---------------------------- MODULE PlannerProofs ----------------------------
(***************************************************************************)
(* The planner for any list, any number of commands beside the daemon and  *)
(* any caps: what it never queues, never loses and never exceeds.          *)
(***************************************************************************)
EXTENDS Planner, TLAPS, FiniteSetTheorems, SequenceTheorems, WellFoundedInduction

Proc == [pc : {"idle", "confirm", "apply", "look", "insert", "settings"},
         todo : Seq(Episodes), cap : Nat, queued : Nat,
         by : {"none", "plan", "confirm", "single"}]

\* An applier at work knows for whom, and between a row and its job it has an
\* episode.
ProcOK(r) ==
    /\ r \in Proc
    /\ r.pc \in {"look", "insert"} => r.todo # <<>>
    /\ r.by = "none" <=> r.pc \in {"idle", "confirm", "settings"}

ProcsOK == proc = [p \in Planners |-> proc[p]] /\ \A p \in Planners : ProcOK(proc[p])

\* A show without a count is watched up to the bound.
ListOK ==
    /\ mal \in [Shows -> [status : ListStatus, watched : 0 .. MaxEpisode]]
    /\ \A s \in Shows : Totals[s] = NoCount => mal[s].watched < MaxEpisode

TablesOK ==
    /\ eps \in [Episodes -> {"none", "missing", "done"}]
    /\ searching \in [Episodes -> Nat] /\ moved \in [Episodes -> BOOLEAN]
    /\ slipped \subseteq Episodes /\ batched \subseteq Episodes

FlagsOK == first \in BOOLEAN /\ consent \in BOOLEAN /\ listed \in BOOLEAN

CountsOK ==
    /\ lastPlan \in 0 .. Week /\ found \in {0, Finds} /\ today \in Nat
    /\ asks \in 0 .. MaxAsks /\ kills \in 0 .. MaxKills

Types == ListOK /\ TablesOK /\ FlagsOK /\ CountsOK /\ pending \subseteq Seq(Episodes) /\ ProcsOK

\* Whoever is about to queue has the user's consent, and so has the setting.
ConsentOK ==
    /\ first \/ listed => consent
    /\ \A p \in Planners : proc[p].by # "none" \/ proc[p].pc = "settings" => consent

\* Where the daemon is within the cap of its plan, and that it planned at most
\* once since the day began.
CapOK ==
    LET d == proc["daemon"]
    IN  /\ d.pc \in {"idle", "apply", "look", "insert"} /\ d.by \in {"none", "plan"}
        /\ kills = 0 =>
             /\ d.pc = "idle" => today <= DailyCap /\ (today > 0 => lastPlan < Week)
             /\ d.pc # "idle" => today <= d.queued /\ d.queued <= d.cap /\ d.cap <= DailyCap
             /\ d.pc \in {"look", "insert"} => d.queued < d.cap

\* The inductive invariant.
Inv == Types /\ ConsentOK /\ NoPileUp /\ MissingHasJob /\ CapOK

-----------------------------------------------------------------------------
(* The preview.                                                            *)

\* A set of numbers has a least one.
LEMMA LeastIn ==
    ASSUME NEW S, S \subseteq Nat, S # {}
    PROVE  \E x \in S : \A y \in S : x <= y
<1> DEFINE R == OpToRel(<, Nat)
<1>1. IsWellFoundedOn(R, Nat)
  BY NatLessThanWellFounded, Zenon
<1>2. \A x, y \in Nat : y < x => <<y, x>> \in R
  BY DEF OpToRel
<1> HIDE DEF R
<1>3. PICK x \in S : \A y \in S : ~ (<<y, x>> \in R)
  BY <1>1, WFMin
<1>4. \A y \in S : ~(y < x)
  BY <1>2, <1>3
<1> QED
  BY <1>4

\* A chain wants an episode that there is.
LEMMA WantsEpisode ==
    ASSUME ListOK, NEW c \in DOMAIN Chains, Wants(c) # NoEpisode
    PROVE  Wants(c) \in Episodes
<1> DEFINE chain == Chains[c]
           entries == [i \in DOMAIN chain |-> to_season_entry(chain[i])]
           plan == chain[1] \in AutoPlan
           stops == {i \in DOMAIN entries : ~WalkedPast(entries[i], plan)}
           k == CHOOSE i \in stops : \A l \in stops : i <= l
           w == wanted(entries, plan)
<1>1. chain \in Seq(Shows) /\ DOMAIN chain \subseteq Nat
  BY PlannerAssumption
<1>2. /\ w # Nothing /\ Wants(c) = <<chain[w.at], w.episode>>
  BY DEF Wants
<1>3. /\ stops # {} /\ w = [at |-> k, episode |-> entries[k].watched + 1]
      /\ \/ entries[k].status = "watching" /\ ~FullyWatched(entries[k])
         \/ entries[k].status = "plan_to_watch" /\ plan
  BY <1>2 DEF wanted
<1>4. k \in stops
  <2>1. stops \subseteq Nat
    BY <1>1
  <2> HIDE DEF stops
  <2>2. \E i \in stops : \A l \in stops : i <= l
    BY <1>3, <2>1, LeastIn
  <2> QED
    BY <2>2
<1> HIDE DEF k, w
<1> DEFINE s == chain[k]
<1>5. k \in DOMAIN chain /\ s \in Shows /\ entries[k] = to_season_entry(s)
      /\ ~WalkedPast(entries[k], plan)
  BY <1>1, <1>4
<1>6. ~FullyWatched(entries[k])
  BY <1>3, <1>5 DEF WalkedPast
<1>7. entries[k].watched = mal[s].watched /\ entries[k].total = Totals[s]
  BY <1>5 DEF to_season_entry
<1>8. mal[s].watched \in Nat /\ Totals[s] \in Nat /\ Totals[s] <= MaxEpisode
      /\ mal[s].watched <= MaxEpisode /\ MaxEpisode \in Nat
      /\ (Totals[s] = NoCount => mal[s].watched < MaxEpisode)
  BY <1>5, PlannerAssumption DEF ListOK
<1>9. /\ mal[s].watched + 1 \in 1 .. MaxEpisode
      /\ Totals[s] = NoCount \/ mal[s].watched + 1 <= Totals[s]
  BY <1>6, <1>7, <1>8 DEF FullyWatched, NoCount
<1>10. Wants(c) = <<s, mal[s].watched + 1>>
  BY <1>2, <1>3, <1>7
<1> QED
  BY <1>5, <1>9, <1>10 DEF Episodes

\* An ascending list of a finite set of numbers is a sequence of them.
LEMMA InOrderType ==
    ASSUME NEW S, IsFiniteSet(S), NEW o \in InOrder(S)
    PROVE  /\ o \in Seq(S) /\ DOMAIN o = 1 .. Cardinality(S) /\ Cardinality(S) \in Nat
           /\ \A i \in 1 .. Cardinality(S) : o[i] \in S
<1>1. Cardinality(S) \in Nat /\ o \in [1 .. Cardinality(S) -> S]
  BY FS_CardinalityType DEF InOrder
<1> QED
  BY <1>1, SeqDef

\* A preview lists episodes.
LEMMA PreviewType ==
    ASSUME ListOK PROVE build_preview \subseteq Seq(Episodes)
<1> SUFFICES ASSUME NEW q \in build_preview PROVE q \in Seq(Episodes)
  OBVIOUS
<1> DEFINE new == {c \in DOMAIN Wanted : Wanted[c] # NoEpisode /\ eps[Wanted[c]] = "none"}
<1>1. q \in Preview(Wanted, new)
  BY DEF build_preview
<1>2. PICK o \in InOrder(new) : q = [i \in DOMAIN o |-> Wanted[o[i]]]
  BY <1>1 DEF Preview
<1>3. \A c \in new : Wanted[c] \in Episodes
  BY WantsEpisode DEF Wanted
<1>4. IsFiniteSet(new)
  <2>1. DOMAIN Wanted = 1 .. Len(Chains) /\ Len(Chains) \in Nat
    BY PlannerAssumption DEF Wanted
  <2>2. IsFiniteSet(1 .. Len(Chains))
    BY <2>1, FS_Interval
  <2> QED
    BY <2>1, <2>2, FS_Subset
<1> HIDE DEF new
<1> DEFINE n == Cardinality(new)
<1>5. n \in Nat /\ DOMAIN o = 1 .. n /\ \A i \in 1 .. n : o[i] \in new
  BY <1>4, InOrderType
<1>6. q \in [1 .. n -> Episodes]
  BY <1>2, <1>3, <1>5
<1> QED
  BY <1>5, <1>6, SeqDef

-----------------------------------------------------------------------------
(* Appliers.                                                               *)

\* What the actions make of an applier.
LEMMA ProcWrites ==
    ASSUME NEW r, ProcOK(r)
    PROVE  /\ r.pc = "idle" => ProcOK([r EXCEPT !.pc = "confirm"])
           /\ r.pc = "apply" /\ r.todo # <<>> => ProcOK([r EXCEPT !.pc = "look"])
           /\ r.pc = "look" => ProcOK([r EXCEPT !.pc = "insert"])
           /\ r.pc \in {"look", "insert"} =>
                /\ ProcOK([r EXCEPT !.pc = "apply", !.todo = Tail(@), !.queued = @ + 1])
                /\ Head(r.todo) \in Episodes
<1> USE DEF ProcOK, Proc
<1>1. r.pc = "idle" => ProcOK([r EXCEPT !.pc = "confirm"])
  OBVIOUS
<1>2. r.pc = "apply" /\ r.todo # <<>> => ProcOK([r EXCEPT !.pc = "look"])
  OBVIOUS
<1>3. r.pc = "look" => ProcOK([r EXCEPT !.pc = "insert"])
  OBVIOUS
<1>4. ASSUME r.pc \in {"look", "insert"}
      PROVE  /\ ProcOK([r EXCEPT !.pc = "apply", !.todo = Tail(@), !.queued = @ + 1])
             /\ Head(r.todo) \in Episodes
  <2>1. r.todo \in Seq(Episodes) /\ r.todo # <<>>
    BY <1>4
  <2>2. Tail(r.todo) \in Seq(Episodes) /\ Head(r.todo) \in Episodes
    BY <2>1
  <2>3. r.queued + 1 \in Nat
    OBVIOUS
  <2> QED
    BY <1>4, <2>2, <2>3
<1> QED
  BY <1>1, <1>2, <1>3, <1>4

LEMMA NewProcs ==
    /\ ProcOK(Idle) /\ ProcOK([Idle EXCEPT !.pc = "settings"])
    /\ \A q \in Seq(Episodes), n \in Nat, by \in {"plan", "confirm", "single"} :
         ProcOK([pc |-> "apply", todo |-> q, queued |-> 0, by |-> by, cap |-> n])
<1> USE DEF ProcOK, Proc, Idle
<1>1. <<>> \in Seq(Episodes)
  OBVIOUS
<1>2. ProcOK(Idle)
  BY <1>1
<1>3. ProcOK([Idle EXCEPT !.pc = "settings"])
  BY <1>1
<1>4. \A q \in Seq(Episodes), n \in Nat, by \in {"plan", "confirm", "single"} :
         ProcOK([pc |-> "apply", todo |-> q, queued |-> 0, by |-> by, cap |-> n])
  OBVIOUS
<1> QED
  BY <1>2, <1>3, <1>4

\* The room of a plan does not exceed its cap.
LEMMA RoomType ==
    ASSUME CountsOK, NEW cap \in Nat
    PROVE  Room(cap) \in Nat /\ Room(cap) <= cap
BY PlannerAssumption DEF CountsOK, Room

\* A step of one applier.
LEMMA OneMoves ==
    ASSUME ProcsOK, NEW p \in Planners, NEW new, ProcOK(new), proc' = [proc EXCEPT ![p] = new]
    PROVE  /\ ProcsOK' /\ proc'[p] = new /\ \A r \in Planners \ {p} : proc'[r] = proc[r]
BY DEF ProcsOK

\* An applier outside look and insert says nothing of any job.
LEMMA JobsKept ==
    ASSUME Inv, NEW p \in Planners, \A r \in Planners \ {p} : proc'[r] = proc[r],
           proc[p].pc \notin {"look", "insert"}, proc'[p].pc \notin {"look", "insert"},
           UNCHANGED <<searching, moved, slipped>>, batched \subseteq batched',
           \A e \in Episodes : eps'[e] = "missing" => eps[e] = "missing" \/ e \in batched'
    PROVE  NoPileUp' /\ MissingHasJob'
<1>1. \A e : At({"insert"}, e)' = At({"insert"}, e)
             /\ At({"look", "insert"}, e)' = At({"look", "insert"}, e)
  BY DEF At
<1>2. NoPileUp'
  BY <1>1 DEF Inv, NoPileUp
<1>3. MissingHasJob'
  BY <1>1 DEF Inv, MissingHasJob
<1> QED
  BY <1>2, <1>3

\* The daemon goes on as it was when another process moves.
LEMMA DaemonKept ==
    ASSUME Inv, proc'["daemon"] = proc["daemon"],
           UNCHANGED <<kills, today>>, lastPlan' \in {lastPlan, 0}
    PROVE  CapOK'
BY PlannerAssumption DEF Inv, CapOK

-----------------------------------------------------------------------------
(* One lemma per action.                                                   *)

\* Nothing is planned; a first sync that is complete was confirmed.
LEMMA InitOK == Init => Inv
<1> SUFFICES ASSUME Init PROVE Inv
  OBVIOUS
<1> USE DEF Init
<1>1. ProcsOK /\ \A p \in Planners : proc[p] = Idle
  BY NewProcs DEF ProcsOK
<1>2. ListOK
  BY PlannerAssumption DEF ListOK
<1>3. TablesOK
  BY DEF TablesOK
<1>4. CountsOK
  BY PlannerAssumption DEF CountsOK
<1>5. FlagsOK
  BY DEF FlagsOK
<1>6. Types
  BY <1>1, <1>2, <1>3, <1>4, <1>5 DEF Types
<1>7. ConsentOK
  BY <1>1 DEF ConsentOK, Idle
<1>8. NoPileUp
  <2>1. IsFiniteSet(Planners)
    BY PlannerAssumption, FS_AddElement DEF Planners
  <2>2. Cardinality(Planners) \in Nat
    BY <2>1, FS_CardinalityType
  <2>3. \A e : At({"insert"}, e) = {}
    BY <1>1 DEF At, Idle
  <2> QED
    BY <2>2, <2>3, FS_EmptySet DEF NoPileUp
<1>9. MissingHasJob
  BY DEF MissingHasJob
<1>10. CapOK
  <2>1. proc["daemon"] = Idle
    BY <1>1 DEF Planners
  <2> QED
    BY <2>1, PlannerAssumption DEF CapOK, Idle
<1> QED
  BY <1>6, <1>7, <1>8, <1>9, <1>10 DEF Inv

\* The daemon is one of the planners.
LEMMA DaemonPlans == "daemon" \in Planners
BY DEF Planners

\* A plan applies its preview, or stores it and perhaps goes on to confirm.
LEMMA PlanOK == ASSUME Inv, NEW p \in Planners, Plan(p) PROVE Inv'
<1>0. /\ proc[p].pc = "idle" /\ due(p) /\ ProcOK(proc[p])
      /\ UNCHANGED <<mal, tables, first, lastPlan, found, asks, kills, history>>
  BY DEF Plan, Inv, Types, ProcsOK
<1>1. ListOK' /\ TablesOK' /\ FlagsOK' /\ CountsOK'
  BY <1>0 DEF Inv, Types, ListOK, TablesOK, FlagsOK, CountsOK, tables, history
<1>2. CASE /\ first /\ UNCHANGED pending
           /\ \E preview \in build_preview : Apply(p, preview, DailyCap, "plan")
  <2>1. PICK q \in build_preview : Apply(p, q, DailyCap, "plan")
    BY <1>2
  <2> DEFINE new == [pc |-> "apply", todo |-> q, queued |-> 0, by |-> "plan",
                     cap |-> Room(DailyCap)]
  <2>2. Room(DailyCap) \in Nat /\ Room(DailyCap) <= DailyCap
    BY RoomType, PlannerAssumption DEF Inv, Types
  <2>3. ProcOK(new)
    BY <2>2, NewProcs, PreviewType DEF Inv, Types
  <2>4. proc' = [proc EXCEPT ![p] = new]
    BY <2>1 DEF Apply
  <2>5. new.pc = "apply" /\ new.by = "plan" /\ new.queued = 0 /\ new.cap = Room(DailyCap)
    OBVIOUS
  <2> HIDE DEF new
  <2>6. ProcsOK' /\ proc'[p] = new /\ \A r \in Planners \ {p} : proc'[r] = proc[r]
    BY <2>3, <2>4, OneMoves DEF Inv, Types
  <2>7. ConsentOK'
    BY <1>0, <1>2, <2>5, <2>6 DEF Inv, ConsentOK, history
  <2>8. NoPileUp' /\ MissingHasJob'
    BY <1>0, <2>5, <2>6, JobsKept DEF tables, history
  <2>9. CapOK'
    <3>1. CASE p = "daemon"
      <4>1. kills = 0 => today = 0
        BY <1>0, <3>1, PlannerAssumption DEF due, Inv, CapOK, Types, CountsOK
      <4> QED
        BY <1>0, <2>2, <2>5, <2>6, <3>1, <4>1 DEF CapOK, history
    <3>2. CASE p # "daemon"
      BY <1>0, <2>6, <3>2, DaemonKept, DaemonPlans DEF history
    <3> QED
      BY <3>1, <3>2
  <2> QED
    BY <1>1, <1>2, <2>6, <2>7, <2>8, <2>9 DEF Inv, Types
<1>3. CASE /\ ~first /\ pending' = build_preview
           /\ UNCHANGED proc \/ (p # "daemon" /\ proc' = [proc EXCEPT ![p].pc = "confirm"])
  <2> DEFINE new == [proc[p] EXCEPT !.pc = "confirm"]
  <2>1. pending' \subseteq Seq(Episodes)
    BY <1>3, PreviewType DEF Inv, Types
  <2>2. ProcOK(new) /\ new.pc = "confirm" /\ new.by = proc[p].by
    <3>1. ProcOK(new)
      BY <1>0, ProcWrites
    <3> QED
      BY <1>0, <3>1 DEF ProcOK, Proc
  <2> HIDE DEF new
  <2>3. /\ ProcsOK' /\ \A r \in Planners \ {p} : proc'[r] = proc[r]
        /\ proc'[p] \in {proc[p], new} /\ proc'["daemon"] = proc["daemon"]
    <3>1. CASE UNCHANGED proc
      BY <3>1 DEF Inv, Types, ProcsOK
    <3>2. CASE p # "daemon" /\ proc' = [proc EXCEPT ![p].pc = "confirm"]
      <4>1. proc' = [proc EXCEPT ![p] = new]
        BY <3>2 DEF new
      <4> QED
        BY <2>2, <3>2, <4>1, OneMoves, DaemonPlans DEF Inv, Types
    <3> QED
      BY <1>3, <3>1, <3>2
  <2>4. ConsentOK'
    BY <1>0, <2>2, <2>3 DEF Inv, ConsentOK, history
  <2>5. NoPileUp' /\ MissingHasJob'
    BY <1>0, <2>2, <2>3, JobsKept DEF tables, history
  <2>6. CapOK'
    BY <1>0, <2>3, DaemonKept DEF history
  <2> QED
    BY <1>1, <2>1, <2>3, <2>4, <2>5, <2>6 DEF Inv, Types
<1> QED
  BY <1>2, <1>3 DEF Plan

\* Only a command confirms, and it carries the consent.
LEMMA ConfirmOK ==
    ASSUME Inv, NEW p \in Planners, NEW bypass \in BOOLEAN, Confirm(p, bypass)
    PROVE  Inv'
<1> DEFINE cap == IF bypass THEN Unlimited ELSE IF first THEN DailyCap ELSE FirstCap
<1>0. /\ proc[p].pc = "confirm" /\ consent' = TRUE
      /\ UNCHANGED <<mal, tables, first, pending, lastPlan, found, asks, kills,
                     listed, today, slipped, batched>>
  BY DEF Confirm
<1>1. PICK q \in (IF pending = {} THEN build_preview ELSE pending) : Apply(p, q, cap, "confirm")
  BY DEF Confirm
<1>2. q \in Seq(Episodes)
  BY PreviewType DEF Inv, Types
<1>3. cap \in Nat
  BY PlannerAssumption DEF Unlimited
<1> HIDE DEF cap
<1> DEFINE new == [pc |-> "apply", todo |-> q, queued |-> 0, by |-> "confirm", cap |-> Room(cap)]
<1>4. ProcOK(new)
  BY <1>2, <1>3, RoomType, NewProcs DEF Inv, Types
<1>5. proc' = [proc EXCEPT ![p] = new] /\ new.pc = "apply"
  BY <1>1 DEF Apply
<1> HIDE DEF new
<1>6. ProcsOK' /\ proc'[p] = new /\ \A r \in Planners \ {p} : proc'[r] = proc[r]
  BY <1>4, <1>5, OneMoves DEF Inv, Types
<1>7. p # "daemon" /\ proc'["daemon"] = proc["daemon"]
  BY <1>0, <1>6, DaemonPlans DEF Inv, CapOK
<1>8. Types'
  BY <1>0, <1>6 DEF Inv, Types, ListOK, TablesOK, FlagsOK, CountsOK, tables
<1>9. ConsentOK'
  BY <1>0 DEF ConsentOK
<1>10. NoPileUp' /\ MissingHasJob'
  BY <1>0, <1>5, <1>6, JobsKept DEF tables
<1>11. CapOK'
  BY <1>0, <1>7, DaemonKept
<1> QED
  BY <1>8, <1>9, <1>10, <1>11 DEF Inv

\* A show that is asked for: its episodes one by one, or its rows and one job.
LEMMA SingleOK ==
    ASSUME Inv, NEW p \in Planners, NEW s \in Shows, NEW ep, PlanSingle(p, s, ep)
    PROVE  Inv'
<1> DEFINE mine == {e \in Episodes : e[1] = s /\ (ep = 0 \/ e[2] = ep)}
           todo == IF ep = 0 THEN {e \in mine : eps[e] # "done"} ELSE mine
           batch == ep = 0 /\ Cardinality(todo) > 1 /\ s \in PreferBatch
           numbers == {e[2] : e \in todo}
           list(o) == IF batch THEN <<<<s, o[1]>>>> ELSE [i \in DOMAIN o |-> <<s, o[i]>>]
           new(o) == [pc |-> "apply", todo |-> list(o), queued |-> 0, by |-> "single",
                      cap |-> Unlimited]
<1>0. /\ proc[p].pc = "idle" /\ p # "daemon" /\ todo # {} /\ consent' = TRUE
      /\ asks < MaxAsks /\ asks' = asks + 1
      /\ eps' = [e \in Episodes |->
                   IF batch /\ e \in todo /\ eps[e] = "none" THEN "missing" ELSE eps[e]]
      /\ batched' = IF batch THEN batched \cup todo ELSE batched
      /\ UNCHANGED <<mal, searching, moved, first, pending, lastPlan, found, kills,
                     listed, today, slipped>>
  BY DEF PlanSingle
<1>1. PICK o \in InOrder(numbers) : proc' = [proc EXCEPT ![p] = new(o)]
  BY DEF PlanSingle
<1>2. todo \subseteq Episodes /\ \A n \in numbers : <<s, n>> \in Episodes /\ n \in 1 .. MaxEpisode
  BY DEF Episodes
<1>3. IsFiniteSet(numbers) /\ numbers # {}
  <2>1. IsFiniteSet(1 .. MaxEpisode)
    BY PlannerAssumption, FS_Interval
  <2>2. numbers \in SUBSET (1 .. MaxEpisode)
    BY <1>2
  <2>3. numbers # {}
    BY <1>0
  <2> HIDE DEF numbers
  <2> QED
    BY <2>1, <2>2, <2>3, FS_Subset
<1> HIDE DEF todo, batch, numbers
<1> DEFINE n == Cardinality(numbers)
<1>4. n \in Nat /\ n >= 1 /\ DOMAIN o = 1 .. n /\ \A i \in 1 .. n : o[i] \in numbers
  <2>1. n \in Nat /\ DOMAIN o = 1 .. n /\ \A i \in 1 .. n : o[i] \in numbers
    BY <1>1, <1>3, InOrderType
  <2>2. n # 0
    BY <1>3, FS_EmptySet
  <2> QED
    BY <2>1, <2>2
<1> HIDE DEF n
<1>5. list(o) \in Seq(Episodes)
  <2>1. CASE batch
    BY <1>2, <1>4, <2>1
  <2>2. CASE ~batch
    <3>1. [i \in 1 .. n |-> <<s, o[i]>>] \in [1 .. n -> Episodes]
      BY <1>2, <1>4
    <3> QED
      BY <1>4, <2>2, <3>1, SeqDef
  <2> QED
    BY <2>1, <2>2
<1> HIDE DEF list
<1>6. ProcOK(new(o)) /\ new(o).pc = "apply"
  <2>1. Unlimited \in Nat
    BY DEF Unlimited
  <2> QED
    BY <1>5, <2>1, NewProcs
<1> HIDE DEF new
<1>7. ProcsOK' /\ proc'[p] = new(o) /\ \A r \in Planners \ {p} : proc'[r] = proc[r]
  BY <1>1, <1>6, OneMoves DEF Inv, Types
<1>8. Types'
  <2>1. TablesOK'
    BY <1>0, <1>2 DEF Inv, Types, TablesOK
  <2>2. CountsOK'
    BY <1>0, PlannerAssumption DEF Inv, Types, CountsOK
  <2>3. ListOK' /\ FlagsOK'
    BY <1>0 DEF Inv, Types, ListOK, FlagsOK
  <2> QED
    BY <1>0, <1>7, <2>1, <2>2, <2>3 DEF Inv, Types
<1>9. ConsentOK'
  BY <1>0 DEF ConsentOK
<1>10. NoPileUp' /\ MissingHasJob'
  <2>1. \A e \in Episodes : eps'[e] = "missing" => eps[e] = "missing" \/ e \in batched'
    BY <1>0
  <2> QED
    BY <1>0, <1>6, <1>7, <2>1, JobsKept
<1>11. CapOK'
  BY <1>0, <1>7, DaemonKept, DaemonPlans
<1> QED
  BY <1>8, <1>9, <1>10, <1>11 DEF Inv

\* The row is made, and its applier goes on to its job.
LEMMA EnsureOK == ASSUME Inv, NEW p \in Planners, ensure_episode(p) PROVE Inv'
<1> DEFINE h == Head(proc[p].todo)
           new == [proc[p] EXCEPT !.pc = "look"]
<1>0. /\ proc[p].pc = "apply" /\ proc[p].todo # <<>> /\ ~(proc[p].queued >= proc[p].cap)
      /\ eps' = [eps EXCEPT ![h] = IF @ = "none" THEN "missing" ELSE @]
      /\ proc' = [proc EXCEPT ![p] = new]
      /\ UNCHANGED <<mal, searching, moved, first, pending, lastPlan, found, asks, kills, history>>
  BY DEF ensure_episode, CapReached
<1>1. ProcOK(proc[p]) /\ proc[p] \in Proc
  BY DEF Inv, Types, ProcsOK, ProcOK
<1>2. ProcOK(new) /\ h \in Episodes
  <2>1. proc[p].todo \in Seq(Episodes)
    BY <1>1 DEF Proc
  <2>2. h \in Episodes
    BY <1>0, <2>1
  <2>3. ProcOK(new)
    BY <1>0, <1>1, ProcWrites
  <2> QED
    BY <2>2, <2>3
<1>3. /\ new.pc = "look" /\ new.todo = proc[p].todo /\ new.by = proc[p].by
      /\ new.queued = proc[p].queued /\ new.cap = proc[p].cap
  BY <1>1 DEF Proc
<1> HIDE DEF new, h
<1>4. ProcsOK' /\ proc'[p] = new /\ \A r \in Planners \ {p} : proc'[r] = proc[r]
  BY <1>0, <1>2, OneMoves DEF Inv, Types
<1>5. Types'
  BY <1>0, <1>4 DEF Inv, Types, ListOK, TablesOK, FlagsOK, CountsOK, history
<1>6. ConsentOK'
  BY <1>0, <1>1, <1>3, <1>4 DEF Inv, ConsentOK, ProcOK, history
<1>7. NoPileUp'
  <2>1. \A e : At({"insert"}, e)' = At({"insert"}, e)
    BY <1>0, <1>3, <1>4 DEF At
  <2> QED
    BY <1>0, <2>1 DEF Inv, NoPileUp
<1>8. MissingHasJob'
  <2>1. \A e : At({"look", "insert"}, e) \subseteq At({"look", "insert"}, e)'
    BY <1>0, <1>3, <1>4 DEF At
  <2>2. \A e : e = h => p \in At({"look", "insert"}, e)'
    BY <1>3, <1>4 DEF At, h
  <2>3. \A e \in Episodes : e # h => eps'[e] = eps[e]
    BY <1>0 DEF Inv, Types, TablesOK
  <2>4. ASSUME NEW e \in Episodes, eps'[e] = "missing"
        PROVE  \/ searching'[e] > 0 \/ moved'[e] \/ At({"look", "insert"}, e)' # {}
               \/ e \in slipped' \cup batched'
    <3>1. CASE e = h
      BY <2>2, <3>1
    <3>2. CASE e # h
      BY <1>0, <2>1, <2>3, <2>4, <3>2 DEF Inv, MissingHasJob, history
    <3> QED
      BY <3>1, <3>2
  <2> QED
    BY <2>4 DEF MissingHasJob
<1>9. CapOK'
  <2>1. CASE p = "daemon"
    BY <1>0, <1>1, <1>3, <1>4, <2>1 DEF Inv, CapOK, Proc, history
  <2>2. CASE p # "daemon"
    BY <1>0, <1>4, <2>2, DaemonKept, DaemonPlans DEF history
  <2> QED
    BY <2>1, <2>2
<1> QED
  BY <1>5, <1>6, <1>7, <1>8, <1>9 DEF Inv

\* What Advanced keeps and counts.
LEMMA AdvancedShape ==
    ASSUME Inv, NEW p \in Planners, proc[p].pc \in {"look", "insert"}
    PROVE  /\ ProcOK(Advanced(p)) /\ Head(proc[p].todo) \in Episodes
           /\ Advanced(p).pc = "apply" /\ Advanced(p).by = proc[p].by
           /\ Advanced(p).cap = proc[p].cap /\ Advanced(p).queued = proc[p].queued + 1
<1>1. ProcOK(proc[p]) /\ proc[p] \in Proc
  BY DEF Inv, Types, ProcsOK, ProcOK
<1>2. ProcOK(Advanced(p)) /\ Head(proc[p].todo) \in Episodes
  BY <1>1, ProcWrites DEF Advanced
<1> QED
  BY <1>1, <1>2 DEF Advanced, Proc

\* The planners are finitely many.
LEMMA PlannersFinite == IsFiniteSet(Planners) /\ Cardinality(Planners) \in Nat
<1>1. IsFiniteSet(Planners)
  BY PlannerAssumption, FS_AddElement DEF Planners
<1> QED
  BY <1>1, FS_CardinalityType

\* Every episode that an applier looks at has a job, or gets one from it; only
\* one that has none gets appliers that will insert.
LEMMA LookOK == ASSUME Inv, NEW p \in Planners, enqueue_look(p) PROVE Inv'
<1> DEFINE h == Head(proc[p].todo)
           goes == [proc[p] EXCEPT !.pc = "insert"]
<1>0. /\ proc[p].pc = "look"
      /\ proc' = [proc EXCEPT ![p] = IF searching[h] > 0 THEN Advanced(p) ELSE goes]
      /\ UNCHANGED <<mal, tables, first, pending, lastPlan, found, asks, kills, history>>
  BY DEF enqueue_look
<1>1. ProcOK(proc[p]) /\ proc[p] \in Proc
  BY DEF Inv, Types, ProcsOK, ProcOK
<1>2. /\ ProcOK(Advanced(p)) /\ h \in Episodes
      /\ Advanced(p).pc = "apply" /\ Advanced(p).by = proc[p].by
      /\ Advanced(p).cap = proc[p].cap /\ Advanced(p).queued = proc[p].queued + 1
  BY <1>0, AdvancedShape
<1>3. ProcOK(goes)
  BY <1>0, <1>1, ProcWrites
<1>4. /\ goes.pc = "insert" /\ goes.todo = proc[p].todo /\ goes.by = proc[p].by
      /\ goes.queued = proc[p].queued /\ goes.cap = proc[p].cap
  BY <1>1 DEF Proc
<1> HIDE DEF goes, h
<1> DEFINE new == IF searching[h] > 0 THEN Advanced(p) ELSE goes
<1>5. ProcOK(new) /\ new.by = proc[p].by /\ new.cap = proc[p].cap /\ new.pc \in {"apply", "insert"}
  BY <1>2, <1>3, <1>4
<1>6. ProcsOK' /\ proc'[p] = new /\ \A r \in Planners \ {p} : proc'[r] = proc[r]
  BY <1>0, <1>5, OneMoves DEF Inv, Types
<1>7. Types'
  BY <1>0, <1>6 DEF Inv, Types, ListOK, TablesOK, FlagsOK, CountsOK, tables, history
<1>8. ConsentOK'
  BY <1>0, <1>1, <1>5, <1>6 DEF Inv, ConsentOK, ProcOK, history
<1>9. NoPileUp'
  <2> SUFFICES ASSUME NEW e \in Episodes
               PROVE  searching[e] + Cardinality(At({"insert"}, e)') <= Cardinality(Planners)
    BY <1>0 DEF NoPileUp, tables
  <2>1. CASE e # h \/ searching[h] > 0
    <3>1. At({"insert"}, e)' = At({"insert"}, e)
      BY <1>0, <1>2, <1>4, <1>6, <2>1 DEF At, h
    <3> QED
      BY <3>1 DEF Inv, NoPileUp
  <2>2. CASE e = h /\ ~(searching[h] > 0)
    <3>1. At({"insert"}, e)' \in SUBSET Planners
      BY DEF At
    <3>2. Cardinality(At({"insert"}, e)') <= Cardinality(Planners)
      BY <3>1, PlannersFinite, FS_Subset
    <3>3. searching[e] = 0
      BY <2>2 DEF Inv, Types, TablesOK
    <3>4. Cardinality(At({"insert"}, e)') \in Nat
      BY <3>1, PlannersFinite, FS_Subset, FS_CardinalityType
    <3> QED
      BY <3>2, <3>3, <3>4
  <2> QED
    BY <2>1, <2>2
<1>10. MissingHasJob'
  <2> SUFFICES ASSUME NEW e \in Episodes, eps[e] = "missing"
               PROVE  \/ searching[e] > 0 \/ moved[e] \/ At({"look", "insert"}, e)' # {}
                      \/ e \in slipped \cup batched
    BY <1>0 DEF MissingHasJob, tables, history
  <2>1. CASE e # h \/ ~(searching[h] > 0)
    <3>1. At({"look", "insert"}, e) \subseteq At({"look", "insert"}, e)'
      BY <1>0, <1>2, <1>4, <1>6, <2>1 DEF At, h
    <3> QED
      BY <3>1 DEF Inv, MissingHasJob
  <2> QED
    BY <2>1
<1>11. CapOK'
  <2>1. CASE p = "daemon"
    <3>1. proc[p].queued \in Nat /\ proc[p].cap \in Nat /\ today \in Nat
      BY <1>1 DEF Proc, Inv, Types, CountsOK
    <3>2. new.queued = proc[p].queued \/ (new.pc = "apply" /\ new.queued = proc[p].queued + 1)
      BY <1>2, <1>4
    <3> HIDE DEF new
    <3> QED
      BY <1>0, <1>5, <1>6, <2>1, <3>1, <3>2 DEF Inv, CapOK, history
  <2>2. CASE p # "daemon"
    BY <1>0, <1>6, <2>2, DaemonKept, DaemonPlans DEF history
  <2> QED
    BY <2>1, <2>2
<1> QED
  BY <1>7, <1>8, <1>9, <1>10, <1>11 DEF Inv

\* A job for an applier that stops being one.
LEMMA InsertOK == ASSUME Inv, NEW p \in Planners, enqueue_insert(p) PROVE Inv'
<1> DEFINE h == Head(proc[p].todo)
           new == Advanced(p)
<1>0. /\ proc[p].pc = "insert" /\ proc' = [proc EXCEPT ![p] = new]
      /\ searching' = [searching EXCEPT ![h] = @ + 1]
      /\ listed' = (listed \/ proc[p].by # "single")
      /\ today' = IF p = "daemon" /\ today <= DailyCap THEN today + 1 ELSE today
      /\ UNCHANGED <<mal, eps, moved, first, pending, lastPlan, found, asks, kills,
                     consent, slipped, batched>>
  BY DEF enqueue_insert
<1>1. ProcOK(proc[p]) /\ proc[p] \in Proc
  BY DEF Inv, Types, ProcsOK, ProcOK
<1>2. /\ ProcOK(new) /\ h \in Episodes /\ new.pc = "apply" /\ new.by = proc[p].by
      /\ new.cap = proc[p].cap /\ new.queued = proc[p].queued + 1
  BY <1>0, AdvancedShape
<1> HIDE DEF new, h
<1>3. ProcsOK' /\ proc'[p] = new /\ \A r \in Planners \ {p} : proc'[r] = proc[r]
  BY <1>0, <1>2, OneMoves DEF Inv, Types
<1>4. \A e \in Episodes : searching[e] \in Nat /\
        searching'[e] = IF e = h THEN searching[e] + 1 ELSE searching[e]
  BY <1>0 DEF Inv, Types, TablesOK
<1>5. Types'
  <2>1. searching' \in [Episodes -> Nat]
    <3>1. searching \in [Episodes -> Nat] /\ searching[h] + 1 \in Nat
      BY <1>2, <1>4 DEF Inv, Types, TablesOK
    <3> QED
      BY <1>0, <3>1
  <2>2. CountsOK'
    BY <1>0 DEF Inv, Types, CountsOK
  <2>3. FlagsOK'
    BY <1>0 DEF Inv, Types, FlagsOK
  <2> QED
    BY <1>0, <1>3, <2>1, <2>2, <2>3 DEF Inv, Types, ListOK, TablesOK
<1>6. ConsentOK'
  BY <1>0, <1>1, <1>2, <1>3 DEF Inv, ConsentOK, ProcOK
<1>7. NoPileUp'
  <2> SUFFICES ASSUME NEW e \in Episodes
               PROVE  searching'[e] + Cardinality(At({"insert"}, e)') <= Cardinality(Planners)
    BY DEF NoPileUp
  <2>1. searching[e] + Cardinality(At({"insert"}, e)) <= Cardinality(Planners)
    BY DEF Inv, NoPileUp
  <2>2. CASE e # h
    <3>1. At({"insert"}, e)' = At({"insert"}, e)
      BY <1>0, <1>2, <1>3, <2>2 DEF At, h
    <3> QED
      BY <1>4, <2>1, <2>2, <3>1
  <2>3. CASE e = h
    <3>1. At({"insert"}, e)' = At({"insert"}, e) \ {p} /\ p \in At({"insert"}, e)
      BY <1>0, <1>2, <1>3, <2>3 DEF At, h
    <3>2. IsFiniteSet(At({"insert"}, e)) /\ Cardinality(At({"insert"}, e)) \in Nat
      <4>1. At({"insert"}, e) \in SUBSET Planners
        BY DEF At
      <4>2. IsFiniteSet(At({"insert"}, e))
        BY <4>1, PlannersFinite, FS_Subset
      <4> QED
        BY <4>2, FS_CardinalityType
    <3>3. Cardinality(At({"insert"}, e)') = Cardinality(At({"insert"}, e)) - 1
      BY <3>1, <3>2, FS_RemoveElement
    <3> QED
      BY <1>4, <2>1, <2>3, <3>2, <3>3, PlannersFinite
  <2> QED
    BY <2>2, <2>3
<1>8. MissingHasJob'
  <2> SUFFICES ASSUME NEW e \in Episodes, eps[e] = "missing"
               PROVE  \/ searching'[e] > 0 \/ moved[e] \/ At({"look", "insert"}, e)' # {}
                      \/ e \in slipped \cup batched
    BY <1>0 DEF MissingHasJob
  <2>1. CASE e # h
    <3>1. At({"look", "insert"}, e)' = At({"look", "insert"}, e)
      BY <1>0, <1>2, <1>3, <2>1 DEF At, h
    <3> QED
      BY <1>4, <2>1, <3>1 DEF Inv, MissingHasJob
  <2>2. CASE e = h
    BY <1>4, <2>2
  <2> QED
    BY <2>1, <2>2
<1>9. CapOK'
  <2>1. CASE p = "daemon"
    <3>1. proc[p].queued \in Nat /\ proc[p].cap \in Nat /\ today \in Nat
      BY <1>1 DEF Proc, Inv, Types, CountsOK
    <3> QED
      BY <1>0, <1>2, <1>3, <2>1, <3>1 DEF Inv, CapOK
  <2>2. CASE p # "daemon"
    <3>1. today' = today /\ proc'["daemon"] = proc["daemon"]
      BY <1>0, <1>3, <2>2, DaemonPlans
    <3> QED
      BY <1>0, <3>1, DaemonKept
  <2> QED
    BY <2>1, <2>2
<1> QED
  BY <1>5, <1>6, <1>7, <1>8, <1>9 DEF Inv

\* The end of a plan resets the cadence.
LEMMA FinishOK == ASSUME Inv, NEW p \in Planners, Finish(p) PROVE Inv'
<1> DEFINE sets == [Idle EXCEPT !.pc = "settings"]
           new == IF proc[p].by = "plan" THEN Idle ELSE sets
<1>0. /\ proc[p].pc = "apply" /\ proc' = [proc EXCEPT ![p] = new]
      /\ lastPlan' = IF proc[p].by = "single" THEN lastPlan ELSE 0
      /\ pending' = IF proc[p].by = "confirm" THEN {} ELSE pending
      /\ UNCHANGED <<mal, tables, first, found, asks, kills, history>>
  BY DEF Finish
<1>1. ProcOK(proc[p]) /\ proc[p] \in Proc
  BY DEF Inv, Types, ProcsOK, ProcOK
<1>2. /\ ProcOK(new) /\ new.pc = (IF proc[p].by = "plan" THEN "idle" ELSE "settings")
      /\ new.by = "none"
  BY NewProcs DEF Idle
<1> HIDE DEF new
<1>3. ProcsOK' /\ proc'[p] = new /\ \A r \in Planners \ {p} : proc'[r] = proc[r]
  BY <1>0, <1>2, OneMoves DEF Inv, Types
<1>4. Types'
  <2>1. CountsOK'
    BY <1>0, PlannerAssumption DEF Inv, Types, CountsOK, history
  <2> QED
    BY <1>0, <1>3, <2>1 DEF Inv, Types, ListOK, TablesOK, FlagsOK, tables, history
<1>5. ConsentOK'
  BY <1>0, <1>1, <1>2, <1>3 DEF Inv, ConsentOK, ProcOK, history
<1>6. NoPileUp' /\ MissingHasJob'
  BY <1>0, <1>2, <1>3, JobsKept DEF tables, history
<1>7. CapOK'
  <2>1. CASE p = "daemon"
    <3>1. proc[p].by = "plan" /\ new.pc = "idle" /\ lastPlan' = 0
      BY <1>0, <1>1, <1>2, <2>1 DEF Inv, CapOK, ProcOK
    <3>2. proc[p].queued \in Nat /\ proc[p].cap \in Nat /\ today \in Nat
      BY <1>1 DEF Proc, Inv, Types, CountsOK
    <3>3. kills = 0 => today <= DailyCap
      BY <1>0, <2>1, <3>2, PlannerAssumption DEF Inv, CapOK
    <3> QED
      BY <1>0, <1>2, <1>3, <2>1, <3>1, <3>3, PlannerAssumption DEF CapOK, history
  <2>2. CASE p # "daemon"
    <3>1. proc'["daemon"] = proc["daemon"] /\ lastPlan' \in {lastPlan, 0}
      BY <1>0, <1>3, <2>2, DaemonPlans
    <3> QED
      BY <1>0, <3>1, DaemonKept DEF history
  <2> QED
    BY <2>1, <2>2
<1> QED
  BY <1>4, <1>5, <1>6, <1>7 DEF Inv

\* The first run is complete with consent.
LEMMA SettingsOK == ASSUME Inv, NEW p \in Planners, SaveFirstRun(p) PROVE Inv'
<1>0. /\ proc[p].pc = "settings" /\ first' = TRUE /\ proc' = [proc EXCEPT ![p] = Idle]
      /\ UNCHANGED <<mal, tables, pending, lastPlan, found, asks, kills, history>>
  BY DEF SaveFirstRun
<1>1. ProcOK(Idle) /\ Idle.pc = "idle" /\ Idle.by = "none"
  BY NewProcs DEF Idle
<1>2. ProcsOK' /\ proc'[p] = Idle /\ \A r \in Planners \ {p} : proc'[r] = proc[r]
  BY <1>0, <1>1, OneMoves DEF Inv, Types
<1>3. p # "daemon" /\ proc'["daemon"] = proc["daemon"] /\ consent
  BY <1>0, <1>2, DaemonPlans DEF Inv, CapOK, ConsentOK
<1>4. Types'
  BY <1>0, <1>2 DEF Inv, Types, ListOK, TablesOK, FlagsOK, CountsOK, tables, history
<1>5. ConsentOK'
  BY <1>0, <1>3 DEF ConsentOK, history
<1>6. NoPileUp' /\ MissingHasJob'
  BY <1>0, <1>1, <1>2, JobsKept DEF tables, history
<1>7. CapOK'
  BY <1>0, <1>3, DaemonKept DEF history
<1> QED
  BY <1>4, <1>5, <1>6, <1>7 DEF Inv

\* A kill leaves a row without a job, and is remembered.
LEMMA KillOK == ASSUME Inv, NEW p \in Planners, Kill(p) PROVE Inv'
<1> DEFINE h == Head(proc[p].todo)
           mid == proc[p].pc \in {"look", "insert"}
<1>0. /\ kills < MaxKills /\ kills' = kills + 1 /\ proc' = [proc EXCEPT ![p] = Idle]
      /\ slipped' = IF mid THEN slipped \cup {h} ELSE slipped
      /\ UNCHANGED <<mal, tables, first, pending, lastPlan, found, asks, consent, listed,
                     today, batched>>
  BY DEF Kill
<1>1. ProcOK(Idle) /\ Idle.pc = "idle" /\ Idle.by = "none"
  BY NewProcs DEF Idle
<1>2. ProcsOK' /\ proc'[p] = Idle /\ \A r \in Planners \ {p} : proc'[r] = proc[r]
  BY <1>0, <1>1, OneMoves DEF Inv, Types
<1>3. mid => h \in Episodes
  BY AdvancedShape
<1>4. \A e : /\ At({"insert"}, e)' \subseteq At({"insert"}, e)
             /\ (e # h \/ ~mid) => At({"look", "insert"}, e)' = At({"look", "insert"}, e)
  BY <1>1, <1>2 DEF At
<1> HIDE DEF h
<1>5. Types'
  <2>1. CountsOK'
    BY <1>0, PlannerAssumption DEF Inv, Types, CountsOK
  <2>2. TablesOK'
    BY <1>0, <1>3 DEF Inv, Types, TablesOK, tables
  <2> QED
    BY <1>0, <1>2, <2>1, <2>2 DEF Inv, Types, ListOK, FlagsOK
<1>6. ConsentOK'
  BY <1>0, <1>1, <1>2 DEF Inv, ConsentOK
<1>7. NoPileUp'
  <2> SUFFICES ASSUME NEW e \in Episodes
               PROVE  searching[e] + Cardinality(At({"insert"}, e)') <= Cardinality(Planners)
    BY <1>0 DEF NoPileUp, tables
  <2>1. At({"insert"}, e) \in SUBSET Planners
    BY DEF At
  <2>2. IsFiniteSet(At({"insert"}, e))
    BY <2>1, PlannersFinite, FS_Subset
  <2>3. Cardinality(At({"insert"}, e)') <= Cardinality(At({"insert"}, e))
        /\ IsFiniteSet(At({"insert"}, e)')
    BY <1>4, <2>2, FS_Subset
  <2>4. Cardinality(At({"insert"}, e)') \in Nat /\ Cardinality(At({"insert"}, e)) \in Nat
    BY <2>2, <2>3, FS_CardinalityType
  <2>5. searching[e] + Cardinality(At({"insert"}, e)) <= Cardinality(Planners)
        /\ searching[e] \in Nat
    BY DEF Inv, NoPileUp, Types, TablesOK
  <2> QED
    BY <2>3, <2>4, <2>5, PlannersFinite
<1>8. MissingHasJob'
  BY <1>0, <1>4 DEF Inv, MissingHasJob, tables
<1>9. CapOK'
  <2>1. kills' # 0
    BY <1>0 DEF Inv, Types, CountsOK
  <2>2. proc'["daemon"] \in {proc["daemon"], Idle}
    BY <1>2, DaemonPlans
  <2> QED
    BY <1>1, <2>1, <2>2 DEF Inv, CapOK
<1> QED
  BY <1>5, <1>6, <1>7, <1>8, <1>9 DEF Inv

\* The workers: a job leaves the search kind, and the episode is done.
LEMMA JobsOK ==
    ASSUME Inv, NEW e \in Episodes, JobMovesOn(e) \/ mark_done(e)
    PROVE  Inv'
<1>0. UNCHANGED <<mal, first, pending, lastPlan, found, proc, asks, kills, history>>
  BY DEF JobMovesOn, mark_done
<1>1. \A x \in Episodes :
        /\ searching'[x] \in Nat /\ searching'[x] <= searching[x]
        /\ searching'[x] # searching[x] => moved'[x]
        /\ moved[x] => moved'[x]
        /\ eps'[x] = "missing" => eps[x] = "missing"
  BY DEF JobMovesOn, mark_done, Inv, Types, TablesOK
<1>2. TablesOK'
  <2>1. eps' \in [Episodes -> {"none", "missing", "done"}]
    BY DEF JobMovesOn, mark_done, Inv, Types, TablesOK
  <2>2. searching' \in [Episodes -> Nat]
    BY <1>1 DEF JobMovesOn, mark_done, Inv, Types, TablesOK
  <2>3. moved' \in [Episodes -> BOOLEAN]
    BY DEF JobMovesOn, mark_done, Inv, Types, TablesOK
  <2> QED
    BY <1>0, <2>1, <2>2, <2>3 DEF Inv, Types, TablesOK, history
<1>3. Types'
  BY <1>0, <1>2 DEF Inv, Types, ListOK, FlagsOK, CountsOK, ProcsOK, history
<1>4. \A x, pcs : At(pcs, x)' = At(pcs, x)
  BY <1>0 DEF At
<1>5. NoPileUp'
  <2> SUFFICES ASSUME NEW x \in Episodes
               PROVE  searching'[x] + Cardinality(At({"insert"}, x)) <= Cardinality(Planners)
    BY <1>4 DEF NoPileUp
  <2>1. At({"insert"}, x) \in SUBSET Planners
    BY DEF At
  <2>2. Cardinality(At({"insert"}, x)) \in Nat
    BY <2>1, PlannersFinite, FS_Subset, FS_CardinalityType
  <2>3. searching[x] \in Nat /\ searching[x] + Cardinality(At({"insert"}, x)) <= Cardinality(Planners)
    BY DEF Inv, NoPileUp, Types, TablesOK
  <2> QED
    BY <1>1, <2>2, <2>3, PlannersFinite
<1>6. MissingHasJob'
  BY <1>0, <1>1, <1>4 DEF Inv, MissingHasJob, history
<1>7. ConsentOK' /\ CapOK'
  BY <1>0 DEF Inv, ConsentOK, CapOK, history
<1> QED
  BY <1>3, <1>5, <1>6, <1>7 DEF Inv

\* The user and the searches touch neither the jobs nor the appliers.
LEMMA UserOK ==
    ASSUME Inv, remember_candidate \/ \E s \in Watched : Watch(s) \/ Complete(s)
    PROVE  Inv'
<1>0. UNCHANGED <<tables, first, pending, lastPlan, proc, asks, kills, history>>
  BY DEF remember_candidate, Watch, Complete
<1>1. ListOK' /\ found' \in {0, Finds}
  <2>1. CASE remember_candidate
    BY <2>1 DEF remember_candidate, Inv, Types, ListOK
  <2>2. ASSUME NEW s \in Watched, Watch(s) \/ Complete(s) PROVE ListOK' /\ found' \in {0, Finds}
    <3>0. s \in Shows /\ mal[s] \in [status : ListStatus, watched : 0 .. MaxEpisode]
          /\ Totals[s] \in Nat /\ Totals[s] <= MaxEpisode /\ MaxEpisode \in Nat
      BY PlannerAssumption DEF Inv, Types, ListOK
    <3>1. CASE Watch(s)
      <4>1. /\ mal[s].watched + 1 \in 0 .. MaxEpisode
            /\ Totals[s] = NoCount => mal[s].watched + 1 < MaxEpisode
        BY <3>0, <3>1 DEF Watch, FullyWatched, to_season_entry, NoCount
      <4>2. mal' = [mal EXCEPT ![s].watched = @ + 1]
        BY <3>1 DEF Watch
      <4> QED
        BY <3>0, <3>1, <4>1, <4>2 DEF Watch, Inv, Types, ListOK, CountsOK
    <3>2. CASE Complete(s)
      BY <3>0, <3>2 DEF Complete, Inv, Types, ListOK, ListStatus, CountsOK
    <3> QED
      BY <2>2, <3>1, <3>2
  <2> QED
    BY <2>1, <2>2, Zenon
<1>2. Types'
  BY <1>0, <1>1 DEF Inv, Types, TablesOK, FlagsOK, CountsOK, ProcsOK, tables, history
<1>3. \A x, pcs : At(pcs, x)' = At(pcs, x)
  BY <1>0 DEF At
<1> QED
  BY <1>0, <1>2, <1>3 DEF Inv, ConsentOK, CapOK, NoPileUp, MissingHasJob, tables, history

\* A new day: what was queued today starts again from nothing.
LEMMA DayOK == ASSUME Inv, NextDay PROVE Inv'
<1>0. /\ found' = 0 /\ today' = 0
      /\ lastPlan' = IF lastPlan < Week THEN lastPlan + 1 ELSE lastPlan
      /\ UNCHANGED <<mal, tables, first, pending, proc, asks, kills, consent, listed, slipped,
                     batched>>
  BY DEF NextDay
<1>1. Types'
  <2>1. CountsOK'
    BY <1>0, PlannerAssumption DEF Inv, Types, CountsOK
  <2> QED
    BY <1>0, <2>1 DEF Inv, Types, ListOK, TablesOK, FlagsOK, ProcsOK, tables
<1>2. \A x, pcs : At(pcs, x)' = At(pcs, x)
  BY <1>0 DEF At
<1>3. CapOK'
  <2>1. proc["daemon"].queued \in Nat
    BY DaemonPlans DEF Inv, Types, ProcsOK, ProcOK, Proc
  <2> QED
    BY <1>0, <2>1, PlannerAssumption DEF Inv, CapOK
<1> QED
  BY <1>0, <1>1, <1>2, <1>3 DEF Inv, ConsentOK, NoPileUp, MissingHasJob, tables

-----------------------------------------------------------------------------
(* The theorems.                                                           *)

LEMMA NextOK == ASSUME Inv, Next PROVE Inv'
<1>1. ASSUME NEW p \in Planners, NEW a \in Asked, PlanSingle(p, a[1], a[2]) PROVE Inv'
  <2>1. a[1] \in Shows
    BY PlannerAssumption
  <2> QED
    BY <1>1, <2>1, SingleOK
<1>2. ASSUME NEW p \in Planners, Plan(p) \/ Applier(p) \/ Kill(p) PROVE Inv'
  BY <1>2, PlanOK, EnsureOK, LookOK, InsertOK, FinishOK, SettingsOK, KillOK DEF Applier
<1> QED
  BY <1>1, <1>2, ConfirmOK, JobsOK, UserOK, DayOK DEF Next

LEMMA StutterOK == ASSUME Inv, UNCHANGED vars PROVE Inv'
<1>0. UNCHANGED <<mal, tables, first, pending, lastPlan, found, proc, asks, kills, history>>
  BY DEF vars
<1>1. Types'
  BY <1>0 DEF Inv, Types, ListOK, TablesOK, FlagsOK, CountsOK, ProcsOK, tables, history
<1>2. \A x, pcs : At(pcs, x)' = At(pcs, x)
  BY <1>0 DEF At
<1> QED
  BY <1>0, <1>1, <1>2 DEF Inv, ConsentOK, CapOK, NoPileUp, MissingHasJob, tables, history

LEMMA Invariant == Spec => []Inv
<1>1. Inv /\ [Next]_vars => Inv'
  BY NextOK, StutterOK
<1> QED
  BY <1>1, InitOK, PTL DEF Spec

\* The tables and the appliers keep their types: a preview lists episodes that
\* there are, and the room of a plan is never negative.
THEOREM TypeCorrect == Spec => []TypeOK
<1>1. Inv => TypeOK
  <2> SUFFICES ASSUME Inv PROVE TypeOK
    OBVIOUS
  <2>1. proc \in [Planners -> Proc]
    BY DEF Inv, Types, ProcsOK, ProcOK
  <2> QED
    BY <2>1 DEF Inv, Types, ListOK, TablesOK, FlagsOK, CountsOK, TypeOK, Proc
<1> QED
  BY <1>1, Invariant, PTL

\* Appliers that race between the look and the INSERT of enqueue_search queue
\* an episode at most once each.
THEOREM NeverPilesUp == Spec => []NoPileUp
<1>1. Inv => NoPileUp
  BY DEF Inv
<1> QED
  BY <1>1, Invariant, PTL

\* The list queues nothing before the user's consent.
THEOREM FirstSyncIsConfirmed == Spec => []FirstSyncConfirmed
<1>1. Inv => FirstSyncConfirmed
  BY DEF Inv, ConsentOK, FirstSyncConfirmed
<1> QED
  BY <1>1, Invariant, PTL

\* No row is left without a job, but for a kill and a season that one job covers.
THEOREM MissingHasItsJob == Spec => []MissingHasJob
<1>1. Inv => MissingHasJob
  BY DEF Inv
<1> QED
  BY <1>1, Invariant, PTL

\* Without kills, the daemon's plans keep the daily cap.
THEOREM CapIsKept == Spec => []DailyCapHolds
<1>1. Inv => DailyCapHolds
  <2> SUFFICES ASSUME Inv, kills = 0 PROVE today <= DailyCap
    BY DEF DailyCapHolds
  <2>1. proc["daemon"].queued \in Nat /\ proc["daemon"].cap \in Nat /\ today \in Nat
    BY DaemonPlans DEF Inv, Types, ProcsOK, ProcOK, Proc, CountsOK
  <2> QED
    BY <2>1, PlannerAssumption DEF Inv, CapOK
<1> QED
  BY <1>1, Invariant, PTL
=============================================================================

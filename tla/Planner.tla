------------------------------- MODULE Planner -------------------------------
(***************************************************************************)
(* The planner: planner/*.rs, the plan command (commands/planner.rs) and   *)
(* the daemon's background plan after a MAL sync (queue/scheduler.rs).     *)
(*                                                                         *)
(* The daemon and any number of commands plan at the same time on the same *)
(* database, each an applier of its own.  A plan is read in one go (the    *)
(* cadence, the preview, the cap and the torrents counted today) and then  *)
(* applied one episode at a time: ensure the row, look for a job, insert   *)
(* one.  Each of those is a transaction of its own, so the others, the     *)
(* workers and a kill come between any two.                                *)
(*                                                                         *)
(* Time is counted in days.  The list a plan is given is the user's list   *)
(* at that moment; how it gets into the database is in MalSync.            *)
(***************************************************************************)
EXTENDS Season, FiniteSets, SequencesExt

CONSTANTS
    Shows,          \* MAL entries
    Chains,         \* franchises: sequences of shows, in the planner's order
    Totals,         \* [Shows -> Nat], NoCount while unknown
    AutoPlan,       \* chains whose first entry may plan "plan to watch" shows
    PreferBatch,    \* finished shows whose rules prefer a batch
    Asked,          \* what the user may ask for: <<show, episode>>, 0 for all
    List,           \* the user's list at the start
    Watched,        \* bound: shows the user goes on watching
    Commands,       \* plan commands that may run beside the daemon
    DailyCap,       \* settings.daily_torrent_cap
    FirstCap,       \* settings.first_sync_cap
    Week,           \* RECHECK_SECS, in days
    MaxEpisode,     \* bound: episodes of a show whose count is unknown
    Finds,          \* torrents that a search remembers (up to 1000)
    MaxAsks,        \* bound: shows or episodes asked for
    MaxKills        \* bound: kills of an applier

ASSUME PlannerAssumption ==
    /\ Shows # {} /\ Chains \in Seq(Seq(Shows))
    /\ Totals \in [Shows -> Nat]
    /\ AutoPlan \subseteq Shows /\ PreferBatch \subseteq Shows
    /\ List \in [Shows -> [status : ListStatus, watched : 0 .. MaxEpisode]]
    /\ \A s \in Shows : Totals[s] = NoCount => List[s].watched < MaxEpisode
    /\ Watched \subseteq Shows
    /\ Asked \subseteq Shows \X (0 .. MaxEpisode)
    /\ IsFiniteSet(Commands) /\ "daemon" \notin Commands
    /\ DailyCap \in Nat \ {0} /\ FirstCap \in Nat /\ Week \in Nat \ {0}
    /\ \A s \in Shows : Totals[s] <= MaxEpisode
    /\ MaxEpisode \in Nat /\ Finds \in Nat \ {0}
    /\ MaxAsks \in Nat /\ MaxKills \in Nat

VARIABLES
    mal,        \* the user's list: status and watched count of each show
    eps,        \* the episodes table: "none", "missing" or "done"
    searching,  \* jobs of kind search that are not done, per episode
    moved,      \* a job of the episode has left the search kind
    first,      \* settings.first_run_complete
    pending,    \* state.pending_plan: a set holding at most one preview
    lastPlan,   \* days since state.last_plan_at, up to Week (never: Week)
    found,      \* torrents remembered today, what added_since counts
    proc,       \* the appliers
    asks,       \* what was asked for so far
    kills,
    \* history
    consent,    \* the user has confirmed a first sync or asked for a show
    listed,     \* the list has queued something
    today,      \* jobs the daemon's own plans have inserted today, up to DailyCap + 1
    slipped,    \* episodes whose applier was killed between row and job
    batched     \* rows made for a season that one job is to cover

tables  == <<eps, searching, moved>>
history == <<consent, listed, today, slipped, batched>>
vars == <<mal, tables, first, pending, lastPlan, found, proc, asks, kills, history>>

Planners  == Commands \cup {"daemon"}
Episodes  == {e \in Shows \X (1 .. MaxEpisode) :
                Totals[e[1]] = NoCount \/ e[2] <= Totals[e[1]]}
Unlimited == 1000

-----------------------------------------------------------------------------
(* The preview.                                                            *)

\* to_season_entry: what the walk sees of a list entry.
to_season_entry(s) ==
    [status |-> mal[s].status, watched |-> mal[s].watched, total |-> Totals[s]]

NoEpisode == <<"none", 0>>

\* What a chain wants, as an episode.
Wants(c) ==
    LET chain == Chains[c]
        w == wanted([i \in DOMAIN chain |-> to_season_entry(chain[i])],
                    chain[1] \in AutoPlan)
    IN  IF w = Nothing THEN NoEpisode ELSE <<chain[w.at], w.episode>>

\* The numbers of S from the smallest to the largest: a set of one sequence.
InOrder(S) ==
    {o \in [1 .. Cardinality(S) -> S] : \A i, j \in DOMAIN o : i < j => o[i] < o[j]}

Wanted == [c \in DOMAIN Chains |-> Wants(c)]

\* What some of the chains want, in the order of the chains.
Preview(w, chains) == {[i \in DOMAIN o |-> w[o[i]]] : o \in InOrder(chains)}

\* Mutant: the preview offers what already has a row.
build_preview_again ==
    UNION {Preview(w, {c \in DOMAIN w : w[c] # NoEpisode}) : w \in {Wanted}}

\* build_preview: what each chain wants, unless the episode already has a row.
\* A set of one preview, as is pending.
build_preview ==
    UNION {Preview(w, {c \in DOMAIN w : w[c] # NoEpisode /\ eps[w[c]] = "none"}) : w \in {Wanted}}

-----------------------------------------------------------------------------
(* The appliers.                                                           *)

Idle == [pc |-> "idle", todo |-> <<>>, cap |-> 0, queued |-> 0, by |-> "none"]

\* Mutant: the subtraction does not saturate.
Room_signed(cap) == cap - found

\* apply_preview_capped: what the day's finds leave of the cap.
Room(cap) == IF cap > found THEN cap - found ELSE 0

\* How many this run may queue is fixed when it starts.
Apply(p, preview, cap, by) ==
    proc' = [proc EXCEPT ![p] =
        [pc |-> "apply", todo |-> preview, queued |-> 0, by |-> by,
         cap |-> Room(cap)]]

\* Mutant: the weekly cadence is not checked.
due_always(p) == TRUE

\* The weekly cadence, which a command forces.
due(p) == p # "daemon" \/ lastPlan >= Week

\* Mutant: the first sync needs no confirmation.
Plan_at_once(p) ==
    /\ proc[p].pc = "idle"
    /\ due(p)
    /\ \E preview \in build_preview : Apply(p, preview, DailyCap, "plan")
    /\ UNCHANGED <<mal, tables, first, pending, lastPlan, found, asks, kills, history>>

\* plan: the daemon keeps the weekly cadence, a command forces it.  Before the
\* first sync is complete the preview is stored and nothing is queued; the
\* command may carry the confirmation with it.
Plan(p) ==
    /\ proc[p].pc = "idle"
    /\ due(p)
    /\ \/ /\ first
          /\ \E preview \in build_preview : Apply(p, preview, DailyCap, "plan")
          /\ UNCHANGED pending
       \/ /\ ~first
          /\ pending' = build_preview
          /\ \/ UNCHANGED proc
             \/ p # "daemon" /\ proc' = [proc EXCEPT ![p].pc = "confirm"]
    /\ UNCHANGED <<mal, tables, first, lastPlan, found, asks, kills, history>>

\* confirm_capped: apply the stored preview, or a new one if it is gone.
Confirm(p, bypass) ==
    /\ proc[p].pc = "confirm"
    /\ LET cap == IF bypass THEN Unlimited ELSE IF first THEN DailyCap ELSE FirstCap
       IN  \E preview \in IF pending = {} THEN build_preview ELSE pending :
             Apply(p, preview, cap, "confirm")
    /\ consent' = TRUE
    /\ UNCHANGED <<mal, tables, first, pending, lastPlan, found, asks, kills,
                   listed, today, slipped, batched>>

\* plan_single: one episode, or every episode of a show that is not owned.  A
\* finished show that prefers batches gets all its rows and one job.
PlanSingle(p, s, ep) ==
    /\ proc[p].pc = "idle" /\ p # "daemon"
    /\ asks < MaxAsks /\ asks' = asks + 1
    /\ ep = 0 => Totals[s] # NoCount
    /\ LET mine == {e \in Episodes : e[1] = s /\ (ep = 0 \/ e[2] = ep)}
           todo == IF ep = 0 THEN {e \in mine : eps[e] # "done"} ELSE mine
           batch == ep = 0 /\ Cardinality(todo) > 1 /\ s \in PreferBatch
       IN  /\ todo # {}
           /\ eps' = [e \in Episodes |->
                        IF batch /\ e \in todo /\ eps[e] = "none" THEN "missing"
                        ELSE eps[e]]
           /\ batched' = IF batch THEN batched \cup todo ELSE batched
           /\ \E o \in InOrder({e[2] : e \in todo}) :
                proc' = [proc EXCEPT ![p] =
                   [pc |-> "apply", queued |-> 0, by |-> "single", cap |-> Unlimited,
                    todo |-> IF batch THEN <<<<s, o[1]>>>> ELSE [i \in DOMAIN o |-> <<s, o[i]>>]]]
    /\ consent' = TRUE
    /\ UNCHANGED <<mal, searching, moved, first, pending, lastPlan, found, kills,
                   listed, today, slipped>>

CapReached(p) == proc[p].queued >= proc[p].cap

\* Mutant: the rows of the whole preview are made at once.
ensure_episode_all(p) ==
    /\ proc[p].pc = "apply" /\ proc[p].todo # <<>> /\ ~CapReached(p)
    /\ eps' = [e \in Episodes |->
                 IF e \in Range(proc[p].todo) /\ eps[e] = "none" THEN "missing" ELSE eps[e]]
    /\ proc' = [proc EXCEPT ![p].pc = "look"]
    /\ UNCHANGED <<mal, searching, moved, first, pending, lastPlan, found, asks, kills,
                   history>>

\* ensure_episode: the row, created once.
ensure_episode(p) ==
    /\ proc[p].pc = "apply" /\ proc[p].todo # <<>> /\ ~CapReached(p)
    /\ LET e == Head(proc[p].todo)
       IN  eps' = [eps EXCEPT ![e] = IF @ = "none" THEN "missing" ELSE @]
    /\ proc' = [proc EXCEPT ![p].pc = "look"]
    /\ UNCHANGED <<mal, searching, moved, first, pending, lastPlan, found, asks, kills,
                   history>>

\* On to the next episode of the preview.
Advanced(p) == [proc[p] EXCEPT !.pc = "apply", !.todo = Tail(@), !.queued = @ + 1]

\* Mutant: the job is inserted without a look.
enqueue_look_blind(p) ==
    /\ proc[p].pc = "look"
    /\ proc' = [proc EXCEPT ![p].pc = "insert"]
    /\ UNCHANGED <<mal, tables, first, pending, lastPlan, found, asks, kills, history>>

\* enqueue_search, first half: an open search job already covers the episode.
enqueue_look(p) ==
    /\ proc[p].pc = "look"
    /\ proc' = [proc EXCEPT ![p] =
                  IF searching[Head(proc[p].todo)] > 0 THEN Advanced(p)
                  ELSE [@ EXCEPT !.pc = "insert"]]
    /\ UNCHANGED <<mal, tables, first, pending, lastPlan, found, asks, kills, history>>

\* enqueue_search, second half: the INSERT, a transaction of its own.
enqueue_insert(p) ==
    /\ proc[p].pc = "insert"
    /\ searching' = [searching EXCEPT ![Head(proc[p].todo)] = @ + 1]
    /\ proc' = [proc EXCEPT ![p] = Advanced(p)]
    /\ listed' = (listed \/ proc[p].by # "single")
    /\ today' = IF p = "daemon" /\ today <= DailyCap THEN today + 1 ELSE today
    /\ UNCHANGED <<mal, eps, moved, first, pending, lastPlan, found, asks, kills,
                   consent, slipped, batched>>

\* The end of plan and of confirm_capped: last_plan_at is written, the stored
\* preview is gone after a confirmation, and a command goes on to the settings.
Finish(p) ==
    /\ proc[p].pc = "apply" /\ (proc[p].todo = <<>> \/ CapReached(p))
    /\ lastPlan' = IF proc[p].by = "single" THEN lastPlan ELSE 0
    /\ pending' = IF proc[p].by = "confirm" THEN {} ELSE pending
    /\ proc' = [proc EXCEPT ![p] = IF proc[p].by = "plan" THEN Idle
                                   ELSE [Idle EXCEPT !.pc = "settings"]]
    /\ UNCHANGED <<mal, tables, first, found, asks, kills, history>>

\* plan_cmd saves first_run_complete after a confirmation or a single show.
SaveFirstRun(p) ==
    /\ proc[p].pc = "settings"
    /\ first' = TRUE
    /\ proc' = [proc EXCEPT ![p] = Idle]
    /\ UNCHANGED <<mal, tables, pending, lastPlan, found, asks, kills, history>>

\* The process of an applier is killed.
Kill(p) ==
    /\ proc[p].pc # "idle" /\ kills < MaxKills
    /\ kills' = kills + 1
    /\ proc' = [proc EXCEPT ![p] = Idle]
    /\ slipped' = IF proc[p].pc \in {"look", "insert"}
                  THEN slipped \cup {Head(proc[p].todo)} ELSE slipped
    /\ UNCHANGED <<mal, tables, first, pending, lastPlan, found, asks, consent, listed,
                   today, batched>>

-----------------------------------------------------------------------------
(* The workers, the user and the clock.                                    *)

\* transition: a job leaves the search kind, and mark_done: it ends.
JobMovesOn(e) ==
    /\ searching[e] > 0
    /\ searching' = [searching EXCEPT ![e] = @ - 1]
    /\ moved' = [moved EXCEPT ![e] = TRUE]
    /\ UNCHANGED <<mal, eps, first, pending, lastPlan, found, proc, asks, kills, history>>

mark_done(e) ==
    /\ moved[e] /\ eps[e] = "missing"
    /\ eps' = [eps EXCEPT ![e] = "done"]
    /\ UNCHANGED <<mal, searching, moved, first, pending, lastPlan, found, proc, asks, kills,
                   history>>

\* remember_candidate: a search of a job makes added_since count its finds
\* (bound: one search a day is enough to use up the cap).
remember_candidate ==
    /\ \E e \in Episodes : searching[e] > 0
    /\ found = 0
    /\ found' = Finds
    /\ UNCHANGED <<mal, tables, first, pending, lastPlan, proc, asks, kills, history>>

\* The user watches an episode, and marks a watched show completed.
Watch(s) ==
    /\ mal[s].status = "watching" /\ ~FullyWatched(to_season_entry(s))
    /\ mal[s].watched + 1 < MaxEpisode \/ Totals[s] # NoCount
    /\ mal' = [mal EXCEPT ![s].watched = @ + 1]
    /\ UNCHANGED <<tables, first, pending, lastPlan, found, proc, asks, kills, history>>

Complete(s) ==
    /\ mal[s].status = "watching" /\ FullyWatched(to_season_entry(s))
    /\ mal' = [mal EXCEPT ![s].status = "completed"]
    /\ UNCHANGED <<tables, first, pending, lastPlan, found, proc, asks, kills, history>>

\* start_of_day moves on.
NextDay ==
    /\ found' = 0
    /\ today' = 0
    /\ lastPlan' = IF lastPlan < Week THEN lastPlan + 1 ELSE lastPlan
    /\ UNCHANGED <<mal, tables, first, pending, proc, asks, kills, consent, listed, slipped,
                   batched>>

-----------------------------------------------------------------------------
Init ==
    /\ mal = List
    /\ eps = [e \in Episodes |-> "none"]
    /\ searching = [e \in Episodes |-> 0]
    /\ moved = [e \in Episodes |-> FALSE]
    /\ first \in BOOLEAN
    /\ pending = {}
    /\ lastPlan = Week
    /\ found = 0
    /\ proc = [p \in Planners |-> Idle]
    /\ asks = 0
    /\ kills = 0
    /\ consent = first
    /\ listed = FALSE
    /\ today = 0
    /\ slipped = {}
    /\ batched = {}

Applier(p) ==
    \/ ensure_episode(p) \/ enqueue_look(p) \/ enqueue_insert(p)
    \/ Finish(p) \/ SaveFirstRun(p)

Next ==
    \/ \E p \in Planners : Plan(p) \/ Applier(p) \/ Kill(p)
    \/ \E p \in Planners, bypass \in BOOLEAN : Confirm(p, bypass)
    \/ \E p \in Planners, a \in Asked : PlanSingle(p, a[1], a[2])
    \/ \E e \in Episodes : JobMovesOn(e) \/ mark_done(e)
    \/ remember_candidate
    \/ \E s \in Watched : Watch(s) \/ Complete(s)
    \/ NextDay

Spec == Init /\ [][Next]_vars

\* An applier waits for nothing; the daemon is offered a plan at every sync;
\* days pass.  Users and workers owe nothing.
FairSpec ==
    /\ Spec
    /\ \A p \in Planners : WF_vars(Applier(p))
    /\ WF_vars(Plan("daemon"))
    /\ WF_vars(NextDay)

-----------------------------------------------------------------------------
(* Properties.                                                             *)

\* The tables, the appliers and the history have their types.
TypeOK ==
    /\ mal \in [Shows -> [status : ListStatus, watched : 0 .. MaxEpisode]]
    /\ eps \in [Episodes -> {"none", "missing", "done"}]
    /\ searching \in [Episodes -> Nat]
    /\ moved \in [Episodes -> BOOLEAN]
    /\ first \in BOOLEAN /\ consent \in BOOLEAN /\ listed \in BOOLEAN
    /\ pending \subseteq Seq(Episodes)
    /\ lastPlan \in 0 .. Week /\ found \in {0, Finds} /\ today \in Nat
    /\ proc \in [Planners ->
         [pc : {"idle", "confirm", "apply", "look", "insert", "settings"},
          todo : Seq(Episodes), cap : Nat, queued : Nat,
          by : {"none", "plan", "confirm", "single"}]]
    /\ asks \in 0 .. MaxAsks /\ kills \in 0 .. MaxKills
    /\ slipped \subseteq Episodes /\ batched \subseteq Episodes

\* At work on episode e, between its row and its job.
At(pcs, e) == {p \in Planners : proc[p].pc \in pcs /\ Head(proc[p].todo) = e}

\* enqueue_search "may not double-queue": its look and its INSERT are two
\* transactions, so appliers that looked together may each insert, but an
\* episode never has more search jobs than there are appliers, however often
\* the list is planned again.
NoPileUp ==
    \A e \in Episodes :
        searching[e] + Cardinality(At({"insert"}, e)) <= Cardinality(Planners)

\* "Nothing is added before the first sync is confirmed": the list queues
\* nothing until the user has confirmed a preview or asked for a show.
FirstSyncConfirmed == listed => consent

\* A row that says missing has a job, now or at some time before, or is one
\* that an applier is about to queue; the exceptions are the rows of a season
\* that one job covers, and the row of an applier killed between its row and
\* its job, which build_preview will never offer again.
MissingHasJob ==
    \A e \in Episodes : eps[e] = "missing" =>
        \/ searching[e] > 0 \/ moved[e]
        \/ At({"look", "insert"}, e) # {}
        \/ e \in slipped \cup batched

\* The daemon's own planning keeps the daily cap: the weekly cadence lets it
\* plan once a day at most, unless a kill loses the day's last_plan_at.
DailyCapHolds == kills = 0 => today <= DailyCap

\* An episode with a job, now or before, or one of the exceptions above.
Queued(e) == searching[e] > 0 \/ moved[e] \/ e \in slipped \cup batched

\* The list is being planned, with something left of the cap.
PlanWithRoom ==
    \E p \in Planners : proc[p].by \in {"plan", "confirm"} /\ proc[p].cap > 0

\* What a chain wants next is queued in the end, or is no longer wanted,
\* provided that time and again a plan starts on a day whose searches have not
\* used up the cap (added_since counts every torrent a search remembers).
NextIsQueued ==
    []<>PlanWithRoom =>
        \A c \in DOMAIN Chains :
            []<>(~first \/ Wants(c) = NoEpisode \/ Queued(Wants(c)))

=============================================================================

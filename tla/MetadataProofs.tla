--------------------------- MODULE MetadataProofs ---------------------------
(***************************************************************************)
(* The lease of the metadata queue keeps its promise: for any number of    *)
(* shows, processes, kills and syncs, two processes never both hold a      *)
(* claim on a show whose lease has not run out and whose row nobody else   *)
(* has written.                                                            *)
(***************************************************************************)
EXTENDS Metadata, TLAPS

Row == [status : {"pending", "fetching", "failed"} \cup Resolved,
        age : {"new", "old"}, waits : BOOLEAN, count : 0 .. MaxCount]

Fetch == [pc : {"idle", "claimed", "jikan", "mal", "apply"},
          show : Shows \cup {NoShow}, force : BOOLEAN, count : 0 .. MaxCount,
          status : {"none"} \cup Resolved, sole : BOOLEAN]


\* A row that is resolved has no retry left over.
RowOK(r) == r \in Row /\ (r.status \in Resolved => ~r.waits)

\* A process at work has a show, and what it is about to apply resolves it.
ProcOK(r) ==
    /\ r \in Fetch
    /\ r.pc = "idle" <=> r.show = NoShow
    /\ r.pc = "apply" => r.status \in Resolved

Types ==
    /\ row = [s \in Shows |-> row[s]] /\ \A s \in Shows : RowOK(row[s])
    /\ limited \in BOOLEAN /\ events \in 0 .. MaxEvents
    /\ f = [p \in Procs |-> f[p]] /\ \A p \in Procs : ProcOK(f[p])

\* A claim that nothing has disturbed is still in its row.
LeaseOK ==
    \A p \in Procs : f[p].sole =>
        /\ f[p].show \in Shows
        /\ row[f[p].show].status = "fetching" /\ row[f[p].show].age = "new"

\* The inductive invariant.
MInv == Types /\ LeaseOK /\ ClaimExclusive

-----------------------------------------------------------------------------
(* Records.                                                                *)

\* No failure fits the column, and so does one more.
LEMMA CountedType ==
    /\ 0 \in 0 .. MaxCount
    /\ \A n \in 0 .. MaxCount : Counted(n) \in 0 .. MaxCount
BY MetadataAssumption DEF Counted

\* What the actions write into a row.
LEMMA RowWrites ==
    ASSUME NEW r, RowOK(r), NEW n \in 0 .. MaxCount
    PROVE  /\ \A st \in {"pending", "fetching"} : RowOK([r EXCEPT !.status = st])
           /\ RowOK([r EXCEPT !.status = "fetching", !.age = "new"])
           /\ RowOK([r EXCEPT !.waits = FALSE]) /\ RowOK([r EXCEPT !.age = "old"])
           /\ RowOK([[r EXCEPT !.count = n] EXCEPT !.status = "failed", !.waits = FALSE])
           /\ RowOK([[r EXCEPT !.count = n] EXCEPT !.status = "pending", !.waits = TRUE])
           /\ \A st \in Resolved : RowOK(Applied(r, st))
<1> USE MetadataAssumption DEF RowOK, Row, Resolved, Applied
<1>1. \A st \in {"pending", "fetching"} : RowOK([r EXCEPT !.status = st])
  OBVIOUS
<1>2. RowOK([r EXCEPT !.status = "fetching", !.age = "new"])
  OBVIOUS
<1>3. RowOK([r EXCEPT !.waits = FALSE]) /\ RowOK([r EXCEPT !.age = "old"])
  OBVIOUS
<1>4. RowOK([[r EXCEPT !.count = n] EXCEPT !.status = "failed", !.waits = FALSE])
  OBVIOUS
<1>5. RowOK([[r EXCEPT !.count = n] EXCEPT !.status = "pending", !.waits = TRUE])
  OBVIOUS
<1>6. \A st \in Resolved : RowOK(Applied(r, st))
  BY CountedType
<1> QED
  BY <1>1, <1>2, <1>3, <1>4, <1>5, <1>6

\* What the actions make of a process.
LEMMA ProcWrites ==
    ASSUME NEW r, ProcOK(r)
    PROVE  /\ ProcOK([r EXCEPT !.sole = FALSE])
           /\ r.pc \in {"jikan", "mal"} => ProcOK([r EXCEPT !.pc = "mal"])
           /\ r.pc \in {"jikan", "mal"} => \A st \in {"ready", "none"} :
                ProcOK([r EXCEPT !.pc = "mal", !.status = st])
           /\ r.pc \in {"jikan", "mal"} => \A st \in Resolved :
                ProcOK([r EXCEPT !.pc = "apply", !.status = st, !.count = 0])
           /\ r.pc = "claimed" => \A pc \in {"mal", "jikan"}, n \in 0 .. MaxCount :
                ProcOK([r EXCEPT !.force = FALSE, !.count = n, !.pc = pc])
<1> USE MetadataAssumption DEF ProcOK, Fetch, Resolved, NoShow
<1>1. ProcOK([r EXCEPT !.sole = FALSE])
  OBVIOUS
<1>2. r.pc \in {"jikan", "mal"} => ProcOK([r EXCEPT !.pc = "mal"])
  OBVIOUS
<1>3. r.pc \in {"jikan", "mal"} => \A st \in {"ready", "none"} :
                ProcOK([r EXCEPT !.pc = "mal", !.status = st])
  OBVIOUS
<1>4. r.pc \in {"jikan", "mal"} => \A st \in Resolved :
                ProcOK([r EXCEPT !.pc = "apply", !.status = st, !.count = 0])
  BY CountedType
<1>5. r.pc = "claimed" => \A pc \in {"mal", "jikan"}, n \in 0 .. MaxCount :
                ProcOK([r EXCEPT !.force = FALSE, !.count = n, !.pc = pc])
  OBVIOUS
<1> QED
  BY <1>1, <1>2, <1>3, <1>4, <1>5

LEMMA NewFetches ==
    /\ ProcOK(Idle)
    /\ \A s \in Shows : ProcOK([Idle EXCEPT !.pc = "claimed", !.show = s, !.sole = TRUE])
    /\ \A s \in Shows, force \in BOOLEAN :
         ProcOK([Idle EXCEPT !.pc = "claimed", !.show = s, !.force = force])
BY MetadataAssumption, CountedType DEF ProcOK, Fetch, Resolved, NoShow, Idle

-----------------------------------------------------------------------------
(* One lemma per action.                                                   *)

\* The queue starts unclaimed.
LEMMA InitOK == Init => MInv
<1> SUFFICES ASSUME Init PROVE MInv
  OBVIOUS
<1>1. \A s \in Shows : RowOK(row[s])
  BY CountedType DEF Init, RowOK, Row, Resolved
<1>2. \A p \in Procs : ProcOK(f[p]) /\ ~f[p].sole
  BY NewFetches DEF Init, Idle
<1>3. Types
  <2>1. events \in 0 .. MaxEvents
    BY MetadataAssumption DEF Init
  <2>2. limited \in BOOLEAN
    BY DEF Init
  <2> QED
    BY <1>1, <1>2, <2>1, <2>2 DEF Init, Types
<1> QED
  BY <1>2, <1>3 DEF MInv, LeaseOK, ClaimExclusive

\* Most actions make no new claim: a claim that is undisturbed after them was
\* so before, and its row has not changed.
LEMMA NoNewClaim ==
    ASSUME MInv, Types',
           \A q \in Procs : f'[q].sole =>
               /\ f[q].sole /\ f'[q].show = f[q].show
               /\ row'[f[q].show].status = row[f[q].show].status
               /\ row'[f[q].show].age = row[f[q].show].age
    PROVE  MInv'
BY DEF MInv, LeaseOK, ClaimExclusive

\* A claim goes to a row that nobody holds: pending, or with a lease that has
\* run out.
LEMMA ClaimOK ==
    ASSUME MInv, NEW p \in Procs, NEW s \in Shows, claim_next_metadata_job(p, s)
    PROVE  MInv'
<1> USE DEF MInv
<1>1. row' = [t \in Shows |-> row'[t]] /\ f' = [q \in Procs |-> f'[q]]
      /\ limited' \in BOOLEAN /\ events' \in 0 .. MaxEvents
  BY MetadataAssumption DEF Types, claim_next_metadata_job
<1>2. \A t \in Shows : RowOK(row'[t])
  BY RowWrites, CountedType DEF Types, claim_next_metadata_job
<1>3. \A q \in Procs : ProcOK(f'[q])
  BY NewFetches DEF Types, claim_next_metadata_job
<1>4. Types'
  BY <1>1, <1>2, <1>3 DEF Types
<1>5. LeaseOK'
  BY DEF Types, ProcOK, Fetch, Idle, LeaseOK, claim_next_metadata_job, RowOK, Row
<1>6. \A q \in Procs : f[q].sole => f[q].show # s
  BY DEF LeaseOK, claim_next_metadata_job, Claimable
<1>7. ClaimExclusive'
  BY <1>6 DEF Types, Idle, ClaimExclusive, claim_next_metadata_job
<1> QED
  BY <1>4, <1>5, <1>7

\* A fetch outside the queue claims nothing.
LEMMA AskOK ==
    ASSUME MInv, NEW p \in Procs, NEW s \in Shows, NEW force \in BOOLEAN, Ask(p, s, force)
    PROVE  MInv'
<1> USE DEF MInv
<1>1. row' = [t \in Shows |-> row'[t]] /\ f' = [q \in Procs |-> f'[q]]
      /\ limited' \in BOOLEAN /\ events' \in 0 .. MaxEvents
  BY MetadataAssumption DEF Types, Ask, Event
<1>2. \A t \in Shows : RowOK(row'[t])
  BY DEF Types, Ask, Event
<1>3. \A q \in Procs : ProcOK(f'[q])
  BY NewFetches DEF Types, Ask, Event
<1>4. Types'
  BY <1>1, <1>2, <1>3 DEF Types
<1>5. \A q \in Procs : f'[q].sole =>
         /\ f[q].sole /\ f'[q].show = f[q].show
         /\ row'[f[q].show].status = row[f[q].show].status
         /\ row'[f[q].show].age = row[f[q].show].age
  BY DEF Types, RowOK, ProcOK, Row, Fetch, Idle, LeaseOK, Ask, Event
<1> QED
  BY <1>4, <1>5, NoNewClaim

\* A fetch begins, or leaves a row alone.
LEMMA FetchOK ==
    ASSUME MInv, NEW p \in Procs, fetch_show_metadata(p)
    PROVE  MInv'
<1> DEFINE s == f[p].show
           pc == IF limited THEN "mal" ELSE "jikan"
<1>0. /\ f[p].pc = "claimed" /\ s \in Shows /\ RowOK(row[s]) /\ ProcOK(f[p])
      /\ row[s].count \in 0 .. MaxCount /\ pc \in {"mal", "jikan"}
  BY DEF MInv, Types, fetch_show_metadata, ProcOK, Fetch, RowOK, Row
<1>1. CASE f' = [f EXCEPT ![p] = Idle] /\ UNCHANGED <<row, limited, events>>
  <2>1. Types'
    BY <1>1, NewFetches DEF MInv, Types
  <2> QED
    BY <1>1, <2>1, NoNewClaim DEF MInv, Types, Idle
<1>2. CASE /\ row' = [row EXCEPT ![s].status = "fetching"]
           /\ f' = [f EXCEPT ![p] = [@ EXCEPT !.force = FALSE, !.count = row[s].count,
                                              !.pc = pc]]
           /\ UNCHANGED <<limited, events>>
  <2>1. RowOK([row[s] EXCEPT !.status = "fetching"])
    BY <1>0, RowWrites, CountedType
  <2>2. ProcOK([f[p] EXCEPT !.force = FALSE, !.count = row[s].count, !.pc = pc])
    BY <1>0, ProcWrites
  <2>3. Types'
    BY <1>2, <2>1, <2>2 DEF MInv, Types
  <2>4. \A q \in Procs : f'[q].sole => f[q].sole /\ f'[q].show = f[q].show
    BY <1>2, <1>0 DEF MInv, Types, ProcOK, Fetch
  <2>5. \A q \in Procs : f[q].sole =>
           /\ row'[f[q].show].status = row[f[q].show].status
           /\ row'[f[q].show].age = row[f[q].show].age
    BY <1>2, <1>0 DEF MInv, Types, LeaseOK, RowOK, Row
  <2> QED
    BY <2>3, <2>4, <2>5, NoNewClaim
<1> QED
  BY <1>1, <1>2 DEF fetch_show_metadata

\* Jikan answers ...
LEMMA JikanAnswersOK ==
    ASSUME MInv, NEW p \in Procs, JikanAnswers(p)
    PROVE  MInv'
<1> USE DEF MInv
<1>1. row' = [t \in Shows |-> row'[t]] /\ f' = [q \in Procs |-> f'[q]]
      /\ limited' \in BOOLEAN /\ events' \in 0 .. MaxEvents
  BY MetadataAssumption DEF Types, JikanAnswers, Got, Resolved
<1>2. \A t \in Shows : RowOK(row'[t])
  BY DEF Types, JikanAnswers, Got, Resolved
<1>3. \A q \in Procs : ProcOK(f'[q])
  BY ProcWrites DEF Types, JikanAnswers, Got, Resolved
<1>4. Types'
  BY <1>1, <1>2, <1>3 DEF Types
<1>5. \A q \in Procs : f'[q].sole =>
         /\ f[q].sole /\ f'[q].show = f[q].show
         /\ row'[f[q].show].status = row[f[q].show].status
         /\ row'[f[q].show].age = row[f[q].show].age
  BY DEF Types, RowOK, ProcOK, Row, Fetch, Idle, LeaseOK, JikanAnswers, Got, Resolved
<1> QED
  BY <1>4, <1>5, NoNewClaim

\* ... or does not ...
LEMMA JikanFailsOK ==
    ASSUME MInv, NEW p \in Procs, JikanFails(p)
    PROVE  MInv'
<1> USE DEF MInv
<1>1. row' = [t \in Shows |-> row'[t]] /\ f' = [q \in Procs |-> f'[q]]
      /\ limited' \in BOOLEAN /\ events' \in 0 .. MaxEvents
  BY MetadataAssumption DEF Types, JikanFails
<1>2. \A t \in Shows : RowOK(row'[t])
  BY DEF Types, JikanFails
<1>3. \A q \in Procs : ProcOK(f'[q])
  <2>1. PICK st \in {"ready", "none"} :
          f' = [f EXCEPT ![p] = [@ EXCEPT !.pc = "mal", !.status = st]]
    BY DEF JikanFails
  <2>2. ProcOK([f[p] EXCEPT !.pc = "mal", !.status = st])
    BY ProcWrites DEF Types, JikanFails
  <2> QED
    BY <2>1, <2>2 DEF Types
<1>4. Types'
  BY <1>1, <1>2, <1>3 DEF Types
<1>5. \A q \in Procs : f'[q].sole =>
         /\ f[q].sole /\ f'[q].show = f[q].show
         /\ row'[f[q].show].status = row[f[q].show].status
         /\ row'[f[q].show].age = row[f[q].show].age
  BY DEF Types, RowOK, ProcOK, Row, Fetch, Idle, LeaseOK, JikanFails
<1> QED
  BY <1>4, <1>5, NoNewClaim

\* ... or wants to be left alone.
LEMMA JikanLimitsOK ==
    ASSUME MInv, NEW p \in Procs, JikanLimits(p)
    PROVE  MInv'
<1> USE DEF MInv
<1>1. row' = [t \in Shows |-> row'[t]] /\ f' = [q \in Procs |-> f'[q]]
      /\ limited' \in BOOLEAN /\ events' \in 0 .. MaxEvents
  BY MetadataAssumption DEF Types, JikanLimits, Event
<1>2. \A t \in Shows : RowOK(row'[t])
  BY DEF Types, JikanLimits, Event
<1>3. \A q \in Procs : ProcOK(f'[q])
  BY ProcWrites DEF Types, JikanLimits, Event
<1>4. Types'
  BY <1>1, <1>2, <1>3 DEF Types
<1>5. \A q \in Procs : f'[q].sole =>
         /\ f[q].sole /\ f'[q].show = f[q].show
         /\ row'[f[q].show].status = row[f[q].show].status
         /\ row'[f[q].show].age = row[f[q].show].age
  BY DEF Types, RowOK, ProcOK, Row, Fetch, Idle, LeaseOK, JikanLimits, Event
<1> QED
  BY <1>4, <1>5, NoNewClaim

\* The fallback answers ...
LEMMA MalAnswersOK ==
    ASSUME MInv, NEW p \in Procs, MalAnswers(p)
    PROVE  MInv'
<1> USE DEF MInv
<1>1. row' = [t \in Shows |-> row'[t]] /\ f' = [q \in Procs |-> f'[q]]
      /\ limited' \in BOOLEAN /\ events' \in 0 .. MaxEvents
  BY MetadataAssumption DEF Types, MalAnswers, Got, Resolved
<1>2. \A t \in Shows : RowOK(row'[t])
  BY DEF Types, MalAnswers, Got, Resolved
<1>3. \A q \in Procs : ProcOK(f'[q])
  BY ProcWrites DEF Types, MalAnswers, Got, Resolved
<1>4. Types'
  BY <1>1, <1>2, <1>3 DEF Types
<1>5. \A q \in Procs : f'[q].sole =>
         /\ f[q].sole /\ f'[q].show = f[q].show
         /\ row'[f[q].show].status = row[f[q].show].status
         /\ row'[f[q].show].age = row[f[q].show].age
  BY DEF Types, RowOK, ProcOK, Row, Fetch, Idle, LeaseOK, MalAnswers, Got, Resolved
<1> QED
  BY <1>4, <1>5, NoNewClaim

\* A result is written over whatever the row says, which ends every other
\* claim on it.
LEMMA WritesOK ==
    ASSUME MInv, NEW p \in Procs, NEW s \in Shows, f[p].show = s, NEW r, RowOK(r),
           Writes(s, p, r), UNCHANGED <<limited, events>>
    PROVE  MInv'
<1>1. row' = [row EXCEPT ![s] = r] /\ f' = [Void(s, {p}) EXCEPT ![p] = Idle]
  BY DEF Writes
<1>2. \A q \in Procs : ProcOK(f'[q])
  BY <1>1, NewFetches, ProcWrites DEF MInv, Types, Void
<1>3. Types'
  BY <1>1, <1>2 DEF MInv, Types, Void
<1>4. \A q \in Procs : f'[q].sole => f[q].sole /\ f'[q].show = f[q].show /\ f[q].show # s
  BY <1>1 DEF MInv, Types, Void, Idle, ProcOK, Fetch
<1>5. \A t \in Shows : t # s => row'[t] = row[t]
  BY <1>1 DEF MInv, Types
<1>6. \A q \in Procs : f[q].sole => f[q].show \in Shows
  BY DEF MInv, LeaseOK
<1> QED
  BY <1>3, <1>4, <1>5, <1>6, NoNewClaim

\* ... or fails, and the row is written.
LEMMA MalFailsOK ==
    ASSUME MInv, NEW p \in Procs, MalFails(p)
    PROVE  MInv'
<1> DEFINE s == f[p].show
           n == Counted(f[p].count)
           failed == [[row[s] EXCEPT !.count = n] EXCEPT !.status = "failed", !.waits = FALSE]
           later == [[row[s] EXCEPT !.count = n] EXCEPT !.status = "pending", !.waits = TRUE]
<1>0. /\ f[p].pc = "mal" /\ s \in Shows /\ RowOK(row[s]) /\ ProcOK(f[p])
      /\ f[p].count \in 0 .. MaxCount
  BY DEF MInv, Types, MalFails, ProcOK, Fetch
<1>1. CASE f' = [f EXCEPT ![p] = [@ EXCEPT !.pc = "apply", !.status = "ready", !.count = 0]]
           /\ UNCHANGED <<row, limited, events>>
  <2>1. ProcOK([f[p] EXCEPT !.pc = "apply", !.status = "ready", !.count = 0])
    BY <1>0, ProcWrites DEF Resolved
  <2>2. Types'
    BY <1>1, <2>1 DEF MInv, Types
  <2>3. \A q \in Procs : f'[q].sole => f[q].sole /\ f'[q].show = f[q].show
    BY <1>1, <1>0 DEF MInv, Types, ProcOK, Fetch
  <2> QED
    BY <1>1, <2>2, <2>3, NoNewClaim
<1>2. ASSUME NEW r \in {failed, later}, Writes(s, p, r), UNCHANGED <<limited, events>>
      PROVE  MInv'
  <2>1. n \in 0 .. MaxCount
    BY <1>0, CountedType
  <2>2. RowOK(failed) /\ RowOK(later)
    <3> HIDE DEF n
    <3> QED
      BY <1>0, <2>1, RowWrites
  <2>3. RowOK(r)
    BY <2>2
  <2> QED
    BY <1>0, <1>2, <2>3, WritesOK
<1> QED
  BY <1>1, <1>2 DEF MalFails, Got

\* A fetch that succeeded writes its result.
LEMMA ApplyOK ==
    ASSUME MInv, NEW p \in Procs, apply_metadata(p)
    PROVE  MInv'
<1>1. /\ f[p].show \in Shows /\ RowOK(row[f[p].show])
      /\ f[p].status \in Resolved
  BY DEF MInv, Types, apply_metadata, ProcOK, Fetch
<1>2. RowOK(Applied(row[f[p].show], f[p].status))
  BY <1>1, RowWrites, CountedType
<1> QED
  BY <1>1, <1>2, WritesOK DEF apply_metadata

\* A killed process holds nothing; its row waits for the lease to run out.
LEMMA KillOK ==
    ASSUME MInv, NEW p \in Procs, Kill(p)
    PROVE  MInv'
<1> USE DEF MInv
<1>1. row' = [t \in Shows |-> row'[t]] /\ f' = [q \in Procs |-> f'[q]]
      /\ limited' \in BOOLEAN /\ events' \in 0 .. MaxEvents
  BY MetadataAssumption DEF Types, Kill, Event
<1>2. \A t \in Shows : RowOK(row'[t])
  BY DEF Types, Kill, Event
<1>3. \A q \in Procs : ProcOK(f'[q])
  BY NewFetches DEF Types, Kill, Event
<1>4. Types'
  BY <1>1, <1>2, <1>3 DEF Types
<1>5. \A q \in Procs : f'[q].sole =>
         /\ f[q].sole /\ f'[q].show = f[q].show
         /\ row'[f[q].show].status = row[f[q].show].status
         /\ row'[f[q].show].age = row[f[q].show].age
  BY DEF Types, RowOK, ProcOK, Row, Fetch, Idle, LeaseOK, Kill, Event
<1> QED
  BY <1>4, <1>5, NoNewClaim

\* A sync that writes a row ends the claims on it.
LEMMA UpsertOK ==
    ASSUME MInv, NEW s \in Shows, upsert_show_full(s)
    PROVE  MInv'
<1> USE DEF MInv
<1>1. row' = [t \in Shows |-> row'[t]] /\ f' = [q \in Procs |-> f'[q]]
      /\ limited' \in BOOLEAN /\ events' \in 0 .. MaxEvents
  BY MetadataAssumption DEF Types, upsert_show_full, Void
<1>2. \A t \in Shows : RowOK(row'[t])
  <2>1. CASE row[s].status \in Resolved
    BY <2>1 DEF Types, upsert_show_full, RowOK, Row
  <2>2. CASE row[s].status \notin Resolved
    BY <2>2, RowWrites, CountedType DEF Types, upsert_show_full
  <2> QED
    BY <2>1, <2>2
<1>3. \A q \in Procs : ProcOK(f'[q])
  BY ProcWrites DEF Types, upsert_show_full, Void
<1>4. Types'
  BY <1>1, <1>2, <1>3 DEF Types
<1>5. \A q \in Procs : f'[q].sole =>
         /\ f[q].sole /\ f'[q].show = f[q].show
         /\ row'[f[q].show].status = row[f[q].show].status
         /\ row'[f[q].show].age = row[f[q].show].age
  BY DEF Types, RowOK, ProcOK, Row, Fetch, Idle, LeaseOK, upsert_show_full, Void
<1> QED
  BY <1>4, <1>5, NoNewClaim

\* A retry comes due.
LEMMA RetryOK ==
    ASSUME MInv, NEW s \in Shows, Retry(s)
    PROVE  MInv'
<1> USE DEF MInv
<1>1. row' = [t \in Shows |-> row'[t]] /\ f' = [q \in Procs |-> f'[q]]
      /\ limited' \in BOOLEAN /\ events' \in 0 .. MaxEvents
  BY MetadataAssumption DEF Types, Retry
<1>2. \A t \in Shows : RowOK(row'[t])
  BY RowWrites, CountedType DEF Types, Retry
<1>3. \A q \in Procs : ProcOK(f'[q])
  BY DEF Types, Retry
<1>4. Types'
  BY <1>1, <1>2, <1>3 DEF Types
<1>5. \A q \in Procs : f'[q].sole =>
         /\ f[q].sole /\ f'[q].show = f[q].show
         /\ row'[f[q].show].status = row[f[q].show].status
         /\ row'[f[q].show].age = row[f[q].show].age
  BY DEF Types, RowOK, ProcOK, Row, Fetch, Idle, LeaseOK, Retry
<1> QED
  BY <1>4, <1>5, NoNewClaim

\* A lease runs out, and with it the claim.
LEMMA AgeOK ==
    ASSUME MInv, NEW s \in Shows, Age(s)
    PROVE  MInv'
<1> USE DEF MInv
<1>1. row' = [t \in Shows |-> row'[t]] /\ f' = [q \in Procs |-> f'[q]]
      /\ limited' \in BOOLEAN /\ events' \in 0 .. MaxEvents
  BY MetadataAssumption DEF Types, Age, Void
<1>2. \A t \in Shows : RowOK(row'[t])
  BY RowWrites, CountedType DEF Types, Age, Void
<1>3. \A q \in Procs : ProcOK(f'[q])
  BY ProcWrites DEF Types, Age, Void
<1>4. Types'
  BY <1>1, <1>2, <1>3 DEF Types
<1>5. \A q \in Procs : f'[q].sole =>
         /\ f[q].sole /\ f'[q].show = f[q].show
         /\ row'[f[q].show].status = row[f[q].show].status
         /\ row'[f[q].show].age = row[f[q].show].age
  BY DEF Types, RowOK, ProcOK, Row, Fetch, Idle, LeaseOK, Age, Void
<1> QED
  BY <1>4, <1>5, NoNewClaim

\* The end of a sync queues rows, and ends the claims on them.
LEMMA QueueStaleOK ==
    ASSUME MInv, NEW stale \in SUBSET Shows, queue_stale_metadata(stale)
    PROVE  MInv'
<1> USE DEF MInv
<1>1. row' = [t \in Shows |-> row'[t]] /\ f' = [q \in Procs |-> f'[q]]
      /\ limited' \in BOOLEAN /\ events' \in 0 .. MaxEvents
  BY MetadataAssumption DEF Types, queue_stale_metadata
<1>2. \A t \in Shows : RowOK(row'[t])
  BY RowWrites, CountedType DEF Types, queue_stale_metadata
<1>3. \A q \in Procs : ProcOK(f'[q])
  BY ProcWrites DEF Types, queue_stale_metadata
<1>4. Types'
  BY <1>1, <1>2, <1>3 DEF Types
<1>5. \A q \in Procs : f'[q].sole =>
         /\ f[q].sole /\ f'[q].show = f[q].show
         /\ row'[f[q].show].status = row[f[q].show].status
         /\ row'[f[q].show].age = row[f[q].show].age
  BY DEF Types, RowOK, ProcOK, Row, Fetch, Idle, LeaseOK, queue_stale_metadata
<1> QED
  BY <1>4, <1>5, NoNewClaim

-----------------------------------------------------------------------------
(* The theorems.                                                           *)

\* Every step of the queue keeps the invariant.
LEMMA NextOK == MInv /\ [Next]_vars => MInv'
<1> SUFFICES ASSUME MInv, [Next]_vars
             PROVE  MInv'
  OBVIOUS
<1>1. CASE UNCHANGED vars
  BY <1>1 DEF vars, MInv, Types, LeaseOK, ClaimExclusive
<1>2. ASSUME NEW p \in Procs, NEW s \in Shows, claim_next_metadata_job(p, s)
      PROVE  MInv'
  BY <1>2, ClaimOK
<1>3. ASSUME NEW p \in Procs, NEW s \in Shows, NEW force \in BOOLEAN, Ask(p, s, force)
      PROVE  MInv'
  BY <1>3, AskOK
<1>4. ASSUME NEW p \in Procs, Step(p)
      PROVE  MInv'
  BY <1>4, FetchOK, JikanAnswersOK, JikanFailsOK, JikanLimitsOK, MalAnswersOK, MalFailsOK,
     ApplyOK DEF Step
<1>5. ASSUME NEW p \in Procs, Kill(p)
      PROVE  MInv'
  BY <1>5, KillOK
<1>6. ASSUME NEW s \in Shows, upsert_show_full(s) \/ Retry(s) \/ Age(s)
      PROVE  MInv'
  BY <1>6, UpsertOK, RetryOK, AgeOK
<1>7. ASSUME NEW stale \in SUBSET Shows, queue_stale_metadata(stale)
      PROVE  MInv'
  BY <1>7, QueueStaleOK
<1>8. CASE Unlimit
  BY <1>8 DEF Unlimit, MInv, Types, LeaseOK, ClaimExclusive
<1> QED
  BY <1>1, <1>2, <1>3, <1>4, <1>5, <1>6, <1>7, <1>8 DEF Next

\* The invariant always holds.
LEMMA Invariant == Spec => []MInv
BY InitOK, NextOK, PTL DEF Spec

\* The rows of the queue and its processes have their types, and a resolved
\* show has no retry left over that would keep a sync from queueing it again.
THEOREM TypeCorrect == Spec => []TypeOK
<1>1. MInv => TypeOK
  BY DEF MInv, Types, TypeOK, RowOK, ProcOK, Row, Fetch
<1> QED
  BY <1>1, Invariant, PTL

\* claim_next_metadata_job, "so no other worker can claim it": no two processes
\* hold an undisturbed claim on one show.
THEOREM ClaimIsExclusive == Spec => []ClaimExclusive
<1>1. MInv => ClaimExclusive
  BY DEF MInv
<1> QED
  BY <1>1, Invariant, PTL
=============================================================================

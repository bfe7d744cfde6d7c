------------------------------ MODULE Metadata ------------------------------
(***************************************************************************)
(* The metadata queue: the metadata_* columns of the shows table, the      *)
(* fetches that fill them, and the sync that queues shows.                 *)
(*                                                                         *)
(* Several processes fetch at once: the daemon's queue worker, and beside  *)
(* it the search step of a job or a command of the CLI.  A fetch reads the *)
(* row, waits for Jikan, for MAL and for the poster, and writes the row    *)
(* without a second look.                                                  *)
(*                                                                         *)
(* Time is kept as what the code asks of it: whether a lease has run out,  *)
(* whether a retry is due.  Whether a resolved row is older than 7 days or *)
(* lacks its synopsis or its poster is left open: both cases are possible  *)
(* wherever the code asks.                                                 *)
(***************************************************************************)
EXTENDS Naturals

CONSTANTS
    Shows,          \* MAL ids
    Watching,       \* shows whose list status is watching
    Procs, Daemon,  \* processes that fetch; the one that works the queue
    MaxCount,       \* metadata_retry_count is counted up to here (bound)
    MaxEvents       \* kills, answers with Retry-After and fetches outside
                    \* the queue, together (bound)

ASSUME MetadataAssumption ==
    /\ Shows \subseteq Nat \ {0} /\ Watching \subseteq Shows /\ Daemon \in Procs
    /\ MaxCount \in Nat /\ MaxEvents \in Nat

VARIABLES
    row,        \* the shows table
    limited,    \* state.jikan_retry_after_at lies ahead
    f,          \* what each process fetches, and how far it is
    events      \* counts what MaxEvents bounds

vars == <<row, limited, f, events>>

Event == events < MaxEvents /\ events' = events + 1

Resolved == {"ready", "partial"}

NoShow == 0
Idle == [pc |-> "idle", show |-> NoShow, force |-> FALSE, count |-> 0,
         status |-> "none", sole |-> FALSE]

\* `sole` is history: the process has claimed the show, and since then the
\* lease has not run out and no sync or other fetch has touched the row.
Void(s, kept) ==
    [r \in Procs |-> IF r \notin kept /\ f[r].show = s
                     THEN [f[r] EXCEPT !.sole = FALSE] ELSE f[r]]

Writes(s, p, r) ==
    /\ row' = [row EXCEPT ![s] = r]
    /\ f' = [Void(s, {p}) EXCEPT ![p] = Idle]

-----------------------------------------------------------------------------
(* The queue.                                                              *)

\* metadata_next_retry_at is NULL or past.
Due(s) == ~row[s].waits

\* queue_stale_metadata, at the end of a sync: every row that is neither
\* resolved nor failed, and the resolved ones that are stale or incomplete.
queue_stale_metadata(stale) ==
    LET queued == {s \in Shows : /\ row[s].status \in {"pending", "fetching"} \/ s \in stale
                                 /\ row[s].status # "failed"
                                 /\ Due(s)}
    IN  /\ stale \subseteq {s \in Shows : row[s].status \in Resolved}
        /\ row' = [s \in Shows |-> IF s \in queued
                    THEN [row[s] EXCEPT !.status = "pending"] ELSE row[s]]
        /\ f' = [p \in Procs |-> IF f[p].show \in queued
                  THEN [f[p] EXCEPT !.sole = FALSE] ELSE f[p]]
        /\ UNCHANGED <<limited, events>>

\* upsert_show_full: any row that is not resolved is pending again.
upsert_show_full(s) ==
    /\ row' = [row EXCEPT ![s].status = IF @ \in Resolved THEN @ ELSE "pending"]
    /\ f' = Void(s, {})
    /\ UNCHANGED <<limited, events>>

\* Mutant: a row that is being fetched is never claimed.
Claimable_pending(s) == row[s].status = "pending" /\ Due(s)

\* Mutant: the lease of a claim is not looked at.
Claimable_leased(s) == row[s].status \in {"pending", "fetching"} /\ Due(s)

Claimable(s) ==
    /\ \/ row[s].status = "pending"
       \/ row[s].status = "fetching" /\ row[s].age # "new"
    /\ Due(s)

\* ORDER BY watching, metadata_retry_count, mal_id
Before(s, t) ==
    LET late(u) == IF u \in Watching THEN 0 ELSE 1
    IN  \/ late(s) < late(t)
        \/ late(s) = late(t) /\ row[s].count < row[t].count
        \/ late(s) = late(t) /\ row[s].count = row[t].count /\ s < t

claim_next_metadata_job(p, s) ==
    /\ f[p].pc = "idle"
    /\ Claimable(s) /\ \A t \in Shows \ {s} : Claimable(t) => Before(s, t)
    /\ row' = [row EXCEPT ![s] = [@ EXCEPT !.status = "fetching", !.age = "new"]]
    /\ f' = [f EXCEPT ![p] = [Idle EXCEPT !.pc = "claimed", !.show = s, !.sole = TRUE]]
    /\ UNCHANGED <<limited, events>>

-----------------------------------------------------------------------------
(* A fetch.                                                                *)

\* A fetch outside the queue: show_detail_cmd for a row that looks incomplete,
\* `metadata fetch` for any, and with force the search step and `plan --mal-id`
\* for one that is not resolved, and `metadata fetch --force`.
Ask(p, s, force) ==
    /\ p # Daemon /\ f[p].pc = "idle" /\ Event
    /\ f' = [f EXCEPT ![p] = [Idle EXCEPT !.pc = "claimed", !.show = s, !.force = force]]
    /\ UNCHANGED <<row, limited>>

\* Read the row; a cached one (fresh and complete) or a waiting one is left
\* alone.  While Jikan's Retry-After lasts, no request is made.
fetch_show_metadata(p) ==
    /\ f[p].pc = "claimed"
    /\ LET s == f[p].show  r == row[s]
       IN  \/ /\ ~f[p].force /\ (r.status \in Resolved \/ r.waits)
              /\ f' = [f EXCEPT ![p] = Idle]
              /\ UNCHANGED row
           \/ /\ f[p].force \/ ~r.waits
              /\ row' = [row EXCEPT ![s].status = "fetching"]
              /\ f' = [f EXCEPT ![p] = [@ EXCEPT !.force = FALSE, !.count = r.count,
                         !.pc = IF limited THEN "mal" ELSE "jikan"]]
    /\ UNCHANGED <<limited, events>>

Got(p, status) ==
    f' = [f EXCEPT ![p] = [@ EXCEPT !.pc = "apply", !.status = status, !.count = 0]]

\* Jikan has the show, with a synopsis.
JikanAnswers(p) ==
    /\ f[p].pc = "jikan"
    /\ Got(p, "ready")
    /\ UNCHANGED <<row, limited, events>>

\* It has no synopsis for it (to be used if MAL has nothing either), does not
\* know it, or gives no answer.
JikanFails(p) ==
    /\ f[p].pc = "jikan"
    /\ \E status \in {"ready", "none"} :
         f' = [f EXCEPT ![p] = [@ EXCEPT !.pc = "mal", !.status = status]]
    /\ UNCHANGED <<row, limited, events>>

\* 429 with Retry-After: no process asks before then.
JikanLimits(p) ==
    /\ f[p].pc = "jikan" /\ Event
    /\ limited' = TRUE
    /\ f' = [f EXCEPT ![p].pc = "mal"]
    /\ UNCHANGED row

\* The fallback answers, with or without a synopsis.
MalAnswers(p) ==
    /\ f[p].pc = "mal"
    /\ Got(p, "partial")
    /\ UNCHANGED <<row, limited, events>>

Counted(n) == IF n < MaxCount THEN n + 1 ELSE n

\* No token, no answer, or a 404 of its own.  What Jikan had is applied; a 404
\* of either is final; anything else is tried again after a backoff.
MalFails(p) ==
    /\ f[p].pc = "mal"
    /\ LET s == f[p].show
           failed == [row[s] EXCEPT !.count = Counted(f[p].count)]
       IN  IF f[p].status = "ready" THEN Got(p, "ready") /\ UNCHANGED row
           ELSE \/ Writes(s, p, [failed EXCEPT !.status = "failed", !.waits = FALSE])
                \/ Writes(s, p, [failed EXCEPT !.status = "pending", !.waits = TRUE])
    /\ UNCHANGED <<limited, events>>

\* Mutant: a success leaves the schedule of the last failure.
Applied_scheduled(r, status) == [r EXCEPT !.status = status, !.age = "new", !.count = 0]

Applied(r, status) ==
    [r EXCEPT !.status = status, !.age = "new", !.waits = FALSE, !.count = 0]

\* apply_jikan_metadata, apply_mal_metadata: after the poster's download, which
\* may fail.
apply_metadata(p) ==
    /\ f[p].pc = "apply"
    /\ Writes(f[p].show, p, Applied(row[f[p].show], f[p].status))
    /\ UNCHANGED <<limited, events>>

-----------------------------------------------------------------------------
(* Time, and kills.                                                        *)

Retry(s) ==
    /\ row[s].waits
    /\ row' = [row EXCEPT ![s].waits = FALSE]
    /\ UNCHANGED <<limited, f, events>>

\* The five minutes of a lease pass.
Age(s) ==
    /\ row[s].age = "new"
    /\ row' = [row EXCEPT ![s].age = "old"]
    /\ f' = Void(s, {})
    /\ UNCHANGED <<limited, events>>

Unlimit ==
    /\ limited /\ limited' = FALSE
    /\ UNCHANGED <<row, f, events>>

Kill(p) ==
    /\ f[p].pc # "idle" /\ Event
    /\ f' = [f EXCEPT ![p] = Idle]
    /\ UNCHANGED <<row, limited>>

-----------------------------------------------------------------------------
\* Shows as the first sync leaves them.
Init ==
    /\ row = [s \in Shows |-> [status |-> "pending", age |-> "old", waits |-> FALSE,
                               count |-> 0]]
    /\ limited = FALSE
    /\ f = [p \in Procs |-> Idle]
    /\ events = 0

Step(p) ==
    \/ fetch_show_metadata(p)
    \/ JikanAnswers(p) \/ JikanFails(p) \/ JikanLimits(p)
    \/ MalAnswers(p) \/ MalFails(p)
    \/ apply_metadata(p)

Next ==
    \/ \E p \in Procs :
         \/ \E s \in Shows : claim_next_metadata_job(p, s)
         \/ \E s \in Shows, force \in BOOLEAN : Ask(p, s, force)
         \/ Step(p) \/ Kill(p)
    \/ \E s \in Shows : upsert_show_full(s) \/ Retry(s) \/ Age(s)
    \/ \E stale \in SUBSET Shows : queue_stale_metadata(stale)
    \/ Unlimit

Spec == Init /\ [][Next]_vars

\* Jikan answers for show s.
Answered(s) == \E p \in Procs : f[p].show = s /\ JikanAnswers(p)

\* The daemon works the queue once a second; the shortest backoff is 30 seconds,
\* so a show that is behind others is not passed over forever (SF).  A request
\* made again and again is answered in the end (SF): without it no metadata
\* can arrive.
FairSpec ==
    /\ Spec
    /\ \A p \in Procs : WF_vars(Step(p))
    /\ \A s \in Shows : /\ SF_vars(claim_next_metadata_job(Daemon, s))
                        /\ SF_vars(Answered(s))
                        /\ WF_vars(Retry(s)) /\ WF_vars(Age(s))
    /\ WF_vars(Unlimit)

-----------------------------------------------------------------------------
\* Types; and a resolved row has no retry left over, which would keep
\* queue_stale_metadata from queueing it.
TypeOK ==
    /\ row \in [Shows -> [status : {"pending", "fetching", "failed"} \cup Resolved,
                          age : {"new", "old"}, waits : BOOLEAN,
                          count : 0 .. MaxCount]]
    /\ \A s \in Shows : row[s].status \in Resolved => ~row[s].waits
    /\ limited \in BOOLEAN /\ events \in 0 .. MaxEvents
    /\ \A p \in Procs :
         /\ f[p].pc \in {"idle", "claimed", "jikan", "mal", "apply"}
         /\ f[p].show \in Shows \cup {NoShow}
         /\ f[p].pc = "idle" <=> f[p].show = NoShow

\* claim_next_metadata_job: "so no other worker can claim it".  That is what the
\* lease gives, until it runs out or a sync or another fetch writes the row.
ClaimExclusive ==
    \A p, r \in Procs : p # r /\ f[p].sole /\ f[r].sole => f[p].show # f[r].show

\* Every show is resolved, or found not to exist, again and again: whatever is
\* killed, syncs requeue, or fails for other shows.
MetadataArrives ==
    \A s \in Shows : []<>(row[s].status \in Resolved \cup {"failed"})
=============================================================================

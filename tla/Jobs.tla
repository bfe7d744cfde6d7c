-------------------------------- MODULE Jobs --------------------------------
(***************************************************************************)
(* One row of the `jobs` table and the only ways the program rewrites it:  *)
(* `transition` (a move on the diagram), `reschedule` (stay, run later),   *)
(* `enqueue_search` (a new row) and `set_chosen` (pick a candidate).       *)
(*                                                                         *)
(* Abstractions.  `next_run_at` keeps only what `due_jobs` tells apart:    *)
(* "null" (due now), "soon" (a backoff or a poll interval ahead) and "day" *)
(* (24 hours ahead).  `last_error` keeps only the class `resume_blocked`   *)
(* reads back from its text.  The columns of the stall timer (`progress`,  *)
(* `last_progress_at`, `updated_at`) are modelled in StallTimer.           *)
(***************************************************************************)
EXTENDS Naturals

CONSTANTS Episodes,     \* episode rows of one show, numbered
          Torrents,     \* candidate torrents of that show, by info hash
          NoTorrent     \* torrent_id IS NULL

ASSUME JobsAssumption ==
    /\ Episodes # {}
    /\ Episodes \subseteq Nat
    /\ NoTorrent \notin Torrents

-----------------------------------------------------------------------------
(* The states of models.rs and the diagram of jobs/transitions.rs.         *)

\* The five main steps: the only states in which a job runs work.
ActiveState == {"search", "choose", "add", "monitor", "finalize"}

\* Every state a row of the table can hold.
JobState == ActiveState \cup {"needs_input", "blocked", "failed", "done"}

\* The four budgets the scheduler dispatches from.
JobKind == {"search", "add", "monitor", "finalize"}

\* Every legal move, grouped by the state it leaves.
TRANSITIONS ==
      ({"search"} \X {"choose", "needs_input", "blocked", "failed"})
 \cup ({"choose"} \X {"add", "needs_input", "blocked", "failed"})
 \cup ({"add"} \X {"monitor", "blocked", "failed", "choose"})
 \cup ({"monitor"} \X {"finalize", "search", "needs_input", "blocked",
                       "failed", "add"})
 \cup ({"finalize"} \X {"done", "needs_input", "blocked", "failed"})
 \cup ({"needs_input"} \X (ActiveState \cup {"failed", "done"}))
 \cup ({"blocked"} \X (ActiveState \cup {"failed"}))
 \cup ({"failed"} \X {"search", "done"})

is_allowed(from, to) == from # "done" /\ <<from, to>> \in TRANSITIONS

\* Mutant: "choose" does not ride along with search.
kind_of_state_one_to_one(state) == state

\* The budget a main step spends; "choose" rides along with search.
kind_of_state(state) ==
    IF state \in {"add", "monitor", "finalize"} THEN state ELSE "search"

\* Side and terminal states keep the budget of the step they return to, or
\* the one they were already spending.
kind_for(to, current, blocked_from) ==
    IF to \in ActiveState THEN kind_of_state(to)
    ELSE IF blocked_from # "none" THEN kind_of_state(blocked_from)
    ELSE current

-----------------------------------------------------------------------------
(* The row.                                                                *)

\* The classes of `last_error` text that resume_blocked distinguishes.
Reason == {"none", "metadata", "nyaa", "resource", "other"}

\* "unborn": the id has not been handed out; "deleted": the row is gone
\* (AUTOINCREMENT never hands an id out twice).
Row == [episode      : Episodes,
        kind         : JobKind,
        state        : JobState \cup {"unborn", "deleted"},
        attempts     : Nat,
        torrent      : Torrents \cup {NoTorrent},
        blocked_from : ActiveState \cup {"none"},
        next_run_at  : {"null", "soon", "day"},
        last_error   : Reason]

exists(row) == row.state \in JobState
is_active(row) == row.state \in ActiveState

\* Mutants: any job may be answered or released; only a failed one may.
waits_any(row) == exists(row)
waits_failed(row) == row.state = "failed"

\* A job an answer or an expired question may move.
waits(row) == row.state \in {"needs_input", "failed"}

\* The part of due_jobs' WHERE clause that concerns one row.
is_due(row, kind) ==
    is_active(row) /\ row.kind = kind /\ row.next_run_at = "null"

\* What a move may also write (MoveOptions); no caller sets next_run_at.
MoveOptions == [clear_torrent  : BOOLEAN,
                blocked_from   : ActiveState \cup {"none"},
                reset_attempts : BOOLEAN,
                count_attempt  : BOOLEAN]

default == [clear_torrent |-> FALSE, blocked_from |-> "none",
            reset_attempts |-> FALSE, count_attempt |-> FALSE]

\* The guard of `transition`: the row exists, is not done, and the move is on
\* the diagram or stays put.
can_move(row, to) ==
    /\ exists(row)
    /\ row.state # "done"
    /\ row.state = to \/ is_allowed(row.state, to)

\* Mutant: leaving `blocked` does not clear blocked_from.
transition_keeps_return(row, to, reason, opts) ==
    [row EXCEPT
        !.state = to,
        !.kind = kind_for(to, row.kind, opts.blocked_from),
        !.torrent = IF opts.clear_torrent THEN NoTorrent ELSE row.torrent,
        !.blocked_from = IF opts.blocked_from # "none" THEN opts.blocked_from
                         ELSE row.blocked_from,
        !.next_run_at = "null",
        !.last_error = reason]

\* The single UPDATE `transition` writes once its guard has passed.
transition(row, to, reason, opts) ==
    [row EXCEPT
        !.state = to,
        !.kind = kind_for(to, row.kind, opts.blocked_from),
        !.attempts = IF opts.reset_attempts THEN 0
                     ELSE IF opts.count_attempt THEN row.attempts + 1
                     ELSE row.attempts,
        !.torrent = IF opts.clear_torrent THEN NoTorrent ELSE row.torrent,
        !.blocked_from =
            IF opts.blocked_from # "none" THEN opts.blocked_from
            ELSE IF to # "blocked" THEN "none"
            ELSE row.blocked_from,
        !.next_run_at = IF to = "blocked" THEN "soon" ELSE "null",
        !.last_error =
            IF to \in {"blocked", "failed"} THEN reason
            ELSE IF row.state \in {"blocked", "failed"} THEN "none"
            ELSE row.last_error]

\* Stay, and run again later.
reschedule(row, at, reason) ==
    [row EXCEPT !.next_run_at = at, !.last_error = reason]

set_chosen(row, torrent) == [row EXCEPT !.torrent = torrent]

\* The row enqueue_search inserts.
search_row(episode) ==
    [episode |-> episode, kind |-> "search", state |-> "search",
     attempts |-> 0, torrent |-> NoTorrent, blocked_from |-> "none",
     next_run_at |-> "null", last_error |-> "none"]

\* An id not handed out yet.
unborn == [search_row(CHOOSE e \in Episodes : TRUE) EXCEPT !.state = "unborn"]

\* A row after DELETE: only the fact that its id is spent remains.
deleted == [unborn EXCEPT !.state = "deleted"]

-----------------------------------------------------------------------------
(* The two halves of the row invariant, for the modules that keep a table  *)
(* of rows.                                                                *)

\* A blocked row, and only a blocked row, says where it returns to, and it
\* keeps spending that step's budget meanwhile.
blocked_ok(row) ==
    /\ row.state = "blocked" <=> row.blocked_from # "none"
    /\ row.state = "blocked" => row.kind = kind_of_state(row.blocked_from)

\* The step the row is in, or returns to when its blocker clears.
step_of(row) == IF row.state = "blocked" THEN row.blocked_from ELSE row.state
=============================================================================

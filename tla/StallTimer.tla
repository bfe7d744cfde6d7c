----------------------------- MODULE StallTimer -----------------------------
(***************************************************************************)
(* How a job decides that its download has stalled: the columns progress,  *)
(* last_progress_at and updated_at of its row, read and written by the     *)
(* polls of monitor_step, by the moves to the next candidate, by outages   *)
(* of qBittorrent and by a kill and the launch that follows it.            *)
(*                                                                         *)
(* A timestamp is kept as its age, counted up to Timeout, beyond which     *)
(* nothing tells ages apart.  Pipeline has the rest of the job.            *)
(***************************************************************************)
EXTENDS Naturals

CONSTANTS
    Candidates,    \* how many torrents the search knows (bound)
    Size,          \* pieces of each download
    Timeout,       \* settings.stall_timeout_min, in ticks
    Quick,         \* the two minutes of a torrent without seeders, in ticks
    Poll,          \* MONITOR_POLL_SECS, in ticks
    MaxCrashes     \* kills of the daemon (bound)

ASSUME StallAssumption ==
    /\ {Candidates, Size, Timeout, Quick, Poll} \subseteq Nat \ {0}
    /\ Quick <= Timeout
    /\ MaxCrashes \in Nat

VARIABLES
    row,       \* the job's row
    rejected,  \* torrents given up as stalled
    qb,        \* external: the job's torrent in qBittorrent
    up,        \* the daemon runs
    reachable, \* external: qBittorrent answers
    crashes,   \* kills so far
    silent,    \* history: ticks since this torrent was added or progressed
    launched,  \* history: ticks since a launch found the job watching
    carried    \* history: the stall columns are those of a torrent found gone

vars == <<row, rejected, qb, up, reachable, crashes, silent, launched, carried>>

history == <<silent, launched, carried>>

TypeOK ==
    /\ row \in [state : {"search", "monitor", "blocked", "finalize"},
                torrent : 0 .. Candidates,
                progress : 0 .. Size,
                progressed : BOOLEAN,         \* last_progress_at is not NULL
                quiet : 0 .. Timeout,         \* now - last_progress_at
                touched : 0 .. Timeout,       \* now - updated_at
                wait : 0 .. Poll]             \* next_run_at - now
    /\ rejected \subseteq 1 .. Candidates
    /\ qb \in [present : BOOLEAN, have : 0 .. Size, seeded : BOOLEAN]
    /\ up \in BOOLEAN /\ reachable \in BOOLEAN
    /\ crashes \in 0 .. MaxCrashes
    /\ silent \in 0 .. Timeout /\ launched \in 0 .. Timeout
    /\ carried \in BOOLEAN

Init ==
    /\ row = [state |-> "search", torrent |-> 0, progress |-> 0,
              progressed |-> FALSE, quiet |-> 0, touched |-> 0, wait |-> 0]
    /\ rejected = {}
    /\ qb = [present |-> FALSE, have |-> 0, seeded |-> FALSE]
    /\ up = TRUE /\ reachable = TRUE
    /\ crashes = 0 /\ silent = 0 /\ launched = Timeout /\ carried = FALSE

-----------------------------------------------------------------------------
(* What the row remembers.                                                 *)

\* transition: updated_at is now, the job is due.
move(r, to) == [r EXCEPT !.state = to, !.touched = 0, !.wait = 0]

\* Mutant: the stall timestamp of the candidate is kept.
next_candidate_keeping(r) == [move(r, "search") EXCEPT !.torrent = 0, !.progress = 0]

\* next_candidate: clear_torrent also clears the stall columns.
next_candidate(r) ==
    [move(r, "search") EXCEPT !.torrent = 0, !.progress = 0,
                              !.progressed = FALSE, !.quiet = 0]

\* Mutant: every poll counts as progress.
note_progress_always(r, progress, moved) ==
    [r EXCEPT !.progress = progress, !.progressed = TRUE, !.quiet = 0]

note_progress(r, progress, moved) ==
    [r EXCEPT !.progress = progress,
              !.progressed = @ \/ moved,
              !.quiet = IF moved THEN 0 ELSE @]

reschedule(r) == [r EXCEPT !.touched = 0, !.wait = Poll]

\* since = last_progress_at, or updated_at when there is none.
stalled_for(r) == IF r.progressed THEN r.quiet ELSE r.touched

timeout == IF qb.seeded THEN Timeout ELSE Quick

-----------------------------------------------------------------------------
(* The steps.                                                              *)

runs(state) == up /\ row.state = state /\ row.wait = 0

\* search, choose and add of a candidate that was not given up, as far as the
\* row goes.  One that was tried before resumes from the pieces on disk.
Acquire ==
    /\ runs("search") /\ reachable
    /\ \E t \in (1 .. Candidates) \ rejected, have \in 0 .. Size, seeded \in BOOLEAN :
          /\ row' = [move(row, "monitor") EXCEPT !.torrent = t]
          /\ qb' = [present |-> TRUE, have |-> have, seeded |-> seeded]
    /\ silent' = 0
    /\ UNCHANGED <<rejected, up, reachable, crashes, launched, carried>>

\* A poll that finds the download still running.  Given up, a torrent is no
\* longer the job's, whether or not its removal succeeds.
watch ==
    LET moved == qb.have > row.progress
        noted == note_progress(row, qb.have, moved)
    IN
    /\ reachable /\ qb.present /\ qb.have < Size
    /\ \/ /\ moved \/ stalled_for(row) < timeout
          /\ row' = reschedule(noted)
          /\ UNCHANGED <<qb, rejected>>
       \/ /\ ~moved /\ stalled_for(row) >= timeout
          /\ row' = next_candidate(noted)
          /\ qb' = [qb EXCEPT !.present = FALSE]
          /\ rejected' = rejected \cup {row.torrent}

\* monitor_step.
MonitorStep ==
    /\ runs("monitor")
    /\ \/ /\ ~reachable
          /\ row' = move(row, "blocked")
          /\ UNCHANGED <<qb, rejected>>
       \/ /\ reachable /\ ~qb.present
          /\ row' = next_candidate(row)
          /\ UNCHANGED <<qb, rejected>>
       \/ /\ reachable /\ qb.present /\ qb.have = Size
          /\ row' = move(row, "finalize")
          /\ UNCHANGED <<qb, rejected>>
       \/ watch
    /\ carried' = (carried /\ (reachable => row'.quiet > 0))
    /\ UNCHANGED <<up, reachable, crashes, silent, launched>>

\* resume_blocked.
Resume ==
    /\ runs("blocked")
    /\ row' = move(row, "monitor")
    /\ UNCHANGED <<rejected, qb, up, reachable, crashes, history>>

\* A kill; the database keeps the row.
Crash ==
    /\ up /\ crashes < MaxCrashes
    /\ up' = FALSE /\ crashes' = crashes + 1
    /\ UNCHANGED <<row, rejected, qb, reachable, history>>

\* Mutant: the launch does not restart the timer.
restart_stall_timer_not(r) == r

restart_stall_timer(r) == [r EXCEPT !.progressed = TRUE, !.quiet = 0]

\* The launch: reconcile looks at a job that was watching.
Launch ==
    /\ ~up /\ reachable
    /\ up' = TRUE
    /\ \/ /\ row.state # "monitor"
          /\ UNCHANGED <<row, launched, carried>>
       \/ /\ row.state = "monitor" /\ ~qb.present
          /\ row' = move(row, "search")
          /\ carried' = TRUE /\ launched' = launched
       \/ /\ row.state = "monitor" /\ qb.present
          /\ row' = IF qb.have = Size THEN move(row, "finalize")
                    ELSE restart_stall_timer(row)
          /\ launched' = 0 /\ carried' = carried
    /\ UNCHANGED <<rejected, qb, reachable, crashes, silent>>

-----------------------------------------------------------------------------
(* qBittorrent, the network, users, time.                                  *)

\* A piece arrives, from a seeder.
Progress ==
    /\ qb.present /\ qb.have < Size /\ qb.seeded
    /\ qb' = [qb EXCEPT !.have = @ + 1]
    /\ silent' = 0
    /\ UNCHANGED <<row, rejected, up, reachable, crashes, launched, carried>>

SeedersChange ==
    /\ qb.present
    /\ qb' = [qb EXCEPT !.seeded = ~@]
    /\ UNCHANGED <<row, rejected, up, reachable, crashes, history>>

Remove ==
    /\ qb.present
    /\ qb' = [qb EXCEPT !.present = FALSE]
    /\ UNCHANGED <<row, rejected, up, reachable, crashes, history>>

Reachability ==
    /\ reachable' = ~reachable
    /\ UNCHANGED <<row, rejected, qb, up, crashes, history>>

older(n) == IF n < Timeout THEN n + 1 ELSE Timeout

Tick ==
    /\ row' = [row EXCEPT !.quiet = older(@), !.touched = older(@),
                          !.wait = IF @ > 0 THEN @ - 1 ELSE 0]
    /\ silent' = older(silent) /\ launched' = older(launched)
    /\ UNCHANGED <<rejected, qb, up, reachable, crashes, carried>>

Daemon == Acquire \/ MonitorStep \/ Resume \/ Launch

Next ==
    \/ Daemon
    \/ Crash \/ Progress \/ SeedersChange \/ Remove \/ Reachability \/ Tick

Spec == Init /\ [][Next]_vars

\* The scheduler gets to a job that is due, and a launch follows a kill.
FairSpec == Spec /\ WF_vars(Tick) /\ WF_vars(Daemon)

-----------------------------------------------------------------------------
(* What the timer promises.                                                *)

\* A candidate is given up as stalled.
GivesUp == MonitorStep /\ qb.present /\ ~qb'.present

\* A candidate is given up only if no piece of it arrived for the whole
\* timeout: it is never judged by the silence of the one before it, through
\* polls, outages, removals and kills, unless a launch found that one gone
\* (next_candidate, note_progress, restart_stall_timer).
NeverJudgedByAnother ==
    [][GivesUp => silent >= timeout \/ carried]_vars

\* A candidate that a launch found downloading is not given up before it was
\* silent for the timeout after that launch, however long the daemon was down
\* (restart_stall_timer).
LaunchIsNoStall ==
    [][GivesUp => launched >= timeout]_vars

watching(t) == row.torrent = t /\ row.state \in {"monitor", "blocked"}

\* A candidate that has made progress once does not hold its job for ever: it
\* finishes, or it is given up (note_progress, stalled_for).
StartedSettles ==
    \A t \in 1 .. Candidates :
        ~ <>[](up /\ reachable /\ watching(t) /\ row.progressed)

\* steps_finish.rs: "Torrent has 0 seeders: fail over quickly (2 mins)".  No
\* candidate without seeders holds its job for ever.
SeedlessSettles ==
    \A t \in 1 .. Candidates :
        ~ <>[](up /\ reachable /\ watching(t) /\ ~qb.seeded)

\* jobs/transitions.rs, of the next candidate: "the previous one's progress and
\* stall timestamp must not carry over".  No candidate is ever given up for a
\* silence that was not its own.
NothingCarriesOver ==
    [][GivesUp => silent >= timeout]_vars

=============================================================================

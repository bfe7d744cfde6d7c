-------------------------- MODULE StallTimerProofs --------------------------
(***************************************************************************)
(* What the stall timer promises, for any number of candidates, pieces and *)
(* kills and any timeouts: a candidate is given up only after its own      *)
(* silence, and never for the time the daemon was down.                    *)
(***************************************************************************)
EXTENDS StallTimer, TLAPS

(* The row's timer never runs ahead of the two histories.                  *)

Watching == row.state \in {"monitor", "blocked"}

\* A search starts from clean stall columns, unless a launch carried them over.
CleanSearch ==
    row.state = "search" /\ ~carried => ~row.progressed /\ row.progress = 0

\* The row never knows of more pieces than the torrent has, and when it knows
\* of all of them its timer counts no more than the torrent's own silence.
OwnSilence ==
    Watching /\ ~carried =>
        /\ row.progress <= qb.have
        /\ row.progress = qb.have => stalled_for(row) <= silent

\* The timer of a job that is not over counts no more than the time since a
\* launch found it watching.
SinceLaunch == row.state # "finalize" => stalled_for(row) <= launched

\* A job that watches has a torrent to watch.
HasTorrent == Watching => row.torrent # 0

Inv == TypeOK /\ HasTorrent /\ CleanSearch /\ OwnSilence /\ SinceLaunch

-----------------------------------------------------------------------------
(* The operators on the row.                                               *)

States == {"search", "monitor", "blocked", "finalize"}

Rows == [state : States, torrent : 0 .. Candidates, progress : 0 .. Size,
         progressed : BOOLEAN, quiet : 0 .. Timeout, touched : 0 .. Timeout,
         wait : 0 .. Poll]

\* The constants are numbers, and the bounds are in their own ranges.
LEMMA Bounds ==
    /\ Candidates \in Nat /\ Size \in Nat /\ Timeout \in Nat /\ Quick \in Nat
    /\ Poll \in Nat /\ MaxCrashes \in Nat
    /\ 0 \in 0 .. Candidates /\ 0 \in 0 .. Size /\ 0 \in 0 .. Timeout
    /\ Timeout \in 0 .. Timeout /\ 0 \in 0 .. Poll /\ Poll \in 0 .. Poll
BY StallAssumption

\* A move changes the state, makes the job due and touches the row.
LEMMA MoveWrites ==
    ASSUME NEW r \in Rows, NEW to \in States
    PROVE  /\ move(r, to) \in Rows
           /\ move(r, to).state = to /\ move(r, to).touched = 0
           /\ move(r, to).progress = r.progress
           /\ move(r, to).progressed = r.progressed
           /\ move(r, to).quiet = r.quiet /\ move(r, to).torrent = r.torrent
BY Bounds DEF move, Rows

\* The next candidate starts with clean stall columns.
LEMMA NextCandidateWrites ==
    ASSUME NEW r \in Rows
    PROVE  /\ next_candidate(r) \in Rows
           /\ next_candidate(r).state = "search"
           /\ next_candidate(r).touched = 0 /\ next_candidate(r).quiet = 0
           /\ next_candidate(r).progress = 0
           /\ next_candidate(r).progressed = FALSE
BY Bounds DEF next_candidate, move, Rows, States

\* A poll notes the pieces; only new ones restart the timer.
LEMMA NoteWrites ==
    ASSUME NEW r \in Rows, NEW p \in 0 .. Size, NEW moved \in BOOLEAN
    PROVE  /\ note_progress(r, p, moved) \in Rows
           /\ note_progress(r, p, moved).state = r.state
           /\ note_progress(r, p, moved).progress = p
           /\ note_progress(r, p, moved).torrent = r.torrent
           /\ moved => /\ note_progress(r, p, moved).progressed
                       /\ note_progress(r, p, moved).quiet = 0
           /\ ~moved => /\ note_progress(r, p, moved).progressed = r.progressed
                        /\ note_progress(r, p, moved).quiet = r.quiet
<1> DEFINE n == note_progress(r, p, moved)
<1>1. (r.progressed \/ moved) \in BOOLEAN
  OBVIOUS
<1>2. (IF moved THEN 0 ELSE r.quiet) \in 0 .. Timeout
  BY Bounds DEF Rows
<1>3. n \in Rows
  BY <1>1, <1>2 DEF note_progress, Rows
<1>4. n.state = r.state /\ n.torrent = r.torrent /\ n.progress = p /\ n.progressed = (r.progressed \/ moved)
      /\ n.quiet = (IF moved THEN 0 ELSE r.quiet)
  BY DEF note_progress, Rows
<1>5. r.progressed \in BOOLEAN
  BY DEF Rows
<1> QED
  BY <1>3, <1>4, <1>5

\* The next poll of a job is one poll interval away.
LEMMA RescheduleWrites ==
    ASSUME NEW r \in Rows
    PROVE  /\ reschedule(r) \in Rows
           /\ reschedule(r).state = r.state /\ reschedule(r).touched = 0
           /\ reschedule(r).progress = r.progress /\ reschedule(r).torrent = r.torrent
           /\ reschedule(r).progressed = r.progressed
           /\ reschedule(r).quiet = r.quiet
BY Bounds DEF reschedule, Rows

\* A launch restarts the timer.
LEMMA RestartWrites ==
    ASSUME NEW r \in Rows
    PROVE  /\ restart_stall_timer(r) \in Rows
           /\ restart_stall_timer(r).state = r.state
           /\ restart_stall_timer(r).progress = r.progress /\ restart_stall_timer(r).torrent = r.torrent
           /\ restart_stall_timer(r).progressed = TRUE
           /\ restart_stall_timer(r).quiet = 0
BY Bounds DEF restart_stall_timer, Rows

\* Ages only grow, up to the cap, and keep their order.
LEMMA OlderGrows ==
    ASSUME NEW m \in 0 .. Timeout, NEW n \in 0 .. Timeout
    PROVE  /\ older(m) \in 0 .. Timeout
           /\ m <= n => older(m) <= older(n)
BY Bounds DEF older

\* The timer of a row is an age.
LEMMA TimerType ==
    ASSUME NEW r \in Rows
    PROVE  stalled_for(r) \in 0 .. Timeout
BY DEF stalled_for, Rows

-----------------------------------------------------------------------------
(* The invariant is inductive.                                             *)

LEMMA InitInv == Init => Inv
<1> SUFFICES ASSUME Init PROVE Inv
  OBVIOUS
<1>1. TypeOK
  <2>1. row \in Rows
    BY Bounds DEF Init, Rows, States
  <2>2. qb \in [present : BOOLEAN, have : 0 .. Size, seeded : BOOLEAN]
    BY Bounds DEF Init
  <2>3. crashes \in 0 .. MaxCrashes /\ silent \in 0 .. Timeout /\ launched \in 0 .. Timeout
    BY Bounds DEF Init
  <2> QED
    BY <2>1, <2>2, <2>3 DEF Init, TypeOK, Rows, States
<1>2. CleanSearch /\ OwnSilence /\ HasTorrent
  BY DEF Init, CleanSearch, OwnSilence, HasTorrent, Watching
<1>3. SinceLaunch
  BY Bounds DEF Init, SinceLaunch, stalled_for
<1> QED
  BY <1>1, <1>2, <1>3 DEF Inv

\* Leaving the row and the torrent alone, or only taking the torrent away, keeps
\* the timer honest.
LEMMA RowKept ==
    ASSUME Inv, row' = row, qb'.have = qb.have,
           UNCHANGED <<silent, launched, carried>>
    PROVE  CleanSearch' /\ OwnSilence' /\ SinceLaunch' /\ HasTorrent'
BY DEF Inv, HasTorrent, CleanSearch, OwnSilence, SinceLaunch, Watching, stalled_for

LEMMA AcquireKeeps == ASSUME Inv, Acquire PROVE Inv'
<1>1. row \in Rows /\ launched \in 0 .. Timeout
  BY DEF Inv, TypeOK, Rows, States
<1>2. PICK t \in (1 .. Candidates) \ rejected, have \in 0 .. Size, seeded \in BOOLEAN :
        /\ row' = [move(row, "monitor") EXCEPT !.torrent = t]
        /\ qb' = [present |-> TRUE, have |-> have, seeded |-> seeded]
  BY DEF Acquire
<1> DEFINE m == move(row, "monitor")
<1>3. /\ m \in Rows /\ m.state = "monitor" /\ m.touched = 0
      /\ m.progress = row.progress /\ m.progressed = row.progressed
      /\ m.quiet = row.quiet
  BY <1>1, MoveWrites DEF States
<1> HIDE DEF m
<1>4. t \in 0 .. Candidates
  BY <1>2, Bounds
<1>5. row' \in Rows /\ row'.state = "monitor" /\ row'.touched = 0
      /\ row'.progress = row.progress /\ row'.progressed = row.progressed
      /\ row'.quiet = row.quiet
  BY <1>2, <1>3, <1>4 DEF Rows, m
<1>6. row.state = "search" /\ silent' = 0
      /\ UNCHANGED <<rejected, up, reachable, crashes, launched, carried>>
  BY DEF Acquire, runs
<1>7. TypeOK'
  BY <1>2, <1>5, <1>6, Bounds DEF Inv, TypeOK, Rows, States
<1>8. qb'.have = have /\ have \in Nat
  BY <1>2, Bounds
<1>9. OwnSilence'
  <2> SUFFICES ASSUME ~carried
               PROVE  row'.progress <= qb'.have
                      /\ (row'.progress = qb'.have => stalled_for(row)' <= silent')
    BY <1>6 DEF OwnSilence
  <2>1. ~row.progressed /\ row.progress = 0
    BY <1>6 DEF Inv, CleanSearch
  <2> QED
    BY <2>1, <1>5, <1>6, <1>8 DEF stalled_for
<1>10. SinceLaunch'
  <2>1. stalled_for(row) <= launched
    BY <1>6 DEF Inv, SinceLaunch
  <2> QED
    BY <2>1, <1>1, <1>5, <1>6, Bounds DEF SinceLaunch, stalled_for
<1>11. CleanSearch' /\ HasTorrent'
  <2>1. row'.torrent = t /\ t # 0
    BY <1>2, <1>3 DEF Rows, m
  <2> QED
    BY <2>1, <1>5 DEF CleanSearch, HasTorrent
<1> QED
  BY <1>7, <1>9, <1>10, <1>11 DEF Inv

LEMMA MonitorKeeps == ASSUME Inv, MonitorStep PROVE Inv'
<1>1. /\ row \in Rows /\ launched \in 0 .. Timeout /\ silent \in 0 .. Timeout
      /\ qb \in [present : BOOLEAN, have : 0 .. Size, seeded : BOOLEAN]
      /\ rejected \subseteq 1 .. Candidates /\ carried \in BOOLEAN
      /\ reachable \in BOOLEAN
  BY DEF Inv, TypeOK, Rows, States
<1>2. /\ row.state = "monitor" /\ UNCHANGED <<up, reachable, crashes, silent, launched>>
      /\ carried' = (carried /\ (reachable => row'.quiet > 0))
  BY DEF MonitorStep, runs
<1>3. carried' \in BOOLEAN
  BY <1>2
<1>4. stalled_for(row) <= launched /\ row.torrent # 0
  BY <1>2 DEF Inv, SinceLaunch, HasTorrent, Watching
<1>5. launched \in Nat /\ silent \in Nat /\ qb.have \in Nat /\ row.progress \in Nat
      /\ row.quiet \in Nat /\ row.touched \in Nat
  BY <1>1, Bounds DEF Rows
<1>6. ASSUME row' \in Rows, qb' \in [present : BOOLEAN, have : 0 .. Size, seeded : BOOLEAN],
             rejected' \subseteq 1 .. Candidates
      PROVE  TypeOK'
  BY <1>6, <1>2, <1>3 DEF Inv, TypeOK, Rows, States
<1>7. CASE ~reachable /\ row' = move(row, "blocked") /\ UNCHANGED <<qb, rejected>>
  <2>1. /\ row' \in Rows /\ row'.state = "blocked" /\ row'.touched = 0
        /\ row'.progress = row.progress /\ row'.progressed = row.progressed
        /\ row'.quiet = row.quiet /\ row'.torrent = row.torrent
    BY <1>1, <1>7, MoveWrites DEF States
  <2>2. TypeOK'
    BY <2>1, <1>1, <1>6, <1>7
  <2>3. CleanSearch' /\ SinceLaunch' /\ HasTorrent'
    BY <2>1, <1>2, <1>4, <1>5 DEF CleanSearch, SinceLaunch, HasTorrent, stalled_for
  <2>4. carried' = carried
    BY <1>1, <1>2, <1>7
  <2>5. OwnSilence'
    BY <2>1, <2>4, <1>2, <1>5, <1>7 DEF Inv, OwnSilence, Watching, stalled_for
  <2> QED
    BY <2>2, <2>3, <2>5 DEF Inv
<1>8. CASE reachable /\ ~qb.present /\ row' = next_candidate(row)
           /\ UNCHANGED <<qb, rejected>>
  <2>1. /\ row' \in Rows /\ row'.state = "search" /\ row'.touched = 0
        /\ row'.quiet = 0 /\ row'.progress = 0 /\ row'.progressed = FALSE
    BY <1>1, <1>8, NextCandidateWrites
  <2>2. TypeOK'
    BY <2>1, <1>1, <1>6, <1>8
  <2>3. CleanSearch' /\ SinceLaunch' /\ OwnSilence' /\ HasTorrent'
    BY <2>1, <1>2, <1>5 DEF CleanSearch, SinceLaunch, OwnSilence, HasTorrent, Watching, stalled_for
  <2> QED
    BY <2>2, <2>3 DEF Inv
<1>9. CASE reachable /\ qb.present /\ qb.have = Size /\ row' = move(row, "finalize")
           /\ UNCHANGED <<qb, rejected>>
  <2>1. row' \in Rows /\ row'.state = "finalize"
    BY <1>1, <1>9, MoveWrites DEF States
  <2>2. TypeOK'
    BY <2>1, <1>1, <1>6, <1>9
  <2>3. CleanSearch' /\ SinceLaunch' /\ OwnSilence' /\ HasTorrent'
    BY <2>1 DEF CleanSearch, SinceLaunch, OwnSilence, HasTorrent, Watching
  <2> QED
    BY <2>2, <2>3 DEF Inv
<1>10. CASE watch
  <2> DEFINE moved == qb.have > row.progress
             noted == note_progress(row, qb.have, moved)
  <2>1. moved \in BOOLEAN /\ qb.have \in 0 .. Size
    BY <1>1
  <2>2. /\ noted \in Rows /\ noted.state = row.state /\ noted.progress = qb.have
        /\ noted.torrent = row.torrent
        /\ moved => noted.progressed /\ noted.quiet = 0
        /\ ~moved => noted.progressed = row.progressed /\ noted.quiet = row.quiet
    <3> HIDE DEF moved
    <3> QED
      BY <2>1, <1>1, NoteWrites
  <2>3. \/ /\ row' = reschedule(noted)
           /\ UNCHANGED <<qb, rejected>>
        \/ /\ ~moved /\ stalled_for(row) >= timeout
           /\ row' = next_candidate(noted)
           /\ qb' = [qb EXCEPT !.present = FALSE]
           /\ rejected' = rejected \cup {row.torrent}
    BY <1>10 DEF watch
  <2>4. reachable
    BY <1>10 DEF watch
  <2> HIDE DEF noted
  <2>5. CASE row' = reschedule(noted) /\ UNCHANGED <<qb, rejected>>
    <3>1. /\ row' \in Rows /\ row'.state = "monitor" /\ row'.touched = 0
          /\ row'.progress = qb.have /\ row'.progressed = noted.progressed
          /\ row'.quiet = noted.quiet /\ row'.torrent = row.torrent
      BY <2>2, <2>5, <1>2, RescheduleWrites
    <3>2. TypeOK'
      BY <3>1, <2>5, <1>1, <1>6
    <3>3. CleanSearch' /\ HasTorrent'
      BY <3>1, <1>4 DEF CleanSearch, HasTorrent
    <3>4. SinceLaunch'
      BY <3>1, <2>2, <1>2, <1>4, <1>5 DEF SinceLaunch, stalled_for
    <3>5. OwnSilence'
      <4> SUFFICES ASSUME ~carried'
                   PROVE  /\ row'.progress <= qb'.have
                          /\ stalled_for(row') <= silent'
        BY DEF OwnSilence
      <4>1. row'.progress <= qb'.have
        BY <3>1, <2>5, <1>5
      <4>2. CASE moved \/ ~noted.progressed \/ noted.quiet = 0
        <5>1. ~row'.progressed \/ row'.quiet = 0
          BY <4>2, <3>1, <2>2
        <5>2. stalled_for(row') = 0
          BY <5>1, <3>1 DEF stalled_for
        <5> QED
          BY <5>2, <4>1, <1>2, <1>5
      <4>3. CASE ~moved /\ noted.progressed /\ noted.quiet # 0
        <5>1. row'.quiet > 0
          BY <4>3, <3>1, Bounds DEF Rows
        <5>2. ~carried
          BY <5>1, <1>1, <1>2
        <5>3. row.progress <= qb.have /\ (row.progress = qb.have => stalled_for(row) <= silent)
          BY <5>2, <1>2 DEF Inv, OwnSilence, Watching
        <5>4. row.progress = qb.have
          BY <5>3, <4>3, <1>5
        <5>5. row.progressed /\ row'.progressed /\ row'.quiet = row.quiet
          BY <4>3, <3>1, <2>2
        <5> QED
          BY <5>3, <5>4, <5>5, <4>1, <1>2 DEF stalled_for
      <4> QED
        BY <4>1, <4>2, <4>3
    <3> QED
      BY <3>2, <3>3, <3>4, <3>5 DEF Inv
  <2>6. CASE /\ row' = next_candidate(noted)
             /\ qb' = [qb EXCEPT !.present = FALSE]
             /\ rejected' = rejected \cup {row.torrent}
    <3>1. /\ row' \in Rows /\ row'.state = "search" /\ row'.touched = 0
          /\ row'.quiet = 0 /\ row'.progress = 0 /\ row'.progressed = FALSE
      BY <2>2, <2>6, NextCandidateWrites
    <3>2. row.torrent \in 1 .. Candidates
      BY <1>1, <1>4, Bounds DEF Rows
    <3>3. TypeOK'
      BY <3>1, <3>2, <2>6, <1>1, <1>6
    <3>4. CleanSearch' /\ SinceLaunch' /\ OwnSilence' /\ HasTorrent'
      BY <3>1, <1>2, <1>5 DEF CleanSearch, SinceLaunch, OwnSilence, HasTorrent, Watching, stalled_for
    <3> QED
      BY <3>3, <3>4 DEF Inv
  <2> QED
    BY <2>3, <2>5, <2>6
<1> QED
  BY <1>7, <1>8, <1>9, <1>10 DEF MonitorStep

LEMMA ResumeKeeps == ASSUME Inv, Resume PROVE Inv'
<1>1. /\ row \in Rows /\ row.state = "blocked" /\ row' = move(row, "monitor")
      /\ UNCHANGED <<rejected, qb, up, reachable, crashes, silent, launched, carried>>
  BY DEF Inv, TypeOK, Rows, States, Resume, runs, history
<1>2. /\ row' \in Rows /\ row'.state = "monitor" /\ row'.touched = 0
      /\ row'.progress = row.progress /\ row'.progressed = row.progressed
      /\ row'.quiet = row.quiet /\ row'.torrent = row.torrent
  BY <1>1, MoveWrites DEF States
<1>3. launched \in Nat /\ silent \in Nat /\ row.touched \in Nat
  BY <1>1, Bounds DEF Inv, TypeOK
<1>4. TypeOK'
  BY <1>1, <1>2 DEF Inv, TypeOK, Rows, States
<1>5. CleanSearch' /\ HasTorrent'
  BY <1>1, <1>2 DEF Inv, CleanSearch, HasTorrent, Watching
<1>6. SinceLaunch'
  BY <1>1, <1>2, <1>3 DEF Inv, SinceLaunch, stalled_for
<1>7. OwnSilence'
  BY <1>1, <1>2, <1>3 DEF Inv, OwnSilence, Watching, stalled_for
<1> QED
  BY <1>4, <1>5, <1>6, <1>7 DEF Inv

LEMMA LaunchKeeps == ASSUME Inv, Launch PROVE Inv'
<1>1. /\ row \in Rows /\ UNCHANGED <<rejected, qb, reachable, crashes, silent>>
      /\ up' = TRUE
  BY DEF Inv, TypeOK, Rows, States, Launch
<1>2. launched \in Nat /\ silent \in Nat /\ launched \in 0 .. Timeout /\ carried \in BOOLEAN
  BY Bounds DEF Inv, TypeOK
<1>3. ASSUME row' \in Rows, launched' \in 0 .. Timeout, carried' \in BOOLEAN
      PROVE  TypeOK'
  BY <1>1, <1>3 DEF Inv, TypeOK, Rows, States
<1>4. CASE UNCHANGED <<row, launched, carried>>
  <2>1. TypeOK'
    BY <1>1, <1>2, <1>3, <1>4
  <2>2. CleanSearch' /\ OwnSilence' /\ SinceLaunch' /\ HasTorrent'
    BY <1>1, <1>4, RowKept
  <2> QED
    BY <2>1, <2>2 DEF Inv
<1>5. CASE /\ row.state = "monitor" /\ row' = move(row, "search")
           /\ carried' = TRUE /\ launched' = launched
  <2>1. /\ row' \in Rows /\ row'.state = "search" /\ row'.touched = 0
        /\ row'.progressed = row.progressed /\ row'.quiet = row.quiet
    BY <1>1, <1>5, MoveWrites DEF States
  <2>2. TypeOK'
    BY <2>1, <1>2, <1>3, <1>5
  <2>3. SinceLaunch'
    BY <2>1, <1>2, <1>5 DEF Inv, SinceLaunch, stalled_for
  <2>4. CleanSearch' /\ OwnSilence' /\ HasTorrent'
    BY <2>1, <1>5 DEF CleanSearch, OwnSilence, HasTorrent, Watching
  <2> QED
    BY <2>2, <2>3, <2>4 DEF Inv
<1>6. CASE /\ row.state = "monitor" /\ qb.have = Size /\ row' = move(row, "finalize")
           /\ launched' = 0 /\ carried' = carried
  <2>1. row' \in Rows /\ row'.state = "finalize"
    BY <1>1, <1>6, MoveWrites DEF States
  <2>2. TypeOK'
    BY <2>1, <1>2, <1>3, <1>6, Bounds
  <2>3. CleanSearch' /\ OwnSilence' /\ SinceLaunch' /\ HasTorrent'
    BY <2>1 DEF CleanSearch, OwnSilence, SinceLaunch, HasTorrent, Watching
  <2> QED
    BY <2>2, <2>3 DEF Inv
<1>7. CASE /\ row.state = "monitor" /\ row' = restart_stall_timer(row)
           /\ launched' = 0 /\ carried' = carried
  <2>1. /\ row' \in Rows /\ row'.state = "monitor" /\ row'.progress = row.progress
        /\ row'.torrent = row.torrent /\ row'.progressed = TRUE /\ row'.quiet = 0
    BY <1>1, <1>7, RestartWrites
  <2>2. TypeOK'
    BY <2>1, <1>2, <1>3, <1>7, Bounds
  <2>3. SinceLaunch'
    BY <2>1, <1>7 DEF SinceLaunch, stalled_for
  <2>4. OwnSilence'
    BY <2>1, <1>1, <1>2, <1>7 DEF Inv, OwnSilence, Watching, stalled_for
  <2>5. CleanSearch' /\ HasTorrent'
    BY <2>1, <1>7 DEF Inv, CleanSearch, HasTorrent, Watching
  <2> QED
    BY <2>2, <2>3, <2>4, <2>5 DEF Inv
<1> QED
  BY <1>4, <1>5, <1>6, <1>7 DEF Launch

LEMMA ProgressKeeps == ASSUME Inv, Progress PROVE Inv'
<1>1. /\ qb' = [qb EXCEPT !.have = @ + 1] /\ qb.have < Size /\ silent' = 0
      /\ UNCHANGED <<row, rejected, up, reachable, crashes, launched, carried>>
  BY DEF Progress
<1>2. qb \in [present : BOOLEAN, have : 0 .. Size, seeded : BOOLEAN] /\ row.progress \in 0 .. Size
  BY DEF Inv, TypeOK
<1>3. /\ qb' \in [present : BOOLEAN, have : 0 .. Size, seeded : BOOLEAN]
      /\ qb'.have = qb.have + 1
  BY <1>1, <1>2, Bounds
<1>4. TypeOK'
  BY <1>1, <1>3, Bounds DEF Inv, TypeOK
<1>5. OwnSilence'
  <2> SUFFICES ASSUME Watching, ~carried
               PROVE  row.progress <= qb'.have /\ row.progress # qb'.have
    BY <1>1 DEF OwnSilence, Watching
  <2> QED
    BY <1>2, <1>3, Bounds DEF Inv, OwnSilence
<1>6. CleanSearch' /\ SinceLaunch' /\ HasTorrent'
  BY <1>1 DEF Inv, CleanSearch, SinceLaunch, HasTorrent, Watching, stalled_for
<1> QED
  BY <1>4, <1>5, <1>6 DEF Inv

LEMMA TickKeeps == ASSUME Inv, Tick PROVE Inv'
<1>1. row \in Rows /\ silent \in 0 .. Timeout /\ launched \in 0 .. Timeout
  BY DEF Inv, TypeOK, Rows, States
<1>2. UNCHANGED <<rejected, qb, up, reachable, crashes, carried>>
      /\ silent' = older(silent) /\ launched' = older(launched)
  BY DEF Tick
<1>3. row.quiet \in 0 .. Timeout /\ row.touched \in 0 .. Timeout /\ row.wait \in 0 .. Poll
  BY <1>1 DEF Rows
<1>4. older(row.quiet) \in 0 .. Timeout /\ older(row.touched) \in 0 .. Timeout
      /\ older(silent) \in 0 .. Timeout /\ older(launched) \in 0 .. Timeout
  BY <1>1, <1>3, OlderGrows
<1>5. (IF row.wait > 0 THEN row.wait - 1 ELSE 0) \in 0 .. Poll
  BY <1>3, Bounds
<1>6. row' \in Rows
  BY <1>1, <1>4, <1>5 DEF Tick, Rows
<1>7. /\ row'.state = row.state /\ row'.progress = row.progress
      /\ row'.progressed = row.progressed /\ row'.torrent = row.torrent
      /\ row'.quiet = older(row.quiet) /\ row'.touched = older(row.touched)
  BY <1>1 DEF Tick, Rows
<1>8. stalled_for(row') = older(stalled_for(row))
  BY <1>7 DEF stalled_for
<1>9. stalled_for(row) \in 0 .. Timeout
  BY <1>1, TimerType
<1>10. TypeOK'
  BY <1>2, <1>4, <1>6 DEF Inv, TypeOK, Rows, States
<1>11. SinceLaunch'
  <2> SUFFICES ASSUME row.state # "finalize" PROVE stalled_for(row') <= launched'
    BY <1>7 DEF SinceLaunch
  <2>1. stalled_for(row) <= launched
    BY DEF Inv, SinceLaunch
  <2> QED
    BY <2>1, <1>1, <1>2, <1>8, <1>9, OlderGrows
<1>12. OwnSilence'
  <2> SUFFICES ASSUME Watching, ~carried
               PROVE  /\ row.progress <= qb.have
                      /\ row.progress = qb.have => stalled_for(row') <= silent'
    BY <1>2, <1>7 DEF OwnSilence, Watching
  <2>1. row.progress <= qb.have /\ (row.progress = qb.have => stalled_for(row) <= silent)
    BY DEF Inv, OwnSilence
  <2> QED
    BY <2>1, <1>1, <1>2, <1>8, <1>9, OlderGrows
<1>13. CleanSearch' /\ HasTorrent'
  BY <1>2, <1>7 DEF Inv, CleanSearch, HasTorrent, Watching
<1> QED
  BY <1>10, <1>11, <1>12, <1>13 DEF Inv

\* Kills, seeders that come and go, removals and outages leave the row alone.
LEMMA OutsideKeeps ==
    ASSUME Inv, Crash \/ SeedersChange \/ Remove \/ Reachability PROVE Inv'
<1>1. row' = row /\ UNCHANGED <<silent, launched, carried>> /\ rejected' = rejected
  BY DEF Crash, SeedersChange, Remove, Reachability, history
<1>2. qb \in [present : BOOLEAN, have : 0 .. Size, seeded : BOOLEAN]
  BY DEF Inv, TypeOK
<1>3. qb' \in [present : BOOLEAN, have : 0 .. Size, seeded : BOOLEAN] /\ qb'.have = qb.have
  <2>1. CASE Crash \/ Reachability
    BY <2>1, <1>2 DEF Crash, Reachability
  <2>2. CASE SeedersChange
    BY <2>2, <1>2 DEF SeedersChange
  <2>3. CASE Remove
    BY <2>3, <1>2 DEF Remove
  <2> QED
    BY <2>1, <2>2, <2>3
<1>4. crashes' \in 0 .. MaxCrashes
  BY Bounds DEF Inv, TypeOK, Crash, SeedersChange, Remove, Reachability
<1>5. up' \in BOOLEAN /\ reachable' \in BOOLEAN
  BY DEF Inv, TypeOK, Crash, SeedersChange, Remove, Reachability
<1>6. TypeOK'
  BY <1>1, <1>3, <1>4, <1>5 DEF Inv, TypeOK
<1> QED
  BY <1>1, <1>3, <1>6, RowKept DEF Inv

LEMMA NextKeeps == Inv /\ [Next]_vars => Inv'
<1> SUFFICES ASSUME Inv, [Next]_vars PROVE Inv'
  OBVIOUS
<1>1. CASE UNCHANGED vars
  <2>1. TypeOK'
    BY <1>1 DEF Inv, TypeOK, vars
  <2>2. row' = row /\ qb' = qb /\ UNCHANGED <<silent, launched, carried>>
    BY <1>1 DEF vars
  <2> QED
    BY <2>1, <2>2, RowKept DEF Inv
<1>2. CASE Next
  BY <1>2, AcquireKeeps, MonitorKeeps, ResumeKeeps, LaunchKeeps, ProgressKeeps,
     TickKeeps, OutsideKeeps DEF Next, Daemon
<1> QED
  BY <1>1, <1>2

-----------------------------------------------------------------------------
(* The theorems.                                                           *)

\* The columns of the row, the torrent and the histories keep their types.
THEOREM TypeCorrect == Spec => []TypeOK
BY InitInv, NextKeeps, PTL DEF Spec, Inv

\* Only the stall branch of a poll takes the torrent away, and then the timer
\* has reached the timeout and the torrent has no piece the row does not know.
LEMMA GivesUpIsStalled ==
    ASSUME Inv, GivesUp
    PROVE  /\ row.state = "monitor" /\ stalled_for(row) >= timeout
           /\ ~ (qb.have > row.progress)
<1>1. MonitorStep /\ qb.present /\ ~qb'.present
  BY DEF GivesUp
<1>2. ~ UNCHANGED qb
  BY <1>1
<1> QED
  BY <1>1, <1>2 DEF MonitorStep, watch, runs

LEMMA TimeoutType == ASSUME Inv PROVE timeout \in Nat
BY Bounds DEF timeout

\* NeverJudgedByAnother: note_progress and next_candidate restart the row's timer
\* whenever the torrent's own silence restarts, so that the row never counts
\* more than the torrent was silent.
THEOREM JudgedByItsOwnSilence == Spec => NeverJudgedByAnother
<1>1. ASSUME Inv, [Next]_vars
      PROVE  [GivesUp => silent >= timeout \/ carried]_vars
  <2> SUFFICES ASSUME GivesUp, ~carried PROVE silent >= timeout
    BY DEF Inv, TypeOK
  <2>1. row.state = "monitor" /\ stalled_for(row) >= timeout /\ ~ (qb.have > row.progress)
    BY <1>1, GivesUpIsStalled
  <2>2. row.progress <= qb.have /\ (row.progress = qb.have => stalled_for(row) <= silent)
    BY <1>1, <2>1 DEF Inv, OwnSilence, Watching
  <2>3. row.progress \in Nat /\ qb.have \in Nat /\ silent \in Nat /\ row \in Rows
    BY <1>1, Bounds DEF Inv, TypeOK, Rows, States
  <2>4. row.progress = qb.have
    BY <2>1, <2>2, <2>3
  <2>5. stalled_for(row) \in Nat
    BY <2>3, Bounds, TimerType
  <2> QED
    BY <1>1, <2>1, <2>2, <2>3, <2>4, <2>5, TimeoutType
<1> QED
  BY <1>1, InitInv, NextKeeps, PTL DEF Spec, NeverJudgedByAnother

\* LaunchIsNoStall: restart_stall_timer restarts the timer of a job that a launch
\* finds watching, so that the time the daemon was down is never counted.
THEOREM LaunchRestartsTheTimer == Spec => LaunchIsNoStall
<1>1. ASSUME Inv, [Next]_vars
      PROVE  [GivesUp => launched >= timeout]_vars
  <2> SUFFICES ASSUME GivesUp PROVE launched >= timeout
    OBVIOUS
  <2>1. row.state = "monitor" /\ stalled_for(row) >= timeout
    BY <1>1, GivesUpIsStalled
  <2>2. stalled_for(row) <= launched
    BY <1>1, <2>1 DEF Inv, SinceLaunch
  <2>3. launched \in Nat /\ row \in Rows
    BY <1>1, Bounds DEF Inv, TypeOK, Rows, States
  <2>4. stalled_for(row) \in Nat
    BY <2>3, Bounds, TimerType
  <2> QED
    BY <1>1, <2>1, <2>2, <2>3, <2>4, TimeoutType
<1> QED
  BY <1>1, InitInv, NextKeeps, PTL DEF Spec, LaunchIsNoStall

=============================================================================

------------------------------ MODULE Pipeline ------------------------------
(***************************************************************************)
(* The download queue of genrl-core: the jobs of one show, the five worker *)
(* steps, the scheduler loop (sweep, tick, settle), the Inbox, the crash   *)
(* and the launch-time reconcile, against qBittorrent and the file system. *)
(*                                                                         *)
(* Processes.  The daemon (`genrl run`) dispatches steps that run as       *)
(* concurrent tasks; every other CLI call (`genrl answer`, `pause`,        *)
(* `plan`) is a process of its own on the same database.                   *)
(*                                                                         *)
(* Grain.  A step is two actions.  Its WORK reads the row, talks to the    *)
(* services and makes the writes that precede the last one; its LANDING    *)
(* is the last write, the `transition`.  A kill between the two leaves the *)
(* first half done.  A step whose last write is `reschedule` is one action.*)
(***************************************************************************)
EXTENDS Jobs, FiniteSets

CONSTANTS
    Questions,            \* ids of question rows (bound)
    MaxJobs,              \* rows the jobs table may ever hold (bound)
    MaxCrashes,           \* kills of the daemon (bound)
    MaxFailedCandidates,  \* settings.max_failed_candidates
    SearchConcurrency,    \* settings.search_concurrency
    ActiveDownloads,      \* settings.active_downloads
    RemoveWhenFinished,   \* settings.remove_when_finished
    MovesFiles,           \* settings.move_mode = move (else hardlink or copy)
    FullyAired,           \* the show has finished airing
    Batches,              \* torrents whose name parses as a batch
    Large,                \* torrents above 2 GB
    Group,                \* the release group of each torrent
    Flaky,                \* services that may fail while the model runs (bound)
    Answers,              \* <<question kind, choice>> pairs users give (bound)
    UserActions           \* other things users do: "pause", "plan", "remove"

Service == {"metadata", "nyaa", "qbit", "disk"}

QuestionKind == {"match_review", "low_seeds", "batch_only", "all_failed",
                 "file_exists"}

\* questions/choice.rs, by the kind of card each choice is documented for.
Offered ==
      ({"match_review"} \X {"use_this", "none_of_these", "search_again",
                            "wrong_release", "alias"})
 \cup ({"low_seeds"} \X {"download", "wait", "pick_another"})
 \cup ({"file_exists"} \X {"keep", "replace", "keep_both"})
 \cup ({"batch_only"} \X {"batch", "wait_for_singles"})
 \cup ({"all_failed"} \X {"retry_later", "manual_search", "skip_episode"})

Choice == {p[2] : p \in Offered} \cup {"pause", "change_folder"}

ASSUME PipelineAssumption ==
    /\ Questions \subseteq Nat
    /\ MaxJobs \in Nat
    /\ MaxCrashes \in Nat
    /\ MaxFailedCandidates \in Nat
    /\ SearchConcurrency \in Nat
    /\ ActiveDownloads \in Nat
    /\ {RemoveWhenFinished, MovesFiles, FullyAired} \subseteq BOOLEAN
    /\ Batches \subseteq Torrents
    /\ Large \subseteq Torrents
    /\ Flaky \subseteq Service
    /\ Answers \subseteq QuestionKind \X Choice

Jobs == 1 .. MaxJobs

VARIABLES
    jobs,        \* the jobs table
    episodes,    \* state of each episode row
    questions,   \* the questions table
    known,       \* torrents remembered by a search
    rejected,    \* torrents with rejected = 1
    qbt,         \* external: what qBittorrent says of each torrent
    content,     \* external: torrents whose finished files are on disk
    up,          \* external: services that answer
    automation,  \* settings.automation_on
    mode,        \* where the daemon is
    walk,        \* jobs reconcile has still to visit
    expired,     \* questions sweep has marked and not yet released
    pc,          \* the step in flight for each job
    pend,        \* the transition that step will land
    crashes      \* kills so far

vars == <<jobs, episodes, questions, known, rejected, qbt, content, up,
          automation, mode, walk, expired, pc, pend, crashes>>

daemon == <<mode, walk, expired, crashes>>      \* the loop's own state
step == <<pc, pend>>                            \* the tasks in flight
catalog == <<known, rejected>>                  \* the torrents table
outside == <<qbt, content, up, automation>>

QuestionRow == [answer  : Choice \cup {"unused", "open", "expired"},
                job     : Nat,
                kind    : QuestionKind,
                options : SUBSET Torrents,
                large   : BOOLEAN,
                pick    : Torrents \cup {NoTorrent}]

NoQuestion == [answer |-> "unused", job |-> 0, kind |-> "all_failed",
               options |-> {}, large |-> FALSE, pick |-> NoTorrent]

Move == [to : JobState, reason : Reason, opts : MoveOptions]

NoMove == [to |-> "done", reason |-> "none", opts |-> default]

\* A closed question is read again only as an approval of a large download
\* or as the finalizer's collision question; any other is forgotten, and its
\* place in the bounded table may be taken again.
forgettable(row) ==
    /\ row.answer # "open" /\ row.kind # "file_exists"
    /\ ~(row.large /\ row.answer = "use_this")

closed(row) == IF forgettable(row) THEN NoQuestion ELSE row

is_open(q) == questions[q].answer = "open"
free(q) == forgettable(questions[q]) /\ q \notin expired
asked_of(j) == {q \in Questions : questions[q].job = j}

TypeOK ==
    /\ jobs \in [Jobs -> Row]
    /\ episodes \in [Episodes -> {"missing", "downloading", "done"}]
    /\ questions \in [Questions -> QuestionRow]
    /\ known \subseteq Torrents
    /\ rejected \subseteq Torrents
    /\ qbt \in [Torrents -> {"absent", "downloading", "complete"}]
    /\ content \subseteq Torrents
    /\ up \subseteq Service
    /\ automation \in BOOLEAN
    /\ mode \in {"down", "reconcile", "sweep", "tick", "settle"}
    /\ walk \subseteq Jobs
    /\ expired \subseteq Questions
    /\ pc \in [Jobs -> {"idle", "run", "land"}]
    /\ pend \in [Jobs -> Move]
    /\ crashes \in 0 .. MaxCrashes

\* A planned show: one search job per episode (planner::apply_preview), the
\* daemon not started.
Init ==
    /\ jobs = [j \in Jobs |->
                  IF j \in Episodes THEN search_row(j) ELSE unborn]
    /\ episodes = [e \in Episodes |-> "missing"]
    /\ questions = [q \in Questions |-> NoQuestion]
    /\ known = {} /\ rejected = {}
    /\ qbt = [t \in Torrents |-> "absent"]
    /\ content = {}
    /\ up = Service
    /\ automation = TRUE
    /\ mode = "down" /\ walk = {} /\ expired = {}
    /\ pc = [j \in Jobs |-> "idle"]
    /\ pend = [j \in Jobs |-> NoMove]
    /\ crashes = 0

-----------------------------------------------------------------------------
(* What every step is made of.                                             *)

\* The step of j ends by landing this transition.
Pend(j, to, reason, opts) ==
    /\ pc' = [pc EXCEPT ![j] = "land"]
    /\ pend' = [pend EXCEPT ![j] = [to |-> to, reason |-> reason,
                                    opts |-> opts]]

\* The step of j is over, its row rewritten in place.
Stay(j, row) ==
    /\ jobs' = [jobs EXCEPT ![j] = row]
    /\ pc' = [pc EXCEPT ![j] = "idle"]
    /\ pend' = pend

\* Engine::block: park the job, remembering the step it returns to.
block(j, reason) ==
    /\ Pend(j, "blocked", reason,
            [default EXCEPT !.blocked_from = jobs[j].state])
    /\ UNCHANGED <<jobs, questions>>

\* QuestionStore::ask.
ask(j, kind, options, large) ==
    \E q \in Questions :
        /\ free(q) /\ \A p \in Questions : p < q => ~free(p)
        /\ questions' = [questions EXCEPT ![q] =
               [answer |-> "open", job |-> j, kind |-> kind,
                options |-> options, large |-> large, pick |-> NoTorrent]]

\* Mutant: one attempt too many.
out_of_attempts_late(j) == jobs[j].attempts >= MaxFailedCandidates

\* The retry budget is spent with the attempt now failing.
out_of_attempts(j) == jobs[j].attempts + 1 >= MaxFailedCandidates

\* Back off, or give up and ask.
fail_or_reschedule(j) ==
    IF out_of_attempts(j)
    THEN /\ ask(j, "all_failed", {}, FALSE)
         /\ Pend(j, "failed", "other", [default EXCEPT !.count_attempt = TRUE])
         /\ UNCHANGED jobs
    ELSE /\ Stay(j, reschedule(jobs[j], "soon", "other"))
         /\ UNCHANGED questions

\* Mutant: the candidate is dropped and the job keeps watching.
next_candidate_in_place(j) ==
    /\ Pend(j, "monitor", "none", [default EXCEPT !.count_attempt = TRUE,
                                                  !.clear_torrent = TRUE])
    /\ UNCHANGED <<jobs, questions>>

\* Stalled or vanished torrent: the next candidate, or ask.
next_candidate(j) ==
    LET opts == [default EXCEPT !.count_attempt = TRUE, !.clear_torrent = TRUE]
    IN  /\ IF out_of_attempts(j)
           THEN /\ ask(j, "all_failed", {}, FALSE)
                /\ Pend(j, "failed", "other", opts)
           ELSE /\ Pend(j, "search", "none", opts)
                /\ UNCHANGED questions
        /\ UNCHANGED jobs

\* The show's candidates that may still be tried.
candidate_rows == known \ rejected

\* The first n ids of a set, in id (creation) order.
First(S, n) == {i \in S : Cardinality({k \in S : k < i}) < n}

\* enqueue_search for each episode of S: one new row each, in episode order,
\* under the next free ids.  The caller has made enqueue_search's check.
enqueue(S) ==
    LET unused == {j \in Jobs : jobs[j].state = "unborn"}
    IN  \E id \in [S -> First(unused, Cardinality(S))] :
           /\ \A e, f \in S : e < f => id[e] < id[f]
           /\ jobs' = [j \in Jobs |->
                  IF \E e \in S : id[e] = j
                  THEN search_row(CHOOSE e \in S : id[e] = j) ELSE jobs[j]]

-----------------------------------------------------------------------------
(* The five steps (worker/steps_acquire.rs, worker/steps_finish.rs).       *)

\* Metadata unresolved and Nyaa's open breaker block; a search that finds
\* nothing, or fails, backs off; candidates are remembered.
search_step(j) ==
    /\ jobs[j].state = "search"
    /\ \/ /\ "metadata" \notin up
          /\ block(j, "metadata")
          /\ UNCHANGED known
       \/ /\ "metadata" \in up /\ "nyaa" \notin up
          /\ block(j, "nyaa")
          /\ UNCHANGED known
       \/ /\ {"metadata", "nyaa"} \subseteq up
          /\ fail_or_reschedule(j)
          /\ UNCHANGED known
       \/ /\ {"metadata", "nyaa"} \subseteq up
          /\ \E found \in SUBSET Torrents \ {{}} : known' = known \cup found
          /\ Pend(j, "choose", "none", default)
          /\ UNCHANGED <<jobs, questions>>
    /\ UNCHANGED <<episodes, rejected, outside, daemon>>

\* `ranked` is what matching::rank keeps; the verdict is Auto, a question,
\* or nothing usable.  Batches only, while the show airs: ask, and return
\* without a transition.
choose_step(j) ==
    /\ jobs[j].state = "choose"
    /\ \E ranked \in SUBSET candidate_rows :
          \/ ranked = {} /\ fail_or_reschedule(j)
          \/ /\ ranked # {} /\ ~FullyAired /\ ranked \subseteq Batches
             /\ \E best \in ranked : Stay(j, set_chosen(jobs[j], best))
             /\ ask(j, "batch_only", {}, FALSE)
          \/ /\ ranked # {} /\ (FullyAired \/ ~(ranked \subseteq Batches))
             /\ \/ /\ \E best \in ranked :
                        jobs' = [jobs EXCEPT ![j] = set_chosen(@, best)]
                   /\ Pend(j, "add", "none", default)
                   /\ UNCHANGED questions
                \/ /\ \E best \in ranked :
                        jobs' = [jobs EXCEPT ![j] = set_chosen(@, best)]
                   /\ ask(j, "low_seeds", {}, FALSE)
                   /\ Pend(j, "needs_input", "none", default)
                \/ /\ ask(j, "match_review", ranked, FALSE)
                   /\ Pend(j, "needs_input", "none", default)
                   /\ UNCHANGED jobs
    /\ UNCHANGED <<episodes, catalog, outside, daemon>>

\* confirm_large_download: a question of this job about exactly this torrent
\* was answered "use this".
approved(j, t) ==
    \E q \in asked_of(j) :
        /\ questions[q].large /\ questions[q].answer = "use_this"
        /\ questions[q].pick = t /\ t \in questions[q].options

\* Mutants: the other jobs are deleted whatever they spend; or kept, failed.
cover_with_batch_all(j) ==
    /\ jobs' = [k \in Jobs |-> IF k # j /\ exists(jobs[k]) THEN deleted
                               ELSE jobs[k]]
    /\ UNCHANGED <<episodes, questions>>

cover_with_batch_failing(j) ==
    /\ jobs' = [k \in Jobs |->
           IF k # j /\ exists(jobs[k]) /\ jobs[k].kind = "search"
           THEN [jobs[k] EXCEPT !.state = "failed"] ELSE jobs[k]]
    /\ UNCHANGED <<episodes, questions>>

\* A batch covers the show: its missing episodes are downloading, and the
\* other jobs whose kind is still `search` are deleted with their questions.
cover_with_batch(j) ==
    LET gone == {k \in Jobs : k # j /\ exists(jobs[k]) /\ jobs[k].kind = "search"}
    IN  /\ episodes' = [e \in Episodes |-> IF episodes[e] = "missing"
                                           THEN "downloading" ELSE episodes[e]]
        /\ jobs' = [k \in Jobs |-> IF k \in gone THEN deleted ELSE jobs[k]]
        /\ questions' = [q \in Questions |-> IF questions[q].job \in gone
                                             THEN NoQuestion ELSE questions[q]]

\* A single episode: every sibling that is missing and has no job of kind
\* `search` gets one.
siblings_without_search(j) ==
    {e \in Episodes \ {jobs[j].episode} :
        /\ episodes[e] = "missing"
        /\ \A k \in Jobs : ~ (/\ exists(jobs[k]) /\ jobs[k].episode = e
                              /\ jobs[k].kind = "search")}

enqueue_sibling_episodes_if_needed(j) ==
    /\ enqueue(siblings_without_search(j))
    /\ UNCHANGED <<episodes, questions>>

\* qBittorrent keys by info hash: adding what it has changes nothing.
add_to_qbit(t) ==
    qbt' = [qbt EXCEPT ![t] = IF @ = "absent" THEN "downloading" ELSE @]

add_step(j) ==
    LET t == jobs[j].torrent
        ready == {"disk", "qbit"} \subseteq up /\ t # NoTorrent
        allowed == t \in Large => approved(j, t)
    IN
    /\ jobs[j].state = "add"
    /\ \/ /\ "disk" \notin up
          /\ block(j, "resource")
          /\ UNCHANGED <<episodes, qbt>>
       \/ /\ "disk" \in up /\ "qbit" \notin up
          /\ block(j, "other")
          /\ UNCHANGED <<episodes, qbt>>
       \/ /\ {"disk", "qbit"} \subseteq up /\ t = NoTorrent
          /\ Pend(j, "choose", "none", default)
          /\ UNCHANGED <<jobs, episodes, questions, qbt>>
       \/ /\ ready /\ ~allowed
          /\ ask(j, "match_review", {t} \cap candidate_rows, TRUE)
          /\ Pend(j, "needs_input", "none", default)
          /\ UNCHANGED <<jobs, episodes, qbt>>
       \/ \* the folder is not writable or too full for this torrent
          /\ ready /\ allowed /\ "disk" \in Flaky
          /\ block(j, "resource")
          /\ UNCHANGED <<episodes, qbt>>
       \/ \* the add fails: unreachable by now, or refused
          /\ ready /\ allowed /\ "qbit" \in Flaky
          /\ block(j, "other") \/ fail_or_reschedule(j)
          /\ UNCHANGED <<episodes, qbt>>
       \/ /\ ready /\ allowed
          /\ add_to_qbit(t)
          /\ IF t \in Batches THEN cover_with_batch(j)
                              ELSE enqueue_sibling_episodes_if_needed(j)
          /\ Pend(j, "monitor", "none", default)
    /\ UNCHANGED <<catalog, content, up, automation, daemon>>

\* The stall clock itself is StallTimer's; here a poll that sees no progress
\* may or may not find the timeout elapsed.
monitor_step(j) ==
    LET t == jobs[j].torrent
        watched == t # NoTorrent /\ "qbit" \in up
    IN
    /\ jobs[j].state = "monitor"
    /\ \/ /\ t # NoTorrent /\ "qbit" \notin up
          /\ block(j, "other")
          /\ UNCHANGED <<rejected, qbt>>
       \/ \* qBittorrent answers with an error
          /\ watched /\ "qbit" \in Flaky
          /\ fail_or_reschedule(j)
          /\ UNCHANGED <<rejected, qbt>>
       \/ /\ watched /\ qbt[t] = "absent"
          /\ next_candidate(j)
          /\ UNCHANGED <<rejected, qbt>>
       \/ /\ t # NoTorrent => watched /\ qbt[t] = "complete"
          /\ Pend(j, IF t = NoTorrent THEN "choose" ELSE "finalize", "none",
                  default)
          /\ UNCHANGED <<jobs, questions, rejected, qbt>>
       \/ /\ watched /\ qbt[t] = "downloading"
          /\ Stay(j, reschedule(jobs[j], "soon", "other"))
          /\ UNCHANGED <<questions, rejected, qbt>>
       \/ \* stalled: removed, unless that call fails, and marked tried
          /\ watched /\ qbt[t] = "downloading"
          /\ \/ qbt' = [qbt EXCEPT ![t] = "absent"]
             \/ "qbit" \in Flaky /\ qbt' = qbt
          /\ rejected' = rejected \cup {t}
          /\ next_candidate(j)
    /\ UNCHANGED <<episodes, known, content, up, automation, daemon>>

\* The files of t reach the library: the episode (every episode, for a
\* batch) is owned; `move` takes them out of the download folder; the torrent
\* is removed if so set, unless that call fails.
file_into_library(j) ==
    LET t == jobs[j].torrent
    IN  /\ episodes' = [e \in Episodes |->
               IF e = jobs[j].episode \/ t \in Batches THEN "done"
               ELSE episodes[e]]
        /\ content' = IF MovesFiles THEN content \ {t} ELSE content
        /\ \/ RemoveWhenFinished /\ qbt' = [qbt EXCEPT ![t] = "absent"]
           \/ (RemoveWhenFinished => "qbit" \in Flaky) /\ qbt' = qbt

\* The finalizer's collision question of this job, whatever became of it.
collision_asked(j) ==
    {q \in asked_of(j) : questions[q].kind = "file_exists"}

finalize_step(j) ==
    LET t == jobs[j].torrent
        reachable == "qbit" \in up /\ t # NoTorrent
        verified == reachable /\ qbt[t] # "downloading" /\ t \in content
    IN
    /\ jobs[j].state = "finalize"
    /\ \/ /\ \/ t = NoTorrent
             \/ reachable /\ qbt[t] = "absent" /\ t \notin content
          /\ Pend(j, "search", "none", default)
          /\ UNCHANGED <<jobs, episodes, questions, qbt, content>>
       \/ /\ t # NoTorrent /\ "qbit" \notin up
          /\ block(j, "other")
          /\ UNCHANGED <<episodes, qbt, content>>
       \/ /\ reachable /\ qbt[t] = "downloading"
          /\ Stay(j, reschedule(jobs[j], "soon", "other"))
          /\ UNCHANGED <<episodes, questions, qbt, content>>
       \/ \* complete, and the file does not verify; or an error instead
          /\ reachable
          /\ (qbt[t] = "complete" /\ t \notin content) \/ "qbit" \in Flaky
          /\ fail_or_reschedule(j)
          /\ UNCHANGED <<episodes, qbt, content>>
       \/ \* the destination cannot be created, written or is too full, or
          \* filing fails on the way
          /\ verified /\ "disk" \in Flaky
          /\ block(j, "resource") \/ block(j, "other") \/ fail_or_reschedule(j)
          /\ UNCHANGED <<episodes, qbt, content>>
       \/ \* a file of that name is in the way, and the answer is awaited
          /\ verified /\ t \notin Batches
          /\ \A q \in collision_asked(j) : is_open(q)
          /\ IF collision_asked(j) = {} THEN ask(j, "file_exists", {}, FALSE)
                                        ELSE UNCHANGED questions
          /\ Pend(j, "needs_input", "none", default)
          /\ UNCHANGED <<jobs, episodes, qbt, content>>
       \/ /\ verified
          /\ file_into_library(j)
          /\ Pend(j, "done", "none", default)
          /\ UNCHANGED <<jobs, questions>>
    /\ UNCHANGED <<catalog, up, automation, daemon>>

Work(j) ==
    /\ pc[j] = "run"
    /\ \/ search_step(j)
       \/ choose_step(j)
       \/ add_step(j)
       \/ monitor_step(j)
       \/ finalize_step(j)

\* The last write of a dispatched step.  A move the diagram does not have is
\* an error, and dispatch parks the job for a retry.
Land(j) ==
    LET m == pend[j]
    IN
    /\ pc[j] = "land" /\ exists(jobs[j])
    /\ can_move(jobs[j], m.to) \/ mode = "settle"
    /\ jobs' = [jobs EXCEPT ![j] =
                   IF can_move(@, m.to) THEN transition(@, m.to, m.reason, m.opts)
                   ELSE reschedule(@, "soon", "other")]
    /\ pc' = [pc EXCEPT ![j] = "idle"]
    /\ pend' = [pend EXCEPT ![j] = NoMove]
    /\ UNCHANGED <<episodes, questions, catalog, outside, daemon>>

\* The row of a step in flight was deleted by a batch: the step errors, and
\* so does the reschedule that would park it.
StepGone(j) ==
    /\ pc[j] # "idle" /\ ~exists(jobs[j])
    /\ pc' = [pc EXCEPT ![j] = "idle"]
    /\ pend' = [pend EXCEPT ![j] = NoMove]
    /\ UNCHANGED <<jobs, episodes, questions, catalog, outside, daemon>>

-----------------------------------------------------------------------------
(* The scheduler loop (queue/scheduler.rs, queue/status.rs).               *)

\* Some open questions have passed their deadline: one transaction marks
\* them all.
SweepExpire ==
    /\ mode = "sweep" /\ expired = {}
    /\ \E E \in SUBSET {q \in Questions : is_open(q)} :
          /\ questions' = [q \in Questions |-> IF q \in E
                 THEN [questions[q] EXCEPT !.answer = "expired"]
                 ELSE questions[q]]
          /\ expired' = E
          /\ mode' = IF E = {} THEN "tick" ELSE "sweep"
    /\ UNCHANGED <<jobs, episodes, catalog, outside, walk, step, crashes>>

\* Then each one releases its episode, if its job still waits.
SweepRelease(q) ==
    LET j == questions[q].job
    IN
    /\ mode = "sweep" /\ q \in expired
    /\ IF waits(jobs[j])
       THEN /\ jobs' = IF jobs[j].state = "needs_input"
                       THEN [jobs EXCEPT ![j] = transition(@, "failed", "other",
                                [default EXCEPT !.reset_attempts = TRUE])]
                       ELSE jobs
            /\ episodes' = [episodes EXCEPT ![jobs[j].episode] = "missing"]
       ELSE UNCHANGED <<jobs, episodes>>
    /\ expired' = expired \ {q}
    /\ mode' = IF expired = {q} THEN "tick" ELSE "sweep"
    /\ questions' = [questions EXCEPT ![q] = closed(@)]
    /\ UNCHANGED <<catalog, outside, walk, step, crashes>>

\* Mutant: metadata that arrives unblocks nobody.
cleared_but_metadata(row) ==
    CASE row.last_error = "metadata" -> FALSE
      [] row.last_error = "nyaa" -> "nyaa" \in up
      [] row.last_error = "resource" -> "disk" \in up
      [] OTHER -> TRUE

\* resume_blocked: has the blocker this row names cleared?
cleared(row) ==
    CASE row.last_error = "metadata" -> "metadata" \in up
      [] row.last_error = "nyaa" -> "nyaa" \in up
      [] row.last_error = "resource" -> "disk" \in up
      [] OTHER -> TRUE

resume_blocked(row) ==
    IF row.state = "blocked" /\ row.blocked_from # "none" /\ cleared(row)
    THEN transition(row, row.blocked_from, "none", default)
    ELSE row

limit_for(kind) ==
    LET limit == IF kind \in {"search", "finalize"} THEN SearchConcurrency
                 ELSE ActiveDownloads
    IN  IF limit = 0 THEN 1 ELSE limit

\* Mutant: the limit is applied per state.
due_jobs_per_state(table) ==
    UNION {First({j \in Jobs : /\ is_due(table[j], table[j].kind)
                               /\ table[j].state = state},
                 limit_for(kind_of_state(state))) : state \in ActiveState}

\* The jobs one tick dispatches: per kind, the oldest due ones.
due_jobs(table) ==
    UNION {First({j \in Jobs : is_due(table[j], kind)}, limit_for(kind)) :
           kind \in JobKind}

Tick ==
    LET resumed == [j \in Jobs |-> resume_blocked(jobs[j])]
    IN
    /\ mode = "tick"
    /\ IF automation /\ "disk" \in up
       THEN /\ jobs' = resumed
            /\ pc' = [j \in Jobs |-> IF j \in due_jobs(resumed) THEN "run"
                                     ELSE pc[j]]
       ELSE UNCHANGED <<jobs, pc>>
    /\ mode' = "settle"
    /\ UNCHANGED <<episodes, questions, catalog, outside, walk, expired, pend,
                   crashes>>

\* settle: every step has landed; sleep a second, and sweep again.
Settled ==
    /\ mode = "settle" /\ \A j \in Jobs : pc[j] = "idle"
    /\ mode' = "sweep"
    /\ UNCHANGED <<jobs, episodes, questions, catalog, outside, walk, expired,
                   step, crashes>>

-----------------------------------------------------------------------------
(* Killed, and launched again (queue/reconcile.rs, `genrl run`).           *)

no_steps ==
    /\ pc' = [j \in Jobs |-> "idle"]
    /\ pend' = [j \in Jobs |-> NoMove]

\* Whatever was in flight is lost; the database and qBittorrent are not.
Crash ==
    /\ mode # "down" /\ crashes < MaxCrashes
    /\ crashes' = crashes + 1
    /\ mode' = "down" /\ walk' = {} /\ expired' = {}
    /\ no_steps
    /\ UNCHANGED <<jobs, episodes, questions, catalog, outside>>

\* qBittorrent must answer, or `genrl run` exits; then every job found in one
\* of the three steps that leave a trace outside is visited, the rest wait.
Start ==
    /\ mode = "down" /\ "qbit" \in up
    /\ walk' = {j \in Jobs : jobs[j].state \in {"add", "monitor", "finalize"}}
    /\ mode' = IF walk' = {} THEN "sweep" ELSE "reconcile"
    /\ UNCHANGED <<jobs, episodes, questions, catalog, outside, expired, step,
                   crashes>>

\* What reconcile does with a job: the state it moves to, its own state when
\* it waits, or "step" when the worker step is run again.
resume_at(row) ==
    LET t == row.torrent
        found == IF t = NoTorrent THEN "none" ELSE qbt[t]
    IN  CASE row.state = "add" -> (CASE found = "complete" -> "finalize"
                                     [] found = "downloading" -> "monitor"
                                     [] found = "absent" -> "step"
                                     [] OTHER -> "choose")
          [] row.state = "monitor" -> (CASE found = "complete" -> "finalize"
                                         [] found = "downloading" -> "monitor"
                                         [] found = "absent" -> "search"
                                         [] OTHER -> "choose")
          [] OTHER -> "step"

\* The job reconcile is at: visited in id order, one at a time.
visiting(j) ==
    /\ mode = "reconcile" /\ j \in walk /\ \A k \in walk : j <= k
    /\ \A k \in Jobs : pc[k] = "idle"

visited(j) ==
    /\ walk' = walk \ {j}
    /\ mode' = IF walk = {j} /\ pc'[j] = "idle" THEN "sweep" ELSE "reconcile"

ReconcileJob(j) ==
    LET to == resume_at(jobs[j])
    IN
    /\ visiting(j) /\ exists(jobs[j]) /\ "qbit" \in up
    /\ \/ /\ to # "step" /\ to # jobs[j].state /\ can_move(jobs[j], to)
          /\ jobs' = [jobs EXCEPT ![j] = transition(@, to, "none", default)]
          /\ UNCHANGED step
       \/ /\ to = jobs[j].state
          /\ UNCHANGED <<jobs, step>>
       \/ /\ to = "step"
          /\ pc' = [pc EXCEPT ![j] = "run"]
          /\ UNCHANGED <<jobs, pend>>
    /\ visited(j)
    /\ UNCHANGED <<episodes, questions, catalog, outside, expired, crashes>>

\* The last job's step has landed: the workers start.
Reconciled ==
    /\ mode = "reconcile" /\ walk = {} /\ \A j \in Jobs : pc[j] = "idle"
    /\ mode' = "sweep"
    /\ UNCHANGED <<jobs, episodes, questions, catalog, outside, walk, expired,
                   step, crashes>>

\* A move the diagram does not have, or a row deleted since the walk began:
\* reconcile returns the error, and `genrl run` exits with it.
illegal_visit(j) ==
    LET to == resume_at(jobs[j])
    IN  /\ visiting(j) /\ "qbit" \in up
        /\ ~exists(jobs[j]) \/ (to # "step" /\ ~can_move(jobs[j], to))

illegal_landing(j) ==
    /\ mode = "reconcile" /\ pc[j] = "land"
    /\ ~can_move(jobs[j], pend[j].to)

ReconcileAborts ==
    /\ \/ \E j \in Jobs : illegal_visit(j) \/ illegal_landing(j)
       \/ mode = "reconcile" /\ "qbit" \notin up /\ \A j \in Jobs : pc[j] = "idle"
    /\ mode' = "down" /\ walk' = {}
    /\ no_steps
    /\ UNCHANGED <<jobs, episodes, questions, catalog, outside, expired,
                   crashes>>

-----------------------------------------------------------------------------
(* The users: the Inbox and the other commands.                            *)

\* Where an answer sends a job in the given state; "stay" moves nothing.
next_of(choice, state) ==
    CASE choice \in {"use_this", "download", "batch"} -> "add"
      [] choice \in {"none_of_these", "skip_episode"} -> "failed"
      [] choice \in {"search_again", "wrong_release", "alias", "wait",
                     "pick_another", "wait_for_singles", "retry_later"} -> "search"
      [] choice = "keep" -> "done"
      [] choice \in {"replace", "keep_both"} ->
            IF is_allowed(state, "finalize") THEN "finalize" ELSE "add"
      [] choice = "pause" -> "needs_input"
      [] OTHER -> "stay"

\* What apply_answer writes to the row before it moves it.
before_move(row, choice, t) ==
    CASE choice = "use_this" -> set_chosen(row, t)
      [] choice = "wait" -> reschedule(row, "day", "other")
      [] OTHER -> row

\* The move itself, ignored when the diagram does not have it.
move_answered(row, state, choice) ==
    LET next == next_of(choice, state)
    IN  IF next # "stay" /\ (next = state \/ is_allowed(state, next))
        THEN transition(row, next, "other",
                [default EXCEPT
                    !.reset_attempts = (next = "search"),
                    !.clear_torrent = choice \in {"pick_another", "none_of_these"}])
        ELSE row

\* auto_resolve_show_questions: the open match reviews of the show that offer
\* a release of t's group.  `pick` is the option taken for each.
same_group(q, t) == {u \in questions[q].options : Group[u] = Group[t]}

resolvable(q, t) ==
    /\ is_open(q) /\ questions[q].kind = "match_review"
    /\ same_group(q, t) # {}

\* The rows those questions were about go to `add` by a bare UPDATE, if they
\* wait for input.
auto_resolve(table, R, pick) ==
    [k \in Jobs |->
        IF \E q \in R : questions[q].job = k /\ table[k].state = "needs_input"
        THEN [table[k] EXCEPT
                 !.torrent = pick[CHOOSE q \in R : questions[q].job = k],
                 !.state = "add", !.last_error = "none"]
        ELSE table[k]]

\* `genrl answer q choice [--always]`: the answer is stored, then applied to
\* the job if it still waits.
Answer(q, choice, t, always) ==
    LET j == questions[q].job
        applies == waits(jobs[j])
        R == IF applies /\ always
             THEN {p \in Questions \ {q} : resolvable(p, t)} ELSE {}
        set == [jobs EXCEPT ![j] = before_move(@, choice, t)]
    IN
    /\ is_open(q)
    /\ <<questions[q].kind, choice>> \in Answers
    /\ IF choice = "use_this" THEN t \in questions[q].options
       ELSE t = NoTorrent /\ ~always
    /\ \E pick \in [R -> Torrents] :
          /\ \A p \in R : pick[p] \in same_group(p, t)
          /\ questions' = [p \in Questions |->
                 CASE p = q -> closed([questions[q] EXCEPT !.answer = choice,
                                                            !.pick = t])
                   [] p \in R -> closed([questions[p] EXCEPT
                                            !.answer = "use_this",
                                            !.pick = pick[p]])
                   [] OTHER -> questions[p]]
          /\ jobs' = IF applies
                     THEN [auto_resolve(set, R, pick) EXCEPT
                              ![j] = move_answered(@, jobs[j].state, choice)]
                     ELSE jobs
    /\ episodes' = IF applies /\ choice = "keep"
                   THEN [episodes EXCEPT ![jobs[j].episode] = "done"]
                   ELSE episodes
    /\ automation' = (automation /\ ~(applies /\ choice = "pause"))
    /\ UNCHANGED <<catalog, qbt, content, up, daemon, step>>

\* `genrl pause` / `genrl resume`.
SetAutomation ==
    /\ "pause" \in UserActions
    /\ automation' = ~automation
    /\ UNCHANGED <<jobs, episodes, questions, catalog, qbt, content, up, daemon,
                   step>>

\* `genrl plan` of one episode: enqueue_search, which looks only for a job of
\* kind `search` that is not done.
PlanEpisode(e) ==
    /\ "plan" \in UserActions
    /\ \A j \in Jobs : ~ (/\ exists(jobs[j]) /\ jobs[j].episode = e
                          /\ jobs[j].kind = "search" /\ jobs[j].state # "done")
    /\ enqueue({e})
    /\ UNCHANGED <<episodes, questions, catalog, outside, daemon, step>>

\* The user removes a torrent in qBittorrent, keeping its files.
RemoveTorrent(t) ==
    /\ "remove" \in UserActions
    /\ qbt[t] # "absent"
    /\ qbt' = [qbt EXCEPT ![t] = "absent"]
    /\ UNCHANGED <<jobs, episodes, questions, catalog, content, up, automation,
                   daemon, step>>

-----------------------------------------------------------------------------
(* The environment.                                                        *)

\* qBittorrent finishes a download.
Complete(t) ==
    /\ qbt[t] = "downloading"
    /\ qbt' = [qbt EXCEPT ![t] = "complete"]
    /\ content' = content \cup {t}
    /\ UNCHANGED <<jobs, episodes, questions, catalog, up, automation, daemon,
                   step>>

\* A service goes away or comes back.
ServiceFlips(s) ==
    /\ s \in Flaky
    /\ up' = IF s \in up THEN up \ {s} ELSE up \cup {s}
    /\ UNCHANGED <<jobs, episodes, questions, catalog, qbt, content, automation,
                   daemon, step>>

\* The time a job waits for has come.
Elapse(j) ==
    /\ is_active(jobs[j]) /\ jobs[j].next_run_at # "null" /\ pc[j] = "idle"
    /\ jobs' = [jobs EXCEPT ![j].next_run_at = "null"]
    /\ UNCHANGED <<episodes, questions, catalog, outside, daemon, step>>

-----------------------------------------------------------------------------
Daemon ==
    \/ \E j \in Jobs : Work(j) \/ Land(j) \/ StepGone(j) \/ ReconcileJob(j)
    \/ \E q \in Questions : SweepRelease(q)
    \/ SweepExpire \/ Tick \/ Settled
    \/ Start \/ Reconciled \/ ReconcileAborts

User ==
    \/ \E q \in Questions, choice \in Choice, t \in Torrents \cup {NoTorrent},
          always \in BOOLEAN : Answer(q, choice, t, always)
    \/ SetAutomation
    \/ \E e \in Episodes : PlanEpisode(e)
    \/ \E t \in Torrents : RemoveTorrent(t)

Environment ==
    \/ Crash
    \/ \E t \in Torrents : Complete(t)
    \/ \E s \in Service : ServiceFlips(s)
    \/ \E j \in Jobs : Elapse(j)

Next == Daemon \/ User \/ Environment

Spec == Init /\ [][Next]_vars

-----------------------------------------------------------------------------
(* Fairness.  The daemon's loop keeps going and a wait comes to its end: the *)
(* deadline of a question as well as the time a job waits for.  Users,       *)
(* downloads and services owe nothing.                                       *)

Expires(q) == SweepExpire /\ q \in expired'

FairSpec ==
    /\ Spec
    /\ WF_vars(Daemon)
    /\ \A j \in Jobs : WF_vars(Elapse(j))
    /\ \A q \in Questions : SF_vars(Expires(q))

-----------------------------------------------------------------------------
(* What the queue promises.                                                 *)

\* A blocked row always remembers the step it goes back to and spends that
\* step's budget; no other row remembers one, so no job resumes into a step it
\* left long ago (Engine::block, transition, resume_blocked).
BlockedReturns == \A j \in Jobs : blocked_ok(jobs[j])

\* A job that is watching a download, or blocked while watching one, knows
\* which: monitor_step's "choosing again", a move that the diagram does not
\* have, is never tried, through answers, retries, kills and restarts.
MonitorHasTorrent ==
    \A j \in Jobs : step_of(jobs[j]) = "monitor" => jobs[j].torrent # NoTorrent

\* No job outlives its budget of failed candidates: only a failed job may have
\* spent all of it, and nothing but a reset brings that job back to work
\* (fail_or_reschedule, next_candidate, apply_answer, sweep).
budget == IF MaxFailedCandidates = 0 THEN 1 ELSE MaxFailedCandidates

RetryBudget ==
    \A j \in Jobs :
        /\ jobs[j].attempts <= budget
        /\ jobs[j].state \notin {"failed", "done"} => jobs[j].attempts < budget

\* While a step is in flight its job is the step's: an answer, a sweep, a plan
\* or another step rewrites it under its feet in one way only, by deleting it
\* (the batch's DELETE in add_step).
StepOwnsItsJob ==
    [][\A j \in Jobs :
          pc[j] # "idle" /\ jobs'[j] # jobs[j]
          => pc'[j] # pc[j] \/ jobs'[j] = deleted]_vars

\* No more steps of a kind are ever in flight than its limit: the rows of a
\* kind that a step is working on (Scheduler::limit_for, tick, settle).
BudgetRespected ==
    \A kind \in JobKind :
        Cardinality({j \in Jobs : /\ pc[j] # "idle" /\ exists(jobs[j])
                                  /\ jobs[j].kind = kind}) <= limit_for(kind)

\* A job that is done has an owned episode, and keeps it: no later expiry,
\* restart or answer takes the episode back (finalize_step, sweep).  A second
\* job of the same episode could: its expired question sets it to missing.
DoneIsOwned ==
    \A j \in Jobs : jobs[j].state = "done" => episodes[jobs[j].episode] = "done"

\* Every download qBittorrent works on is the torrent of some job, unless the
\* candidate was given up and its removal failed: a kill, an expiry or a
\* failing service at any point leaves nobody's download behind (add_step,
\* next_candidate, reconcile).  An answer that sends a job that failed over its
\* download back to search, or gives it another release, does leave one.
NoOrphanTorrent ==
    \A t \in Torrents \ rejected : qbt[t] = "downloading" =>
        \E j \in Jobs : exists(jobs[j]) /\ jobs[j].torrent = t

\* Once everything answers and the workers are on for good, no job stays
\* blocked (resume_blocked).
BlockedResumes ==
    <>[](automation /\ up = Service) =>
        \A j \in Jobs : []<>(jobs[j].state # "blocked")

\* A question nobody answers does not hold its job for ever (sweep).
UnansweredReleased ==
    \A j \in Jobs : []<>(jobs[j].state # "needs_input")

-----------------------------------------------------------------------------
(* What comments, docs and messages of the code say of it, and what it does  *)
(* not keep.  Each is refuted by a run of its own.                           *)

\* jobs/enqueue.rs: "a job that is not terminal already exists for it means
\* already queued", and neither planner nor launch "may double-queue".
OneOpenJobPerEpisode ==
    \A i, j \in Jobs :
        /\ exists(jobs[i]) /\ jobs[i].state # "done"
        /\ exists(jobs[j]) /\ jobs[j].state # "done"
        /\ jobs[i].episode = jobs[j].episode
        => i = j

\* queue/mod.rs: "every possible kill point leaves the job in exactly one of
\* these cases", each with a move that resumes it.
ReconcileResumes == \A j \in Jobs : ~illegal_visit(j) /\ ~illegal_landing(j)

\* jobs/transitions.rs: "the column tells the scheduler which budget a job is
\* spending while the state says exactly where it is".
KindFollowsState ==
    \A j \in Jobs : is_active(jobs[j]) => jobs[j].kind = kind_of_state(jobs[j].state)

=============================================================================

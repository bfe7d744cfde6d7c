--------------------------- MODULE PipelineProofs ---------------------------
(***************************************************************************)
(* What the queue promises, for any number of jobs, episodes, torrents,    *)
(* questions and kills, and any settings: types and rows, whose row a step *)
(* works on, the scheduler's limits, that no download is left without a    *)
(* job, and that a done episode stays owned.                               *)
(***************************************************************************)
EXTENDS Pipeline, FiniteSetTheorems, TLAPS

-----------------------------------------------------------------------------
(* Rows.                                                                   *)

\* What holds of every row of the table: it is well typed, blocked_ok, knows
\* the torrent it watches, and has not outlived its budget.
RowOK(row) ==
    /\ row \in Row
    /\ blocked_ok(row)
    /\ step_of(row) = "monitor" => row.torrent # NoTorrent
    /\ row.attempts <= budget
    /\ row.state \notin {"failed", "done"} => row.attempts < budget

\* What holds of the move a step is about to land on its row.
LandOK(row, m) ==
    /\ row.state \in ActiveState
    /\ ~m.opts.reset_attempts
    /\ m.to = "blocked" => m.opts.blocked_from = row.state
    /\ m.to # "blocked" => m.opts.blocked_from = "none"
    /\ m.to = "monitor" => row.torrent # NoTorrent
    /\ m.opts.clear_torrent => m.to \in {"search", "failed"}
    /\ m.opts.count_attempt => m.to \in {"search", "failed"}
    /\ m.opts.count_attempt /\ m.to = "search" => row.attempts + 1 < budget

\* max_failed_candidates, taken as at least one, is a budget.
LEMMA BudgetType == budget \in Nat /\ budget > 0
BY PipelineAssumption DEF budget

\* MoveOptions::default() is a MoveOptions.
LEMMA DefaultType == default \in MoveOptions
BY DEF default, MoveOptions, ActiveState

\* kind_for gives one of the four budgets.
LEMMA KindType ==
    ASSUME NEW to \in JobState, NEW current \in JobKind,
           NEW from \in ActiveState \cup {"none"}
    PROVE  kind_for(to, current, from) \in JobKind
BY DEF kind_for, kind_of_state, JobKind, ActiveState, JobState

\* `transition` writes each column with a value of its type.
LEMMA TransitionType ==
    ASSUME NEW row \in Row, NEW to \in JobState, NEW reason \in Reason,
           NEW opts \in MoveOptions
    PROVE  transition(row, to, reason, opts) \in Row
<1>1. kind_for(to, row.kind, opts.blocked_from) \in JobKind
  BY KindType DEF Row, MoveOptions
<1>2. /\ row.attempts \in Nat /\ row.torrent \in Torrents \cup {NoTorrent}
      /\ row.blocked_from \in ActiveState \cup {"none"}
      /\ row.last_error \in Reason /\ "none" \in Reason
      /\ opts.blocked_from \in ActiveState \cup {"none"}
  BY DEF Row, MoveOptions, Reason
<1> DEFINE attempts == IF opts.reset_attempts THEN 0
                       ELSE IF opts.count_attempt THEN row.attempts + 1
                       ELSE row.attempts
           torrent == IF opts.clear_torrent THEN NoTorrent ELSE row.torrent
           from == IF opts.blocked_from # "none" THEN opts.blocked_from
                   ELSE IF to # "blocked" THEN "none"
                   ELSE row.blocked_from
           at == IF to = "blocked" THEN "soon" ELSE "null"
           error == IF to \in {"blocked", "failed"} THEN reason
                    ELSE IF row.state \in {"blocked", "failed"} THEN "none"
                    ELSE row.last_error
           kind == kind_for(to, row.kind, opts.blocked_from)
<1>3. /\ attempts \in Nat /\ torrent \in Torrents \cup {NoTorrent}
      /\ from \in ActiveState \cup {"none"}
      /\ at \in {"null", "soon", "day"} /\ error \in Reason
      /\ kind \in JobKind
  BY <1>1, <1>2
<1>4. transition(row, to, reason, opts)
        = [row EXCEPT !.state = to, !.kind = kind, !.attempts = attempts,
                      !.torrent = torrent, !.blocked_from = from,
                      !.next_run_at = at, !.last_error = error]
  BY DEF transition
<1> HIDE DEF attempts, torrent, from, at, error, kind
<1> QED
  BY <1>3, <1>4 DEF Row

\* `reschedule` writes values of the columns' types.
LEMMA RescheduleType ==
    ASSUME NEW row \in Row, NEW at \in {"null", "soon", "day"},
           NEW reason \in Reason
    PROVE  reschedule(row, at, reason) \in Row
BY DEF reschedule, Row

\* A row that stays keeps its invariant.
LEMMA RescheduleOK ==
    ASSUME NEW row, RowOK(row), NEW at \in {"null", "soon", "day"},
           NEW reason \in Reason
    PROVE  RowOK(reschedule(row, at, reason))
BY RescheduleType DEF RowOK, reschedule, Row, blocked_ok, step_of

\* Choosing a torrent keeps the row's invariant.
LEMMA SetChosenOK ==
    ASSUME NEW row, RowOK(row), NEW t \in Torrents
    PROVE  RowOK(set_chosen(row, t))
BY JobsAssumption DEF RowOK, set_chosen, Row, blocked_ok, step_of

\* The row enqueue_search inserts satisfies the row's invariant.
LEMMA SearchRowOK ==
    ASSUME NEW e \in Episodes
    PROVE  RowOK(search_row(e)) /\ search_row(e).state = "search"
BY BudgetType DEF RowOK, search_row, Row, blocked_ok, step_of, JobKind, JobState,
                  ActiveState, Reason

\* So do the rows that are not there.
LEMMA GoneOK ==
    /\ RowOK(unborn) /\ unborn.state = "unborn"
    /\ RowOK(deleted) /\ deleted.state = "deleted"
<1>1. PICK e \in Episodes : unborn = [search_row(e) EXCEPT !.state = "unborn"]
  BY JobsAssumption DEF unborn
<1>2. RowOK(search_row(e))
  BY SearchRowOK
<1>3. RowOK(unborn) /\ unborn.state = "unborn"
  BY <1>1, <1>2 DEF RowOK, Row, blocked_ok, step_of, search_row
<1> QED
  BY <1>3 DEF deleted, RowOK, Row, blocked_ok, step_of

\* The step a landing makes keeps the row's invariant.
LEMMA LandingOK ==
    ASSUME NEW row, RowOK(row), NEW m \in Move, LandOK(row, m)
    PROVE  RowOK(transition(row, m.to, m.reason, m.opts))
<1> DEFINE new == transition(row, m.to, m.reason, m.opts)
<1>1. new \in Row
  BY TransitionType DEF RowOK, Move
<1>2. /\ new.state = m.to
      /\ new.kind = kind_for(m.to, row.kind, m.opts.blocked_from)
      /\ new.attempts = IF m.opts.count_attempt THEN row.attempts + 1
                        ELSE row.attempts
      /\ new.torrent = IF m.opts.clear_torrent THEN NoTorrent ELSE row.torrent
      /\ new.blocked_from = IF m.to = "blocked" THEN row.state ELSE "none"
  BY DEF RowOK, Row, transition, LandOK, Move, MoveOptions, ActiveState
<1>3. blocked_ok(new)
  BY <1>2 DEF blocked_ok, kind_for, LandOK, ActiveState
<1>4. step_of(new) = "monitor" => new.torrent # NoTorrent
  BY <1>2 DEF step_of, LandOK, RowOK, ActiveState
<1>5. new.attempts <= budget /\ (new.state \notin {"failed", "done"} =>
                                    new.attempts < budget)
  <2>1. row.attempts \in Nat /\ row.attempts < budget
    BY DEF RowOK, Row, LandOK, ActiveState
  <2>2. m.opts.count_attempt \in BOOLEAN
    BY DEF Move, MoveOptions
  <2> QED
    BY <1>2, <2>1, <2>2, BudgetType DEF LandOK
<1> QED
  BY <1>1, <1>3, <1>4, <1>5 DEF RowOK

-----------------------------------------------------------------------------
(* The inductive invariant.  No conjunct stands alone: a row keeps its      *)
(* promises because the move a step is about to land respects them, and     *)
(* that move stays right because nobody rewrites the row of a step in       *)
(* flight.                                                                   *)

\* Steps in flight: on an active row, about to land a move that suits it.
LandingsOK ==
    \A j \in Jobs :
        /\ pc[j] # "idle" /\ exists(jobs[j]) => is_active(jobs[j])
        /\ pc[j] = "land" /\ exists(jobs[j]) => LandOK(jobs[j], pend[j])
        /\ jobs[j].state = "unborn" => pc[j] = "idle"

\* No step outlives the daemon, and the jobs reconcile has still to visit are
\* where Start found them.
WalkOK ==
    /\ mode = "down" => \A j \in Jobs : pc[j] = "idle"
    /\ mode # "reconcile" => walk = {}
    /\ \A j \in walk :
          /\ pc[j] = "idle"
          /\ jobs[j].state \in {"add", "monitor", "finalize", "deleted"}

JobsOK == jobs \in [Jobs -> Row] /\ \A j \in Jobs : RowOK(jobs[j])

StepsOK ==
    /\ pc \in [Jobs -> {"idle", "run", "land"}]
    /\ pend \in [Jobs -> Move]
    /\ LandingsOK

QuestionsOK == questions \in [Questions -> QuestionRow]

\* The rest of TypeOK.
RestOK ==
    /\ episodes \in [Episodes -> {"missing", "downloading", "done"}]
    /\ known \subseteq Torrents
    /\ rejected \subseteq Torrents
    /\ qbt \in [Torrents -> {"absent", "downloading", "complete"}]
    /\ content \subseteq Torrents
    /\ up \subseteq Service
    /\ automation \in BOOLEAN
    /\ mode \in {"down", "reconcile", "sweep", "tick", "settle"}
    /\ walk \subseteq Jobs
    /\ expired \subseteq Questions
    /\ crashes \in 0 .. MaxCrashes

IInv == JobsOK /\ StepsOK /\ QuestionsOK /\ RestOK /\ WalkOK

\* The inductive invariant contains what the queue promises of its rows.
LEMMA IInvImplies ==
    IInv => TypeOK /\ BlockedReturns /\ MonitorHasTorrent /\ RetryBudget
BY DEF IInv, JobsOK, StepsOK, QuestionsOK, RestOK, TypeOK, BlockedReturns,
       MonitorHasTorrent, RetryBudget, RowOK

\* A planned show before its first launch satisfies the invariant.
LEMMA InitOK == Init => IInv
<1> SUFFICES ASSUME Init PROVE IInv
  OBVIOUS
<1>1. JobsOK
  <2>1. \A j \in Jobs : (jobs[j] = search_row(j) /\ j \in Episodes) \/ jobs[j] = unborn
    BY DEF Init
  <2>2. \A j \in Jobs : RowOK(jobs[j])
    BY <2>1, SearchRowOK, GoneOK
  <2> QED
    BY <2>2 DEF Init, JobsOK, RowOK
<1>2. StepsOK
  <2>1. NoMove \in Move
    BY DefaultType DEF NoMove, Move, JobState, Reason
  <2> QED
    BY <2>1 DEF Init, StepsOK, LandingsOK
<1>3. QuestionsOK
  BY DEF Init, QuestionsOK, QuestionRow, NoQuestion, QuestionKind
<1>4. RestOK /\ WalkOK
  BY PipelineAssumption DEF Init, RestOK, WalkOK
<1> QED
  BY <1>1, <1>2, <1>3, <1>4 DEF IInv

-----------------------------------------------------------------------------
(* Steps.                                                                   *)

\* What a step does to the table and to its own move: its row stays good, and
\* of the others it only creates or deletes.
StepOK(j) ==
    /\ jobs' \in [Jobs -> Row] /\ \A k \in Jobs : RowOK(jobs'[k])
    /\ jobs'[j].state # "unborn"
    /\ \A k \in Jobs \ {j} : \/ jobs'[k] = jobs[k]
                             \/ jobs'[k] = deleted
                             \/ jobs[k].state = "unborn"
    /\ \/ pc' = [pc EXCEPT ![j] = "idle"] /\ pend' = pend
       \/ /\ pc' = [pc EXCEPT ![j] = "land"]
          /\ \E m \in Move : /\ pend' = [pend EXCEPT ![j] = m]
                             /\ LandOK(jobs'[j], m)

\* A step that behaves leaves every other step's landing as it was.
LEMMA StepKeepsSteps ==
    ASSUME IInv, NEW j \in Jobs, StepOK(j)
    PROVE  StepsOK'
<1>1. pc' \in [Jobs -> {"idle", "run", "land"}] /\ pend' \in [Jobs -> Move]
  BY DEF IInv, StepsOK, StepOK
<1>2. ASSUME NEW k \in Jobs
      PROVE  /\ pc'[k] # "idle" /\ exists(jobs'[k]) => is_active(jobs'[k])
             /\ pc'[k] = "land" /\ exists(jobs'[k]) => LandOK(jobs'[k], pend'[k])
             /\ jobs'[k].state = "unborn" => pc'[k] = "idle"
  <2>1. CASE k = j
    BY <2>1 DEF IInv, StepsOK, StepOK, LandOK, is_active
  <2>2. CASE k # j
    <3>1. pc'[k] = pc[k] /\ pend'[k] = pend[k]
      BY <2>2 DEF IInv, StepsOK, StepOK
    <3>2. CASE jobs'[k] = jobs[k]
      BY <3>1, <3>2 DEF IInv, StepsOK, LandingsOK
    <3>3. CASE jobs'[k] = deleted
      BY <3>3, GoneOK DEF exists, JobState, ActiveState
    <3>4. CASE jobs[k].state = "unborn"
      BY <3>1, <3>4 DEF IInv, StepsOK, LandingsOK
    <3> QED
      BY <2>2, <3>2, <3>3, <3>4 DEF StepOK
  <2> QED
    BY <2>1, <2>2
<1> QED
  BY <1>1, <1>2 DEF StepsOK, LandingsOK

\* A step whose last write is a transition, its row as it was.
LEMMA PendOK ==
    ASSUME IInv, NEW j \in Jobs, NEW to \in JobState, NEW reason \in Reason,
           NEW opts \in MoveOptions, Pend(j, to, reason, opts), UNCHANGED jobs,
           LandOK(jobs[j], [to |-> to, reason |-> reason, opts |-> opts])
    PROVE  StepOK(j)
<1> DEFINE m == [to |-> to, reason |-> reason, opts |-> opts]
<1>1. m \in Move
  BY DEF Move
<1>2. jobs[j].state # "unborn"
  BY DEF LandOK, ActiveState
<1> QED
  BY <1>1, <1>2 DEF Pend, StepOK, IInv, JobsOK

\* The same, once a candidate has been chosen.
LEMMA ChoosePendOK ==
    ASSUME IInv, NEW j \in Jobs, NEW t \in Torrents, NEW to \in {"add", "needs_input"},
           Pend(j, to, "none", default), jobs[j].state = "choose",
           jobs' = [jobs EXCEPT ![j] = set_chosen(@, t)]
    PROVE  StepOK(j)
<1> DEFINE m == [to |-> to, reason |-> "none", opts |-> default]
<1>1. m \in Move
  BY DefaultType DEF Move, Reason, JobState, ActiveState
<1>2. RowOK(set_chosen(jobs[j], t)) /\ set_chosen(jobs[j], t).state = "choose"
  BY SetChosenOK DEF IInv, JobsOK, set_chosen, Row
<1>3. LandOK(jobs'[j], m)
  BY <1>2 DEF LandOK, default, IInv, JobsOK, ActiveState
<1>4. jobs' \in [Jobs -> Row] /\ \A k \in Jobs : RowOK(jobs'[k])
  BY <1>2 DEF IInv, JobsOK, RowOK
<1> QED
  BY <1>1, <1>2, <1>3, <1>4 DEF Pend, StepOK, IInv, JobsOK

\* A step that ends with its row rewritten in place.
LEMMA StayOK ==
    ASSUME IInv, NEW j \in Jobs, NEW row, Stay(j, row), RowOK(row),
           row.state # "unborn"
    PROVE  StepOK(j)
BY DEF Stay, StepOK, IInv, JobsOK, RowOK

\* QuestionStore::ask writes a well-typed question.
LEMMA AskOK ==
    ASSUME IInv, NEW j \in Jobs, NEW kind \in QuestionKind,
           NEW options \in SUBSET Torrents, NEW large \in BOOLEAN,
           ask(j, kind, options, large)
    PROVE  QuestionsOK'
<1>1. j \in Nat
  BY PipelineAssumption DEF Jobs
<1> QED
  BY <1>1 DEF ask, IInv, QuestionsOK, QuestionRow

\* Engine::block: the pending move remembers the state it left.
LEMMA BlockOK ==
    ASSUME IInv, NEW j \in Jobs, NEW reason \in Reason, block(j, reason),
           jobs[j].state \in ActiveState
    PROVE  StepOK(j) /\ QuestionsOK'
<1> DEFINE opts == [default EXCEPT !.blocked_from = jobs[j].state]
<1>1. opts \in MoveOptions /\ opts.blocked_from = jobs[j].state
      /\ ~opts.reset_attempts /\ ~opts.clear_torrent /\ ~opts.count_attempt
  BY DEF default, MoveOptions
<1>2. "blocked" \in JobState
  BY DEF JobState
<1>3. LandOK(jobs[j], [to |-> "blocked", reason |-> reason, opts |-> opts])
  BY <1>1 DEF LandOK
<1>4. StepOK(j)
  BY <1>1, <1>2, <1>3, PendOK DEF block
<1> QED
  BY <1>4 DEF block, IInv, QuestionsOK

\* Backing off keeps the row, giving up asks and counts the attempt.
LEMMA FailOrRescheduleOK ==
    ASSUME IInv, NEW j \in Jobs, fail_or_reschedule(j),
           jobs[j].state \in ActiveState
    PROVE  StepOK(j) /\ QuestionsOK'
<1>1. CASE out_of_attempts(j)
  <2> DEFINE opts == [default EXCEPT !.count_attempt = TRUE]
  <2>1. opts \in MoveOptions /\ opts.blocked_from = "none"
        /\ ~opts.reset_attempts /\ ~opts.clear_torrent
    BY DEF default, MoveOptions
  <2>2. "failed" \in JobState /\ "other" \in Reason
    BY DEF JobState, Reason
  <2>3. LandOK(jobs[j], [to |-> "failed", reason |-> "other", opts |-> opts])
    BY <2>1 DEF LandOK
  <2>4. StepOK(j)
    BY <1>1, <2>1, <2>2, <2>3, PendOK DEF fail_or_reschedule
  <2>5. QuestionsOK'
    BY <1>1, AskOK DEF fail_or_reschedule, QuestionKind
  <2> QED
    BY <2>4, <2>5
<1>2. CASE ~out_of_attempts(j)
  <2> DEFINE row == reschedule(jobs[j], "soon", "other")
  <2>1. RowOK(row) /\ row.state = jobs[j].state
    BY RescheduleOK DEF IInv, JobsOK, Reason, reschedule, Row
  <2>2. StepOK(j)
    BY <1>2, <2>1, StayOK DEF fail_or_reschedule, ActiveState
  <2> QED
    BY <1>2, <2>2 DEF fail_or_reschedule, IInv, QuestionsOK
<1> QED
  BY <1>1, <1>2

\* Moving on drops the torrent and stays within the budget, or fails.
LEMMA NextCandidateOK ==
    ASSUME IInv, NEW j \in Jobs, next_candidate(j),
           jobs[j].state \in ActiveState
    PROVE  StepOK(j) /\ QuestionsOK'
<1> DEFINE opts == [default EXCEPT !.count_attempt = TRUE, !.clear_torrent = TRUE]
<1>1. opts \in MoveOptions /\ opts.blocked_from = "none" /\ ~opts.reset_attempts
  BY DEF default, MoveOptions
<1>2. {"failed", "search"} \subseteq JobState /\ {"other", "none"} \subseteq Reason
  BY DEF JobState, Reason, ActiveState
<1>3. CASE out_of_attempts(j)
  <2>1. LandOK(jobs[j], [to |-> "failed", reason |-> "other", opts |-> opts])
    BY <1>1 DEF LandOK
  <2>2. StepOK(j)
    BY <1>1, <1>2, <1>3, <2>1, PendOK DEF next_candidate
  <2>3. QuestionsOK'
    BY <1>3, AskOK DEF next_candidate, QuestionKind
  <2> QED
    BY <2>2, <2>3
<1>4. CASE ~out_of_attempts(j)
  <2>1. jobs[j].attempts + 1 < budget
    BY <1>4, PipelineAssumption DEF out_of_attempts, budget, IInv, JobsOK, Row
  <2>2. LandOK(jobs[j], [to |-> "search", reason |-> "none", opts |-> opts])
    BY <1>1, <2>1 DEF LandOK
  <2>3. StepOK(j)
    BY <1>1, <1>2, <1>4, <2>2, PendOK DEF next_candidate
  <2> QED
    BY <1>4, <2>3 DEF next_candidate, IInv, QuestionsOK
<1> QED
  BY <1>3, <1>4

\* Every outcome of search_step: block, back off or ask, or go on to choose.
LEMMA SearchStepOK ==
    ASSUME IInv, NEW j \in Jobs, search_step(j)
    PROVE  StepOK(j) /\ QuestionsOK' /\ RestOK'
<1>1. jobs[j].state = "search" /\ jobs[j].state \in ActiveState
  BY DEF search_step, ActiveState
<1>2. RestOK'
  BY DEF search_step, IInv, RestOK, outside, daemon
<1>3. CASE block(j, "metadata") \/ block(j, "nyaa")
  BY <1>1, <1>2, <1>3, BlockOK DEF Reason
<1>4. CASE fail_or_reschedule(j)
  BY <1>1, <1>2, <1>4, FailOrRescheduleOK
<1>5. CASE Pend(j, "choose", "none", default) /\ UNCHANGED <<jobs, questions>>
  <2>1. LandOK(jobs[j], [to |-> "choose", reason |-> "none", opts |-> default])
    BY <1>1 DEF LandOK, default
  <2>2. "choose" \in JobState /\ "none" \in Reason
    BY DEF JobState, ActiveState, Reason
  <2>3. StepOK(j)
    BY <1>5, <2>1, <2>2, DefaultType, PendOK
  <2> QED
    BY <1>2, <1>5, <2>3 DEF IInv, QuestionsOK
<1> QED
  BY <1>3, <1>4, <1>5 DEF search_step

\* Every verdict of choose_step.
LEMMA ChooseStepOK ==
    ASSUME IInv, NEW j \in Jobs, choose_step(j)
    PROVE  StepOK(j) /\ QuestionsOK' /\ RestOK'
<1>1. jobs[j].state = "choose" /\ jobs[j].state \in ActiveState
  BY DEF choose_step, ActiveState
<1>2. RestOK'
  BY DEF choose_step, IInv, RestOK, outside, daemon, catalog
<1>3. PICK ranked \in SUBSET candidate_rows :
          \/ ranked = {} /\ fail_or_reschedule(j)
          \/ /\ \E best \in ranked : Stay(j, set_chosen(jobs[j], best))
             /\ ask(j, "batch_only", {}, FALSE)
          \/ /\ \E best \in ranked :
                   jobs' = [jobs EXCEPT ![j] = set_chosen(@, best)]
             /\ Pend(j, "add", "none", default)
             /\ UNCHANGED questions
          \/ /\ \E best \in ranked :
                   jobs' = [jobs EXCEPT ![j] = set_chosen(@, best)]
             /\ ask(j, "low_seeds", {}, FALSE)
             /\ Pend(j, "needs_input", "none", default)
          \/ /\ ask(j, "match_review", ranked, FALSE)
             /\ Pend(j, "needs_input", "none", default)
             /\ UNCHANGED jobs
  BY Zenon DEF choose_step
<1>4. ranked \subseteq Torrents
  BY DEF candidate_rows, IInv, RestOK
<1>5. CASE fail_or_reschedule(j)
  BY <1>1, <1>2, <1>5, FailOrRescheduleOK
<1>6. CASE /\ \E best \in ranked : Stay(j, set_chosen(jobs[j], best))
           /\ ask(j, "batch_only", {}, FALSE)
  <2>1. PICK best \in ranked : Stay(j, set_chosen(jobs[j], best))
    BY <1>6
  <2>2. RowOK(set_chosen(jobs[j], best)) /\ set_chosen(jobs[j], best).state = "choose"
    BY <1>1, <1>4, SetChosenOK DEF IInv, JobsOK, set_chosen, Row
  <2>3. StepOK(j)
    BY <2>1, <2>2, StayOK
  <2> QED
    BY <1>2, <1>6, <2>3, AskOK DEF QuestionKind
<1>7. CASE /\ \E best \in ranked :
                 jobs' = [jobs EXCEPT ![j] = set_chosen(@, best)]
           /\ Pend(j, "add", "none", default)
           /\ UNCHANGED questions
  <2>1. StepOK(j)
    BY <1>1, <1>4, <1>7, ChoosePendOK
  <2> QED
    BY <1>2, <1>7, <2>1 DEF IInv, QuestionsOK
<1>8. CASE /\ \E best \in ranked :
                 jobs' = [jobs EXCEPT ![j] = set_chosen(@, best)]
           /\ ask(j, "low_seeds", {}, FALSE)
           /\ Pend(j, "needs_input", "none", default)
  <2>1. StepOK(j)
    BY <1>1, <1>4, <1>8, ChoosePendOK
  <2> QED
    BY <1>2, <1>8, <2>1, AskOK DEF QuestionKind
<1>9. CASE /\ ask(j, "match_review", ranked, FALSE)
           /\ Pend(j, "needs_input", "none", default)
           /\ UNCHANGED jobs
  <2>1. LandOK(jobs[j], [to |-> "needs_input", reason |-> "none", opts |-> default])
    BY <1>1 DEF LandOK, default
  <2>2. "needs_input" \in JobState /\ "none" \in Reason
    BY DEF JobState, Reason
  <2>3. StepOK(j)
    BY <1>9, <2>1, <2>2, DefaultType, PendOK
  <2> QED
    BY <1>2, <1>4, <1>9, <2>3, AskOK DEF QuestionKind
<1> QED
  BY <1>3, <1>5, <1>6, <1>7, <1>8, <1>9

\* enqueue inserts search rows under ids not handed out yet, and touches no
\* other row.
LEMMA EnqueueOK ==
    ASSUME IInv, NEW S \in SUBSET Episodes, enqueue(S)
    PROVE  /\ jobs' \in [Jobs -> Row] /\ \A k \in Jobs : RowOK(jobs'[k])
           /\ \A k \in Jobs : \/ jobs'[k] = jobs[k]
                              \/ jobs[k].state = "unborn" /\ jobs'[k].state = "search"
<1> DEFINE unused == {k \in Jobs : jobs[k].state = "unborn"}
<1>1. PICK id \in [S -> First(unused, Cardinality(S))] :
           jobs' = [k \in Jobs |->
                  IF \E e \in S : id[e] = k
                  THEN search_row(CHOOSE e \in S : id[e] = k) ELSE jobs[k]]
  BY DEF enqueue
<1>2. \A e \in S : id[e] \in unused
  BY DEF First
<1>3. ASSUME NEW k \in Jobs
      PROVE  /\ RowOK(jobs'[k])
             /\ \/ jobs'[k] = jobs[k]
                \/ jobs[k].state = "unborn" /\ jobs'[k].state = "search"
  <2>1. CASE \E e \in S : id[e] = k
    <3> DEFINE e == CHOOSE e \in S : id[e] = k
    <3>1. e \in S /\ id[e] = k
      BY <2>1
    <3>2. jobs'[k] = search_row(e)
      BY <1>1, <2>1
    <3> HIDE DEF e
    <3> QED
      BY <1>2, <3>1, <3>2, SearchRowOK
  <2>2. CASE ~ \E e \in S : id[e] = k
    BY <1>1, <2>2 DEF IInv, JobsOK
  <2> QED
    BY <2>1, <2>2
<1> QED
  BY <1>1, <1>3 DEF RowOK

\* The row of a step about to land on another main step, or to ask, or to be
\* done, with the default options.
LEMMA PlainLandOK ==
    ASSUME NEW row, row.state \in ActiveState, NEW to \in JobState,
           to # "blocked", to = "monitor" => row.torrent # NoTorrent
    PROVE  LandOK(row, [to |-> to, reason |-> "none", opts |-> default])
BY DEF LandOK, default

\* The two ways add_step ends once qBittorrent has the torrent.
LEMMA AddedOK ==
    ASSUME IInv, NEW j \in Jobs, jobs[j].state = "add",
           jobs[j].torrent # NoTorrent,
           cover_with_batch(j) \/ enqueue_sibling_episodes_if_needed(j),
           Pend(j, "monitor", "none", default)
    PROVE  /\ StepOK(j) /\ QuestionsOK'
           /\ episodes' \in [Episodes -> {"missing", "downloading", "done"}]
<1> DEFINE m == [to |-> "monitor", reason |-> "none", opts |-> default]
<1>1. m \in Move
  BY DefaultType DEF Move, Reason, JobState, ActiveState
<1>2. LandOK(jobs[j], m)
  BY PlainLandOK DEF JobState, ActiveState
<1>3. CASE cover_with_batch(j)
  <2>1. jobs'[j] = jobs[j]
    BY <1>3 DEF cover_with_batch
  <2>2. \A k \in Jobs : jobs'[k] = jobs[k] \/ jobs'[k] = deleted
    BY <1>3 DEF cover_with_batch
  <2>3. \A k \in Jobs : RowOK(jobs'[k])
    BY <2>2, GoneOK DEF IInv, JobsOK
  <2>4. jobs' \in [Jobs -> Row]
    BY <1>3, <2>3 DEF cover_with_batch, RowOK
  <2>5. StepOK(j)
    BY <1>1, <1>2, <2>1, <2>2, <2>3, <2>4 DEF StepOK, Pend
  <2>6. NoQuestion \in QuestionRow
    BY DEF NoQuestion, QuestionRow, QuestionKind
  <2>7. QuestionsOK'
    BY <1>3, <2>6 DEF cover_with_batch, IInv, QuestionsOK
  <2> QED
    BY <1>3, <2>5, <2>7 DEF cover_with_batch, IInv, RestOK
<1>4. CASE enqueue_sibling_episodes_if_needed(j)
  <2>1. /\ jobs' \in [Jobs -> Row] /\ \A k \in Jobs : RowOK(jobs'[k])
        /\ \A k \in Jobs : \/ jobs'[k] = jobs[k]
                           \/ jobs[k].state = "unborn" /\ jobs'[k].state = "search"
    <3>1. siblings_without_search(j) \in SUBSET Episodes
      BY DEF siblings_without_search
    <3> QED
      BY <1>4, <3>1, EnqueueOK DEF enqueue_sibling_episodes_if_needed
  <2>2. jobs'[j] = jobs[j]
    BY <2>1
  <2>3. StepOK(j)
    BY <1>1, <1>2, <2>1, <2>2 DEF StepOK, Pend
  <2> QED
    BY <1>4, <2>3 DEF enqueue_sibling_episodes_if_needed, IInv, RestOK, QuestionsOK
<1> QED
  BY <1>3, <1>4

\* add_step without the shape of its guards.
LEMMA AddStepCases ==
    ASSUME NEW j, add_step(j)
    PROVE  \/ /\ \E r \in Reason : block(j, r)
              /\ UNCHANGED <<episodes, qbt>>
           \/ /\ Pend(j, "choose", "none", default)
              /\ UNCHANGED <<jobs, episodes, questions, qbt>>
           \/ /\ ask(j, "match_review", {jobs[j].torrent} \cap candidate_rows, TRUE)
              /\ Pend(j, "needs_input", "none", default)
              /\ UNCHANGED <<jobs, episodes, qbt>>
           \/ /\ fail_or_reschedule(j)
              /\ UNCHANGED <<episodes, qbt>>
           \/ /\ jobs[j].torrent # NoTorrent
              /\ add_to_qbit(jobs[j].torrent)
              /\ cover_with_batch(j) \/ enqueue_sibling_episodes_if_needed(j)
              /\ Pend(j, "monitor", "none", default)
BY DEF add_step, Reason

\* Every outcome of add_step.
LEMMA AddStepOK ==
    ASSUME IInv, NEW j \in Jobs, add_step(j)
    PROVE  StepOK(j) /\ QuestionsOK' /\ RestOK'
<1>1. jobs[j].state = "add" /\ jobs[j].state \in ActiveState
  BY DEF add_step, ActiveState
<1>2. ASSUME UNCHANGED <<episodes, qbt>>
      PROVE  RestOK'
  BY <1>2 DEF add_step, IInv, RestOK, catalog, daemon
<1>3. {"choose", "needs_input"} \subseteq JobState /\ "none" \in Reason
  BY DEF JobState, ActiveState, Reason
<1>4. CASE (\E r \in Reason : block(j, r)) /\ UNCHANGED <<episodes, qbt>>
  BY <1>1, <1>2, <1>4, BlockOK
<1>5. CASE /\ Pend(j, "choose", "none", default)
           /\ UNCHANGED <<jobs, episodes, questions, qbt>>
  <2>1. StepOK(j)
    BY <1>1, <1>3, <1>5, PlainLandOK, DefaultType, PendOK
  <2> QED
    BY <1>2, <1>5, <2>1 DEF IInv, QuestionsOK
<1>6. CASE /\ ask(j, "match_review", {jobs[j].torrent} \cap candidate_rows, TRUE)
           /\ Pend(j, "needs_input", "none", default)
           /\ UNCHANGED <<jobs, episodes, qbt>>
  <2>1. StepOK(j)
    BY <1>1, <1>3, <1>6, PlainLandOK, DefaultType, PendOK
  <2>2. {jobs[j].torrent} \cap candidate_rows \in SUBSET Torrents
    BY DEF candidate_rows, IInv, RestOK
  <2>3. QuestionsOK'
    BY <1>6, <2>2, AskOK DEF QuestionKind
  <2> QED
    BY <1>2, <1>6, <2>1, <2>3
<1>7. CASE fail_or_reschedule(j) /\ UNCHANGED <<episodes, qbt>>
  BY <1>1, <1>2, <1>7, FailOrRescheduleOK
<1>8. CASE /\ jobs[j].torrent # NoTorrent
           /\ add_to_qbit(jobs[j].torrent)
           /\ cover_with_batch(j) \/ enqueue_sibling_episodes_if_needed(j)
           /\ Pend(j, "monitor", "none", default)
  <2>1. /\ StepOK(j) /\ QuestionsOK'
        /\ episodes' \in [Episodes -> {"missing", "downloading", "done"}]
    BY <1>1, <1>8, AddedOK
  <2>2. qbt' \in [Torrents -> {"absent", "downloading", "complete"}]
    BY <1>8 DEF add_to_qbit, IInv, RestOK
  <2> QED
    BY <2>1, <2>2 DEF add_step, IInv, RestOK, catalog, daemon
<1> QED
  BY <1>4, <1>5, <1>6, <1>7, <1>8, AddStepCases

\* Every outcome of monitor_step.  The row it watches has a torrent, so
\* "choosing again" does not occur.
LEMMA MonitorStepOK ==
    ASSUME IInv, NEW j \in Jobs, monitor_step(j)
    PROVE  StepOK(j) /\ QuestionsOK' /\ RestOK'
<1>1. /\ jobs[j].state = "monitor" /\ jobs[j].state \in ActiveState
      /\ jobs[j].torrent # NoTorrent /\ jobs[j].torrent \in Torrents
  BY DEF monitor_step, ActiveState, IInv, JobsOK, RowOK, step_of, Row
<1>2. /\ rejected' \subseteq Torrents
      /\ qbt' \in [Torrents -> {"absent", "downloading", "complete"}]
  BY <1>1 DEF monitor_step, IInv, RestOK
<1>3. RestOK'
  BY <1>2 DEF monitor_step, IInv, RestOK, daemon
<1>4. CASE block(j, "other")
  BY <1>1, <1>3, <1>4, BlockOK DEF Reason
<1>5. CASE fail_or_reschedule(j)
  BY <1>1, <1>3, <1>5, FailOrRescheduleOK
<1>6. CASE next_candidate(j)
  BY <1>1, <1>3, <1>6, NextCandidateOK
<1>7. CASE Pend(j, "finalize", "none", default) /\ UNCHANGED <<jobs, questions>>
  <2>1. "finalize" \in JobState /\ "none" \in Reason
    BY DEF JobState, ActiveState, Reason
  <2>2. StepOK(j)
    BY <1>1, <1>7, <2>1, PlainLandOK, DefaultType, PendOK
  <2> QED
    BY <1>3, <1>7, <2>2 DEF IInv, QuestionsOK
<1>8. CASE /\ Stay(j, reschedule(jobs[j], "soon", "other"))
           /\ UNCHANGED questions
  <2> DEFINE row == reschedule(jobs[j], "soon", "other")
  <2>1. RowOK(row) /\ row.state = jobs[j].state
    BY RescheduleOK DEF IInv, JobsOK, Reason, reschedule, Row
  <2>2. StepOK(j)
    BY <1>1, <1>8, <2>1, StayOK
  <2> QED
    BY <1>3, <1>8, <2>2 DEF IInv, QuestionsOK
<1> QED
  BY <1>1, <1>4, <1>5, <1>6, <1>7, <1>8 DEF monitor_step

\* finalize_step without the shape of its guards.
LEMMA FinalizeStepCases ==
    ASSUME NEW j, finalize_step(j)
    PROVE  \/ /\ \E to \in {"search", "done", "needs_input"} :
                    Pend(j, to, "none", default)
              /\ UNCHANGED jobs
              /\ UNCHANGED questions \/ ask(j, "file_exists", {}, FALSE)
           \/ \E r \in Reason : block(j, r)
           \/ Stay(j, reschedule(jobs[j], "soon", "other")) /\ UNCHANGED questions
           \/ fail_or_reschedule(j)
BY DEF finalize_step, Reason

\* Every outcome of finalize_step.
LEMMA FinalizeStepOK ==
    ASSUME IInv, NEW j \in Jobs, finalize_step(j)
    PROVE  StepOK(j) /\ QuestionsOK' /\ RestOK'
<1>1. jobs[j].state = "finalize" /\ jobs[j].state \in ActiveState
  BY DEF finalize_step, ActiveState
<1>2. /\ episodes' \in [Episodes -> {"missing", "downloading", "done"}]
      /\ content' \subseteq Torrents
      /\ qbt' \in [Torrents -> {"absent", "downloading", "complete"}]
  BY DEF finalize_step, file_into_library, IInv, RestOK
<1>3. RestOK'
  BY <1>2 DEF finalize_step, IInv, RestOK, catalog, daemon
<1>4. CASE /\ \E to \in {"search", "done", "needs_input"} :
                 Pend(j, to, "none", default)
           /\ UNCHANGED jobs
           /\ UNCHANGED questions \/ ask(j, "file_exists", {}, FALSE)
  <2>1. PICK to \in {"search", "done", "needs_input"} : Pend(j, to, "none", default)
    BY <1>4
  <2>2. to \in JobState /\ "none" \in Reason
    BY DEF JobState, ActiveState, Reason
  <2>3. StepOK(j)
    BY <1>1, <1>4, <2>1, <2>2, PlainLandOK, DefaultType, PendOK
  <2>4. QuestionsOK'
    BY <1>4, AskOK DEF IInv, QuestionsOK, QuestionKind
  <2> QED
    BY <1>3, <2>3, <2>4
<1>5. CASE \E r \in Reason : block(j, r)
  BY <1>1, <1>3, <1>5, BlockOK
<1>6. CASE /\ Stay(j, reschedule(jobs[j], "soon", "other"))
           /\ UNCHANGED questions
  <2> DEFINE row == reschedule(jobs[j], "soon", "other")
  <2>1. RowOK(row) /\ row.state = jobs[j].state
    BY RescheduleOK DEF IInv, JobsOK, Reason, reschedule, Row
  <2>2. StepOK(j)
    BY <1>1, <1>6, <2>1, StayOK
  <2> QED
    BY <1>3, <1>6, <2>2 DEF IInv, QuestionsOK
<1>7. CASE fail_or_reschedule(j)
  BY <1>1, <1>3, <1>7, FailOrRescheduleOK
<1> QED
  BY <1>4, <1>5, <1>6, <1>7, FinalizeStepCases

\* The jobs still to be visited are left alone, or deleted.
LEMMA WalkKeeps ==
    ASSUME IInv, walk' \subseteq walk, mode' # "reconcile" => walk' = {},
           mode' = "down" => \A k \in Jobs : pc'[k] = "idle",
           \A k \in walk' : /\ pc'[k] = pc[k]
                            /\ \/ jobs'[k].state = jobs[k].state
                               \/ jobs'[k] = deleted
    PROVE  WalkOK'
BY GoneOK DEF IInv, WalkOK

\* A step's work keeps the invariant.
LEMMA WorkOK ==
    ASSUME IInv, NEW j \in Jobs, Work(j)
    PROVE  IInv' /\ StepOK(j)
<1>1. StepOK(j) /\ QuestionsOK' /\ RestOK'
  BY SearchStepOK, ChooseStepOK, AddStepOK, MonitorStepOK, FinalizeStepOK DEF Work
<1>2. StepsOK'
  BY <1>1, StepKeepsSteps
<1>3. JobsOK'
  BY <1>1 DEF StepOK, JobsOK
<1>4. UNCHANGED <<mode, walk>>
  BY DEF Work, search_step, choose_step, add_step, monitor_step, finalize_step, daemon
<1>5. ASSUME NEW k \in walk
      PROVE  /\ pc'[k] = pc[k]
             /\ jobs'[k].state = jobs[k].state \/ jobs'[k] = deleted
  <2>1. k \in Jobs /\ pc[k] = "idle" /\ jobs[k].state # "unborn"
    BY <1>5 DEF IInv, RestOK, WalkOK
  <2>2. k # j
    BY <2>1 DEF Work
  <2> QED
    BY <1>1, <2>1, <2>2 DEF StepOK, IInv, StepsOK
<1>6. WalkOK'
  <2>1. mode # "down"
    BY DEF Work, IInv, WalkOK
  <2> QED
    BY <1>4, <1>5, <2>1, WalkKeeps DEF IInv, WalkOK
<1> QED
  BY <1>1, <1>2, <1>3, <1>6 DEF IInv

\* A step that has ended has no move left to land.
LEMMA NoMoveType == NoMove \in Move
BY DefaultType DEF NoMove, Move, JobState, Reason

\* One row is rewritten, and its step is over or was never in flight.
LEMMA RewriteOK ==
    ASSUME IInv, NEW j \in Jobs, NEW row, RowOK(row), row.state # "unborn",
           jobs' = [jobs EXCEPT ![j] = row],
           \/ UNCHANGED step /\ pc[j] = "idle"
           \/ /\ pc' = [pc EXCEPT ![j] = "idle"]
              /\ pend' = [pend EXCEPT ![j] = NoMove]
    PROVE  JobsOK' /\ StepsOK'
<1>1. JobsOK'
  BY DEF IInv, JobsOK, RowOK
<1>2. /\ pc' \in [Jobs -> {"idle", "run", "land"}] /\ pend' \in [Jobs -> Move]
      /\ pc'[j] = "idle"
      /\ \A k \in Jobs \ {j} : pc'[k] = pc[k] /\ pend'[k] = pend[k]
  BY NoMoveType DEF IInv, StepsOK, step
<1>3. \A k \in Jobs \ {j} : jobs'[k] = jobs[k]
  BY DEF IInv, JobsOK
<1>4. LandingsOK'
  BY <1>2, <1>3 DEF IInv, StepsOK, LandingsOK
<1> QED
  BY <1>1, <1>2, <1>4 DEF StepsOK

\* The transition a step lands keeps the invariant, and so does the retry of a
\* refused one.
LEMMA LandKeeps ==
    ASSUME IInv, NEW j \in Jobs, Land(j)
    PROVE  IInv'
<1> DEFINE m == pend[j]
           row == IF can_move(jobs[j], m.to)
                  THEN transition(jobs[j], m.to, m.reason, m.opts)
                  ELSE reschedule(jobs[j], "soon", "other")
<1>1. pc[j] = "land" /\ exists(jobs[j])
  BY DEF Land
<1>2. m \in Move /\ RowOK(jobs[j]) /\ LandOK(jobs[j], m)
  BY <1>1 DEF IInv, JobsOK, StepsOK, LandingsOK
<1>3. RowOK(row)
  BY <1>2, LandingOK, RescheduleOK DEF Reason
<1>4. row.state \in JobState
  BY <1>1, <1>2 DEF transition, reschedule, RowOK, Row, exists, Move
<1>5. row.state # "unborn"
  BY <1>4 DEF JobState, ActiveState
<1>6. jobs' = [jobs EXCEPT ![j] = row]
  BY DEF Land, IInv, JobsOK
<1>7. /\ pc' = [pc EXCEPT ![j] = "idle"]
      /\ pend' = [pend EXCEPT ![j] = NoMove]
  BY DEF Land
<1> HIDE DEF row
<1>8. JobsOK' /\ StepsOK'
  BY <1>3, <1>5, <1>6, <1>7, RewriteOK
<1>9. QuestionsOK' /\ RestOK'
  BY DEF Land, IInv, QuestionsOK, RestOK, catalog, outside, daemon
<1>10. WalkOK'
  <2>1. j \notin walk /\ mode # "down"
    BY <1>1 DEF IInv, WalkOK
  <2> QED
    BY <1>6, <1>7, <2>1, WalkKeeps DEF Land, daemon, IInv, JobsOK, StepsOK, RestOK,
                                       WalkOK
<1> QED
  BY <1>8, <1>9, <1>10 DEF IInv

\* A step whose row is gone ends without a trace.
LEMMA StepGoneKeeps ==
    ASSUME IInv, NEW j \in Jobs, StepGone(j)
    PROVE  IInv'
<1>1. JobsOK' /\ QuestionsOK' /\ RestOK'
  BY DEF StepGone, IInv, JobsOK, QuestionsOK, RestOK, catalog, outside, daemon
<1>2. StepsOK'
  BY NoMoveType DEF StepGone, IInv, StepsOK, LandingsOK
<1>3. WalkOK'
  BY DEF StepGone, daemon, IInv, StepsOK, RestOK, WalkOK
<1> QED
  BY <1>1, <1>2, <1>3 DEF IInv

\* Everything in flight is forgotten.
LEMMA NoStepsOK ==
    ASSUME IInv, no_steps, UNCHANGED jobs
    PROVE  JobsOK' /\ StepsOK'
<1>1. StepsOK'
  BY NoMoveType DEF no_steps, StepsOK, LandingsOK
<1> QED
  BY <1>1 DEF IInv, JobsOK

-----------------------------------------------------------------------------
(* The loop.                                                                *)

\* Marking questions expired touches nothing but them.
LEMMA SweepExpireKeeps ==
    ASSUME IInv, SweepExpire
    PROVE  IInv'
<1>1. JobsOK' /\ StepsOK'
  BY DEF SweepExpire, IInv, JobsOK, StepsOK, LandingsOK, step
<1>2. PICK E \in SUBSET {q \in Questions : is_open(q)} :
          /\ questions' = [q \in Questions |-> IF q \in E
                 THEN [questions[q] EXCEPT !.answer = "expired"]
                 ELSE questions[q]]
          /\ expired' = E
          /\ mode' = IF E = {} THEN "tick" ELSE "sweep"
  BY DEF SweepExpire
<1>3. QuestionsOK'
  BY <1>2 DEF IInv, QuestionsOK, QuestionRow
<1>4. RestOK'
  BY <1>2 DEF SweepExpire, IInv, RestOK, catalog, outside
<1>5. WalkOK'
  BY <1>2 DEF SweepExpire, step, IInv, WalkOK
<1> QED
  BY <1>1, <1>3, <1>4, <1>5 DEF IInv

\* A move that a step did not make: of a row that waits, blocks or is being
\* reconciled, to a state other than `blocked`.
LEMMA MoveOK ==
    ASSUME NEW row, RowOK(row), NEW to \in JobState, to # "blocked",
           NEW reason \in Reason, NEW opts \in MoveOptions,
           opts.blocked_from = "none", ~opts.count_attempt,
           to = "monitor" => row.torrent # NoTorrent /\ ~opts.clear_torrent,
           \/ opts.reset_attempts
           \/ row.attempts < budget
           \/ to \in {"failed", "done"}
    PROVE  RowOK(transition(row, to, reason, opts))
<1> DEFINE new == transition(row, to, reason, opts)
<1>1. new \in Row
  BY TransitionType DEF RowOK
<1>2. /\ new.state = to
      /\ new.attempts = IF opts.reset_attempts THEN 0 ELSE row.attempts
      /\ new.torrent = IF opts.clear_torrent THEN NoTorrent ELSE row.torrent
      /\ new.blocked_from = "none"
  BY DEF RowOK, Row, transition
<1>3. blocked_ok(new)
  BY <1>2 DEF blocked_ok
<1>4. step_of(new) = "monitor" => new.torrent # NoTorrent
  BY <1>2 DEF step_of
<1>5. row.attempts \in Nat /\ row.attempts <= budget /\ opts.reset_attempts \in BOOLEAN
  BY DEF RowOK, Row, MoveOptions
<1>6. new.attempts <= budget /\ (new.state \notin {"failed", "done"} =>
                                    new.attempts < budget)
  BY <1>2, <1>5, BudgetType
<1> QED
  BY <1>1, <1>3, <1>4, <1>6 DEF RowOK

\* A closed question is a question.
LEMMA ClosedType ==
    ASSUME NEW row \in QuestionRow
    PROVE  closed(row) \in QuestionRow
BY DEF closed, NoQuestion, QuestionRow, QuestionKind

\* No step is in flight on a row that waits.
LEMMA WaitingIsIdle ==
    ASSUME IInv, NEW j \in Jobs, jobs[j].state \in {"needs_input", "failed", "blocked"}
    PROVE  pc[j] = "idle" /\ j \notin walk
BY DEF IInv, StepsOK, LandingsOK, WalkOK, exists, is_active, JobState, ActiveState

\* A row that waits is rewritten by somebody other than a step.
LEMMA OutsiderOK ==
    ASSUME IInv, NEW j \in Jobs, NEW row, RowOK(row), row.state # "unborn",
           jobs[j].state \in {"needs_input", "failed", "blocked"},
           jobs' = [jobs EXCEPT ![j] = row], UNCHANGED step, UNCHANGED walk,
           mode' # "reconcile" => walk = {}, mode' = "down" => mode = "down"
    PROVE  JobsOK' /\ StepsOK' /\ WalkOK'
<1>1. pc[j] = "idle" /\ j \notin walk
  BY WaitingIsIdle
<1>2. JobsOK' /\ StepsOK'
  BY <1>1, RewriteOK
<1>3. WalkOK'
  BY <1>1, WalkKeeps DEF step, IInv, JobsOK, RestOK, WalkOK
<1> QED
  BY <1>2, <1>3

\* An expired question releases its job and its episode.
LEMMA SweepReleaseKeeps ==
    ASSUME IInv, NEW q \in Questions, SweepRelease(q)
    PROVE  IInv'
<1> DEFINE j == questions[q].job
           opts == [default EXCEPT !.reset_attempts = TRUE]
           row == transition(jobs[j], "failed", "other", opts)
<1>1. QuestionsOK'
  BY ClosedType DEF SweepRelease, IInv, QuestionsOK
<1>2. RestOK'
  <2>1. episodes' \in [Episodes -> {"missing", "downloading", "done"}]
    BY DEF SweepRelease, IInv, RestOK
  <2>2. mode' \in {"tick", "sweep"} /\ expired' \subseteq Questions
    BY DEF SweepRelease, IInv, RestOK
  <2> QED
    BY <2>1, <2>2 DEF SweepRelease, IInv, RestOK, catalog, outside
<1>3. /\ UNCHANGED step /\ UNCHANGED walk /\ walk = {}
      /\ mode' \notin {"reconcile", "down"}
  BY DEF SweepRelease, IInv, WalkOK
<1>4. CASE jobs' = [jobs EXCEPT ![j] = row] /\ j \in Jobs
           /\ jobs[j].state = "needs_input"
  <2>1. opts \in MoveOptions /\ opts.blocked_from = "none"
        /\ ~opts.count_attempt /\ opts.reset_attempts
    BY DEF default, MoveOptions, ActiveState
  <2>2. "failed" \in JobState /\ "other" \in Reason /\ RowOK(jobs[j])
    BY <1>4 DEF JobState, Reason, IInv, JobsOK
  <2>3. RowOK(row)
    BY <2>1, <2>2, MoveOK
  <2>4. row.state = "failed"
    BY <2>2 DEF transition, RowOK, Row
  <2> HIDE DEF row
  <2>5. JobsOK' /\ StepsOK' /\ WalkOK'
    BY <1>3, <1>4, <2>3, <2>4, OutsiderOK
  <2> QED
    BY <1>1, <1>2, <2>5 DEF IInv
<1>5. CASE UNCHANGED jobs
  <2>1. JobsOK' /\ StepsOK'
    BY <1>3, <1>5 DEF IInv, JobsOK, StepsOK, LandingsOK, step
  <2>2. WalkOK'
    BY <1>3 DEF WalkOK
  <2> QED
    BY <1>1, <1>2, <2>1, <2>2 DEF IInv
<1>6. j \notin Jobs => [jobs EXCEPT ![j] = row] = jobs
  BY DEF IInv, JobsOK
<1> QED
  BY <1>4, <1>5, <1>6 DEF SweepRelease

\* A blocked row that resumes is back in its step; any other is as it was.
LEMMA ResumeOK ==
    ASSUME NEW row, RowOK(row)
    PROVE  /\ RowOK(resume_blocked(row))
           /\ row.state # "blocked" => resume_blocked(row) = row
           /\ resume_blocked(row).state = "unborn" => row.state = "unborn"
<1>1. CASE row.state = "blocked" /\ row.blocked_from # "none" /\ cleared(row)
  <2> DEFINE to == row.blocked_from
  <2>1. to \in ActiveState /\ row.attempts < budget
    BY <1>1 DEF RowOK, Row
  <2>2. to = "monitor" => row.torrent # NoTorrent
    BY <1>1 DEF RowOK, step_of
  <2>3. default.blocked_from = "none" /\ ~default.count_attempt
        /\ ~default.clear_torrent /\ "none" \in Reason
    BY DEF default, Reason
  <2>4. to \in JobState /\ to # "blocked"
    BY <2>1 DEF JobState, ActiveState
  <2>5. RowOK(transition(row, to, "none", default))
    BY <2>1, <2>2, <2>3, <2>4, DefaultType, MoveOK
  <2>6. transition(row, to, "none", default).state = to
    BY DEF transition, RowOK, Row
  <2> QED
    BY <1>1, <2>1, <2>5, <2>6 DEF resume_blocked, ActiveState
<1>2. CASE ~ (row.state = "blocked" /\ row.blocked_from # "none" /\ cleared(row))
  BY <1>2 DEF resume_blocked
<1> QED
  BY <1>1, <1>2

\* Only active rows are due.
LEMMA DueIsActive ==
    ASSUME NEW table, NEW j \in due_jobs(table)
    PROVE  is_active(table[j])
BY DEF due_jobs, First, is_due

\* A tick resumes blocked rows and dispatches due ones.
LEMMA TickKeeps ==
    ASSUME IInv, Tick
    PROVE  IInv'
<1> DEFINE resumed == [j \in Jobs |-> resume_blocked(jobs[j])]
<1>1. QuestionsOK' /\ RestOK'
  BY DEF Tick, IInv, QuestionsOK, RestOK, catalog, outside
<1>2. WalkOK'
  BY DEF Tick, IInv, WalkOK
<1>3. CASE UNCHANGED <<jobs, pc>>
  <2>1. JobsOK' /\ StepsOK'
    BY <1>3 DEF Tick, IInv, JobsOK, StepsOK, LandingsOK
  <2> QED
    BY <1>1, <1>2, <2>1 DEF IInv
<1>4. CASE /\ jobs' = resumed
           /\ pc' = [j \in Jobs |-> IF j \in due_jobs(resumed) THEN "run"
                                    ELSE pc[j]]
  <2>1. \A j \in Jobs : RowOK(jobs[j])
    BY DEF IInv, JobsOK
  <2>2. ASSUME NEW j \in Jobs
        PROVE  /\ RowOK(jobs'[j])
               /\ jobs[j].state # "blocked" => jobs'[j] = jobs[j]
               /\ jobs'[j].state = "unborn" => jobs[j].state = "unborn"
    BY <1>4, <2>1, ResumeOK
  <2>3. JobsOK'
    BY <1>4, <2>2 DEF JobsOK, RowOK
  <2>4. pc' \in [Jobs -> {"idle", "run", "land"}] /\ pend' \in [Jobs -> Move]
    BY <1>4 DEF Tick, IInv, StepsOK
  <2>5. ASSUME NEW j \in Jobs
        PROVE  /\ pc'[j] # "idle" /\ exists(jobs'[j]) => is_active(jobs'[j])
               /\ pc'[j] = "land" /\ exists(jobs'[j]) => LandOK(jobs'[j], pend'[j])
               /\ jobs'[j].state = "unborn" => pc'[j] = "idle"
    <3>1. CASE j \in due_jobs(resumed)
      <4>1. is_active(jobs'[j]) /\ pc'[j] = "run"
        BY <1>4, <3>1, DueIsActive
      <4> QED
        BY <4>1 DEF is_active, ActiveState
    <3>2. CASE j \notin due_jobs(resumed)
      <4>1. pc'[j] = pc[j] /\ pend'[j] = pend[j]
        BY <1>4, <3>2 DEF Tick
      <4>2. CASE jobs[j].state = "blocked"
        <5>1. pc[j] = "idle"
          BY <4>2, WaitingIsIdle
        <5> QED
          BY <4>1, <5>1
      <4>3. CASE jobs[j].state # "blocked"
        BY <2>2, <4>1, <4>3 DEF IInv, StepsOK, LandingsOK
      <4> QED
        BY <4>2, <4>3
    <3> QED
      BY <3>1, <3>2
  <2>6. StepsOK'
    BY <2>4, <2>5 DEF StepsOK, LandingsOK
  <2> QED
    BY <1>1, <1>2, <2>3, <2>6 DEF IInv
<1> QED
  BY <1>3, <1>4 DEF Tick

\* An action that leaves the tables and the steps alone.
LEMMA QuietOK ==
    ASSUME IInv, UNCHANGED <<jobs, questions, pc, pend>>
    PROVE  JobsOK' /\ QuestionsOK' /\ StepsOK'
BY DEF IInv, JobsOK, QuestionsOK, StepsOK, LandingsOK

\* The end of a round and of a launch touch only the loop.
LEMMA SettledKeeps ==
    ASSUME IInv, Settled \/ Reconciled
    PROVE  IInv'
<1>1. JobsOK' /\ QuestionsOK' /\ StepsOK'
  BY QuietOK DEF Settled, Reconciled, step
<1>2. RestOK' /\ WalkOK'
  BY DEF Settled, Reconciled, IInv, RestOK, WalkOK, catalog, outside
<1> QED
  BY <1>1, <1>2 DEF IInv

-----------------------------------------------------------------------------
(* Kill, launch, reconcile.                                                 *)

\* A kill and an aborted launch forget what was in flight, and nothing else.
LEMMA CrashKeeps ==
    ASSUME IInv, Crash \/ ReconcileAborts
    PROVE  IInv'
<1>1. JobsOK' /\ StepsOK'
  BY NoStepsOK DEF Crash, ReconcileAborts
<1>2. QuestionsOK' /\ RestOK' /\ WalkOK'
  <2>1. crashes' \in 0 .. MaxCrashes
    BY PipelineAssumption DEF Crash, ReconcileAborts, IInv, RestOK
  <2>2. mode' = "down" /\ walk' = {} /\ expired' \subseteq Questions
    BY DEF Crash, ReconcileAborts, IInv, RestOK
  <2> QED
    BY <2>1, <2>2 DEF Crash, ReconcileAborts, IInv, QuestionsOK, RestOK, WalkOK,
                      catalog, outside, no_steps
<1> QED
  BY <1>1, <1>2 DEF IInv

\* A launch lists the jobs to visit.
LEMMA StartKeeps ==
    ASSUME IInv, Start
    PROVE  IInv'
<1>1. JobsOK' /\ QuestionsOK' /\ StepsOK'
  BY QuietOK DEF Start, step
<1>2. RestOK' /\ WalkOK'
  BY DEF Start, step, IInv, RestOK, WalkOK, catalog, outside
<1> QED
  BY <1>1, <1>2 DEF IInv

\* Where reconcile moves a job it finds in one of the three steps.
LEMMA ResumeAtOK ==
    ASSUME NEW row, row.state \in {"add", "monitor", "finalize"},
           resume_at(row) # "step"
    PROVE  /\ resume_at(row) \in ActiveState
           /\ resume_at(row) = "monitor" => row.torrent # NoTorrent
BY DEF resume_at, ActiveState

\* A visit moves the job, leaves it, or runs its step again.
LEMMA ReconcileJobKeeps ==
    ASSUME IInv, NEW j \in Jobs, ReconcileJob(j)
    PROVE  IInv'
<1> DEFINE to == resume_at(jobs[j])
           row == transition(jobs[j], to, "none", default)
<1>1. /\ j \in walk /\ pc[j] = "idle" /\ RowOK(jobs[j])
      /\ jobs[j].state \in {"add", "monitor", "finalize"}
  BY DEF ReconcileJob, visiting, exists, JobState, ActiveState, IInv, JobsOK, WalkOK
<1>2. QuestionsOK' /\ RestOK'
  <2>1. walk' \subseteq Jobs /\ mode' \in {"sweep", "reconcile"}
    BY DEF ReconcileJob, visited, IInv, RestOK
  <2> QED
    BY <2>1 DEF ReconcileJob, IInv, QuestionsOK, RestOK, catalog, outside
<1>3. /\ walk' = walk \ {j} /\ mode' # "down"
      /\ mode' # "reconcile" => walk' = {}
  BY DEF ReconcileJob, visited
<1>4. CASE /\ to # "step" /\ UNCHANGED step
           /\ jobs' = [jobs EXCEPT ![j] = row]
  <2>1. to \in ActiveState /\ (to = "monitor" => jobs[j].torrent # NoTorrent)
    BY <1>1, <1>4, ResumeAtOK
  <2>2. default.blocked_from = "none" /\ ~default.count_attempt
        /\ ~default.clear_torrent /\ "none" \in Reason
    BY DEF default, Reason
  <2>3. to \in JobState /\ to # "blocked" /\ jobs[j].attempts < budget
    BY <1>1, <2>1 DEF JobState, ActiveState, RowOK
  <2>4. RowOK(row)
    BY <1>1, <2>1, <2>2, <2>3, DefaultType, MoveOK
  <2>5. row.state = to /\ to # "unborn"
    BY <1>1, <2>1 DEF transition, RowOK, Row, ActiveState
  <2> HIDE DEF row, to
  <2>6. JobsOK' /\ StepsOK'
    BY <1>1, <1>4, <2>4, <2>5, RewriteOK
  <2>7. WalkOK'
    BY <1>3, <1>4, WalkKeeps DEF step, IInv, JobsOK, RestOK
  <2> QED
    BY <1>2, <2>6, <2>7 DEF IInv
<1>5. CASE UNCHANGED <<jobs, step>>
  <2>1. JobsOK' /\ StepsOK'
    BY <1>5, RewriteOK DEF step, IInv, JobsOK, StepsOK, LandingsOK
  <2>2. WalkOK'
    BY <1>3, <1>5, WalkKeeps DEF step
  <2> QED
    BY <1>2, <2>1, <2>2 DEF IInv
<1>6. CASE pc' = [pc EXCEPT ![j] = "run"] /\ UNCHANGED <<jobs, pend>>
  <2>1. JobsOK'
    BY <1>6 DEF IInv, JobsOK
  <2>2. StepsOK'
    BY <1>1, <1>6 DEF IInv, StepsOK, LandingsOK, is_active, ActiveState
  <2>3. WalkOK'
    BY <1>3, <1>6, WalkKeeps DEF IInv, StepsOK, RestOK
  <2> QED
    BY <1>2, <2>1, <2>2, <2>3 DEF IInv
<1> QED
  BY <1>4, <1>5, <1>6 DEF ReconcileJob

-----------------------------------------------------------------------------
(* Users and the environment.                                               *)

\* Rows without a step in flight are rewritten.
LEMMA OutsidersOK ==
    ASSUME IInv, jobs' \in [Jobs -> Row], UNCHANGED <<pc, pend, mode, walk>>,
           \A k \in Jobs :
               /\ RowOK(jobs'[k])
               /\ \/ jobs'[k] = jobs[k]
                  \/ /\ pc[k] = "idle"
                     /\ k \notin walk \/ jobs'[k].state = jobs[k].state
    PROVE  JobsOK' /\ StepsOK' /\ WalkOK'
<1>1. JobsOK'
  BY DEF JobsOK
<1>2. StepsOK'
  BY DEF IInv, StepsOK, LandingsOK
<1>3. WalkOK'
  BY WalkKeeps DEF IInv, WalkOK, RestOK
<1> QED
  BY <1>1, <1>2, <1>3

\* The states an answer may send a job to.
LEMMA NextOfRange ==
    ASSUME NEW choice, NEW state
    PROVE  next_of(choice, state) \in {"add", "failed", "search", "done",
                                       "finalize", "needs_input", "stay"}
<1>1. CASE choice \in {"use_this", "download", "batch"}
  BY <1>1 DEF next_of
<1>2. CASE choice \in {"none_of_these", "skip_episode"}
  BY <1>2 DEF next_of
<1>3. CASE choice \in {"search_again", "wrong_release", "alias", "wait",
                       "pick_another", "wait_for_singles", "retry_later"}
  BY <1>3 DEF next_of
<1>4. CASE choice \in {"keep", "replace", "keep_both", "pause"}
  BY <1>4 DEF next_of
<1>5. CASE choice \notin {"use_this", "download", "batch", "none_of_these",
                          "skip_episode", "search_again", "wrong_release",
                          "alias", "wait", "pick_another", "wait_for_singles",
                          "retry_later", "keep", "replace", "keep_both", "pause"}
  BY <1>5 DEF next_of
<1> QED
  BY <1>1, <1>2, <1>3, <1>4, <1>5

\* An answer moves the row that waits to a state where its promises hold: a
\* job out of attempts comes back to work only by a search with a fresh budget.
LEMMA MoveAnsweredOK ==
    ASSUME NEW row, RowOK(row), NEW state \in {"needs_input", "failed"},
           state = "needs_input" => row.attempts < budget, NEW choice
    PROVE  RowOK(move_answered(row, state, choice))
<1> DEFINE next == next_of(choice, state)
           reset == (next = "search")
           clear == choice \in {"pick_another", "none_of_these"}
           opts == [default EXCEPT !.reset_attempts = reset, !.clear_torrent = clear]
<1>1. CASE ~ (next # "stay" /\ (next = state \/ is_allowed(state, next)))
  BY <1>1 DEF move_answered
<1>2. CASE next # "stay" /\ (next = state \/ is_allowed(state, next))
  <2>1. next \in {"add", "failed", "search", "done", "finalize", "needs_input"}
    BY <1>2, NextOfRange
  <2>2. next \in JobState /\ next \notin {"blocked", "monitor"} /\ "other" \in Reason
    BY <2>1 DEF JobState, ActiveState, Reason
  <2>3. opts \in MoveOptions /\ opts.blocked_from = "none" /\ ~opts.count_attempt
        /\ opts.reset_attempts = reset
    <3>1. reset \in BOOLEAN /\ clear \in BOOLEAN
      BY SMT
    <3> HIDE DEF reset, clear
    <3> QED
      BY <3>1 DEF default, MoveOptions, ActiveState
  <2>4. state = "failed" => next \in {"failed", "search", "done"}
    <3>1. CASE next = state
      BY <3>1
    <3>2. CASE is_allowed(state, next)
      BY <2>1, <3>2 DEF is_allowed, TRANSITIONS, ActiveState
    <3> QED
      BY <1>2, <3>1, <3>2
  <2>5. opts.reset_attempts \/ row.attempts < budget \/ next \in {"failed", "done"}
    BY <2>3, <2>4
  <2>6. move_answered(row, state, choice) = transition(row, next, "other", opts)
    BY <1>2 DEF move_answered
  <2> HIDE DEF next, reset, clear, opts
  <2> QED
    BY <2>2, <2>3, <2>5, <2>6, MoveOK
<1> QED
  BY <1>1, <1>2

\* What an answer writes before the move.
LEMMA BeforeMoveOK ==
    ASSUME NEW row, RowOK(row), NEW choice, NEW t,
           choice = "use_this" => t \in Torrents
    PROVE  /\ RowOK(before_move(row, choice, t))
           /\ before_move(row, choice, t).state = row.state
           /\ before_move(row, choice, t).attempts = row.attempts
<1>1. /\ set_chosen(row, t).state = row.state
      /\ set_chosen(row, t).attempts = row.attempts
  BY DEF set_chosen, RowOK, Row
<1>2. /\ reschedule(row, "day", "other").state = row.state
      /\ reschedule(row, "day", "other").attempts = row.attempts
  BY DEF reschedule, RowOK, Row
<1>3. CASE choice = "use_this"
  BY <1>1, <1>3, SetChosenOK DEF before_move
<1>4. CASE choice = "wait"
  BY <1>2, <1>4, RescheduleOK DEF before_move, Reason
<1>5. CASE choice \notin {"use_this", "wait"}
  BY <1>5 DEF before_move
<1> QED
  BY <1>3, <1>4, <1>5

\* What auto_resolve writes to one row.
LEMMA AutoResolvedOK ==
    ASSUME NEW row, RowOK(row), row.state = "needs_input", NEW t \in Torrents
    PROVE  RowOK([row EXCEPT !.torrent = t, !.state = "add", !.last_error = "none"])
BY DEF RowOK, Row, blocked_ok, step_of, JobState, ActiveState, Reason

\* An answer rewrites its own job and those auto_resolve finds, and all of
\* them waited.
LEMMA AnswerRows ==
    ASSUME IInv, NEW q \in Questions, NEW choice, NEW t, NEW always,
           Answer(q, choice, t, always)
    PROVE  /\ jobs' \in [Jobs -> Row]
           /\ \A k \in Jobs :
                 /\ RowOK(jobs'[k])
                 /\ \/ jobs'[k] = jobs[k]
                    \/ jobs[k].state \in {"needs_input", "failed"}
<1> DEFINE j == questions[q].job
           applies == waits(jobs[j])
           R == IF applies /\ always
                THEN {p \in Questions \ {q} : resolvable(p, t)} ELSE {}
           set == [jobs EXCEPT ![j] = before_move(@, choice, t)]
<1>1. PICK pick \in [R -> Torrents] :
         jobs' = IF applies
                 THEN [auto_resolve(set, R, pick) EXCEPT
                          ![j] = move_answered(@, jobs[j].state, choice)]
                 ELSE jobs
  BY DEF Answer
<1>2. choice = "use_this" => t \in Torrents
  BY DEF Answer, IInv, QuestionsOK, QuestionRow
<1>3. \A k \in Jobs : RowOK(jobs[k])
  BY DEF IInv, JobsOK
<1>4. CASE ~applies
  BY <1>1, <1>3, <1>4 DEF IInv, JobsOK
<1>5. CASE applies
  <2> DEFINE table == auto_resolve(set, R, pick)
  <2>1. jobs' = [table EXCEPT ![j] = move_answered(@, jobs[j].state, choice)]
    BY <1>1, <1>5
  <2>2. ASSUME NEW k \in Jobs
        PROVE  /\ RowOK(set[k]) /\ set[k].state = jobs[k].state
               /\ set[k].attempts = jobs[k].attempts
               /\ k # j => set[k] = jobs[k]
    <3>1. CASE k = j
      BY <1>2, <1>3, <3>1, BeforeMoveOK DEF IInv, JobsOK
    <3>2. CASE k # j
      BY <1>3, <3>2 DEF IInv, JobsOK
    <3> QED
      BY <3>1, <3>2
  <2> HIDE DEF set, R, j
  <2>3. ASSUME NEW k \in Jobs
        PROVE  /\ RowOK(table[k]) /\ table[k].attempts = jobs[k].attempts
               /\ table[k] = set[k] \/ jobs[k].state = "needs_input"
    <3>1. CASE \E p \in R : questions[p].job = k /\ set[k].state = "needs_input"
      <4> DEFINE p == CHOOSE p \in R : questions[p].job = k
      <4>1. p \in R
        BY <3>1
      <4>2. pick[p] \in Torrents
        BY <4>1
      <4> HIDE DEF p
      <4>3. table[k] = [set[k] EXCEPT !.torrent = pick[p], !.state = "add",
                                      !.last_error = "none"]
        BY <3>1 DEF auto_resolve, p
      <4>4. RowOK(table[k])
        <5> DEFINE row == set[k]
                   u == pick[p]
        <5>1. RowOK(row) /\ row.state = "needs_input" /\ u \in Torrents
          BY <2>2, <3>1, <4>2
        <5> HIDE DEF row, u
        <5>2. RowOK([row EXCEPT !.torrent = u, !.state = "add", !.last_error = "none"])
          BY <5>1, AutoResolvedOK
        <5> QED
          BY <4>3, <5>2 DEF row, u
      <4>5. table[k].attempts = jobs[k].attempts
        BY <2>2, <4>3 DEF RowOK, Row
      <4> QED
        BY <2>2, <3>1, <4>4, <4>5
    <3>2. CASE ~ \E p \in R : questions[p].job = k /\ set[k].state = "needs_input"
      BY <2>2, <3>2 DEF auto_resolve
    <3> QED
      BY <3>1, <3>2
  <2>4. table = [k \in Jobs |-> table[k]]
    BY DEF auto_resolve
  <2> HIDE DEF table
  <2>5. ASSUME NEW k \in Jobs
        PROVE  /\ RowOK(jobs'[k])
               /\ \/ jobs'[k] = jobs[k]
                  \/ jobs[k].state \in {"needs_input", "failed"}
    <3>1. CASE k = j
      <4>1. jobs[k].state \in {"needs_input", "failed"}
        BY <1>5, <3>1 DEF waits
      <4>2. jobs'[k] = move_answered(table[k], jobs[k].state, choice)
        BY <2>1, <2>4, <3>1
      <4>3. jobs[k].state = "needs_input" => table[k].attempts < budget
        BY <1>3, <2>3 DEF RowOK
      <4> QED
        BY <2>3, <4>1, <4>2, <4>3, MoveAnsweredOK
    <3>2. CASE k # j
      <4>1. jobs'[k] = table[k]
        BY <2>1, <2>4, <3>2
      <4> QED
        BY <2>2, <2>3, <3>2, <4>1
    <3> QED
      BY <3>1, <3>2
  <2>6. jobs' = [k \in Jobs |-> jobs'[k]]
    BY <2>1, <2>4
  <2>7. jobs' \in [Jobs -> Row]
    BY <2>5, <2>6 DEF RowOK
  <2> QED
    BY <2>5, <2>7
<1> QED
  BY <1>4, <1>5

\* "Use this" is one of the Inbox's choices.
LEMMA UseThisIsChoice == "use_this" \in Choice
<1>1. <<"match_review", "use_this">> \in Offered
  BY DEF Offered
<1>2. <<"match_review", "use_this">>[2] = "use_this"
  OBVIOUS
<1> QED
  BY <1>1, <1>2 DEF Choice

\* An answer keeps the invariant.
LEMMA AnswerKeeps ==
    ASSUME IInv, NEW q \in Questions, NEW choice \in Choice,
           NEW t \in Torrents \cup {NoTorrent}, NEW always \in BOOLEAN,
           Answer(q, choice, t, always)
    PROVE  IInv'
<1>1. UNCHANGED <<pc, pend, mode, walk>>
  BY DEF Answer, daemon, step
<1>2. JobsOK' /\ StepsOK' /\ WalkOK'
  <2>1. /\ jobs' \in [Jobs -> Row]
        /\ \A k \in Jobs : /\ RowOK(jobs'[k])
                            /\ \/ jobs'[k] = jobs[k]
                               \/ jobs[k].state \in {"needs_input", "failed"}
    BY AnswerRows
  <2>2. \A k \in Jobs : jobs[k].state \in {"needs_input", "failed"} =>
                            pc[k] = "idle" /\ k \notin walk
    BY WaitingIsIdle
  <2> QED
    BY <1>1, <2>1, <2>2, OutsidersOK
<1>3. QuestionsOK'
  <2> DEFINE applies == waits(jobs[questions[q].job])
             R == IF applies /\ always
                  THEN {p \in Questions \ {q} : resolvable(p, t)} ELSE {}
  <2>1. PICK pick \in [R -> Torrents] :
           questions' = [p \in Questions |->
               CASE p = q -> closed([questions[q] EXCEPT !.answer = choice,
                                                          !.pick = t])
                 [] p \in R -> closed([questions[p] EXCEPT !.answer = "use_this",
                                                           !.pick = pick[p]])
                 [] OTHER -> questions[p]]
    BY DEF Answer
  <2>0. q \notin R
    OBVIOUS
  <2> HIDE DEF R
  <2>2. ASSUME NEW p \in Questions
        PROVE  questions'[p] \in QuestionRow
    <3>1. questions[p] \in QuestionRow
      BY DEF IInv, QuestionsOK
    <3>2. CASE p = q
      <4> DEFINE row == [questions[q] EXCEPT !.answer = choice, !.pick = t]
      <4>1. row \in QuestionRow
        BY <3>1, <3>2 DEF QuestionRow
      <4>2. questions'[q] = closed(row)
        BY <2>1, <2>0
      <4> HIDE DEF row
      <4> QED
        BY <3>2, <4>1, <4>2, ClosedType
    <3>3. CASE p # q /\ p \in R
      <4>1. [questions[p] EXCEPT !.answer = "use_this", !.pick = pick[p]] \in QuestionRow
        <5>1. "use_this" \in Choice
          BY UseThisIsChoice
        <5>2. pick[p] \in Torrents
          BY <3>3
        <5> QED
          BY <3>1, <5>1, <5>2 DEF QuestionRow
      <4>2. questions'[p] = closed([questions[p] EXCEPT !.answer = "use_this",
                                                        !.pick = pick[p]])
        BY <2>1, <3>3
      <4> QED
        BY <4>1, <4>2, ClosedType
    <3>4. CASE p # q /\ p \notin R
      BY <2>1, <3>1, <3>4
    <3> QED
      BY <3>2, <3>3, <3>4
  <2> QED
    BY <2>1, <2>2 DEF QuestionsOK
<1>4. RestOK'
  <2>1. episodes' \in [Episodes -> {"missing", "downloading", "done"}]
    BY DEF Answer, IInv, RestOK
  <2>2. automation' \in BOOLEAN
    BY Zenon DEF Answer
  <2> QED
    BY <2>1, <2>2 DEF Answer, IInv, RestOK, catalog, daemon
<1> QED
  BY <1>2, <1>3, <1>4 DEF IInv

\* `genrl plan` inserts one row under an id not handed out yet.
LEMMA PlanKeeps ==
    ASSUME IInv, NEW e \in Episodes, PlanEpisode(e)
    PROVE  IInv'
<1>1. /\ jobs' \in [Jobs -> Row] /\ \A k \in Jobs : RowOK(jobs'[k])
      /\ \A k \in Jobs : \/ jobs'[k] = jobs[k]
                         \/ jobs[k].state = "unborn" /\ jobs'[k].state = "search"
  BY EnqueueOK DEF PlanEpisode
<1>2. UNCHANGED <<pc, pend, mode, walk>>
  BY DEF PlanEpisode, daemon, step
<1>3. \A k \in Jobs : jobs[k].state = "unborn" => pc[k] = "idle" /\ k \notin walk
  BY DEF IInv, StepsOK, LandingsOK, WalkOK
<1>4. JobsOK' /\ StepsOK' /\ WalkOK'
  BY <1>1, <1>2, <1>3, OutsidersOK
<1>5. QuestionsOK' /\ RestOK'
  BY DEF PlanEpisode, IInv, QuestionsOK, RestOK, catalog, outside, daemon
<1> QED
  BY <1>4, <1>5 DEF IInv

\* A wait that ends changes one column of an idle row.
LEMMA ElapseKeeps ==
    ASSUME IInv, NEW j \in Jobs, Elapse(j)
    PROVE  IInv'
<1> DEFINE row == [jobs[j] EXCEPT !.next_run_at = "null"]
<1>1. RowOK(jobs[j]) /\ pc[j] = "idle"
  BY DEF Elapse, IInv, JobsOK
<1>2. RowOK(row) /\ row.state = jobs[j].state
  BY <1>1 DEF RowOK, Row, blocked_ok, step_of
<1>3. jobs' = [jobs EXCEPT ![j] = row]
  BY DEF Elapse
<1> HIDE DEF row
<1>4. /\ jobs' \in [Jobs -> Row]
      /\ \A k \in Jobs : /\ RowOK(jobs'[k])
                          /\ \/ jobs'[k] = jobs[k]
                             \/ pc[k] = "idle" /\ jobs'[k].state = jobs[k].state
  BY <1>1, <1>2, <1>3 DEF IInv, JobsOK, RowOK
<1>5. UNCHANGED <<pc, pend, mode, walk>>
  BY DEF Elapse, daemon, step
<1>6. JobsOK' /\ StepsOK' /\ WalkOK'
  BY <1>4, <1>5, OutsidersOK
<1>7. QuestionsOK' /\ RestOK'
  BY DEF Elapse, IInv, QuestionsOK, RestOK, catalog, outside, daemon
<1> QED
  BY <1>6, <1>7 DEF IInv

\* qBittorrent, the services and the pause button write no table.
LEMMA OutsideKeeps ==
    ASSUME IInv,
           \/ SetAutomation
           \/ \E t \in Torrents : RemoveTorrent(t) \/ Complete(t)
           \/ \E s \in Service : ServiceFlips(s)
    PROVE  IInv'
<1>1. UNCHANGED <<jobs, questions, episodes, catalog, daemon, step>>
  BY DEF SetAutomation, RemoveTorrent, Complete, ServiceFlips
<1>2. JobsOK' /\ QuestionsOK' /\ StepsOK'
  BY <1>1, QuietOK DEF step
<1>3. WalkOK'
  BY <1>1 DEF IInv, WalkOK, daemon, step
<1>4. qbt' \in [Torrents -> {"absent", "downloading", "complete"}]
  BY DEF SetAutomation, RemoveTorrent, Complete, ServiceFlips, IInv, RestOK
<1>5. content' \subseteq Torrents /\ up' \subseteq Service
  BY DEF SetAutomation, RemoveTorrent, Complete, ServiceFlips, IInv, RestOK
<1>6. automation' \in BOOLEAN
  BY DEF SetAutomation, RemoveTorrent, Complete, ServiceFlips, IInv, RestOK
<1>7. RestOK'
  BY <1>1, <1>4, <1>5, <1>6 DEF IInv, RestOK, catalog, daemon
<1> QED
  BY <1>2, <1>3, <1>7 DEF IInv

-----------------------------------------------------------------------------
(* The theorems.                                                            *)

\* Every action keeps the invariant.
LEMMA NextOK == IInv /\ [Next]_vars => IInv'
<1> SUFFICES ASSUME IInv, [Next]_vars PROVE IInv'
  OBVIOUS
<1>1. CASE Daemon
  BY <1>1, WorkOK, LandKeeps, StepGoneKeeps, ReconcileJobKeeps, SweepReleaseKeeps,
     SweepExpireKeeps, TickKeeps, SettledKeeps, StartKeeps, CrashKeeps DEF Daemon
<1>2. CASE User
  BY <1>2, AnswerKeeps, PlanKeeps, OutsideKeeps DEF User
<1>3. CASE Environment
  BY <1>3, CrashKeeps, ElapseKeeps, OutsideKeeps DEF Environment
<1>4. CASE UNCHANGED vars
  <2>1. UNCHANGED <<jobs, questions, pc, pend>>
    BY <1>4 DEF vars
  <2>2. JobsOK' /\ QuestionsOK' /\ StepsOK'
    BY <2>1, QuietOK
  <2>3. RestOK' /\ WalkOK'
    BY <1>4 DEF vars, IInv, RestOK, WalkOK
  <2> QED
    BY <2>2, <2>3 DEF IInv
<1> QED
  BY <1>1, <1>2, <1>3, <1>4 DEF Next

\* The inductive invariant holds in every reachable state.
THEOREM Inductive == Spec => []IInv
BY InitOK, NextOK, PTL DEF Spec

\* Every table keeps its types through every operation of the queue.
THEOREM TypeCorrect == Spec => []TypeOK
<1>1. IInv => TypeOK
  BY IInvImplies
<1> QED
  BY <1>1, Inductive, PTL

\* A blocked row, and no other, remembers the step it returns to: block,
\* resume_blocked and every later transition agree on it.
THEOREM BlockedAlwaysReturns == Spec => []BlockedReturns
<1>1. IInv => BlockedReturns
  BY IInvImplies
<1> QED
  BY <1>1, Inductive, PTL

\* monitor_step never runs without a torrent to watch.
THEOREM MonitorAlwaysHasTorrent == Spec => []MonitorHasTorrent
<1>1. IInv => MonitorHasTorrent
  BY IInvImplies
<1> QED
  BY <1>1, Inductive, PTL

\* No job works on past its budget of failed candidates.
THEOREM BudgetOfRetries == Spec => []RetryBudget
<1>1. IInv => RetryBudget
  BY IInvImplies
<1> QED
  BY <1>1, Inductive, PTL

\* Nobody but a step in flight rewrites that step's row, unless a batch
\* deletes it: no answer, sweep, tick, plan, launch or other step.
LEMMA NextOwns ==
    ASSUME IInv, [Next]_vars, NEW j \in Jobs, pc[j] # "idle", jobs'[j] # jobs[j]
    PROVE  pc'[j] # pc[j] \/ jobs'[j] = deleted
<1>0. /\ exists(jobs[j]) => jobs[j].state \in ActiveState
      /\ jobs[j].state # "unborn"
  BY DEF IInv, StepsOK, LandingsOK, is_active
<1>1. jobs[j].state \notin {"needs_input", "failed", "blocked"}
  BY WaitingIsIdle
<1>2. ASSUME NEW k \in Jobs, Work(k)
      PROVE  pc'[j] # pc[j] \/ jobs'[j] = deleted
  <2>1. StepOK(k) /\ pc[k] = "run"
    BY <1>2, WorkOK DEF Work
  <2>2. CASE k = j
    BY <2>1, <2>2 DEF StepOK, IInv, StepsOK
  <2>3. CASE k # j
    BY <1>0, <2>1, <2>3 DEF StepOK
  <2> QED
    BY <2>2, <2>3
<1>3. ASSUME NEW k \in Jobs, Land(k)
      PROVE  pc'[j] # pc[j]
  BY <1>3 DEF Land, IInv, StepsOK, JobsOK
<1>4. ASSUME NEW q \in Questions, SweepRelease(q)
      PROVE  FALSE
  BY <1>1, <1>4 DEF SweepRelease, IInv, JobsOK
<1>5. ASSUME Tick
      PROVE  FALSE
  BY <1>1, <1>5 DEF Tick, resume_blocked, IInv, JobsOK
<1>6. ASSUME NEW k \in Jobs, ReconcileJob(k)
      PROVE  FALSE
  BY <1>6 DEF ReconcileJob, visiting
<1>7. ASSUME NEW q \in Questions, NEW choice, NEW t, NEW always,
             Answer(q, choice, t, always)
      PROVE  FALSE
  BY <1>1, <1>7, AnswerRows
<1>8. ASSUME NEW e \in Episodes, PlanEpisode(e)
      PROVE  FALSE
  <2>1. \A k \in Jobs : jobs'[k] = jobs[k] \/ jobs[k].state = "unborn"
    BY <1>8, EnqueueOK DEF PlanEpisode
  <2> QED
    BY <1>0, <2>1
<1>9. ASSUME NEW k \in Jobs, Elapse(k)
      PROVE  FALSE
  BY <1>9 DEF Elapse, IInv, JobsOK
<1>10. CASE Daemon
  BY <1>2, <1>3, <1>4, <1>5, <1>6, <1>10
     DEF Daemon, StepGone, SweepExpire, Settled, Start, Reconciled, ReconcileAborts
<1>11. CASE User
  BY <1>7, <1>8, <1>11 DEF User, SetAutomation, RemoveTorrent
<1>12. CASE Environment
  BY <1>9, <1>12 DEF Environment, Crash, Complete, ServiceFlips
<1>13. CASE UNCHANGED vars
  BY <1>13 DEF vars
<1> QED
  BY <1>10, <1>11, <1>12, <1>13 DEF Next

\* A step in flight owns its job's row, through every interleaving with the
\* Inbox, the sweep, planning and the other steps, kills and launches.
THEOREM StepAlwaysOwnsItsJob == Spec => StepOwnsItsJob
<1>1. IInv /\ [Next]_vars =>
        [\A j \in Jobs : pc[j] # "idle" /\ jobs'[j] # jobs[j]
                         => pc'[j] # pc[j] \/ jobs'[j] = deleted]_vars
  BY NextOwns
<1> QED
  BY <1>1, Inductive, PTL DEF Spec, StepOwnsItsJob

-----------------------------------------------------------------------------
(* The scheduler's limits.  A tick dispatches into an empty house: settle    *)
(* waits for the last round's steps and reconcile for its own, so the        *)
(* invariant to add is that the loop is idle wherever it may reach a tick.    *)

\* Outside a round and a launch no step is in flight.
LoopIdle == mode \in {"down", "sweep", "tick"} => \A j \in Jobs : pc[j] = "idle"

\* The rows of a kind that a step is working on.
InFlight(kind) == {j \in Jobs : /\ pc[j] # "idle" /\ exists(jobs[j])
                                /\ jobs[j].kind = kind}

\* The LIMIT of due_jobs: First takes at most n of any finite set of ids.
LEMMA FirstBounded ==
    ASSUME NEW S \in SUBSET Nat, IsFiniteSet(S), NEW n \in Nat
    PROVE  IsFiniteSet(First(S, n)) /\ Cardinality(First(S, n)) <= n
<1> DEFINE below(i) == {k \in S : k < i}
           F == First(S, n)
           place == [i \in F |-> Cardinality(below(i))]
<1>1. ASSUME NEW i \in S
      PROVE  IsFiniteSet(below(i)) /\ Cardinality(below(i)) \in Nat
  <2>1. below(i) \subseteq S
    OBVIOUS
  <2>2. IsFiniteSet(below(i))
    BY <2>1, FS_Subset
  <2> QED
    BY <2>2, FS_CardinalityType
<1>2. F = {i \in S : Cardinality(below(i)) < n}
  BY DEF First
<1>3. ASSUME NEW i \in S, NEW k \in S, i < k
      PROVE  Cardinality(below(i)) < Cardinality(below(k))
  <2>1. below(i) \subseteq below(k) /\ i \in below(k) /\ i \notin below(i)
    <3>1. i \in Nat /\ k \in Nat /\ \A x \in S : x \in Nat
      OBVIOUS
    <3>2. ASSUME NEW x \in S, x < i PROVE x < k
      BY <1>3, <3>1, <3>2
    <3>3. i < k /\ ~(i < i)
      BY <1>3, <3>1
    <3> QED
      BY <3>2, <3>3
  <2> HIDE DEF below
  <2>2. /\ Cardinality(below(i)) <= Cardinality(below(k))
        /\ Cardinality(below(k)) = Cardinality(below(i)) => below(k) = below(i)
    BY <2>1, <1>1, FS_Subset
  <2> QED
    BY <1>1, <2>1, <2>2
<1>4. IsFiniteSet(F)
  BY <1>2, FS_Subset
<1> HIDE DEF below, F
<1>5. place \in [F -> 0 .. n - 1]
  <2>1. \A i \in F : Cardinality(below(i)) \in 0 .. n - 1
    BY <1>1, <1>2
  <2> QED
    BY <2>1
<1>6. ASSUME NEW i \in F, NEW k \in F, place[i] = place[k]
      PROVE  i = k
  <2>1. i \in S /\ k \in S /\ i \in Nat /\ k \in Nat
    BY <1>2
  <2>2. ~ (i < k) /\ ~ (k < i)
    BY <2>1, <1>1, <1>3, <1>6
  <2> QED
    BY <2>1, <2>2
<1>7. IsFiniteSet(0 .. n - 1) /\ Cardinality(0 .. n - 1) = n
  BY FS_Interval
<1>8. place \in Injection(F, 0 .. n - 1)
  BY <1>5, <1>6 DEF Injection, IsInjective
<1>9. Cardinality(F) <= n
  BY <1>4, <1>7, <1>8, FS_Injection
<1> QED
  BY <1>4, <1>9 DEF F

\* Every limit lets at least one step through.
LEMMA LimitType == ASSUME NEW kind PROVE limit_for(kind) \in Nat /\ limit_for(kind) >= 1
BY PipelineAssumption DEF limit_for

\* Ids are finitely many numbers.
LEMMA JobsFinite == IsFiniteSet(Jobs) /\ Jobs \subseteq Nat
<1>1. MaxJobs \in Nat
  BY PipelineAssumption
<1>2. IsFiniteSet(1 .. MaxJobs)
  BY <1>1, FS_Interval
<1> QED
  BY <1>1, <1>2 DEF Jobs

\* A set of ids within a set that keeps a limit keeps it.
LEMMA SubsetBounded ==
    ASSUME NEW S, IsFiniteSet(S), NEW n \in Nat, Cardinality(S) <= n, NEW T \in SUBSET S
    PROVE  Cardinality(T) <= n
<1>1. IsFiniteSet(T) /\ Cardinality(T) <= Cardinality(S)
  BY FS_Subset
<1>2. Cardinality(T) \in Nat /\ Cardinality(S) \in Nat
  BY <1>1, FS_CardinalityType
<1> QED
  BY <1>1, <1>2

\* What a step's work does to the table: its own row keeps its state and the
\* budget it was dispatched from; a batch deletes rows that pay for a search,
\* and siblings come in as new searches.
LEMMA WorkRows ==
    ASSUME IInv, NEW j \in Jobs, Work(j)
    PROVE  /\ exists(jobs[j])
           /\ jobs'[j].kind = jobs[j].kind /\ jobs'[j].state = jobs[j].state
           /\ jobs'[j].episode = jobs[j].episode
           /\ \A k \in Jobs \ {j} :
                 \/ jobs'[k] = jobs[k]
                 \/ jobs[k].kind = "search" /\ jobs'[k] = deleted
                 \/ jobs[k].state = "unborn" /\ jobs'[k].state = "search"
<1> DEFINE Goal == /\ jobs'[j].kind = jobs[j].kind /\ jobs'[j].state = jobs[j].state
                   /\ jobs'[j].episode = jobs[j].episode
                   /\ \A k \in Jobs \ {j} :
                         \/ jobs'[k] = jobs[k]
                         \/ jobs[k].kind = "search" /\ jobs'[k] = deleted
                         \/ jobs[k].state = "unborn" /\ jobs'[k].state = "search"
           InPlace == \/ UNCHANGED jobs
                      \/ \E reason \in Reason : block(j, reason)
                      \/ fail_or_reschedule(j)
                      \/ next_candidate(j)
                      \/ Stay(j, reschedule(jobs[j], "soon", "other"))
                      \/ \E t \in candidate_rows :
                            \/ Stay(j, set_chosen(jobs[j], t))
                            \/ jobs' = [jobs EXCEPT ![j] = set_chosen(@, t)]
<1>1. jobs[j] \in Row /\ jobs \in [Jobs -> Row]
  BY DEF IInv, JobsOK
<1>2. exists(jobs[j])
  BY DEF Work, search_step, choose_step, add_step, monitor_step, finalize_step,
         exists, JobState, ActiveState
<1>3. ASSUME NEW row, row.kind = jobs[j].kind, row.state = jobs[j].state,
             row.episode = jobs[j].episode, jobs' = [jobs EXCEPT ![j] = row]
      PROVE  Goal
  BY <1>1, <1>3
<1>4. ASSUME NEW t
      PROVE  /\ reschedule(jobs[j], "soon", "other").kind = jobs[j].kind
             /\ reschedule(jobs[j], "soon", "other").state = jobs[j].state
             /\ reschedule(jobs[j], "soon", "other").episode = jobs[j].episode
             /\ set_chosen(jobs[j], t).episode = jobs[j].episode
             /\ set_chosen(jobs[j], t).kind = jobs[j].kind
             /\ set_chosen(jobs[j], t).state = jobs[j].state
  BY <1>1 DEF reschedule, set_chosen, Row
<1>5. ASSUME InPlace PROVE Goal
  <2>1. \/ UNCHANGED jobs
        \/ jobs' = [jobs EXCEPT ![j] = reschedule(jobs[j], "soon", "other")]
        \/ \E t : jobs' = [jobs EXCEPT ![j] = set_chosen(jobs[j], t)]
    BY <1>5 DEF block, fail_or_reschedule, next_candidate, Stay
  <2>2. CASE UNCHANGED jobs
    BY <2>2
  <2>3. CASE jobs' = [jobs EXCEPT ![j] = reschedule(jobs[j], "soon", "other")]
    BY <1>3, <1>4, <2>3
  <2>4. CASE \E t : jobs' = [jobs EXCEPT ![j] = set_chosen(jobs[j], t)]
    BY <1>3, <1>4, <2>4
  <2> HIDE DEF Goal
  <2> QED
    BY <2>1, <2>2, <2>3, <2>4
<1>6. ASSUME cover_with_batch(j) PROVE Goal
  BY <1>6 DEF cover_with_batch
<1>7. ASSUME enqueue_sibling_episodes_if_needed(j) PROVE Goal
  <2>1. siblings_without_search(j) \in SUBSET Episodes
    BY DEF siblings_without_search
  <2>2. \A k \in Jobs : \/ jobs'[k] = jobs[k]
                        \/ jobs[k].state = "unborn" /\ jobs'[k].state = "search"
    BY <1>7, <2>1, EnqueueOK DEF enqueue_sibling_episodes_if_needed
  <2>3. jobs'[j] = jobs[j]
    BY <1>2, <2>2 DEF exists, JobState, ActiveState
  <2> QED
    BY <2>2, <2>3
<1>8. InPlace \/ cover_with_batch(j) \/ enqueue_sibling_episodes_if_needed(j)
  <2>1. CASE search_step(j)
    BY <2>1 DEF search_step, Reason
  <2>2. CASE choose_step(j)
    BY <2>2 DEF choose_step
  <2>3. CASE add_step(j)
    BY <2>3, AddStepCases
  <2>4. CASE monitor_step(j)
    BY <2>4 DEF monitor_step, Reason
  <2>5. CASE finalize_step(j)
    BY <2>5, FinalizeStepCases
  <2> QED
    BY <2>1, <2>2, <2>3, <2>4, <2>5 DEF Work
<1> HIDE DEF InPlace
<1>9. Goal
  <2> HIDE DEF Goal
  <2> QED
    BY <1>5, <1>6, <1>7, <1>8
<1> QED
  BY <1>2, <1>9

\* Users start no step, end none and do not move the loop.
LEMMA UserKeepsStep == User => UNCHANGED <<pc, mode>>
<1>1. ASSUME NEW q \in Questions, NEW choice \in Choice,
             NEW t \in Torrents \cup {NoTorrent}, NEW always \in BOOLEAN,
             Answer(q, choice, t, always)
      PROVE  UNCHANGED <<pc, mode>>
  BY <1>1 DEF Answer, daemon, step
<1>2. ASSUME SetAutomation PROVE UNCHANGED <<pc, mode>>
  BY <1>2 DEF SetAutomation, daemon, step
<1>3. ASSUME NEW e \in Episodes, PlanEpisode(e) PROVE UNCHANGED <<pc, mode>>
  BY <1>3 DEF PlanEpisode, daemon, step
<1>4. ASSUME NEW t \in Torrents, RemoveTorrent(t) PROVE UNCHANGED <<pc, mode>>
  BY <1>4 DEF RemoveTorrent, daemon, step
<1> QED
  BY <1>1, <1>2, <1>3, <1>4 DEF User

\* But for a tick and a launch, nothing comes into flight, and what is in
\* flight stays in its budget.
LEMMA NothingTakesOff ==
    ASSUME IInv, [Next]_vars, ~Tick, \A k \in Jobs : ~ReconcileJob(k), NEW kind
    PROVE  InFlight(kind)' \subseteq InFlight(kind)
<1> SUFFICES ASSUME NEW j \in Jobs, pc'[j] # "idle", exists(jobs'[j]),
                    jobs'[j].kind = kind
             PROVE  pc[j] # "idle" /\ exists(jobs[j]) /\ jobs[j].kind = kind
  BY DEF InFlight
<1>1. CASE \E k \in Jobs : Work(k)
  <2>1. PICK k \in Jobs : Work(k)
    BY <1>1
  <2>2. StepOK(k) /\ pc[k] = "run" /\ exists(jobs[k]) /\ jobs'[k].kind = jobs[k].kind
    BY <2>1, WorkOK, WorkRows DEF Work
  <2>3. CASE k = j
    BY <2>2, <2>3
  <2>4. CASE k # j
    <3>1. pc'[j] = pc[j]
      BY <2>2, <2>4 DEF StepOK, IInv, StepsOK
    <3>2. jobs[j].state # "unborn"
      BY <3>1 DEF IInv, StepsOK, LandingsOK
    <3>3. jobs'[j] # deleted
      BY GoneOK DEF exists, JobState, ActiveState
    <3> QED
      BY <2>2, <2>4, <3>1, <3>2, <3>3 DEF StepOK
  <2> QED
    BY <2>3, <2>4
<1>2. CASE ~ \E k \in Jobs : Work(k)
  <2>1. pc'[j] = pc[j]
    <3>1. ASSUME NEW k \in Jobs, Land(k) \/ StepGone(k) PROVE pc'[j] = pc[j]
      BY <3>1 DEF Land, StepGone, IInv, StepsOK
    <3>2. ASSUME ReconcileAborts \/ Crash PROVE FALSE
      BY <3>2 DEF ReconcileAborts, Crash, no_steps
    <3>3. CASE Daemon
      BY <1>2, <3>1, <3>2, <3>3 DEF Daemon, SweepRelease, SweepExpire, Settled,
         Start, Reconciled, step
    <3>4. CASE User
      BY <3>4, UserKeepsStep
    <3>5. CASE Environment
      BY <3>2, <3>5 DEF Environment, Complete, ServiceFlips, Elapse, step
    <3> QED
      BY <3>3, <3>4, <3>5 DEF Next, vars
  <2>2. jobs'[j] = jobs[j] \/ jobs'[j] = deleted
    BY <2>1, NextOwns
  <2>3. jobs'[j] # deleted
    BY GoneOK DEF exists, JobState, ActiveState
  <2> QED
    BY <2>1, <2>2, <2>3
<1> QED
  BY <1>1, <1>2

\* What one tick dispatches of a kind is the head of that kind's due rows.
LEMMA TickBounded ==
    ASSUME IInv, LoopIdle, Tick, NEW kind \in JobKind
    PROVE  Cardinality(InFlight(kind)') <= limit_for(kind)
<1> DEFINE resumed == [j \in Jobs |-> resume_blocked(jobs[j])]
           due == {j \in Jobs : is_due(resumed[j], kind)}
<1>1. \A j \in Jobs : pc[j] = "idle"
  BY DEF Tick, LoopIdle
<1>2. InFlight(kind)' \subseteq First(due, limit_for(kind))
  <2> SUFFICES ASSUME NEW j \in Jobs, pc'[j] # "idle", jobs'[j].kind = kind
               PROVE  j \in First(due, limit_for(kind))
    BY DEF InFlight
  <2>1. jobs' = resumed /\ j \in due_jobs(resumed)
    BY <1>1 DEF Tick
  <2> HIDE DEF resumed
  <2>2. PICK k \in JobKind : j \in First({i \in Jobs : is_due(resumed[i], k)}, limit_for(k))
    BY <2>1 DEF due_jobs
  <2>3. resumed[j].kind = k
    BY <2>2 DEF First, is_due
  <2> QED
    BY <2>1, <2>2, <2>3
<1>3. due \in SUBSET Nat /\ IsFiniteSet(due)
  BY JobsFinite, FS_Subset
<1>4. /\ IsFiniteSet(First(due, limit_for(kind)))
      /\ Cardinality(First(due, limit_for(kind))) <= limit_for(kind)
  BY <1>3, LimitType, FirstBounded
<1> QED
  BY <1>2, <1>4, LimitType, SubsetBounded

\* A launch runs one step at a time.
LEMMA ReconcileBounded ==
    ASSUME IInv, NEW j \in Jobs, ReconcileJob(j), NEW kind
    PROVE  Cardinality(InFlight(kind)') <= limit_for(kind)
<1>1. InFlight(kind)' \subseteq {j}
  BY DEF InFlight, ReconcileJob, visiting, step, IInv, StepsOK
<1>2. IsFiniteSet({j}) /\ Cardinality({j}) <= limit_for(kind)
  BY FS_Singleton, LimitType
<1> QED
  BY <1>1, <1>2, LimitType, SubsetBounded

\* The loop ticks only after settle, a launch only after its last step.
LEMMA LoopStaysIdle == IInv /\ LoopIdle /\ [Next]_vars => LoopIdle'
<1> SUFFICES ASSUME IInv, LoopIdle, [Next]_vars,
                    mode' \in {"down", "sweep", "tick"}, NEW j \in Jobs
             PROVE  pc'[j] = "idle"
  BY DEF LoopIdle
<1>1. ASSUME NEW k \in Jobs, Work(k) PROVE FALSE
  <2>1. mode' = mode
    BY <1>1 DEF Work, search_step, choose_step, add_step, monitor_step,
                finalize_step, daemon
  <2> QED
    BY <1>1, <2>1 DEF Work, LoopIdle
<1>2. ASSUME NEW k \in Jobs, Land(k) \/ StepGone(k) PROVE pc'[j] = "idle"
  BY <1>2 DEF Land, StepGone, daemon, LoopIdle, IInv, StepsOK
<1>3. ASSUME NEW k \in Jobs, ReconcileJob(k) PROVE pc'[j] = "idle"
  BY <1>3 DEF ReconcileJob, visiting, visited, step, IInv, StepsOK
<1>4. ASSUME Tick PROVE FALSE
  BY <1>4 DEF Tick
<1>5. CASE Daemon
  BY <1>1, <1>2, <1>3, <1>4, <1>5
     DEF Daemon, SweepExpire, SweepRelease, Settled, Start, Reconciled,
         ReconcileAborts, no_steps, step, LoopIdle
<1>6. CASE User
  BY <1>6, UserKeepsStep DEF LoopIdle
<1>7. CASE Environment
  BY <1>7 DEF Environment, Crash, Complete, ServiceFlips, Elapse, daemon, step,
              no_steps, LoopIdle
<1>8. CASE UNCHANGED vars
  BY <1>8 DEF vars, LoopIdle
<1> QED
  BY <1>5, <1>6, <1>7, <1>8 DEF Next

\* Every action keeps the limits.
LEMMA LimitsKept ==
    ASSUME IInv, LoopIdle, BudgetRespected, [Next]_vars
    PROVE  BudgetRespected'
<1> SUFFICES ASSUME NEW kind \in JobKind
             PROVE  Cardinality(InFlight(kind)') <= limit_for(kind)
  BY DEF BudgetRespected, InFlight
<1>1. CASE Tick
  BY <1>1, TickBounded
<1>2. CASE \E k \in Jobs : ReconcileJob(k)
  BY <1>2, ReconcileBounded
<1>3. CASE ~Tick /\ \A k \in Jobs : ~ReconcileJob(k)
  <2>1. InFlight(kind)' \subseteq InFlight(kind)
    BY <1>3, NothingTakesOff
  <2>2. Cardinality(InFlight(kind)) <= limit_for(kind)
    BY DEF BudgetRespected, InFlight
  <2>3. IsFiniteSet(InFlight(kind))
    BY JobsFinite, FS_Subset DEF InFlight
  <2> QED
    BY <2>1, <2>2, <2>3, LimitType, SubsetBounded
<1> QED
  BY <1>1, <1>2, <1>3

\* No more steps of a kind are ever in flight than its limit, whatever the
\* limits, through kills, launches, answers and batches.
THEOREM LimitsAlwaysHold == Spec => []BudgetRespected
<1>1. Init => LoopIdle /\ BudgetRespected
  <2> SUFFICES ASSUME Init PROVE LoopIdle /\ BudgetRespected
    OBVIOUS
  <2>1. LoopIdle
    BY DEF Init, LoopIdle
  <2>2. ASSUME NEW kind \in JobKind PROVE Cardinality(InFlight(kind)) <= limit_for(kind)
    <3>1. InFlight(kind) = {}
      BY DEF Init, InFlight
    <3> QED
      BY <3>1, FS_EmptySet, LimitType
  <2> QED
    BY <2>1, <2>2 DEF BudgetRespected, InFlight
<1>2. IInv /\ LoopIdle /\ BudgetRespected /\ [Next]_vars => (LoopIdle /\ BudgetRespected)'
  BY LoopStaysIdle, LimitsKept
<1> QED
  BY <1>1, <1>2, Inductive, PTL DEF Spec

-----------------------------------------------------------------------------
(* Nobody's download.  A download that nobody has given up belongs to a job  *)
(* that is past choosing, pays for another budget than search and is not     *)
(* about to drop it; such a job lets go of its torrent only when qBittorrent  *)
(* has lost it or the torrent is rejected.  An answer may break this, by      *)
(* sending a job that failed over its download back to search, or by giving   *)
(* it another release, and the theorem leaves those answers out.              *)

\* The answers after which the job goes on with the torrent it has.
KeepsTorrent == {"download", "batch", "keep", "replace", "keep_both",
                 "skip_episode", "pause", "change_folder"}

NoneMovesOn == \A a \in Answers : a[2] \in KeepsTorrent

\* A row that holds on to t.
HoldsRow(row, t) ==
    /\ row.torrent = t /\ exists(row)
    /\ row.kind # "search"
    /\ step_of(row) \notin {"search", "choose"}

\* So does the move its step is about to land.
Holds(j, t) ==
    /\ HoldsRow(jobs[j], t)
    /\ pc[j] = "land" => /\ pend[j].to \notin {"search", "choose"}
                         /\ ~pend[j].opts.clear_torrent

DownloadsHeld ==
    \A t \in Torrents \ rejected : qbt[t] = "downloading" => \E j \in Jobs : Holds(j, t)

\* A row about to be added no longer pays for a search.
AddsPay == \A j \in Jobs : jobs[j].state = "add" => jobs[j].kind # "search"

\* A legal move that neither chooses anew nor clears the torrent holds on to it.
LEMMA TransitionHolds ==
    ASSUME NEW row \in Row, NEW to \in JobState, NEW reason, NEW opts \in MoveOptions,
           NEW t, HoldsRow(row, t), ~opts.clear_torrent,
           to \notin {"search", "choose"},
           to = "blocked" => opts.blocked_from = row.state /\ row.state \in ActiveState,
           to # "blocked" => opts.blocked_from = "none"
    PROVE  HoldsRow(transition(row, to, reason, opts), t)
<1> DEFINE new == transition(row, to, reason, opts)
<1>1. /\ new.state = to /\ new.torrent = row.torrent
      /\ new.kind = kind_for(to, row.kind, opts.blocked_from)
      /\ to = "blocked" => new.blocked_from = row.state
  BY DEF transition, Row, ActiveState
<1>2. exists(new)
  BY <1>1 DEF exists
<1>3. new.kind # "search"
  <2>1. CASE to \in ActiveState
    BY <1>1, <2>1 DEF kind_for, kind_of_state, ActiveState
  <2>2. CASE to = "blocked"
    <3>1. row.state \in {"add", "monitor", "finalize"}
      BY <2>2 DEF HoldsRow, step_of, ActiveState
    <3> QED
      BY <1>1, <2>2, <3>1 DEF kind_for, kind_of_state, ActiveState
  <2>3. CASE to \notin ActiveState /\ to # "blocked"
    BY <1>1, <2>3 DEF kind_for, HoldsRow
  <2> QED
    BY <2>1, <2>2, <2>3
<1>4. step_of(new) \notin {"search", "choose"}
  BY <1>1 DEF step_of, HoldsRow, ActiveState
<1> QED
  BY <1>1, <1>2, <1>3, <1>4 DEF HoldsRow

\* `transition` to add pays for adding.
LEMMA TransitionPays ==
    ASSUME NEW row \in Row, NEW to, NEW reason, NEW opts,
           transition(row, to, reason, opts).state = "add"
    PROVE  transition(row, to, reason, opts).kind # "search"
<1>1. to = "add"
  BY DEF transition, Row
<1> QED
  BY <1>1 DEF transition, Row, kind_for, kind_of_state, ActiveState

\* Rewriting other columns changes neither.
LEMMA RescheduleHolds ==
    ASSUME NEW row \in Row, NEW at, NEW reason, NEW t
    PROVE  /\ HoldsRow(row, t) => HoldsRow(reschedule(row, at, reason), t)
           /\ reschedule(row, at, reason).state = row.state
           /\ reschedule(row, at, reason).kind = row.kind
BY DEF reschedule, Row, HoldsRow, exists, step_of

\* The move a step of a job that holds t is about to land.
LEMMA PendHolds ==
    ASSUME IInv, NEW j \in Jobs, NEW t, HoldsRow(jobs[j], t), jobs'[j] = jobs[j],
           NEW to, NEW reason, NEW opts, Pend(j, to, reason, opts),
           to \notin {"search", "choose"}, ~opts.clear_torrent
    PROVE  Holds(j, t)'
BY DEF Pend, Holds, HoldsRow, IInv, StepsOK

\* fail_or_reschedule gives up the job, and not its torrent.
LEMMA FailHolds ==
    ASSUME IInv, NEW j \in Jobs, NEW t, HoldsRow(jobs[j], t), fail_or_reschedule(j)
    PROVE  Holds(j, t)'
<1>1. CASE Pend(j, "failed", "other", [default EXCEPT !.count_attempt = TRUE])
           /\ UNCHANGED jobs
  BY <1>1, PendHolds DEF default
<1>2. CASE Stay(j, reschedule(jobs[j], "soon", "other"))
  <2>1. jobs[j] \in Row
    BY DEF IInv, JobsOK
  <2>2. HoldsRow(reschedule(jobs[j], "soon", "other"), t)
    BY <2>1, RescheduleHolds
  <2> QED
    BY <1>2, <2>2 DEF Stay, Holds, IInv, StepsOK, JobsOK
<1> QED
  BY <1>1, <1>2 DEF fail_or_reschedule

\* Engine::block keeps the torrent, and the kind it returns to.
LEMMA BlockHolds ==
    ASSUME IInv, NEW j \in Jobs, NEW t, HoldsRow(jobs[j], t), NEW reason,
           block(j, reason)
    PROVE  Holds(j, t)'
BY PendHolds DEF block, default

\* A poll that goes on.
LEMMA StayHolds ==
    ASSUME IInv, NEW j \in Jobs, NEW t, HoldsRow(jobs[j], t),
           Stay(j, reschedule(jobs[j], "soon", "other"))
    PROVE  Holds(j, t)'
<1>1. jobs[j] \in Row
  BY DEF IInv, JobsOK
<1>2. HoldsRow(reschedule(jobs[j], "soon", "other"), t)
  BY <1>1, RescheduleHolds
<1> QED
  BY <1>2 DEF Stay, Holds, IInv, StepsOK, JobsOK

\* add_step leaves its own row to the landing.
LEMMA AddedRow ==
    ASSUME IInv, NEW j \in Jobs, exists(jobs[j]),
           cover_with_batch(j) \/ enqueue_sibling_episodes_if_needed(j)
    PROVE  jobs'[j] = jobs[j]
<1>1. CASE cover_with_batch(j)
  BY <1>1 DEF cover_with_batch
<1>2. CASE enqueue_sibling_episodes_if_needed(j)
  <2>1. siblings_without_search(j) \in SUBSET Episodes
    BY DEF siblings_without_search
  <2>2. jobs'[j] = jobs[j] \/ jobs[j].state = "unborn"
    BY <1>2, <2>1, EnqueueOK DEF enqueue_sibling_episodes_if_needed
  <2> QED
    BY <2>2 DEF exists, JobState, ActiveState
<1> QED
  BY <1>1, <1>2

\* A step of another job does not touch a row that pays for other work.
LEMMA OthersWork ==
    ASSUME IInv, NEW j \in Jobs, Work(j), NEW k \in Jobs \ {j},
           exists(jobs[k]), jobs[k].kind # "search"
    PROVE  jobs'[k] = jobs[k] /\ pc'[k] = pc[k] /\ pend'[k] = pend[k]
<1>1. StepOK(j)
  BY WorkOK
<1>2. pc'[k] = pc[k] /\ pend'[k] = pend[k]
  BY <1>1 DEF StepOK, IInv, StepsOK
<1>3. jobs[k].state # "unborn"
  BY DEF exists, JobState, ActiveState
<1> QED
  BY <1>2, <1>3, WorkRows

\* The step of a job that holds a live download lets go of it only when it
\* rejects it.
LEMMA HolderWorks ==
    ASSUME IInv, NEW j \in Jobs, NEW t \in Torrents, Holds(j, t), Work(j),
           qbt[t] = "downloading", t \notin rejected'
    PROVE  Holds(j, t)'
<1>1. /\ HoldsRow(jobs[j], t) /\ jobs[j].torrent = t /\ t # NoTorrent
      /\ exists(jobs[j])
  BY JobsAssumption DEF Holds, HoldsRow
<1>2. ~search_step(j) /\ ~choose_step(j)
  BY <1>1 DEF search_step, choose_step, HoldsRow, step_of
<1>3. CASE add_step(j)
  <2>1. \/ \E r \in Reason : block(j, r)
        \/ /\ Pend(j, "needs_input", "none", default)
           /\ UNCHANGED jobs
        \/ fail_or_reschedule(j)
        \/ /\ cover_with_batch(j) \/ enqueue_sibling_episodes_if_needed(j)
           /\ Pend(j, "monitor", "none", default)
    BY <1>1, <1>3 DEF add_step, Reason
  <2>2. CASE \E r \in Reason : block(j, r)
    BY <1>1, <2>2, BlockHolds
  <2>3. CASE fail_or_reschedule(j)
    BY <1>1, <2>3, FailHolds
  <2>4. CASE Pend(j, "needs_input", "none", default) /\ UNCHANGED jobs
    BY <1>1, <2>4, PendHolds DEF default
  <2>5. CASE /\ cover_with_batch(j) \/ enqueue_sibling_episodes_if_needed(j)
             /\ Pend(j, "monitor", "none", default)
    <3>1. jobs'[j] = jobs[j]
      BY <1>1, <2>5, AddedRow
    <3> QED
      BY <1>1, <2>5, <3>1, PendHolds DEF default
  <2> QED
    BY <2>1, <2>2, <2>3, <2>4, <2>5
<1>4. CASE monitor_step(j)
  <2>1. \/ block(j, "other")
        \/ fail_or_reschedule(j)
        \/ Stay(j, reschedule(jobs[j], "soon", "other"))
        \/ Pend(j, "finalize", "none", default) /\ UNCHANGED jobs
    BY <1>1, <1>4 DEF monitor_step
  <2> QED
    BY <1>1, <2>1, BlockHolds, FailHolds, StayHolds, PendHolds DEF default
<1>5. CASE finalize_step(j)
  <2>1. \/ \E r \in Reason : block(j, r)
        \/ fail_or_reschedule(j)
        \/ Stay(j, reschedule(jobs[j], "soon", "other"))
        \/ /\ \E to \in {"done", "needs_input"} : Pend(j, to, "none", default)
           /\ UNCHANGED jobs
    BY <1>1, <1>5 DEF finalize_step, Reason
  <2> QED
    BY <1>1, <2>1, BlockHolds, FailHolds, StayHolds, PendHolds DEF default
<1> QED
  BY <1>2, <1>3, <1>4, <1>5 DEF Work

\* A landing keeps what its step's move kept.
LEMMA LandHolds ==
    ASSUME IInv, NEW j \in Jobs, NEW t, Holds(j, t), NEW k \in Jobs, Land(k)
    PROVE  Holds(j, t)'
<1>1. jobs[k] \in Row /\ exists(jobs[k]) /\ pend[k] \in Move /\ LandOK(jobs[k], pend[k])
  BY DEF Land, IInv, JobsOK, StepsOK, LandingsOK
<1>2. CASE k # j
  BY <1>2 DEF Land, Holds, HoldsRow, IInv, JobsOK, StepsOK
<1>3. CASE k = j
  <2> DEFINE m == pend[j]
             new == IF can_move(jobs[j], m.to)
                    THEN transition(jobs[j], m.to, m.reason, m.opts)
                    ELSE reschedule(jobs[j], "soon", "other")
  <2>1. jobs'[j] = new /\ pc'[j] = "idle"
    BY <1>3 DEF Land, IInv, JobsOK, StepsOK
  <2>2. /\ m.to \in JobState /\ m.opts \in MoveOptions
        /\ m.to \notin {"search", "choose"} /\ ~m.opts.clear_torrent
        /\ m.to = "blocked" => m.opts.blocked_from = jobs[j].state
        /\ m.to # "blocked" => m.opts.blocked_from = "none"
        /\ jobs[j].state \in ActiveState
    BY <1>1, <1>3 DEF Move, LandOK, Land, Holds
  <2>3. HoldsRow(jobs[j], t)
    BY DEF Holds
  <2>4. HoldsRow(transition(jobs[j], m.to, m.reason, m.opts), t)
    BY <1>1, <1>3, <2>2, <2>3, TransitionHolds
  <2>5. HoldsRow(reschedule(jobs[j], "soon", "other"), t)
    BY <1>1, <1>3, <2>3, RescheduleHolds
  <2>6. HoldsRow(new, t)
    BY <2>4, <2>5
  <2> QED
    BY <2>1, <2>6 DEF Holds
<1> QED
  BY <1>2, <1>3

\* A question that expires fails its job, and not its torrent.
LEMMA SweepHolds ==
    ASSUME IInv, NEW j \in Jobs, NEW t, Holds(j, t), NEW q \in Questions, SweepRelease(q)
    PROVE  Holds(j, t)'
<1> DEFINE k == questions[q].job
           opts == [default EXCEPT !.reset_attempts = TRUE]
<1>1. UNCHANGED <<pc, pend>>
  BY DEF SweepRelease, step
<1>2. CASE k = j /\ jobs[j].state = "needs_input"
  <2>1. jobs'[j] = transition(jobs[j], "failed", "other", opts)
    BY <1>2 DEF SweepRelease, waits, IInv, JobsOK
  <2>2. opts \in MoveOptions /\ ~opts.clear_torrent /\ opts.blocked_from = "none"
    BY DEF default, MoveOptions
  <2>3. jobs[j] \in Row /\ HoldsRow(jobs[j], t) /\ "failed" \in JobState
    BY DEF IInv, JobsOK, Holds, JobState
  <2> HIDE DEF opts
  <2>4. HoldsRow(transition(jobs[j], "failed", "other", opts), t)
    BY <2>2, <2>3, TransitionHolds
  <2> QED
    BY <1>1, <2>1, <2>4 DEF Holds
<1>3. CASE ~ (k = j /\ jobs[j].state = "needs_input")
  <2>1. jobs'[j] = jobs[j]
    BY <1>3 DEF SweepRelease, IInv, JobsOK
  <2> QED
    BY <1>1, <2>1 DEF Holds, HoldsRow
<1> QED
  BY <1>2, <1>3

\* A job that resumes goes back to the step that holds its torrent.
LEMMA TickHolds ==
    ASSUME IInv, NEW j \in Jobs, NEW t, Holds(j, t), Tick
    PROVE  Holds(j, t)'
<1>1. jobs[j] \in Row /\ HoldsRow(jobs[j], t)
  BY DEF IInv, JobsOK, Holds
<1>2. pc'[j] = "land" => pc[j] = "land"
  BY DEF Tick, IInv, StepsOK
<1>3. pend' = pend
  BY DEF Tick
<1>4. jobs'[j] = jobs[j] \/ jobs'[j] = resume_blocked(jobs[j])
  BY DEF Tick
<1>5. HoldsRow(resume_blocked(jobs[j]), t)
  <2>1. CASE jobs[j].state = "blocked" /\ jobs[j].blocked_from # "none" /\ cleared(jobs[j])
    <3> DEFINE to == jobs[j].blocked_from
    <3>1. to \in JobState /\ to \in ActiveState /\ to \notin {"search", "choose"}
      BY <1>1, <2>1 DEF Row, HoldsRow, step_of, JobState
    <3>2. to # "blocked"
      BY <3>1 DEF ActiveState
    <3>3. default.blocked_from = "none" /\ ~default.clear_torrent
      BY DEF default
    <3>4. resume_blocked(jobs[j]) = transition(jobs[j], to, "none", default)
      BY <2>1 DEF resume_blocked
    <3> HIDE DEF to
    <3> QED
      BY <1>1, <3>1, <3>2, <3>3, <3>4, DefaultType, TransitionHolds
  <2>2. CASE ~ (/\ jobs[j].state = "blocked" /\ jobs[j].blocked_from # "none"
                /\ cleared(jobs[j]))
    BY <1>1, <2>2 DEF resume_blocked
  <2> QED
    BY <2>1, <2>2
<1>6. HoldsRow(jobs'[j], t)
  BY <1>1, <1>4, <1>5
<1> QED
  BY <1>2, <1>3, <1>6 DEF Holds

\* A launch finds the download of a job that holds it, and watches it.
LEMMA ReconcileHolds ==
    ASSUME IInv, NEW j \in Jobs, NEW t \in Torrents, Holds(j, t),
           qbt[t] = "downloading", NEW k \in Jobs, ReconcileJob(k)
    PROVE  Holds(j, t)'
<1>1. jobs[j] \in Row /\ HoldsRow(jobs[j], t) /\ jobs[j].torrent = t /\ t # NoTorrent
  BY JobsAssumption DEF IInv, JobsOK, Holds, HoldsRow
<1>2. pc'[j] # "land"
  BY DEF ReconcileJob, visiting, step, IInv, StepsOK
<1>3. CASE jobs'[j] = jobs[j]
  BY <1>1, <1>2, <1>3 DEF Holds
<1>4. CASE jobs'[j] # jobs[j]
  <2> DEFINE to == resume_at(jobs[j])
  <2>1. /\ k = j /\ to # "step" /\ to # jobs[j].state
        /\ jobs'[j] = transition(jobs[j], to, "none", default)
    BY <1>4 DEF ReconcileJob, IInv, JobsOK
  <2>2. jobs[j].state \in {"add", "monitor", "finalize", "deleted"}
    BY <2>1 DEF ReconcileJob, visiting, IInv, WalkOK
  <2>3. to = "monitor"
    BY <1>1, <2>1, <2>2 DEF resume_at
  <2>4. /\ "monitor" \in JobState
        /\ default.blocked_from = "none" /\ ~default.clear_torrent
    BY DEF default, JobState, ActiveState
  <2>5. HoldsRow(transition(jobs[j], "monitor", "none", default), t)
    BY <1>1, <2>4, DefaultType, TransitionHolds
  <2> QED
    BY <1>2, <2>1, <2>3, <2>5 DEF Holds
<1> QED
  BY <1>3, <1>4

\* An answer of KeepsTorrent moves its own job only, without a new choice.
LEMMA KeepingAnswer ==
    ASSUME IInv, NoneMovesOn, NEW q \in Questions, NEW choice, NEW t, NEW always,
           Answer(q, choice, t, always)
    PROVE  /\ choice \in KeepsTorrent
           /\ \A k \in Jobs :
                 \/ jobs'[k] = jobs[k]
                 \/ /\ waits(jobs[k])
                    /\ jobs'[k] = move_answered(jobs[k], jobs[k].state, choice)
<1> DEFINE j == questions[q].job
<1>1. choice \in KeepsTorrent
  BY DEF Answer, NoneMovesOn
<1>2. ~always /\ choice # "use_this" /\ choice # "wait"
  BY <1>1 DEF Answer, KeepsTorrent
<1>3. PICK pick : jobs' = IF waits(jobs[j])
                          THEN [auto_resolve([jobs EXCEPT ![j] = before_move(@, choice, t)],
                                             {}, pick) EXCEPT
                                   ![j] = move_answered(@, jobs[j].state, choice)]
                          ELSE jobs
  BY <1>2 DEF Answer
<1>4. before_move(jobs[j], choice, t) = jobs[j]
  BY <1>2 DEF before_move
<1>5. CASE waits(jobs[j])
  <2> DEFINE set == [jobs EXCEPT ![j] = before_move(@, choice, t)]
             table == auto_resolve(set, {}, pick)
  <2>1. jobs' = [table EXCEPT ![j] = move_answered(@, jobs[j].state, choice)]
    BY <1>3, <1>5
  <2>2. \A k \in Jobs : set[k] = jobs[k]
    BY <1>4 DEF IInv, JobsOK
  <2>3. table = [k \in Jobs |-> set[k]]
    BY DEF auto_resolve
  <2>4. table = [k \in Jobs |-> jobs[k]]
    BY <2>2, <2>3
  <2> HIDE DEF table, set
  <2> QED
    BY <1>1, <1>5, <2>1, <2>4
<1>6. CASE ~waits(jobs[j])
  BY <1>1, <1>3, <1>6
<1> QED
  BY <1>5, <1>6

\* Such an answer leaves the torrent with its job.
LEMMA AnswerHolds ==
    ASSUME IInv, NoneMovesOn, NEW j \in Jobs, NEW t, Holds(j, t),
           NEW q \in Questions, NEW choice, NEW u, NEW always,
           Answer(q, choice, u, always)
    PROVE  Holds(j, t)'
<1>1. UNCHANGED <<pc, pend>>
  BY DEF Answer, step
<1>2. CASE jobs'[j] = jobs[j]
  BY <1>1, <1>2 DEF Holds, HoldsRow
<1>3. CASE waits(jobs[j]) /\ jobs'[j] = move_answered(jobs[j], jobs[j].state, choice)
  <2> DEFINE next == next_of(choice, jobs[j].state)
             reset == (next = "search")
             clear == choice \in {"pick_another", "none_of_these"}
             opts == [default EXCEPT !.reset_attempts = reset, !.clear_torrent = clear]
  <2>1. jobs[j] \in Row /\ HoldsRow(jobs[j], t)
    BY DEF IInv, JobsOK, Holds
  <2>2. choice \in KeepsTorrent
    BY KeepingAnswer
  <2>3. next \in {"add", "failed", "done", "finalize", "needs_input", "stay"}
    BY <2>2 DEF KeepsTorrent, next_of
  <2>4. opts \in MoveOptions /\ ~opts.clear_torrent /\ opts.blocked_from = "none"
    <3>1. reset \in BOOLEAN /\ clear = FALSE
      BY <2>2, SMT DEF KeepsTorrent
    <3> HIDE DEF reset, clear
    <3> QED
      BY <3>1 DEF default, MoveOptions, ActiveState
  <2>5. \/ move_answered(jobs[j], jobs[j].state, choice) = jobs[j]
        \/ /\ next # "stay"
           /\ move_answered(jobs[j], jobs[j].state, choice)
                = transition(jobs[j], next, "other", opts)
    BY DEF move_answered
  <2> HIDE DEF next, opts
  <2>6. next # "stay" => next \in JobState /\ next \notin {"search", "choose", "blocked"}
    BY <2>3 DEF JobState, ActiveState
  <2>7. next # "stay" => HoldsRow(transition(jobs[j], next, "other", opts), t)
    BY <2>1, <2>4, <2>6, TransitionHolds
  <2>8. HoldsRow(jobs'[j], t)
    BY <1>3, <2>1, <2>5, <2>7
  <2> QED
    BY <1>1, <2>8 DEF Holds
<1> QED
  BY <1>2, <1>3, KeepingAnswer

\* Nobody but its own step takes a live download from its job.
LEMMA NextHolds ==
    ASSUME IInv, NoneMovesOn, [Next]_vars, NEW j \in Jobs, NEW t \in Torrents,
           Holds(j, t), qbt[t] = "downloading", t \notin rejected'
    PROVE  Holds(j, t)'
<1>0. HoldsRow(jobs[j], t) /\ exists(jobs[j]) /\ jobs[j].kind # "search"
  BY DEF Holds, HoldsRow
<1>1. ASSUME NEW k \in Jobs, Work(k) PROVE Holds(j, t)'
  <2>1. CASE k = j
    BY <1>1, <2>1, HolderWorks
  <2>2. CASE k # j
    BY <1>0, <1>1, <2>2, OthersWork DEF Holds, HoldsRow
  <2> QED
    BY <2>1, <2>2
<1>2. ASSUME NEW k \in Jobs, StepGone(k) PROVE Holds(j, t)'
  BY <1>0, <1>2 DEF StepGone, Holds, HoldsRow, IInv, StepsOK
<1>3. ASSUME jobs'[j] = jobs[j], no_steps PROVE Holds(j, t)'
  BY <1>3 DEF no_steps, Holds, HoldsRow
<1>4. ASSUME jobs'[j] = jobs[j], UNCHANGED <<pc, pend>> PROVE Holds(j, t)'
  BY <1>4 DEF Holds, HoldsRow
<1>5. ASSUME NEW e \in Episodes, PlanEpisode(e) PROVE Holds(j, t)'
  <2>1. jobs'[j] = jobs[j] \/ jobs[j].state = "unborn"
    BY <1>5, EnqueueOK DEF PlanEpisode
  <2>2. UNCHANGED <<pc, pend>>
    BY <1>5 DEF PlanEpisode, step
  <2> QED
    BY <1>0, <1>4, <2>1, <2>2 DEF exists, JobState, ActiveState
<1>6. ASSUME NEW k \in Jobs, Elapse(k) PROVE Holds(j, t)'
  <2>1. UNCHANGED <<pc, pend>>
    BY <1>6 DEF Elapse, step
  <2>2. HoldsRow(jobs'[j], t)
    BY <1>0, <1>6 DEF Elapse, HoldsRow, exists, step_of, IInv, JobsOK, Row
  <2> QED
    BY <2>1, <2>2 DEF Holds
<1>7. ASSUME SweepExpire \/ Settled \/ Start \/ Reconciled PROVE Holds(j, t)'
  BY <1>4, <1>7 DEF SweepExpire, Settled, Start, Reconciled, step
<1>8. ASSUME ReconcileAborts \/ Crash PROVE Holds(j, t)'
  BY <1>3, <1>8 DEF ReconcileAborts, Crash
<1>9. ASSUME \/ SetAutomation
             \/ \E u \in Torrents : RemoveTorrent(u) \/ Complete(u)
             \/ \E s \in Service : ServiceFlips(s)
      PROVE  Holds(j, t)'
  BY <1>4, <1>9 DEF SetAutomation, RemoveTorrent, Complete, ServiceFlips, step
<1>10. CASE Daemon
  BY <1>1, <1>2, <1>7, <1>8, <1>10, LandHolds, ReconcileHolds, SweepHolds, TickHolds
     DEF Daemon
<1>11. CASE User
  BY <1>5, <1>9, <1>11, AnswerHolds DEF User
<1>12. CASE Environment
  BY <1>6, <1>8, <1>9, <1>12 DEF Environment
<1>13. CASE UNCHANGED vars
  BY <1>4, <1>13 DEF vars
<1> QED
  BY <1>10, <1>11, <1>12, <1>13 DEF Next

\* A torrent that was given up stays given up.
LEMMA RejectedGrows == ASSUME [Next]_vars PROVE rejected \subseteq rejected'
<1>1. ASSUME NEW j \in Jobs, Work(j) PROVE rejected \subseteq rejected'
  BY <1>1 DEF Work, search_step, choose_step, add_step, monitor_step, finalize_step,
              catalog
<1>2. ASSUME Daemon PROVE rejected \subseteq rejected'
  BY <1>1, <1>2 DEF Daemon, Land, StepGone, ReconcileJob, SweepRelease, SweepExpire,
     Tick, Settled, Start, Reconciled, ReconcileAborts, catalog
<1>3. ASSUME NEW q \in Questions, NEW choice \in Choice,
             NEW t \in Torrents \cup {NoTorrent}, NEW always \in BOOLEAN,
             Answer(q, choice, t, always)
      PROVE  rejected' = rejected
  BY <1>3 DEF Answer, catalog
<1>4. ASSUME User PROVE rejected' = rejected
  BY <1>3, <1>4 DEF User, SetAutomation, PlanEpisode, RemoveTorrent, catalog
<1>5. ASSUME Environment PROVE rejected' = rejected
  BY <1>5 DEF Environment, Crash, Complete, ServiceFlips, Elapse, catalog
<1> QED
  BY <1>2, <1>4, <1>5 DEF Next, vars

\* Only add_step starts a download, and its job then holds it.
LEMMA NewIsHeld ==
    ASSUME IInv, AddsPay, [Next]_vars, NEW t \in Torrents,
           qbt[t] # "downloading", qbt'[t] = "downloading"
    PROVE  \E j \in Jobs : Holds(j, t)'
<1>1. ASSUME NEW j \in Jobs, Work(j) PROVE Holds(j, t)'
  <2>1. qbt' # qbt
    OBVIOUS
  <2>2. ~search_step(j) /\ ~choose_step(j)
    BY <2>1 DEF search_step, choose_step, outside
  <2>3. ~monitor_step(j)
    BY DEF monitor_step, IInv, RestOK
  <2>4. ~finalize_step(j)
    BY DEF finalize_step, file_into_library, IInv, RestOK
  <2>5. add_step(j)
    BY <1>1, <2>2, <2>3, <2>4 DEF Work
  <2>6. /\ jobs[j].torrent # NoTorrent /\ add_to_qbit(jobs[j].torrent)
        /\ cover_with_batch(j) \/ enqueue_sibling_episodes_if_needed(j)
        /\ Pend(j, "monitor", "none", default)
    BY <2>1, <2>5, AddStepCases DEF block, fail_or_reschedule
  <2>7. jobs[j].torrent = t
    BY <2>6 DEF add_to_qbit, IInv, RestOK
  <2>8. jobs[j].state = "add"
    BY <2>5 DEF add_step
  <2>9. HoldsRow(jobs[j], t)
    BY <2>7, <2>8 DEF HoldsRow, exists, step_of, AddsPay, JobState, ActiveState
  <2>10. jobs'[j] = jobs[j]
    BY <2>6, <2>9, AddedRow DEF HoldsRow
  <2> QED
    BY <2>6, <2>9, <2>10, PendHolds DEF default
<1>2. CASE Daemon
  BY <1>1, <1>2 DEF Daemon, Land, StepGone, ReconcileJob, SweepRelease, SweepExpire,
     Tick, Settled, Start, Reconciled, ReconcileAborts, outside
<1>3. CASE User
  <2>1. ASSUME NEW q \in Questions, NEW choice \in Choice,
               NEW u \in Torrents \cup {NoTorrent}, NEW always \in BOOLEAN,
               Answer(q, choice, u, always)
        PROVE  FALSE
    BY <2>1 DEF Answer
  <2>2. ASSUME NEW u \in Torrents, RemoveTorrent(u) PROVE FALSE
    BY <2>2 DEF RemoveTorrent, IInv, RestOK
  <2>3. ASSUME NEW e \in Episodes, PlanEpisode(e) PROVE FALSE
    BY <2>3 DEF PlanEpisode, outside
  <2>4. ~SetAutomation
    BY DEF SetAutomation
  <2> QED
    BY <1>3, <2>1, <2>2, <2>3, <2>4 DEF User
<1>4. CASE Environment
  BY <1>4 DEF Environment, Crash, Complete, ServiceFlips, Elapse, outside, IInv, RestOK
<1>5. CASE UNCHANGED vars
  BY <1>5 DEF vars
<1> QED
  BY <1>2, <1>3, <1>4, <1>5 DEF Next

\* A row gets to add by `transition` only, as long as no auto_resolve runs.
LEMMA PaysKept ==
    ASSUME IInv, NoneMovesOn, AddsPay, [Next]_vars
    PROVE  AddsPay'
<1> SUFFICES ASSUME NEW j \in Jobs, jobs'[j].state = "add"
             PROVE  jobs'[j].kind # "search"
  BY DEF AddsPay
<1>0. jobs[j] \in Row /\ (jobs[j].state = "add" => jobs[j].kind # "search")
  BY DEF IInv, JobsOK, AddsPay
<1>1. ASSUME jobs'[j] = jobs[j] PROVE jobs'[j].kind # "search"
  BY <1>0, <1>1
<1>2. ASSUME \E to, reason, opts : jobs'[j] = transition(jobs[j], to, reason, opts)
      PROVE  jobs'[j].kind # "search"
  BY <1>0, <1>2, TransitionPays
<1>3. ASSUME NEW k \in Jobs, Work(k) PROVE jobs'[j].kind # "search"
  <2>1. /\ jobs'[k].kind = jobs[k].kind /\ jobs'[k].state = jobs[k].state
        /\ k # j => \/ jobs'[j] = jobs[j]
                    \/ jobs'[j] = deleted
                    \/ jobs'[j].state = "search"
    BY <1>3, WorkRows
  <2>2. jobs'[j] # deleted
    BY GoneOK
  <2> QED
    BY <1>0, <1>1, <2>1, <2>2
<1>4. ASSUME NEW k \in Jobs, Land(k) PROVE jobs'[j].kind # "search"
  <2>1. \/ jobs'[j] = jobs[j]
        \/ \E to, reason, opts : jobs'[j] = transition(jobs[j], to, reason, opts)
        \/ jobs'[j] = reschedule(jobs[j], "soon", "other")
    BY <1>4 DEF Land, IInv, JobsOK
  <2> QED
    BY <1>0, <1>1, <1>2, <2>1, RescheduleHolds
<1>5. ASSUME NEW q \in Questions, SweepRelease(q) PROVE jobs'[j].kind # "search"
  <2>1. \/ jobs'[j] = jobs[j]
        \/ jobs'[j] = transition(jobs[j], "failed", "other",
                                 [default EXCEPT !.reset_attempts = TRUE])
    BY <1>5 DEF SweepRelease, IInv, JobsOK
  <2> QED
    BY <1>1, <1>2, <2>1
<1>6. ASSUME Tick PROVE jobs'[j].kind # "search"
  <2>1. \/ jobs'[j] = jobs[j]
        \/ jobs'[j] = transition(jobs[j], jobs[j].blocked_from, "none", default)
    BY <1>6 DEF Tick, resume_blocked
  <2> QED
    BY <1>1, <1>2, <2>1
<1>7. ASSUME NEW k \in Jobs, ReconcileJob(k) PROVE jobs'[j].kind # "search"
  <2>1. \/ jobs'[j] = jobs[j]
        \/ jobs'[j] = transition(jobs[j], resume_at(jobs[k]), "none", default)
    BY <1>7 DEF ReconcileJob, IInv, JobsOK
  <2> QED
    BY <1>1, <1>2, <2>1
<1>8. ASSUME NEW q \in Questions, NEW choice \in Choice,
             NEW t \in Torrents \cup {NoTorrent}, NEW always \in BOOLEAN,
             Answer(q, choice, t, always)
      PROVE  jobs'[j].kind # "search"
  <2>1. \/ jobs'[j] = jobs[j]
        \/ jobs'[j] = move_answered(jobs[j], jobs[j].state, choice)
    BY <1>8, KeepingAnswer
  <2>2. \/ jobs'[j] = jobs[j]
        \/ \E to, reason, opts : jobs'[j] = transition(jobs[j], to, reason, opts)
    BY <2>1 DEF move_answered
  <2> QED
    BY <1>1, <1>2, <2>2
<1>9. ASSUME NEW e \in Episodes, PlanEpisode(e) PROVE jobs'[j].kind # "search"
  <2>1. jobs'[j] = jobs[j] \/ jobs'[j].state = "search"
    BY <1>9, EnqueueOK DEF PlanEpisode
  <2> QED
    BY <1>1, <2>1
<1>10. ASSUME NEW k \in Jobs, Elapse(k) PROVE jobs'[j].kind # "search"
  BY <1>0, <1>10 DEF Elapse, IInv, JobsOK, Row
<1>11. CASE Daemon
  BY <1>1, <1>3, <1>4, <1>5, <1>6, <1>7, <1>11 DEF Daemon, StepGone, SweepExpire,
     Settled, Start, Reconciled, ReconcileAborts
<1>12. CASE User
  BY <1>1, <1>8, <1>9, <1>12 DEF User, SetAutomation, RemoveTorrent
<1>13. CASE Environment
  BY <1>1, <1>10, <1>13 DEF Environment, Crash, Complete, ServiceFlips
<1>14. CASE UNCHANGED vars
  BY <1>1, <1>14 DEF vars
<1> QED
  BY <1>11, <1>12, <1>13, <1>14 DEF Next

\* A kill at any point, a failing service, a removal, an expiry or a batch
\* leaves nobody's download behind, for any number of jobs: only the answers
\* that make a job choose again can.
THEOREM NoDownloadIsOrphaned ==
    ASSUME NoneMovesOn
    PROVE  Spec => []NoOrphanTorrent
<1>1. Init => AddsPay /\ DownloadsHeld
  <2> SUFFICES ASSUME Init PROVE AddsPay /\ DownloadsHeld
    OBVIOUS
  <2>1. \A j \in Jobs : jobs[j].state \in {"search", "unborn"}
    BY SearchRowOK, GoneOK DEF Init
  <2> QED
    BY <2>1 DEF Init, AddsPay, DownloadsHeld
<1>2. IInv /\ AddsPay /\ DownloadsHeld /\ [Next]_vars => (AddsPay /\ DownloadsHeld)'
  <2> SUFFICES ASSUME IInv, AddsPay, DownloadsHeld, [Next]_vars
               PROVE  AddsPay' /\ DownloadsHeld'
    OBVIOUS
  <2>1. ASSUME NEW t \in Torrents \ rejected', qbt'[t] = "downloading"
        PROVE  \E j \in Jobs : Holds(j, t)'
    <3>1. CASE qbt[t] = "downloading"
      <4>1. t \notin rejected
        BY RejectedGrows
      <4>2. PICK j \in Jobs : Holds(j, t)
        BY <3>1, <4>1 DEF DownloadsHeld
      <4> QED
        BY <3>1, <4>2, NextHolds
    <3>2. CASE qbt[t] # "downloading"
      BY <2>1, <3>2, NewIsHeld
    <3> QED
      BY <3>1, <3>2
  <2> QED
    BY <2>1, PaysKept DEF DownloadsHeld
<1>3. DownloadsHeld => NoOrphanTorrent
  BY DEF DownloadsHeld, NoOrphanTorrent, Holds, HoldsRow
<1> QED
  BY <1>1, <1>2, <1>3, Inductive, PTL DEF Spec

-----------------------------------------------------------------------------
(* Done episodes.  What can take an owned episode back is the expiry of a    *)
(* question of another job for the same episode; enqueue_search makes such a  *)
(* job (see OneOpenJobPerEpisode), and the theorem says it is the only way.   *)

\* No episode has two rows.
OneRowPerEpisode ==
    \A i, j \in Jobs :
        exists(jobs[i]) /\ exists(jobs[j]) /\ jobs[i].episode = jobs[j].episode => i = j

\* A row that is done, or about to land there.
IsOrLandsDone(j) ==
    \/ jobs[j].state = "done"
    \/ pc[j] = "land" /\ exists(jobs[j]) /\ pend[j].to = "done"

\* Filing precedes the landing: the episode is owned before the row says so.
FiledFirst == \A j \in Jobs : IsOrLandsDone(j) => episodes[jobs[j].episode] = "done"

\* The columns of a move that FiledFirst reads.
LEMMA TransitionEpisode ==
    ASSUME NEW row \in Row, NEW to, NEW reason, NEW opts
    PROVE  /\ transition(row, to, reason, opts).episode = row.episode
           /\ transition(row, to, reason, opts).state = to
BY DEF transition, Row

\* A step never takes an owned episode back, and files before it means to be
\* done.
LEMMA WorkFiles ==
    ASSUME IInv, NEW j \in Jobs, Work(j)
    PROVE  /\ \A e \in Episodes : episodes[e] = "done" => episodes'[e] = "done"
           /\ pc'[j] = "land" /\ pend'[j].to = "done"
                 => episodes'[jobs[j].episode] = "done"
<1> DEFINE Kept == \A e \in Episodes : episodes[e] = "done" => episodes'[e] = "done"
           NotDone == ~ (pc'[j] = "land" /\ pend'[j].to = "done")
<1>1. jobs[j] \in Row /\ jobs[j].episode \in Episodes
  BY DEF IInv, JobsOK, Row
<1>2. ASSUME NEW to, NEW reason, NEW opts, Pend(j, to, reason, opts), to # "done"
      PROVE  NotDone
  BY <1>2 DEF Pend, IInv, StepsOK
<1>3. ASSUME NEW row, Stay(j, row) PROVE NotDone
  BY <1>3 DEF Stay, IInv, StepsOK
<1>4. ASSUME NEW reason, block(j, reason) PROVE NotDone
  BY <1>2, <1>4 DEF block
<1>5. ASSUME fail_or_reschedule(j) PROVE NotDone
  BY <1>2, <1>3, <1>5 DEF fail_or_reschedule
<1>6. ASSUME next_candidate(j) PROVE NotDone
  BY <1>2, <1>6 DEF next_candidate
<1> HIDE DEF NotDone
<1>7. CASE search_step(j)
  <2>1. Kept
    BY <1>7 DEF search_step
  <2>2. NotDone
    BY <1>2, <1>4, <1>5, <1>7 DEF search_step
  <2> QED
    BY <2>1, <2>2 DEF NotDone
<1>8. CASE choose_step(j)
  <2>1. Kept
    BY <1>8 DEF choose_step
  <2>2. NotDone
    BY <1>2, <1>3, <1>5, <1>8 DEF choose_step
  <2> QED
    BY <2>1, <2>2 DEF NotDone
<1>9. CASE add_step(j)
  <2>1. Kept
    BY <1>9, AddStepCases
       DEF cover_with_batch, enqueue_sibling_episodes_if_needed
  <2>2. NotDone
    <3>1. \/ \E r \in Reason : block(j, r)
          \/ fail_or_reschedule(j)
          \/ \E to \in {"choose", "needs_input", "monitor"} : Pend(j, to, "none", default)
      BY <1>9, AddStepCases
    <3> QED
      BY <1>2, <1>4, <1>5, <3>1
  <2> QED
    BY <2>1, <2>2 DEF NotDone
<1>10. CASE monitor_step(j)
  <2>1. Kept
    BY <1>10 DEF monitor_step
  <2>2. NotDone
    <3>1. \/ block(j, "other")
          \/ fail_or_reschedule(j)
          \/ next_candidate(j)
          \/ \E row : Stay(j, row)
          \/ \E to \in {"choose", "finalize"} : Pend(j, to, "none", default)
      BY <1>10 DEF monitor_step
    <3> QED
      BY <1>2, <1>3, <1>4, <1>5, <1>6, <3>1
  <2> QED
    BY <2>1, <2>2 DEF NotDone
<1>11. CASE finalize_step(j)
  <2>1. CASE file_into_library(j)
    <3>1. episodes' = [e \in Episodes |->
             IF e = jobs[j].episode \/ jobs[j].torrent \in Batches THEN "done"
             ELSE episodes[e]]
      BY <2>1 DEF file_into_library
    <3> QED
      BY <1>1, <3>1
  <2>2. CASE ~file_into_library(j)
    <3>1. /\ UNCHANGED episodes
          /\ \/ \E r \in Reason : block(j, r)
             \/ fail_or_reschedule(j)
             \/ \E row : Stay(j, row)
             \/ \E to \in {"search", "needs_input"} : Pend(j, to, "none", default)
      BY <1>11, <2>2 DEF finalize_step, Reason
    <3>2. NotDone
      BY <1>2, <1>3, <1>4, <1>5, <3>1
    <3> QED
      BY <3>1, <3>2 DEF NotDone
  <2> QED
    BY <2>1, <2>2
<1> QED
  BY <1>7, <1>8, <1>9, <1>10, <1>11 DEF Work

\* The answers: only "keep" makes a job done, and the episode owned with it.
LEMMA AnswerFiles ==
    ASSUME IInv, NEW q \in Questions, NEW choice, NEW t, NEW always,
           Answer(q, choice, t, always)
    PROVE  /\ \A e \in Episodes : episodes[e] = "done" => episodes'[e] = "done"
           /\ \A k \in Jobs : jobs'[k].state = "done" =>
                 \/ jobs'[k] = jobs[k]
                 \/ episodes'[jobs'[k].episode] = "done"
<1> DEFINE j == questions[q].job
           applies == waits(jobs[j])
           R == IF applies /\ always
                THEN {p \in Questions \ {q} : resolvable(p, t)} ELSE {}
           set == [jobs EXCEPT ![j] = before_move(@, choice, t)]
<1>1. episodes' = IF applies /\ choice = "keep"
                  THEN [episodes EXCEPT ![jobs[j].episode] = "done"] ELSE episodes
  BY DEF Answer
<1>2. PICK pick \in [R -> Torrents] :
         jobs' = IF applies
                 THEN [auto_resolve(set, R, pick) EXCEPT
                          ![j] = move_answered(@, jobs[j].state, choice)]
                 ELSE jobs
  BY DEF Answer
<1>3. \A e \in Episodes : episodes[e] = "done" => episodes'[e] = "done"
  BY <1>1 DEF IInv, RestOK
<1>4. ASSUME NEW k \in Jobs, jobs'[k].state = "done", jobs'[k] # jobs[k]
      PROVE  episodes'[jobs'[k].episode] = "done"
  <2> DEFINE table == auto_resolve(set, R, pick)
  <2>1. applies /\ jobs' = [table EXCEPT ![j] = move_answered(@, jobs[j].state, choice)]
    BY <1>2, <1>4
  <2>2. choice = "use_this" => t \in Torrents
    BY DEF Answer, IInv, QuestionsOK, QuestionRow
  <2>3. choice = "keep" => R = {}
    BY DEF Answer
  <2>4. ASSUME NEW i \in Jobs
        PROVE  /\ set[i] \in Row /\ set[i].state = jobs[i].state
               /\ i # j \/ choice = "keep" => set[i] = jobs[i]
    <3>1. RowOK(jobs[i]) /\ jobs[i] \in Row
      BY DEF IInv, JobsOK
    <3>2. CASE i = j
      <4>1. set[i] = before_move(jobs[i], choice, t)
        BY <3>2 DEF IInv, JobsOK
      <4>2. choice = "keep" => before_move(jobs[i], choice, t) = jobs[i]
        BY DEF before_move
      <4> HIDE DEF set
      <4> QED
        BY <2>2, <3>1, <3>2, <4>1, <4>2, BeforeMoveOK DEF RowOK
    <3>3. CASE i # j
      BY <3>1, <3>3 DEF IInv, JobsOK
    <3> QED
      BY <3>2, <3>3
  <2> HIDE DEF set, R, applies, j
  <2>5. ASSUME NEW i \in Jobs
        PROVE  /\ table[i] \in Row
               /\ table[i] = set[i] \/ (table[i].state = "add" /\ choice # "keep")
    <3>1. CASE \E p \in R : questions[p].job = i /\ set[i].state = "needs_input"
      <4> DEFINE p == CHOOSE p \in R : questions[p].job = i
                 u == pick[p]
      <4>1. u \in Torrents
        BY <3>1
      <4>2. table[i] = [set[i] EXCEPT !.torrent = u, !.state = "add", !.last_error = "none"]
        BY <3>1 DEF auto_resolve
      <4> HIDE DEF u
      <4> QED
        BY <2>3, <2>4, <3>1, <4>1, <4>2 DEF Row, JobState, ActiveState, Reason
    <3>2. CASE ~ \E p \in R : questions[p].job = i /\ set[i].state = "needs_input"
      BY <2>4, <3>2 DEF auto_resolve
    <3> QED
      BY <3>1, <3>2
  <2>6. table = [i \in Jobs |-> table[i]]
    BY DEF auto_resolve
  <2> HIDE DEF table
  <2>7. CASE k # j
    <3>1. jobs'[k] = table[k]
      BY <2>1, <2>6, <2>7
    <3> QED
      BY <1>4, <2>4, <2>5, <2>7, <3>1
  <2>8. CASE k = j
    <3> DEFINE row == table[k]
               next == next_of(choice, jobs[k].state)
               opts == [default EXCEPT
                           !.reset_attempts = (next = "search"),
                           !.clear_torrent = choice \in {"pick_another", "none_of_these"}]
    <3>1. jobs'[k] = move_answered(row, jobs[k].state, choice)
      BY <2>1, <2>6, <2>8
    <3>2. jobs[k].state \in {"needs_input", "failed"}
      BY <2>1, <2>8 DEF applies, waits
    <3>3. row.state # "done" /\ row \in Row
      BY <2>4, <2>5, <3>2
    <3>4. jobs'[k] = row \/ jobs'[k] = transition(row, next, "other", opts)
      BY <3>1 DEF move_answered
    <3> HIDE DEF row, opts
    <3>5. jobs'[k] = transition(row, next, "other", opts) /\ next = "done"
      BY <1>4, <3>3, <3>4, TransitionEpisode
    <3>6. choice = "keep"
      BY <3>5 DEF next_of
    <3>7. row = jobs[k]
      BY <2>4, <2>5, <3>6 DEF row
    <3>8. jobs'[k].episode = jobs[k].episode
      BY <3>3, <3>5, <3>7, TransitionEpisode
    <3>9. jobs[k].episode \in Episodes
      BY <3>3, <3>7 DEF Row
    <3> QED
      BY <1>1, <2>1, <2>8, <3>6, <3>8, <3>9 DEF IInv, RestOK
  <2> QED
    BY <2>7, <2>8
<1> QED
  BY <1>3, <1>4

\* A question the sweep has still to release is closed and about a job; only
\* a sweep has any.
SweepOK ==
    /\ mode # "sweep" => expired = {}
    /\ \A q \in Questions : is_open(q) => questions[q].job \in Jobs
    /\ \A q \in expired : ~is_open(q) /\ questions[q].job \in Jobs

\* What a step's work does to the questions: it asks one, or forgets those of
\* the rows it deletes.
LEMMA WorkAsks ==
    ASSUME IInv, NEW j \in Jobs, Work(j), NEW q \in Questions
    PROVE  \/ questions'[q] = questions[q]
           \/ questions'[q] = NoQuestion
           \/ questions'[q].job = j
<1> DEFINE Goal == \/ questions'[q] = questions[q]
                   \/ questions'[q] = NoQuestion
                   \/ questions'[q].job = j
<1>1. ASSUME NEW kind, NEW options, NEW large, ask(j, kind, options, large) PROVE Goal
  BY <1>1 DEF ask, IInv, QuestionsOK
<1>2. ASSUME UNCHANGED questions PROVE Goal
  BY <1>2
<1> HIDE DEF Goal
<1>3. ASSUME NEW reason, block(j, reason) PROVE Goal
  BY <1>2, <1>3 DEF block
<1>4. ASSUME fail_or_reschedule(j) PROVE Goal
  BY <1>1, <1>2, <1>4 DEF fail_or_reschedule
<1>5. ASSUME next_candidate(j) PROVE Goal
  BY <1>1, <1>2, <1>5 DEF next_candidate
<1>6. CASE search_step(j)
  <2>1. Goal
    BY <1>2, <1>3, <1>4, <1>6 DEF search_step
  <2> QED
    BY <2>1 DEF Goal
<1>7. CASE choose_step(j)
  <2>1. Goal
    BY <1>1, <1>2, <1>4, <1>7 DEF choose_step
  <2> QED
    BY <2>1 DEF Goal
<1>8. CASE add_step(j)
  <2>1. ASSUME cover_with_batch(j) PROVE Goal
    BY <2>1 DEF cover_with_batch, Goal
  <2>2. ASSUME enqueue_sibling_episodes_if_needed(j) PROVE Goal
    BY <1>2, <2>2 DEF enqueue_sibling_episodes_if_needed
  <2>3. \/ \E r \in Reason : block(j, r)
        \/ fail_or_reschedule(j)
        \/ UNCHANGED questions
        \/ ask(j, "match_review", {jobs[j].torrent} \cap candidate_rows, TRUE)
        \/ cover_with_batch(j)
        \/ enqueue_sibling_episodes_if_needed(j)
    BY <1>8, AddStepCases
  <2>4. Goal
    BY <1>1, <1>2, <1>3, <1>4, <2>1, <2>2, <2>3
  <2> QED
    BY <2>4 DEF Goal
<1>9. CASE monitor_step(j)
  <2>1. \/ block(j, "other")
        \/ fail_or_reschedule(j)
        \/ next_candidate(j)
        \/ UNCHANGED questions
    BY <1>9 DEF monitor_step
  <2>2. Goal
    BY <1>2, <1>3, <1>4, <1>5, <2>1
  <2> QED
    BY <2>2 DEF Goal
<1>10. CASE finalize_step(j)
  <2>1. Goal
    BY <1>1, <1>2, <1>3, <1>4, <1>10, FinalizeStepCases
  <2> QED
    BY <2>1 DEF Goal
<1> QED
  BY <1>6, <1>7, <1>8, <1>9, <1>10 DEF Work

\* A closed question is not opened again, and neither is one of no job.
LEMMA ClosedStaysClosed ==
    ASSUME NEW row \in QuestionRow, row.answer # "open"
    PROVE  closed(row).answer # "open"
BY DEF closed, NoQuestion

\* None of the choices is "open".
LEMMA ChoicesClose == "open" \notin Choice
<1>1. ASSUME NEW a \in Offered PROVE a[2] # "open"
  BY <1>1 DEF Offered
<1> QED
  BY <1>1 DEF Choice

\* An answer closes open questions, and touches no other.
LEMMA AnswerCloses ==
    ASSUME IInv, NEW q \in Questions, NEW choice \in Choice,
           NEW t \in Torrents \cup {NoTorrent}, NEW always \in BOOLEAN,
           Answer(q, choice, t, always), NEW p \in Questions
    PROVE  questions'[p] = questions[p] \/ (is_open(p) /\ questions'[p].answer # "open")
<1> DEFINE applies == waits(jobs[questions[q].job])
           R == IF applies /\ always
                THEN {i \in Questions \ {q} : resolvable(i, t)} ELSE {}
<1>1. PICK pick \in [R -> Torrents] :
         questions' = [i \in Questions |->
             CASE i = q -> closed([questions[q] EXCEPT !.answer = choice, !.pick = t])
               [] i \in R -> closed([questions[i] EXCEPT !.answer = "use_this",
                                                         !.pick = pick[i]])
               [] OTHER -> questions[i]]
  BY DEF Answer
<1>2. q \notin R /\ is_open(q) /\ \A i \in R : is_open(i)
  BY DEF Answer, resolvable
<1>3. questions[p] \in QuestionRow
  BY DEF IInv, QuestionsOK
<1> HIDE DEF R
<1>4. CASE p = q
  <2> DEFINE row == [questions[q] EXCEPT !.answer = choice, !.pick = t]
  <2>1. row \in QuestionRow /\ row.answer # "open"
    BY <1>3, <1>4, ChoicesClose DEF QuestionRow
  <2>2. questions'[q] = closed(row)
    BY <1>1, <1>2
  <2> HIDE DEF row
  <2> QED
    BY <1>2, <1>4, <2>1, <2>2, ClosedStaysClosed
<1>5. CASE p # q /\ p \in R
  <2> DEFINE u == pick[p]
             row == [questions[p] EXCEPT !.answer = "use_this", !.pick = u]
  <2>1. u \in Torrents
    BY <1>5
  <2>2. questions'[p] = closed(row)
    BY <1>1, <1>5
  <2> HIDE DEF u
  <2>3. row \in QuestionRow /\ row.answer # "open"
    BY <1>3, <2>1, UseThisIsChoice DEF QuestionRow
  <2> HIDE DEF row
  <2> QED
    BY <1>2, <1>5, <2>2, <2>3, ClosedStaysClosed
<1>6. CASE p # q /\ p \notin R
  BY <1>1, <1>6
<1> QED
  BY <1>4, <1>5, <1>6

\* Every action keeps SweepOK.
LEMMA SweepKept ==
    ASSUME IInv, LoopIdle, SweepOK, [Next]_vars
    PROVE  SweepOK'
<1>0. \A q \in Questions : questions[q] \in QuestionRow
  BY DEF IInv, QuestionsOK
<1>1. ASSUME UNCHANGED <<questions, expired>>, mode' # "sweep" => expired = {}
      PROVE  SweepOK'
  BY <1>1 DEF SweepOK, is_open
<1>2. ASSUME NEW j \in Jobs, Work(j) PROVE SweepOK'
  <2>1. UNCHANGED <<mode, expired>>
    BY <1>2 DEF Work, search_step, choose_step, add_step, monitor_step,
                finalize_step, daemon
  <2>2. mode # "sweep" /\ expired = {}
    BY <1>2 DEF Work, LoopIdle, SweepOK
  <2>3. NoQuestion.answer # "open"
    BY DEF NoQuestion
  <2>4. ASSUME NEW q \in Questions, questions'[q].answer = "open"
        PROVE  questions'[q].job \in Jobs
    BY <1>2, <2>3, <2>4, WorkAsks DEF SweepOK, is_open
  <2> QED
    BY <2>1, <2>2, <2>4 DEF SweepOK, is_open
<1>3. ASSUME SweepExpire PROVE SweepOK'
  <2>1. PICK E \in SUBSET {q \in Questions : is_open(q)} :
           /\ questions' = [q \in Questions |-> IF q \in E
                  THEN [questions[q] EXCEPT !.answer = "expired"] ELSE questions[q]]
           /\ expired' = E
           /\ mode' = IF E = {} THEN "tick" ELSE "sweep"
    BY <1>3 DEF SweepExpire
  <2>2. \A q \in E : /\ questions'[q].answer = "expired"
                     /\ questions'[q].job = questions[q].job
    BY <1>0, <2>1 DEF QuestionRow
  <2>3. \A q \in Questions \ E : questions'[q] = questions[q]
    BY <2>1
  <2> QED
    BY <2>1, <2>2, <2>3 DEF SweepOK, is_open
<1>4. ASSUME NEW q \in Questions, SweepRelease(q) PROVE SweepOK'
  <2>1. /\ mode = "sweep" /\ q \in expired /\ expired' = expired \ {q}
        /\ mode' = IF expired = {q} THEN "tick" ELSE "sweep"
        /\ questions' = [questions EXCEPT ![q] = closed(@)]
    BY <1>4 DEF SweepRelease
  <2>2. questions'[q] = closed(questions[q])
    BY <2>1 DEF IInv, QuestionsOK
  <2>3. questions'[q].answer # "open"
    BY <1>0, <2>1, <2>2, ClosedStaysClosed DEF SweepOK, is_open
  <2>4. \A p \in Questions \ {q} : questions'[p] = questions[p]
    BY <2>1 DEF IInv, QuestionsOK
  <2> QED
    BY <2>1, <2>3, <2>4 DEF SweepOK, is_open, IInv, RestOK
<1>5. ASSUME NEW q \in Questions, NEW choice \in Choice,
             NEW t \in Torrents \cup {NoTorrent}, NEW always \in BOOLEAN,
             Answer(q, choice, t, always)
      PROVE  SweepOK'
  <2>1. UNCHANGED <<mode, expired>> /\ is_open(q)
    BY <1>5 DEF Answer, daemon
  <2>2. ASSUME NEW p \in Questions
        PROVE  questions'[p] = questions[p] \/ (is_open(p) /\ questions'[p].answer # "open")
    BY <1>5, <2>2, AnswerCloses
  <2> QED
    BY <2>1, <2>2 DEF SweepOK, is_open, IInv, RestOK
<1>6. ASSUME Crash PROVE SweepOK'
  BY <1>6 DEF Crash, SweepOK, is_open
<1>7. ASSUME \/ Tick \/ Settled \/ Start \/ Reconciled \/ ReconcileAborts
             \/ \E k \in Jobs : ReconcileJob(k)
      PROVE  SweepOK'
  <2>1. mode # "sweep" /\ UNCHANGED <<questions, expired>>
    BY <1>7 DEF Tick, Settled, Start, Reconciled, ReconcileAborts, ReconcileJob,
                visiting, illegal_visit, illegal_landing
  <2> QED
    BY <1>1, <2>1 DEF SweepOK
<1>8. ASSUME \/ \E k \in Jobs : Land(k) \/ StepGone(k) \/ Elapse(k)
             \/ SetAutomation
             \/ \E e \in Episodes : PlanEpisode(e)
             \/ \E u \in Torrents : RemoveTorrent(u) \/ Complete(u)
             \/ \E s \in Service : ServiceFlips(s)
      PROVE  SweepOK'
  <2>1. UNCHANGED <<questions, expired, mode>>
    BY <1>8 DEF Land, StepGone, Elapse, SetAutomation, PlanEpisode, RemoveTorrent,
                Complete, ServiceFlips, daemon
  <2> QED
    BY <1>1, <2>1 DEF SweepOK
<1>9. CASE Daemon
  BY <1>2, <1>3, <1>4, <1>7, <1>8, <1>9 DEF Daemon
<1>10. CASE User
  BY <1>5, <1>8, <1>10 DEF User
<1>11. CASE Environment
  BY <1>6, <1>8, <1>11 DEF Environment
<1>12. CASE UNCHANGED vars
  BY <1>1, <1>12 DEF vars, SweepOK
<1> QED
  BY <1>9, <1>10, <1>11, <1>12 DEF Next

\* Every action keeps FiledFirst, as long as no episode has two rows.
LEMMA FiledFirstKept ==
    ASSUME IInv, SweepOK, FiledFirst, OneRowPerEpisode, [Next]_vars
    PROVE  FiledFirst'
<1> DEFINE Kept == \A e \in Episodes : episodes[e] = "done" => episodes'[e] = "done"
<1>0. \A j \in Jobs : jobs[j] \in Row /\ jobs[j].episode \in Episodes
  BY DEF IInv, JobsOK, Row
<1>1. ASSUME Kept, NEW j \in Jobs, jobs'[j].episode = jobs[j].episode,
             IsOrLandsDone(j)' => IsOrLandsDone(j)
      PROVE  IsOrLandsDone(j)' => episodes'[jobs'[j].episode] = "done"
  BY <1>0, <1>1 DEF FiledFirst
<1>2. ASSUME UNCHANGED <<jobs, episodes>>, UNCHANGED <<pc, pend>> \/ no_steps
      PROVE  FiledFirst'
  BY <1>2 DEF FiledFirst, IsOrLandsDone, no_steps
<1>3. ASSUME NEW k \in Jobs, Work(k) PROVE FiledFirst'
  <2>1. /\ Kept
        /\ pc'[k] = "land" /\ pend'[k].to = "done" => episodes'[jobs[k].episode] = "done"
    BY <1>3, WorkFiles
  <2>2. StepOK(k)
    BY <1>3, WorkOK
  <2>3. /\ exists(jobs[k]) /\ jobs'[k].state = jobs[k].state
        /\ jobs'[k].episode = jobs[k].episode
        /\ \A j \in Jobs \ {k} : \/ jobs'[j] = jobs[j]
                                 \/ jobs'[j] = deleted
                                 \/ jobs[j].state = "unborn" /\ jobs'[j].state = "search"
    BY <1>3, WorkRows
  <2>4. ASSUME NEW j \in Jobs, IsOrLandsDone(j)'
        PROVE  episodes'[jobs'[j].episode] = "done"
    <3>1. CASE j = k
      <4>1. CASE jobs[j].state = "done"
        BY <1>0, <2>1, <2>3, <3>1, <4>1 DEF FiledFirst, IsOrLandsDone
      <4>2. CASE jobs[j].state # "done"
        BY <2>1, <2>3, <2>4, <3>1, <4>2 DEF IsOrLandsDone
      <4> QED
        BY <4>1, <4>2
    <3>2. CASE j # k
      <4>1. pc'[j] = pc[j] /\ pend'[j] = pend[j]
        BY <2>2, <3>2 DEF StepOK, IInv, StepsOK
      <4>2. jobs'[j] # deleted
        BY <2>4, GoneOK DEF IsOrLandsDone, exists, JobState, ActiveState
      <4>3. jobs[j].state = "unborn" => pc[j] = "idle"
        BY DEF IInv, StepsOK, LandingsOK
      <4>4. jobs'[j] = jobs[j]
        BY <2>3, <2>4, <3>2, <4>1, <4>2, <4>3 DEF IsOrLandsDone
      <4> QED
        BY <1>1, <2>1, <2>4, <4>1, <4>4 DEF IsOrLandsDone
    <3> QED
      BY <3>1, <3>2
  <2> QED
    BY <2>4 DEF FiledFirst
<1>4. ASSUME NEW k \in Jobs, Land(k) PROVE FiledFirst'
  <2>1. UNCHANGED episodes
    BY <1>4 DEF Land
  <2>2. ASSUME NEW j \in Jobs, IsOrLandsDone(j)'
        PROVE  episodes'[jobs'[j].episode] = "done"
    <3>1. CASE j # k
      BY <1>4, <2>1, <2>2, <3>1 DEF Land, FiledFirst, IsOrLandsDone, IInv, JobsOK, StepsOK
    <3>2. CASE j = k
      <4>1. pc'[j] = "idle" /\ pc[j] = "land" /\ exists(jobs[j])
        BY <1>4, <3>2 DEF Land, IInv, StepsOK
      <4>2. \/ jobs'[j] = transition(jobs[j], pend[j].to, pend[j].reason, pend[j].opts)
            \/ jobs'[j] = reschedule(jobs[j], "soon", "other")
        BY <1>4, <3>2 DEF Land, IInv, JobsOK
      <4>3. /\ reschedule(jobs[j], "soon", "other").state = jobs[j].state
            /\ reschedule(jobs[j], "soon", "other").episode = jobs[j].episode
        BY <1>0 DEF reschedule, Row
      <4>4. jobs'[j].episode = jobs[j].episode
        BY <1>0, <4>2, <4>3, TransitionEpisode
      <4>5. IsOrLandsDone(j)
        BY <1>0, <2>2, <4>1, <4>2, <4>3, TransitionEpisode DEF IsOrLandsDone
      <4> QED
        BY <2>1, <4>4, <4>5 DEF FiledFirst
    <3> QED
      BY <3>1, <3>2
  <2> QED
    BY <2>2 DEF FiledFirst
<1>5. ASSUME NEW k \in Jobs, StepGone(k) PROVE FiledFirst'
  BY <1>5 DEF StepGone, FiledFirst, IsOrLandsDone, IInv, StepsOK
<1>6. ASSUME NEW q \in Questions, SweepRelease(q) PROVE FiledFirst'
  <2> DEFINE k == questions[q].job
  <2>1. UNCHANGED <<pc, pend>>
    BY <1>6 DEF SweepRelease, step
  <2>2. ASSUME NEW j \in Jobs, IsOrLandsDone(j)'
        PROVE  episodes'[jobs'[j].episode] = "done"
    <3>1. ~ (k = j /\ waits(jobs[j]))
      <4>1. ASSUME k = j, waits(jobs[j]) PROVE FALSE
        <5>1. pc[j] = "idle"
          BY <4>1, WaitingIsIdle DEF waits
        <5>2. \/ jobs'[j] = jobs[j]
              \/ jobs'[j] = transition(jobs[j], "failed", "other",
                                       [default EXCEPT !.reset_attempts = TRUE])
          BY <1>6 DEF SweepRelease, IInv, JobsOK
        <5>3. jobs'[j].state # "done"
          BY <1>0, <4>1, <5>2, TransitionEpisode DEF waits
        <5> QED
          BY <2>1, <2>2, <5>1, <5>3 DEF IsOrLandsDone
      <4> QED
        BY <4>1
    <3>2. jobs'[j] = jobs[j]
      BY <1>6, <3>1 DEF SweepRelease, IInv, JobsOK
    <3>3. IsOrLandsDone(j) /\ episodes[jobs[j].episode] = "done" /\ exists(jobs[j])
      BY <2>1, <2>2, <3>2 DEF IsOrLandsDone, FiledFirst, exists, JobState
    <3>4. CASE waits(jobs[k])
      <4>1. k \in Jobs => jobs[k].episode # jobs[j].episode
        BY <3>1, <3>3, <3>4 DEF OneRowPerEpisode, waits, exists, JobState
      <4>2. k \in Jobs
        BY <1>6 DEF SweepRelease, SweepOK
      <4>3. episodes' = [episodes EXCEPT ![jobs[k].episode] = "missing"]
        BY <1>6, <3>4 DEF SweepRelease
      <4> QED
        BY <1>0, <3>2, <3>3, <4>1, <4>2, <4>3 DEF IInv, RestOK
    <3>5. CASE ~waits(jobs[k])
      BY <1>6, <3>2, <3>3, <3>5 DEF SweepRelease
    <3> QED
      BY <3>4, <3>5
  <2> QED
    BY <2>2 DEF FiledFirst
<1>7. ASSUME Tick PROVE FiledFirst'
  <2>1. UNCHANGED <<episodes, pend>>
    BY <1>7 DEF Tick
  <2>2. ASSUME NEW j \in Jobs, IsOrLandsDone(j)'
        PROVE  episodes'[jobs'[j].episode] = "done"
    <3>1. pc'[j] = "land" => pc[j] = "land"
      BY <1>7 DEF Tick, IInv, StepsOK
    <3>2. jobs'[j] = jobs[j] \/ (/\ jobs[j].state = "blocked"
                                 /\ jobs'[j] = transition(jobs[j], jobs[j].blocked_from,
                                                          "none", default))
      BY <1>7 DEF Tick, resume_blocked
    <3>3. CASE jobs'[j] = jobs[j]
      BY <2>1, <2>2, <3>1, <3>3 DEF FiledFirst, IsOrLandsDone
    <3>4. CASE /\ jobs[j].state = "blocked"
               /\ jobs'[j] = transition(jobs[j], jobs[j].blocked_from, "none", default)
      <4>1. pc[j] = "idle"
        BY <3>4, WaitingIsIdle
      <4>2. jobs'[j].state # "done"
        BY <1>0, <3>4, TransitionEpisode DEF Row, ActiveState
      <4> QED
        BY <2>2, <3>1, <4>1, <4>2 DEF IsOrLandsDone
    <3> QED
      BY <3>2, <3>3, <3>4
  <2> QED
    BY <2>2 DEF FiledFirst
<1>8. ASSUME NEW k \in Jobs, ReconcileJob(k) PROVE FiledFirst'
  <2>1. UNCHANGED episodes
    BY <1>8 DEF ReconcileJob
  <2>2. ASSUME NEW j \in Jobs, IsOrLandsDone(j)'
        PROVE  episodes'[jobs'[j].episode] = "done"
    <3>1. pc'[j] # "land"
      BY <1>8 DEF ReconcileJob, visiting, step, IInv, StepsOK
    <3>2. \/ jobs'[j] = jobs[j]
          \/ /\ k = j /\ resume_at(jobs[j]) # "step"
             /\ jobs'[j] = transition(jobs[j], resume_at(jobs[j]), "none", default)
      BY <1>8 DEF ReconcileJob, IInv, JobsOK
    <3>3. resume_at(jobs[j]) # "done"
      BY DEF resume_at
    <3>4. transition(jobs[j], resume_at(jobs[j]), "none", default).state # "done"
      BY <1>0, <3>3, TransitionEpisode
    <3>5. jobs'[j].state = "done"
      BY <2>2, <3>1 DEF IsOrLandsDone
    <3> QED
      BY <2>1, <3>2, <3>4, <3>5 DEF FiledFirst, IsOrLandsDone
  <2> QED
    BY <2>2 DEF FiledFirst
<1>9. ASSUME NEW q \in Questions, NEW choice \in Choice,
             NEW t \in Torrents \cup {NoTorrent}, NEW always \in BOOLEAN,
             Answer(q, choice, t, always)
      PROVE  FiledFirst'
  <2>1. /\ Kept
        /\ \A k \in Jobs : jobs'[k].state = "done" =>
              \/ jobs'[k] = jobs[k]
              \/ episodes'[jobs'[k].episode] = "done"
    BY <1>9, AnswerFiles
  <2>2. UNCHANGED <<pc, pend>>
    BY <1>9 DEF Answer, step
  <2>3. ASSUME NEW j \in Jobs, IsOrLandsDone(j)', jobs'[j] # jobs[j]
        PROVE  jobs'[j].state = "done"
    <3>1. jobs[j].state \in {"needs_input", "failed"}
      BY <1>9, <2>3, AnswerRows
    <3>2. pc[j] = "idle"
      BY <3>1, WaitingIsIdle
    <3> QED
      BY <2>2, <2>3, <3>2 DEF IsOrLandsDone
  <2>4. ASSUME NEW j \in Jobs, IsOrLandsDone(j)'
        PROVE  episodes'[jobs'[j].episode] = "done"
    <3>1. CASE jobs'[j] = jobs[j]
      BY <1>1, <2>1, <2>2, <2>4, <3>1 DEF IsOrLandsDone
    <3>2. CASE jobs'[j] # jobs[j]
      BY <2>1, <2>3, <2>4, <3>2
    <3> QED
      BY <3>1, <3>2
  <2> QED
    BY <2>4 DEF FiledFirst
<1>10. ASSUME NEW e \in Episodes, PlanEpisode(e) PROVE FiledFirst'
  <2>1. \A k \in Jobs : \/ jobs'[k] = jobs[k]
                        \/ jobs[k].state = "unborn" /\ jobs'[k].state = "search"
    BY <1>10, EnqueueOK DEF PlanEpisode
  <2>2. UNCHANGED <<pc, pend, episodes>>
    BY <1>10 DEF PlanEpisode, step
  <2>3. \A k \in Jobs : jobs[k].state = "unborn" => pc[k] = "idle"
    BY DEF IInv, StepsOK, LandingsOK
  <2> QED
    BY <2>1, <2>2, <2>3 DEF FiledFirst, IsOrLandsDone
<1>11. ASSUME NEW k \in Jobs, Elapse(k) PROVE FiledFirst'
  <2>1. UNCHANGED <<pc, pend, episodes>>
    BY <1>11 DEF Elapse, step
  <2>2. ASSUME NEW j \in Jobs
        PROVE  jobs'[j].state = jobs[j].state /\ jobs'[j].episode = jobs[j].episode
    BY <1>0, <1>11 DEF Elapse, Row, IInv, JobsOK
  <2> QED
    BY <2>1, <2>2 DEF FiledFirst, IsOrLandsDone, exists
<1>12. ASSUME \/ SweepExpire \/ Settled \/ Start \/ Reconciled \/ ReconcileAborts
              \/ Crash \/ SetAutomation
              \/ \E t \in Torrents : RemoveTorrent(t) \/ Complete(t)
              \/ \E s \in Service : ServiceFlips(s)
       PROVE  FiledFirst'
  BY <1>2, <1>12 DEF SweepExpire, Settled, Start, Reconciled, ReconcileAborts, Crash,
     SetAutomation, RemoveTorrent, Complete, ServiceFlips, step
<1>13. CASE Daemon
  BY <1>3, <1>4, <1>5, <1>6, <1>7, <1>8, <1>12, <1>13 DEF Daemon
<1>14. CASE User
  BY <1>9, <1>10, <1>12, <1>14 DEF User
<1>15. CASE Environment
  BY <1>11, <1>12, <1>15 DEF Environment
<1>16. CASE UNCHANGED vars
  BY <1>2, <1>16 DEF vars
<1> QED
  BY <1>13, <1>14, <1>15, <1>16 DEF Next

\* A job that is done has an owned episode and keeps it, through kills,
\* launches, expiries and answers, as long as no second job is queued for the
\* episode.
THEOREM DoneStaysOwned == Spec /\ []OneRowPerEpisode => []DoneIsOwned
<1>1. Init => LoopIdle /\ SweepOK /\ FiledFirst
  <2> SUFFICES ASSUME Init PROVE LoopIdle /\ SweepOK /\ FiledFirst
    OBVIOUS
  <2>1. \A j \in Jobs : jobs[j].state \in {"search", "unborn"} /\ pc[j] = "idle"
    BY SearchRowOK, GoneOK DEF Init
  <2> QED
    BY <2>1 DEF Init, LoopIdle, SweepOK, is_open, NoQuestion, FiledFirst, IsOrLandsDone
<1>2. IInv /\ LoopIdle /\ SweepOK /\ FiledFirst /\ OneRowPerEpisode /\ [Next]_vars
        => (LoopIdle /\ SweepOK /\ FiledFirst)'
  BY LoopStaysIdle, SweepKept, FiledFirstKept
<1>3. FiledFirst => DoneIsOwned
  BY DEF FiledFirst, IsOrLandsDone, DoneIsOwned
<1> QED
  BY <1>1, <1>2, <1>3, Inductive, PTL DEF Spec
=============================================================================

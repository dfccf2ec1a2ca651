---------------------------- MODULE ReviewWorkflow ----------------------------
(***************************************************************************)
(* A code review workflow: one operation that starts the review turn, in a *)
(* given thread or in one of its own, and the status calls that bring the  *)
(* workflow row up to date and deliver the report.                         *)
(*                                                                         *)
(* The worker that executes the operation and the process that answers     *)
(* status calls may be different ones: the steps here are the parts of the *)
(* executor between two awaits, cut at the updates of the two rows, and    *)
(* the halves of a status call.                                            *)
(***************************************************************************)
EXTENDS Naturals

CONSTANTS
  MaxReviewAttempts,  \* max_attempts of the operation
  MaxReviewFaults     \* bound: how many requests, processes and children fail

ASSUME ReviewAssumption == MaxReviewAttempts \in Nat /\ MaxReviewFaults \in Nat

VARIABLES
  reviewCase,     \* what the client asked for: in a given thread? inline?
  reviewRow,      \* the row of codex_workflows
  reviewOp,       \* the row of codex_operations
  runner,         \* the executor of the operation
  reviewTurn,     \* the review turn: what is true, and the tracked row
  said,           \* the last assistant message of the thread of the review
  reviewQuestion, \* has the turn a pending interaction?
  reviewPoll,     \* the status call under way
  reviewFaults

reviewVars == <<reviewCase, reviewRow, reviewOp, runner, reviewTurn, said, reviewQuestion,
                reviewPoll, reviewFaults>>

Texts == {"none", "old", "partial", "report"}    \* old: of an earlier turn of the thread
ReviewTurns == {"none", "review", "earlier"}
OpEnded == {"completed", "failed", "unknown"}
ReviewOver == {"completed", "failed", "orphaned"}
ReviewPhases == ReviewOver \cup {"queued", "starting", "reviewing", "waiting"}

RowsUntouched == UNCHANGED <<reviewRow, reviewOp>>
ReviewOutside == <<reviewCase, reviewPoll, reviewQuestion>>
Fault == reviewFaults < MaxReviewFaults /\ reviewFaults' = reviewFaults + 1
NoReviewFault == UNCHANGED reviewFaults

----------------------------------------------------------------------------
(* The executor *)

\* _mark_review_start_unknown_after_attempt
MarkUnknown ==
  /\ reviewOp' = [reviewOp EXCEPT !.status = "unknown"]
  /\ reviewRow' = [reviewRow EXCEPT !.phase = "orphaned"]

RetryOrFail ==
  /\ reviewOp' = [reviewOp EXCEPT !.status = IF @ # "starting" THEN @
                                             ELSE IF reviewOp.attempts < MaxReviewAttempts THEN "queued" ELSE "failed"]
  /\ UNCHANGED reviewRow

\* The lease is taken; a review that was asked for once is not asked for again.
BeginReview ==
  /\ runner = "none" /\ reviewOp.status \in {"queued", "starting"}
  /\ \/ /\ reviewOp.turn # "none"
        /\ reviewOp' = [reviewOp EXCEPT !.status = "running"]
        /\ UNCHANGED <<reviewRow, runner>>
     \/ /\ reviewOp.turn = "none" /\ reviewOp.attempts = MaxReviewAttempts
        /\ reviewOp' = [reviewOp EXCEPT !.status = "failed"]
        /\ UNCHANGED <<reviewRow, runner>>
     \/ /\ reviewOp.turn = "none" /\ reviewOp.attempts < MaxReviewAttempts
        /\ reviewOp.attempted
        /\ MarkUnknown
        /\ UNCHANGED runner
     \/ /\ reviewOp.turn = "none" /\ reviewOp.attempts < MaxReviewAttempts
        /\ ~reviewOp.attempted
        /\ reviewOp' = [reviewOp EXCEPT !.status = "starting", !.attempts = @ + 1]
        /\ runner' = "begun"
        /\ UNCHANGED reviewRow
  /\ UNCHANGED <<ReviewOutside, reviewTurn, said>> /\ NoReviewFault

\* thread/start has answered, where a thread was needed, and nothing keeps it busy.
AskForReview ==
  /\ runner = "begun"
  /\ reviewOp' = [reviewOp EXCEPT !.attempted = TRUE]
  /\ reviewRow' = [reviewRow EXCEPT !.phase = "starting"]
  /\ runner' = "asked"
  /\ UNCHANGED <<ReviewOutside, reviewTurn, said>> /\ NoReviewFault

\* The app-server starts the turn: external.
ReviewStarts ==
  /\ runner = "asked" /\ reviewTurn.real = "none"
  /\ reviewTurn' = [reviewTurn EXCEPT !.real = "running"]
  /\ RowsUntouched /\ UNCHANGED <<ReviewOutside, runner, said>> /\ NoReviewFault

\* The answer: the turn is registered unless its events came first, then the operation.
ReviewAccepted ==
  /\ runner = "asked" /\ reviewTurn.real # "none"
  /\ reviewTurn' = [reviewTurn EXCEPT !.tracked = IF @ = "none" THEN "running" ELSE @]
  /\ reviewOp' = [reviewOp EXCEPT !.status = "running", !.turn = "review"]
  /\ runner' = "accepted"
  /\ UNCHANGED <<ReviewOutside, reviewRow, said>> /\ NoReviewFault

RecordReview ==
  /\ runner = "accepted"
  /\ reviewRow' = [reviewRow EXCEPT !.turn = "review", !.phase = "reviewing"]
  /\ reviewOp' = [reviewOp EXCEPT !.status = "running", !.turn = "review"]
  /\ runner' = "none"
  /\ UNCHANGED <<ReviewOutside, reviewTurn, said>> /\ NoReviewFault

\* A request fails, or the given thread is busy: an answer that leaves open whether
\* the review was started ends the operation without a verdict.
ReviewStartFails ==
  /\ Fault
  /\ \/ runner = "begun" /\ RetryOrFail
     \/ runner = "asked" /\ MarkUnknown
     \/ /\ runner = "asked" /\ reviewTurn.real = "none"
        /\ reviewOp' = [reviewOp EXCEPT !.status = "failed"]
        /\ UNCHANGED reviewRow
  /\ runner' = "none"
  /\ UNCHANGED <<ReviewOutside, reviewTurn, said>>

Lost(status) == IF status = "running" THEN "lost" ELSE status
Unknown(status) == IF status = "running" THEN "unknown" ELSE status

\* The process of the executor dies, and its app-server with it.
ExecutorDies ==
  /\ Fault
  /\ runner' = "none"
  /\ reviewTurn' = [reviewTurn EXCEPT !.real = Lost(@)]
  /\ RowsUntouched /\ UNCHANGED <<ReviewOutside, said>>

\* The child exits; its turns are written off at once.
ReviewServerExits ==
  /\ Fault /\ reviewTurn.real = "running" /\ runner = "none"
  /\ reviewTurn' = [reviewTurn EXCEPT !.real = "lost", !.tracked = Unknown(@)]
  /\ RowsUntouched /\ UNCHANGED <<ReviewOutside, runner, said>>

\* recover_startup_operations knows the operations only, not the workflows.
RecoverReview ==
  /\ runner = "none" /\ reviewOp.status = "starting"
  /\ reviewOp' = [reviewOp EXCEPT !.status = IF reviewOp.turn # "none" THEN "running"
                                             ELSE IF reviewOp.attempted THEN "unknown" ELSE "queued"]
  /\ UNCHANGED <<ReviewOutside, reviewRow, runner, reviewTurn, said>> /\ NoReviewFault

\* At the start of the next app-server.
LostReviewIsNoted ==
  /\ reviewTurn.real = "lost" /\ reviewTurn.tracked = "running"
  /\ reviewTurn' = [reviewTurn EXCEPT !.tracked = "unknown"]
  /\ RowsUntouched /\ UNCHANGED <<ReviewOutside, runner, said>> /\ NoReviewFault

----------------------------------------------------------------------------
(* The review turn *)

TurnSays ==
  /\ reviewTurn.real = "running"
  /\ said' = "partial"
  /\ reviewTurn' = [reviewTurn EXCEPT !.tracked = IF @ = "none" THEN "running" ELSE @]
  /\ RowsUntouched /\ UNCHANGED <<ReviewOutside, runner>> /\ NoReviewFault

TurnEnds ==
  /\ reviewTurn.real = "running" /\ ~reviewQuestion
  /\ \/ /\ said' = "report"
        /\ reviewTurn' = [real |-> "completed", tracked |-> "completed", final |-> "report"]
     \/ /\ reviewTurn' = [reviewTurn EXCEPT !.real = "failed", !.tracked = "failed"]
        /\ UNCHANGED said
  /\ RowsUntouched /\ UNCHANGED <<ReviewOutside, runner>> /\ NoReviewFault

ReviewAsks ==
  /\ reviewTurn.real = "running" /\ ~reviewQuestion
  /\ Fault
  /\ reviewQuestion' = TRUE
  /\ RowsUntouched /\ UNCHANGED <<reviewCase, reviewPoll, runner, reviewTurn, said>>

ReviewAnswered ==
  /\ reviewQuestion
  /\ reviewQuestion' = FALSE
  /\ RowsUntouched /\ UNCHANGED <<reviewCase, reviewPoll, runner, reviewTurn, said>> /\ NoReviewFault

----------------------------------------------------------------------------
(* codex_get_workflow_status *)

TurnStatus(t) ==
  CASE t = "none" -> "none" [] t = "earlier" -> "completed" [] t = "review" -> reviewTurn.tracked
FinalText(t) ==
  CASE t = "none" -> "none" [] t = "earlier" -> "old" [] t = "review" -> reviewTurn.final

\* _reconcile_operation_with_turn
OpReconciled ==
  LET status == TurnStatus(reviewOp.turn)
  IN  [reviewOp EXCEPT !.status = CASE status = "none" -> @
                                    [] status \in OpEnded -> status
                                    [] OTHER -> IF @ \in {"queued", "starting"} THEN @ ELSE "running"]

\* _sync_review_workflow_state, with refresh_live_state only
RowSynced(refresh) ==
  [reviewRow EXCEPT !.turn = IF refresh /\ reviewOp.turn # "none" THEN reviewOp.turn ELSE @]

RowTurn(row) == IF row.turn # "none" THEN row.turn ELSE reviewOp.turn

HasFinalOnce(row) ==
  row.report = "none" /\ TurnStatus(RowTurn(row)) = "completed" /\ FinalText(RowTurn(row)) # "none"

\* Is there a report of the row's turn?
HasFinal(row) == TurnStatus(RowTurn(row)) = "completed" /\ FinalText(RowTurn(row)) # "none"

\* The transcript is asked when there is no report yet and the thread is known.
FromHistory(row) ==
  ~HasFinal(row) /\ row.report = "none" /\ said # "none" /\ RowTurn(row) # "none"

Speaker == IF said = "old" THEN "earlier" ELSE "review"

WithReport(row) ==
  IF HasFinal(row) THEN [row EXCEPT !.report = FinalText(RowTurn(row))]
  ELSE IF FromHistory(row) THEN [row EXCEPT !.report = said, !.turn = Speaker]
  ELSE row

VerdictIfHeard(status, else) == IF status \in {"completed", "failed"} THEN status ELSE else

\* The phase of a turn or an operation that has ended, or `else`.
Verdict(status, else) ==
  CASE status = "completed" -> "completed"
    [] status = "failed" -> "failed"
    [] status = "unknown" -> "orphaned"
    [] OTHER -> else

\* _derive_review_workflow_phase
ReviewPhase(row, o) ==
  IF reviewQuestion THEN "waiting"
  ELSE IF row.report # "none" THEN "completed"
  ELSE IF TurnStatus(RowTurn(row)) # "none" THEN Verdict(TurnStatus(RowTurn(row)), "reviewing")
  ELSE Verdict(o.status, CASE o.status = "queued" -> "queued"
                           [] o.status = "starting" -> "starting"
                           [] OTHER -> "reviewing")

\* Up to the phase: the report of a thread's transcript also completes the turn that
\* spoke last, and the operation.
StatusCallReads(refresh) ==
  /\ reviewPoll = "idle"
  /\ LET synced == RowSynced(refresh)
         row == WithReport(synced)
         history == FromHistory(synced)
         o == IF history /\ OpReconciled.status \notin {"failed", "unknown"}
              THEN [OpReconciled EXCEPT !.status = "completed", !.turn = Speaker]
              ELSE OpReconciled
     IN  /\ reviewRow' = row
         /\ reviewOp' = o
         /\ IF history /\ Speaker = "review"
            THEN reviewTurn' = [reviewTurn EXCEPT !.tracked = "completed", !.final = said]
            ELSE UNCHANGED reviewTurn
         /\ IF refresh THEN reviewPoll' = ReviewPhase(row, o) ELSE UNCHANGED reviewPoll
  /\ UNCHANGED <<reviewCase, runner, said, reviewQuestion>> /\ NoReviewFault

\* The phase is written as it was derived.
StatusCallWrites ==
  /\ reviewPoll # "idle"
  /\ reviewRow' = [reviewRow EXCEPT !.phase = reviewPoll]
  /\ reviewPoll' = "idle"
  /\ UNCHANGED <<reviewCase, reviewOp, runner, reviewTurn, said, reviewQuestion>> /\ NoReviewFault

----------------------------------------------------------------------------
\* codex_start_review_workflow has written both rows.
ReviewInit ==
  /\ reviewCase \in [given : BOOLEAN, inline : BOOLEAN]
  /\ reviewRow = [phase |-> "queued", turn |-> "none", report |-> "none"]
  /\ reviewOp = [status |-> "queued", attempted |-> FALSE, turn |-> "none", attempts |-> 0]
  /\ runner = "none"
  /\ reviewTurn = [real |-> "none", tracked |-> "none", final |-> "none"]
  /\ said \in IF reviewCase.given /\ reviewCase.inline THEN {"none", "old"} ELSE {"none"}
  /\ reviewQuestion = FALSE
  /\ reviewPoll = "idle"
  /\ reviewFaults = 0

Executes ==
  \/ BeginReview \/ AskForReview \/ ReviewStarts \/ ReviewAccepted \/ RecordReview
  \/ RecoverReview \/ LostReviewIsNoted

ReviewFails == ReviewStartFails \/ ExecutorDies \/ ReviewServerExits

ReviewNext ==
  \/ Executes \/ ReviewFails
  \/ TurnSays \/ TurnEnds \/ ReviewAsks \/ ReviewAnswered
  \/ \E refresh \in BOOLEAN : StatusCallReads(refresh)
  \/ StatusCallWrites

\* The executor and the app-server go on, turns end, people answer, clients poll.
ReviewFairness ==
  /\ WF_reviewVars(Executes)
  /\ WF_reviewVars(TurnEnds \/ ReviewAnswered)
  /\ WF_reviewVars(StatusCallReads(TRUE) \/ StatusCallWrites)

ReviewSpec == ReviewInit /\ [][ReviewNext]_reviewVars /\ ReviewFairness

----------------------------------------------------------------------------
(* Properties *)

ReviewTypeOK ==
  /\ reviewCase \in [given : BOOLEAN, inline : BOOLEAN]
  /\ reviewRow \in [phase : ReviewPhases, turn : ReviewTurns, report : Texts]
  /\ reviewOp \in [status : OpEnded \cup {"queued", "starting", "running"},
                   attempted : BOOLEAN, turn : ReviewTurns, attempts : 0 .. MaxReviewAttempts]
  /\ runner \in {"none", "begun", "asked", "accepted"}
  /\ reviewTurn \in [real : {"none", "running", "lost", "completed", "failed"},
                     tracked : {"none", "running"} \cup OpEnded, final : Texts]
  /\ said \in Texts
  /\ reviewQuestion \in BOOLEAN
  /\ reviewPoll \in ReviewPhases \cup {"idle"}
  /\ reviewFaults \in 0 .. MaxReviewFaults

\* Whatever fails, a client that goes on asking is told how the review ended, and is
\* not told otherwise afterwards.
ReviewSettles == [](reviewOp.attempts > 0 => <>[](reviewRow.phase \in ReviewOver))

\* The report of a completed review reaches the row once the operation knows the turn,
\* also when the process that executes it dies before it has told the workflow, and
\* when a part of it was taken for the report before.  (Not where the thread has an
\* earlier answer: see ReportAfterTheEnd.)
ReportDelivered ==
  []((reviewOp.turn = "review" /\ reviewTurn.real = "completed" /\ ~(reviewCase.given /\ reviewCase.inline))
       => <>(reviewRow.report = "report"))

\* "When the review turn completes, MCP extracts the final assistant message into
\* finalReport" (docs/API_CONTRACT.md:573): no report before that.
ReportAfterTheEnd ==
  reviewRow.report # "none" => reviewTurn.real \notin {"none", "running"}

=============================================================================

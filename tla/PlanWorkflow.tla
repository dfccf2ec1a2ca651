----------------------------- MODULE PlanWorkflow -----------------------------
(***************************************************************************)
(* Plan Mode workflows: a plan operation whose turn proposes a plan, the   *)
(* approval that submits one execution operation, the adoption of a plan   *)
(* that was made by hand in the same thread, and the status calls that     *)
(* copy what the operations and turns show into the workflow row.          *)
(*                                                                         *)
(* One workflow, i.e. the calls that carry one client_request_id.  The     *)
(* calls are not async between their awaits, so calls of one process do    *)
(* not interleave; those of another process on the same database run       *)
(* between any two transactions.  Submission, with its refusal of active   *)
(* duplicates, is one step here: PromptDedup models its inside.  The       *)
(* attempts of an operation are modelled by OperationQueue: here it starts *)
(* one turn, named like the operation, or fails.                           *)
(***************************************************************************)
EXTENDS Naturals, FiniteSets

CONSTANTS
  MaxOps,      \* bound: how many operations may be submitted
  Manual,      \* a turn that a person starts in the thread of the workflow
  Procs,       \* server processes that clients call
  Requests,    \* client_request_id values of approvals
  Crashes,     \* what may be cut short: "call", a client's call; "turn", an
               \* operation whose turn has started
  MaxCrashes,  \* bound: how many crashes there may be
  MaxAdopts,   \* bound: how often a client adopts
  Verdicts,    \* how turns end, of Ended
  Proposals,   \* what a plan turn proposes, of Qualities
  None

Ops == 1 .. MaxOps   \* operation ids, and the turns of these operations

ASSUME NoSuchOp == MaxOps \in Nat /\ None \notin Ops \cup {Manual} /\ Manual \notin Ops

VARIABLES
  wf,        \* the row of codex_workflows
  op,        \* the rows of codex_operations that belong to it
  turn,      \* tracked status of each turn
  plan,      \* classification of the turn's latest plan item, "none" without one
  final,     \* what the turn's last message would be classified as
  question,  \* has the thread a pending interaction?
  call,      \* the call each process is executing
  crashes, adopts

vars == <<wf, op, turn, plan, final, question, call, crashes, adopts>>
world == <<turn, plan, final, question>>
bounds == <<crashes, adopts>>

Turns == Ops \cup {Manual}
Ended == {"completed", "failed", "unknown"}   \* failed: aborted, cancelled, interrupted too
Qualities == {"valid", "blocker", "review"}   \* review: question, partial and unknown too
Planned == {"plan_ready", "plan_needs_review", "failed", "orphaned"}
Phases == Planned \cup {"planning", "plan_candidate_found", "waiting", "executing", "completed"}
Places == {"idle", "create", "observe", "write", "submit", "record", "adopt"}

ASSUME KnownOutcomes == Verdicts \subseteq Ended /\ Proposals \subseteq Qualities /\ MaxAdopts \in Nat

NoOp == [kind |-> "none", status |-> "none", turn |-> None, request |-> None, plan |-> None]
NoRow == [exists |-> FALSE, planOp |-> None, planTurn |-> None, execOp |-> None,
          execTurn |-> None, hash |-> None, phase |-> "planning"]
Idle == [pc |-> "idle", op |-> None, phase |-> "planning", request |-> None, plan |-> None]

----------------------------------------------------------------------------
(* What the status call derives from the rows. *)

TurnOf(o) == IF o = None THEN None ELSE op[o].turn
PlanTurn(w) == IF w.planTurn # None THEN w.planTurn ELSE TurnOf(w.planOp)
ExecTurn(w) == IF w.execTurn # None THEN w.execTurn ELSE TurnOf(w.execOp)

\* The two operations win over what the row says.
Synced(w) ==
  [w EXCEPT !.planTurn = IF TurnOf(w.planOp) # None THEN TurnOf(w.planOp) ELSE @,
            !.execTurn = IF TurnOf(w.execOp) # None THEN TurnOf(w.execOp) ELSE @]

\* The phase that shows the end of a turn or an operation, or `else`.
ByEnd(status, else) ==
  CASE status = "completed" -> "completed"
    [] status = "failed" -> "failed"
    [] status = "unknown" -> "orphaned"
    [] OTHER -> else

ByPlan(quality) ==
  CASE quality = "valid" -> "plan_ready"
    [] quality = "blocker" -> "failed"
    [] quality = "review" -> "plan_needs_review"

\* A valid plan of another turn of the thread.
Candidates(w) ==
  IF PlanTurn(w) = None THEN {}
  ELSE {t \in {Manual, w.planOp} \ {PlanTurn(w)} : plan[t] = "valid"}

OwnPlanPhase(w) ==
  LET t == PlanTurn(w)
      quality == IF t = None THEN "none" ELSE plan[t]
      status  == IF t = None THEN "none" ELSE turn[t]
  IN  IF quality \in Qualities THEN ByPlan(quality)
      ELSE IF status \in {"failed", "unknown"} THEN ByEnd(status, "planning")
      ELSE IF status = "completed" /\ quality = "none" THEN "failed"
      ELSE IF op[w.planOp].status \in {"failed", "unknown"} THEN ByEnd(op[w.planOp].status, "planning")
      ELSE "planning"

PlanPhase(w) ==
  IF Candidates(w) # {} /\ OwnPlanPhase(w) \in Planned THEN "plan_candidate_found" ELSE OwnPlanPhase(w)

\* _derive_workflow_phase and the correction for candidates after it.
DerivePhase(w) ==
  IF question THEN "waiting"
  ELSE IF ExecTurn(w) # None THEN ByEnd(turn[ExecTurn(w)], "executing")
  ELSE IF w.execOp # None THEN ByEnd(op[w.execOp].status, "executing")
  ELSE PlanPhase(w)

\* An operation with an ended turn takes its verdict when it is looked at.
Reconciled ==
  [o \in Ops |-> IF op[o].turn # None /\ op[o].status = "running" /\ turn[op[o].turn] \in Ended
                 THEN [op[o] EXCEPT !.status = turn[op[o].turn]] ELSE op[o]]

\* Operations get their ids in the order of submission; no id is left after MaxOps.
Fresh == Cardinality({o \in Ops : op[o].kind # "none"}) + 1

Active(o) == op[o].status \in {"queued", "running"}
Queue(o, kind, request, t) ==
  op' = [op EXCEPT ![o] = [kind |-> kind, status |-> "queued", turn |-> None,
                           request |-> request, plan |-> t]]

Goto(p, pc) == call' = [call EXCEPT ![p].pc = pc]
Return(p) == call' = [call EXCEPT ![p] = Idle]

----------------------------------------------------------------------------
(* codex_start_plan_workflow *)

\* No row: the plan operation is submitted, unless one with this prompt is active.
\* With a row the call is a status call (Observe).
Start(p, o) ==
  /\ call[p].pc = "idle" /\ ~wf.exists
  /\ o = Fresh
  /\ ~\E q \in Ops : op[q].kind = "plan" /\ Active(q)
  /\ Queue(o, "plan", None, None)
  /\ call' = [call EXCEPT ![p] = [Idle EXCEPT !.pc = "create", !.op = o]]
  /\ UNCHANGED <<wf, world, bounds>>

\* client_request_id is UNIQUE: the second insert fails and so does its call.
CreateWorkflow(p) ==
  /\ call[p].pc = "create"
  /\ IF wf.exists
     THEN Return(p) /\ UNCHANGED wf
     ELSE /\ wf' = [NoRow EXCEPT !.exists = TRUE, !.planOp = call[p].op]
          /\ call' = [call EXCEPT ![p] = [Idle EXCEPT !.pc = "observe"]]
  /\ UNCHANGED <<op, world, bounds>>

----------------------------------------------------------------------------
(* codex_get_workflow_status, and the end of every other call             *)

\* Sync of the row, the fallback plan of a completed turn, the plan's hash, and
\* the phase that follows from all of them, which is written later: the row
\* itself is read, and written, by several processes.
Observe(p) ==
  /\ call[p].pc \in {"idle", "observe"} /\ wf.exists
  /\ LET w == Synced(wf)
         t == PlanTurn(w)
         missing == t # None /\ turn[t] = "completed" /\ plan[t] = "none"
         quality == IF t = None THEN "none" ELSE IF missing THEN final[t] ELSE plan[t]
     IN  /\ plan' = IF missing THEN [plan EXCEPT ![t] = quality] ELSE plan
         /\ wf' = IF quality = "none" THEN w ELSE [w EXCEPT !.hash = t]
  /\ op' = Reconciled
  /\ UNCHANGED <<turn, final, question, bounds>>
  /\ call' = [call EXCEPT ![p] = [Idle EXCEPT !.pc = "write", !.phase = DerivePhase(wf)']]

WriteUnlessOver(p) ==
  /\ call[p].pc = "write"
  /\ wf' = [wf EXCEPT !.phase = IF @ \in {"completed", "failed"} THEN @ ELSE call[p].phase]
  /\ Return(p)
  /\ UNCHANGED <<op, world, bounds>>

WritePhase(p) ==
  /\ call[p].pc = "write"
  /\ wf' = [wf EXCEPT !.phase = call[p].phase]
  /\ Return(p)
  /\ UNCHANGED <<op, world, bounds>>

----------------------------------------------------------------------------
(* codex_approve_plan *)

\* Execution is under way or over: nothing new is submitted.
ApproveAgain(p) ==
  /\ call[p].pc = "idle" /\ wf.exists
  /\ Synced(wf).execOp # None \/ Synced(wf).execTurn # None
  /\ wf' = Synced(wf) /\ op' = Reconciled
  /\ UNCHANGED <<call, world, bounds>>

MayApproveAny(w) == w.execOp = None /\ w.execTurn = None /\ w.planTurn # None /\ plan[w.planTurn] # "none"
MayApprove(w) == w.execOp = None /\ w.execTurn = None /\ w.planTurn # None /\ plan[w.planTurn] = "valid"

\* The synced row has a completed, valid plan.  The request id is the caller's,
\* the recorded one, or one made from the workflow id.
Approve(p, request) ==
  /\ call[p].pc = "idle" /\ wf.exists
  /\ MayApprove(Synced(wf)) /\ Fresh \in Ops
  /\ wf' = Synced(wf)
  /\ call' = [call EXCEPT ![p] = [Idle EXCEPT !.pc = "submit", !.request = request,
                                         !.plan = wf'.planTurn]]
  /\ UNCHANGED <<op, world, bounds>>

\* An operation with this request id is the answer ...
SubmitAgain(p) ==
  /\ call[p].pc = "submit"
  /\ \E o \in Ops : /\ op[o].kind = "exec" /\ op[o].request = call[p].request
                    /\ call' = [call EXCEPT ![p].pc = "record", ![p].op = o]
  /\ UNCHANGED <<wf, op, world, bounds>>

\* ... an active one with the same plan (or the bound) refuses the call ...
SubmitRefused(p) ==
  /\ call[p].pc = "submit"
  /\ ~\E o \in Ops : op[o].kind = "exec" /\ op[o].request = call[p].request
  /\ Fresh \notin Ops \/ \E o \in Ops : op[o].kind = "exec" /\ op[o].plan = wf.planTurn /\ Active(o)
  /\ Return(p)
  /\ UNCHANGED <<wf, op, world, bounds>>

\* ... and otherwise one is created.
SubmitTask(p, o) ==
  /\ call[p].pc = "submit"
  /\ ~\E q \in Ops : /\ op[q].kind = "exec"
                     /\ op[q].request = call[p].request \/ (op[q].plan = wf.planTurn /\ Active(q))
  /\ o = Fresh
  /\ Queue(o, "exec", call[p].request, wf.planTurn)
  /\ call' = [call EXCEPT ![p].pc = "record", ![p].op = o]
  /\ UNCHANGED <<wf, world, bounds>>

RecordApproval(p) ==
  /\ call[p].pc = "record"
  /\ wf' = [wf EXCEPT !.execOp = call[p].op, !.hash = call[p].plan, !.phase = "executing"]
  /\ call' = [call EXCEPT ![p] = [Idle EXCEPT !.pc = "observe"]]
  /\ UNCHANGED <<op, world, bounds>>

----------------------------------------------------------------------------
(* codex_adopt_workflow_plan *)

MayAdopt == wf.execOp = None /\ wf.execTurn = None /\ plan[Manual] = "valid"

\* The checks, on the row as it was read.
Adopt(p) ==
  /\ call[p].pc = "idle" /\ wf.exists
  /\ MayAdopt
  /\ adopts < MaxAdopts
  /\ adopts' = adopts + 1
  /\ call' = [call EXCEPT ![p] = [Idle EXCEPT !.pc = "adopt"]]
  /\ UNCHANGED <<wf, op, world, crashes>>

RecordAdoption(p) ==
  /\ call[p].pc = "adopt"
  /\ wf' = [wf EXCEPT !.planTurn = Manual, !.hash = Manual, !.phase = "plan_ready"]
  /\ call' = [call EXCEPT ![p] = [Idle EXCEPT !.pc = "observe"]]
  /\ UNCHANGED <<op, world, bounds>>

----------------------------------------------------------------------------
(* The operations, in whichever process holds their lease *)

ThreadBusy == \E t \in Turns : turn[t] = "running"

\* The process that started a turn dies before it updates the workflow row.
RowUpdate(w) ==
  \/ wf' = w /\ UNCHANGED crashes
  \/ /\ "turn" \in Crashes \ crashes /\ Cardinality(crashes) < MaxCrashes
     /\ crashes' = crashes \cup {"turn"}
     /\ UNCHANGED wf

PlanStarts(o) ==
  /\ op[o].kind = "plan" /\ op[o].status = "queued"
  /\ turn' = [turn EXCEPT ![o] = "running"]
  /\ op' = [op EXCEPT ![o].status = "running", ![o].turn = o]
  /\ RowUpdate(IF wf.exists /\ wf.planOp = o
               THEN [wf EXCEPT !.planTurn = o, !.phase = "planning"] ELSE wf)
  /\ UNCHANGED <<plan, final, question, call, adopts>>

MayExecuteOwn == TRUE

\* codex_execute_plan reads the row again: if it names an execution turn, the
\* operation becomes running without a turn of its own.
MayExecute == wf.execTurn = None

ExecStarts(o) ==
  /\ op[o].kind = "exec" /\ op[o].status = "queued"
  /\ MayExecute /\ ~ThreadBusy
  /\ turn' = [turn EXCEPT ![o] = "running"]
  /\ op' = [op EXCEPT ![o].status = "running", ![o].turn = o]
  /\ RowUpdate([wf EXCEPT !.execTurn = o, !.execOp = IF @ = None THEN o ELSE @,
                          !.phase = "executing"])
  /\ UNCHANGED <<plan, final, question, call, adopts>>

ExecFindsTurn(o) ==
  /\ op[o].kind = "exec" /\ op[o].status = "queued" /\ wf.execTurn # None
  /\ op' = [op EXCEPT ![o].status = "running"]
  /\ UNCHANGED <<wf, world, call, bounds>>

\* Every attempt failed, for instance because the thread stayed busy.
OperationFails(o) ==
  /\ op[o].status = "queued"
  /\ op' = [op EXCEPT ![o].status = "failed"]
  /\ UNCHANGED <<wf, world, call, bounds>>

----------------------------------------------------------------------------
(* Codex and the people at its desktop application: external *)

ItemPlanned(o, quality) ==
  /\ op[o].kind = "plan" /\ turn[o] = "running" /\ plan[o] = "none"
  /\ plan' = [plan EXCEPT ![o] = quality]
  /\ UNCHANGED <<wf, op, turn, final, question, call, bounds>>

\* What the last message says matters for a plan turn without a plan item.
TurnEnds(o, status, text) ==
  /\ turn[o] = "running"
  /\ text # "none" => op[o].kind = "plan" /\ status = "completed" /\ plan[o] = "none"
  /\ turn' = [turn EXCEPT ![o] = status]
  /\ final' = [final EXCEPT ![o] = text]
  /\ question' = FALSE
  /\ UNCHANGED <<wf, op, plan, call, bounds>>

\* A person has a plan made in the thread, between two turns of the operations.
ManualTurn ==
  /\ turn[Manual] = "none" /\ wf.planTurn # None /\ ~ThreadBusy
  /\ turn' = [turn EXCEPT ![Manual] = "completed"]
  /\ plan' = [plan EXCEPT ![Manual] = "valid"]
  /\ UNCHANGED <<wf, op, final, question, call, bounds>>

Ask ==
  /\ ThreadBusy /\ ~question
  /\ question' = TRUE
  /\ UNCHANGED <<wf, op, turn, plan, final, call, bounds>>

Answer ==
  /\ question /\ question' = FALSE
  /\ UNCHANGED <<wf, op, turn, plan, final, call, bounds>>

\* Elsewhere a call has nothing to lose but a refresh that the next one repeats.
Crash(p) ==
  /\ call[p].pc \in {"create", "submit", "record"}
  /\ "call" \in Crashes \ crashes /\ Cardinality(crashes) < MaxCrashes
  /\ crashes' = crashes \cup {"call"}
  /\ Return(p)
  /\ UNCHANGED <<wf, op, world, adopts>>

----------------------------------------------------------------------------
Init ==
  /\ wf = NoRow
  /\ op = [o \in Ops |-> NoOp]
  /\ turn = [t \in Turns |-> "none"]
  /\ plan = [t \in Turns |-> "none"]
  /\ final = [t \in Turns |-> "none"]
  /\ question = FALSE
  /\ call = [p \in Procs |-> Idle]
  /\ crashes = {} /\ adopts = 0

\* The steps of a call that has begun.
Proceed(p) ==
  \/ CreateWorkflow(p) \/ Observe(p) \/ WritePhase(p)
  \/ SubmitAgain(p) \/ SubmitRefused(p) \/ RecordApproval(p) \/ RecordAdoption(p)
  \/ \E o \in Ops : SubmitTask(p, o)

Execute(o) == PlanStarts(o) \/ ExecStarts(o) \/ ExecFindsTurn(o) \/ OperationFails(o)

SomeTurnEnds ==
  \E o \in Ops, s \in Verdicts, q \in Proposals \cup {"none"} : TurnEnds(o, s, q)

Next ==
  \/ \E p \in Procs :
       \/ Proceed(p) \/ ApproveAgain(p) \/ Adopt(p) \/ Crash(p)
       \/ \E o \in Ops : Start(p, o)
       \/ \E r \in Requests : Approve(p, r)
  \/ \E o \in Ops : Execute(o)
  \/ \E o \in Ops, q \in Proposals : ItemPlanned(o, q)
  \/ SomeTurnEnds \/ ManualTurn \/ Ask \/ Answer

Spec == Init /\ [][Next]_vars

\* Clients poll until the workflow is over, calls end, operations are executed
\* (OperationQueue and CentralWorker show that) and turns end; nobody has to
\* approve, adopt, ask or answer.
FairSpec ==
  /\ Spec
  /\ \A p \in Procs : WF_vars(Proceed(p))
  /\ WF_vars(\E o \in Ops : Execute(o))
  /\ WF_vars(SomeTurnEnds)

----------------------------------------------------------------------------
(* Properties *)

TypeOK ==
  /\ wf \in [exists : BOOLEAN, planOp : Ops \cup {None}, planTurn : Turns \cup {None},
            execOp : Ops \cup {None}, execTurn : Ops \cup {None},
            hash : Turns \cup {None}, phase : Phases]
  /\ op \in [Ops -> [kind : {"none", "plan", "exec"},
                     status : {"none", "queued", "running"} \cup Ended, turn : Ops \cup {None},
                     request : Requests \cup {None}, plan : Turns \cup {None}]]
  /\ turn \in [Turns -> {"none", "running"} \cup Ended]
  /\ plan \in [Turns -> {"none"} \cup Qualities] /\ final \in [Turns -> {"none"} \cup Qualities]
  /\ question \in BOOLEAN
  /\ call \in [Procs -> [pc : Places, op : Ops \cup {None}, phase : Phases,
                         request : Requests \cup {None}, plan : Turns \cup {None}]]
  /\ crashes \subseteq Crashes /\ adopts \in 0 .. MaxAdopts

\* "Repeated approve for the same workflow must not create a second execution
\* turn" (docs/OPENCLAW_CLIENT_GUIDE.md:695), whichever request ids and processes
\* the approvals use, and also when one of them dies half way.  What can go wrong
\* is the row not being told of a turn that has started.
OneExecution ==
  "turn" \notin crashes => Cardinality({o \in Ops : op[o].kind = "exec" /\ turn[o] # "none"}) <= 1

\* What is executed was a valid plan when it was submitted, and the row names the
\* plan that was approved.  An adoption between the checks of an approval and its
\* submission may make the two differ, but neither can be a plan that is not valid.
ExecutesAnApprovedPlan ==
  \A o \in Ops : op[o].kind = "exec" =>
    /\ op[o].plan # None /\ plan[op[o].plan] = "valid"
    /\ wf.execOp = o /\ "call" \notin crashes /\ (\A p \in Procs : call[p].pc = "idle")
         => IF adopts = 0 THEN wf.hash = op[o].plan ELSE plan[wf.hash] = "valid"

\* Whatever calls overlap, the row's phase ends up as what its operations and
\* turns show.
PhaseConverges == <>[](wf.exists => wf.phase = DerivePhase(wf))

\* "codex_adopt_workflow_plan updates the workflow's official plan turn ... After
\* adoption, poll codex_get_workflow_status again and use the normal approve path"
\* (docs/API_CONTRACT.md:452): when the call has returned the plan is the official one.
AdoptionHolds ==
  adopts > 0 /\ crashes = {} /\ wf.execOp = None /\ (\A p \in Procs : call[p].pc = "idle")
    => wf.planTurn = Manual

=============================================================================

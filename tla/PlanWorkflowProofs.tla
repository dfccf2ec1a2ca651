-------------------------- MODULE PlanWorkflowProofs --------------------------
(***************************************************************************)
(* A plan is executed once, for any number of operations, processes that   *)
(* clients call, request ids of approvals, adoptions and crashes of calls. *)
(***************************************************************************)
EXTENDS PlanWorkflow, FiniteSetTheorems, TLAPS

WfRow == [exists : BOOLEAN, planOp : Ops \cup {None}, planTurn : Turns \cup {None},
          execOp : Ops \cup {None}, execTurn : Ops \cup {None},
          hash : Turns \cup {None}, phase : Phases]
OpRow == [kind : {"none", "plan", "exec"}, status : {"none", "queued", "running"} \cup Ended,
          turn : Ops \cup {None}, request : Requests \cup {None}, plan : Turns \cup {None}]
CallRow == [pc : Places, op : Ops \cup {None}, phase : Phases,
            request : Requests \cup {None}, plan : Turns \cup {None}]

\* Ids are given in the order of submission, so a fresh one names no operation.
IdsInv == \E n \in 0..MaxOps : \A o \in Ops : op[o].kind # "none" <=> o <= n

\* A turn belongs to the operation of its name, and an operation names a turn
\* that was started.
TurnInv ==
  \A o \in Ops :
    /\ op[o].turn \in {None, o}
    /\ op[o].turn = o => turn[o] # "none"
    /\ turn[o] # "none" => op[o].kind # "none"

\* What is recorded, or about to be, as the execution is an execution.
NamesInv ==
  /\ wf.execOp # None => op[wf.execOp].kind = "exec"
  /\ \A p \in Procs : call[p].pc = "record" => call[p].op \in Ops /\ op[call[p].op].kind = "exec"

\* Nothing is executed before the row exists.
ExistsInv ==
  /\ \A o \in Ops : op[o].kind = "exec" => wf.exists
  /\ \A p \in Procs : call[p].pc = "submit" => wf.exists

\* The row names the execution turn that was started.
StartedInv ==
  "turn" \notin crashes => \A o \in Ops : op[o].kind = "exec" /\ turn[o] # "none" => wf.execTurn = o

PlanInv == TypeOK /\ IdsInv /\ TurnInv /\ NamesInv /\ ExistsInv /\ StartedInv

-----------------------------------------------------------------------------
(* Types *)

LEMMA TypesOfRows ==
  TypeOK <=>
    /\ wf \in WfRow /\ op \in [Ops -> OpRow] /\ call \in [Procs -> CallRow]
    /\ turn \in [Turns -> {"none", "running"} \cup Ended]
    /\ plan \in [Turns -> {"none"} \cup Qualities] /\ final \in [Turns -> {"none"} \cup Qualities]
    /\ question \in BOOLEAN /\ crashes \subseteq Crashes /\ adopts \in 0 .. MaxAdopts
  BY DEF TypeOK, WfRow, OpRow, CallRow

LEMMA NewTypes ==
  ASSUME wf' \in WfRow, op' \in [Ops -> OpRow], call' \in [Procs -> CallRow],
         turn' \in [Turns -> {"none", "running"} \cup Ended],
         plan' \in [Turns -> {"none"} \cup Qualities], final' \in [Turns -> {"none"} \cup Qualities],
         question' \in BOOLEAN, crashes' \subseteq Crashes, adopts' \in 0 .. MaxAdopts
  PROVE  TypeOK'
  BY DEF TypeOK, WfRow, OpRow, CallRow

LEMMA IdleRow == Idle \in CallRow
  BY DEF Idle, CallRow, Places, Phases, Planned

\* A call that moves keeps what it carries.
LEMMA CallMoves ==
  ASSUME call \in [Procs -> CallRow], NEW p \in Procs, NEW pc \in Places
  PROVE  /\ [call EXCEPT ![p].pc = pc] \in [Procs -> CallRow]
         /\ [call EXCEPT ![p].pc = pc][p].op = call[p].op
<1>1. [call[p] EXCEPT !.pc = pc] \in CallRow /\ [call[p] EXCEPT !.pc = pc].op = call[p].op
  BY DEF CallRow
<1> QED
  BY <1>1

\* A call whose record is written anew.
LEMMA CallSet ==
  ASSUME call \in [Procs -> CallRow], NEW p \in Procs, NEW row \in CallRow,
         call' = [call EXCEPT ![p] = row]
  PROVE  /\ call' \in [Procs -> CallRow] /\ call'[p] = row
         /\ \A q \in Procs : q # p => call'[q] = call[q]
  OBVIOUS

\* A synced row differs in the two turns only.
LEMMA SyncedRow ==
  ASSUME TypeOK
  PROVE  /\ Synced(wf) \in WfRow
         /\ Synced(wf).exists = wf.exists /\ Synced(wf).execOp = wf.execOp
         /\ Synced(wf).planOp = wf.planOp /\ Synced(wf).hash = wf.hash
         /\ Synced(wf).planTurn = IF TurnOf(wf.planOp) # None THEN TurnOf(wf.planOp) ELSE wf.planTurn
         /\ Synced(wf).execTurn = IF TurnOf(wf.execOp) # None THEN TurnOf(wf.execOp) ELSE wf.execTurn
<1>1. wf \in WfRow
  BY TypesOfRows
<1>2. \A o \in Ops \cup {None} : TurnOf(o) \in Ops \cup {None}
  BY DEF TypeOK, TurnOf
<1>3. TurnOf(wf.planOp) \in Ops \cup {None} /\ TurnOf(wf.execOp) \in Ops \cup {None}
  BY <1>1, <1>2 DEF WfRow
<1>4. ASSUME NEW a \in Turns \cup {None}, NEW b \in Ops \cup {None}
      PROVE  /\ [wf EXCEPT !.planTurn = a, !.execTurn = b] \in WfRow
             /\ [wf EXCEPT !.planTurn = a, !.execTurn = b].exists = wf.exists
             /\ [wf EXCEPT !.planTurn = a, !.execTurn = b].execOp = wf.execOp
             /\ [wf EXCEPT !.planTurn = a, !.execTurn = b].planOp = wf.planOp
             /\ [wf EXCEPT !.planTurn = a, !.execTurn = b].hash = wf.hash
             /\ [wf EXCEPT !.planTurn = a, !.execTurn = b].planTurn = a
             /\ [wf EXCEPT !.planTurn = a, !.execTurn = b].execTurn = b
  BY <1>1 DEF WfRow
<1> DEFINE a == IF TurnOf(wf.planOp) # None THEN TurnOf(wf.planOp) ELSE wf.planTurn
           b == IF TurnOf(wf.execOp) # None THEN TurnOf(wf.execOp) ELSE wf.execTurn
<1>5. a \in Turns \cup {None} /\ b \in Ops \cup {None}
  BY <1>1, <1>3 DEF WfRow, Turns
<1>6. Synced(wf) = [wf EXCEPT !.planTurn = a, !.execTurn = b]
  BY DEF Synced
<1>7. /\ a = IF TurnOf(wf.planOp) # None THEN TurnOf(wf.planOp) ELSE wf.planTurn
      /\ b = IF TurnOf(wf.execOp) # None THEN TurnOf(wf.execOp) ELSE wf.execTurn
  OBVIOUS
<1> HIDE DEF a, b
<1>8. /\ [wf EXCEPT !.planTurn = a, !.execTurn = b] \in WfRow
      /\ [wf EXCEPT !.planTurn = a, !.execTurn = b].exists = wf.exists
      /\ [wf EXCEPT !.planTurn = a, !.execTurn = b].execOp = wf.execOp
      /\ [wf EXCEPT !.planTurn = a, !.execTurn = b].planOp = wf.planOp
      /\ [wf EXCEPT !.planTurn = a, !.execTurn = b].hash = wf.hash
      /\ [wf EXCEPT !.planTurn = a, !.execTurn = b].planTurn = a
      /\ [wf EXCEPT !.planTurn = a, !.execTurn = b].execTurn = b
  BY <1>4, <1>5
<1>9. /\ Synced(wf) \in WfRow /\ Synced(wf).exists = wf.exists /\ Synced(wf).execOp = wf.execOp
      /\ Synced(wf).planOp = wf.planOp /\ Synced(wf).hash = wf.hash
      /\ Synced(wf).planTurn = a /\ Synced(wf).execTurn = b
  BY <1>6, <1>8
<1> QED
  BY <1>7, <1>9

\* Reconciliation writes statuses only.
LEMMA ReconciledRows ==
  ASSUME TypeOK
  PROVE  /\ Reconciled \in [Ops -> OpRow]
         /\ \A o \in Ops : /\ Reconciled[o].kind = op[o].kind
                            /\ Reconciled[o].turn = op[o].turn /\ Reconciled[o].plan = op[o].plan
<1>1. op \in [Ops -> OpRow]
  BY TypesOfRows
<1>2. ASSUME NEW o \in Ops, NEW s \in Ended
      PROVE  /\ [op[o] EXCEPT !.status = s] \in OpRow
             /\ [op[o] EXCEPT !.status = s].kind = op[o].kind
             /\ [op[o] EXCEPT !.status = s].turn = op[o].turn
             /\ [op[o] EXCEPT !.status = s].plan = op[o].plan
  BY <1>1 DEF OpRow
<1> QED
  BY <1>1, <1>2 DEF Reconciled

\* What a status call derives is a phase.
LEMMA DerivedPhase == DerivePhase(wf)' \in Phases
  BY DEF DerivePhase, ByEnd, PlanPhase, OwnPlanPhase, ByPlan, Candidates, Phases, Planned, Qualities

-----------------------------------------------------------------------------
(* What starts nothing, and submits nothing, keeps the invariant           *)

SameOps ==
  \A o \in Ops : op'[o].kind = op[o].kind /\ op'[o].turn = op[o].turn /\ op'[o].plan = op[o].plan
SameStarts == \A o \in Ops : turn'[o] # "none" <=> turn[o] # "none"
SameRow == wf'.exists = wf.exists /\ wf'.execOp = wf.execOp /\ wf'.execTurn = wf.execTurn
SyncedRowNow ==
  /\ wf'.exists = wf.exists /\ wf'.execOp = wf.execOp
  /\ wf'.execTurn = IF TurnOf(wf.execOp) # None THEN TurnOf(wf.execOp) ELSE wf.execTurn
QuietCalls == \A p \in Procs : call'[p].pc \in {"submit", "record"} => call'[p] = call[p]

\* A call that is about to submit has a row, one about to record an execution.
NamedCalls ==
  \A p \in Procs :
    /\ call'[p].pc = "submit" => wf.exists
    /\ call'[p].pc = "record" => call'[p].op \in Ops /\ op[call'[p].op].kind = "exec"

LEMMA KeepsWithCalls ==
  ASSUME PlanInv, TypeOK', SameOps, SameStarts, SameRow \/ SyncedRowNow, NamedCalls,
         crashes \subseteq crashes'
  PROVE  PlanInv'
<1>1. IdsInv'
  BY DEF PlanInv, IdsInv, SameOps
<1>2. TurnInv'
  BY DEF PlanInv, TurnInv, SameOps, SameStarts
<1>3. wf.execOp \in Ops \cup {None}
  BY TypesOfRows DEF PlanInv, WfRow
<1>4. NamesInv'
  BY <1>3, NoSuchOp DEF PlanInv, NamesInv, SameOps, SameRow, SyncedRowNow, NamedCalls
<1>5. ExistsInv'
  BY DEF PlanInv, ExistsInv, SameOps, SameRow, SyncedRowNow, NamedCalls
<1>6. StartedInv'
  <2>1. CASE SameRow
    BY <2>1 DEF PlanInv, StartedInv, SameOps, SameStarts, SameRow
  <2>2. CASE SyncedRowNow /\ TurnOf(wf.execOp) = None
    BY <2>2 DEF PlanInv, StartedInv, SameOps, SameStarts, SyncedRowNow
  <2>3. CASE SyncedRowNow /\ TurnOf(wf.execOp) # None
    <3>1. wf.execOp \in Ops /\ TurnOf(wf.execOp) = op[wf.execOp].turn
      BY <1>3, <2>3 DEF TurnOf
    <3>2. op[wf.execOp].turn = wf.execOp /\ op[wf.execOp].kind = "exec" /\ turn[wf.execOp] # "none"
      BY <2>3, <3>1, NoSuchOp DEF PlanInv, TurnInv, NamesInv
    <3> QED
      BY <2>3, <3>1, <3>2 DEF PlanInv, StartedInv, SameOps, SameStarts, SyncedRowNow
  <2> QED
    BY <2>1, <2>2, <2>3
<1> QED
  BY <1>1, <1>2, <1>4, <1>5, <1>6 DEF PlanInv

LEMMA KeepsPlanInv ==
  ASSUME PlanInv, TypeOK', SameOps, SameStarts, SameRow \/ SyncedRowNow, QuietCalls,
         crashes \subseteq crashes'
  PROVE  PlanInv'
<1>1. NamedCalls
  BY DEF QuietCalls, NamedCalls, PlanInv, NamesInv, ExistsInv
<1> QED
  BY <1>1, KeepsWithCalls

-----------------------------------------------------------------------------
(* Ids *)

\* The next id names no operation yet, and ids stay in order when it does.
LEMMA FreshId ==
  ASSUME IdsInv, NEW o \in Ops, o = Fresh
  PROVE  /\ op[o].kind = "none"
         /\ (op'[o].kind # "none" /\ \A q \in Ops : q # o => op'[q].kind = op[q].kind) => IdsInv'
<1>1. PICK n \in 0..MaxOps : \A q \in Ops : op[q].kind # "none" <=> q <= n
  BY DEF IdsInv
<1>2. {q \in Ops : op[q].kind # "none"} = 1..n
  BY <1>1, NoSuchOp DEF Ops
<1>3. Cardinality(1..n) = n
  BY <1>1, NoSuchOp, FS_Interval
<1>4. o = n + 1
  BY <1>2, <1>3 DEF Fresh
<1>5. op[o].kind = "none"
  BY <1>1, <1>4, NoSuchOp DEF Ops
<1>6. ASSUME op'[o].kind # "none", \A q \in Ops : q # o => op'[q].kind = op[q].kind
      PROVE  IdsInv'
  <2>1. n + 1 \in 0..MaxOps
    BY <1>4, NoSuchOp DEF Ops
  <2>2. \A q \in Ops : op'[q].kind # "none" <=> q <= n + 1
    BY <1>1, <1>4, <1>6, NoSuchOp DEF Ops
  <2> QED
    BY <2>1, <2>2 DEF IdsInv
<1> QED
  BY <1>5, <1>6

-----------------------------------------------------------------------------
(* The calls *)

Types ==
  /\ wf \in WfRow /\ op \in [Ops -> OpRow] /\ call \in [Procs -> CallRow]
  /\ turn \in [Turns -> {"none", "running"} \cup Ended]
  /\ plan \in [Turns -> {"none"} \cup Qualities] /\ final \in [Turns -> {"none"} \cup Qualities]
  /\ question \in BOOLEAN /\ crashes \subseteq Crashes /\ adopts \in 0 .. MaxAdopts

LEMMA InvTypes == PlanInv => Types
  BY TypesOfRows DEF PlanInv, Types

LEMMA TypesNow == Types' => TypeOK'
  BY NewTypes DEF Types

\* The end of a call, and any record that is not about to submit or to record.
LEMMA CallTurnsQuiet ==
  ASSUME Types, NEW p \in Procs, NEW row \in CallRow, row.pc \notin {"submit", "record"},
         call' = [call EXCEPT ![p] = row]
  PROVE  call' \in [Procs -> CallRow] /\ QuietCalls
<1>1. call' \in [Procs -> CallRow] /\ call'[p] = row /\ \A q \in Procs : q # p => call'[q] = call[q]
  BY CallSet DEF Types
<1> QED
  BY <1>1 DEF QuietCalls

LEMMA ReturnQuiet ==
  ASSUME Types, NEW p \in Procs, Return(p)
  PROVE  call' \in [Procs -> CallRow] /\ QuietCalls
<1>1. Idle \in CallRow /\ Idle.pc = "idle"
  BY IdleRow DEF Idle
<1>2. call' = [call EXCEPT ![p] = Idle]
  BY DEF Return
<1> QED
  BY <1>1, <1>2, CallTurnsQuiet

LEMMA StartKeeps ==
  ASSUME PlanInv, NEW p \in Procs, NEW o \in Ops, Start(p, o)
  PROVE  PlanInv'
<1>1. Types
  BY InvTypes
<1> DEFINE row == [Idle EXCEPT !.pc = "create", !.op = o]
           new == [kind |-> "plan", status |-> "queued", turn |-> None, request |-> None, plan |-> None]
<1>2. row \in CallRow /\ row.pc = "create"
  BY DEF Idle, CallRow, Places, Phases, Planned
<1>3. call' \in [Procs -> CallRow] /\ QuietCalls
  <2>1. call' = [call EXCEPT ![p] = row]
    BY DEF Start
  <2> HIDE DEF row
  <2> QED
    BY <1>1, <1>2, <2>1, CallTurnsQuiet
<1>4. new \in OpRow /\ new.kind = "plan" /\ new.turn = None
  BY DEF OpRow
<1>5. op' = [op EXCEPT ![o] = new]
  BY DEF Start, Queue
<1> HIDE DEF new
<1>6. op' \in [Ops -> OpRow] /\ op'[o] = new /\ \A q \in Ops : q # o => op'[q] = op[q]
  BY <1>1, <1>4, <1>5 DEF Types
<1>7. TypeOK'
  BY <1>1, <1>3, <1>6, NewTypes DEF Start, world, bounds, Types
<1>8. \A q \in Ops : op[q].kind # "exec"
  BY DEF Start, PlanInv, ExistsInv
<1>9. IdsInv' /\ op[o].kind = "none"
  BY <1>4, <1>6, FreshId DEF PlanInv, Start
<1>10. TurnInv'
  BY <1>4, <1>6, <1>9 DEF PlanInv, TurnInv, Start, world
<1>11. NamesInv'
  BY <1>1, <1>3, <1>6, <1>8, <1>9 DEF PlanInv, NamesInv, QuietCalls, Start, Types, WfRow
<1>12. ExistsInv'
  BY <1>3, <1>4, <1>6, <1>8 DEF PlanInv, ExistsInv, QuietCalls, Start
<1>13. StartedInv'
  BY <1>4, <1>6, <1>8 DEF PlanInv, StartedInv, Start, bounds, world
<1> QED
  BY <1>7, <1>9, <1>10, <1>11, <1>12, <1>13 DEF PlanInv

LEMMA CreateWorkflowKeeps ==
  ASSUME PlanInv, NEW p \in Procs, CreateWorkflow(p)
  PROVE  PlanInv'
<1>1. Types
  BY InvTypes
<1>2. CASE wf.exists
  <2>1. Return(p) /\ UNCHANGED wf
    BY <1>2 DEF CreateWorkflow
  <2>2. call' \in [Procs -> CallRow] /\ QuietCalls
    BY <1>1, <2>1, ReturnQuiet
  <2>3. TypeOK'
    BY <1>1, <2>1, <2>2, NewTypes DEF CreateWorkflow, world, bounds, Types
  <2> QED
    BY <2>1, <2>2, <2>3, KeepsPlanInv DEF CreateWorkflow, world, bounds, SameOps, SameStarts, SameRow
<1>3. CASE ~wf.exists
  <2> DEFINE row == [Idle EXCEPT !.pc = "observe"]
             new == [NoRow EXCEPT !.exists = TRUE, !.planOp = call[p].op]
  <2>1. row \in CallRow /\ row.pc = "observe"
    BY DEF Idle, CallRow, Places, Phases, Planned
  <2>2. call[p].op \in Ops \cup {None}
    BY <1>1 DEF Types, CallRow
  <2>3. new \in WfRow /\ new.exists = TRUE /\ new.execOp = None /\ new.execTurn = None
    BY <2>2 DEF NoRow, WfRow, Phases
  <2>4. wf' = new /\ call' = [call EXCEPT ![p] = row]
    BY <1>3 DEF CreateWorkflow
  <2> HIDE DEF row, new
  <2>5. call' \in [Procs -> CallRow] /\ QuietCalls
    BY <1>1, <2>1, <2>4, CallTurnsQuiet
  <2>6. TypeOK'
    BY <1>1, <2>3, <2>4, <2>5, NewTypes DEF CreateWorkflow, world, bounds, Types
  <2>7. \A q \in Ops : op[q].kind # "exec"
    BY <1>3 DEF PlanInv, ExistsInv
  <2>8. UNCHANGED <<op, turn, crashes>>
    BY DEF CreateWorkflow, world, bounds
  <2>9. IdsInv' /\ TurnInv'
    BY <2>8 DEF PlanInv, IdsInv, TurnInv
  <2>10. NamesInv' /\ ExistsInv' /\ StartedInv'
    BY <2>3, <2>4, <2>5, <2>7, <2>8 DEF PlanInv, NamesInv, ExistsInv, StartedInv, QuietCalls
  <2> QED
    BY <2>6, <2>9, <2>10 DEF PlanInv
<1> QED
  BY <1>2, <1>3

LEMMA ObserveKeeps ==
  ASSUME PlanInv, NEW p \in Procs, Observe(p)
  PROVE  PlanInv'
<1>1. Types /\ TypeOK
  BY InvTypes DEF PlanInv
<1> DEFINE w == Synced(wf)
           t == PlanTurn(w)
           missing == t # None /\ turn[t] = "completed" /\ plan[t] = "none"
           quality == IF t = None THEN "none" ELSE IF missing THEN final[t] ELSE plan[t]
           row == [Idle EXCEPT !.pc = "write", !.phase = DerivePhase(wf)']
<1>2. /\ plan' = IF missing THEN [plan EXCEPT ![t] = quality] ELSE plan
      /\ wf' = IF quality = "none" THEN w ELSE [w EXCEPT !.hash = t]
      /\ op' = Reconciled /\ call' = [call EXCEPT ![p] = row]
      /\ UNCHANGED <<turn, final, question, bounds>>
  BY DEF Observe
<1>3. w \in WfRow
  BY <1>1, SyncedRow
<1>4. t \in Turns \cup {None}
  <2>1. \A o \in Ops \cup {None} : TurnOf(o) \in Ops \cup {None}
    BY <1>1 DEF Types, OpRow, TurnOf
  <2>2. w.planTurn \in Turns \cup {None} /\ w.planOp \in Ops \cup {None}
    BY <1>3 DEF WfRow
  <2> HIDE DEF w
  <2> QED
    BY <2>1, <2>2 DEF PlanTurn, Turns
<1>5. row \in CallRow /\ row.pc = "write"
  <2>1. \A phase \in Phases : /\ [Idle EXCEPT !.pc = "write", !.phase = phase] \in CallRow
                              /\ [Idle EXCEPT !.pc = "write", !.phase = phase].pc = "write"
    BY DEF Idle, CallRow, Places
  <2> QED
    BY <2>1, DerivedPhase
<1>6. call' \in [Procs -> CallRow] /\ QuietCalls
  <2> HIDE DEF row
  <2> QED
    BY <1>1, <1>2, <1>5, CallTurnsQuiet
<1>7. wf' \in WfRow /\ wf'.exists = w.exists /\ wf'.execOp = w.execOp /\ wf'.execTurn = w.execTurn
  <2>1. /\ [w EXCEPT !.hash = t] \in WfRow
        /\ [w EXCEPT !.hash = t].exists = w.exists /\ [w EXCEPT !.hash = t].execOp = w.execOp
        /\ [w EXCEPT !.hash = t].execTurn = w.execTurn
    <3> HIDE DEF w, t
    <3> QED
      BY <1>3, <1>4 DEF WfRow
  <2> HIDE DEF w, t, quality
  <2> QED
    BY <1>2, <1>3, <2>1
<1>8. plan' \in [Turns -> {"none"} \cup Qualities]
  <2>1. missing => t \in Turns /\ quality \in {"none"} \cup Qualities
    <3> HIDE DEF t
    <3> QED
      BY <1>1, <1>4 DEF Types
  <2> HIDE DEF t, quality, missing
  <2> QED
    BY <1>1, <1>2, <2>1 DEF Types
<1>9. op' \in [Ops -> OpRow] /\ SameOps
  BY <1>1, <1>2, ReconciledRows DEF SameOps
<1>10. SyncedRowNow
  <2>1. /\ w.exists = wf.exists /\ w.execOp = wf.execOp
        /\ w.execTurn = IF TurnOf(wf.execOp) # None THEN TurnOf(wf.execOp) ELSE wf.execTurn
    BY <1>1, SyncedRow
  <2> HIDE DEF w
  <2> QED
    BY <1>7, <2>1 DEF SyncedRowNow
<1>11. TypeOK'
  BY <1>1, <1>2, <1>6, <1>7, <1>8, <1>9, NewTypes DEF bounds, Types
<1>12. SameStarts /\ crashes \subseteq crashes'
  BY <1>2 DEF SameStarts, bounds
<1> QED
  BY <1>6, <1>9, <1>10, <1>11, <1>12, KeepsPlanInv

LEMMA WritePhaseKeeps ==
  ASSUME PlanInv, NEW p \in Procs, WritePhase(p)
  PROVE  PlanInv'
<1>1. Types
  BY InvTypes
<1>2. call' \in [Procs -> CallRow] /\ QuietCalls
  BY <1>1, ReturnQuiet DEF WritePhase
<1>3. wf' \in WfRow /\ SameRow
  <2>1. call[p].phase \in Phases
    BY <1>1 DEF Types, CallRow
  <2>2. wf' = [wf EXCEPT !.phase = call[p].phase]
    BY DEF WritePhase
  <2> QED
    BY <1>1, <2>1, <2>2 DEF Types, WfRow, SameRow
<1>4. TypeOK'
  BY <1>1, <1>2, <1>3, NewTypes DEF WritePhase, world, bounds, Types
<1> QED
  BY <1>2, <1>3, <1>4, KeepsPlanInv DEF WritePhase, world, bounds, SameOps, SameStarts

LEMMA ApproveAgainKeeps ==
  ASSUME PlanInv, NEW p \in Procs, ApproveAgain(p)
  PROVE  PlanInv'
<1>1. Types /\ TypeOK
  BY InvTypes DEF PlanInv
<1>2. wf' \in WfRow /\ SyncedRowNow
  BY <1>1, SyncedRow DEF ApproveAgain, SyncedRowNow
<1>3. op' \in [Ops -> OpRow] /\ SameOps
  BY <1>1, ReconciledRows DEF ApproveAgain, SameOps
<1>4. TypeOK'
  BY <1>1, <1>2, <1>3, NewTypes DEF ApproveAgain, world, bounds, Types
<1> QED
  BY <1>2, <1>3, <1>4, KeepsPlanInv DEF ApproveAgain, world, bounds, SameStarts, QuietCalls

LEMMA ApproveKeeps ==
  ASSUME PlanInv, NEW p \in Procs, NEW r \in Requests, Approve(p, r)
  PROVE  PlanInv'
<1>1. Types /\ TypeOK
  BY InvTypes DEF PlanInv
<1> DEFINE row == [Idle EXCEPT !.pc = "submit", !.request = r, !.plan = wf'.planTurn]
<1>2. wf' \in WfRow /\ SyncedRowNow
  BY <1>1, SyncedRow DEF Approve, SyncedRowNow
<1>3. row \in CallRow /\ row.pc = "submit"
  BY <1>2 DEF Idle, CallRow, Places, Phases, Planned, WfRow
<1>4. call' = [call EXCEPT ![p] = row]
  BY DEF Approve
<1> HIDE DEF row
<1>5. call' \in [Procs -> CallRow] /\ call'[p] = row /\ \A q \in Procs : q # p => call'[q] = call[q]
  BY <1>1, <1>3, <1>4, CallSet DEF Types
<1>6. TypeOK'
  BY <1>1, <1>2, <1>5, NewTypes DEF Approve, world, bounds, Types
<1>7. NamedCalls
  BY <1>3, <1>5 DEF NamedCalls, PlanInv, NamesInv, ExistsInv, Approve
<1> QED
  BY <1>2, <1>6, <1>7, KeepsWithCalls DEF Approve, world, bounds, SameOps, SameStarts

\* A call that goes on to record the operation it found, or submitted.
LEMMA CallRecords ==
  ASSUME Types, NEW p \in Procs, NEW o \in Ops,
         call' = [call EXCEPT ![p].pc = "record", ![p].op = o]
  PROVE  /\ call' \in [Procs -> CallRow] /\ call'[p].pc = "record" /\ call'[p].op = o
         /\ call'[p].plan = call[p].plan
         /\ \A q \in Procs : q # p => call'[q] = call[q]
<1> DEFINE row == [call[p] EXCEPT !.pc = "record", !.op = o]
<1>1. row \in CallRow /\ row.pc = "record" /\ row.op = o /\ row.plan = call[p].plan
  BY DEF Types, CallRow, Places
<1>2. call' = [call EXCEPT ![p] = row]
  OBVIOUS
<1> HIDE DEF row
<1> QED
  BY <1>1, <1>2, CallSet DEF Types

LEMMA SubmitAgainKeeps ==
  ASSUME PlanInv, NEW p \in Procs, SubmitAgain(p)
  PROVE  PlanInv'
<1>1. Types
  BY InvTypes
<1>2. PICK o \in Ops : op[o].kind = "exec" /\ call' = [call EXCEPT ![p].pc = "record", ![p].op = o]
  BY DEF SubmitAgain
<1>3. /\ call' \in [Procs -> CallRow] /\ call'[p].pc = "record" /\ call'[p].op = o
      /\ \A q \in Procs : q # p => call'[q] = call[q]
  BY <1>1, <1>2, CallRecords
<1>4. TypeOK'
  BY <1>1, <1>3, NewTypes DEF SubmitAgain, world, bounds, Types
<1>5. NamedCalls
  BY <1>2, <1>3 DEF NamedCalls, PlanInv, NamesInv, ExistsInv
<1> QED
  BY <1>4, <1>5, KeepsWithCalls DEF SubmitAgain, world, bounds, SameOps, SameStarts, SameRow

LEMMA SubmitRefusedKeeps ==
  ASSUME PlanInv, NEW p \in Procs, SubmitRefused(p)
  PROVE  PlanInv'
<1>1. Types
  BY InvTypes
<1>2. call' \in [Procs -> CallRow] /\ QuietCalls
  BY <1>1, ReturnQuiet DEF SubmitRefused
<1>3. TypeOK'
  BY <1>1, <1>2, NewTypes DEF SubmitRefused, world, bounds, Types
<1> QED
  BY <1>2, <1>3, KeepsPlanInv DEF SubmitRefused, world, bounds, SameOps, SameStarts, SameRow

LEMMA SubmitTaskKeeps ==
  ASSUME PlanInv, NEW p \in Procs, NEW o \in Ops, SubmitTask(p, o)
  PROVE  PlanInv'
<1>1. Types
  BY InvTypes
<1> DEFINE new == [kind |-> "exec", status |-> "queued", turn |-> None,
                   request |-> call[p].request, plan |-> wf.planTurn]
<1>2. new \in OpRow /\ new.kind = "exec" /\ new.turn = None
  BY <1>1 DEF OpRow, Types, CallRow, WfRow
<1>3. op' = [op EXCEPT ![o] = new]
  BY DEF SubmitTask, Queue
<1> HIDE DEF new
<1>4. op' \in [Ops -> OpRow] /\ op'[o] = new /\ \A q \in Ops : q # o => op'[q] = op[q]
  BY <1>1, <1>2, <1>3 DEF Types
<1>5. /\ call' \in [Procs -> CallRow] /\ call'[p].pc = "record" /\ call'[p].op = o
      /\ \A q \in Procs : q # p => call'[q] = call[q]
  BY <1>1, CallRecords DEF SubmitTask
<1>6. TypeOK'
  BY <1>1, <1>4, <1>5, NewTypes DEF SubmitTask, world, bounds, Types
<1>7. IdsInv' /\ op[o].kind = "none"
  BY <1>2, <1>4, FreshId DEF PlanInv, SubmitTask
<1>8. TurnInv' /\ turn[o] = "none"
  BY <1>2, <1>4, <1>7 DEF PlanInv, TurnInv, SubmitTask, world
<1>9. wf.exists /\ UNCHANGED <<wf, turn, crashes>>
  BY DEF PlanInv, ExistsInv, SubmitTask, world, bounds
<1>10. wf.execOp # None => op'[wf.execOp].kind = "exec"
  BY <1>1, <1>4, <1>7 DEF PlanInv, NamesInv, Types, WfRow
<1>11. NamesInv'
  BY <1>2, <1>4, <1>5, <1>7, <1>9, <1>10 DEF PlanInv, NamesInv
<1>12. ExistsInv' /\ StartedInv'
  BY <1>4, <1>5, <1>8, <1>9 DEF PlanInv, ExistsInv, StartedInv
<1> QED
  BY <1>6, <1>7, <1>8, <1>11, <1>12 DEF PlanInv

LEMMA RecordApprovalKeeps ==
  ASSUME PlanInv, NEW p \in Procs, RecordApproval(p)
  PROVE  PlanInv'
<1>1. Types
  BY InvTypes
<1> DEFINE row == [Idle EXCEPT !.pc = "observe"]
<1>2. row \in CallRow /\ row.pc = "observe"
  BY DEF Idle, CallRow, Places, Phases, Planned
<1>3. call' = [call EXCEPT ![p] = row]
  BY DEF RecordApproval
<1> HIDE DEF row
<1>4. call' \in [Procs -> CallRow] /\ QuietCalls
  BY <1>1, <1>2, <1>3, CallTurnsQuiet
<1>5. call[p].op \in Ops /\ op[call[p].op].kind = "exec" /\ call[p].plan \in Turns \cup {None}
  BY <1>1 DEF PlanInv, NamesInv, RecordApproval, Types, CallRow
<1>6. /\ wf' \in WfRow /\ wf'.execOp = call[p].op /\ wf'.exists = wf.exists
      /\ wf'.execTurn = wf.execTurn
  <2>1. wf' = [wf EXCEPT !.execOp = call[p].op, !.hash = call[p].plan, !.phase = "executing"]
    BY DEF RecordApproval
  <2>2. "executing" \in Phases
    BY DEF Phases
  <2> QED
    BY <1>1, <1>5, <2>1, <2>2 DEF Types, WfRow
<1>7. TypeOK'
  BY <1>1, <1>4, <1>6, NewTypes DEF RecordApproval, world, bounds, Types
<1>8. UNCHANGED <<op, turn, crashes>>
  BY DEF RecordApproval, world, bounds
<1>9. IdsInv' /\ TurnInv'
  BY <1>8 DEF PlanInv, IdsInv, TurnInv
<1>10. NamesInv' /\ ExistsInv' /\ StartedInv'
  BY <1>4, <1>5, <1>6, <1>8 DEF PlanInv, NamesInv, ExistsInv, StartedInv, QuietCalls
<1> QED
  BY <1>7, <1>9, <1>10 DEF PlanInv

LEMMA AdoptKeeps ==
  ASSUME PlanInv, NEW p \in Procs, Adopt(p)
  PROVE  PlanInv'
<1>1. Types
  BY InvTypes
<1> DEFINE row == [Idle EXCEPT !.pc = "adopt"]
<1>2. row \in CallRow /\ row.pc = "adopt"
  BY DEF Idle, CallRow, Places, Phases, Planned
<1>3. call' = [call EXCEPT ![p] = row]
  BY DEF Adopt
<1> HIDE DEF row
<1>4. call' \in [Procs -> CallRow] /\ QuietCalls
  BY <1>1, <1>2, <1>3, CallTurnsQuiet
<1>5. adopts' \in 0..MaxAdopts
  BY <1>1, KnownOutcomes DEF Adopt, Types
<1>6. TypeOK'
  BY <1>1, <1>4, <1>5, NewTypes DEF Adopt, world, Types
<1> QED
  BY <1>4, <1>6, KeepsPlanInv DEF Adopt, world, SameOps, SameStarts, SameRow

LEMMA RecordAdoptionKeeps ==
  ASSUME PlanInv, NEW p \in Procs, RecordAdoption(p)
  PROVE  PlanInv'
<1>1. Types
  BY InvTypes
<1> DEFINE row == [Idle EXCEPT !.pc = "observe"]
<1>2. row \in CallRow /\ row.pc = "observe"
  BY DEF Idle, CallRow, Places, Phases, Planned
<1>3. call' = [call EXCEPT ![p] = row]
  BY DEF RecordAdoption
<1> HIDE DEF row
<1>4. call' \in [Procs -> CallRow] /\ QuietCalls
  BY <1>1, <1>2, <1>3, CallTurnsQuiet
<1>5. wf' \in WfRow /\ SameRow
  <2>1. wf' = [wf EXCEPT !.planTurn = Manual, !.hash = Manual, !.phase = "plan_ready"]
    BY DEF RecordAdoption
  <2>2. "plan_ready" \in Phases /\ Manual \in Turns
    BY DEF Phases, Planned, Turns
  <2> QED
    BY <1>1, <2>1, <2>2 DEF Types, WfRow, SameRow
<1>6. TypeOK'
  BY <1>1, <1>4, <1>5, NewTypes DEF RecordAdoption, world, bounds, Types
<1> QED
  BY <1>4, <1>5, <1>6, KeepsPlanInv DEF RecordAdoption, world, bounds, SameOps, SameStarts

LEMMA CrashKeeps ==
  ASSUME PlanInv, NEW p \in Procs, Crash(p)
  PROVE  PlanInv'
<1>1. Types
  BY InvTypes
<1>2. call' \in [Procs -> CallRow] /\ QuietCalls
  BY <1>1, ReturnQuiet DEF Crash
<1>3. crashes' \subseteq Crashes /\ crashes \subseteq crashes'
  BY <1>1 DEF Crash, Types
<1>4. TypeOK'
  BY <1>1, <1>2, <1>3, NewTypes DEF Crash, world, Types
<1> QED
  BY <1>2, <1>3, <1>4, KeepsPlanInv DEF Crash, world, SameOps, SameStarts, SameRow

-----------------------------------------------------------------------------
(* The operations and their turns *)

\* An operation whose status alone is written.
LEMMA StatusSet ==
  ASSUME Types, NEW o \in Ops, NEW s \in {"none", "queued", "running"} \cup Ended,
         op' = [op EXCEPT ![o].status = s]
  PROVE  op' \in [Ops -> OpRow] /\ SameOps
<1>1. /\ [op[o] EXCEPT !.status = s] \in OpRow
      /\ [op[o] EXCEPT !.status = s].kind = op[o].kind /\ [op[o] EXCEPT !.status = s].turn = op[o].turn
      /\ [op[o] EXCEPT !.status = s].plan = op[o].plan
  BY DEF Types, OpRow
<1> QED
  BY <1>1 DEF Types, SameOps

\* An operation that starts its turn.
LEMMA TurnSet ==
  ASSUME Types, NEW o \in Ops, op' = [op EXCEPT ![o].status = "running", ![o].turn = o],
         turn' = [turn EXCEPT ![o] = "running"]
  PROVE  /\ op' \in [Ops -> OpRow] /\ turn' \in [Turns -> {"none", "running"} \cup Ended]
         /\ \A q \in Ops : op'[q].kind = op[q].kind /\ op'[q].plan = op[q].plan
         /\ op'[o].turn = o /\ turn'[o] # "none"
         /\ \A q \in Ops : q # o => op'[q] = op[q] /\ turn'[q] = turn[q]
<1> DEFINE new == [op[o] EXCEPT !.status = "running", !.turn = o]
<1>1. new \in OpRow /\ new.kind = op[o].kind /\ new.turn = o /\ new.plan = op[o].plan
  BY DEF Types, OpRow
<1>2. op' = [op EXCEPT ![o] = new]
  OBVIOUS
<1> HIDE DEF new
<1>3. /\ op' \in [Ops -> OpRow]
      /\ \A q \in Ops : op'[q].kind = op[q].kind /\ op'[q].plan = op[q].plan
      /\ op'[o].turn = o /\ \A q \in Ops : q # o => op'[q] = op[q]
  <2>1. op \in [Ops -> OpRow] /\ new \in OpRow
    BY <1>1 DEF Types
  <2>2. op' \in [Ops -> OpRow] /\ op'[o] = new /\ \A q \in Ops : q # o => op'[q] = op[q]
    BY <1>2, <2>1
  <2> QED
    BY <1>1, <2>2
<1>4. /\ turn' \in [Turns -> {"none", "running"} \cup Ended]
      /\ turn'[o] # "none" /\ \A q \in Ops : q # o => turn'[q] = turn[q]
  BY DEF Types, Turns
<1> QED
  BY <1>3, <1>4

\* What every start of a turn preserves, of whichever kind its operation is.
LEMMA StartsKeep ==
  ASSUME PlanInv, NEW o \in Ops, op[o].kind # "none",
         op' = [op EXCEPT ![o].status = "running", ![o].turn = o],
         turn' = [turn EXCEPT ![o] = "running"], UNCHANGED call,
         wf'.exists = wf.exists, wf'.execOp \in {wf.execOp, o}, wf'.execOp = o => op[o].kind = "exec" \/ wf.execOp = o
  PROVE  IdsInv' /\ TurnInv' /\ NamesInv' /\ ExistsInv'
<1>1. Types
  BY InvTypes
<1>2. /\ \A q \in Ops : op'[q].kind = op[q].kind
      /\ op'[o].turn = o /\ turn'[o] # "none"
      /\ \A q \in Ops : q # o => op'[q] = op[q] /\ turn'[q] = turn[q]
  BY <1>1, TurnSet, Zenon
<1>3. IdsInv'
  BY <1>2 DEF PlanInv, IdsInv
<1>4. TurnInv'
  BY <1>2 DEF PlanInv, TurnInv
<1>5. wf.execOp \in Ops \cup {None}
  BY <1>1 DEF Types, WfRow
<1>6. NamesInv'
  BY <1>2, <1>5 DEF PlanInv, NamesInv
<1>7. ExistsInv'
  BY <1>2 DEF PlanInv, ExistsInv
<1> QED
  BY <1>3, <1>4, <1>6, <1>7

LEMMA PlanStartsKeeps ==
  ASSUME PlanInv, NEW o \in Ops, PlanStarts(o)
  PROVE  PlanInv'
<1>1. Types
  BY InvTypes
<1>2. /\ op' \in [Ops -> OpRow] /\ turn' \in [Turns -> {"none", "running"} \cup Ended]
      /\ \A q \in Ops : op'[q].kind = op[q].kind
      /\ \A q \in Ops : q # o => turn'[q] = turn[q]
  BY <1>1, TurnSet DEF PlanStarts
<1>3. wf' \in WfRow /\ SameRow
  <2>1. /\ [wf EXCEPT !.planTurn = o, !.phase = "planning"] \in WfRow
        /\ [wf EXCEPT !.planTurn = o, !.phase = "planning"].exists = wf.exists
        /\ [wf EXCEPT !.planTurn = o, !.phase = "planning"].execOp = wf.execOp
        /\ [wf EXCEPT !.planTurn = o, !.phase = "planning"].execTurn = wf.execTurn
    BY <1>1 DEF Types, WfRow, Turns, Phases
  <2>2. wf' \in {wf, [wf EXCEPT !.planTurn = o, !.phase = "planning"]}
    BY DEF PlanStarts, RowUpdate
  <2> QED
    BY <1>1, <2>1, <2>2 DEF Types, SameRow
<1>4. crashes' \subseteq Crashes /\ crashes \subseteq crashes'
  BY <1>1 DEF PlanStarts, RowUpdate, Types
<1>5. TypeOK'
  BY <1>1, <1>2, <1>3, <1>4, NewTypes DEF PlanStarts, Types
<1>6. IdsInv' /\ TurnInv' /\ NamesInv' /\ ExistsInv'
  BY <1>3, StartsKeep DEF PlanStarts, SameRow
<1>7. StartedInv'
  BY <1>2, <1>3, <1>4 DEF PlanInv, StartedInv, SameRow, PlanStarts
<1> QED
  BY <1>5, <1>6, <1>7 DEF PlanInv

\* The row names no turn yet, so none has started; now it names this one, or
\* the process died before it could write that.
LEMMA ExecStartsKeeps ==
  ASSUME PlanInv, NEW o \in Ops, ExecStarts(o)
  PROVE  PlanInv'
<1>1. Types
  BY InvTypes
<1>2. /\ op' \in [Ops -> OpRow] /\ turn' \in [Turns -> {"none", "running"} \cup Ended]
      /\ \A q \in Ops : op'[q].kind = op[q].kind
      /\ \A q \in Ops : q # o => turn'[q] = turn[q]
  BY <1>1, TurnSet DEF ExecStarts
<1> DEFINE a == IF wf.execOp = None THEN o ELSE wf.execOp
           new == [wf EXCEPT !.execTurn = o, !.execOp = a, !.phase = "executing"]
<1>3. /\ new \in WfRow /\ new.exists = wf.exists /\ new.execOp = a /\ new.execTurn = o
  <2>1. a \in Ops \cup {None} /\ "executing" \in Phases
    BY <1>1 DEF Types, WfRow, Phases
  <2> HIDE DEF a
  <2> QED
    BY <1>1, <2>1 DEF Types, WfRow
<1>4. \/ wf' = new
      \/ wf' = wf /\ "turn" \in crashes'
  <2>1. RowUpdate(new)
    BY DEF ExecStarts
  <2> HIDE DEF new
  <2> QED
    BY <2>1 DEF RowUpdate
<1>5. a \in {wf.execOp, o}
  OBVIOUS
<1> HIDE DEF a, new
<1>6. wf' \in WfRow /\ wf'.exists = wf.exists /\ wf'.execOp \in {wf.execOp, o}
  BY <1>1, <1>3, <1>4, <1>5 DEF Types
<1>7. crashes' \subseteq Crashes /\ crashes \subseteq crashes'
  BY <1>1 DEF ExecStarts, RowUpdate, Types
<1>8. TypeOK'
  BY <1>1, <1>2, <1>6, <1>7, NewTypes DEF ExecStarts, Types
<1>9. IdsInv' /\ TurnInv' /\ NamesInv' /\ ExistsInv'
  BY <1>6, StartsKeep DEF ExecStarts
<1>10. StartedInv'
  <2>1. wf.execTurn = None
    BY DEF ExecStarts, MayExecute
  <2>2. ASSUME "turn" \notin crashes', NEW q \in Ops, q # o, op[q].kind = "exec"
        PROVE  turn[q] = "none"
    BY <1>7, <2>1, <2>2, NoSuchOp DEF PlanInv, StartedInv
  <2> QED
    BY <1>2, <1>3, <1>4, <2>2 DEF StartedInv
<1> QED
  BY <1>8, <1>9, <1>10 DEF PlanInv

LEMMA StatusKeeps ==
  ASSUME PlanInv, NEW o \in Ops, ExecFindsTurn(o) \/ OperationFails(o)
  PROVE  PlanInv'
<1>1. Types
  BY InvTypes
<1>2. op' \in [Ops -> OpRow] /\ SameOps
  <2>1. PICK s \in {"running", "failed"} : op' = [op EXCEPT ![o].status = s]
    BY DEF ExecFindsTurn, OperationFails
  <2>2. s \in {"none", "queued", "running"} \cup Ended
    BY DEF Ended
  <2> QED
    BY <1>1, <2>1, <2>2, StatusSet
<1>3. UNCHANGED <<wf, world, call, bounds>>
  BY DEF ExecFindsTurn, OperationFails
<1>4. TypeOK'
  BY <1>1, <1>2, <1>3, NewTypes DEF world, bounds, Types
<1> QED
  BY <1>2, <1>3, <1>4, KeepsPlanInv DEF world, bounds, SameStarts, SameRow, QuietCalls

LEMMA ItemPlannedKeeps ==
  ASSUME PlanInv, NEW o \in Ops, NEW q \in Proposals, ItemPlanned(o, q)
  PROVE  PlanInv'
<1>1. Types
  BY InvTypes
<1>2. plan' \in [Turns -> {"none"} \cup Qualities]
  BY <1>1, KnownOutcomes DEF ItemPlanned, Types
<1>3. TypeOK'
  BY <1>1, <1>2, NewTypes DEF ItemPlanned, bounds, Types
<1> QED
  BY <1>3, KeepsPlanInv DEF ItemPlanned, bounds, SameOps, SameStarts, SameRow, QuietCalls

LEMMA TurnEndsKeeps ==
  ASSUME PlanInv, NEW o \in Ops, NEW s \in Verdicts, NEW q \in Proposals \cup {"none"},
         TurnEnds(o, s, q)
  PROVE  PlanInv'
<1>1. Types
  BY InvTypes
<1>2. s \in Ended /\ q \in {"none"} \cup Qualities
  BY KnownOutcomes
<1>3. turn' \in [Turns -> {"none", "running"} \cup Ended] /\ SameStarts
  BY <1>1, <1>2 DEF TurnEnds, Types, SameStarts, Turns, Ended
<1>4. final' \in [Turns -> {"none"} \cup Qualities] /\ question' \in BOOLEAN
  BY <1>1, <1>2 DEF TurnEnds, Types
<1>5. TypeOK'
  BY <1>1, <1>3, <1>4, NewTypes DEF TurnEnds, bounds, Types
<1> QED
  BY <1>3, <1>5, KeepsPlanInv DEF TurnEnds, bounds, SameOps, SameRow, QuietCalls

LEMMA PeopleKeep ==
  ASSUME PlanInv, ManualTurn \/ Ask \/ Answer
  PROVE  PlanInv'
<1>1. Types
  BY InvTypes
<1>2. CASE ManualTurn
  <2>1. turn' \in [Turns -> {"none", "running"} \cup Ended] /\ SameStarts
    BY <1>1, <1>2, NoSuchOp DEF ManualTurn, Types, SameStarts, Turns, Ended
  <2>2. plan' \in [Turns -> {"none"} \cup Qualities]
    BY <1>1, <1>2 DEF ManualTurn, Types, Qualities
  <2>3. TypeOK'
    BY <1>1, <1>2, <2>1, <2>2, NewTypes DEF ManualTurn, bounds, Types
  <2> QED
    BY <1>2, <2>1, <2>3, KeepsPlanInv DEF ManualTurn, bounds, SameOps, SameRow, QuietCalls
<1>3. CASE Ask \/ Answer
  <2>1. question' \in BOOLEAN /\ UNCHANGED <<wf, op, turn, plan, final, call, bounds>>
    BY <1>3 DEF Ask, Answer
  <2>2. TypeOK'
    BY <1>1, <2>1, NewTypes DEF bounds, Types
  <2> QED
    BY <2>1, <2>2, KeepsPlanInv DEF bounds, SameOps, SameStarts, SameRow, QuietCalls
<1> QED
  BY <1>2, <1>3

-----------------------------------------------------------------------------

LEMMA InitPlan == Init => PlanInv
<1> SUFFICES ASSUME Init PROVE PlanInv
  OBVIOUS
<1>1. TypeOK
  <2>1. wf \in WfRow
    BY DEF Init, NoRow, WfRow, Phases
  <2>2. op \in [Ops -> OpRow]
    BY DEF Init, NoOp, OpRow
  <2>3. call \in [Procs -> CallRow]
    BY IdleRow DEF Init
  <2> QED
    <3>1. /\ turn \in [Turns -> {"none", "running"} \cup Ended]
          /\ plan \in [Turns -> {"none"} \cup Qualities] /\ final \in [Turns -> {"none"} \cup Qualities]
      BY DEF Init
    <3>2. question \in BOOLEAN /\ crashes \subseteq Crashes /\ adopts \in 0 .. MaxAdopts
      <4>1. adopts = 0 /\ crashes = {} /\ question = FALSE
        BY DEF Init
      <4>2. question \in BOOLEAN /\ crashes \subseteq Crashes
        BY <4>1, Zenon
      <4>3. adopts \in 0 .. MaxAdopts
        BY <4>1, KnownOutcomes
      <4> QED
        BY <4>2, <4>3
    <3> QED
      BY <2>1, <2>2, <2>3, <3>1, <3>2, TypesOfRows
<1>2. IdsInv
  <2>1. 0 \in 0..MaxOps /\ \A o \in Ops : op[o].kind # "none" <=> o <= 0
    BY NoSuchOp DEF Init, NoOp, Ops
  <2> QED
    BY <2>1 DEF IdsInv
<1>3. TurnInv /\ NamesInv /\ ExistsInv /\ StartedInv
  BY NoSuchOp DEF Init, NoOp, NoRow, Idle, Turns, TurnInv, NamesInv, ExistsInv, StartedInv
<1> QED
  BY <1>1, <1>2, <1>3 DEF PlanInv

LEMMA NextPlan == PlanInv /\ [Next]_vars => PlanInv'
<1> SUFFICES ASSUME PlanInv, [Next]_vars PROVE PlanInv'
  OBVIOUS
<1>1. ASSUME NEW p \in Procs, Proceed(p) PROVE PlanInv'
  BY <1>1, CreateWorkflowKeeps, ObserveKeeps, WritePhaseKeeps, SubmitAgainKeeps, SubmitRefusedKeeps,
     RecordApprovalKeeps, RecordAdoptionKeeps, SubmitTaskKeeps DEF Proceed
<1>2. ASSUME NEW p \in Procs, ApproveAgain(p) \/ Adopt(p) \/ Crash(p) PROVE PlanInv'
  BY <1>2, ApproveAgainKeeps, AdoptKeeps, CrashKeeps
<1>3. ASSUME NEW o \in Ops, Execute(o) PROVE PlanInv'
  BY <1>3, PlanStartsKeeps, ExecStartsKeeps, StatusKeeps DEF Execute
<1>4. CASE SomeTurnEnds
  BY <1>4, TurnEndsKeeps DEF SomeTurnEnds
<1>5. CASE UNCHANGED vars
  <2>1. TypeOK'
    BY <1>5, InvTypes, NewTypes DEF vars, Types
  <2> QED
    BY <1>5, <2>1, KeepsPlanInv DEF vars, SameOps, SameStarts, SameRow, QuietCalls
<1> QED
  BY <1>1, <1>2, <1>3, <1>4, <1>5, StartKeeps, ApproveKeeps, ItemPlannedKeeps, PeopleKeep DEF Next

LEMMA PlanInductive == Spec => []PlanInv
<1> QED
  BY InitPlan, NextPlan, PTL DEF Spec

\* Every variable of the workflow keeps its type.
THEOREM PlanTypes == Spec => []TypeOK
<1>1. PlanInv => TypeOK
  BY DEF PlanInv
<1> QED
  BY <1>1, PlanInductive, PTL

\* A workflow has at most one execution turn, whatever approvals, request ids,
\* adoptions and dying calls there are, unless the process that started the
\* turn died before it wrote that into the row.
THEOREM PlanExecutesOnce == Spec => []OneExecution
<1>1. PlanInv => OneExecution
  <2> SUFFICES ASSUME PlanInv, "turn" \notin crashes
               PROVE  Cardinality({o \in Ops : op[o].kind = "exec" /\ turn[o] # "none"}) <= 1
    BY DEF OneExecution
  <2> DEFINE S == {o \in Ops : op[o].kind = "exec" /\ turn[o] # "none"}
  <2>1. S \subseteq {wf.execTurn}
    BY DEF PlanInv, StartedInv
  <2>2. IsFiniteSet({wf.execTurn}) /\ Cardinality({wf.execTurn}) = 1
    BY FS_Singleton
  <2> HIDE DEF S
  <2>3. IsFiniteSet(S) /\ Cardinality(S) <= 1
    BY <2>1, <2>2, FS_Subset
  <2> QED
    BY <2>3 DEF S
<1> QED
  BY <1>1, PlanInductive, PTL

-----------------------------------------------------------------------------
(* The plan that is executed                                               *)

\* The plan turn of the row is the one of its plan operation, which has started
\* by then, or the one a person made, which is valid once it is official.
OfficialInv ==
  /\ wf.planOp # None => wf.exists
  /\ wf.planTurn \in {None, wf.planOp, Manual} /\ wf.hash \in {None, wf.planOp, Manual}
  /\ wf.planTurn # None \/ plan[Manual] # "none" => TurnOf(wf.planOp) # None
  /\ plan[Manual] \in {"none", "valid"}
  /\ wf.planTurn = Manual \/ wf.hash = Manual => plan[Manual] = "valid" /\ adopts > 0
  /\ \A p \in Procs : call[p].pc = "adopt" => plan[Manual] = "valid" /\ adopts > 0

\* A valid plan of the plan operation: once approved it stays the plan of the row.
OwnPlanValid == wf.planOp \in Ops /\ TurnOf(wf.planOp) # None /\ plan[wf.planOp] = "valid"

\* A call that got through the checks of an approval carries that plan, and the
\* row names it or an adopted one.
ApprovingInv ==
  \A p \in Procs :
    call[p].pc \in {"submit", "record"} =>
      OwnPlanValid /\ call[p].plan = wf.planOp /\ wf.planTurn # None

\* So does every execution operation.
ExecutionsInv ==
  /\ \A o \in Ops : op[o].kind = "exec" =>
       OwnPlanValid /\ (op[o].plan = wf.planOp \/ (op[o].plan = Manual /\ plan[Manual] = "valid" /\ adopts > 0))
  /\ (\E o \in Ops : op[o].kind = "exec") /\ "call" \notin crashes =>
       wf.hash # None \/ \E p \in Procs : call[p].pc = "record"

ApprovedInv == OfficialInv /\ ApprovingInv /\ ExecutionsInv

LEMMA InitApproved == Init => ApprovedInv
<1> SUFFICES ASSUME Init PROVE ApprovedInv
  OBVIOUS
<1>1. OfficialInv
  BY NoSuchOp DEF Init, NoRow, Idle, Turns, OfficialInv
<1>2. ApprovingInv /\ ExecutionsInv
  BY DEF Init, NoOp, Idle, ApprovingInv, ExecutionsInv
<1> QED
  BY <1>1, <1>2 DEF ApprovedInv

\* Steps that leave the official plan, and what has been approved, alone: they
\* may refresh the row, classify a plan and end calls.
PlanKept ==
  /\ wf'.exists = wf.exists /\ wf'.planOp = wf.planOp
  /\ wf'.planTurn = wf.planTurn \/ (wf'.planTurn = wf.planOp /\ TurnOf(wf.planOp)' # None)
  /\ wf'.hash = wf.hash \/ (wf'.hash = wf.planOp /\ TurnOf(wf.planOp)' # None)
OpsKept ==
  \A o \in Ops : /\ op'[o].kind = op[o].kind /\ op'[o].plan = op[o].plan
                 /\ op[o].turn # None => op'[o].turn # None
PlansKept ==
  /\ \A t \in Turns : plan[t] # "none" => plan'[t] = plan[t]
  /\ plan'[Manual] = plan[Manual]
CallsKept ==
  \A p \in Procs :
    /\ call'[p].pc \in {"submit", "record", "adopt"} => call'[p] = call[p]
    /\ call[p].pc = "record" => call'[p].pc = "record" \/ "call" \in crashes'

LEMMA KeepsApproved ==
  ASSUME PlanInv, ApprovedInv, PlanKept, OpsKept, PlansKept, CallsKept,
         adopts' = adopts, crashes \subseteq crashes'
  PROVE  ApprovedInv'
<1>1. Types
  BY InvTypes
<1>2. wf.planOp \in Ops \cup {None} /\ wf.planOp # Manual
  BY <1>1, NoSuchOp DEF Types, WfRow
<1>3. TurnOf(wf.planOp) # None => TurnOf(wf.planOp)' # None
  BY <1>2 DEF TurnOf, OpsKept, PlanKept
<1>4. TurnOf(wf.planOp)' # None => wf.planOp \in Ops
  BY <1>2 DEF TurnOf, PlanKept
<1>5. OfficialInv'
  BY <1>2, <1>3, <1>4 DEF ApprovedInv, OfficialInv, PlanKept, PlansKept, CallsKept
<1>6. OwnPlanValid => OwnPlanValid'
  BY <1>3 DEF OwnPlanValid, PlanKept, PlansKept, Turns
<1>7. ApprovingInv'
  BY <1>4, <1>6, NoSuchOp DEF ApprovedInv, ApprovingInv, PlanKept, CallsKept
<1>8. ExecutionsInv'
  <2>1. \A o \in Ops : op'[o].kind = "exec" =>
          /\ OwnPlanValid'
          /\ \/ op'[o].plan = wf'.planOp
             \/ op'[o].plan = Manual /\ plan'[Manual] = "valid" /\ adopts' > 0
    BY <1>6 DEF ApprovedInv, ExecutionsInv, PlanKept, OpsKept, PlansKept
  <2>2. ASSUME NEW o \in Ops, op'[o].kind = "exec", "call" \notin crashes'
        PROVE  wf'.hash # None \/ \E p \in Procs : call'[p].pc = "record"
    <3>1. wf.hash # None \/ \E p \in Procs : call[p].pc = "record"
      BY <2>2 DEF ApprovedInv, ExecutionsInv, OpsKept
    <3>2. wf.hash # None => wf'.hash # None
      BY <1>4, NoSuchOp DEF PlanKept
    <3> QED
      BY <2>2, <3>1, <3>2 DEF CallsKept
  <2> QED
    BY <2>1, <2>2 DEF ExecutionsInv
<1> QED
  BY <1>5, <1>7, <1>8 DEF ApprovedInv

\* A call that ends, or whose new record promises nothing, keeps what is said of
\* calls unless it was about to record an approval.
LEMMA CallTurnsKept ==
  ASSUME Types, NEW p \in Procs, NEW row \in CallRow,
         row.pc \notin {"submit", "record", "adopt"}, call' = [call EXCEPT ![p] = row],
         call[p].pc # "record" \/ "call" \in crashes'
  PROVE  CallsKept
<1>1. call'[p] = row /\ \A q \in Procs : q # p => call'[q] = call[q]
  BY CallSet DEF Types
<1> QED
  BY <1>1 DEF CallsKept

LEMMA ReturnKept ==
  ASSUME Types, NEW p \in Procs, Return(p), call[p].pc # "record" \/ "call" \in crashes'
  PROVE  CallsKept
<1>1. Idle \in CallRow /\ Idle.pc = "idle"
  BY IdleRow DEF Idle
<1>2. call' = [call EXCEPT ![p] = Idle]
  BY DEF Return
<1> QED
  BY <1>1, <1>2, CallTurnsKept

\* The turn a plan operation names is its own.
LEMMA OwnTurn ==
  ASSUME PlanInv
  PROVE  TurnOf(wf.planOp) \in {None, wf.planOp}
BY InvTypes, NoSuchOp DEF PlanInv, TurnInv, TurnOf, Types, WfRow

\* A status call takes the plan turn from the plan operation and classifies
\* that turn's plan if it has none.
LEMMA ObserveApproved ==
  ASSUME PlanInv, ApprovedInv, NEW p \in Procs, Observe(p)
  PROVE  ApprovedInv'
<1>1. Types /\ TypeOK
  BY InvTypes DEF PlanInv
<1> DEFINE w == Synced(wf)
           t == PlanTurn(w)
           missing == t # None /\ turn[t] = "completed" /\ plan[t] = "none"
           quality == IF t = None THEN "none" ELSE IF missing THEN final[t] ELSE plan[t]
           row == [Idle EXCEPT !.pc = "write", !.phase = DerivePhase(wf)']
<1>2. /\ plan' = IF missing THEN [plan EXCEPT ![t] = quality] ELSE plan
      /\ wf' = IF quality = "none" THEN w ELSE [w EXCEPT !.hash = t]
      /\ op' = Reconciled /\ call' = [call EXCEPT ![p] = row]
      /\ UNCHANGED <<crashes, adopts>>
  BY DEF Observe, bounds
<1>3. w \in WfRow /\ w.exists = wf.exists /\ w.planOp = wf.planOp /\ w.hash = wf.hash
  BY <1>1, SyncedRow
<1>4. \/ w.planTurn = wf.planOp /\ TurnOf(wf.planOp) # None
      \/ w.planTurn = None /\ wf.planTurn = None /\ TurnOf(wf.planOp) = None
  <2>1. w.planTurn = IF TurnOf(wf.planOp) # None THEN TurnOf(wf.planOp) ELSE wf.planTurn
    BY <1>1, SyncedRow
  <2> HIDE DEF w
  <2> QED
    BY <2>1, OwnTurn DEF ApprovedInv, OfficialInv
<1>5. \/ t = wf.planOp /\ wf.planOp \in Ops /\ TurnOf(wf.planOp) # None
      \/ t = None
  <2>1. wf.planOp \in Ops \cup {None}
    BY <1>1 DEF Types, WfRow
  <2> HIDE DEF w
  <2> QED
    BY <1>3, <1>4, <2>1, NoSuchOp DEF PlanTurn, TurnOf
<1>6. row \in CallRow /\ row.pc = "write"
  <2>1. \A phase \in Phases : /\ [Idle EXCEPT !.pc = "write", !.phase = phase] \in CallRow
                              /\ [Idle EXCEPT !.pc = "write", !.phase = phase].pc = "write"
    BY DEF Idle, CallRow, Places
  <2> QED
    BY <2>1, DerivedPhase
<1>7. CallsKept
  <2>1. call[p].pc # "record"
    BY DEF Observe
  <2> HIDE DEF row
  <2> QED
    BY <1>1, <1>2, <1>6, <2>1, CallTurnsKept
<1>8. OpsKept
  BY <1>1, <1>2, ReconciledRows DEF OpsKept
<1>9. TurnOf(wf.planOp) # None => TurnOf(wf.planOp)' # None
  <2>1. wf'.planOp = wf.planOp
    <3>1. [w EXCEPT !.hash = t].planOp = w.planOp
      <4> HIDE DEF w, t
      <4> QED
        BY <1>3 DEF WfRow
    <3> HIDE DEF w, t, quality
    <3> QED
      BY <1>2, <1>3, <3>1
  <2>2. wf.planOp \in Ops \cup {None}
    BY <1>1 DEF Types, WfRow
  <2> QED
    BY <1>8, <2>1, <2>2 DEF OpsKept, TurnOf
<1>10. PlanKept
  <2>1. /\ [w EXCEPT !.hash = t].exists = w.exists /\ [w EXCEPT !.hash = t].planOp = w.planOp
        /\ [w EXCEPT !.hash = t].planTurn = w.planTurn /\ [w EXCEPT !.hash = t].hash = t
    <3> HIDE DEF w, t
    <3> QED
      BY <1>3 DEF WfRow
  <2>2. t = None => quality = "none"
    <3> HIDE DEF t
    <3> QED
      OBVIOUS
  <2> HIDE DEF w, t, quality
  <2> QED
    BY <1>2, <1>3, <1>4, <1>5, <1>9, <2>1, <2>2 DEF PlanKept
<1>11. PlansKept
  <2>1. missing => plan[t] = "none" /\ t # None
    <3> HIDE DEF t
    <3> QED
      OBVIOUS
  <2> HIDE DEF t, quality, missing
  <2> QED
    BY <1>1, <1>2, <1>5, <2>1, NoSuchOp DEF Types, PlansKept, Turns
<1> QED
  BY <1>2, <1>7, <1>8, <1>10, <1>11, KeepsApproved

\* The phase says nothing about plans.
LEMMA WritePhaseApproved ==
  ASSUME PlanInv, ApprovedInv, NEW p \in Procs, WritePhase(p)
  PROVE  ApprovedInv'
<1>1. Types
  BY InvTypes
<1>2. PlanKept
  BY <1>1 DEF WritePhase, PlanKept, Types, WfRow
<1>3. CallsKept
  BY <1>1, ReturnKept DEF WritePhase
<1> QED
  BY <1>2, <1>3, KeepsApproved DEF WritePhase, world, bounds, OpsKept, PlansKept

LEMMA ApproveAgainApproved ==
  ASSUME PlanInv, ApprovedInv, NEW p \in Procs, ApproveAgain(p)
  PROVE  ApprovedInv'
<1>1. Types /\ TypeOK
  BY InvTypes DEF PlanInv
<1>2. wf' = Synced(wf) /\ op' = Reconciled /\ UNCHANGED <<call, plan, adopts, crashes>>
  BY DEF ApproveAgain, world, bounds
<1>3. OpsKept
  BY <1>1, <1>2, ReconciledRows DEF OpsKept
<1>4. PlanKept
  <2>1. /\ wf'.exists = wf.exists /\ wf'.planOp = wf.planOp /\ wf'.hash = wf.hash
        /\ wf'.planTurn = IF TurnOf(wf.planOp) # None THEN TurnOf(wf.planOp) ELSE wf.planTurn
    BY <1>1, <1>2, SyncedRow
  <2>2. wf.planOp \in Ops \cup {None}
    BY <1>1 DEF Types, WfRow
  <2>3. TurnOf(wf.planOp) # None => TurnOf(wf.planOp)' # None
    BY <1>3, <2>1, <2>2 DEF OpsKept, TurnOf
  <2> QED
    BY <2>1, <2>3, OwnTurn DEF PlanKept
<1> QED
  BY <1>2, <1>3, <1>4, KeepsApproved DEF PlansKept, CallsKept

\* What an approval checks is the plan of the plan operation, in the row as it
\* has just synced it.
LEMMA ApproveApproved ==
  ASSUME PlanInv, ApprovedInv, NEW p \in Procs, NEW r \in Requests, Approve(p, r)
  PROVE  ApprovedInv'
<1>1. Types /\ TypeOK
  BY InvTypes DEF PlanInv
<1>2. /\ wf' = Synced(wf) /\ MayApprove(Synced(wf))
      /\ call[p].pc = "idle" /\ UNCHANGED <<op, plan, crashes, adopts>>
  BY DEF Approve, world, bounds
<1>3. /\ wf' \in WfRow /\ wf'.exists = wf.exists /\ wf'.planOp = wf.planOp /\ wf'.hash = wf.hash
      /\ wf'.planTurn = IF TurnOf(wf.planOp) # None THEN TurnOf(wf.planOp) ELSE wf.planTurn
  BY <1>1, <1>2, SyncedRow
<1>4. wf'.planTurn # None /\ plan[wf'.planTurn] = "valid"
  BY <1>2 DEF MayApprove
<1>5. TurnOf(wf.planOp) # None
  BY <1>3, <1>4 DEF ApprovedInv, OfficialInv
<1>6. wf'.planTurn = wf.planOp /\ wf.planOp \in Ops
  <2>1. wf.planOp \in Ops \cup {None}
    BY <1>1 DEF Types, WfRow
  <2> QED
    BY <1>3, <1>5, <2>1, OwnTurn DEF TurnOf
<1>7. OwnPlanValid /\ OwnPlanValid'
  BY <1>2, <1>3, <1>4, <1>5, <1>6 DEF OwnPlanValid, TurnOf
<1> DEFINE row == [Idle EXCEPT !.pc = "submit", !.request = r, !.plan = wf'.planTurn]
<1>8. row \in CallRow /\ row.pc = "submit" /\ row.plan = wf'.planTurn
  BY <1>3 DEF Idle, CallRow, Places, Phases, Planned, WfRow
<1>9. call' = [call EXCEPT ![p] = row]
  BY DEF Approve
<1> HIDE DEF row
<1>10. call'[p] = row /\ \A q \in Procs : q # p => call'[q] = call[q]
  BY <1>1, <1>8, <1>9, CallSet DEF Types
<1>11. TurnOf(wf.planOp)' # None
  BY <1>7 DEF OwnPlanValid
<1>12. OfficialInv'
  BY <1>2, <1>3, <1>6, <1>8, <1>10, <1>11, NoSuchOp DEF ApprovedInv, OfficialInv
<1>13. ApprovingInv'
  BY <1>3, <1>4, <1>6, <1>7, <1>8, <1>10 DEF ApprovedInv, ApprovingInv
<1>14. ExecutionsInv'
  BY <1>2, <1>3, <1>7, <1>8, <1>10 DEF ApprovedInv, ExecutionsInv
<1> QED
  BY <1>12, <1>13, <1>14 DEF ApprovedInv

\* A call that found an operation goes on with the plan that it approved.
LEMMA SubmitAgainApproved ==
  ASSUME PlanInv, ApprovedInv, NEW p \in Procs, SubmitAgain(p)
  PROVE  ApprovedInv'
<1>1. Types
  BY InvTypes
<1>2. PICK o \in Ops : call' = [call EXCEPT ![p].pc = "record", ![p].op = o]
  BY DEF SubmitAgain
<1>3. /\ call'[p].pc = "record" /\ call'[p].plan = call[p].plan
      /\ \A q \in Procs : q # p => call'[q] = call[q]
  BY <1>1, <1>2, CallRecords
<1>4. UNCHANGED <<wf, op, plan, crashes, adopts>> /\ call[p].pc = "submit"
  BY DEF SubmitAgain, world, bounds
<1>5. OfficialInv'
  BY <1>3, <1>4 DEF ApprovedInv, OfficialInv, TurnOf
<1>6. OwnPlanValid <=> OwnPlanValid'
  BY <1>4 DEF OwnPlanValid, TurnOf
<1>7. ApprovingInv'
  BY <1>3, <1>4, <1>6 DEF ApprovedInv, ApprovingInv
<1>8. ExecutionsInv'
  BY <1>3, <1>4, <1>6 DEF ApprovedInv, ExecutionsInv
<1> QED
  BY <1>5, <1>7, <1>8 DEF ApprovedInv

LEMMA SubmitRefusedApproved ==
  ASSUME PlanInv, ApprovedInv, NEW p \in Procs, SubmitRefused(p)
  PROVE  ApprovedInv'
<1>1. Types
  BY InvTypes
<1>2. CallsKept
  BY <1>1, ReturnKept DEF SubmitRefused
<1> QED
  BY <1>2, KeepsApproved DEF SubmitRefused, world, bounds, PlanKept, OpsKept, PlansKept

\* An operation is submitted for the plan that the row names by then: the one
\* that was approved or one adopted since.
LEMMA SubmitTaskApproved ==
  ASSUME PlanInv, ApprovedInv, NEW p \in Procs, NEW o \in Ops, SubmitTask(p, o)
  PROVE  ApprovedInv'
<1>1. Types
  BY InvTypes
<1> DEFINE new == [kind |-> "exec", status |-> "queued", turn |-> None,
                   request |-> call[p].request, plan |-> wf.planTurn]
<1>2. new.kind = "exec" /\ new.turn = None /\ new.plan = wf.planTurn
  OBVIOUS
<1>3. op' = [op EXCEPT ![o] = new]
  BY DEF SubmitTask, Queue
<1> HIDE DEF new
<1>4. op'[o] = new /\ \A q \in Ops : q # o => op'[q] = op[q]
  BY <1>1, <1>3 DEF Types
<1>5. /\ call'[p].pc = "record" /\ call'[p].plan = call[p].plan
      /\ \A q \in Procs : q # p => call'[q] = call[q]
  BY <1>1, CallRecords DEF SubmitTask
<1>6. UNCHANGED <<wf, plan, crashes, adopts>> /\ call[p].pc = "submit"
  BY DEF SubmitTask, world, bounds
<1>7. OwnPlanValid /\ call[p].plan = wf.planOp /\ wf.planTurn # None
  BY <1>6 DEF ApprovedInv, ApprovingInv
<1>8. wf.planOp # o
  <2>1. op[o].kind = "none"
    BY FreshId DEF PlanInv, SubmitTask
  <2>2. op[wf.planOp].turn = wf.planOp /\ op[wf.planOp].kind # "none"
    BY <1>7, NoSuchOp DEF OwnPlanValid, TurnOf, PlanInv, TurnInv
  <2> QED
    BY <2>1, <2>2
<1>9. TurnOf(wf.planOp)' = TurnOf(wf.planOp) /\ OwnPlanValid'
  BY <1>4, <1>6, <1>7, <1>8 DEF OwnPlanValid, TurnOf
<1>10. OfficialInv'
  BY <1>5, <1>6, <1>9 DEF ApprovedInv, OfficialInv
<1>11. ApprovingInv'
  BY <1>5, <1>6, <1>7, <1>9 DEF ApprovedInv, ApprovingInv
<1>12. ExecutionsInv'
  <2>1. new.plan = wf.planOp \/ (new.plan = Manual /\ plan[Manual] = "valid" /\ adopts > 0)
    BY <1>2, <1>7 DEF ApprovedInv, OfficialInv
  <2> QED
    BY <1>2, <1>4, <1>5, <1>6, <1>9, <2>1 DEF ApprovedInv, ExecutionsInv
<1> QED
  BY <1>10, <1>11, <1>12 DEF ApprovedInv

\* The approval is recorded with the plan that its checks saw.
LEMMA RecordApprovalApproved ==
  ASSUME PlanInv, ApprovedInv, NEW p \in Procs, RecordApproval(p)
  PROVE  ApprovedInv'
<1>1. Types
  BY InvTypes
<1> DEFINE row == [Idle EXCEPT !.pc = "observe"]
<1>2. row \in CallRow /\ row.pc = "observe"
  BY DEF Idle, CallRow, Places, Phases, Planned
<1>3. call' = [call EXCEPT ![p] = row]
  BY DEF RecordApproval
<1> HIDE DEF row
<1>4. call'[p] = row /\ \A q \in Procs : q # p => call'[q] = call[q]
  BY <1>1, <1>2, <1>3, CallSet DEF Types
<1>5. UNCHANGED <<op, plan, crashes, adopts>> /\ call[p].pc = "record"
  BY DEF RecordApproval, world, bounds
<1>6. OwnPlanValid /\ call[p].plan = wf.planOp /\ wf.planOp # None
  BY <1>5, NoSuchOp DEF ApprovedInv, ApprovingInv, OwnPlanValid
<1>7. /\ wf'.exists = wf.exists /\ wf'.planOp = wf.planOp /\ wf'.planTurn = wf.planTurn
      /\ wf'.hash = wf.planOp
  BY <1>1, <1>6 DEF RecordApproval, Types, WfRow
<1>8. TurnOf(wf.planOp)' = TurnOf(wf.planOp) /\ OwnPlanValid'
  BY <1>5, <1>6, <1>7 DEF OwnPlanValid, TurnOf
<1>9. OfficialInv'
  BY <1>2, <1>4, <1>5, <1>6, <1>7, <1>8, NoSuchOp DEF ApprovedInv, OfficialInv, OwnPlanValid
<1>10. ApprovingInv'
  BY <1>2, <1>4, <1>7, <1>8 DEF ApprovedInv, ApprovingInv
<1>11. ExecutionsInv'
  BY <1>5, <1>6, <1>7, <1>8 DEF ApprovedInv, ExecutionsInv
<1> QED
  BY <1>9, <1>10, <1>11 DEF ApprovedInv

\* Only a valid plan is adopted, and it stays valid until that is recorded.
LEMMA AdoptApproved ==
  ASSUME PlanInv, ApprovedInv, NEW p \in Procs, Adopt(p)
  PROVE  ApprovedInv'
<1>1. Types
  BY InvTypes
<1> DEFINE row == [Idle EXCEPT !.pc = "adopt"]
<1>2. row \in CallRow /\ row.pc = "adopt"
  BY DEF Idle, CallRow, Places, Phases, Planned
<1>3. call' = [call EXCEPT ![p] = row]
  BY DEF Adopt
<1> HIDE DEF row
<1>4. call'[p] = row /\ \A q \in Procs : q # p => call'[q] = call[q]
  BY <1>1, <1>2, <1>3, CallSet DEF Types
<1>5. /\ UNCHANGED <<wf, op, plan, crashes>> /\ call[p].pc = "idle"
      /\ plan[Manual] = "valid" /\ adopts' = adopts + 1 /\ adopts \in Nat
  BY <1>1, KnownOutcomes DEF Adopt, MayAdopt, world, Types
<1>6. OfficialInv'
  BY <1>2, <1>4, <1>5 DEF ApprovedInv, OfficialInv, TurnOf
<1>7. OwnPlanValid <=> OwnPlanValid'
  BY <1>5 DEF OwnPlanValid, TurnOf
<1>8. ApprovingInv'
  BY <1>2, <1>4, <1>5, <1>7 DEF ApprovedInv, ApprovingInv
<1>9. ExecutionsInv'
  <2>1. ASSUME NEW q \in Procs, call[q].pc = "record" PROVE call'[q].pc = "record"
    BY <1>4, <1>5, <2>1
  <2> QED
    BY <1>5, <1>7, <2>1 DEF ApprovedInv, ExecutionsInv
<1> QED
  BY <1>6, <1>8, <1>9 DEF ApprovedInv

LEMMA RecordAdoptionApproved ==
  ASSUME PlanInv, ApprovedInv, NEW p \in Procs, RecordAdoption(p)
  PROVE  ApprovedInv'
<1>1. Types
  BY InvTypes
<1> DEFINE row == [Idle EXCEPT !.pc = "observe"]
<1>2. row \in CallRow /\ row.pc = "observe"
  BY DEF Idle, CallRow, Places, Phases, Planned
<1>3. call' = [call EXCEPT ![p] = row]
  BY DEF RecordAdoption
<1> HIDE DEF row
<1>4. call'[p] = row /\ \A q \in Procs : q # p => call'[q] = call[q]
  BY <1>1, <1>2, <1>3, CallSet DEF Types
<1>5. UNCHANGED <<op, plan, crashes, adopts>> /\ call[p].pc = "adopt"
  BY DEF RecordAdoption, world, bounds
<1>6. plan[Manual] = "valid" /\ adopts > 0
  BY <1>5 DEF ApprovedInv, OfficialInv
<1>7. /\ wf'.exists = wf.exists /\ wf'.planOp = wf.planOp /\ wf'.planTurn = Manual
      /\ wf'.hash = Manual
  BY <1>1 DEF RecordAdoption, Types, WfRow
<1>8. TurnOf(wf.planOp)' = TurnOf(wf.planOp) /\ (OwnPlanValid <=> OwnPlanValid')
  BY <1>5, <1>7 DEF OwnPlanValid, TurnOf
<1>9. OfficialInv'
  BY <1>2, <1>4, <1>5, <1>6, <1>7, <1>8 DEF ApprovedInv, OfficialInv
<1>10. ApprovingInv'
  BY <1>2, <1>4, <1>7, <1>8, NoSuchOp DEF ApprovedInv, ApprovingInv
<1>11. ExecutionsInv'
  BY <1>5, <1>7, <1>8, NoSuchOp DEF ApprovedInv, ExecutionsInv
<1> QED
  BY <1>9, <1>10, <1>11 DEF ApprovedInv

LEMMA CrashApproved ==
  ASSUME PlanInv, ApprovedInv, NEW p \in Procs, Crash(p)
  PROVE  ApprovedInv'
<1>1. Types
  BY InvTypes
<1>2. CallsKept
  BY <1>1, ReturnKept DEF Crash
<1> QED
  BY <1>2, KeepsApproved DEF Crash, world, PlanKept, OpsKept, PlansKept

\* Before there is a row there is no plan that could have been approved.
LEMMA NothingBeforeTheRow ==
  ASSUME PlanInv, ApprovedInv, ~wf.exists
  PROVE  /\ wf.planOp = None /\ wf.planTurn = None /\ plan[Manual] = "none"
         /\ \A p \in Procs : call[p].pc \notin {"submit", "record", "adopt"}
         /\ \A o \in Ops : op[o].kind # "exec"
<1>1. wf.planOp = None /\ TurnOf(wf.planOp) = None
  BY DEF ApprovedInv, OfficialInv, TurnOf
<1> QED
  BY <1>1, NoSuchOp DEF ApprovedInv, OfficialInv, ApprovingInv, ExecutionsInv, OwnPlanValid

LEMMA StartApproved ==
  ASSUME PlanInv, ApprovedInv, NEW p \in Procs, NEW o \in Ops, Start(p, o)
  PROVE  ApprovedInv'
<1>1. Types
  BY InvTypes
<1> DEFINE row == [Idle EXCEPT !.pc = "create", !.op = o]
           new == [kind |-> "plan", status |-> "queued", turn |-> None, request |-> None, plan |-> None]
<1>2. row \in CallRow /\ row.pc = "create" /\ new.kind = "plan"
  BY DEF Idle, CallRow, Places, Phases, Planned
<1>3. call' = [call EXCEPT ![p] = row] /\ op' = [op EXCEPT ![o] = new]
  BY DEF Start, Queue
<1> HIDE DEF row, new
<1>4. call'[p] = row /\ \A q \in Procs : q # p => call'[q] = call[q]
  BY <1>1, <1>2, <1>3, CallSet DEF Types
<1>5. op'[o] = new /\ \A q \in Ops : q # o => op'[q] = op[q]
  BY <1>1, <1>3 DEF Types
<1>6. UNCHANGED <<wf, plan, crashes, adopts>> /\ ~wf.exists
  BY DEF Start, world, bounds
<1>7. /\ wf.planOp = None /\ wf.planTurn = None /\ plan[Manual] = "none"
      /\ \A q \in Procs : call'[q].pc \notin {"submit", "record", "adopt"}
      /\ \A q \in Ops : op'[q].kind # "exec"
  BY <1>2, <1>4, <1>5, <1>6, NothingBeforeTheRow
<1>8. OfficialInv'
  BY <1>6, <1>7 DEF ApprovedInv, OfficialInv, TurnOf
<1>9. ApprovingInv' /\ ExecutionsInv'
  BY <1>7 DEF ApprovingInv, ExecutionsInv
<1> QED
  BY <1>8, <1>9 DEF ApprovedInv

LEMMA CreateWorkflowApproved ==
  ASSUME PlanInv, ApprovedInv, NEW p \in Procs, CreateWorkflow(p)
  PROVE  ApprovedInv'
<1>1. Types
  BY InvTypes
<1>2. CASE wf.exists
  <2>1. Return(p) /\ UNCHANGED wf /\ call[p].pc = "create"
    BY <1>2 DEF CreateWorkflow
  <2>2. CallsKept
    BY <1>1, <2>1, ReturnKept
  <2> QED
    BY <2>1, <2>2, KeepsApproved DEF CreateWorkflow, world, bounds, PlanKept, OpsKept, PlansKept
<1>3. CASE ~wf.exists
  <2> DEFINE row == [Idle EXCEPT !.pc = "observe"]
             new == [NoRow EXCEPT !.exists = TRUE, !.planOp = call[p].op]
  <2>1. row \in CallRow /\ row.pc = "observe"
    BY DEF Idle, CallRow, Places, Phases, Planned
  <2>2. new.exists = TRUE /\ new.planTurn = None /\ new.hash = None
    BY DEF NoRow
  <2>3. wf' = new /\ call' = [call EXCEPT ![p] = row]
    BY <1>3 DEF CreateWorkflow
  <2> HIDE DEF row, new
  <2>4. call'[p] = row /\ \A q \in Procs : q # p => call'[q] = call[q]
    BY <1>1, <2>1, <2>3, CallSet DEF Types
  <2>5. UNCHANGED <<op, plan, crashes, adopts>>
    BY DEF CreateWorkflow, world, bounds
  <2>6. /\ plan'[Manual] = "none"
        /\ \A q \in Procs : call'[q].pc \notin {"submit", "record", "adopt"}
        /\ \A q \in Ops : op'[q].kind # "exec"
    BY <1>3, <2>1, <2>4, <2>5, NothingBeforeTheRow
  <2>7. OfficialInv'
    BY <2>2, <2>3, <2>6, NoSuchOp DEF OfficialInv
  <2>8. ApprovingInv' /\ ExecutionsInv'
    BY <2>6 DEF ApprovingInv, ExecutionsInv
  <2> QED
    BY <2>7, <2>8 DEF ApprovedInv
<1> QED
  BY <1>2, <1>3

\* A turn that starts is the operation's, whose plan stays what it was.
LEMMA TurnKept ==
  ASSUME Types, NEW o \in Ops, op' = [op EXCEPT ![o].status = "running", ![o].turn = o],
         turn' = [turn EXCEPT ![o] = "running"]
  PROVE  OpsKept /\ op'[o].turn = o
<1>1. /\ \A q \in Ops : op'[q].kind = op[q].kind /\ op'[q].plan = op[q].plan
      /\ op'[o].turn = o /\ \A q \in Ops : q # o => op'[q] = op[q]
  BY TurnSet
<1>2. o # None
  BY NoSuchOp
<1> QED
  BY <1>1, <1>2 DEF OpsKept

LEMMA PlanStartsApproved ==
  ASSUME PlanInv, ApprovedInv, NEW o \in Ops, PlanStarts(o)
  PROVE  ApprovedInv'
<1>1. Types
  BY InvTypes
<1>2. OpsKept /\ op'[o].turn = o
  BY <1>1, TurnKept DEF PlanStarts
<1>3. PlanKept
  <2>1. /\ [wf EXCEPT !.planTurn = o, !.phase = "planning"].exists = wf.exists
        /\ [wf EXCEPT !.planTurn = o, !.phase = "planning"].planOp = wf.planOp
        /\ [wf EXCEPT !.planTurn = o, !.phase = "planning"].hash = wf.hash
        /\ [wf EXCEPT !.planTurn = o, !.phase = "planning"].planTurn = o
    BY <1>1 DEF Types, WfRow
  <2>2. \/ wf' = wf
        \/ wf.planOp = o /\ wf' = [wf EXCEPT !.planTurn = o, !.phase = "planning"]
    BY DEF PlanStarts, RowUpdate
  <2> QED
    BY <1>2, <2>1, <2>2, NoSuchOp DEF PlanKept, TurnOf
<1>4. crashes \subseteq crashes'
  BY DEF PlanStarts, RowUpdate
<1> QED
  BY <1>2, <1>3, <1>4, KeepsApproved DEF PlanStarts, PlansKept, CallsKept

LEMMA ExecStartsApproved ==
  ASSUME PlanInv, ApprovedInv, NEW o \in Ops, ExecStarts(o)
  PROVE  ApprovedInv'
<1>1. Types
  BY InvTypes
<1>2. OpsKept
  BY <1>1, TurnKept DEF ExecStarts
<1> DEFINE a == IF wf.execOp = None THEN o ELSE wf.execOp
           new == [wf EXCEPT !.execTurn = o, !.execOp = a, !.phase = "executing"]
<1>3. /\ new.exists = wf.exists /\ new.planOp = wf.planOp /\ new.planTurn = wf.planTurn
      /\ new.hash = wf.hash
  <2> HIDE DEF a
  <2> QED
    BY <1>1 DEF Types, WfRow
<1>4. wf' \in {wf, new} /\ crashes \subseteq crashes'
  <2>1. RowUpdate(new)
    BY DEF ExecStarts
  <2> HIDE DEF new
  <2> QED
    BY <2>1 DEF RowUpdate
<1> HIDE DEF new
<1>5. PlanKept
  BY <1>3, <1>4 DEF PlanKept
<1> QED
  BY <1>2, <1>4, <1>5, KeepsApproved DEF ExecStarts, PlansKept, CallsKept

LEMMA StatusApproved ==
  ASSUME PlanInv, ApprovedInv, NEW o \in Ops, ExecFindsTurn(o) \/ OperationFails(o)
  PROVE  ApprovedInv'
<1>1. Types
  BY InvTypes
<1>2. OpsKept
  <2>1. PICK s \in {"running", "failed"} : op' = [op EXCEPT ![o].status = s]
    BY DEF ExecFindsTurn, OperationFails
  <2>2. s \in {"none", "queued", "running"} \cup Ended
    BY DEF Ended
  <2> QED
    BY <1>1, <2>1, <2>2, StatusSet DEF SameOps, OpsKept
<1>3. UNCHANGED <<wf, world, call, bounds>>
  BY DEF ExecFindsTurn, OperationFails
<1> QED
  BY <1>2, <1>3, KeepsApproved DEF world, bounds, PlanKept, PlansKept, CallsKept

\* A turn's plan is classified once.
LEMMA ItemPlannedApproved ==
  ASSUME PlanInv, ApprovedInv, NEW o \in Ops, NEW q \in Proposals, ItemPlanned(o, q)
  PROVE  ApprovedInv'
<1>1. Types
  BY InvTypes
<1>2. PlansKept
  BY <1>1, NoSuchOp DEF ItemPlanned, Types, PlansKept, Turns
<1> QED
  BY <1>2, KeepsApproved DEF ItemPlanned, bounds, PlanKept, OpsKept, CallsKept

LEMMA TurnEndsApproved ==
  ASSUME PlanInv, ApprovedInv, NEW o \in Ops, NEW s \in Verdicts,
         NEW q \in Proposals \cup {"none"}, TurnEnds(o, s, q)
  PROVE  ApprovedInv'
BY KeepsApproved DEF TurnEnds, bounds, PlanKept, OpsKept, PlansKept, CallsKept

\* A person's turn comes after the turn of the plan operation.
LEMMA PeopleApproved ==
  ASSUME PlanInv, ApprovedInv, ManualTurn \/ Ask \/ Answer
  PROVE  ApprovedInv'
<1>1. Types
  BY InvTypes
<1>2. CASE ManualTurn
  <2>1. /\ plan'[Manual] = "valid" /\ \A t \in Turns : t # Manual => plan'[t] = plan[t]
        /\ UNCHANGED <<wf, op, call, crashes, adopts>> /\ wf.planTurn # None
    BY <1>1, <1>2 DEF ManualTurn, Types, Turns, bounds
  <2>2. TurnOf(wf.planOp)' = TurnOf(wf.planOp) /\ TurnOf(wf.planOp) # None
    BY <2>1 DEF ApprovedInv, OfficialInv, TurnOf
  <2>3. OfficialInv'
    BY <2>1, <2>2 DEF ApprovedInv, OfficialInv
  <2>4. OwnPlanValid => OwnPlanValid'
    BY <2>1, <2>2, NoSuchOp DEF OwnPlanValid, Turns
  <2>5. ApprovingInv'
    BY <2>1, <2>4 DEF ApprovedInv, ApprovingInv
  <2>6. ExecutionsInv'
    BY <2>1, <2>4 DEF ApprovedInv, ExecutionsInv
  <2> QED
    BY <2>3, <2>5, <2>6 DEF ApprovedInv
<1>3. CASE Ask \/ Answer
  BY <1>3, KeepsApproved DEF Ask, Answer, bounds, PlanKept, OpsKept, PlansKept, CallsKept
<1> QED
  BY <1>2, <1>3

LEMMA NextApproved == PlanInv /\ ApprovedInv /\ [Next]_vars => ApprovedInv'
<1> SUFFICES ASSUME PlanInv, ApprovedInv, [Next]_vars PROVE ApprovedInv'
  OBVIOUS
<1>1. ASSUME NEW p \in Procs, Proceed(p) PROVE ApprovedInv'
  BY <1>1, CreateWorkflowApproved, ObserveApproved, WritePhaseApproved, SubmitAgainApproved,
     SubmitRefusedApproved, RecordApprovalApproved, RecordAdoptionApproved, SubmitTaskApproved
     DEF Proceed
<1>2. ASSUME NEW p \in Procs, ApproveAgain(p) \/ Adopt(p) \/ Crash(p) PROVE ApprovedInv'
  BY <1>2, ApproveAgainApproved, AdoptApproved, CrashApproved
<1>3. ASSUME NEW o \in Ops, Execute(o) PROVE ApprovedInv'
  BY <1>3, PlanStartsApproved, ExecStartsApproved, StatusApproved DEF Execute
<1>4. CASE SomeTurnEnds
  BY <1>4, TurnEndsApproved DEF SomeTurnEnds
<1>5. CASE UNCHANGED vars
  BY <1>5, KeepsApproved DEF vars, PlanKept, OpsKept, PlansKept, CallsKept
<1> QED
  BY <1>1, <1>2, <1>3, <1>4, <1>5, StartApproved, ApproveApproved, ItemPlannedApproved,
     PeopleApproved DEF Next

\* Whatever calls overlap and die, what is executed is a plan that was valid, and
\* once all calls are over the row names it, or a valid one that was adopted.
THEOREM PlanExecutesApproved == Spec => []ExecutesAnApprovedPlan
<1>1. PlanInv /\ ApprovedInv => ExecutesAnApprovedPlan
  <2> SUFFICES ASSUME PlanInv, ApprovedInv, NEW o \in Ops, op[o].kind = "exec"
               PROVE  /\ op[o].plan # None /\ plan[op[o].plan] = "valid"
                      /\ "call" \notin crashes /\ (\A p \in Procs : call[p].pc = "idle")
                           => IF adopts = 0 THEN wf.hash = op[o].plan ELSE plan[wf.hash] = "valid"
    BY DEF ExecutesAnApprovedPlan
  <2>1. OwnPlanValid
    BY DEF ApprovedInv, ExecutionsInv
  <2>2. op[o].plan = wf.planOp \/ (op[o].plan = Manual /\ plan[Manual] = "valid" /\ adopts > 0)
    BY DEF ApprovedInv, ExecutionsInv
  <2>3. "call" \notin crashes /\ (\A p \in Procs : call[p].pc = "idle") => wf.hash # None
    BY DEF ApprovedInv, ExecutionsInv
  <2>4. /\ wf.hash \in {None, wf.planOp, Manual}
        /\ wf.hash = Manual => plan[Manual] = "valid" /\ adopts > 0
    BY DEF ApprovedInv, OfficialInv
  <2> QED
    BY <2>1, <2>2, <2>3, <2>4, NoSuchOp DEF OwnPlanValid
<1>2. Init => PlanInv /\ ApprovedInv
  BY InitPlan, InitApproved
<1>3. PlanInv /\ ApprovedInv /\ [Next]_vars => PlanInv' /\ ApprovedInv'
  BY NextPlan, NextApproved
<1> QED
  BY <1>1, <1>2, <1>3, PTL DEF Spec
=============================================================================

------------------------ MODULE OperationQueueProofs ------------------------
(***************************************************************************)
(* Theorems about OperationQueue, for every set of operations and of       *)
(* processes, every attempt limit and every number of crashes.             *)
(***************************************************************************)
EXTENDS OperationQueue, TLAPS, SequenceTheorems, FiniteSetTheorems

-----------------------------------------------------------------------------
(* Sequences of turns.                                                     *)

\* Aging a turn yields a turn.
LEMMA AgedTurn ==
  ASSUME NEW t \in Turn, NEW w, NEW off
  PROVE  Aged(t, w, off) \in Turn
  BY DEF Aged, Turn, TURN_TERMINAL

\* Replacing every turn of every sequence by a turn keeps the type.
LEMMA MappedTurns ==
  ASSUME turns \in [Ops -> Seq(Turn)],
         turns' = [o \in Ops |-> [k \in 1..Len(turns[o]) |-> turns'[o][k]]],
         \A o \in Ops : \A k \in 1..Len(turns[o]) : turns'[o][k] \in Turn
  PROVE  turns' \in [Ops -> Seq(Turn)]
<1>1. ASSUME NEW o \in Ops PROVE turns'[o] \in Seq(Turn)
  <2>1. Len(turns[o]) \in Nat
    BY LenProperties
  <2>2. turns'[o] = [k \in 1..Len(turns[o]) |-> turns'[o][k]]
    OBVIOUS
  <2>3. turns'[o] \in [1..Len(turns[o]) -> Turn]
    BY <2>2
  <2> QED
    BY <2>1, <2>3, SeqDef
<1> QED
  BY <1>1

\* What the end of an app-server or of a process does to the turns.
LEMMA WriteOffType ==
  ASSUME turns \in [Ops -> Seq(Turn)], NEW w, NEW same, WriteOff(w, same)
  PROVE  turns' \in [Ops -> Seq(Turn)]
<1>1. ASSUME NEW o \in Ops, NEW k \in 1..Len(turns[o]) PROVE turns'[o][k] \in Turn
  <2>1. turns[o][k] \in Turn
    BY ElementOfSeq
  <2>2. turns'[o][k] \in {Aged(turns[o][k], w, TRUE), Aged(turns[o][k], w, FALSE)}
    BY DEF WriteOff, Aged
  <2> QED
    BY <2>1, <2>2, AgedTurn
<1>2. turns' = [o \in Ops |-> [k \in 1..Len(turns[o]) |-> turns'[o][k]]]
  BY DEF WriteOff
<1> QED
  BY <1>1, <1>2, MappedTurns

LEMMA LostTurnsType ==
  ASSUME turns \in [Ops -> Seq(Turn)], NEW w,
         turns' = [o \in Ops |-> [k \in 1..Len(turns[o]) |-> Aged(turns[o][k], w, FALSE)]]
  PROVE  turns' \in [Ops -> Seq(Turn)]
<1>1. ASSUME NEW o \in Ops, NEW k \in 1..Len(turns[o])
      PROVE  /\ turns[o][k] \in Turn
             /\ turns'[o][k] = Aged(turns[o][k], w, FALSE)
  BY ElementOfSeq
<1>2. \A o \in Ops : \A k \in 1..Len(turns[o]) : turns'[o][k] \in Turn
  BY <1>1, AgedTurn
<1>3. turns' = [o \in Ops |-> [k \in 1..Len(turns[o]) |-> turns'[o][k]]]
  OBVIOUS
<1> QED
  BY <1>2, <1>3, MappedTurns

\* Changing one turn keeps the type, also where the index names no turn.
LEMMA ExceptTurn ==
  ASSUME NEW s \in Seq(Turn), NEW k, NEW t, k \in DOMAIN s => t \in Turn
  PROVE  [s EXCEPT ![k] = t] \in Seq(Turn)
<1>1. Len(s) \in Nat /\ s \in [1..Len(s) -> Turn]
  BY LenProperties
<1>2. [s EXCEPT ![k] = t] \in [1..Len(s) -> Turn]
  BY <1>1
<1> QED
  BY <1>1, <1>2, SeqDef

\* Every action that touches the turns keeps WorldTypes.
LEMMA WorldTypesInv ==
  ASSUME TypeOK, [Next]_vars
  PROVE  WorldTypes'
<1> USE DEF WorldTypes
<1>0. turns \in [Ops -> Seq(Turn)] /\ \A o \in Ops : turns[o] \in Seq(Turn)
  BY DEF TypeOK
<1>1. ASSUME NEW o \in Ops, NEW k \in Kinds, Submit(o, k) PROVE WorldTypes'
  <2>1. ASSUME NEW w \in Workers
        PROVE  <<[host |-> w, st |-> "running", live |-> TRUE]>> \in Seq(Turn)
    BY DEF Turn
  <2> QED
    BY <1>0, <1>1, <2>1 DEF Submit, TypeOK
<1>2. ASSUME NEW w \in Workers, NEW o \in Ops, ServerExecutes(w, o) PROVE WorldTypes'
  <2>1. Append(turns[o], [host |-> w, st |-> "untracked", live |-> TRUE]) \in Seq(Turn)
    BY <1>0, AppendProperties DEF Turn
  <2>2. turns' \in [Ops -> Seq(Turn)]
    BY <1>0, <1>2, <2>1 DEF ServerExecutes
  <2>3. [e \in Effects |-> made[o][e] + IF e = pc[w][o] THEN 1 ELSE 0] \in [Effects -> Nat]
    BY DEF TypeOK
  <2>4. made' \in [Ops -> [Effects -> Nat]] /\ delivered' = delivered
    BY <1>2, <2>3 DEF ServerExecutes, TypeOK
  <2> QED
    BY <2>2, <2>4 DEF TypeOK
<1>3. ASSUME NEW w \in Workers, NEW o \in Ops, TurnReply(w, o) PROVE WorldTypes'
  <2> DEFINE i == reply[w][o]
             t == [turns[o][i] EXCEPT !.st = IF @ = "untracked" THEN "running" ELSE @]
  <2>1. turns' = [turns EXCEPT ![o] = [turns[o] EXCEPT ![i] = t]]
    BY <1>0, <1>3 DEF TurnReply
  <2>2. ASSUME i \in DOMAIN turns[o] PROVE t \in Turn
    <3>1. turns[o][i] \in Turn
      BY <1>0, <2>2, LenProperties, ElementOfSeq
    <3> QED
      BY <3>1 DEF Turn, TURN_TERMINAL
  <2>3. [turns[o] EXCEPT ![i] = t] \in Seq(Turn)
    <3> HIDE DEF t, i
    <3> QED BY <1>0, <2>2, ExceptTurn
  <2> QED
    BY <1>0, <1>3, <2>1, <2>3 DEF TurnReply, TypeOK
<1>4. ASSUME NEW o \in Ops, NEW k \in 1..Len(turns[o]), TurnEvent(o, k) PROVE WorldTypes'
  <2>1. turns[o][k] \in Turn
    BY <1>0, ElementOfSeq
  <2>2. [turns[o][k] EXCEPT !.st = "running"] \in Turn
    BY <2>1 DEF Turn
  <2>3. [turns[o] EXCEPT ![k] = [turns[o][k] EXCEPT !.st = "running"]] \in Seq(Turn)
    BY <1>0, <2>2, ExceptTurn
  <2>4. turns' = [turns EXCEPT ![o] = [turns[o] EXCEPT ![k] = [turns[o][k] EXCEPT !.st = "running"]]]
    BY <1>0, <1>4 DEF TurnEvent
  <2> QED
    BY <1>0, <1>4, <2>3, <2>4 DEF TurnEvent, TypeOK
<1>5. ASSUME NEW o \in Ops, NEW k \in 1..Len(turns[o]), NEW s \in {"completed", "failed"},
             TurnEnds(o, k, s)
      PROVE  WorldTypes'
  <2> DEFINE t == [turns[o][k] EXCEPT !.st = s, !.live = FALSE]
  <2>1. turns[o][k] \in Turn
    BY <1>0, ElementOfSeq
  <2>2. t \in Turn
    BY <2>1 DEF Turn, TURN_TERMINAL
  <2>3. [turns[o] EXCEPT ![k] = t] \in Seq(Turn)
    BY <1>0, <2>2, ExceptTurn
  <2>4. turns' = [turns EXCEPT ![o] = [turns[o] EXCEPT ![k] = t]]
    BY <1>0, <1>5 DEF TurnEnds
  <2> QED
    BY <1>0, <1>5, <2>3, <2>4 DEF TurnEnds, TypeOK
<1>6. ASSUME NEW w \in Workers, ServerExit(w) \/ Shutdown(w) PROVE WorldTypes'
  BY <1>0, <1>6, WriteOffType DEF ServerExit, Shutdown, TypeOK
<1>7. ASSUME NEW w \in Workers, Crash(w) PROVE WorldTypes'
  BY <1>0, <1>7, LostTurnsType DEF Crash, TypeOK
<1>8. ASSUME NEW w \in Workers, NEW o \in Ops, SteerReply(w, o) PROVE WorldTypes'
  BY <1>8 DEF SteerReply, TypeOK
<1>9. ASSUME UNCHANGED world PROVE WorldTypes'
  BY <1>9 DEF world, TypeOK
<1>10. CASE UNCHANGED vars
  BY <1>10, <1>9 DEF vars
<1>11. ASSUME NEW w \in Workers, ProcessStep(w) PROVE WorldTypes'
  BY <1>11, <1>6, <1>7, <1>9
  DEF ProcessStep, StartAndRecover, RecoverScan, RecoverApply
<1>12. ASSUME NEW o \in Ops, RowStep(o) PROVE WorldTypes'
  BY <1>12, <1>1, <1>4, <1>5, <1>9
  DEF RowStep, ExpireDead, ExpireStalled, BackoffElapses, Reconcile, RepairStale
<1>13. ASSUME NEW w \in Workers, NEW o \in Ops, Schedule(w, o) \/ Heartbeat(w, o)
       PROVE WorldTypes'
  BY <1>13, <1>9 DEF Schedule, ScheduleListed, SchedulePolled, FailPolled, Heartbeat
<1>14. ASSUME NEW w \in Workers, NEW o \in Ops, Attempt(w, o) PROVE WorldTypes'
  BY <1>14, <1>2, <1>3, <1>8, <1>9
  DEF Attempt, Acquire, Miss, AfterMiss, AdoptTurn, BeginAttempt, MarkUnknown, StartSteer,
      StartThread, StartFork, StartReview, StartMessage, AppFails, AppIsReady, ThreadReply,
      ForkReply, ResumeReply, PersistTurn, RequestRefused, RequestTimesOut,
      HandleError, Finish, world
<1> QED
  BY <1>10, <1>11, <1>12, <1>13, <1>14 DEF Next

-----------------------------------------------------------------------------
(* Rows and processes.                                                     *)

\* The rows recovery selects, and what it makes of them.
LEMMA RecoveryTypes ==
  ASSUME TypeOK
  PROVE  /\ RecoverableRows \in SUBSET ScanRow
         /\ \A rows : Recover(rows) => RowTypes'
<1>1. RecoverableRows \in SUBSET ScanRow
  BY DEF TypeOK, RowTypes, RecoverableRows, ScanRow
<1>2. ASSUME NEW rows, Recover(rows) PROVE RowTypes'
  <2>1. \A r : RecoveredStatus(r) \in {"running", "completed", "unknown", "queued"}
    BY DEF RecoveredStatus
  <2>2. \A o \in Ops : status'[o] \in Statuses
    BY <1>2, <2>1 DEF Recover, TypeOK, RowTypes, Statuses, STARTABLE, TERMINAL
  <2>3. status' \in [Ops -> Statuses]
    BY <1>2, <2>2 DEF Recover
  <2>4. /\ leaseOwner' \in [Ops -> Workers \cup {NoWorker}]
        /\ lease' \in [Ops -> {"none", "live", "expired"}]
        /\ nextAttempt' \in [Ops -> BOOLEAN]
    BY <1>2 DEF Recover, TypeOK, RowTypes
  <2> QED
    BY <1>2, <2>3, <2>4 DEF Recover, TypeOK, RowTypes
<1> QED
  BY <1>1, <1>2

\* A process that stops keeps the types of the process variables.
LEMMA StopTypes ==
  ASSUME ProcessTypes, NEW w \in Workers, Stop(w), UNCHANGED <<sawThread, stalls>>
  PROVE  ProcessTypes'
  BY DEF ProcessTypes, Stop, Steps, Busy, Requests

\* Steps of whole processes.
LEMMA ProcessStepTypes ==
  ASSUME TypeOK, NEW w \in Workers, ProcessStep(w)
  PROVE  RowTypes' /\ ProcessTypes'
<1> USE DEF TypeOK
<1>1. CASE StartAndRecover(w)
  BY <1>1, RecoveryTypes DEF StartAndRecover, ProcessTypes, task
<1>2. CASE RecoverScan(w)
  <2>1. scan' \in [Workers -> SUBSET ScanRow]
    BY <1>2, RecoveryTypes DEF RecoverScan, ProcessTypes
  <2> QED
    BY <1>2, <2>1 DEF RecoverScan, RowTypes, ProcessTypes, task, row
<1>3. CASE RecoverApply(w)
  BY <1>3, RecoveryTypes DEF RecoverApply, ProcessTypes, task
<1>4. CASE ServerExit(w)
  BY <1>4 DEF ServerExit, RowTypes, ProcessTypes, row, life, Steps, Busy, Requests
<1>5. CASE Crash(w)
  BY <1>5, StopTypes DEF Crash, RowTypes, row
<1>6. CASE Shutdown(w)
  <2>1. ProcessTypes'
    BY <1>6, StopTypes DEF Shutdown
  <2>2. RowTypes'
    BY <1>6 DEF Shutdown, RowTypes, Statuses, STARTABLE, TERMINAL
  <2> QED
    BY <2>1, <2>2
<1> QED
  BY <1>1, <1>2, <1>3, <1>4, <1>5, <1>6 DEF ProcessStep

\* Steps of a row that no process takes.
LEMMA RowStepTypes ==
  ASSUME TypeOK, NEW o \in Ops, RowStep(o)
  PROVE  RowTypes' /\ ProcessTypes'
<1> USE DEF TypeOK, RowTypes, ProcessTypes
<1>1. ASSUME NEW k \in Kinds, Submit(o, k) PROVE RowTypes' /\ ProcessTypes'
  <2>1. PICK given \in ThreadGiven(k) : threadId' = [threadId EXCEPT ![o] = given]
    BY <1>1 DEF Submit
  <2>2. threadId' \in [Ops -> BOOLEAN]
    <3>1. \A b \in BOOLEAN : [threadId EXCEPT ![o] = b] \in [Ops -> BOOLEAN]
      OBVIOUS
    <3>2. (k \in {"send", "steer"}) \in BOOLEAN
      OBVIOUS
    <3>3. given \in BOOLEAN
      BY <2>1, <3>2, Zenon DEF ThreadGiven
    <3> QED BY <2>1, <3>1, <3>3, Zenon
  <2>3. kind' \in [Ops -> AllKinds \cup {"none"}]
    <3>1. kind' = [kind EXCEPT ![o] = k]
      BY <1>1 DEF Submit
    <3> QED BY <3>1, ConstantsAssumption
  <2>4. turnId' \in [Ops -> Nat]
    <3>1. turnId' = [turnId EXCEPT ![o] = 1] \/ turnId' = turnId
      BY <1>1 DEF Submit
    <3>2. [turnId EXCEPT ![o] = 1] \in [Ops -> Nat] /\ turnId \in [Ops -> Nat]
      BY DEF TypeOK, RowTypes
    <3> QED BY <3>1, <3>2
  <2> QED
    BY <1>1, <2>2, <2>3, <2>4 DEF Submit, task, life
<1>2. CASE ExpireDead(o)
  BY <1>2 DEF ExpireDead, task, life
<1>3. CASE ExpireStalled(o)
  BY <1>3 DEF ExpireStalled, task
<1>4. CASE BackoffElapses(o)
  BY <1>4 DEF BackoffElapses, task, life
<1>5. CASE \E k \in 1..Len(turns[o]) :
             TurnEvent(o, k) \/ \E s \in {"completed", "failed"} : TurnEnds(o, k, s)
  BY <1>5 DEF TurnEvent, TurnEnds, row, task, life
<1>6. CASE Reconcile(o)
  BY <1>6 DEF Reconcile, SetStatus, task, life, TURN_TERMINAL, Statuses, TERMINAL
<1>7. CASE RepairStale(o)
  BY <1>7 DEF RepairStale, SetStatus, ClearLease, task, life, Statuses, STARTABLE
<1> QED
  BY <1>1, <1>2, <1>3, <1>4, <1>5, <1>6, <1>7 DEF RowStep

\* A task that moves to another step of _run_operation.
LEMMA GotoType ==
  ASSUME ProcessTypes, NEW w \in Workers, NEW o \in Ops, NEW p \in Steps, Goto(w, o, p)
  PROVE  pc' \in [Workers -> [Ops -> Steps]]
  BY DEF ProcessTypes, Goto

\* Scheduling, heartbeats and the life of a lease.
LEMMA ScheduleTypes ==
  ASSUME TypeOK, NEW w \in Workers, NEW o \in Ops, Schedule(w, o) \/ Heartbeat(w, o)
  PROVE  RowTypes' /\ ProcessTypes'
<1> USE DEF TypeOK
<1>1. CASE ScheduleListed(w, o)
  BY <1>1 DEF ScheduleListed, Goto, Steps, RowTypes, ProcessTypes, row, life
<1>2. CASE SchedulePolled(w, o)
  BY <1>2 DEF SchedulePolled, Goto, Steps, RowTypes, ProcessTypes, row, life
<1>3. CASE FailPolled(w, o)
  BY <1>3 DEF FailPolled, FailRow, SetStatus, ClearLease, RowTypes, ProcessTypes,
              task, life, Statuses, TERMINAL
<1>4. CASE Heartbeat(w, o)
  BY <1>4 DEF Heartbeat, RowTypes, ProcessTypes, task, life
<1> QED
  BY <1>1, <1>2, <1>3, <1>4 DEF Schedule

\* Releasing or clearing a lease.
LEMMA ReleaseTypes ==
  ASSUME RowTypes, NEW w \in Workers, NEW o \in Ops, ReleaseLease(w, o) \/ ClearLease(o)
  PROVE  /\ leaseOwner' \in [Ops -> Workers \cup {NoWorker}]
         /\ lease' \in [Ops -> {"none", "live", "expired"}]
  BY DEF RowTypes, ReleaseLease, ClearLease

\* Sending a request, giving it up, or resuming a thread first.
LEMMA RequestTypes ==
  ASSUME RowTypes, ProcessTypes, NEW w \in Workers, NEW o \in Ops, NEW r \in Requests,
         NEW s \in Statuses, Request(w, o, r, s) \/ Raise(w, o, s) \/ Resume(w, o, s)
  PROVE  /\ status' \in [Ops -> Statuses]
         /\ attempted' \in [Ops -> BOOLEAN]
         /\ pc' \in [Workers -> [Ops -> Steps]]
         /\ reply' \in [Workers -> [Ops -> Nat]]
<1>1. ASSUME NEW q \in Requests, Request(w, o, q, s)
      PROVE  /\ status' \in [Ops -> Statuses]
             /\ attempted' \in [Ops -> BOOLEAN]
             /\ pc' \in [Workers -> [Ops -> Steps]]
             /\ reply' \in [Workers -> [Ops -> Nat]]
  <2>1. attempted' \in [Ops -> BOOLEAN]
    <3>1. attempted' = [attempted EXCEPT ![o] = attempted[o] \/ q \in {"fork", "review"}]
      BY <1>1 DEF Request, RowTypes
    <3>2. \A b \in BOOLEAN : [attempted EXCEPT ![o] = b] \in [Ops -> BOOLEAN]
      BY DEF RowTypes
    <3>3. (attempted[o] \/ q \in {"fork", "review"}) \in BOOLEAN
      OBVIOUS
    <3> QED BY <3>1, <3>2, <3>3, Zenon
  <2>2. pc' \in [Workers -> [Ops -> Steps]]
    BY <1>1 DEF Request, Goto, ProcessTypes, Steps, Busy
  <2> QED
    BY <1>1, <2>1, <2>2 DEF Request, SetStatus, RowTypes, ProcessTypes
<1>2. ASSUME Raise(w, o, s)
      PROVE  /\ status' \in [Ops -> Statuses]
             /\ attempted' \in [Ops -> BOOLEAN]
             /\ pc' \in [Workers -> [Ops -> Steps]]
             /\ reply' \in [Workers -> [Ops -> Nat]]
  BY <1>2 DEF Raise, SetStatus, Goto, RowTypes, ProcessTypes, Steps, Busy
<1> QED
  BY <1>1, <1>2 DEF Resume, Requests

\* Steps of _run_operation.
LEMMA AttemptTypes ==
  ASSUME TypeOK, NEW w \in Workers, NEW o \in Ops, Attempt(w, o)
  PROVE  RowTypes' /\ ProcessTypes'
<1> USE DEF TypeOK
<1> Requests \subseteq Steps /\ {"idle", "missed", "leased", "app", "reg", "raise", "lost", "fin"} \subseteq Steps
  BY DEF Steps, Busy
<1> {"queued", "starting_app_server", "starting_thread", "starting_review", "starting_turn",
     "running", "completed", "failed", "unknown"} \subseteq Statuses
  BY DEF Statuses, STARTABLE, TERMINAL
<1> {"thread", "fork", "resume", "turn", "review", "steer"} \subseteq Requests
  BY DEF Requests
<1>1. CASE Acquire(w, o)
  BY <1>1 DEF Acquire, Goto, RowTypes, ProcessTypes, life
<1>2. CASE Miss(w, o)
  BY <1>2 DEF Miss, Goto, RowTypes, ProcessTypes, row, life
<1>3. CASE AfterMiss(w, o)
  <2>1. CASE MustFail(o)
    <3>1. RowTypes'
      BY <1>3, <2>1 DEF AfterMiss, FailRow, SetStatus, ClearLease, RowTypes
    <3>2. ProcessTypes'
      BY <1>3 DEF AfterMiss, Goto, ProcessTypes, life
    <3> QED
      BY <3>1, <3>2
  <2>2. CASE ~MustFail(o)
    BY <1>3, <2>2 DEF AfterMiss, Goto, RowTypes, ProcessTypes, life
  <2> QED
    BY <2>1, <2>2
<1>4. CASE AdoptTurn(w, o)
  BY <1>4, ReleaseTypes DEF AdoptTurn, SetStatus, Goto, RowTypes, ProcessTypes, life
<1>5. CASE BeginAttempt(w, o)
  <2>1. sawThread' \in [Workers -> [Ops -> BOOLEAN]]
    BY <1>5 DEF BeginAttempt, MarkUnknown, RowTypes, ProcessTypes
  <2>2. \E s \in Statuses, p \in Steps : SetStatus(o, s) /\ Goto(w, o, p)
    BY <1>5 DEF BeginAttempt, MarkUnknown
  <2>3. status' \in [Ops -> Statuses] /\ pc' \in [Workers -> [Ops -> Steps]]
    BY <2>2 DEF SetStatus, Goto, RowTypes, ProcessTypes
  <2>4. /\ attemptCount' = [attemptCount EXCEPT ![o] = attemptCount[o] + 1]
        /\ nextAttempt' = [nextAttempt EXCEPT ![o] = FALSE]
        /\ UNCHANGED <<kind, threadId, turnId, leaseOwner, lease, attempted, reply, life>>
    BY <1>5 DEF BeginAttempt, MarkUnknown, AttemptNumber
  <2> QED
    BY <2>1, <2>3, <2>4 DEF RowTypes, ProcessTypes, life
<1>6. CASE StartSteer(w, o)
  BY <1>6, RequestTypes DEF StartSteer, AppIsReady, RowTypes, ProcessTypes, life
<1>7. CASE StartThread(w, o)
  BY <1>7, RequestTypes DEF StartThread, AppIsReady, RowTypes, ProcessTypes, life
<1>8. CASE StartFork(w, o)
  BY <1>8, RequestTypes DEF StartFork, AppIsReady, RowTypes, ProcessTypes, life
<1>9. CASE StartReview(w, o)
  BY <1>9, RequestTypes DEF StartReview, AppIsReady, RowTypes, ProcessTypes, life
<1>10. CASE StartMessage(w, o)
  BY <1>10, RequestTypes DEF StartMessage, AppIsReady, RowTypes, ProcessTypes, life
<1>11. CASE AppFails(w, o)
  BY <1>11 DEF AppFails, Goto, RowTypes, ProcessTypes, row, life
<1>12. CASE ServerExecutes(w, o)
  <2>1. Len(turns[o]) \in Nat
    BY LenProperties DEF WorldTypes
  <2>2. \E n \in Nat : reply' = [reply EXCEPT ![w][o] = n]
    BY <1>12, <2>1 DEF ServerExecutes
  <2>3. UNCHANGED <<row, pc, sawThread, life>>
    BY <1>12 DEF ServerExecutes
  <2> QED
    BY <2>2, <2>3 DEF RowTypes, ProcessTypes, row, life
<1>13. CASE ThreadReply(w, o)
  BY <1>13, RequestTypes DEF ThreadReply, RowTypes, ProcessTypes, life
<1>14. CASE ForkReply(w, o)
  <2>1. CASE kind[o] = "fork"
    <3>1. /\ SetStatus(o, "completed") /\ Goto(w, o, "fin")
          /\ threadId' = [threadId EXCEPT ![o] = TRUE]
          /\ nextAttempt' = [nextAttempt EXCEPT ![o] = FALSE]
          /\ UNCHANGED <<kind, turnId, attemptCount, leaseOwner, lease, attempted, reply,
                         sawThread, life>>
      BY <1>14, <2>1 DEF ForkReply
    <3> QED
      BY <3>1 DEF SetStatus, Goto, RowTypes, ProcessTypes, life
  <2>2. CASE kind[o] # "fork"
    BY <1>14, <2>2, RequestTypes DEF ForkReply, RowTypes, ProcessTypes, life
  <2> QED
    BY <2>1, <2>2
<1>15. CASE ResumeReply(w, o)
  BY <1>15, RequestTypes DEF ResumeReply, RowTypes, ProcessTypes, life
<1>16. CASE TurnReply(w, o)
  BY <1>16 DEF TurnReply, Goto, RowTypes, ProcessTypes, row, life
<1>17. CASE PersistTurn(w, o)
  BY <1>17 DEF PersistTurn, SetStatus, Goto, RowTypes, ProcessTypes, life
<1>18. CASE SteerReply(w, o)
  BY <1>18 DEF SteerReply, SetStatus, Goto, RowTypes, ProcessTypes, life
<1>19. CASE RequestRefused(w, o)
  BY <1>19 DEF RequestRefused, Goto, RowTypes, ProcessTypes, row, life
<1>20. CASE RequestTimesOut(w, o)
  BY <1>20 DEF RequestTimesOut, Goto, RowTypes, ProcessTypes, row, life
<1>21. CASE HandleError(w, o)
  <2>1. \E b \in BOOLEAN : nextAttempt' = [nextAttempt EXCEPT ![o] = b]
    BY <1>21 DEF HandleError
  <2>2. nextAttempt' \in [Ops -> BOOLEAN]
    BY <2>1 DEF RowTypes
  <2>3. status' \in [Ops -> Statuses]
    BY <1>21 DEF HandleError, SetStatus, RowTypes
  <2> QED
    BY <1>21, <2>2, <2>3, ReleaseTypes DEF HandleError, Goto, RowTypes, ProcessTypes, life
<1>22. CASE Finish(w, o)
  BY <1>22, ReleaseTypes DEF Finish, Goto, RowTypes, ProcessTypes, life
<1> QED
  BY <1>1, <1>2, <1>3, <1>4, <1>5, <1>6, <1>7, <1>8, <1>9, <1>10, <1>11, <1>12, <1>13,
     <1>14, <1>15, <1>16, <1>17, <1>18, <1>19, <1>20, <1>21, <1>22 DEF Attempt

\* Every step keeps the types.
LEMMA NextTypeOK ==
  ASSUME TypeOK, [Next]_vars
  PROVE  TypeOK'
<1>1. WorldTypes'
  BY WorldTypesInv
<1>2. RowTypes' /\ ProcessTypes'
  <2>1. CASE UNCHANGED vars
    BY <2>1 DEF TypeOK, RowTypes, ProcessTypes, vars, row, task, life
  <2> QED
    BY <2>1, ProcessStepTypes, RowStepTypes, ScheduleTypes, AttemptTypes DEF Next
<1> QED
  BY <1>1, <1>2 DEF TypeOK

LEMMA InitTypeOK == Init => TypeOK
<1>1. \A o \in Ops : <<>> \in Seq(Turn)
  BY EmptySeq
<1> QED
  BY <1>1 DEF Init, TypeOK, RowTypes, ProcessTypes, WorldTypes, Statuses, STARTABLE,
              Steps, ScanRow

\* Every variable of the queue keeps its type, whatever crashes or races.
THEOREM QueueTypes == Spec => []TypeOK
  BY InitTypeOK, NextTypeOK, PTL DEF Spec

-----------------------------------------------------------------------------
(* Exclusion.  It holds where no live process lets a lease lapse and where *)
(* recovery is not interrupted; the runs "hostile" and "race" show that    *)
(* neither premise can be dropped.                                         *)

Calm == MaxStalls = 0 /\ ~RecoveryRaces

Owns(w, o) == leaseOwner[o] = w /\ lease[o] = "live"

\* Only processes that are up have tasks, and no recovery is half done.
Quiet ==
  /\ stalls = 0
  /\ \A w \in Workers : /\ proc[w] # "recovering"
                        /\ \A o \in Ops : pc[w][o] # "idle" => proc[w] = "up"

\* Whoever executes an operation owns its live lease.  The exception is an
\* exhausted operation: another process may have failed it and cleared the lease
\* (FailRow), but then nobody can acquire it again.
LeaseDiscipline ==
  \A w \in Workers, o \in Ops :
    /\ Executing(w, o) => Owns(w, o) \/ Exhausted(o)
    /\ pc[w][o] = "leased" => ~Exhausted(o)

CountInBounds == \A o \in Ops : attemptCount[o] <= MaxAttempts

ExclusionInv ==
  TypeOK /\ Quiet /\ LeaseDiscipline /\ LeaseExclusion /\ CountInBounds

LEMMA InitExclusion == Init => ExclusionInv
<1> SUFFICES ASSUME Init PROVE ExclusionInv
  OBVIOUS
<1>1. \A w \in Workers, o \in Ops : pc[w][o] = "idle" /\ proc[w] = "new" /\ attemptCount[o] = 0
  BY DEF Init
<1>2. Quiet
  BY <1>1 DEF Init, Quiet
<1>3. LeaseDiscipline /\ LeaseExclusion
  BY <1>1 DEF LeaseDiscipline, LeaseExclusion, Executing, Busy, Requests
<1>4. CountInBounds
  BY ConstantsAssumption DEF Init, CountInBounds
<1> QED
  BY <1>2, <1>3, <1>4, InitTypeOK DEF ExclusionInv

\* A step that counts no attempt keeps the invariant if whoever still executes
\* was executing before and keeps the lease it owned.
LEMMA KeepsExclusion ==
  ASSUME ExclusionInv, TypeOK', stalls' = stalls, attemptCount' = attemptCount,
         \A v \in Workers : /\ proc'[v] # "recovering"
                            /\ \A p \in Ops : pc'[v][p] # "idle" => proc'[v] = "up",
         \A v \in Workers, p \in Ops :
            pc'[v][p] \in Busy =>
              /\ Executing(v, p)
              /\ pc'[v][p] = "leased" => pc[v][p] = "leased"
              /\ Owns(v, p) => Exhausted(p) \/ (leaseOwner'[p] = v /\ lease'[p] = "live")
  PROVE  ExclusionInv'
<1>1. Quiet'
  BY DEF ExclusionInv, Quiet
<1>2. LeaseDiscipline'
  <2> SUFFICES ASSUME NEW v \in Workers, NEW p \in Ops
      PROVE  /\ pc'[v][p] \in Busy => \/ leaseOwner'[p] = v /\ lease'[p] = "live"
                                      \/ Exhausted(p)
             /\ pc'[v][p] = "leased" => ~Exhausted(p)
    BY DEF LeaseDiscipline, Executing, Owns, Exhausted
  <2>1. /\ Executing(v, p) => Owns(v, p) \/ Exhausted(p)
        /\ pc[v][p] = "leased" => ~Exhausted(p)
    BY DEF ExclusionInv, LeaseDiscipline
  <2>2. "leased" \in Busy
    BY DEF Busy
  <2> QED
    BY <2>1, <2>2
<1>3. LeaseExclusion'
  BY DEF ExclusionInv, LeaseExclusion, Executing
<1>4. CountInBounds'
  BY DEF ExclusionInv, CountInBounds
<1> QED
  BY <1>1, <1>2, <1>3, <1>4 DEF ExclusionInv

\* A task that moves on, keeping lease and count, or that ends and releases.
LEMMA TaskMoves ==
  ASSUME ExclusionInv, TypeOK', NEW w \in Workers, NEW o \in Ops, NEW p \in Steps,
         Goto(w, o, p), UNCHANGED <<attemptCount, life>>,
         UNCHANGED <<leaseOwner, lease>> \/ (p \notin Busy /\ ReleaseLease(w, o)),
         proc[w] = "up",
         p \in Busy => Executing(w, o) /\ p # "leased"
  PROVE  ExclusionInv'
<1>1. \A v \in Workers, q \in Ops : pc'[v][q] = IF v = w /\ q = o THEN p ELSE pc[v][q]
  BY DEF ExclusionInv, TypeOK, ProcessTypes, Goto
<1>2. \A v \in Workers : /\ proc'[v] # "recovering"
                         /\ \A q \in Ops : pc'[v][q] # "idle" => proc'[v] = "up"
  BY <1>1 DEF ExclusionInv, Quiet, life
<1>3. ASSUME NEW v \in Workers, NEW q \in Ops, pc'[v][q] \in Busy
      PROVE  /\ Executing(v, q)
             /\ pc'[v][q] = "leased" => pc[v][q] = "leased"
             /\ Owns(v, q) => leaseOwner'[q] = v /\ lease'[q] = "live"
  <2>1. Executing(v, q) /\ (pc'[v][q] = "leased" => pc[v][q] = "leased")
    BY <1>1, <1>3 DEF Executing
  <2>2. CASE UNCHANGED <<leaseOwner, lease>>
    BY <2>1, <2>2 DEF Owns
  <2>3. CASE p \notin Busy /\ ReleaseLease(w, o)
    <3>1. ~(v = w /\ q = o)
      BY <1>1, <1>3, <2>3
    <3>2. Owns(v, q) => leaseOwner'[q] = v /\ lease'[q] = "live"
      BY <2>3, <3>1 DEF Owns, ReleaseLease, ClearLease, ExclusionInv, TypeOK, RowTypes
    <3> QED
      BY <2>1, <3>2
  <2> QED
    BY <2>1, <2>2, <2>3
<1>4. stalls' = stalls /\ attemptCount' = attemptCount
  BY DEF life
<1> QED
  BY <1>2, <1>3, <1>4, KeepsExclusion

\* Acquiring: nobody else executes an operation that may be acquired.
LEMMA AcquireKeepsExclusion ==
  ASSUME ExclusionInv, TypeOK', NEW w \in Workers, NEW o \in Ops, Acquire(w, o)
  PROVE  ExclusionInv'
<1>1. \A v \in Workers, q \in Ops : pc'[v][q] = IF v = w /\ q = o THEN "leased" ELSE pc[v][q]
  BY DEF ExclusionInv, TypeOK, ProcessTypes, Acquire, Goto
<1>2. /\ leaseOwner'[o] = w /\ lease'[o] = "live" /\ ~Exhausted(o)
      /\ \A q \in Ops : q # o => leaseOwner'[q] = leaseOwner[q] /\ lease'[q] = lease[q]
      /\ attemptCount' = attemptCount /\ proc' = proc /\ stalls' = stalls
  BY DEF ExclusionInv, TypeOK, RowTypes, Acquire, MayAcquire, life
<1>3. \A v \in Workers : Executing(v, o) => v = w
  BY DEF ExclusionInv, LeaseDiscipline, Owns, Acquire, MayAcquire, LeaseFree
<1>4. Quiet'
  BY <1>1, <1>2 DEF ExclusionInv, Quiet, Acquire
<1>5. LeaseDiscipline'
  <2> SUFFICES ASSUME NEW v \in Workers, NEW q \in Ops
               PROVE  /\ Executing(v, q)' => (Owns(v, q) \/ Exhausted(q))'
                      /\ pc'[v][q] = "leased" => ~Exhausted(q)'
    BY DEF LeaseDiscipline
  <2>1. /\ Executing(v, q) => Owns(v, q) \/ Exhausted(q)
        /\ pc[v][q] = "leased" => ~Exhausted(q)
    BY DEF ExclusionInv, LeaseDiscipline
  <2>2. CASE q = o
    BY <1>1, <1>2, <1>3, <2>1, <2>2 DEF Executing, Owns, Exhausted
  <2>3. CASE q # o
    BY <1>1, <1>2, <2>1, <2>3 DEF Executing, Owns, Exhausted
  <2> QED
    BY <2>2, <2>3
<1>6. LeaseExclusion'
  BY <1>1, <1>3 DEF ExclusionInv, LeaseExclusion, Executing
<1>7. CountInBounds'
  BY <1>2 DEF ExclusionInv, CountInBounds
<1> QED
  BY <1>4, <1>5, <1>6, <1>7 DEF ExclusionInv

\* Counting the attempt: the counter of an operation that is not exhausted.
LEMMA BeginKeepsExclusion ==
  ASSUME ExclusionInv, TypeOK', NEW w \in Workers, NEW o \in Ops, BeginAttempt(w, o)
  PROVE  ExclusionInv'
<1>1. /\ \E p \in {"app", "fin"} : Goto(w, o, p)
      /\ attemptCount' = [attemptCount EXCEPT ![o] = attemptCount[o] + 1]
      /\ UNCHANGED <<leaseOwner, lease, life>>
  BY DEF BeginAttempt, MarkUnknown, AttemptNumber
<1>2. \E p \in {"app", "fin"} :
        \A v \in Workers, q \in Ops : pc'[v][q] = IF v = w /\ q = o THEN p ELSE pc[v][q]
  BY <1>1 DEF ExclusionInv, TypeOK, ProcessTypes, Goto
<1>3. \A q \in Ops : attemptCount'[q] = IF q = o THEN attemptCount[q] + 1 ELSE attemptCount[q]
  BY <1>1 DEF ExclusionInv, TypeOK, RowTypes
<1>4. /\ \A q \in Ops : attemptCount[q] \in Nat
      /\ MaxAttempts \in Nat
  BY ConstantsAssumption DEF ExclusionInv, TypeOK, RowTypes
<1>5. pc[w][o] = "leased" /\ Executing(w, o) /\ proc[w] = "up" /\ attemptCount[o] < MaxAttempts
  BY <1>4 DEF BeginAttempt, MarkUnknown, ExclusionInv, Quiet, LeaseDiscipline, Executing, Busy, Exhausted
<1>6. \A v \in Workers, q \in Ops : Executing(v, q)' => Executing(v, q)
  BY <1>2, <1>5 DEF Executing
<1>7. Quiet'
  BY <1>1, <1>2, <1>5 DEF ExclusionInv, Quiet, life
<1>8. LeaseExclusion'
  BY <1>6 DEF ExclusionInv, LeaseExclusion
<1>9. LeaseDiscipline'
  <2> SUFFICES ASSUME NEW v \in Workers, NEW q \in Ops
               PROVE  /\ Executing(v, q)' => (Owns(v, q) \/ Exhausted(q))'
                      /\ pc'[v][q] = "leased" => ~Exhausted(q)'
    BY DEF LeaseDiscipline
  <2>1. /\ Executing(v, q) => Owns(v, q) \/ Exhausted(q)
        /\ pc[v][q] = "leased" => ~Exhausted(q)
    BY DEF ExclusionInv, LeaseDiscipline
  <2>2. Executing(v, q)' => (Owns(v, q) \/ Exhausted(q))'
    BY <1>1, <1>3, <1>4, <1>6, <2>1 DEF Owns, Exhausted
  <2>3. ASSUME pc'[v][q] = "leased" PROVE ~Exhausted(q)'
    <3>1. pc[v][q] = "leased" /\ ~(v = w /\ q = o)
      BY <1>2, <2>3
    <3>2. q # o
      BY <3>1, <1>5 DEF ExclusionInv, LeaseExclusion, Executing, Busy
    <3> QED
      BY <2>1, <3>1, <3>2, <1>3 DEF Exhausted
  <2> QED
    BY <2>2, <2>3
<1>10. CountInBounds'
  BY <1>3, <1>4, <1>5 DEF ExclusionInv, CountInBounds
<1> QED
  BY <1>7, <1>8, <1>9, <1>10 DEF ExclusionInv

\* The steps of _run_operation.
LEMMA AttemptKeepsExclusion ==
  ASSUME ExclusionInv, TypeOK', NEW w \in Workers, NEW o \in Ops, Attempt(w, o)
  PROVE  ExclusionInv'
<1> Requests \subseteq Steps /\ Requests \subseteq Busy \ {"leased"}
  BY DEF Steps, Busy, Requests
<1> {"app", "reg", "raise", "lost"} \subseteq Busy \ {"leased"} /\ Busy \subseteq Steps
  BY DEF Steps, Busy
<1> {"idle", "missed", "fin"} \subseteq Steps \ Busy
  BY DEF Steps, Busy, Requests
<1> {"thread", "fork", "resume", "turn", "review", "steer"} \subseteq Requests
  BY DEF Requests
<1>0. pc[w][o] # "idle" => proc[w] = "up"
  BY DEF ExclusionInv, Quiet
<1>1. ASSUME UNCHANGED <<attemptCount, leaseOwner, lease, life>>,
             pc[w][o] \in Busy,
             \E p \in (Busy \ {"leased"}) \cup {"fin"} : Goto(w, o, p)
      PROVE  ExclusionInv'
  BY <1>0, <1>1, TaskMoves DEF Executing
<1>2. ASSUME NEW r \in Requests, NEW s, Request(w, o, r, s) \/ Resume(w, o, s) \/ Raise(w, o, s)
      PROVE  \E p \in Busy \ {"leased"} : Goto(w, o, p)
  BY <1>2 DEF Request, Resume, Raise
<1>3. CASE Acquire(w, o)
  BY <1>3, AcquireKeepsExclusion
<1>4. CASE Miss(w, o)
  BY <1>0, <1>4, TaskMoves DEF Miss, row
<1>5. CASE AfterMiss(w, o)
  <2>1. \A v \in Workers, q \in Ops : pc'[v][q] = IF v = w /\ q = o THEN "idle" ELSE pc[v][q]
    BY <1>5 DEF ExclusionInv, TypeOK, ProcessTypes, AfterMiss, Goto
  <2>2. \A v \in Workers, q \in Ops :
          Owns(v, q) => Exhausted(q) \/ (leaseOwner'[q] = v /\ lease'[q] = "live")
    BY <1>5 DEF ExclusionInv, TypeOK, RowTypes, AfterMiss, MustFail, FailRow, ClearLease, Owns
  <2>3. UNCHANGED <<attemptCount, proc, stalls>>
    BY <1>5 DEF AfterMiss, life
  <2>4. /\ \A v \in Workers : proc'[v] # "recovering"
        /\ \A v \in Workers, q \in Ops : pc'[v][q] # "idle" => proc'[v] = "up"
        /\ \A v \in Workers, q \in Ops : pc'[v][q] \in Busy => pc'[v][q] = pc[v][q]
    BY <2>1, <2>3 DEF ExclusionInv, Quiet
  <2> QED
    BY <2>2, <2>3, <2>4, KeepsExclusion DEF Executing
<1>6. CASE AdoptTurn(w, o)
  BY <1>0, <1>6, TaskMoves DEF AdoptTurn
<1>7. CASE BeginAttempt(w, o)
  BY <1>7, BeginKeepsExclusion
<1>8. CASE StartSteer(w, o) \/ StartThread(w, o) \/ StartFork(w, o)
  BY <1>1, <1>2, <1>8 DEF StartSteer, StartThread, StartFork, AppIsReady
<1>9. CASE StartReview(w, o) \/ StartMessage(w, o)
  BY <1>1, <1>2, <1>9 DEF StartReview, StartMessage, AppIsReady
<1>10. CASE AppFails(w, o)
  BY <1>1, <1>10 DEF AppFails, row
<1>11. CASE ServerExecutes(w, o)
  <2>1. UNCHANGED <<leaseOwner, lease, attemptCount, pc, proc, stalls>>
    BY <1>11 DEF ServerExecutes, row, life
  <2> QED
    BY <2>1, KeepsExclusion DEF ExclusionInv, Quiet, Executing, Owns
<1>12. CASE ThreadReply(w, o)
  BY <1>1, <1>2, <1>12 DEF ThreadReply
<1>13. CASE ForkReply(w, o)
  <2>1. \E p \in (Busy \ {"leased"}) \cup {"fin"} : Goto(w, o, p)
    BY <1>2, <1>13 DEF ForkReply
  <2> QED
    BY <1>1, <1>13, <2>1 DEF ForkReply
<1>14. CASE ResumeReply(w, o)
  BY <1>1, <1>2, <1>14 DEF ResumeReply
<1>15. CASE TurnReply(w, o)
  BY <1>1, <1>15 DEF TurnReply, row
<1>16. CASE PersistTurn(w, o)
  BY <1>1, <1>16 DEF PersistTurn
<1>17. CASE SteerReply(w, o)
  BY <1>1, <1>17 DEF SteerReply
<1>18. CASE RequestRefused(w, o)
  BY <1>1, <1>18 DEF RequestRefused, row
<1>19. CASE RequestTimesOut(w, o)
  BY <1>1, <1>19 DEF RequestTimesOut, row
<1>20. CASE HandleError(w, o)
  <2>1. /\ Goto(w, o, "fin") /\ ReleaseLease(w, o) /\ pc[w][o] # "idle"
        /\ UNCHANGED <<attemptCount, life>>
    BY <1>20 DEF HandleError
  <2> QED
    BY <1>0, <2>1, TaskMoves
<1>21. CASE Finish(w, o)
  BY <1>0, <1>21, TaskMoves DEF Finish
<1> QED
  BY <1>3, <1>4, <1>5, <1>6, <1>7, <1>8, <1>9, <1>10, <1>11, <1>12, <1>13, <1>14, <1>15,
     <1>16, <1>17, <1>18, <1>19, <1>20, <1>21 DEF Attempt

\* Scheduling, and the heartbeat of an attempt.
LEMMA ScheduleKeepsExclusion ==
  ASSUME ExclusionInv, TypeOK', NEW w \in Workers, NEW o \in Ops,
         Schedule(w, o) \/ Heartbeat(w, o)
  PROVE  ExclusionInv'
<1> "spawned" \in Steps \ Busy
  BY DEF Steps, Busy, Requests
<1>1. CASE ScheduleListed(w, o) \/ SchedulePolled(w, o)
  BY <1>1, TaskMoves DEF ScheduleListed, SchedulePolled, MaySchedule, row
<1>2. CASE FailPolled(w, o)
  <2>1. \A v \in Workers, q \in Ops :
          Owns(v, q) => Exhausted(q) \/ (leaseOwner'[q] = v /\ lease'[q] = "live")
    BY <1>2 DEF ExclusionInv, TypeOK, RowTypes, FailPolled, MustFail, FailRow, ClearLease, Owns
  <2>2. UNCHANGED <<attemptCount, pc, proc, stalls>>
    BY <1>2 DEF FailPolled, task, life
  <2> QED
    BY <2>1, <2>2, KeepsExclusion DEF ExclusionInv, Quiet, Executing
<1>3. CASE Heartbeat(w, o)
  <2>1. \A v \in Workers, q \in Ops :
          Owns(v, q) => leaseOwner'[q] = v /\ lease'[q] = "live"
    BY <1>3 DEF ExclusionInv, TypeOK, RowTypes, Heartbeat, Owns
  <2>2. UNCHANGED <<attemptCount, pc, proc, stalls>>
    BY <1>3 DEF Heartbeat, task, life
  <2> QED
    BY <2>1, <2>2, KeepsExclusion DEF ExclusionInv, Quiet, Executing
<1> QED
  BY <1>1, <1>2, <1>3 DEF Schedule

\* A row's own steps: only dead owners lose a lease to the clock, and a repair
\* takes no live one.
LEMMA RowKeepsExclusion ==
  ASSUME Calm, ExclusionInv, TypeOK', NEW o \in Ops, RowStep(o)
  PROVE  ExclusionInv'
<1>1. ASSUME UNCHANGED <<attemptCount, pc, proc, stalls>>,
             \A v \in Workers, q \in Ops :
               Executing(v, q) /\ Owns(v, q) => leaseOwner'[q] = v /\ lease'[q] = "live"
      PROVE  ExclusionInv'
  BY <1>1, KeepsExclusion DEF ExclusionInv, Quiet, Executing
<1>2. ASSUME UNCHANGED <<attemptCount, leaseOwner, lease, task, life>> PROVE ExclusionInv'
  BY <1>1, <1>2 DEF Owns, task, life
<1>3. CASE ExpireDead(o)
  <2>1. \A v \in Workers : Executing(v, o) => proc[v] = "up"
    BY DEF ExclusionInv, Quiet, Executing, Busy, Requests
  <2>2. \A v \in Workers, q \in Ops :
          Executing(v, q) /\ Owns(v, q) => leaseOwner'[q] = v /\ lease'[q] = "live"
    BY <1>3, <2>1 DEF ExclusionInv, TypeOK, RowTypes, ExpireDead, Owns
  <2> QED
    BY <1>1, <1>3, <2>2 DEF ExpireDead, task, life
<1>4. CASE ExpireStalled(o)
  BY <1>4 DEF ExpireStalled, Calm, ExclusionInv, Quiet
<1>5. CASE RepairStale(o)
  <2>1. \A v \in Workers, q \in Ops : Owns(v, q) => leaseOwner'[q] = v /\ lease'[q] = "live"
    BY <1>5 DEF ExclusionInv, TypeOK, RowTypes, RepairStale, Stale, LeaseFree, ClearLease, Owns
  <2> QED
    BY <1>1, <1>5, <2>1 DEF RepairStale, task, life
<1>6. CASE \E k \in Kinds : Submit(o, k)
  BY <1>2, <1>6 DEF Submit
<1>7. CASE BackoffElapses(o) \/ Reconcile(o)
  BY <1>2, <1>7 DEF BackoffElapses, Reconcile
<1>8. CASE \E k \in 1..Len(turns[o]) :
             TurnEvent(o, k) \/ \E s \in {"completed", "failed"} : TurnEnds(o, k, s)
  BY <1>2, <1>8 DEF TurnEvent, TurnEnds, row
<1> QED
  BY <1>3, <1>4, <1>5, <1>6, <1>7, <1>8 DEF RowStep

\* Starts, recoveries and ends of processes: recovery takes no live lease, and a
\* process that ends gives up only its own.
LEMMA ProcessKeepsExclusion ==
  ASSUME Calm, ExclusionInv, TypeOK', NEW w \in Workers, ProcessStep(w)
  PROVE  ExclusionInv'
<1>1. CASE StartAndRecover(w)
  <2>1. \A r \in RecoverableRows : LeaseFree(r.op)
    BY DEF RecoverableRows
  <2>2. \A q \in Ops : lease[q] = "live" => leaseOwner'[q] = leaseOwner[q] /\ lease'[q] = lease[q]
    BY <1>1, <2>1 DEF StartAndRecover, Recover, LeaseFree
  <2>3. UNCHANGED <<attemptCount, pc, stalls>>
    BY <1>1 DEF StartAndRecover, Recover, task
  <2>4. \A v \in Workers : proc'[v] = IF v = w THEN "up" ELSE proc[v]
    BY <1>1 DEF StartAndRecover, ExclusionInv, TypeOK, ProcessTypes
  <2>5. /\ \A v \in Workers : proc'[v] # "recovering"
        /\ \A v \in Workers, q \in Ops : pc'[v][q] # "idle" => proc'[v] = "up"
    BY <2>3, <2>4 DEF ExclusionInv, Quiet
  <2> QED
    BY <2>2, <2>3, <2>5, KeepsExclusion DEF Executing, Owns
<1>2. CASE RecoverScan(w) \/ RecoverApply(w)
  BY <1>2 DEF RecoverScan, RecoverApply, Calm, ExclusionInv, Quiet
<1>3. CASE ServerExit(w)
  <2> {"lost"} \cup Requests \subseteq Busy \ {"leased", "idle"}
    BY DEF Busy, Requests
  <2>1. \A v \in Workers, q \in Ops :
          pc'[v][q] = pc[v][q] \/ (pc[v][q] \in Requests /\ pc'[v][q] = "lost")
    BY <1>3 DEF ServerExit, ExclusionInv, TypeOK, ProcessTypes
  <2>2. UNCHANGED <<attemptCount, leaseOwner, lease, proc, stalls>>
    BY <1>3 DEF ServerExit, row, life
  <2>3. /\ \A v \in Workers : proc'[v] # "recovering"
        /\ \A v \in Workers, q \in Ops : pc'[v][q] # "idle" => proc'[v] = "up"
    BY <2>1, <2>2 DEF ExclusionInv, Quiet
  <2>4. \A v \in Workers, q \in Ops :
          pc'[v][q] \in Busy => /\ Executing(v, q)
                                /\ pc'[v][q] = "leased" => pc[v][q] = "leased"
    BY <2>1 DEF Executing
  <2> QED
    BY <2>2, <2>3, <2>4, KeepsExclusion DEF Owns
<1>4. ASSUME Stop(w), UNCHANGED <<attemptCount, stalls>>,
             \A v \in Workers \ {w}, q \in Ops :
               Owns(v, q) => leaseOwner'[q] = v /\ lease'[q] = "live"
      PROVE  ExclusionInv'
  <2> "idle" \notin Busy
    BY DEF Busy, Requests
  <2>1. \A v \in Workers, q \in Ops : pc'[v][q] = IF v = w THEN "idle" ELSE pc[v][q]
    BY <1>4 DEF Stop, ExclusionInv, TypeOK, ProcessTypes
  <2>2. \A v \in Workers : proc'[v] = IF v = w THEN "dead" ELSE proc[v]
    BY <1>4 DEF Stop, ExclusionInv, TypeOK, ProcessTypes
  <2>3. /\ \A v \in Workers : proc'[v] # "recovering"
        /\ \A v \in Workers, q \in Ops : pc'[v][q] # "idle" => proc'[v] = "up"
    BY <2>1, <2>2 DEF ExclusionInv, Quiet
  <2>4. \A v \in Workers, q \in Ops :
          pc'[v][q] \in Busy => v # w /\ pc'[v][q] = pc[v][q]
    BY <2>1
  <2> QED
    BY <1>4, <2>3, <2>4, KeepsExclusion DEF Executing
<1>5. CASE Crash(w)
  BY <1>4, <1>5 DEF Crash, row, Owns
<1>6. CASE Shutdown(w)
  <2>1. \A q \in Ops : leaseOwner[q] # w => leaseOwner'[q] = leaseOwner[q] /\ lease'[q] = lease[q]
    BY <1>6 DEF Shutdown
  <2>2. Stop(w) /\ UNCHANGED <<attemptCount, stalls>>
    BY <1>6 DEF Shutdown
  <2> QED
    BY <1>4, <2>1, <2>2 DEF Owns
<1> QED
  BY <1>1, <1>2, <1>3, <1>5, <1>6 DEF ProcessStep

\* The invariant is inductive.
LEMMA NextKeepsExclusion ==
  ASSUME Calm, ExclusionInv, [Next]_vars
  PROVE  ExclusionInv'
<1>1. TypeOK'
  BY NextTypeOK DEF ExclusionInv
<1>2. CASE UNCHANGED vars
  BY <1>1, <1>2, KeepsExclusion
  DEF vars, row, task, life, ExclusionInv, Quiet, Executing, Owns
<1> QED
  BY <1>1, <1>2, AttemptKeepsExclusion, ScheduleKeepsExclusion, RowKeepsExclusion,
     ProcessKeepsExclusion DEF Next

\* However many processes serve the database and however they start, end, fail
\* and recover, one process at a time executes an operation.
THEOREM QueueExcludes == ASSUME Calm PROVE Spec => []LeaseExclusion
<1>1. ExclusionInv => LeaseExclusion
  BY DEF ExclusionInv
<1>2. ExclusionInv /\ [Next]_vars => ExclusionInv'
  BY NextKeepsExclusion
<1> QED
  BY <1>1, <1>2, InitExclusion, PTL DEF Spec

\* No operation is attempted more often than max_attempts, over all processes,
\* crashes, recoveries, repairs and retries.
THEOREM QueueBoundsAttempts == ASSUME Calm PROVE Spec => []AttemptsBounded
<1>1. ExclusionInv => AttemptsBounded
  BY ConstantsAssumption
  DEF ExclusionInv, CountInBounds, AttemptsBounded, Quiet, TypeOK, RowTypes
<1>2. ExclusionInv /\ [Next]_vars => ExclusionInv'
  BY NextKeepsExclusion
<1> QED
  BY <1>1, <1>2, InitExclusion, PTL DEF Spec

-----------------------------------------------------------------------------
(* Locality: an attempt touches one row and one task.                      *)

\* A step of one process for one operation changes nothing of the others.
OnlyRow(o) ==
  \A q \in Ops \ {o} :
    /\ status'[q] = status[q] /\ threadId'[q] = threadId[q] /\ turnId'[q] = turnId[q]
    /\ attempted'[q] = attempted[q] /\ attemptCount'[q] = attemptCount[q]
    /\ turns'[q] = turns[q] /\ made'[q] = made[q] /\ delivered'[q] = delivered[q]

\* ... nor of the other tasks.
OnlyTask(w, o) ==
  \A v \in Workers, q \in Ops : v # w \/ q # o =>
    pc'[v][q] = pc[v][q] /\ reply'[v][q] = reply[v][q] /\ sawThread'[v][q] = sawThread[v][q]

\* A step of w for o.
Local(w, o) == OnlyRow(o) /\ OnlyTask(w, o) /\ kind' = kind /\ UNCHANGED life

\* Whatever an attempt does, it touches its row and its task.
LEMMA AttemptIsLocal ==
  ASSUME TypeOK, NEW w \in Workers, NEW o \in Ops, Attempt(w, o)
  PROVE  Local(w, o)
<1> USE DEF TypeOK, RowTypes, ProcessTypes, WorldTypes, Local, OnlyRow, OnlyTask, SetStatus, Goto,
            row, world, life
<1>1. CASE Acquire(w, o) \/ Miss(w, o)
  BY <1>1 DEF Acquire, Miss
<1>2. CASE AfterMiss(w, o)
  BY <1>2 DEF AfterMiss, FailRow, ClearLease
<1>3. CASE AdoptTurn(w, o)
  BY <1>3 DEF AdoptTurn
<1>4. CASE BeginAttempt(w, o)
  <2>1. \E s, p : SetStatus(o, s) /\ Goto(w, o, p)
    BY <1>4 DEF BeginAttempt, MarkUnknown
  <2>2. /\ sawThread' = [sawThread EXCEPT ![w][o] = threadId[o]]
        /\ attemptCount' = [attemptCount EXCEPT ![o] = attemptCount[o] + 1]
        /\ UNCHANGED <<kind, threadId, turnId, attempted, world, reply, life>>
    BY <1>4 DEF BeginAttempt, MarkUnknown, AttemptNumber
  <2>3. OnlyRow(o)
    BY <2>1, <2>2
  <2>4. \A v \in Workers, q \in Ops : v # w \/ q # o => sawThread'[v][q] = sawThread[v][q]
    BY <2>2
  <2> QED
    BY <2>1, <2>2, <2>3, <2>4
<1>5. ASSUME NEW r, NEW s, Request(w, o, r, s) \/ Resume(w, o, s) \/ Raise(w, o, s),
             UNCHANGED <<kind, turnId, attemptCount, world, sawThread, life>>,
             \A q \in Ops \ {o} : threadId'[q] = threadId[q]
      PROVE  Local(w, o)
  <2>1. ASSUME NEW x, Request(w, o, x, s) PROVE Local(w, o)
    BY <1>5, <2>1 DEF Request
  <2>2. CASE Raise(w, o, s)
    BY <1>5, <2>2 DEF Raise
  <2> QED
    BY <1>5, <2>1, <2>2 DEF Resume
<1>6. CASE StartSteer(w, o) \/ StartThread(w, o) \/ StartFork(w, o)
  BY <1>5, <1>6 DEF StartSteer, StartThread, StartFork, AppIsReady
<1>7. CASE StartReview(w, o) \/ StartMessage(w, o)
  BY <1>5, <1>7 DEF StartReview, StartMessage, AppIsReady
<1>8. CASE AppFails(w, o)
  BY <1>8 DEF AppFails
<1>9. CASE ServerExecutes(w, o)
  <2>1. \A q \in Ops \ {o} : made'[q] = made[q] /\ turns'[q] = turns[q]
    BY <1>9 DEF ServerExecutes
  <2>2. \A v \in Workers, q \in Ops : v # w \/ q # o => reply'[v][q] = reply[v][q]
    BY <1>9 DEF ServerExecutes
  <2>3. UNCHANGED <<row, delivered, pc, sawThread, life>>
    BY <1>9 DEF ServerExecutes
  <2> QED
    <3>1. OnlyRow(o)
      BY <2>1, <2>3
    <3>2. OnlyTask(w, o)
      BY <2>2, <2>3
    <3> QED
      BY <2>3, <3>1, <3>2
<1>10. CASE ThreadReply(w, o)
  <2>1. \E r, s : Request(w, o, r, s)
    BY <1>10 DEF ThreadReply
  <2>2. /\ UNCHANGED <<kind, turnId, attemptCount, world, sawThread, life>>
        /\ \A q \in Ops \ {o} : threadId'[q] = threadId[q]
    BY <1>10 DEF ThreadReply
  <2> QED
    BY <1>5, <2>1, <2>2
<1>11. CASE ForkReply(w, o)
  <2>1. /\ UNCHANGED <<kind, turnId, attemptCount, world, sawThread, life>>
        /\ \A q \in Ops \ {o} : threadId'[q] = threadId[q]
    BY <1>11 DEF ForkReply
  <2>2. CASE kind[o] = "fork"
    <3>1. /\ SetStatus(o, "completed") /\ Goto(w, o, "fin")
          /\ UNCHANGED <<attempted, reply>>
      BY <1>11, <2>2 DEF ForkReply
    <3> QED
      BY <2>1, <3>1
  <2>3. CASE kind[o] # "fork"
    <3>1. Resume(w, o, "starting_turn")
      BY <1>11, <2>3 DEF ForkReply
    <3> QED
      BY <1>5, <2>1, <3>1
  <2> QED
    BY <2>2, <2>3
<1>12. CASE ResumeReply(w, o)
  BY <1>5, <1>12 DEF ResumeReply
<1>13. CASE TurnReply(w, o)
  BY <1>13 DEF TurnReply
<1>14. CASE PersistTurn(w, o)
  BY <1>14 DEF PersistTurn
<1>15. CASE SteerReply(w, o)
  BY <1>15 DEF SteerReply
<1>16. CASE RequestRefused(w, o) \/ RequestTimesOut(w, o)
  <2>1. CASE RequestRefused(w, o)
    BY <2>1 DEF RequestRefused
  <2>2. CASE RequestTimesOut(w, o)
    BY <2>2 DEF RequestTimesOut
  <2> QED
    BY <1>16, <2>1, <2>2
<1>17. CASE HandleError(w, o)
  BY <1>17 DEF HandleError
<1>18. CASE Finish(w, o)
  BY <1>18 DEF Finish
<1> QED
  BY <1>1, <1>2, <1>3, <1>4, <1>6, <1>7, <1>8, <1>9, <1>10, <1>11, <1>12, <1>13,
     <1>14, <1>15, <1>16, <1>17, <1>18 DEF Attempt

-----------------------------------------------------------------------------
(* Evidence: a status that claims something about a turn can be believed.  *)

\* Turn k of o was started and the tracker wrote it down.
Registered(o, k) == k \in 1..Len(turns[o]) /\ turns[o][k].st # "untracked"

\* What a row proves about the turns.
RowEvidence(o) ==
  /\ kind[o] = "none" => status[o] = "queued" /\ turnId[o] = 0
  /\ kind[o] = "steer" => turnId[o] # 0
  /\ turnId[o] # 0 => Registered(o, turnId[o])
  /\ \A k \in 1..Len(turns[o]) : turns[o][k].st \in {"completed", "failed"} => ~turns[o][k].live

\* What a running attempt proves about them.
TaskEvidence(w, o) ==
  /\ pc[w][o] # "idle" => kind[o] # "none"
  /\ pc[w][o] = "steer" => kind[o] = "steer"
  /\ pc[w][o] \in {"turn", "review"} /\ reply[w][o] # 0 => reply[w][o] \in 1..Len(turns[o])
  /\ pc[w][o] = "reg" => Registered(o, reply[w][o])

\* What the recovery read is still true, for the columns that only grow.
ScanEvidence(r) ==
  /\ kind[r.op] # "none"
  /\ r.threadId => threadId[r.op]
  /\ r.turnId # 0 => turnId[r.op] # 0

\* The invariant that carries StatusHasEvidence through every step.
EvidenceInv ==
  /\ TypeOK
  /\ \A o \in Ops : RowEvidence(o)
  /\ \A w \in Workers, o \in Ops : TaskEvidence(w, o)
  /\ \A w \in Workers : \A r \in scan[w] : ScanEvidence(r)
  /\ StatusHasEvidence

\* Turns are added, registered and completed for good.
TurnsKeep(o) ==
  /\ Len(turns[o]) <= Len(turns'[o])
  /\ \A k \in 1..Len(turns[o]) :
       /\ turns[o][k].st # "untracked" => turns'[o][k].st # "untracked"
       /\ turns[o][k].st = "completed" => turns'[o][k].st = "completed"
  /\ \A k \in 1..Len(turns'[o]) :
       turns'[o][k].st \in {"completed", "failed"} => ~turns'[o][k].live

\* The turn of the row completed.
CompletedTurn(o) == turnId[o] # 0 /\ turns[o][turnId[o]].st = "completed"

\* How a row may move: what it names was registered, and running or completed
\* has a cause.
RowMove(o) ==
  /\ threadId[o] => threadId'[o]
  /\ \/ turnId'[o] = turnId[o]
     \/ turnId'[o] # 0 /\ Registered(o, turnId[o])' /\ status'[o] = "running" /\ kind[o] # "none"
  /\ kind[o] = "none" => status'[o] = "queued"
  /\ status'[o] = "running" => status[o] = "running" \/ turnId'[o] # 0
  /\ status'[o] = "completed" =>
       status[o] = "completed" \/ ForkFinished(o, threadId'[o]) \/ CompletedTurn(o)

\* How an attempt may move.
TaskMove(w, o) ==
  \/ pc'[w][o] = "idle"
  \/ pc'[w][o] = pc[w][o] /\ reply'[w][o] = reply[w][o]
  \/ kind[o] # "none" /\ pc'[w][o] \notin {"steer", "turn", "review", "reg"}
  \/ kind[o] # "none" /\ pc'[w][o] \in {"turn", "review"} /\ reply'[w][o] \in 0..Len(turns'[o])
  \/ kind[o] = "steer" /\ pc'[w][o] = "steer"
  \/ kind[o] # "none" /\ pc'[w][o] = "reg" /\ Registered(o, reply[w][o])'

\* Rows, attempts and turns that move so keep the evidence.
LEMMA EvidenceKeeps ==
  ASSUME EvidenceInv, TypeOK', kind' = kind,
         \A o \in Ops : TurnsKeep(o) /\ RowMove(o),
         \A w \in Workers, o \in Ops : TaskMove(w, o),
         \A w \in Workers : scan'[w] \subseteq scan[w] \cup RecoverableRows
  PROVE  EvidenceInv'
<1>0. /\ \A o \in Ops : turnId[o] \in Nat /\ turnId'[o] \in Nat
      /\ \A o \in Ops : Len(turns[o]) \in Nat /\ Len(turns'[o]) \in Nat
  BY DEF EvidenceInv, TypeOK, RowTypes, WorldTypes
<1>1. ASSUME NEW o \in Ops, NEW k, Registered(o, k) PROVE Registered(o, k)'
  BY <1>0, <1>1 DEF Registered, TurnsKeep
<1>2. ASSUME NEW o \in Ops PROVE RowEvidence(o)'
  <2>1. RowEvidence(o) /\ RowMove(o) /\ TurnsKeep(o)
    BY DEF EvidenceInv
  <2>2. turnId'[o] # 0 => Registered(o, turnId[o])'
    BY <1>1, <2>1 DEF RowEvidence, RowMove, Registered
  <2> QED
    BY <2>1, <2>2 DEF RowEvidence, RowMove, TurnsKeep
<1>3. ASSUME NEW w \in Workers, NEW o \in Ops PROVE TaskEvidence(w, o)'
  <2>1. TaskEvidence(w, o) /\ TaskMove(w, o)
    BY DEF EvidenceInv
  <2>2. pc[w][o] = "reg" => Registered(o, reply[w][o])
    BY <2>1 DEF TaskEvidence
  <2>3. pc[w][o] = "reg" /\ reply'[w][o] = reply[w][o] => Registered(o, reply[w][o])'
    BY <1>1, <2>2 DEF Registered
  <2>4. reply[w][o] \in 1..Len(turns[o]) => reply[w][o] \in 1..Len(turns'[o])
    BY <1>0 DEF TurnsKeep
  <2>5. reply'[w][o] \in Nat /\ reply[w][o] \in Nat
    BY DEF EvidenceInv, TypeOK, ProcessTypes
  <2> QED
    BY <1>0, <2>1, <2>3, <2>4, <2>5 DEF TaskEvidence, TaskMove
<1>4. ASSUME NEW w \in Workers, NEW r \in scan'[w] PROVE ScanEvidence(r)'
  <2>1. r.op \in Ops
    BY DEF TypeOK, ProcessTypes, ScanRow
  <2>2. CASE r \in scan[w]
    BY <2>1, <2>2 DEF EvidenceInv, ScanEvidence, RowMove
  <2>3. CASE r \in RecoverableRows
    <3>1. kind[r.op] # "none" /\ r.threadId = threadId[r.op] /\ r.turnId = turnId[r.op]
      BY <2>3 DEF RecoverableRows
    <3> QED
      BY <2>1, <3>1 DEF ScanEvidence, RowMove
  <2> QED
    BY <2>2, <2>3
<1>5. ASSUME NEW o \in Ops
      PROVE  /\ status'[o] = "running" => Registered(o, turnId[o])'
             /\ status'[o] = "completed" =>
                  ForkFinished(o, threadId[o])' \/ CompletedTurn(o)'
  <2>1. RowEvidence(o) /\ RowMove(o) /\ TurnsKeep(o)
    BY DEF EvidenceInv
  <2>2. ASSUME status'[o] = "running" PROVE Registered(o, turnId[o])'
    <3>1. status[o] = "running" => turnId[o] # 0
      BY <1>0 DEF EvidenceInv, StatusHasEvidence
    <3>2. turnId'[o] # 0
      BY <2>1, <2>2, <3>1 DEF RowMove
    <3> QED
      BY <1>2, <3>2 DEF RowEvidence
  <2>3. ASSUME status'[o] = "completed" PROVE ForkFinished(o, threadId[o])' \/ CompletedTurn(o)'
    <3>1. turnId'[o] = turnId[o]
      BY <2>1, <2>3 DEF RowMove
    <3>2. CASE ForkFinished(o, threadId[o]) \/ ForkFinished(o, threadId'[o])
      BY <2>1, <3>2 DEF ForkFinished, RowMove
    <3>3. CASE CompletedTurn(o)
      BY <2>1, <3>1, <3>3 DEF CompletedTurn, RowEvidence, Registered, TurnsKeep
    <3> QED
      BY <2>1, <2>3, <3>2, <3>3 DEF RowMove, EvidenceInv, StatusHasEvidence, CompletedTurn
  <2> QED
    BY <2>2, <2>3
<1>6. StatusHasEvidence'
  BY <1>5 DEF StatusHasEvidence, Registered, CompletedTurn
<1> QED
  BY <1>2, <1>3, <1>4, <1>6 DEF EvidenceInv

\* Where no turn changes, what the turns say is kept.
LEMMA SameTurnsKeep ==
  ASSUME EvidenceInv, NEW o \in Ops, turns'[o] = turns[o]
  PROVE  TurnsKeep(o)
<1>1. Len(turns[o]) \in Nat /\ RowEvidence(o)
  BY DEF EvidenceInv, TypeOK, WorldTypes
<1> QED
  BY <1>1 DEF TurnsKeep, RowEvidence

\* A step of one process for one operation keeps the evidence if it does so there.
LEMMA LocalKeepsEvidence ==
  ASSUME EvidenceInv, TypeOK', NEW w \in Workers, NEW o \in Ops, Local(w, o),
         TurnsKeep(o), RowMove(o), TaskMove(w, o)
  PROVE  EvidenceInv'
<1>1. ASSUME NEW q \in Ops PROVE TurnsKeep(q) /\ RowMove(q)
  <2>1. CASE q = o
    BY <2>1
  <2>2. CASE q # o
    <3>1. RowEvidence(q) /\ turns'[q] = turns[q]
      BY <2>2 DEF EvidenceInv, Local, OnlyRow
    <3> QED
      BY <2>2, <3>1, SameTurnsKeep DEF Local, OnlyRow, RowMove, RowEvidence
  <2> QED
    BY <2>1, <2>2
<1>2. \A v \in Workers, q \in Ops : TaskMove(v, q)
  BY DEF Local, OnlyTask, TaskMove
<1>3. kind' = kind /\ scan' = scan
  BY DEF Local, life
<1> QED
  BY <1>1, <1>2, <1>3, EvidenceKeeps

\* Every step of an attempt does.
LEMMA AttemptKeepsEvidence ==
  ASSUME EvidenceInv, TypeOK', NEW w \in Workers, NEW o \in Ops, Attempt(w, o)
  PROVE  EvidenceInv'
<1>0. Local(w, o)
  BY AttemptIsLocal DEF EvidenceInv
<1>a. TypeOK
  BY DEF EvidenceInv
<1>b. RowEvidence(o) /\ TaskEvidence(w, o)
  BY DEF EvidenceInv
<1>1. ASSUME pc[w][o] # "idle", TurnsKeep(o),
             threadId[o] => threadId'[o],
             \/ turnId'[o] = turnId[o]
             \/ turnId'[o] # 0 /\ Registered(o, turnId[o])' /\ status'[o] = "running",
             status'[o] = "running" => status[o] = "running" \/ turnId'[o] # 0,
             status'[o] = "completed" => status[o] = "completed" \/ ForkFinished(o, threadId'[o]),
             \/ pc'[w][o] \notin {"steer", "turn", "review", "reg"}
             \/ pc'[w][o] = pc[w][o] /\ reply'[w][o] = reply[w][o]
             \/ pc'[w][o] \in {"turn", "review"} /\ reply'[w][o] = 0
             \/ pc'[w][o] = "steer" /\ kind[o] = "steer"
             \/ pc'[w][o] = "reg" /\ Registered(o, reply[w][o])'
      PROVE  EvidenceInv'
  <2>1. kind[o] # "none"
    BY <1>1, <1>b DEF TaskEvidence
  <2>2. RowMove(o)
    BY <1>1, <2>1 DEF RowMove
  <2>3. Len(turns'[o]) \in Nat
    BY DEF TypeOK, WorldTypes
  <2>4. TaskMove(w, o)
    BY <1>1, <2>1, <2>3 DEF TaskMove
  <2> QED
    BY <1>0, <1>1, <2>2, <2>4, LocalKeepsEvidence
<1>2. ASSUME pc[w][o] # "idle", turns' = turns, NEW s \in STARTABLE, SetStatus(o, s),
             NEW p \in Steps, Goto(w, o, p),
             p \in {"turn", "review"} => reply'[w][o] = 0,
             p = "steer" => kind[o] = "steer",
             p # "reg",
             threadId[o] => threadId'[o], turnId' = turnId
      PROVE  EvidenceInv'
  <2>1. status'[o] = s /\ pc'[w][o] = p
    BY <1>a, <1>2 DEF SetStatus, Goto, TypeOK, RowTypes, ProcessTypes
  <2>2. TurnsKeep(o)
    BY <1>2, SameTurnsKeep
  <2> QED
    BY <1>1, <1>2, <2>1, <2>2 DEF STARTABLE
<1>3. ASSUME NEW r \in Requests, NEW s \in STARTABLE, pc[w][o] # "idle",
             Request(w, o, r, s) \/ Resume(w, o, s) \/ Raise(w, o, s),
             r = "steer" => kind[o] = "steer",
             turns' = turns, turnId' = turnId, threadId[o] => threadId'[o]
      PROVE  EvidenceInv'
  <2>1. \E p \in {"raise", "resume", r} : Goto(w, o, p) /\ SetStatus(o, s)
    BY <1>3 DEF Request, Resume, Raise
  <2>2. reply'[w][o] = 0
    BY <1>3, <1>a DEF Request, Resume, Raise, TypeOK, ProcessTypes
  <2> QED
    BY <1>2, <1>3, <2>1, <2>2 DEF Steps, Busy, Requests
<1>4. ASSUME pc[w][o] # "idle", UNCHANGED <<turns, threadId, turnId>>,
             status'[o] \notin {"running", "completed"} \/ status'[o] = status[o],
             NEW p \in Steps, Goto(w, o, p), p \notin {"steer", "turn", "review", "reg"}
      PROVE  EvidenceInv'
  <2>1. pc'[w][o] = p
    BY <1>a, <1>4 DEF Goto, TypeOK, ProcessTypes
  <2>2. TurnsKeep(o)
    BY <1>4, SameTurnsKeep
  <2> QED
    BY <1>1, <1>4, <2>1, <2>2
<1> {"idle", "missed", "leased", "app", "raise", "lost", "fin"} \subseteq
      Steps \ {"steer", "turn", "review", "reg"}
  BY DEF Steps, Busy, Requests
<1> {"queued", "starting_app_server", "starting_thread", "starting_review",
     "starting_turn"} \subseteq STARTABLE
  BY DEF STARTABLE
<1> {"thread", "fork", "resume", "turn", "review", "steer"} \subseteq Requests
  BY DEF Requests
<1>5. CASE Acquire(w, o) \/ Miss(w, o)
  BY <1>4, <1>5 DEF Acquire, Miss, row, world
<1>6. CASE AfterMiss(w, o)
  <2>1. status'[o] = "failed" \/ status'[o] = status[o]
    BY <1>6, <1>a DEF AfterMiss, FailRow, SetStatus, TypeOK, RowTypes
  <2> QED
    BY <1>4, <1>6, <2>1 DEF AfterMiss, world
<1>7. CASE AdoptTurn(w, o)
  <2>1. TurnsKeep(o)
    BY <1>7, SameTurnsKeep DEF AdoptTurn, world
  <2>2. status'[o] = "running" /\ pc'[w][o] = "idle"
    BY <1>7, <1>a DEF AdoptTurn, SetStatus, Goto, TypeOK, RowTypes, ProcessTypes
  <2> QED
    BY <1>1, <1>7, <2>1, <2>2 DEF AdoptTurn
<1>8. CASE BeginAttempt(w, o)
  <2>1. UNCHANGED <<turns, threadId, turnId>> /\ pc[w][o] = "leased"
    BY <1>8 DEF BeginAttempt, MarkUnknown, world
  <2>2. TurnsKeep(o)
    BY <2>1, SameTurnsKeep
  <2>3. pc'[w][o] \in {"app", "fin"}
    BY <1>8, <1>a DEF BeginAttempt, MarkUnknown, Goto, TypeOK, ProcessTypes
  <2>4. /\ status'[o] # "running"
        /\ status'[o] = "completed" => ForkFinished(o, threadId[o])
    BY <1>8, <1>a DEF BeginAttempt, MarkUnknown, SetStatus, TypeOK, RowTypes
  <2> QED
    BY <1>1, <2>1, <2>2, <2>3, <2>4 DEF ForkFinished
<1>9. CASE StartSteer(w, o) \/ StartThread(w, o) \/ StartFork(w, o)
  BY <1>3, <1>9 DEF StartSteer, StartThread, StartFork, AppIsReady, world
<1>10. CASE StartReview(w, o) \/ StartMessage(w, o)
  BY <1>3, <1>10 DEF StartReview, StartMessage, AppIsReady, world
<1>11. CASE AppFails(w, o) \/ RequestRefused(w, o) \/ RequestTimesOut(w, o)
  BY <1>4, <1>11 DEF AppFails, RequestRefused, RequestTimesOut, row, world, Requests
<1>12. CASE ServerExecutes(w, o)
  <2>1. /\ UNCHANGED <<row, pc>> /\ pc[w][o] \in Requests /\ reply[w][o] = 0
    BY <1>12 DEF ServerExecutes
  <2>2. CASE pc[w][o] \in {"turn", "review"}
    <3>1. /\ turns'[o] = Append(turns[o], [host |-> w, st |-> "untracked", live |-> TRUE])
          /\ reply'[w][o] = Len(turns[o]) + 1
      BY <1>12, <1>a, <2>2 DEF ServerExecutes, TypeOK, WorldTypes, ProcessTypes
    <3>2. turns[o] \in Seq(Turn) /\ Len(turns[o]) \in Nat
      BY <1>a DEF TypeOK, WorldTypes
    <3>3. /\ Len(turns'[o]) = Len(turns[o]) + 1
          /\ \A k \in 1..Len(turns[o]) : turns'[o][k] = turns[o][k]
          /\ turns'[o][Len(turns[o]) + 1] = [host |-> w, st |-> "untracked", live |-> TRUE]
      BY <3>1, <3>2
    <3>4. TurnsKeep(o)
      <4>1. ASSUME NEW k \in 1..Len(turns'[o]), turns'[o][k].st \in {"completed", "failed"}
            PROVE  ~turns'[o][k].live
        <5>1. k \in 1..Len(turns[o])
          BY <3>2, <3>3, <4>1
        <5>2. turns'[o][k] = turns[o][k]
          BY <3>3, <5>1
        <5>3. turns[o][k].st \in {"completed", "failed"} => ~turns[o][k].live
          BY <1>b, <5>1 DEF RowEvidence
        <5> QED
          BY <4>1, <5>2, <5>3
      <4>2. \A k \in 1..Len(turns[o]) : turns'[o][k].st = turns[o][k].st
        BY <3>3
      <4>3. Len(turns[o]) <= Len(turns'[o])
        BY <3>2, <3>3
      <4> QED
        BY <4>1, <4>2, <4>3 DEF TurnsKeep
    <3>5. RowMove(o)
      BY <1>b, <2>1 DEF RowMove, row, RowEvidence
    <3>6. TaskMove(w, o)
      <4>1. reply'[w][o] \in 0..Len(turns'[o])
        BY <3>1, <3>2, <3>3
      <4> QED
        BY <1>b, <2>1, <2>2, <4>1 DEF TaskMove, TaskEvidence
    <3> QED
      BY <1>0, <3>4, <3>5, <3>6, LocalKeepsEvidence
  <2>3. CASE pc[w][o] \notin {"turn", "review"}
    <3>1. turns' = turns
      BY <1>12, <2>3 DEF ServerExecutes
    <3>2. TurnsKeep(o)
      BY <3>1, SameTurnsKeep
    <3>3. RowMove(o)
      BY <1>b, <2>1 DEF RowMove, row, RowEvidence
    <3>4. TaskMove(w, o)
      BY <1>b, <2>1, <2>3 DEF TaskMove, TaskEvidence, Requests
    <3> QED
      BY <1>0, <3>2, <3>3, <3>4, LocalKeepsEvidence
  <2> QED
    BY <2>2, <2>3
<1>13. CASE ThreadReply(w, o)
  <2>1. \E r \in {"turn", "review"}, s \in STARTABLE : Request(w, o, r, s)
    BY <1>13 DEF ThreadReply
  <2>2. /\ UNCHANGED <<turnId, turns>> /\ pc[w][o] = "thread" /\ threadId'[o]
    BY <1>13, <1>a DEF ThreadReply, world, TypeOK, RowTypes
  <2> QED
    BY <1>3, <2>1, <2>2
<1>14. CASE ForkReply(w, o)
  <2>1. UNCHANGED <<turnId, turns>> /\ pc[w][o] = "fork" /\ threadId'[o]
    BY <1>14, <1>a DEF ForkReply, world, TypeOK, RowTypes
  <2>2. CASE kind[o] = "fork"
    <3>1. status'[o] = "completed" /\ pc'[w][o] = "fin"
      BY <1>14, <1>a, <2>2 DEF ForkReply, SetStatus, Goto, TypeOK, RowTypes, ProcessTypes
    <3>2. TurnsKeep(o)
      BY <2>1, SameTurnsKeep
    <3>3. threadId'[o] /\ turnId'[o] = turnId[o]
      BY <2>1
    <3>4. ForkFinished(o, threadId'[o])
      BY <2>2, <3>3 DEF ForkFinished
    <3>5. RowMove(o)
      BY <2>2, <3>1, <3>3, <3>4 DEF RowMove
    <3>6. TaskMove(w, o)
      BY <2>2, <3>1 DEF TaskMove
    <3> QED
      BY <1>0, <3>2, <3>5, <3>6, LocalKeepsEvidence
  <2>3. CASE kind[o] # "fork"
    <3>1. Resume(w, o, "starting_turn") /\ "starting_turn" \in STARTABLE
      BY <1>14, <2>3 DEF ForkReply
    <3>2. turns' = turns /\ turnId' = turnId /\ pc[w][o] # "idle"
      BY <2>1
    <3> QED
      BY <1>3, <2>1, <3>1, <3>2
  <2> QED
    BY <2>2, <2>3
<1>15. CASE ResumeReply(w, o)
  BY <1>3, <1>15 DEF ResumeReply, world
<1>16. CASE TurnReply(w, o)
  <2>1. /\ pc[w][o] \in {"turn", "review"} /\ reply[w][o] \in 1..Len(turns[o])
    BY <1>16, <1>b DEF TurnReply, TaskEvidence
  <2>2. UNCHANGED row /\ pc'[w][o] = "reg"
    BY <1>16, <1>a DEF TurnReply, Goto, TypeOK, ProcessTypes
  <2>3. /\ Len(turns'[o]) = Len(turns[o])
        /\ \A k \in 1..Len(turns[o]) :
             /\ turns'[o][k].live => turns[o][k].live
             /\ turns'[o][k].st = IF k = reply[w][o] /\ turns[o][k].st = "untracked"
                                  THEN "running" ELSE turns[o][k].st
    <3>1. turns'[o] = [turns[o] EXCEPT ![reply[w][o]].st =
                         IF @ = "untracked" THEN "running" ELSE @]
      BY <1>16, <1>a DEF TurnReply, TypeOK, WorldTypes
    <3>2. turns[o] \in Seq(Turn)
      BY <1>a DEF TypeOK, WorldTypes
    <3>3. \A k \in 1..Len(turns[o]) : turns[o][k] \in Turn
      BY <3>2
    <3> QED
      BY <2>1, <3>1, <3>2, <3>3 DEF Turn
  <2>4. TurnsKeep(o)
    <3>1. Len(turns[o]) \in Nat
      BY <1>a DEF TypeOK, WorldTypes
    <3>2. \A k \in 1..Len(turns[o]) :
            turns'[o][k].st \in {"completed", "failed"} => ~turns'[o][k].live
      BY <1>b, <2>3 DEF RowEvidence
    <3> QED
      BY <2>3, <3>1, <3>2 DEF TurnsKeep
  <2>5. Registered(o, reply[w][o])'
    <3>1. reply' = reply
      BY <1>16 DEF TurnReply
    <3> QED
      BY <2>1, <2>3, <3>1 DEF Registered
  <2> QED
    BY <1>1, <1>16, <2>1, <2>2, <2>4, <2>5 DEF TurnReply, row
<1>17. CASE PersistTurn(w, o)
  <2>1. /\ pc[w][o] = "reg" /\ turns' = turns /\ pc'[w][o] = "fin"
        /\ turnId'[o] = reply[w][o] /\ status'[o] = "running" /\ UNCHANGED threadId
    BY <1>17, <1>a DEF PersistTurn, world, SetStatus, Goto, TypeOK, RowTypes, ProcessTypes
  <2>2. Registered(o, reply[w][o])
    BY <1>b, <2>1 DEF TaskEvidence
  <2>3. turnId'[o] # 0 /\ Registered(o, turnId[o])'
    BY <2>1, <2>2 DEF Registered
  <2>4. TurnsKeep(o)
    BY <2>1, SameTurnsKeep
  <2> QED
    BY <1>1, <2>1, <2>3, <2>4
<1>18. CASE SteerReply(w, o)
  <2>1. /\ pc[w][o] = "steer" /\ turns' = turns /\ pc'[w][o] = "fin"
        /\ UNCHANGED <<threadId, turnId>> /\ status'[o] = "running"
    BY <1>18, <1>a DEF SteerReply, SetStatus, Goto, TypeOK, RowTypes, ProcessTypes
  <2>2. turnId[o] # 0
    BY <1>b, <2>1 DEF TaskEvidence, RowEvidence
  <2>3. TurnsKeep(o)
    BY <2>1, SameTurnsKeep
  <2> QED
    BY <1>1, <2>1, <2>2, <2>3
<1>19. CASE HandleError(w, o)
  <2>1. /\ pc[w][o] # "idle" /\ turns' = turns /\ pc'[w][o] = "fin"
        /\ UNCHANGED <<threadId, turnId>>
    BY <1>19, <1>a DEF HandleError, Goto, world, TypeOK, ProcessTypes
  <2>2. status'[o] # "completed" /\ (status'[o] = "running" => turnId[o] # 0)
    BY <1>19, <1>a DEF HandleError, SetStatus, TypeOK, RowTypes
  <2>3. TurnsKeep(o)
    BY <2>1, SameTurnsKeep
  <2> QED
    BY <1>1, <2>1, <2>2, <2>3
<1>20. CASE Finish(w, o)
  BY <1>4, <1>20 DEF Finish, world
<1> QED
  BY <1>5, <1>6, <1>7, <1>8, <1>9, <1>10, <1>11, <1>12, <1>13, <1>14, <1>15, <1>16,
     <1>17, <1>18, <1>19, <1>20 DEF Attempt

\* Steps that only move statuses, leases, backoffs or markers.
LEMMA QuietKeepsEvidence ==
  ASSUME EvidenceInv, TypeOK', UNCHANGED <<kind, threadId, turnId, turns>>,
         \A o \in Ops :
           /\ kind[o] = "none" => status'[o] = status[o]
           /\ status'[o] = "running" => status[o] = "running" \/ turnId[o] # 0
           /\ status'[o] = "completed" =>
                status[o] = "completed" \/ ForkFinished(o, threadId[o]) \/ CompletedTurn(o),
         \A w \in Workers, o \in Ops : TaskMove(w, o),
         \A w \in Workers : scan'[w] \subseteq scan[w] \cup RecoverableRows
  PROVE  EvidenceInv'
<1>1. ASSUME NEW o \in Ops PROVE TurnsKeep(o) /\ RowMove(o)
  <2>1. TurnsKeep(o)
    BY SameTurnsKeep
  <2>2. RowEvidence(o)
    BY DEF EvidenceInv
  <2> QED
    BY <2>1, <2>2 DEF RowMove, RowEvidence
<1> QED
  BY <1>1, EvidenceKeeps

\* Steps that change no row but a turn, and move no task.
LEMMA TurnsStepKeepsEvidence ==
  ASSUME EvidenceInv, TypeOK', UNCHANGED row,
         \A o \in Ops : TurnsKeep(o),
         \A w \in Workers, o \in Ops : TaskMove(w, o),
         \A w \in Workers : scan'[w] \subseteq scan[w] \cup RecoverableRows
  PROVE  EvidenceInv'
<1>1. ASSUME NEW o \in Ops PROVE RowMove(o)
  <2>1. RowEvidence(o)
    BY DEF EvidenceInv
  <2> QED
    BY <2>1 DEF RowMove, RowEvidence, row
<1>2. kind' = kind
  BY DEF row
<1> QED
  BY <1>1, <1>2, EvidenceKeeps

\* So does everything the background task does with a row.
LEMMA ScheduleKeepsEvidence ==
  ASSUME EvidenceInv, TypeOK', NEW w \in Workers, NEW o \in Ops,
         Schedule(w, o) \/ Heartbeat(w, o)
  PROVE  EvidenceInv'
<1>a. TypeOK
  BY DEF EvidenceInv
<1>1. CASE ScheduleListed(w, o) \/ SchedulePolled(w, o)
  <2>1. /\ kind[o] # "none" /\ Goto(w, o, "spawned")
        /\ UNCHANGED <<row, world, reply, scan>>
    BY <1>1 DEF ScheduleListed, SchedulePolled, life
  <2>2. \A v \in Workers, q \in Ops : TaskMove(v, q)
    BY <1>a, <2>1 DEF Goto, TaskMove, TypeOK, ProcessTypes
  <2> QED
    BY <2>1, <2>2, QuietKeepsEvidence DEF row, world
<1>2. CASE FailPolled(w, o)
  <2>1. \A q \in Ops : status'[q] = status[q] \/ (kind[q] # "none" /\ status'[q] = "failed")
    BY <1>2, <1>a DEF FailPolled, MustFail, FailRow, SetStatus, TypeOK, RowTypes
  <2>2. UNCHANGED <<kind, threadId, turnId, turns, pc, reply, scan>>
    BY <1>2 DEF FailPolled, world, task, life
  <2>3. \A v \in Workers, q \in Ops : TaskMove(v, q)
    BY <2>2 DEF TaskMove
  <2> QED
    BY <2>1, <2>2, <2>3, QuietKeepsEvidence
<1>3. CASE Heartbeat(w, o)
  <2>1. UNCHANGED <<kind, status, threadId, turnId, turns, pc, reply, scan>>
    BY <1>3 DEF Heartbeat, world, task, life
  <2> QED
    BY <2>1, QuietKeepsEvidence DEF TaskMove
<1> QED
  BY <1>1, <1>2, <1>3 DEF Schedule

\* A submission: the turn a steer aims at is one that runs.
LEMMA SubmitKeepsEvidence ==
  ASSUME EvidenceInv, TypeOK', NEW o \in Ops, NEW k \in Kinds, Submit(o, k)
  PROVE  EvidenceInv'
<1>a. TypeOK /\ RowEvidence(o) /\ kind[o] = "none" /\ k # "none"
  BY ConstantsAssumption DEF EvidenceInv, Submit, AllKinds
<1>1. /\ status' = status /\ UNCHANGED <<task, life>>
      /\ kind'[o] = k
      /\ \A q \in Ops \ {o} : /\ kind'[q] = kind[q] /\ threadId'[q] = threadId[q]
                              /\ turnId'[q] = turnId[q] /\ turns'[q] = turns[q]
  BY <1>a DEF Submit, TypeOK, RowTypes, WorldTypes
<1>4. ASSUME NEW v \in Workers, NEW r \in scan'[v] PROVE ScanEvidence(r)'
  <2>1. r \in scan[v] /\ ScanEvidence(r)
    BY <1>1 DEF life, EvidenceInv
  <2>2. r.op \in Ops
    BY <1>a, <2>1 DEF TypeOK, ProcessTypes, ScanRow
  <2>3. r.op # o
    BY <1>a, <2>1 DEF ScanEvidence
  <2> QED
    BY <1>1, <2>1, <2>2, <2>3 DEF ScanEvidence
<1>2. CASE k = "steer"
  <2>1. PICK w \in Workers :
          /\ turns' = [turns EXCEPT ![o] = <<[host |-> w, st |-> "running", live |-> TRUE]>>]
          /\ turnId' = [turnId EXCEPT ![o] = 1]
    BY <1>2 DEF Submit
  <2>2. /\ turns'[o] = <<[host |-> w, st |-> "running", live |-> TRUE]>> /\ turnId'[o] = 1
    BY <1>a, <2>1 DEF TypeOK, RowTypes, WorldTypes
  <2>3. Len(turns'[o]) = 1 /\ turns'[o][1].st = "running"
    BY <2>2
  <2> HIDE <2>1
  <2>4. RowEvidence(o)'
    BY <1>1, <1>2, <2>2, <2>3 DEF RowEvidence, Registered
  <2> QED
    <3>1. ASSUME NEW v \in Workers PROVE TaskEvidence(v, o)'
      <4>1. pc[v][o] = "idle"
        BY <1>a DEF EvidenceInv, TaskEvidence
      <4> QED
        BY <1>1, <4>1 DEF TaskEvidence, task
    <3>3. status[o] = "queued"
      BY <1>a DEF RowEvidence
    <3>4. ASSUME NEW q \in Ops PROVE RowEvidence(q)'
      BY <1>1, <2>4 DEF EvidenceInv, RowEvidence, Registered
    <3>5. ASSUME NEW v \in Workers, NEW q \in Ops PROVE TaskEvidence(v, q)'
      BY <1>1, <3>1 DEF EvidenceInv, TaskEvidence, Registered, task
    <3>6. StatusHasEvidence'
      BY <1>1, <3>3 DEF EvidenceInv, StatusHasEvidence, ForkFinished
    <3> QED
      BY <1>4, <3>4, <3>5, <3>6 DEF EvidenceInv
<1>3. CASE k # "steer"
  <2>1. turns' = turns /\ turnId' = turnId
    BY <1>3 DEF Submit
  <2> QED
    <3>1. ASSUME NEW v \in Workers PROVE TaskEvidence(v, o)'
      <4>1. pc[v][o] = "idle"
        BY <1>a DEF EvidenceInv, TaskEvidence
      <4> QED
        BY <1>1, <4>1 DEF TaskEvidence, task
    <3>3. status[o] = "queued" /\ turnId[o] = 0
      BY <1>a DEF RowEvidence
    <3>4. RowEvidence(o)'
      BY <1>1, <1>3, <1>a, <2>1, <3>3 DEF RowEvidence
    <3> QED
      BY <1>1, <1>4, <2>1, <3>1, <3>3, <3>4
      DEF EvidenceInv, RowEvidence, Registered, TaskEvidence, task, StatusHasEvidence, ForkFinished
<1> QED
  BY <1>2, <1>3

\* A turn that ends.
LEMMA EndedTurn ==
  ASSUME TypeOK, NEW o \in Ops, NEW k \in 1..Len(turns[o]), NEW s, TurnEnds(o, k, s)
  PROVE  turns'[o][k].st = s /\ ~turns'[o][k].live
<1> DEFINE t == [turns[o][k] EXCEPT !.st = s, !.live = FALSE]
<1>1. turns \in [Ops -> Seq(Turn)] /\ \A q \in Ops : turns[q] \in Seq(Turn)
  BY DEF TypeOK, WorldTypes
<1>2. turns[o][k] \in Turn
  BY <1>1, ElementOfSeq
<1>3. turns' = [turns EXCEPT ![o] = [turns[o] EXCEPT ![k] = t]]
  BY <1>1 DEF TurnEnds
<1>4. t.st = s /\ ~t.live
  BY <1>2 DEF Turn
<1> HIDE DEF t
<1>5. turns'[o][k] = t
  BY <1>1, <1>3
<1> QED
  BY <1>4, <1>5

\* An event or the end of one turn.
LEMMA TurnChangeKeeps ==
  ASSUME EvidenceInv, TypeOK', NEW o \in Ops, NEW k \in 1..Len(turns[o]),
         TurnEvent(o, k) \/ \E s \in {"completed", "failed"} : TurnEnds(o, k, s)
  PROVE  \A q \in Ops : TurnsKeep(q) /\ Len(turns'[q]) = Len(turns[q])
<1>a. TypeOK /\ RowEvidence(o) /\ Len(turns[o]) \in Nat
  BY DEF EvidenceInv, TypeOK, WorldTypes
<1>1. \A q \in Ops \ {o} : turns'[q] = turns[q]
  BY DEF TurnEvent, TurnEnds, EvidenceInv, TypeOK, WorldTypes
<1>2. Len(turns'[o]) = Len(turns[o]) /\ \A j \in 1..Len(turns[o]) : j # k => turns'[o][j] = turns[o][j]
  BY <1>a DEF TurnEvent, TurnEnds, TypeOK, WorldTypes
<1>3. turns[o][k].live /\ turns[o][k].st \notin {"completed", "failed"}
  BY <1>a DEF TurnEvent, TurnEnds, RowEvidence
<1>4. /\ turns'[o][k].st \notin {"untracked"}
      /\ turns'[o][k].st \in {"completed", "failed"} => ~turns'[o][k].live
  <2>1. turns[o][k] \in Turn
    BY <1>a DEF TypeOK, WorldTypes
  <2>2. CASE TurnEvent(o, k)
    BY <1>a, <2>1, <2>2 DEF TurnEvent, TypeOK, WorldTypes, Turn
  <2>3. ASSUME NEW s \in {"completed", "failed"}, TurnEnds(o, k, s)
        PROVE  turns'[o][k].st = s /\ ~turns'[o][k].live
    BY <1>a, <2>3, EndedTurn
  <2> QED
    BY <2>2, <2>3
<1>5. TurnsKeep(o)
  <2>1. ASSUME NEW j \in 1..Len(turns[o]), turns'[o][j].st \in {"completed", "failed"}
        PROVE  ~turns'[o][j].live
    <3>1. CASE j = k
      BY <1>4, <2>1, <3>1
    <3>2. CASE j # k
      BY <1>a, <1>2, <2>1, <3>2, Zenon DEF RowEvidence
    <3> QED BY <3>1, <3>2
  <2> QED
    BY <1>a, <1>2, <1>3, <1>4, <2>1 DEF TurnsKeep
<1> QED
  BY <1>1, <1>2, <1>5, SameTurnsKeep

\* Turns that only end or are written off.
LEMMA OlderTurnsKeep ==
  ASSUME EvidenceInv, NEW o \in Ops, Len(turns'[o]) = Len(turns[o]),
         \A k \in 1..Len(turns[o]) :
           /\ \/ turns'[o][k].st = turns[o][k].st
              \/ turns[o][k].st = "running" /\ turns'[o][k].st = "unknown"
           /\ turns'[o][k].live => turns[o][k].live
  PROVE  TurnsKeep(o)
<1>1. RowEvidence(o) /\ Len(turns[o]) \in Nat
  BY DEF EvidenceInv, TypeOK, WorldTypes
<1> QED
  BY <1>1 DEF RowEvidence, TurnsKeep

\* A tracker that writes turns off takes no evidence away.
LEMMA WriteOffKeeps ==
  ASSUME EvidenceInv, NEW w, NEW same, WriteOff(w, same)
  PROVE  \A o \in Ops : TurnsKeep(o)
<1> SUFFICES ASSUME NEW o \in Ops PROVE TurnsKeep(o)
  OBVIOUS
<1>1. Len(turns[o]) \in Nat
  BY DEF EvidenceInv, TypeOK, WorldTypes
<1>2. Len(turns'[o]) = Len(turns[o])
  BY <1>1 DEF WriteOff
<1>3. ASSUME NEW k \in 1..Len(turns[o])
      PROVE  \/ turns'[o][k] = Aged(turns[o][k], w, TRUE)
             \/ turns'[o][k] = Aged(turns[o][k], w, FALSE)
  BY DEF WriteOff, Aged
<1>4. ASSUME NEW k \in 1..Len(turns[o])
      PROVE  /\ \/ turns'[o][k].st = turns[o][k].st
                \/ turns[o][k].st = "running" /\ turns'[o][k].st = "unknown"
             /\ turns'[o][k].live => turns[o][k].live
  <2>1. CASE turns'[o][k] = Aged(turns[o][k], w, TRUE)
    <3>1. turns'[o][k].live = (turns[o][k].live /\ turns[o][k].host # w)
      BY <2>1 DEF Aged
    <3>2. turns'[o][k].st = IF turns[o][k].st = "running" THEN "unknown" ELSE turns[o][k].st
      BY <2>1 DEF Aged
    <3> QED
      BY <3>1, <3>2
  <2>2. CASE turns'[o][k] = Aged(turns[o][k], w, FALSE)
    <3>1. turns'[o][k].live = (turns[o][k].live /\ turns[o][k].host # w)
      BY <2>2 DEF Aged
    <3>2. turns'[o][k].st = turns[o][k].st
      BY <2>2 DEF Aged
    <3> QED
      BY <3>1, <3>2
  <2> QED
    BY <1>3, <2>1, <2>2
<1> QED
  BY <1>2, <1>4, OlderTurnsKeep

\* Nor does the end of the process that hosts them.
LEMMA CrashKeeps ==
  ASSUME EvidenceInv, NEW w,
         turns' = [o \in Ops |-> [k \in 1..Len(turns[o]) |-> Aged(turns[o][k], w, FALSE)]]
  PROVE  \A o \in Ops : TurnsKeep(o)
<1> SUFFICES ASSUME NEW o \in Ops PROVE TurnsKeep(o)
  OBVIOUS
<1>1. Len(turns[o]) \in Nat
  BY DEF EvidenceInv, TypeOK, WorldTypes
<1>2. turns'[o] = [k \in 1..Len(turns[o]) |-> Aged(turns[o][k], w, FALSE)]
  OBVIOUS
<1>3. Len(turns'[o]) = Len(turns[o])
  BY <1>1, <1>2
<1>4. \A k \in 1..Len(turns[o]) : turns'[o][k] = Aged(turns[o][k], w, FALSE)
  BY <1>2
<1>5. ASSUME NEW k \in 1..Len(turns[o])
      PROVE  /\ \/ turns'[o][k].st = turns[o][k].st
                \/ turns[o][k].st = "running" /\ turns'[o][k].st = "unknown"
             /\ turns'[o][k].live => turns[o][k].live
  <2>1. turns'[o][k].live = (turns[o][k].live /\ turns[o][k].host # w)
    BY <1>4 DEF Aged
  <2>2. turns'[o][k].st = turns[o][k].st
    BY <1>4 DEF Aged
  <2> QED
    BY <2>1, <2>2
<1> QED
  BY <1>3, <1>5, OlderTurnsKeep

\* The recovery moves a row to what it computed from what it read.
RecoveryMove(rows) ==
  \A o \in Ops : \/ status'[o] = status[o]
                 \/ \E r \in rows : r.op = o /\ status'[o] = RecoveredStatus(r)

\* Recovering row after row does just that.
LEMMA RecoverMoves ==
  ASSUME NEW rows, Recover(rows)
  PROVE  RecoveryMove(rows)
<1> SUFFICES ASSUME NEW o \in Ops, NEW r \in rows, r.op = o
             PROVE  \E x \in rows : x.op = o /\ status'[o] = RecoveredStatus(x)
  BY DEF Recover, RecoveryMove
<1>1. status'[o] = RecoveredStatus(CHOOSE x \in rows : x.op = o)
  BY DEF Recover
<1> QED
  BY <1>1

\* Recovery claims a turn only of a row that has one, and an end only of a fork
\* that has its thread.
LEMMA RecoveryKeepsEvidence ==
  ASSUME EvidenceInv, TypeOK', NEW rows, Recover(rows), \A r \in rows : ScanEvidence(r),
         UNCHANGED <<turns, pc, reply>>,
         \A w \in Workers : scan'[w] \subseteq scan[w]
  PROVE  EvidenceInv'
<1>1. RecoveryMove(rows)
  BY RecoverMoves
<1>2. ASSUME NEW o \in Ops
      PROVE  /\ kind[o] = "none" => status'[o] = status[o]
             /\ status'[o] = "running" => status[o] = "running" \/ turnId[o] # 0
             /\ status'[o] = "completed" =>
                  status[o] = "completed" \/ ForkFinished(o, threadId[o])
  BY <1>1 DEF RecoveryMove, ScanEvidence, RecoveredStatus, ForkFinished
<1>3. UNCHANGED <<kind, threadId, turnId>>
  BY DEF Recover
<1>4. \A w \in Workers, o \in Ops : TaskMove(w, o)
  BY DEF TaskMove
<1> QED
  BY <1>2, <1>3, <1>4, QuietKeepsEvidence

\* The life of a process keeps the evidence.
LEMMA ProcessKeepsEvidence ==
  ASSUME EvidenceInv, TypeOK', NEW w \in Workers, ProcessStep(w)
  PROVE  EvidenceInv'
<1>a. TypeOK
  BY DEF EvidenceInv
<1>1. CASE StartAndRecover(w)
  <2>1. \A r \in RecoverableRows : ScanEvidence(r)
    BY DEF RecoverableRows, ScanEvidence
  <2> QED
    BY <1>1, <2>1, RecoveryKeepsEvidence DEF StartAndRecover, world, task
<1>2. CASE RecoverScan(w)
  <2>1. \A v \in Workers : scan'[v] \subseteq scan[v] \cup RecoverableRows
    BY <1>2, <1>a DEF RecoverScan, TypeOK, ProcessTypes
  <2>2. UNCHANGED <<kind, status, threadId, turnId, turns, pc, reply>>
    BY <1>2 DEF RecoverScan, row, world, task
  <2> QED
    BY <2>1, <2>2, QuietKeepsEvidence DEF TaskMove
<1>3. CASE RecoverApply(w)
  <2>1. \A r \in scan[w] : ScanEvidence(r)
    BY DEF EvidenceInv
  <2>2. \A v \in Workers : scan'[v] \subseteq scan[v]
    BY <1>3, <1>a DEF RecoverApply, TypeOK, ProcessTypes
  <2> QED
    BY <1>3, <2>1, <2>2, RecoveryKeepsEvidence DEF RecoverApply, world, task
<1>4. CASE ServerExit(w)
  <2>1. \A o \in Ops : TurnsKeep(o)
    BY <1>4, WriteOffKeeps DEF ServerExit
  <2>2. \A v \in Workers, o \in Ops : TaskMove(v, o)
    <3>1. \A v \in Workers, o \in Ops :
            pc'[v][o] = pc[v][o] \/ (pc[v][o] \in Requests /\ pc'[v][o] = "lost")
      BY <1>4, <1>a DEF ServerExit, TypeOK, ProcessTypes
    <3>2. \A v \in Workers, o \in Ops : pc[v][o] \in Requests => kind[o] # "none"
      BY DEF EvidenceInv, TaskEvidence, Requests
    <3>3. reply' = reply
      BY <1>4 DEF ServerExit
    <3> QED
      BY <3>1, <3>2, <3>3 DEF TaskMove
  <2>3. UNCHANGED <<row, scan>>
    BY <1>4 DEF ServerExit, life
  <2> QED
    BY <2>1, <2>2, <2>3, TurnsStepKeepsEvidence
<1>5. ASSUME Stop(w)
      PROVE  /\ \A v \in Workers, o \in Ops : TaskMove(v, o)
             /\ \A v \in Workers : scan'[v] \subseteq scan[v]
  BY <1>5, <1>a DEF Stop, TaskMove, TypeOK, ProcessTypes
<1>6. CASE Crash(w)
  <2>1. \A o \in Ops : TurnsKeep(o)
    BY <1>6, CrashKeeps DEF Crash
  <2> QED
    BY <1>5, <1>6, <2>1, TurnsStepKeepsEvidence DEF Crash
<1>7. CASE Shutdown(w)
  <2>1. \A o \in Ops : TurnsKeep(o)
    BY <1>7, WriteOffKeeps DEF Shutdown
  <2>2. Stop(w) /\ UNCHANGED <<kind, threadId, turnId>>
    BY <1>7 DEF Shutdown
  <2>3. ASSUME NEW o \in Ops PROVE RowMove(o)
    <3>1. CASE status'[o] = status[o]
      BY <2>2, <3>1 DEF RowMove, EvidenceInv, RowEvidence
    <3>2. CASE pc[w][o] \in {"app"} \cup Requests
      <4>1. /\ status'[o] # "completed"
            /\ status'[o] = "running" => turnId[o] # 0
        BY <1>7, <3>2 DEF Shutdown
      <4>2. kind[o] # "none"
        BY <3>2 DEF EvidenceInv, TaskEvidence, Requests
      <4> QED
        BY <2>2, <4>1, <4>2 DEF RowMove
    <3> QED
      BY <1>7, <3>1, <3>2 DEF Shutdown
  <2> QED
    BY <1>5, <2>1, <2>2, <2>3, EvidenceKeeps
<1> QED
  BY <1>1, <1>2, <1>3, <1>4, <1>6, <1>7 DEF ProcessStep

\* So do the calls and the notifications for a row.
LEMMA RowKeepsEvidence ==
  ASSUME EvidenceInv, TypeOK', NEW o \in Ops, RowStep(o)
  PROVE  EvidenceInv'
<1>a. TypeOK /\ \A q \in Ops : RowEvidence(q)
  BY DEF EvidenceInv
<1>1. CASE \E k \in Kinds : Submit(o, k)
  BY <1>1, SubmitKeepsEvidence
<1>2. CASE ExpireDead(o) \/ ExpireStalled(o) \/ BackoffElapses(o)
  <2>1. UNCHANGED <<kind, status, threadId, turnId, turns, pc, reply, scan>>
    BY <1>2 DEF ExpireDead, ExpireStalled, BackoffElapses, world, task, life
  <2> QED
    BY <2>1, QuietKeepsEvidence DEF TaskMove
<1>3. CASE \E k \in 1..Len(turns[o]) :
             TurnEvent(o, k) \/ \E s \in {"completed", "failed"} : TurnEnds(o, k, s)
  <2>1. \A q \in Ops : TurnsKeep(q)
    BY <1>3, TurnChangeKeeps
  <2>2. UNCHANGED <<row, pc, reply, scan>>
    BY <1>3 DEF TurnEvent, TurnEnds, task, life
  <2> QED
    BY <2>1, <2>2, TurnsStepKeepsEvidence DEF TaskMove
<1>4. CASE Reconcile(o)
  <2>1. UNCHANGED <<kind, threadId, turnId, turns, pc, reply, scan>> /\ turnId[o] # 0
    BY <1>4 DEF Reconcile, world, task, life
  <2>2. \A q \in Ops \ {o} : status'[q] = status[q]
    BY <1>4, <1>a DEF Reconcile, SetStatus, TypeOK, RowTypes
  <2>3. status'[o] = "completed" => CompletedTurn(o)
    BY <1>4, <1>a DEF Reconcile, SetStatus, CompletedTurn, TypeOK, RowTypes, STARTABLE,
                      Startable, TURN_TERMINAL
  <2>4. kind[o] # "none"
    BY <1>a, <2>1 DEF RowEvidence
  <2> QED
    BY <2>1, <2>2, <2>3, <2>4, QuietKeepsEvidence DEF TaskMove
<1>5. CASE RepairStale(o)
  <2>1. UNCHANGED <<kind, threadId, turnId, turns, pc, reply, scan>> /\ kind[o] # "none"
    BY <1>5 DEF RepairStale, Stale, world, task, life
  <2>2. /\ \A q \in Ops \ {o} : status'[q] = status[q]
        /\ status'[o] # "completed"
        /\ status'[o] = "running" => turnId[o] # 0
    BY <1>5, <1>a DEF RepairStale, SetStatus, TypeOK, RowTypes
  <2> QED
    BY <2>1, <2>2, QuietKeepsEvidence DEF TaskMove
<1> QED
  BY <1>1, <1>2, <1>3, <1>4, <1>5 DEF RowStep

\* So does every step.
LEMMA NextKeepsEvidence ==
  ASSUME EvidenceInv, [Next]_vars
  PROVE  EvidenceInv'
<1>1. TypeOK'
  BY NextTypeOK DEF EvidenceInv
<1>2. CASE UNCHANGED vars
  BY <1>1, <1>2, QuietKeepsEvidence DEF vars, row, world, task, life, TaskMove
<1> QED
  BY <1>1, <1>2, AttemptKeepsEvidence, ScheduleKeepsEvidence, RowKeepsEvidence,
     ProcessKeepsEvidence DEF Next

\* Nothing is claimed before anything ran.
LEMMA InitEvidence == Init => EvidenceInv
<1> SUFFICES ASSUME Init PROVE EvidenceInv
  OBVIOUS
<1>1. \A o \in Ops : turns[o] = <<>> /\ turnId[o] = 0 /\ status[o] = "queued" /\ kind[o] = "none"
  BY DEF Init
<1>2. \A w \in Workers, o \in Ops : pc[w][o] = "idle" /\ scan[w] = {}
  BY DEF Init
<1>3. \A o \in Ops : RowEvidence(o)
  BY <1>1 DEF RowEvidence
<1>4. \A w \in Workers, o \in Ops : TaskEvidence(w, o)
  BY <1>2 DEF TaskEvidence
<1>5. \A w \in Workers : scan[w] = {}
  BY DEF Init
<1> QED
  BY <1>1, <1>3, <1>4, <1>5, InitTypeOK DEF EvidenceInv, StatusHasEvidence

\* A row says "running" only of a registered turn and "completed" only of a
\* finished fork or of a turn that completed, whatever crashes, lapses or races.
THEOREM QueueHasEvidence == Spec => []StatusHasEvidence
<1>1. EvidenceInv => StatusHasEvidence
  BY DEF EvidenceInv
<1> QED
  BY <1>1, InitEvidence, NextKeepsEvidence, PTL DEF Spec

-----------------------------------------------------------------------------
(* Budget: what was executed is paid by the attempts that were counted.    *)

\* May this attempt still ask for e?
Owes(w, o, e) ==
  \/ pc[w][o] = "app"
  \/ pc[w][o] = "thread" /\ e \in {"turn", "review"}
  \/ pc[w][o] \in {"fork", "resume"} /\ e = "turn"
  \/ pc[w][o] = e /\ reply[w][o] = 0

\* The attempts that may.
Pending(o, e) == {w \in Workers : Owes(w, o, e)}

\* Every attempt that was counted pays for what was executed or for what it may
\* still ask for.
Accounted(o, e) == made[o][e] + Cardinality(Pending(o, e)) <= attemptCount[o]

\* The invariant that carries EffectsAreAccounted through every step.
BudgetInv == TypeOK /\ \A o \in Ops, e \in Effects : Accounted(o, e)

\* There are finitely many of them.
LEMMA PendingFinite ==
  ASSUME NEW o, NEW e
  PROVE  /\ IsFiniteSet(Pending(o, e)) /\ Cardinality(Pending(o, e)) \in Nat
         /\ IsFiniteSet(Pending(o, e)') /\ Cardinality(Pending(o, e)') \in Nat
<1>1. Pending(o, e) \subseteq Workers /\ Pending(o, e)' \subseteq Workers
  BY DEF Pending
<1>2. IsFiniteSet(Pending(o, e)) /\ IsFiniteSet(Pending(o, e)')
  BY <1>1, FS_Subset, ConstantsAssumption
<1> QED
  BY <1>2, FS_CardinalityType

\* No attempt takes on more than it owed.
LEMMA StillAccounted ==
  ASSUME BudgetInv, TypeOK', NEW o \in Ops, NEW e \in Effects,
         attemptCount'[o] = attemptCount[o], made'[o][e] = made[o][e],
         \A w \in Workers : Owes(w, o, e)' => Owes(w, o, e)
  PROVE  Accounted(o, e)'
<1>1. Pending(o, e)' \subseteq Pending(o, e)
  BY DEF Pending
<1>2. Cardinality(Pending(o, e)') <= Cardinality(Pending(o, e))
  BY <1>1, PendingFinite, FS_Subset
<1>3. made[o][e] \in Nat /\ attemptCount[o] \in Nat /\ Accounted(o, e)
  BY DEF BudgetInv, TypeOK, RowTypes, WorldTypes
<1> QED
  BY <1>2, <1>3, PendingFinite DEF Accounted

\* An attempt that begins is counted.
LEMMA BegunAccounted ==
  ASSUME BudgetInv, TypeOK', NEW o \in Ops, NEW e \in Effects, NEW w \in Workers,
         attemptCount'[o] = attemptCount[o] + 1, made'[o][e] = made[o][e],
         \A v \in Workers \ {w} : Owes(v, o, e)' => Owes(v, o, e)
  PROVE  Accounted(o, e)'
<1>1. Pending(o, e)' \subseteq Pending(o, e) \cup {w}
  BY DEF Pending
<1>2. /\ IsFiniteSet(Pending(o, e) \cup {w})
      /\ Cardinality(Pending(o, e) \cup {w}) \in {Cardinality(Pending(o, e)), Cardinality(Pending(o, e)) + 1}
  BY PendingFinite, FS_AddElement
<1>3. Cardinality(Pending(o, e)') <= Cardinality(Pending(o, e) \cup {w})
  BY <1>1, <1>2, FS_Subset
<1>4. made[o][e] \in Nat /\ attemptCount[o] \in Nat /\ Accounted(o, e)
  BY DEF BudgetInv, TypeOK, RowTypes, WorldTypes
<1> QED
  BY <1>2, <1>3, <1>4, PendingFinite DEF Accounted

\* What an attempt gets executed, it no longer owes.
LEMMA ExecutedAccounted ==
  ASSUME BudgetInv, TypeOK', NEW o \in Ops, NEW e \in Effects, NEW w \in Workers,
         attemptCount'[o] = attemptCount[o], made'[o][e] = made[o][e] + 1,
         Owes(w, o, e), ~Owes(w, o, e)',
         \A v \in Workers \ {w} : Owes(v, o, e)' => Owes(v, o, e)
  PROVE  Accounted(o, e)'
<1>1. Pending(o, e)' \subseteq Pending(o, e) \ {w} /\ w \in Pending(o, e)
  BY DEF Pending
<1>2. /\ IsFiniteSet(Pending(o, e) \ {w})
      /\ Cardinality(Pending(o, e) \ {w}) = Cardinality(Pending(o, e)) - 1
  BY <1>1, PendingFinite, FS_RemoveElement
<1>3. Cardinality(Pending(o, e)') <= Cardinality(Pending(o, e) \ {w})
  BY <1>1, <1>2, FS_Subset
<1>4. made[o][e] \in Nat /\ attemptCount[o] \in Nat /\ Accounted(o, e)
  BY DEF BudgetInv, TypeOK, RowTypes, WorldTypes
<1> QED
  BY <1>2, <1>3, <1>4, PendingFinite DEF Accounted

\* How a task goes from request to request.
Onward(w, o) ==
  \/ pc'[w][o] \notin {"app"} \cup Requests
  \/ pc'[w][o] = pc[w][o] /\ reply'[w][o] = reply[w][o]
  \/ pc[w][o] = "app" /\ pc'[w][o] \in Requests
  \/ pc[w][o] = "thread" /\ pc'[w][o] \in {"turn", "review"}
  \/ pc[w][o] = "fork" /\ pc'[w][o] = "resume"
  \/ pc[w][o] = "resume" /\ pc'[w][o] = "turn"

\* A task that goes on so owes no more than before.
LEMMA OnwardOwesLess ==
  ASSUME NEW w \in Workers, NEW o \in Ops, NEW e \in Effects, Onward(w, o)
  PROVE  Owes(w, o, e)' => Owes(w, o, e)
  BY DEF Onward, Owes, Requests, Effects

\* When nothing is executed and every task goes on so, the account holds.
LEMMA OnwardKeepsBudget ==
  ASSUME BudgetInv, TypeOK', made' = made, attemptCount' = attemptCount,
         \A w \in Workers, o \in Ops : Onward(w, o)
  PROVE  BudgetInv'
<1>1. ASSUME NEW o \in Ops, NEW e \in Effects PROVE Accounted(o, e)'
  BY OnwardOwesLess, StillAccounted
<1> QED
  BY <1>1 DEF BudgetInv

\* It holds through every step of an attempt.
LEMMA AttemptKeepsBudget ==
  ASSUME BudgetInv, TypeOK', NEW w \in Workers, NEW o \in Ops, Attempt(w, o)
  PROVE  BudgetInv'
<1>a. TypeOK
  BY DEF BudgetInv
<1>b. Local(w, o)
  BY <1>a, AttemptIsLocal
<1>0. ASSUME made' = made, attemptCount' = attemptCount, Onward(w, o) PROVE BudgetInv'
  <2>1. \A v \in Workers, q \in Ops : Onward(v, q)
    BY <1>0, <1>b DEF Local, OnlyTask, Onward
  <2> QED
    BY <1>0, <2>1, OnwardKeepsBudget
<1>1. ASSUME NEW p \in Steps, Goto(w, o, p), p \notin {"app"} \cup Requests,
             UNCHANGED <<made, attemptCount>>
      PROVE  BudgetInv'
  BY <1>a, <1>0, <1>1 DEF Onward, Goto, TypeOK, ProcessTypes
<1>2. ASSUME NEW r \in Requests, NEW s, Request(w, o, r, s) \/ Resume(w, o, s) \/ Raise(w, o, s),
             UNCHANGED <<made, attemptCount>>,
             \/ pc[w][o] = "app"
             \/ pc[w][o] = "thread" /\ r \in {"turn", "review"} /\ Request(w, o, r, s)
             \/ pc[w][o] = "fork" /\ r = "resume"
             \/ pc[w][o] = "resume" /\ r = "turn" /\ Request(w, o, r, s)
      PROVE  BudgetInv'
  <2>1. pc'[w][o] \in {r, "resume", "raise"} /\ (Request(w, o, r, s) => pc'[w][o] = r)
    BY <1>a, <1>2 DEF Request, Resume, Raise, Goto, TypeOK, ProcessTypes
  <2>2. Onward(w, o)
    BY <1>2, <2>1 DEF Onward, Requests
  <2> QED
    BY <1>0, <1>2, <2>2
<1> {"idle", "missed", "leased", "reg", "raise", "lost", "fin"} \subseteq
      Steps \ ({"app"} \cup Requests)
  BY DEF Steps, Busy, Requests
<1> {"thread", "fork", "resume", "turn", "review", "steer"} \subseteq Requests
  BY DEF Requests
<1>3. CASE Acquire(w, o) \/ Miss(w, o) \/ AfterMiss(w, o) \/ AdoptTurn(w, o)
  BY <1>1, <1>3 DEF Acquire, Miss, AfterMiss, AdoptTurn, row, world
<1>4. CASE BeginAttempt(w, o)
  <2>1. attemptCount' = [attemptCount EXCEPT ![o] = attemptCount[o] + 1] /\ made' = made
    BY <1>4 DEF BeginAttempt, AttemptNumber, world
  <2>2. ASSUME NEW q \in Ops, NEW e \in Effects PROVE Accounted(q, e)'
    <3>1. \A v \in Workers : v # w \/ q # o => (Owes(v, q, e)' => Owes(v, q, e))
      BY <1>b DEF Local, OnlyTask, Owes
    <3>2. CASE q = o
      <4>1. attemptCount'[o] = attemptCount[o] + 1
        BY <1>a, <2>1 DEF TypeOK, RowTypes
      <4> QED
        BY <2>1, <3>1, <3>2, <4>1, BegunAccounted
    <3>3. CASE q # o
      <4>1. attemptCount'[q] = attemptCount[q]
        BY <1>a, <2>1, <3>3 DEF TypeOK, RowTypes
      <4> QED
        BY <2>1, <3>1, <3>3, <4>1, StillAccounted
    <3> QED
      BY <3>2, <3>3
  <2> QED
    BY <2>2 DEF BudgetInv
<1>5. CASE StartSteer(w, o) \/ StartThread(w, o) \/ StartFork(w, o)
  BY <1>2, <1>5 DEF StartSteer, StartThread, StartFork, AppIsReady, world
<1>6. CASE StartReview(w, o) \/ StartMessage(w, o)
  BY <1>2, <1>6 DEF StartReview, StartMessage, AppIsReady, world
<1>7. CASE AppFails(w, o) \/ RequestRefused(w, o) \/ RequestTimesOut(w, o)
  BY <1>1, <1>7 DEF AppFails, RequestRefused, RequestTimesOut, row, world
<1>8. CASE ServerExecutes(w, o)
  <2>1. /\ pc[w][o] \in Requests /\ reply[w][o] = 0 /\ pc' = pc /\ attemptCount' = attemptCount
        /\ made' = [made EXCEPT ![o] = [e \in Effects |-> made[o][e] + IF e = pc[w][o] THEN 1 ELSE 0]]
    BY <1>8, <1>a DEF ServerExecutes, row, TypeOK, WorldTypes
  <2>2. reply'[w][o] # 0
    <3>1. Len(turns[o]) \in Nat
      BY <1>a DEF TypeOK, WorldTypes
    <3> QED
      BY <1>8, <1>a, <3>1 DEF ServerExecutes, TypeOK, ProcessTypes
  <2>3. ASSUME NEW q \in Ops, NEW e \in Effects PROVE Accounted(q, e)'
    <3>1. \A v \in Workers : v # w \/ q # o => (Owes(v, q, e)' => Owes(v, q, e))
      BY <1>b DEF Local, OnlyTask, Owes
    <3>2. CASE q = o /\ e = pc[w][o]
      <4>1. made'[o][e] = made[o][e] + 1
        BY <1>a, <2>1, <3>2 DEF TypeOK, WorldTypes
      <4>2. Owes(w, o, e) /\ ~Owes(w, o, e)'
        BY <2>1, <2>2, <3>2 DEF Owes, Effects, Requests
      <4> QED
        BY <2>1, <3>1, <3>2, <4>1, <4>2, ExecutedAccounted
    <3>3. CASE ~(q = o /\ e = pc[w][o])
      <4>1. made'[q][e] = made[q][e]
        BY <1>a, <2>1, <3>3 DEF TypeOK, WorldTypes
      <4>2. Owes(w, q, e)' => Owes(w, q, e)
        BY <2>1, <3>1, <3>3 DEF Owes
      <4> QED
        BY <2>1, <3>1, <4>1, <4>2, StillAccounted
    <3> QED
      BY <3>2, <3>3
  <2> QED
    BY <2>3 DEF BudgetInv
<1>9. CASE ThreadReply(w, o)
  <2>1. \E r \in {"turn", "review"}, s \in STARTABLE : Request(w, o, r, s)
    BY <1>9 DEF ThreadReply, STARTABLE
  <2>2. pc[w][o] = "thread" /\ UNCHANGED <<made, attemptCount>>
    BY <1>9 DEF ThreadReply, world
  <2> QED
    BY <1>2, <2>1, <2>2
<1>10. CASE ForkReply(w, o)
  <2>1. pc[w][o] = "fork" /\ UNCHANGED <<made, attemptCount>>
    BY <1>10 DEF ForkReply, world
  <2>2. Goto(w, o, "fin") \/ Resume(w, o, "starting_turn")
    BY <1>10 DEF ForkReply
  <2> QED
    BY <1>1, <1>2, <2>1, <2>2
<1>11. CASE ResumeReply(w, o)
  BY <1>2, <1>11 DEF ResumeReply, world
<1>12. CASE TurnReply(w, o) \/ PersistTurn(w, o) \/ SteerReply(w, o)
  BY <1>1, <1>12 DEF TurnReply, PersistTurn, SteerReply, row, world
<1>13. CASE HandleError(w, o)
  BY <1>1, <1>13 DEF HandleError, world
<1>14. CASE Finish(w, o)
  BY <1>1, <1>14 DEF Finish, world
<1> QED
  BY <1>3, <1>4, <1>5, <1>6, <1>7, <1>8, <1>9, <1>10, <1>11, <1>12, <1>13, <1>14 DEF Attempt

\* It holds through every step.
LEMMA NextKeepsBudget ==
  ASSUME BudgetInv, [Next]_vars
  PROVE  BudgetInv'
<1>a. TypeOK /\ TypeOK'
  BY NextTypeOK DEF BudgetInv
<1>0. ASSUME UNCHANGED <<made, attemptCount, pc, reply>> PROVE BudgetInv'
  BY <1>a, <1>0, OnwardKeepsBudget DEF Onward
<1>1. CASE UNCHANGED vars
  BY <1>0, <1>1 DEF vars, row, world, task
<1>2. ASSUME NEW w \in Workers, NEW o \in Ops, Schedule(w, o) \/ Heartbeat(w, o)
      PROVE  BudgetInv'
  <2>1. CASE ScheduleListed(w, o) \/ SchedulePolled(w, o)
    <3>1. Goto(w, o, "spawned") /\ UNCHANGED <<made, attemptCount, reply>>
      BY <2>1 DEF ScheduleListed, SchedulePolled, row, world
    <3>2. \A v \in Workers, q \in Ops : Onward(v, q)
      BY <1>a, <3>1 DEF Goto, Onward, Requests, TypeOK, ProcessTypes
    <3> QED
      BY <1>a, <3>1, <3>2, OnwardKeepsBudget
  <2>2. CASE FailPolled(w, o) \/ Heartbeat(w, o)
    BY <1>0, <2>2 DEF FailPolled, Heartbeat, world, task
  <2> QED
    BY <1>2, <2>1, <2>2 DEF Schedule
<1>3. ASSUME NEW o \in Ops, RowStep(o) PROVE BudgetInv'
  BY <1>0, <1>3 DEF RowStep, Submit, ExpireDead, ExpireStalled, BackoffElapses, TurnEvent,
                    TurnEnds, Reconcile, RepairStale, row, world, task
<1>4. ASSUME NEW w \in Workers, ProcessStep(w) PROVE BudgetInv'
  <2>1. CASE StartAndRecover(w) \/ RecoverScan(w) \/ RecoverApply(w)
    BY <1>0, <2>1 DEF StartAndRecover, RecoverScan, RecoverApply, Recover, row, world, task
  <2>2. CASE ServerExit(w)
    <3>1. \A v \in Workers, o \in Ops : pc'[v][o] = pc[v][o] \/ pc'[v][o] = "lost"
      BY <2>2, <1>a DEF ServerExit, TypeOK, ProcessTypes
    <3>2. UNCHANGED <<made, attemptCount, reply>>
      BY <2>2 DEF ServerExit, row
    <3> QED
      BY <1>a, <3>1, <3>2, OnwardKeepsBudget DEF Onward, Requests
  <2>3. CASE Crash(w) \/ Shutdown(w)
    <3>1. Stop(w) /\ UNCHANGED <<made, attemptCount>>
      BY <2>3 DEF Crash, Shutdown, row
    <3>2. \A v \in Workers, o \in Ops : Onward(v, o)
      BY <1>a, <3>1 DEF Stop, Onward, Requests, TypeOK, ProcessTypes
    <3> QED
      BY <1>a, <3>1, <3>2, OnwardKeepsBudget
  <2> QED
    BY <1>4, <2>1, <2>2, <2>3 DEF ProcessStep
<1> QED
  BY <1>a, <1>1, <1>2, <1>3, <1>4, AttemptKeepsBudget DEF Next

\* Nothing was counted or executed at the start.
LEMMA InitBudget == Init => BudgetInv
<1> SUFFICES ASSUME Init PROVE BudgetInv
  OBVIOUS
<1>1. ASSUME NEW o \in Ops, NEW e \in Effects PROVE Accounted(o, e)
  <2>1. Pending(o, e) = {}
    BY DEF Init, Pending, Owes, Effects, Requests
  <2>2. Cardinality(Pending(o, e)) = 0
    BY <2>1, FS_EmptySet
  <2>3. made[o][e] = 0 /\ attemptCount[o] = 0
    BY DEF Init
  <2> QED
    BY <2>2, <2>3 DEF Accounted
<1> QED
  BY <1>1, InitTypeOK DEF BudgetInv

\* No effect without an attempt that was counted for it, whatever crashes, lapses
\* or races: an attempt asks for each thing at most once.
THEOREM QueueAccountsEffects == Spec => []EffectsAreAccounted
<1>1. BudgetInv => EffectsAreAccounted
  BY PendingFinite DEF BudgetInv, Accounted, EffectsAreAccounted, TypeOK, RowTypes, WorldTypes
<1> QED
  BY <1>1, InitBudget, NextKeepsBudget, PTL DEF Spec

-----------------------------------------------------------------------------
(* Ledger: with quiet restarts the queue implements EffectLedger.          *)

\* The kinds that start a turn.
TurnKinds == {"start_chat", "send", "fork_msg", "review"}

\* What a row knows of what was executed for it.
LedgerRow(o) ==
  /\ kind[o] = "none" => /\ \A e \in Effects : made[o][e] = 0
                         /\ ~threadId[o] /\ ~delivered[o] /\ ~attempted[o]
                         /\ Len(turns[o]) = 0
  /\ made[o]["fork"] > 0 \/ made[o]["review"] > 0 => attempted[o]
  /\ kind[o] # "steer" => Len(turns[o]) = made[o]["turn"] + made[o]["review"]
  /\ delivered[o] => ~Startable(o)

\* What a running attempt may rely on.
LedgerTask(w, o) ==
  /\ pc[w][o] = "leased" => Startable(o) \/ (turnId[o] # 0 /\ kind[o] # "steer")
  /\ pc[w][o] \in Busy \ {"leased"} =>
       /\ kind[o] = "steer" \/ turnId[o] = 0
       /\ ~delivered[o]
  /\ pc[w][o] = "app" =>
       /\ sawThread[w][o] <=> threadId[o]
       /\ kind[o] \in ForkKinds /\ ~threadId[o] => ~attempted[o]
       /\ kind[o] = "review" => ~attempted[o]
  /\ pc[w][o] = "thread" =>
       /\ ~threadId[o] /\ kind[o] \in {"start_chat", "review"}
       /\ kind[o] = "review" => ~attempted[o]
       /\ reply[w][o] # 0 => made[o]["thread"] > 0
  /\ pc[w][o] = "fork" =>
       /\ ~threadId[o] /\ kind[o] \in ForkKinds
       /\ made[o]["fork"] > 0 <=> reply[w][o] # 0
  /\ pc[w][o] \in {"fork", "review"} => attempted[o]
  /\ pc[w][o] \in {"resume", "turn", "review", "reg"} => kind[o] \in TurnKinds
  /\ pc[w][o] = "review" /\ reply[w][o] = 0 => made[o]["review"] = 0
  /\ pc[w][o] = "steer" /\ reply[w][o] # 0 => made[o]["steer"] > 0

\* The invariant behind the refinement of EffectLedger.
LedgerInv ==
  /\ ExclusionInv /\ EvidenceInv
  /\ \A o \in Ops : LedgerRow(o)
  /\ \A w \in Workers, o \in Ops : LedgerTask(w, o)

\* A step for one operation of the process that executes it.
LEMMA LocalKeepsLedger ==
  ASSUME LedgerInv, ExclusionInv', EvidenceInv', NEW w \in Workers, NEW o \in Ops, Local(w, o),
         Executing(w, o), LedgerRow(o)', LedgerTask(w, o)'
  PROVE  LedgerInv'
<1>1. ASSUME NEW q \in Ops PROVE LedgerRow(q)'
  <2>1. LedgerRow(q)
    BY DEF LedgerInv
  <2> QED
    BY <2>1 DEF Local, OnlyRow, LedgerRow, Startable
<1>2. ASSUME NEW v \in Workers, NEW q \in Ops PROVE LedgerTask(v, q)'
  <2>1. LedgerTask(v, q)
    BY DEF LedgerInv
  <2>2. CASE v = w /\ q = o
    BY <2>2
  <2>3. CASE v # w /\ q = o
    <3>1. pc'[v][q] \notin Busy
      BY <2>3 DEF LedgerInv, ExclusionInv, LeaseExclusion, Executing, Local, OnlyTask
    <3> QED
      BY <3>1 DEF LedgerTask, Busy, Requests
  <2>4. CASE q # o
    BY <2>1, <2>4 DEF Local, OnlyRow, OnlyTask, LedgerTask, Startable
  <2> QED
    BY <2>2, <2>3, <2>4
<1> QED
  BY <1>1, <1>2 DEF LedgerInv

\* Steps that execute, record and acknowledge nothing.
LedgerFrame ==
  /\ UNCHANGED <<kind, threadId, turnId, attempted, made, delivered>>
  /\ \A o \in Ops : Len(turns'[o]) = Len(turns[o])

\* An attempt stops, fails or stays where it is.
TaskFrame(w, o) ==
  \/ pc'[w][o] \notin Busy
  \/ pc[w][o] \in Busy \ {"leased"} /\ pc'[w][o] \in {"raise", "lost"}
  \/ /\ pc'[w][o] = pc[w][o] /\ reply'[w][o] = reply[w][o]
     /\ sawThread'[w][o] = sawThread[w][o]
     /\ pc[w][o] = "leased" /\ Startable(o) => Startable(o)' \/ (turnId[o] # 0 /\ kind[o] # "steer")

\* Such steps keep the invariant.
LEMMA FrameKeepsLedger ==
  ASSUME LedgerInv, ExclusionInv', EvidenceInv', LedgerFrame,
         \A o \in Ops : delivered[o] /\ ~Startable(o) => ~Startable(o)',
         \A w \in Workers, o \in Ops : TaskFrame(w, o)
  PROVE  LedgerInv'
<1>1. ASSUME NEW q \in Ops PROVE LedgerRow(q)'
  <2>1. LedgerRow(q)
    BY DEF LedgerInv
  <2> QED
    BY <2>1 DEF LedgerFrame, LedgerRow
<1>2. ASSUME NEW v \in Workers, NEW q \in Ops PROVE LedgerTask(v, q)'
  <2>1. LedgerTask(v, q) /\ TaskFrame(v, q)
    BY DEF LedgerInv
  <2>2. CASE pc'[v][q] \notin Busy
    BY <2>2 DEF LedgerTask, Busy, Requests
  <2>3. CASE pc[v][q] \in Busy \ {"leased"} /\ pc'[v][q] \in {"raise", "lost"}
    BY <2>1, <2>3 DEF LedgerFrame, LedgerTask
  <2>4. CASE /\ pc'[v][q] = pc[v][q] /\ reply'[v][q] = reply[v][q]
             /\ sawThread'[v][q] = sawThread[v][q]
             /\ pc[v][q] = "leased" /\ Startable(q) =>
                  Startable(q)' \/ (turnId[q] # 0 /\ kind[q] # "steer")
    BY <2>1, <2>4 DEF LedgerFrame, LedgerTask
  <2> QED
    BY <2>1, <2>2, <2>3, <2>4 DEF TaskFrame
<1> QED
  BY <1>1, <1>2 DEF LedgerInv

\* The steps of _run_operation before and after the attempt proper.
LEMMA EdgesKeepLedger ==
  ASSUME LedgerInv, ExclusionInv', EvidenceInv', NEW w \in Workers, NEW o \in Ops,
         \/ Acquire(w, o) \/ Miss(w, o) \/ AfterMiss(w, o) \/ Finish(w, o) \/ AdoptTurn(w, o)
         \/ Schedule(w, o) \/ Heartbeat(w, o) \/ AppFails(w, o)
         \/ RequestRefused(w, o) \/ RequestTimesOut(w, o) \/ HandleError(w, o)
  PROVE  LedgerInv' /\ LedgerFrame
<1>a. TypeOK
  BY DEF LedgerInv, EvidenceInv
<1>b. LedgerRow(o) /\ LedgerTask(w, o)
  BY DEF LedgerInv
<1> {"idle", "spawned", "missed", "fin"} \cap Busy = {}
  BY DEF Busy, Requests
<1>0. ASSUME UNCHANGED <<kind, threadId, turnId, attempted, world, sawThread>>,
             NEW p, Goto(w, o, p), p \notin Busy,
             \A v \in Workers, q \in Ops : v # w \/ q # o => reply'[v][q] = reply[v][q],
             \A q \in Ops : status'[q] = status[q]
                            \/ /\ status'[q] \notin STARTABLE
                               /\ \A v \in Workers : v # w \/ q # o => pc[v][q] # "leased"
      PROVE  LedgerInv' /\ LedgerFrame
  <2>1. LedgerFrame
    BY <1>0 DEF LedgerFrame, world
  <2>2. \A q \in Ops : delivered[q] /\ ~Startable(q) => ~Startable(q)'
    BY <1>0 DEF Startable
  <2>3. ASSUME NEW v \in Workers, NEW q \in Ops PROVE TaskFrame(v, q)
    <3>1. CASE v = w /\ q = o
      BY <1>a, <1>0, <3>1 DEF Goto, TaskFrame, TypeOK, ProcessTypes
    <3>2. CASE ~(v = w /\ q = o)
      <4>1. pc'[v][q] = pc[v][q] /\ reply'[v][q] = reply[v][q] /\ sawThread'[v][q] = sawThread[v][q]
        BY <1>a, <1>0, <3>2 DEF Goto, TypeOK, ProcessTypes
      <4> QED
        BY <1>0, <3>2, <4>1 DEF TaskFrame, Startable
    <3> QED
      BY <3>1, <3>2
  <2> QED
    BY <2>1, <2>2, <2>3, FrameKeepsLedger
<1>c. Executing(w, o) => \A v \in Workers \ {w} : pc[v][o] # "leased"
  BY DEF LedgerInv, ExclusionInv, LeaseExclusion, Executing, Busy
<1>d. Exhausted(o) => \A v \in Workers : pc[v][o] # "leased"
  BY DEF LedgerInv, ExclusionInv, LeaseDiscipline
<1>1. CASE Acquire(w, o)
  <2>1. LedgerFrame /\ UNCHANGED <<status, reply, sawThread>> /\ Goto(w, o, "leased") /\ Startable(o)
    BY <1>1 DEF Acquire, MayAcquire, LedgerFrame, world
  <2>2. \A v \in Workers, q \in Ops : v # w \/ q # o => pc'[v][q] = pc[v][q]
    BY <1>a, <2>1 DEF Goto, TypeOK, ProcessTypes
  <2>3. pc'[w][o] = "leased"
    BY <1>a, <2>1 DEF Goto, TypeOK, ProcessTypes
  <2>4. ASSUME NEW q \in Ops PROVE LedgerRow(q)'
    BY <2>1 DEF LedgerInv, LedgerRow, LedgerFrame, Startable
  <2>5. ASSUME NEW v \in Workers, NEW q \in Ops PROVE LedgerTask(v, q)'
    <3>1. CASE v = w /\ q = o
      BY <2>1, <2>3, <3>1 DEF LedgerTask, Startable
    <3>2. CASE v # w \/ q # o
      <4>1. LedgerTask(v, q)
        BY DEF LedgerInv
      <4> QED
        BY <2>1, <2>2, <3>2, <4>1 DEF LedgerTask, LedgerFrame, Startable
    <3> QED
      BY <3>1, <3>2
  <2> QED
    BY <2>1, <2>4, <2>5 DEF LedgerInv
<1>2. CASE Miss(w, o)
  BY <1>0, <1>2 DEF Miss, row, world
<1>3. CASE AfterMiss(w, o)
  <2>1. \A q \in Ops : status'[q] = status[q] \/ (q = o /\ Exhausted(o) /\ status'[q] = "failed")
    BY <1>3, <1>a DEF AfterMiss, MustFail, FailRow, SetStatus, TypeOK, RowTypes
  <2>2. UNCHANGED <<kind, threadId, turnId, attempted, world, sawThread, reply>> /\ Goto(w, o, "idle")
    BY <1>3 DEF AfterMiss
  <2> QED
    BY <1>0, <1>d, <2>1, <2>2 DEF STARTABLE
<1>4. CASE Finish(w, o)
  <2>1. UNCHANGED <<kind, status, threadId, turnId, attempted, world, sawThread>> /\ Goto(w, o, "idle")
    BY <1>4 DEF Finish
  <2>2. \A v \in Workers, q \in Ops : v # w \/ q # o => reply'[v][q] = reply[v][q]
    BY <1>4, <1>a DEF Finish, TypeOK, ProcessTypes
  <2> QED
    BY <1>0, <2>1, <2>2
<1>5. CASE AdoptTurn(w, o)
  <2>1. UNCHANGED <<kind, threadId, turnId, attempted, world, sawThread, reply>> /\ Goto(w, o, "idle")
    BY <1>5 DEF AdoptTurn
  <2>2. \A q \in Ops : status'[q] = status[q] \/ (q = o /\ status'[q] = "running")
    BY <1>5, <1>a DEF AdoptTurn, SetStatus, TypeOK, RowTypes
  <2>3. Executing(w, o)
    BY <1>5 DEF AdoptTurn, Executing, Busy
  <2> QED
    BY <1>0, <1>c, <2>1, <2>2, <2>3 DEF STARTABLE
<1>6. CASE ScheduleListed(w, o) \/ SchedulePolled(w, o)
  BY <1>0, <1>6 DEF ScheduleListed, SchedulePolled, row
<1>7. CASE FailPolled(w, o)
  <2>1. \A q \in Ops : status'[q] = status[q] \/ (q = o /\ Exhausted(o) /\ status'[q] = "failed")
    BY <1>7, <1>a DEF FailPolled, MustFail, FailRow, SetStatus, TypeOK, RowTypes
  <2>2. UNCHANGED <<kind, threadId, turnId, attempted, world, sawThread, reply, pc>>
    BY <1>7 DEF FailPolled, task
  <2>3. LedgerFrame
    BY <2>2 DEF LedgerFrame, world
  <2>4. \A v \in Workers, q \in Ops : TaskFrame(v, q)
    BY <1>d, <2>1, <2>2 DEF TaskFrame, Startable
  <2> QED
    BY <2>1, <2>3, <2>4, FrameKeepsLedger DEF Startable, STARTABLE
<1>8. CASE Heartbeat(w, o)
  <2>1. UNCHANGED <<kind, status, threadId, turnId, attempted, world, task>>
    BY <1>8 DEF Heartbeat
  <2> QED
    BY <2>1, FrameKeepsLedger DEF LedgerFrame, TaskFrame, Startable, world, task
<1>9. CASE AppFails(w, o) \/ RequestRefused(w, o) \/ RequestTimesOut(w, o)
  <2>1. UNCHANGED <<row, world, reply, sawThread>> /\ pc[w][o] \in Busy \ {"leased"}
    BY <1>9 DEF AppFails, RequestRefused, RequestTimesOut, Busy, Requests
  <2>2. Goto(w, o, "raise") \/ Goto(w, o, "lost")
    BY <1>9 DEF AppFails, RequestRefused, RequestTimesOut
  <2>3. \A v \in Workers, q \in Ops : TaskFrame(v, q)
    <3>1. pc'[w][o] \in {"raise", "lost"}
      BY <1>a, <2>2 DEF Goto, TypeOK, ProcessTypes
    <3>2. \A v \in Workers, q \in Ops : v # w \/ q # o => pc'[v][q] = pc[v][q]
      BY <1>a, <2>2 DEF Goto, TypeOK, ProcessTypes
    <3>3. UNCHANGED <<reply, sawThread, status>>
      BY <2>1 DEF row
    <3> QED
      BY <2>1, <3>1, <3>2, <3>3 DEF TaskFrame, Startable
  <2>4. LedgerFrame
    BY <2>1 DEF LedgerFrame, row, world
  <2> QED
    BY <2>1, <2>3, <2>4, FrameKeepsLedger DEF Startable, row
<1>10. CASE HandleError(w, o)
  <2>1. /\ UNCHANGED <<kind, threadId, turnId, attempted, world, sawThread, reply>>
        /\ Goto(w, o, "fin") /\ pc[w][o] \in Busy \ {"leased"}
    BY <1>10 DEF HandleError, Busy
  <2>2. ~delivered[o] /\ Executing(w, o)
    BY <1>b, <2>1 DEF LedgerTask, Executing
  <2>3. \A q \in Ops \ {o} : status'[q] = status[q]
    BY <1>10, <1>a DEF HandleError, SetStatus, TypeOK, RowTypes
  <2>4. \A q \in Ops : delivered[q] /\ ~Startable(q) => ~Startable(q)'
    BY <2>2, <2>3 DEF Startable
  <2>5. \A v \in Workers, q \in Ops : TaskFrame(v, q)
    BY <1>a, <1>c, <2>1, <2>2, <2>3 DEF TaskFrame, Goto, TypeOK, ProcessTypes, Startable
  <2>6. LedgerFrame
    BY <2>1 DEF LedgerFrame, world
  <2> QED
    BY <2>4, <2>5, <2>6, FrameKeepsLedger
<1> QED
  BY <1>1, <1>2, <1>3, <1>4, <1>5, <1>6, <1>7, <1>8, <1>9, <1>10 DEF Schedule

\* The attempt proper, from the moment it is counted to the turn it records.
LEMMA BeginKeepsLedger ==
  ASSUME LedgerInv, ExclusionInv', EvidenceInv', NEW w \in Workers, NEW o \in Ops,
         BeginAttempt(w, o)
  PROVE  LedgerInv' /\ LedgerFrame
<1>a. TypeOK /\ LedgerRow(o) /\ LedgerTask(w, o)
  BY DEF LedgerInv, EvidenceInv
<1>b. Local(w, o)
  BY <1>a, AttemptIsLocal DEF Attempt
<1>1. /\ UNCHANGED <<kind, threadId, turnId, attempted, world>> /\ pc[w][o] = "leased"
      /\ turnId[o] = 0 \/ kind[o] = "steer"
  BY DEF BeginAttempt, MarkUnknown
<1>2. sawThread'[w][o] = threadId[o]
  BY <1>a DEF BeginAttempt, MarkUnknown, TypeOK, ProcessTypes
<1>3. pc'[w][o] = "fin" \/ (pc'[w][o] = "app" /\ ~OutcomeUnknown(o, threadId[o], attempted[o]))
  BY <1>a DEF BeginAttempt, MarkUnknown, Goto, TypeOK, ProcessTypes
<1>4. ~delivered[o]
  BY <1>a, <1>1 DEF LedgerTask, LedgerRow
<1>5. LedgerRow(o)'
  BY <1>a, <1>1, <1>4 DEF LedgerRow, world
<1>6. LedgerTask(w, o)'
  BY <1>1, <1>2, <1>3, <1>4 DEF LedgerTask, world, OutcomeUnknown, Requests
<1>7. Executing(w, o)
  BY <1>1 DEF Executing, Busy
<1>8. LedgerFrame
  BY <1>1 DEF LedgerFrame, world
<1> QED
  BY <1>b, <1>5, <1>6, <1>7, <1>8, LocalKeepsLedger

\* Sending a request, or giving it up.
LEMMA SentKeepsLedger ==
  ASSUME LedgerInv, ExclusionInv', EvidenceInv', NEW w \in Workers, NEW o \in Ops, Local(w, o),
         Executing(w, o), pc[w][o] # "leased", kind[o] # "none",
         UNCHANGED <<turnId, world>>, threadId[o] => threadId'[o],
         NEW r \in Requests, NEW s,
         Request(w, o, r, s) \/ Raise(w, o, s),
         r = "thread" => /\ ~threadId'[o] /\ kind[o] \in {"start_chat", "review"}
                         /\ kind[o] = "review" => ~attempted[o],
         r = "fork" => ~threadId'[o] /\ kind[o] \in ForkKinds /\ ~attempted[o],
         r = "review" => kind[o] = "review" /\ ~attempted[o],
         r \in {"resume", "turn"} => kind[o] \in TurnKinds
  PROVE  LedgerInv'
<1>a. TypeOK /\ LedgerRow(o) /\ LedgerTask(w, o)
  BY DEF LedgerInv, EvidenceInv
<1>b. Local(w, o) /\ Executing(w, o)
  OBVIOUS
<1>1. ~delivered[o] /\ (kind[o] = "steer" \/ turnId[o] = 0)
  BY <1>a DEF LedgerTask, Executing
<1>2. /\ made[o]["fork"] \in Nat /\ made[o]["review"] \in Nat
      /\ ~attempted[o] => made[o]["fork"] = 0 /\ made[o]["review"] = 0
  BY <1>a DEF LedgerRow, TypeOK, WorldTypes, Effects, Requests
<1>3. kind' = kind
  BY DEF Local
<1>4. CASE Request(w, o, r, s)
  <2>1. pc'[w][o] = r /\ reply'[w][o] = 0
    BY <1>a, <1>4 DEF Request, Goto, TypeOK, ProcessTypes
  <2>2. attempted'[o] <=> attempted[o] \/ r \in {"fork", "review"}
    BY <1>a, <1>4 DEF Request, TypeOK, RowTypes
  <2>3. r = "thread" => (attempted'[o] <=> attempted[o])
    BY <2>2
  <2>4. LedgerRow(o)'
    BY <1>a, <1>1, <1>3, <2>2 DEF LedgerRow, world
  <2>5. LedgerTask(w, o)'
    BY <1>1, <1>2, <1>3, <1>4, <2>1, <2>2, <2>3 DEF LedgerTask, world, TurnKinds, Requests
  <2> QED
    BY <1>b, <2>4, <2>5, LocalKeepsLedger
<1>5. CASE Raise(w, o, s)
  <2>1. pc'[w][o] = "raise" /\ attempted' = attempted
    BY <1>a, <1>5 DEF Raise, Goto, TypeOK, ProcessTypes
  <2>2. LedgerRow(o)' /\ LedgerTask(w, o)'
    BY <1>a, <1>1, <1>3, <2>1 DEF LedgerRow, LedgerTask, world
  <2> QED
    BY <1>b, <2>2, LocalKeepsLedger
<1> QED
  BY <1>4, <1>5

\* The steps before the first request keep it and add nothing to the ledger.
LEMMA StartsKeepLedger ==
  ASSUME LedgerInv, ExclusionInv', EvidenceInv', NEW w \in Workers, NEW o \in Ops,
         \/ StartSteer(w, o) \/ StartThread(w, o) \/ StartFork(w, o)
         \/ StartReview(w, o) \/ StartMessage(w, o)
  PROVE  LedgerInv' /\ UNCHANGED <<made, threadId, turnId, delivered>>
<1>a. TypeOK /\ LedgerRow(o) /\ LedgerTask(w, o)
  BY DEF LedgerInv, EvidenceInv
<1>b. Local(w, o)
  BY <1>a, AttemptIsLocal DEF Attempt
<1>1. UNCHANGED <<threadId, turnId, world>> /\ pc[w][o] = "app" /\ kind[o] # "none"
  BY DEF StartSteer, StartThread, StartFork, StartReview, StartMessage, AppIsReady, ForkKinds
<1>2. Executing(w, o)
  BY <1>1 DEF Executing, Busy
<1>3. /\ sawThread[w][o] <=> threadId[o]
      /\ kind[o] \in ForkKinds /\ ~threadId[o] => ~attempted[o]
      /\ kind[o] = "review" => ~attempted[o]
  BY <1>a, <1>1 DEF LedgerTask
<1> {"thread", "fork", "resume", "turn", "review", "steer"} \subseteq Requests
  BY DEF Requests
<1>4. CASE StartSteer(w, o)
  <2>1. Request(w, o, "steer", "starting_turn") \/ Raise(w, o, "starting_turn")
    BY <1>4 DEF StartSteer
  <2> QED
    BY <1>1, <1>2, <1>b, <2>1, SentKeepsLedger DEF world
<1>5. CASE StartThread(w, o)
  <2>1. Request(w, o, "thread", "starting_thread") /\ kind[o] \in {"start_chat", "review"}
        /\ ~threadId[o]
    BY <1>3, <1>5 DEF StartThread, AppIsReady, NeedsThread
  <2> QED
    BY <1>1, <1>2, <1>3, <1>b, <2>1, SentKeepsLedger DEF world
<1>6. CASE StartFork(w, o)
  <2>1. Request(w, o, "fork", "starting_thread") /\ kind[o] \in ForkKinds /\ ~threadId[o]
    BY <1>3, <1>6 DEF StartFork, AppIsReady, NeedsThread
  <2> QED
    BY <1>1, <1>2, <1>3, <1>b, <2>1, SentKeepsLedger DEF world
<1>7. CASE StartReview(w, o)
  <2>1. /\ \/ Raise(w, o, "starting_app_server")
           \/ Request(w, o, "review", "starting_review")
        /\ kind[o] = "review"
    BY <1>7 DEF StartReview, AppIsReady
  <2>2. CASE Raise(w, o, "starting_app_server")
    BY <1>1, <1>2, <1>3, <1>b, <2>1, <2>2, SentKeepsLedger DEF world
  <2>3. CASE Request(w, o, "review", "starting_review")
    BY <1>1, <1>2, <1>3, <1>b, <2>1, <2>3, SentKeepsLedger DEF world
  <2> QED
    BY <2>1, <2>2, <2>3
<1>8. CASE StartMessage(w, o)
  <2>1. \E s : /\ Raise(w, o, s) \/ Request(w, o, "resume", s)
               /\ kind[o] \in TurnKinds
    BY <1>8 DEF StartMessage, AppIsReady, Resume, TurnKinds
  <2> QED
    BY <1>1, <1>2, <1>3, <1>b, <2>1, SentKeepsLedger DEF world
<1> QED
  BY <1>4, <1>5, <1>6, <1>7, <1>8

\* The answers.
LEMMA ThreadReplyKeepsLedger ==
  ASSUME LedgerInv, ExclusionInv', EvidenceInv', NEW w \in Workers, NEW o \in Ops,
         ThreadReply(w, o) \/ ForkReply(w, o)
  PROVE  LedgerInv' /\ Ledger!RecordThread(o)
<1>a. TypeOK /\ LedgerRow(o) /\ LedgerTask(w, o)
  BY DEF LedgerInv, EvidenceInv
<1>b. Local(w, o)
  BY <1>a, AttemptIsLocal DEF Attempt
<1>1. /\ UNCHANGED <<turnId, world>> /\ pc[w][o] \in {"thread", "fork"} /\ reply[w][o] # 0
      /\ threadId' = [threadId EXCEPT ![o] = TRUE]
  BY DEF ThreadReply, ForkReply
<1>2. Executing(w, o) /\ threadId'[o]
  BY <1>1, <1>a DEF Executing, Busy, Requests, TypeOK, RowTypes
<1>3. /\ ~threadId[o] /\ made[o]["thread"] + made[o]["fork"] > 0
      /\ pc[w][o] = "thread" => kind[o] \in {"start_chat", "review"}
      /\ pc[w][o] = "thread" /\ kind[o] = "review" => ~attempted[o]
      /\ pc[w][o] = "fork" => kind[o] \in ForkKinds
  BY <1>a, <1>1 DEF LedgerTask, TypeOK, WorldTypes, Effects, Requests
<1>4. Ledger!RecordThread(o)
  BY <1>1, <1>3 DEF Ledger!RecordThread, world
<1> {"thread", "fork", "resume", "turn", "review", "steer"} \subseteq Requests
  BY DEF Requests
<1>c. kind[o] # "none"
  BY <1>1, <1>3 DEF ForkKinds
<1>5. CASE ThreadReply(w, o)
  <2>1. pc[w][o] = "thread"
    BY <1>5 DEF ThreadReply
  <2>2. CASE kind[o] = "review"
    <3>1. Request(w, o, "review", "starting_review")
      BY <1>5, <2>2 DEF ThreadReply
    <3> QED
      BY <1>1, <1>2, <1>3, <1>4, <1>b, <1>c, <2>1, <2>2, <3>1, SentKeepsLedger
  <2>3. CASE kind[o] # "review"
    <3>1. Request(w, o, "turn", "starting_turn")
      BY <1>5, <2>3 DEF ThreadReply
    <3>2. kind[o] \in TurnKinds
      BY <1>3, <2>1, <2>3 DEF TurnKinds
    <3> QED
      BY <1>1, <1>2, <1>4, <1>b, <1>c, <2>1, <3>1, <3>2, SentKeepsLedger
  <2> QED
    BY <2>2, <2>3
<1>6. CASE ForkReply(w, o)
  <2>1. pc[w][o] = "fork" /\ kind[o] \in ForkKinds
    BY <1>3, <1>6 DEF ForkReply
  <2>2. CASE kind[o] = "fork"
    <3>1. SetStatus(o, "completed") /\ Goto(w, o, "fin") /\ attempted' = attempted
      BY <1>6, <2>2 DEF ForkReply
    <3>2. status'[o] = "completed" /\ pc'[w][o] = "fin"
      BY <1>a, <3>1 DEF SetStatus, Goto, TypeOK, RowTypes, ProcessTypes
    <3>3. LedgerRow(o)'
      BY <1>a, <1>1, <1>b, <1>c, <3>1, <3>2 DEF LedgerRow, world, Local, Startable, STARTABLE
    <3>4. LedgerTask(w, o)'
      BY <3>2 DEF LedgerTask, Busy, Requests
    <3> QED
      BY <1>2, <1>4, <1>b, <3>3, <3>4, LocalKeepsLedger
  <2>3. CASE kind[o] # "fork"
    <3>1. Raise(w, o, "starting_turn") \/ Request(w, o, "resume", "starting_turn")
      BY <1>6, <2>3 DEF ForkReply, Resume
    <3>2. kind[o] \in TurnKinds
      BY <2>1, <2>3 DEF TurnKinds, ForkKinds
    <3> QED
      BY <1>1, <1>2, <1>4, <1>b, <1>c, <2>1, <3>1, <3>2, SentKeepsLedger
  <2> QED
    BY <2>2, <2>3
<1> QED
  BY <1>5, <1>6

\* The reply of a resume starts no turn.
LEMMA ResumeReplyKeepsLedger ==
  ASSUME LedgerInv, ExclusionInv', EvidenceInv', NEW w \in Workers, NEW o \in Ops,
         ResumeReply(w, o)
  PROVE  LedgerInv' /\ UNCHANGED <<made, threadId, turnId, delivered>>
<1>a. TypeOK /\ LedgerRow(o) /\ LedgerTask(w, o)
  BY DEF LedgerInv, EvidenceInv
<1>b. Local(w, o)
  BY <1>a, AttemptIsLocal DEF Attempt
<1>1. /\ UNCHANGED <<turnId, threadId, world>> /\ pc[w][o] = "resume"
      /\ Request(w, o, "turn", "starting_turn")
  BY DEF ResumeReply
<1>2. Executing(w, o) /\ "turn" \in Requests
  BY <1>1 DEF Executing, Busy, Requests
<1>3. kind[o] \in TurnKinds
  BY <1>a, <1>1 DEF LedgerTask
<1>4. kind[o] # "none"
  BY <1>3 DEF TurnKinds
<1> QED
  BY <1>1, <1>2, <1>3, <1>4, <1>b, SentKeepsLedger DEF world

\* The turn that a reply names is in the ledger.
LEMMA TurnReplyKeepsLedger ==
  ASSUME LedgerInv, ExclusionInv', EvidenceInv', NEW w \in Workers, NEW o \in Ops,
         TurnReply(w, o)
  PROVE  LedgerInv' /\ UNCHANGED <<made, threadId, turnId, delivered>>
<1>a. TypeOK /\ LedgerRow(o) /\ LedgerTask(w, o)
  BY DEF LedgerInv, EvidenceInv
<1>b. Local(w, o)
  BY <1>a, AttemptIsLocal DEF Attempt
<1>1. UNCHANGED <<row, made, delivered>> /\ pc[w][o] \in {"turn", "review"}
  BY DEF TurnReply
<1>2. Executing(w, o) /\ kind[o] \in TurnKinds
  BY <1>a, <1>1 DEF Executing, Busy, Requests, LedgerTask
<1>3. pc'[w][o] = "reg"
  BY <1>a DEF TurnReply, Goto, TypeOK, ProcessTypes
<1>4. Len(turns'[o]) = Len(turns[o])
  BY <1>a DEF TurnReply, TypeOK, WorldTypes
<1>5. LedgerRow(o)'
  BY <1>a, <1>1, <1>4 DEF LedgerRow, row, Startable
<1>6. LedgerTask(w, o)'
  BY <1>a, <1>1, <1>2, <1>3 DEF LedgerTask, row, Busy, Requests
<1> QED
  BY <1>1, <1>2, <1>5, <1>6, <1>b, LocalKeepsLedger DEF row

\* Writing the turn down records it.
LEMMA PersistTurnKeepsLedger ==
  ASSUME LedgerInv, ExclusionInv', EvidenceInv', NEW w \in Workers, NEW o \in Ops,
         PersistTurn(w, o)
  PROVE  LedgerInv' /\ reply[w][o] \in 1..(made[o]["turn"] + made[o]["review"])
                    /\ Ledger!RecordTurn(o, reply[w][o])
<1>a. TypeOK /\ LedgerRow(o) /\ LedgerTask(w, o) /\ TaskEvidence(w, o)
  BY DEF LedgerInv, EvidenceInv
<1>b. Local(w, o)
  BY <1>a, AttemptIsLocal DEF Attempt
<1>1. /\ UNCHANGED <<kind, threadId, attempted, world>> /\ pc[w][o] = "reg"
      /\ turnId' = [turnId EXCEPT ![o] = reply[w][o]]
  BY DEF PersistTurn
<1>2. Executing(w, o) /\ kind[o] \in TurnKinds
  BY <1>a, <1>1 DEF Executing, Busy, Requests, LedgerTask
<1>3. turnId[o] = 0
  BY <1>a, <1>1, <1>2 DEF LedgerTask, TurnKinds, Busy
<1>4. reply[w][o] \in 1..(made[o]["turn"] + made[o]["review"])
  BY <1>a, <1>1, <1>2 DEF TaskEvidence, Registered, LedgerRow, TurnKinds
<1>5. Ledger!RecordTurn(o, reply[w][o])
  BY <1>1, <1>3, <1>4 DEF Ledger!RecordTurn, world
<1>6. pc'[w][o] = "fin" /\ status'[o] = "running"
  BY <1>a DEF PersistTurn, SetStatus, Goto, TypeOK, RowTypes, ProcessTypes
<1>7. LedgerRow(o)'
  BY <1>a, <1>1, <1>6 DEF LedgerRow, world, Startable, STARTABLE
<1>8. LedgerTask(w, o)'
  BY <1>6 DEF LedgerTask, Busy, Requests
<1> QED
  BY <1>2, <1>4, <1>5, <1>7, <1>8, <1>b, LocalKeepsLedger

\* A steer that was acknowledged was delivered.
LEMMA SteerReplyKeepsLedger ==
  ASSUME LedgerInv, ExclusionInv', EvidenceInv', NEW w \in Workers, NEW o \in Ops,
         SteerReply(w, o)
  PROVE  LedgerInv' /\ Ledger!Acknowledge(o)
<1>a. TypeOK /\ LedgerRow(o) /\ LedgerTask(w, o)
  BY DEF LedgerInv, EvidenceInv
<1>b. Local(w, o)
  BY <1>a, AttemptIsLocal DEF Attempt
<1>1. /\ UNCHANGED <<kind, threadId, turnId, attempted, turns, made>>
      /\ pc[w][o] = "steer" /\ reply[w][o] # 0
      /\ delivered' = [delivered EXCEPT ![o] = TRUE]
  BY DEF SteerReply
<1>2. Executing(w, o) /\ ~delivered[o] /\ made[o]["steer"] > 0
  BY <1>a, <1>1 DEF Executing, Busy, Requests, LedgerTask
<1>3. Ledger!Acknowledge(o)
  BY <1>1, <1>2 DEF Ledger!Acknowledge
<1>4. pc'[w][o] = "fin" /\ status'[o] = "running"
  BY <1>a DEF SteerReply, SetStatus, Goto, TypeOK, RowTypes, ProcessTypes
<1>5. kind[o] # "none"
  BY <1>1 DEF LedgerInv, EvidenceInv, TaskEvidence
<1>6. LedgerRow(o)'
  BY <1>a, <1>1, <1>4, <1>5 DEF LedgerRow, Startable, STARTABLE
<1>7. LedgerTask(w, o)'
  BY <1>4 DEF LedgerTask, Busy, Requests
<1> QED
  BY <1>2, <1>3, <1>6, <1>7, <1>b, LocalKeepsLedger

\* What an app-server executes is not recorded yet; a fork or a review was not
\* executed before.
LEMMA ExecutesKeepsLedger ==
  ASSUME LedgerInv, ExclusionInv', EvidenceInv', NEW w \in Workers, NEW o \in Ops,
         ServerExecutes(w, o)
  PROVE  /\ LedgerInv'
         /\ \/ UNCHANGED <<made, threadId, turnId, delivered>>
            \/ \E e \in Effects : Ledger!Execute(o, e)
<1>a. TypeOK /\ LedgerRow(o) /\ LedgerTask(w, o) /\ TaskEvidence(w, o)
  BY DEF LedgerInv, EvidenceInv
<1>b. Local(w, o)
  BY <1>a, AttemptIsLocal DEF Attempt
<1> DEFINE r == pc[w][o]
<1>1. /\ UNCHANGED <<row, delivered, pc, sawThread>> /\ r \in Requests /\ reply[w][o] = 0
      /\ made' = [made EXCEPT ![o] = [e \in Effects |-> made[o][e] + IF e = r THEN 1 ELSE 0]]
  BY <1>a DEF ServerExecutes, TypeOK, WorldTypes
<1>2. Executing(w, o)
  BY <1>1 DEF Executing, Busy
<1>3. \A e \in Effects : /\ made[o][e] \in Nat
                         /\ made'[o][e] = IF e = r THEN made[o][e] + 1 ELSE made[o][e]
  BY <1>1, <1>a DEF TypeOK, WorldTypes
<1>4. reply'[w][o] # 0
  <2>1. Len(turns[o]) \in Nat
    BY <1>a DEF TypeOK, WorldTypes
  <2> QED
    BY <1>a, <2>1 DEF ServerExecutes, TypeOK, ProcessTypes
<1>5. Len(turns'[o]) = IF r \in {"turn", "review"} THEN Len(turns[o]) + 1 ELSE Len(turns[o])
  BY <1>a DEF ServerExecutes, TypeOK, WorldTypes
<1>6. kind[o] # "none" /\ (r = "steer" => kind[o] = "steer")
  BY <1>a, <1>1 DEF TaskEvidence, Requests
<1>7. LedgerRow(o)'
  <2>1. r \in {"fork", "review"} => attempted[o]
    BY <1>a DEF LedgerTask
  <2>2. Len(turns[o]) \in Nat
    BY <1>a DEF TypeOK, WorldTypes
  <2>3. {"fork", "review", "turn"} \subseteq Effects
    BY DEF Effects, Requests
  <2>4. UNCHANGED <<kind, status, attempted, delivered>>
    BY <1>1 DEF row
  <2> HIDE DEF r
  <2>5. made'[o]["fork"] > 0 \/ made'[o]["review"] > 0 => attempted'[o]
    BY <1>a, <1>3, <2>1, <2>3, <2>4 DEF LedgerRow
  <2>6. kind'[o] # "steer" => Len(turns'[o]) = made'[o]["turn"] + made'[o]["review"]
    <3>1. kind[o] # "steer" => Len(turns[o]) = made[o]["turn"] + made[o]["review"]
      BY <1>a DEF LedgerRow
    <3>2. made[o]["turn"] \in Nat /\ made[o]["review"] \in Nat
      BY <1>3, <2>3
    <3>3. CASE r = "turn"
      <4>1. /\ made'[o]["turn"] = made[o]["turn"] + 1 /\ made'[o]["review"] = made[o]["review"]
        BY <1>3, <2>3, <3>3
      <4>2. Len(turns'[o]) = Len(turns[o]) + 1
        BY <1>5, <3>3
      <4> QED
        BY <2>2, <2>4, <3>1, <3>2, <4>1, <4>2
    <3>4. CASE r = "review"
      <4>1. /\ made'[o]["review"] = made[o]["review"] + 1 /\ made'[o]["turn"] = made[o]["turn"]
        BY <1>3, <2>3, <3>4
      <4>2. Len(turns'[o]) = Len(turns[o]) + 1
        BY <1>5, <3>4
      <4>3. kind[o] # "steer" =>
              Len(turns[o]) + 1 = made[o]["turn"] + (made[o]["review"] + 1)
        <5>1. \A a, b \in Nat : a + b + 1 = a + (b + 1)
          OBVIOUS
        <5> QED
          BY <3>1, <3>2, <5>1
      <4> QED
        BY <2>4, <4>1, <4>2, <4>3
    <3>5. CASE r \notin {"turn", "review"}
      <4>1. /\ made'[o]["turn"] = made[o]["turn"] /\ made'[o]["review"] = made[o]["review"]
        BY <1>3, <2>3, <3>5
      <4>2. Len(turns'[o]) = Len(turns[o])
        BY <1>5, <3>5
      <4> QED
        BY <2>4, <3>1, <4>1, <4>2
    <3> QED
      BY <3>3, <3>4, <3>5
  <2> QED
    BY <1>a, <1>6, <2>4, <2>5, <2>6 DEF LedgerRow, Startable
<1>8. LedgerTask(w, o)'
  <2>1. {"fork", "review", "turn", "thread", "steer"} \subseteq Effects
    BY DEF Effects, Requests
  <2>2. r \in Requests /\ pc'[w][o] = r /\ UNCHANGED <<kind, threadId, turnId, attempted, delivered>>
    BY <1>1 DEF row
  <2>3. /\ r \in {"thread", "fork", "steer"} => made'[o][r] > 0
        /\ r \in Busy \ {"leased"}
    BY <1>3, <2>1, <2>2 DEF Busy, Requests
  <2> HIDE DEF r
  <2>4. pc[w][o] = r
    BY DEF r
  <2> QED
    BY <1>a, <1>4, <2>2, <2>3, <2>4 DEF LedgerTask, Requests
<1>9. LedgerInv'
  BY <1>2, <1>7, <1>8, <1>b, LocalKeepsLedger
<1>10. CASE r = "resume"
  <2>1. made'[o] = made[o]
    <3>1. made[o] = [e \in Effects |-> made[o][e]]
      BY <1>a DEF TypeOK, WorldTypes
    <3>2. made'[o] = [e \in Effects |-> made[o][e] + IF e = r THEN 1 ELSE 0]
      BY <1>1, <1>a DEF TypeOK, WorldTypes
    <3>3. \A e \in Effects : made[o][e] + (IF e = r THEN 1 ELSE 0) = made[o][e]
      BY <1>3, <1>10 DEF Effects
    <3> QED
      BY <3>1, <3>2, <3>3
  <2>2. made' = made
    BY <1>1, <1>a, <2>1 DEF TypeOK, WorldTypes
  <2> QED
    BY <1>1, <1>9, <2>2 DEF row
<1>11. CASE r # "resume"
  <2>1. r \in Effects
    BY <1>1, <1>11 DEF Effects
  <2>2. ~Ledger!Recorded(o, r)
    <3>1. /\ r \in {"thread", "fork"} => ~threadId[o]
          /\ r \in {"turn", "review"} => turnId[o] = 0
          /\ r = "steer" => ~delivered[o]
      BY <1>a, <1>1 DEF LedgerTask, Busy, Requests, TurnKinds
    <3>2. r \in {"thread", "fork", "turn", "review", "steer"}
      BY <1>1, <1>11 DEF Requests
    <3> QED
      BY <3>1, <3>2 DEF Ledger!Recorded
  <2>3. r \in {"fork", "review"} => made[o][r] = 0
    BY <1>a, <1>1, <1>3, <2>1 DEF LedgerTask
  <2>4. made' = [made EXCEPT ![o][r] = @ + 1]
    <3>1. [made[o] EXCEPT ![r] = made[o][r] + 1] =
            [e \in Effects |-> made[o][e] + IF e = r THEN 1 ELSE 0]
      <4>1. made[o] \in [Effects -> Nat]
        BY <1>a DEF TypeOK, WorldTypes
      <4> QED
        BY <2>1, <4>1
    <3> HIDE DEF r
    <3> QED
      BY <1>1, <1>a, <3>1 DEF TypeOK, WorldTypes
  <2>5. Ledger!Execute(o, r)
    BY <1>1, <2>2, <2>3, <2>4 DEF Ledger!Execute, row
  <2> QED
    BY <1>9, <2>1, <2>5
<1> QED
  BY <1>10, <1>11

\* A submission names the thread, and for a steer the turn, of a blank row.
LEMMA SubmitKeepsLedger ==
  ASSUME LedgerInv, ExclusionInv', EvidenceInv', NEW o \in Ops, NEW k \in Kinds, Submit(o, k)
  PROVE  /\ LedgerInv'
         /\ UNCHANGED <<made, threadId, turnId, delivered>> \/ Ledger!Name(o)
<1>a. TypeOK /\ LedgerRow(o) /\ RowEvidence(o) /\ kind[o] = "none" /\ k # "none"
  BY ConstantsAssumption DEF LedgerInv, EvidenceInv, Submit, AllKinds
<1>1. /\ UNCHANGED <<status, attempted, made, delivered, task>>
      /\ kind'[o] = k
      /\ \A q \in Ops \ {o} : /\ kind'[q] = kind[q] /\ threadId'[q] = threadId[q]
                              /\ turnId'[q] = turnId[q] /\ turns'[q] = turns[q]
      /\ k # "steer" => turns' = turns /\ turnId' = turnId
      /\ k = "steer" => turnId' = [turnId EXCEPT ![o] = 1]
  BY <1>a DEF Submit, TypeOK, RowTypes, WorldTypes
<1>2. /\ \A e \in Effects : made[o][e] = 0
      /\ ~threadId[o] /\ turnId[o] = 0 /\ ~delivered[o] /\ Len(turns[o]) = 0
  BY <1>a DEF LedgerRow, RowEvidence
<1>3. LedgerRow(o)'
  BY <1>a, <1>1, <1>2 DEF LedgerRow, Effects, Requests
<1>4. ASSUME NEW q \in Ops \ {o} PROVE LedgerRow(q)'
  BY <1>1 DEF LedgerInv, LedgerRow, Startable
<1>5. ASSUME NEW v \in Workers, NEW q \in Ops PROVE LedgerTask(v, q)'
  <2>1. CASE q = o
    <3>1. pc[v][o] = "idle"
      BY <1>a DEF LedgerInv, EvidenceInv, TaskEvidence
    <3> QED
      BY <1>1, <2>1, <3>1 DEF LedgerTask, task, Busy, Requests
  <2>2. CASE q # o
    <3>1. LedgerTask(v, q)
      BY DEF LedgerInv
    <3> QED
      BY <1>1, <2>2, <3>1 DEF LedgerTask, task, Startable
  <2> QED
    BY <2>1, <2>2
<1>6. LedgerInv'
  BY <1>3, <1>4, <1>5 DEF LedgerInv
<1>7. PICK given \in ThreadGiven(k) : threadId' = [threadId EXCEPT ![o] = given]
  BY DEF Submit
<1>8. given \in BOOLEAN
  <2>1. (k \in {"send", "steer"}) \in BOOLEAN
    OBVIOUS
  <2> QED
    BY <2>1, Zenon DEF ThreadGiven
<1>9. CASE given = TRUE
  <2>1. turnId' = [turnId EXCEPT ![o] = 0] \/ turnId' = [turnId EXCEPT ![o] = 1]
    BY <1>a, <1>1, <1>2 DEF TypeOK, RowTypes
  <2> QED
    BY <1>1, <1>2, <1>6, <1>7, <1>9, <2>1 DEF Ledger!Name
<1>10. CASE given = FALSE
  <2>1. k # "steer"
    <3>1. k = "steer" => ThreadGiven(k) = {TRUE}
      BY DEF ThreadGiven
    <3> QED
      BY <1>10, <3>1
  <2>2. threadId' = threadId
    BY <1>a, <1>2, <1>7, <1>10 DEF TypeOK, RowTypes
  <2> QED
    BY <1>1, <1>6, <2>1, <2>2
<1> QED
  BY <1>8, <1>9, <1>10

\* The other steps for one row.
LEMMA RowFramesLedger ==
  ASSUME LedgerInv, ExclusionInv', EvidenceInv', NEW o \in Ops,
         \/ ExpireDead(o) \/ ExpireStalled(o) \/ BackoffElapses(o) \/ Reconcile(o) \/ RepairStale(o)
         \/ \E k \in 1..Len(turns[o]) :
              TurnEvent(o, k) \/ \E s \in {"completed", "failed"} : TurnEnds(o, k, s)
  PROVE  LedgerInv' /\ LedgerFrame
<1>a. TypeOK /\ LedgerRow(o)
  BY DEF LedgerInv, EvidenceInv
<1>0. ASSUME LedgerFrame, UNCHANGED task,
             \A q \in Ops : \/ status'[q] = status[q]
                            \/ /\ delivered[q] => status'[q] \notin STARTABLE
                               /\ \A v \in Workers : pc[v][q] = "leased" =>
                                    turnId[q] # 0 /\ kind[q] # "steer"
      PROVE  LedgerInv' /\ LedgerFrame
  <2>1. \A q \in Ops : delivered[q] /\ ~Startable(q) => ~Startable(q)'
    BY <1>0 DEF Startable
  <2>2. \A v \in Workers, q \in Ops : TaskFrame(v, q)
    BY <1>0 DEF TaskFrame, Startable, task
  <2> QED
    BY <1>0, <2>1, <2>2, FrameKeepsLedger
<1>1. CASE ExpireDead(o) \/ ExpireStalled(o) \/ BackoffElapses(o)
  BY <1>0, <1>1 DEF ExpireDead, ExpireStalled, BackoffElapses, LedgerFrame, world
<1>2. CASE Reconcile(o)
  <2>1. /\ UNCHANGED <<kind, threadId, turnId, attempted, world, task>>
        /\ turnId[o] # 0 /\ ~(kind[o] = "steer" /\ Startable(o))
    BY <1>2 DEF Reconcile
  <2>2. /\ \A q \in Ops \ {o} : status'[q] = status[q]
        /\ status'[o] \notin STARTABLE
    BY <1>2, <1>a DEF Reconcile, SetStatus, TypeOK, RowTypes, STARTABLE, TURN_TERMINAL
  <2>3. ASSUME NEW v \in Workers, pc[v][o] = "leased" PROVE kind[o] # "steer"
    BY <2>1, <2>3 DEF LedgerInv, LedgerTask
  <2> QED
    BY <1>0, <2>1, <2>2, <2>3 DEF LedgerFrame, world
<1>3. CASE RepairStale(o)
  <2>1. /\ UNCHANGED <<kind, threadId, turnId, attempted, world, task>>
        /\ Startable(o) /\ LeaseFree(o)
    BY <1>3 DEF RepairStale, Stale
  <2>2. \A q \in Ops \ {o} : status'[q] = status[q]
    BY <1>3, <1>a DEF RepairStale, SetStatus, TypeOK, RowTypes
  <2>3. \A v \in Workers : pc[v][o] # "leased"
    BY <2>1 DEF LedgerInv, ExclusionInv, LeaseDiscipline, Executing, Owns, LeaseFree, Busy
  <2>4. ~delivered[o]
    BY <1>a, <2>1 DEF LedgerRow
  <2> QED
    BY <1>0, <2>1, <2>2, <2>3, <2>4 DEF LedgerFrame, world
<1>4. ASSUME NEW k \in 1..Len(turns[o]),
             TurnEvent(o, k) \/ \E s \in {"completed", "failed"} : TurnEnds(o, k, s)
      PROVE  LedgerInv' /\ LedgerFrame
  <2>1. UNCHANGED <<row, made, delivered, task>>
    BY <1>4 DEF TurnEvent, TurnEnds
  <2>2. \A q \in Ops : Len(turns'[q]) = Len(turns[q])
    BY <1>4, TurnChangeKeeps DEF LedgerInv, EvidenceInv
  <2> QED
    BY <1>0, <2>1, <2>2 DEF LedgerFrame, row
<1> QED
  BY <1>1, <1>2, <1>3, <1>4

\* Recovery leaves alone what is executed and what is delivered.
LEMMA ProcessFramesLedger ==
  ASSUME Calm, LedgerInv, ExclusionInv', EvidenceInv', NEW w \in Workers, ProcessStep(w)
  PROVE  LedgerInv' /\ LedgerFrame
<1>a. TypeOK
  BY DEF LedgerInv, EvidenceInv
<1>1. CASE StartAndRecover(w)
  <2>1. LedgerFrame
    BY <1>1 DEF StartAndRecover, Recover, LedgerFrame, world
  <2>2. \A q \in Ops : \/ status'[q] = status[q]
                       \/ Startable(q) /\ LeaseFree(q)
    <3>1. RecoveryMove(RecoverableRows)
      BY <1>1, RecoverMoves DEF StartAndRecover
    <3>2. \A r \in RecoverableRows : Startable(r.op) /\ LeaseFree(r.op)
      BY DEF RecoverableRows
    <3> QED
      BY <3>1, <3>2 DEF RecoveryMove
  <2>3. \A q \in Ops : Startable(q) /\ LeaseFree(q) =>
          /\ ~delivered[q]
          /\ \A v \in Workers : pc[v][q] # "leased"
    BY DEF LedgerInv, LedgerRow, ExclusionInv, LeaseDiscipline, Executing, Owns, LeaseFree, Busy
  <2>4. \A q \in Ops : delivered[q] /\ ~Startable(q) => ~Startable(q)'
    BY <2>2 DEF Startable
  <2>5. \A v \in Workers, q \in Ops : TaskFrame(v, q)
    BY <1>1, <2>2, <2>3 DEF TaskFrame, Startable, StartAndRecover, task
  <2> QED
    BY <2>1, <2>4, <2>5, FrameKeepsLedger
<1>2. CASE RecoverScan(w) \/ RecoverApply(w)
  BY <1>2 DEF RecoverScan, RecoverApply, Calm, LedgerInv, ExclusionInv, Quiet
<1>3. ASSUME NEW same, WriteOff(w, same) PROVE \A q \in Ops : Len(turns'[q]) = Len(turns[q])
  <2>1. \A q \in Ops : Len(turns[q]) \in Nat
    BY <1>a DEF TypeOK, WorldTypes
  <2> QED
    BY <1>3, <2>1 DEF WriteOff
<1>4. CASE ServerExit(w)
  <2>1. LedgerFrame
    BY <1>3, <1>4 DEF ServerExit, LedgerFrame, row
  <2>2. \A q \in Ops : delivered[q] /\ ~Startable(q) => ~Startable(q)'
    BY <1>4 DEF ServerExit, row, Startable
  <2>3. ASSUME NEW v \in Workers, NEW q \in Ops PROVE TaskFrame(v, q)
    <3>1. pc'[v][q] = pc[v][q] \/ (pc[v][q] \in Requests /\ pc'[v][q] = "lost")
      BY <1>4, <1>a DEF ServerExit, TypeOK, ProcessTypes
    <3>2. Requests \subseteq Busy \ {"leased"}
      BY DEF Busy, Requests
    <3>3. UNCHANGED <<reply, sawThread, status>>
      BY <1>4 DEF ServerExit, row
    <3> QED
      BY <3>1, <3>2, <3>3 DEF TaskFrame, Startable
  <2> QED
    BY <2>1, <2>2, <2>3, FrameKeepsLedger
<1>5. ASSUME Stop(w)
      PROVE  /\ \A q \in Ops : pc'[w][q] = "idle"
             /\ \A v \in Workers \ {w}, q \in Ops : pc'[v][q] = pc[v][q] /\ reply'[v][q] = reply[v][q]
  BY <1>5, <1>a DEF Stop, TypeOK, ProcessTypes
<1>6. "idle" \notin Busy
  BY DEF Busy, Requests
<1>7. CASE Crash(w)
  <2>1. \A q \in Ops : Len(turns'[q]) = Len(turns[q])
    <3>1. \A q \in Ops : Len(turns[q]) \in Nat
      BY <1>a DEF TypeOK, WorldTypes
    <3> QED
      BY <1>7, <3>1 DEF Crash
  <2>2. UNCHANGED <<row, made, delivered, sawThread>> /\ Stop(w)
    BY <1>7 DEF Crash
  <2>3. LedgerFrame
    BY <2>1, <2>2 DEF LedgerFrame, row
  <2>4. \A v \in Workers, q \in Ops : TaskFrame(v, q)
    BY <1>5, <1>6, <2>2 DEF TaskFrame, row, Startable
  <2> QED
    BY <2>2, <2>3, <2>4, FrameKeepsLedger DEF row, Startable
<1>8. CASE Shutdown(w)
  <2>1. UNCHANGED <<kind, threadId, turnId, attempted, made, delivered, sawThread>> /\ Stop(w)
    BY <1>8 DEF Shutdown
  <2>2. LedgerFrame
    BY <1>3, <1>8, <2>1 DEF Shutdown, LedgerFrame
  <2>3. \A q \in Ops : status'[q] = status[q] \/ pc[w][q] \in {"app"} \cup Requests
    BY <1>8 DEF Shutdown
  <2>4. ASSUME NEW q \in Ops, pc[w][q] \in {"app"} \cup Requests
        PROVE  ~delivered[q] /\ \A v \in Workers \ {w} : pc[v][q] # "leased"
    <3>1. pc[w][q] \in Busy \ {"leased"}
      BY <2>4 DEF Busy, Requests
    <3>2. LedgerTask(w, q)
      BY DEF LedgerInv
    <3>3. \A v \in Workers \ {w} : pc[v][q] # "leased"
      BY <3>1 DEF LedgerInv, ExclusionInv, LeaseExclusion, Executing, Busy
    <3> QED
      BY <3>1, <3>2, <3>3 DEF LedgerTask
  <2>5. \A q \in Ops : delivered[q] /\ ~Startable(q) => ~Startable(q)'
    BY <2>3, <2>4 DEF Startable
  <2>6. \A v \in Workers, q \in Ops : TaskFrame(v, q)
    BY <1>5, <1>6, <2>1, <2>3, <2>4 DEF TaskFrame, Startable
  <2> QED
    BY <2>2, <2>5, <2>6, FrameKeepsLedger
<1> QED
  BY <1>1, <1>2, <1>4, <1>7, <1>8 DEF ProcessStep

\* Every step keeps the invariant and is a step of the ledger, or stutters.
LEMMA NextKeepsLedger ==
  ASSUME Calm, LedgerInv, [Next]_vars
  PROVE  /\ LedgerInv'
         /\ [Ledger!Next]_<<made, threadId, turnId, delivered>>
<1>a. ExclusionInv' /\ EvidenceInv'
  BY NextKeepsExclusion, NextKeepsEvidence DEF LedgerInv
<1>1. CASE UNCHANGED vars
  <2>1. LedgerFrame
    BY <1>1 DEF vars, row, world, LedgerFrame
  <2> QED
    BY <1>1, <1>a, <2>1, FrameKeepsLedger DEF vars, row, world, task, TaskFrame, Startable
<1>2. ASSUME NEW w \in Workers, NEW o \in Ops, Schedule(w, o) \/ Attempt(w, o) \/ Heartbeat(w, o)
      PROVE  LedgerInv' /\ [Ledger!Next]_<<made, threadId, turnId, delivered>>
  <2>1. CASE ServerExecutes(w, o)
    BY <1>a, <2>1, ExecutesKeepsLedger DEF Ledger!Next
  <2>2. CASE ThreadReply(w, o) \/ ForkReply(w, o)
    BY <1>a, <2>2, ThreadReplyKeepsLedger DEF Ledger!Next
  <2>3. CASE PersistTurn(w, o)
    BY <1>a, <2>3, PersistTurnKeepsLedger DEF Ledger!Next
  <2>4. CASE SteerReply(w, o)
    BY <1>a, <2>4, SteerReplyKeepsLedger DEF Ledger!Next
  <2>5. CASE ResumeReply(w, o) \/ TurnReply(w, o)
    BY <1>a, <2>5, ResumeReplyKeepsLedger, TurnReplyKeepsLedger
  <2>6. CASE BeginAttempt(w, o)
    BY <1>a, <2>6, BeginKeepsLedger DEF LedgerFrame
  <2>7. CASE \/ StartSteer(w, o) \/ StartThread(w, o) \/ StartFork(w, o)
             \/ StartReview(w, o) \/ StartMessage(w, o)
    BY <1>a, <2>7, StartsKeepLedger
  <2>8. CASE \/ Acquire(w, o) \/ Miss(w, o) \/ AfterMiss(w, o) \/ Finish(w, o) \/ AdoptTurn(w, o)
             \/ Schedule(w, o) \/ Heartbeat(w, o) \/ AppFails(w, o)
             \/ RequestRefused(w, o) \/ RequestTimesOut(w, o) \/ HandleError(w, o)
    BY <1>a, <2>8, EdgesKeepLedger DEF LedgerFrame
  <2> QED
    BY <1>2, <2>1, <2>2, <2>3, <2>4, <2>5, <2>6, <2>7, <2>8 DEF Attempt
<1>3. ASSUME NEW o \in Ops, RowStep(o)
      PROVE  LedgerInv' /\ [Ledger!Next]_<<made, threadId, turnId, delivered>>
  <2>1. CASE \E k \in Kinds : Submit(o, k)
    BY <1>a, <2>1, SubmitKeepsLedger DEF Ledger!Next
  <2>2. CASE ~\E k \in Kinds : Submit(o, k)
    BY <1>3, <1>a, <2>2, RowFramesLedger DEF RowStep, LedgerFrame
  <2> QED
    BY <2>1, <2>2
<1>4. ASSUME NEW w \in Workers, ProcessStep(w)
      PROVE  LedgerInv' /\ [Ledger!Next]_<<made, threadId, turnId, delivered>>
  BY <1>4, <1>a, ProcessFramesLedger DEF LedgerFrame
<1> QED
  BY <1>1, <1>2, <1>3, <1>4 DEF Next

\* The queue starts where the ledger starts.
LEMMA InitLedger == Init => LedgerInv /\ Ledger!Init
<1> SUFFICES ASSUME Init PROVE LedgerInv /\ Ledger!Init
  OBVIOUS
<1>1. ASSUME NEW o \in Ops PROVE LedgerRow(o)
  <2>1. /\ kind[o] = "none" /\ turns[o] = <<>> /\ ~delivered[o] /\ ~threadId[o] /\ ~attempted[o]
        /\ \A e \in Effects : made[o][e] = 0
    BY DEF Init
  <2> QED
    BY <2>1 DEF LedgerRow, Effects, Requests
<1>2. ASSUME NEW w \in Workers, NEW o \in Ops PROVE LedgerTask(w, o)
  <2>1. pc[w][o] = "idle"
    BY DEF Init
  <2> QED
    BY <2>1 DEF LedgerTask, Busy, Requests
<1>3. Ledger!Init
  BY DEF Init, Ledger!Init
<1> QED
  BY <1>1, <1>2, <1>3, InitExclusion, InitEvidence DEF LedgerInv

\* The durable queue keeps the ledger: nothing the row records is asked for again,
\* a fork and a review are never asked for twice, only what was executed is
\* recorded, and a recorded turn is never replaced.
THEOREM QueueImplementsLedger == ASSUME Calm PROVE Spec => ImplementsLedger
<1>1. Init => LedgerInv /\ Ledger!Init
  BY InitLedger
<1>2. LedgerInv /\ [Next]_vars => LedgerInv' /\ [Ledger!Next]_(Ledger!vars)
  BY NextKeepsLedger DEF Ledger!vars
<1> QED
  BY <1>1, <1>2, PTL DEF Spec, ImplementsLedger, Ledger!Spec

-----------------------------------------------------------------------------
(* One process at a time: what is over stays over.                         *)

\* One process at a time.
Lone == Calm /\ MaxLive = 1

\* The invariant of one process at a time.
LoneInv ==
  /\ LedgerInv
  /\ TerminalMeansIdle
  /\ \A v, w \in Live : v = w

\* An operation that ended without a turn.
Over(o) == Terminal(o) /\ turnId[o] = 0

\* It keeps its status and gets no turn.
StaysOver(o) == Over(o) => status'[o] = status[o] /\ turnId'[o] = 0

\* Whoever executes an operation, it is not over.
StillOpen(w, o) ==
  pc'[w][o] \in Busy =>
    \/ ~Terminal(o)' \/ turnId'[o] # 0
    \/ pc[w][o] \in Busy /\ status'[o] = status[o] /\ turnId'[o] = turnId[o]

\* Steps in which nobody executes what is over keep the invariant.
LEMMA OpenKeepsLone ==
  ASSUME LoneInv, LedgerInv', \A v, w \in Live' : v = w,
         \A w \in Workers, o \in Ops : StillOpen(w, o)
  PROVE  LoneInv'
<1>1. TerminalMeansIdle'
  BY DEF LoneInv, TerminalMeansIdle, StillOpen, Terminal, Executing
<1> QED
  BY <1>1 DEF LoneInv

\* Only a process that lives executes, and there is one.
LEMMA LoneExecutes ==
  ASSUME LoneInv
  PROVE  /\ \A v, w \in Workers, o \in Ops : Executing(v, o) /\ proc[w] = "up" => v = w
         /\ \A w \in Workers, o \in Ops : Executing(w, o) => w \in Live /\ ~Over(o)
<1>1. \A v \in Workers, o \in Ops : Executing(v, o) => proc[v] = "up"
  BY DEF LoneInv, LedgerInv, ExclusionInv, Quiet, Executing, Busy, Requests
<1> QED
  BY <1>1 DEF LoneInv, Live, TerminalMeansIdle, Over

\* Every step of an attempt does.
LEMMA AttemptKeepsLone ==
  ASSUME LoneInv, LedgerInv', NEW w \in Workers, NEW o \in Ops, Attempt(w, o)
  PROVE  LoneInv' /\ \A q \in Ops : StaysOver(q)
<1>a. TypeOK /\ TypeOK'
  BY DEF LoneInv, LedgerInv, EvidenceInv
<1>b. Local(w, o)
  BY <1>a, AttemptIsLocal
<1>c. \A v, x \in Live' : v = x
  BY <1>b DEF LoneInv, Live, Local, life
<1>d. \A q \in Ops \ {o} : StaysOver(q)
  BY <1>b DEF Local, OnlyRow, StaysOver, Over
<1>e. Executing(w, o) => \A v \in Workers \ {w} : pc'[v][o] \notin Busy
  BY <1>b DEF Local, OnlyTask, LoneInv, LedgerInv, ExclusionInv, LeaseExclusion, Executing
<1>f. ASSUME NEW v \in Workers, NEW q \in Ops \ {o} PROVE StillOpen(v, q)
  BY <1>b DEF Local, OnlyRow, OnlyTask, StillOpen
<1>0. ASSUME Executing(w, o), pc'[w][o] \in Busy => status'[o] \notin TERMINAL \/ status'[o] = status[o],
             pc'[w][o] \in Busy => turnId' = turnId
      PROVE  LoneInv' /\ \A q \in Ops : StaysOver(q)
  <2>1. ~Over(o)
    BY <1>0, LoneExecutes
  <2>2. StillOpen(w, o)
    BY <1>0 DEF StillOpen, Terminal, Executing
  <2>3. \A v \in Workers, q \in Ops : StillOpen(v, q)
    BY <1>0, <1>e, <1>f, <2>2 DEF StillOpen
  <2> QED
    BY <1>c, <1>d, <2>1, <2>3, OpenKeepsLone DEF LoneInv, StaysOver
<1>1. ASSUME ~Executing(w, o), pc'[w][o] \notin Busy, turnId' = turnId,
             \/ status'[o] = status[o]
             \/ Startable(o) /\ proc[w] = "up"
      PROVE  LoneInv' /\ \A q \in Ops : StaysOver(q)
  <2>1. \A v \in Workers : pc'[v][o] \in Busy => pc[v][o] \in Busy /\ proc[w] # "up"
    BY <1>1, <1>b, LoneExecutes DEF Local, OnlyTask, Executing
  <2>2. \A v \in Workers : StillOpen(v, o)
    BY <1>1, <2>1 DEF StillOpen
  <2>3. StaysOver(o)
    BY <1>1 DEF StaysOver, Over, Terminal, TERMINAL, Startable, STARTABLE
  <2> QED
    BY <1>c, <1>d, <1>f, <2>2, <2>3, OpenKeepsLone DEF LoneInv
<1>up. pc[w][o] # "idle" => proc[w] = "up"
  BY DEF LoneInv, LedgerInv, ExclusionInv, Quiet
<1> {"idle", "missed", "spawned", "fin"} \cap Busy = {}
  BY DEF Busy, Requests
<1>2. CASE Acquire(w, o)
  <2>1. Startable(o) /\ UNCHANGED <<status, turnId>> /\ Goto(w, o, "leased")
    BY <1>2 DEF Acquire, MayAcquire
  <2>2. ~Terminal(o)' /\ StaysOver(o)
    BY <2>1 DEF Startable, STARTABLE, Terminal, TERMINAL, StaysOver, Over
  <2>3. \A v \in Workers, q \in Ops : StillOpen(v, q)
    BY <1>f, <2>2 DEF StillOpen
  <2> QED
    BY <1>c, <1>d, <2>2, <2>3, OpenKeepsLone
<1>3. CASE Miss(w, o) \/ Finish(w, o)
  <2>1. pc'[w][o] \notin Busy /\ ~Executing(w, o) /\ UNCHANGED <<status, turnId>>
    BY <1>3, <1>a DEF Miss, Finish, Goto, Executing, row, TypeOK, ProcessTypes
  <2> QED
    BY <1>1, <2>1
<1>4. CASE AfterMiss(w, o)
  <2>1. pc'[w][o] \notin Busy /\ ~Executing(w, o) /\ UNCHANGED turnId /\ pc[w][o] # "idle"
    BY <1>4, <1>a DEF AfterMiss, Goto, Executing, TypeOK, ProcessTypes
  <2>2. status' = status \/ Startable(o)
    BY <1>4 DEF AfterMiss, MustFail
  <2> QED
    BY <1>1, <1>up, <2>1, <2>2
<1>5. CASE ServerExecutes(w, o) \/ RequestRefused(w, o) \/ RequestTimesOut(w, o) \/ AppFails(w, o)
           \/ TurnReply(w, o)
  <2>1. Executing(w, o) /\ UNCHANGED <<status, turnId>>
    BY <1>5 DEF ServerExecutes, RequestRefused, RequestTimesOut, AppFails, TurnReply,
                Executing, Busy, Requests, row
  <2> QED
    BY <1>0, <2>1
<1>6. CASE AdoptTurn(w, o) \/ PersistTurn(w, o) \/ SteerReply(w, o) \/ HandleError(w, o)
  <2>1. Executing(w, o) /\ (Goto(w, o, "fin") \/ Goto(w, o, "idle"))
    BY <1>6 DEF AdoptTurn, PersistTurn, SteerReply, HandleError, Executing, Busy, Requests
  <2>2. pc'[w][o] \notin Busy
    BY <1>a, <2>1 DEF Goto, TypeOK, ProcessTypes
  <2> QED
    BY <1>0, <2>1, <2>2
<1>7. CASE BeginAttempt(w, o)
  <2>1. Executing(w, o) /\ turnId' = turnId
    BY <1>7 DEF BeginAttempt, MarkUnknown, Executing, Busy
  <2>2. pc'[w][o] = "fin" \/ status'[o] = "starting_app_server"
    BY <1>7, <1>a DEF BeginAttempt, MarkUnknown, SetStatus, Goto, TypeOK, RowTypes, ProcessTypes
  <2> QED
    BY <1>0, <2>1, <2>2 DEF TERMINAL
<1>8. ASSUME NEW r, NEW s \in STARTABLE, Request(w, o, r, s) \/ Resume(w, o, s) \/ Raise(w, o, s),
             turnId' = turnId, pc[w][o] \in Busy
      PROVE  LoneInv' /\ \A q \in Ops : StaysOver(q)
  <2>1. status'[o] = s
    BY <1>8, <1>a DEF Request, Resume, Raise, SetStatus, TypeOK, RowTypes
  <2> QED
    BY <1>0, <1>8, <2>1 DEF Executing, STARTABLE, TERMINAL
<1> {"starting_app_server", "starting_thread", "starting_review", "starting_turn"} \subseteq STARTABLE
  BY DEF STARTABLE
<1> {"app", "thread", "fork", "resume"} \subseteq Busy
  BY DEF Busy, Requests
<1>9. CASE StartSteer(w, o) \/ StartThread(w, o) \/ StartFork(w, o)
  BY <1>8, <1>9 DEF StartSteer, StartThread, StartFork, AppIsReady
<1>10. CASE StartReview(w, o) \/ StartMessage(w, o)
  BY <1>8, <1>10 DEF StartReview, StartMessage, AppIsReady
<1>11. CASE ThreadReply(w, o) \/ ResumeReply(w, o)
  BY <1>8, <1>11 DEF ThreadReply, ResumeReply
<1>12. CASE ForkReply(w, o)
  <2>1. turnId' = turnId /\ pc[w][o] \in Busy
    BY <1>12 DEF ForkReply
  <2>2. CASE kind[o] = "fork"
    <3>1. pc'[w][o] = "fin"
      BY <1>12, <1>a, <2>2 DEF ForkReply, Goto, TypeOK, ProcessTypes
    <3> QED
      BY <1>0, <2>1, <3>1 DEF Executing
  <2>3. CASE kind[o] # "fork"
    <3>1. Resume(w, o, "starting_turn")
      BY <1>12, <2>3 DEF ForkReply
    <3> QED
      BY <1>8, <2>1, <3>1
  <2> QED
    BY <2>2, <2>3
<1> QED
  BY <1>2, <1>3, <1>4, <1>5, <1>6, <1>7, <1>9, <1>10, <1>11, <1>12 DEF Attempt

\* Steps that move no task into an attempt.
LEMMA AsideKeepsLone ==
  ASSUME LoneInv, LedgerInv', UNCHANGED <<turnId, proc>>,
         \A v \in Workers, q \in Ops : pc'[v][q] \in Busy => pc'[v][q] = pc[v][q],
         \A q \in Ops : \/ status'[q] = status[q]
                        \/ /\ ~Over(q)
                           /\ \A v \in Workers : pc[v][q] \in Busy => ~Terminal(q)' \/ turnId[q] # 0
  PROVE  LoneInv' /\ \A q \in Ops : StaysOver(q)
<1>1. \A v, x \in Live' : v = x
  BY DEF LoneInv, Live
<1>2. \A v \in Workers, q \in Ops : StillOpen(v, q)
  BY DEF StillOpen
<1>3. \A q \in Ops : StaysOver(q)
  BY DEF StaysOver, Over
<1> QED
  BY <1>1, <1>2, <1>3, OpenKeepsLone

\* Scheduling, and the rows' own steps.
LEMMA ScheduleKeepsLone ==
  ASSUME LoneInv, LedgerInv', NEW w \in Workers, NEW o \in Ops,
         Schedule(w, o) \/ Heartbeat(w, o)
  PROVE  LoneInv' /\ \A q \in Ops : StaysOver(q)
<1>a. TypeOK
  BY DEF LoneInv, LedgerInv, EvidenceInv
<1> "spawned" \notin Busy
  BY DEF Busy, Requests
<1>1. CASE ScheduleListed(w, o) \/ SchedulePolled(w, o)
  <2>1. Goto(w, o, "spawned") /\ UNCHANGED <<turnId, proc, status>>
    BY <1>1 DEF ScheduleListed, SchedulePolled, row, life
  <2> QED
    BY AsideKeepsLone, <1>a, <2>1 DEF Goto, TypeOK, ProcessTypes
<1>2. CASE FailPolled(w, o)
  <2>1. /\ UNCHANGED <<turnId, proc, pc>> /\ Startable(o)
        /\ proc[w] = "up" /\ pc[w][o] = "idle"
    BY <1>2 DEF FailPolled, MustFail, MaySchedule, life, task
  <2>2. \A q \in Ops \ {o} : status'[q] = status[q]
    BY <1>2, <1>a DEF FailPolled, FailRow, SetStatus, TypeOK, RowTypes
  <2>3. \A v \in Workers : pc[v][o] \notin Busy
    BY <2>1, LoneExecutes DEF Executing, Busy, Requests
  <2> QED
    BY AsideKeepsLone, <2>1, <2>2, <2>3 DEF Over, Terminal, TERMINAL, Startable, STARTABLE
<1>3. CASE Heartbeat(w, o)
  BY AsideKeepsLone, <1>3 DEF Heartbeat, task, life
<1> QED
  BY <1>1, <1>2, <1>3 DEF Schedule

\* So do the steps for a row.
LEMMA RowKeepsLone ==
  ASSUME LoneInv, LedgerInv', NEW o \in Ops, RowStep(o)
  PROVE  LoneInv' /\ \A q \in Ops : StaysOver(q)
<1>a. TypeOK /\ RowEvidence(o)
  BY DEF LoneInv, LedgerInv, EvidenceInv
<1>3. CASE ExpireDead(o) \/ ExpireStalled(o) \/ BackoffElapses(o)
  BY AsideKeepsLone, <1>3 DEF ExpireDead, ExpireStalled, BackoffElapses, task, life
<1>4. ASSUME NEW k \in Kinds, Submit(o, k) PROVE LoneInv' /\ \A q \in Ops : StaysOver(q)
  <2>1. /\ UNCHANGED <<status, task, proc>> /\ status[o] = "queued"
        /\ \A q \in Ops \ {o} : turnId'[q] = turnId[q]
    BY <1>4, <1>a DEF Submit, RowEvidence, TypeOK, RowTypes, life
  <2>2. \A v, x \in Live' : v = x
    BY <2>1 DEF LoneInv, Live
  <2>3. \A v \in Workers, q \in Ops : StillOpen(v, q)
    BY <2>1 DEF StillOpen, task, Terminal, TERMINAL
  <2>4. \A q \in Ops : StaysOver(q)
    BY <2>1 DEF StaysOver, Over, Terminal, TERMINAL
  <2> QED
    BY <2>2, <2>3, <2>4, OpenKeepsLone
<1>5. CASE \E k \in 1..Len(turns[o]) :
             TurnEvent(o, k) \/ \E s \in {"completed", "failed"} : TurnEnds(o, k, s)
  BY AsideKeepsLone, <1>5 DEF TurnEvent, TurnEnds, row, task, life
<1>6. CASE Reconcile(o)
  <2>1. UNCHANGED <<turnId, proc, pc>> /\ turnId[o] # 0
    BY <1>6 DEF Reconcile, life, task
  <2>2. \A q \in Ops \ {o} : status'[q] = status[q]
    BY <1>6, <1>a DEF Reconcile, SetStatus, TypeOK, RowTypes
  <2> QED
    BY AsideKeepsLone, <2>1, <2>2 DEF Over
<1>7. CASE RepairStale(o)
  <2>1. UNCHANGED <<turnId, proc, pc>> /\ Startable(o)
    BY <1>7 DEF RepairStale, Stale, life, task
  <2>2. /\ \A q \in Ops \ {o} : status'[q] = status[q]
        /\ status'[o] \in {"running", "queued"}
    BY <1>7, <1>a DEF RepairStale, SetStatus, TypeOK, RowTypes
  <2> QED
    BY AsideKeepsLone, <2>1, <2>2 DEF Over, Terminal, TERMINAL, Startable, STARTABLE
<1> QED
  BY <1>3, <1>4, <1>5, <1>6, <1>7 DEF RowStep

\* So does the life of a process.
LEMMA ProcessKeepsLone ==
  ASSUME Lone, LoneInv, LedgerInv', NEW w \in Workers, ProcessStep(w)
  PROVE  LoneInv' /\ \A q \in Ops : StaysOver(q)
<1>a. TypeOK
  BY DEF LoneInv, LedgerInv, EvidenceInv
<1> "idle" \notin Busy /\ "lost" \in Busy /\ Requests \subseteq Busy /\ "app" \in Busy
  BY DEF Busy, Requests
<1>1. CASE StartAndRecover(w)
  <2>1. Live = {}
    <3>1. Live \subseteq Workers
      BY DEF Live
    <3>2. IsFiniteSet(Live) /\ Cardinality(Live) \in Nat
      BY <3>1, FS_Subset, FS_CardinalityType, ConstantsAssumption
    <3>3. Cardinality(Live) = 0
      BY <1>1, <3>2 DEF StartAndRecover, RoomToStart, Lone
    <3> QED
      BY <3>2, <3>3, FS_EmptySet
  <2>2. \A v, x \in Live' : v = x
    BY <1>1, <1>a, <2>1 DEF StartAndRecover, Live, TypeOK, ProcessTypes
  <2>3. UNCHANGED <<turnId, pc>>
    BY <1>1 DEF StartAndRecover, Recover, task
  <2>4. \A v \in Workers, q \in Ops : pc[v][q] \notin Busy
    BY <2>1, LoneExecutes DEF Executing
  <2>5. \A q \in Ops : status'[q] = status[q] \/ Startable(q)
    <3>1. RecoveryMove(RecoverableRows)
      BY <1>1, RecoverMoves DEF StartAndRecover
    <3>2. \A r \in RecoverableRows : Startable(r.op)
      BY DEF RecoverableRows
    <3> QED
      BY <3>1, <3>2 DEF RecoveryMove
  <2>6. \A q \in Ops : StaysOver(q)
    BY <2>3, <2>5 DEF StaysOver, Over, Terminal, TERMINAL, Startable, STARTABLE
  <2> QED
    BY <2>2, <2>3, <2>4, <2>6, OpenKeepsLone DEF StillOpen
<1>2. CASE RecoverScan(w) \/ RecoverApply(w)
  BY <1>2 DEF RecoverScan, RecoverApply, Lone, Calm, LoneInv, LedgerInv, ExclusionInv, Quiet
<1>3. CASE ServerExit(w)
  <2>1. \A v \in Workers, q \in Ops : pc'[v][q] \in Busy => pc[v][q] \in Busy
    BY <1>3, <1>a DEF ServerExit, TypeOK, ProcessTypes
  <2>2. UNCHANGED <<status, turnId, proc>>
    BY <1>3 DEF ServerExit, row, life
  <2> QED
    BY <2>1, <2>2, OpenKeepsLone DEF LoneInv, Live, StillOpen, StaysOver, Over
<1>4. ASSUME Stop(w)
      PROVE  /\ \A q \in Ops : pc'[w][q] = "idle"
             /\ \A v \in Workers \ {w}, q \in Ops : pc'[v][q] = pc[v][q]
             /\ \A v, x \in Live' : v = x
  <2>1. Live' \subseteq Live
    BY <1>4, <1>a DEF Stop, Live, TypeOK, ProcessTypes
  <2> QED
    BY <1>4, <1>a, <2>1 DEF Stop, TypeOK, ProcessTypes, LoneInv
<1>5. CASE Crash(w)
  <2>1. Stop(w) /\ UNCHANGED <<status, turnId>>
    BY <1>5 DEF Crash, row
  <2> QED
    BY <1>4, <2>1, OpenKeepsLone DEF StillOpen, StaysOver, Over
<1>6. CASE Shutdown(w)
  <2>1. Stop(w) /\ UNCHANGED turnId /\ proc[w] = "up"
    BY <1>6 DEF Shutdown
  <2>2. \A q \in Ops : status'[q] = status[q] \/ pc[w][q] \in {"app"} \cup Requests
    BY <1>6 DEF Shutdown
  <2>3. \A v \in Workers, q \in Ops : pc'[v][q] \notin Busy
    BY <1>4, <2>1, LoneExecutes DEF Executing
  <2>4. \A q \in Ops : StaysOver(q)
    BY <2>1, <2>2, LoneExecutes DEF StaysOver, Executing, Over
  <2> QED
    BY <1>4, <2>1, <2>3, <2>4, OpenKeepsLone DEF StillOpen
<1> QED
  BY <1>1, <1>2, <1>3, <1>5, <1>6 DEF ProcessStep

\* So does every step.
LEMMA NextKeepsLone ==
  ASSUME Lone, LoneInv, [Next]_vars
  PROVE  LoneInv' /\ \A q \in Ops : StaysOver(q)
<1>a. LedgerInv'
  BY NextKeepsLedger DEF Lone, LoneInv
<1>1. CASE UNCHANGED vars
  <2>1. UNCHANGED <<pc, status, turnId, proc>>
    BY <1>1 DEF vars, row, task, life
  <2> QED
    BY <1>a, <2>1, OpenKeepsLone DEF LoneInv, Live, StillOpen, StaysOver, Over
<1> QED
  BY <1>1, <1>a, AttemptKeepsLone, ScheduleKeepsLone, RowKeepsLone, ProcessKeepsLone DEF Next

\* No process lives at the start.
LEMMA InitLone == Init => LoneInv
<1> SUFFICES ASSUME Init PROVE LoneInv
  OBVIOUS
<1>1. TerminalMeansIdle
  BY DEF Init, TerminalMeansIdle, Terminal, TERMINAL
<1>2. Live = {}
  BY DEF Init, Live
<1> QED
  BY <1>1, <1>2, InitLedger DEF LoneInv

\* With one process at a time, nobody executes an operation that is over.
THEOREM LoneQueueIdles == ASSUME Lone PROVE Spec => []TerminalMeansIdle
<1>1. LoneInv => TerminalMeansIdle
  BY DEF LoneInv
<1>2. LoneInv /\ [Next]_vars => LoneInv'
  BY NextKeepsLone
<1> QED
  BY <1>1, <1>2, InitLone, PTL DEF Spec

\* With one process at a time, an operation that ended without a turn is over for
\* good: no recovery, repair, poll or late answer brings it back.
THEOREM LoneQueueEnds == ASSUME Lone PROVE Spec => EndedStaysEnded
<1>1. LoneInv /\ [Next]_vars => LoneInv' /\ \A o \in Ops : StaysOver(o)
  BY NextKeepsLone
<1>2. LoneInv /\ [Next]_vars =>
        [\A o \in Ops : Terminal(o) /\ turnId[o] = 0
           => status'[o] = status[o] /\ turnId'[o] = 0]_vars
  BY <1>1 DEF StaysOver, Over
<1> QED
  BY <1>1, <1>2, InitLone, PTL DEF Spec, EndedStaysEnded
=============================================================================

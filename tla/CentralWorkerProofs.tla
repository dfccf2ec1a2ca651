-------------------------- MODULE CentralWorkerProofs --------------------------
(***************************************************************************)
(* Write locks exclude and limits hold: whatever passes, polls, retries,   *)
(* crashes and restarts do, an operation that is attempted or whose turn   *)
(* runs holds the write locks it asked for and is counted as active.       *)
(***************************************************************************)
EXTENDS CentralWorker, FiniteSetTheorems, TLAPS

\* A pass lists operations that wait, and nothing of the worker runs until it
\* is over.
PassInv ==
  /\ loop = "idle" => todo = {}
  /\ \A o \in todo : status[o] \in STARTABLE /\ ~Spent(o)
  /\ loop = "claim" =>
       /\ chosen \in Operations
       /\ task[chosen] = "none" /\ status[chosen] \in STARTABLE /\ ~Spent(chosen)

\* Where the task stands and what the row says.
PlaceInv(o) ==
  /\ status[o] \in STARTABLE \cup {"none"} => turn[o] = "none"
  /\ turn[o] = "active" => status[o] = "running"
  /\ task[o] \in {"spawned", "acting"} => status[o] \in STARTABLE
  /\ task[o] = "spawned" => ~Spent(o)

\* Why RunningHoldsItsLocks holds: from the claim to the end of the turn.
Works(o) == task[o] \in {"spawned", "acting"} \/ turn[o] = "active"
HoldsWriteLocks(o) ==
  ask[o].slot /\ Works(o) => \A k \in WriteLocks(o) : locks[k] = o

WorkerInv ==
  /\ TypeOK
  /\ PassInv
  /\ \A o \in Operations : PlaceInv(o)
  /\ \A o \in Operations : HoldsWriteLocks(o)

-----------------------------------------------------------------------------

LEMMA WriteLocksAreKeys ==
  ASSUME TypeOK, NEW o \in Operations
  PROVE  WriteLocks(o) \subseteq LockKeys /\ Wanted(o) \subseteq LockKeys
<1>1. ask[o] \in Requests
  BY DEF TypeOK
<1>2. ask[o].project \in Projects
  BY <1>1 DEF Projects
<1>3. ask[o].keys \subseteq UNION {r.keys : r \in Requests}
  BY <1>1
<1>4. WriteLocks(o) \subseteq LockKeys
  BY <1>2, <1>3 DEF WriteLocks, LockKeys
<1>5. ThreadLock(thread[o]) \subseteq LockKeys
  BY DEF TypeOK, ThreadLock, LockKeys
<1> QED
  BY <1>4, <1>5 DEF Wanted

\* Dropping the locks of some operations, as every release does.
LEMMA DroppingLocks ==
  ASSUME TypeOK, NEW S
  PROVE  /\ WithoutLocksOf(S) \in [LockKeys -> Operations \cup {None}]
         /\ \A k \in LockKeys : locks[k] \notin S => WithoutLocksOf(S)[k] = locks[k]
         /\ \A k \in LockKeys : locks[k] \in S => WithoutLocksOf(S)[k] = None
BY DEF TypeOK, WithoutLocksOf

\* Whoever works afterwards worked before and kept its locks.
LEMMA KeepsLocks ==
  ASSUME WorkerInv, ask' = ask,
         \A o \in Operations : ask[o].slot /\ Works(o)' =>
           Works(o) /\ \A k \in LockKeys : locks[k] = o => locks'[k] = o
  PROVE  \A o \in Operations : HoldsWriteLocks(o)'
<1> SUFFICES ASSUME NEW o \in Operations, ask[o].slot, Works(o)', NEW k \in WriteLocks(o)
             PROVE  locks'[k] = o
  BY DEF HoldsWriteLocks, WriteLocks
<1>1. Works(o) /\ HoldsWriteLocks(o) /\ k \in LockKeys
  BY WriteLocksAreKeys DEF WorkerInv
<1> QED
  BY <1>1 DEF HoldsWriteLocks

-----------------------------------------------------------------------------
(* A pass.                                                                 *)

LEMMA CleanUpKeeps ==
  ASSUME WorkerInv, NEW S, CleanUp(S), UNCHANGED <<row, task>>
  PROVE  /\ sched' \in [Operations -> QueueStatuses]
         /\ locks' \in [LockKeys -> Operations \cup {None}]
         /\ \A o \in Operations : HoldsWriteLocks(o)'
<1>1. sched' \in [Operations -> QueueStatuses]
  BY DEF WorkerInv, TypeOK, CleanUp, QueueStatuses
<1>2. locks' \in [LockKeys -> Operations \cup {None}]
  BY DroppingLocks DEF WorkerInv, CleanUp
<1>3. ASSUME NEW o \in Operations, ask[o].slot, Works(o)'
      PROVE  Works(o) /\ ~Releasable(o)
  BY <1>3 DEF WorkerInv, PlaceInv, Works, Releasable, row, STARTABLE
<1>4. \A o \in Operations : HoldsWriteLocks(o)'
  BY <1>3, KeepsLocks, DroppingLocks DEF WorkerInv, CleanUp, row
<1> QED
  BY <1>1, <1>2, <1>4

LEMMA BeginPassKeeps == ASSUME WorkerInv, BeginPass PROVE WorkerInv'
<1> USE DEF BeginPass, row
<1>1. CASE Startable = {} \/ Pending >= MaxPending
  <2>1. /\ sched' \in [Operations -> QueueStatuses]
        /\ locks' \in [LockKeys -> Operations \cup {None}]
        /\ \A o \in Operations : HoldsWriteLocks(o)'
    BY <1>1, CleanUpKeeps
  <2> QED
    BY <1>1, <2>1 DEF WorkerInv, TypeOK, PassInv, PlaceInv, Spent
<1>2. CASE ~(Startable = {} \/ Pending >= MaxPending)
  <2>1. loop' = "pass" /\ todo' = Startable /\ UNCHANGED <<sched, locks>>
    BY <1>2
  <2>2. \A o \in Operations : HoldsWriteLocks(o)'
    BY <2>1, KeepsLocks DEF Works
  <2> QED
    BY <2>1, <2>2 DEF WorkerInv, TypeOK, PassInv, PlaceInv, Spent, Startable
<1> QED
  BY <1>1, <1>2

LEMMA ConsiderKeeps ==
  ASSUME WorkerInv, NEW o \in Operations, Consider(o) PROVE WorkerInv'
<1> USE DEF Consider, row
<1>1. sched' \in [Operations -> QueueStatuses]
  BY DEF WorkerInv, TypeOK, QueueStatuses
<1>2. \A p \in Operations : HoldsWriteLocks(p)'
  BY KeepsLocks DEF Works
<1> QED
  BY <1>1, <1>2 DEF WorkerInv, TypeOK, PassInv, PlaceInv, Spent

LEMMA ClaimKeeps == ASSUME WorkerInv, Claim PROVE WorkerInv'
<1> DEFINE o == chosen
<1>1. o \in Operations /\ task[o] = "none" /\ status[o] \in STARTABLE /\ ~Spent(o)
  BY DEF Claim, WorkerInv, PassInv
<1>2. turn[o] # "active" /\ ~Works(o)
  BY <1>1 DEF WorkerInv, PlaceInv, Works, STARTABLE
<1>3. CASE Available(o)
  <2>1. /\ ClaimOver(o)
        /\ sched' = [sched EXCEPT ![o] = "scheduled"]
        /\ task' = [task EXCEPT ![o] = "spawned"]
        /\ loop' = "pass" /\ todo' = todo /\ chosen' = None
        /\ UNCHANGED <<ask, status, thread, turn, attempts, backoff, lease, up, starts, planting>>
    BY <1>3 DEF Claim, row
  <2>2. \A k \in LockKeys : locks'[k] = IF k \in Wanted(o) THEN o
                                       ELSE WithoutLocksOf({o})[k]
    BY <2>1 DEF ClaimOver
  <2>3. locks' \in [LockKeys -> Operations \cup {None}]
    BY <1>1, <2>1, DroppingLocks DEF ClaimOver, WorkerInv
  <2>4. TypeOK'
    BY <1>1, <2>1, <2>3 DEF WorkerInv, TypeOK, QueueStatuses, Places
  <2>5. ASSUME NEW p \in Operations, ask[p].slot, Works(p)', NEW k \in WriteLocks(p)
        PROVE  locks'[k] = p
    <3>1. k \in LockKeys
      BY WriteLocksAreKeys DEF WorkerInv
    <3>2. CASE p = o
      BY <2>2, <2>5, <3>1, <3>2 DEF Wanted
    <3>3. CASE p # o
      <4>1. Works(p)
        BY <1>1, <2>1, <2>5, <3>3 DEF Works, WorkerInv, TypeOK
      <4>2. locks[k] = p
        BY <2>5, <4>1 DEF WorkerInv, HoldsWriteLocks
      <4>3. k \notin Wanted(o)
        BY <1>3, <3>3, <4>2, NoneAssumption DEF Available
      <4> QED
        BY <2>2, <3>1, <3>3, <4>2, <4>3, DroppingLocks DEF WorkerInv
    <3> QED
      BY <3>2, <3>3
  <2>6. \A p \in Operations : HoldsWriteLocks(p)'
    BY <2>1, <2>5 DEF HoldsWriteLocks, WriteLocks
  <2>7. PassInv'
    BY <2>1 DEF WorkerInv, TypeOK, PassInv, Spent, Claim
  <2>8. \A p \in Operations : PlaceInv(p)'
    BY <1>1, <2>1 DEF WorkerInv, TypeOK, PlaceInv, Spent
  <2> QED
    BY <2>4, <2>6, <2>7, <2>8 DEF WorkerInv
<1>4. CASE ~Available(o)
  <2>1. /\ locks' = WithoutLocksOf({o})
        /\ loop' = "idle" /\ todo' = {} /\ chosen' = None
        /\ UNCHANGED <<ask, status, thread, turn, attempts, backoff, lease, sched, task, up, starts, planting>>
    BY <1>4 DEF Claim, row
  <2>2. locks' \in [LockKeys -> Operations \cup {None}]
    BY <2>1, DroppingLocks DEF WorkerInv
  <2>3. \A p \in Operations : HoldsWriteLocks(p)'
    <3>1. \A p \in Operations : Works(p)' => Works(p) /\ p # o
      BY <1>2, <2>1 DEF Works
    <3>2. \A p \in Operations \ {o} : \A k \in LockKeys : locks[k] = p => locks'[k] = p
      BY <2>1, DroppingLocks DEF WorkerInv
    <3> QED
      BY <2>1, <3>1, <3>2, KeepsLocks
  <2> QED
    BY <2>1, <2>2, <2>3 DEF WorkerInv, TypeOK, PassInv, PlaceInv, Spent
<1> QED
  BY <1>3, <1>4

LEMMA EndPassKeeps == ASSUME WorkerInv, EndPass PROVE WorkerInv'
<1>1. /\ sched' \in [Operations -> QueueStatuses]
      /\ locks' \in [LockKeys -> Operations \cup {None}]
      /\ \A o \in Operations : HoldsWriteLocks(o)'
  BY CleanUpKeeps DEF EndPass
<1> QED
  BY <1>1 DEF WorkerInv, TypeOK, PassInv, PlaceInv, Spent, EndPass, row

-----------------------------------------------------------------------------
(* Tasks.                                                                  *)

\* A step outside the loop leaves the pass alone.
LEMMA KeepsPass ==
  ASSUME WorkerInv, UNCHANGED <<loop, todo, chosen>>,
         \/ loop = "idle"
         \/ UNCHANGED <<status, attempts, task>>
  PROVE  PassInv'
BY DEF WorkerInv, PassInv, Spent

LEMMA AcquireKeeps ==
  ASSUME WorkerInv, NEW o \in Operations, Acquire(o) PROVE WorkerInv'
<1> USE DEF Acquire, Runs, Goto, worker
<1>1. ~Spent(o) /\ task[o] = "spawned" /\ loop = "idle"
  BY DEF WorkerInv, PlaceInv
<1>2. attempts[o] + 1 \in 0..MaxAttempts
  BY <1>1, LimitsAssumption DEF WorkerInv, TypeOK, Spent
<1>3. TypeOK'
  BY <1>2 DEF WorkerInv, TypeOK, Leases, Statuses, STARTABLE, Places
<1>4. PassInv'
  BY <1>1, KeepsPass
<1>5. \A p \in Operations : PlaceInv(p)'
  BY <1>1 DEF WorkerInv, TypeOK, PlaceInv, Spent, STARTABLE
<1>6. \A p \in Operations : HoldsWriteLocks(p)'
  BY <1>1, KeepsLocks DEF Works, WorkerInv, TypeOK
<1> QED
  BY <1>3, <1>4, <1>5, <1>6 DEF WorkerInv

LEMMA LearnThreadKeeps ==
  ASSUME WorkerInv, NEW o \in Operations, LearnThread(o) PROVE WorkerInv'
<1> USE DEF LearnThread, Runs, worker
<1>1. TypeOK'
  BY DEF WorkerInv, TypeOK
<1>2. \A p \in Operations : HoldsWriteLocks(p)'
  BY KeepsLocks DEF Works
<1> QED
  BY <1>1, <1>2 DEF WorkerInv, PassInv, PlaceInv, Spent

LEMMA TurnStartsKeeps ==
  ASSUME WorkerInv, NEW o \in Operations, TurnStarts(o) PROVE WorkerInv'
<1> USE DEF TurnStarts, Runs, Goto, worker
<1>1. TypeOK'
  BY DEF WorkerInv, TypeOK, Leases, Statuses, Places
<1>2. PassInv'
  BY KeepsPass
<1>3. \A p \in Operations : PlaceInv(p)'
  BY DEF WorkerInv, TypeOK, PlaceInv, Spent, STARTABLE
<1>4. \A p \in Operations : HoldsWriteLocks(p)'
  BY KeepsLocks DEF Works, WorkerInv, TypeOK
<1> QED
  BY <1>1, <1>2, <1>3, <1>4 DEF WorkerInv

LEMMA ControlDoneKeeps ==
  ASSUME WorkerInv, NEW o \in Operations, ControlDone(o) PROVE WorkerInv'
<1> USE DEF ControlDone, Runs, Goto, worker
<1>1. TypeOK'
  BY DEF WorkerInv, TypeOK, Leases, Statuses, Places
<1>2. PassInv'
  BY KeepsPass
<1>3. \A p \in Operations : PlaceInv(p)'
  BY DEF WorkerInv, TypeOK, PlaceInv, Spent, STARTABLE
<1>4. \A p \in Operations : HoldsWriteLocks(p)'
  BY KeepsLocks DEF Works, WorkerInv, TypeOK
<1> QED
  BY <1>1, <1>2, <1>3, <1>4 DEF WorkerInv

LEMMA AttemptFailsKeeps ==
  ASSUME WorkerInv, NEW o \in Operations, AttemptFails(o) PROVE WorkerInv'
<1> USE DEF AttemptFails, Runs, Goto, worker
<1>1. PICK s \in {"queued", "over"} :
        /\ status' = [status EXCEPT ![o] = s]
        /\ backoff' = [backoff EXCEPT ![o] = (s = "queued")]
  BY DEF Spent
<1>2. backoff' \in [Operations -> BOOLEAN]
  <2>1. \A b \in BOOLEAN : [backoff EXCEPT ![o] = b] \in [Operations -> BOOLEAN]
    BY DEF WorkerInv, TypeOK
  <2>2. (s = "queued") \in BOOLEAN
    OBVIOUS
  <2> QED
    BY <1>1, <2>1, <2>2, Zenon
<1>3. TypeOK'
  BY <1>1, <1>2 DEF WorkerInv, TypeOK, Leases, Statuses, STARTABLE, Places
<1>4. PassInv'
  BY KeepsPass
<1>5. turn[o] = "none"
  BY DEF WorkerInv, PlaceInv
<1>6. \A p \in Operations : PlaceInv(p)'
  BY <1>1, <1>5 DEF WorkerInv, TypeOK, PlaceInv, Spent, STARTABLE
<1>7. \A p \in Operations : HoldsWriteLocks(p)'
  BY KeepsLocks DEF Works, WorkerInv, TypeOK
<1> QED
  BY <1>3, <1>4, <1>6, <1>7 DEF WorkerInv

LEMMA FinishKeeps ==
  ASSUME WorkerInv, NEW o \in Operations, Finish(o) PROVE WorkerInv'
<1> USE DEF Finish, Runs, Goto, worker, row
<1>1. /\ task' = [task EXCEPT ![o] = Report(status[o])]
      /\ Report(status[o]) \in Reporting
  BY DEF Report, Reporting
<1>2. locks' \in [LockKeys -> Operations \cup {None}]
  BY DroppingLocks DEF WorkerInv, TypeOK
<1>3. TypeOK'
  BY <1>1, <1>2 DEF WorkerInv, TypeOK, Reporting, Places
<1>4. PassInv'
  BY KeepsPass
<1>5. \A p \in Operations : PlaceInv(p)'
  BY <1>1 DEF WorkerInv, TypeOK, PlaceInv, Spent, Reporting
<1>6. ASSUME NEW p \in Operations, Works(p)'
      PROVE  Works(p) /\ (p = o => ~FreesLocks(o))
  BY <1>1, <1>6 DEF WorkerInv, TypeOK, PlaceInv, Works, Reporting, FreesLocks
<1>7. \A p \in Operations : HoldsWriteLocks(p)'
  BY <1>6, KeepsLocks, DroppingLocks DEF WorkerInv
<1> QED
  BY <1>3, <1>4, <1>5, <1>7 DEF WorkerInv

LEMMA ReportBackKeeps ==
  ASSUME WorkerInv, NEW o \in Operations, ReportBack(o) PROVE WorkerInv'
<1> USE DEF ReportBack, Goto, worker, row
<1>1. TypeOK'
  BY DEF WorkerInv, TypeOK, QueueStatuses, Places
<1>2. PassInv'
  BY KeepsPass
<1>3. \A p \in Operations : PlaceInv(p)'
  BY DEF WorkerInv, TypeOK, PlaceInv, Spent
<1>4. \A p \in Operations : HoldsWriteLocks(p)'
  BY KeepsLocks DEF Works, WorkerInv, TypeOK
<1> QED
  BY <1>1, <1>2, <1>3, <1>4 DEF WorkerInv

\* The passing of time.
LEMMA TimeKeeps ==
  ASSUME WorkerInv, NEW o \in Operations, BackoffElapses(o) \/ LeaseExpires(o)
  PROVE  WorkerInv'
<1> USE DEF BackoffElapses, LeaseExpires, worker
<1>1. TypeOK'
  BY DEF WorkerInv, TypeOK, Leases
<1>2. PassInv'
  BY KeepsPass
<1>3. \A p \in Operations : PlaceInv(p)'
  BY DEF WorkerInv, PlaceInv, Spent
<1>4. \A p \in Operations : HoldsWriteLocks(p)'
  BY KeepsLocks DEF Works
<1> QED
  BY <1>1, <1>2, <1>3, <1>4 DEF WorkerInv

LEMMA TurnEndsKeeps ==
  ASSUME WorkerInv, NEW o \in Operations, TurnEnds(o) PROVE WorkerInv'
<1> USE DEF TurnEnds, worker
<1>1. TypeOK'
  BY DEF WorkerInv, TypeOK
<1>2. PassInv'
  BY KeepsPass
<1>3. \A p \in Operations : PlaceInv(p)'
  BY DEF WorkerInv, TypeOK, PlaceInv, Spent, STARTABLE
<1>4. \A p \in Operations : HoldsWriteLocks(p)'
  BY KeepsLocks DEF Works, WorkerInv, TypeOK
<1> QED
  BY <1>1, <1>2, <1>3, <1>4 DEF WorkerInv

-----------------------------------------------------------------------------
(* Clients, and the life of a worker.                                      *)

LEMMA SubmitKeeps ==
  ASSUME WorkerInv, NEW o \in Operations, Submit(o) PROVE WorkerInv'
<1> USE DEF Submit, worker
<1>1. PICK t \in Threads \cup Operations \cup {None} : thread' = [thread EXCEPT ![o] = t]
  BY DEF WorkerInv, TypeOK
<1>2. TypeOK'
  BY <1>1 DEF WorkerInv, TypeOK, Statuses, STARTABLE, QueueStatuses
<1>3. PassInv'
  BY DEF WorkerInv, TypeOK, PassInv, Spent, STARTABLE
<1>4. \A p \in Operations : PlaceInv(p)'
  BY DEF WorkerInv, TypeOK, PlaceInv, Spent, STARTABLE
<1>5. \A p \in Operations : HoldsWriteLocks(p)'
  BY KeepsLocks DEF Works
<1> QED
  BY <1>2, <1>3, <1>4, <1>5 DEF WorkerInv

LEMMA ReconcileKeeps ==
  ASSUME WorkerInv, NEW o \in Operations, Reconcile(o) PROVE WorkerInv'
<1> USE DEF Reconcile, worker
<1>1. status[o] \notin STARTABLE /\ ~Works(o)
  BY DEF WorkerInv, PlaceInv, Works, STARTABLE
<1>2. locks' \in [LockKeys -> Operations \cup {None}]
  BY DroppingLocks DEF WorkerInv
<1>3. TypeOK'
  BY <1>2 DEF WorkerInv, TypeOK, Statuses, QueueStatuses
<1>4. PassInv'
  BY <1>1 DEF WorkerInv, TypeOK, PassInv, Spent
<1>5. \A p \in Operations : PlaceInv(p)'
  BY <1>1 DEF WorkerInv, TypeOK, PlaceInv, Spent, STARTABLE, Works
<1>6. ASSUME NEW p \in Operations, Works(p)' PROVE Works(p) /\ p # o
  BY <1>1, <1>6 DEF Works
<1>7. \A p \in Operations : HoldsWriteLocks(p)'
  BY <1>6, KeepsLocks, DroppingLocks DEF WorkerInv
<1> QED
  BY <1>3, <1>4, <1>5, <1>7 DEF WorkerInv

\* A poll takes only keys that nobody holds.
LEMMA PollKeeps ==
  ASSUME WorkerInv, NEW o \in Operations, Poll(o) \/ Plant(o) PROVE WorkerInv'
<1> USE DEF Poll, Plant, worker, row
<1>1. /\ locks' \in [LockKeys -> Operations \cup {None}]
      /\ \A k \in LockKeys : locks[k] # None => locks'[k] = locks[k]
  BY DEF WorkerInv, TypeOK
<1>2. planting' \subseteq Operations
  BY DEF WorkerInv, TypeOK
<1>3. \A p \in Operations : HoldsWriteLocks(p)'
  BY <1>1, KeepsLocks, NoneAssumption DEF Works
<1> QED
  BY <1>1, <1>2, <1>3 DEF WorkerInv, TypeOK, PassInv, PlaceInv, Spent

LEMMA LocksExpireKeeps ==
  ASSUME WorkerInv, NEW o \in Operations, LocksExpire(o) PROVE WorkerInv'
<1> USE DEF LocksExpire, worker, row
<1>1. locks' \in [LockKeys -> Operations \cup {None}]
  BY DroppingLocks DEF WorkerInv
<1>2. \A p \in Operations : ~Works(p)'
  BY DEF Quiet, Works
<1>3. \A p \in Operations : HoldsWriteLocks(p)'
  BY <1>2 DEF HoldsWriteLocks
<1> QED
  BY <1>1, <1>3 DEF WorkerInv, TypeOK, PassInv, PlaceInv, Spent

LEMMA StartKeeps == ASSUME WorkerInv, Start PROVE WorkerInv'
<1> USE DEF Start
<1>1. \A o \in Operations : status'[o] = status[o] \/ {status[o], status'[o]} \subseteq STARTABLE
  BY DEF Recovered, STARTABLE, WorkerInv, TypeOK
<1>2. TypeOK'
  BY LimitsAssumption DEF WorkerInv, TypeOK, Statuses, STARTABLE, Leases
<1>3. PassInv'
  BY <1>1 DEF WorkerInv, TypeOK, PassInv, Spent
<1>4. \A p \in Operations : PlaceInv(p)'
  BY <1>1 DEF WorkerInv, TypeOK, PlaceInv, Spent, STARTABLE
<1>5. \A p \in Operations : HoldsWriteLocks(p)'
  BY KeepsLocks DEF Works
<1> QED
  BY <1>2, <1>3, <1>4, <1>5 DEF WorkerInv

LEMMA CrashKeeps == ASSUME WorkerInv, Crash PROVE WorkerInv'
<1> USE DEF Crash, EndLoop, Idle
<1>1. TypeOK'
  BY DEF WorkerInv, TypeOK, Leases, Places
<1>2. PassInv'
  BY DEF PassInv
<1>3. \A p \in Operations : PlaceInv(p)'
  BY DEF WorkerInv, PlaceInv
<1>4. \A p \in Operations : HoldsWriteLocks(p)'
  BY KeepsLocks DEF Works
<1> QED
  BY <1>1, <1>2, <1>3, <1>4 DEF WorkerInv

LEMMA StopKeeps == ASSUME WorkerInv, Stop PROVE WorkerInv'
<1> DEFINE alive == {o \in Operations : task[o] \notin {"none", "spawned"}}
           acting == {o \in Operations : task[o] = "acting"}
           done == [o \in Operations |-> IF o \in acting THEN "queued" ELSE status[o]]
<1>1. /\ status' = done
      /\ locks' = WithoutLocksOf({o \in alive : done[o] # "running"})
      /\ lease' = [o \in Operations |-> IF o \in alive THEN "free" ELSE lease[o]]
      /\ sched' = [o \in Operations |->
           IF o \notin alive THEN sched[o]
           ELSE IF done[o] \in STARTABLE THEN "queued" ELSE done[o]]
      /\ task' = [o \in Operations |-> "none"]
      /\ EndLoop
      /\ UNCHANGED <<ask, thread, turn, attempts, backoff, starts, planting>>
  BY DEF Stop, Idle
<1>2. \A o \in Operations : done[o] \in Statuses
  BY DEF WorkerInv, TypeOK, Statuses, STARTABLE
<1>3. sched' \in [Operations -> QueueStatuses]
  BY <1>1, <1>2 DEF WorkerInv, TypeOK, QueueStatuses, Statuses
<1>4. locks' \in [LockKeys -> Operations \cup {None}]
  BY <1>1, DroppingLocks DEF WorkerInv
<1>5. TypeOK'
  BY <1>1, <1>2, <1>3, <1>4 DEF WorkerInv, TypeOK, Leases, Places, EndLoop
<1>6. PassInv'
  BY <1>1 DEF PassInv, EndLoop
<1>7. \A p \in Operations : PlaceInv(p)'
  BY <1>1 DEF WorkerInv, TypeOK, PlaceInv, STARTABLE
<1>8. ASSUME NEW p \in Operations, Works(p)' PROVE Works(p) /\ done[p] = "running"
  BY <1>1, <1>8 DEF WorkerInv, TypeOK, PlaceInv, Works, STARTABLE
<1>9. \A p \in Operations : HoldsWriteLocks(p)'
  <2>1. ASSUME NEW p \in Operations, Works(p)', NEW k \in LockKeys, locks[k] = p
        PROVE  locks'[k] = p
    <3>1. locks[k] \notin {o \in alive : done[o] # "running"}
      BY <1>8, <2>1
    <3> HIDE DEF alive, done
    <3> QED
      BY <1>1, <2>1, <3>1, DroppingLocks DEF WorkerInv
  <2> QED
    BY <1>1, <1>8, <2>1, KeepsLocks
<1> QED
  BY <1>5, <1>6, <1>7, <1>9 DEF WorkerInv

-----------------------------------------------------------------------------

LEMMA InitWorker == Init => WorkerInv
<1> SUFFICES ASSUME Init PROVE WorkerInv
  OBVIOUS
<1>1. TypeOK
  BY LimitsAssumption DEF Init, TypeOK, Statuses, Leases, QueueStatuses, Places
<1>2. PassInv /\ \A o \in Operations : PlaceInv(o) /\ HoldsWriteLocks(o)
  BY DEF Init, PassInv, PlaceInv, HoldsWriteLocks, Works, STARTABLE
<1> QED
  BY <1>1, <1>2 DEF WorkerInv

LEMMA NextWorker == WorkerInv /\ [Next]_vars => WorkerInv'
<1> SUFFICES ASSUME WorkerInv, [Next]_vars PROVE WorkerInv'
  OBVIOUS
<1>1. CASE Pass
  BY <1>1, BeginPassKeeps, ClaimKeeps, EndPassKeeps, ConsiderKeeps DEF Pass
<1>2. CASE Start \/ Crash \/ Stop
  BY <1>2, StartKeeps, CrashKeeps, StopKeeps
<1>3. CASE \E o \in Operations : Work(o)
  BY <1>3, AcquireKeeps, LearnThreadKeeps, TurnStartsKeeps, ControlDoneKeeps,
     AttemptFailsKeeps, FinishKeeps, ReportBackKeeps DEF Work, Attempt
<1>4. CASE \E o \in Operations : BackoffElapses(o) \/ TurnEnds(o) \/ LeaseExpires(o)
                                 \/ LocksExpire(o)
  BY <1>4, TimeKeeps, TurnEndsKeeps, LocksExpireKeeps
<1>5. CASE \E o \in Operations : Submit(o) \/ Reconcile(o) \/ Poll(o) \/ Plant(o)
  BY <1>5, SubmitKeeps, ReconcileKeeps, PollKeeps
<1>6. CASE UNCHANGED vars
  <2>1. TypeOK'
    BY <1>6 DEF WorkerInv, TypeOK, vars
  <2> QED
    BY <1>6, <2>1, KeepsLocks DEF WorkerInv, PassInv, PlaceInv, Spent, Works, vars
<1> QED
  BY <1>1, <1>2, <1>3, <1>4, <1>5, <1>6 DEF Next

LEMMA WorkerIsInvariant == Spec => []WorkerInv
BY InitWorker, NextWorker, PTL DEF Spec

\* Every variable keeps its type, attempt_count its limit among them.
THEOREM WorkerTypes == Spec => []TypeOK
<1>1. WorkerInv => TypeOK
  BY DEF WorkerInv
<1> QED
  BY <1>1, WorkerIsInvariant, PTL

\* From the claim of a slot to the end of its turn an operation holds its write
\* locks: no pass, poll, retry or restart takes them away
\* (worker.py:213, worker_store.py:239).
THEOREM WorkerHoldsLocks == Spec => []RunningHoldsItsLocks
<1>1. WorkerInv => RunningHoldsItsLocks
  BY DEF WorkerInv, RunningHoldsItsLocks, HoldsWriteLocks, Works, Busy
<1> QED
  BY <1>1, WorkerIsInvariant, PTL

\* Two writes under way in a project have disjoint resource keys.
THEOREM WorkerExcludesWrites == Spec => []WritesExclude
<1>1. WorkerInv => WritesExclude
  <2> SUFFICES ASSUME WorkerInv, NEW o \in Operations, NEW p \in Operations,
                      o # p, Busy(o), Busy(p), ask[o].write, ask[p].write,
                      ask[o].project = ask[p].project
               PROVE  /\ ask[o].keys \cap ask[p].keys = {}
                      /\ ask[o].keys # {} \/ ask[p].keys # {}
    BY DEF WritesExclude
  <2>1. /\ \A k \in WriteLocks(o) : locks[k] = o
        /\ \A k \in WriteLocks(p) : locks[k] = p
    BY DEF WorkerInv, HoldsWriteLocks, Works, Busy
  <2>2. WriteLocks(o) \cap WriteLocks(p) = {}
    BY <2>1
  <2>3. ask[o].keys # {} \/ ask[p].keys # {}
    BY <2>2 DEF WriteLocks
  <2>4. ASSUME NEW k \in ask[o].keys \cap ask[p].keys PROVE FALSE
    <3>1. <<"resource", ask[o].project, k>> \in WriteLocks(o) \cap WriteLocks(p)
      BY DEF WriteLocks
    <3> QED
      BY <2>2, <3>1
  <2> QED
    BY <2>3, <2>4
<1> QED
  BY <1>1, WorkerIsInvariant, PTL

-----------------------------------------------------------------------------
(* Slots.  An operation is counted from its claim on: as scheduled, then   *)
(* as starting, then by its turn.  Nothing but a claim adds to the count.  *)

CountedInv(o) ==
  /\ task[o] = "spawned" => sched[o] = "scheduled"
  /\ task[o] = "acting" => status[o] = "starting"
  /\ task[o] # "none" => status[o] # "none"
  /\ status[o] = "none" => sched[o] = "none" /\ thread[o] = None
  /\ thread[o] \in Operations => thread[thread[o]] = thread[o]

\* What was found free when the operation was chosen still is when it is claimed.
SlotInv ==
  /\ Cardinality(Active) <= MaxGlobal
  /\ \A o \in Operations :
       /\ Cardinality(InProject(Active, o)) <= MaxPerProject
       /\ Cardinality(InAgent(Active, o)) <= MaxPerAgent
  /\ \A t \in Threads \cup Operations : Cardinality(InThread(Active, t)) <= MaxPerThread
  /\ loop = "claim" /\ ask[chosen].slot => SlotFree(chosen)

\* Nothing of a worker that is not there.
DownInv == ~up => loop = "idle" /\ \A o \in Operations : task[o] = "none"

CountInv ==
  /\ WorkerInv
  /\ DownInv
  /\ \A o \in Operations : CountedInv(o)
  /\ SlotInv

LEMMA Smaller ==
  ASSUME NEW S, NEW T, IsFiniteSet(S), T \subseteq S, NEW n \in Nat, Cardinality(S) <= n
  PROVE  IsFiniteSet(T) /\ Cardinality(T) <= n
BY FS_Subset, FS_CardinalityType

LEMMA OneMore ==
  ASSUME NEW S, NEW T, NEW x, IsFiniteSet(S), T \subseteq S \cup {x},
         NEW n \in Nat, Cardinality(S) < n
  PROVE  Cardinality(T) <= n
<1>1. Cardinality(S) \in Nat
  BY FS_CardinalityType
<1>2. /\ IsFiniteSet(S \cup {x})
      /\ Cardinality(S \cup {x}) = IF x \in S THEN Cardinality(S) ELSE Cardinality(S) + 1
  BY FS_AddElement
<1>3. Cardinality(S \cup {x}) <= n
  BY <1>1, <1>2
<1> QED
  BY <1>2, <1>3, Smaller

LEMMA ActiveIsFinite ==
  /\ IsFiniteSet(Active)
  /\ \A o : IsFiniteSet(InProject(Active, o)) /\ IsFiniteSet(InAgent(Active, o))
  /\ \A t : IsFiniteSet(InThread(Active, t))
<1>1. IsFiniteSet(Active)
  BY OperationsAssumption, FS_Subset DEF Active
<1>2. \A T \in SUBSET Active : IsFiniteSet(T)
  BY <1>1, FS_Subset
<1>3. /\ \A o : InProject(Active, o) \in SUBSET Active /\ InAgent(Active, o) \in SUBSET Active
      /\ \A t : InThread(Active, t) \in SUBSET Active
  BY DEF InProject, InAgent, InThread
<1> QED
  BY <1>1, <1>2, <1>3

\* A step that counts nobody new keeps the counts, and what is free for who was
\* chosen.
LEMMA KeepsSlots ==
  ASSUME CountInv, WorkerInv', ask' = ask, Active' \subseteq Active,
         \A p \in Active' : thread'[p] = thread[p],
         loop' = "claim" =>
           UNCHANGED <<loop, chosen>> /\ thread'[chosen] = thread[chosen]
  PROVE  SlotInv'
<1> USE LimitsAssumption, ActiveIsFinite
<1>1. (Cardinality(Active) <= MaxGlobal)'
  BY Smaller DEF CountInv, SlotInv
<1>2. ASSUME NEW o \in Operations
      PROVE  /\ (Cardinality(InProject(Active, o)) <= MaxPerProject)'
             /\ (Cardinality(InAgent(Active, o)) <= MaxPerAgent)'
  <2>1. InProject(Active, o)' \subseteq InProject(Active, o)
    BY DEF InProject
  <2>2. InAgent(Active, o)' \subseteq InAgent(Active, o)
    BY DEF InAgent
  <2> QED
    BY <2>1, <2>2, Smaller DEF CountInv, SlotInv
<1>3. ASSUME NEW t \in Threads \cup Operations
      PROVE  (Cardinality(InThread(Active, t)) <= MaxPerThread)'
  <2>1. InThread(Active, t)' \subseteq InThread(Active, t)
    BY DEF InThread
  <2> QED
    BY <2>1, Smaller DEF CountInv, SlotInv
<1>4. ASSUME loop' = "claim", ask[chosen]'.slot
      PROVE  SlotFree(chosen)'
  <2> DEFINE c == chosen
  <2>1. chosen' = c /\ SlotFree(c) /\ thread'[c] = thread[c]
    BY <1>4 DEF CountInv, SlotInv
  <2>2. /\ Active' \subseteq Active
        /\ InProject(Active, c)' \subseteq InProject(Active, c)
        /\ InAgent(Active, c)' \subseteq InAgent(Active, c)
        /\ InThread(Active, thread[c])' \subseteq InThread(Active, thread[c])
    BY <2>1 DEF InProject, InAgent, InThread
  <2>3. /\ Cardinality(Active') <= Cardinality(Active)
        /\ Cardinality(InProject(Active, c)') <= Cardinality(InProject(Active, c))
        /\ Cardinality(InAgent(Active, c)') <= Cardinality(InAgent(Active, c))
        /\ Cardinality(InThread(Active, thread[c])') <= Cardinality(InThread(Active, thread[c]))
    BY <2>2, FS_Subset
  <2> QED
    <3>1. /\ Cardinality(Active') \in Nat /\ Cardinality(Active) \in Nat
          /\ Cardinality(InProject(Active, c)') \in Nat /\ Cardinality(InProject(Active, c)) \in Nat
          /\ Cardinality(InAgent(Active, c)') \in Nat /\ Cardinality(InAgent(Active, c)) \in Nat
          /\ Cardinality(InThread(Active, thread[c])') \in Nat
          /\ Cardinality(InThread(Active, thread[c])) \in Nat
      BY <2>2, FS_CardinalityType, FS_Subset
    <3>2. /\ Cardinality(Active') < MaxGlobal
          /\ Cardinality(InProject(Active, c)') < MaxPerProject
          /\ Cardinality(InAgent(Active, c)') < MaxPerAgent
          /\ thread[c] # None => Cardinality(InThread(Active, thread[c])') < MaxPerThread
      BY <2>1, <2>3, <3>1 DEF SlotFree
    <3> QED
      BY <2>1, <3>2 DEF SlotFree
<1> QED
  BY <1>1, <1>2, <1>3, <1>4 DEF SlotInv

\* The flags a step outside a claim sets.
LEMMA PassCounts ==
  ASSUME CountInv, WorkerInv', BeginPass \/ EndPass \/ \E o \in Operations : Consider(o)
  PROVE  CountInv'
<1>1. UNCHANGED <<row, task>>
  BY DEF BeginPass, EndPass, Consider
<1>2. ASSUME NEW p \in Operations
      PROVE  /\ sched'[p] \in {sched[p], "queued", "over"}
             /\ sched'[p] = sched[p] \/ (task[p] # "spawned" /\ status[p] # "none")
  <2>1. CASE BeginPass
    BY <2>1 DEF BeginPass, CleanUp, Startable, CountInv, WorkerInv, TypeOK, PlaceInv, STARTABLE
  <2>2. CASE EndPass
    BY <2>2 DEF EndPass, CleanUp, CountInv, WorkerInv, TypeOK, PlaceInv, STARTABLE
  <2>3. CASE \E o \in Operations : Consider(o)
    BY <2>3 DEF Consider, CountInv, WorkerInv, TypeOK, PassInv, STARTABLE
  <2> QED
    BY <2>1, <2>2, <2>3
<1>3. \A p \in Operations : CountedInv(p)'
  BY <1>1, <1>2 DEF CountInv, CountedInv, row
<1>4. Active' \subseteq Active
  BY <1>1, <1>2 DEF Active, row
<1>5. SlotInv'
  <2>1. CASE BeginPass \/ EndPass
    BY <1>1, <1>4, <2>1, KeepsSlots DEF BeginPass, EndPass, row, CountInv
  <2>2. ASSUME NEW o \in Operations, Consider(o) PROVE SlotInv'
    <3>1. CASE task[o] = "none" /\ MayStart(o)
      <4>1. /\ loop' = "claim" /\ chosen' = o /\ UNCHANGED <<sched, row>>
            /\ ask[o].slot => SlotFree(o)
        BY <2>2, <3>1 DEF Consider, MayStart
      <4>2. Active' = Active
        BY <4>1 DEF Active, row
      <4> QED
        BY <4>1, <4>2 DEF CountInv, SlotInv, SlotFree, InProject, InAgent, InThread, row
    <3>2. CASE ~(task[o] = "none" /\ MayStart(o))
      BY <1>1, <1>4, <2>2, <3>2, KeepsSlots DEF Consider, row
    <3> QED
      BY <3>1, <3>2
  <2> QED
    BY <2>1, <2>2
<1>6. DownInv'
  BY DEF CountInv, DownInv, BeginPass, EndPass, Consider
<1> QED
  BY <1>3, <1>5, <1>6 DEF CountInv

LEMMA ClaimCounts == ASSUME CountInv, WorkerInv', Claim PROVE CountInv'
<1> DEFINE c == chosen
<1>1. c \in Operations /\ task[c] = "none" /\ status[c] \in STARTABLE
  BY DEF Claim, CountInv, WorkerInv, PassInv
<1>2. UNCHANGED row /\ loop' # "claim" /\ DownInv'
  BY DEF Claim, CountInv, DownInv
<1>3. CASE ~Available(c)
  <2>1. UNCHANGED <<sched, task>>
    BY <1>3 DEF Claim
  <2>2. Active' = Active
    BY <1>2, <2>1 DEF Active, row
  <2> QED
    BY <1>2, <2>1, <2>2, KeepsSlots DEF CountInv, CountedInv, row
<1>4. CASE Available(c)
  <2>1. /\ sched' = [sched EXCEPT ![c] = "scheduled"]
        /\ task' = [task EXCEPT ![c] = "spawned"]
    BY <1>4 DEF Claim
  <2>2. \A p \in Operations : CountedInv(p)'
    BY <1>1, <1>2, <2>1 DEF CountInv, CountedInv, WorkerInv, TypeOK, STARTABLE, row
  <2>3. CASE ~ask[c].slot
    <3>1. Active' \subseteq Active
      BY <1>2, <2>1, <2>3 DEF Active, CountInv, WorkerInv, TypeOK, row
    <3> QED
      BY <1>2, <2>2, <3>1, KeepsSlots DEF CountInv, row
  <2>4. CASE ask[c].slot
    <3> USE LimitsAssumption, ActiveIsFinite
    <3>1. SlotFree(c) /\ loop = "claim"
      BY <2>4 DEF Claim, CountInv, SlotInv
    <3>2. Active' \subseteq Active \cup {c}
      BY <1>2, <2>1 DEF Active, CountInv, WorkerInv, TypeOK, row
    <3>3. Cardinality(Active)' <= MaxGlobal
      BY <3>1, <3>2, OneMore DEF SlotFree
    <3>4. ASSUME NEW o \in Operations
          PROVE  Cardinality(InProject(Active, o))' <= MaxPerProject
      <4>1. CASE ask[o].project = ask[c].project
        <5>1. InProject(Active, o)' \subseteq InProject(Active, c) \cup {c}
          BY <1>2, <3>2, <4>1 DEF InProject, row
        <5> QED
          BY <3>1, <5>1, OneMore DEF SlotFree
      <4>2. CASE ask[o].project # ask[c].project
        <5>1. InProject(Active, o)' \subseteq InProject(Active, o)
          BY <1>2, <3>2, <4>2 DEF InProject, row
        <5> QED
          BY <5>1, Smaller DEF CountInv, SlotInv
      <4> QED
        BY <4>1, <4>2
    <3>5. ASSUME NEW o \in Operations
          PROVE  Cardinality(InAgent(Active, o))' <= MaxPerAgent
      <4>1. CASE ask[o].agent = ask[c].agent
        <5>1. InAgent(Active, o)' \subseteq InAgent(Active, c) \cup {c}
          BY <1>2, <3>2, <4>1 DEF InAgent, row
        <5> QED
          BY <3>1, <5>1, OneMore DEF SlotFree
      <4>2. CASE ask[o].agent # ask[c].agent
        <5>1. InAgent(Active, o)' \subseteq InAgent(Active, o)
          BY <1>2, <3>2, <4>2 DEF InAgent, row
        <5> QED
          BY <5>1, Smaller DEF CountInv, SlotInv
      <4> QED
        BY <4>1, <4>2
    <3>6. ASSUME NEW t \in Threads \cup Operations
          PROVE  Cardinality(InThread(Active, t))' <= MaxPerThread
      <4>1. CASE thread[c] = t
        <5>1. InThread(Active, t)' \subseteq InThread(Active, thread[c]) \cup {c}
          BY <1>2, <3>2, <4>1 DEF InThread, row
        <5> QED
          BY <3>1, <4>1, <5>1, OneMore, NoneAssumption DEF SlotFree
      <4>2. CASE thread[c] # t
        <5>1. InThread(Active, t)' \subseteq InThread(Active, t)
          BY <1>2, <3>2, <4>2 DEF InThread, row
        <5> QED
          BY <5>1, Smaller DEF CountInv, SlotInv
      <4> QED
        BY <4>1, <4>2
    <3> QED
      BY <1>2, <2>2, <3>3, <3>4, <3>5, <3>6 DEF CountInv, SlotInv
  <2> QED
    BY <2>3, <2>4
<1> QED
  BY <1>3, <1>4

\* A step that leaves the threads and what is chosen alone, sets no status to
\* starting and no scheduling row to scheduled but those that are, and makes no
\* turn active but one that is starting.
LEMMA KeepsCount ==
  ASSUME CountInv, WorkerInv', DownInv', UNCHANGED <<ask, thread>>,
         loop' = "claim" => UNCHANGED <<loop, chosen>>,
         \A p \in Operations :
           /\ status'[p] = "starting" => p \in Active \/ ~ask[p].slot
           /\ turn'[p] = "active" => p \in Active \/ ~ask[p].slot
           /\ sched'[p] = "scheduled" => sched[p] = "scheduled",
         \A p \in Operations :
           /\ task'[p] = "spawned" => sched'[p] = "scheduled"
           /\ task'[p] = "acting" => status'[p] = "starting"
           /\ task'[p] # "none" => status'[p] # "none"
           /\ status'[p] = "none" => status[p] = "none" /\ sched'[p] = "none"
  PROVE  CountInv'
<1>1. \A p \in Operations : CountedInv(p)'
  BY DEF CountInv, CountedInv
<1>2. Active' \subseteq Active
  BY DEF Active
<1>3. SlotInv'
  BY <1>2, KeepsSlots
<1> QED
  BY <1>1, <1>3 DEF CountInv

LEMMA TaskCounts ==
  ASSUME CountInv, WorkerInv', NEW o \in Operations,
         Acquire(o) \/ TurnStarts(o) \/ ControlDone(o) \/ AttemptFails(o)
           \/ Finish(o) \/ ReportBack(o)
  PROVE  CountInv'
<1> USE DEF CountInv, CountedInv, DownInv, Active, Goto, Runs, worker, row
<1>1. CASE Acquire(o)
  BY <1>1, KeepsCount DEF Acquire, WorkerInv, TypeOK
<1>2. CASE TurnStarts(o)
  BY <1>2, KeepsCount DEF TurnStarts, WorkerInv, TypeOK
<1>3. CASE ControlDone(o)
  BY <1>3, KeepsCount DEF ControlDone, WorkerInv, TypeOK
<1>4. CASE AttemptFails(o)
  <2>1. PICK s \in {"queued", "over"} : status' = [status EXCEPT ![o] = s]
    BY <1>4 DEF AttemptFails
  <2> QED
    BY <1>4, <2>1, KeepsCount DEF AttemptFails, WorkerInv, TypeOK
<1>5. CASE Finish(o)
  BY <1>5, KeepsCount DEF Finish, Report, WorkerInv, TypeOK
<1>6. CASE ReportBack(o)
  BY <1>6, KeepsCount DEF ReportBack, Reporting, WorkerInv, TypeOK
<1> QED
  BY <1>1, <1>2, <1>3, <1>4, <1>5, <1>6

\* A new thread has no other operation yet.
LEMMA LearnThreadCounts ==
  ASSUME CountInv, WorkerInv', NEW o \in Operations, LearnThread(o)
  PROVE  CountInv'
<1>1. /\ thread[o] = None /\ thread' = [thread EXCEPT ![o] = o]
      /\ loop = "idle" /\ status[o] # "none"
      /\ UNCHANGED <<ask, status, turn, sched, task, up, loop>>
  BY DEF LearnThread, Runs, worker, CountInv, CountedInv
<1>2. \A p \in Operations : thread[p] # o
  BY <1>1, NoneAssumption DEF CountInv, CountedInv
<1>3. \A p \in Operations : CountedInv(p)'
  BY <1>1, <1>2, NoneAssumption DEF CountInv, CountedInv, WorkerInv, TypeOK
<1>4. Active' = Active /\ Active \subseteq Operations
  BY <1>1 DEF Active
<1>5. ASSUME NEW t \in Threads \cup Operations
      PROVE  Cardinality(InThread(Active, t))' <= MaxPerThread
  <2>1. CASE t = o
    <3>1. InThread(Active, t)' \subseteq {} \cup {o}
      BY <1>1, <1>2, <1>4, <2>1 DEF InThread, CountInv, WorkerInv, TypeOK
    <3>2. IsFiniteSet({}) /\ Cardinality({}) = 0 /\ MaxPerThread \in Nat \ {0}
      BY FS_EmptySet, LimitsAssumption
    <3>3. Cardinality({}) < MaxPerThread
      BY <3>2
    <3> QED
      BY <3>1, <3>2, <3>3, OneMore
  <2>2. CASE t # o
    <3>1. InThread(Active, t)' \subseteq InThread(Active, t)
      BY <1>1, <1>4, <2>2 DEF InThread, CountInv, WorkerInv, TypeOK
    <3> QED
      BY <3>1, Smaller, ActiveIsFinite, LimitsAssumption DEF CountInv, SlotInv
  <2> QED
    BY <2>1, <2>2
<1>6. SlotInv'
  BY <1>1, <1>4, <1>5 DEF CountInv, SlotInv, InProject, InAgent
<1> QED
  BY <1>1, <1>3, <1>6 DEF CountInv, DownInv

\* A new operation is not counted until it is claimed.
LEMMA SubmitCounts ==
  ASSUME CountInv, WorkerInv', NEW o \in Operations, Submit(o)
  PROVE  CountInv'
<1>1. PICK t \in Threads \cup {thread[p] : p \in Operations} \cup {None} :
        /\ status[o] = "none"
        /\ status' = [status EXCEPT ![o] = "queued"]
        /\ sched' = [sched EXCEPT ![o] = "queued"]
        /\ thread' = [thread EXCEPT ![o] = t]
        /\ UNCHANGED <<ask, turn, task, up, loop, chosen>>
  BY DEF Submit, worker
<1>2. \A p \in Operations : thread[p] # o
  BY <1>1, NoneAssumption DEF CountInv, CountedInv
<1>3. \A p \in Operations : CountedInv(p)'
  BY <1>1, <1>2, NoneAssumption, ThreadsAssumption DEF CountInv, CountedInv, WorkerInv, TypeOK
<1>4. Active' \subseteq Active /\ \A p \in Active' : p # o
  BY <1>1 DEF Active, CountInv, CountedInv, WorkerInv, PlaceInv, TypeOK
<1>5. loop' = "claim" => chosen # o /\ chosen \in Operations
  BY <1>1 DEF CountInv, WorkerInv, PassInv, STARTABLE
<1>6. SlotInv'
  BY <1>1, <1>4, <1>5, KeepsSlots DEF CountInv, WorkerInv, TypeOK
<1> QED
  BY <1>1, <1>3, <1>6 DEF CountInv, DownInv

LEMMA ClientCounts ==
  ASSUME CountInv, WorkerInv', NEW o \in Operations,
         \/ BackoffElapses(o) \/ LeaseExpires(o) \/ TurnEnds(o) \/ Reconcile(o)
         \/ Poll(o) \/ Plant(o) \/ LocksExpire(o)
  PROVE  CountInv'
<1> USE DEF CountInv, CountedInv, DownInv, Active, worker, row
<1>1. CASE TurnEnds(o)
  BY <1>1, KeepsCount DEF TurnEnds, WorkerInv, TypeOK
<1>2. CASE Reconcile(o)
  <2>1. task[o] # "spawned" /\ task[o] # "acting"
    BY <1>2 DEF Reconcile, WorkerInv, PlaceInv, STARTABLE
  <2> QED
    BY <1>2, <2>1, KeepsCount DEF Reconcile, WorkerInv, TypeOK
<1>3. CASE BackoffElapses(o) \/ LeaseExpires(o) \/ Poll(o) \/ Plant(o) \/ LocksExpire(o)
  BY <1>3, KeepsCount DEF BackoffElapses, LeaseExpires, Poll, Plant, LocksExpire
<1> QED
  BY <1>1, <1>2, <1>3

LEMMA LifeCounts ==
  ASSUME CountInv, WorkerInv', Start \/ Crash \/ Stop \/ UNCHANGED vars
  PROVE  CountInv'
<1> USE DEF CountInv, CountedInv, DownInv, Active
<1>1. CASE Start
  BY <1>1, KeepsCount DEF Start, DownInv, Recovered, WorkerInv, TypeOK, STARTABLE
<1>2. CASE Crash
  BY <1>2, KeepsCount DEF Crash, EndLoop, Idle
<1>3. CASE Stop
  <2> DEFINE alive == {o \in Operations : task[o] \notin {"none", "spawned"}}
             acting == {o \in Operations : task[o] = "acting"}
             done == [o \in Operations |-> IF o \in acting THEN "queued" ELSE status[o]]
  <2>1. /\ status' = done
        /\ sched' = [o \in Operations |->
             IF o \notin alive THEN sched[o]
             ELSE IF done[o] \in STARTABLE THEN "queued" ELSE done[o]]
        /\ task' = [o \in Operations |-> "none"]
        /\ up' = FALSE /\ loop' = "idle"
        /\ UNCHANGED <<ask, thread, turn>>
    BY <1>3 DEF Stop, Idle, EndLoop
  <2>2. ASSUME NEW p \in Operations
        PROVE  /\ status'[p] \in {status[p], "queued"}
               /\ sched'[p] = "scheduled" => sched[p] = "scheduled"
               /\ status'[p] = "none" => status[p] = "none" /\ sched'[p] = "none"
    <3>1. done[p] \in Statuses
      BY DEF WorkerInv, TypeOK, Statuses, STARTABLE
    <3> QED
      BY <2>1, <3>1 DEF Statuses, STARTABLE
  <2> QED
    BY <2>1, <2>2, KeepsCount
<1>4. CASE UNCHANGED vars
  BY <1>4, KeepsCount DEF vars
<1> QED
  BY <1>1, <1>2, <1>3, <1>4

LEMMA InitCount == Init => CountInv
<1> SUFFICES ASSUME Init PROVE CountInv
  OBVIOUS
<1>1. \A o \in Operations : CountedInv(o)
  BY NoneAssumption DEF Init, CountedInv
<1>2. Active = {}
  BY DEF Init, Active
<1>3. /\ \A o : InProject(Active, o) = {} /\ InAgent(Active, o) = {}
      /\ \A t : InThread(Active, t) = {}
  BY <1>2 DEF InProject, InAgent, InThread
<1>4. SlotInv
  BY <1>2, <1>3, FS_EmptySet, LimitsAssumption DEF Init, SlotInv
<1> QED
  BY <1>1, <1>4, InitWorker DEF CountInv, DownInv, Init

LEMMA NextCount == CountInv /\ [Next]_vars => CountInv'
<1> SUFFICES ASSUME CountInv, [Next]_vars PROVE CountInv'
  OBVIOUS
<1>1. WorkerInv'
  BY NextWorker DEF CountInv
<1>2. CASE Pass
  BY <1>1, <1>2, PassCounts, ClaimCounts DEF Pass
<1>3. CASE Start \/ Crash \/ Stop \/ UNCHANGED vars
  BY <1>1, <1>3, LifeCounts
<1>4. CASE \E o \in Operations : Work(o)
  BY <1>1, <1>4, TaskCounts, LearnThreadCounts DEF Work, Attempt
<1>5. CASE \E o \in Operations : Submit(o)
  BY <1>1, <1>5, SubmitCounts
<1>6. CASE \E o \in Operations :
             \/ BackoffElapses(o) \/ TurnEnds(o) \/ Reconcile(o) \/ Poll(o) \/ Plant(o)
             \/ LeaseExpires(o) \/ LocksExpire(o)
  BY <1>1, <1>6, ClientCounts
<1> QED
  BY <1>2, <1>3, <1>4, <1>5, <1>6 DEF Next

\* The limits on turns hold whatever attempts, turns, polls and restarts do
\* between passes: what is under way is counted from its claim to the end of its
\* turn (worker.py:265, worker.py:333).
THEOREM WorkerRespectsSlots == Spec => []SlotsRespected
<1>1. CountInv => SlotsRespected
  <2> SUFFICES ASSUME CountInv PROVE SlotsRespected
    OBVIOUS
  <2> USE LimitsAssumption, ActiveIsFinite
  <2> DEFINE BusyOnes == {o \in Operations : Busy(o)}
  <2>1. BusyOnes \subseteq Active
    BY DEF Busy, Active, CountInv, CountedInv
  <2>2. Cardinality(BusyOnes) <= MaxGlobal
    BY <2>1, Smaller DEF CountInv, SlotInv
  <2>3. ASSUME NEW o \in Operations
        PROVE  /\ Cardinality(InProject(BusyOnes, o)) <= MaxPerProject
               /\ Cardinality(InAgent(BusyOnes, o)) <= MaxPerAgent
               /\ thread[o] # None => Cardinality(InThread(BusyOnes, thread[o])) <= MaxPerThread
    <3>1. /\ InProject(BusyOnes, o) \subseteq InProject(Active, o)
          /\ InAgent(BusyOnes, o) \subseteq InAgent(Active, o)
          /\ InThread(BusyOnes, thread[o]) \subseteq InThread(Active, thread[o])
      BY <2>1 DEF InProject, InAgent, InThread
    <3>2. thread[o] \in Threads \cup Operations \cup {None}
      BY DEF CountInv, WorkerInv, TypeOK
    <3> HIDE DEF BusyOnes
    <3> QED
      BY <3>1, <3>2, Smaller DEF CountInv, SlotInv
  <2> QED
    BY <2>2, <2>3 DEF SlotsRespected
<1>2. Spec => []CountInv
  BY InitCount, NextCount, PTL DEF Spec
<1> QED
  BY <1>1, <1>2, PTL

================================================================================

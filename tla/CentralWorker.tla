---------------------------- MODULE CentralWorker ----------------------------
(***************************************************************************)
(* The scheduler of a worker process (worker.py): once a second it lists   *)
(* the startable operations and gives each a turn slot and its resource    *)
(* locks, or writes down why it has to wait.  Clients in other processes   *)
(* submit and poll; the worker may stop, crash and be started again, one   *)
(* at a time.                                                              *)
(*                                                                         *)
(* A pass of the loop does not await, so the worker's own tasks stand      *)
(* still during it and other processes run between its transactions.  What *)
(* a task does with the app-server is the matter of OperationQueue; here   *)
(* an attempt learns a thread, starts a turn, or fails.                    *)
(***************************************************************************)
EXTENDS Naturals, FiniteSets

CONSTANTS
  Operations,     \* operation ids; also the ids of the threads they create
  Threads,        \* threads that exist already
  Requests,       \* what an operation may ask for, a set of Request records
  MaxAttempts,    \* codex_operations.max_attempts
  MaxGlobal,      \* max_active_turns_global
  MaxPerProject,  \* max_active_turns_per_project
  MaxPerAgent,    \* max_active_turns_per_agent
  MaxPerThread,   \* max_active_turns_per_thread
  MaxPending,     \* max_app_server_pending_requests
  MaxStarts,      \* bound: how often a worker process is started
  MaxPolls,       \* bound: polls in progress at a time
  QuickRestart,   \* may a worker start before a dead one's leases expire?
  None            \* no thread, operation

ASSUME NoneAssumption == None \notin Operations \cup Threads
ASSUME OperationsAssumption == IsFiniteSet(Operations)
ASSUME ThreadsAssumption == Operations \cap Threads = {}
ASSUME LimitsAssumption ==
  /\ {MaxAttempts, MaxGlobal, MaxPerProject, MaxPerAgent, MaxPerThread} \subseteq Nat \ {0}
  /\ {MaxPending, MaxStarts, MaxPolls} \subseteq Nat \ {0}
ASSUME RestartAssumption == QuickRestart \in BOOLEAN
\* slot: operation_consumes_turn_slot; write: the sandbox allows writing;
\* keys: resource_keys.
ASSUME RequestsAssumption ==
  \A r \in Requests :
    /\ DOMAIN r = {"slot", "project", "agent", "write", "keys"}
    /\ r.slot \in BOOLEAN /\ r.write \in BOOLEAN

VARIABLES
  ask,       \* what each operation asks for
  status,    \* codex_operations.status
  thread,    \* its thread id
  turn,      \* tracked status of its turn, "none" without a turn_id
  attempts,  \* its attempt_count
  backoff,   \* is its next_attempt_at in the future?
  lease,     \* its lease: "dead" is a live lease of a process that is gone
  sched,     \* codex_operation_scheduling.queue_status
  locks,     \* codex_resource_locks: the holder of each key
  task,      \* where the operation's task in the worker stands
  up,        \* does a worker run?
  starts,    \* how often one was started
  loop,      \* where its loop stands
  todo,      \* operations of this pass still to be looked at
  chosen,    \* the operation that may start
  planting   \* operations whose poll is about to insert a thread lock

vars == <<ask, status, thread, turn, attempts, backoff, lease, sched, locks,
          task, up, starts, loop, todo, chosen, planting>>
row == <<ask, status, thread, turn, attempts, backoff, lease>>
worker == <<up, starts, loop, todo, chosen>>

STARTABLE == {"queued", "starting"}
Statuses == STARTABLE \cup {"none", "running", "over"}
Leases == {"free", "held", "dead", "expired"}
QueueStatuses == {"none", "queued", "scheduled", "running", "over"}
Places == {"none", "spawned", "acting", "fin",
           "report_queued", "report_running", "report_over"}
Reporting == {"report_queued", "report_running", "report_over"}

Projects == {r.project : r \in Requests}
LockKeys ==
  ({"thread"} \X (Threads \cup Operations))
  \cup ({"project"} \X Projects)
  \cup ({"resource"} \X Projects \X UNION {r.keys : r \in Requests})

Init ==
  /\ ask \in [Operations -> Requests]
  /\ status = [o \in Operations |-> "none"]
  /\ thread = [o \in Operations |-> None]
  /\ turn = [o \in Operations |-> "none"]
  /\ attempts = [o \in Operations |-> 0]
  /\ backoff = [o \in Operations |-> FALSE]
  /\ lease = [o \in Operations |-> "free"]
  /\ sched = [o \in Operations |-> "none"]
  /\ locks = [k \in LockKeys |-> None]
  /\ task = [o \in Operations |-> "none"]
  /\ up = TRUE /\ starts = 1
  /\ loop = "idle" /\ todo = {} /\ chosen = None
  /\ planting = {}

-----------------------------------------------------------------------------
(* Slots and locks.                                                        *)

Spent(o) == attempts[o] >= MaxAttempts

\* list_startable_operations.  Its limit of 50 rows is not reached here.
Startable ==
  {o \in Operations : /\ status[o] \in STARTABLE /\ ~Spent(o) /\ ~backoff[o]
                      /\ lease[o] \in {"free", "expired"}}

\* _active_operations; the operation to be started is not left out.
ActiveByTurnOnly == {o \in Operations : ask[o].slot /\ turn[o] = "active"}
Active ==
  {o \in Operations : /\ ask[o].slot
                      /\ \/ status[o] = "starting"
                         \/ turn[o] = "active"
                         \/ sched[o] = "scheduled"}

InProject(S, o) == {p \in S : ask[p].project = ask[o].project}
InAgent(S, o) == {p \in S : ask[p].agent = ask[o].agent}
InThread(S, t) == {p \in S : thread[p] = t}

SlotFree(o) ==
  /\ Cardinality(Active) < MaxGlobal
  /\ Cardinality(InProject(Active, o)) < MaxPerProject
  /\ Cardinality(InAgent(Active, o)) < MaxPerAgent
  /\ thread[o] # None => Cardinality(InThread(Active, thread[o])) < MaxPerThread

ThreadLock(t) == IF t = None THEN {} ELSE {<<"thread", t>>}

\* _locks_for_operation: without resource keys a write locks its project.
WriteLocksIfNamed(o) == {<<"resource", ask[o].project, k>> : k \in ask[o].keys}
WriteLocks(o) ==
  IF ~ask[o].write THEN {}
  ELSE IF ask[o].keys = {} THEN {<<"project", ask[o].project>>}
  ELSE {<<"resource", ask[o].project, k>> : k \in ask[o].keys}

Wanted(o) == IF ask[o].slot THEN ThreadLock(thread[o]) \cup WriteLocks(o) ELSE {}
Available(o) == \A k \in Wanted(o) : locks[k] \in {None, o}

\* _can_start_operation.  The limit on write turns of a project counts locks of
\* the one key that has already been found free.
MayStart(o) == ask[o].slot => SlotFree(o) /\ Available(o)

WithoutLocksOf(S) == [k \in LockKeys |-> IF locks[k] \in S THEN None ELSE locks[k]]

-----------------------------------------------------------------------------
(* A pass of the loop.                                                     *)

Pending == Cardinality({o \in Operations : task[o] = "acting"})

\* Whose locks _cleanup_terminal_locks deletes.
ReleasableByTurn(o) == ~ask[o].slot \/ turn[o] = "over"
Releasable(o) == \/ ~ask[o].slot
                 \/ status[o] = "over"
                 \/ turn[o] = "over"

\* _cleanup_terminal_scheduling and _cleanup_terminal_locks; S is made to wait.
CleanUp(S) ==
  /\ sched' = [o \in Operations |-> IF status[o] = "over" THEN "over"
                                   ELSE IF o \in S THEN "queued" ELSE sched[o]]
  /\ locks' = WithoutLocksOf({o \in Operations : Releasable(o)})

\* A task takes its first step before the loop's timer fires, and its last ones
\* without awaiting.  Under backpressure, or with nothing to start, a pass only
\* cleans up.
BeginPass ==
  /\ up /\ loop = "idle"
  /\ \A o \in Operations : task[o] \notin {"spawned"} \cup Reporting
  /\ IF Startable = {} \/ Pending >= MaxPending
     THEN CleanUp(Startable) /\ UNCHANGED <<loop, todo>>
     ELSE loop' = "pass" /\ todo' = Startable /\ UNCHANGED <<sched, locks>>
  /\ UNCHANGED <<row, task, up, starts, chosen, planting>>

Consider(o) ==
  /\ loop = "pass" /\ o \in todo
  /\ todo' = todo \ {o}
  /\ IF task[o] = "none" /\ MayStart(o)
     THEN loop' = "claim" /\ chosen' = o /\ UNCHANGED sched
     ELSE /\ sched' = IF task[o] = "none" THEN [sched EXCEPT ![o] = "queued"] ELSE sched
          /\ UNCHANGED <<loop, chosen>>
  /\ UNCHANGED <<row, locks, task, up, starts, planting>>

ClaimOver(o) ==
  locks' = [k \in LockKeys |-> IF k \in Wanted(o) THEN o ELSE WithoutLocksOf({o})[k]]

\* replace_resource_locks_for_operation: when a key has been taken since, its
\* INSERT fails and the pass with it, and the DELETE before it stays.  Otherwise
\* the scheduling row is written, which only the worker reads, and the task made.
Claim ==
  /\ loop = "claim"
  /\ chosen' = None
  /\ IF Available(chosen)
     THEN /\ ClaimOver(chosen)
          /\ sched' = [sched EXCEPT ![chosen] = "scheduled"]
          /\ task' = [task EXCEPT ![chosen] = "spawned"]
          /\ loop' = "pass" /\ UNCHANGED todo
     ELSE /\ locks' = WithoutLocksOf({chosen})
          /\ loop' = "idle" /\ todo' = {}
          /\ UNCHANGED <<sched, task>>
  /\ UNCHANGED <<row, up, starts, planting>>

EndPass ==
  /\ loop = "pass" /\ todo = {}
  /\ CleanUp({})
  /\ loop' = "idle"
  /\ UNCHANGED <<row, task, up, starts, todo, chosen, planting>>

-----------------------------------------------------------------------------
(* Tasks.                                                                  *)

Goto(o, p) == task' = [task EXCEPT ![o] = p]

\* Nothing of the worker runs while a pass does.
Runs(o, p) == up /\ loop = "idle" /\ task[o] = p

Acquire(o) ==
  /\ Runs(o, "spawned")
  /\ lease' = [lease EXCEPT ![o] = "held"]
  /\ attempts' = [attempts EXCEPT ![o] = @ + 1]
  /\ status' = [status EXCEPT ![o] = "starting"]
  /\ Goto(o, "acting")
  /\ UNCHANGED <<ask, thread, turn, backoff, sched, locks, worker, planting>>

LearnThread(o) ==
  /\ Runs(o, "acting") /\ thread[o] = None
  /\ thread' = [thread EXCEPT ![o] = o]
  /\ UNCHANGED <<ask, status, turn, attempts, backoff, lease, sched, locks, task,
                 worker, planting>>

\* The lease, given up at the end of the finally branch, is read again for
\* startable operations only: for others it is given up here.
TurnStarts(o) ==
  /\ Runs(o, "acting") /\ ask[o].slot /\ thread[o] # None
  /\ status' = [status EXCEPT ![o] = "running"]
  /\ turn' = [turn EXCEPT ![o] = "active"]
  /\ lease' = [lease EXCEPT ![o] = "free"]
  /\ Goto(o, "fin")
  /\ UNCHANGED <<ask, thread, attempts, backoff, sched, locks, worker, planting>>

\* A steer joins the turn of another operation, a fork without a message is done.
ControlDone(o) ==
  /\ Runs(o, "acting") /\ ~ask[o].slot
  /\ status' = [status EXCEPT ![o] = "over"]
  /\ lease' = [lease EXCEPT ![o] = "free"]
  /\ Goto(o, "fin")
  /\ UNCHANGED <<ask, thread, turn, attempts, backoff, sched, locks, worker, planting>>

\* A fork or a review whose outcome is unknown is over at once.
AttemptFails(o) ==
  /\ Runs(o, "acting")
  /\ \E s \in IF Spent(o) THEN {"over"} ELSE {"queued", "over"} :
       /\ status' = [status EXCEPT ![o] = s]
       /\ backoff' = [backoff EXCEPT ![o] = (s = "queued")]
  /\ lease' = [lease EXCEPT ![o] = "free"]
  /\ Goto(o, "fin")
  /\ UNCHANGED <<ask, thread, turn, attempts, sched, locks, worker, planting>>

Report(s) == IF s \in STARTABLE THEN "report_queued"
             ELSE IF s = "running" THEN "report_running" ELSE "report_over"

\* The finally branch: the locks of all but a running operation are released,
\* and the status is read that the scheduling row is given next.
FreesUnlessStartable(o) == status[o] \notin STARTABLE
FreesLocks(o) == status[o] # "running"

Finish(o) ==
  /\ Runs(o, "fin")
  /\ locks' = IF FreesLocks(o) THEN WithoutLocksOf({o}) ELSE locks
  /\ Goto(o, Report(status[o]))
  /\ UNCHANGED <<row, sched, worker, planting>>

ReportBack(o) ==
  /\ up /\ loop = "idle" /\ task[o] \in Reporting
  /\ sched' = [sched EXCEPT ![o] = CASE task[o] = "report_queued" -> "queued"
                                   [] task[o] = "report_running" -> "running"
                                   [] OTHER -> "over"]
  /\ Goto(o, "none")
  /\ UNCHANGED <<row, locks, worker, planting>>

BackoffElapses(o) ==
  /\ backoff[o]
  /\ backoff' = [backoff EXCEPT ![o] = FALSE]
  /\ UNCHANGED <<ask, status, thread, turn, attempts, lease, sched, locks, task,
                 worker, planting>>

TurnEnds(o) ==
  /\ turn[o] = "active"
  /\ turn' = [turn EXCEPT ![o] = "over"]
  /\ UNCHANGED <<ask, status, thread, attempts, backoff, lease, sched, locks, task,
                 worker, planting>>

-----------------------------------------------------------------------------
(* Clients.                                                                *)

\* A message goes to a thread that is known.
Submit(o) ==
  /\ status[o] = "none"
  /\ status' = [status EXCEPT ![o] = "queued"]
  /\ sched' = [sched EXCEPT ![o] = "queued"]
  /\ \E t \in Threads \cup {thread[p] : p \in Operations} \cup {None} :
       thread' = [thread EXCEPT ![o] = t]
  /\ UNCHANGED <<ask, turn, attempts, backoff, lease, locks, task, worker, planting>>

\* _operation_status_payload: a turn that is over ends its operation
\* (_finalize_operation_queue_state), and the scheduling row of an operation that
\* is over follows.
Reconcile(o) ==
  /\ \/ status[o] = "running" /\ turn[o] = "over"
     \/ status[o] = "over" /\ sched[o] # "over"
  /\ status' = [status EXCEPT ![o] = "over"]
  /\ sched' = [sched EXCEPT ![o] = "over"]
  /\ locks' = WithoutLocksOf({o})
  /\ UNCHANGED <<ask, thread, turn, attempts, backoff, lease, task, worker, planting>>

\* An operation that is not over is to hold the lock of its thread.
Poll(o) ==
  /\ status[o] \in STARTABLE \/ (status[o] = "running" /\ turn[o] = "active")
  /\ thread[o] # None /\ ask[o].slot
  /\ Cardinality(planting) < MaxPolls
  /\ planting' = planting \cup {o}
  /\ UNCHANGED <<row, sched, locks, task, worker>>

\* ensure_thread_active_lock_for_operation, INSERT OR IGNORE, for the status that
\* was read before.
Plant(o) ==
  /\ o \in planting
  /\ planting' = planting \ {o}
  /\ locks' = [k \in LockKeys |->
       IF k \in ThreadLock(thread[o]) /\ locks[k] = None THEN o ELSE locks[k]]
  /\ UNCHANGED <<row, sched, task, worker>>

-----------------------------------------------------------------------------
(* The life of a worker.                                                   *)

Idle == [o \in Operations |-> "none"]
EndLoop == up' = FALSE /\ loop' = "idle" /\ todo' = {} /\ chosen' = None

\* recover_startup_operations, for operations without a turn.
RecoveredQueued == {o \in Operations : status[o] = "queued" /\ lease[o] \in {"free", "expired"}}
Recovered == {o \in Operations : status[o] \in STARTABLE /\ lease[o] \in {"free", "expired"}}

Start ==
  /\ ~up /\ starts < MaxStarts
  /\ QuickRestart \/ \A o \in Operations : lease[o] # "dead"
  /\ up' = TRUE /\ starts' = starts + 1
  /\ status' = [o \in Operations |-> IF o \in Recovered THEN "queued" ELSE status[o]]
  /\ lease' = [o \in Operations |-> IF o \in Recovered THEN "free" ELSE lease[o]]
  /\ UNCHANGED <<ask, thread, turn, attempts, backoff, sched, locks, task,
                 loop, todo, chosen, planting>>

\* The last worker that is started stays.
MayGo == up /\ starts < MaxStarts

Crash ==
  /\ MayGo
  /\ EndLoop
  /\ task' = Idle
  /\ lease' = [o \in Operations |-> IF lease[o] = "held" THEN "dead" ELSE lease[o]]
  /\ UNCHANGED <<ask, status, thread, turn, attempts, backoff, sched, locks,
                 starts, planting>>

LeaseExpires(o) ==
  /\ lease[o] = "dead"
  /\ lease' = [lease EXCEPT ![o] = "expired"]
  /\ UNCHANGED <<ask, status, thread, turn, attempts, backoff, sched, locks, task,
                 worker, planting>>

\* close() cancels the tasks; each runs its handler and its finally branch, but
\* one that has not taken its first step.
Stop ==
  /\ MayGo /\ loop = "idle"
  /\ EndLoop
  /\ LET alive == {o \in Operations : task[o] \notin {"none", "spawned"}}
         acting == {o \in Operations : task[o] = "acting"}
         done == [o \in Operations |-> IF o \in acting THEN "queued" ELSE status[o]]
     IN /\ status' = done
        /\ locks' = WithoutLocksOf({o \in alive : done[o] # "running"})
        /\ lease' = [o \in Operations |-> IF o \in alive THEN "free" ELSE lease[o]]
        /\ sched' = [o \in Operations |->
             IF o \notin alive THEN sched[o]
             ELSE IF done[o] \in STARTABLE THEN "queued" ELSE done[o]]
  /\ task' = Idle
  /\ UNCHANGED <<ask, thread, turn, attempts, backoff, starts, planting>>

\* RESOURCE_LOCK_TTL_SECONDS: six hours, more than a turn, a lease or a backoff
\* takes.  They pass when nothing else can happen.
Quiet == /\ up /\ loop = "idle"
         /\ \A o \in Operations : task[o] = "none" /\ ~backoff[o] /\ lease[o] = "free"
                                  /\ turn[o] # "active"
         /\ \A o \in Startable : ~MayStart(o)

LocksExpire(o) ==
  /\ Quiet
  /\ \E k \in LockKeys : locks[k] = o
  /\ locks' = WithoutLocksOf({o})
  /\ UNCHANGED <<row, sched, task, worker, planting>>

-----------------------------------------------------------------------------

Pass == BeginPass \/ Claim \/ EndPass \/ \E o \in Operations : Consider(o)

Attempt(o) == LearnThread(o) \/ TurnStarts(o) \/ ControlDone(o) \/ AttemptFails(o)
Work(o) == Acquire(o) \/ Attempt(o) \/ Finish(o) \/ ReportBack(o)

Next ==
  \/ Pass \/ Start \/ Crash \/ Stop
  \/ \E o \in Operations :
       \/ Work(o) \/ BackoffElapses(o) \/ TurnEnds(o)
       \/ Submit(o) \/ Reconcile(o) \/ Poll(o) \/ Plant(o) \/ LeaseExpires(o) \/ LocksExpire(o)

\* What passes with time: an attempt, a lease, a backoff, a turn come to their
\* end, and somebody polls an operation whose turn is over.  Each of these steps
\* happens a bounded number of times, so fairness of their disjunction is that of
\* each; a task gets its turn between two passes.  Locks are left to expire of
\* operations that still wait; those of the others have to be deleted.
Settles(o) == BackoffElapses(o) \/ LeaseExpires(o) \/ TurnEnds(o) \/ Reconcile(o)

Fairness ==
  /\ WF_vars(Pass) /\ WF_vars(Start)
  /\ SF_vars(\E o \in Operations : Work(o))
  /\ WF_vars(\E o \in Operations : Settles(o))
  /\ \A o \in Operations : SF_vars(status[o] \in STARTABLE /\ LocksExpire(o))

Spec == Init /\ [][Next]_vars
FairSpec == Spec /\ Fairness

-----------------------------------------------------------------------------

TypeOK ==
  /\ ask \in [Operations -> Requests]
  /\ status \in [Operations -> Statuses]
  /\ thread \in [Operations -> Threads \cup Operations \cup {None}]
  /\ turn \in [Operations -> {"none", "active", "over"}]
  /\ attempts \in [Operations -> 0..MaxAttempts]
  /\ backoff \in [Operations -> BOOLEAN]
  /\ lease \in [Operations -> Leases]
  /\ sched \in [Operations -> QueueStatuses]
  /\ locks \in [LockKeys -> Operations \cup {None}]
  /\ task \in [Operations -> Places]
  /\ up \in BOOLEAN /\ starts \in 0..MaxStarts
  /\ loop \in {"idle", "pass", "claim"}
  /\ todo \subseteq Operations /\ chosen \in Operations \cup {None}
  /\ planting \subseteq Operations

\* An operation that takes a slot and is under way.
Busy(o) == ask[o].slot /\ (task[o] = "acting" \/ turn[o] = "active")

\* The limits of docs/API_CONTRACT.md:154-157 hold whatever a pass finds when it
\* looks and whenever attempts fail, turns end and workers are replaced.
SlotsRespected ==
  LET BusyOnes == {o \in Operations : Busy(o)}
  IN /\ Cardinality(BusyOnes) <= MaxGlobal
     /\ \A o \in Operations :
          /\ Cardinality(InProject(BusyOnes, o)) <= MaxPerProject
          /\ Cardinality(InAgent(BusyOnes, o)) <= MaxPerAgent
          /\ thread[o] # None => Cardinality(InThread(BusyOnes, thread[o])) <= MaxPerThread

\* "Without resource_keys, the worker takes a broad project:<cwd>:write lock.
\* With disjoint resource_keys, write turns in one project may run in parallel"
\* (docs/API_CONTRACT.md:167-170): of two writes under way in a project, the keys
\* are disjoint and not both missing.  A write with keys and one without are not
\* kept apart by the code.
WritesExclude ==
  \A o, p \in Operations :
    /\ o # p /\ Busy(o) /\ Busy(p)
    /\ ask[o].write /\ ask[p].write /\ ask[o].project = ask[p].project
    => /\ ask[o].keys \cap ask[p].keys = {}
       /\ ask[o].keys # {} \/ ask[p].keys # {}

\* While an operation is attempted, and while its turn runs, it holds its write
\* locks, whatever polls, passes, retries and restarts do to lock rows meanwhile.
RunningHoldsItsLocks ==
  \A o \in Operations : Busy(o) => \A k \in WriteLocks(o) : locks[k] = o

\* An operation whose last attempt was cut short is never listed again, and a
\* worker, unlike a poll of an inline process, does not fail it.
Stranded(o) == status[o] \in STARTABLE /\ Spent(o) /\ task[o] = "none"

\* Slots and locks are given back in time: again and again there is nothing left
\* to start ("Recovery after MCP restart during thread/start or turn/start",
\* README.md:94), unless an operation is stranded, whose slot and locks are never
\* given back.  As operations are submitted once and attempts are counted, this
\* is to say that every operation is started or ends.
EveryOperationStarts ==
  []<>((\A o \in Operations : status[o] \notin STARTABLE) \/ \E o \in Operations : Stranded(o))

\* What a late poll or a late report leaves behind is cleaned up: again and again
\* the operations that are over hold no locks and their scheduling rows say so.
EndedLeavesNothing ==
  []<>(\A o \in Operations :
         status[o] = "over" => sched[o] = "over" /\ \A k \in LockKeys : locks[k] # o)
=============================================================================

--------------------------- MODULE OperationQueue ---------------------------
(***************************************************************************)
(* The durable operation queue: rows of codex_operations shared by several *)
(* MCP processes, the lease that elects the process which runs a row, the  *)
(* attempt counter, the chain of app-server requests an attempt makes, and *)
(* what each process does to a row when it starts, polls, fails, is        *)
(* cancelled or dies.                                                      *)
(*                                                                         *)
(* A process is one incarnation: worker_owner is a fresh uuid, so a        *)
(* restarted server is another element of Workers.  One step is one SQLite *)
(* transaction or one run of an asyncio task between two awaits; where the *)
(* code makes several writes in one such run and only the last one is read *)
(* by anybody, the step makes them together.                               *)
(*                                                                         *)
(* Next to some operators stands a variant no action uses, named for the   *)
(* slip it makes (AcquireIgnoringLease, CountFirstOnly, ...): put in place *)
(* of the operator that follows it, it breaks the property README.md names.*)
(***************************************************************************)
EXTENDS Integers, FiniteSets, Sequences

CONSTANTS
  Ops,            \* operation ids
  Workers,        \* process incarnations
  InlineWorkers,  \* those with execution_mode "inline": every poll schedules
  Kinds,          \* operation types a client submits in this instance
  MaxAttempts,    \* codex_operations.max_attempts
  MaxLive,        \* processes that run at the same time
  MaxStalls,      \* times a live process misses heartbeats for a whole TTL
  RecoveryRaces,  \* may others run between recovery's SELECT and its UPDATEs?
  NoWorker        \* lease_owner IS NULL

AllKinds == {"start_chat", "send", "fork", "fork_msg", "review", "steer"}
ForkKinds == {"fork", "fork_msg"}

ASSUME ConstantsAssumption ==
  /\ InlineWorkers \subseteq Workers
  /\ IsFiniteSet(Workers)
  /\ Kinds \subseteq AllKinds
  /\ MaxAttempts \in Nat \ {0}
  /\ MaxLive \in Nat \ {0}
  /\ MaxStalls \in Nat
  /\ RecoveryRaces \in BOOLEAN
  /\ NoWorker \notin Workers

STARTABLE == {"queued", "starting_app_server", "starting_thread",
              "starting_review", "starting_turn"}
TURN_TERMINAL == {"completed", "failed", "unknown"}
TERMINAL == {"completed", "failed", "unknown"}
Statuses == STARTABLE \cup {"running"} \cup TERMINAL

VARIABLES
  kind,         \* operation_type, "none" before the row exists
  status,
  threadId,     \* is the thread the first turn goes to recorded in the row?
  turnId,       \* recorded turn: an index into turns[o], 0 for NULL
  attemptCount,
  leaseOwner,
  lease,        \* "none", "live", or "expired" (lease_expires_at <= now)
  nextAttempt,  \* next_attempt_at lies in the future
  attempted,    \* _fork_start_attempted / _review_start_attempted
  turns,        \* every turn the app-servers started for the operation
  made,         \* how often an app-server executed each request
  delivered,    \* turn/steer was acknowledged to the process that sent it
  proc,         \* "new", "recovering", "up" or "dead"
  pc,           \* where each process is in _run_operation for each operation
  reply,        \* result of the outstanding request, 0 while there is none
  sawThread,    \* thread_id in the row the running attempt read
  scan,         \* rows a starting process selected for recovery
  stalls        \* leases of live processes that lapsed so far

row == <<kind, status, threadId, turnId, attemptCount, leaseOwner, lease,
         nextAttempt, attempted>>
world == <<turns, made, delivered>>
task == <<pc, reply, sawThread>>
life == <<proc, scan, stalls>>
vars == <<row, world, task, life>>

Requests == {"thread", "fork", "resume", "turn", "review", "steer"}
Effects == Requests \ {"resume"}
Busy == {"leased", "app", "reg", "raise", "lost"} \cup Requests
Steps == {"idle", "spawned", "missed", "fin"} \cup Busy

Turn == [host: Workers, st: {"untracked", "running"} \cup TURN_TERMINAL, live: BOOLEAN]
ScanRow == [op: Ops, threadId: BOOLEAN, turnId: Nat, attempted: BOOLEAN]

-----------------------------------------------------------------------------

Startable(o) == status[o] \in STARTABLE
Terminal(o) == status[o] \in TERMINAL
Executing(w, o) == pc[w][o] \in Busy
Exhausted(o) == attemptCount[o] >= MaxAttempts
LeaseFree(o) == lease[o] # "live"
ThreadBusy(o) == \E k \in 1..Len(turns[o]) : turns[o][k].st = "running"

Live == {w \in Workers : proc[w] \in {"recovering", "up"}}

SetStatus(o, s) == status' = [status EXCEPT ![o] = s]
Goto(w, o, p) == pc' = [pc EXCEPT ![w][o] = p]
ClearLease(o) == /\ leaseOwner' = [leaseOwner EXCEPT ![o] = NoWorker]
                 /\ lease' = [lease EXCEPT ![o] = "none"]

\* release_operation_lease: only the recorded owner releases.
ReleaseLease(w, o) == IF leaseOwner[o] = w THEN ClearLease(o)
                                           ELSE UNCHANGED <<leaseOwner, lease>>

\* The two durable markers of a request that must not be repeated blindly.
ForkFinished(o, thread) == kind[o] = "fork" /\ thread
OutcomeUnknown(o, thread, tried) ==
  /\ tried
  /\ \/ kind[o] \in ForkKinds /\ ~thread
     \/ kind[o] = "review"

Init ==
  /\ kind = [o \in Ops |-> "none"]
  /\ status = [o \in Ops |-> "queued"]
  /\ threadId = [o \in Ops |-> FALSE]
  /\ turnId = [o \in Ops |-> 0]
  /\ attemptCount = [o \in Ops |-> 0]
  /\ leaseOwner = [o \in Ops |-> NoWorker]
  /\ lease = [o \in Ops |-> "none"]
  /\ nextAttempt = [o \in Ops |-> FALSE]
  /\ attempted = [o \in Ops |-> FALSE]
  /\ turns = [o \in Ops |-> <<>>]
  /\ made = [o \in Ops |-> [e \in Effects |-> 0]]
  /\ delivered = [o \in Ops |-> FALSE]
  /\ proc = [w \in Workers |-> "new"]
  /\ pc = [w \in Workers |-> [o \in Ops |-> "idle"]]
  /\ reply = [w \in Workers |-> [o \in Ops |-> 0]]
  /\ sawThread = [w \in Workers |-> [o \in Ops |-> FALSE]]
  /\ scan = [w \in Workers |-> {}]
  /\ stalls = 0

-----------------------------------------------------------------------------
(* A client submits.  A steer row is created with the turn it targets,     *)
(* which some running process hosts; a review may name its source thread.  *)

ThreadGiven(k) == IF k = "review" THEN BOOLEAN ELSE {k \in {"send", "steer"}}

Submit(o, k) ==
  /\ kind[o] = "none"
  /\ \E w \in Workers :
       /\ proc[w] = "up"
       /\ IF k = "steer"
          THEN /\ turns' = [turns EXCEPT ![o] =
                              <<[host |-> w, st |-> "running", live |-> TRUE]>>]
               /\ turnId' = [turnId EXCEPT ![o] = 1]
          ELSE UNCHANGED <<turns, turnId>>
  /\ kind' = [kind EXCEPT ![o] = k]
  /\ \E given \in ThreadGiven(k) : threadId' = [threadId EXCEPT ![o] = given]
  /\ UNCHANGED <<status, attemptCount, leaseOwner, lease, nextAttempt,
                 attempted, made, delivered, task, life>>

-----------------------------------------------------------------------------
(* recover_startup_operations, in the constructor of a process that        *)
(* executes: a SELECT, then UPDATEs by id in one transaction, which do not *)
(* look at the rows again.  If recovery does not race, they are one step.  *)

RecoverableRows ==
  {[op |-> o, threadId |-> threadId[o], turnId |-> turnId[o],
    attempted |-> attempted[o]] :
     o \in {p \in Ops : kind[p] # "none" /\ Startable(p) /\ LeaseFree(p)}}

RecoverAsOrphan(r) == IF r.turnId # 0 THEN "running" ELSE "orphaned"
RecoverByThread(r) == IF r.threadId THEN "running" ELSE "queued"
RecoveredStatus(r) ==
  IF r.turnId # 0 THEN "running"
  ELSE IF ForkFinished(r.op, r.threadId) THEN "completed"
  ELSE IF OutcomeUnknown(r.op, r.threadId, r.attempted) THEN "unknown"
  ELSE "queued"

Recover(rows) ==
  LET hit(o) == \E r \in rows : r.op = o
      new(o) == RecoveredStatus(CHOOSE r \in rows : r.op = o)
  IN
  /\ status' = [o \in Ops |-> IF hit(o) THEN new(o) ELSE status[o]]
  /\ leaseOwner' = [o \in Ops |-> IF hit(o) THEN NoWorker ELSE leaseOwner[o]]
  /\ lease' = [o \in Ops |-> IF hit(o) THEN "none" ELSE lease[o]]
  /\ nextAttempt' = [o \in Ops |-> nextAttempt[o] /\ (hit(o) => new(o) = "queued")]
  /\ UNCHANGED <<kind, threadId, turnId, attemptCount, attempted>>

RoomToStart(w) == proc[w] = "new" /\ Cardinality(Live) < MaxLive

StartAndRecover(w) ==
  /\ ~RecoveryRaces
  /\ RoomToStart(w)
  /\ Recover(RecoverableRows)
  /\ proc' = [proc EXCEPT ![w] = "up"]
  /\ UNCHANGED <<world, task, scan, stalls>>

RecoverScan(w) ==
  /\ RecoveryRaces
  /\ RoomToStart(w)
  /\ proc' = [proc EXCEPT ![w] = "recovering"]
  /\ scan' = [scan EXCEPT ![w] = RecoverableRows]
  /\ UNCHANGED <<row, world, task, stalls>>

RecoverApply(w) ==
  /\ proc[w] = "recovering"
  /\ Recover(scan[w])
  /\ proc' = [proc EXCEPT ![w] = "up"]
  /\ scan' = [scan EXCEPT ![w] = {}]
  /\ UNCHANGED <<world, task, stalls>>

-----------------------------------------------------------------------------
(* Scheduling.  Every pass reads list_startable_operations; an inline      *)
(* process also tries the very operation a client asks about.              *)

MayScheduleTwice(w, o) == proc[w] = "up"
MaySchedule(w, o) == proc[w] = "up" /\ pc[w][o] = "idle"

ScheduleListed(w, o) ==
  /\ MaySchedule(w, o)
  /\ kind[o] # "none" /\ Startable(o)
  /\ ~Exhausted(o) /\ ~nextAttempt[o] /\ LeaseFree(o)
  /\ Goto(w, o, "spawned")
  /\ UNCHANGED <<row, world, reply, sawThread, life>>

SchedulePolled(w, o) ==
  /\ MaySchedule(w, o) /\ w \in InlineWorkers
  /\ kind[o] # "none" /\ Startable(o)
  /\ ~(Exhausted(o) /\ turnId[o] = 0)
  /\ Goto(w, o, "spawned")
  /\ UNCHANGED <<row, world, reply, sawThread, life>>

\* mark_operation_failed_if_attempts_exhausted looks at neither lease column.
NeverFail(o) == FALSE
MustFail(o) == kind[o] # "none" /\ Startable(o) /\ turnId[o] = 0 /\ Exhausted(o)
FailRow(o) == SetStatus(o, "failed") /\ ClearLease(o)

FailPolled(w, o) ==
  /\ MaySchedule(w, o) /\ w \in InlineWorkers
  /\ MustFail(o)
  /\ FailRow(o)
  /\ UNCHANGED <<kind, threadId, turnId, attemptCount, nextAttempt, attempted,
                 world, task, life>>

AcquireIgnoringLease(w, o) == Startable(o) /\ ~Exhausted(o) /\ ~nextAttempt[o]
AcquireForever(w, o) == Startable(o) /\ LeaseFree(o)
MayAcquire(w, o) == /\ Startable(o) /\ ~Exhausted(o) /\ ~nextAttempt[o]
                    /\ LeaseFree(o) \/ leaseOwner[o] = w

Acquire(w, o) ==
  /\ pc[w][o] = "spawned"
  /\ MayAcquire(w, o)
  /\ leaseOwner' = [leaseOwner EXCEPT ![o] = w]
  /\ lease' = [lease EXCEPT ![o] = "live"]
  /\ Goto(w, o, "leased")
  /\ UNCHANGED <<kind, status, threadId, turnId, attemptCount, nextAttempt,
                 attempted, world, reply, sawThread, life>>

Miss(w, o) ==
  /\ pc[w][o] = "spawned"
  /\ ~MayAcquire(w, o)
  /\ Goto(w, o, "missed")
  /\ UNCHANGED <<row, world, reply, sawThread, life>>

AfterMiss(w, o) ==
  /\ pc[w][o] = "missed"
  /\ Goto(w, o, "idle")
  /\ IF MustFail(o) THEN FailRow(o)
                    ELSE UNCHANGED <<status, leaseOwner, lease>>
  /\ UNCHANGED <<kind, threadId, turnId, attemptCount, nextAttempt, attempted,
                 world, reply, sawThread, life>>

-----------------------------------------------------------------------------
(* The attempt, from the lease to the first await.                         *)

\* A row that already has its turn is only repaired; no attempt is counted.
AdoptTurn(w, o) ==
  /\ pc[w][o] = "leased"
  /\ turnId[o] # 0 /\ kind[o] # "steer"
  /\ SetStatus(o, "running")
  /\ nextAttempt' = [nextAttempt EXCEPT ![o] = FALSE]
  /\ ReleaseLease(w, o)
  /\ Goto(w, o, "idle")
  /\ UNCHANGED <<kind, threadId, turnId, attemptCount, attempted, world, reply,
                 sawThread, life>>

CountFirstOnly(o) == 1
AttemptNumber(o) == attemptCount[o] + 1

\* _mark_fork_start_unknown_after_attempt, and its twin for reviews
MarkUnknown(o) == SetStatus(o, "unknown")

BeginAttempt(w, o) ==
  /\ pc[w][o] = "leased"
  /\ turnId[o] = 0 \/ kind[o] = "steer"
  /\ attemptCount' = [attemptCount EXCEPT ![o] = AttemptNumber(o)]
  /\ nextAttempt' = [nextAttempt EXCEPT ![o] = FALSE]
  /\ sawThread' = [sawThread EXCEPT ![w][o] = threadId[o]]
  /\ IF ForkFinished(o, threadId[o])
     THEN SetStatus(o, "completed") /\ Goto(w, o, "fin")
     ELSE IF OutcomeUnknown(o, threadId[o], attempted[o])
     THEN MarkUnknown(o) /\ Goto(w, o, "fin")
     ELSE SetStatus(o, "starting_app_server") /\ Goto(w, o, "app")
  /\ UNCHANGED <<kind, threadId, turnId, leaseOwner, lease, attempted, world,
                 reply, life>>

-----------------------------------------------------------------------------
(* The requests.  Request(w, o, r, s) records status s and sends r; fork   *)
(* and review first write their attempted marker.                          *)

Request(w, o, r, s) ==
  /\ SetStatus(o, s)
  /\ attempted' = [attempted EXCEPT ![o] = @ \/ r \in {"fork", "review"}]
  /\ Goto(w, o, r)
  /\ reply' = [reply EXCEPT ![w][o] = 0]

Raise(w, o, s) ==
  /\ SetStatus(o, s)
  /\ Goto(w, o, "raise")
  /\ reply' = [reply EXCEPT ![w][o] = 0]
  /\ UNCHANGED attempted

\* A thread that runs a turn refuses another one.
Resume(w, o, s) == IF ThreadBusy(o) THEN Raise(w, o, s)
                                    ELSE Request(w, o, "resume", s)

\* _app() returned: the request each kind starts with.
AppIsReady(w, o, kinds) ==
  /\ pc[w][o] = "app" /\ kind[o] \in kinds
  /\ UNCHANGED <<kind, threadId, turnId, attemptCount, leaseOwner, lease,
                 nextAttempt, world, sawThread, life>>

\* Whether this attempt still needs the thread its first turn goes to.
NeedsThreadAlways(w, o) == kind[o] \notin {"send", "steer"}
NeedsThread(w, o) == ~sawThread[w][o]

StartSteer(w, o) ==
  /\ AppIsReady(w, o, {"steer"})
  /\ IF turns[o][turnId[o]].st = "running"
     THEN Request(w, o, "steer", "starting_turn")
     ELSE Raise(w, o, "starting_turn")

StartThread(w, o) ==
  /\ AppIsReady(w, o, {"start_chat", "review"}) /\ NeedsThread(w, o)
  /\ Request(w, o, "thread", "starting_thread")

StartFork(w, o) ==
  /\ AppIsReady(w, o, ForkKinds) /\ NeedsThread(w, o)
  /\ Request(w, o, "fork", "starting_thread")

StartReview(w, o) ==
  /\ AppIsReady(w, o, {"review"}) /\ ~NeedsThread(w, o)
  /\ IF ThreadBusy(o) THEN Raise(w, o, "starting_app_server")
                      ELSE Request(w, o, "review", "starting_review")

StartMessage(w, o) ==
  /\ AppIsReady(w, o, {"start_chat", "send", "fork_msg"}) /\ ~NeedsThread(w, o)
  /\ Resume(w, o, IF kind[o] = "fork_msg" THEN "starting_turn" ELSE "starting_thread")

AppFails(w, o) ==
  /\ pc[w][o] = "app"
  /\ Goto(w, o, "raise")
  /\ UNCHANGED <<row, world, reply, sawThread, life>>

\* The app-server executes the outstanding request of a process.  A request
\* executed after its caller gave up is one executed just before.
ServerExecutes(w, o) ==
  /\ proc[w] = "up"
  /\ pc[w][o] \in Requests /\ reply[w][o] = 0
  /\ pc[w][o] = "steer" => /\ turns[o][turnId[o]].live
                           /\ turns[o][turnId[o]].host = w
  /\ made' = [made EXCEPT ![o] = [e \in Effects |-> @[e] + IF e = pc[w][o] THEN 1 ELSE 0]]
  /\ IF pc[w][o] \in {"turn", "review"}
     THEN /\ turns' = [turns EXCEPT ![o] =
                         Append(@, [host |-> w, st |-> "untracked", live |-> TRUE])]
          /\ reply' = [reply EXCEPT ![w][o] = Len(turns[o]) + 1]
     ELSE /\ reply' = [reply EXCEPT ![w][o] = 1]
          /\ UNCHANGED turns
  /\ UNCHANGED <<row, delivered, pc, sawThread, life>>

ThreadReply(w, o) ==
  /\ pc[w][o] = "thread" /\ reply[w][o] # 0
  /\ threadId' = [threadId EXCEPT ![o] = TRUE]
  /\ IF kind[o] = "review" THEN Request(w, o, "review", "starting_review")
                           ELSE Request(w, o, "turn", "starting_turn")
  /\ UNCHANGED <<kind, turnId, attemptCount, leaseOwner, lease, nextAttempt,
                 world, sawThread, life>>

ForkReply(w, o) ==
  /\ pc[w][o] = "fork" /\ reply[w][o] # 0
  /\ threadId' = [threadId EXCEPT ![o] = TRUE]
  /\ nextAttempt' = [nextAttempt EXCEPT ![o] = FALSE]
  /\ IF kind[o] = "fork"
     THEN /\ SetStatus(o, "completed")
          /\ Goto(w, o, "fin")
          /\ UNCHANGED <<attempted, reply>>
     ELSE Resume(w, o, "starting_turn")
  /\ UNCHANGED <<kind, turnId, attemptCount, leaseOwner, lease, world,
                 sawThread, life>>

ResumeReply(w, o) ==
  /\ pc[w][o] = "resume" /\ reply[w][o] # 0
  /\ Request(w, o, "turn", "starting_turn")
  /\ UNCHANGED <<kind, threadId, turnId, attemptCount, leaseOwner, lease,
                 nextAttempt, world, sawThread, life>>

\* register_turn keeps a terminal status an earlier event recorded.
TurnReply(w, o) ==
  /\ pc[w][o] \in {"turn", "review"} /\ reply[w][o] # 0
  /\ turns' = [turns EXCEPT ![o][reply[w][o]].st =
                 IF @ = "untracked" THEN "running" ELSE @]
  /\ Goto(w, o, "reg")
  /\ UNCHANGED <<row, made, delivered, reply, sawThread, life>>

PersistTurn(w, o) ==
  /\ pc[w][o] = "reg"
  /\ SetStatus(o, "running")
  /\ turnId' = [turnId EXCEPT ![o] = reply[w][o]]
  /\ nextAttempt' = [nextAttempt EXCEPT ![o] = FALSE]
  /\ Goto(w, o, "fin")
  /\ UNCHANGED <<kind, threadId, attemptCount, leaseOwner, lease, attempted,
                 world, reply, sawThread, life>>

SteerReply(w, o) ==
  /\ pc[w][o] = "steer" /\ reply[w][o] # 0
  /\ SetStatus(o, "running")
  /\ delivered' = [delivered EXCEPT ![o] = TRUE]
  /\ nextAttempt' = [nextAttempt EXCEPT ![o] = FALSE]
  /\ Goto(w, o, "fin")
  /\ UNCHANGED <<kind, threadId, turnId, attemptCount, leaseOwner, lease,
                 attempted, turns, made, reply, sawThread, life>>

\* A definite error answers the request, or the wait for the answer ends.
RequestRefused(w, o) ==
  /\ pc[w][o] \in Requests /\ reply[w][o] = 0
  /\ Goto(w, o, "raise")
  /\ UNCHANGED <<row, world, reply, sawThread, life>>

RequestTimesOut(w, o) ==
  /\ pc[w][o] \in Requests
  /\ Goto(w, o, "lost")
  /\ UNCHANGED <<row, world, reply, sawThread, life>>

-----------------------------------------------------------------------------
(* The except and finally branches of _run_operation.                      *)

HandleError(w, o) ==
  LET retry == ~Exhausted(o)
      guarded == attempted[o] /\ kind[o] \in ForkKinds \cup {"review"}
      next == IF turnId[o] # 0 THEN "running"
              ELSE IF guarded
              THEN IF kind[o] = "review" /\ pc[w][o] = "raise" THEN "failed"
                                                              ELSE "unknown"
              ELSE IF retry THEN "queued" ELSE "failed"
  IN
  /\ pc[w][o] \in {"raise", "lost"}
  /\ SetStatus(o, next)
  /\ nextAttempt' = [nextAttempt EXCEPT ![o] = next = "queued"]
  /\ ReleaseLease(w, o)
  /\ Goto(w, o, "fin")
  /\ UNCHANGED <<kind, threadId, turnId, attemptCount, attempted, world, reply,
                 sawThread, life>>

Finish(w, o) ==
  /\ pc[w][o] = "fin"
  /\ ReleaseLease(w, o)
  /\ Goto(w, o, "idle")
  /\ reply' = [reply EXCEPT ![w][o] = 0]
  /\ UNCHANGED <<kind, status, threadId, turnId, attemptCount, nextAttempt,
                 attempted, world, sawThread, life>>

-----------------------------------------------------------------------------
(* Time.                                                                   *)

Heartbeat(w, o) ==
  /\ Executing(w, o) /\ pc[w][o] # "leased"
  /\ leaseOwner[o] = w /\ lease[o] = "expired"
  /\ lease' = [lease EXCEPT ![o] = "live"]
  /\ UNCHANGED <<kind, status, threadId, turnId, attemptCount, leaseOwner,
                 nextAttempt, attempted, world, task, life>>

ExpireDead(o) ==
  /\ lease[o] = "live" /\ proc[leaseOwner[o]] = "dead"
  /\ lease' = [lease EXCEPT ![o] = "expired"]
  /\ UNCHANGED <<kind, status, threadId, turnId, attemptCount, leaseOwner,
                 nextAttempt, attempted, world, task, life>>

ExpireStalled(o) ==
  /\ lease[o] = "live" /\ proc[leaseOwner[o]] = "up"
  /\ stalls < MaxStalls
  /\ stalls' = stalls + 1
  /\ lease' = [lease EXCEPT ![o] = "expired"]
  /\ UNCHANGED <<kind, status, threadId, turnId, attemptCount, leaseOwner,
                 nextAttempt, attempted, world, task, proc, scan>>

BackoffElapses(o) ==
  /\ nextAttempt[o]
  /\ nextAttempt' = [nextAttempt EXCEPT ![o] = FALSE]
  /\ UNCHANGED <<kind, status, threadId, turnId, attemptCount, leaseOwner,
                 lease, attempted, world, task, life>>

-----------------------------------------------------------------------------
(* Turns, and the rows that follow them.                                   *)

\* turn/started, or any later event of a turn another process wrote off.
TurnEvent(o, k) ==
  /\ turns[o][k].live /\ turns[o][k].st \in {"untracked", "unknown"}
  /\ turns' = [turns EXCEPT ![o][k].st = "running"]
  /\ UNCHANGED <<row, made, delivered, task, life>>

TurnEnds(o, k, s) ==
  /\ turns[o][k].live
  /\ turns' = [turns EXCEPT ![o][k].st = s, ![o][k].live = FALSE]
  /\ UNCHANGED <<row, made, delivered, task, life>>

\* _reconcile_operation_with_turn, run by every status poll of any process.
Reconcile(o) ==
  LET t == turns[o][turnId[o]].st
      next == IF t \in TURN_TERMINAL THEN t
              ELSE IF Startable(o) THEN status[o] ELSE "running"
  IN
  /\ turnId[o] # 0 /\ t # "untracked"
  /\ ~(kind[o] = "steer" /\ Startable(o))
  /\ next # status[o]
  /\ SetStatus(o, next)
  /\ UNCHANGED <<kind, threadId, turnId, attemptCount, leaseOwner, lease,
                 nextAttempt, attempted, world, task, life>>

StaleEvenIfOver(o) == kind[o] # "none" /\ LeaseFree(o)
Stale(o) == kind[o] # "none" /\ Startable(o) /\ LeaseFree(o)

\* The recover_stale_operations repair, on a row older than the threshold.
RepairStale(o) ==
  /\ Stale(o)
  /\ SetStatus(o, IF turnId[o] # 0 THEN "running" ELSE "queued")
  /\ ClearLease(o)
  /\ nextAttempt' = [nextAttempt EXCEPT ![o] = FALSE]
  /\ UNCHANGED <<kind, threadId, turnId, attemptCount, attempted, world, task,
                 life>>

-----------------------------------------------------------------------------
(* Ends of app-servers and of processes.                                   *)

TurnRefs == UNION {{<<o, k>> : k \in 1..Len(turns[o])} : o \in Ops}
Hosted(w) == {r \in TurnRefs : turns[r[1]][r[2]].host = w /\ turns[r[1]][r[2]].live}

\* mark_active_turns_unknown reads the running turns of the whole database and
\* spares those of another generation.  A generation counts the app-servers one
\* process started, so it may also be that of other processes (same).
Aged(t, w, off) == [host |-> t.host,
                    st |-> IF off /\ t.st = "running" THEN "unknown" ELSE t.st,
                    live |-> t.live /\ t.host # w]

WriteOff(w, same) ==
  turns' = [o \in Ops |-> [k \in 1..Len(turns[o]) |->
     Aged(turns[o][k], w, <<o, k>> \in Hosted(w) \/ turns[o][k].host \in same)]]

\* stdout of the app-server closes.  Futures already resolved (answered) keep
\* their result; every other outstanding request ends in "stdout closed".
ServerExit(w) ==
  /\ proc[w] = "up"
  /\ Hosted(w) # {} \/ \E o \in Ops : pc[w][o] \in Requests
  /\ \E same \in SUBSET (Workers \ {w}) : WriteOff(w, same)
  /\ \E answered \in SUBSET {o \in Ops : pc[w][o] \in Requests /\ reply[w][o] # 0} :
       pc' = [pc EXCEPT ![w] = [o \in Ops |->
                IF @[o] \in Requests /\ o \notin answered THEN "lost" ELSE @[o]]]
  /\ UNCHANGED <<row, made, delivered, reply, sawThread, life>>

Stop(w) ==
  /\ proc' = [proc EXCEPT ![w] = "dead"]
  /\ pc' = [pc EXCEPT ![w] = [o \in Ops |-> "idle"]]
  /\ reply' = [reply EXCEPT ![w] = [o \in Ops |-> 0]]
  /\ scan' = [scan EXCEPT ![w] = {}]

\* Some process of the deployment outlives every other one.
Survivor(w) == \E v \in Workers \ {w} : proc[v] # "dead"

\* The process is killed; its app-server dies with it and nobody says so.
Crash(w) ==
  /\ proc[w] \in {"recovering", "up"} /\ Survivor(w)
  /\ Stop(w)
  /\ turns' = [o \in Ops |-> [k \in 1..Len(turns[o]) |-> Aged(turns[o][k], w, FALSE)]]
  /\ UNCHANGED <<row, made, delivered, sawThread, stalls>>

\* close(): every task is cancelled where it awaits, then the app-server stops.
Shutdown(w) ==
  LET cut(o) == pc[w][o] \in {"app"} \cup Requests
      next(o) == IF turnId[o] # 0 THEN "running"
                 ELSE IF kind[o] = "review" /\ attempted[o] THEN "unknown"
                 ELSE "queued"
      free(o) == (cut(o) \/ pc[w][o] = "fin") /\ leaseOwner[o] = w
  IN
  /\ proc[w] = "up" /\ Survivor(w)
  /\ \A o \in Ops : pc[w][o] \in {"idle", "spawned", "app", "fin"} \cup Requests
  /\ status' = [o \in Ops |-> IF cut(o) THEN next(o) ELSE status[o]]
  /\ nextAttempt' = [o \in Ops |-> nextAttempt[o] /\ ~(cut(o) /\ next(o) # "queued")]
  /\ leaseOwner' = [o \in Ops |-> IF free(o) THEN NoWorker ELSE leaseOwner[o]]
  /\ lease' = [o \in Ops |-> IF free(o) THEN "none" ELSE lease[o]]
  /\ \E same \in SUBSET (Workers \ {w}) : WriteOff(w, same)
  /\ Stop(w)
  /\ UNCHANGED <<kind, threadId, turnId, attemptCount, attempted, made,
                 delivered, sawThread, stalls>>

-----------------------------------------------------------------------------

Attempt(w, o) ==
  \/ Acquire(w, o) \/ Miss(w, o) \/ AfterMiss(w, o)
  \/ AdoptTurn(w, o) \/ BeginAttempt(w, o)
  \/ StartSteer(w, o) \/ StartThread(w, o) \/ StartFork(w, o)
  \/ StartReview(w, o) \/ StartMessage(w, o) \/ AppFails(w, o)
  \/ ServerExecutes(w, o)
  \/ ThreadReply(w, o) \/ ForkReply(w, o) \/ ResumeReply(w, o)
  \/ TurnReply(w, o) \/ PersistTurn(w, o) \/ SteerReply(w, o)
  \/ RequestRefused(w, o) \/ RequestTimesOut(w, o)
  \/ HandleError(w, o) \/ Finish(w, o)

Schedule(w, o) == ScheduleListed(w, o) \/ SchedulePolled(w, o) \/ FailPolled(w, o)

RowStep(o) ==
  \/ \E k \in Kinds : Submit(o, k)
  \/ ExpireDead(o) \/ ExpireStalled(o) \/ BackoffElapses(o)
  \/ \E k \in 1..Len(turns[o]) : \/ TurnEvent(o, k)
                                 \/ \E s \in {"completed", "failed"} : TurnEnds(o, k, s)
  \/ Reconcile(o) \/ RepairStale(o)

ProcessStep(w) ==
  \/ StartAndRecover(w) \/ RecoverScan(w) \/ RecoverApply(w)
  \/ ServerExit(w) \/ Crash(w) \/ Shutdown(w)

Next ==
  \/ \E w \in Workers : ProcessStep(w)
  \/ \E o \in Ops : RowStep(o)
  \/ \E w \in Workers, o \in Ops :
       Schedule(w, o) \/ Attempt(w, o) \/ Heartbeat(w, o)

Spec == Init /\ [][Next]_vars

\* What the deployment guarantees.  Tasks run, requests end in a result or a
\* timeout, clients keep polling, dead leases and backoffs run out, and a
\* process that was not started yet is started when there is room for it.
Fairness ==
  /\ \A w \in Workers : WF_vars(StartAndRecover(w) \/ RecoverScan(w) \/ RecoverApply(w))
  /\ \A w \in Workers, o \in Ops : WF_vars(Attempt(w, o)) /\ WF_vars(Schedule(w, o))
  /\ \A o \in Ops : WF_vars(ExpireDead(o)) /\ WF_vars(BackoffElapses(o))

FairSpec == Spec /\ Fairness

-----------------------------------------------------------------------------

RowTypes ==
  /\ kind \in [Ops -> AllKinds \cup {"none"}]
  /\ status \in [Ops -> Statuses]
  /\ threadId \in [Ops -> BOOLEAN]
  /\ turnId \in [Ops -> Nat]
  /\ attemptCount \in [Ops -> Nat]
  /\ leaseOwner \in [Ops -> Workers \cup {NoWorker}]
  /\ lease \in [Ops -> {"none", "live", "expired"}]
  /\ nextAttempt \in [Ops -> BOOLEAN]
  /\ attempted \in [Ops -> BOOLEAN]

ProcessTypes ==
  /\ proc \in [Workers -> {"new", "recovering", "up", "dead"}]
  /\ pc \in [Workers -> [Ops -> Steps]]
  /\ reply \in [Workers -> [Ops -> Nat]]
  /\ sawThread \in [Workers -> [Ops -> BOOLEAN]]
  /\ scan \in [Workers -> SUBSET ScanRow]
  /\ stalls \in Nat

WorldTypes ==
  /\ turns \in [Ops -> Seq(Turn)]
  /\ made \in [Ops -> [Effects -> Nat]]
  /\ delivered \in [Ops -> BOOLEAN]

TypeOK == RowTypes /\ ProcessTypes /\ WorldTypes

\* An operation is executed by one process at a time: "SQLite leases and
\* heartbeats for competing MCP processes" (README.md:93).
LeaseExclusion ==
  \A o \in Ops, v, w \in Workers : Executing(v, o) /\ Executing(w, o) => v = w

\* Crashes, restarts, repairs and retries together start no more attempts than
\* max_attempts, save one for every lease a live process let lapse.
AttemptsBounded == \A o \in Ops : attemptCount[o] <= MaxAttempts + stalls

\* A row says "running" only of a turn that was registered, and "completed" only
\* of a finished fork or of a turn that was seen to complete.
StatusHasEvidence ==
  \A o \in Ops :
    /\ status[o] = "running" => /\ turnId[o] \in 1..Len(turns[o])
                                /\ turns[o][turnId[o]].st # "untracked"
    /\ status[o] = "completed" =>
         \/ ForkFinished(o, threadId[o])
         \/ turnId[o] # 0 /\ turns[o][turnId[o]].st = "completed"

\* What the queue promises about effects on the app-server, as a specification
\* of its own: recorded effects are never asked for again, nothing is recorded
\* that was not executed, and the turn of an operation is never replaced.
Ledger == INSTANCE EffectLedger WITH
  Once <- {"fork", "review"}, thread <- threadId, turn <- turnId, acked <- delivered

ImplementsLedger == Ledger!Spec

\* No effect without an attempt to account for it, even if leases lapse and
\* recoveries race: an attempt asks for each thing at most once.
EffectsAreAccounted ==
  \A o \in Ops, e \in Effects : made[o][e] <= attemptCount[o]

\* An operation that ended without a turn is over: with one process at a time
\* nothing brings it back or changes the verdict.
EndedStaysEnded ==
  [][\A o \in Ops : Terminal(o) /\ turnId[o] = 0
       => status'[o] = status[o] /\ turnId'[o] = 0]_vars

\* Nobody executes an operation that is over: it failed because it "exhausted
\* max attempts before acquiring a worker lease" (operation_service.py:1833).
TerminalMeansIdle ==
  \A o \in Ops, w \in Workers : Terminal(o) /\ turnId[o] = 0 => ~Executing(w, o)

\* Every submitted operation leaves the startable statuses for good.
EverySubmissionSettles ==
  \A o \in Ops : kind[o] # "none" ~> [](kind[o] # "none" /\ ~Startable(o))

=============================================================================

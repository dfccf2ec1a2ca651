------------------------------- MODULE Recovery -------------------------------
(***************************************************************************)
(* Guided recovery: agent_guidance.py, codex_repair_issue and its repairs  *)
(* in diagnostic_service.py.  A status call tells an agent what to repair  *)
(* and whether the loop guard still allows it; an agent that obeys makes a *)
(* dry run first and goes on only if its result allows it too.  Counted    *)
(* attempts are rows of agent_guidance_attempts, one per scope and action. *)
(*                                                                         *)
(* Two repairs are modelled with what they change: the retry of a workflow *)
(* whose runtime policy made it fail, which starts a replacement, and the  *)
(* writing off of a workflow whose app-server is gone.                     *)
(***************************************************************************)
EXTENDS Naturals, Sequences, FiniteSets

CONSTANTS
  Agents,         \* clients that poll the workflows and obey the guidance
  Surfaces,       \* the status calls that guide them: "workflow", "operation"
  Window,         \* policy_for_action: windowSeconds, in ticks
  Cooldowns,      \* cooldown_after_attempt: after the first and the second attempt
  MaxAttempts,    \* policy_for_action: maxAttempts
  RetryKeys,      \* client_request_ids given to a retry; "default" derives one
  MaxWorkflows,   \* bound: workflows ever started
  MaxRepairs,     \* bound: repairs carried out
  MaxLateBeats    \* bound: how often a live worker's heartbeat is late

ASSUME PolicyAssumption ==
  /\ Window \in Nat /\ MaxAttempts \in Nat \ {0}
  /\ Cooldowns \in Seq(0..Window) /\ Len(Cooldowns) = MaxAttempts
  /\ IsFiniteSet(Agents)

ASSUME BoundsAssumption ==
  MaxWorkflows \in Nat \ {0} /\ MaxRepairs \in Nat /\ MaxLateBeats \in Nat

\* Nobody gives the retry of the first workflow the client_request_id of that
\* workflow itself: the code would take it as its own replacement.
ASSUME OwnKeyUnused == "start" \notin RetryKeys

VARIABLES
  flows,      \* codex_workflows with plan operation, plan turn and retry metadata
  appLive,    \* does the worker with its app-server live?
  seenLive,   \* is its heartbeat fresh?
  attempts,   \* agent_guidance_attempts, by scope and action
  agent,      \* what each agent is about to do
  recent,     \* history: ages of the attempts counted in the last window
  repairs,    \* bound: repairs carried out
  lateBeats,  \* bound
  misjudged   \* history: a live turn was written off by force or on a late heartbeat

recoveryVars == <<flows, appLive, seenLive, attempts, agent, recent, repairs, lateBeats, misjudged>>

Repairs == {"retry", "mark"}
Scopes == {"workflow", "operation"}
GuardKeys == Scopes \X (1..MaxWorkflows) \X Repairs     \* guard_key_for
Idle == [pc |-> "idle", flow |-> 1, action |-> "retry"]

WorldOnly == UNCHANGED <<attempts, agent, recent, repairs>>
AgentOnly == UNCHANGED <<appLive, seenLive, lateBeats>>

----------------------------------------------------------------------------
(* The loop guard                                                          *)

\* loop_guard_state: the count is forgotten when the last attempt is older
\* than the window, but only in what is told.
CountIn(row) == IF row.age > Window THEN 0 ELSE row.count
AllowedByCooldown(row) == row.cooldown = 0
Allowed(row) == row.cooldown = 0 /\ CountIn(row) < MaxAttempts

CooldownAfter(count) == IF count <= MaxAttempts THEN Cooldowns[count] ELSE Window

\* record_agent_guidance_attempt, for an attempt that counts
Counted(row) == [count |-> row.count + 1, age |-> 0, cooldown |-> CooldownAfter(row.count + 1)]

\* attempt_scope_from_args, and the scope _operation_context, _workflow_context
\* and _best_scope give to the guidance of a status call
AttemptKey(flow, action) == <<"workflow", flow, action>>
GuidanceKey(surface, flow, action) == <<surface, flow, action>>

----------------------------------------------------------------------------
(* The world                                                               *)

PlanRuns(f) == flows[f].turn = "running" /\ appLive
RetryableStates == {"failed", "orphaned", "completed"}

PlanEnds(f, outcome) ==
  /\ PlanRuns(f) /\ flows[f].op = "running"
  /\ flows' = [flows EXCEPT ![f].turn = "ended", ![f].op = outcome, ![f].phase = outcome]
  /\ UNCHANGED <<appLive, seenLive, lateBeats, misjudged>> /\ WorldOnly

\* The process that owns the app-server dies: turns end, rows stay.
WorkerDies ==
  /\ appLive /\ appLive' = FALSE
  /\ flows' = [f \in DOMAIN flows |->
                 IF flows[f].turn = "running" THEN [flows[f] EXCEPT !.turn = "ended"] ELSE flows[f]]
  /\ UNCHANGED <<seenLive, lateBeats, misjudged>> /\ WorldOnly

WorkerStarts ==
  /\ ~appLive /\ appLive' = TRUE /\ seenLive' = TRUE
  /\ UNCHANGED <<flows, lateBeats, misjudged>> /\ WorldOnly

\* _runtime_live_worker_snapshot goes by the last heartbeat.
HeartbeatExpires ==
  /\ seenLive /\ seenLive' = FALSE
  /\ lateBeats' = lateBeats + (IF appLive THEN 1 ELSE 0) /\ lateBeats' <= MaxLateBeats
  /\ UNCHANGED <<flows, appLive, misjudged>> /\ WorldOnly

HeartbeatReturns ==
  /\ appLive /\ ~seenLive /\ seenLive' = TRUE
  /\ UNCHANGED <<flows, appLive, lateBeats, misjudged>> /\ WorldOnly

Older(age) == IF age > Window THEN age ELSE age + 1

\* The newest attempt comes first, so those that stay in the window do.
InWindow(ages) == SubSeq(ages, 1, Cardinality({i \in DOMAIN ages : ages[i] <= Window}))
Aged(ages) == InWindow([i \in DOMAIN ages |-> ages[i] + 1])
TimePasses ==
  /\ attempts' = [k \in GuardKeys |-> [attempts[k] EXCEPT !.age = Older(@), !.cooldown = IF @ = 0 THEN 0 ELSE @ - 1]]
  /\ recent' = [k \in GuardKeys |-> Aged(recent[k])]
  /\ UNCHANGED <<flows, agent, repairs, misjudged>> /\ AgentOnly

----------------------------------------------------------------------------
(* The repairs                                                             *)

\* The workflow that codex_start_plan_workflow finds by the client_request_id,
\* or the next one.
DefaultKey(f) == <<"default", f>>
RetryKey(f, key) == IF key = "default" THEN DefaultKey(f) ELSE <<key, 0>>
Found(key) == {f \in DOMAIN flows : flows[f].key = key}
Started(key) == IF Found(key) = {} THEN Len(flows) + 1 ELSE CHOOSE f \in Found(key) : TRUE
NewFlow(key) == [phase |-> "planning", op |-> "running", turn |-> IF appLive THEN "running" ELSE "none",
                 key |-> key, replaces |-> 0, replacedBy |-> 0]
WithStarted(key) == IF Found(key) = {} THEN Append(flows, NewFlow(key)) ELSE flows

\* _repair_retry_workflow_with_runtime_policy: the new workflow must not be the
\* retry of another one; the metadata of the source is written as it was read
\* before the start.
MayRetry(f, force) == force \/ flows[f].phase \in RetryableStates
NeverRefused(f, n) == FALSE
RetryRefused(f, n) == n \in DOMAIN flows /\ flows[n].replaces \notin {0, f}

Retried(f, key) ==
  LET n == Started(key)
      linked == [WithStarted(key) EXCEPT ![n].replaces = f]
  IN  [linked EXCEPT ![f] = [flows[f] EXCEPT !.replacedBy = n]]

\* _repair_mark_orphaned_after_exit, for one workflow
MayMarkAlways(force) == TRUE
MayMark(force) == force \/ ~seenLive
Marked(f) == [flows EXCEPT ![f].op = IF @ = "running" THEN "unknown" ELSE @,
                           ![f].phase = IF @ \in {"completed", "failed"} THEN @ ELSE "orphaned"]

----------------------------------------------------------------------------
(* An agent that obeys                                                     *)

Intends(a, f, action) == agent' = [agent EXCEPT ![a] = [pc |-> "go", flow |-> f, action |-> action]]
EndsItsAttempt(a) == agent' = [agent EXCEPT ![a] = Idle]
RowsUntouched == UNCHANGED <<flows, attempts, recent, repairs, misjudged>> /\ AgentOnly

\* A dry run changes nothing and does not count; its result tells the guard of
\* the scope under which the repair itself will count.  (It follows the status
\* call in one step: the later of the two guards decides.)
DryRunIsClean(f, action) == Allowed(attempts[AttemptKey(f, action)])

\* The guidance of a status call: _operation_context and _workflow_context
\* recommend the retry of a workflow that failed with runtime evidence.
Guided(a, surface, f) ==
  /\ agent[a].pc = "idle" /\ flows[f].phase = "failed"
  /\ Allowed(attempts[GuidanceKey(surface, f, "retry")]) /\ DryRunIsClean(f, "retry")
  /\ Intends(a, f, "retry") /\ RowsUntouched

\* A diagnosis recommends to write off running work whose app-server seems gone
\* (diagnostics.py:188-195); an orphaned workflow a client may retry by itself.
Decides(a, f, action) ==
  /\ agent[a].pc = "idle"
  /\ \/ action = "mark" /\ flows[f].phase = "planning" /\ ~seenLive
     \/ action = "retry" /\ flows[f].phase = "orphaned"
  /\ DryRunIsClean(f, action)
  /\ Intends(a, f, action) /\ RowsUntouched

Records(f, action) ==
  LET k == AttemptKey(f, action) IN
  /\ attempts' = [attempts EXCEPT ![k] = Counted(@)]
  /\ recent' = [recent EXCEPT ![k] = <<0>> \o @]
  /\ repairs' = repairs + 1

RetryWorkflow(a, key, force) ==
  LET f == agent[a].flow  n == Started(RetryKey(f, key)) IN
  /\ agent[a].pc = "go" /\ agent[a].action = "retry" /\ repairs < MaxRepairs /\ n <= MaxWorkflows
  /\ MayRetry(f, force) /\ ~RetryRefused(f, n)
  /\ flows' = Retried(f, RetryKey(f, key))
  /\ Records(f, "retry")
  /\ misjudged' = (misjudged \/ (force /\ PlanRuns(f)))
  /\ EndsItsAttempt(a) /\ AgentOnly

MarkOrphaned(a, force) ==
  LET f == agent[a].flow IN
  /\ agent[a].pc = "go" /\ agent[a].action = "mark" /\ repairs < MaxRepairs
  /\ MayMark(force)
  /\ flows' = Marked(f)
  /\ Records(f, "mark")
  /\ misjudged' = (misjudged \/ (PlanRuns(f) /\ (force \/ ~seenLive)))
  /\ EndsItsAttempt(a) /\ AgentOnly

\* A repair that raises records no attempt.
RepairRefused(a) ==
  LET f == agent[a].flow IN
  /\ agent[a].pc = "go"
  /\ \/ agent[a].action = "mark" /\ ~MayMark(FALSE)
     \/ \E key \in RetryKeys : agent[a].action = "retry" /\ RetryRefused(f, Started(RetryKey(f, key)))
  /\ EndsItsAttempt(a) /\ RowsUntouched

----------------------------------------------------------------------------
RecoveryInit ==
  /\ appLive = TRUE /\ seenLive = TRUE
  /\ flows = <<NewFlow(<<"start", 0>>)>>
  /\ attempts = [k \in GuardKeys |-> [count |-> 0, age |-> Window + 1, cooldown |-> 0]]
  /\ agent = [a \in Agents |-> Idle]
  /\ recent = [k \in GuardKeys |-> <<>>]
  /\ repairs = 0 /\ lateBeats = 0 /\ misjudged = FALSE

RecoveryNext ==
  \/ \E f \in DOMAIN flows : PlanEnds(f, "failed") \/ PlanEnds(f, "completed")
  \/ WorkerDies \/ WorkerStarts \/ HeartbeatExpires \/ HeartbeatReturns
  \/ TimePasses
  \/ \E a \in Agents :
       \/ \E f \in DOMAIN flows, action \in Repairs : Decides(a, f, action)
       \/ \E f \in DOMAIN flows, surface \in Surfaces : Guided(a, surface, f)
       \/ RepairRefused(a)
       \/ \E force \in BOOLEAN :
            MarkOrphaned(a, force) \/ \E key \in RetryKeys : RetryWorkflow(a, key, force)

RecoverySpec == RecoveryInit /\ [][RecoveryNext]_recoveryVars

----------------------------------------------------------------------------
FlowIds == 0..MaxWorkflows
RecoveryTypeOK ==
  /\ \A f \in DOMAIN flows :
       /\ flows[f].phase \in {"planning"} \cup RetryableStates
       /\ flows[f].op \in {"running", "failed", "completed", "unknown"}
       /\ flows[f].turn \in {"none", "running", "ended"}
       /\ flows[f].replaces \in FlowIds /\ flows[f].replacedBy \in FlowIds
  /\ Len(flows) <= MaxWorkflows
  /\ appLive \in BOOLEAN /\ seenLive \in BOOLEAN /\ misjudged \in BOOLEAN
  /\ attempts \in [GuardKeys -> [count : 0..MaxRepairs, age : 0..(Window + 1), cooldown : 0..Window]]
  /\ agent \in [Agents -> [pc : {"idle", "go"}, flow : 1..MaxWorkflows, action : Repairs]]
  /\ repairs \in 0..MaxRepairs /\ lateBeats \in 0..MaxLateBeats

\* The loop guard is advice that several clients take at a time: in no window
\* are more repairs of one action counted for one workflow than the policy
\* allows, and one for each further client that was already at it.
BudgetKept ==
  \A k \in GuardKeys : Len(recent[k]) <= MaxAttempts + Cardinality(Agents) - 1

\* The two ends of a retry agree: the replacement of a workflow is the retry of
\* that workflow, whatever client_request_ids but its own its retries were given.
LineageAgrees ==
  \A f \in DOMAIN flows : flows[f].replacedBy # 0 =>
    /\ flows[f].replacedBy # f
    /\ flows[flows[f].replacedBy].replaces = f

\* A replacement does not plan beside the workflow it replaces, unless a person
\* forced it or a late heartbeat made a live worker look dead.
OnePlanPerLineage ==
  \A f \in DOMAIN flows :
    (flows[f].replaces # 0 /\ PlanRuns(f) /\ ~misjudged) => ~PlanRuns(flows[f].replaces)

=============================================================================

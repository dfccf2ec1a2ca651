------------------------------ MODULE ThreadGoal ------------------------------
(***************************************************************************)
(* The goal of a workflow's thread: status calls with refresh_live_goal    *)
(* bring the goal that the app-server keeps for the thread into line with  *)
(* the workflow row, and take it away when the workflow has completed.     *)
(* People set and clear goals in the desktop application as well.          *)
(*                                                                         *)
(* A sync reads the row when it begins and then waits for the app-server,  *)
(* up to twice, while other syncs of the same process run.  Requests may   *)
(* fail before or after the app-server has executed them; the replies it   *)
(* gives are handled in its order.                                         *)
(***************************************************************************)
EXTENDS Naturals, Sequences

CONSTANTS
  Syncs,        \* tasks that execute status calls
  MaxForeign,   \* bound: how often a person sets or clears the goal
  MaxFailures   \* bound: how many requests fail

VARIABLES
  goalRow,      \* the goal_* columns of the workflow
  workflow,     \* what else of the workflow counts: thread, phase, completion action
  liveGoal,     \* the goal the app-server keeps for the thread
  sync,         \* the status call each task is executing
  replies,      \* tasks whose request is executed, in the order of the replies
  foreign, failures, failedLate,
  untouched     \* history: the person's goal is to survive

goalVars == <<goalRow, workflow, liveGoal, sync, replies, foreign, failures, failedLate, untouched>>

Goals == {"none", "managed", "completion", "foreign"}
SyncStates == {"not_configured", "pending_thread", "active", "observed", "cleared", "complete",
               "left", "external_override", "unsupported", "error"}
SettledStates == {"cleared", "complete", "left", "external_override", "unsupported"}
Actions == {"clear", "leave", "set_complete"}
Gets == {"observe", "get_active", "get_error", "get_completed"}
Sets == {"set", "set_complete", "clear"}

NoSync == [pc |-> "idle", hash |-> "managed", seen |-> "none"]

----------------------------------------------------------------------------
Served(t) == \E i \in DOMAIN replies : replies[i] = t
Handled(t) == replies # <<>> /\ Head(replies) = t /\ replies' = Tail(replies)

AskGoal(t, pc) == sync' = [sync EXCEPT ![t] = [pc |-> pc, hash |-> goalRow.hash, seen |-> "none"]]
AskNext(t, pc) == sync' = [sync EXCEPT ![t].pc = pc]
EndSync(t) == sync' = [sync EXCEPT ![t] = NoSync]

SetRow(state, stored) == goalRow' = [goalRow EXCEPT !.state = state, !.stored = stored]
Others == UNCHANGED <<workflow, foreign>>
NoFault == UNCHANGED <<failures, failedLate>>

ObservedOnly == {"observed"}
MayComplete == {"active", "observed"}

\* _sync_workflow_goal_for_status up to its first await.
SyncWithoutThread(t) ==
  /\ sync[t].pc = "idle" /\ ~workflow.thread /\ workflow.configured
  /\ goalRow' = [goalRow EXCEPT !.state = "pending_thread"]
  /\ UNCHANGED <<liveGoal, sync, replies, untouched>> /\ Others /\ NoFault

SyncBegins(t) ==
  /\ sync[t].pc = "idle" /\ workflow.thread
  /\ \/ /\ ~workflow.configured
        /\ AskGoal(t, "observe")
     \/ /\ workflow.configured /\ workflow.completed
        /\ goalRow.state \in MayComplete
        /\ AskGoal(t, "get_completed")
     \/ /\ workflow.configured /\ ~workflow.completed
        /\ goalRow.state = "active"
        /\ AskGoal(t, "get_active")
     \/ /\ workflow.configured /\ ~workflow.completed
        /\ goalRow.state = "error" /\ goalRow.stored # goalRow.hash
        /\ AskGoal(t, "get_error")
     \/ /\ workflow.configured /\ ~workflow.completed
        /\ goalRow.state \notin {"external_override", "error", "active"}
        /\ AskGoal(t, "set")
  /\ UNCHANGED <<goalRow, liveGoal, replies, untouched>> /\ Others /\ NoFault

\* After an error the stored copy of the managed goal is believed.
SyncTrustsStored(t) ==
  /\ sync[t].pc = "idle" /\ workflow.thread /\ workflow.configured /\ ~workflow.completed
  /\ goalRow.state = "error" /\ goalRow.stored = goalRow.hash
  /\ SetRow("active", goalRow.stored)
  /\ UNCHANGED <<liveGoal, sync, replies, untouched>> /\ Others /\ NoFault

----------------------------------------------------------------------------
(* The app-server: external *)

Executed(t, goal) ==
  /\ liveGoal' = goal
  /\ untouched' = (untouched /\ liveGoal' = liveGoal)
  /\ UNCHANGED sync

Serve(t) ==
  /\ sync[t].pc \in Gets \cup Sets /\ ~Served(t)
  /\ replies' = Append(replies, t)
  /\ \/ /\ sync[t].pc \in Gets
        /\ sync' = [sync EXCEPT ![t].seen = liveGoal]
        /\ UNCHANGED <<liveGoal, untouched>>
     \/ sync[t].pc = "set" /\ Executed(t, "managed")
     \/ sync[t].pc = "set_complete" /\ Executed(t, "completion")
     \/ sync[t].pc = "clear" /\ Executed(t, "none")
  /\ UNCHANGED goalRow /\ Others /\ NoFault

----------------------------------------------------------------------------
(* Replies *)

\* _observe_unmanaged_workflow_goal
ObservedReply(t) ==
  /\ sync[t].pc = "observe" /\ Handled(t)
  /\ SetRow(IF sync[t].seen = "none" THEN "not_configured" ELSE "observed", sync[t].seen)
  /\ EndSync(t)
  /\ UNCHANGED <<liveGoal, untouched>> /\ Others /\ NoFault

IsForeign(t) == sync[t].seen \notin {"none", sync[t].hash}

ActiveReplyWritesState(t) ==
  /\ sync[t].pc = "get_active" /\ Handled(t)
  /\ SetRow(IF IsForeign(t) THEN "external_override" ELSE "active", sync[t].seen)
  /\ EndSync(t)
  /\ UNCHANGED <<liveGoal, untouched>> /\ Others /\ NoFault

ActiveReply(t) ==
  /\ sync[t].pc = "get_active" /\ Handled(t)
  /\ SetRow(IF IsForeign(t) THEN "external_override" ELSE goalRow.state, sync[t].seen)
  /\ EndSync(t)
  /\ UNCHANGED <<liveGoal, untouched>> /\ Others /\ NoFault

\* No goal: it is set, now.
ErrorReply(t) ==
  /\ sync[t].pc = "get_error" /\ Handled(t)
  /\ \/ /\ sync[t].seen # "none"
        /\ SetRow(IF IsForeign(t) THEN "external_override" ELSE "active", sync[t].seen)
        /\ EndSync(t)
     \/ /\ sync[t].seen = "none"
        /\ AskNext(t, "set")
        /\ UNCHANGED goalRow
  /\ UNCHANGED <<liveGoal, untouched>> /\ Others /\ NoFault

SetReply(t) ==
  /\ sync[t].pc = "set" /\ Handled(t)
  /\ goalRow' = [state |-> "active", stored |-> "managed", hash |-> sync[t].hash]
  /\ EndSync(t)
  /\ UNCHANGED <<liveGoal, untouched>> /\ Others /\ NoFault

ClearsForeign(t) == FALSE
LeavesForeign(t) == IsForeign(t)

CompletedReply(t) ==
  /\ sync[t].pc = "get_completed" /\ Handled(t)
  /\ \/ /\ sync[t].seen = "none"
        /\ SetRow("cleared", "none") /\ EndSync(t)
     \/ /\ sync[t].seen # "none" /\ LeavesForeign(t)
        /\ SetRow("external_override", sync[t].seen) /\ EndSync(t)
     \/ /\ sync[t].seen # "none" /\ ~LeavesForeign(t)
        /\ workflow.action = "leave"
        /\ SetRow("left", sync[t].seen) /\ EndSync(t)
     \/ /\ sync[t].seen # "none" /\ ~LeavesForeign(t)
        /\ workflow.action # "leave"
        /\ AskNext(t, workflow.action)
        /\ UNCHANGED goalRow
  /\ UNCHANGED <<liveGoal, untouched>> /\ Others /\ NoFault

SetCompleteReply(t) ==
  /\ sync[t].pc = "set_complete" /\ Handled(t)
  /\ goalRow' = [state |-> "complete", stored |-> "completion", hash |-> "completion"]
  /\ EndSync(t)
  /\ UNCHANGED <<liveGoal, untouched>> /\ Others /\ NoFault

ClearReply(t) ==
  /\ sync[t].pc = "clear" /\ Handled(t)
  /\ SetRow("cleared", "none")
  /\ EndSync(t)
  /\ UNCHANGED <<liveGoal, untouched>> /\ Others /\ NoFault

\* A request fails: refused as unknown, or timed out, executed or not.  The read
\* after an error is followed by a set all the same.
GoalRequestFails(t, state) ==
  /\ sync[t].pc \in Gets \cup Sets
  /\ failures < MaxFailures
  /\ failures' = failures + 1
  /\ failedLate' = (failedLate \/ workflow.completed)
  /\ state = "unsupported" => ~Served(t)
  /\ replies' = SelectSeq(replies, LAMBDA s : s # t)
  /\ \/ /\ sync[t].pc = "get_error"
        /\ AskNext(t, "set")
        /\ UNCHANGED goalRow
     \/ /\ sync[t].pc # "get_error"
        /\ goalRow' = [goalRow EXCEPT !.state = state]
        /\ EndSync(t)
  /\ UNCHANGED <<liveGoal, untouched>> /\ Others

----------------------------------------------------------------------------
(* The workflow and the people *)

ThreadStarts ==
  /\ ~workflow.thread
  /\ workflow' = [workflow EXCEPT !.thread = TRUE]
  /\ UNCHANGED <<goalRow, liveGoal, sync, replies, foreign, failures, failedLate, untouched>>

WorkflowCompletes ==
  /\ workflow.thread /\ ~workflow.completed
  /\ workflow' = [workflow EXCEPT !.completed = TRUE]
  /\ UNCHANGED <<goalRow, liveGoal, sync, replies, foreign, failures, failedLate, untouched>>

\* The goal a person sets over an active one, with no sync under way, counts.
PersonSets(goal) ==
  /\ workflow.thread /\ foreign < MaxForeign
  /\ goal \in {"none", "foreign"} \ {liveGoal}
  /\ liveGoal' = goal
  /\ foreign' = foreign + 1
  /\ untouched' = (goal = "foreign" /\ goalRow.state = "active" /\ \A t \in Syncs : sync[t].pc = "idle")
  /\ UNCHANGED <<goalRow, workflow, sync, replies, failures, failedLate>>

----------------------------------------------------------------------------
GoalInit ==
  /\ workflow \in [thread : {FALSE}, completed : {FALSE}, configured : BOOLEAN, action : Actions]
  /\ goalRow = [state |-> IF workflow.configured THEN "pending_thread" ELSE "not_configured",
                stored |-> "none", hash |-> "managed"]
  /\ liveGoal = "none"
  /\ sync = [t \in Syncs |-> NoSync]
  /\ replies = <<>>
  /\ foreign = 0 /\ failures = 0 /\ failedLate = FALSE /\ untouched = FALSE

Reply(t) ==
  \/ ObservedReply(t) \/ ActiveReply(t) \/ ErrorReply(t) \/ SetReply(t)
  \/ CompletedReply(t) \/ SetCompleteReply(t) \/ ClearReply(t)

SyncStep(t) == SyncWithoutThread(t) \/ SyncBegins(t) \/ SyncTrustsStored(t) \/ Serve(t) \/ Reply(t)

GoalNext ==
  \/ \E t \in Syncs : SyncStep(t) \/ \E state \in {"error", "unsupported"} : GoalRequestFails(t, state)
  \/ ThreadStarts \/ WorkflowCompletes
  \/ \E goal \in {"none", "foreign"} : PersonSets(goal)

\* Clients go on asking, the app-server answers.
GoalFairness == \A t \in Syncs : WF_goalVars(SyncBegins(t) \/ Serve(t) \/ Reply(t))

GoalSpec == GoalInit /\ [][GoalNext]_goalVars /\ GoalFairness

----------------------------------------------------------------------------
(* Properties *)

GoalTypeOK ==
  /\ goalRow \in [state : SyncStates, stored : Goals, hash : {"managed", "completion"}]
  /\ workflow \in [thread : BOOLEAN, completed : BOOLEAN, configured : BOOLEAN, action : Actions]
  /\ liveGoal \in Goals
  /\ sync \in [Syncs -> [pc : {"idle"} \cup Gets \cup Sets, hash : {"managed", "completion"}, seen : Goals]]
  /\ \A i \in DOMAIN replies : replies[i] \in Syncs
  /\ foreign \in 0 .. MaxForeign /\ failures \in 0 .. MaxFailures
  /\ failedLate \in BOOLEAN /\ untouched \in BOOLEAN

\* A goal that a person set over MCP's own is left alone, also when the workflow
\* completes ("MCP skipped completion cleanup", docs/API_CONTRACT.md:618), as long as
\* no request fails.  (A failed read after an error is followed by a blind set.)
PersonsGoalSurvives ==
  [][untouched /\ failures' = 0 /\ foreign' = foreign => untouched']_goalVars

\* What the row says of the goal is true when no sync is under way and nobody else
\* touched it: a cleared goal is gone, an active one is there.  A change from outside
\* is reported only when there was one, except that a sync may mistake the completed
\* goal which another one has just set for a person's.
RowTellsTheGoal ==
  failures = 0 /\ foreign = 0 /\ workflow.configured /\ (\A t \in Syncs : sync[t].pc = "idle") =>
    /\ goalRow.state = "cleared" => liveGoal = "none"
    /\ goalRow.state \in {"active", "left"} => liveGoal = "managed"
    /\ goalRow.state = "complete" => liveGoal = "completion"
    /\ goalRow.state = "external_override" => workflow.action = "set_complete"

\* The goal that was active when the workflow completed is dealt with, unless a
\* request fails after that: then the row stays at "error" and nobody tries again.
GoalSettles ==
  [](workflow.completed /\ goalRow.state = "active" => <>(goalRow.state \in SettledStates \/ failedLate))

=============================================================================

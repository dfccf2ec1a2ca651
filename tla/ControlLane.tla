------------------------------ MODULE ControlLane ------------------------------
(***************************************************************************)
(* Archive, unarchive and compaction of a thread, and the lane that brings *)
(* them to the central worker: worker_service.py, worker.py (the command   *)
(* loop) and thread_lifecycle_service.py.                                  *)
(*                                                                         *)
(* In client mode a tool call becomes a row that the worker takes up, one  *)
(* at a time, in the order of arrival, and gives a limited time; in inline *)
(* mode the process that is called runs the handler itself, several calls  *)
(* at a time.  A compaction ends long after its request is answered: its   *)
(* lifecycle action is settled by whoever polls it next.                   *)
(***************************************************************************)
EXTENDS Naturals, FiniteSets

CONSTANTS
  MaxCommands,  \* bound: calls made
  MaxServers,   \* bound: app-server processes started
  MaxStops      \* bound: stops of the process that owns the app-server

ASSUME LaneAssumption == MaxServers \in Nat /\ MaxStops \in Nat

VARIABLES
  mode,         \* execution_mode of the process the clients talk to
  command,      \* codex_worker_commands, or what an inline caller is told
  action,       \* codex_thread_lifecycle_actions of each call
  handler,      \* where the handler of each call stands
  owner,        \* the process that owns the app-server: up, stops so far
  server,       \* its app-server: up, process_generation, how many there were
  thread,       \* archived?, and does a turn or a question make it busy?
  compacting,   \* compactions the app-server is busy with
  sent,         \* requests the app-server has not executed
  executions,   \* history: how often the app-server executed each call
  interrupted   \* history: calls whose process stopped under them

laneVars == <<mode, command, action, handler, owner, server, thread, compacting, sent, executions, interrupted>>

Commands == 1..MaxCommands
Kinds == {"archive", "unarchive", "compact"}
Ended == {"completed", "failed", "timed_out"}
ActionOver == {"completed", "partial", "failed", "unknown"}
HandlerPlaces == {"idle", "ready", "asked", "replied"}

NoCommand == [kind |-> "archive", status |-> "none"]
NoAction == [status |-> "none", gen |-> 0, on |-> 0, seen |-> "no"]

Order(c) == \A d \in Commands : d < c => command[d].status # "none"
Running == {c \in Commands : handler[c] # "idle"}
Move(c, place) == handler' = [handler EXCEPT ![c] = place]
Tell(c, status) == command' = [command EXCEPT ![c].status = status]
Server(c) == server.up /\ action[c].on = server.count

----------------------------------------------------------------------------
(* Calls *)

\* _enqueue_worker_command
Enqueue(c) ==
  /\ mode = "client" /\ command[c].status = "none" /\ Order(c)
  /\ \E k \in Kinds : command' = [command EXCEPT ![c] = [kind |-> k, status |-> "queued"]]
  /\ UNCHANGED <<mode, action, handler, owner, server, thread, compacting, sent, executions, interrupted>>

\* The head of codex_archive_thread, codex_unarchive_thread and
\* codex_start_thread_compaction, up to the wait for the app-server.
Refuse(c, kind) ==
  /\ thread.busy
  /\ command' = [command EXCEPT ![c] = [kind |-> kind, status |-> "failed"]]
  /\ UNCHANGED <<action, handler>>

Accept(c, kind) ==
  /\ ~thread.busy
  /\ command' = [command EXCEPT ![c] = [kind |-> kind, status |-> "running"]]
  /\ action' = [action EXCEPT ![c].status = "starting"]
  /\ Move(c, "ready")

Handle(c, kind) == Refuse(c, kind) \/ Accept(c, kind)

CallInline(c) ==
  /\ mode = "inline" /\ owner.up /\ command[c].status = "none" /\ Order(c)
  /\ \E k \in Kinds : Handle(c, k)
  /\ UNCHANGED <<mode, owner, server, thread, compacting, sent, executions, interrupted>>

\* The rows the loop takes up, the oldest first.
ListedOrRunning == {c \in Commands : command[c].status \in {"queued", "running"}}
Listed == {c \in Commands : command[c].status = "queued"}

\* _process_worker_commands: one row at a time
Take(c) ==
  /\ mode = "client" /\ owner.up /\ Running = {}
  /\ c \in Listed /\ \A d \in Listed : c <= d
  /\ Handle(c, command[c].kind)
  /\ UNCHANGED <<mode, owner, server, thread, compacting, sent, executions, interrupted>>

----------------------------------------------------------------------------
(* The handler waits: for the app-server, then for its answer              *)

Ask(c) ==
  /\ handler[c] = "ready"
  /\ \/ server.up /\ UNCHANGED server
     \/ /\ ~server.up /\ server.count < MaxServers
        /\ server' = [up |-> TRUE, gen |-> server.gen + 1, count |-> server.count + 1]
  /\ action' = [action EXCEPT ![c].on = server'.count]
  /\ sent' = sent \cup {c}
  /\ Move(c, "asked")
  /\ UNCHANGED <<mode, command, owner, thread, compacting, executions, interrupted>>

\* _app() is called outside the try: the action row keeps its status.
AppFails(c) ==
  /\ handler[c] = "ready" /\ ~server.up
  /\ Move(c, "idle") /\ Tell(c, "failed")
  /\ UNCHANGED <<mode, action, owner, server, thread, compacting, sent, executions, interrupted>>

\* The app-server executes a request it was sent, given up or not: external.
ServerExecutes(c) ==
  /\ c \in sent /\ sent' = sent \ {c}
  /\ executions' = [executions EXCEPT ![c] = @ + 1]
  /\ IF command[c].kind = "compact"
     THEN /\ compacting' = compacting \cup {c}
          /\ UNCHANGED thread
     ELSE /\ thread' = [thread EXCEPT !.archived = (command[c].kind = "archive")]
          /\ UNCHANGED compacting
  /\ handler' = IF handler[c] = "asked" THEN [handler EXCEPT ![c] = "replied"] ELSE handler
  /\ UNCHANGED <<mode, command, action, owner, server, interrupted>>

Answered(c) ==
  /\ handler[c] = "replied" /\ Server(c)
  /\ action' = [action EXCEPT
       ![c].status = IF command[c].kind = "compact" THEN "running" ELSE "completed",
       ![c].gen = server.gen]
  /\ Move(c, "idle") /\ Tell(c, "completed")
  /\ UNCHANGED <<mode, owner, server, thread, compacting, sent, executions, interrupted>>

\* An error reply, an exit of the app-server or the time limit of the request.
RequestFails(c) ==
  /\ handler[c] \in {"asked", "replied"}
  /\ action' = [action EXCEPT ![c].status = "failed", ![c].gen = server.gen]
  /\ Move(c, "idle") /\ Tell(c, "failed")
  /\ UNCHANGED <<mode, owner, server, thread, compacting, sent, executions, interrupted>>

\* wait_for cancels the handler: no `except Exception` of it sees that.
CommandTimesOut(c) ==
  /\ mode = "client" /\ handler[c] # "idle"
  /\ Move(c, "idle") /\ Tell(c, "timed_out")
  /\ UNCHANGED <<mode, action, owner, server, thread, compacting, sent, executions, interrupted>>

----------------------------------------------------------------------------
(* Compactions, turns and stops                                            *)

\* An event of a thread counts for every action that was created before it.
CompactionEnds(c) ==
  /\ c \in compacting
  /\ compacting' = compacting \ {c}
  /\ \E result \in {"ok", "hook"} :
       action' = [d \in Commands |->
         IF action[d].status \in {"starting", "running"} /\ action[d].seen # "hook"
         THEN [action[d] EXCEPT !.seen = result] ELSE action[d]]
  /\ UNCHANGED <<mode, command, handler, owner, server, thread, sent, executions, interrupted>>

\* The process a client polls knows of an app-server only when it owns it,
\* and of its process only by the number of starts in that process.
Polls(c) == command[c].kind = "compact" /\ action[c].status = "running"
OwnsApp == mode = "inline"
HasApp == mode = "inline" /\ server.up
SameGeneration(c) == server.gen = action[c].gen

\* _reconcile_thread_compaction_action
PollCompaction(c) ==
  /\ Polls(c) /\ (mode = "inline" => owner.up)
  /\ \/ /\ action[c].seen # "no"
        /\ action' = [action EXCEPT ![c].status =
                        IF action[c].seen = "hook" THEN "partial" ELSE "completed"]
     \/ /\ action[c].seen = "no"
        /\ ~(HasApp /\ SameGeneration(c))
        /\ action' = [action EXCEPT ![c].status = "unknown"]
  /\ UNCHANGED <<mode, command, handler, owner, server, thread, compacting, sent, executions, interrupted>>

\* Other calls start a turn on the thread, or a question waits for its answer.
ThreadBusy ==
  /\ thread' = [thread EXCEPT !.busy = ~@]
  /\ UNCHANGED <<mode, command, action, handler, owner, server, compacting, sent, executions, interrupted>>

ServerExits ==
  /\ server.up /\ server' = [server EXCEPT !.up = FALSE]
  /\ compacting' = {} /\ sent' = {}
  /\ UNCHANGED <<mode, command, action, handler, owner, thread, executions, interrupted>>

\* Nothing of the next process looks at the rows of the calls it interrupted.
OwnerStops ==
  /\ owner.up /\ owner.stops < MaxStops
  /\ owner' = [up |-> FALSE, stops |-> owner.stops + 1]
  /\ server' = [server EXCEPT !.up = FALSE, !.gen = 0]
  /\ compacting' = {} /\ sent' = {}
  /\ interrupted' = interrupted \cup Running
  /\ handler' = [c \in Commands |-> "idle"]
  /\ UNCHANGED <<mode, command, action, thread, executions>>

OwnerStarts ==
  /\ ~owner.up
  /\ owner' = [owner EXCEPT !.up = TRUE]
  /\ UNCHANGED <<mode, command, action, handler, server, thread, compacting, sent, executions, interrupted>>

----------------------------------------------------------------------------
LaneInit ==
  /\ mode \in {"client", "inline"}
  /\ command = [c \in Commands |-> NoCommand]
  /\ action = [c \in Commands |-> NoAction]
  /\ handler = [c \in Commands |-> "idle"]
  /\ owner = [up |-> TRUE, stops |-> 0]
  /\ server = [up |-> FALSE, gen |-> 0, count |-> 0]
  /\ thread = [archived |-> FALSE, busy |-> FALSE]
  /\ compacting = {} /\ sent = {}
  /\ executions = [c \in Commands |-> 0]
  /\ interrupted = {}

LaneSteps(c) ==
  Take(c) \/ Ask(c) \/ AppFails(c) \/ Answered(c) \/ RequestFails(c) \/ CommandTimesOut(c)

LaneNext ==
  \/ \E c \in Commands :
       \/ Enqueue(c) \/ CallInline(c) \/ Take(c)
       \/ Ask(c) \/ AppFails(c) \/ ServerExecutes(c) \/ Answered(c)
       \/ RequestFails(c) \/ CommandTimesOut(c)
       \/ CompactionEnds(c) \/ PollCompaction(c)
  \/ ThreadBusy \/ ServerExits \/ OwnerStops \/ OwnerStarts

\* The loop and the handlers go on, time limits expire, a supervisor starts
\* the process again, and a compaction is polled as its reply says.
LaneFairness ==
  /\ \A c \in Commands : WF_laneVars(LaneSteps(c)) /\ WF_laneVars(PollCompaction(c))
  /\ WF_laneVars(OwnerStarts)

LaneSpec == LaneInit /\ [][LaneNext]_laneVars /\ LaneFairness

----------------------------------------------------------------------------
LaneTypeOK ==
  /\ mode \in {"client", "inline"}
  /\ command \in [Commands -> [kind : Kinds, status : {"none", "queued", "running"} \cup Ended]]
  /\ action \in [Commands -> [status : {"none", "starting", "running"} \cup ActionOver,
                              gen : 0..MaxServers, on : 0..MaxServers, seen : {"no", "ok", "hook"}]]
  /\ handler \in [Commands -> HandlerPlaces]
  /\ owner \in [up : BOOLEAN, stops : 0..MaxStops]
  /\ server \in [up : BOOLEAN, gen : 0..MaxServers, count : 0..MaxServers]
  /\ thread \in [archived : BOOLEAN, busy : BOOLEAN]
  /\ compacting \cup sent \subseteq Commands /\ interrupted \subseteq Commands
  /\ executions \in [Commands -> Nat]

\* What a caller is told happened once: a call is executed at most once,
\* whatever is timed out, interrupted or taken up again, and a completed one
\* was executed and left its action with that result.
CommandTellsTheTruth ==
  \A c \in Commands :
    /\ executions[c] <= 1
    /\ command[c].status = "completed" => action[c].status \in {"running", "completed", "partial", "unknown"}
    /\ action[c].status \in {"running", "completed", "partial", "unknown"} => executions[c] = 1

\* Every call comes to an end, behind whatever calls before it in the lane:
\* only a stop of the process under its handler leaves it "running" for ever.
CommandsEnd ==
  \A c \in Commands :
    command[c].status \in {"queued", "running"} ~> (command[c].status \in Ended \/ c \in interrupted)

=============================================================================

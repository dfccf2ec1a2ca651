--------------------------- MODULE ServicesProofs ---------------------------
(***************************************************************************)
(* What the services around the queue promise, for any number of calls:    *)
(* a control call takes effect at most once (ControlLane), the workflow    *)
(* row tells the goal of its thread (ThreadGoal), a review is asked for    *)
(* once and told as it is (ReviewWorkflow), and the record of a turn       *)
(* agrees with the turn (TurnRecord).  One section per service; none uses  *)
(* another.                                                                *)
(***************************************************************************)
EXTENDS ControlLane, ThreadGoal, ReviewWorkflow, TurnRecord, TLAPS

(***************************************************************************)
(* The worker's command lane.                                              *)
(*                                                                         *)
(* A control call takes effect at most once, and one that is reported      *)
(* completed did, for any number of calls, app-servers and stops.          *)
(***************************************************************************)

Effective == {"running", "completed", "partial", "unknown"}

\* What is left of a call where its handler stands: a request is sent from
\* "ready" only, and nothing leads back there.
HandlerInv(c) ==
  /\ command[c].status \in {"none", "queued"} =>
       handler[c] = "idle" /\ c \notin sent /\ executions[c] = 0 /\ action[c].status = "none"
  /\ handler[c] # "idle" => command[c].status = "running" /\ action[c].status = "starting"
  /\ handler[c] = "ready" => executions[c] = 0 /\ c \notin sent
  /\ handler[c] = "asked" => executions[c] = 0
  /\ handler[c] = "replied" => executions[c] = 1

\* Why an effect comes once: what is sent was not executed yet.
EffectInv(c) ==
  /\ executions[c] \in {0, 1}
  /\ c \in sent => executions[c] = 0
  /\ action[c].status \in Effective => executions[c] = 1
  /\ command[c].status = "completed" => action[c].status \in Effective

LaneInv ==
  /\ LaneTypeOK
  /\ server.gen <= server.count
  /\ \A c \in Commands : HandlerInv(c) /\ EffectInv(c)

-----------------------------------------------------------------------------

LEMMA InitLane == LaneInit => LaneInv
<1> SUFFICES ASSUME LaneInit PROVE LaneInv
  OBVIOUS
<1>1. LaneTypeOK
  BY LaneAssumption DEF LaneInit, LaneTypeOK, Kinds, HandlerPlaces, NoCommand, NoAction
<1> QED
  BY <1>1 DEF LaneInit, LaneInv, HandlerInv, EffectInv, Effective, NoCommand, NoAction

ActionStatuses == {"none", "starting", "running"} \cup ActionOver
Generations == 0..MaxServers
EndsSeen == {"no", "ok", "hook"}
ActionRow == [status : ActionStatuses, gen : Generations, on : Generations, seen : EndsSeen]
ActionRows == [Commands -> ActionRow]

\* The types of the other variables.
RestTypeOK ==
  /\ mode \in {"client", "inline"}
  /\ command \in [Commands -> [kind : Kinds, status : {"none", "queued", "running"} \cup Ended]]
  /\ handler \in [Commands -> HandlerPlaces]
  /\ owner \in [up : BOOLEAN, stops : 0..MaxStops]
  /\ server \in [up : BOOLEAN, gen : 0..MaxServers, count : 0..MaxServers]
  /\ thread \in [archived : BOOLEAN, busy : BOOLEAN]
  /\ compacting \cup sent \subseteq Commands /\ interrupted \subseteq Commands
  /\ executions \in [Commands -> Nat]

LEMMA TypesSplit == LaneTypeOK <=> action \in ActionRows /\ RestTypeOK
  BY DEF LaneTypeOK, RestTypeOK, ActionRows, ActionRow, ActionStatuses, Generations, EndsSeen

\* An update of a lifecycle action that writes values of its fields' sets
\* keeps the type of the table.
LEMMA StatusWritten ==
  ASSUME action \in ActionRows, NEW c \in Commands, NEW s \in ActionStatuses
  PROVE  [action EXCEPT ![c].status = s] \in ActionRows
<1>1. [action[c] EXCEPT !.status = s] \in ActionRow
  BY DEF ActionRow, ActionRows
<1> QED
  BY <1>1 DEF ActionRows

LEMMA ServerWritten ==
  ASSUME action \in ActionRows, NEW c \in Commands, NEW o \in Generations
  PROVE  [action EXCEPT ![c].on = o] \in ActionRows
<1>1. [action[c] EXCEPT !.on = o] \in ActionRow
  BY DEF ActionRow, ActionRows
<1> QED
  BY <1>1 DEF ActionRows

LEMMA OutcomeWritten ==
  ASSUME action \in ActionRows, NEW c \in Commands, NEW s \in ActionStatuses, NEW g \in Generations
  PROVE  [action EXCEPT ![c].status = s, ![c].gen = g] \in ActionRows
<1>1. [action[c] EXCEPT !.status = s, !.gen = g] \in ActionRow
  BY DEF ActionRow, ActionRows
<1> QED
  BY <1>1 DEF ActionRows

LEMMA EndsWritten ==
  ASSUME action \in ActionRows, NEW result \in EndsSeen
  PROVE  [d \in Commands |->
            IF action[d].status \in {"starting", "running"} /\ action[d].seen # "hook"
            THEN [action[d] EXCEPT !.seen = result] ELSE action[d]] \in ActionRows
<1>1. ASSUME NEW d \in Commands PROVE [action[d] EXCEPT !.seen = result] \in ActionRow
  BY DEF ActionRow, ActionRows
<1> QED
  BY <1>1 DEF ActionRows

\* The steps of a call leave every variable in its range.
LEMMA CallTypes ==
  ASSUME LaneInv, NEW c \in Commands,
         \/ Enqueue(c) \/ CallInline(c) \/ Take(c) \/ Ask(c) \/ AppFails(c) \/ ServerExecutes(c)
         \/ Answered(c) \/ RequestFails(c) \/ CommandTimesOut(c) \/ CompactionEnds(c) \/ PollCompaction(c)
  PROVE  LaneTypeOK' /\ (server.gen <= server.count)'
<1>0. /\ action \in ActionRows
      /\ command \in [Commands -> [kind : Kinds, status : {"none", "queued", "running"} \cup Ended]]
      /\ server \in [up : BOOLEAN, gen : Generations, count : Generations] /\ server.gen <= server.count
      /\ handler \in [Commands -> HandlerPlaces]
  BY DEF LaneInv, LaneTypeOK, ActionRows, ActionRow, ActionStatuses, Generations, EndsSeen
<1>s. /\ "none" \in ActionStatuses /\ "starting" \in ActionStatuses /\ "running" \in ActionStatuses /\ "completed" \in ActionStatuses
      /\ "failed" \in ActionStatuses /\ "partial" \in ActionStatuses /\ "unknown" \in ActionStatuses
  BY DEF ActionOver, ActionStatuses
<1>a. action' \in ActionRows
  <2> USE DEF Move, Tell
  <2>1. CASE Enqueue(c)
    BY <1>0, <2>1 DEF Enqueue
  <2>2. ASSUME NEW k \in Kinds, Handle(c, k) PROVE action' \in ActionRows
    <3>1. CASE Refuse(c, k)
      BY <1>0, <3>1 DEF Refuse
    <3>2. CASE Accept(c, k)
      <4>1. action' = [action EXCEPT ![c].status = "starting"]
        BY <3>2 DEF Accept
      <4> QED
        BY <1>0, <1>s, <4>1, StatusWritten
    <3> QED
      BY <2>2, <3>1, <3>2 DEF Handle
  <2>3. CASE CallInline(c)
    BY <2>2, <2>3 DEF CallInline
  <2>4. CASE Take(c)
    BY <1>0, <2>2, <2>4 DEF Take
  <2>5. CASE Ask(c)
    <3>1. action' = [action EXCEPT ![c].on = server'.count] /\ server'.count \in Generations
      BY <1>0, <2>5, LaneAssumption DEF Ask, Generations
    <3> QED
      BY <1>0, <3>1, ServerWritten
  <2>6. CASE AppFails(c)
    BY <1>0, <2>6 DEF AppFails
  <2>7. CASE ServerExecutes(c)
    BY <1>0, <2>7 DEF ServerExecutes
  <2>8. CASE Answered(c)
    <3>1. server.gen \in Generations
      BY <1>0
    <3>2. CASE command[c].kind = "compact"
      <4>1. action' = [action EXCEPT ![c].status = "running", ![c].gen = server.gen]
        BY <2>8, <3>2 DEF Answered
      <4> QED
        BY <1>0, <1>s, <3>1, <4>1, OutcomeWritten
    <3>3. CASE command[c].kind # "compact"
      <4>1. action' = [action EXCEPT ![c].status = "completed", ![c].gen = server.gen]
        BY <2>8, <3>3 DEF Answered
      <4> QED
        BY <1>0, <1>s, <3>1, <4>1, OutcomeWritten
    <3> QED
      BY <3>2, <3>3
  <2>9. CASE RequestFails(c)
    <3>1. action' = [action EXCEPT ![c].status = "failed", ![c].gen = server.gen] /\ server.gen \in Generations
      BY <1>0, <2>9 DEF RequestFails
    <3> QED
      BY <1>0, <1>s, <3>1, OutcomeWritten
  <2>10. CASE CommandTimesOut(c)
    BY <1>0, <2>10 DEF CommandTimesOut
  <2>11. CASE CompactionEnds(c)
    <3>1. PICK result \in {"ok", "hook"} :
            action' = [d \in Commands |->
              IF action[d].status \in {"starting", "running"} /\ action[d].seen # "hook"
              THEN [action[d] EXCEPT !.seen = result] ELSE action[d]]
      BY <2>11 DEF CompactionEnds
    <3>2. result \in EndsSeen
      BY DEF EndsSeen
    <3> QED
      BY <1>0, <3>1, <3>2, EndsWritten
  <2>12. CASE PollCompaction(c)
    <3>1. PICK s \in {"partial", "completed", "unknown"} : action' = [action EXCEPT ![c].status = s]
      BY <2>12 DEF PollCompaction
    <3>2. s \in ActionStatuses
      BY <1>s
    <3> QED
      BY <1>0, <3>1, <3>2, StatusWritten
  <2> QED
    BY <2>1, <2>3, <2>4, <2>5, <2>6, <2>7, <2>8, <2>9, <2>10, <2>11, <2>12
<1>b. RestTypeOK' /\ (server.gen <= server.count)'
  <2>0. RestTypeOK /\ server.gen <= server.count
    BY TypesSplit DEF LaneInv
  <2> USE <2>0, LaneAssumption DEF RestTypeOK, Move, Tell, Ended, HandlerPlaces
  <2>1. CASE Enqueue(c)
    BY <2>1 DEF Enqueue
  <2>2. ASSUME NEW k \in Kinds, Handle(c, k),
               UNCHANGED <<mode, owner, server, thread, compacting, sent, executions, interrupted>>
        PROVE  RestTypeOK' /\ (server.gen <= server.count)'
    <3>1. CASE Refuse(c, k)
      BY <2>2, <3>1 DEF Refuse
    <3>2. CASE Accept(c, k)
      <4>1. command' \in [Commands -> [kind : Kinds, status : {"none", "queued", "running"} \cup Ended]]
        BY <3>2 DEF Accept
      <4>2. handler' \in [Commands -> HandlerPlaces]
        BY <3>2 DEF Accept
      <4> QED
        BY <2>2, <4>1, <4>2
    <3> QED
      BY <2>2, <3>1, <3>2 DEF Handle
  <2>3. CASE CallInline(c)
    BY <2>2, <2>3 DEF CallInline
  <2>4. CASE Take(c)
    <3>1. command[c].kind \in Kinds
      OBVIOUS
    <3> QED
      BY <2>2, <2>4, <3>1 DEF Take
  <2>5. CASE Ask(c)
    <3>1. server' \in [up : BOOLEAN, gen : 0..MaxServers, count : 0..MaxServers] /\ (server.gen <= server.count)'
      <4>1. server.gen \in 0..MaxServers /\ server.count \in 0..MaxServers
        OBVIOUS
      <4>2. CASE UNCHANGED server
        BY <4>2
      <4>3. CASE server.count < MaxServers /\ server' = [up |-> TRUE, gen |-> server.gen + 1, count |-> server.count + 1]
        <5>1. server.gen + 1 \in 0..MaxServers /\ server.count + 1 \in 0..MaxServers
          BY <4>1, <4>3
        <5> QED
          BY <4>1, <4>3, <5>1
      <4> QED
        BY <2>5, <4>2, <4>3 DEF Ask
    <3> QED
      BY <2>5, <3>1 DEF Ask
  <2>6. CASE AppFails(c)
    BY <2>6 DEF AppFails
  <2>7. CASE ServerExecutes(c)
    <3>1. thread' \in [archived : BOOLEAN, busy : BOOLEAN]
      <4>1. (command[c].kind = "archive") \in BOOLEAN
        OBVIOUS
      <4>2. \A b \in BOOLEAN : [thread EXCEPT !.archived = b] \in [archived : BOOLEAN, busy : BOOLEAN]
        OBVIOUS
      <4> QED
        BY <2>7, <4>1, <4>2, Zenon DEF ServerExecutes
    <3>2. handler' \in [Commands -> HandlerPlaces] /\ executions' \in [Commands -> Nat]
      BY <2>7 DEF ServerExecutes
    <3>3. compacting' \cup sent' \subseteq Commands
      BY <2>7 DEF ServerExecutes
    <3> QED
      BY <2>7, <3>1, <3>2, <3>3 DEF ServerExecutes
  <2>8. CASE Answered(c)
    BY <2>8 DEF Answered
  <2>9. CASE RequestFails(c)
    BY <2>9 DEF RequestFails
  <2>10. CASE CommandTimesOut(c)
    BY <2>10 DEF CommandTimesOut
  <2>11. CASE CompactionEnds(c)
    BY <2>11 DEF CompactionEnds
  <2>12. CASE PollCompaction(c)
    BY <2>12 DEF PollCompaction, Polls, HasApp, SameGeneration
  <2> QED
    BY <2>1, <2>3, <2>4, <2>5, <2>6, <2>7, <2>8, <2>9, <2>10, <2>11, <2>12
<1> QED
  BY <1>a, <1>b
  DEF LaneTypeOK, RestTypeOK, ActionRows, ActionRow, ActionStatuses, Generations, EndsSeen

\* They preserve the rest of the invariant, for this call and every other.
LEMMA CallEffects ==
  ASSUME LaneInv, NEW c \in Commands, NEW d \in Commands,
         \/ Enqueue(c) \/ CallInline(c) \/ Take(c) \/ Ask(c) \/ AppFails(c) \/ ServerExecutes(c)
         \/ Answered(c) \/ RequestFails(c) \/ CommandTimesOut(c) \/ CompactionEnds(c) \/ PollCompaction(c)
  PROVE  HandlerInv(d)' /\ EffectInv(d)'
<1> USE DEF HandlerInv, EffectInv, Effective, Move, Tell
<1>1. HandlerInv(c) /\ EffectInv(c) /\ HandlerInv(d) /\ EffectInv(d)
  BY DEF LaneInv
<1>2. /\ command \in [Commands -> [kind : Kinds, status : {"none", "queued", "running"} \cup Ended]]
      /\ action \in [Commands -> [status : {"none", "starting", "running"} \cup ActionOver,
                                  gen : 0..MaxServers, on : 0..MaxServers, seen : {"no", "ok", "hook"}]]
      /\ handler \in [Commands -> HandlerPlaces] /\ executions \in [Commands -> Nat]
  BY DEF LaneInv, LaneTypeOK
<1>3. CASE Enqueue(c)
  BY <1>1, <1>2, <1>3 DEF Enqueue
<1>4. ASSUME NEW k \in Kinds, Handle(c, k), command[c].status \in {"none", "queued"},
             UNCHANGED <<sent, executions>>
      PROVE  HandlerInv(d)' /\ EffectInv(d)'
  <2>1. CASE Refuse(c, k)
    BY <1>1, <1>2, <1>4, <2>1 DEF Refuse
  <2>2. CASE Accept(c, k)
    BY <1>1, <1>2, <1>4, <2>2 DEF Accept
  <2> QED
    BY <1>4, <2>1, <2>2 DEF Handle
<1>5. CASE CallInline(c)
  BY <1>4, <1>5 DEF CallInline
<1>6. CASE Take(c)
  <2>1. command[c].kind \in Kinds /\ command[c].status = "queued"
    BY <1>2, <1>6 DEF Take, Listed
  <2> QED
    BY <1>4, <1>6, <2>1 DEF Take
<1>7. CASE Ask(c)
  BY <1>1, <1>2, <1>7 DEF Ask
<1>8. CASE AppFails(c)
  BY <1>1, <1>2, <1>8 DEF AppFails
<1>9. CASE ServerExecutes(c)
  BY <1>1, <1>2, <1>9 DEF ServerExecutes, HandlerPlaces
<1>10. CASE Answered(c)
  BY <1>1, <1>2, <1>10 DEF Answered
<1>11. CASE RequestFails(c)
  BY <1>1, <1>2, <1>11 DEF RequestFails
<1>12. CASE CommandTimesOut(c)
  BY <1>1, <1>2, <1>12 DEF CommandTimesOut
<1>13. CASE CompactionEnds(c)
  BY <1>1, <1>2, <1>13 DEF CompactionEnds
<1>14. CASE PollCompaction(c)
  BY <1>1, <1>2, <1>14 DEF PollCompaction, Polls
<1> QED
  BY <1>3, <1>5, <1>6, <1>7, <1>8, <1>9, <1>10, <1>11, <1>12, <1>13, <1>14

LEMMA NextLane == LaneInv /\ [LaneNext]_laneVars => LaneInv'
<1> SUFFICES ASSUME LaneInv, [LaneNext]_laneVars PROVE LaneInv'
  OBVIOUS
<1>1. ASSUME NEW c \in Commands,
             \/ Enqueue(c) \/ CallInline(c) \/ Take(c) \/ Ask(c) \/ AppFails(c) \/ ServerExecutes(c)
             \/ Answered(c) \/ RequestFails(c) \/ CommandTimesOut(c) \/ CompactionEnds(c) \/ PollCompaction(c)
      PROVE  LaneInv'
  <2>1. LaneTypeOK' /\ (server.gen <= server.count)'
    BY <1>1, CallTypes
  <2>2. ASSUME NEW d \in Commands PROVE HandlerInv(d)' /\ EffectInv(d)'
    BY <1>1, <2>2, CallEffects
  <2> QED
    BY <2>1, <2>2 DEF LaneInv
<1>2. CASE ThreadBusy
  <2>1. thread' \in [archived : BOOLEAN, busy : BOOLEAN]
    BY <1>2 DEF ThreadBusy, LaneInv, LaneTypeOK
  <2> QED
    BY <1>2, <2>1 DEF ThreadBusy, LaneInv, LaneTypeOK, HandlerInv, EffectInv
<1>3. CASE ServerExits
  BY <1>3, LaneAssumption DEF ServerExits, LaneInv, LaneTypeOK, HandlerInv, EffectInv
<1>4. CASE OwnerStops
  <2>1. LaneTypeOK' /\ (server.gen <= server.count)'
    <3>1. server' \in [up : BOOLEAN, gen : 0..MaxServers, count : 0..MaxServers] /\ (server.gen <= server.count)'
      <4>1. server \in [up : BOOLEAN, gen : 0..MaxServers, count : 0..MaxServers]
        BY DEF LaneInv, LaneTypeOK
      <4>2. server' = [server EXCEPT !.up = FALSE, !.gen = 0]
        BY <1>4 DEF OwnerStops
      <4>3. 0 \in 0..MaxServers /\ server.count \in 0..MaxServers /\ 0 <= server.count
        BY <4>1, LaneAssumption
      <4> QED
        BY <4>1, <4>2, <4>3
    <3>2. owner' \in [up : BOOLEAN, stops : 0..MaxStops]
      BY <1>4, LaneAssumption DEF OwnerStops, LaneInv, LaneTypeOK
    <3>3. handler' \in [Commands -> HandlerPlaces] /\ interrupted' \subseteq Commands
      BY <1>4 DEF OwnerStops, LaneInv, LaneTypeOK, HandlerPlaces, Running
    <3> QED
      BY <1>4, <3>1, <3>2, <3>3 DEF OwnerStops, LaneInv, LaneTypeOK
  <2>2. ASSUME NEW d \in Commands PROVE HandlerInv(d)' /\ EffectInv(d)'
    BY <1>4 DEF OwnerStops, LaneInv, HandlerInv, EffectInv
  <2> QED
    BY <2>1, <2>2 DEF LaneInv
<1>5. CASE OwnerStarts
  BY <1>5 DEF OwnerStarts, LaneInv, LaneTypeOK, HandlerInv, EffectInv
<1>6. CASE UNCHANGED laneVars
  BY <1>6 DEF laneVars, LaneInv, LaneTypeOK, HandlerInv, EffectInv
<1> QED
  BY <1>1, <1>2, <1>3, <1>4, <1>5, <1>6 DEF LaneNext

LEMMA LaneInductive == LaneSpec => []LaneInv
<1> QED
  BY InitLane, NextLane, PTL DEF LaneSpec

\* Every variable of the lane keeps its type.
THEOREM LaneTypes == LaneSpec => []LaneTypeOK
<1>1. LaneInv => LaneTypeOK
  BY DEF LaneInv
<1> QED
  BY <1>1, LaneInductive, PTL

\* A call of the lane, or of a process that owns the app-server, is executed at
\* most once, and what is reported completed was executed.
THEOREM LaneTellsTheTruth == LaneSpec => []CommandTellsTheTruth
<1>1. LaneInv => CommandTellsTheTruth
  BY DEF LaneInv, EffectInv, Effective, CommandTellsTheTruth
<1> QED
  BY <1>1, LaneInductive, PTL

-----------------------------------------------------------------------------

(***************************************************************************)
(* The goal of a workflow's thread.                                        *)
(*                                                                         *)
(* Replies come in the order in which the app-server executed the          *)
(* requests, so the replies that wait tell, one after the other, how the   *)
(* goal went from what the row says to what it is: the invariant is that   *)
(* chain.                                                                  *)
(***************************************************************************)

GoalTypes ==
  /\ goalRow \in [state : SyncStates, stored : Goals, hash : {"managed", "completion"}]
  /\ workflow \in [thread : BOOLEAN, completed : BOOLEAN, configured : BOOLEAN, action : Actions]
  /\ liveGoal \in Goals
  /\ sync \in [Syncs -> [pc : {"idle"} \cup Gets \cup Sets, hash : {"managed", "completion"}, seen : Goals]]
  /\ foreign \in Nat /\ failures \in Nat

\* What the app-server had for the thread when it had executed the request of t.
Left(t) == CASE sync[t].pc = "set" -> "managed"
             [] sync[t].pc = "set_complete" -> "completion"
             [] sync[t].pc = "clear" -> "none"
             [] OTHER -> sync[t].seen

\* Replies come one per request that waits.
RepliesInv ==
  /\ replies \in Seq(Syncs)
  /\ \A i, j \in DOMAIN replies : replies[i] = replies[j] => i = j
  /\ \A i \in DOMAIN replies : sync[replies[i]].pc # "idle"

\* The row gets an error only when a request fails.
NoErrorInv ==
  /\ goalRow.state \notin {"error", "unsupported"}
  /\ \A t \in Syncs : sync[t].pc # "get_error"
  /\ ~workflow.configured => /\ goalRow.state \in {"not_configured", "observed"}
                             /\ \A t \in Syncs : sync[t].pc \in {"idle", "observe"}

RowSays(goal) ==
  /\ goalRow.state = "cleared" => goal = "none"
  /\ goalRow.state \in {"active", "left"} => goal = "managed"
  /\ goalRow.state = "complete" => goal = "completion"
  /\ goalRow.state = "external_override" => workflow.action = "set_complete"

\* Nobody but the syncs sets a goal.
OwnGoalsInv ==
  /\ liveGoal # "foreign" /\ \A t \in Syncs : sync[t].seen # "foreign"
  /\ workflow.action # "set_complete" =>
       /\ goalRow.hash = "managed" /\ liveGoal # "completion"
       /\ \A t \in Syncs : /\ sync[t].hash = "managed" /\ sync[t].seen # "completion"
                           /\ sync[t].pc # "set_complete"

\* The replies, read in order, tell the goal from what the row says to what is.
ChainInv ==
  /\ replies = <<>> => RowSays(liveGoal)
  /\ replies # <<>> => Left(replies[Len(replies)]) = liveGoal
  /\ replies # <<>> /\ sync[replies[1]].pc \in Gets => RowSays(sync[replies[1]].seen)
  /\ \A i \in DOMAIN replies : \A j \in DOMAIN replies :
       j = i + 1 /\ sync[replies[j]].pc \in Gets => sync[replies[j]].seen = Left(replies[i])

\* A person's goal that is to survive: nobody is about to replace it.
UntouchedInv ==
  untouched => /\ liveGoal = "foreign" /\ workflow.thread /\ workflow.configured
               /\ goalRow.state \in {"active", "external_override"}
               /\ \A t \in Syncs : /\ sync[t].pc \in {"idle", "get_active", "get_completed"}
                                   /\ Served(t) => sync[t].seen = "foreign"

GoalInv ==
  /\ GoalTypes
  /\ failures = 0 => RepliesInv /\ NoErrorInv /\ UntouchedInv
  /\ failures = 0 /\ foreign = 0 => OwnGoalsInv /\ ChainInv

-----------------------------------------------------------------------------

LEMMA InitGoal == GoalInit => GoalInv
<1> SUFFICES ASSUME GoalInit PROVE GoalInv
  OBVIOUS
<1>1. GoalTypes
  BY DEF GoalInit, GoalTypes, SyncStates, Goals, Actions, NoSync
<1>2. RepliesInv /\ NoErrorInv /\ UntouchedInv
  BY DEF GoalInit, RepliesInv, NoErrorInv, UntouchedInv, NoSync
<1>3. OwnGoalsInv /\ ChainInv
  BY DEF GoalInit, OwnGoalsInv, ChainInv, RowSays, NoSync
<1> QED
  BY <1>1, <1>2, <1>3 DEF GoalInv

\* Types are kept, and failures and foreign goals are only counted up.
LEMMA GoalTypesKept ==
  ASSUME GoalTypes, GoalNext
  PROVE  /\ GoalTypes'
         /\ failures' = 0 => failures = 0
         /\ foreign' = 0 => foreign = 0
<1> USE DEF GoalTypes, SyncStates, Goals, Actions, Gets, Sets, Others, NoFault
<1>1. ASSUME NEW t \in Syncs, SyncStep(t)
      PROVE  GoalTypes' /\ failures' = failures /\ foreign' = foreign
  <2>1. CASE SyncWithoutThread(t)
    BY <2>1 DEF SyncWithoutThread
  <2>2. CASE SyncBegins(t)
    BY <2>2 DEF SyncBegins, AskGoal
  <2>3. CASE SyncTrustsStored(t)
    BY <2>3 DEF SyncTrustsStored, SetRow
  <2>4. CASE Serve(t)
    <3>1. UNCHANGED <<goalRow, workflow, foreign, failures>>
      BY <2>4 DEF Serve
    <3>2. liveGoal' \in Goals /\ sync' \in {sync, [sync EXCEPT ![t].seen = liveGoal]}
      BY <2>4 DEF Serve, Executed
    <3> QED
      BY <3>1, <3>2
  <2>5. CASE ObservedReply(t)
    <3>1. /\ sync' = [sync EXCEPT ![t] = NoSync]
          /\ UNCHANGED <<workflow, liveGoal, foreign, failures>>
      BY <2>5 DEF ObservedReply, EndSync
    <3>2. PICK state \in SyncStates : goalRow' = [goalRow EXCEPT !.state = state, !.stored = sync[t].seen]
      BY <2>5 DEF ObservedReply, SetRow
    <3>3. goalRow' \in [state : SyncStates, stored : Goals, hash : {"managed", "completion"}]
      BY <3>2
    <3> QED
      BY <3>1, <3>3 DEF NoSync
  <2>6. CASE ActiveReply(t)
    <3>1. /\ sync' = [sync EXCEPT ![t] = NoSync]
          /\ UNCHANGED <<workflow, liveGoal, foreign, failures>>
      BY <2>6 DEF ActiveReply, EndSync
    <3>2. PICK state \in SyncStates : goalRow' = [goalRow EXCEPT !.state = state, !.stored = sync[t].seen]
      BY <2>6 DEF ActiveReply, SetRow
    <3>3. goalRow' \in [state : SyncStates, stored : Goals, hash : {"managed", "completion"}]
      BY <3>2
    <3> QED
      BY <3>1, <3>3 DEF NoSync
  <2>7. CASE ErrorReply(t)
    <3>1. UNCHANGED <<workflow, liveGoal, foreign, failures>>
      BY <2>7 DEF ErrorReply
    <3>2. sync[t].seen \in Goals
      OBVIOUS
    <3>3. CASE sync[t].seen = "none"
      <4>1. sync' = [sync EXCEPT ![t].pc = "set"] /\ UNCHANGED goalRow
        BY <2>7, <3>3 DEF ErrorReply, AskNext
      <4> QED
        BY <3>1, <4>1
    <3>4. CASE sync[t].seen # "none"
      <4>1. sync' = [sync EXCEPT ![t] = NoSync]
        BY <2>7, <3>4 DEF ErrorReply, EndSync
      <4>2. PICK state \in SyncStates : goalRow' = [goalRow EXCEPT !.state = state, !.stored = sync[t].seen]
        BY <2>7, <3>4 DEF ErrorReply, SetRow
      <4>3. goalRow' \in [state : SyncStates, stored : Goals, hash : {"managed", "completion"}]
        BY <3>2, <4>2
      <4> QED
        BY <3>1, <4>1, <4>3 DEF NoSync
    <3> QED
      BY <3>3, <3>4
  <2>8. CASE SetReply(t)
    <3>1. sync[t].hash \in {"managed", "completion"}
      OBVIOUS
    <3>2. goalRow' \in [state : SyncStates, stored : Goals, hash : {"managed", "completion"}]
      BY <2>8, <3>1 DEF SetReply
    <3>3. /\ sync' = [sync EXCEPT ![t] = NoSync]
          /\ UNCHANGED <<workflow, liveGoal, foreign, failures>>
      BY <2>8 DEF SetReply, EndSync
    <3> QED
      BY <3>2, <3>3 DEF NoSync
  <2>9. CASE CompletedReply(t)
    <3>1. UNCHANGED <<workflow, liveGoal, foreign, failures>>
      BY <2>9 DEF CompletedReply
    <3>2. sync[t].seen \in Goals /\ workflow.action \in Actions
      OBVIOUS
    <3>3. CASE sync[t].seen # "none" /\ ~LeavesForeign(t) /\ workflow.action # "leave"
      <4>1. sync' = [sync EXCEPT ![t].pc = workflow.action] /\ UNCHANGED goalRow
        BY <2>9, <3>3 DEF CompletedReply, AskNext
      <4> QED
        BY <3>1, <3>2, <3>3, <4>1
    <3>4. CASE ~(sync[t].seen # "none" /\ ~LeavesForeign(t) /\ workflow.action # "leave")
      <4>1. sync' = [sync EXCEPT ![t] = NoSync]
        BY <2>9, <3>4 DEF CompletedReply, EndSync
      <4>2. \E state \in SyncStates, stored \in Goals : goalRow' = [goalRow EXCEPT !.state = state, !.stored = stored]
        BY <2>9, <3>2, <3>4 DEF CompletedReply, SetRow
      <4>3. goalRow' \in [state : SyncStates, stored : Goals, hash : {"managed", "completion"}]
        <5>1. goalRow \in [state : SyncStates, stored : Goals, hash : {"managed", "completion"}]
          OBVIOUS
        <5> HIDE DEF GoalTypes, SyncStates, Goals
        <5> QED
          BY <4>2, <5>1
      <4> QED
        BY <3>1, <4>1, <4>3 DEF NoSync
    <3> QED
      BY <3>3, <3>4
  <2>10. CASE SetCompleteReply(t)
    BY <2>10 DEF SetCompleteReply, EndSync, NoSync
  <2>11. CASE ClearReply(t)
    BY <2>11 DEF ClearReply, SetRow, EndSync, NoSync
  <2> QED
    BY <1>1, <2>1, <2>2, <2>3, <2>4, <2>5, <2>6, <2>7, <2>8, <2>9, <2>10, <2>11 DEF SyncStep, Reply
<1>2. ASSUME NEW t \in Syncs, NEW state \in {"error", "unsupported"}, GoalRequestFails(t, state)
      PROVE  GoalTypes' /\ failures' = failures + 1 /\ foreign' = foreign
  BY <1>2 DEF GoalRequestFails, EndSync, AskNext, NoSync
<1>3. CASE ThreadStarts \/ WorkflowCompletes
  BY <1>3 DEF ThreadStarts, WorkflowCompletes
<1>4. ASSUME NEW goal \in {"none", "foreign"}, PersonSets(goal)
      PROVE  GoalTypes' /\ failures' = failures /\ foreign' = foreign + 1
  BY <1>4 DEF PersonSets
<1> QED
  BY <1>1, <1>2, <1>3, <1>4 DEF GoalNext

\* A reply that is handled leaves the rest of the replies as they were.
LEMMA ReplyHandled ==
  ASSUME RepliesInv, NEW t \in Syncs, Handled(t), \A u \in Syncs \ {t} : sync'[u] = sync[u]
  PROVE  /\ RepliesInv'
         /\ replies # <<>> /\ replies[1] = t /\ Served(t)
         /\ Len(replies) \in Nat /\ Len(replies') = Len(replies) - 1
         /\ DOMAIN replies' = 1..(Len(replies) - 1) /\ DOMAIN replies = 1..Len(replies)
         /\ \A i \in DOMAIN replies' : /\ replies'[i] = replies[i + 1] /\ i + 1 \in DOMAIN replies
                                       /\ replies'[i] \in Syncs \ {t}
<1>1. replies \in Seq(Syncs) /\ replies # <<>> /\ replies' = Tail(replies) /\ Head(replies) = t
  BY DEF RepliesInv, Handled
<1>2. /\ replies[1] = t /\ Len(replies) \in Nat /\ Len(replies) > 0
      /\ replies' \in Seq(Syncs) /\ Len(replies') = Len(replies) - 1
      /\ DOMAIN replies' = 1..(Len(replies) - 1) /\ DOMAIN replies = 1..Len(replies)
      /\ \A i \in 1..(Len(replies) - 1) : replies'[i] = replies[i + 1]
  BY <1>1
<1>3. \A i \in DOMAIN replies' : i + 1 \in DOMAIN replies /\ i + 1 # 1
  BY <1>2
<1>4. \A i \in DOMAIN replies' : replies'[i] \in Syncs \ {t}
  BY <1>2, <1>3 DEF RepliesInv
<1>5. RepliesInv'
  <2>1. \A i, j \in DOMAIN replies' : replies'[i] = replies'[j] => i = j
    BY <1>2, <1>3 DEF RepliesInv
  <2>2. \A i \in DOMAIN replies' : sync'[replies'[i]].pc # "idle"
    BY <1>2, <1>3, <1>4 DEF RepliesInv
  <2> QED
    BY <1>2, <2>1, <2>2 DEF RepliesInv
<1> QED
  BY <1>1, <1>2, <1>3, <1>4, <1>5 DEF Served

LEMMA ChainHandled ==
  ASSUME GoalTypes, RepliesInv, ChainInv, NEW t \in Syncs, Handled(t),
         \A u \in Syncs \ {t} : sync'[u] = sync[u],
         liveGoal' = liveGoal, NEW g, g = Left(t), RowSays(g)'
  PROVE  ChainInv'
<1>1. /\ RepliesInv' /\ replies # <<>> /\ replies[1] = t
      /\ Len(replies) \in Nat /\ Len(replies') = Len(replies) - 1
      /\ DOMAIN replies' = 1..(Len(replies) - 1) /\ DOMAIN replies = 1..Len(replies)
      /\ \A i \in DOMAIN replies' : /\ replies'[i] = replies[i + 1] /\ i + 1 \in DOMAIN replies
                                    /\ replies'[i] \in Syncs \ {t}
  BY ReplyHandled
<1>2. \A u \in Syncs \ {t} : Left(u)' = Left(u)
  BY DEF Left
<1>3. ASSUME replies' = <<>> PROVE RowSays(liveGoal)'
  <2>1. Len(replies) = 1
    BY <1>1, <1>3
  <2>2. liveGoal' = g
    BY <1>1, <2>1 DEF ChainInv
  <2> QED
    BY <2>2 DEF RowSays
<1>4. ASSUME replies' # <<>>
      PROVE  /\ Left(replies[Len(replies)])' = liveGoal'
             /\ sync'[replies'[1]].pc \in Gets => RowSays(sync[replies[1]].seen)'
  <2>1. 1 \in DOMAIN replies' /\ Len(replies') \in DOMAIN replies' /\ Len(replies) = Len(replies') + 1
    BY <1>1, <1>4 DEF RepliesInv
  <2>2. Left(replies[Len(replies)])' = liveGoal'
    BY <1>1, <1>2, <2>1 DEF ChainInv
  <2>3. ASSUME sync'[replies'[1]].pc \in Gets
        PROVE  sync'[replies'[1]].seen = g
    BY <1>1, <2>1, <2>3 DEF ChainInv
  <2> QED
    BY <2>2, <2>3 DEF RowSays
<1>5. ASSUME NEW i \in DOMAIN replies', NEW j \in DOMAIN replies',
             j = i + 1, sync'[replies'[j]].pc \in Gets
      PROVE  sync'[replies'[j]].seen = Left(replies[i])'
  BY <1>1, <1>2, <1>5 DEF ChainInv
<1> QED
  BY <1>3, <1>4, <1>5 DEF ChainInv

-----------------------------------------------------------------------------

\* As long as no request fails, the row has no error and no reply is lost.
LEMMA NoErrorsKept ==
  ASSUME GoalTypes, RepliesInv, NoErrorInv, GoalNext, failures' = 0
  PROVE  RepliesInv' /\ NoErrorInv'
<1> USE DEF Gets, Sets, Others
<1>1. ASSUME NEW t \in Syncs, SyncStep(t) PROVE RepliesInv' /\ NoErrorInv'
  <2>1. CASE SyncWithoutThread(t)
    BY <2>1 DEF SyncWithoutThread, RepliesInv, NoErrorInv, GoalTypes
  <2>2. CASE SyncBegins(t)
    <3>1. \A i \in DOMAIN replies : replies[i] # t
      BY <2>2 DEF SyncBegins, RepliesInv
    <3>2. \A u \in Syncs \ {t} : sync'[u] = sync[u]
      BY <2>2 DEF SyncBegins, AskGoal, GoalTypes
    <3>3. sync'[t].pc \in {"observe", "get_completed", "get_active", "set"}
      BY <1>1, <2>2 DEF SyncBegins, AskGoal, NoErrorInv, GoalTypes
    <3>4. UNCHANGED <<goalRow, workflow, replies>>
      BY <2>2 DEF SyncBegins
    <3>5. RepliesInv'
      BY <3>1, <3>2, <3>4 DEF RepliesInv
    <3>6. ~workflow.configured => sync'[t].pc = "observe"
      BY <1>1, <2>2 DEF SyncBegins, AskGoal, GoalTypes
    <3> QED
      BY <3>2, <3>3, <3>4, <3>5, <3>6 DEF NoErrorInv
  <2>3. CASE SyncTrustsStored(t)
    BY <2>3 DEF SyncTrustsStored, NoErrorInv
  <2>4. CASE Serve(t)
    <3>1. replies' = Append(replies, t) /\ UNCHANGED <<goalRow, workflow>> /\ sync[t].pc # "idle"
          /\ \A i \in DOMAIN replies : replies[i] # t
      BY <2>4 DEF Serve, Served
    <3>2. \A u \in Syncs : sync'[u].pc = sync[u].pc
      BY <1>1, <2>4 DEF Serve, Executed, GoalTypes
    <3>3. /\ replies' \in Seq(Syncs) /\ Len(replies) \in Nat /\ DOMAIN replies = 1..Len(replies)
          /\ DOMAIN replies' = 1..(Len(replies) + 1) /\ replies'[Len(replies) + 1] = t
          /\ \A i \in DOMAIN replies : replies'[i] = replies[i]
      BY <1>1, <3>1 DEF RepliesInv
    <3>4. \A i, j \in DOMAIN replies' : replies'[i] = replies'[j] => i = j
      BY <3>1, <3>3 DEF RepliesInv
    <3>5. ASSUME NEW i \in DOMAIN replies' PROVE sync'[replies'[i]].pc # "idle"
      <4>1. replies'[i] \in Syncs /\ (replies'[i] = t \/ (i \in DOMAIN replies /\ replies'[i] = replies[i]))
        BY <1>1, <3>3, <3>5
      <4> QED
        BY <3>1, <3>2, <4>1 DEF RepliesInv
    <3> QED
      BY <3>1, <3>2, <3>3, <3>4, <3>5 DEF RepliesInv, NoErrorInv
  <2>5. CASE Reply(t)
    <3>1. Handled(t) /\ UNCHANGED workflow
      BY <2>5
           DEF Reply, ObservedReply, ActiveReply, ErrorReply, SetReply, CompletedReply,
               SetCompleteReply, ClearReply
    <3>2. \A u \in Syncs \ {t} : sync'[u] = sync[u]
      BY <2>5
           DEF Reply, ObservedReply, ActiveReply, ErrorReply, SetReply, CompletedReply,
               SetCompleteReply, ClearReply,
                  EndSync, AskNext, GoalTypes
    <3>3. sync'[t].pc \in {"idle", "set"} \cup Actions
      BY <1>1, <2>5
           DEF Reply, ObservedReply, ActiveReply, ErrorReply, SetReply, CompletedReply,
               SetCompleteReply, ClearReply,
                  EndSync, AskNext, GoalTypes, NoSync
    <3>4. goalRow'.state \notin {"error", "unsupported"}
      <4>1. goalRow \in [state : SyncStates, stored : Goals, hash : {"managed", "completion"}]
            /\ goalRow.state \notin {"error", "unsupported"}
        BY DEF GoalTypes, NoErrorInv
      <4>2. CASE ObservedReply(t) \/ ActiveReply(t) \/ ErrorReply(t)
        BY <4>1, <4>2 DEF ObservedReply, ActiveReply, ErrorReply, SetRow
      <4>3. CASE CompletedReply(t)
        BY <4>1, <4>3 DEF CompletedReply, SetRow
      <4>4. CASE SetReply(t) \/ SetCompleteReply(t)
        BY <4>4 DEF SetReply, SetCompleteReply
      <4>5. CASE ClearReply(t)
        BY <4>1, <4>5 DEF ClearReply, SetRow
      <4> QED
        BY <2>5, <4>2, <4>3, <4>4, <4>5 DEF Reply
    <3>5. ASSUME ~workflow.configured
          PROVE  goalRow'.state \in {"not_configured", "observed"} /\ sync'[t].pc = "idle"
      <4>1. ObservedReply(t)
        BY <1>1, <2>5, <3>5
             DEF Reply, ObservedReply, ActiveReply, ErrorReply, SetReply, CompletedReply,
                 SetCompleteReply,
                    ClearReply, NoErrorInv
      <4> QED
        BY <1>1, <4>1 DEF ObservedReply, SetRow, EndSync, NoSync, GoalTypes
    <3> QED
      BY <3>1, <3>2, <3>3, <3>4, <3>5, ReplyHandled DEF NoErrorInv, Actions
  <2> QED
    BY <1>1, <2>1, <2>2, <2>3, <2>4, <2>5 DEF SyncStep
<1>2. ASSUME NEW t \in Syncs, NEW state \in {"error", "unsupported"}, GoalRequestFails(t, state)
      PROVE  FALSE
  BY <1>2 DEF GoalRequestFails, GoalTypes
<1>3. CASE ThreadStarts \/ WorkflowCompletes
  BY <1>3 DEF ThreadStarts, WorkflowCompletes, RepliesInv, NoErrorInv, GoalTypes
<1>4. ASSUME NEW goal \in {"none", "foreign"}, PersonSets(goal)
      PROVE  RepliesInv' /\ NoErrorInv'
  BY <1>4 DEF PersonSets, RepliesInv, NoErrorInv
<1> QED
  BY <1>1, <1>2, <1>3, <1>4 DEF GoalNext

\* A goal that is to survive is only read: nobody is about to set or clear it.
LEMMA UntouchedKept ==
  ASSUME GoalTypes, RepliesInv, NoErrorInv, UntouchedInv, GoalNext, failures' = 0
  PROVE  /\ UntouchedInv'
         /\ untouched /\ foreign' = foreign => untouched'
<1> USE DEF Gets, Sets, Others
<1>1. ASSUME NEW t \in Syncs, SyncStep(t), untouched
      PROVE  untouched' /\ UntouchedInv'
  <2>1. /\ liveGoal = "foreign" /\ workflow.thread /\ workflow.configured
        /\ goalRow.state \in {"active", "external_override"}
        /\ \A u \in Syncs : /\ sync[u].pc \in {"idle", "get_active", "get_completed"}
                            /\ Served(u) => sync[u].seen = "foreign"
    BY <1>1 DEF UntouchedInv
  <2>2. CASE SyncWithoutThread(t) \/ SyncTrustsStored(t)
    BY <2>1, <2>2 DEF SyncWithoutThread, SyncTrustsStored
  <2>3. CASE SyncBegins(t)
    <3>1. UNCHANGED <<goalRow, workflow, liveGoal, replies, untouched>>
      BY <2>3 DEF SyncBegins
    <3>2. ~Served(t)
      BY <2>3 DEF SyncBegins, RepliesInv, Served
    <3>3. sync'[t].pc \in {"get_active", "get_completed"}
      BY <1>1, <2>1, <2>3 DEF SyncBegins, AskGoal, GoalTypes
    <3>4. \A u \in Syncs \ {t} : sync'[u] = sync[u]
      BY <2>3 DEF SyncBegins, AskGoal, GoalTypes
    <3> QED
      BY <1>1, <2>1, <3>1, <3>2, <3>3, <3>4 DEF UntouchedInv, Served
  <2>4. CASE Serve(t)
    <3>1. /\ UNCHANGED <<goalRow, workflow, liveGoal, untouched>>
          /\ sync' = [sync EXCEPT ![t].seen = liveGoal]
          /\ replies' = Append(replies, t)
      BY <1>1, <2>1, <2>4 DEF Serve
    <3>2. \A u \in Syncs : Served(u)' => Served(u) \/ u = t
      BY <1>1, <3>1 DEF Served, RepliesInv
    <3>3. \A u \in Syncs : sync'[u].pc = sync[u].pc /\ (sync'[u].seen = sync[u].seen \/ sync'[u].seen = "foreign")
      BY <2>1, <3>1 DEF GoalTypes
    <3>4. sync'[t].seen = "foreign"
      BY <1>1, <2>1, <3>1 DEF GoalTypes
    <3> QED
      BY <1>1, <2>1, <3>1, <3>2, <3>3, <3>4 DEF UntouchedInv
  <2>5. CASE Reply(t)
    <3>1. Handled(t)
      BY <2>5
           DEF Reply, ObservedReply, ActiveReply, ErrorReply, SetReply, CompletedReply,
               SetCompleteReply, ClearReply
    <3>2. Served(t) /\ sync[t].seen = "foreign" /\ IsForeign(t)
      <4>1. Served(t)
        BY <3>1 DEF Handled, Served, RepliesInv
      <4>2. sync[t].hash # "foreign"
        BY <1>1 DEF GoalTypes
      <4> QED
        BY <1>1, <2>1, <4>1, <4>2 DEF IsForeign
    <3>3. ActiveReply(t) \/ CompletedReply(t)
      BY <1>1, <2>1, <2>5
           DEF Reply, ObservedReply, ActiveReply, ErrorReply, SetReply, CompletedReply,
               SetCompleteReply, ClearReply
    <3>4. /\ SetRow("external_override", sync[t].seen) /\ EndSync(t)
          /\ UNCHANGED <<workflow, liveGoal, untouched>>
      BY <3>2, <3>3 DEF ActiveReply, CompletedReply, LeavesForeign
    <3>5. goalRow'.state = "external_override"
      BY <3>4 DEF SetRow, GoalTypes
    <3>6. sync'[t].pc = "idle" /\ \A u \in Syncs \ {t} : sync'[u] = sync[u]
      BY <1>1, <3>4 DEF EndSync, NoSync, GoalTypes
    <3>7. \A u \in Syncs : Served(u)' => Served(u) /\ u # t
      BY <3>1, <3>6, ReplyHandled DEF Served
    <3> QED
      BY <1>1, <2>1, <3>4, <3>5, <3>6, <3>7 DEF UntouchedInv
  <2> QED
    BY <1>1, <2>2, <2>3, <2>4, <2>5 DEF SyncStep
<1>2. ASSUME NEW t \in Syncs, SyncStep(t), ~untouched
      PROVE  ~untouched'
  BY <1>2
       DEF SyncStep, SyncWithoutThread, SyncBegins, SyncTrustsStored, Serve, Executed, Reply,
           ObservedReply, ActiveReply,
              ErrorReply, SetReply, CompletedReply, SetCompleteReply, ClearReply
<1>3. ASSUME NEW t \in Syncs, NEW state \in {"error", "unsupported"}, GoalRequestFails(t, state)
      PROVE  FALSE
  BY <1>3 DEF GoalRequestFails, GoalTypes
<1>4. CASE ThreadStarts \/ WorkflowCompletes
  BY <1>4 DEF ThreadStarts, WorkflowCompletes, UntouchedInv, Served, GoalTypes
<1>5. ASSUME NEW goal \in {"none", "foreign"}, PersonSets(goal)
      PROVE  UntouchedInv' /\ foreign' # foreign
  <2>1. foreign' # foreign
    BY <1>5 DEF PersonSets, GoalTypes
  <2>2. \A t \in Syncs : sync[t].pc = "idle" => ~Served(t)
    BY DEF RepliesInv, Served
  <2>3. goalRow.state = "active" => workflow.configured
    BY DEF NoErrorInv
  <2> QED
    BY <1>5, <2>1, <2>2, <2>3 DEF PersonSets, UntouchedInv, Served
<1> QED
  <2>1. ASSUME NEW t \in Syncs, SyncStep(t)
        PROVE  UntouchedInv' /\ (untouched => untouched')
    BY <1>1, <1>2, <2>1 DEF UntouchedInv
  <2>2. CASE ThreadStarts \/ WorkflowCompletes
    BY <1>4, <2>2 DEF ThreadStarts, WorkflowCompletes
  <2> QED
    BY <1>3, <1>5, <2>1, <2>2, <1>4 DEF GoalNext

-----------------------------------------------------------------------------

\* A step of a sync that handles no reply keeps the chain.
LEMMA ChainBegins ==
  ASSUME GoalTypes, RepliesInv, ChainInv, NEW t \in Syncs, sync[t].pc = "idle",
         \A u \in Syncs \ {t} : sync'[u] = sync[u],
         UNCHANGED <<goalRow, workflow, liveGoal, replies>>
  PROVE  ChainInv'
<1>1. \A i \in DOMAIN replies : replies[i] \in Syncs \ {t}
  BY DEF RepliesInv
<1>2. \A i \in DOMAIN replies : Left(replies[i])' = Left(replies[i]) /\ sync'[replies[i]] = sync[replies[i]]
  BY <1>1 DEF Left
<1>3. replies # <<>> => 1 \in DOMAIN replies /\ Len(replies) \in DOMAIN replies
  BY DEF RepliesInv
<1>4. \A g : RowSays(g)' <=> RowSays(g)
  BY DEF RowSays
<1> QED
  BY <1>2, <1>3, <1>4 DEF ChainInv, RowSays

\* An executed request extends it.
LEMMA ChainServed ==
  ASSUME GoalTypes, RepliesInv, ChainInv, NEW t \in Syncs, Serve(t)
  PROVE  ChainInv'
<1>1. /\ replies' = Append(replies, t) /\ UNCHANGED <<goalRow, workflow>>
      /\ \A i \in DOMAIN replies : replies[i] # t
      /\ sync[t].pc \in Gets \cup Sets
  BY DEF Serve, Served, Others
<1>2. /\ Len(replies) \in Nat /\ DOMAIN replies = 1..Len(replies) /\ Len(replies') = Len(replies) + 1
      /\ DOMAIN replies' = 1..(Len(replies) + 1) /\ replies'[Len(replies) + 1] = t
      /\ \A i \in DOMAIN replies : replies'[i] = replies[i] /\ replies[i] \in Syncs \ {t}
      /\ replies = <<>> <=> Len(replies) = 0
      /\ replies' # <<>>
  BY <1>1 DEF RepliesInv
<1>3. \A u \in Syncs \ {t} : sync'[u] = sync[u] /\ Left(u)' = Left(u)
  <2>1. \A u \in Syncs \ {t} : sync'[u] = sync[u]
    BY DEF Serve, Executed, GoalTypes
  <2> QED
    BY <2>1 DEF Left
<1>4. sync'[t].pc = sync[t].pc
  BY DEF Serve, Executed, GoalTypes
<1>5. /\ Left(t)' = liveGoal'
      /\ sync[t].pc \in Gets => sync'[t].seen = liveGoal /\ liveGoal' = liveGoal
  <2>1. CASE sync[t].pc \in Gets
    <3>1. sync' = [sync EXCEPT ![t].seen = liveGoal] /\ liveGoal' = liveGoal
      BY <2>1 DEF Serve, Gets, Sets
    <3> QED
      BY <1>4, <2>1, <3>1 DEF Left, Gets, GoalTypes
  <2>2. CASE sync[t].pc \in Sets
    BY <1>4, <2>2 DEF Serve, Executed, Left, Gets, Sets
  <2> QED
    BY <1>1, <2>1, <2>2 DEF Gets, Sets
<1>6. Left(replies[Len(replies)])' = liveGoal'
  BY <1>2, <1>5
<1>7. ASSUME sync'[replies'[1]].pc \in Gets
      PROVE  RowSays(sync[replies[1]].seen)'
  <2>1. CASE Len(replies) = 0
    <3>1. sync'[t].seen = liveGoal /\ RowSays(liveGoal) /\ replies'[1] = t
      BY <1>2, <1>4, <1>5, <1>7, <2>1 DEF ChainInv
    <3> QED
      BY <1>1, <3>1 DEF RowSays
  <2>2. CASE Len(replies) > 0
    <3>1. replies'[1] = replies[1] /\ sync'[replies[1]] = sync[replies[1]] /\ RowSays(sync[replies[1]].seen)
      BY <1>2, <1>3, <1>7, <2>2 DEF ChainInv
    <3> QED
      BY <1>1, <3>1 DEF RowSays
  <2> QED
    BY <1>2, <2>1, <2>2
<1>8. ASSUME NEW i \in DOMAIN replies', NEW j \in DOMAIN replies',
             j = i + 1, sync'[replies'[j]].pc \in Gets
      PROVE  sync'[replies'[j]].seen = Left(replies[i])'
  <2>1. i \in DOMAIN replies /\ Left(replies[i])' = Left(replies[i])
    BY <1>2, <1>3, <1>8
  <2>2. CASE j \in DOMAIN replies
    BY <1>2, <1>3, <1>8, <2>1, <2>2 DEF ChainInv
  <2>3. CASE j = Len(replies) + 1
    <3>1. Left(replies[i]) = liveGoal
      BY <1>2, <1>8, <2>1, <2>3 DEF ChainInv
    <3> QED
      BY <1>2, <1>4, <1>5, <1>8, <2>1, <2>3, <3>1
  <2> QED
    BY <1>2, <2>2, <2>3
<1> QED
  BY <1>2, <1>6, <1>7, <1>8 DEF ChainInv

\* Whatever a reply says, the row agrees with it afterwards.
LEMMA RowAgrees ==
  ASSUME GoalTypes, RepliesInv, NoErrorInv, OwnGoalsInv, ChainInv, NEW t \in Syncs, Reply(t)
  PROVE  \E g : g = Left(t) /\ RowSays(g)'
<1>1. Handled(t) /\ UNCHANGED workflow
  BY
       DEF Reply, ObservedReply, ActiveReply, ErrorReply, SetReply, CompletedReply, SetCompleteReply,
           ClearReply, Others
<1>2. replies # <<>> /\ replies[1] = t
  BY <1>1 DEF Handled, RepliesInv
<1>3. sync[t].pc \in Gets => Left(t) = sync[t].seen /\ RowSays(sync[t].seen)
  BY <1>2 DEF ChainInv, Left, Gets
<1>4. IsForeign(t) => workflow.action = "set_complete"
  BY DEF IsForeign, OwnGoalsInv, GoalTypes, Goals
<1>5. goalRow \in [state : SyncStates, stored : Goals, hash : {"managed", "completion"}]
  BY DEF GoalTypes
<1>7. CASE ObservedReply(t)
  <2>1. goalRow'.state \in {"not_configured", "observed"}
    BY <1>5, <1>7 DEF ObservedReply, SetRow
  <2> QED
    BY <2>1 DEF RowSays
<1>8. CASE ActiveReply(t)
  <2>1. goalRow'.state = IF IsForeign(t) THEN "external_override" ELSE goalRow.state
    BY <1>5, <1>8 DEF ActiveReply, SetRow
  <2>2. sync[t].pc \in Gets
    BY <1>8 DEF ActiveReply, Gets
  <2> QED
    BY <1>1, <1>3, <1>4, <2>1, <2>2 DEF RowSays
<1>9. CASE ErrorReply(t)
  BY <1>9 DEF ErrorReply, NoErrorInv
<1>10. CASE SetReply(t)
  <2>1. goalRow'.state = "active" /\ Left(t) = "managed"
    BY <1>10 DEF SetReply, Left
  <2> QED
    BY <2>1 DEF RowSays
<1>11. CASE CompletedReply(t)
  <2>1. Left(t) = sync[t].seen /\ RowSays(sync[t].seen)
    BY <1>3, <1>11 DEF CompletedReply, Gets
  <2>2. CASE sync[t].seen = "none"
    <3>1. goalRow'.state = "cleared"
      BY <1>5, <1>11, <2>2 DEF CompletedReply, SetRow
    <3> QED
      BY <2>1, <2>2, <3>1 DEF RowSays
  <2>3. CASE sync[t].seen # "none" /\ IsForeign(t)
    <3>1. goalRow'.state = "external_override"
      BY <1>5, <1>11, <2>3 DEF CompletedReply, SetRow, LeavesForeign
    <3> QED
      BY <1>1, <1>4, <2>3, <3>1 DEF RowSays
  <2>4. CASE sync[t].seen # "none" /\ ~IsForeign(t) /\ workflow.action = "leave"
    <3>1. goalRow'.state = "left"
      BY <1>5, <1>11, <2>4 DEF CompletedReply, SetRow, LeavesForeign
    <3>2. sync[t].seen = "managed"
      BY <2>4 DEF IsForeign, OwnGoalsInv
    <3> QED
      BY <2>1, <3>1, <3>2 DEF RowSays
  <2>5. CASE sync[t].seen # "none" /\ ~IsForeign(t) /\ workflow.action # "leave"
    <3>1. UNCHANGED goalRow
      BY <1>11, <2>5 DEF CompletedReply, LeavesForeign
    <3> QED
      BY <1>1, <2>1, <3>1 DEF RowSays
  <2> QED
    BY <2>2, <2>3, <2>4, <2>5
<1>12. CASE SetCompleteReply(t)
  <2>1. goalRow'.state = "complete" /\ Left(t) = "completion"
    BY <1>12 DEF SetCompleteReply, Left
  <2> QED
    BY <2>1 DEF RowSays
<1>13. CASE ClearReply(t)
  <2>1. goalRow'.state = "cleared" /\ Left(t) = "none"
    BY <1>5, <1>13 DEF ClearReply, SetRow, Left
  <2> QED
    BY <2>1 DEF RowSays
<1> QED
  BY <1>7, <1>8, <1>9, <1>10, <1>11, <1>12, <1>13 DEF Reply

\* Without a person's goal there is none but those the syncs set.
LEMMA OwnGoalsKept ==
  ASSUME GoalTypes, NoErrorInv, OwnGoalsInv, NEW t \in Syncs, SyncStep(t)
  PROVE  OwnGoalsInv'
<1> USE DEF Gets, Sets, Others
<1>1. CASE SyncWithoutThread(t) \/ SyncTrustsStored(t)
  BY <1>1 DEF SyncWithoutThread, SyncTrustsStored, OwnGoalsInv, NoErrorInv, GoalTypes
<1>2. CASE SyncBegins(t)
  <2>1. \A u \in Syncs \ {t} : sync'[u] = sync[u]
    BY <1>2 DEF SyncBegins, AskGoal, GoalTypes
  <2>2. sync'[t].hash = goalRow.hash /\ sync'[t].seen = "none" /\ sync'[t].pc # "set_complete"
    BY <1>2 DEF SyncBegins, AskGoal, GoalTypes
  <2> QED
    BY <1>2, <2>1, <2>2 DEF SyncBegins, OwnGoalsInv
<1>3. CASE Serve(t)
  <2>1. \A u \in Syncs : /\ sync'[u].pc = sync[u].pc /\ sync'[u].hash = sync[u].hash
                         /\ sync'[u].seen \in {sync[u].seen, liveGoal}
    BY <1>3 DEF Serve, Executed, GoalTypes
  <2>2. UNCHANGED <<goalRow, workflow>>
    BY <1>3 DEF Serve
  <2>3. liveGoal' \in {liveGoal, "managed", "none"} \/ (sync[t].pc = "set_complete" /\ liveGoal' = "completion")
    BY <1>3 DEF Serve, Executed
  <2> QED
    BY <2>1, <2>2, <2>3 DEF OwnGoalsInv
<1>4. CASE Reply(t)
  <2>1. \A u \in Syncs \ {t} : sync'[u] = sync[u]
    BY <1>4
         DEF Reply, ObservedReply, ActiveReply, ErrorReply, SetReply, CompletedReply, SetCompleteReply,
             ClearReply,
                EndSync, AskNext, GoalTypes
  <2>2. UNCHANGED <<workflow, liveGoal>>
    BY <1>4
         DEF Reply, ObservedReply, ActiveReply, ErrorReply, SetReply, CompletedReply, SetCompleteReply,
             ClearReply
  <2>3. \/ sync'[t] = NoSync
        \/ /\ sync'[t].hash = sync[t].hash /\ sync'[t].seen = sync[t].seen
           /\ sync'[t].pc \in {"set", workflow.action}
    <3>1. \/ EndSync(t)
          \/ \E pc \in {"set", workflow.action} : AskNext(t, pc)
      BY <1>4
           DEF Reply, ObservedReply, ActiveReply, ErrorReply, SetReply, CompletedReply,
               SetCompleteReply, ClearReply
    <3> QED
      BY <3>1 DEF EndSync, AskNext, GoalTypes
  <2>4. \/ goalRow'.hash = goalRow.hash
        \/ goalRow'.hash = sync[t].hash
        \/ sync[t].pc = "set_complete"
    <3>1. goalRow \in [state : SyncStates, stored : Goals, hash : {"managed", "completion"}]
      BY DEF GoalTypes
    <3>2. CASE ObservedReply(t) \/ ActiveReply(t) \/ ErrorReply(t)
      BY <3>1, <3>2 DEF ObservedReply, ActiveReply, ErrorReply, SetRow
    <3>3. CASE CompletedReply(t) \/ ClearReply(t)
      BY <3>1, <3>3 DEF CompletedReply, ClearReply, SetRow
    <3>4. CASE SetReply(t) \/ SetCompleteReply(t)
      BY <3>4 DEF SetReply, SetCompleteReply
    <3> QED
      BY <1>4, <3>2, <3>3, <3>4 DEF Reply
  <2> QED
    BY <2>1, <2>2, <2>3, <2>4 DEF OwnGoalsInv, NoSync
<1> QED
  BY <1>1, <1>2, <1>3, <1>4 DEF SyncStep

LEMMA ChainKept ==
  ASSUME GoalTypes, RepliesInv, NoErrorInv, OwnGoalsInv, ChainInv, NEW t \in Syncs, SyncStep(t)
  PROVE  ChainInv'
<1>1. CASE SyncWithoutThread(t)
  <2>1. goalRow'.state = "pending_thread" /\ UNCHANGED <<liveGoal, sync, replies>>
    BY <1>1 DEF SyncWithoutThread, GoalTypes
  <2>2. \A g : RowSays(g)'
    BY <2>1 DEF RowSays
  <2>3. \A u : Left(u)' = Left(u)
    BY <2>1 DEF Left
  <2> QED
    BY <2>1, <2>2, <2>3 DEF ChainInv, RowSays
<1>2. CASE SyncBegins(t)
  BY <1>2, ChainBegins DEF SyncBegins, AskGoal, GoalTypes, Others
<1>3. CASE SyncTrustsStored(t)
  BY <1>3 DEF SyncTrustsStored, NoErrorInv
<1>4. CASE Serve(t)
  BY <1>4, ChainServed
<1>5. CASE Reply(t)
  <2>1. Handled(t) /\ UNCHANGED liveGoal
    BY <1>5
         DEF Reply, ObservedReply, ActiveReply, ErrorReply, SetReply, CompletedReply, SetCompleteReply,
             ClearReply
  <2>2. \A u \in Syncs \ {t} : sync'[u] = sync[u]
    BY <1>5
         DEF Reply, ObservedReply, ActiveReply, ErrorReply, SetReply, CompletedReply, SetCompleteReply,
             ClearReply,
                EndSync, AskNext, GoalTypes
  <2>3. PICK g : g = Left(t) /\ RowSays(g)'
    BY <1>5, RowAgrees
  <2> QED
    BY <2>1, <2>2, <2>3, ChainHandled
<1> QED
  BY <1>1, <1>2, <1>3, <1>4, <1>5 DEF SyncStep

-----------------------------------------------------------------------------

LEMMA GoalStep == GoalInv /\ [GoalNext]_goalVars => GoalInv'
<1> SUFFICES ASSUME GoalInv, [GoalNext]_goalVars PROVE GoalInv'
  OBVIOUS
<1>1. CASE UNCHANGED goalVars
  BY <1>1
       DEF goalVars, GoalInv, GoalTypes, RepliesInv, NoErrorInv, UntouchedInv, OwnGoalsInv, ChainInv,
           RowSays, Left, Served
<1>2. CASE GoalNext
  <2>1. GoalTypes' /\ (failures' = 0 => failures = 0) /\ (foreign' = 0 => foreign = 0)
    BY <1>2, GoalTypesKept DEF GoalInv
  <2>2. ASSUME failures' = 0 PROVE RepliesInv' /\ NoErrorInv' /\ UntouchedInv'
    BY <1>2, <2>1, <2>2, NoErrorsKept, UntouchedKept DEF GoalInv
  <2>3. ASSUME failures' = 0, foreign' = 0 PROVE OwnGoalsInv' /\ ChainInv'
    <3>1. GoalTypes /\ RepliesInv /\ NoErrorInv /\ OwnGoalsInv /\ ChainInv
      BY <2>1, <2>3 DEF GoalInv
    <3>2. ASSUME NEW t \in Syncs, SyncStep(t) PROVE OwnGoalsInv' /\ ChainInv'
      BY <3>1, <3>2, OwnGoalsKept, ChainKept
    <3>3. ASSUME NEW t \in Syncs, NEW state \in {"error", "unsupported"}, GoalRequestFails(t, state)
          PROVE  FALSE
      BY <2>3, <3>1, <3>3 DEF GoalRequestFails, GoalTypes
    <3>4. CASE ThreadStarts \/ WorkflowCompletes
      <4>1. UNCHANGED <<goalRow, liveGoal, sync, replies>> /\ workflow'.action = workflow.action
        BY <3>1, <3>4 DEF ThreadStarts, WorkflowCompletes, GoalTypes
      <4> QED
        BY <3>1, <4>1 DEF OwnGoalsInv, ChainInv, RowSays, Left
    <3>5. ASSUME NEW goal \in {"none", "foreign"}, PersonSets(goal)
          PROVE  FALSE
      BY <2>3, <3>1, <3>5 DEF PersonSets, GoalTypes
    <3> QED
      BY <1>2, <3>2, <3>3, <3>4, <3>5 DEF GoalNext
  <2> QED
    BY <2>1, <2>2, <2>3 DEF GoalInv
<1> QED
  BY <1>1, <1>2

\* What the workflow row says of the goal is true when no status call is under
\* way, for any number of overlapping calls (_sync_workflow_goal_for_status).
THEOREM GoalRowTellsTheGoal == GoalSpec => []RowTellsTheGoal
<1>1. GoalInv => RowTellsTheGoal
  <2> SUFFICES ASSUME GoalInv, failures = 0, foreign = 0, \A t \in Syncs : sync[t].pc = "idle"
               PROVE  RowSays(liveGoal)
    BY DEF RowTellsTheGoal, RowSays
  <2>1. RepliesInv /\ ChainInv
    BY DEF GoalInv
  <2>2. replies = <<>>
    <3>1. SUFFICES ASSUME replies # <<>> PROVE FALSE
      OBVIOUS
    <3>2. 1 \in DOMAIN replies /\ replies[1] \in Syncs
      BY <2>1, <3>1 DEF RepliesInv
    <3> QED
      BY <2>1, <3>2 DEF RepliesInv
  <2> QED
    BY <2>1, <2>2 DEF ChainInv
<1> QED
  BY <1>1, InitGoal, GoalStep, PTL DEF GoalSpec

\* A goal that a person set over MCP's own outlives every status call, also when
\* the workflow completes, as long as no request fails.
THEOREM GoalOfPersonSurvives == GoalSpec => PersonsGoalSurvives
<1>1. GoalInv /\ [GoalNext]_goalVars => [untouched /\ failures' = 0 /\ foreign' = foreign => untouched']_goalVars
  <2> SUFFICES ASSUME GoalInv, GoalNext, untouched, failures' = 0, foreign' = foreign
               PROVE  untouched'
    OBVIOUS
  <2>1. failures = 0
    BY GoalTypesKept DEF GoalInv
  <2> QED
    BY <2>1, UntouchedKept DEF GoalInv
<1> QED
  BY <1>1, InitGoal, GoalStep, PTL DEF GoalSpec, PersonsGoalSurvives

-----------------------------------------------------------------------------

(***************************************************************************)
(* A code review.                                                          *)
(*                                                                         *)
(* Whoever is about to send review/start has looked whether it was sent,   *)
(* and the mark that it was is written before it is; what a status call    *)
(* completes the rows with is the turn's own, unless its thread had an     *)
(* earlier answer.                                                         *)
(***************************************************************************)

\* Before the review is asked for nothing of it exists; whoever is about to ask
\* has looked, and nobody else executes the operation meanwhile.
AskedInv ==
  /\ ~reviewOp.attempted => reviewTurn.real = "none" /\ runner \notin {"asked", "accepted"}
  /\ runner = "begun" => ~reviewOp.attempted
  /\ runner \in {"begun", "asked"} => reviewOp.status = "starting" /\ reviewOp.turn = "none"
  /\ runner = "accepted" => reviewTurn.real # "none"
  /\ reviewTurn.real = "none" => /\ reviewTurn.tracked = "none" /\ reviewTurn.final = "none"
                                 /\ said \in {"none", "old"} /\ reviewOp.turn = "none"
  /\ reviewOp.turn = "none" => reviewRow.turn = "none" /\ reviewRow.report = "none"

\* An operation that is still to be executed, or that failed, has no turn that
\* goes on, nor has a workflow that is or will be called failed.
FailedInv ==
  /\ runner = "none" /\ reviewOp.turn = "none" /\ reviewOp.status \in {"queued", "starting"} =>
       reviewTurn.real # "running"
  /\ reviewTurn.tracked = "failed" => reviewTurn.real = "failed"
  /\ "failed" \in {reviewOp.status, reviewRow.phase, reviewPoll} =>
       /\ reviewTurn.real # "running" /\ runner \notin {"begun", "asked"}
       /\ reviewOp.attempted \/ reviewOp.status = "failed"

\* An answer of an earlier turn is met in a given thread only, and the report is
\* there when the turn has completed.
ReportInv ==
  /\ "old" \in {said, reviewTurn.final, reviewRow.report} \/ "earlier" \in {reviewOp.turn, reviewRow.turn} =>
       reviewCase.given /\ reviewCase.inline
  /\ "report" \in {said, reviewTurn.final, reviewRow.report} => reviewTurn.real = "completed"

\* The three rows, and the rest.
ReviewOps == [status : OpEnded \cup {"queued", "starting", "running"},
        attempted : BOOLEAN, turn : ReviewTurns, attempts : 0 .. MaxReviewAttempts]
ReviewRows == [phase : ReviewPhases, turn : ReviewTurns, report : Texts]
ReviewedTurns == [real : {"none", "running", "lost", "completed", "failed"},
                 tracked : {"none", "running"} \cup OpEnded, final : Texts]

ReviewRest ==
  /\ reviewCase \in [given : BOOLEAN, inline : BOOLEAN]
  /\ runner \in {"none", "begun", "asked", "accepted"}
  /\ said \in Texts
  /\ reviewQuestion \in BOOLEAN
  /\ reviewPoll \in ReviewPhases \cup {"idle"}
  /\ reviewFaults \in 0 .. MaxReviewFaults

ReviewTypes == reviewRow \in ReviewRows /\ reviewOp \in ReviewOps /\ reviewTurn \in ReviewedTurns /\ ReviewRest
ReviewInv == ReviewTypes /\ AskedInv /\ FailedInv /\ ReportInv

\* A review that is reported failed does not go on, and a report is that of the
\* turn, unless it was asked for where an earlier one had answered.
ReviewTellsTheTruth ==
  /\ reviewRow.phase = "failed" => reviewTurn.real # "running"
  /\ reviewRow.report = "report" => reviewTurn.real = "completed"
  /\ reviewRow.report = "old" => reviewCase.given /\ reviewCase.inline

\* review/start is sent only where no review was started, also by another
\* process after a crash.
ReviewAskedOnce == [][AskForReview => reviewTurn.real = "none"]_reviewVars

-----------------------------------------------------------------------------

\* At first nothing was asked.
LEMMA InitReview == ReviewInit => ReviewInv
<1> SUFFICES ASSUME ReviewInit PROVE ReviewInv
  OBVIOUS
<1>1. reviewRow \in ReviewRows
  BY DEF ReviewInit, ReviewRows, ReviewPhases, ReviewTurns, Texts
<1>2. reviewOp \in ReviewOps
  BY ReviewAssumption DEF ReviewInit, ReviewOps, ReviewTurns
<1>3. reviewTurn \in ReviewedTurns
  BY DEF ReviewInit, ReviewedTurns, Texts
<1>4. ReviewRest
  <2>1. /\ said \in {"none", "old"} /\ reviewCase \in [given : BOOLEAN, inline : BOOLEAN]
        /\ runner = "none" /\ reviewQuestion = FALSE /\ reviewPoll = "idle" /\ reviewFaults = 0
    BY DEF ReviewInit
  <2>2. 0 \in 0 .. MaxReviewFaults
    BY ReviewAssumption
  <2> QED
    BY <2>1, <2>2 DEF ReviewRest, Texts
<1>5. AskedInv /\ FailedInv /\ ReportInv
  BY DEF ReviewInit, AskedInv, FailedInv, ReportInv
<1> QED
  BY <1>1, <1>2, <1>3, <1>4, <1>5 DEF ReviewInv, ReviewTypes

\* The executor, the app-server and their ends.
LEMMA ReviewExecuted ==
  ASSUME ReviewInv, Executes \/ ReviewFails
  PROVE  ReviewInv'
<1> USE DEF RowsUntouched, ReviewOutside, Fault, NoReviewFault
<1>0. reviewRow \in ReviewRows /\ reviewOp \in ReviewOps /\ reviewTurn \in ReviewedTurns /\ ReviewRest /\ AskedInv /\ FailedInv /\ ReportInv
  BY DEF ReviewInv, ReviewTypes
<1>1. CASE BeginReview
  <2>1. reviewRow' \in ReviewRows
    BY <1>0, <1>1
         DEF BeginReview, MarkUnknown, ReviewRows, ReviewPhases, ReviewOver, ReviewTurns, ReviewRest
  <2>2. reviewOp' \in ReviewOps
    <3>1. reviewOp.attempts < MaxReviewAttempts => reviewOp.attempts + 1 \in 0 .. MaxReviewAttempts
      BY <1>0, ReviewAssumption DEF ReviewOps
    <3> QED
      BY <1>0, <1>1, <3>1 DEF BeginReview, MarkUnknown, ReviewOps, OpEnded
  <2>3. reviewTurn' \in ReviewedTurns
    BY <1>0, <1>1 DEF BeginReview, MarkUnknown, ReviewedTurns, OpEnded, Texts
  <2>4. ReviewRest'
    BY <1>0, <1>1, ReviewAssumption DEF BeginReview, MarkUnknown, ReviewRest, Texts
  <2>5. AskedInv'
    BY <1>0, <1>1 DEF BeginReview, MarkUnknown, AskedInv, ReviewRows, ReviewOps, ReviewedTurns, ReviewRest
  <2>6. FailedInv'
    BY <1>0, <1>1
         DEF BeginReview, MarkUnknown, AskedInv, FailedInv, ReviewRows, ReviewOps, ReviewedTurns,
             ReviewRest
  <2>7. ReportInv'
    BY <1>0, <1>1
         DEF BeginReview, MarkUnknown, AskedInv, ReportInv, ReviewRows, ReviewOps, ReviewedTurns,
             ReviewRest
  <2> QED
    BY <2>1, <2>2, <2>3, <2>4, <2>5, <2>6, <2>7 DEF ReviewInv, ReviewTypes
<1>2. CASE AskForReview
  <2>1. reviewRow' \in ReviewRows
    BY <1>0, <1>2 DEF AskForReview, ReviewRows, ReviewPhases, ReviewOver, ReviewTurns, ReviewRest
  <2>2. reviewTurn' \in ReviewedTurns
    BY <1>0, <1>2 DEF AskForReview, ReviewedTurns, OpEnded, Texts
  <2>3. reviewOp' \in ReviewOps
    BY <1>0, <1>2, ReviewAssumption DEF AskForReview, ReviewOps, OpEnded, ReviewTurns
  <2>4. ReviewRest'
    BY <1>0, <1>2, ReviewAssumption DEF AskForReview, ReviewRest, Texts
  <2>5. AskedInv' /\ ReportInv'
    BY <1>0, <1>2 DEF AskForReview, AskedInv, ReportInv, ReviewRows, ReviewOps, ReviewedTurns, ReviewRest
  <2>6. FailedInv'
    BY <1>0, <1>2 DEF AskForReview, AskedInv, FailedInv, ReviewRows, ReviewOps, ReviewedTurns, ReviewRest
  <2> QED
    BY <2>1, <2>2, <2>3, <2>4, <2>5, <2>6 DEF ReviewInv, ReviewTypes
<1>3. CASE ReviewStarts
  <2>1. reviewRow' \in ReviewRows
    BY <1>0, <1>3 DEF ReviewStarts, ReviewRows, ReviewPhases, ReviewOver, ReviewTurns, ReviewRest
  <2>2. reviewTurn' \in ReviewedTurns
    BY <1>0, <1>3 DEF ReviewStarts, ReviewedTurns, OpEnded, Texts
  <2>3. reviewOp' \in ReviewOps
    BY <1>0, <1>3, ReviewAssumption DEF ReviewStarts, ReviewOps, OpEnded, ReviewTurns
  <2>4. ReviewRest'
    BY <1>0, <1>3, ReviewAssumption DEF ReviewStarts, ReviewRest, Texts
  <2>5. AskedInv' /\ ReportInv'
    BY <1>0, <1>3 DEF ReviewStarts, AskedInv, ReportInv, ReviewRows, ReviewOps, ReviewedTurns, ReviewRest
  <2>6. FailedInv'
    BY <1>0, <1>3 DEF ReviewStarts, AskedInv, FailedInv, ReviewRows, ReviewOps, ReviewedTurns, ReviewRest
  <2> QED
    BY <2>1, <2>2, <2>3, <2>4, <2>5, <2>6 DEF ReviewInv, ReviewTypes
<1>4. CASE ReviewAccepted
  <2>1. reviewRow' \in ReviewRows
    BY <1>0, <1>4 DEF ReviewAccepted, ReviewRows, ReviewPhases, ReviewOver, ReviewTurns, ReviewRest
  <2>2. reviewTurn' \in ReviewedTurns
    BY <1>0, <1>4 DEF ReviewAccepted, ReviewedTurns, OpEnded, Texts
  <2>3. reviewOp' \in ReviewOps
    BY <1>0, <1>4, ReviewAssumption DEF ReviewAccepted, ReviewOps, OpEnded, ReviewTurns
  <2>4. ReviewRest'
    BY <1>0, <1>4, ReviewAssumption DEF ReviewAccepted, ReviewRest, Texts
  <2>5. AskedInv' /\ ReportInv'
    BY <1>0, <1>4 DEF ReviewAccepted, AskedInv, ReportInv, ReviewRows, ReviewOps, ReviewedTurns, ReviewRest
  <2>6. FailedInv'
    BY <1>0, <1>4 DEF ReviewAccepted, AskedInv, FailedInv, ReviewRows, ReviewOps, ReviewedTurns, ReviewRest
  <2> QED
    BY <2>1, <2>2, <2>3, <2>4, <2>5, <2>6 DEF ReviewInv, ReviewTypes
<1>5. CASE RecordReview
  <2>1. reviewRow' \in ReviewRows
    BY <1>0, <1>5 DEF RecordReview, ReviewRows, ReviewPhases, ReviewOver, ReviewTurns, ReviewRest
  <2>2. reviewTurn' \in ReviewedTurns
    BY <1>0, <1>5 DEF RecordReview, ReviewedTurns, OpEnded, Texts
  <2>3. reviewOp' \in ReviewOps
    BY <1>0, <1>5, ReviewAssumption DEF RecordReview, ReviewOps, OpEnded, ReviewTurns
  <2>4. ReviewRest'
    BY <1>0, <1>5, ReviewAssumption DEF RecordReview, ReviewRest, Texts
  <2>5. AskedInv' /\ ReportInv'
    BY <1>0, <1>5 DEF RecordReview, AskedInv, ReportInv, ReviewRows, ReviewOps, ReviewedTurns, ReviewRest
  <2>6. FailedInv'
    BY <1>0, <1>5 DEF RecordReview, AskedInv, FailedInv, ReviewRows, ReviewOps, ReviewedTurns, ReviewRest
  <2> QED
    BY <2>1, <2>2, <2>3, <2>4, <2>5, <2>6 DEF ReviewInv, ReviewTypes
<1>6. CASE ReviewStartFails
  <2>1. reviewRow' \in ReviewRows
    BY <1>0, <1>6 DEF ReviewStartFails, RetryOrFail, MarkUnknown, ReviewRows, ReviewPhases, ReviewOver, ReviewTurns, ReviewRest
  <2>2. reviewTurn' \in ReviewedTurns
    BY <1>0, <1>6 DEF ReviewStartFails, RetryOrFail, MarkUnknown, ReviewedTurns, OpEnded, Texts
  <2>3. reviewOp' \in ReviewOps
    BY <1>0, <1>6, ReviewAssumption
         DEF ReviewStartFails, RetryOrFail, MarkUnknown, ReviewOps, OpEnded, ReviewTurns
  <2>4. ReviewRest'
    BY <1>0, <1>6, ReviewAssumption DEF ReviewStartFails, RetryOrFail, MarkUnknown, ReviewRest, Texts
  <2>5. AskedInv' /\ ReportInv'
    BY <1>0, <1>6
         DEF ReviewStartFails, RetryOrFail, MarkUnknown, AskedInv, ReportInv, ReviewRows, ReviewOps,
             ReviewedTurns, ReviewRest
  <2>6. FailedInv'
    BY <1>0, <1>6
         DEF ReviewStartFails, RetryOrFail, MarkUnknown, AskedInv, FailedInv, ReviewRows, ReviewOps,
             ReviewedTurns, ReviewRest
  <2> QED
    BY <2>1, <2>2, <2>3, <2>4, <2>5, <2>6 DEF ReviewInv, ReviewTypes
<1>7. CASE ExecutorDies
  <2>1. reviewRow' \in ReviewRows
    BY <1>0, <1>7 DEF ExecutorDies, Lost, ReviewRows, ReviewPhases, ReviewOver, ReviewTurns, ReviewRest
  <2>2. reviewTurn' \in ReviewedTurns
    BY <1>0, <1>7 DEF ExecutorDies, Lost, ReviewedTurns, OpEnded, Texts
  <2>3. reviewOp' \in ReviewOps
    BY <1>0, <1>7, ReviewAssumption DEF ExecutorDies, Lost, ReviewOps, OpEnded, ReviewTurns
  <2>4. ReviewRest'
    BY <1>0, <1>7, ReviewAssumption DEF ExecutorDies, Lost, ReviewRest, Texts
  <2>5. AskedInv' /\ ReportInv'
    BY <1>0, <1>7
         DEF ExecutorDies, Lost, AskedInv, ReportInv, ReviewRows, ReviewOps, ReviewedTurns, ReviewRest
  <2>6. FailedInv'
    BY <1>0, <1>7
         DEF ExecutorDies, Lost, AskedInv, FailedInv, ReviewRows, ReviewOps, ReviewedTurns, ReviewRest
  <2> QED
    BY <2>1, <2>2, <2>3, <2>4, <2>5, <2>6 DEF ReviewInv, ReviewTypes
<1>8. CASE ReviewServerExits
  <2>1. reviewRow' \in ReviewRows
    BY <1>0, <1>8 DEF ReviewServerExits, Unknown, ReviewRows, ReviewPhases, ReviewOver, ReviewTurns, ReviewRest
  <2>2. reviewTurn' \in ReviewedTurns
    BY <1>0, <1>8 DEF ReviewServerExits, Unknown, ReviewedTurns, OpEnded, Texts
  <2>3. reviewOp' \in ReviewOps
    BY <1>0, <1>8, ReviewAssumption DEF ReviewServerExits, Unknown, ReviewOps, OpEnded, ReviewTurns
  <2>4. ReviewRest'
    BY <1>0, <1>8, ReviewAssumption DEF ReviewServerExits, Unknown, ReviewRest, Texts
  <2>5. AskedInv' /\ ReportInv'
    BY <1>0, <1>8
         DEF ReviewServerExits, Unknown, AskedInv, ReportInv, ReviewRows, ReviewOps, ReviewedTurns,
             ReviewRest
  <2>6. FailedInv'
    BY <1>0, <1>8
         DEF ReviewServerExits, Unknown, AskedInv, FailedInv, ReviewRows, ReviewOps, ReviewedTurns,
             ReviewRest
  <2> QED
    BY <2>1, <2>2, <2>3, <2>4, <2>5, <2>6 DEF ReviewInv, ReviewTypes
<1>9. CASE RecoverReview
  <2>1. reviewRow' \in ReviewRows
    BY <1>0, <1>9 DEF RecoverReview, ReviewRows, ReviewPhases, ReviewOver, ReviewTurns, ReviewRest
  <2>2. reviewTurn' \in ReviewedTurns
    BY <1>0, <1>9 DEF RecoverReview, ReviewedTurns, OpEnded, Texts
  <2>3. reviewOp' \in ReviewOps
    BY <1>0, <1>9, ReviewAssumption DEF RecoverReview, ReviewOps, OpEnded, ReviewTurns
  <2>4. ReviewRest'
    BY <1>0, <1>9, ReviewAssumption DEF RecoverReview, ReviewRest, Texts
  <2>5. AskedInv' /\ ReportInv'
    BY <1>0, <1>9 DEF RecoverReview, AskedInv, ReportInv, ReviewRows, ReviewOps, ReviewedTurns, ReviewRest
  <2>6. FailedInv'
    BY <1>0, <1>9 DEF RecoverReview, AskedInv, FailedInv, ReviewRows, ReviewOps, ReviewedTurns, ReviewRest
  <2> QED
    BY <2>1, <2>2, <2>3, <2>4, <2>5, <2>6 DEF ReviewInv, ReviewTypes
<1>10. CASE LostReviewIsNoted
  <2>1. reviewRow' \in ReviewRows
    BY <1>0, <1>10 DEF LostReviewIsNoted, ReviewRows, ReviewPhases, ReviewOver, ReviewTurns, ReviewRest
  <2>2. reviewTurn' \in ReviewedTurns
    BY <1>0, <1>10 DEF LostReviewIsNoted, ReviewedTurns, OpEnded, Texts
  <2>3. reviewOp' \in ReviewOps
    BY <1>0, <1>10, ReviewAssumption DEF LostReviewIsNoted, ReviewOps, OpEnded, ReviewTurns
  <2>4. ReviewRest'
    BY <1>0, <1>10, ReviewAssumption DEF LostReviewIsNoted, ReviewRest, Texts
  <2>5. AskedInv' /\ ReportInv'
    BY <1>0, <1>10
         DEF LostReviewIsNoted, AskedInv, ReportInv, ReviewRows, ReviewOps, ReviewedTurns, ReviewRest
  <2>6. FailedInv'
    BY <1>0, <1>10
         DEF LostReviewIsNoted, AskedInv, FailedInv, ReviewRows, ReviewOps, ReviewedTurns, ReviewRest
  <2> QED
    BY <2>1, <2>2, <2>3, <2>4, <2>5, <2>6 DEF ReviewInv, ReviewTypes
<1> QED
  BY <1>1, <1>2, <1>3, <1>4, <1>5, <1>6, <1>7, <1>8, <1>9, <1>10 DEF Executes, ReviewFails

\* The turn, its questions, and the phase a status call writes.
LEMMA ReviewGoesOn ==
  ASSUME ReviewInv, TurnSays \/ TurnEnds \/ ReviewAsks \/ ReviewAnswered \/ StatusCallWrites
  PROVE  ReviewInv'
<1> USE DEF RowsUntouched, ReviewOutside, Fault, NoReviewFault
<1>0. reviewRow \in ReviewRows /\ reviewOp \in ReviewOps /\ reviewTurn \in ReviewedTurns /\ ReviewRest /\ AskedInv /\ FailedInv /\ ReportInv
  BY DEF ReviewInv, ReviewTypes
<1>1. CASE TurnSays
  <2>1. reviewRow' \in ReviewRows
    BY <1>0, <1>1 DEF TurnSays, ReviewRows, ReviewPhases, ReviewOver, ReviewTurns, ReviewRest
  <2>2. reviewTurn' \in ReviewedTurns
    BY <1>0, <1>1 DEF TurnSays, ReviewedTurns, OpEnded, Texts
  <2>3. reviewOp' \in ReviewOps
    BY <1>0, <1>1, ReviewAssumption DEF TurnSays, ReviewOps, OpEnded, ReviewTurns
  <2>4. ReviewRest'
    BY <1>0, <1>1, ReviewAssumption DEF TurnSays, ReviewRest, Texts
  <2>5. AskedInv' /\ ReportInv'
    BY <1>0, <1>1 DEF TurnSays, AskedInv, ReportInv, ReviewRows, ReviewOps, ReviewedTurns, ReviewRest
  <2>6. FailedInv'
    BY <1>0, <1>1 DEF TurnSays, AskedInv, FailedInv, ReviewRows, ReviewOps, ReviewedTurns, ReviewRest
  <2> QED
    BY <2>1, <2>2, <2>3, <2>4, <2>5, <2>6 DEF ReviewInv, ReviewTypes
<1>2. CASE TurnEnds
  <2>1. UNCHANGED <<reviewRow, reviewOp, runner, reviewCase, reviewPoll, reviewQuestion, reviewFaults>> /\ reviewTurn.real = "running"
    BY <1>2 DEF TurnEnds
  <2>2. \/ /\ said' = "report"
           /\ reviewTurn'.real = "completed" /\ reviewTurn'.tracked = "completed" /\ reviewTurn'.final = "report"
           /\ reviewTurn' \in ReviewedTurns
        \/ /\ said' = said
           /\ reviewTurn'.real = "failed" /\ reviewTurn'.tracked = "failed" /\ reviewTurn'.final = reviewTurn.final
           /\ reviewTurn' \in ReviewedTurns
    <3>1. CASE /\ said' = "report"
               /\ reviewTurn' = [real |-> "completed", tracked |-> "completed", final |-> "report"]
      BY <3>1 DEF ReviewedTurns, OpEnded, Texts
    <3>2. CASE said' = said /\ reviewTurn' = [reviewTurn EXCEPT !.real = "failed", !.tracked = "failed"]
      BY <1>0, <3>2 DEF ReviewedTurns, OpEnded
    <3> QED
      BY <1>2, <3>1, <3>2 DEF TurnEnds
  <2>3. ReviewTypes'
    BY <1>0, <2>1, <2>2 DEF ReviewTypes, ReviewRest, Texts
  <2>4. AskedInv'
    BY <1>0, <2>1, <2>2 DEF AskedInv
  <2>5. FailedInv'
    BY <1>0, <2>1, <2>2 DEF FailedInv
  <2>6. ReportInv'
    BY <1>0, <2>1, <2>2 DEF ReportInv
  <2> QED
    BY <2>3, <2>4, <2>5, <2>6 DEF ReviewInv
<1>3. CASE ReviewAsks
  <2>1. reviewRow' \in ReviewRows
    BY <1>0, <1>3 DEF ReviewAsks, ReviewRows, ReviewPhases, ReviewOver, ReviewTurns, ReviewRest
  <2>2. reviewTurn' \in ReviewedTurns
    BY <1>0, <1>3 DEF ReviewAsks, ReviewedTurns, OpEnded, Texts
  <2>3. reviewOp' \in ReviewOps
    BY <1>0, <1>3, ReviewAssumption DEF ReviewAsks, ReviewOps, OpEnded, ReviewTurns
  <2>4. ReviewRest'
    BY <1>0, <1>3, ReviewAssumption DEF ReviewAsks, ReviewRest, Texts
  <2>5. AskedInv' /\ ReportInv'
    BY <1>0, <1>3 DEF ReviewAsks, AskedInv, ReportInv, ReviewRows, ReviewOps, ReviewedTurns, ReviewRest
  <2>6. FailedInv'
    BY <1>0, <1>3 DEF ReviewAsks, AskedInv, FailedInv, ReviewRows, ReviewOps, ReviewedTurns, ReviewRest
  <2> QED
    BY <2>1, <2>2, <2>3, <2>4, <2>5, <2>6 DEF ReviewInv, ReviewTypes
<1>4. CASE ReviewAnswered
  <2>1. reviewRow' \in ReviewRows
    BY <1>0, <1>4 DEF ReviewAnswered, ReviewRows, ReviewPhases, ReviewOver, ReviewTurns, ReviewRest
  <2>2. reviewTurn' \in ReviewedTurns
    BY <1>0, <1>4 DEF ReviewAnswered, ReviewedTurns, OpEnded, Texts
  <2>3. reviewOp' \in ReviewOps
    BY <1>0, <1>4, ReviewAssumption DEF ReviewAnswered, ReviewOps, OpEnded, ReviewTurns
  <2>4. ReviewRest'
    BY <1>0, <1>4, ReviewAssumption DEF ReviewAnswered, ReviewRest, Texts
  <2>5. AskedInv' /\ ReportInv'
    BY <1>0, <1>4 DEF ReviewAnswered, AskedInv, ReportInv, ReviewRows, ReviewOps, ReviewedTurns, ReviewRest
  <2>6. FailedInv'
    BY <1>0, <1>4 DEF ReviewAnswered, AskedInv, FailedInv, ReviewRows, ReviewOps, ReviewedTurns, ReviewRest
  <2> QED
    BY <2>1, <2>2, <2>3, <2>4, <2>5, <2>6 DEF ReviewInv, ReviewTypes
<1>5. CASE StatusCallWrites
  <2>1. reviewRow' \in ReviewRows
    BY <1>0, <1>5 DEF StatusCallWrites, ReviewRows, ReviewPhases, ReviewOver, ReviewTurns, ReviewRest
  <2>2. reviewTurn' \in ReviewedTurns
    BY <1>0, <1>5 DEF StatusCallWrites, ReviewedTurns, OpEnded, Texts
  <2>3. reviewOp' \in ReviewOps
    BY <1>0, <1>5, ReviewAssumption DEF StatusCallWrites, ReviewOps, OpEnded, ReviewTurns
  <2>4. ReviewRest'
    BY <1>0, <1>5, ReviewAssumption DEF StatusCallWrites, ReviewRest, Texts
  <2>5. AskedInv' /\ ReportInv'
    BY <1>0, <1>5
         DEF StatusCallWrites, AskedInv, ReportInv, ReviewRows, ReviewOps, ReviewedTurns, ReviewRest
  <2>6. FailedInv'
    BY <1>0, <1>5
         DEF StatusCallWrites, AskedInv, FailedInv, ReviewRows, ReviewOps, ReviewedTurns, ReviewRest
  <2> QED
    BY <2>1, <2>2, <2>3, <2>4, <2>5, <2>6 DEF ReviewInv, ReviewTypes
<1> QED
  BY <1>1, <1>2, <1>3, <1>4, <1>5

\* What a status call finds where no turn is known: nothing to update.
LEMMA NothingToReport ==
  ASSUME ReviewInv, reviewOp.turn = "none", NEW refresh \in BOOLEAN
  PROVE  /\ RowSynced(refresh) = reviewRow /\ WithReport(reviewRow) = reviewRow
         /\ ~FromHistory(reviewRow) /\ OpReconciled = reviewOp /\ RowTurn(reviewRow) = "none"
<1>1. reviewRow \in ReviewRows /\ reviewOp \in ReviewOps /\ reviewRow.turn = "none"
  BY DEF ReviewInv, ReviewTypes, AskedInv
<1>2. RowTurn(reviewRow) = "none" /\ TurnStatus("none") = "none"
  BY <1>1 DEF RowTurn, TurnStatus
<1>3. RowSynced(refresh) = reviewRow
  BY <1>1 DEF RowSynced, ReviewRows
<1>4. WithReport(reviewRow) = reviewRow /\ ~FromHistory(reviewRow)
  BY <1>2 DEF WithReport, HasFinal, FromHistory
<1>5. OpReconciled = reviewOp
  <2>1. TurnStatus(reviewOp.turn) = "none"
    BY <1>2
  <2>2. OpReconciled = [reviewOp EXCEPT !.status = reviewOp.status]
    BY <2>1 DEF OpReconciled, OpEnded
  <2> QED
    BY <1>1, <2>2 DEF ReviewOps
<1> QED
  BY <1>2, <1>3, <1>4, <1>5

\* And where one is.
LEMMA ReportedIs ==
  ASSUME ReviewInv, reviewOp.turn # "none", NEW refresh \in BOOLEAN,
         NEW synced, synced = RowSynced(refresh), NEW row, row = WithReport(synced)
  PROVE  /\ synced \in ReviewRows /\ row \in ReviewRows /\ row.phase = reviewRow.phase
         /\ RowTurn(synced) \in {"review", "earlier"} /\ RowTurn(row) \in {"review", "earlier"}
         /\ row.turn \in {reviewRow.turn, reviewOp.turn, Speaker}
         /\ row.turn = Speaker => row.turn \in {reviewRow.turn, reviewOp.turn} \/ said # "none"
         /\ \/ row.report = reviewRow.report
            \/ row.report = "old" /\ "earlier" \in {reviewRow.turn, reviewOp.turn}
            \/ row.report \in {reviewTurn.final, said} /\ row.report # "none"
<1>1. reviewRow \in ReviewRows /\ reviewOp \in ReviewOps /\ reviewTurn \in ReviewedTurns /\ said \in Texts
  BY DEF ReviewInv, ReviewTypes, ReviewRest
<1>2. /\ synced \in ReviewRows /\ synced.phase = reviewRow.phase /\ synced.report = reviewRow.report
      /\ synced.turn \in {reviewRow.turn, reviewOp.turn}
  BY <1>1 DEF RowSynced, ReviewRows, ReviewOps
<1>3. RowTurn(synced) \in {"review", "earlier"} /\ RowTurn(synced) \in {reviewRow.turn, reviewOp.turn}
  BY <1>1, <1>2 DEF RowTurn, ReviewRows, ReviewOps, ReviewTurns
<1>4. FinalText(RowTurn(synced)) \in Texts
      /\ (FinalText(RowTurn(synced)) = reviewTurn.final \/ (RowTurn(synced) = "earlier" /\ FinalText(RowTurn(synced)) = "old"))
  BY <1>1, <1>3 DEF FinalText, Texts, ReviewedTurns
<1>5. CASE HasFinal(synced)
  <2>1. row = [synced EXCEPT !.report = FinalText(RowTurn(synced))]
    BY <1>5 DEF WithReport
  <2>2. row \in ReviewRows /\ row.phase = synced.phase /\ row.turn = synced.turn /\ row.report = FinalText(RowTurn(synced))
    BY <1>2, <1>4, <2>1 DEF ReviewRows
  <2>3. RowTurn(row) = RowTurn(synced)
    BY <2>2 DEF RowTurn
  <2> QED
    BY <1>2, <1>3, <1>4, <1>5, <2>2, <2>3 DEF HasFinal
<1>6. CASE ~HasFinal(synced) /\ FromHistory(synced)
  <2>1. row = [synced EXCEPT !.report = said, !.turn = Speaker] /\ said # "none"
    BY <1>6 DEF WithReport, FromHistory
  <2>2. Speaker \in {"review", "earlier"}
    BY DEF Speaker
  <2>3. row \in ReviewRows /\ row.phase = synced.phase /\ row.turn = Speaker /\ row.report = said
    BY <1>1, <1>2, <2>1, <2>2 DEF ReviewRows, ReviewTurns
  <2>4. RowTurn(row) = Speaker
    BY <2>2, <2>3 DEF RowTurn
  <2> QED
    BY <1>2, <1>3, <2>1, <2>2, <2>3, <2>4
<1>7. CASE ~HasFinal(synced) /\ ~FromHistory(synced)
  <2>1. row = synced
    BY <1>7 DEF WithReport
  <2> QED
    BY <1>2, <1>3, <2>1
<1> QED
  BY <1>5, <1>6, <1>7

\* The phase is one of a workflow, failed only if the turn or the operation did.
LEMMA PhaseOfTurn ==
  ASSUME ReviewInv, NEW row, NEW o \in ReviewOps, RowTurn(row) \in ReviewTurns
  PROVE  /\ ReviewPhase(row, o) \in ReviewPhases
         /\ ReviewPhase(row, o) = "failed" =>
              o.status = "failed" \/ (RowTurn(row) = "review" /\ reviewTurn.tracked = "failed")
<1>1. reviewTurn \in ReviewedTurns
  BY DEF ReviewInv, ReviewTypes
<1>2. /\ TurnStatus(RowTurn(row)) \in {"none", "running"} \cup OpEnded
      /\ TurnStatus(RowTurn(row)) = "failed" => RowTurn(row) = "review" /\ reviewTurn.tracked = "failed"
  BY <1>1 DEF TurnStatus, ReviewedTurns, ReviewTurns, OpEnded
<1>3. o.status \in OpEnded \cup {"queued", "starting", "running"}
  BY DEF ReviewOps
<1>4. CASE reviewQuestion \/ row.report # "none"
  BY <1>4 DEF ReviewPhase, ReviewPhases, ReviewOver
<1>5. CASE ~reviewQuestion /\ row.report = "none" /\ TurnStatus(RowTurn(row)) # "none"
  BY <1>2, <1>5 DEF ReviewPhase, Verdict, ReviewPhases, ReviewOver, OpEnded
<1>6. CASE ~reviewQuestion /\ row.report = "none" /\ TurnStatus(RowTurn(row)) = "none"
  BY <1>3, <1>6 DEF ReviewPhase, Verdict, ReviewPhases, ReviewOver, OpEnded
<1> QED
  BY <1>4, <1>5, <1>6

\* A status call completes, reports and derives what the rows say.
LEMMA ReviewIsRead ==
  ASSUME ReviewInv, NEW refresh \in BOOLEAN, StatusCallReads(refresh)
  PROVE  ReviewInv'
<1>0. reviewRow \in ReviewRows /\ reviewOp \in ReviewOps /\ reviewTurn \in ReviewedTurns /\ ReviewRest /\ AskedInv /\ FailedInv /\ ReportInv
  BY DEF ReviewInv, ReviewTypes
<1>1. UNCHANGED <<reviewCase, runner, said, reviewQuestion, reviewFaults>> /\ reviewPoll = "idle"
  BY DEF StatusCallReads, NoReviewFault
<1>2. CASE reviewOp.turn = "none"
  <2>1. /\ RowSynced(refresh) = reviewRow /\ WithReport(reviewRow) = reviewRow
        /\ ~FromHistory(reviewRow) /\ OpReconciled = reviewOp /\ RowTurn(reviewRow) = "none"
    BY <1>2, NothingToReport
  <2>2. UNCHANGED <<reviewRow, reviewOp, reviewTurn>>
    BY <2>1 DEF StatusCallReads
  <2>3. reviewPoll' \in {"idle", ReviewPhase(reviewRow, reviewOp)}
    BY <1>1, <2>1 DEF StatusCallReads
  <2>4. /\ ReviewPhase(reviewRow, reviewOp) \in ReviewPhases
        /\ ReviewPhase(reviewRow, reviewOp) = "failed" => reviewOp.status = "failed"
    BY <1>0, <2>1, PhaseOfTurn DEF ReviewTurns
  <2>5. ReviewTypes'
    BY <1>0, <1>1, <2>2, <2>3, <2>4 DEF ReviewTypes, ReviewRest
  <2>6. AskedInv' /\ ReportInv'
    BY <1>0, <1>1, <2>2 DEF AskedInv, ReportInv
  <2>7. FailedInv'
    BY <1>0, <1>1, <2>2, <2>3, <2>4 DEF FailedInv
  <2> QED
    BY <2>5, <2>6, <2>7 DEF ReviewInv
<1>3. CASE reviewOp.turn # "none"
  <2> DEFINE synced == RowSynced(refresh)
             row == WithReport(synced)
             history == FromHistory(synced)
             o == IF history /\ OpReconciled.status \notin {"failed", "unknown"}
                  THEN [OpReconciled EXCEPT !.status = "completed", !.turn = Speaker]
                  ELSE OpReconciled
  <2>1. /\ reviewRow' = row /\ reviewOp' = o
        /\ IF history /\ Speaker = "review"
           THEN reviewTurn' = [reviewTurn EXCEPT !.tracked = "completed", !.final = said]
           ELSE UNCHANGED reviewTurn
        /\ reviewPoll' \in {"idle", ReviewPhase(row, o)}
    BY <1>1 DEF StatusCallReads
  <2>2. /\ row \in ReviewRows /\ row.phase = reviewRow.phase /\ RowTurn(row) \in ReviewTurns
        /\ row.turn \in {reviewRow.turn, reviewOp.turn, Speaker}
        /\ row.turn = Speaker => row.turn \in {reviewRow.turn, reviewOp.turn} \/ said # "none"
        /\ \/ row.report = reviewRow.report
           \/ row.report = "old" /\ "earlier" \in {reviewRow.turn, reviewOp.turn}
           \/ row.report \in {reviewTurn.final, said} /\ row.report # "none"
    BY <1>3, ReportedIs DEF ReviewTurns
  <2>3. history => said # "none"
    BY DEF FromHistory
  <2>4. /\ OpReconciled \in ReviewOps /\ OpReconciled.turn = reviewOp.turn /\ OpReconciled.attempted = reviewOp.attempted
        /\ OpReconciled.status = "failed" => reviewTurn.tracked = "failed" \/ reviewOp.status = "failed"
    <3>1. TurnStatus(reviewOp.turn) \in {"none", "running"} \cup OpEnded
          /\ (TurnStatus(reviewOp.turn) = "failed" => reviewOp.turn = "review" /\ reviewTurn.tracked = "failed")
      BY <1>0, <1>3 DEF TurnStatus, ReviewOps, ReviewTurns, ReviewedTurns, OpEnded
    <3> DEFINE status == TurnStatus(reviewOp.turn)
    <3>2. PICK new : /\ OpReconciled = [reviewOp EXCEPT !.status = new]
                     /\ new = CASE status = "none" -> reviewOp.status
                                [] status \in OpEnded -> status
                                [] OTHER -> IF reviewOp.status \in {"queued", "starting"} THEN reviewOp.status ELSE "running"
      BY DEF OpReconciled
    <3>3. status = "failed" => reviewOp.turn = "review" /\ reviewTurn.tracked = "failed"
      BY <3>1
    <3> HIDE DEF status
    <3>4. /\ new \in OpEnded \cup {"queued", "starting", "running"}
          /\ new = "failed" => status = "failed" \/ (status = "none" /\ reviewOp.status = "failed")
      BY <1>0, <3>2 DEF ReviewOps, OpEnded
    <3> QED
      BY <1>0, <3>2, <3>3, <3>4 DEF ReviewOps, OpEnded
  <2>5. /\ o \in ReviewOps /\ o.turn \in {reviewOp.turn, Speaker} /\ o.turn # "none" /\ o.attempted = reviewOp.attempted
        /\ o.turn = Speaker => o.turn = reviewOp.turn \/ said # "none"
        /\ o.status = "failed" => OpReconciled.status = "failed"
    BY <1>3, <2>3, <2>4 DEF ReviewOps, OpEnded, ReviewTurns, Speaker
  <2>6. /\ reviewTurn' \in ReviewedTurns /\ reviewTurn'.real = reviewTurn.real
        /\ \/ reviewTurn'.tracked = reviewTurn.tracked /\ reviewTurn'.final = reviewTurn.final
           \/ reviewTurn'.tracked = "completed" /\ reviewTurn'.final = said /\ said \notin {"none", "old"}
    BY <1>0, <2>1, <2>3 DEF ReviewedTurns, OpEnded, ReviewRest, Speaker
  <2> HIDE DEF synced, row, history, o
  <2>7. /\ ReviewPhase(row, o) \in ReviewPhases
        /\ ReviewPhase(row, o) = "failed" =>
             o.status = "failed" \/ (RowTurn(row) = "review" /\ reviewTurn.tracked = "failed")
    BY <2>2, <2>5, PhaseOfTurn
  <2>8. "failed" \in {o.status, ReviewPhase(row, o)} => reviewTurn.real # "running"
    BY <1>0, <2>4, <2>5, <2>7 DEF FailedInv
  <2>9. reviewTurn.real # "none" /\ reviewOp.attempted /\ runner \notin {"begun", "asked"}
    BY <1>0, <1>3 DEF AskedInv
  <2>10. ReviewTypes'
    BY <1>0, <1>1, <2>1, <2>2, <2>5, <2>6, <2>7 DEF ReviewTypes, ReviewRest
  <2>11. AskedInv'
    BY <1>0, <1>1, <2>1, <2>5, <2>6, <2>9 DEF AskedInv
  <2>12. FailedInv'
    BY <1>0, <1>1, <2>1, <2>2, <2>5, <2>6, <2>8, <2>9 DEF FailedInv
  <2>13. ReportInv'
    BY <1>0, <1>1, <2>1, <2>2, <2>5, <2>6 DEF ReportInv, Speaker
  <2> QED
    BY <2>10, <2>11, <2>12, <2>13 DEF ReviewInv
<1> QED
  BY <1>2, <1>3

\* Every step of a review keeps the invariant.
LEMMA ReviewStep == ReviewInv /\ [ReviewNext]_reviewVars => ReviewInv'
<1> SUFFICES ASSUME ReviewInv, [ReviewNext]_reviewVars PROVE ReviewInv'
  OBVIOUS
<1>1. CASE UNCHANGED reviewVars
  BY <1>1 DEF reviewVars, ReviewInv, ReviewTypes, ReviewRest, AskedInv, FailedInv, ReportInv
<1>2. CASE ReviewNext
  BY <1>2, ReviewExecuted, ReviewGoesOn, ReviewIsRead DEF ReviewNext
<1> QED
  BY <1>1, <1>2

\* Every variable of a review workflow keeps its type.
THEOREM ReviewTyped == ReviewSpec => []ReviewTypeOK
<1>1. ReviewInv => ReviewTypeOK
  BY DEF ReviewInv, ReviewTypes, ReviewTypeOK, ReviewRows, ReviewOps, ReviewedTurns, ReviewRest
<1> QED
  BY <1>1, InitReview, ReviewStep, PTL DEF ReviewSpec

\* Whatever fails, a review that is reported failed does not go on, and the report
\* that is shown is that of its turn (_review_workflow_status_payload).
THEOREM ReviewsAreTold == ReviewSpec => []ReviewTellsTheTruth
<1>1. ReviewInv => ReviewTellsTheTruth
  BY DEF ReviewInv, FailedInv, ReportInv, ReviewTellsTheTruth
<1> QED
  BY <1>1, InitReview, ReviewStep, PTL DEF ReviewSpec

\* A crash between sending review/start and recording its answer does not make
\* another process send it again (_review_start_resolved).
THEOREM ReviewIsAskedOnce == ReviewSpec => ReviewAskedOnce
<1>1. ReviewInv => (AskForReview => reviewTurn.real = "none")
  BY DEF ReviewInv, AskedInv, AskForReview
<1>2. ReviewInv /\ [ReviewNext]_reviewVars => [AskForReview => reviewTurn.real = "none"]_reviewVars
  BY <1>1
<1> QED
  BY <1>2, InitReview, ReviewStep, PTL DEF ReviewSpec, ReviewAskedOnce

(***************************************************************************)
(* The record of a turn.                                                   *)
(*                                                                         *)
(* Nobody writes an end that did not come.  The messages that the record   *)
(* has not heard are in the lines that wait, all of them before the end;   *)
(* and the one line of the end, when it is taken, closes the record.       *)
(***************************************************************************)

Statuses == {"none"} \cup Live \cup Over
Lines == [kind : {"started", "message", "question", "end", "snapshot", "reply"},
          what : {"none", "start", "stop", "running"} \cup Outcomes]

RecordTypes ==
  /\ served \in [state : {"none", "gone", "closed"} \cup InServer \cup Outcomes,
                 said : Nat, asked : Nat, reads : Nat]
  /\ lines \in Seq(Lines)
  /\ record \in [status : Statuses, ended : BOOLEAN, final : {"none", "last"}, heard : Nat]
  /\ journal \in [status : Statuses, ended : BOOLEAN, final : {"none", "last"}]
  /\ poll \in {"none"} \cup Over /\ import \in {"none", "running"} \cup Over

\* What a status may say of the turn that is not over yet for everybody.
Justified(status) ==
  /\ status \in Outcomes => served.state = status \/ (hook = "stop" /\ status = "completed")
  /\ status = "aborted" => served.state = "interrupted"
  /\ status = "unknown" => served.state = "closed"

\* A line about an end is about the end of this turn.
TrueLine(line) ==
  /\ line.kind = "end" => line.what \in Outcomes
  /\ line.kind = "snapshot" => line.what \in Outcomes \cup {"running"}
  /\ line.what \in Outcomes => served.state = line.what

JustifiedInv ==
  /\ Justified(record.status) /\ Justified(journal.status) /\ Justified(poll) /\ Justified(import)
  /\ \A i \in DOMAIN lines : TrueLine(lines[i])
  /\ hook = "stop" /\ served.state \in Outcomes => served.state = "completed"
  /\ stopper \in {"served", "woken"} => served.state = "interrupted"

\* The messages that the record lacks are in the lines, all before the end.
CountInv ==
  \E f \in [0..Len(lines) -> Nat] :
    /\ f[0] = record.heard /\ f[Len(lines)] = served.said
    /\ \A i \in DOMAIN lines :
         /\ f[i] = IF lines[i].kind = "message" THEN f[i - 1] + 1 ELSE f[i - 1]
         /\ lines[i].kind = "end" => f[i] = served.said

\* After the end there is nothing but replies and snapshots that show it.
Harmless(line) == line.kind = "reply" \/ (line.kind = "snapshot" /\ line.what = served.state)
EndIsLast ==
  /\ \A i, j \in DOMAIN lines : lines[i].kind = "end" /\ j > i => Harmless(lines[j])
  /\ served.state \in Outcomes /\ (\A i \in DOMAIN lines : lines[i].kind # "end") =>
       \A i \in DOMAIN lines : Harmless(lines[i])

\* When its line has been taken the end is known, and with it the final message.
EndIsKnown ==
  served.state \in Outcomes /\ (\A i \in DOMAIN lines : lines[i].kind # "end") /\ "import" \notin slips =>
    /\ record.status \in Over /\ journal.status \in Over
    /\ served.said > 0 => record.final = "last" /\ journal.final = "last"

RecordInv ==
  /\ RecordTypes
  /\ JustifiedInv
  /\ alive => CountInv /\ EndIsLast /\ EndIsKnown

-----------------------------------------------------------------------------

LEMMA InitRecord == RecordInit => RecordInv
<1> SUFFICES ASSUME RecordInit PROVE RecordInv
  OBVIOUS
<1>1. RecordTypes
  BY DEF RecordInit, RecordTypes, Statuses, InServer, Outcomes
<1>2. JustifiedInv
  BY DEF RecordInit, JustifiedInv, Justified, Outcomes
<1>3. EndIsLast /\ EndIsKnown
  BY DEF RecordInit, EndIsLast, EndIsKnown, Outcomes
<1>4. CountInv
  <2>1. lines = <<>> /\ record.heard = 0 /\ served.said = 0
    BY DEF RecordInit
  <2>2. Len(lines) = 0 /\ DOMAIN lines = {}
    BY <2>1
  <2> DEFINE f == [i \in 0..0 |-> 0]
  <2>3. f \in [0..0 -> Nat] /\ f[0] = 0
    OBVIOUS
  <2> HIDE DEF f
  <2> QED
    BY <2>1, <2>2, <2>3 DEF CountInv
<1> QED
  BY <1>1, <1>2, <1>3, <1>4 DEF RecordInv

\* What is over stays so: an end is the end, and the Stop hook runs once.
Lasting ==
  /\ served.state \in Outcomes \cup {"closed"} => served'.state = served.state
  /\ hook = "stop" => hook' = "stop"

LEMMA JustifiedLasts ==
  ASSUME Lasting
  PROVE  /\ \A status : Justified(status) => Justified(status)'
         /\ \A line : TrueLine(line) => TrueLine(line)'
BY DEF Lasting, Justified, TrueLine, Outcomes

LEMMA OneOrTwo ==
  ASSUME NEW a \in Lines, NEW b \in Lines
  PROVE  /\ <<a>> \in Seq(Lines) /\ Len(<<a>>) = 1 /\ <<a>>[1] = a
         /\ <<a, b>> \in Seq(Lines) /\ Len(<<a, b>>) = 2 /\ <<a, b>>[1] = a /\ <<a, b>>[2] = b
         /\ \A k \in 1..Len(<<a>>) : <<a>>[k] = a
         /\ \A k \in 1..Len(<<a, b>>) : <<a, b>>[k] \in {a, b}
<1>1. /\ <<a>> \in Seq(Lines) /\ Len(<<a>>) = 1 /\ <<a>>[1] = a
      /\ <<a, b>> \in Seq(Lines) /\ Len(<<a, b>>) = 2 /\ <<a, b>>[1] = a /\ <<a, b>>[2] = b
  OBVIOUS
<1>2. \A k \in 1..1 : k = 1
  OBVIOUS
<1>3. \A k \in 1..2 : k = 1 \/ k = 2
  OBVIOUS
<1> QED
  BY <1>1, <1>2, <1>3

LEMMA LineOf ==
  ASSUME NEW kind \in {"started", "message", "question", "end", "snapshot", "reply"},
         NEW what \in {"none", "start", "stop", "running"} \cup Outcomes
  PROVE  TurnLine(kind, what) \in Lines /\ TurnLine(kind, what).kind = kind /\ TurnLine(kind, what).what = what
BY DEF TurnLine, Lines

\* The lines after some were written.
LEMMA Written ==
  ASSUME RecordTypes, NEW new \in Seq(Lines), Write(new)
  PROVE  /\ lines' \in Seq(Lines) /\ Len(lines) \in Nat /\ Len(new) \in Nat
         /\ Len(lines') = Len(lines) + Len(new)
         /\ DOMAIN lines = 1..Len(lines) /\ DOMAIN lines' = 1..(Len(lines) + Len(new))
         /\ \A i \in DOMAIN lines : lines'[i] = lines[i] /\ i \in DOMAIN lines'
         /\ \A i \in DOMAIN lines' : i \notin DOMAIN lines =>
              /\ i - Len(lines) \in 1..Len(new) /\ lines'[i] = new[i - Len(lines)]
BY DEF RecordTypes, Write

\* Lines that are no messages leave the count of messages alone.
LEMMA CountWritten ==
  ASSUME RecordTypes, CountInv, NEW new \in Seq(Lines), Write(new),
         \A k \in 1..Len(new) : new[k].kind # "message",
         served'.said = served.said, record'.heard = record.heard
  PROVE  CountInv'
<1>1. /\ Len(lines) \in Nat /\ Len(new) \in Nat /\ Len(lines') = Len(lines) + Len(new)
      /\ DOMAIN lines = 1..Len(lines) /\ DOMAIN lines' = 1..(Len(lines) + Len(new))
      /\ \A i \in DOMAIN lines : lines'[i] = lines[i]
      /\ \A i \in DOMAIN lines' : i \notin DOMAIN lines => lines'[i].kind # "message"
  BY Written
<1>2. PICK f \in [0..Len(lines) -> Nat] :
        /\ f[0] = record.heard /\ f[Len(lines)] = served.said
        /\ \A i \in DOMAIN lines :
             /\ f[i] = IF lines[i].kind = "message" THEN f[i - 1] + 1 ELSE f[i - 1]
             /\ lines[i].kind = "end" => f[i] = served.said
  BY DEF CountInv
<1>3. served.said \in Nat
  BY DEF RecordTypes
<1> DEFINE g == [i \in 0..(Len(lines) + Len(new)) |-> IF i <= Len(lines) THEN f[i] ELSE f[Len(lines)]]
<1>4. /\ g \in [0..Len(lines') -> Nat]
      /\ g[0] = record'.heard /\ g[Len(lines')] = served'.said
  BY <1>1, <1>2, <1>3
<1>5. ASSUME NEW i \in DOMAIN lines'
      PROVE  /\ g[i] = IF lines'[i].kind = "message" THEN g[i - 1] + 1 ELSE g[i - 1]
             /\ lines'[i].kind = "end" => g[i] = served'.said
  <2>1. CASE i \in DOMAIN lines
    <3>1. g[i] = f[i] /\ g[i - 1] = f[i - 1]
      BY <1>1, <2>1
    <3> QED
      BY <1>1, <1>2, <2>1, <3>1
  <2>2. CASE i \notin DOMAIN lines
    <3>1. g[i] = f[Len(lines)] /\ g[i - 1] = f[Len(lines)]
      BY <1>1, <1>5, <2>2
    <3> QED
      BY <1>1, <1>2, <1>5, <2>2, <3>1
  <2> QED
    BY <2>1, <2>2
<1> HIDE DEF g
<1> QED
  BY <1>4, <1>5 DEF CountInv

\* A message that is written is one more to hear.
LEMMA CountSpoken ==
  ASSUME RecordTypes, CountInv, Write(<<TurnLine("message", "none")>>),
         \A i \in DOMAIN lines : lines[i].kind # "end",
         served'.said = served.said + 1, record'.heard = record.heard
  PROVE  CountInv'
<1> DEFINE new == <<TurnLine("message", "none")>>
<1>1. new \in Seq(Lines) /\ Len(new) = 1 /\ new[1].kind = "message"
  BY DEF Lines, TurnLine
<1>2. /\ Len(lines) \in Nat /\ Len(lines') = Len(lines) + 1
      /\ DOMAIN lines = 1..Len(lines) /\ DOMAIN lines' = 1..(Len(lines) + 1)
      /\ \A i \in DOMAIN lines : lines'[i] = lines[i]
      /\ lines'[Len(lines) + 1].kind = "message"
  <2>1. Write(new)
    OBVIOUS
  <2> HIDE DEF new
  <2>2. /\ Len(lines) \in Nat /\ Len(lines') = Len(lines) + 1
        /\ DOMAIN lines = 1..Len(lines) /\ DOMAIN lines' = 1..(Len(lines) + 1)
        /\ \A i \in DOMAIN lines : lines'[i] = lines[i]
    BY <1>1, <2>1, Written
  <2>3. Len(lines) + 1 \in DOMAIN lines' /\ Len(lines) + 1 \notin DOMAIN lines
    BY <2>2
  <2>4. lines'[Len(lines) + 1] = new[(Len(lines) + 1) - Len(lines)]
    BY <1>1, <2>1, <2>3, Written
  <2> QED
    BY <1>1, <2>2, <2>4
<1>3. PICK f \in [0..Len(lines) -> Nat] :
        /\ f[0] = record.heard /\ f[Len(lines)] = served.said
        /\ \A i \in DOMAIN lines : f[i] = IF lines[i].kind = "message" THEN f[i - 1] + 1 ELSE f[i - 1]
  BY DEF CountInv
<1>4. served.said \in Nat
  BY DEF RecordTypes
<1> DEFINE g == [i \in 0..(Len(lines) + 1) |-> IF i <= Len(lines) THEN f[i] ELSE f[Len(lines)] + 1]
<1>5. /\ g \in [0..Len(lines') -> Nat]
      /\ g[0] = record'.heard /\ g[Len(lines')] = served'.said
  BY <1>2, <1>3, <1>4
<1>6. ASSUME NEW i \in DOMAIN lines'
      PROVE  /\ g[i] = IF lines'[i].kind = "message" THEN g[i - 1] + 1 ELSE g[i - 1]
             /\ lines'[i].kind # "end"
  <2>1. CASE i \in DOMAIN lines
    <3>1. g[i] = f[i] /\ g[i - 1] = f[i - 1]
      BY <1>2, <2>1
    <3> QED
      BY <1>2, <1>3, <2>1, <3>1
  <2>2. CASE i = Len(lines) + 1
    BY <1>2, <2>2
  <2> QED
    BY <1>2, <2>1, <2>2
<1> HIDE DEF g
<1> QED
  BY <1>5, <1>6 DEF CountInv

\* The first line is taken: a message is heard.
LEMMA CountTaken ==
  ASSUME RecordTypes, CountInv, lines # <<>>, lines' = Tail(lines), served'.said = served.said,
         record'.heard = IF Head(lines).kind = "message" THEN record.heard + 1 ELSE record.heard
  PROVE  /\ CountInv'
         /\ Head(lines).kind = "end" => record.heard = served.said
<1>1. /\ Len(lines) \in Nat /\ Len(lines) > 0 /\ Len(lines') = Len(lines) - 1 /\ Head(lines) = lines[1]
      /\ DOMAIN lines = 1..Len(lines) /\ DOMAIN lines' = 1..(Len(lines) - 1)
      /\ \A i \in DOMAIN lines' : lines'[i] = lines[i + 1]
  BY DEF RecordTypes
<1>2. PICK f \in [0..Len(lines) -> Nat] :
        /\ f[0] = record.heard /\ f[Len(lines)] = served.said
        /\ \A i \in DOMAIN lines :
             /\ f[i] = IF lines[i].kind = "message" THEN f[i - 1] + 1 ELSE f[i - 1]
             /\ lines[i].kind = "end" => f[i] = served.said
  BY DEF CountInv
<1> DEFINE g == [i \in 0..(Len(lines) - 1) |-> f[i + 1]]
<1>3. 1 \in DOMAIN lines /\ f[1] = record'.heard
  BY <1>1, <1>2
<1>4. g \in [0..Len(lines') -> Nat] /\ g[0] = record'.heard /\ g[Len(lines')] = served'.said
  BY <1>1, <1>2, <1>3
<1>5. ASSUME NEW i \in DOMAIN lines'
      PROVE  /\ g[i] = IF lines'[i].kind = "message" THEN g[i - 1] + 1 ELSE g[i - 1]
             /\ lines'[i].kind = "end" => g[i] = served'.said
  <2>1. i + 1 \in DOMAIN lines /\ g[i] = f[i + 1] /\ g[i - 1] = f[i] /\ (i + 1) - 1 = i
    BY <1>1, <1>5
  <2> QED
    BY <1>1, <1>2, <2>1
<1>6. Head(lines).kind = "end" => record.heard = served.said
  BY <1>1, <1>2, <1>3
<1> HIDE DEF g
<1> QED
  BY <1>4, <1>5, <1>6 DEF CountInv

-----------------------------------------------------------------------------

\* Before the end of the turn no line tells of one.
LEMMA NoEndYet ==
  ASSUME RecordTypes, JustifiedInv, served.state \notin Outcomes
  PROVE  \A i \in DOMAIN lines : lines[i].kind # "end"
BY DEF JustifiedInv, TrueLine

\* Steps of the app-server and its hooks before the end, which write no line.
LEMMA SilentSteps ==
  ASSUME RecordInv, SendsStart \/ SendsInterrupt \/ InterruptRefused \/ PromptHook \/ StopHook
  PROVE  RecordInv'
<1>1. UNCHANGED <<served, lines, alive, record, poll, import, slips>>
  BY DEF SendsStart, SendsInterrupt, InterruptRefused, PromptHook, StopHook, ServerOnly, NoStatusCall
<1>2. \/ UNCHANGED <<journal, hook>>
      \/ /\ served.state = "running" /\ hook' # "stop" /\ hook # "stop"
         /\ journal' = [journal EXCEPT !.status = "running"]
      \/ /\ served.state = "running" /\ hook' = "stop"
         /\ \E last \in {journal.final, "last"} : journal' = [status |-> "completed", ended |-> TRUE, final |-> last]
  BY DEF SendsStart, SendsInterrupt, InterruptRefused, PromptHook, StopHook
<1>3. stopper' \in {stopper, "asked", "over"}
  BY DEF SendsStart, SendsInterrupt, InterruptRefused, PromptHook, StopHook
<1>4. RecordTypes /\ JustifiedInv
  BY DEF RecordInv
<1>5. Lasting
  BY <1>1, <1>2 DEF Lasting
<1>6. RecordTypes'
  <2>1. journal' \in [status : Statuses, ended : BOOLEAN, final : {"none", "last"}]
    <3>1. journal \in [status : Statuses, ended : BOOLEAN, final : {"none", "last"}]
      BY <1>4 DEF RecordTypes
    <3>2. "running" \in Statuses /\ "completed" \in Statuses
      BY DEF Statuses, Live, Over, Outcomes
    <3>3. CASE UNCHANGED journal
      BY <3>1, <3>3
    <3>4. CASE journal' = [journal EXCEPT !.status = "running"]
      BY <3>1, <3>2, <3>4
    <3>5. ASSUME NEW last \in {journal.final, "last"}, journal' = [status |-> "completed", ended |-> TRUE, final |-> last]
          PROVE  journal' \in [status : Statuses, ended : BOOLEAN, final : {"none", "last"}]
      BY <3>1, <3>2, <3>5
    <3> QED
      BY <1>2, <3>3, <3>4, <3>5
  <2> QED
    BY <1>1, <1>4, <2>1 DEF RecordTypes
<1>7. JustifiedInv'
  <2>1. Justified(record.status)' /\ Justified(poll)' /\ Justified(import)' /\ \A i \in DOMAIN lines' : TrueLine(lines[i])'
    BY <1>1, <1>4, <1>5, JustifiedLasts DEF JustifiedInv
  <2>2. Justified(journal.status)'
    <3>1. CASE UNCHANGED <<journal, hook>>
      BY <1>4, <1>5, <3>1, JustifiedLasts DEF JustifiedInv
    <3>2. CASE journal' = [journal EXCEPT !.status = "running"]
      <4>1. journal'.status = "running"
        BY <1>4, <3>2 DEF RecordTypes
      <4> QED
        BY <4>1 DEF Justified, Outcomes
    <3>3. CASE hook' = "stop" /\ \E last \in {journal.final, "last"} : journal' = [status |-> "completed", ended |-> TRUE, final |-> last]
      BY <3>3 DEF Justified
    <3> QED
      BY <1>2, <3>1, <3>2, <3>3
  <2>3. hook' = "stop" /\ served'.state \in Outcomes => served'.state = "completed"
    BY <1>1, <1>2, <1>4 DEF JustifiedInv, Outcomes
  <2>4. stopper' \in {"served", "woken"} => served'.state = "interrupted"
    BY <1>1, <1>3, <1>4 DEF JustifiedInv
  <2> QED
    BY <1>1, <2>1, <2>2, <2>3, <2>4 DEF JustifiedInv
<1>8. ASSUME alive PROVE CountInv' /\ EndIsLast' /\ EndIsKnown'
  <2>1. CountInv /\ EndIsLast /\ EndIsKnown
    BY <1>8 DEF RecordInv
  <2>2. served.state \in Outcomes => UNCHANGED journal
    BY <1>2 DEF Outcomes
  <2> QED
    BY <1>1, <2>1, <2>2 DEF CountInv, EndIsLast, Harmless, EndIsKnown
<1> QED
  BY <1>1, <1>6, <1>7, <1>8 DEF RecordInv

\* The frame of the steps that write lines.
LEMMA WritingFrame ==
  ASSUME RecordTypes, JustifiedInv, Lasting, NEW new \in Seq(Lines), Write(new), UNCHANGED <<record, journal, poll, import, hook>>,
         \A k \in 1..Len(new) : TrueLine(new[k])',
         hook = "stop" /\ served'.state \in Outcomes => served'.state = "completed",
         stopper' \in {"served", "woken"} => served'.state = "interrupted"
  PROVE  JustifiedInv'
<1>1. /\ \A i \in DOMAIN lines : lines'[i] = lines[i]
      /\ \A i \in DOMAIN lines' : i \notin DOMAIN lines =>
           /\ i - Len(lines) \in 1..Len(new) /\ lines'[i] = new[i - Len(lines)]
  BY Written
<1>2. \A i \in DOMAIN lines' : TrueLine(lines[i])'
  <2>1. ASSUME NEW i \in DOMAIN lines', i \in DOMAIN lines PROVE TrueLine(lines[i])'
    <3>1. TrueLine(lines[i])
      BY <2>1 DEF JustifiedInv
    <3>2. \A line : TrueLine(line) => TrueLine(line)'
      BY JustifiedLasts
    <3> QED
      BY <1>1, <2>1, <3>1, <3>2 DEF TrueLine
  <2>2. ASSUME NEW i \in DOMAIN lines', i \notin DOMAIN lines PROVE TrueLine(lines[i])'
    BY <1>1, <2>2 DEF TrueLine
  <2> QED
    BY <2>1, <2>2
<1>3. Justified(record.status)' /\ Justified(journal.status)' /\ Justified(poll)' /\ Justified(import)'
  BY JustifiedLasts DEF JustifiedInv
<1> QED
  BY <1>2, <1>3 DEF JustifiedInv

\* Lines of a turn that goes on.
LEMMA TurnGoesOn ==
  ASSUME RecordInv, TurnStarts \/ TurnSpeaks \/ TurnAsks
  PROVE  RecordInv'
<1>1. RecordTypes /\ JustifiedInv
  BY DEF RecordInv
<1>2. UNCHANGED <<alive, record, journal, poll, import, slips, hook, stopper>>
  BY DEF TurnStarts, TurnSpeaks, TurnAsks, ServerOnly, NoStatusCall
<1>3. /\ served.state \in {"none", "running"} /\ served'.state \in {"running", "asking"}
      /\ served' \in [state : {"none", "gone", "closed"} \cup InServer \cup Outcomes,
                      said : Nat, asked : Nat, reads : Nat]
  <2> DEFINE States == {"none", "gone", "closed"} \cup InServer \cup Outcomes
  <2>0. /\ served \in [state : States, said : Nat, asked : Nat, reads : Nat]
        /\ "running" \in States /\ "asking" \in States
    BY <1>1 DEF RecordTypes, InServer
  <2> HIDE DEF States
  <2> DEFINE Goes == /\ served.state \in {"none", "running"} /\ served'.state \in {"running", "asking"}
                     /\ served' \in [state : States, said : Nat, asked : Nat, reads : Nat]
  <2>1. ASSUME TurnStarts PROVE Goes
    <3>1. served.state = "none" /\ served' = [served EXCEPT !.state = "running"]
      BY <2>1 DEF TurnStarts
    <3> QED
      BY <2>0, <3>1
  <2>2. ASSUME TurnSpeaks PROVE Goes
    <3>1. served.state = "running" /\ served' = [served EXCEPT !.said = @ + 1]
      BY <2>2 DEF TurnSpeaks, Proceeds
    <3> QED
      BY <2>0, <3>1
  <2>3. ASSUME TurnAsks PROVE Goes
    <3>1. served.state = "running" /\ served' = [served EXCEPT !.state = "asking", !.asked = @ + 1]
      BY <2>3 DEF TurnAsks, Proceeds
    <3>2. served.asked + 1 \in Nat
      BY <2>0
    <3>3. served'.state = "asking" /\ served' \in [state : States, said : Nat, asked : Nat, reads : Nat]
      BY <2>0, <3>1, <3>2
    <3> QED
      BY <3>1, <3>3
  <2>4. Goes
    BY <2>1, <2>2, <2>3
  <2> QED
    BY <2>4 DEF States
<1>4. \/ /\ \E new \in {<<TurnLine("started", "none"), TurnLine("reply", "start")>>,
                        <<TurnLine("reply", "start"), TurnLine("started", "none")>>,
                        <<TurnLine("question", "none")>>} : Write(new)
         /\ served'.said = served.said
      \/ Write(<<TurnLine("message", "none")>>) /\ served'.said = served.said + 1
  BY <1>1 DEF TurnStarts, TurnSpeaks, TurnAsks, RecordTypes
<1>5. PICK new \in Seq(Lines) :
        /\ Write(new)
        /\ \A k \in 1..Len(new) : new[k].kind \notin {"end", "snapshot"} /\ new[k].what \in {"none", "start"}
        /\ \/ served'.said = served.said /\ \A k \in 1..Len(new) : new[k].kind # "message"
           \/ new = <<TurnLine("message", "none")>> /\ served'.said = served.said + 1
  <2> DEFINE started == TurnLine("started", "none")
             reply == TurnLine("reply", "start")
             question == TurnLine("question", "none")
             message == TurnLine("message", "none")
  <2>1. {started, reply, question, message} \subseteq Lines
    BY LineOf DEF TurnLine
  <2>2. /\ \A line \in {started, reply, question} : line.kind \in {"started", "reply", "question"} /\ line.what \in {"none", "start"}
        /\ message.kind = "message" /\ message.what = "none"
    BY DEF TurnLine
  <2> HIDE DEF started, reply, question, message
  <2>3. CASE Write(<<message>>) /\ served'.said = served.said + 1
    <3>1. <<message>> \in Seq(Lines) /\ \A k \in 1..Len(<<message>>) : <<message>>[k] = message
      BY <2>1, OneOrTwo
    <3> QED
      BY <2>2, <2>3, <3>1 DEF message
  <2>4. CASE Write(<<question>>) /\ served'.said = served.said
    <3>1. <<question>> \in Seq(Lines) /\ \A k \in 1..Len(<<question>>) : <<question>>[k] = question
      BY <2>1, OneOrTwo
    <3> QED
      BY <2>2, <2>4, <3>1
  <2>5. ASSUME NEW a \in {started, reply}, NEW b \in {started, reply}, Write(<<a, b>>), served'.said = served.said
        PROVE  \E new \in Seq(Lines) :
                 /\ Write(new)
                 /\ \A k \in 1..Len(new) : new[k].kind \notin {"end", "snapshot", "message"} /\ new[k].what \in {"none", "start"}
    <3>1. <<a, b>> \in Seq(Lines) /\ \A k \in 1..Len(<<a, b>>) : <<a, b>>[k] \in {a, b}
      BY <2>1, OneOrTwo
    <3> QED
      BY <2>2, <2>5, <3>1
  <2>6. \/ Write(<<message>>) /\ served'.said = served.said + 1
        \/ Write(<<question>>) /\ served'.said = served.said
        \/ (Write(<<started, reply>>) \/ Write(<<reply, started>>)) /\ served'.said = served.said
    BY <1>4 DEF started, reply, question, message
  <2>7. CASE (Write(<<started, reply>>) \/ Write(<<reply, started>>)) /\ served'.said = served.said
    <3>1. \E new \in Seq(Lines) :
            /\ Write(new)
            /\ \A k \in 1..Len(new) : new[k].kind \notin {"end", "snapshot", "message"} /\ new[k].what \in {"none", "start"}
      BY <2>5, <2>7
    <3> QED
      BY <2>7, <3>1
  <2> QED
    BY <2>3, <2>4, <2>6, <2>7
<1>6. served.state \notin Outcomes /\ served'.state \notin Outcomes /\ served.state # "closed" /\ served'.state # "closed"
  BY <1>3 DEF Outcomes
<1>7. RecordTypes'
  BY <1>1, <1>2, <1>3, <1>5, Written DEF RecordTypes
<1>8. JustifiedInv'
  <2>1. Lasting
    BY <1>2, <1>6 DEF Lasting
  <2>2. \A k \in 1..Len(new) : TrueLine(new[k])'
    BY <1>5 DEF TrueLine, Outcomes
  <2>3. stopper' \in {"served", "woken"} => served'.state = "interrupted"
    BY <1>1, <1>2, <1>3 DEF JustifiedInv
  <2> QED
    BY <1>1, <1>2, <1>5, <1>6, <2>1, <2>2, <2>3, WritingFrame
<1>9. ASSUME alive PROVE CountInv' /\ EndIsLast' /\ EndIsKnown'
  <2>1. CountInv'
    BY <1>1, <1>2, <1>5, <1>6, <1>9, NoEndYet, CountWritten, CountSpoken DEF RecordInv
  <2>2. \A i \in DOMAIN lines' : lines'[i].kind # "end"
    BY <1>6, <1>8 DEF JustifiedInv, TrueLine
  <2> QED
    BY <1>6, <2>1, <2>2 DEF EndIsLast, EndIsKnown
<1> QED
  BY <1>2, <1>7, <1>8, <1>9 DEF RecordInv

\* The end of the turn and its line.
LEMMA TurnEndsInLines ==
  ASSUME RecordInv, TurnStops \/ TurnInterrupted
  PROVE  RecordInv'
<1>1. RecordTypes /\ JustifiedInv
  BY DEF RecordInv
<1>2. UNCHANGED <<alive, record, journal, poll, import, slips, hook>>
  BY DEF TurnStops, TurnInterrupted, ServerOnly, NoStatusCall
<1> DEFINE over == served'.state
<1>3. /\ served.state \in InServer /\ \E outcome \in Outcomes : served' = [served EXCEPT !.state = outcome]
      /\ hook = "stop" => over = "completed"
      /\ stopper' \in {"served", "woken"} => over = "interrupted"
      /\ \/ Write(<<TurnLine("end", over)>>)
         \/ Write(<<TurnLine("reply", "stop"), TurnLine("end", over)>>)
         \/ Write(<<TurnLine("end", over), TurnLine("reply", "stop")>>)
  <2>1. served \in [state : {"none", "gone", "closed"} \cup InServer \cup Outcomes, said : Nat, asked : Nat, reads : Nat]
    BY <1>1 DEF RecordTypes
  <2>2. CASE TurnStops
    <3>1. PICK outcome \in {"completed", "failed"} :
            served' = [served EXCEPT !.state = outcome] /\ (outcome = "failed" => hook # "stop")
      BY <2>2 DEF TurnStops
    <3>2. over = outcome
      BY <2>1, <3>1
    <3>3. served.state = "running" /\ UNCHANGED stopper /\ Write(<<TurnLine("end", over)>>)
      BY <2>2 DEF TurnStops
    <3> QED
      BY <1>1, <3>1, <3>2, <3>3 DEF JustifiedInv, InServer, Outcomes
  <2>3. CASE TurnInterrupted
    <3>1. served.state \in InServer /\ hook # "stop" /\ served' = [served EXCEPT !.state = "interrupted"]
      BY <2>3 DEF TurnInterrupted
    <3>2. over = "interrupted"
      BY <2>1, <3>1
    <3>3. \/ Write(<<TurnLine("reply", "stop"), TurnLine("end", "interrupted")>>)
          \/ Write(<<TurnLine("end", "interrupted"), TurnLine("reply", "stop")>>)
      BY <2>3 DEF TurnInterrupted
    <3> QED
      BY <3>1, <3>2, <3>3 DEF Outcomes
  <2> QED
    BY <2>2, <2>3
<1>4. /\ over \in Outcomes /\ served'.said = served.said
      /\ served' \in [state : {"none", "gone", "closed"} \cup InServer \cup Outcomes, said : Nat, asked : Nat, reads : Nat]
  <2>1. served \in [state : {"none", "gone", "closed"} \cup InServer \cup Outcomes, said : Nat, asked : Nat, reads : Nat]
    BY <1>1 DEF RecordTypes
  <2> QED
    BY <1>3, <2>1
<1>5. PICK new \in Seq(Lines) :
        /\ Write(new)
        /\ \A k \in 1..Len(new) : \/ new[k].kind = "reply" /\ new[k].what = "stop"
                                  \/ new[k].kind = "end" /\ new[k].what = over
        /\ \A k, m \in 1..Len(new) : new[k].kind = "end" /\ m > k => new[m].kind = "reply"
        /\ \E k \in 1..Len(new) : new[k].kind = "end"
  <2> DEFINE last == TurnLine("end", over)
             reply == TurnLine("reply", "stop")
  <2>1. /\ last \in Lines /\ last.kind = "end" /\ last.what = over
        /\ reply \in Lines /\ reply.kind = "reply" /\ reply.what = "stop"
    BY <1>4, LineOf
  <2>2. Write(<<last>>) \/ Write(<<reply, last>>) \/ Write(<<last, reply>>)
    BY <1>3
  <2> HIDE DEF last, reply, over
  <2>3. CASE Write(<<last>>)
    <3> DEFINE new == <<last>>
    <3>1. new \in Seq(Lines) /\ Len(new) = 1 /\ new[1] = last /\ Write(new)
      BY <2>1, <2>3, OneOrTwo
    <3>2. 1 \in 1..1 /\ \A k, m \in 1..1 : k = 1 /\ ~(m > k)
      OBVIOUS
    <3> HIDE DEF new
    <3> QED
      BY <2>1, <3>1, <3>2
  <2>4. CASE Write(<<reply, last>>)
    <3> DEFINE new == <<reply, last>>
    <3>1. new \in Seq(Lines) /\ Len(new) = 2 /\ new[1] = reply /\ new[2] = last /\ Write(new)
      BY <2>1, <2>4, OneOrTwo
    <3>2. \A k, m \in 1..2 : (k = 1 \/ k = 2) /\ (m > k => k = 1 /\ m = 2)
      OBVIOUS
    <3>3. 1 \in 1..2 /\ 2 \in 1..2
      OBVIOUS
    <3> HIDE DEF new
    <3> QED
      BY <2>1, <3>1, <3>2, <3>3
  <2>5. CASE Write(<<last, reply>>)
    <3> DEFINE new == <<last, reply>>
    <3>1. new \in Seq(Lines) /\ Len(new) = 2 /\ new[1] = last /\ new[2] = reply /\ Write(new)
      BY <2>1, <2>5, OneOrTwo
    <3>2. \A k, m \in 1..2 : (k = 1 \/ k = 2) /\ (m > k => k = 1 /\ m = 2)
      OBVIOUS
    <3>3. 1 \in 1..2 /\ 2 \in 1..2
      OBVIOUS
    <3> HIDE DEF new
    <3> QED
      BY <2>1, <3>1, <3>2, <3>3
  <2> QED
    BY <2>2, <2>3, <2>4, <2>5
<1>6. served.state \notin Outcomes \cup {"closed"}
  BY <1>3 DEF InServer, Outcomes
<1> HIDE DEF over
<1>7. RecordTypes'
  BY <1>1, <1>2, <1>4, <1>5, Written DEF RecordTypes
<1>8. JustifiedInv'
  <2>1. Lasting
    BY <1>2, <1>6 DEF Lasting
  <2>2. \A k \in 1..Len(new) : TrueLine(new[k])'
    BY <1>4, <1>5 DEF TrueLine, Outcomes, over
  <2> QED
    BY <1>1, <1>2, <1>3, <1>5, <2>1, <2>2, WritingFrame DEF over
<1>9. ASSUME alive PROVE CountInv' /\ EndIsLast' /\ EndIsKnown'
  <2>1. CountInv'
    BY <1>1, <1>2, <1>4, <1>5, <1>9, CountWritten DEF RecordInv
  <2>2. /\ Len(lines) \in Nat /\ Len(new) \in Nat
        /\ DOMAIN lines = 1..Len(lines) /\ DOMAIN lines' = 1..(Len(lines) + Len(new))
        /\ \A i \in DOMAIN lines : lines'[i] = lines[i]
        /\ \A i \in DOMAIN lines' : i \notin DOMAIN lines => i - Len(lines) \in 1..Len(new) /\ lines'[i] = new[i - Len(lines)]
    BY <1>1, <1>5, Written
  <2>3. \A i \in DOMAIN lines : lines'[i].kind # "end"
    BY <1>1, <1>6, <2>2, NoEndYet
  <2>4. \E i \in DOMAIN lines' : lines'[i].kind = "end"
    <3>1. PICK k \in 1..Len(new) : new[k].kind = "end"
      BY <1>5
    <3>2. Len(lines) + k \in DOMAIN lines' /\ Len(lines) + k \notin DOMAIN lines /\ (Len(lines) + k) - Len(lines) = k
      BY <2>2
    <3> QED
      BY <2>2, <3>1, <3>2
  <2>5. ASSUME NEW i \in DOMAIN lines', NEW j \in DOMAIN lines', lines'[i].kind = "end", j > i
        PROVE  Harmless(lines[j])'
    <3>1. i \notin DOMAIN lines /\ j \notin DOMAIN lines
      BY <2>2, <2>3, <2>5
    <3>2. /\ i - Len(lines) \in 1..Len(new) /\ j - Len(lines) \in 1..Len(new) /\ j - Len(lines) > i - Len(lines)
          /\ lines'[i] = new[i - Len(lines)] /\ lines'[j] = new[j - Len(lines)]
      BY <2>2, <2>5, <3>1
    <3>3. lines'[j].kind = "reply"
      BY <1>5, <2>5, <3>2
    <3> QED
      BY <3>3 DEF Harmless
  <2> QED
    BY <2>1, <2>4, <2>5 DEF EndIsLast, EndIsKnown
<1> QED
  BY <1>2, <1>7, <1>8, <1>9 DEF RecordInv

LEMMA SnapshotServed ==
  ASSUME RecordInv, ServesSnapshot
  PROVE  RecordInv'
<1>1. RecordTypes /\ JustifiedInv
  BY DEF RecordInv
<1>2. /\ UNCHANGED <<alive, record, journal, poll, import, slips, hook, stopper>>
      /\ served' = [served EXCEPT !.reads = @ + 1] /\ served.state \in InServer \cup Outcomes
  BY DEF ServesSnapshot, ServerOnly, NoStatusCall
<1>3. /\ served'.state = served.state /\ served'.said = served.said
      /\ served' \in [state : {"none", "gone", "closed"} \cup InServer \cup Outcomes, said : Nat, asked : Nat, reads : Nat]
  <2>1. served \in [state : {"none", "gone", "closed"} \cup InServer \cup Outcomes, said : Nat, asked : Nat, reads : Nat]
    BY <1>1 DEF RecordTypes
  <2> QED
    BY <1>2, <2>1
<1>4. PICK line \in Lines :
        /\ Write(<<line>>) /\ line.kind = "snapshot"
        /\ line.what = "running" \/ (line.what \in Outcomes /\ line.what = served.state)
        /\ served.state \in Outcomes => line.what = served.state
  <2> DEFINE what == IF served.state = "asking" THEN "running" ELSE served.state
  <2>1. /\ what \in {"running"} \cup Outcomes /\ (what \in Outcomes => what = served.state)
        /\ served.state \in Outcomes => what = served.state
    BY <1>2 DEF InServer, Outcomes
  <2>0. Write(<<TurnLine("snapshot", what)>>)
    BY DEF ServesSnapshot
  <2> HIDE DEF what
  <2>2. TurnLine("snapshot", what) \in Lines /\ TurnLine("snapshot", what).kind = "snapshot" /\ TurnLine("snapshot", what).what = what
    BY <2>1, LineOf
  <2> QED
    BY <2>0, <2>1, <2>2
<1> DEFINE new == <<line>>
<1>5. /\ new \in Seq(Lines) /\ Write(new) /\ \A k \in 1..Len(new) : new[k] = line
      /\ Len(new) = 1
  BY <1>4, OneOrTwo
<1> HIDE DEF new
<1>6. RecordTypes'
  BY <1>1, <1>2, <1>3, <1>5, Written DEF RecordTypes
<1>7. JustifiedInv'
  <2>1. Lasting
    BY <1>2, <1>3 DEF Lasting
  <2>2. TrueLine(line)'
    BY <1>3, <1>4 DEF TrueLine, Outcomes
  <2>3. \A k \in 1..Len(new) : TrueLine(new[k])'
    BY <1>5, <2>2 DEF TrueLine
  <2>4. /\ hook = "stop" /\ served'.state \in Outcomes => served'.state = "completed"
        /\ stopper' \in {"served", "woken"} => served'.state = "interrupted"
    BY <1>1, <1>2, <1>3 DEF JustifiedInv
  <2> QED
    BY <1>1, <1>2, <1>5, <2>1, <2>3, <2>4, WritingFrame
<1>8. ASSUME alive PROVE CountInv' /\ EndIsLast' /\ EndIsKnown'
  <2>0. CountInv /\ EndIsLast /\ EndIsKnown
    BY <1>8 DEF RecordInv
  <2>1. CountInv'
    BY <1>1, <1>2, <1>3, <1>4, <1>5, <2>0, CountWritten
  <2>2. /\ Len(lines) \in Nat
        /\ DOMAIN lines = 1..Len(lines) /\ DOMAIN lines' = 1..(Len(lines) + 1)
        /\ \A i \in DOMAIN lines : lines'[i] = lines[i] /\ i \in DOMAIN lines'
        /\ \A i \in DOMAIN lines' : i \notin DOMAIN lines => lines'[i] = line
    BY <1>1, <1>5, Written
  <2>3. served.state \in Outcomes => \A i \in DOMAIN lines' : i \notin DOMAIN lines => Harmless(lines[i])'
    BY <1>3, <1>4, <2>2 DEF Harmless
  <2>4. \A i \in DOMAIN lines : Harmless(lines[i]) => Harmless(lines[i])'
    BY <1>3, <2>2 DEF Harmless
  <2>5. \A i \in DOMAIN lines' : lines'[i].kind = "end" => i \in DOMAIN lines /\ lines[i].kind = "end" /\ served.state \in Outcomes
    BY <1>1, <1>4, <2>2, NoEndYet
  <2>6. EndIsLast'
    <3>1. ASSUME NEW i \in DOMAIN lines', NEW j \in DOMAIN lines', lines'[i].kind = "end", j > i
          PROVE  Harmless(lines[j])'
      BY <2>0, <2>3, <2>4, <2>5, <3>1 DEF EndIsLast
    <3>2. ASSUME served'.state \in Outcomes, \A i \in DOMAIN lines' : lines'[i].kind # "end", NEW j \in DOMAIN lines'
          PROVE  Harmless(lines[j])'
      <4>1. \A i \in DOMAIN lines : lines[i].kind # "end"
        BY <2>2, <3>2
      <4> QED
        BY <1>3, <2>0, <2>3, <2>4, <3>2, <4>1 DEF EndIsLast
    <3> QED
      BY <3>1, <3>2 DEF EndIsLast
  <2>7. EndIsKnown'
    BY <1>2, <1>3, <2>0, <2>2 DEF EndIsKnown
  <2> QED
    BY <2>1, <2>6, <2>7
<1> QED
  BY <1>2, <1>6, <1>7, <1>8 DEF RecordInv

-----------------------------------------------------------------------------

RecordRow == [status : Statuses, ended : BOOLEAN, final : {"none", "last"}, heard : Nat]
JournalRow == [status : Statuses, ended : BOOLEAN, final : {"none", "last"}]

\* What the mirror writes.
LEMMA Mirrored ==
  ASSUME journal \in JournalRow, NEW status \in Statuses, NEW ended \in BOOLEAN, NEW final \in {"none", "last"},
         Mirror(status, ended, final)
  PROVE  /\ journal' \in JournalRow /\ journal'.status = status
         /\ journal.final = "last" \/ final = "last" => journal'.final = "last"
         /\ slips \subseteq slips'
BY DEF Mirror, JournalRow

\* What a line does to the record and the journal.
LineTaken(line) ==
  /\ record' \in RecordRow /\ journal' \in JournalRow
  /\ Justified(record'.status) /\ Justified(journal'.status)
  /\ record'.heard = IF line.kind = "message" THEN record.heard + 1 ELSE record.heard
  /\ line.kind = "end" =>
       /\ record'.status \in Over /\ journal'.status \in Over
       /\ record.heard > 0 => record'.final = "last" /\ journal'.final = "last"
  /\ served.state \in Outcomes /\ Harmless(line) /\ record.status \in Over /\ journal.status \in Over =>
       record'.status \in Over /\ journal'.status \in Over
  /\ Harmless(line) => /\ record.final = "last" => record'.final = "last"
                       /\ journal.final = "last" => journal'.final = "last"
  /\ slips \subseteq slips'
  /\ stopper' = stopper \/ (stopper = "served" /\ stopper' = "woken")

LEMMA LineIsTaken ==
  ASSUME RecordTypes, JustifiedInv, TakesLine, NEW line \in Lines, line = Head(lines), TrueLine(line)
  PROVE  LineTaken(line)
<1>1. record \in RecordRow /\ journal \in JournalRow /\ Justified(record.status) /\ Justified(journal.status)
  BY DEF RecordTypes, JustifiedInv, RecordRow, JournalRow
<1>2. /\ "running" \in Statuses /\ "asking" \in Statuses /\ "first" \in Statuses
      /\ Outcomes \subseteq Over /\ Over \subseteq Statuses
      /\ Justified("running") /\ Justified("asking") /\ Justified("first")
  BY DEF Statuses, Live, Over, Outcomes, Justified
<1>3. CASE line.kind = "started"
  <2>1. record' = [record EXCEPT !.status = "running"] /\ Mirror("running", FALSE, "none") /\ UNCHANGED stopper
    BY <1>3 DEF TakesLine, EventStarted
  <2>2. record' \in RecordRow /\ record'.status = "running" /\ record'.heard = record.heard
    BY <1>1, <1>2, <2>1 DEF RecordRow
  <2>3. journal' \in JournalRow /\ journal'.status = "running" /\ slips \subseteq slips'
    BY <1>1, <1>2, <2>1, Mirrored
  <2> QED
    BY <1>2, <1>3, <2>1, <2>2, <2>3 DEF LineTaken, Harmless
<1>4. CASE line.kind = "message"
  <2>1. /\ record' = [record EXCEPT !.heard = @ + 1,
                                    !.status = IF @ \in {"none", "running"} THEN "first" ELSE @]
        /\ UNCHANGED <<stopper, journal, slips>>
    BY <1>4 DEF TakesLine, EventMessage, NoMirror
  <2>2. record'.status \in {"first", record.status} /\ record'.heard = record.heard + 1 /\ record' \in RecordRow
    <3>1. record.heard + 1 \in Nat
      BY <1>1 DEF RecordRow
    <3> QED
      BY <1>1, <1>2, <2>1, <3>1 DEF RecordRow
  <2> QED
    BY <1>1, <1>2, <1>4, <2>1, <2>2 DEF LineTaken, Harmless
<1>5. CASE line.kind = "question"
  <2>1. record' = [record EXCEPT !.status = "asking"] /\ Mirror("asking", FALSE, "none") /\ UNCHANGED stopper
    BY <1>5 DEF TakesLine, EventQuestion
  <2>2. record' \in RecordRow /\ record'.status = "asking" /\ record'.heard = record.heard
    BY <1>1, <1>2, <2>1 DEF RecordRow
  <2>3. journal' \in JournalRow /\ journal'.status = "asking" /\ slips \subseteq slips'
    BY <1>1, <1>2, <2>1, Mirrored
  <2> QED
    BY <1>2, <1>5, <2>1, <2>2, <2>3 DEF LineTaken, Harmless
<1>6. CASE line.kind = "end"
  <2> DEFINE outcome == line.what
  <2>1. outcome \in Outcomes /\ outcome \in Over /\ outcome \in Statuses /\ Justified(outcome)
    BY <1>2, <1>6 DEF TrueLine, Justified, Outcomes
  <2>2. /\ record' = [record EXCEPT !.status = outcome, !.ended = TRUE,
                                    !.final = IF Last(record) = "none" THEN @ ELSE "last"]
        /\ Mirror(outcome, TRUE, Last(record)) /\ UNCHANGED stopper
    BY <1>6 DEF TakesLine, EventEnd
  <2> HIDE DEF outcome
  <2>3. Last(record) \in {"none", "last"} /\ (record.heard > 0 => Last(record) = "last")
    BY <1>1 DEF Last, RecordRow
  <2>4. /\ record' \in RecordRow /\ record'.status = outcome /\ record'.heard = record.heard
        /\ record'.final = IF Last(record) = "none" THEN record.final ELSE "last"
    BY <1>1, <2>1, <2>2 DEF RecordRow
  <2>5. /\ journal' \in JournalRow /\ journal'.status = outcome /\ slips \subseteq slips'
        /\ Last(record) = "last" => journal'.final = "last"
    BY <1>1, <2>1, <2>2, <2>3, Mirrored
  <2> QED
    BY <1>6, <2>1, <2>2, <2>3, <2>4, <2>5 DEF LineTaken, Harmless
<1>7. CASE line.kind = "snapshot"
  <2> DEFINE status == line.what
  <2>1. /\ status \in Statuses /\ Justified(status)
        /\ Harmless(line) /\ served.state \in Outcomes => status \in Over
    BY <1>2, <1>7 DEF TrueLine, Justified, Outcomes, Harmless
  <2>2. /\ record' = [record EXCEPT !.status = status, !.ended = @ \/ status \in Over]
        /\ Mirror(status, status \in Over, record.final) /\ UNCHANGED stopper
    BY <1>7 DEF TakesLine, EventSnapshot
  <2> HIDE DEF status
  <2>3. /\ record' \in RecordRow /\ record'.status = status /\ record'.heard = record.heard
        /\ record'.final = record.final
    <3>1. (record.ended \/ status \in Over) \in BOOLEAN
      BY <1>1 DEF RecordRow
    <3> QED
      BY <1>1, <2>1, <2>2, <3>1 DEF RecordRow
  <2>4. /\ journal' \in JournalRow /\ journal'.status = status /\ slips \subseteq slips'
        /\ journal.final = "last" => journal'.final = "last"
    <3>1. (status \in Over) \in BOOLEAN /\ record.final \in {"none", "last"}
      BY <1>1 DEF RecordRow
    <3> QED
      BY <1>1, <2>1, <2>2, <3>1, Mirrored
  <2> QED
    BY <1>7, <2>1, <2>2, <2>3, <2>4 DEF LineTaken
<1>8. CASE line.kind = "reply"
  <2>1. UNCHANGED <<record, journal, slips>> /\ (stopper' = stopper \/ (stopper = "served" /\ stopper' = "woken"))
    BY <1>8 DEF TakesLine, ReplyWakes, NoMirror
  <2> QED
    BY <1>1, <1>8, <2>1 DEF LineTaken
<1> QED
  BY <1>3, <1>4, <1>5, <1>6, <1>7, <1>8 DEF Lines

LEMMA LinesAreTaken ==
  ASSUME RecordInv, TakesLine
  PROVE  RecordInv'
<1>1. RecordTypes /\ JustifiedInv
  BY DEF RecordInv
<1>2. UNCHANGED <<served, hook, alive, poll, import>> /\ alive /\ lines # <<>> /\ lines' = Tail(lines)
  BY DEF TakesLine, Outside, NoStatusCall
<1>3. CountInv /\ EndIsLast /\ EndIsKnown
  BY <1>2 DEF RecordInv
<1>4. /\ Len(lines) \in Nat /\ Len(lines) > 0 /\ Head(lines) = lines[1] /\ 1 \in DOMAIN lines
      /\ lines' \in Seq(Lines)
      /\ DOMAIN lines = 1..Len(lines) /\ DOMAIN lines' = 1..(Len(lines) - 1)
      /\ \A i \in DOMAIN lines' : lines'[i] = lines[i + 1]
  BY <1>1, <1>2 DEF RecordTypes
<1> DEFINE line == lines[1]
<1>5. line \in Lines /\ line = Head(lines) /\ TrueLine(line)
  BY <1>1, <1>4 DEF RecordTypes, JustifiedInv
<1>6. LineTaken(line)
  BY <1>1, <1>5, LineIsTaken
<1> HIDE DEF line
<1>7. RecordTypes'
  BY <1>1, <1>2, <1>4, <1>6 DEF RecordTypes, LineTaken, RecordRow, JournalRow
<1>8. \A i \in DOMAIN lines' : i + 1 \in DOMAIN lines /\ i + 1 > 1
  BY <1>4
<1>9. JustifiedInv'
  <2>1. Lasting
    BY <1>2 DEF Lasting
  <2>2. Justified(record.status)' /\ Justified(journal.status)' /\ Justified(poll)' /\ Justified(import)'
    BY <1>1, <1>2, <1>6 DEF JustifiedInv, LineTaken, Justified
  <2>3. \A i \in DOMAIN lines' : TrueLine(lines[i])'
    BY <1>1, <1>2, <1>4, <1>8 DEF JustifiedInv, TrueLine
  <2> QED
    BY <1>1, <1>2, <1>6, <2>2, <2>3 DEF JustifiedInv, LineTaken
<1>10. CountInv' /\ (line.kind = "end" => record.heard = served.said)
  BY <1>1, <1>2, <1>3, <1>5, <1>6, CountTaken DEF LineTaken
<1>11. \A l : Harmless(l)' <=> Harmless(l)
  BY <1>2 DEF Harmless
<1>12. ASSUME NEW j \in DOMAIN lines',
              \/ \E i \in DOMAIN lines' : lines'[i].kind = "end" /\ j > i
              \/ served.state \in Outcomes /\ \A i \in DOMAIN lines' : lines'[i].kind # "end"
       PROVE  Harmless(lines'[j])
  <2>1. j + 1 \in DOMAIN lines /\ lines'[j] = lines[j + 1] /\ j + 1 > 1
    BY <1>4, <1>8
  <2>2. CASE \E i \in DOMAIN lines' : lines'[i].kind = "end" /\ j > i
    <3>1. PICK i \in DOMAIN lines' : lines'[i].kind = "end" /\ j > i
      BY <2>2
    <3>2. i + 1 \in DOMAIN lines /\ lines[i + 1].kind = "end" /\ j + 1 > i + 1
      BY <1>4, <1>8, <3>1
    <3> QED
      BY <1>3, <2>1, <3>2 DEF EndIsLast
  <2>3. CASE served.state \in Outcomes /\ \A i \in DOMAIN lines' : lines'[i].kind # "end"
    <3>1. CASE line.kind = "end"
      BY <1>3, <1>4, <2>1, <3>1 DEF EndIsLast, line
    <3>2. CASE line.kind # "end"
      <4>1. ASSUME NEW i \in DOMAIN lines PROVE lines[i].kind # "end"
        <5>1. CASE i = 1
          BY <3>2, <5>1 DEF line
        <5>2. CASE i # 1
          <6>1. i - 1 \in DOMAIN lines' /\ (i - 1) + 1 = i
            BY <1>4, <5>2
          <6> QED
            BY <1>4, <2>3, <6>1
        <5> QED
          BY <5>1, <5>2
      <4> QED
        BY <1>3, <2>1, <2>3, <4>1 DEF EndIsLast
    <3> QED
      BY <3>1, <3>2
  <2> QED
    BY <1>12, <2>2, <2>3
<1>13. EndIsLast'
  BY <1>2, <1>11, <1>12 DEF EndIsLast
<1>14. EndIsKnown'
  <2> SUFFICES ASSUME served.state \in Outcomes, \A i \in DOMAIN lines' : lines'[i].kind # "end", "import" \notin slips'
               PROVE  /\ record'.status \in Over /\ journal'.status \in Over
                      /\ served.said > 0 => record'.final = "last" /\ journal'.final = "last"
    BY <1>2 DEF EndIsKnown
  <2>1. CASE line.kind = "end"
    BY <1>6, <1>10, <2>1 DEF LineTaken
  <2>2. CASE line.kind # "end"
    <3>1. ASSUME NEW i \in DOMAIN lines PROVE lines[i].kind # "end"
      <4>1. CASE i = 1
        BY <2>2, <4>1 DEF line
      <4>2. CASE i # 1
        <5>1. i - 1 \in DOMAIN lines' /\ (i - 1) + 1 = i
          BY <1>4, <4>2
        <5> QED
          BY <1>4, <5>1
      <4> QED
        BY <4>1, <4>2
    <3>2. Harmless(line)
      BY <1>3, <1>4, <3>1 DEF EndIsLast, line
    <3>3. "import" \notin slips
      BY <1>6 DEF LineTaken
    <3>4. /\ record.status \in Over /\ journal.status \in Over
          /\ served.said > 0 => record.final = "last" /\ journal.final = "last"
      BY <1>3, <3>1, <3>3 DEF EndIsKnown
    <3> QED
      BY <1>6, <3>2, <3>4 DEF LineTaken
  <2> QED
    BY <2>1, <2>2
<1> QED
  BY <1>7, <1>9, <1>10, <1>13, <1>14 DEF RecordInv

-----------------------------------------------------------------------------

ServedRow == [state : {"none", "gone", "closed"} \cup InServer \cup Outcomes, said : Nat, asked : Nat, reads : Nat]

\* The frame of the steps that neither write nor take a line.
LEMMA RecordFrame ==
  ASSUME RecordInv, UNCHANGED <<lines, hook>>, alive' => alive, slips \subseteq slips', Lasting,
         served' \in ServedRow, served'.said = served.said,
         served'.state \in Outcomes => served'.state = served.state,
         record' \in RecordRow, record'.heard = record.heard, journal' \in JournalRow,
         poll' \in {"none"} \cup Over, import' \in {"none", "running"} \cup Over,
         Justified(record.status)', Justified(journal.status)', Justified(poll)', Justified(import)',
         stopper' \in {"served", "woken"} => stopper' = stopper,
         served.state \in Outcomes /\ "import" \notin slips' /\ record.status \in Over /\ journal.status \in Over =>
           record'.status \in Over /\ journal'.status \in Over,
         record.final = "last" => record'.final = "last",
         journal.final = "last" => journal'.final = "last"
  PROVE  RecordInv'
<1>1. RecordTypes /\ JustifiedInv
  BY DEF RecordInv
<1>2. RecordTypes'
  BY <1>1 DEF RecordTypes, RecordRow, JournalRow, ServedRow
<1>3. JustifiedInv'
  <2>1. \A line : TrueLine(line) => TrueLine(line)'
    BY JustifiedLasts
  <2>2. \A i \in DOMAIN lines' : TrueLine(lines[i])'
    BY <1>1, <2>1 DEF JustifiedInv, TrueLine
  <2>3. stopper' \in {"served", "woken"} => served'.state = "interrupted"
    BY <1>1 DEF JustifiedInv, Lasting, Outcomes
  <2> QED
    BY <1>1, <2>2, <2>3 DEF JustifiedInv
<1>4. ASSUME alive' PROVE CountInv' /\ EndIsLast' /\ EndIsKnown'
  <2>1. CountInv /\ EndIsLast /\ EndIsKnown
    BY <1>4 DEF RecordInv
  <2>2. CountInv'
    BY <2>1 DEF CountInv
  <2>3. ASSUME served.state \notin Outcomes PROVE EndIsLast' /\ EndIsKnown'
    <3>1. \A i \in DOMAIN lines : lines[i].kind # "end"
      BY <1>1, <2>3, NoEndYet
    <3>2. served'.state \notin Outcomes
      BY <2>3
    <3> QED
      BY <3>1, <3>2 DEF EndIsLast, EndIsKnown
  <2>4. ASSUME served.state \in Outcomes PROVE EndIsLast' /\ EndIsKnown'
    <3>1. served'.state = served.state
      BY <2>4 DEF Lasting
    <3>2. EndIsLast'
      BY <2>1, <3>1 DEF EndIsLast, Harmless
    <3>3. EndIsKnown'
      BY <2>1, <3>1 DEF EndIsKnown
    <3> QED
      BY <3>2, <3>3
  <2> QED
    BY <2>2, <2>3, <2>4
<1> QED
  BY <1>2, <1>3, <1>4 DEF RecordInv

\* What the steps below rely on.
LEMMA RecordFacts ==
  ASSUME RecordInv
  PROVE  /\ served \in ServedRow /\ record \in RecordRow /\ journal \in JournalRow
         /\ poll \in {"none"} \cup Over /\ import \in {"none", "running"} \cup Over
         /\ Justified(record.status) /\ Justified(journal.status) /\ Justified(poll) /\ Justified(import)
         /\ stopper \in {"served", "woken"} => served.state = "interrupted"
         /\ Over \subseteq Statuses /\ Outcomes \subseteq Over /\ Live \subseteq Statuses /\ Live \cap Over = {}
         /\ "unknown" \in Over /\ "aborted" \in Over
BY
     DEF RecordInv, RecordTypes, JustifiedInv, ServedRow, RecordRow, JournalRow, Statuses, Over,
         Outcomes, Live

LEMMA TasksRun ==
  ASSUME RecordInv, RegisterTurn \/ FirstMessageTimesOut \/ MarkInterrupted \/ MarkResolved
  PROVE  RecordInv'
<1>1. /\ served \in ServedRow /\ record \in RecordRow /\ journal \in JournalRow
      /\ poll \in {"none"} \cup Over /\ import \in {"none", "running"} \cup Over
      /\ Justified(record.status) /\ Justified(journal.status) /\ Justified(poll) /\ Justified(import)
      /\ stopper \in {"served", "woken"} => served.state = "interrupted"
      /\ Over \subseteq Statuses /\ Outcomes \subseteq Over /\ Live \subseteq Statuses /\ Live \cap Over = {}
  BY RecordFacts
<1>2. UNCHANGED <<lines, hook, served, alive, poll, import>>
  BY DEF RegisterTurn, FirstMessageTimesOut, MarkInterrupted, MarkResolved, Outside, NoStatusCall
<1>3. Lasting
  BY <1>2 DEF Lasting
<1>4. Justified(poll)' /\ Justified(import)' /\ \A status : Justified(status)' <=> Justified(status)
  BY <1>1, <1>2 DEF Justified
<1>5. stopper' \in {"served", "woken"} => stopper' = stopper
  BY DEF RegisterTurn, FirstMessageTimesOut, MarkInterrupted, MarkResolved
<1>6. CASE RegisterTurn
  <2>1. RegisterKeepsEnd \in Statuses /\ Justified(RegisterKeepsEnd) /\ (record.status \in Over => RegisterKeepsEnd \in Over)
    BY <1>1 DEF RegisterKeepsEnd, Justified, Live, Outcomes
  <2>2. record' = [record EXCEPT !.status = RegisterKeepsEnd] /\ Mirror(RegisterKeepsEnd, FALSE, "none")
    BY <1>6 DEF RegisterTurn
  <2> DEFINE status == RegisterKeepsEnd
  <2> HIDE DEF status
  <2>3. status \in Statuses /\ Justified(status) /\ (record.status \in Over => status \in Over)
        /\ record' = [record EXCEPT !.status = status] /\ Mirror(status, FALSE, "none")
    BY <2>1, <2>2 DEF status
  <2>4. /\ record' \in RecordRow /\ record'.status = status /\ record'.heard = record.heard /\ record'.final = record.final
    BY <1>1, <2>3 DEF RecordRow
  <2>5. /\ journal' \in JournalRow /\ journal'.status = status /\ slips \subseteq slips'
        /\ journal.final = "last" => journal'.final = "last"
    BY <1>1, <2>3, Mirrored
  <2>6. Justified(record.status)' /\ Justified(journal.status)'
    BY <1>2, <2>3, <2>4, <2>5 DEF Justified
  <2> QED
    BY <1>1, <1>2, <1>3, <1>4, <1>5, <2>3, <2>4, <2>5, <2>6, RecordFrame
<1>7. CASE FirstMessageTimesOut
  <2>1. UNCHANGED <<record, journal, slips>>
    BY <1>7 DEF FirstMessageTimesOut, NoMirror
  <2>2. Justified(record.status)' /\ Justified(journal.status)'
    BY <1>1, <1>2, <2>1 DEF Justified
  <2> QED
    BY <1>1, <1>2, <1>3, <1>4, <1>5, <2>1, <2>2, RecordFrame
<1>8. CASE MarkInterrupted
  <2>1. UNCHANGED <<journal, slips>> /\ served.state = "interrupted"
        /\ record' \in {record, [record EXCEPT !.status = "interrupted", !.ended = TRUE]}
    BY <1>1, <1>8 DEF MarkInterrupted, NoMirror
  <2>2. "interrupted" \in Over /\ "interrupted" \in Statuses
    BY DEF Statuses, Over, Outcomes
  <2>3. /\ record' \in RecordRow /\ record'.heard = record.heard /\ record'.final = record.final
        /\ record'.status \in {record.status, "interrupted"}
    BY <1>1, <2>1, <2>2 DEF RecordRow
  <2>4. Justified(record.status)' /\ Justified(journal.status)'
    BY <1>1, <1>2, <2>1, <2>3 DEF Justified
  <2> QED
    BY <1>1, <1>2, <1>3, <1>4, <1>5, <2>1, <2>2, <2>3, <2>4, RecordFrame
<1>9. CASE MarkResolved
  <2>1. UNCHANGED <<journal, slips>>
        /\ (record' = record \/ (record.status = "asking" /\ record' = [record EXCEPT !.status = "running"]))
    BY <1>9 DEF MarkResolved, NoMirror
  <2>2. "running" \in Statuses /\ "asking" \notin Over
    BY DEF Statuses, Live, Over, Outcomes
  <2>3. /\ record' \in RecordRow /\ record'.heard = record.heard /\ record'.final = record.final
        /\ record'.status = record.status \/ (record.status = "asking" /\ record'.status = "running")
    BY <1>1, <2>1, <2>2 DEF RecordRow
  <2>4. Justified(record.status)' /\ Justified(journal.status)'
    BY <1>1, <1>2, <2>1, <2>3 DEF Justified, Outcomes
  <2> QED
    BY <1>1, <1>2, <1>3, <1>4, <1>5, <2>1, <2>2, <2>3, <2>4, RecordFrame
<1> QED
  BY <1>6, <1>7, <1>8, <1>9

LEMMA ProcessesEnd ==
  ASSUME RecordInv, QuestionAnswered \/ ServerDies \/ WritesOff \/ OwnerDies
  PROVE  RecordInv'
<1>1. /\ served \in ServedRow /\ record \in RecordRow /\ journal \in JournalRow
      /\ poll \in {"none"} \cup Over /\ import \in {"none", "running"} \cup Over
      /\ Justified(record.status) /\ Justified(journal.status) /\ Justified(poll) /\ Justified(import)
      /\ stopper \in {"served", "woken"} => served.state = "interrupted"
      /\ Over \subseteq Statuses /\ "unknown" \in Over
  BY RecordFacts
<1>2. UNCHANGED <<hook, poll, import, journal, slips>>
  BY DEF QuestionAnswered, ServerDies, WritesOff, OwnerDies, NoMirror, NoStatusCall
<1>3. /\ served'.said = served.said /\ served' \in ServedRow
      /\ \/ served.state = "asking" /\ served'.state = "running"
         \/ served.state \in InServer /\ served'.state = "gone"
         \/ served.state = "gone" /\ served'.state = "closed"
         \/ served' = served
  <2>1. \/ served.state = "asking" /\ served' = [served EXCEPT !.state = "running"]
        \/ served.state \in InServer /\ served' = [served EXCEPT !.state = "gone"]
        \/ served.state = "gone" /\ served' = [served EXCEPT !.state = "closed"]
        \/ served' = served
    BY DEF QuestionAnswered, ServerDies, WritesOff, OwnerDies
  <2> QED
    BY <1>1, <2>1 DEF ServedRow, InServer
<1>4. Lasting /\ (served'.state \in Outcomes => served'.state = served.state)
  BY <1>2, <1>3 DEF Lasting, InServer, Outcomes
<1>5. \A status : Justified(status) => Justified(status)'
  BY <1>4, JustifiedLasts
<1>6. Justified(journal.status)' /\ Justified(poll)' /\ Justified(import)'
  <2>1. ASSUME NEW status, Justified(status) PROVE Justified(status)'
    BY <1>5, <2>1
  <2> QED
    BY <1>1, <1>2, <2>1 DEF Justified
<1>7. CASE QuestionAnswered \/ ServerDies
  <2>1. UNCHANGED <<lines, alive, stopper, record>>
    BY <1>7 DEF QuestionAnswered, ServerDies
  <2>2. Justified(record.status)'
    BY <1>1, <1>5, <2>1 DEF Justified
  <2> QED
    BY <1>1, <1>2, <1>3, <1>4, <1>6, <2>1, <2>2, RecordFrame
<1>8. CASE WritesOff
  <2>1. /\ UNCHANGED <<lines, alive>> /\ stopper' \in {stopper, "over"}
        /\ served.state = "gone" /\ served'.state = "closed"
        /\ record' \in {record, [record EXCEPT !.status = "unknown", !.ended = TRUE]}
    BY <1>1, <1>8 DEF WritesOff, ServedRow
  <2>2. /\ record' \in RecordRow /\ record'.heard = record.heard /\ record'.final = record.final
        /\ record'.status \in {record.status, "unknown"}
    BY <1>1, <2>1 DEF RecordRow
  <2>3. Justified(record.status)'
    BY <1>1, <1>5, <2>1, <2>2 DEF Justified, Outcomes
  <2>4. served.state \notin Outcomes
    BY <2>1 DEF Outcomes
  <2> QED
    BY <1>1, <1>2, <1>3, <1>4, <1>6, <2>1, <2>2, <2>3, <2>4, RecordFrame
<1>9. CASE OwnerDies
  <2>1. lines' = <<>> /\ ~alive' /\ stopper' = "dead" /\ record' = record
    BY <1>9 DEF OwnerDies
  <2>2. RecordTypes'
    BY <1>1, <1>2, <1>3, <2>1 DEF RecordTypes, ServedRow, RecordRow, JournalRow
  <2>3. Justified(record.status)'
    BY <1>1, <1>5, <2>1 DEF Justified
  <2>4. hook' = "stop" /\ served'.state \in Outcomes => served'.state = "completed"
    BY <1>2, <1>4 DEF RecordInv, JustifiedInv
  <2>5. DOMAIN lines' = {}
    BY <2>1
  <2> QED
    BY <1>6, <2>1, <2>2, <2>3, <2>4, <2>5 DEF RecordInv, JustifiedInv
<1> QED
  BY <1>7, <1>8, <1>9

LEMMA StatusCallsRun ==
  ASSUME RecordInv, PollReads \/ PollStores \/ WorkflowPoll \/ ImportReads \/ ImportStores
  PROVE  RecordInv'
<1>1. /\ served \in ServedRow /\ record \in RecordRow /\ journal \in JournalRow
      /\ poll \in {"none"} \cup Over /\ import \in {"none", "running"} \cup Over
      /\ Justified(record.status) /\ Justified(journal.status) /\ Justified(poll) /\ Justified(import)
      /\ Over \subseteq Statuses /\ Outcomes \subseteq Over /\ Live \subseteq Statuses /\ "aborted" \in Over
  BY RecordFacts
<1>2. UNCHANGED <<served, lines, hook, alive, stopper, journal>>
  BY DEF PollReads, PollStores, WorkflowPoll, ImportReads, ImportStores, Elsewhere, NoMirror
<1>3. Lasting
  BY <1>2 DEF Lasting
<1>4. Justified(journal.status)'
  BY <1>1, <1>2 DEF Justified
<1>5. CASE PollReads \/ WorkflowPoll \/ ImportReads
  <2>1. UNCHANGED <<record, slips>>
    BY <1>5 DEF PollReads, WorkflowPoll, ImportReads, NoMirror
  <2>2. poll' \in {"none"} \cup Over /\ Justified(poll)'
    <3>1. poll' = poll \/ (poll' = journal.status /\ journal.status \in Over)
      BY <1>5 DEF PollReads, WorkflowPoll, ImportReads, JournalIsBetter, Trusted, JournalSays
    <3> QED
      BY <1>1, <1>2, <3>1 DEF Justified
  <2>3. import' \in {"none", "running"} \cup Over /\ Justified(import)'
    <3>1. import' = import \/ import' = Transcript
      BY <1>5 DEF PollReads, WorkflowPoll, ImportReads
    <3>2. Transcript \in {"none", "running"} \cup Over /\ Justified(Transcript)
      BY <1>1 DEF Transcript, Justified, Outcomes
    <3> QED
      BY <1>1, <1>2, <3>1, <3>2 DEF Justified
  <2>4. Justified(record.status)'
    BY <1>1, <1>2, <2>1 DEF Justified
  <2> QED
    BY <1>1, <1>2, <1>3, <1>4, <2>1, <2>2, <2>3, <2>4, RecordFrame
<1>6. CASE PollStores
  <2>1. /\ poll # "none" /\ poll' = "none" /\ UNCHANGED <<import, slips>>
        /\ record' = [record EXCEPT !.status = poll, !.ended = TRUE,
                                    !.final = IF journal.final = "none" THEN @ ELSE journal.final]
    BY <1>6 DEF PollStores, NoMirror
  <2>2. /\ record' \in RecordRow /\ record'.heard = record.heard /\ record'.status = poll /\ poll \in Over
        /\ record.final = "last" => record'.final = "last"
    <3>1. poll \in Over /\ poll \in Statuses /\ journal.final \in {"none", "last"}
      BY <1>1, <2>1 DEF JournalRow
    <3> QED
      BY <1>1, <2>1, <3>1 DEF RecordRow
  <2>3. Justified(record.status)' /\ Justified(poll)' /\ Justified(import)'
    BY <1>1, <1>2, <2>1, <2>2 DEF Justified, Outcomes
  <2> QED
    BY <1>1, <1>2, <1>3, <1>4, <2>1, <2>2, <2>3, RecordFrame
<1>7. CASE ImportStores
  <2>1. /\ import # "none" /\ import' = "none" /\ UNCHANGED poll
        /\ record' = [record EXCEPT !.status = import, !.ended = @ \/ import = "completed",
                                    !.final = IF import = "completed" /\ served.said > 0 THEN "last" ELSE @]
        /\ slips' = IF record.status \in Over /\ import \in Live THEN slips \cup {"import"} ELSE slips
    BY <1>7 DEF ImportStores
  <2>2. import \in Statuses /\ (import \in Over \/ import \in Live)
    BY <1>1, <2>1 DEF Live
  <2>3. /\ record' \in RecordRow /\ record'.heard = record.heard /\ record'.status = import
        /\ record.final = "last" => record'.final = "last"
    <3>1. (record.ended \/ import = "completed") \in BOOLEAN
      BY <1>1 DEF RecordRow
    <3> QED
      BY <1>1, <2>1, <2>2, <3>1 DEF RecordRow
  <2>4. Justified(record.status)' /\ Justified(poll)' /\ Justified(import)'
    BY <1>1, <1>2, <2>1, <2>3 DEF Justified, Outcomes
  <2>5. "import" \notin slips' /\ record.status \in Over => import \in Over
    BY <2>1, <2>2
  <2> QED
    BY <1>1, <1>2, <1>3, <1>4, <2>1, <2>3, <2>4, <2>5, RecordFrame
<1> QED
  BY <1>5, <1>6, <1>7

LEMMA RecordStep == RecordInv /\ [RecordNext]_recordVars => RecordInv'
<1> SUFFICES ASSUME RecordInv, [RecordNext]_recordVars PROVE RecordInv'
  OBVIOUS
<1>1. CASE UNCHANGED recordVars
  BY <1>1
       DEF recordVars, RecordInv, RecordTypes, JustifiedInv, Justified, TrueLine, CountInv, EndIsLast,
           Harmless, EndIsKnown
<1>2. CASE RecordNext
  BY <1>2, SilentSteps, TurnGoesOn, TurnEndsInLines, SnapshotServed, LinesAreTaken, TasksRun, ProcessesEnd, StatusCallsRun
     DEF RecordNext
<1> QED
  BY <1>1, <1>2

\* What a status call tells of a turn that ended is its end, with all its messages,
\* however replies, events, hooks, snapshots, imports and other status calls
\* interleave; no end is recorded of a turn that goes on (turn_tracker.py).
THEOREM RecordsMatchTheirTurns == RecordSpec => []RecordMatchesTheTurn
<1>1. RecordInv => RecordMatchesTheTurn
  <2> SUFFICES ASSUME RecordInv PROVE RecordMatchesTheTurn
    OBVIOUS
  <2>1. /\ Justified(record.status) /\ Justified(journal.status) /\ RecordTypes
        /\ hook = "stop" /\ served.state \in Outcomes => served.state = "completed"
    BY DEF RecordInv, JustifiedInv
  <2>2. ASSUME alive, lines = <<>>, served.state \in Outcomes, "import" \notin slips
        PROVE  /\ Outcome(Told) = served.state /\ record.heard = served.said
               /\ Outcome(journal.status) = served.state
               /\ served.said > 0 => (record.final = "last" /\ journal.final = "last")
    <3>1. Len(lines) = 0 /\ DOMAIN lines = {}
      BY <2>2
    <3>2. /\ record.status \in Over /\ journal.status \in Over
          /\ served.said > 0 => record.final = "last" /\ journal.final = "last"
      BY <2>2, <3>1 DEF RecordInv, EndIsKnown
    <3>3. ASSUME NEW status \in Over, Justified(status) PROVE Outcome(status) = served.state
      BY <2>1, <2>2, <3>3 DEF Over, Outcomes, Outcome, Justified
    <3>4. Told \in {record.status, journal.status}
      BY DEF Told, RecordSays, JournalSays
    <3>5. record.heard = served.said
      BY <2>2, <3>1 DEF RecordInv, CountInv
    <3> QED
      BY <2>1, <3>2, <3>3, <3>4, <3>5
  <2> QED
    BY <2>1, <2>2 DEF RecordMatchesTheTurn, Justified
<1> QED
  BY <1>1, InitRecord, RecordStep, PTL DEF RecordSpec
=============================================================================

------------------------------ MODULE AppServer ------------------------------
(***************************************************************************)
(* One MCP process and the codex-app-server it owns: codex_app_server.py,  *)
(* pending_interactions.py and turn_tracker.py.  Tasks of an asyncio loop  *)
(* start and stop the child, send turn/start and wait for the reply; a     *)
(* reader takes the child's lines one by one; a child asks for approvals,  *)
(* which a client answers or a timer declines; the child may exit.         *)
(*                                                                         *)
(* A step is what one task does between two awaits.  A task that was woken *)
(* runs before anything that takes the loop several turns (Quiescent).     *)
(***************************************************************************)
EXTENDS Naturals, Sequences, FiniteSets

CONSTANTS
  Turns,        \* turns to be started, each by a task of its own
  Admin,        \* the task of codex_restart_app_server
  MaxSpawns,    \* bound: children started
  MaxStarting,  \* bound: tasks inside start() at a time
  MaxRestarts,  \* bound: restarts
  LateExit      \* may an exit be noticed before the reader met end of file?

ASSUME TasksAssumption == Admin \notin Turns /\ IsFiniteSet(Turns)
ASSUME BoundsAssumption ==
  {MaxSpawns, MaxStarting, MaxRestarts} \subseteq Nat /\ LateExit \in BOOLEAN

Children == 1..MaxSpawns
None == 0
Tasks == Turns \cup {Admin}

VARIABLES
  process,     \* self.process, a child or None
  generation,  \* self.process_generation
  spawned,     \* children started so far
  child,       \* each child; "noticed" when its returncode is set
  pipe,        \* its lines not read yet
  reader,      \* the child that the reader made for this child now reads
  call,        \* where each task stands
  restarts,    \* restarts so far
  host,        \* the child a turn was asked of
  server,      \* what that child made of it
  row,         \* tracked_turns.status
  rowGen,      \* tracked_turns.process_generation
  ask,         \* pending_interactions.status of the turn's question
  askGen,      \* its process_generation
  future,      \* live.future of the question
  live,        \* is it in self._live?
  resolver,    \* the task _resolve_pending_interaction
  late,        \* has expires_at passed?
  told,        \* responses sent: to which child, and what
  raced        \* history: replies a forced restart overtook

loop == <<process, generation, spawned, child, reader, call, restarts>>
turn == <<host, server, row, rowGen>>
question == <<ask, askGen, future, live, resolver, late, told>>
vars == <<loop, pipe, turn, question, raced>>

Active == {"running", "waiting"}
Terminal == {"ended", "unknown"}
Pending == {"greeting", "waiting"}       \* has a future in self._pending
Places == {"idle", "spawning", "stopping", "restarting", "woken", "over", "failed"}
            \cup Pending

Init ==
  /\ process = None /\ generation = 0 /\ spawned = 0 /\ restarts = 0
  /\ child = [c \in Children |-> "none"]
  /\ pipe = [c \in Children |-> <<>>]
  /\ reader = [c \in Children |-> None]
  /\ call = [k \in Tasks |-> "idle"]
  /\ host = [t \in Turns |-> None]
  /\ server = [t \in Turns |-> "none"]
  /\ row = [t \in Turns |-> "none"]
  /\ rowGen = [t \in Turns |-> 0]
  /\ ask = [t \in Turns |-> "none"]
  /\ askGen = [t \in Turns |-> 0]
  /\ future = [t \in Turns |-> "none"]
  /\ live = [t \in Turns |-> FALSE]
  /\ resolver = [t \in Turns |-> "none"]
  /\ late = [t \in Turns |-> FALSE]
  /\ told = [t \in Turns |-> {}]
  /\ raced = {}

Line(what, t) == [what |-> what, turn |-> t]
NeedsStart == process \in Children => child[process] = "noticed"
Spawning == {k \in Tasks : call[k] = "spawning"}

\* Tasks whose future is set run in the next turns of the loop; an exit, a
\* spawn and an end of file take more of them.
Quiescent ==
  /\ \A k \in Tasks : call[k] # "woken"
  /\ \A t \in Turns : /\ resolver[t] \notin {"new", "timed"}
                      /\ resolver[t] = "waits" => future[t] = "open"

-----------------------------------------------------------------------------
(* What the end of a child does to turns and questions.                    *)

WriteOffExact(t) == row[t] \in Active /\ rowGen[t] = generation
MayWriteOff(t) == row[t] \in Active /\ rowGen[t] \in {0, generation}

\* mark_active_turns_unknown
WriteOff ==
  row' = [t \in Turns |-> IF MayWriteOff(t) THEN "unknown" ELSE row[t]]

\* mark_pending_interactions_orphaned
OrphanRows ==
  ask' = [t \in Turns |->
           IF ask[t] = "pending" /\ askGen[t] = generation
           THEN "orphaned" ELSE ask[t]]

\* orphan_live
Orphan ==
  LET mine(t) == live[t] /\ askGen[t] = generation IN
  /\ future' = [t \in Turns |->
                 IF mine(t) /\ future[t] = "open" THEN "error" ELSE future[t]]
  /\ live' = [t \in Turns |-> live[t] /\ ~mine(t)]
  /\ OrphanRows

-----------------------------------------------------------------------------
(* start, request, stop and restart.                                       *)

\* start(): whoever finds no running process begins one; the generation
\* counts before the spawn is awaited.
EnterStart(k) ==
  /\ call[k] = IF k = Admin THEN "restarting" ELSE "idle"
  /\ NeedsStart
  /\ Cardinality(Spawning) < MaxStarting
  /\ spawned + Cardinality(Spawning) < MaxSpawns
  /\ generation' = generation + 1
  /\ call' = [call EXCEPT ![k] = "spawning"]
  /\ UNCHANGED <<process, spawned, child, reader, restarts, pipe, turn, question, raced>>

\* create_subprocess_exec returns: the child becomes the process, whatever
\* the process is by now.  initialize is sent to it.
SpawnDone(k) ==
  /\ call[k] = "spawning" /\ Quiescent
  /\ ~(call[Admin] = "stopping" /\ NeedsStart)
  /\ spawned' = spawned + 1
  /\ process' = spawned'
  /\ child' = [child EXCEPT ![spawned'] = "alive"]
  /\ reader' = [reader EXCEPT ![spawned'] = spawned']
  /\ call' = [call EXCEPT ![k] = "greeting"]
  /\ UNCHANGED <<generation, restarts, pipe, turn, question, raced>>

SpawnFails(k) ==
  /\ call[k] = "spawning"
  /\ call' = [call EXCEPT ![k] = IF k = Admin THEN "idle" ELSE "failed"]
  /\ UNCHANGED <<process, generation, spawned, child, reader, restarts, pipe,
                 turn, question, raced>>

\* The response to initialize.  A task whose child was replaced hears
\* nothing unless a reader still reads that child; here it times out.
Greeted(k) ==
  /\ call[k] = "greeting"
  /\ process # None /\ child[process] = "alive"
  /\ \E r \in Children : reader[r] = process
  /\ call' = [call EXCEPT ![k] = "idle"]
  /\ UNCHANGED <<process, generation, spawned, child, reader, restarts, pipe,
                 turn, question, raced>>

\* restart() finds a running process when another task was faster.
RestartJoins ==
  /\ call[Admin] = "restarting" /\ ~NeedsStart
  /\ call' = [call EXCEPT ![Admin] = "idle"]
  /\ UNCHANGED <<process, generation, spawned, child, reader, restarts, pipe,
                 turn, question, raced>>

\* request("turn/start"); to a child that is gone the write fails or is lost.
Send(t) ==
  /\ call[t] = "idle" /\ ~NeedsStart
  /\ host' = [host EXCEPT ![t] = process]
  /\ \/ call' = [call EXCEPT ![t] = "waiting"]
     \/ child[process] = "dead" /\ call' = [call EXCEPT ![t] = "failed"]
  /\ UNCHANGED <<process, generation, spawned, child, reader, restarts, pipe,
                 server, row, rowGen, question, raced>>

TimesOut(k) ==
  /\ call[k] \in Pending
  /\ call' = [call EXCEPT ![k] = IF k = Admin THEN "idle" ELSE "failed"]
  /\ UNCHANGED <<process, generation, spawned, child, reader, restarts, pipe,
                 turn, question, raced>>

RegisteredAnyway(t) == "running"
Registered(t) == IF row[t] \in Terminal THEN row[t] ELSE "running"

\* turn_start goes on after the reply: register_turn.
Register(t) ==
  /\ call[t] = "woken"
  /\ call' = [call EXCEPT ![t] = "over"]
  /\ row' = [row EXCEPT ![t] = Registered(t)]
  /\ rowGen' = [rowGen EXCEPT ![t] = generation]
  /\ UNCHANGED <<process, generation, spawned, child, reader, restarts, pipe,
                 host, server, question, raced>>

\* has_active_work
BusyIfRunning ==
  \/ \E k \in Tasks : call[k] \in Pending \cup {"woken"}
  \/ \E t \in Turns : row[t] = "running" \/ ask[t] = "pending"
Busy ==
  \/ \E k \in Tasks : call[k] \in Pending \cup {"woken"}
  \/ \E t \in Turns : row[t] \in Active \/ ask[t] = "pending"

\* stop() up to its first await: turns and questions are written off,
\* futures and the newest reader cancelled.  What terminates the child is
\* Exits.
Stop ==
  /\ WriteOff /\ Orphan
  /\ call' = [k \in Tasks |->
               IF k = Admin THEN "stopping"
               ELSE IF call[k] \in Pending THEN "failed" ELSE call[k]]
  /\ reader' = [r \in Children |-> IF r = spawned THEN None ELSE reader[r]]

BeginRestart ==
  /\ call[Admin] = "idle" /\ restarts < MaxRestarts
  /\ Stop
  /\ restarts' = restarts + 1
  /\ raced' = raced \cup {t \in Turns : call[t] = "woken"}
  /\ UNCHANGED <<process, generation, spawned, child, pipe, host, server, rowGen,
                 askGen, resolver, late, told>>

IdleRestart == ~Busy /\ BeginRestart
ForcedRestart == BeginRestart

\* The child has been waited for.
StoppedAtOnce == call[Admin] = "stopping" /\ Quiescent
Stopped == call[Admin] = "stopping" /\ NeedsStart /\ Quiescent

EndStop(again) ==
  /\ Stopped
  /\ process' = None
  /\ call' = [call EXCEPT ![Admin] = IF again THEN "restarting" ELSE "idle"]
  /\ UNCHANGED <<generation, spawned, child, reader, restarts, pipe, turn, question,
                 raced>>

-----------------------------------------------------------------------------
(* The child: what it executes, asks and writes; its exit.                 *)

Write(c, lines) == pipe' = [pipe EXCEPT ![c] = @ \o lines]

Accepts(t) ==
  /\ host[t] # None /\ server[t] = "none" /\ child[host[t]] = "alive"
  /\ call[t] # "idle"
  /\ server' = [server EXCEPT ![t] = "live"]
  /\ \/ Write(host[t], <<Line("reply", t), Line("started", t)>>)
     \/ Write(host[t], <<Line("started", t), Line("reply", t)>>)
  /\ UNCHANGED <<loop, host, row, rowGen, question, raced>>

Refuses(t) ==
  /\ host[t] # None /\ server[t] = "none" /\ child[host[t]] = "alive"
  /\ server' = [server EXCEPT ![t] = "over"]
  /\ Write(host[t], <<Line("error", t)>>)
  /\ UNCHANGED <<loop, host, row, rowGen, question, raced>>

Asks(t) ==
  /\ server[t] = "live" /\ child[host[t]] = "alive" /\ told[t] = {}
  /\ server' = [server EXCEPT ![t] = "asking"]
  /\ Write(host[t], <<Line("ask", t)>>)
  /\ UNCHANGED <<loop, host, row, rowGen, question, raced>>

Ends(t) ==
  /\ server[t] = "live" /\ child[host[t]] = "alive"
  /\ server' = [server EXCEPT ![t] = "over"]
  /\ Write(host[t], <<Line("ended", t)>>)
  /\ UNCHANGED <<loop, host, row, rowGen, question, raced>>

Exits(c) ==
  /\ child[c] = "alive"
  /\ child' = [child EXCEPT ![c] = "dead"]
  /\ UNCHANGED <<process, generation, spawned, reader, call, restarts, pipe, turn,
                 question, raced>>

Notice(c) ==
  /\ child[c] = "dead"
  /\ LateExit \/ \A r \in Children : reader[r] # c
  /\ child' = [child EXCEPT ![c] = "noticed"]
  /\ UNCHANGED <<process, generation, spawned, reader, call, restarts, pipe, turn,
                 question, raced>>

-----------------------------------------------------------------------------
(* The reader: _read_stdout_loop.                                          *)

\* The next read is of self.process.stdout, which may be another child's;
\* a second reader of one stream dies.
NextStream(r) ==
  IF process # None /\ \A s \in Children \ {r} : reader[s] # process
  THEN process ELSE None

\* A response to a request; a request that timed out is no longer pending.
ReadReply(line) ==
  /\ line.what \in {"reply", "error"}
  /\ call' = IF call[line.turn] # "waiting" THEN call
             ELSE [call EXCEPT ![line.turn] =
                    IF line.what = "reply" THEN "woken" ELSE "failed"]
  /\ UNCHANGED <<row, question>>

\* record_event, whatever the row says.
ReadEvent(line) ==
  /\ line.what \in {"started", "ended"}
  /\ row' = [row EXCEPT ![line.turn] =
              IF line.what = "started" THEN "running" ELSE "ended"]
  /\ UNCHANGED <<call, question>>

\* create: the row of a question and its future.
Create(t) ==
  /\ ask' = [ask EXCEPT ![t] = "pending"]
  /\ askGen' = [askGen EXCEPT ![t] = generation]
  /\ future' = [future EXCEPT ![t] = "open"]
  /\ live' = [live EXCEPT ![t] = TRUE]

\* _handle_server_request: the question is created and gets a task.
ReadAsk(line) ==
  LET t == line.turn IN
  /\ line.what = "ask"
  /\ row' = [row EXCEPT ![t] = "waiting"]
  /\ Create(t)
  /\ resolver' = [resolver EXCEPT ![t] = "new"]
  /\ UNCHANGED <<call, late, told>>

ReadLine(r) ==
  /\ reader[r] # None /\ pipe[reader[r]] # <<>>
  /\ LET line == Head(pipe[reader[r]]) IN
       ReadReply(line) \/ ReadEvent(line) \/ ReadAsk(line)
  /\ pipe' = [pipe EXCEPT ![reader[r]] = Tail(@)]
  /\ reader' = [reader EXCEPT ![r] = NextStream(r)]
  /\ UNCHANGED <<process, generation, spawned, child, restarts, host, server, rowGen,
                 raced>>

\* End of file: turns and questions of the generation of the moment are
\* written off and every pending request fails.
ReadEnd(r) ==
  /\ reader[r] # None /\ pipe[reader[r]] = <<>>
  /\ child[reader[r]] \in {"dead", "noticed"} /\ Quiescent
  /\ WriteOff /\ Orphan
  /\ call' = [k \in Tasks |->
               IF call[k] \notin Pending THEN call[k]
               ELSE IF k = Admin THEN "idle" ELSE "failed"]
  /\ reader' = [reader EXCEPT ![r] = None]
  /\ UNCHANGED <<process, generation, spawned, child, restarts, pipe, host, server,
                 rowGen, askGen, resolver, late, told, raced>>

-----------------------------------------------------------------------------
(* Questions: PendingInteractionManager and _resolve_pending_interaction.   *)

\* wait_for_response looks the question up; the end of the child may have
\* removed it first.
ResolverBegins(t) ==
  /\ resolver[t] = "new"
  /\ IF live[t]
     THEN resolver' = [resolver EXCEPT ![t] = "waits"] /\ UNCHANGED ask
     ELSE /\ resolver' = [resolver EXCEPT ![t] = "done"]
          /\ ask' = [ask EXCEPT ![t] = "failed"]
  /\ UNCHANGED <<loop, pipe, turn, askGen, future, live, late, told, raced>>

Expires(t) ==
  /\ resolver[t] \in {"new", "waits"} /\ ~late[t]
  /\ late' = [late EXCEPT ![t] = TRUE]
  /\ UNCHANGED <<loop, pipe, turn, ask, askGen, future, live, resolver, told, raced>>

\* codex_answer_pending_interaction
MayAnswerLate(t) ==
  /\ ask[t] = "pending"
  /\ askGen[t] = generation /\ live[t] /\ future[t] = "open"
MayAnswer(t) ==
  /\ ask[t] = "pending" /\ ~late[t]
  /\ askGen[t] = generation /\ live[t] /\ future[t] = "open"

Answer(t) ==
  /\ MayAnswer(t)
  /\ resolver[t] # "new"   \* nobody knows the question's id before
  /\ ask' = [ask EXCEPT ![t] = "answered"]
  /\ future' = [future EXCEPT ![t] = "answer"]
  /\ UNCHANGED <<loop, pipe, turn, askGen, live, resolver, late, told, raced>>

\* An answer after the time, or the repair expire_stale_pending_interactions.
AnswerTooLate(t) ==
  /\ ask[t] = "pending" /\ late[t]
  /\ ask' = [ask EXCEPT ![t] = "expired"]
  /\ UNCHANGED <<loop, pipe, turn, askGen, future, live, resolver, late, told, raced>>

\* The timer of wait_for wakes the resolver.
Timer(t) ==
  /\ resolver[t] = "waits" /\ future[t] = "open" /\ late[t]
  /\ resolver' = [resolver EXCEPT ![t] = "timed"]
  /\ UNCHANGED <<loop, pipe, turn, ask, askGen, future, live, late, told, raced>>

\* respond_success to the process of the moment, mark_interaction_resolved;
\* status is what the row gets if the response could be written.
Respond(t, what, status) ==
  LET resumed == [row EXCEPT ![t] = IF @ = "waiting" THEN "running" ELSE @] IN
  \/ /\ process # None
     /\ ask' = [ask EXCEPT ![t] = status] /\ row' = resumed
     /\ IF child[process] = "alive"
        THEN /\ told' = [told EXCEPT ![t] = @ \cup {<<process, what>>}]
             /\ server' = [server EXCEPT ![t] =
                            IF process = host[t] /\ @ = "asking" THEN "live" ELSE @]
        ELSE UNCHANGED <<told, server>>
  \/ /\ ~(process \in Children /\ child[process] = "alive")
     /\ ask' = [ask EXCEPT ![t] = "failed"]
     /\ UNCHANGED <<row, told, server>>

DeclinesIfPending(t) == resolver[t] = "timed" /\ ask[t] = "pending"
Declines(t) == resolver[t] = "timed"

AutoDecline(t) ==
  /\ Declines(t)
  /\ Respond(t, "default", "auto_declined")
  /\ future' = [future EXCEPT ![t] = IF @ = "open" THEN "answer" ELSE @]
  /\ live' = [live EXCEPT ![t] = FALSE]
  /\ resolver' = [resolver EXCEPT ![t] = "done"]
  /\ UNCHANGED <<loop, pipe, host, rowGen, askGen, late, raced>>

PassOn(t) ==
  /\ resolver[t] = "waits" /\ future[t] = "answer"
  /\ Respond(t, "answer", ask[t])
  /\ live' = [live EXCEPT ![t] = FALSE]
  /\ resolver' = [resolver EXCEPT ![t] = "done"]
  /\ UNCHANGED <<loop, pipe, host, rowGen, askGen, future, late, raced>>

\* The future carries the exception of orphan_live.
GiveUp(t) ==
  /\ resolver[t] = "waits" /\ future[t] = "error"
  /\ ask' = [ask EXCEPT ![t] = "failed"]
  /\ live' = [live EXCEPT ![t] = FALSE]
  /\ resolver' = [resolver EXCEPT ![t] = "done"]
  /\ UNCHANGED <<loop, pipe, turn, askGen, future, late, told, raced>>

-----------------------------------------------------------------------------
Task(k) == EnterStart(k) \/ SpawnDone(k) \/ SpawnFails(k) \/ Greeted(k) \/ TimesOut(k)
Caller(t) == Send(t) \/ Register(t)
Restart ==
  IdleRestart \/ ForcedRestart \/ RestartJoins \/ \E again \in BOOLEAN : EndStop(again)
Server(t) == Accepts(t) \/ Refuses(t) \/ Asks(t) \/ Ends(t)
Reader(r) == ReadLine(r) \/ ReadEnd(r)
Resolver(t) ==
  ResolverBegins(t) \/ Timer(t) \/ AutoDecline(t) \/ PassOn(t) \/ GiveUp(t)

Next ==
  \/ \E k \in Tasks : Task(k)
  \/ Restart
  \/ \E t \in Turns : \/ Caller(t) \/ Server(t) \/ Resolver(t)
                      \/ Expires(t) \/ Answer(t) \/ AnswerTooLate(t)
  \/ \E c \in Children : Exits(c) \/ Notice(c) \/ Reader(c)

Spec == Init /\ [][Next]_vars

\* Tasks run, timers fire, a child that is told to terminate does or is
\* killed.
Fairness ==
  /\ \A t \in Turns : WF_vars(Resolver(t)) /\ WF_vars(Expires(t)) /\ WF_vars(Register(t))
  /\ \A c \in Children : /\ WF_vars(Reader(c)) /\ WF_vars(Notice(c))
                         /\ WF_vars(call[Admin] = "stopping" /\ process = c /\ Exits(c))

FairSpec == Spec /\ Fairness

-----------------------------------------------------------------------------
TypeOK ==
  /\ process \in 0..MaxSpawns /\ generation \in Nat /\ spawned \in 0..MaxSpawns
  /\ restarts \in 0..MaxRestarts
  /\ child \in [Children -> {"none", "alive", "dead", "noticed"}]
  /\ pipe \in [Children -> Seq([what : {"reply", "error", "started", "ended", "ask"},
                                turn : Turns])]
  /\ reader \in [Children -> 0..MaxSpawns]
  /\ call \in [Tasks -> Places]
  /\ host \in [Turns -> 0..MaxSpawns]
  /\ server \in [Turns -> {"none", "live", "asking", "over"}]
  /\ row \in [Turns -> {"none"} \cup Active \cup Terminal]
  /\ rowGen \in [Turns -> Nat] /\ askGen \in [Turns -> Nat]
  /\ ask \in [Turns -> {"none", "pending", "answered", "auto_declined", "expired",
                        "failed", "orphaned"}]
  /\ future \in [Turns -> {"none", "open", "answer", "error"}]
  /\ live \in [Turns -> BOOLEAN] /\ late \in [Turns -> BOOLEAN]
  /\ resolver \in [Turns -> {"none", "new", "waits", "timed", "done"}]
  /\ told \in [Turns -> SUBSET (Children \X {"answer", "default"})]
  /\ raced \in SUBSET Turns

(* A turn that ended or was written off is never active again, though      *)
(* replies, events and questions about it arrive in any order relative to  *)
(* the task that waits for them.                                           *)
EndedTurnsStayEnded ==
  [][\A t \in Turns : row[t] \in Terminal => row'[t] \in Terminal]_vars

(* The database follows the servers: an active turn has a server that      *)
(* runs, or whose end is yet to be read; only a turn whose server is gone  *)
(* or going is written off.  Turns whose reply a forced restart overtook   *)
(* are registered afterwards and stay active.                              *)
TurnsFollowTheirServers ==
  \A t \in Turns :
    /\ row[t] \in Active =>
         \/ child[host[t]] = "alive"
         \/ \E r \in Children : reader[r] = host[t]
         \/ t \in raced
    /\ row[t] = "unknown" /\ child[host[t]] = "alive" =>
         call[Admin] = "stopping" /\ process = host[t]

(* What a client was told it answered is what the server that asked hears, *)
(* unless that server is gone; a default goes out only where no answer was *)
(* accepted.                                                               *)
AnswersReachTheirAsker ==
  [][\A t \in Turns :
       /\ ask[t] = "answered" =>
            ask'[t] = "answered" \/ (ask'[t] = "failed" /\ child[host[t]] # "alive")
       /\ told'[t] \subseteq told[t] \cup
            {<<host[t], IF ask[t] = "answered" THEN "answer" ELSE "default">>}]_vars

(* An idle restart never stops a living server on which a turn runs that   *)
(* some task was told had started.                                         *)
IdleRestartSparesWork ==
  [][IdleRestart =>
       \A t \in Turns :
         call[t] = "over" /\ server[t] # "over" /\ child[host[t]] = "alive" =>
           host[t] # process]_vars

(* A server that asked is answered by somebody, the timer at the latest,   *)
(* or exits.                                                               *)
QuestionsAreAnswered ==
  \A t \in Turns : []<>(server[t] = "asking" => child[host[t]] # "alive")

(* There is at most one app-server, the one that restart and close stop.   *)
NoStrayServer ==
  \A c \in Children : child[c] = "alive" => c = process

=============================================================================

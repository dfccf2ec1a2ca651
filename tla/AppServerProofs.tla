--------------------------- MODULE AppServerProofs ---------------------------
(***************************************************************************)
(* Theorems about AppServer, for every set of turns and any number of      *)
(* children and restarts, where one task starts a child at a time and an   *)
(* exit is noticed after the end of the output was read.                   *)
(***************************************************************************)
EXTENDS AppServer, TLAPS, SequenceTheorems, FiniteSetTheorems

\* One task starts a child at a time, and the exit of a child is noticed after
\* the end of its output was read.
Orderly == MaxStarting = 1 /\ LateExit = FALSE

\* The reader of c still reads c.
Heard(c) == c \in Children /\ reader[c] = c

\* The process is the newest child; every other one is gone and read to its end.
ChildInv ==
  /\ spawned \in 0..MaxSpawns /\ process \in {None, spawned}
  /\ \A c \in Children : child[c] = "none" <=> c > spawned
  /\ \A c \in Children \ {process} : child[c] \in {"none", "noticed"}
  /\ \A r \in Children : reader[r] # None =>
       reader[r] = r /\ r = process /\ child[r] \in {"alive", "dead"}
  /\ \A k \in Tasks : call[k] = "spawning" => NeedsStart /\ spawned < MaxSpawns
  /\ \A j, k \in Tasks : call[j] = "spawning" /\ call[k] = "spawning" => j = k

\* What the row of a turn knows of the child the turn was asked of.
TurnFacts(t) ==
  /\ call[t] \in {"idle", "spawning", "greeting"} => host[t] = None
  /\ call[t] \in {"waiting", "woken", "over"} => host[t] # None
  /\ host[t] = None => server[t] = "none" /\ row[t] = "none" /\ resolver[t] = "none"
  /\ host[t] # None => host[t] \in Children /\ child[host[t]] # "none"
  /\ call[t] = "over" => row[t] # "none"
  /\ row[t] = "none" => rowGen[t] = 0
  /\ call[t] = "woken" => Heard(host[t]) \/ t \in raced
  /\ row[t] \in Active /\ t \notin raced => Heard(host[t]) /\ rowGen[t] \in {0, generation}
  /\ row[t] = "unknown" =>
       /\ ~Heard(host[t])
       /\ child[host[t]] = "alive" => call[Admin] = "stopping" /\ process = host[t]
  /\ row[t] = "ended" => server[t] = "over"

\* The life of a question.
QuestionFacts(t) ==
  /\ resolver[t] = "none" => ask[t] = "none" /\ future[t] = "none"
  /\ resolver[t] # "none" => server[t] = "asking" \/ told[t] # {}
  /\ resolver[t] \in {"new", "waits", "timed"} => process = host[t]
  /\ resolver[t] = "new" => future[t] # "answer"
  /\ resolver[t] = "waits" /\ future[t] = "answer" => ask[t] = "answered"
  /\ resolver[t] = "timed" => late[t] /\ future[t] # "answer"
  /\ resolver[t] = "done" => ~live[t]
  /\ future[t] = "open" => live[t] /\ askGen[t] = generation /\ Heard(host[t])
  /\ ask[t] = "answered" => future[t] = "answer"

\* The lines on their way: each is of the child that wrote it; the end of a
\* turn is its last line, and a turn asks once.
LineIsTrue(c, line) ==
  /\ host[line.turn] = c
  /\ row[line.turn] # "ended"
  /\ line.what = "ended" => server[line.turn] = "over"
  /\ line.what = "ask" => server[line.turn] = "asking" /\ resolver[line.turn] = "none"

\* ... and their order.
LineFacts(c) ==
  /\ \A i \in 1..Len(pipe[c]) : LineIsTrue(c, pipe[c][i])
  /\ \A i, j \in 1..Len(pipe[c]) :
       i < j /\ pipe[c][i].turn = pipe[c][j].turn =>
         /\ pipe[c][i].what # "ended"
         /\ pipe[c][i].what = "ask" => pipe[c][j].what # "ask"

\* The invariant of the app-server client.
ServerInv ==
  /\ TypeOK /\ ChildInv
  /\ \A t \in Turns : TurnFacts(t) /\ QuestionFacts(t)
  /\ \A c \in Children : LineFacts(c)

-----------------------------------------------------------------------------
(* Types.                                                                  *)

\* The lines a child writes.
LineRow == [what : {"reply", "error", "started", "ended", "ask"}, turn : Turns]

\* Writing lines keeps the pipes.
LEMMA WriteTypes ==
  ASSUME TypeOK, NEW c \in Children, NEW lines \in Seq(LineRow), Write(c, lines)
  PROVE  pipe' \in [Children -> Seq(LineRow)]
<1>1. pipe \in [Children -> Seq(LineRow)]
  BY DEF TypeOK, LineRow
<1>2. pipe[c] \o lines \in Seq(LineRow)
  BY <1>1, ConcatProperties
<1> QED
  BY <1>1, <1>2 DEF Write

\* The rows of children, of turns and of questions.
LoopTypes ==
  /\ process \in 0..MaxSpawns /\ generation \in Nat /\ spawned \in 0..MaxSpawns
  /\ restarts \in 0..MaxRestarts
  /\ child \in [Children -> {"none", "alive", "dead", "noticed"}]
  /\ reader \in [Children -> 0..MaxSpawns]
  /\ call \in [Tasks -> Places]
TurnTypes ==
  /\ host \in [Turns -> 0..MaxSpawns]
  /\ server \in [Turns -> {"none", "live", "asking", "over"}]
  /\ row \in [Turns -> {"none"} \cup Active \cup Terminal]
  /\ rowGen \in [Turns -> Nat]
AskTypes ==
  /\ askGen \in [Turns -> Nat]
  /\ ask \in [Turns -> {"none", "pending", "answered", "auto_declined", "expired",
                        "failed", "orphaned"}]
  /\ future \in [Turns -> {"none", "open", "answer", "error"}]
  /\ live \in [Turns -> BOOLEAN] /\ late \in [Turns -> BOOLEAN]
  /\ resolver \in [Turns -> {"none", "new", "waits", "timed", "done"}]
  /\ told \in [Turns -> SUBSET (Children \X {"answer", "default"})]

\* The type invariant, in parts.
LEMMA TypeParts ==
  /\ TypeOK => /\ LoopTypes /\ TurnTypes /\ AskTypes
               /\ pipe \in [Children -> Seq(LineRow)] /\ raced \in SUBSET Turns
  /\ /\ LoopTypes' /\ TurnTypes' /\ AskTypes'
     /\ pipe' \in [Children -> Seq(LineRow)] /\ raced' \in SUBSET Turns
     => TypeOK'
  BY DEF TypeOK, LoopTypes, TurnTypes, AskTypes, LineRow

\* Writing off and orphaning keep the types.
LEMMA WriteOffTypes ==
  ASSUME TurnTypes, WriteOff, UNCHANGED <<host, server, rowGen>>
  PROVE  TurnTypes'
  BY DEF TurnTypes, WriteOff, Terminal

\* So does orphaning questions.
LEMMA OrphanTypes ==
  ASSUME AskTypes, Orphan, UNCHANGED <<askGen, resolver, late, told>>
  PROVE  AskTypes'
<1>1. ask' \in [Turns -> {"none", "pending", "answered", "auto_declined", "expired",
                        "failed", "orphaned"}]
  BY DEF AskTypes, Orphan, OrphanRows
<1>2. future' \in [Turns -> {"none", "open", "answer", "error"}]
  BY DEF AskTypes, Orphan
<1>3. live' \in [Turns -> BOOLEAN]
  BY DEF AskTypes, Orphan
<1> QED
  BY <1>1, <1>2, <1>3 DEF AskTypes

\* Steps of the tasks that start a child or send a request.
LEMMA TaskTypes ==
  ASSUME TypeOK, ChildInv, NEW k \in Tasks, Task(k)
  PROVE  TypeOK'
<1> USE TypeParts, BoundsAssumption
<1>1. CASE EnterStart(k)
  <2>1. call' = [call EXCEPT ![k] = "spawning"] /\ generation' = generation + 1
    BY <1>1 DEF EnterStart
  <2>2. LoopTypes'
    BY <1>1, <2>1 DEF EnterStart, LoopTypes, Places
  <2> QED
    BY <1>1, <2>2 DEF EnterStart, TurnTypes, AskTypes, turn, question
<1>2. CASE SpawnDone(k)
  <2>1. spawned' \in Children
    BY <1>2 DEF SpawnDone, ChildInv, Children, LoopTypes
  <2>2. LoopTypes'
    BY <1>2, <2>1 DEF SpawnDone, LoopTypes, Children, Places, Pending
  <2> QED
    BY <1>2, <2>2 DEF SpawnDone, TurnTypes, AskTypes, turn, question
<1>3. CASE SpawnFails(k) \/ Greeted(k) \/ TimesOut(k)
  <2>1. \E p \in {"idle", "failed"} : call' = [call EXCEPT ![k] = p]
    BY <1>3 DEF SpawnFails, Greeted, TimesOut
  <2>2. /\ UNCHANGED <<process, generation, spawned, child, reader, restarts>>
        /\ UNCHANGED <<pipe, turn, question, raced>>
    BY <1>3 DEF SpawnFails, Greeted, TimesOut
  <2>3. LoopTypes'
    BY <2>1, <2>2 DEF LoopTypes, Places
  <2> QED
    BY <2>2, <2>3 DEF TurnTypes, AskTypes, turn, question
<1> QED
  BY <1>1, <1>2, <1>3 DEF Task

\* Steps of a caller.
LEMMA CallerTypes ==
  ASSUME TypeOK, NEW t \in Turns, Caller(t)
  PROVE  TypeOK'
<1> USE TypeParts DEF Tasks
<1>1. CASE Send(t)
  <2>1. \E p \in {"waiting", "failed"} : call' = [call EXCEPT ![t] = p]
    BY <1>1 DEF Send
  <2>2. LoopTypes' /\ TurnTypes'
    BY <1>1, <2>1 DEF Send, LoopTypes, TurnTypes, Places, Pending
  <2> QED
    BY <1>1, <2>2 DEF Send, AskTypes, question
<1>2. CASE Register(t)
  <2>1. Registered(t) \in {"none"} \cup Active \cup Terminal
    BY DEF Registered, TurnTypes, Active
  <2>2. LoopTypes' /\ TurnTypes'
    BY <1>2, <2>1 DEF Register, LoopTypes, TurnTypes, Places
  <2> QED
    BY <1>2, <2>2 DEF Register, AskTypes, question
<1> QED
  BY <1>1, <1>2 DEF Caller

\* Restarts.
LEMMA RestartTypes ==
  ASSUME TypeOK, Restart
  PROVE  TypeOK'
<1> USE TypeParts DEF Tasks
<1>1. CASE BeginRestart
  <2>1. /\ WriteOff /\ Orphan
        /\ UNCHANGED <<process, generation, spawned, child, pipe, host, server, rowGen>>
        /\ UNCHANGED <<askGen, resolver, late, told>>
        /\ raced' = raced \cup {t \in Turns : call[t] = "woken"}
    BY <1>1 DEF BeginRestart, Stop
  <2>2. TurnTypes' /\ AskTypes'
    BY <2>1, WriteOffTypes, OrphanTypes
  <2>3. restarts' \in 0..MaxRestarts
    BY <1>1, BoundsAssumption DEF BeginRestart, LoopTypes
  <2>4. call' \in [Tasks -> Places]
    BY <1>1 DEF BeginRestart, Stop, LoopTypes, Places
  <2>5. reader' \in [Children -> 0..MaxSpawns]
    BY <1>1, BoundsAssumption DEF BeginRestart, Stop, LoopTypes, None
  <2> QED
    BY <2>1, <2>2, <2>3, <2>4, <2>5 DEF LoopTypes
<1>2. CASE RestartJoins
  <2>1. call' = [call EXCEPT ![Admin] = "idle"]
    BY <1>2 DEF RestartJoins
  <2>2. LoopTypes'
    BY <1>2, <2>1 DEF RestartJoins, LoopTypes, Places
  <2> QED
    BY <1>2, <2>2 DEF RestartJoins, TurnTypes, AskTypes, turn, question
<1>3. ASSUME NEW again \in BOOLEAN, EndStop(again) PROVE TypeOK'
  <2>1. \E p \in {"restarting", "idle"} : call' = [call EXCEPT ![Admin] = p]
    BY <1>3 DEF EndStop
  <2>2. LoopTypes'
    BY <1>3, <2>1, BoundsAssumption DEF EndStop, LoopTypes, Places, None
  <2> QED
    BY <1>3, <2>2 DEF EndStop, TurnTypes, AskTypes, turn, question
<1> QED
  BY <1>1, <1>2, <1>3 DEF Restart, IdleRestart, ForcedRestart

\* Steps of a child.
LEMMA ServerTypes ==
  ASSUME TypeOK, NEW t \in Turns, TurnFacts(t), Server(t)
  PROVE  TypeOK'
<1> USE TypeParts
<1>1. host[t] # None => host[t] \in Children
  BY DEF TurnTypes, Children, None
<1>2. \A what \in {"reply", "error", "started", "ended", "ask"} : Line(what, t) \in LineRow
  BY DEF Line, LineRow
<1>3. ASSUME NEW s \in {"live", "asking", "over"}, server' = [server EXCEPT ![t] = s],
             UNCHANGED <<loop, host, row, rowGen, question, raced>>,
             NEW lines \in Seq(LineRow), Write(host[t], lines), host[t] \in Children
      PROVE  TypeOK'
  BY <1>3, WriteTypes DEF TurnTypes, LoopTypes, AskTypes, loop, question
<1>4. CASE Accepts(t)
  <2>1. /\ <<Line("reply", t), Line("started", t)>> \in Seq(LineRow)
        /\ <<Line("started", t), Line("reply", t)>> \in Seq(LineRow)
    BY <1>2
  <2> QED
    BY <1>1, <1>3, <1>4, <2>1 DEF Accepts
<1>5. CASE Refuses(t) \/ Asks(t) \/ Ends(t)
  <2>1. \A what \in {"error", "ask", "ended"} : <<Line(what, t)>> \in Seq(LineRow)
    BY <1>2
  <2>2. CASE Refuses(t)
    BY <1>1, <1>3, <2>1, <2>2 DEF Refuses
  <2>3. CASE Asks(t)
    <3>1. host[t] # None
      BY <2>3 DEF Asks, TurnFacts
    <3> QED
      BY <1>1, <1>3, <2>1, <2>3, <3>1 DEF Asks
  <2>4. CASE Ends(t)
    <3>1. host[t] # None
      BY <2>4 DEF Ends, TurnFacts
    <3> QED
      BY <1>1, <1>3, <2>1, <2>4, <3>1 DEF Ends
  <2> QED
    BY <1>5, <2>2, <2>3, <2>4
<1> QED
  BY <1>4, <1>5 DEF Server

\* The exit of a child and what is read of it.
LEMMA ChildTypes ==
  ASSUME TypeOK, NEW c \in Children, Exits(c) \/ Notice(c) \/ Reader(c)
  PROVE  TypeOK'
<1> USE TypeParts
<1>1. CASE Exits(c) \/ Notice(c)
  <2>1. \E s \in {"dead", "noticed"} : child' = [child EXCEPT ![c] = s]
    BY <1>1 DEF Exits, Notice
  <2>2. /\ UNCHANGED <<process, generation, spawned, reader, call, restarts>>
        /\ UNCHANGED <<pipe, turn, question, raced>>
    BY <1>1 DEF Exits, Notice
  <2>3. LoopTypes'
    BY <2>1, <2>2 DEF LoopTypes
  <2> QED
    BY <2>2, <2>3 DEF TurnTypes, AskTypes, turn, question
<1>2. CASE ReadLine(c)
  <2> DEFINE r == reader[c]
             line == Head(pipe[r])
  <2>1. r \in Children /\ pipe[r] # <<>> /\ pipe[r] \in Seq(LineRow)
    BY <1>2 DEF ReadLine, LoopTypes, Children, None
  <2>2. line \in LineRow /\ Tail(pipe[r]) \in Seq(LineRow)
    BY <2>1, HeadTailProperties
  <2>3. line.turn \in Turns
    BY <2>2 DEF LineRow
  <2>4. /\ ReadReply(line) \/ ReadEvent(line) \/ ReadAsk(line)
        /\ pipe' = [pipe EXCEPT ![r] = Tail(@)]
        /\ reader' = [reader EXCEPT ![c] = NextStream(c)]
        /\ UNCHANGED <<process, generation, spawned, child, restarts, host, server,
                       rowGen, raced>>
    BY <1>2 DEF ReadLine
  <2>5. pipe' \in [Children -> Seq(LineRow)]
    BY <2>1, <2>2, <2>4
  <2>6. reader' \in [Children -> 0..MaxSpawns]
    <3>1. NextStream(c) \in 0..MaxSpawns
      BY BoundsAssumption DEF NextStream, LoopTypes, None
    <3> QED
      BY <2>4, <3>1 DEF LoopTypes
  <2> HIDE DEF line, r
  <2>7. call' \in [Tasks -> Places] /\ TurnTypes' /\ AskTypes'
    <3>1. CASE ReadReply(line)
      <4>1. call' = call \/ \E p \in {"woken", "failed"} : call' = [call EXCEPT ![line.turn] = p]
        BY <3>1 DEF ReadReply
      <4>2. call' \in [Tasks -> Places]
        BY <4>1 DEF LoopTypes, Places
      <4> QED
        BY <2>4, <3>1, <4>2 DEF ReadReply, TurnTypes, AskTypes, question
    <3>2. CASE ReadEvent(line)
      <4>1. \E s \in {"running", "ended"} : row' = [row EXCEPT ![line.turn] = s]
        BY <3>2 DEF ReadEvent
      <4>2. TurnTypes'
        BY <2>4, <4>1 DEF TurnTypes, Active, Terminal
      <4> QED
        BY <3>2, <4>2 DEF ReadEvent, AskTypes, question, LoopTypes
    <3>3. CASE ReadAsk(line)
      <4>1. TurnTypes'
        BY <2>4, <3>3 DEF ReadAsk, TurnTypes, Active
      <4>2. AskTypes'
        BY <2>3, <3>3 DEF ReadAsk, Create, AskTypes, LoopTypes
      <4> QED
        BY <3>3, <4>1, <4>2 DEF ReadAsk, LoopTypes
    <3> QED
      BY <2>4, <3>1, <3>2, <3>3
  <2> QED
    BY <2>4, <2>5, <2>6, <2>7 DEF LoopTypes
<1>3. CASE ReadEnd(c)
  <2>1. TurnTypes' /\ AskTypes'
    BY <1>3, WriteOffTypes, OrphanTypes DEF ReadEnd
  <2>2. call' \in [Tasks -> Places] /\ reader' \in [Children -> 0..MaxSpawns]
    BY <1>3, BoundsAssumption DEF ReadEnd, LoopTypes, Places, None
  <2> QED
    BY <1>3, <2>1, <2>2 DEF ReadEnd, LoopTypes
<1> QED
  BY <1>1, <1>2, <1>3 DEF Reader

\* Steps of a question.
LEMMA QuestionTypes ==
  ASSUME TypeOK, NEW t \in Turns, Resolver(t) \/ Expires(t) \/ Answer(t) \/ AnswerTooLate(t)
  PROVE  TypeOK'
<1> USE TypeParts
<1>1. CASE ResolverBegins(t)
  <2>1. ask' = ask \/ ask' = [ask EXCEPT ![t] = "failed"]
    BY <1>1 DEF ResolverBegins
  <2>2. \E s \in {"waits", "done"} : resolver' = [resolver EXCEPT ![t] = s]
    BY <1>1 DEF ResolverBegins
  <2>3. UNCHANGED <<loop, pipe, turn, askGen, future, live, late, told, raced>>
    BY <1>1 DEF ResolverBegins
  <2>4. ask' \in [Turns -> {"none", "pending", "answered", "auto_declined", "expired",
                            "failed", "orphaned"}]
    BY <2>1 DEF AskTypes
  <2>5. resolver' \in [Turns -> {"none", "new", "waits", "timed", "done"}]
    BY <2>2 DEF AskTypes
  <2>6. AskTypes'
    BY <2>3, <2>4, <2>5 DEF AskTypes
  <2>7. LoopTypes' /\ TurnTypes'
    BY <2>3 DEF LoopTypes, TurnTypes, loop, turn
  <2> QED
    BY <2>3, <2>6, <2>7
<1>2. CASE Timer(t) \/ GiveUp(t)
  <2>1. CASE Timer(t)
    BY <2>1 DEF Timer, LoopTypes, TurnTypes, AskTypes, loop, turn
  <2>2. CASE GiveUp(t)
    <3>1. AskTypes'
      BY <2>2 DEF GiveUp, AskTypes
    <3> QED
      BY <2>2, <3>1 DEF GiveUp, LoopTypes, TurnTypes, loop, turn
  <2> QED
    BY <1>2, <2>1, <2>2
<1>3. CASE Expires(t) \/ Answer(t) \/ AnswerTooLate(t)
  <2>1. CASE Expires(t)
    BY <2>1 DEF Expires, LoopTypes, TurnTypes, AskTypes, loop, turn
  <2>2. CASE Answer(t)
    BY <2>2 DEF Answer, LoopTypes, TurnTypes, AskTypes, loop, turn
  <2>3. CASE AnswerTooLate(t)
    BY <2>3 DEF AnswerTooLate, LoopTypes, TurnTypes, AskTypes, loop, turn
  <2> QED
    BY <1>3, <2>1, <2>2, <2>3
<1>4. ASSUME NEW what \in {"answer", "default"},
             NEW s \in {"pending", "answered", "auto_declined", "expired", "failed", "orphaned", "none"},
             Respond(t, what, s)
      PROVE  /\ row' \in [Turns -> {"none"} \cup Active \cup Terminal]
             /\ ask' \in [Turns -> {"none", "pending", "answered", "auto_declined", "expired",
                                    "failed", "orphaned"}]
             /\ told' \in [Turns -> SUBSET (Children \X {"answer", "default"})]
             /\ server' \in [Turns -> {"none", "live", "asking", "over"}]
  <2>1. row' = row \/ row' = [row EXCEPT ![t] = IF @ = "waiting" THEN "running" ELSE @]
    BY <1>4 DEF Respond
  <2>2. \E x \in {s, "failed"} : ask' = [ask EXCEPT ![t] = x]
    BY <1>4 DEF Respond
  <2>3. \/ told' = told
        \/ process # None /\ told' = [told EXCEPT ![t] = @ \cup {<<process, what>>}]
    BY <1>4 DEF Respond
  <2>4. \/ server' = server
        \/ server' = [server EXCEPT ![t] =
                       IF process = host[t] /\ @ = "asking" THEN "live" ELSE @]
    BY <1>4 DEF Respond
  <2>5. process # None => process \in Children
    BY DEF LoopTypes, Children, None
  <2>6. row' \in [Turns -> {"none"} \cup Active \cup Terminal]
    BY <2>1 DEF TurnTypes, Active
  <2>7. ask' \in [Turns -> {"none", "pending", "answered", "auto_declined", "expired",
                            "failed", "orphaned"}]
    BY <2>2 DEF AskTypes
  <2>8. told' \in [Turns -> SUBSET (Children \X {"answer", "default"})]
    <3>1. CASE told' = told
      BY <3>1 DEF AskTypes
    <3>2. CASE process # None /\ told' = [told EXCEPT ![t] = @ \cup {<<process, what>>}]
      <4>1. <<process, what>> \in Children \X {"answer", "default"}
        BY <2>5, <3>2
      <4> QED
        BY <3>2, <4>1 DEF AskTypes
    <3> QED
      BY <2>3, <3>1, <3>2
  <2>9. server' \in [Turns -> {"none", "live", "asking", "over"}]
    BY <2>4 DEF TurnTypes
  <2> QED
    BY <2>6, <2>7, <2>8, <2>9
<1>5. CASE AutoDecline(t)
  BY <1>4, <1>5 DEF AutoDecline, LoopTypes, TurnTypes, AskTypes, loop
<1>6. CASE PassOn(t)
  <2>1. ask[t] \in {"pending", "answered", "auto_declined", "expired", "failed", "orphaned", "none"}
    BY DEF AskTypes
  <2> QED
    BY <1>4, <1>6, <2>1 DEF PassOn, LoopTypes, TurnTypes, AskTypes, loop
<1> QED
  BY <1>1, <1>2, <1>3, <1>5, <1>6 DEF Resolver

\* Every step keeps the types.
LEMMA NextTypes ==
  ASSUME ServerInv, [Next]_vars
  PROVE  TypeOK'
<1>1. CASE UNCHANGED vars
  BY <1>1 DEF vars, loop, turn, question, ServerInv, TypeOK
<1> QED
  BY <1>1, TaskTypes, CallerTypes, RestartTypes, ServerTypes, ChildTypes, QuestionTypes
  DEF Next, ServerInv


-----------------------------------------------------------------------------
(* Children.                                                               *)

\* Steps that start, stop and read no child.
LEMMA ChildFrame ==
  ASSUME ChildInv, UNCHANGED <<process, spawned, child, reader>>,
         \A k \in Tasks : call'[k] = "spawning" => call[k] = "spawning"
  PROVE  ChildInv'
  BY DEF ChildInv, NeedsStart

\* Only the process can be alive or be read.
LEMMA OneChild ==
  ASSUME ServerInv
  PROVE  /\ \A c \in Children : child[c] = "alive" => c = process
         /\ \A c \in Children : Heard(c) => c = process /\ child[c] \in {"alive", "dead"}
         /\ \A r \in Children : reader[r] # None => Heard(r) /\ reader[r] = r
         /\ NeedsStart => \A c \in Children : child[c] # "alive" /\ ~Heard(c)
  BY DEF ServerInv, ChildInv, Heard, NeedsStart, Children, None

\* A task that begins to start a child is the only one.
LEMMA SpawningAlone ==
  ASSUME Orderly, TypeOK, NEW k \in Tasks, EnterStart(k)
  PROVE  (\A j \in Tasks : call[j] # "spawning") /\ spawned < MaxSpawns
<1>1. IsFiniteSet(Tasks)
  BY TasksAssumption, FS_AddElement DEF Tasks
<1>2. Spawning \subseteq Tasks /\ IsFiniteSet(Spawning)
  BY <1>1, FS_Subset DEF Spawning
<1>3. Cardinality(Spawning) < 1 /\ spawned + Cardinality(Spawning) < MaxSpawns
  BY DEF EnterStart, Orderly
<1>4. Cardinality(Spawning) = 0
  BY <1>2, <1>3, FS_CardinalityType
<1>5. Spawning = {}
  BY <1>2, <1>4, FS_EmptySet
<1> QED
  BY <1>3, <1>4, <1>5, BoundsAssumption DEF Spawning, TypeOK

\* Every step keeps the facts about children.
LEMMA NextChild ==
  ASSUME ServerInv, Orderly, TypeOK', [Next]_vars
  PROVE  ChildInv'
<1> USE DEF ServerInv
<1>a. LoopTypes
  BY TypeParts
<1>1. ASSUME NEW k \in Tasks, Task(k) PROVE ChildInv'
  <2>1. CASE EnterStart(k)
    <3>1. /\ UNCHANGED <<process, spawned, child, reader>> /\ NeedsStart
          /\ \A j \in Tasks : call'[j] = "spawning" <=> j = k
      BY <1>a, <2>1, SpawningAlone DEF EnterStart, LoopTypes
    <3> QED
      BY <2>1, <3>1, SpawningAlone DEF ChildInv, NeedsStart
  <2>2. CASE SpawnDone(k)
    <3>1. /\ call[k] = "spawning" /\ NeedsStart /\ spawned < MaxSpawns
          /\ \A j \in Tasks : call[j] = "spawning" => j = k
      BY <1>1, <2>2 DEF SpawnDone, ChildInv
    <3>2. /\ spawned' = spawned + 1 /\ process' = spawned + 1
          /\ spawned + 1 \in Children
      BY <1>a, <2>2, <3>1, BoundsAssumption DEF SpawnDone, Children, LoopTypes
    <3>3. /\ \A c \in Children : child'[c] = IF c = spawned + 1 THEN "alive" ELSE child[c]
          /\ \A c \in Children : reader'[c] = IF c = spawned + 1 THEN c ELSE reader[c]
      BY <1>a, <2>2, <3>2 DEF SpawnDone, LoopTypes
    <3>4. \A j \in Tasks : call'[j] # "spawning"
      BY <1>a, <2>2, <3>1 DEF SpawnDone, LoopTypes
    <3>5. \A c \in Children : child[c] # "alive" /\ reader[c] = None
      BY <3>1, OneChild
    <3>6. \A c \in Children \ {spawned + 1} : child'[c] \in {"none", "noticed"}
      BY <1>1, <3>1, <3>3 DEF ChildInv, NeedsStart
    <3>7. \A c \in Children : child'[c] = "none" <=> c > spawned'
      BY <1>a, <3>2, <3>3 DEF ChildInv, Children, LoopTypes
    <3>8. spawned' \in 0..MaxSpawns /\ process' \in {None, spawned'}
      BY <3>2, BoundsAssumption DEF Children
    <3>9. \A r \in Children : reader'[r] # None =>
            reader'[r] = r /\ r = process' /\ child'[r] \in {"alive", "dead"}
      BY <3>2, <3>3, <3>5
    <3> QED
      BY <3>2, <3>4, <3>6, <3>7, <3>8, <3>9 DEF ChildInv
  <2>3. CASE SpawnFails(k) \/ Greeted(k) \/ TimesOut(k)
    <3>1. \E p \in {"idle", "failed"} : call' = [call EXCEPT ![k] = p]
      BY <2>3 DEF SpawnFails, Greeted, TimesOut
    <3>2. UNCHANGED <<process, spawned, child, reader>>
      BY <2>3 DEF SpawnFails, Greeted, TimesOut
    <3> QED
      BY <1>a, <3>1, <3>2, ChildFrame DEF LoopTypes
  <2> QED
    BY <1>1, <2>1, <2>2, <2>3 DEF Task
<1>2. ASSUME NEW t \in Turns, Caller(t) PROVE ChildInv'
  <2>1. \E p \in {"waiting", "failed", "over"} : call' = [call EXCEPT ![t] = p]
    BY <1>2 DEF Caller, Send, Register
  <2>2. UNCHANGED <<process, spawned, child, reader>>
    BY <1>2 DEF Caller, Send, Register
  <2> QED
    BY <1>a, <2>1, <2>2, ChildFrame DEF LoopTypes, Tasks
<1>3. CASE Restart
  <2>1. CASE BeginRestart
    <3>1. /\ UNCHANGED <<process, spawned, child>>
          /\ \A r \in Children : reader'[r] \in {None, reader[r]}
      BY <2>1 DEF BeginRestart, Stop
    <3>2. \A k \in Tasks : call'[k] = "spawning" => call[k] = "spawning"
      BY <2>1 DEF BeginRestart, Stop
    <3> QED
      BY <3>1, <3>2 DEF ChildInv, NeedsStart
  <2>2. CASE RestartJoins
    BY <1>a, <2>2, ChildFrame DEF RestartJoins, LoopTypes
  <2>3. ASSUME NEW again \in BOOLEAN, EndStop(again) PROVE ChildInv'
    <3>1. NeedsStart /\ process' = None /\ UNCHANGED <<spawned, child, reader>>
      BY <2>3 DEF EndStop, Stopped
    <3>2. \A k \in Tasks : call'[k] = "spawning" => call[k] = "spawning"
      BY <1>a, <2>3 DEF EndStop, LoopTypes
    <3>3. \A c \in Children : child[c] \in {"none", "noticed"} /\ reader[c] = None
      BY <3>1, OneChild DEF ChildInv, NeedsStart
    <3>4. NeedsStart'
      BY <3>1 DEF NeedsStart, Children, None
    <3> QED
      BY <3>1, <3>2, <3>3, <3>4 DEF ChildInv
  <2> QED
    BY <1>3, <2>1, <2>2, <2>3 DEF Restart, IdleRestart, ForcedRestart
<1>4. ASSUME NEW t \in Turns, Server(t) \/ Resolver(t) \/ Expires(t) \/ Answer(t) \/ AnswerTooLate(t)
      PROVE  ChildInv'
  <2>1. UNCHANGED loop
    BY <1>4 DEF Server, Accepts, Refuses, Asks, Ends, Resolver, ResolverBegins, Timer,
                AutoDecline, PassOn, GiveUp, Expires, Answer, AnswerTooLate
  <2> QED
    BY <2>1, ChildFrame DEF loop
<1>5. ASSUME NEW c \in Children, Exits(c) \/ Notice(c) PROVE ChildInv'
  <2>0. \E s \in {"dead", "noticed"} :
          /\ child' = [child EXCEPT ![c] = s]
          /\ \/ child[c] = "alive" /\ s = "dead"
             \/ child[c] = "dead" /\ s = "noticed"
    BY <1>5 DEF Exits, Notice
  <2>1. /\ \A d \in Children \ {c} : child'[d] = child[d]
        /\ \/ child[c] = "alive" /\ child'[c] = "dead"
           \/ child[c] = "dead" /\ child'[c] = "noticed"
        /\ UNCHANGED <<process, spawned, reader, call>>
    BY <1>a, <1>5, <2>0 DEF Exits, Notice, LoopTypes
  <2>2. child'[c] = "noticed" => reader[c] = None
    BY <1>5, <2>1, OneChild DEF Exits, Notice, Orderly
  <2>3. NeedsStart => NeedsStart'
    BY <2>1 DEF NeedsStart
  <2>4. \A d \in Children \ {process} : child'[d] \in {"none", "noticed"}
    BY <2>1 DEF ChildInv
  <2>5. \A r \in Children : reader'[r] # None => child'[r] \in {"alive", "dead"}
    BY <2>1, <2>2 DEF ChildInv
  <2>6. \A d \in Children : child'[d] = "none" <=> child[d] = "none"
    BY <2>1
  <2> QED
    BY <2>1, <2>3, <2>4, <2>5, <2>6 DEF ChildInv
<1>6. ASSUME NEW r \in Children, Reader(r) PROVE ChildInv'
  <2>1. UNCHANGED <<process, spawned, child>> /\ r = process /\ reader[r] = r
    BY <1>6, OneChild DEF Reader, ReadLine, ReadEnd, Heard
  <2>2. \A k \in Tasks : call'[k] = "spawning" => call[k] = "spawning"
    <3>1. CASE ReadLine(r)
      <4>1. call' = call \/ \E t, p : p \in {"woken", "failed"} /\ call' = [call EXCEPT ![t] = p]
        BY <3>1 DEF ReadLine, ReadReply, ReadEvent, ReadAsk
      <4> QED
        BY <1>a, <4>1 DEF LoopTypes
    <3>2. CASE ReadEnd(r)
      BY <3>2 DEF ReadEnd
    <3> QED
      BY <1>6, <3>1, <3>2 DEF Reader
  <2>3. \A d \in Children : reader'[d] # None => reader'[d] = reader[d]
    <3>1. NextStream(r) \in {None, process}
      BY DEF NextStream
    <3>2. \E x \in {None, process} : reader' = [reader EXCEPT ![r] = x]
      BY <1>6, <3>1 DEF Reader, ReadLine, ReadEnd
    <3> QED
      BY <1>a, <2>1, <3>2 DEF LoopTypes
  <2> QED
    BY <2>1, <2>2, <2>3 DEF ChildInv, NeedsStart
<1>7. CASE UNCHANGED vars
  BY <1>7, ChildFrame DEF vars, loop
<1> QED
  BY <1>1, <1>2, <1>3, <1>4, <1>5, <1>6, <1>7 DEF Next

-----------------------------------------------------------------------------
(* Turns.                                                                  *)

\* Steps that leave a turn and its child alone.
LEMMA TurnFrame ==
  ASSUME ServerInv, NEW t \in Turns,
         host'[t] = host[t], server'[t] = server[t], row'[t] = row[t], rowGen'[t] = rowGen[t],
         raced' = raced, generation' = generation, process' = process,
         resolver'[t] = "none" <=> resolver[t] = "none",
         child' = child, reader' = reader,
         call'[t] = call[t] \/ call'[t] = "failed" \/ (call[t] = "greeting" /\ call'[t] = "idle"),
         call[Admin] = "stopping" => call'[Admin] = "stopping"
  PROVE  TurnFacts(t)'
<1>1. TurnFacts(t)
  BY DEF ServerInv
<1> QED
  BY <1>1 DEF TurnFacts, Heard, Children

\* Starting a child changes no turn.
LEMMA TaskKeepsTurns ==
  ASSUME ServerInv, Orderly, TypeOK', ChildInv', NEW k \in Tasks, Task(k), NEW t \in Turns
  PROVE  TurnFacts(t)'
<1>a. LoopTypes /\ TurnFacts(t) /\ ChildInv
  BY TypeParts DEF ServerInv
<1>1. CASE EnterStart(k)
  <2>1. /\ \A c \in Children : child[c] # "alive" /\ ~Heard(c)
        /\ UNCHANGED <<process, child, reader, host, server, row, rowGen, resolver, raced>>
    BY <1>1, OneChild DEF EnterStart, turn, question
  <2>2. ~Heard(host[t])
    BY <2>1 DEF Heard
  <2>3. call'[t] = call[t] \/ (call[t] = "idle" /\ call'[t] = "spawning")
    <3>1. /\ call[k] = IF k = Admin THEN "restarting" ELSE "idle"
          /\ call' = [call EXCEPT ![k] = "spawning"]
      BY <1>1 DEF EnterStart
    <3>2. t \in Tasks /\ t # Admin /\ call \in [Tasks -> Places]
      BY <1>a, TasksAssumption DEF LoopTypes, Tasks
    <3> QED
      BY <3>1, <3>2
  <2> QED
    BY <1>a, <2>1, <2>2, <2>3 DEF TurnFacts, Heard
<1>2. CASE SpawnDone(k)
  <2>1. /\ \A c \in Children : child[c] # "alive" /\ ~Heard(c)
        /\ UNCHANGED <<host, server, row, rowGen, resolver, raced, generation>>
    BY <1>2, <1>a, OneChild DEF SpawnDone, turn, question, ChildInv
  <2>2. call'[t] = call[t] \/ (call[t] = "spawning" /\ call'[t] = "greeting")
    <3>1. call[k] = "spawning" /\ call' = [call EXCEPT ![k] = "greeting"]
      BY <1>2 DEF SpawnDone
    <3>2. t \in Tasks /\ call \in [Tasks -> Places]
      BY <1>a DEF LoopTypes, Tasks
    <3> QED
      BY <3>1, <3>2
  <2>3. spawned + 1 \in Children /\ child[spawned + 1] = "none"
    BY <1>2, <1>a, BoundsAssumption DEF SpawnDone, ChildInv, Children
  <2>4. host[t] # None => host[t] # spawned + 1 /\ host[t] \in Children
    BY <1>a, <2>3 DEF TurnFacts
  <2>5. host[t] # None =>
          child'[host[t]] = child[host[t]] /\ reader'[host[t]] = reader[host[t]]
    BY <1>a, <1>2, <2>3, <2>4 DEF SpawnDone, LoopTypes
  <2>6. ~Heard(host[t]) /\ (host[t] # None => ~Heard(host[t])')
    BY <2>1, <2>4, <2>5 DEF Heard
  <2> QED
    BY <1>a, <2>1, <2>2, <2>4, <2>5, <2>6 DEF TurnFacts
<1>3. CASE SpawnFails(k) \/ Greeted(k) \/ TimesOut(k)
  <2>1. /\ call[k] \in {"spawning", "greeting", "waiting"}
        /\ UNCHANGED <<process, child, reader, generation, host, server, row, rowGen, resolver, raced>>
    BY <1>3 DEF SpawnFails, Greeted, TimesOut, turn, question, Pending
  <2>2. /\ call[Admin] = "stopping" => call'[Admin] = "stopping"
        /\ \/ call'[t] = call[t] \/ call'[t] = "failed"
           \/ call[t] = "greeting" /\ call'[t] = "idle"
    BY <1>a, <1>3, <2>1, TasksAssumption DEF SpawnFails, Greeted, TimesOut, LoopTypes, Tasks
  <2> QED
    BY <2>1, <2>2, TurnFrame
<1> QED
  BY <1>1, <1>2, <1>3 DEF Task

\* Sending and registering a turn keep its facts.
LEMMA CallerKeepsTurns ==
  ASSUME ServerInv, TypeOK', ChildInv', NEW u \in Turns, Caller(u), NEW t \in Turns
  PROVE  TurnFacts(t)'
<1>a. LoopTypes /\ TurnTypes /\ TurnFacts(t) /\ ChildInv
  BY TypeParts DEF ServerInv
<1>b. /\ UNCHANGED <<process, child, reader, generation, server, resolver, raced>>
      /\ call'[Admin] = call[Admin]
      /\ u # t => /\ host'[t] = host[t] /\ row'[t] = row[t] /\ rowGen'[t] = rowGen[t]
                  /\ call'[t] = call[t]
  BY <1>a, TasksAssumption DEF Caller, Send, Register, question, LoopTypes, TurnTypes, Tasks
<1>1. CASE u # t
  BY <1>1, <1>b, TurnFrame
<1>2. CASE u = t /\ Send(t)
  <2>1. /\ host'[t] = process /\ call'[t] \in {"waiting", "failed"}
        /\ row' = row /\ rowGen' = rowGen /\ call[t] = "idle" /\ ~NeedsStart
    BY <1>a, <1>2 DEF Send, LoopTypes, TurnTypes, Tasks
  <2>2. process \in Children /\ child[process] # "none" /\ process # None
    BY <1>a, <2>1 DEF NeedsStart, ChildInv, Children, None
  <2>3. row[t] = "none" /\ resolver[t] = "none" /\ server[t] = "none" /\ rowGen[t] = 0
    BY <1>a, <2>1 DEF TurnFacts
  <2> QED
    BY <1>b, <2>1, <2>2, <2>3 DEF TurnFacts, Active
<1>3. CASE u = t /\ Register(t)
  <2>1. /\ call[t] = "woken" /\ call'[t] = "over"
        /\ row'[t] = IF row[t] \in Terminal THEN row[t] ELSE "running"
        /\ rowGen'[t] = generation /\ host' = host
    BY <1>a, <1>3 DEF Register, Registered, LoopTypes, TurnTypes, Tasks
  <2>2. row'[t] \in Active => row'[t] = "running"
    BY <2>1 DEF Active, Terminal
  <2> QED
    BY <1>a, <1>b, <2>1, <2>2 DEF TurnFacts, Heard, Active, Terminal
<1> QED
  BY <1>1, <1>2, <1>3 DEF Caller

\* A restart writes off what it may have to.
LEMMA RestartKeepsTurns ==
  ASSUME ServerInv, TypeOK', ChildInv', Restart, NEW t \in Turns
  PROVE  TurnFacts(t)'
<1>a. LoopTypes /\ TurnTypes /\ TurnFacts(t) /\ ChildInv
  BY TypeParts DEF ServerInv
<1>1. CASE BeginRestart
  <2>1. /\ UNCHANGED <<process, child, generation, host, server, rowGen, resolver>>
        /\ row'[t] = IF MayWriteOff(t) THEN "unknown" ELSE row[t]
        /\ raced \subseteq raced' /\ (call[t] = "woken" => t \in raced')
        /\ call'[Admin] = "stopping"
        /\ call'[t] = call[t] \/ call'[t] = "failed"
    BY <1>1, TasksAssumption DEF BeginRestart, Stop, WriteOff, Tasks
  <2>2. \A c : ~Heard(c)'
    <3>1. ASSUME NEW c \in Children, Heard(c)' PROVE FALSE
      <4>1. Heard(c) /\ c # spawned
        BY <1>1, <3>1 DEF BeginRestart, Stop, Heard, Children, None
      <4> QED
        BY <1>a, <4>1, OneChild DEF ChildInv, Children, None
    <3> QED
      BY <3>1 DEF Heard
  <2>3. row'[t] \in Active => t \in raced
    BY <1>a, <2>1 DEF TurnFacts, MayWriteOff, Active
  <2>4. host[t] # None /\ child[host[t]] = "alive" => process = host[t]
    BY <1>a, OneChild DEF TurnFacts
  <2>5. /\ row'[t] = "none" => row[t] = "none"
        /\ row'[t] = "ended" => row[t] = "ended"
        /\ row[t] = "none" => row'[t] = "none"
    BY <2>1 DEF MayWriteOff, Active
  <2>6. row'[t] # "none" => host[t] # None
    BY <1>a, <2>5 DEF TurnFacts
  <2> QED
    BY <1>a, <2>1, <2>2, <2>3, <2>4, <2>5, <2>6 DEF TurnFacts
<1>2. CASE RestartJoins
  <2>1. /\ UNCHANGED <<process, child, reader, generation, host, server, row, rowGen, resolver, raced>>
        /\ call'[t] = call[t] /\ call[Admin] # "stopping"
    BY <1>a, <1>2, TasksAssumption DEF RestartJoins, turn, question, LoopTypes
  <2> QED
    BY <2>1, TurnFrame
<1>3. ASSUME NEW again \in BOOLEAN, EndStop(again) PROVE TurnFacts(t)'
  <2>1. /\ UNCHANGED <<child, reader, generation, host, server, row, rowGen, resolver, raced>>
        /\ call'[t] = call[t] /\ NeedsStart
    BY <1>a, <1>3, TasksAssumption DEF EndStop, Stopped, turn, question, LoopTypes
  <2>2. host[t] # None => child[host[t]] # "alive"
    BY <1>a, <2>1, OneChild DEF TurnFacts
  <2> QED
    BY <1>a, <2>1, <2>2 DEF TurnFacts, Heard
<1> QED
  BY <1>1, <1>2, <1>3 DEF Restart, IdleRestart, ForcedRestart

\* What children write and what becomes of them.
LEMMA ServerKeepsTurns ==
  ASSUME ServerInv, NEW u \in Turns, Server(u), NEW t \in Turns
  PROVE  TurnFacts(t)'
<1>a. TurnTypes /\ TurnFacts(t) /\ TurnFacts(u)
  BY TypeParts DEF ServerInv
<1>1. /\ UNCHANGED <<process, generation, child, reader, call, host, row, rowGen, resolver, raced>>
      /\ u # t => server'[t] = server[t]
  BY <1>a DEF Server, Accepts, Refuses, Asks, Ends, loop, question, TurnTypes
<1>2. CASE u # t
  BY <1>1, <1>2, TurnFrame
<1>3. CASE u = t
  <2>1. host[t] # None /\ server[t] # "over"
    BY <1>a, <1>3 DEF Server, Accepts, Refuses, Asks, Ends, TurnFacts
  <2> QED
    BY <1>a, <1>1, <2>1 DEF TurnFacts, Heard
<1> QED
  BY <1>2, <1>3

\* So does the exit of a child.
LEMMA ExitKeepsTurns ==
  ASSUME ServerInv, NEW c \in Children, Exits(c) \/ Notice(c), NEW t \in Turns
  PROVE  TurnFacts(t)'
<1>a. LoopTypes /\ TurnFacts(t)
  BY TypeParts DEF ServerInv
<1>1. UNCHANGED <<process, generation, reader, call, host, server, row, rowGen, resolver, raced>>
  BY DEF Exits, Notice, turn, question
<1>2. \E s \in {"dead", "noticed"} : child' = [child EXCEPT ![c] = s]
  BY DEF Exits, Notice
<1>3. \A d \in Children : /\ child'[d] = "alive" => child[d] = "alive"
                          /\ child'[d] = "none" => child[d] = "none"
  BY <1>a, <1>2 DEF LoopTypes
<1>4. host[t] # None => /\ child'[host[t]] = "alive" => child[host[t]] = "alive"
                        /\ child'[host[t]] = "none" => child[host[t]] = "none"
  BY <1>a, <1>3 DEF TurnFacts
<1>5. row[t] = "unknown" => host[t] # None
  BY <1>a DEF TurnFacts
<1> QED
  BY <1>a, <1>1, <1>4, <1>5 DEF TurnFacts, Heard

\* A line that is read is about a turn of the process, which is still heard.
LEMMA ReadOfProcess ==
  ASSUME ServerInv, NEW r \in Children, ReadLine(r)
  PROVE  /\ r = process /\ reader[r] = r /\ Heard(r) /\ reader' = reader
         /\ pipe[r] \in Seq(LineRow) /\ pipe[r] # <<>> /\ 1 \in 1..Len(pipe[r])
         /\ Head(pipe[r]) = pipe[r][1] /\ Head(pipe[r]) \in LineRow
         /\ host[Head(pipe[r]).turn] = r
         /\ pipe' = [pipe EXCEPT ![r] = Tail(@)]
<1>a. LoopTypes /\ ChildInv /\ pipe \in [Children -> Seq(LineRow)] /\ LineFacts(r)
  BY TypeParts DEF ServerInv
<1>1. r = process /\ reader[r] = r /\ Heard(r)
  BY OneChild DEF ReadLine, Heard
<1>2. NextStream(r) = process
  BY <1>a, <1>1 DEF NextStream, ChildInv, Children, None
<1>3. reader' = reader
  BY <1>a, <1>1, <1>2 DEF ReadLine, LoopTypes
<1>4. pipe[r] \in Seq(LineRow) /\ pipe[r] # <<>> /\ pipe' = [pipe EXCEPT ![r] = Tail(@)]
  BY <1>a, <1>1 DEF ReadLine
<1>5. Len(pipe[r]) \in Nat /\ Len(pipe[r]) > 0 /\ Head(pipe[r]) = pipe[r][1]
  BY <1>4, LenProperties, EmptySeq
<1>6. 1 \in 1..Len(pipe[r]) /\ pipe[r][1] \in LineRow
  BY <1>4, <1>5
<1> QED
  BY <1>a, <1>1, <1>3, <1>4, <1>5, <1>6 DEF LineFacts, LineIsTrue

\* So does reading a line.
LEMMA ReadLineKeepsTurns ==
  ASSUME ServerInv, NEW r \in Children, ReadLine(r), NEW t \in Turns
  PROVE  TurnFacts(t)'
<1> DEFINE line == Head(pipe[r])
<1>a. LoopTypes /\ TurnTypes /\ AskTypes /\ TurnFacts(t) /\ ChildInv
  BY TypeParts DEF ServerInv
<1>1. /\ r = process /\ Heard(r) /\ line.turn \in Turns /\ host[line.turn] = r
      /\ reader' = reader
      /\ row[line.turn] # "ended"
      /\ line.what = "ended" => server[line.turn] = "over"
      /\ line.what = "ask" => resolver[line.turn] = "none"
  BY ReadOfProcess DEF LineRow, ServerInv, LineFacts, LineIsTrue
<1>2. /\ UNCHANGED <<process, generation, child, host, server, rowGen, raced>>
      /\ ReadReply(line) \/ ReadEvent(line) \/ ReadAsk(line)
  BY ReadOfProcess DEF ReadLine
<1> HIDE DEF line
<1>b. TurnFacts(line.turn) /\ r # None
  BY <1>1 DEF ServerInv, Children, None
<1>3. CASE t # line.turn
  <2>1. call'[t] = call[t] /\ row'[t] = row[t] /\ resolver'[t] = resolver[t]
    BY <1>a, <1>1, <1>2, <1>3
    DEF ReadReply, ReadEvent, ReadAsk, LoopTypes, TurnTypes, AskTypes, question, Tasks
  <2>2. call'[Admin] = call[Admin]
    BY <1>a, <1>1, <1>2, TasksAssumption DEF ReadReply, ReadEvent, ReadAsk, LoopTypes, Tasks
  <2> QED
    BY <1>1, <1>2, <2>1, <2>2, TurnFrame
<1>4. CASE t = line.turn
  <2>1. /\ call'[t] = call[t] \/ (call[t] = "waiting" /\ call'[t] \in {"woken", "failed"})
        /\ call'[Admin] = call[Admin]
    <3>1. \/ call' = call
          \/ \E p \in {"woken", "failed"} :
               call[t] = "waiting" /\ call' = [call EXCEPT ![t] = p]
      BY <1>2, <1>4 DEF ReadReply, ReadEvent, ReadAsk
    <3>2. t \in Tasks /\ Admin \in Tasks /\ t # Admin /\ call \in [Tasks -> Places]
      BY <1>a, TasksAssumption DEF LoopTypes, Tasks
    <3> QED
      BY <3>1, <3>2
  <2>2. \/ row'[t] = row[t]
        \/ row'[t] \in Active
        \/ (row'[t] = "ended" /\ server[t] = "over")
    BY <1>a, <1>1, <1>2, <1>4 DEF ReadReply, ReadEvent, ReadAsk, TurnTypes, Active
  <2>3. Heard(host[t]) /\ Heard(host[t])' /\ host[t] # None
    BY <1>1, <1>2, <1>4, <1>b DEF Heard
  <2>4. row[t] # "unknown" /\ row[t] # "ended"
    BY <1>1, <1>4, <1>a, <2>3 DEF TurnFacts
  <2>5. row[t] \in {"none"} \cup Active
    BY <1>a, <2>4 DEF TurnTypes, Terminal
  <2>6. rowGen[t] \in {0, generation} \/ t \in raced
    BY <1>a, <2>5 DEF TurnFacts
  <2> QED
    BY <1>a, <1>2, <2>1, <2>2, <2>3, <2>4, <2>6 DEF TurnFacts, Active
<1> QED
  BY <1>3, <1>4

\* The end of the output writes off the turns of its child.
LEMMA ReadEndKeepsTurns ==
  ASSUME ServerInv, NEW r \in Children, ReadEnd(r), NEW t \in Turns
  PROVE  TurnFacts(t)'
<1>a. LoopTypes /\ TurnTypes /\ TurnFacts(t) /\ ChildInv
  BY TypeParts DEF ServerInv
<1>1. r = process /\ reader[r] = r /\ child[r] # "alive"
  BY OneChild DEF ReadEnd, Heard
<1>2. /\ UNCHANGED <<process, generation, child, host, server, rowGen, resolver, raced>>
      /\ row'[t] = IF MayWriteOff(t) THEN "unknown" ELSE row[t]
      /\ (call'[t] = call[t] /\ call[t] # "woken") \/ call'[t] = "failed"
      /\ reader' = [reader EXCEPT ![r] = None]
  BY TasksAssumption DEF ReadEnd, WriteOff, Quiescent, Tasks
<1>3. \A c : ~Heard(c)'
  <2>1. ASSUME NEW c \in Children, Heard(c)' PROVE FALSE
    <3>1. c # r /\ reader[c] = c /\ c # None
      BY <1>a, <1>2, <2>1 DEF Heard, Children, None, LoopTypes
    <3> QED
      BY <1>1, <3>1, OneChild DEF Heard
  <2> QED
    BY <2>1 DEF Heard
<1>4. \A c \in Children : child[c] # "alive"
  BY <1>1, OneChild
<1>5. row'[t] \in Active => t \in raced
  BY <1>a, <1>2 DEF TurnFacts, MayWriteOff, Active
<1>6. /\ row'[t] = "none" <=> row[t] = "none"
      /\ row'[t] = "ended" => row[t] = "ended"
  BY <1>2 DEF MayWriteOff, Active
<1> QED
  BY <1>a, <1>2, <1>3, <1>4, <1>5, <1>6 DEF TurnFacts

\* Questions change nothing but waiting turns.
LEMMA QuestionKeepsTurns ==
  ASSUME ServerInv, NEW u \in Turns, Resolver(u) \/ Expires(u) \/ Answer(u) \/ AnswerTooLate(u),
         NEW t \in Turns
  PROVE  TurnFacts(t)'
<1>a. LoopTypes /\ TurnTypes /\ AskTypes /\ TurnFacts(t)
  BY TypeParts DEF ServerInv
<1>1. UNCHANGED <<process, generation, child, reader, call, host, rowGen, raced>>
  BY DEF Resolver, ResolverBegins, Timer, AutoDecline, PassOn, GiveUp, Expires, Answer,
         AnswerTooLate, loop, turn
<1>2. resolver'[t] = "none" <=> resolver[t] = "none"
  <2>1. \/ resolver' = resolver
        \/ \E s \in {"waits", "timed", "done"} :
             resolver[u] # "none" /\ resolver' = [resolver EXCEPT ![u] = s]
    <3>1. CASE ResolverBegins(u)
      BY <3>1 DEF ResolverBegins
    <3>2. CASE AutoDecline(u) \/ PassOn(u)
      BY <3>2 DEF AutoDecline, Declines, PassOn
    <3>3. CASE Timer(u) \/ GiveUp(u) \/ Expires(u) \/ Answer(u) \/ AnswerTooLate(u)
      BY <3>3 DEF Timer, GiveUp, Expires, Answer, AnswerTooLate
    <3> QED
      BY <3>1, <3>2, <3>3 DEF Resolver
  <2> QED
    BY <1>a, <2>1 DEF AskTypes
<1>3. /\ row'[t] = row[t] \/ (row[t] = "waiting" /\ row'[t] = "running")
      /\ server'[t] = server[t] \/ (server[t] = "asking" /\ server'[t] = "live")
  <2>1. \/ UNCHANGED turn
        \/ \E what, s : Respond(u, what, s)
    <3>1. CASE AutoDecline(u) \/ PassOn(u)
      BY <3>1 DEF AutoDecline, PassOn
    <3>2. CASE ~(AutoDecline(u) \/ PassOn(u))
      BY <3>2 DEF Resolver, ResolverBegins, Timer, GiveUp, Expires, Answer, AnswerTooLate
    <3> QED
      BY <3>1, <3>2
  <2> QED
    <3>1. CASE UNCHANGED turn
      BY <3>1 DEF turn
    <3>2. ASSUME NEW what, NEW s, Respond(u, what, s)
          PROVE  /\ row'[t] = row[t] \/ (row[t] = "waiting" /\ row'[t] = "running")
                 /\ server'[t] = server[t] \/ (server[t] = "asking" /\ server'[t] = "live")
      <4>1. \/ row' = row
            \/ row' = [row EXCEPT ![u] = IF @ = "waiting" THEN "running" ELSE @]
        BY <3>2 DEF Respond
      <4>2. \/ server' = server
            \/ server' = [server EXCEPT ![u] =
                           IF process = host[u] /\ @ = "asking" THEN "live" ELSE @]
        BY <3>2 DEF Respond
      <4> QED
        BY <1>a, <4>1, <4>2 DEF TurnTypes
    <3> QED
      BY <2>1, <3>1, <3>2
<1>4. row'[t] \in Active <=> row[t] \in Active
  BY <1>3 DEF Active
<1> QED
  BY <1>a, <1>1, <1>2, <1>3, <1>4 DEF TurnFacts, Heard, Active

\* Every step keeps the facts about turns.
LEMMA NextTurns ==
  ASSUME ServerInv, Orderly, TypeOK', ChildInv', [Next]_vars, NEW t \in Turns
  PROVE  TurnFacts(t)'
<1>1. CASE UNCHANGED vars
  BY <1>1, TurnFrame DEF vars, loop, turn, question
<1>2. ASSUME NEW r \in Children, Reader(r) PROVE TurnFacts(t)'
  BY <1>2, ReadLineKeepsTurns, ReadEndKeepsTurns DEF Reader
<1>3. CASE Next
  BY <1>2, <1>3, TaskKeepsTurns, CallerKeepsTurns, RestartKeepsTurns, ServerKeepsTurns,
     ExitKeepsTurns, QuestionKeepsTurns DEF Next
<1> QED
  BY <1>1, <1>3

-----------------------------------------------------------------------------
(* Questions.                                                              *)

\* Steps that leave a question alone.
LEMMA QuestionFrame ==
  ASSUME ServerInv, NEW t \in Turns,
         resolver'[t] = resolver[t], ask'[t] = ask[t], askGen'[t] = askGen[t],
         future'[t] = future[t], live'[t] = live[t], told'[t] = told[t],
         late[t] => late'[t],
         server[t] = "asking" => server'[t] = "asking",
         host'[t] = host[t], generation' = generation, reader' = reader, process' = process
  PROVE  QuestionFacts(t)'
<1>1. QuestionFacts(t)
  BY DEF ServerInv
<1> QED
  BY <1>1 DEF QuestionFacts, Heard, Children

\* The end of what is heard: no question stays open.
LEMMA OrphanedQuestions ==
  ASSUME ServerInv, NEW t \in Turns, Orphan,
         UNCHANGED <<process, host, server, askGen, resolver, late, told>>
  PROVE  QuestionFacts(t)'
<1>1. QuestionFacts(t)
  BY DEF ServerInv
<1>2. /\ future'[t] # "open"
      /\ future[t] # "open" => future'[t] = future[t]
      /\ future'[t] = "answer" => future[t] = "answer"
      /\ future[t] = "open" => future'[t] = "error"
  BY <1>1 DEF Orphan, QuestionFacts
<1>3. live'[t] => live[t]
  BY DEF Orphan
<1>4. /\ ask[t] = "answered" <=> ask'[t] = "answered"
      /\ ask[t] = "none" <=> ask'[t] = "none"
  BY DEF Orphan, OrphanRows
<1> QED
  BY <1>1, <1>2, <1>3, <1>4 DEF QuestionFacts

\* Where the process may change nobody waits for an answer.
LEMMA NobodyAsks ==
  ASSUME ServerInv, NeedsStart, NEW t \in Turns
  PROVE  future[t] # "open" /\ (Quiescent => resolver[t] \in {"none", "done"})
<1>a. QuestionFacts(t) /\ AskTypes
  BY TypeParts DEF ServerInv
<1>1. future[t] # "open"
  BY <1>a, OneChild DEF QuestionFacts, Heard
<1> QED
  BY <1>a, <1>1 DEF Quiescent, AskTypes

\* The loop may move on when no question is open.
LEMMA LoopKeepsQuestions ==
  ASSUME ServerInv, NEW t \in Turns, UNCHANGED <<host, server, question>>,
         \/ UNCHANGED <<generation, reader, process>>
         \/ NeedsStart /\ process' = process
         \/ NeedsStart /\ Quiescent
  PROVE  QuestionFacts(t)'
<1>a. QuestionFacts(t) /\ AskTypes
  BY TypeParts DEF ServerInv
<1>1. CASE UNCHANGED <<generation, reader, process>>
  BY <1>1, QuestionFrame DEF question
<1>2. CASE NeedsStart /\ process' = process
  BY <1>2, <1>a, NobodyAsks DEF QuestionFacts, question
<1>3. CASE NeedsStart /\ Quiescent
  <2>1. future[t] # "open" /\ resolver[t] \in {"none", "done"}
    BY <1>3, NobodyAsks
  <2> QED
    BY <1>a, <2>1 DEF QuestionFacts, question
<1> QED
  BY <1>1, <1>2, <1>3

\* So may the tasks that start a child,
LEMMA TaskKeepsQuestions ==
  ASSUME ServerInv, NEW k \in Tasks, Task(k), NEW t \in Turns
  PROVE  QuestionFacts(t)'
<1>1. CASE EnterStart(k)
  BY <1>1, LoopKeepsQuestions DEF EnterStart, turn
<1>2. CASE SpawnDone(k)
  <2>1. NeedsStart
    BY <1>2 DEF SpawnDone, ServerInv, ChildInv
  <2> QED
    BY <1>2, <2>1, LoopKeepsQuestions DEF SpawnDone, turn
<1>3. CASE SpawnFails(k) \/ Greeted(k) \/ TimesOut(k)
  <2>1. UNCHANGED <<generation, reader, process, host, server, question>>
    BY <1>3 DEF SpawnFails, Greeted, TimesOut, turn
  <2> QED
    BY <2>1, LoopKeepsQuestions
<1> QED
  BY <1>1, <1>2, <1>3 DEF Task

\* the callers,
LEMMA CallerKeepsQuestions ==
  ASSUME ServerInv, NEW u \in Turns, Caller(u), NEW t \in Turns
  PROVE  QuestionFacts(t)'
<1>a. LoopTypes /\ TurnTypes /\ QuestionFacts(t) /\ TurnFacts(t)
  BY TypeParts DEF ServerInv
<1>1. UNCHANGED <<generation, reader, process, server, question>>
  BY DEF Caller, Send, Register
<1>2. CASE host'[t] = host[t]
  BY <1>1, <1>2, QuestionFrame DEF question
<1>3. CASE host'[t] # host[t]
  <2>1. call[t] = "idle"
    BY <1>a, <1>3 DEF Caller, Send, Register, TurnTypes
  <2>2. resolver[t] = "none"
    BY <1>a, <2>1 DEF TurnFacts
  <2> QED
    BY <1>1, <1>a, <2>2 DEF QuestionFacts, question
<1> QED
  BY <1>2, <1>3

\* restarts
LEMMA RestartKeepsQuestions ==
  ASSUME ServerInv, Restart, NEW t \in Turns
  PROVE  QuestionFacts(t)'
<1>1. CASE BeginRestart
  BY <1>1, OrphanedQuestions DEF BeginRestart, Stop
<1>2. CASE RestartJoins
  BY <1>2, LoopKeepsQuestions DEF RestartJoins, turn
<1>3. ASSUME NEW again \in BOOLEAN, EndStop(again) PROVE QuestionFacts(t)'
  BY <1>3, LoopKeepsQuestions DEF EndStop, Stopped, turn
<1> QED
  BY <1>1, <1>2, <1>3 DEF Restart, IdleRestart, ForcedRestart

\* and the children.
LEMMA ServerKeepsQuestions ==
  ASSUME ServerInv, NEW u \in Turns, Server(u), NEW t \in Turns
  PROVE  QuestionFacts(t)'
<1>a. TurnTypes
  BY TypeParts DEF ServerInv
<1>1. /\ UNCHANGED <<generation, reader, process, host, question>>
      /\ server[t] = "asking" => server'[t] = "asking"
  BY <1>a DEF Server, Accepts, Refuses, Asks, Ends, loop, TurnTypes
<1> QED
  BY <1>1, QuestionFrame DEF question

\* The reader opens questions, and closes them at the end of the output.
LEMMA ReaderKeepsQuestions ==
  ASSUME ServerInv, NEW r \in Children, Reader(r), NEW t \in Turns
  PROVE  QuestionFacts(t)'
<1> DEFINE line == Head(pipe[r])
<1>1. CASE ReadEnd(r)
  BY <1>1, OrphanedQuestions DEF ReadEnd
<1>2. CASE ReadLine(r)
  <2>1. /\ r = process /\ Heard(r) /\ line.turn \in Turns /\ host[line.turn] = r
        /\ reader' = reader
        /\ LineIsTrue(r, line)
    <3>1. LineIsTrue(r, pipe[r][1])
      BY <1>2, ReadOfProcess DEF ServerInv, LineFacts
    <3>2. line = pipe[r][1] /\ line \in LineRow
      BY <1>2, ReadOfProcess
    <3>3. line.turn \in Turns
      BY <3>2 DEF LineRow
    <3> HIDE DEF line
    <3>4. LineIsTrue(r, line)
      BY <3>1, <3>2
    <3>5. r = process /\ Heard(r) /\ reader' = reader
      BY <1>2, ReadOfProcess
    <3> QED
      BY <3>3, <3>4, <3>5 DEF LineIsTrue
  <2>2. /\ UNCHANGED <<process, generation, host, server>>
        /\ ReadReply(line) \/ ReadEvent(line) \/ ReadAsk(line)
    BY <1>2, ReadOfProcess DEF ReadLine
  <2> HIDE DEF line
  <2>3. CASE ReadReply(line) \/ ReadEvent(line)
    BY <2>1, <2>2, <2>3, QuestionFrame DEF ReadReply, ReadEvent, question
  <2>4. CASE ReadAsk(line)
    <3>a. AskTypes
      BY TypeParts DEF ServerInv
    <3>1. CASE t # line.turn
      BY <3>a, <2>1, <2>2, <2>4, <3>1, QuestionFrame DEF ReadAsk, Create, AskTypes
    <3>2. CASE t = line.turn
      <4>1. /\ ask'[t] = "pending" /\ askGen'[t] = generation /\ future'[t] = "open"
            /\ live'[t] /\ resolver'[t] = "new"
        BY <3>a, <2>1, <2>4, <3>2 DEF ReadAsk, Create, AskTypes
      <4>2. server'[t] = "asking" /\ process' = host'[t] /\ Heard(host[t])'
        BY <2>1, <2>2, <2>4, <3>2 DEF ReadAsk, Heard, LineIsTrue
      <4> QED
        BY <2>2, <4>1, <4>2 DEF QuestionFacts
    <3> QED
      BY <3>1, <3>2
  <2> QED
    BY <2>2, <2>3, <2>4
<1> QED
  BY <1>1, <1>2 DEF Reader

\* A response: the question is told, or its server is still asked.
LEMMA RespondKeeps ==
  ASSUME ServerInv, NEW u \in Turns, NEW what, NEW s, Respond(u, what, s)
  PROVE  /\ ask'[u] \in {s, "failed"}
         /\ server'[u] # server[u] => told'[u] # {}
         /\ told[u] \subseteq told'[u]
         /\ \A t \in Turns \ {u} : /\ ask'[t] = ask[t] /\ told'[t] = told[t]
                                   /\ server'[t] = server[t]
<1>a. TurnTypes /\ AskTypes
  BY TypeParts DEF ServerInv
<1>1. \E x \in {s, "failed"} : ask' = [ask EXCEPT ![u] = x]
  BY DEF Respond
<1>2. \/ told' = told /\ server' = server
      \/ /\ told' = [told EXCEPT ![u] = @ \cup {<<process, what>>}]
         /\ server' = [server EXCEPT ![u] =
                        IF process = host[u] /\ @ = "asking" THEN "live" ELSE @]
  BY DEF Respond
<1>3. CASE told' = told /\ server' = server
  BY <1>a, <1>1, <1>3 DEF AskTypes
<1>4. CASE /\ told' = [told EXCEPT ![u] = @ \cup {<<process, what>>}]
           /\ server' = [server EXCEPT ![u] =
                          IF process = host[u] /\ @ = "asking" THEN "live" ELSE @]
  <2>1. told'[u] = told[u] \cup {<<process, what>>}
    BY <1>a, <1>4 DEF AskTypes
  <2>2. \A t \in Turns \ {u} : told'[t] = told[t] /\ server'[t] = server[t]
    BY <1>a, <1>4 DEF AskTypes, TurnTypes
  <2>3. \A t \in Turns \ {u} : ask'[t] = ask[t]
    BY <1>a, <1>1 DEF AskTypes
  <2>4. ask'[u] \in {s, "failed"}
    BY <1>a, <1>1 DEF AskTypes
  <2> QED
    BY <2>1, <2>2, <2>3, <2>4
<1> QED
  BY <1>2, <1>3, <1>4

\* The steps of a question keep its facts.
LEMMA ResolverKeepsQuestions ==
  ASSUME ServerInv, NEW u \in Turns, Resolver(u) \/ Expires(u) \/ Answer(u) \/ AnswerTooLate(u),
         NEW t \in Turns
  PROVE  QuestionFacts(t)'
<1>a. AskTypes /\ TurnTypes /\ QuestionFacts(t)
  BY TypeParts DEF ServerInv
<1>0. UNCHANGED <<process, generation, reader, host, askGen>>
  BY DEF Resolver, ResolverBegins, Timer, AutoDecline, PassOn, GiveUp, Expires, Answer,
         AnswerTooLate, loop, turn
<1>1. CASE t # u
  <2>1. CASE AutoDecline(u) \/ PassOn(u)
    <3>1. /\ resolver'[t] = resolver[t] /\ future'[t] = future[t] /\ live'[t] = live[t]
          /\ late'[t] = late[t]
      BY <1>a, <1>1, <2>1 DEF AutoDecline, PassOn, AskTypes
    <3>2. ask'[t] = ask[t] /\ told'[t] = told[t] /\ server'[t] = server[t]
      BY <1>1, <2>1, RespondKeeps DEF AutoDecline, PassOn
    <3> QED
      BY <1>0, <3>1, <3>2, QuestionFrame
  <2>2. CASE ~(AutoDecline(u) \/ PassOn(u))
    <3>1. /\ resolver'[t] = resolver[t] /\ future'[t] = future[t] /\ live'[t] = live[t]
          /\ late'[t] = late[t] /\ ask'[t] = ask[t]
      BY <1>a, <1>1, <2>2
      DEF Resolver, ResolverBegins, Timer, GiveUp, Expires, Answer, AnswerTooLate, AskTypes
    <3>2. told' = told /\ server' = server
      BY <2>2 DEF Resolver, ResolverBegins, Timer, GiveUp, Expires, Answer, AnswerTooLate, turn
    <3> QED
      BY <1>0, <3>1, <3>2, QuestionFrame
  <2> QED
    BY <2>1, <2>2
<1>2. CASE t = u
  <2>1. CASE ResolverBegins(t)
    <3>1. UNCHANGED <<server, future, live, late, told>> /\ resolver[t] = "new"
      BY <2>1 DEF ResolverBegins, turn
    <3>2. CASE live[t]
      <4>1. resolver'[t] = "waits" /\ ask' = ask
        BY <1>a, <2>1, <3>2 DEF ResolverBegins, AskTypes
      <4> QED
        BY <1>0, <1>a, <3>1, <4>1 DEF QuestionFacts, Heard
    <3>3. CASE ~live[t]
      <4>1. resolver'[t] = "done" /\ ask'[t] = "failed"
        BY <1>a, <2>1, <3>3 DEF ResolverBegins, AskTypes
      <4> QED
        BY <1>0, <1>a, <3>1, <3>3, <4>1 DEF QuestionFacts, Heard
    <3> QED
      BY <3>2, <3>3
  <2>2. CASE Timer(t)
    <3>1. /\ UNCHANGED <<server, ask, future, live, late, told>>
          /\ resolver[t] = "waits" /\ future[t] = "open" /\ late[t] /\ resolver'[t] = "timed"
      BY <1>a, <2>2 DEF Timer, turn, AskTypes
    <3> QED
      BY <1>0, <1>a, <3>1 DEF QuestionFacts, Heard
  <2>3. CASE AutoDecline(t)
    <3>1. /\ resolver[t] = "timed" /\ resolver'[t] = "done" /\ ~live'[t] /\ future'[t] # "open"
          /\ late' = late
      BY <1>a, <2>3 DEF AutoDecline, Declines, AskTypes
    <3>2. /\ ask'[t] \in {"auto_declined", "failed"}
          /\ server'[t] # server[t] => told'[t] # {}
          /\ told[t] \subseteq told'[t]
      BY <2>3, RespondKeeps DEF AutoDecline
    <3> QED
      BY <1>0, <1>a, <3>1, <3>2 DEF QuestionFacts
  <2>4. CASE PassOn(t)
    <3>1. /\ resolver[t] = "waits" /\ resolver'[t] = "done" /\ ~live'[t]
          /\ future' = future /\ future[t] = "answer" /\ late' = late
      BY <1>a, <2>4 DEF PassOn, AskTypes
    <3>2. /\ server'[t] # server[t] => told'[t] # {}
          /\ told[t] \subseteq told'[t]
      BY <2>4, RespondKeeps DEF PassOn
    <3> QED
      BY <1>0, <1>a, <3>1, <3>2 DEF QuestionFacts
  <2>5. CASE GiveUp(t)
    <3>1. /\ resolver[t] = "waits" /\ future[t] = "error" /\ resolver'[t] = "done"
          /\ ~live'[t] /\ ask'[t] = "failed" /\ UNCHANGED <<server, future, late, told>>
      BY <1>a, <2>5 DEF GiveUp, turn, AskTypes
    <3> QED
      BY <1>0, <1>a, <3>1 DEF QuestionFacts
  <2>6. CASE Expires(t)
    BY <1>0, <1>a, <1>2, <2>6, QuestionFrame DEF Expires, turn, AskTypes
  <2>7. CASE Answer(t)
    <3>1. /\ ask[t] = "pending" /\ ~late[t] /\ live[t] /\ resolver[t] # "new"
          /\ ask'[t] = "answered" /\ future'[t] = "answer"
          /\ UNCHANGED <<server, live, resolver, late, told>>
      BY <1>a, <2>7 DEF Answer, MayAnswer, turn, AskTypes
    <3>2. resolver[t] = "waits"
      BY <1>a, <3>1 DEF QuestionFacts, AskTypes
    <3> QED
      BY <1>0, <1>a, <3>1, <3>2 DEF QuestionFacts
  <2>8. CASE AnswerTooLate(t)
    <3>1. /\ ask[t] = "pending" /\ ask'[t] = "expired"
          /\ UNCHANGED <<server, future, live, resolver, late, told>>
      BY <1>a, <2>8 DEF AnswerTooLate, turn, AskTypes
    <3> QED
      BY <1>0, <1>a, <3>1 DEF QuestionFacts, Heard
  <2> QED
    BY <1>2, <2>1, <2>2, <2>3, <2>4, <2>5, <2>6, <2>7, <2>8 DEF Resolver
<1> QED
  BY <1>1, <1>2

\* So does every step.
LEMMA NextQuestions ==
  ASSUME ServerInv, [Next]_vars, NEW t \in Turns
  PROVE  QuestionFacts(t)'
<1>1. ASSUME NEW c \in Children, Exits(c) \/ Notice(c) PROVE QuestionFacts(t)'
  <2>1. UNCHANGED <<generation, reader, process, host, server, question>>
    BY <1>1 DEF Exits, Notice, turn
  <2> QED
    BY <2>1, LoopKeepsQuestions
<1>2. CASE UNCHANGED vars
  BY <1>2, LoopKeepsQuestions DEF vars, loop, turn
<1>3. CASE Next
  BY <1>1, <1>3, TaskKeepsQuestions, CallerKeepsQuestions, RestartKeepsQuestions,
     ServerKeepsQuestions, ReaderKeepsQuestions, ResolverKeepsQuestions DEF Next
<1> QED
  BY <1>2, <1>3

-----------------------------------------------------------------------------
(* Lines.                                                                  *)

\* Lines are about turns.
LEMMA LinesOfTurns ==
  ASSUME ServerInv, NEW c \in Children
  PROVE  \A i \in 1..Len(pipe[c]) : pipe[c][i].turn \in Turns
<1>1. pipe[c] \in Seq(LineRow)
  BY TypeParts DEF ServerInv
<1>2. \A i \in 1..Len(pipe[c]) : pipe[c][i] \in LineRow
  BY <1>1
<1> QED
  BY <1>2 DEF LineRow

\* What the facts about lines need of the turns.
LEMMA LineFrame ==
  ASSUME ServerInv, NEW c \in Children, pipe'[c] = pipe[c],
         \A t \in Turns :
           /\ host[t] # None => host'[t] = host[t]
           /\ row'[t] = "ended" => row[t] = "ended"
           /\ server[t] = "over" => server'[t] = "over"
           /\ server[t] = "asking" /\ resolver[t] = "none" =>
                server'[t] = "asking" /\ resolver'[t] = "none"
  PROVE  LineFacts(c)'
<1>a. LineFacts(c) /\ pipe \in [Children -> Seq(LineRow)] /\ c # None
  BY TypeParts DEF ServerInv, Children, None
<1>b. \A i \in 1..Len(pipe[c]) : pipe[c][i].turn \in Turns
  BY LinesOfTurns
<1>1. ASSUME NEW i \in 1..Len(pipe[c]) PROVE LineIsTrue(c, pipe[c][i])'
  <2>1. /\ LineIsTrue(c, pipe[c][i])
        /\ pipe[c][i].turn \in Turns /\ pipe'[c][i] = pipe[c][i]
    BY <1>a, <1>b DEF LineFacts
  <2> DEFINE t == pipe[c][i].turn
  <2>2. /\ t \in Turns /\ host[t] = c /\ row[t] # "ended"
        /\ pipe[c][i].what = "ended" => server[t] = "over"
        /\ pipe[c][i].what = "ask" => server[t] = "asking" /\ resolver[t] = "none"
    BY <2>1 DEF LineIsTrue
  <2> HIDE DEF t
  <2>3. /\ host'[t] = c /\ row'[t] # "ended"
        /\ pipe[c][i].what = "ended" => server'[t] = "over"
        /\ pipe[c][i].what = "ask" => server'[t] = "asking" /\ resolver'[t] = "none"
    BY <1>a, <2>2
  <2> QED
    BY <2>1, <2>3 DEF LineIsTrue, t
<1> QED
  BY <1>a, <1>1 DEF LineFacts

\* Steps that write and read no line keep the facts about lines.
LEMMA QuietLines ==
  ASSUME ServerInv, [Next]_vars,
         \A t \in Turns : ~Server(t),
         \A r \in Children : ~ReadLine(r),
         NEW c \in Children
  PROVE  LineFacts(c)'
<1>a. /\ LoopTypes /\ TurnTypes /\ AskTypes
      /\ \A t \in Turns : TurnFacts(t) /\ QuestionFacts(t)
  BY TypeParts DEF ServerInv
<1>1. ASSUME NEW k \in Tasks, Task(k) PROVE LineFacts(c)'
  <2>1. UNCHANGED <<pipe, host, row, server, resolver>>
    BY <1>1 DEF Task, EnterStart, SpawnDone, SpawnFails, Greeted, TimesOut, turn, question
  <2> QED
    BY <2>1, LineFrame
<1>2. ASSUME NEW u \in Turns, Caller(u) PROVE LineFacts(c)'
  <2>1. UNCHANGED <<pipe, server, resolver>>
    BY <1>2 DEF Caller, Send, Register, question
  <2>2. ASSUME NEW t \in Turns
        PROVE  /\ host[t] # None => host'[t] = host[t]
               /\ row'[t] = "ended" => row[t] = "ended"
    <3>1. CASE Send(u)
      BY <1>a, <3>1 DEF Send, TurnTypes, TurnFacts
    <3>2. CASE Register(u)
      BY <1>a, <3>2 DEF Register, Registered, TurnTypes
    <3> QED
      BY <1>2, <3>1, <3>2 DEF Caller
  <2> QED
    BY <2>1, <2>2, LineFrame
<1>3. CASE Restart \/ \E r \in Children : ReadEnd(r)
  <2>1. UNCHANGED <<pipe, host, server, resolver>>
    BY <1>3 DEF Restart, IdleRestart, ForcedRestart, BeginRestart, RestartJoins, EndStop,
                ReadEnd, turn, question
  <2>2. WriteOff \/ row' = row
    BY <1>3 DEF Restart, IdleRestart, ForcedRestart, BeginRestart, Stop, RestartJoins, EndStop,
                ReadEnd, turn
  <2>3. \A t \in Turns : row'[t] = "ended" => row[t] = "ended"
    BY <2>2 DEF WriteOff
  <2> QED
    BY <2>1, <2>3, LineFrame
<1>4. CASE \E d \in Children : Exits(d) \/ Notice(d)
  <2>1. UNCHANGED <<pipe, host, row, server, resolver>>
    BY <1>4 DEF Exits, Notice, turn, question
  <2> QED
    BY <2>1, LineFrame
<1>5. ASSUME NEW u \in Turns, Resolver(u) \/ Expires(u) \/ Answer(u) \/ AnswerTooLate(u)
      PROVE  LineFacts(c)'
  <2>1. UNCHANGED <<pipe, host>>
    BY <1>5 DEF Resolver, ResolverBegins, Timer, AutoDecline, PassOn, GiveUp, Expires, Answer,
                AnswerTooLate, turn
  <2>2. CASE AutoDecline(u) \/ PassOn(u)
    <3>1. \E what, s : Respond(u, what, s)
      BY <2>2 DEF AutoDecline, PassOn
    <3>2. \/ row' = row
          \/ row' = [row EXCEPT ![u] = IF @ = "waiting" THEN "running" ELSE @]
      BY <3>1 DEF Respond
    <3>3. \/ server' = server
          \/ server' = [server EXCEPT ![u] =
                         IF process = host[u] /\ @ = "asking" THEN "live" ELSE @]
      BY <3>1 DEF Respond
    <3>4. resolver[u] # "none" /\ \A t \in Turns \ {u} : resolver'[t] = resolver[t]
      BY <1>a, <2>2 DEF AutoDecline, Declines, PassOn, AskTypes
    <3>5. \A t \in Turns : row'[t] = "ended" => row[t] = "ended"
      BY <1>a, <3>2 DEF TurnTypes
    <3>6. \A t \in Turns : server'[t] = server[t] \/ (t = u /\ server[t] = "asking")
      BY <1>a, <3>3 DEF TurnTypes
    <3> QED
      BY <2>1, <3>4, <3>5, <3>6, LineFrame
  <2>3. CASE ~(AutoDecline(u) \/ PassOn(u))
    <3>1. UNCHANGED <<row, server>>
      BY <1>5, <2>3 DEF Resolver, ResolverBegins, Timer, GiveUp, Expires, Answer,
                        AnswerTooLate, turn
    <3>2. \/ resolver' = resolver
          \/ resolver[u] # "none" /\ \E s : resolver' = [resolver EXCEPT ![u] = s]
      <4>1. CASE ResolverBegins(u)
        BY <4>1 DEF ResolverBegins
      <4>2. CASE ~ResolverBegins(u)
        BY <1>5, <2>3, <4>2 DEF Resolver, Timer, GiveUp, Expires, Answer, AnswerTooLate
      <4> QED
        BY <4>1, <4>2
    <3>3. \A t \in Turns : resolver[t] = "none" => resolver'[t] = "none"
      BY <1>a, <3>2 DEF AskTypes
    <3> QED
      BY <2>1, <3>1, <3>3, LineFrame
  <2> QED
    BY <2>2, <2>3
<1>6. CASE UNCHANGED vars
  BY <1>6, LineFrame DEF vars, turn, question
<1>7. CASE Next
  BY <1>1, <1>2, <1>3, <1>4, <1>5, <1>7 DEF Next, Reader
<1> QED
  BY <1>6, <1>7

\* Lines of a turn that neither ended nor asked before.
LEMMA WrittenLines ==
  ASSUME ServerInv, NEW u \in Turns, host[u] \in Children, NEW lines \in Seq(LineRow),
         Write(host[u], lines), server[u] \in {"none", "live"},
         \A i \in 1..Len(lines) :
           /\ lines[i].turn = u
           /\ lines[i].what = "ended" => i = Len(lines) /\ server'[u] = "over"
           /\ lines[i].what = "ask" =>
                i = Len(lines) /\ server'[u] = "asking" /\ resolver[u] = "none",
         \A t \in Turns \ {u} : server'[t] = server[t],
         UNCHANGED <<host, row, resolver>>,
         NEW c \in Children
  PROVE  LineFacts(c)'
<1>a. /\ pipe \in [Children -> Seq(LineRow)] /\ LineFacts(c)
      /\ TurnFacts(u)
  BY TypeParts DEF ServerInv
<1>b. \A i \in 1..Len(pipe[c]) : pipe[c][i].turn \in Turns
  BY LinesOfTurns
<1>1. CASE c # host[u]
  <2>1. pipe'[c] = pipe[c]
    BY <1>a, <1>1 DEF Write
  <2>2. ASSUME NEW i \in 1..Len(pipe[c]) PROVE LineIsTrue(c, pipe[c][i])'
    <3>1. LineIsTrue(c, pipe[c][i]) /\ pipe[c][i].turn \in Turns
      BY <1>a, <1>b DEF LineFacts
    <3>2. pipe[c][i].turn # u
      BY <1>1, <3>1 DEF LineIsTrue
    <3>3. server'[pipe[c][i].turn] = server[pipe[c][i].turn]
      BY <3>1, <3>2
    <3> QED
      BY <2>1, <3>1, <3>3 DEF LineIsTrue
  <2> QED
    BY <1>a, <2>1, <2>2 DEF LineFacts
<1>2. CASE c = host[u]
  <2> DEFINE n == Len(pipe[c])
  <2>1. pipe'[c] = pipe[c] \o lines
    BY <1>a, <1>2 DEF Write
  <2>2. /\ n \in Nat /\ Len(lines) \in Nat
        /\ Len(pipe'[c]) = n + Len(lines)
        /\ \A i \in 1..n : pipe'[c][i] = pipe[c][i]
        /\ \A i \in n+1..n+Len(lines) : pipe'[c][i] = lines[i - n] /\ i - n \in 1..Len(lines)
    BY <1>a, <2>1, ConcatProperties, LenProperties
  <2>3. row[u] # "ended"
    BY <1>a DEF TurnFacts
  <2>4. ASSUME NEW i \in 1..n
        PROVE  /\ LineIsTrue(c, pipe[c][i])
               /\ pipe[c][i].turn = u => pipe[c][i].what \notin {"ended", "ask"}
    <3>1. LineIsTrue(c, pipe[c][i])
      BY <1>a DEF LineFacts
    <3> QED
      BY <3>1 DEF LineIsTrue
  <2>5. \A i \in n+1..n+Len(lines) :
          /\ pipe'[c][i].turn = u
          /\ pipe'[c][i].what = "ended" => i = n + Len(lines) /\ server'[u] = "over"
          /\ pipe'[c][i].what = "ask" =>
               i = n + Len(lines) /\ server'[u] = "asking" /\ resolver[u] = "none"
    <3>1. ASSUME NEW i \in n+1..n+Len(lines)
          PROVE  /\ pipe'[c][i].turn = u
                 /\ pipe'[c][i].what = "ended" => i = n + Len(lines) /\ server'[u] = "over"
                 /\ pipe'[c][i].what = "ask" =>
                      i = n + Len(lines) /\ server'[u] = "asking" /\ resolver[u] = "none"
      <4> DEFINE k == i - n
      <4>1. pipe'[c][i] = lines[k] /\ k \in 1..Len(lines) /\ (k = Len(lines) => i = n + Len(lines))
        BY <2>2
      <4> HIDE DEF k, n
      <4> QED
        BY <4>1
    <3> QED
      BY <3>1
  <2>6. \A i, j \in 1..n : i < j /\ pipe[c][i].turn = pipe[c][j].turn =>
          /\ pipe[c][i].what # "ended"
          /\ pipe[c][i].what = "ask" => pipe[c][j].what # "ask"
    BY <1>a DEF LineFacts
  <2> HIDE DEF n
  <2>7. ASSUME NEW i \in 1..Len(pipe'[c]) PROVE LineIsTrue(c, pipe[c][i])'
    <3>1. CASE i \in 1..n
      <4>1. LineIsTrue(c, pipe[c][i])
        BY <2>4, <3>1
      <4>2. pipe'[c][i] = pipe[c][i]
        BY <2>2, <3>1
      <4>3. pipe[c][i].turn = u => pipe[c][i].what \notin {"ended", "ask"}
        BY <2>4, <3>1
      <4>4. pipe[c][i].turn \in Turns
        BY <1>b, <3>1 DEF n
      <4> QED
        BY <4>1, <4>2, <4>3, <4>4 DEF LineIsTrue
    <3>2. CASE i \in n+1..n+Len(lines)
      BY <1>2, <2>3, <2>5, <3>2 DEF LineIsTrue
    <3> QED
      BY <2>2, <3>1, <3>2
  <2>8. ASSUME NEW i \in 1..Len(pipe'[c]), NEW j \in 1..Len(pipe'[c]),
               i < j, pipe'[c][i].turn = pipe'[c][j].turn
        PROVE  /\ pipe'[c][i].what # "ended"
               /\ pipe'[c][i].what = "ask" => pipe'[c][j].what # "ask"
    <3>1. CASE i \in 1..n /\ j \in 1..n
      BY <2>2, <2>6, <2>8, <3>1
    <3>2. CASE i \in 1..n /\ j \in n+1..n+Len(lines)
      BY <2>2, <2>4, <2>5, <2>8, <3>2
    <3>3. CASE i \in n+1..n+Len(lines)
      <4>1. i # n + Len(lines)
        BY <2>2, <2>8
      <4> QED
        BY <2>5, <3>3, <4>1
    <3> QED
      BY <2>2, <2>8, <3>1, <3>2, <3>3
  <2> QED
    BY <2>7, <2>8 DEF LineFacts
<1> QED
  BY <1>1, <1>2

\* A child writes true lines.
LEMMA ServerKeepsLines ==
  ASSUME ServerInv, NEW u \in Turns, Server(u), NEW c \in Children
  PROVE  LineFacts(c)'
<1>a. TurnTypes /\ AskTypes /\ TurnFacts(u) /\ QuestionFacts(u)
  BY TypeParts DEF ServerInv
<1>1. /\ host[u] \in Children /\ server[u] \in {"none", "live"}
      /\ UNCHANGED <<host, row, resolver>>
      /\ \A t \in Turns \ {u} : server'[t] = server[t]
  BY <1>a DEF Server, Accepts, Refuses, Asks, Ends, TurnFacts, question, TurnTypes
<1>2. \A what \in {"reply", "error", "started", "ended", "ask"} :
        Line(what, u) \in LineRow /\ Line(what, u).what = what /\ Line(what, u).turn = u
  BY DEF Line, LineRow
<1>3. CASE Accepts(u)
  <2>1. PICK x, y \in {"reply", "started"} : Write(host[u], <<Line(x, u), Line(y, u)>>)
    BY <1>3 DEF Accepts
  <2> DEFINE lines == <<Line(x, u), Line(y, u)>>
  <2>2. lines \in Seq(LineRow) /\ Len(lines) = 2
    BY <1>2
  <2>3. \A i \in 1..Len(lines) :
          lines[i].turn = u /\ lines[i].what \in {"reply", "started"}
    BY <1>2, <2>2
  <2> HIDE DEF lines
  <2> QED
    BY <1>1, <2>1, <2>2, <2>3, WrittenLines DEF lines
<1>4. ASSUME NEW what \in {"error", "ask", "ended"}, Write(host[u], <<Line(what, u)>>),
             what = "ended" => server'[u] = "over",
             what = "ask" => server'[u] = "asking" /\ resolver[u] = "none"
      PROVE  LineFacts(c)'
  <2> DEFINE lines == <<Line(what, u)>>
  <2>2. lines \in Seq(LineRow) /\ Len(lines) = 1
    BY <1>2
  <2>3. \A i \in 1..Len(lines) : i = 1 /\ lines[i].turn = u /\ lines[i].what = what
    BY <1>2, <2>2
  <2>4. Write(host[u], lines)
    BY <1>4
  <2> HIDE DEF lines
  <2> QED
    BY <1>1, <1>4, <2>2, <2>3, <2>4, WrittenLines
<1>5. CASE Refuses(u)
  BY <1>4, <1>5 DEF Refuses
<1>6. CASE Asks(u)
  <2>1. resolver[u] = "none" /\ server'[u] = "asking"
    BY <1>a, <1>6 DEF Asks, QuestionFacts, TurnTypes
  <2> QED
    BY <1>4, <1>6, <2>1 DEF Asks
<1>7. CASE Ends(u)
  <2>1. server'[u] = "over"
    BY <1>a, <1>7 DEF Ends, TurnTypes
  <2> QED
    BY <1>4, <1>7, <2>1 DEF Ends
<1> QED
  BY <1>3, <1>5, <1>6, <1>7 DEF Server

\* The line that is read goes; the others are still true.
LEMMA ReadLineKeepsLines ==
  ASSUME ServerInv, NEW r \in Children, ReadLine(r), NEW c \in Children
  PROVE  LineFacts(c)'
<1> DEFINE line == Head(pipe[r])
<1>a. /\ TurnTypes /\ AskTypes /\ pipe \in [Children -> Seq(LineRow)] /\ LineFacts(c)
      /\ c # None
  BY TypeParts DEF ServerInv, Children, None
<1>b. \A i \in 1..Len(pipe[c]) : pipe[c][i].turn \in Turns
  BY LinesOfTurns
<1>1. /\ pipe[r] # <<>> /\ pipe[r] \in Seq(LineRow) /\ pipe' = [pipe EXCEPT ![r] = Tail(@)]
      /\ line \in LineRow /\ line = pipe[r][1] /\ host[line.turn] = r
  BY ReadOfProcess
<1>2. /\ UNCHANGED <<host, server>>
      /\ ReadReply(line) \/ ReadEvent(line) \/ ReadAsk(line)
  BY ReadOfProcess DEF ReadLine
<1> HIDE DEF line
<1>3. line.turn \in Turns
  BY <1>1 DEF LineRow
<1>4. /\ \A t \in Turns \ {line.turn} : row'[t] = row[t] /\ resolver'[t] = resolver[t]
      /\ line.what # "ended" /\ row[line.turn] # "ended" => row'[line.turn] # "ended"
      /\ line.what # "ask" => resolver' = resolver
  BY <1>a, <1>2, <1>3 DEF ReadReply, ReadEvent, ReadAsk, TurnTypes, AskTypes, question
<1>5. CASE c # r
  <2>1. pipe'[c] = pipe[c]
    BY <1>a, <1>1, <1>5
  <2>2. ASSUME NEW i \in 1..Len(pipe[c]) PROVE LineIsTrue(c, pipe[c][i])'
    <3>1. LineIsTrue(c, pipe[c][i]) /\ pipe[c][i].turn \in Turns
      BY <1>a, <1>b DEF LineFacts
    <3>2. pipe[c][i].turn # line.turn
      BY <1>1, <1>5, <3>1 DEF LineIsTrue
    <3>3. /\ row'[pipe[c][i].turn] = row[pipe[c][i].turn]
          /\ resolver'[pipe[c][i].turn] = resolver[pipe[c][i].turn]
      BY <1>4, <3>1, <3>2
    <3> QED
      BY <1>2, <2>1, <3>1, <3>3 DEF LineIsTrue
  <2> QED
    BY <1>a, <2>1, <2>2 DEF LineFacts
<1>6. CASE c = r
  <2>1. /\ pipe'[c] = Tail(pipe[c]) /\ Len(pipe[c]) \in Nat /\ Len(pipe[c]) > 0
        /\ Len(pipe'[c]) = Len(pipe[c]) - 1
        /\ \A i \in 1..Len(pipe'[c]) : pipe'[c][i] = pipe[c][i + 1] /\ i + 1 \in 2..Len(pipe[c])
    BY <1>a, <1>1, <1>6, HeadTailProperties, LenProperties, EmptySeq
  <2>2. LineIsTrue(c, line)
    BY <1>a, <1>1, <1>6, <2>1 DEF LineFacts
  <2>3. ASSUME NEW i \in 2..Len(pipe[c]), pipe[c][i].turn = line.turn
        PROVE  line.what # "ended" /\ (line.what = "ask" => pipe[c][i].what # "ask")
    BY <1>a, <1>1, <1>6, <2>1, <2>3 DEF LineFacts
  <2>4. ASSUME NEW i \in 2..Len(pipe[c])
        PROVE  /\ host'[pipe[c][i].turn] = c
               /\ row'[pipe[c][i].turn] # "ended"
               /\ pipe[c][i].what = "ended" => server'[pipe[c][i].turn] = "over"
               /\ pipe[c][i].what = "ask" => /\ server'[pipe[c][i].turn] = "asking"
                                            /\ resolver'[pipe[c][i].turn] = "none"
    <3>1. LineIsTrue(c, pipe[c][i]) /\ pipe[c][i].turn \in Turns
      BY <1>a, <1>b, <2>1 DEF LineFacts
    <3>2. CASE pipe[c][i].turn # line.turn
      BY <1>2, <1>4, <3>1, <3>2 DEF LineIsTrue
    <3>3. CASE pipe[c][i].turn = line.turn
      BY <1>2, <1>4, <2>2, <2>3, <3>1, <3>3 DEF LineIsTrue
    <3> QED
      BY <3>2, <3>3
  <2>5. ASSUME NEW i \in 1..Len(pipe'[c]) PROVE LineIsTrue(c, pipe[c][i])'
    BY <2>1, <2>4 DEF LineIsTrue
  <2>6. ASSUME NEW i \in 1..Len(pipe'[c]), NEW j \in 1..Len(pipe'[c]),
               i < j, pipe'[c][i].turn = pipe'[c][j].turn
        PROVE  /\ pipe'[c][i].what # "ended"
               /\ pipe'[c][i].what = "ask" => pipe'[c][j].what # "ask"
    <3>1. /\ i + 1 \in 1..Len(pipe[c]) /\ j + 1 \in 1..Len(pipe[c]) /\ i + 1 < j + 1
          /\ pipe'[c][i] = pipe[c][i + 1] /\ pipe'[c][j] = pipe[c][j + 1]
      BY <2>1, <2>6
    <3> QED
      BY <1>a, <2>6, <3>1 DEF LineFacts
  <2> QED
    BY <2>5, <2>6 DEF LineFacts
<1> QED
  BY <1>5, <1>6

\* Every step keeps the facts about lines.
LEMMA NextLines ==
  ASSUME ServerInv, [Next]_vars, NEW c \in Children
  PROVE  LineFacts(c)'
<1>1. CASE \E t \in Turns : Server(t)
  BY <1>1, ServerKeepsLines
<1>2. CASE \E r \in Children : ReadLine(r)
  BY <1>2, ReadLineKeepsLines
<1> QED
  BY <1>1, <1>2, QuietLines

-----------------------------------------------------------------------------
(* The theorems.                                                           *)

\* Nothing was asked, written or answered at the start.
LEMMA InitServer == Init => ServerInv
<1> SUFFICES ASSUME Init PROVE ServerInv
  OBVIOUS
<1> USE BoundsAssumption
<1>1. TypeOK
  <2>1. pipe \in [Children -> Seq([what : {"reply", "error", "started", "ended", "ask"},
                                  turn : Turns])]
    BY EmptySeq DEF Init
  <2> QED
    BY <2>1 DEF Init, TypeOK, None, Places
<1>2. ChildInv
  BY DEF Init, ChildInv, None, Children
<1>3. \A t \in Turns : TurnFacts(t) /\ QuestionFacts(t)
  BY DEF Init, TurnFacts, QuestionFacts, None, Tasks, Active
<1>4. \A c \in Children : LineFacts(c)
  <2>1. \A c \in Children : Len(pipe[c]) = 0
    BY EmptySeq DEF Init
  <2> QED
    BY <2>1 DEF LineFacts
<1> QED
  BY <1>1, <1>2, <1>3, <1>4 DEF ServerInv

\* The invariant is inductive.
LEMMA NextServer == ASSUME Orderly PROVE ServerInv /\ [Next]_vars => ServerInv'
<1> SUFFICES ASSUME ServerInv, [Next]_vars PROVE ServerInv'
  OBVIOUS
<1>1. TypeOK'
  BY NextTypes
<1>2. ChildInv'
  BY <1>1, NextChild
<1> QED
  BY <1>1, <1>2, NextTurns, NextQuestions, NextLines DEF ServerInv

\* Every variable of the client and its server keeps its type, generations stay
\* natural numbers and children within those that were spawned.
THEOREM ClientTypes == ASSUME Orderly PROVE Spec => []TypeOK
<1>1. ServerInv => TypeOK
  BY DEF ServerInv
<1>2. ServerInv /\ [Next]_vars => ServerInv'
  BY NextServer
<1> QED
  BY <1>1, <1>2, InitServer, PTL DEF Spec

\* One child at a time, started by one task, and exits noticed after the end of
\* the output was read: the database follows the servers.
THEOREM RowsFollowServers == ASSUME Orderly PROVE Spec => []TurnsFollowTheirServers
<1>1. ServerInv => TurnsFollowTheirServers
  BY DEF ServerInv, TurnFacts, TurnsFollowTheirServers, Heard
<1>2. ServerInv /\ [Next]_vars => ServerInv'
  BY NextServer
<1> QED
  BY <1>1, <1>2, InitServer, PTL DEF Spec

\* Under the same premises no app-server is left behind that no restart stops.
THEOREM OneAppServer == ASSUME Orderly PROVE Spec => []NoStrayServer
<1>1. ServerInv => NoStrayServer
  BY OneChild DEF NoStrayServer
<1>2. ServerInv /\ [Next]_vars => ServerInv'
  BY NextServer
<1> QED
  BY <1>1, <1>2, InitServer, PTL DEF Spec

\* ... a turn that ended or was written off is never active again,
THEOREM EndedTurnsEnd == ASSUME Orderly PROVE Spec => EndedTurnsStayEnded
<1>1. ServerInv /\ [Next]_vars =>
        [\A t \in Turns : row[t] \in Terminal => row'[t] \in Terminal]_vars
  <2> SUFFICES ASSUME ServerInv, [Next]_vars, NEW t \in Turns, row[t] \in Terminal
               PROVE  row'[t] \in Terminal
    OBVIOUS
  <2>a. TurnTypes /\ TurnFacts(t)
    BY TypeParts DEF ServerInv
  <2>1. CASE UNCHANGED vars
    BY <2>1 DEF vars, turn
  <2>2. ASSUME NEW k \in Tasks, Task(k) PROVE row' = row
    BY <2>2 DEF Task, EnterStart, SpawnDone, SpawnFails, Greeted, TimesOut, turn
  <2>3. ASSUME NEW u \in Turns, Caller(u) PROVE row'[t] = row[t]
    BY <2>3, <2>a DEF Caller, Send, Register, Registered, TurnTypes
  <2>4. CASE Restart \/ \E r \in Children : ReadEnd(r)
    <3>1. WriteOff \/ row' = row
      BY <2>4 DEF Restart, IdleRestart, ForcedRestart, BeginRestart, Stop, RestartJoins, EndStop,
                  ReadEnd, turn
    <3> QED
      BY <3>1 DEF WriteOff, Terminal
  <2>5. ASSUME NEW u \in Turns, Server(u) PROVE row' = row
    BY <2>5 DEF Server, Accepts, Refuses, Asks, Ends
  <2>6. ASSUME NEW u \in Turns, Resolver(u) \/ Expires(u) \/ Answer(u) \/ AnswerTooLate(u)
        PROVE  row'[t] = row[t]
    <3>1. CASE AutoDecline(u) \/ PassOn(u)
      <4>1. \/ row' = row
            \/ row' = [row EXCEPT ![u] = IF @ = "waiting" THEN "running" ELSE @]
        BY <3>1 DEF AutoDecline, PassOn, Respond
      <4> QED
        BY <2>a, <4>1 DEF TurnTypes, Terminal
    <3>2. CASE ~(AutoDecline(u) \/ PassOn(u))
      BY <2>6, <3>2 DEF Resolver, ResolverBegins, Timer, GiveUp, Expires, Answer,
                        AnswerTooLate, turn
    <3> QED
      BY <3>1, <3>2
  <2>7. ASSUME NEW c \in Children, Exits(c) \/ Notice(c) PROVE row' = row
    BY <2>7 DEF Exits, Notice, turn
  <2>8. ASSUME NEW r \in Children, ReadLine(r) PROVE row'[t] = row[t]
    <3> DEFINE line == Head(pipe[r])
    <3>1. ReadReply(line) \/ ReadEvent(line) \/ ReadAsk(line)
      BY <2>8, ReadOfProcess DEF ReadLine
    <3>2. line = pipe[r][1] /\ LineIsTrue(r, pipe[r][1]) /\ Heard(r)
      BY <2>8, ReadOfProcess DEF ServerInv, LineFacts
    <3> HIDE DEF line
    <3>3. line.turn # t
      <4>1. LineIsTrue(r, line)
        BY <3>2
      <4> QED
        BY <2>a, <3>2, <4>1 DEF LineIsTrue, TurnFacts, Terminal
    <3> QED
      BY <2>a, <3>1, <3>3 DEF ReadReply, ReadEvent, ReadAsk, TurnTypes
  <2> QED
    BY <2>1, <2>2, <2>3, <2>4, <2>5, <2>6, <2>7, <2>8 DEF Next, Reader
<1>2. ServerInv /\ [Next]_vars => ServerInv'
  BY NextServer
<1> QED
  BY <1>1, <1>2, InitServer, PTL DEF Spec, EndedTurnsStayEnded

\* ... what a client answered is what the server that asked hears,
THEOREM AnswersArrive == ASSUME Orderly PROVE Spec => AnswersReachTheirAsker
<1> DEFINE Reached ==
      \A t \in Turns :
        /\ ask[t] = "answered" =>
             ask'[t] = "answered" \/ (ask'[t] = "failed" /\ child[host[t]] # "alive")
        /\ told'[t] \subseteq told[t] \cup
             {<<host[t], IF ask[t] = "answered" THEN "answer" ELSE "default">>}
<1>1. ServerInv /\ [Next]_vars => [Reached]_vars
  <2> SUFFICES ASSUME ServerInv, [Next]_vars, NEW t \in Turns
               PROVE  /\ \/ ask[t] = "answered" => ask'[t] = "answered"
                         \/ ask'[t] = "failed" /\ child[host[t]] # "alive"
                      /\ told'[t] \subseteq told[t] \cup
                           {<<host[t], IF ask[t] = "answered" THEN "answer" ELSE "default">>}
    OBVIOUS
  <2>a. /\ AskTypes /\ TurnTypes /\ TurnFacts(t) /\ QuestionFacts(t)
    BY TypeParts DEF ServerInv
  <2>1. CASE UNCHANGED question
    BY <2>1 DEF question
  <2>2. ASSUME told' = told, Orphan PROVE told' = told /\ (ask[t] = "answered" => ask'[t] = "answered")
    BY <2>2 DEF Orphan, OrphanRows
  <2>3. CASE Restart \/ \E r \in Children : ReadEnd(r)
    <3>1. UNCHANGED question \/ (Orphan /\ told' = told)
      BY <2>3 DEF Restart, IdleRestart, ForcedRestart, BeginRestart, Stop, RestartJoins, EndStop,
                  ReadEnd
    <3> QED
      BY <2>1, <2>2, <3>1
  <2>4. ASSUME NEW k \in Tasks, Task(k) PROVE UNCHANGED question
    BY <2>4 DEF Task, EnterStart, SpawnDone, SpawnFails, Greeted, TimesOut
  <2>5. ASSUME NEW u \in Turns, Caller(u) \/ Server(u) PROVE UNCHANGED question
    BY <2>5 DEF Caller, Send, Register, Server, Accepts, Refuses, Asks, Ends
  <2>6. ASSUME NEW c \in Children, Exits(c) \/ Notice(c) PROVE UNCHANGED question
    BY <2>6 DEF Exits, Notice
  <2>7. ASSUME NEW r \in Children, ReadLine(r)
        PROVE  told' = told /\ (ask[t] = "answered" => ask'[t] = "answered")
    <3> DEFINE line == Head(pipe[r])
    <3>1. ReadReply(line) \/ ReadEvent(line) \/ ReadAsk(line)
      BY <2>7, ReadOfProcess DEF ReadLine
    <3>2. line = pipe[r][1] /\ LineIsTrue(r, pipe[r][1])
      BY <2>7, ReadOfProcess DEF ServerInv, LineFacts
    <3> HIDE DEF line
    <3>3. LineIsTrue(r, line)
      BY <3>2
    <3>4. CASE ReadReply(line) \/ ReadEvent(line)
      BY <3>4 DEF ReadReply, ReadEvent, question
    <3>5. CASE ReadAsk(line)
      <4>1. line.turn = t => ask[t] # "answered"
        BY <2>a, <3>3, <3>5 DEF ReadAsk, LineIsTrue, QuestionFacts
      <4> QED
        BY <2>a, <3>5, <4>1 DEF ReadAsk, Create, AskTypes
    <3> QED
      BY <3>1, <3>4, <3>5
  <2>8. ASSUME NEW u \in Turns, u # t,
               Resolver(u) \/ Expires(u) \/ Answer(u) \/ AnswerTooLate(u)
        PROVE  told'[t] = told[t] /\ ask'[t] = ask[t]
    <3>1. CASE AutoDecline(u) \/ PassOn(u)
      BY <2>8, <3>1, RespondKeeps DEF AutoDecline, PassOn
    <3>2. CASE ~(AutoDecline(u) \/ PassOn(u))
      BY <2>a, <2>8, <3>2 DEF Resolver, ResolverBegins, Timer, GiveUp, Expires, Answer,
                              AnswerTooLate, AskTypes
    <3> QED
      BY <3>1, <3>2
  <2>9. ASSUME Resolver(t) \/ Expires(t) \/ Answer(t) \/ AnswerTooLate(t)
        PROVE  /\ \/ ask[t] = "answered" => ask'[t] = "answered"
                  \/ ask'[t] = "failed" /\ child[host[t]] # "alive"
               /\ told'[t] \subseteq told[t] \cup
                    {<<host[t], IF ask[t] = "answered" THEN "answer" ELSE "default">>}
    <3>1. CASE AutoDecline(t)
      <4>1. resolver[t] = "timed" /\ Respond(t, "default", "auto_declined")
        BY <3>1 DEF AutoDecline, Declines
      <4>2. ask[t] # "answered" /\ process = host[t]
        BY <2>a, <4>1 DEF QuestionFacts
      <4>3. told' = told \/ told' = [told EXCEPT ![t] = @ \cup {<<process, "default">>}]
        BY <4>1 DEF Respond
      <4> QED
        BY <2>a, <4>2, <4>3 DEF AskTypes
    <3>2. CASE PassOn(t)
      <4>1. resolver[t] = "waits" /\ future[t] = "answer" /\ Respond(t, "answer", ask[t])
        BY <3>2 DEF PassOn
      <4>2. ask[t] = "answered" /\ process = host[t] /\ host[t] # None /\ host[t] \in Children
        BY <2>a, <4>1 DEF QuestionFacts, TurnFacts
      <4>3. told' = told \/ told' = [told EXCEPT ![t] = @ \cup {<<process, "answer">>}]
        BY <4>1 DEF Respond
      <4>4. \/ ask' = [ask EXCEPT ![t] = ask[t]]
            \/ ask' = [ask EXCEPT ![t] = "failed"] /\ child[process] # "alive"
        BY <4>1, <4>2 DEF Respond
      <4>5. \/ ask'[t] = "answered"
            \/ ask'[t] = "failed" /\ child[host[t]] # "alive"
        BY <2>a, <4>2, <4>4 DEF AskTypes
      <4>6. told'[t] \subseteq told[t] \cup {<<host[t], "answer">>}
        BY <2>a, <4>2, <4>3 DEF AskTypes
      <4> QED
        BY <4>2, <4>5, <4>6
    <3>3. CASE ~(AutoDecline(t) \/ PassOn(t))
      <4>1. told' = told
        BY <2>9, <3>3 DEF Resolver, ResolverBegins, Timer, GiveUp, Expires, Answer, AnswerTooLate
      <4>2. ask[t] = "answered" => ask'[t] = "answered"
        BY <2>a, <2>9, <3>3 DEF Resolver, ResolverBegins, Timer, GiveUp, Expires, Answer, MayAnswer,
                                AnswerTooLate, AskTypes, QuestionFacts
      <4> QED
        BY <4>1, <4>2
    <3> QED
      BY <3>1, <3>2, <3>3
  <2>10. CASE Next
    BY <2>1, <2>3, <2>4, <2>5, <2>6, <2>7, <2>8, <2>9, <2>10 DEF Next, Reader
  <2>11. CASE UNCHANGED vars
    BY <2>1, <2>11 DEF vars
  <2> QED
    BY <2>10, <2>11
<1>2. ServerInv /\ [Next]_vars => ServerInv'
  BY NextServer
<1> QED
  BY <1>1, <1>2, InitServer, PTL DEF Spec, AnswersReachTheirAsker

\* ... and a restart that waits for idleness stops no server on which a turn
\* runs that some task was told had started.
THEOREM IdleRestartSpares == ASSUME Orderly PROVE Spec => IdleRestartSparesWork
<1> DEFINE Spared ==
      IdleRestart =>
        \A t \in Turns :
          call[t] = "over" /\ server[t] # "over" /\ child[host[t]] = "alive" => host[t] # process
<1>1. ServerInv => [Spared]_vars
  <2> SUFFICES ASSUME ServerInv, IdleRestart, NEW t \in Turns, call[t] = "over",
                      server[t] # "over", child[host[t]] = "alive"
               PROVE  FALSE
    OBVIOUS
  <2>a. TurnTypes /\ TurnFacts(t)
    BY TypeParts DEF ServerInv
  <2>1. row[t] \notin Active /\ call[Admin] = "idle"
    BY DEF IdleRestart, Busy, BeginRestart
  <2>2. row[t] \in Terminal
    BY <2>a, <2>1 DEF TurnFacts, TurnTypes
  <2> QED
    BY <2>a, <2>1, <2>2 DEF TurnFacts, Terminal
<1>2. ServerInv /\ [Next]_vars => ServerInv'
  BY NextServer
<1> QED
  BY <1>1, <1>2, InitServer, PTL DEF Spec, IdleRestartSparesWork
=============================================================================

---------------------------- MODULE RecoveryProofs ----------------------------
(***************************************************************************)
(* The links between a workflow and its retries agree, and a replacement   *)
(* does not plan beside its original, for any number of agents, workflows, *)
(* repairs and client_request_ids.                                         *)
(***************************************************************************)
EXTENDS Recovery, TLAPS, SequenceTheorems, FiniteSetTheorems

Keys == (RetryKeys \cup {"start", "default"}) \X Nat
FlowRow == [phase : {"planning"} \cup RetryableStates, op : {"running", "failed", "completed", "unknown"},
            turn : {"none", "running", "ended"}, key : Keys, replaces : Nat, replacedBy : Nat]

RecoveryTypes ==
  /\ flows \in Seq(FlowRow) /\ Len(flows) >= 1
  /\ agent \in [Agents -> [pc : {"idle", "go"}, flow : DOMAIN flows, action : Repairs]]
  /\ appLive \in BOOLEAN /\ seenLive \in BOOLEAN /\ misjudged \in BOOLEAN

\* A workflow was started by a request id that tells what it is the retry of,
\* never of itself.
KeyInv ==
  \A f \in DOMAIN flows :
    /\ \/ flows[f].key = <<"start", 0>>
       \/ \E k \in RetryKeys : flows[f].key = <<k, 0>>
       \/ \E g \in 1..(f - 1) : flows[f].key = <<"default", g>>
    /\ flows[f].key = <<"start", 0>> => flows[f].replaces = 0
    /\ flows[f].key # <<"start", 0>> =>
         flows[f].replaces \in DOMAIN flows /\ flows[f].replaces # f

LinkInv ==
  \A f \in DOMAIN flows : flows[f].replacedBy # 0 =>
    /\ flows[f].replacedBy \in DOMAIN flows /\ flows[f].replacedBy # f
    /\ flows[flows[f].replacedBy].replaces = f

\* Nothing plans without an app-server, nor with a phase that may be retried,
\* nor once it was replaced.
PlanningInv ==
  \A f \in DOMAIN flows :
    /\ ~appLive => flows[f].turn # "running"
    /\ misjudged \/ flows[f].phase = "planning" \/ flows[f].turn # "running"
    /\ misjudged \/ flows[f].replaces = 0 \/ flows[flows[f].replaces].turn # "running"

RecoveryInv == RecoveryTypes /\ KeyInv /\ LinkInv /\ PlanningInv

-----------------------------------------------------------------------------
(* Steps that touch neither keys nor links                                 *)

SameLinks ==
  /\ DOMAIN flows' = DOMAIN flows
  /\ \A f \in DOMAIN flows : /\ flows'[f].key = flows[f].key
                             /\ flows'[f].replaces = flows[f].replaces
                             /\ flows'[f].replacedBy = flows[f].replacedBy

LEMMA SameLinksKeep ==
  ASSUME RecoveryInv, SameLinks
  PROVE  KeyInv' /\ LinkInv'
<1>1. KeyInv'
  BY DEF RecoveryInv, KeyInv, SameLinks
<1>2. LinkInv'
  BY DEF RecoveryInv, LinkInv, SameLinks
<1> QED
  BY <1>1, <1>2

\* No turn starts and no phase becomes one that may be retried.
LEMMA QuietKeeps ==
  ASSUME RecoveryInv, UNCHANGED <<flows, misjudged>>, appLive' \in BOOLEAN, seenLive' \in BOOLEAN,
         agent' \in [Agents -> [pc : {"idle", "go"}, flow : DOMAIN flows, action : Repairs]],
         appLive' \/ ~appLive
  PROVE  RecoveryInv'
<1>1. SameLinks
  BY DEF SameLinks
<1>2. KeyInv' /\ LinkInv'
  BY <1>1, SameLinksKeep
<1>3. PlanningInv'
  BY DEF RecoveryInv, PlanningInv
<1>4. RecoveryTypes'
  BY DEF RecoveryInv, RecoveryTypes
<1> QED
  BY <1>2, <1>3, <1>4 DEF RecoveryInv

\* One row changes in phase, operation and turn.
LEMMA RowWritten ==
  ASSUME RecoveryTypes, NEW f \in DOMAIN flows, NEW row \in FlowRow,
         row.key = flows[f].key, row.replaces = flows[f].replaces, row.replacedBy = flows[f].replacedBy,
         flows' = [flows EXCEPT ![f] = row]
  PROVE  /\ flows' \in Seq(FlowRow) /\ Len(flows') = Len(flows) /\ SameLinks
         /\ flows'[f] = row /\ \A g \in DOMAIN flows : g # f => flows'[g] = flows[g]
  BY DEF RecoveryTypes, SameLinks

LEMMA PlanEndsKeeps ==
  ASSUME RecoveryInv, NEW f \in DOMAIN flows, NEW outcome \in {"failed", "completed"}, PlanEnds(f, outcome)
  PROVE  RecoveryInv'
<1> DEFINE row == [flows[f] EXCEPT !.turn = "ended", !.op = outcome, !.phase = outcome]
<1>1. RecoveryTypes
  BY DEF RecoveryInv
<1>2. flows[f] \in FlowRow
  BY <1>1 DEF RecoveryTypes
<1>3. /\ row \in FlowRow /\ row.turn = "ended"
      /\ row.key = flows[f].key /\ row.replaces = flows[f].replaces /\ row.replacedBy = flows[f].replacedBy
  BY <1>2 DEF FlowRow, RetryableStates
<1>4. flows' = [flows EXCEPT ![f] = row]
  BY DEF PlanEnds
<1> HIDE DEF row
<1>5. /\ flows' \in Seq(FlowRow) /\ Len(flows') = Len(flows) /\ SameLinks
      /\ flows'[f] = row /\ \A g \in DOMAIN flows : g # f => flows'[g] = flows[g]
  BY <1>1, <1>3, <1>4, RowWritten
<1>6. KeyInv' /\ LinkInv'
  BY <1>5, SameLinksKeep
<1>7. UNCHANGED <<appLive, seenLive, misjudged, agent>>
  BY DEF PlanEnds, WorldOnly
<1>8. RecoveryTypes'
  BY <1>1, <1>5, <1>7 DEF RecoveryTypes, SameLinks
<1>9. \A g \in DOMAIN flows : flows'[g].turn = "running" => flows'[g] = flows[g]
  BY <1>3, <1>5
<1>10. PlanningInv'
  <2>1. \A g \in DOMAIN flows : flows[g].replaces # 0 => flows[g].replaces \in DOMAIN flows
    BY DEF RecoveryInv, KeyInv
  <2> QED
    BY <1>5, <1>7, <1>9, <2>1 DEF RecoveryInv, PlanningInv, SameLinks
<1> QED
  BY <1>6, <1>8, <1>10 DEF RecoveryInv

LEMMA WorkerDiesKeeps ==
  ASSUME RecoveryInv, WorkerDies
  PROVE  RecoveryInv'
<1>1. RecoveryTypes
  BY DEF RecoveryInv
<1>2. \A f \in DOMAIN flows : flows[f] \in FlowRow
  BY <1>1 DEF RecoveryTypes
<1>3. ASSUME NEW f \in DOMAIN flows
      PROVE  /\ flows'[f] \in FlowRow /\ flows'[f].turn # "running" /\ flows'[f].key = flows[f].key
             /\ flows'[f].replaces = flows[f].replaces /\ flows'[f].replacedBy = flows[f].replacedBy
  BY <1>2, <1>3 DEF WorkerDies, FlowRow
<1>4. flows' \in Seq(FlowRow) /\ Len(flows') = Len(flows) /\ DOMAIN flows' = DOMAIN flows
  BY <1>1, <1>3 DEF WorkerDies, RecoveryTypes
<1>5. SameLinks
  BY <1>3, <1>4 DEF SameLinks
<1>6. KeyInv' /\ LinkInv'
  BY <1>5, SameLinksKeep
<1>7. appLive' = FALSE /\ UNCHANGED <<seenLive, misjudged, agent>>
  BY DEF WorkerDies, WorldOnly
<1>8. RecoveryTypes'
  BY <1>1, <1>4, <1>7 DEF RecoveryTypes
<1>9. PlanningInv'
  <2>1. \A g \in DOMAIN flows : flows'[g].replaces # 0 => flows'[g].replaces \in DOMAIN flows
    BY <1>3 DEF RecoveryInv, KeyInv
  <2> QED
    BY <1>3, <1>4, <2>1 DEF PlanningInv
<1> QED
  BY <1>6, <1>8, <1>9 DEF RecoveryInv

LEMMA WorldKeeps ==
  ASSUME RecoveryInv, WorkerStarts \/ HeartbeatExpires \/ HeartbeatReturns \/ TimePasses
  PROVE  RecoveryInv'
<1>1. UNCHANGED <<flows, misjudged, agent>>
  BY DEF WorkerStarts, HeartbeatExpires, HeartbeatReturns, TimePasses, WorldOnly
<1>2. appLive' \in BOOLEAN /\ seenLive' \in BOOLEAN /\ (appLive' \/ ~appLive)
  BY DEF RecoveryInv, RecoveryTypes, WorkerStarts, HeartbeatExpires, HeartbeatReturns, TimePasses, AgentOnly
<1> QED
  BY <1>1, <1>2, QuietKeeps DEF RecoveryInv, RecoveryTypes

\* What an agent that becomes idle, or intends something, may be.
LEMMA AgentMoves ==
  ASSUME RecoveryTypes, NEW a \in Agents, NEW f \in DOMAIN flows, NEW action \in Repairs,
         EndsItsAttempt(a) \/ Intends(a, f, action)
  PROVE  agent' \in [Agents -> [pc : {"idle", "go"}, flow : DOMAIN flows, action : Repairs]]
<1>1. 1 \in DOMAIN flows
  BY DEF RecoveryTypes
<1>2. Idle \in [pc : {"idle", "go"}, flow : DOMAIN flows, action : Repairs]
  BY <1>1 DEF Idle, Repairs
<1>3. [pc |-> "go", flow |-> f, action |-> action] \in [pc : {"idle", "go"}, flow : DOMAIN flows, action : Repairs]
  OBVIOUS
<1> QED
  BY <1>2, <1>3 DEF EndsItsAttempt, Intends, RecoveryTypes

LEMMA AgentsKeep ==
  ASSUME RecoveryInv, NEW a \in Agents,
         \/ \E f \in DOMAIN flows, action \in Repairs : Decides(a, f, action)
         \/ \E f \in DOMAIN flows, surface \in Surfaces : Guided(a, surface, f)
         \/ RepairRefused(a)
  PROVE  RecoveryInv'
<1>1. RecoveryTypes
  BY DEF RecoveryInv
<1>2. 1 \in DOMAIN flows /\ "retry" \in Repairs
  BY <1>1 DEF RecoveryTypes, Repairs
<1>3. agent' \in [Agents -> [pc : {"idle", "go"}, flow : DOMAIN flows, action : Repairs]] /\ RowsUntouched
  BY <1>1, <1>2, AgentMoves DEF Decides, Guided, RepairRefused
<1> QED
  BY <1>1, <1>3, QuietKeeps DEF RowsUntouched, AgentOnly, RecoveryTypes

LEMMA MarkOrphanedKeeps ==
  ASSUME RecoveryInv, NEW a \in Agents, NEW force \in BOOLEAN, MarkOrphaned(a, force)
  PROVE  RecoveryInv'
<1> DEFINE f == agent[a].flow
           row == [flows[f] EXCEPT !.op = IF @ = "running" THEN "unknown" ELSE @,
                                   !.phase = IF @ \in {"completed", "failed"} THEN @ ELSE "orphaned"]
<1>1. RecoveryTypes /\ f \in DOMAIN flows
  BY DEF RecoveryInv, RecoveryTypes
<1>2. flows[f] \in FlowRow
  BY <1>1 DEF RecoveryTypes
<1>3. /\ row \in FlowRow /\ row.turn = flows[f].turn
      /\ row.key = flows[f].key /\ row.replaces = flows[f].replaces /\ row.replacedBy = flows[f].replacedBy
  BY <1>2 DEF FlowRow, RetryableStates
<1>4. flows' = [flows EXCEPT ![f] = row]
  BY DEF MarkOrphaned, Marked
<1> HIDE DEF row
<1>5. /\ flows' \in Seq(FlowRow) /\ Len(flows') = Len(flows) /\ SameLinks
      /\ flows'[f] = row /\ \A g \in DOMAIN flows : g # f => flows'[g] = flows[g]
  BY <1>1, <1>3, <1>4, RowWritten
<1>6. KeyInv' /\ LinkInv'
  BY <1>5, SameLinksKeep
<1>7. /\ UNCHANGED <<appLive, seenLive>> /\ EndsItsAttempt(a) /\ (force \/ ~seenLive)
      /\ misjudged' = (misjudged \/ (PlanRuns(f) /\ (force \/ ~seenLive)))
  BY DEF MarkOrphaned, AgentOnly, MayMark
<1>8. misjudged' \in BOOLEAN /\ (misjudged => misjudged') /\ (PlanRuns(f) => misjudged')
  BY <1>7, Zenon
<1>9. RecoveryTypes'
  <2>1. agent' \in [Agents -> [pc : {"idle", "go"}, flow : DOMAIN flows, action : Repairs]]
    BY <1>1, <1>7, AgentMoves DEF Repairs
  <2> QED
    BY <1>1, <1>5, <1>7, <1>8, <2>1 DEF RecoveryTypes, SameLinks
<1>10. \A g \in DOMAIN flows : flows'[g].turn = flows[g].turn
  BY <1>3, <1>5
<1>11. PlanningInv'
  <2>1. \A g \in DOMAIN flows : flows[g].replaces # 0 => flows[g].replaces \in DOMAIN flows
    BY DEF RecoveryInv, KeyInv
  <2>2. ASSUME NEW g \in DOMAIN flows
        PROVE  /\ ~appLive' => flows'[g].turn # "running"
               /\ misjudged' \/ flows'[g].replaces = 0 \/ flows'[flows'[g].replaces].turn # "running"
    BY <1>5, <1>7, <1>8, <1>10, <2>1 DEF RecoveryInv, PlanningInv, SameLinks
  <2>3. ASSUME NEW g \in DOMAIN flows
        PROVE  misjudged' \/ flows'[g].phase = "planning" \/ flows'[g].turn # "running"
    <3>1. CASE g = f
      BY <1>8, <1>10, <3>1 DEF RecoveryInv, PlanningInv, PlanRuns
    <3>2. CASE g # f
      BY <1>5, <1>8, <3>2 DEF RecoveryInv, PlanningInv
    <3> QED
      BY <3>1, <3>2
  <2> QED
    BY <1>5, <2>2, <2>3 DEF PlanningInv, SameLinks
<1> QED
  BY <1>6, <1>9, <1>11 DEF RecoveryInv

-----------------------------------------------------------------------------
(* The retry                                                               *)

\* What is started, or found by its request id.
LEMMA StartedFlow ==
  ASSUME RecoveryTypes, NEW key
  PROVE  \/ /\ Found(key) = {} /\ Started(key) = Len(flows) + 1
            /\ WithStarted(key) = Append(flows, NewFlow(key))
         \/ /\ Started(key) \in DOMAIN flows /\ flows[Started(key)].key = key
            /\ WithStarted(key) = flows
<1>1. CASE Found(key) = {}
  BY <1>1 DEF Started, WithStarted
<1>2. CASE Found(key) # {}
  <2>1. Started(key) \in Found(key)
    BY <1>2 DEF Started
  <2> QED
    BY <1>2, <2>1 DEF WithStarted, Found
<1> QED
  BY <1>1, <1>2

\* The links of a retry, row by row.
Replaced(row, n) == [row EXCEPT !.replacedBy = n]
Linked(row, f) == [row EXCEPT !.replaces = f]

RetryRows(f, key, n) ==
  /\ flows' \in Seq(FlowRow) /\ Len(flows') >= Len(flows) /\ n \in DOMAIN flows'
  /\ DOMAIN flows' = DOMAIN flows \cup {n}
  /\ flows'[f] = Replaced(flows[f], n)
  /\ \A g \in DOMAIN flows : g \notin {f, n} => flows'[g] = flows[g]
  /\ \/ /\ n = Len(flows) + 1 /\ flows'[n] = Linked(NewFlow(key), f)
     \/ /\ n \in DOMAIN flows /\ flows[n].key = key
        /\ flows'[n] = Linked(flows[n], f)

LEMMA RetriedRows ==
  ASSUME RecoveryTypes, NEW f \in DOMAIN flows, NEW key \in Keys, Started(key) # f,
         flows' = Retried(f, key)
  PROVE  RetryRows(f, key, Started(key))
<1> DEFINE n == Started(key)
<1>0. n # f
  OBVIOUS
<1>1. flows' = [[WithStarted(key) EXCEPT ![n].replaces = f] EXCEPT ![f] = [flows[f] EXCEPT !.replacedBy = n]]
  BY DEF Retried
<1>s. \/ n = Len(flows) + 1 /\ WithStarted(key) = Append(flows, NewFlow(key))
      \/ n \in DOMAIN flows /\ flows[n].key = key /\ WithStarted(key) = flows
  BY StartedFlow
<1> SUFFICES RetryRows(f, key, n)
  OBVIOUS
<1> HIDE DEF n
<1>2. f \in Nat /\ flows \in Seq(FlowRow) /\ flows[f] \in FlowRow /\ f <= Len(flows)
  BY DEF RecoveryTypes
<1>3. NewFlow(key) \in FlowRow
  BY DEF NewFlow, FlowRow
<1>4. \A r \in FlowRow, m \in Nat : [r EXCEPT !.replaces = m] \in FlowRow /\ [r EXCEPT !.replacedBy = m] \in FlowRow
  BY DEF FlowRow
<1>5. CASE n = Len(flows) + 1 /\ WithStarted(key) = Append(flows, NewFlow(key))
  <2> DEFINE new == NewFlow(key)
             base == Append(flows, new)
             linked == [base EXCEPT ![n].replaces = f]
             source == [flows[f] EXCEPT !.replacedBy = n]
  <2>1. source \in FlowRow
    <3>1. n \in Nat
      BY <1>2, <1>5
    <3> QED
      BY <1>2, <1>4, <3>1
  <2>2. base \in Seq(FlowRow) /\ Len(base) = n /\ base[n] = new /\ \A g \in DOMAIN flows : base[g] = flows[g]
    <3>1. new \in FlowRow
      BY <1>3
    <3> HIDE DEF new
    <3> QED
      BY <1>2, <1>5, <3>1
  <2>3. [new EXCEPT !.replaces = f] \in FlowRow
    BY <1>2, <1>3, <1>4
  <2>4. linked = [base EXCEPT ![n] = [new EXCEPT !.replaces = f]]
    BY <2>2
  <2> DEFINE row == [new EXCEPT !.replaces = f]
  <2> HIDE DEF base, source, new, row
  <2>5. flows' = [[base EXCEPT ![n] = row] EXCEPT ![f] = source]
    BY <1>1, <1>5, <2>4 DEF base, source, new, row
  <2>6. row \in FlowRow
    BY <2>3 DEF row
  <2>7. /\ flows' \in Seq(FlowRow) /\ Len(flows') = n /\ flows'[n] = row /\ flows'[f] = source
        /\ \A g \in DOMAIN flows : g # f => flows'[g] = flows[g]
    BY <1>2, <1>5, <2>1, <2>2, <2>5, <2>6, <1>0
  <2>8. DOMAIN flows' = DOMAIN flows \cup {n}
    BY <1>2, <1>5, <2>7
  <2> QED
    <3>1. Len(flows') >= Len(flows) /\ n \in DOMAIN flows'
      BY <1>2, <1>5, <2>7, <2>8
    <3>2. flows'[f] = Replaced(flows[f], n) /\ flows'[n] = Linked(NewFlow(key), f)
      BY <2>7 DEF source, row, new, Replaced, Linked
    <3> QED
      BY <1>5, <2>7, <2>8, <3>1, <3>2 DEF RetryRows
<1>6. CASE n \in DOMAIN flows /\ flows[n].key = key /\ WithStarted(key) = flows
  <2> DEFINE row == [flows[n] EXCEPT !.replaces = f]
             source == [flows[f] EXCEPT !.replacedBy = n]
  <2>0. n \in Nat /\ n >= 1 /\ n <= Len(flows) /\ flows[n] \in FlowRow
    BY <1>2, <1>6
  <2>1. row \in FlowRow /\ source \in FlowRow
    BY <1>2, <1>4, <2>0
  <2>2. flows' = [[flows EXCEPT ![n] = row] EXCEPT ![f] = source]
    BY <1>1, <1>6
  <2> HIDE DEF row, source
  <2>3. /\ flows' \in Seq(FlowRow) /\ Len(flows') = Len(flows) /\ flows'[n] = row /\ flows'[f] = source
        /\ \A g \in DOMAIN flows : g \notin {f, n} => flows'[g] = flows[g]
    BY <1>2, <2>0, <2>1, <2>2, <1>0
  <2> QED
    <3>1. DOMAIN flows' = DOMAIN flows
      BY <1>2, <2>3
    <3> QED
      <4>1. Len(flows') >= Len(flows) /\ DOMAIN flows \cup {n} = DOMAIN flows
        BY <1>2, <1>6, <2>3
      <4>2. flows'[f] = Replaced(flows[f], n) /\ flows'[n] = Linked(flows[n], f)
        BY <2>3 DEF source, row, Replaced, Linked
      <4> QED
        BY <1>6, <2>3, <3>1, <4>1, <4>2 DEF RetryRows
<1> QED
  BY <1>s, <1>5, <1>6

\* A request id of a retry names no workflow, its retry, or a workflow that it
\* is refused for.
LEMMA RetryNotItself ==
  ASSUME RecoveryInv, NEW f \in DOMAIN flows, NEW key \in RetryKeys, NEW n,
         n = Started(RetryKey(f, key)), ~RetryRefused(f, n)
  PROVE  /\ n # f /\ RetryKey(f, key) \in Keys
         /\ n \in DOMAIN flows /\ flows[n].key = RetryKey(f, key) => flows[n].replaces = f
         /\ \/ \E k \in RetryKeys : RetryKey(f, key) = <<k, 0>>
            \/ RetryKey(f, key) = <<"default", f>>
         /\ RetryKey(f, key) # <<"start", 0>>
<1>1. f \in Nat /\ f >= 1
  BY DEF RecoveryInv, RecoveryTypes
<1>2. /\ \/ \E k \in RetryKeys : RetryKey(f, key) = <<k, 0>>
         \/ RetryKey(f, key) = <<"default", f>>
      /\ RetryKey(f, key) # <<"start", 0>>
      /\ RetryKey(f, key) \in Keys
  BY <1>1, OwnKeyUnused DEF RetryKey, DefaultKey, Keys
<1>3. ASSUME n \in DOMAIN flows, flows[n].key = RetryKey(f, key)
      PROVE  flows[n].replaces = f /\ flows[n].replaces # n /\ flows[n].replaces \in DOMAIN flows
  <2>1. flows[n].replaces \in DOMAIN flows /\ flows[n].replaces # n
    BY <1>2, <1>3 DEF RecoveryInv, KeyInv
  <2>2. flows[n].replaces # 0
    BY <2>1 DEF RecoveryInv, RecoveryTypes
  <2> QED
    BY <1>3, <2>1, <2>2 DEF RetryRefused
<1>4. n # f
  <2>1. CASE n = Len(flows) + 1
    BY <2>1 DEF RecoveryInv, RecoveryTypes
  <2>2. CASE n \in DOMAIN flows /\ flows[n].key = RetryKey(f, key)
    BY <1>3, <2>2
  <2> QED
    BY <2>1, <2>2, StartedFlow DEF RecoveryInv
<1> QED
  BY <1>2, <1>3, <1>4

LEMMA RetryWorkflowKeeps ==
  ASSUME RecoveryInv, NEW a \in Agents, NEW key \in RetryKeys, NEW force \in BOOLEAN,
         RetryWorkflow(a, key, force)
  PROVE  RecoveryInv'
<1> DEFINE f == agent[a].flow
           k == RetryKey(f, key)
           n == Started(k)
<1>1. RecoveryTypes /\ f \in DOMAIN flows
  BY DEF RecoveryInv, RecoveryTypes
<1>2. /\ ~RetryRefused(f, n) /\ flows' = Retried(f, k) /\ MayRetry(f, force)
      /\ misjudged' = (misjudged \/ (force /\ PlanRuns(f))) /\ EndsItsAttempt(a)
      /\ UNCHANGED <<appLive, seenLive>>
  BY DEF RetryWorkflow, AgentOnly
<1>3. /\ n # f /\ k \in Keys
      /\ n \in DOMAIN flows /\ flows[n].key = k => flows[n].replaces = f
      /\ (\E q \in RetryKeys : k = <<q, 0>>) \/ k = <<"default", f>>
      /\ k # <<"start", 0>>
  BY <1>1, <1>2, RetryNotItself
<1>n. n = Started(k) /\ flows' = Retried(f, k) /\ f \in DOMAIN flows /\ RecoveryTypes
  BY <1>1, <1>2
<1> HIDE DEF f, k, n
<1>4. /\ flows' \in Seq(FlowRow) /\ Len(flows') >= Len(flows) /\ n \in DOMAIN flows'
      /\ DOMAIN flows' = DOMAIN flows \cup {n}
      /\ flows'[f] = Replaced(flows[f], n)
      /\ \A g \in DOMAIN flows : g \notin {f, n} => flows'[g] = flows[g]
      /\ \/ /\ n = Len(flows) + 1 /\ flows'[n] = Linked(NewFlow(k), f)
         \/ /\ n \in DOMAIN flows /\ flows[n].key = k
            /\ flows'[n] = Linked(flows[n], f)
  <2>1. RetryRows(f, k, Started(k))
    BY <1>n, <1>3, RetriedRows
  <2> QED
    BY <1>n, <2>1 DEF RetryRows
<1>5. \A g \in DOMAIN flows : flows[g] \in FlowRow /\ g \in Nat /\ g >= 1 /\ g <= Len(flows)
  BY <1>1 DEF RecoveryTypes
<1>6. f \in DOMAIN flows /\ f \in Nat /\ f >= 1 /\ n \in Nat
  BY <1>1, <1>4, <1>5
<1>7. /\ flows'[f].key = flows[f].key /\ flows'[f].replaces = flows[f].replaces
      /\ flows'[f].replacedBy = n /\ flows'[f].turn = flows[f].turn /\ flows'[f].phase = flows[f].phase
  BY <1>4, <1>5, <1>6 DEF FlowRow, Replaced
\* The row of the replacement.
<1>8. /\ flows'[n].key = k /\ flows'[n].replaces = f
      /\ \/ /\ n = Len(flows) + 1 /\ flows'[n].replacedBy = 0 /\ flows'[n].phase = "planning"
            /\ flows'[n].turn = IF appLive THEN "running" ELSE "none"
         \/ n \in DOMAIN flows /\ flows[n].key = k /\ flows'[n] = flows[n]
  <2>1. CASE n = Len(flows) + 1 /\ flows'[n] = Linked(NewFlow(k), f)
    BY <2>1 DEF NewFlow, Linked
  <2>2. CASE n \in DOMAIN flows /\ flows[n].key = k /\ flows'[n] = Linked(flows[n], f)
    <3>1. flows[n].replaces = f /\ flows[n] \in FlowRow
      BY <1>3, <1>5, <2>2
    <3>2. flows'[n] = flows[n]
      BY <2>2, <3>1 DEF FlowRow, Linked
    <3> QED
      BY <2>2, <3>1, <3>2
  <2> QED
    BY <1>4, <2>1, <2>2
<1>9. ASSUME NEW g \in DOMAIN flows
      PROVE  /\ flows'[g].key = flows[g].key /\ flows'[g].replaces = flows[g].replaces
             /\ flows'[g].turn = flows[g].turn /\ flows'[g].phase = flows[g].phase
             /\ g # f => flows'[g].replacedBy = flows[g].replacedBy
  <2>1. CASE g = f
    BY <1>7, <2>1
  <2>2. CASE g = n
    BY <1>5, <1>8, <2>2
  <2>3. CASE g \notin {f, n}
    BY <1>4, <2>3
  <2> QED
    BY <2>1, <2>2, <2>3
<1>10. KeyInv'
  <2>1. ASSUME NEW g \in DOMAIN flows
        PROVE  /\ \/ flows'[g].key = <<"start", 0>>
                  \/ \E q \in RetryKeys : flows'[g].key = <<q, 0>>
                  \/ \E h \in 1..(g - 1) : flows'[g].key = <<"default", h>>
               /\ flows'[g].key = <<"start", 0>> => flows'[g].replaces = 0
               /\ flows'[g].key # <<"start", 0>> =>
                    flows'[g].replaces \in DOMAIN flows' /\ flows'[g].replaces # g
    BY <1>4, <1>9 DEF RecoveryInv, KeyInv
  <2>2. ASSUME n = Len(flows) + 1
        PROVE  (\E q \in RetryKeys : k = <<q, 0>>) \/ \E h \in 1..(n - 1) : k = <<"default", h>>
    BY <1>1, <1>3, <1>5, <1>6, <2>2
  <2>3. ASSUME n = Len(flows) + 1
        PROVE  /\ flows'[n].key # <<"start", 0>> /\ flows'[n].replaces \in DOMAIN flows'
               /\ flows'[n].replaces # n
               /\ (\E q \in RetryKeys : flows'[n].key = <<q, 0>>)
                    \/ \E h \in 1..(n - 1) : flows'[n].key = <<"default", h>>
    BY <1>3, <1>4, <1>6, <1>8, <2>2, <2>3
  <2>4. ASSUME NEW g \in DOMAIN flows'
        PROVE  g \in DOMAIN flows \/ (g = n /\ n = Len(flows) + 1)
    BY <1>4, <2>4
  <2> QED
    BY <2>1, <2>3, <2>4 DEF KeyInv
<1>11. LinkInv'
  <2>1. ASSUME NEW g \in DOMAIN flows, g # f, flows'[g].replacedBy # 0
        PROVE  /\ flows'[g].replacedBy \in DOMAIN flows' /\ flows'[g].replacedBy # g
               /\ flows'[flows'[g].replacedBy].replaces = g
    BY <1>4, <1>9, <2>1 DEF RecoveryInv, LinkInv
  <2>2. n \in DOMAIN flows \/ flows'[n].replacedBy = 0
    BY <1>8
  <2> QED
    BY <1>3, <1>4, <1>7, <1>8, <2>1, <2>2 DEF LinkInv
<1>12. misjudged' \in BOOLEAN /\ (misjudged => misjudged') /\ (force /\ PlanRuns(f) => misjudged')
  BY <1>2, Zenon DEF f
<1>13. misjudged' \/ flows[f].turn # "running"
  <2>1. CASE force
    BY <1>6, <1>12, <2>1 DEF RecoveryInv, PlanningInv, PlanRuns
  <2>2. CASE ~force
    <3>1. flows[f].phase \in RetryableStates
      BY <1>2, <2>2 DEF MayRetry
    <3> QED
      BY <1>6, <1>12, <3>1 DEF RecoveryInv, PlanningInv, RetryableStates
  <2> QED
    BY <2>1, <2>2
<1>14. PlanningInv'
  <2>1. \A g \in DOMAIN flows : flows[g].replaces # 0 => flows[g].replaces \in DOMAIN flows
    BY DEF RecoveryInv, KeyInv
  <2>2. ASSUME NEW g \in DOMAIN flows
        PROVE  /\ ~appLive' => flows'[g].turn # "running"
               /\ misjudged' \/ flows'[g].phase = "planning" \/ flows'[g].turn # "running"
               /\ misjudged' \/ flows'[g].replaces = 0 \/ flows'[flows'[g].replaces].turn # "running"
    BY <1>2, <1>9, <1>12, <2>1 DEF RecoveryInv, PlanningInv
  <2>3. /\ ~appLive' => flows'[n].turn # "running"
        /\ misjudged' \/ flows'[n].phase = "planning" \/ flows'[n].turn # "running"
    BY <1>2, <1>8, <2>2
  <2>4. misjudged' \/ flows'[flows'[n].replaces].turn # "running"
    BY <1>7, <1>8, <1>13
  <2> QED
    BY <1>4, <2>2, <2>3, <2>4 DEF PlanningInv
<1>15. RecoveryTypes'
  <2>1. agent' \in [Agents -> [pc : {"idle", "go"}, flow : DOMAIN flows, action : Repairs]]
    BY <1>1, <1>2, <1>6, AgentMoves DEF Repairs
  <2>2. agent' \in [Agents -> [pc : {"idle", "go"}, flow : DOMAIN flows', action : Repairs]]
    BY <1>4, <2>1
  <2>3. Len(flows') >= 1
    BY <1>1, <1>4 DEF RecoveryTypes
  <2> QED
    BY <1>1, <1>2, <1>4, <1>12, <2>2, <2>3 DEF RecoveryTypes
<1> QED
  BY <1>10, <1>11, <1>14, <1>15 DEF RecoveryInv

-----------------------------------------------------------------------------

LEMMA InitRecovery == RecoveryInit => RecoveryInv
<1> SUFFICES ASSUME RecoveryInit PROVE RecoveryInv
  OBVIOUS
<1> DEFINE first == NewFlow(<<"start", 0>>)
<1>1. /\ first \in FlowRow /\ first.key = <<"start", 0>> /\ first.replaces = 0 /\ first.replacedBy = 0
      /\ first.phase = "planning"
  BY DEF NewFlow, FlowRow, Keys
<1>2. flows = <<first>>
  BY DEF RecoveryInit
<1> HIDE DEF first
<1>3. flows \in Seq(FlowRow) /\ Len(flows) = 1 /\ DOMAIN flows = {1} /\ flows[1] = first
  BY <1>1, <1>2
<1>4. RecoveryTypes
  <2>1. Idle \in [pc : {"idle", "go"}, flow : DOMAIN flows, action : Repairs]
    BY <1>3 DEF Idle, Repairs
  <2> QED
    <3>1. agent \in [Agents -> [pc : {"idle", "go"}, flow : DOMAIN flows, action : Repairs]]
      BY <2>1 DEF RecoveryInit
    <3>2. appLive \in BOOLEAN /\ seenLive \in BOOLEAN /\ misjudged \in BOOLEAN
      BY Zenon DEF RecoveryInit
    <3> QED
      BY <1>3, <3>1, <3>2 DEF RecoveryTypes
<1>5. KeyInv /\ LinkInv
  BY <1>1, <1>3 DEF KeyInv, LinkInv
<1>6. PlanningInv
  BY <1>1, <1>3 DEF PlanningInv, RecoveryInit
<1> QED
  BY <1>4, <1>5, <1>6 DEF RecoveryInv

LEMMA NextRecovery == RecoveryInv /\ [RecoveryNext]_recoveryVars => RecoveryInv'
<1> SUFFICES ASSUME RecoveryInv, [RecoveryNext]_recoveryVars PROVE RecoveryInv'
  OBVIOUS
<1>1. CASE \E f \in DOMAIN flows : PlanEnds(f, "failed") \/ PlanEnds(f, "completed")
  BY <1>1, PlanEndsKeeps
<1>2. CASE WorkerDies \/ WorkerStarts \/ HeartbeatExpires \/ HeartbeatReturns \/ TimePasses
  BY <1>2, WorkerDiesKeeps, WorldKeeps
<1>3. ASSUME NEW a \in Agents,
             \/ \E f \in DOMAIN flows, action \in Repairs : Decides(a, f, action)
             \/ \E f \in DOMAIN flows, surface \in Surfaces : Guided(a, surface, f)
             \/ RepairRefused(a)
      PROVE  RecoveryInv'
  BY <1>3, AgentsKeep
<1>4. ASSUME NEW a \in Agents, NEW force \in BOOLEAN,
             MarkOrphaned(a, force) \/ \E key \in RetryKeys : RetryWorkflow(a, key, force)
      PROVE  RecoveryInv'
  BY <1>4, MarkOrphanedKeeps, RetryWorkflowKeeps
<1>5. CASE UNCHANGED recoveryVars
  BY <1>5, QuietKeeps DEF recoveryVars, RecoveryInv, RecoveryTypes
<1> QED
  BY <1>1, <1>2, <1>3, <1>4, <1>5 DEF RecoveryNext

LEMMA RecoveryInductive == RecoverySpec => []RecoveryInv
<1> QED
  BY InitRecovery, NextRecovery, PTL DEF RecoverySpec

\* The replacement of a workflow is the retry of that workflow.
THEOREM RecoveryLinks == RecoverySpec => []LineageAgrees
<1>1. RecoveryInv => LineageAgrees
  BY DEF RecoveryInv, LinkInv, LineageAgrees
<1> QED
  BY <1>1, RecoveryInductive, PTL

\* Of a workflow and its retry one plans, unless a live turn was written off.
THEOREM RecoveryPlansOnce == RecoverySpec => []OnePlanPerLineage
<1>1. RecoveryInv => OnePlanPerLineage
  BY DEF RecoveryInv, PlanningInv, OnePlanPerLineage, PlanRuns
<1> QED
  BY <1>1, RecoveryInductive, PTL

-----------------------------------------------------------------------------
(* The budget of the loop guard                                            *)

Attempt == [count : Nat, age : Nat, cooldown : Nat]
BudgetTypes ==
  /\ attempts \in [GuardKeys -> Attempt] /\ recent \in [GuardKeys -> Seq(Nat)]
  /\ agent \in [Agents -> [pc : {"idle", "go"}, flow : DOMAIN flows, action : Repairs]]

\* The row of an attempt knows at least the attempts of the last window: it is
\* as old as the latest of them and counts them all.
RowKnows(k) ==
  /\ Len(recent[k]) <= CountIn(attempts[k])
  /\ \A i \in DOMAIN recent[k] : recent[k][i] >= attempts[k].age

\* Who got past the guard and has not carried out its repair yet.
Going(k) ==
  {a \in Agents : agent[a].pc = "go" /\ AttemptKey(agent[a].flow, agent[a].action) = k}

\* Repairs that are under way are part of the budget.
WithinBudget(k) ==
  Len(recent[k]) + Cardinality(Going(k)) <= MaxAttempts + Cardinality(Agents) - 1

BudgetInv == BudgetTypes /\ \A k \in GuardKeys : RowKnows(k) /\ WithinBudget(k)

\* Clients can be counted.
LEMMA GoingIsFinite ==
  ASSUME NEW k
  PROVE  /\ IsFiniteSet(Going(k)) /\ Cardinality(Going(k)) \in Nat
         /\ Cardinality(Going(k)) <= Cardinality(Agents) /\ Cardinality(Agents) \in Nat
<1>1. Going(k) \subseteq Agents
  BY DEF Going
<1> QED
  BY <1>1, PolicyAssumption, FS_Subset, FS_CardinalityType

\* Time makes attempts older and lets some of them leave the window, all of them
\* if the latest does.
LEMMA AgedAttempts ==
  ASSUME NEW ages \in Seq(Nat)
  PROVE  /\ Aged(ages) \in Seq(Nat) /\ Len(Aged(ages)) <= Len(ages)
         /\ \A i \in DOMAIN Aged(ages) : i \in DOMAIN ages /\ Aged(ages)[i] = ages[i] + 1
         /\ (\A i \in DOMAIN ages : ages[i] >= Window) => Len(Aged(ages)) = 0
<1> DEFINE older == [i \in DOMAIN ages |-> ages[i] + 1]
           kept == {i \in DOMAIN older : older[i] <= Window}
           n == Cardinality(kept)
<1>1. older \in Seq(Nat) /\ Len(older) = Len(ages) /\ DOMAIN older = 1..Len(ages)
  OBVIOUS
<1>2. \A i \in DOMAIN ages : older[i] = ages[i] + 1
  OBVIOUS
<1>3. Len(ages) \in Nat /\ DOMAIN ages = 1..Len(ages)
  OBVIOUS
<1>4. IsFiniteSet(1..Len(ages)) /\ Cardinality(1..Len(ages)) = Len(ages)
  <2>1. \A m \in Nat : IsFiniteSet(1..m) /\ Cardinality(1..m) = m
    BY FS_Interval
  <2> QED
    BY <1>3, <2>1
<1>5. kept \subseteq 1..Len(ages)
  BY <1>1
<1>6. n \in Nat /\ n <= Len(ages)
  <2> HIDE DEF kept
  <2> QED
    BY <1>4, <1>5, FS_Subset, FS_CardinalityType
<1>7. (\A i \in DOMAIN ages : ages[i] >= Window) => n = 0
  <2>1. (\A i \in DOMAIN ages : ages[i] >= Window) => kept = {}
    BY <1>1, <1>2, <1>3, PolicyAssumption
  <2> HIDE DEF kept
  <2>2. Cardinality({}) = 0
    BY FS_EmptySet
  <2> QED
    BY <2>1, <2>2
<1>8. Aged(ages) = SubSeq(older, 1, n)
  BY DEF Aged, InWindow
<1> HIDE DEF older, n
<1>9. /\ SubSeq(older, 1, n) \in Seq(Nat) /\ Len(SubSeq(older, 1, n)) = n
      /\ \A i \in 1..n : SubSeq(older, 1, n)[i] = older[i]
  BY <1>1, <1>3, <1>6
<1> QED
  BY <1>2, <1>3, <1>6, <1>7, <1>8, <1>9

\* Steps that leave the attempts, and who is at one, alone or fewer.
LEMMA BudgetUntouched ==
  ASSUME BudgetInv, UNCHANGED <<attempts, recent>>,
         agent' \in [Agents -> [pc : {"idle", "go"}, flow : DOMAIN flows', action : Repairs]],
         \A k \in GuardKeys : Going(k)' \subseteq Going(k)
  PROVE  BudgetInv'
<1>1. BudgetTypes'
  BY DEF BudgetInv, BudgetTypes
<1>2. ASSUME NEW k \in GuardKeys PROVE RowKnows(k)' /\ WithinBudget(k)'
  <2>1. Cardinality(Going(k)') <= Cardinality(Going(k)) /\ Cardinality(Going(k)') \in Nat
    BY <1>2, GoingIsFinite, FS_Subset, FS_CardinalityType
  <2>2. Len(recent[k]) \in Nat
    BY <1>2 DEF BudgetInv, BudgetTypes
  <2> QED
    BY <1>2, <2>1, <2>2, GoingIsFinite, PolicyAssumption DEF BudgetInv, RowKnows, WithinBudget
<1> QED
  BY <1>1, <1>2 DEF BudgetInv

\* An agent whose guard allows it finds room in the budget for everybody.
LEMMA AllowedWithinBudget ==
  ASSUME BudgetInv, RecoveryInv, NEW a \in Agents, NEW f \in DOMAIN flows, NEW action \in Repairs,
         DryRunIsClean(f, action), Intends(a, f, action), RowsUntouched
  PROVE  BudgetInv'
<1>1. agent' \in [Agents -> [pc : {"idle", "go"}, flow : DOMAIN flows', action : Repairs]]
  <2>1. agent' \in [Agents -> [pc : {"idle", "go"}, flow : DOMAIN flows, action : Repairs]]
    BY AgentMoves DEF RecoveryInv
  <2> QED
    BY <2>1 DEF RowsUntouched
<1>2. UNCHANGED <<attempts, recent>>
  BY DEF RowsUntouched
<1>3. BudgetTypes'
  BY <1>1, <1>2 DEF BudgetInv, BudgetTypes
<1>4. ASSUME NEW k \in GuardKeys PROVE RowKnows(k)'
  BY <1>2, <1>4 DEF BudgetInv, RowKnows
<1>5. ASSUME NEW k \in GuardKeys PROVE WithinBudget(k)'
  <2>1. Len(recent[k]) \in Nat /\ CountIn(attempts[k]) \in Nat
    BY <1>5 DEF BudgetInv, BudgetTypes, Attempt, CountIn
  <2>2. /\ Cardinality(Going(k)') \in Nat /\ Cardinality(Going(k)') <= Cardinality(Agents)
        /\ Cardinality(Agents) \in Nat
    <3>1. Going(k)' \subseteq Agents
      BY DEF Going
    <3> QED
      BY <3>1, PolicyAssumption, FS_Subset, FS_CardinalityType
  <2>3. CASE k = AttemptKey(f, action)
    <3>1. Len(recent[k]) < MaxAttempts
      BY <1>5, <2>1, <2>3, PolicyAssumption DEF BudgetInv, RowKnows, DryRunIsClean, Allowed
    <3> QED
      BY <1>2, <2>1, <2>2, <3>1, PolicyAssumption DEF WithinBudget
  <2>4. CASE k # AttemptKey(f, action)
    <3>1. agent'[a] = [pc |-> "go", flow |-> f, action |-> action] /\ \A b \in Agents : b # a => agent'[b] = agent[b]
      BY DEF Intends, BudgetInv, BudgetTypes
    <3>2. Going(k)' \subseteq Going(k)
      BY <2>4, <3>1 DEF Going, AttemptKey
    <3>3. Cardinality(Going(k)') <= Cardinality(Going(k)) /\ Cardinality(Going(k)) \in Nat
      BY <3>2, GoingIsFinite, FS_Subset
    <3> QED
      BY <1>2, <1>5, <2>1, <2>2, <3>3, PolicyAssumption DEF BudgetInv, WithinBudget
  <2> QED
    BY <2>3, <2>4
<1> QED
  BY <1>3, <1>4, <1>5 DEF BudgetInv

\* A repair that is carried out takes the place of the intention.
LEMMA RecordsKeepBudget ==
  ASSUME BudgetInv, NEW a \in Agents, agent[a].pc = "go", EndsItsAttempt(a),
         Records(agent[a].flow, agent[a].action),
         agent' \in [Agents -> [pc : {"idle", "go"}, flow : DOMAIN flows', action : Repairs]]
  PROVE  BudgetInv'
<1>0. PICK key : key = AttemptKey(agent[a].flow, agent[a].action)
  OBVIOUS
<1>1. /\ attempts' = [attempts EXCEPT ![key] = Counted(attempts[key])]
      /\ recent' = [recent EXCEPT ![key] = <<0>> \o recent[key]]
  BY <1>0 DEF Records
<1>2. agent' = [agent EXCEPT ![a] = Idle]
  BY DEF EndsItsAttempt
<1>3. ASSUME NEW row \in Attempt
      PROVE  Counted(row) \in Attempt /\ Counted(row).age = 0 /\ Counted(row).count = row.count + 1
  <2>1. row.count \in Nat
    BY DEF Attempt
  <2>2. CooldownAfter(row.count + 1) \in Nat
    BY <2>1, PolicyAssumption DEF CooldownAfter
  <2> QED
    BY <2>1, <2>2 DEF Counted, Attempt
<1>4. ASSUME NEW ages \in Seq(Nat)
      PROVE  /\ <<0>> \o ages \in Seq(Nat) /\ Len(<<0>> \o ages) = Len(ages) + 1
             /\ \A i \in DOMAIN (<<0>> \o ages) : (<<0>> \o ages)[i] \in Nat
  <2>1. <<0>> \in Seq(Nat) /\ Len(<<0>>) = 1
    OBVIOUS
  <2>2. <<0>> \o ages \in Seq(Nat) /\ Len(<<0>> \o ages) = Len(ages) + 1
    BY <2>1, ConcatProperties
  <2> QED
    BY <2>2
<1>5. /\ attempts \in [GuardKeys -> Attempt] /\ recent \in [GuardKeys -> Seq(Nat)]
  BY DEF BudgetInv, BudgetTypes
<1>6. /\ Going(key)' = Going(key) \ {a} /\ a \in Going(key)
      /\ \A k : k # key => Going(k)' = Going(k)
  <2>1. agent'[a] = Idle /\ \A b \in Agents : b # a => agent'[b] = agent[b]
    BY <1>2 DEF BudgetInv, BudgetTypes
  <2>2. Idle.pc = "idle"
    BY DEF Idle
  <2>3. a \in Going(key)
    BY <1>0 DEF Going
  <2>4. \A k : Going(k)' = Going(k) \ {a}
    BY <2>1, <2>2 DEF Going
  <2>5. \A k : k # key => a \notin Going(k)
    BY <1>0 DEF Going
  <2> QED
    BY <2>3, <2>4, <2>5
<1>7. BudgetTypes'
  BY <1>1, <1>3, <1>4, <1>5 DEF BudgetTypes
<1>8. ASSUME NEW k \in GuardKeys, k # key PROVE RowKnows(k)' /\ WithinBudget(k)'
  <2>1. attempts'[k] = attempts[k] /\ recent'[k] = recent[k] /\ Going(k)' = Going(k)
    BY <1>1, <1>5, <1>6, <1>8
  <2> QED
    BY <1>8, <2>1 DEF BudgetInv, RowKnows, WithinBudget
<1>9. ASSUME key \in GuardKeys PROVE RowKnows(key)' /\ WithinBudget(key)'
  <2>1. attempts'[key] = Counted(attempts[key]) /\ recent'[key] = <<0>> \o recent[key]
    BY <1>1, <1>5, <1>9
  <2>2. /\ attempts[key] \in Attempt /\ attempts[key].count \in Nat /\ attempts[key].age \in Nat
        /\ recent[key] \in Seq(Nat) /\ Len(recent[key]) \in Nat
    BY <1>5, <1>9 DEF Attempt
  <2>3. /\ attempts'[key].age = 0 /\ attempts'[key].count = attempts[key].count + 1
        /\ Len(recent'[key]) = Len(recent[key]) + 1
        /\ \A i \in DOMAIN recent'[key] : recent'[key][i] \in Nat
    BY <1>3, <1>4, <2>1, <2>2
  <2>4. Len(recent[key]) <= attempts[key].count
    BY <1>9, <2>2 DEF BudgetInv, RowKnows, CountIn
  <2>5. RowKnows(key)'
    <3>1. CountIn(attempts[key])' = attempts[key].count + 1
      BY <2>2, <2>3, PolicyAssumption DEF CountIn
    <3> QED
      BY <2>2, <2>3, <2>4, <3>1 DEF RowKnows
  <2>6. /\ Cardinality(Going(key)') = Cardinality(Going(key)) - 1
        /\ Cardinality(Going(key)) \in Nat /\ Cardinality(Agents) \in Nat
    BY <1>6, GoingIsFinite, FS_RemoveElement
  <2>7. WithinBudget(key)'
    BY <1>9, <2>2, <2>3, <2>6, PolicyAssumption DEF BudgetInv, WithinBudget
  <2> QED
    BY <2>5, <2>7
<1> QED
  BY <1>7, <1>8, <1>9 DEF BudgetInv

LEMMA TimeKeepsBudget ==
  ASSUME BudgetInv, TimePasses
  PROVE  BudgetInv'
<1>1. UNCHANGED <<flows, agent>>
  BY DEF TimePasses
<1>2. attempts \in [GuardKeys -> Attempt] /\ recent \in [GuardKeys -> Seq(Nat)]
  BY DEF BudgetInv, BudgetTypes
<1>3. ASSUME NEW k \in GuardKeys
      PROVE  /\ attempts'[k] \in Attempt /\ attempts'[k].count = attempts[k].count
             /\ attempts'[k].age = Older(attempts[k].age) /\ recent'[k] = Aged(recent[k])
  <2> DEFINE x == Older(attempts[k].age)
             y == IF attempts[k].cooldown = 0 THEN 0 ELSE attempts[k].cooldown - 1
  <2>1. /\ attempts[k] \in Attempt /\ attempts[k].age \in Nat /\ attempts[k].cooldown \in Nat
        /\ recent'[k] = Aged(recent[k])
        /\ attempts'[k] = [attempts[k] EXCEPT !.age = x, !.cooldown = y]
    BY <1>2, <1>3 DEF TimePasses, Attempt
  <2>2. x \in Nat /\ x = Older(attempts[k].age)
    BY <2>1, PolicyAssumption DEF Older
  <2>3. y \in Nat
    BY <2>1
  <2> HIDE DEF x, y
  <2>4. /\ [attempts[k] EXCEPT !.age = x, !.cooldown = y] \in Attempt
        /\ [attempts[k] EXCEPT !.age = x, !.cooldown = y].age = x
        /\ [attempts[k] EXCEPT !.age = x, !.cooldown = y].count = attempts[k].count
    BY <2>1, <2>2, <2>3 DEF Attempt
  <2> QED
    BY <2>1, <2>2, <2>4
<1>4. attempts' \in [GuardKeys -> Attempt]
  <2>1. ASSUME NEW k \in GuardKeys
        PROVE  [attempts[k] EXCEPT !.age = Older(@), !.cooldown = IF @ = 0 THEN 0 ELSE @ - 1] \in Attempt
    <3>1. attempts'[k] = [attempts[k] EXCEPT !.age = Older(@), !.cooldown = IF @ = 0 THEN 0 ELSE @ - 1]
      BY <2>1 DEF TimePasses
    <3> QED
      BY <1>3, <2>1, <3>1
  <2> QED
    BY <2>1 DEF TimePasses
<1>5. recent' \in [GuardKeys -> Seq(Nat)]
  <2>1. \A k \in GuardKeys : Aged(recent[k]) \in Seq(Nat)
    BY <1>2, AgedAttempts
  <2> QED
    BY <2>1 DEF TimePasses
<1>6. BudgetTypes'
  BY <1>1, <1>4, <1>5 DEF BudgetInv, BudgetTypes
<1>7. ASSUME NEW k \in GuardKeys PROVE RowKnows(k)' /\ WithinBudget(k)'
  <2>1. /\ Len(recent'[k]) <= Len(recent[k]) /\ Len(recent'[k]) \in Nat /\ Len(recent[k]) \in Nat
        /\ \A i \in DOMAIN recent'[k] : i \in DOMAIN recent[k] /\ recent'[k][i] = recent[k][i] + 1
        /\ (\A i \in DOMAIN recent[k] : recent[k][i] >= Window) => Len(recent'[k]) = 0
    BY <1>2, <1>3, <1>5, <1>7, AgedAttempts
  <2>2. attempts[k].age \in Nat /\ attempts[k].count \in Nat
    BY <1>2, <1>7 DEF Attempt
  <2>3. \A i \in DOMAIN recent[k] : recent[k][i] \in Nat
    BY <1>2, <1>7
  <2>4. RowKnows(k)
    BY <1>7 DEF BudgetInv
  <2>5. CASE attempts[k].age > Window
    <3>1. Len(recent[k]) = 0
      BY <2>1, <2>4, <2>5 DEF RowKnows, CountIn
    <3>2. Len(recent'[k]) = 0 /\ recent'[k] \in Seq(Nat)
      BY <1>5, <1>7, <2>1, <3>1
    <3>3. DOMAIN recent'[k] = {}
      BY <3>2
    <3>4. CountIn(attempts[k])' \in Nat
      BY <1>3, <1>7, <2>2 DEF CountIn
    <3> QED
      BY <1>1, <1>7, <3>1, <3>2, <3>3, <3>4 DEF BudgetInv, RowKnows, WithinBudget, Going
  <2>6. CASE attempts[k].age <= Window
    <3>1. attempts'[k].age = attempts[k].age + 1
      BY <1>3, <1>7, <2>2, <2>6, PolicyAssumption DEF Older
    <3>2. \A i \in DOMAIN recent'[k] : recent'[k][i] >= attempts'[k].age
      <4>1. \A i \in DOMAIN recent[k] : recent[k][i] >= attempts[k].age
        BY <2>4 DEF RowKnows
      <4>2. ASSUME NEW i \in DOMAIN recent'[k] PROVE recent'[k][i] >= attempts'[k].age
        <5>1. i \in DOMAIN recent[k] /\ recent'[k][i] = recent[k][i] + 1
          BY <2>1, <4>2
        <5>2. recent[k][i] \in Nat /\ recent[k][i] >= attempts[k].age
          BY <2>3, <4>1, <5>1
        <5> QED
          BY <2>2, <3>1, <5>1, <5>2
      <4> QED
        BY <4>2
    <3>3. Len(recent[k]) <= attempts[k].count
      BY <2>2, <2>4, <2>6, PolicyAssumption DEF RowKnows, CountIn
    <3>4. Len(recent'[k]) <= CountIn(attempts[k])'
      <4>1. CASE attempts[k].age < Window
        BY <1>3, <1>7, <2>1, <2>2, <3>1, <3>3, <4>1, PolicyAssumption DEF CountIn
      <4>2. CASE attempts[k].age = Window
        <5>1. Len(recent'[k]) = 0
          BY <2>1, <2>4, <4>2 DEF RowKnows
        <5> QED
          BY <1>3, <1>7, <2>2, <5>1 DEF CountIn
      <4> QED
        BY <2>2, <2>6, <4>1, <4>2, PolicyAssumption
    <3>5. WithinBudget(k)'
      <4>1. Going(k)' = Going(k)
        BY <1>1 DEF Going
      <4> QED
        BY <1>7, <2>1, <4>1, GoingIsFinite, PolicyAssumption DEF BudgetInv, WithinBudget
    <3> QED
      BY <3>2, <3>4, <3>5 DEF RowKnows
  <2> QED
    BY <2>2, <2>5, <2>6, PolicyAssumption
<1> QED
  BY <1>6, <1>7 DEF BudgetInv

LEMMA InitBudget == RecoveryInit => BudgetInv
<1> SUFFICES ASSUME RecoveryInit PROVE BudgetInv
  OBVIOUS
<1>1. agent \in [Agents -> [pc : {"idle", "go"}, flow : DOMAIN flows, action : Repairs]]
  BY InitRecovery DEF RecoveryInv, RecoveryTypes
<1>2. [count |-> 0, age |-> Window + 1, cooldown |-> 0] \in Attempt
  BY PolicyAssumption DEF Attempt
<1>3. attempts \in [GuardKeys -> Attempt]
  BY <1>2 DEF RecoveryInit
<1>4. recent \in [GuardKeys -> Seq(Nat)] /\ \A k \in GuardKeys : Len(recent[k]) = 0 /\ DOMAIN recent[k] = {}
  BY DEF RecoveryInit
<1>5. \A k : Going(k) = {}
  BY DEF RecoveryInit, Going, Idle
<1>6. ASSUME NEW k \in GuardKeys PROVE RowKnows(k) /\ WithinBudget(k)
  <2>1. CountIn(attempts[k]) \in Nat
    BY <1>3, <1>6 DEF CountIn, Attempt
  <2>2. Cardinality(Going(k)) = 0 /\ Cardinality(Agents) \in Nat
    BY <1>5, PolicyAssumption, FS_EmptySet, FS_CardinalityType
  <2> QED
    BY <1>4, <1>6, <2>1, <2>2, PolicyAssumption DEF RowKnows, WithinBudget
<1> QED
  BY <1>1, <1>3, <1>4, <1>6 DEF BudgetInv, BudgetTypes

LEMMA NextBudget == BudgetInv /\ RecoveryInv /\ [RecoveryNext]_recoveryVars => BudgetInv'
<1> SUFFICES ASSUME BudgetInv, RecoveryInv, [RecoveryNext]_recoveryVars PROVE BudgetInv'
  OBVIOUS
<1>0. agent' \in [Agents -> [pc : {"idle", "go"}, flow : DOMAIN flows', action : Repairs]]
  BY NextRecovery DEF RecoveryInv, RecoveryTypes
<1>1. CASE \/ \E f \in DOMAIN flows : PlanEnds(f, "failed") \/ PlanEnds(f, "completed")
           \/ WorkerDies \/ WorkerStarts \/ HeartbeatExpires \/ HeartbeatReturns
           \/ UNCHANGED recoveryVars
  <2>1. UNCHANGED <<attempts, recent, agent>>
    BY <1>1 DEF PlanEnds, WorkerDies, WorkerStarts, HeartbeatExpires, HeartbeatReturns,
                WorldOnly, recoveryVars
  <2>2. \A k : Going(k)' = Going(k)
    BY <2>1 DEF Going
  <2> QED
    BY <1>0, <2>1, <2>2, BudgetUntouched
<1>2. CASE TimePasses
  BY <1>2, TimeKeepsBudget
<1>3. ASSUME NEW a \in Agents, NEW f \in DOMAIN flows, NEW action \in Repairs, Decides(a, f, action)
      PROVE  BudgetInv'
  BY <1>3, AllowedWithinBudget DEF Decides
<1>4. ASSUME NEW a \in Agents, NEW f \in DOMAIN flows, NEW surface \in Surfaces, Guided(a, surface, f)
      PROVE  BudgetInv'
  BY <1>4, AllowedWithinBudget DEF Guided, Repairs
<1>5. ASSUME NEW a \in Agents, RepairRefused(a) PROVE BudgetInv'
  <2>1. agent' = [agent EXCEPT ![a] = Idle] /\ UNCHANGED <<attempts, recent>>
    BY <1>5 DEF RepairRefused, EndsItsAttempt, RowsUntouched
  <2>2. \A k \in GuardKeys : Going(k)' \subseteq Going(k)
    BY <2>1 DEF Going, Idle, BudgetInv, BudgetTypes
  <2> QED
    BY <1>0, <2>1, <2>2, BudgetUntouched
<1>6. ASSUME NEW a \in Agents, NEW force \in BOOLEAN, MarkOrphaned(a, force) PROVE BudgetInv'
  <2>1. agent[a].pc = "go" /\ EndsItsAttempt(a) /\ Records(agent[a].flow, agent[a].action)
    BY <1>6 DEF MarkOrphaned
  <2> QED
    BY <1>0, <2>1, RecordsKeepBudget
<1>7. ASSUME NEW a \in Agents, NEW force \in BOOLEAN, NEW key \in RetryKeys, RetryWorkflow(a, key, force)
      PROVE  BudgetInv'
  <2>1. agent[a].pc = "go" /\ EndsItsAttempt(a) /\ Records(agent[a].flow, agent[a].action)
    BY <1>7 DEF RetryWorkflow
  <2> QED
    BY <1>0, <2>1, RecordsKeepBudget
<1> QED
  BY <1>1, <1>2, <1>3, <1>4, <1>5, <1>6, <1>7 DEF RecoveryNext

\* In no window are more repairs of one action counted for one workflow than the
\* policy allows, and one for each further agent, whatever windows and cooldowns.
THEOREM RecoveryBudget == RecoverySpec => []BudgetKept
<1>1. BudgetInv => BudgetKept
  <2> SUFFICES ASSUME BudgetInv, NEW k \in GuardKeys
               PROVE  Len(recent[k]) <= MaxAttempts + Cardinality(Agents) - 1
    BY DEF BudgetKept
  <2>1. Len(recent[k]) \in Nat
    BY DEF BudgetInv, BudgetTypes
  <2> QED
    BY <2>1, GoingIsFinite, PolicyAssumption DEF BudgetInv, WithinBudget
<1>2. RecoveryInit => RecoveryInv /\ BudgetInv
  BY InitRecovery, InitBudget
<1>3. RecoveryInv /\ BudgetInv /\ [RecoveryNext]_recoveryVars => RecoveryInv' /\ BudgetInv'
  BY NextRecovery, NextBudget
<1> QED
  BY <1>1, <1>2, <1>3, PTL DEF RecoverySpec

-----------------------------------------------------------------------------
(* The types, with the bounds of everything that is counted                *)

WithinBounds(row) == row.count <= repairs /\ row.age <= Window + 1 /\ row.cooldown <= Window

BoundInv ==
  /\ Len(flows) <= MaxWorkflows
  /\ repairs \in 0..MaxRepairs /\ lateBeats \in 0..MaxLateBeats
  /\ \A k \in GuardKeys : WithinBounds(attempts[k])

\* An attempt that is counted is as fresh as can be.
LEMMA CountedWithin ==
  ASSUME NEW row \in Attempt
  PROVE  /\ Counted(row).count = row.count + 1 /\ Counted(row).age = 0
         /\ Counted(row).cooldown \in 0..Window
<1>1. row.count \in Nat
  BY DEF Attempt
<1>2. CooldownAfter(row.count + 1) \in 0..Window
  BY <1>1, PolicyAssumption DEF CooldownAfter
<1> QED
  BY <1>2 DEF Counted

LEMMA RepairsWithin ==
  ASSUME BudgetInv, BoundInv, NEW a \in Agents, repairs < MaxRepairs,
         Records(agent[a].flow, agent[a].action), UNCHANGED lateBeats, Len(flows') <= MaxWorkflows
  PROVE  BoundInv'
<1>1. PICK key : /\ attempts' = [attempts EXCEPT ![key] = Counted(attempts[key])] /\ repairs' = repairs + 1
  BY DEF Records
<1>2. repairs \in Nat /\ repairs' \in 0..MaxRepairs
  BY <1>1, BoundsAssumption DEF BoundInv
<1>3. ASSUME NEW k \in GuardKeys PROVE WithinBounds(attempts[k])'
  <2>1. attempts[k] \in Attempt /\ attempts[k].count \in Nat /\ WithinBounds(attempts[k])
    BY <1>3 DEF BudgetInv, BudgetTypes, BoundInv, Attempt
  <2>2. CASE k = key
    <3>1. attempts'[k] = Counted(attempts[k])
      BY <1>1, <1>3, <2>2 DEF BudgetInv, BudgetTypes
    <3>2. /\ attempts'[k].count = attempts[k].count + 1 /\ attempts'[k].age = 0
          /\ attempts'[k].cooldown \in 0..Window
      BY <2>1, <3>1, CountedWithin
    <3> QED
      BY <1>1, <1>2, <2>1, <3>2, PolicyAssumption DEF WithinBounds
  <2>3. CASE k # key
    <3>1. attempts'[k] = attempts[k]
      BY <1>1, <1>3, <2>3 DEF BudgetInv, BudgetTypes
    <3> QED
      BY <1>1, <1>2, <2>1, <3>1 DEF WithinBounds
  <2> QED
    BY <2>2, <2>3
<1> QED
  BY <1>2, <1>3 DEF BoundInv

LEMMA TimeWithin ==
  ASSUME BudgetInv, BoundInv, TimePasses
  PROVE  BoundInv'
<1>1. UNCHANGED <<flows, repairs, lateBeats>>
  BY DEF TimePasses, AgentOnly
<1>2. ASSUME NEW k \in GuardKeys PROVE WithinBounds(attempts[k])'
  <2> DEFINE x == Older(attempts[k].age)
             y == IF attempts[k].cooldown = 0 THEN 0 ELSE attempts[k].cooldown - 1
  <2>1. /\ attempts[k] \in Attempt /\ attempts[k].count \in Nat /\ attempts[k].age \in Nat
        /\ attempts[k].cooldown \in Nat /\ WithinBounds(attempts[k])
        /\ attempts'[k] = [attempts[k] EXCEPT !.age = x, !.cooldown = y]
    BY <1>2 DEF BudgetInv, BudgetTypes, BoundInv, Attempt, TimePasses
  <2>2. x <= Window + 1 /\ y <= Window
    BY <2>1, PolicyAssumption DEF Older, WithinBounds
  <2> HIDE DEF x, y
  <2>3. attempts'[k].count = attempts[k].count /\ attempts'[k].age = x /\ attempts'[k].cooldown = y
    BY <2>1 DEF Attempt
  <2> QED
    BY <1>1, <2>1, <2>2, <2>3 DEF WithinBounds
<1> QED
  BY <1>1, <1>2 DEF BoundInv

LEMMA NextWithin == BoundInv /\ BudgetInv /\ RecoveryInv /\ [RecoveryNext]_recoveryVars => BoundInv'
<1> SUFFICES ASSUME BoundInv, BudgetInv, RecoveryInv, [RecoveryNext]_recoveryVars PROVE BoundInv'
  OBVIOUS
<1>0. flows \in Seq(FlowRow)
  BY DEF RecoveryInv, RecoveryTypes
<1>1. ASSUME UNCHANGED <<attempts, repairs>>, lateBeats' \in 0..MaxLateBeats, Len(flows') = Len(flows)
      PROVE  BoundInv'
  BY <1>1 DEF BoundInv, WithinBounds
<1>2. ASSUME NEW f \in DOMAIN flows, NEW outcome \in {"failed", "completed"}, PlanEnds(f, outcome)
      PROVE  BoundInv'
  <2>1. UNCHANGED <<attempts, repairs, lateBeats>>
    BY <1>2 DEF PlanEnds, WorldOnly
  <2>2. Len(flows') = Len(flows)
    BY <1>0, <1>2 DEF PlanEnds
  <2> QED
    BY <1>1, <2>1, <2>2 DEF BoundInv
<1>3. CASE WorkerDies
  <2>1. UNCHANGED <<attempts, repairs, lateBeats>>
    BY <1>3 DEF WorkerDies, WorldOnly
  <2>2. Len(flows') = Len(flows)
    BY <1>0, <1>3 DEF WorkerDies
  <2> QED
    BY <1>1, <2>1, <2>2 DEF BoundInv
<1>4. CASE WorkerStarts \/ HeartbeatReturns \/ UNCHANGED recoveryVars
  BY <1>1, <1>4 DEF WorkerStarts, HeartbeatReturns, WorldOnly, recoveryVars, BoundInv
<1>5. CASE HeartbeatExpires
  <2>1. lateBeats' \in 0..MaxLateBeats
    BY <1>5, BoundsAssumption DEF HeartbeatExpires, BoundInv
  <2> QED
    BY <1>1, <1>5, <2>1 DEF HeartbeatExpires, WorldOnly
<1>6. CASE TimePasses
  BY <1>6, TimeWithin
<1>7. ASSUME NEW a \in Agents,
             \/ \E f \in DOMAIN flows, action \in Repairs : Decides(a, f, action)
             \/ \E f \in DOMAIN flows, surface \in Surfaces : Guided(a, surface, f)
             \/ RepairRefused(a)
      PROVE  BoundInv'
  BY <1>1, <1>7 DEF Decides, Guided, RepairRefused, RowsUntouched, AgentOnly, BoundInv
<1>8. ASSUME NEW a \in Agents, NEW force \in BOOLEAN, MarkOrphaned(a, force)
      PROVE  BoundInv'
  <2>1. /\ repairs < MaxRepairs /\ UNCHANGED lateBeats /\ flows' = Marked(agent[a].flow)
        /\ agent[a].action = "mark" /\ Records(agent[a].flow, "mark")
    BY <1>8 DEF MarkOrphaned, AgentOnly
  <2>2. Len(flows') = Len(flows)
    BY <1>0, <2>1 DEF Marked
  <2> QED
    BY <2>1, <2>2, RepairsWithin DEF BoundInv
<1>9. ASSUME NEW a \in Agents, NEW force \in BOOLEAN, NEW key \in RetryKeys, RetryWorkflow(a, key, force)
      PROVE  BoundInv'
  <2>1. /\ repairs < MaxRepairs /\ UNCHANGED lateBeats
        /\ agent[a].action = "retry" /\ Records(agent[a].flow, "retry")
    BY <1>9 DEF RetryWorkflow, AgentOnly
  <2>2. PICK k : /\ Started(k) <= MaxWorkflows /\ flows' = Retried(agent[a].flow, k)
    BY <1>9 DEF RetryWorkflow
  <2>3. Len(WithStarted(k)) <= MaxWorkflows /\ WithStarted(k) \in Seq(FlowRow \cup {NewFlow(k)})
    <3>1. \/ Started(k) = Len(flows) + 1 /\ WithStarted(k) = Append(flows, NewFlow(k))
          \/ WithStarted(k) = flows
      BY StartedFlow DEF RecoveryInv
    <3> QED
      BY <1>0, <2>2, <3>1 DEF BoundInv
  <2>4. Len(flows') = Len(WithStarted(k))
    BY <2>2, <2>3 DEF Retried
  <2> QED
    BY <2>1, <2>3, <2>4, RepairsWithin
<1> QED
  BY <1>2, <1>3, <1>4, <1>5, <1>6, <1>7, <1>8, <1>9 DEF RecoveryNext

LEMMA InitWithin == RecoveryInit => BoundInv
<1> SUFFICES ASSUME RecoveryInit PROVE BoundInv
  OBVIOUS
<1>1. Len(flows) = 1
  BY DEF RecoveryInit
<1>2. \A k \in GuardKeys : attempts[k] = [count |-> 0, age |-> Window + 1, cooldown |-> 0]
  BY DEF RecoveryInit
<1>3. repairs = 0 /\ lateBeats = 0
  BY DEF RecoveryInit
<1> QED
  BY <1>1, <1>2, <1>3, BoundsAssumption, PolicyAssumption DEF BoundInv, WithinBounds

\* Every variable of guided recovery keeps its type, and what is counted its bound.
THEOREM RecoveryTyped == RecoverySpec => []RecoveryTypeOK
<1>1. ASSUME RecoveryInv, BudgetInv, BoundInv PROVE RecoveryTypeOK
  <2>1. ASSUME NEW f \in DOMAIN flows
        PROVE  /\ flows[f].phase \in {"planning"} \cup RetryableStates
               /\ flows[f].op \in {"running", "failed", "completed", "unknown"}
               /\ flows[f].turn \in {"none", "running", "ended"}
               /\ flows[f].replaces \in FlowIds /\ flows[f].replacedBy \in FlowIds
    <3>1. flows[f] \in FlowRow /\ DOMAIN flows \subseteq 1..MaxWorkflows
      BY <1>1, <2>1, BoundsAssumption DEF RecoveryInv, RecoveryTypes, BoundInv
    <3>2. flows[f].replaces \in DOMAIN flows \cup {0} /\ flows[f].replacedBy \in DOMAIN flows \cup {0}
      BY <1>1, <2>1 DEF RecoveryInv, KeyInv, LinkInv
    <3> QED
      BY <3>1, <3>2, BoundsAssumption DEF FlowRow, FlowIds
  <2>2. attempts \in [GuardKeys -> [count : 0..MaxRepairs, age : 0..(Window + 1), cooldown : 0..Window]]
    <3>1. ASSUME NEW k \in GuardKeys
          PROVE  attempts[k] \in [count : 0..MaxRepairs, age : 0..(Window + 1), cooldown : 0..Window]
      <4>1. attempts[k] \in Attempt /\ WithinBounds(attempts[k]) /\ repairs \in 0..MaxRepairs
        BY <1>1, <3>1 DEF BudgetInv, BudgetTypes, BoundInv
      <4>2. /\ attempts[k].count \in 0..MaxRepairs /\ attempts[k].age \in 0..(Window + 1)
            /\ attempts[k].cooldown \in 0..Window
        BY <4>1, BoundsAssumption, PolicyAssumption DEF Attempt, WithinBounds
      <4> QED
        BY <4>1, <4>2 DEF Attempt
    <3> QED
      BY <1>1, <3>1 DEF BudgetInv, BudgetTypes
  <2>3. agent \in [Agents -> [pc : {"idle", "go"}, flow : 1..MaxWorkflows, action : Repairs]]
    <3>1. DOMAIN flows \subseteq 1..MaxWorkflows
      BY <1>1, BoundsAssumption DEF RecoveryInv, RecoveryTypes, BoundInv
    <3> QED
      BY <1>1, <3>1 DEF RecoveryInv, RecoveryTypes
  <2> QED
    BY <1>1, <2>1, <2>2, <2>3 DEF RecoveryTypeOK, RecoveryInv, RecoveryTypes, BoundInv
<1>2. RecoveryInit => RecoveryInv /\ BudgetInv /\ BoundInv
  BY InitRecovery, InitBudget, InitWithin
<1>3. RecoveryInv /\ BudgetInv /\ BoundInv /\ [RecoveryNext]_recoveryVars => RecoveryInv' /\ BudgetInv' /\ BoundInv'
  BY NextRecovery, NextBudget, NextWithin
<1> QED
  BY <1>1, <1>2, <1>3, PTL DEF RecoverySpec
=============================================================================

---------------------------- MODULE EffectLedger ----------------------------
(***************************************************************************)
(* What the durable queue promises about one operation's effects on the    *)
(* Codex app-server, whatever crashes, restarts or retries happen: an      *)
(* effect the row records is never asked for again, some effects are never *)
(* asked for twice even when their outcome was lost, the row records only  *)
(* what was executed, and a recorded turn is never replaced.               *)
(***************************************************************************)
EXTENDS Integers

CONSTANTS
  Ops,
  Effects,   \* {"thread", "fork", "turn", "review", "steer"}
  Once       \* effects guarded by an attempted marker

VARIABLES
  made,      \* how often an app-server executed each effect
  thread,    \* the row records the thread
  turn,      \* the turn the row records, 0 for none
  acked      \* the row's steer was acknowledged

vars == <<made, thread, turn, acked>>

Init ==
  /\ made = [o \in Ops |-> [e \in Effects |-> 0]]
  /\ thread = [o \in Ops |-> FALSE]
  /\ turn = [o \in Ops |-> 0]
  /\ acked = [o \in Ops |-> FALSE]

Recorded(o, e) == CASE e \in {"thread", "fork"} -> thread[o]
                    [] e \in {"turn", "review"} -> turn[o] # 0
                    [] e = "steer" -> acked[o]

\* A message names its thread, and a steer its turn, when it is submitted.
Name(o) ==
  /\ \A e \in Effects : made[o][e] = 0
  /\ ~thread[o] /\ turn[o] = 0
  /\ thread' = [thread EXCEPT ![o] = TRUE]
  /\ turn' = [turn EXCEPT ![o] = 0] \/ turn' = [turn EXCEPT ![o] = 1]
  /\ UNCHANGED <<made, acked>>

Execute(o, e) ==
  /\ ~Recorded(o, e)
  /\ e \in Once => made[o][e] = 0
  /\ made' = [made EXCEPT ![o][e] = @ + 1]
  /\ UNCHANGED <<thread, turn, acked>>

RecordThread(o) ==
  /\ made[o]["thread"] + made[o]["fork"] > 0
  /\ ~thread[o]
  /\ thread' = [thread EXCEPT ![o] = TRUE]
  /\ UNCHANGED <<made, turn, acked>>

RecordTurn(o, k) ==
  /\ turn[o] = 0
  /\ k \in 1..(made[o]["turn"] + made[o]["review"])
  /\ turn' = [turn EXCEPT ![o] = k]
  /\ UNCHANGED <<made, thread, acked>>

Acknowledge(o) ==
  /\ made[o]["steer"] > 0
  /\ ~acked[o]
  /\ acked' = [acked EXCEPT ![o] = TRUE]
  /\ UNCHANGED <<made, thread, turn>>

Next == \E o \in Ops :
  \/ Name(o) \/ RecordThread(o) \/ Acknowledge(o)
  \/ \E e \in Effects : Execute(o, e)
  \/ \E k \in 1..(made[o]["turn"] + made[o]["review"]) : RecordTurn(o, k)

Spec == Init /\ [][Next]_vars

=============================================================================

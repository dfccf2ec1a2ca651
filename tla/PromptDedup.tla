----------------------------- MODULE PromptDedup -----------------------------
(***************************************************************************)
(* Submissions: what codex_submit_task writes for a start_chat, a          *)
(* send_message or an execute_plan before an operation is queued, and how  *)
(* a second submission of the same request or of the same prompt is        *)
(* answered.                                                               *)
(*                                                                         *)
(* A call runs in one process from beginning to end without an await, so   *)
(* calls of one process follow each other; those of other processes run    *)
(* between any two of its transactions.  An operation, its submission row  *)
(* and its scheduling row are known by the call that creates them (their   *)
(* ids are fresh uuids).  Two prompts are equal here when prompt_similarity*)
(* calls them duplicates within one project.                               *)
(***************************************************************************)
EXTENDS Naturals, FiniteSets

CONSTANTS
  Calls,      \* calls of codex_submit_task, a client's retries included
  Requests,   \* client_request_id values
  Prompts,    \* classes of similar prompts of one project
  Policies,   \* "resume": allow_historical_continuation is set; "force":
              \* dedup_policy is idempotency_only; "guard": neither
  KeySets,    \* sets of resource keys that calls name
  Processes,  \* server processes on the database
  None        \* no call

AllPolicies == {"guard", "resume", "force"}

ASSUME NoCall == None \notin Calls
ASSUME NoKey == \A keys \in KeySets : None \notin keys
ASSUME KnownPolicies == Policies \subseteq AllPolicies

NoRow == {None}

VARIABLES
  ask,       \* what each call asks for and which process it runs in
  at,        \* where it is
  match,     \* the submission it was found to duplicate
  answer,    \* the operation it was answered with
  sub,       \* status column of the submission row, "none" without a row
  linked,    \* does the submission row carry the turn id?
  op,        \* status of the operation, "none" without a row
  turn,      \* tracked status of the operation's turn
  keysOf     \* resource_keys_json of the scheduling row, NoRow without one

vars == <<ask, at, match, answer, sub, linked, op, turn, keysOf>>
call == <<ask, at, match, answer>>
store == <<sub, linked, op, turn, keysOf>>

Verdicts == {"completed", "failed"}   \* failed: every terminal status but completed
ActiveStatuses == {"queued", "running"}
Statuses == {"none"} \cup ActiveStatuses \cup Verdicts
Pending == {"find", "insert", "thread", "create", "schedule"}
Places == Pending \cup {"new", "answered", "duplicate", "thread_busy", "interrupted"}

Ask == [req : Requests, prompt : Prompts, keys : KeySets,
        policy : Policies, by : Processes]

\* A retry repeats the arguments, perhaps in another process.
Retries(f) == \A c, d \in Calls : f[c].req = f[d].req => f[d] = [f[c] EXCEPT !.by = f[d].by]

Init ==
  /\ ask \in {f \in [Calls -> Ask] : Retries(f)}
  /\ at = [c \in Calls |-> "new"]
  /\ match = [c \in Calls |-> None]
  /\ answer = [c \in Calls |-> None]
  /\ sub = [c \in Calls |-> "none"]
  /\ linked = [c \in Calls |-> FALSE]
  /\ op = [c \in Calls |-> "none"]
  /\ turn = [c \in Calls |-> "none"]
  /\ keysOf = [c \in Calls |-> NoRow]

Goto(c, p) == at' = [at EXCEPT ![c] = p]
Answer(c, o) == answer' = [answer EXCEPT ![c] = o] /\ Goto(c, "schedule")

\* client_request_id is UNIQUE.
ByRequest(r) == {o \in Calls : op[o] # "none" /\ ask[o].req = r}

-----------------------------------------------------------------------------
(* Duplicates.                                                             *)

\* _prompt_submission_effective_status: the turn's, else the operation's, else
\* the row's own.
RowStatusOnly(s) == sub[s]
EffectiveStatus(s) == IF linked[s] THEN turn[s]
                      ELSE IF op[s] # "none" THEN op[s] ELSE sub[s]
IsActive(s) == EffectiveStatus(s) \in ActiveStatuses

\* Resource keys tell tasks apart only when both name some.
DisjointIfUnnamed(a, b) == a \cap b = {}
Disjoint(a, b) == a # {} /\ b # {} /\ a \cap b = {}
KnownKeys(s) == keysOf[s] \ NoRow

Same(c) == {s \in Calls \ {c} : sub[s] # "none" /\ ask[s].prompt = ask[c].prompt}
ActiveDuplicates(c) == {s \in Same(c) : IsActive(s) /\ ~Disjoint(ask[c].keys, KnownKeys(s))}
Resumable(c) == {s \in Same(c) : EffectiveStatus(s) = "completed"}

-----------------------------------------------------------------------------
(* A call.                                                                 *)

ProcessFree(p) == \A c \in Calls : ask[c].by = p => at[c] \notin Pending

\* An existing operation of this request is the answer, whatever else is asked.
Begin(c) ==
  /\ at[c] = "new" /\ ProcessFree(ask[c].by)
  /\ IF ByRequest(ask[c].req) # {}
     THEN \E o \in ByRequest(ask[c].req) : Answer(c, o)
     ELSE Goto(c, "find") /\ UNCHANGED answer
  /\ UNCHANGED <<ask, match, store>>

Find(c) ==
  /\ at[c] = "find"
  /\ IF ask[c].policy # "force" /\ ActiveDuplicates(c) # {}
     THEN /\ \E s \in ActiveDuplicates(c) : match' = [match EXCEPT ![c] = s]
          /\ Goto(c, "duplicate")
     ELSE /\ Goto(c, "insert")
          /\ IF ask[c].policy = "resume" /\ Resumable(c) # {}
             THEN \E s \in Resumable(c) : match' = [match EXCEPT ![c] = s]
             ELSE UNCHANGED match
  /\ UNCHANGED <<ask, answer, store>>

Insert(c) ==
  /\ at[c] = "insert"
  /\ sub' = [sub EXCEPT ![c] = "queued"]
  /\ Goto(c, IF match[c] # None THEN "thread" ELSE "create")
  /\ UNCHANGED <<ask, match, answer, linked, op, turn, keysOf>>

\* To continue in the thread of a completed duplicate, no turn may run there.
RefuseThreadByCode(c) == sub' = [sub EXCEPT ![c] = "thread_busy"]
RefuseThread(c) == sub' = [sub EXCEPT ![c] = "failed"]

SameThread(c) == {o \in Calls : o = match[c] \/ match[o] = match[c]}

CheckThread(c) ==
  /\ at[c] = "thread"
  /\ IF \E o \in SameThread(c) : turn[o] = "running"
     THEN RefuseThread(c) /\ Goto(c, "thread_busy")
     ELSE UNCHANGED sub /\ Goto(c, "create")
  /\ UNCHANGED <<ask, match, answer, linked, op, turn, keysOf>>

InsertAnyway(c) == op' = [op EXCEPT ![c] = "queued"] /\ Answer(c, c)

\* INSERT OR IGNORE; the row of the request that is there then is the answer.
InsertOrIgnore(c) ==
  IF ByRequest(ask[c].req) = {}
  THEN op' = [op EXCEPT ![c] = "queued"] /\ Answer(c, c)
  ELSE UNCHANGED op /\ \E o \in ByRequest(ask[c].req) : Answer(c, o)

Create(c) ==
  /\ at[c] = "create"
  /\ InsertOrIgnore(c)
  /\ UNCHANGED <<ask, match, sub, linked, turn, keysOf>>

\* _ensure_operation_scheduling leaves a row that exists alone.
Schedule(c) ==
  /\ at[c] = "schedule"
  /\ keysOf' = [keysOf EXCEPT ![answer[c]] = IF @ = NoRow THEN ask[c].keys ELSE @]
  /\ Goto(c, "answered")
  /\ UNCHANGED <<ask, match, answer, sub, linked, op, turn>>

\* The database stays locked through all retries of a write, CODEX_STATE_BUSY,
\* or the process dies in the middle of the call and is started again.
Interrupt(c) ==
  /\ at[c] \in Pending
  /\ Goto(c, "interrupted")
  /\ answer' = [answer EXCEPT ![c] = None]
  /\ match' = [match EXCEPT ![c] = IF op[c] = "none" THEN None ELSE @]
  /\ UNCHANGED <<ask, store>>

-----------------------------------------------------------------------------
(* The life of an operation, as the submission row follows it.             *)

\* The turn is recorded in the operation first and in the submission next; the
\* process may die in between.
StartTurn(o) ==
  /\ op[o] = "queued"
  /\ op' = [op EXCEPT ![o] = "running"]
  /\ turn' = [turn EXCEPT ![o] = "running"]
  /\ \E known \in BOOLEAN :
       /\ linked' = [linked EXCEPT ![o] = known]
       /\ sub' = [sub EXCEPT ![o] = IF known /\ @ # "none" THEN "running" ELSE @]
  /\ UNCHANGED <<call, keysOf>>

\* An operation whose attempts were used up before a lease was taken fails
\* without a word to its submission row.
GiveUp(o) ==
  /\ op[o] = "queued"
  /\ op' = [op EXCEPT ![o] = "failed"]
  /\ sub' \in {sub, [sub EXCEPT ![o] = IF @ = "none" THEN @ ELSE "failed"]}
  /\ UNCHANGED <<call, linked, turn, keysOf>>

TurnEnds(o) ==
  /\ turn[o] = "running"
  /\ \E v \in Verdicts : turn' = [turn EXCEPT ![o] = v]
  /\ UNCHANGED <<call, sub, linked, op, keysOf>>

\* By a poll, or by the reconcile_operations_with_tracked_turns repair, which makes the same call.
Reconcile(o) ==
  /\ op[o] = "running" /\ turn[o] \in Verdicts
  /\ op' = [op EXCEPT ![o] = turn[o]]
  /\ sub' = [sub EXCEPT ![o] = IF @ = "none" THEN @ ELSE turn[o]]
  /\ UNCHANGED <<call, linked, turn, keysOf>>

\* The cleanup_prompt_submissions repair.
CleanUp(s) ==
  /\ sub[s] \in Verdicts
  /\ sub' = [sub EXCEPT ![s] = "none"]
  /\ linked' = [linked EXCEPT ![s] = FALSE]
  /\ UNCHANGED <<call, op, turn, keysOf>>

-----------------------------------------------------------------------------

Submit(c) == \/ Begin(c) \/ Find(c) \/ Insert(c) \/ CheckThread(c) \/ Create(c)
             \/ Schedule(c)

Next == \E c \in Calls :
  \/ Submit(c) \/ Interrupt(c)
  \/ StartTurn(c) \/ GiveUp(c) \/ TurnEnds(c) \/ Reconcile(c) \/ CleanUp(c)

Spec == Init /\ [][Next]_vars

-----------------------------------------------------------------------------

TypeOK ==
  /\ ask \in [Calls -> Ask]
  /\ at \in [Calls -> Places]
  /\ match \in [Calls -> Calls \cup {None}]
  /\ answer \in [Calls -> Calls \cup {None}]
  /\ sub \in [Calls -> Statuses]
  /\ linked \in [Calls -> BOOLEAN]
  /\ op \in [Calls -> Statuses]
  /\ turn \in [Calls -> {"none", "running"} \cup Verdicts]
  /\ keysOf \in [Calls -> KeySets \cup {NoRow}]

\* All calls that carry one client_request_id, in any processes and after any
\* failures, are answered with one operation: "no duplicate Codex turns after a
\* client retry" (README.md:48).
SameAnswer ==
  \A c, d \in Calls :
    /\ ask[c].req = ask[d].req
    /\ answer[c] # None /\ answer[d] # None
    => answer[c] = answer[d]

\* "Active duplicate prompt detection" (README.md:92) as far as it goes: of two
\* active operations with one prompt that the resource keys do not tell apart,
\* one was forced, or they were submitted through two processes.
NoTwinsInOneProcess ==
  \A c, d \in Calls :
    /\ c # d /\ op[c] \in ActiveStatuses /\ op[d] \in ActiveStatuses
    /\ sub[c] # "none" /\ sub[d] # "none" /\ IsActive(c) /\ IsActive(d)
    /\ ask[c].prompt = ask[d].prompt /\ ~Disjoint(ask[c].keys, ask[d].keys)
    /\ ask[c].by = ask[d].by
    => ask[c].policy = "force" \/ ask[d].policy = "force"

\* What blocks a prompt is an operation that is not over, or what is left of a
\* call that is still writing, was interrupted, or lost the race for its request
\* id: operations that end, exhausted ones too, unblock their prompt.
BlockedByLiveOrLost ==
  \A s \in Calls : sub[s] # "none" /\ IsActive(s) =>
    \/ op[s] \in ActiveStatuses
    \/ at[s] \in Pending \cup {"interrupted"}
    \/ answer[s] \notin {None, s}

=============================================================================

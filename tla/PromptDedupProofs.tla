-------------------------- MODULE PromptDedupProofs --------------------------
(***************************************************************************)
(* One client_request_id, one operation: whatever processes run the calls  *)
(* that carry it and wherever they are interrupted.                        *)
(***************************************************************************)
EXTENDS PromptDedup, TLAPS

\* Why: an answer is an operation row of the same request, and rows of one
\* request are one row.
AnswersAreRows ==
  \A c \in Calls : answer[c] # None => answer[c] \in ByRequest(ask[c].req)

RowsAreUnique ==
  \A o, p \in Calls :
    op[o] # "none" /\ op[p] # "none" /\ ask[o].req = ask[p].req => o = p

DedupInv == TypeOK /\ AnswersAreRows /\ RowsAreUnique

-----------------------------------------------------------------------------

LEMMA InitDedup == Init => DedupInv
<1> SUFFICES ASSUME Init PROVE DedupInv
  OBVIOUS
<1>1. TypeOK
  BY DEF Init, TypeOK, Places, Pending, Statuses, Verdicts
<1> QED
  BY <1>1 DEF Init, DedupInv, AnswersAreRows, RowsAreUnique

\* A step of a call leaves every variable in its range.
LEMMA CallTypes ==
  ASSUME TypeOK, NEW c \in Calls, Submit(c) \/ Interrupt(c)
  PROVE  TypeOK'
<1> USE DEF TypeOK, Places, Pending, Goto
<1>1. CASE Begin(c)
  BY <1>1 DEF Begin, Answer, ByRequest, store
<1>2. CASE Find(c)
  BY <1>2 DEF Find, ActiveDuplicates, Resumable, Same, store
<1>3. CASE Insert(c)
  BY <1>3 DEF Insert, Statuses, ActiveStatuses
<1>4. CASE CheckThread(c)
  BY <1>4 DEF CheckThread, RefuseThread, Statuses, Verdicts
<1>5. CASE Create(c)
  BY <1>5 DEF Create, InsertOrIgnore, Answer, ByRequest, Statuses, ActiveStatuses
<1>6. CASE Schedule(c)
  <2>1. keysOf' \in [Calls -> KeySets \cup {NoRow}]
    <3>1. ask[c].keys \in KeySets
      BY DEF Ask
    <3> QED
      BY <1>6, <3>1 DEF Schedule
  <2> QED
    BY <1>6, <2>1 DEF Schedule
<1>7. CASE Interrupt(c)
  BY <1>7 DEF Interrupt, store
<1> QED
  BY <1>1, <1>2, <1>3, <1>4, <1>5, <1>6, <1>7 DEF Submit

\* So does a step of an operation.
LEMMA LifeTypes ==
  ASSUME TypeOK, NEW o \in Calls,
         StartTurn(o) \/ GiveUp(o) \/ TurnEnds(o) \/ Reconcile(o) \/ CleanUp(o)
  PROVE  TypeOK'
<1> USE DEF TypeOK, Statuses, ActiveStatuses, Verdicts, call
<1>1. CASE StartTurn(o)
  <2>1. PICK known \in BOOLEAN :
          /\ linked' = [linked EXCEPT ![o] = known]
          /\ sub' = [sub EXCEPT ![o] = IF known /\ @ # "none" THEN "running" ELSE @]
    BY <1>1 DEF StartTurn
  <2>2. linked' \in [Calls -> BOOLEAN]
    BY <2>1, Zenon
  <2> QED
    BY <1>1, <2>1, <2>2 DEF StartTurn
<1>2. CASE GiveUp(o)
  BY <1>2 DEF GiveUp
<1>3. CASE TurnEnds(o)
  BY <1>3 DEF TurnEnds
<1>4. CASE Reconcile(o)
  BY <1>4 DEF Reconcile
<1>5. CASE CleanUp(o)
  BY <1>5 DEF CleanUp
<1> QED
  BY <1>1, <1>2, <1>3, <1>4, <1>5

\* Rows do not disappear and requests do not change: a step that gives no new
\* row and no new answer keeps the invariant.
LEMMA KeepsRows ==
  ASSUME DedupInv, TypeOK', ask' = ask,
         \A o \in Calls : op'[o] = "none" <=> op[o] = "none",
         \A d \in Calls : answer'[d] \in {None, answer[d]}
  PROVE  DedupInv'
BY NoCall DEF DedupInv, TypeOK, AnswersAreRows, RowsAreUnique, ByRequest

\* An answer taken from the rows of the request keeps it as well.
LEMMA AnswerKeepsRows ==
  ASSUME DedupInv, TypeOK', NEW c \in Calls, NEW o \in ByRequest(ask[c].req),
         Answer(c, o), UNCHANGED <<ask, op>>
  PROVE  DedupInv'
BY DEF DedupInv, TypeOK, AnswersAreRows, RowsAreUnique, ByRequest, Answer

\* INSERT OR IGNORE makes a row only for a request that has none.
LEMMA CreateKeepsRows ==
  ASSUME DedupInv, TypeOK', NEW c \in Calls, Create(c)
  PROVE  DedupInv'
<1>1. CASE ByRequest(ask[c].req) = {}
  <2>1. /\ op' = [op EXCEPT ![c] = "queued"]
        /\ answer' = [answer EXCEPT ![c] = c]
        /\ ask' = ask
    BY <1>1 DEF Create, InsertOrIgnore, Answer
  <2>2. AnswersAreRows'
    BY <2>1 DEF DedupInv, TypeOK, AnswersAreRows, ByRequest
  <2>3. RowsAreUnique'
    BY <1>1, <2>1 DEF DedupInv, TypeOK, RowsAreUnique, ByRequest
  <2> QED
    BY <2>2, <2>3 DEF DedupInv
<1>2. CASE ByRequest(ask[c].req) # {}
  <2>1. PICK o \in ByRequest(ask[c].req) : Answer(c, o)
    BY <1>2 DEF Create, InsertOrIgnore
  <2> QED
    BY <1>2, <2>1, AnswerKeepsRows DEF Create, InsertOrIgnore
<1> QED
  BY <1>1, <1>2

LEMMA NextDedup == DedupInv /\ [Next]_vars => DedupInv'
<1> SUFFICES ASSUME DedupInv, [Next]_vars PROVE DedupInv'
  OBVIOUS
<1>1. ASSUME NEW c \in Calls, Submit(c) \/ Interrupt(c) PROVE DedupInv'
  <2>1. TypeOK'
    BY <1>1, CallTypes DEF DedupInv
  <2>2. CASE Begin(c)
    <3>1. CASE ByRequest(ask[c].req) # {}
      BY <2>1, <2>2, <3>1, AnswerKeepsRows DEF Begin, store
    <3>2. CASE ByRequest(ask[c].req) = {}
      BY <2>1, <2>2, <3>2, KeepsRows DEF Begin, store
    <3> QED
      BY <3>1, <3>2
  <2>3. CASE Create(c)
    BY <2>1, <2>3, CreateKeepsRows
  <2>4. CASE Interrupt(c)
    BY <2>1, <2>4, KeepsRows DEF Interrupt, store, DedupInv, TypeOK
  <2>5. CASE Find(c) \/ Insert(c) \/ CheckThread(c) \/ Schedule(c)
    BY <2>1, <2>5, KeepsRows DEF Find, Insert, CheckThread, Schedule, store
  <2> QED
    BY <1>1, <2>2, <2>3, <2>4, <2>5 DEF Submit
<1>2. ASSUME NEW o \in Calls,
             StartTurn(o) \/ GiveUp(o) \/ TurnEnds(o) \/ Reconcile(o) \/ CleanUp(o)
      PROVE DedupInv'
  <2>1. TypeOK'
    BY <1>2, LifeTypes DEF DedupInv
  <2>2. /\ ask' = ask /\ answer' = answer
        /\ \A p \in Calls : op'[p] = "none" <=> op[p] = "none"
    BY <1>2 DEF StartTurn, GiveUp, TurnEnds, Reconcile, CleanUp, call, DedupInv,
                TypeOK, Verdicts
  <2> QED
    BY <2>1, <2>2, KeepsRows
<1>3. CASE UNCHANGED vars
  BY <1>3, KeepsRows DEF vars, DedupInv, TypeOK
<1> QED
  BY <1>1, <1>2, <1>3 DEF Next

\* Every variable of the submissions keeps its type.
THEOREM DedupTypes == Spec => []TypeOK
<1>1. DedupInv => TypeOK
  BY DEF DedupInv
<1> QED
  BY <1>1, InitDedup, NextDedup, PTL DEF Spec

\* Calls that carry one client_request_id are answered with one operation, in
\* any number of processes and after any failures.
THEOREM DedupSameAnswer == Spec => []SameAnswer
<1>1. DedupInv => SameAnswer
  BY DEF DedupInv, TypeOK, AnswersAreRows, RowsAreUnique, ByRequest, SameAnswer
<1> QED
  BY <1>1, InitDedup, NextDedup, PTL DEF Spec

-----------------------------------------------------------------------------

\* Why a prompt that is blocked is blocked by something: where a call stands
\* tells what its submission row may say while it has no operation.
PlaceInv(s) ==
  /\ turn[s] = "running" => op[s] = "running"
  /\ at[s] \in {"new", "find", "insert", "duplicate"} => sub[s] = "none"
  /\ at[s] = "thread_busy" /\ op[s] = "none" => sub[s] \notin ActiveStatuses
  /\ at[s] \in {"schedule", "answered"} => answer[s] # None

BlockInv == DedupInv /\ \A s \in Calls : PlaceInv(s)

LEMMA InitBlock == Init => BlockInv
BY InitDedup DEF Init, BlockInv, PlaceInv

\* A step of a call concerns its own row only.
LEMMA CallKeepsPlaces ==
  ASSUME BlockInv, NEW c \in Calls, Submit(c) \/ Interrupt(c)
  PROVE  \A s \in Calls : PlaceInv(s)'
<1> USE NoCall DEF BlockInv, DedupInv, TypeOK, PlaceInv, Goto
<1>1. CASE Begin(c)
  BY <1>1 DEF Begin, Answer, ByRequest, store
<1>2. CASE Find(c)
  BY <1>2 DEF Find, store
<1>3. CASE Insert(c)
  BY <1>3 DEF Insert
<1>4. CASE CheckThread(c)
  BY <1>4 DEF CheckThread, RefuseThread, ActiveStatuses
<1>5. CASE Create(c)
  BY <1>5 DEF Create, InsertOrIgnore, Answer, ByRequest
<1>6. CASE Schedule(c)
  BY <1>6 DEF Schedule
<1>7. CASE Interrupt(c)
  BY <1>7 DEF Interrupt, store, Pending
<1> QED
  BY <1>1, <1>2, <1>3, <1>4, <1>5, <1>6, <1>7 DEF Submit

\* Nor does a step of an operation give a row to a call that has none.
LEMMA LifeKeepsPlaces ==
  ASSUME BlockInv, NEW o \in Calls,
         StartTurn(o) \/ GiveUp(o) \/ TurnEnds(o) \/ Reconcile(o) \/ CleanUp(o)
  PROVE  \A s \in Calls : PlaceInv(s)'
<1> USE DEF BlockInv, DedupInv, TypeOK, PlaceInv, call, Verdicts, ActiveStatuses
<1>1. CASE StartTurn(o)
  BY <1>1 DEF StartTurn
<1>2. CASE GiveUp(o)
  BY <1>2 DEF GiveUp
<1>3. CASE TurnEnds(o)
  BY <1>3 DEF TurnEnds
<1>4. CASE Reconcile(o)
  BY <1>4 DEF Reconcile
<1>5. CASE CleanUp(o)
  BY <1>5 DEF CleanUp
<1> QED
  BY <1>1, <1>2, <1>3, <1>4, <1>5

LEMMA NextBlock == BlockInv /\ [Next]_vars => BlockInv'
<1> SUFFICES ASSUME BlockInv, [Next]_vars PROVE BlockInv'
  OBVIOUS
<1>1. DedupInv'
  BY NextDedup DEF BlockInv
<1>2. \A s \in Calls : PlaceInv(s)'
  <2>1. CASE UNCHANGED vars
    BY <2>1 DEF vars, BlockInv, PlaceInv
  <2> QED
    BY <2>1, CallKeepsPlaces, LifeKeepsPlaces DEF Next
<1> QED
  BY <1>1, <1>2 DEF BlockInv

\* A prompt is blocked by an operation that is not over or by the remains of a
\* call that did not get its own operation, never by an operation that ended.
THEOREM DedupUnblocks == Spec => []BlockedByLiveOrLost
<1>1. ASSUME BlockInv PROVE BlockedByLiveOrLost
  <2> SUFFICES ASSUME NEW s \in Calls, sub[s] # "none", IsActive(s),
                      op[s] \notin ActiveStatuses,
                      at[s] \notin Pending \cup {"interrupted"}
               PROVE  answer[s] \notin {None, s}
    BY DEF BlockedByLiveOrLost
  <2>1. ~linked[s] /\ op[s] = "none" /\ sub[s] \in ActiveStatuses
    <3>1. turn[s] \in ActiveStatuses => op[s] \in ActiveStatuses
      BY <1>1 DEF BlockInv, DedupInv, TypeOK, PlaceInv, ActiveStatuses, Verdicts
    <3> QED
      BY <3>1 DEF IsActive, EffectiveStatus
  <2>2. at[s] = "answered" /\ answer[s] # None
    BY <1>1, <2>1 DEF BlockInv, DedupInv, TypeOK, PlaceInv, Places, Pending
  <2>3. answer[s] # s
    BY <1>1, <2>1, <2>2 DEF BlockInv, DedupInv, AnswersAreRows, ByRequest
  <2> QED
    BY <2>2, <2>3
<1> QED
  BY <1>1, InitBlock, NextBlock, PTL DEF Spec

-----------------------------------------------------------------------------

\* Why one process makes no twins: it runs one call at a time, so whatever a
\* search did not see has been submitted through another process, is over for
\* good or is told apart by its keys.
Searched(c) == at[c] \in {"insert", "thread", "create"}
BlocksTwins(c) == op[c] \in ActiveStatuses /\ sub[c] # "none" /\ IsActive(c)
Through(c) == Searched(c) \/ BlocksTwins(c)

\* Two calls that a search in their process must keep apart.
Twins(c, d) ==
  /\ c # d /\ ask[c].by = ask[d].by /\ ask[c].prompt = ask[d].prompt
  /\ ask[c].policy # "force" /\ ask[d].policy # "force"
  /\ ~Disjoint(ask[c].keys, ask[d].keys)

\* A call has an operation after its search only, and a turn after its operation
\* was queued; the keys that are on record are those that it named.
SearchInv(s) ==
  /\ Searched(s) \/ at[s] \in {"new", "find"} => op[s] = "none"
  /\ turn[s] # "none" => op[s] \notin {"none", "queued"}
  /\ linked[s] => turn[s] # "none"
  /\ keysOf[s] \in {NoRow, ask[s].keys}

OneAtATime == \A c, d \in Calls :
  ask[c].by = ask[d].by /\ at[c] \in Pending /\ at[d] \in Pending => c = d

TwinInv ==
  /\ BlockInv /\ Retries(ask) /\ OneAtATime
  /\ \A s \in Calls : SearchInv(s)
  /\ \A c, d \in Calls : Twins(c, d) => ~(Through(c) /\ Through(d))

\* At the start nothing was searched and no operation exists.
LEMMA InitTwin == Init => TwinInv
<1> SUFFICES ASSUME Init PROVE TwinInv
  OBVIOUS
<1>1. OneAtATime
  BY DEF Init, OneAtATime, Pending
<1>2. \A s \in Calls : SearchInv(s) /\ ~Through(s)
  BY DEF Init, SearchInv, Through, Searched, BlocksTwins, ActiveStatuses
<1>3. Retries(ask)
  BY DEF Init
<1> QED
  BY <1>1, <1>2, <1>3, InitBlock DEF TwinInv

\* Requests do not change.
LEMMA AskIsFixed ==
  ASSUME [Next]_vars
  PROVE  ask' = ask
BY DEF Next, vars, Submit, Begin, Find, Insert, CheckThread, Create, Schedule,
       Interrupt, StartTurn, GiveUp, TurnEnds, Reconcile, CleanUp, call

\* A call only begins where its process runs no other.
LEMMA KeepsOneAtATime ==
  ASSUME TwinInv, [Next]_vars
  PROVE  OneAtATime'
<1> USE DEF TwinInv, BlockInv, DedupInv, TypeOK, OneAtATime
<1>0. ask' = ask
  BY AskIsFixed
<1>1. ASSUME NEW c \in Calls, Begin(c) PROVE OneAtATime'
  <2>1. \A d \in Calls : d # c => at'[d] = at[d]
    BY <1>1 DEF Begin, Answer, Goto
  <2>2. \A d \in Calls : ask[d].by = ask[c].by => at[d] \notin Pending
    BY <1>1 DEF Begin, ProcessFree
  <2> QED
    BY <1>0, <2>1, <2>2
<1>2. ASSUME NEW c \in Calls,
             Find(c) \/ Insert(c) \/ CheckThread(c) \/ Create(c) \/ Schedule(c)
               \/ Interrupt(c)
      PROVE OneAtATime'
  <2>1. at[c] \in Pending /\ \A d \in Calls : d # c => at'[d] = at[d]
    BY <1>2 DEF Find, Insert, CheckThread, Create, InsertOrIgnore, Schedule,
                Interrupt, Answer, Goto, Pending
  <2> QED
    BY <1>0, <2>1
<1>3. ASSUME NEW o \in Calls,
             StartTurn(o) \/ GiveUp(o) \/ TurnEnds(o) \/ Reconcile(o) \/ CleanUp(o)
      PROVE OneAtATime'
  BY <1>0, <1>3 DEF StartTurn, GiveUp, TurnEnds, Reconcile, CleanUp, call
<1>4. CASE UNCHANGED vars
  BY <1>0, <1>4 DEF vars
<1> QED
  BY <1>1, <1>2, <1>3, <1>4 DEF Next, Submit

\* What is recorded of a call follows its search.
LEMMA KeepsSearchInv ==
  ASSUME TwinInv, [Next]_vars
  PROVE  \A s \in Calls : SearchInv(s)'
<1> USE DEF TwinInv, BlockInv, DedupInv, TypeOK, SearchInv, Searched
<1>0. ask' = ask
  BY AskIsFixed
<1>1. ASSUME NEW c \in Calls, Begin(c) PROVE \A s \in Calls : SearchInv(s)'
  BY <1>0, <1>1 DEF Begin, Answer, Goto, store
<1>2. ASSUME NEW c \in Calls, Find(c) PROVE \A s \in Calls : SearchInv(s)'
  BY <1>0, <1>2 DEF Find, Goto, store
<1>3. ASSUME NEW c \in Calls, Insert(c) \/ CheckThread(c) PROVE \A s \in Calls : SearchInv(s)'
  BY <1>0, <1>3 DEF Insert, CheckThread, Goto
<1>4. ASSUME NEW c \in Calls, Create(c) PROVE \A s \in Calls : SearchInv(s)'
  BY <1>0, <1>4 DEF Create, InsertOrIgnore, Answer, Goto
<1>5. ASSUME NEW c \in Calls, Schedule(c) PROVE \A s \in Calls : SearchInv(s)'
  <2>1. answer[c] \in Calls /\ ask[answer[c]].req = ask[c].req
    BY <1>5 DEF Schedule, PlaceInv, AnswersAreRows, ByRequest
  <2>2. ask[answer[c]].keys = ask[c].keys
    <3>1. ask[answer[c]] = [ask[c] EXCEPT !.by = ask[answer[c]].by]
      BY <2>1 DEF Retries
    <3> QED
      BY <3>1 DEF Ask
  <2>3. \A s \in Calls : keysOf'[s] \in {NoRow, ask[s].keys}
    BY <1>5, <2>1, <2>2 DEF Schedule
  <2> QED
    BY <1>0, <1>5, <2>3 DEF Schedule, Goto
<1>6. ASSUME NEW c \in Calls, Interrupt(c) PROVE \A s \in Calls : SearchInv(s)'
  BY <1>0, <1>6 DEF Interrupt, Goto, store
<1>7. ASSUME NEW o \in Calls, StartTurn(o) PROVE \A s \in Calls : SearchInv(s)'
  BY <1>0, <1>7 DEF StartTurn, call
<1>8. ASSUME NEW o \in Calls, GiveUp(o) \/ TurnEnds(o) \/ Reconcile(o) \/ CleanUp(o)
      PROVE \A s \in Calls : SearchInv(s)'
  BY <1>0, <1>8 DEF GiveUp, TurnEnds, Reconcile, CleanUp, Verdicts, call
<1>9. CASE UNCHANGED vars
  BY <1>9 DEF vars
<1> QED
  BY <1>1, <1>2, <1>3, <1>4, <1>5, <1>6, <1>7, <1>8, <1>9 DEF Next, Submit

\* Nothing but a search lets a call through: an operation that is over, or whose
\* row is gone, does not come back.
LEMMA OnlySearchLetsThrough ==
  ASSUME TwinInv, [Next]_vars, NEW s \in Calls, ~Find(s), Through(s)'
  PROVE  Through(s)
<1> USE DEF TwinInv, BlockInv, DedupInv, TypeOK, SearchInv, Through, Searched, BlocksTwins
<1>1. SearchInv(s)
  OBVIOUS
<1>2. ASSUME NEW c \in Calls, Begin(c) PROVE Through(s)
  BY <1>2 DEF Begin, Answer, Goto, store, IsActive, EffectiveStatus
<1>3. ASSUME NEW c \in Calls, Find(c) PROVE Through(s)
  BY <1>3 DEF Find, Goto, store, IsActive, EffectiveStatus
<1>4. ASSUME NEW c \in Calls, Insert(c) \/ CheckThread(c) PROVE Through(s)
  BY <1>4 DEF Insert, CheckThread, RefuseThread, Goto, IsActive, EffectiveStatus
<1>5. ASSUME NEW c \in Calls, Create(c) PROVE Through(s)
  BY <1>5 DEF Create, InsertOrIgnore, Answer, Goto, IsActive, EffectiveStatus
<1>6. ASSUME NEW c \in Calls, Schedule(c) \/ Interrupt(c) PROVE Through(s)
  BY <1>6 DEF Schedule, Interrupt, Goto, store, IsActive, EffectiveStatus
<1>7. ASSUME NEW o \in Calls, StartTurn(o) PROVE Through(s)
  BY <1>7 DEF StartTurn, call, IsActive, EffectiveStatus, ActiveStatuses
<1>8. ASSUME NEW o \in Calls, GiveUp(o) \/ TurnEnds(o) \/ Reconcile(o) \/ CleanUp(o)
      PROVE Through(s)
  BY <1>8 DEF GiveUp, TurnEnds, Reconcile, CleanUp, call, IsActive, EffectiveStatus,
              ActiveStatuses, Verdicts
<1>9. CASE UNCHANGED vars
  BY <1>9 DEF vars, IsActive, EffectiveStatus
<1> QED
  BY <1>2, <1>3, <1>4, <1>5, <1>6, <1>7, <1>8, <1>9 DEF Next, Submit

\* A call that gets through its search leaves no twin of its process behind.
LEMMA SearchSeesTwins ==
  ASSUME TwinInv, NEW c \in Calls, NEW d \in Calls, Twins(c, d), Find(c), Through(c)'
  PROVE  ~Through(d)
<1> USE DEF TwinInv, BlockInv, DedupInv, TypeOK
<1>1. at[c] = "find"
  BY DEF Find
<1>2. op[c] = "none"
  BY <1>1 DEF SearchInv
<1>3. ActiveDuplicates(c) = {}
  <2>1. SUFFICES ASSUME ActiveDuplicates(c) # {} PROVE FALSE
    OBVIOUS
  <2>2. at'[c] = "duplicate" /\ op' = op
    BY <2>1 DEF Find, Twins, Goto, store
  <2> QED
    BY <1>2, <2>2 DEF Through, Searched, BlocksTwins, ActiveStatuses
<1>4. ~Searched(d)
  BY <1>1 DEF Twins, OneAtATime, Searched, Pending
<1>5. ~BlocksTwins(d)
  <2>1. SUFFICES ASSUME BlocksTwins(d) PROVE FALSE
    OBVIOUS
  <2>2. d \in Same(c) /\ IsActive(d)
    BY <2>1 DEF BlocksTwins, Same, Twins
  <2>3. Disjoint(ask[c].keys, KnownKeys(d))
    BY <1>3, <2>2 DEF ActiveDuplicates
  <2>4. ask[d].keys \in KeySets
    BY DEF Ask
  <2>5. KnownKeys(d) \subseteq ask[d].keys /\ KnownKeys(d) \in {{}, ask[d].keys}
    BY <2>4, NoKey DEF SearchInv, KnownKeys, NoRow
  <2>6. Disjoint(ask[c].keys, ask[d].keys)
    BY <2>3, <2>5 DEF Disjoint
  <2> QED
    BY <2>6 DEF Twins
<1> QED
  BY <1>4, <1>5 DEF Through

LEMMA NextTwin == TwinInv /\ [Next]_vars => TwinInv'
<1> SUFFICES ASSUME TwinInv, [Next]_vars PROVE TwinInv'
  OBVIOUS
<1>1. ask' = ask
  BY AskIsFixed
<1>2. BlockInv' /\ Retries(ask)'
  BY <1>1, NextBlock DEF TwinInv, Retries
<1>3. ASSUME NEW c \in Calls, NEW d \in Calls, Twins(c, d)', Through(c)', Through(d)'
      PROVE  FALSE
  <2>1. Twins(c, d) /\ Twins(d, c)
    BY <1>1, <1>3 DEF Twins, Disjoint
  <2>2. ~(Through(c) /\ Through(d))
    BY <2>1 DEF TwinInv
  <2>3. Find(c) \/ Find(d)
    BY <1>3, <2>2, OnlySearchLetsThrough
  <2>4. CASE Find(c)
    <3>1. ~Through(d) /\ ~Find(d)
      BY <1>3, <2>1, <2>4, SearchSeesTwins DEF Find, TwinInv, OneAtATime, Twins, Pending
    <3> QED
      BY <1>3, <3>1, OnlySearchLetsThrough
  <2>5. CASE Find(d)
    <3>1. ~Through(c) /\ ~Find(c)
      BY <1>3, <2>1, <2>5, SearchSeesTwins DEF Find, TwinInv, OneAtATime, Twins, Pending
    <3> QED
      BY <1>3, <3>1, OnlySearchLetsThrough
  <2> QED
    BY <2>3, <2>4, <2>5
<1> QED
  BY <1>2, <1>3, KeepsOneAtATime, KeepsSearchInv DEF TwinInv

\* Of two active operations with one prompt that were submitted through one
\* process, and whose keys do not tell them apart, one was forced.
THEOREM DedupNoTwins == Spec => []NoTwinsInOneProcess
<1>1. TwinInv => NoTwinsInOneProcess
  BY DEF TwinInv, NoTwinsInOneProcess, Twins, Through, BlocksTwins
<1> QED
  BY <1>1, InitTwin, NextTwin, PTL DEF Spec

=============================================================================

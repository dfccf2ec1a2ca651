------------------------------ MODULE TurnRecord ------------------------------
(***************************************************************************)
(* What is written of one turn, and by whom: turn_tracker.py in the        *)
(* process that owns the app-server, hooks/codex_sqlite_journal.py in the  *)
(* processes Codex runs as hooks, codex_get_turn_status in any process,    *)
(* which restores an end that only the hook journal knows, and the import  *)
(* of the transcript by a codex_get_workflow_status with refresh_live.     *)
(*                                                                         *)
(* The app-server writes lines; the reader of the owner takes them in      *)
(* order, and a task that a line wakes may run after further lines of the  *)
(* same chunk.  Both tables are in one database, without transactions      *)
(* over a read and the write that depends on it.                           *)
(***************************************************************************)
EXTENDS Naturals, Sequences

CONSTANTS
  MaxSaid,      \* bound: messages of the turn
  MaxQuestions, \* bound: approvals it asks for
  MaxReads      \* bound: requests whose reply carries a snapshot of the thread

VARIABLES
  hooks,        \* are the Codex hooks installed?
  served,       \* the turn in the app-server: state, messages, questions, reads
  lines,        \* what the app-server wrote and the reader has not taken
  hook,         \* the hooks Codex ran so far
  alive,        \* the process that owns the app-server
  starter,      \* its task that sends turn/start and waits for the first message
  stopper,      \* its task that sends turn/interrupt
  resolving,    \* answers sent whose task has not marked the turn yet
  record,       \* tracked_turns and tracked_turn_messages
  active,       \* _thread_active_turn names this turn
  journal,      \* codex_hook_turns
  poll,         \* the end another process has read and is about to store
  import,       \* the status an import has read in the transcript
  phaseOver,    \* is the phase stored in the workflow one that imports?
  slips         \* history: who wrote an active status over an end it did not know
                \* ("mirror": the tracker over a Stop hook, "import": an import)

recordVars == <<hooks, served, lines, hook, alive, starter, stopper, resolving, record, active,
                journal, poll, import, phaseOver, slips>>

Outcomes == {"completed", "failed", "interrupted"}
Live == {"running", "first", "asking"}
Over == Outcomes \cup {"aborted", "unknown"}             \* TURN_TERMINAL_STATUSES
InServer == {"running", "asking"}
Waits == {"waiting"}

TurnLine(kind, what) == [kind |-> kind, what |-> what]
Write(newLines) == lines' = lines \o newLines
Trusted(row) == row.status \in Over /\ row.ended
Last(row) == IF row.heard = 0 THEN "none" ELSE "last"
NoStatusCall == UNCHANGED <<poll, import, phaseOver>>

----------------------------------------------------------------------------
(* The app-server and the hooks it runs: external, but for what a hook writes *)

ServerOnly == UNCHANGED <<hooks, alive, resolving, record, active, slips>> /\ NoStatusCall
Proceeds == served.state = "running" /\ (hooks => hook = "prompt")

SendsStart ==
  /\ alive /\ starter = "idle"
  /\ starter' = "asked"
  /\ UNCHANGED <<served, lines, hook, stopper, journal>> /\ ServerOnly

TurnStarts ==
  /\ starter = "asked" /\ served.state = "none"
  /\ served' = [served EXCEPT !.state = "running"]
  /\ \/ Write(<<TurnLine("started", "none"), TurnLine("reply", "start")>>)
     \/ Write(<<TurnLine("reply", "start"), TurnLine("started", "none")>>)
  /\ UNCHANGED <<hook, starter, stopper, journal>> /\ ServerOnly

TurnSpeaks ==
  /\ Proceeds /\ served.said < MaxSaid
  /\ served' = [served EXCEPT !.said = @ + 1]
  /\ Write(<<TurnLine("message", "none")>>)
  /\ UNCHANGED <<hook, starter, stopper, journal>> /\ ServerOnly

TurnAsks ==
  /\ Proceeds /\ served.asked < MaxQuestions
  /\ served' = [served EXCEPT !.state = "asking", !.asked = @ + 1]
  /\ Write(<<TurnLine("question", "none")>>)
  /\ UNCHANGED <<hook, starter, stopper, journal>> /\ ServerOnly

TurnStops ==
  /\ served.state = "running"
  /\ \/ served' = [served EXCEPT !.state = "completed"] /\ (hooks => hook = "stop")
     \/ served' = [served EXCEPT !.state = "failed"] /\ hook # "stop"
  /\ Write(<<TurnLine("end", served'.state)>>)
  /\ UNCHANGED <<hook, starter, stopper, journal>> /\ ServerOnly

SendsInterrupt ==
  /\ alive /\ stopper = "idle" /\ served.state # "none"
  /\ stopper' = "asked"
  /\ UNCHANGED <<served, lines, hook, starter, journal>> /\ ServerOnly

TurnInterrupted ==
  /\ stopper = "asked" /\ served.state \in InServer /\ hook # "stop"
  /\ served' = [served EXCEPT !.state = "interrupted"]
  /\ \/ Write(<<TurnLine("reply", "stop"), TurnLine("end", "interrupted")>>)
     \/ Write(<<TurnLine("end", "interrupted"), TurnLine("reply", "stop")>>)
  /\ stopper' = "served"
  /\ UNCHANGED <<hook, starter, journal>> /\ ServerOnly

InterruptRefused ==
  /\ stopper = "asked" /\ (served.state \notin InServer \/ hook = "stop")
  /\ stopper' = "over"
  /\ UNCHANGED <<served, lines, hook, starter, journal>> /\ ServerOnly

\* A reply with the thread and its turns (thread/read, thread/resume).
ServesSnapshot ==
  /\ alive /\ served.reads < MaxReads /\ served.state \in InServer \cup Outcomes
  /\ served' = [served EXCEPT !.reads = @ + 1]
  /\ Write(<<TurnLine("snapshot", IF served.state = "asking" THEN "running" ELSE served.state)>>)
  /\ UNCHANGED <<hook, starter, stopper, journal>> /\ ServerOnly

\* record_payload of a UserPromptSubmit and of a Stop hook, and upsert_hook_turn
PromptHook ==
  /\ hooks /\ hook = "none" /\ served.state = "running"
  /\ hook' = "prompt"
  /\ journal' = [journal EXCEPT !.status = "running"]
  /\ UNCHANGED <<served, lines, starter, stopper>> /\ ServerOnly

StopHook ==
  /\ hooks /\ hook = "prompt" /\ served.state = "running"
  /\ hook' = "stop"
  /\ journal' = [status |-> "completed", ended |-> TRUE, final |-> IF served.said = 0 THEN journal.final ELSE "last"]
  /\ UNCHANGED <<served, lines, starter, stopper>> /\ ServerOnly

----------------------------------------------------------------------------
(* The tracker of the owner                                                *)

Outside == UNCHANGED <<hooks, served, hook, alive>> /\ NoStatusCall

\* _mirror_turn_started and _mirror_turn_status
Mirror(status, ended, final) ==
  /\ journal' = [status |-> status,
                 ended |-> journal.ended \/ ended,
                 final |-> IF final = "none" THEN journal.final ELSE final]
  /\ slips' = IF hook = "stop" /\ status \in Live THEN slips \cup {"mirror"} ELSE slips
NoMirror == UNCHANGED <<journal, slips>>

\* _resolve_first_message
Resolve(answer) == starter' = IF starter \in Waits THEN answer ELSE starter

\* record_event, by what the line is about
EventStarted ==
  /\ record' = [record EXCEPT !.status = "running"]
  /\ active' = TRUE
  /\ Mirror("running", FALSE, "none")
  /\ UNCHANGED <<starter, stopper>>

EventMessage ==
  /\ record' = [record EXCEPT !.heard = @ + 1,
                              !.status = IF @ \in {"none", "running"} THEN "first" ELSE @]
  /\ Resolve("answered")
  /\ UNCHANGED <<active, stopper>> /\ NoMirror

\* with _handle_server_request and mark_pending_interaction
EventQuestion ==
  /\ record' = [record EXCEPT !.status = "asking"]
  /\ active' = TRUE
  /\ Mirror("asking", FALSE, "none")
  /\ UNCHANGED <<starter, stopper>>

EventEnd(outcome) ==
  /\ record' = [record EXCEPT !.status = outcome, !.ended = TRUE,
                              !.final = IF Last(record) = "none" THEN @ ELSE "last"]
  /\ active' = FALSE
  /\ Mirror(outcome, TRUE, Last(record))
  /\ Resolve("empty")
  /\ UNCHANGED stopper

\* record_thread_snapshot
EventSnapshot(status) ==
  /\ record' = [record EXCEPT !.status = status, !.ended = @ \/ status \in Over]
  /\ Mirror(status, status \in Over, record.final)
  /\ UNCHANGED <<active, starter, stopper>>

\* A reply wakes the task that waits for it.
ReplyWakes(what) ==
  /\ starter' = IF what = "start" /\ starter = "asked" THEN "woken" ELSE starter
  /\ stopper' = IF what = "stop" /\ stopper = "served" THEN "woken" ELSE stopper
  /\ UNCHANGED <<record, active>> /\ NoMirror

TakesLine ==
  /\ alive /\ lines # <<>> /\ lines' = Tail(lines)
  /\ LET line == Head(lines) IN
       \/ line.kind = "started" /\ EventStarted
       \/ line.kind = "message" /\ EventMessage
       \/ line.kind = "question" /\ EventQuestion
       \/ line.kind = "end" /\ EventEnd(line.what)
       \/ line.kind = "snapshot" /\ EventSnapshot(line.what)
       \/ line.kind = "reply" /\ ReplyWakes(line.what)
  /\ UNCHANGED resolving /\ Outside

----------------------------------------------------------------------------
(* Tasks of the owner that a line has woken                                *)

\* register_turn and the head of wait_first_message
RegisterRevives == "running"
RegisterKeepsEnd == IF record.status \in Over THEN record.status ELSE "running"

RegisterTurn ==
  /\ starter = "woken"
  /\ record' = [record EXCEPT !.status = RegisterKeepsEnd]
  /\ active' = (active \/ RegisterKeepsEnd \in Live)
  /\ Mirror(RegisterKeepsEnd, FALSE, "none")
  /\ starter' = IF record.heard > 0 THEN "answered"
                ELSE IF record'.status \in Over THEN "empty" ELSE "waiting"
  /\ UNCHANGED <<lines, stopper, resolving>> /\ Outside

FirstMessageTimesOut ==
  /\ starter = "waiting" /\ starter' = "late"
  /\ UNCHANGED <<lines, stopper, resolving, record, active>> /\ NoMirror /\ Outside

\* mark_turn_interrupted
MarkInterrupted ==
  /\ stopper = "woken" /\ stopper' = "over"
  /\ record' = IF record.status = "none" THEN record
               ELSE [record EXCEPT !.status = "interrupted", !.ended = TRUE]
  /\ active' = FALSE
  /\ Resolve("empty")
  /\ UNCHANGED <<lines, resolving>> /\ NoMirror /\ Outside

\* The answer reaches the app-server before its task marks the turn.
QuestionAnswered ==
  /\ alive /\ served.state = "asking" /\ \A i \in DOMAIN lines : lines[i].kind # "question"
  /\ served' = [served EXCEPT !.state = "running"]
  /\ resolving' = resolving + 1
  /\ UNCHANGED <<hooks, lines, hook, alive, starter, stopper, record, active>>
  /\ NoMirror /\ NoStatusCall

\* mark_interaction_resolved
MarkResolved ==
  /\ resolving > 0 /\ resolving' = resolving - 1
  /\ record' = IF record.status = "asking" THEN [record EXCEPT !.status = "running"] ELSE record
  /\ UNCHANGED <<lines, starter, stopper, active>> /\ NoMirror /\ Outside

----------------------------------------------------------------------------
(* Ends of processes                                                       *)

ServerDies ==
  /\ served.state \in InServer
  /\ served' = [served EXCEPT !.state = "gone"]
  /\ UNCHANGED <<hooks, lines, hook, alive, starter, stopper, resolving, record, active>>
  /\ NoMirror /\ NoStatusCall

\* The end of its output: mark_active_turns_unknown, once; requests fail.
WritesOff ==
  /\ alive /\ served.state = "gone" /\ lines = <<>>
  /\ served' = [served EXCEPT !.state = "closed"]
  /\ record' = IF record.status \in Live THEN [record EXCEPT !.status = "unknown", !.ended = TRUE] ELSE record
  /\ active' = FALSE
  /\ starter' = IF starter \in {"asked", "waiting"} THEN "empty" ELSE starter
  /\ stopper' = IF stopper = "woken" THEN stopper ELSE "over"
  /\ UNCHANGED <<hooks, lines, hook, alive, resolving>> /\ NoMirror /\ NoStatusCall

OwnerDies ==
  /\ alive /\ alive' = FALSE
  /\ served' = IF served.state \in InServer THEN [served EXCEPT !.state = "gone"] ELSE served
  /\ lines' = <<>> /\ active' = FALSE /\ resolving' = 0
  /\ starter' = "dead" /\ stopper' = "dead"
  /\ UNCHANGED <<hooks, hook, record>> /\ NoMirror /\ NoStatusCall

----------------------------------------------------------------------------
(* Status calls, of any process                                            *)

Elsewhere == UNCHANGED <<hooks, served, lines, hook, alive, starter, stopper, resolving, active>>

\* _fallback_terminal_should_replace_live
JournalIsNeverBetter == Trusted(journal) /\ record.status = "unknown"
JournalIsBetter == Trusted(journal) /\ ~Trusted(record)

\* What codex_get_turn_status answers.
RecordSays == record.status     \* get_turn_status of the tracker
JournalSays == journal.status   \* _hook_turn_status
Told == IF JournalIsBetter THEN JournalSays ELSE RecordSays

PollReads ==
  /\ poll = "none" /\ record.status # "none"
  /\ JournalIsBetter
  /\ poll' = JournalSays
  /\ UNCHANGED <<record, import, phaseOver>> /\ NoMirror /\ Elsewhere

\* _persist_recovered_turn_terminal
PollStores ==
  /\ poll # "none" /\ poll' = "none"
  /\ record' = [record EXCEPT !.status = poll, !.ended = TRUE,
                              !.final = IF journal.final = "none" THEN @ ELSE journal.final]
  /\ UNCHANGED <<import, phaseOver>> /\ NoMirror /\ Elsewhere

\* The transcript, which Codex writes, as parse_transcript reads it.
Transcript == CASE served.state = "none" -> "none"
                [] served.state \in {"completed", "failed"} -> served.state
                [] served.state = "interrupted" -> "aborted"
                [] OTHER -> "running"

\* A workflow status call stores the phase it derives from the turn; one that
\* finds a phase of _refresh_workflow_thread_tracking imports the transcript.
WorkflowPoll ==
  /\ import = "none" /\ record.status # "none" /\ ~phaseOver
  /\ phaseOver' = (Told \in Over)
  /\ UNCHANGED <<record, poll, import>> /\ NoMirror /\ Elsewhere

ImportReads ==
  /\ import = "none" /\ phaseOver
  /\ import' = Transcript
  /\ UNCHANGED <<record, poll, phaseOver>> /\ NoMirror /\ Elsewhere

\* import_transcript_summary_to_tracking, and the phase derived after it.
ImportStores ==
  /\ import # "none" /\ import' = "none"
  /\ record' = [record EXCEPT !.status = import, !.ended = @ \/ import = "completed",
                              !.final = IF import = "completed" /\ served.said > 0 THEN "last" ELSE @]
  /\ phaseOver' = (import \in Over)
  /\ slips' = IF record.status \in Over /\ import \in Live THEN slips \cup {"import"} ELSE slips
  /\ UNCHANGED <<poll, journal>> /\ Elsewhere

----------------------------------------------------------------------------
RecordInit ==
  /\ hooks \in BOOLEAN
  /\ served = [state |-> "none", said |-> 0, asked |-> 0, reads |-> 0]
  /\ lines = <<>> /\ hook = "none" /\ alive = TRUE
  /\ starter = "idle" /\ stopper = "idle" /\ resolving = 0
  /\ record = [status |-> "none", ended |-> FALSE, final |-> "none", heard |-> 0]
  /\ active = FALSE
  /\ journal = [status |-> "none", ended |-> FALSE, final |-> "none"]
  /\ poll = "none" /\ import = "none" /\ phaseOver = FALSE /\ slips = {}

OwnerWorks == TakesLine \/ RegisterTurn \/ MarkInterrupted \/ MarkResolved \/ WritesOff

RecordNext ==
  \/ SendsStart \/ TurnStarts \/ TurnSpeaks \/ TurnAsks \/ TurnStops
  \/ SendsInterrupt \/ TurnInterrupted \/ InterruptRefused \/ ServesSnapshot
  \/ PromptHook \/ StopHook
  \/ TakesLine \/ RegisterTurn \/ FirstMessageTimesOut \/ MarkInterrupted
  \/ QuestionAnswered \/ MarkResolved
  \/ ServerDies \/ WritesOff \/ OwnerDies
  \/ PollReads \/ PollStores \/ WorkflowPoll \/ ImportReads \/ ImportStores

\* The owner takes its lines and runs its tasks as long as it lives, and
\* somebody polls the turn.
RecordFairness ==
  WF_recordVars(OwnerWorks) /\ WF_recordVars(PollReads) /\ WF_recordVars(PollStores)

RecordSpec == RecordInit /\ [][RecordNext]_recordVars /\ RecordFairness

----------------------------------------------------------------------------
RecordTypeOK ==
  /\ hooks \in BOOLEAN /\ alive \in BOOLEAN /\ active \in BOOLEAN /\ slips \subseteq {"mirror", "import"}
  /\ served \in [state : {"none", "gone", "closed"} \cup InServer \cup Outcomes,
                 said : 0..MaxSaid, asked : 0..MaxQuestions, reads : 0..MaxReads]
  /\ hook \in {"none", "prompt", "stop"}
  /\ starter \in {"idle", "asked", "woken", "waiting", "answered", "empty", "late", "dead"}
  /\ stopper \in {"idle", "asked", "served", "woken", "over", "dead"}
  /\ resolving \in 0..MaxQuestions
  /\ record \in [status : {"none"} \cup Live \cup Over, ended : BOOLEAN,
                 final : {"none", "last"}, heard : 0..MaxSaid]
  /\ journal \in [status : {"none"} \cup Live \cup Over, ended : BOOLEAN, final : {"none", "last"}]
  /\ poll \in {"none"} \cup Over /\ import \in {"none", "running"} \cup Over /\ phaseOver \in BOOLEAN
  /\ \A i \in DOMAIN lines : lines[i].kind \in {"started", "message", "question", "end", "snapshot", "reply"}

\* Once every line is taken and every task has run, what a status call tells
\* of a turn that ended is its end: the status, every message and the final
\* message, in whatever order replies, events, snapshots, hooks, imports and
\* status calls of other processes came; and an end is never recorded of a
\* turn that goes on.  (An import that stored what it had read before the end
\* may spoil it: LostTurnStaysLost.)
Outcome(status) == IF status = "aborted" THEN "interrupted" ELSE status

RecordMatchesTheTurn ==
  /\ (/\ alive /\ lines = <<>> /\ poll = "none" /\ resolving = 0
      /\ starter # "woken" /\ stopper # "woken" /\ served.state \in Outcomes
      /\ "import" \notin slips)
     => /\ Outcome(Told) = served.state /\ record.heard = served.said
        /\ Outcome(journal.status) = served.state
        /\ served.said > 0 => (record.final = "last" /\ journal.final = "last")
  /\ record.status \in Outcomes =>
       (served.state = record.status \/ (hook = "stop" /\ record.status = "completed"))

\* A turn that ended is at last recorded as ended, whatever happens to the
\* process that owned its app-server: what its reader missed is restored from
\* the Stop hook by the next status call.
TurnIsSettled ==
  hook = "stop" ~> (record.status \in Over \/ record.status = "none" \/ slips # {})

\* A turn that was written off with its app-server is over and stays so.
LostTurnStaysLost ==
  [][record.status = "unknown" => record'.status \in Over]_recordVars
=============================================================================

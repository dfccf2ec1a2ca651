----------------------------- MODULE HistoryIndex -----------------------------
(***************************************************************************)
(* The history of one chat as codex_search_chats finds it: search.py over  *)
(* the catalog (catalog.py) and three histories that other programs write. *)
(* Codex appends to a rollout file, moves it to the archive and back, and  *)
(* names it in its own database a little later; the hooks append to a      *)
(* journal; a knowledge base keeps a directory of the thread.              *)
(*                                                                         *)
(* Histories grow by messages, so a history is known by their number, and  *)
(* so is its stamp (size and time of the last change).  A refresh runs in  *)
(* one SQLite transaction of a process that may die at any point.          *)
(***************************************************************************)
EXTENDS Naturals

CONSTANTS
  MaxMessages,   \* bound: messages of a history
  MaxMoves,      \* bound: how often the rollout is archived or restored
  MaxRestarts    \* bound: restarts of the process

ASSUME HistoryAssumption == MaxMessages \in Nat /\ MaxMoves \in Nat /\ MaxRestarts \in Nat

VARIABLES
  history,   \* messages of each history, 0: there is none
  row,       \* rollout_path of the thread in Codex's database
  moves,     \* bound
  catalog,   \* the process: loaded?, transcript_path of the chat, the row it saw
  cached,    \* transcript_path in the table chats
  index,     \* chat_search_docs and chat_search_transcripts as the process sees them
  saved,     \* what of them is committed
  scan,      \* the refresh under way
  told,      \* the answer of the last search
  restarts   \* bound

historyVars == <<history, row, moves, catalog, cached, index, saved, scan, told, restarts>>

Rollouts == {"rollout", "archive"}
Histories == Rollouts \cup {"hook", "kb"}
Nowhere == "none"
NoScan == [pc |-> "idle", path |-> Nowhere, stamp |-> 0, read |-> 0, late |-> FALSE]
NotTold == [path |-> Nowhere, late |-> TRUE, had |-> 0]
Unloaded == [loaded |-> FALSE, chat |-> Nowhere, row |-> Nowhere]

Exists(p) == p # Nowhere /\ history[p] > 0
StampOf(p) == history[p]   \* size and time of the last change
Parsed(p) == history[p]    \* the messages a reader finds
OtherPrograms == UNCHANGED <<catalog, cached, index, saved, scan, told, restarts>>
World == UNCHANGED <<history, row, moves>>

----------------------------------------------------------------------------
(* The programs that write the histories: external.                        *)

\* A new thread has its rollout among the sessions.
Grows(p) ==
  /\ p # "archive" /\ history[p] < MaxMessages
  /\ p = "rollout" => history["archive"] = 0
  /\ history' = [history EXCEPT ![p] = @ + 1]
  /\ UNCHANGED <<row, moves>> /\ OtherPrograms

Moves(from, to) ==
  /\ history[from] > 0 /\ moves < MaxMoves
  /\ history' = [history EXCEPT ![from] = 0, ![to] = history[from]]
  /\ moves' = moves + 1
  /\ UNCHANGED row /\ OtherPrograms

RowFollows ==
  /\ \E p \in Rollouts : history[p] > 0 /\ row # p /\ row' = p
  /\ UNCHANGED <<history, moves>> /\ OtherPrograms

----------------------------------------------------------------------------
(* The catalog                                                             *)

\* catalog.refresh, source by source: a row's path counts whether or not the
\* file is there, the journal only fills a gap, the knowledge base replaces
\* everything but the journal.
FromRow == row
FromSessions == IF FromRow # Nowhere THEN FromRow
                ELSE IF Exists("rollout") THEN "rollout"
                ELSE IF Exists("archive") THEN "archive" ELSE Nowhere
FromHooks == IF FromSessions = Nowhere /\ Exists("hook") THEN "hook" ELSE FromSessions
Chosen == IF FromHooks # "hook" /\ Exists("kb") THEN "kb" ELSE FromHooks

\* ... and then _persist_cache, which commits whatever the connection holds.
Catalogs ==
  /\ catalog' = [loaded |-> TRUE, chat |-> Chosen, row |-> row]
  /\ cached' = IF Chosen = Nowhere THEN cached ELSE Chosen
  /\ saved' = index

\* _ensure_refreshed: the projects and chats of the last refresh, or a first refresh
\* where no project is cached.
LoadsCache ==
  \/ catalog.loaded /\ UNCHANGED <<catalog, cached, saved>>
  \/ ~catalog.loaded /\ cached = Nowhere /\ Catalogs
  \/ /\ ~catalog.loaded
     /\ catalog' = [Unloaded EXCEPT !.loaded = TRUE, !.chat = cached]
     /\ UNCHANGED <<cached, saved>>

\* locate_transcript without its last resort.  A journal is not looked for on disk.
Fallback(c) ==
  IF Exists("hook") THEN "hook" ELSE IF Exists("kb") THEN "kb" ELSE IF Exists(c.row) THEN c.row ELSE Nowhere
Located(c) == IF Exists(c.chat) \/ c.chat = "hook" THEN c.chat ELSE Fallback(c)

----------------------------------------------------------------------------
(* SearchIndex.refresh                                                     *)

At(pc) == scan.pc = pc

\* A short time budget does without a refresh of the catalog.
RefreshBegins(short) ==
  /\ At("idle")
  /\ IF short THEN LoadsCache ELSE Catalogs
  /\ scan' = [NoScan EXCEPT !.pc = IF catalog'.chat = Nowhere THEN "idle" ELSE "locate"]
  /\ told' = NotTold
  /\ UNCHANGED <<index, restarts>> /\ World

\* The stamp is taken before the history is read; one that agrees with the
\* checkpoint is not read at all.
Finds(p) ==
  scan' = [scan EXCEPT !.path = p, !.stamp = IF p = Nowhere THEN 0 ELSE StampOf(p),
                       !.pc = IF p = Nowhere THEN "commit" ELSE IF index.mark[p] = StampOf(p) THEN "commit" ELSE "read"]

Locates ==
  /\ At("locate")
  /\ IF Located(catalog) # Nowhere
     THEN Finds(Located(catalog)) /\ UNCHANGED <<catalog, cached, saved>>
     ELSE Catalogs /\ Finds(IF Exists(Chosen) /\ Chosen # "hook" THEN Chosen ELSE Nowhere)
  /\ UNCHANGED <<index, told, restarts>> /\ World

DeadlinePasses ==
  /\ scan.pc \in {"locate", "read"}
  /\ scan' = [scan EXCEPT !.pc = "commit", !.late = TRUE]
  /\ UNCHANGED <<catalog, cached, index, saved, told, restarts>> /\ World

\* The documents are deleted before the history is read.  A rollout that was
\* moved meanwhile ends the call, with the deletion not yet committed.
Reads ==
  /\ At("read")
  /\ index' = [index EXCEPT !.docs[scan.path] = 0]
  /\ scan' = IF scan.path \in Rollouts /\ ~Exists(scan.path)
             THEN NoScan
             ELSE [scan EXCEPT !.pc = "store", !.read = Parsed(scan.path)]
  /\ UNCHANGED <<catalog, cached, saved, told, restarts>> /\ World

StampAfterwards == StampOf(scan.path)
Stamp == scan.stamp

Stores ==
  /\ At("store")
  /\ index' = [index EXCEPT !.docs[scan.path] = scan.read, !.mark[scan.path] = Stamp]
  /\ scan' = [scan EXCEPT !.pc = "commit"]
  /\ UNCHANGED <<catalog, cached, saved, told, restarts>> /\ World

Commits ==
  /\ At("commit")
  /\ saved' = index /\ scan' = NoScan
  /\ told' = [path |-> scan.path, late |-> scan.late, had |-> scan.stamp]
  /\ UNCHANGED <<catalog, cached, index, restarts>> /\ World

\* Any other call of this process commits what a failed refresh left open.
SomethingCommits ==
  /\ At("idle") /\ saved # index /\ saved' = index
  /\ UNCHANGED <<catalog, cached, index, scan, told, restarts>> /\ World

ProcessRestarts ==
  /\ restarts < MaxRestarts /\ restarts' = restarts + 1
  /\ index' = saved /\ catalog' = Unloaded /\ scan' = NoScan /\ told' = NotTold
  /\ UNCHANGED <<cached, saved>> /\ World

----------------------------------------------------------------------------
Empty == [docs |-> [p \in Histories |-> 0], mark |-> [p \in Histories |-> 0]]

HistoryInit ==
  /\ history = [p \in Histories |-> 0] /\ row = Nowhere /\ moves = 0
  /\ catalog = Unloaded /\ cached = Nowhere
  /\ index = Empty /\ saved = Empty
  /\ scan = NoScan /\ told = NotTold /\ restarts = 0

HistoryNext ==
  \/ \E p \in Histories : Grows(p)
  \/ \E from, to \in Rollouts : from # to /\ Moves(from, to)
  \/ RowFollows
  \/ \E short \in BOOLEAN : RefreshBegins(short)
  \/ Locates \/ DeadlinePasses \/ Reads \/ Stores \/ Commits
  \/ SomethingCommits \/ ProcessRestarts

HistorySpec == HistoryInit /\ [][HistoryNext]_historyVars

----------------------------------------------------------------------------
Counts == [Histories -> 0..MaxMessages]
HistoryTypeOK ==
  /\ history \in Counts /\ row \in Rollouts \cup {Nowhere} /\ moves \in 0..MaxMoves
  /\ catalog \in [loaded : BOOLEAN, chat : Histories \cup {Nowhere}, row : Rollouts \cup {Nowhere}]
  /\ cached \in Histories \cup {Nowhere}
  /\ index \in [docs : Counts, mark : Counts] /\ saved \in [docs : Counts, mark : Counts]
  /\ scan \in [pc : {"idle", "locate", "read", "store", "commit"}, path : Histories \cup {Nowhere},
               stamp : 0..MaxMessages, read : 0..MaxMessages, late : BOOLEAN]
  /\ told \in [path : Histories \cup {Nowhere}, late : BOOLEAN, had : 0..MaxMessages]
  /\ restarts \in 0..MaxRestarts

\* A search that does not report an exhausted time budget finds every message
\* that the history it chose had when it looked there, although that history
\* grows while it is read, although an earlier refresh was cut short, failed or
\* died with its process, and although it was perhaps not read this time.
SearchIsComplete ==
  (told.path # Nowhere /\ ~told.late) => saved.docs[told.path] >= told.had
=============================================================================

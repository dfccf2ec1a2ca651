---------------------------- MODULE RecordsProofs ----------------------------
(***************************************************************************)
(* A search that was not cut short is complete, for histories of any       *)
(* length, any number of moves of the rollout and any number of restarts.  *)
(* And what is proved of submissions, repairs and the search holds of the  *)
(* three in one run.                                                       *)
(***************************************************************************)
EXTENDS MCRecords, PromptDedupProofs, RecoveryProofs, TLAPS

ScanPlaces == {"idle", "locate", "read", "store", "commit"}
ScanRow == [pc : ScanPlaces, path : Histories \cup {Nowhere},
            stamp : 0..MaxMessages, read : 0..MaxMessages, late : BOOLEAN]
IndexRow == [docs : Counts, mark : Counts]
CatalogRow == [loaded : BOOLEAN, chat : Histories \cup {Nowhere}, row : Rollouts \cup {Nowhere}]
ToldRow == [path : Histories \cup {Nowhere}, late : BOOLEAN, had : 0..MaxMessages]

\* The messages a history has, wherever it is: a rollout is in one of two places.
Size(p) == IF p \in Rollouts
           THEN IF history["archive"] = 0 THEN history["rollout"] ELSE history["archive"]
           ELSE history[p]

\* A rollout is not in both places.
PlacedInv == history["archive"] = 0 \/ history["rollout"] = 0

\* Documents are missing only where the checkpoint is behind the history, so
\* that the next refresh reads it again.
Checked(i) ==
  \A p \in Histories : /\ i.mark[p] <= Size(p)
                       /\ i.docs[p] >= i.mark[p] \/ i.mark[p] < Size(p)

\* What a refresh relies on where it stands.
ScanInv ==
  /\ scan.pc \in {"read", "store"} =>
       /\ scan.path \in Histories /\ scan.stamp <= Size(scan.path)
       /\ index.mark[scan.path] < Size(scan.path)
  /\ scan.pc = "store" => scan.read >= scan.stamp
  /\ scan.pc = "commit" /\ scan.path # Nowhere /\ ~scan.late => index.docs[scan.path] >= scan.stamp

\* An answer holds until the next refresh, as nothing is left to commit.
ToldInv ==
  told.path # Nowhere /\ ~told.late =>
    scan.pc = "idle" /\ saved = index /\ saved.docs[told.path] >= told.had

SearchTypes ==
  /\ history \in Counts /\ row \in Rollouts \cup {Nowhere} /\ moves \in 0..MaxMoves
  /\ catalog \in CatalogRow /\ cached \in Histories \cup {Nowhere}
  /\ index \in IndexRow /\ saved \in IndexRow /\ scan \in ScanRow /\ told \in ToldRow
  /\ restarts \in 0..MaxRestarts

HistoryInv ==
  SearchTypes /\ PlacedInv /\ Checked(index) /\ Checked(saved) /\ ScanInv /\ ToldInv

-----------------------------------------------------------------------------
(* The programs that write the histories                                   *)

LEMMA TypesAre == SearchTypes <=> HistoryTypeOK
  BY DEF SearchTypes, HistoryTypeOK, CatalogRow, IndexRow, ScanRow, ToldRow, ScanPlaces

\* Histories only grow, so what is behind stays behind.
LEMMA GrowingKeeps ==
  ASSUME HistoryInv, OtherPrograms, history' \in Counts, PlacedInv',
         row' \in Rollouts \cup {Nowhere}, moves' \in 0..MaxMoves,
         \A p \in Histories : Size(p)' >= Size(p)
  PROVE  HistoryInv'
<1>1. SearchTypes'
  BY DEF HistoryInv, SearchTypes, OtherPrograms
<1>2. \A p \in Histories : Size(p) \in Nat /\ Size(p)' \in Nat
  BY HistoryAssumption DEF HistoryInv, SearchTypes, Counts, Size, Histories, Rollouts
<1>3. ASSUME NEW i \in IndexRow, Checked(i)
      PROVE  \A p \in Histories : /\ i.mark[p] <= Size(p)'
                                  /\ i.docs[p] >= i.mark[p] \/ i.mark[p] < Size(p)'
  <2>1. \A p \in Histories : i.mark[p] \in Nat
    BY HistoryAssumption DEF IndexRow, Counts
  <2> QED
    BY <1>2, <1>3, <2>1 DEF Checked
<1>4. Checked(index)' /\ Checked(saved)'
  <2>1. index \in IndexRow /\ saved \in IndexRow /\ Checked(index) /\ Checked(saved)
    BY DEF HistoryInv, SearchTypes
  <2>2. index' = index /\ saved' = saved
    BY DEF OtherPrograms
  <2> QED
    BY <1>3, <2>1, <2>2 DEF Checked
<1>5. ScanInv'
  <2>1. index' = index /\ scan' = scan
    BY DEF OtherPrograms
  <2>2. scan.stamp \in Nat /\ \A p \in Histories : index.mark[p] \in Nat
    BY HistoryAssumption DEF HistoryInv, SearchTypes, ScanRow, IndexRow, Counts
  <2>3. scan.pc \in {"read", "store"} =>
          scan.stamp <= Size(scan.path)' /\ index.mark[scan.path] < Size(scan.path)'
    BY <1>2, <2>1, <2>2 DEF HistoryInv, ScanInv
  <2> QED
    BY <2>1, <2>3 DEF HistoryInv, ScanInv
<1>6. ToldInv'
  BY DEF HistoryInv, ToldInv, OtherPrograms
<1> QED
  BY <1>1, <1>4, <1>5, <1>6 DEF HistoryInv

LEMMA GrowsKeeps ==
  ASSUME HistoryInv, NEW p \in Histories, Grows(p)
  PROVE  HistoryInv'
<1>1. history \in Counts /\ history[p] + 1 \in 0..MaxMessages
  BY HistoryAssumption DEF HistoryInv, SearchTypes, Counts, Grows
<1>2. history' \in Counts /\ history'[p] = history[p] + 1 /\ \A q \in Histories : q # p => history'[q] = history[q]
  BY <1>1 DEF Grows, Counts
<1>3. PlacedInv'
  BY <1>2 DEF HistoryInv, PlacedInv, Grows, Histories, Rollouts
<1>4. \A q \in Histories : history[q] \in Nat
  BY <1>1, HistoryAssumption DEF Counts
<1>5. \A q \in Histories : Size(q)' >= Size(q)
  BY <1>2, <1>4 DEF Size, Histories, Rollouts, Grows
<1> QED
  BY <1>2, <1>3, <1>5, GrowingKeeps DEF Grows, HistoryInv, SearchTypes

LEMMA MovesKeeps ==
  ASSUME HistoryInv, NEW from \in Rollouts, NEW to \in Rollouts, from # to, Moves(from, to)
  PROVE  HistoryInv'
<1>1. history \in Counts /\ moves \in 0..MaxMoves /\ from \in Histories /\ to \in Histories
  BY DEF HistoryInv, SearchTypes, Histories
<1>2. /\ history' \in Counts /\ history'[from] = 0 /\ history'[to] = history[from]
      /\ \A q \in Histories : q \notin {from, to} => history'[q] = history[q]
  BY <1>1, HistoryAssumption DEF Moves, Counts
<1>3. \A q \in Histories : history[q] \in Nat
  BY <1>1, HistoryAssumption DEF Counts
<1>4. PlacedInv' /\ \A q \in Histories : Size(q)' >= Size(q)
  BY <1>1, <1>2, <1>3 DEF HistoryInv, PlacedInv, Size, Histories, Rollouts, Moves
<1>5. moves' \in 0..MaxMoves
  BY <1>1, HistoryAssumption DEF Moves
<1> QED
  BY <1>2, <1>4, <1>5, GrowingKeeps DEF Moves, HistoryInv, SearchTypes

LEMMA RowFollowsKeeps ==
  ASSUME HistoryInv, RowFollows
  PROVE  HistoryInv'
<1>1. history' = history /\ moves' = moves /\ row' \in Rollouts /\ OtherPrograms
  BY DEF RowFollows
<1>2. \A q \in Histories : Size(q) \in Nat /\ Size(q)' = Size(q)
  BY <1>1, HistoryAssumption DEF HistoryInv, SearchTypes, Counts, Size, Histories, Rollouts
<1> QED
  BY <1>1, <1>2, GrowingKeeps DEF HistoryInv, SearchTypes, PlacedInv

-----------------------------------------------------------------------------
(* The refresh *)

LEMMA ChosenType == row \in Rollouts \cup {Nowhere} => Chosen \in Histories \cup {Nowhere}
  BY DEF Chosen, FromHooks, FromSessions, FromRow, Exists, Histories, Rollouts

\* What exists has all its messages where it is.
LEMMA SizeOfExisting ==
  ASSUME HistoryInv, NEW p \in Histories
  PROVE  /\ Size(p) \in 0..MaxMessages /\ history[p] \in 0..MaxMessages /\ history[p] <= Size(p)
         /\ p \notin Rollouts \/ history[p] > 0 => history[p] = Size(p)
<1>1. \A q \in Histories : history[q] \in 0..MaxMessages
  BY DEF HistoryInv, SearchTypes, Counts
<1> QED
  BY <1>1, HistoryAssumption DEF HistoryInv, PlacedInv, Size, Rollouts, Histories

\* Reading or writing the catalog, with what is open committed or not.
LEMMA CatalogTypes ==
  ASSUME HistoryInv, LoadsCache \/ Catalogs
  PROVE  catalog' \in CatalogRow /\ cached' \in Histories \cup {Nowhere} /\ saved' \in {saved, index}
<1>1. catalog \in CatalogRow /\ row \in Rollouts \cup {Nowhere} /\ cached \in Histories \cup {Nowhere}
  BY DEF HistoryInv, SearchTypes
<1>2. CASE Catalogs
  <2>1. Chosen \in Histories \cup {Nowhere}
    BY <1>1, ChosenType
  <2> QED
    BY <1>1, <1>2, <2>1 DEF Catalogs, CatalogRow
<1>3. CASE LoadsCache /\ ~Catalogs
  BY <1>1, <1>3 DEF LoadsCache, CatalogRow, Unloaded
<1> QED
  BY <1>2, <1>3

\* The world stands still, the index keeps what it knows.
LEMMA WorldKept ==
  ASSUME HistoryInv, World, UNCHANGED index, saved' \in {saved, index}
  PROVE  /\ history' \in Counts /\ row' \in Rollouts \cup {Nowhere} /\ moves' \in 0..MaxMoves
         /\ index' \in IndexRow /\ saved' \in IndexRow
         /\ PlacedInv' /\ Checked(index)' /\ Checked(saved)'
<1>1. UNCHANGED <<history, row, moves>>
  BY DEF World
<1>2. \A p \in Histories : Size(p)' = Size(p)
  BY <1>1 DEF Size
<1>3. Checked(index)' /\ Checked(saved)'
  BY <1>2 DEF HistoryInv, Checked
<1> QED
  BY <1>1, <1>3 DEF HistoryInv, SearchTypes, PlacedInv

LEMMA NoScanRow == NoScan \in ScanRow /\ NoScan.pc = "idle"
<1>1. 0 \in 0..MaxMessages
  BY HistoryAssumption
<1> QED
  BY <1>1 DEF NoScan, ScanRow, ScanPlaces

LEMMA ScanStarts ==
  \A pc \in ScanPlaces : [NoScan EXCEPT !.pc = pc] \in ScanRow /\ [NoScan EXCEPT !.pc = pc].pc = pc
<1>1. \A r \in ScanRow, pc \in ScanPlaces : [r EXCEPT !.pc = pc] \in ScanRow /\ [r EXCEPT !.pc = pc].pc = pc
  BY DEF ScanRow
<1> QED
  BY <1>1, NoScanRow

LEMMA RefreshBeginsKeeps ==
  ASSUME HistoryInv, NEW short \in BOOLEAN, RefreshBegins(short)
  PROVE  HistoryInv'
<1>1. LoadsCache \/ Catalogs
  BY DEF RefreshBegins
<1>2. catalog' \in CatalogRow /\ cached' \in Histories \cup {Nowhere} /\ saved' \in {saved, index}
  BY <1>1, CatalogTypes
<1>3. /\ history' \in Counts /\ row' \in Rollouts \cup {Nowhere} /\ moves' \in 0..MaxMoves
      /\ index' \in IndexRow /\ saved' \in IndexRow
      /\ PlacedInv' /\ Checked(index)' /\ Checked(saved)'
  BY <1>2, WorldKept DEF RefreshBegins
<1>4. scan' \in ScanRow /\ scan'.pc \in {"idle", "locate"}
  <2>1. PICK pc \in {"idle", "locate"} : scan' = [NoScan EXCEPT !.pc = pc]
    BY DEF RefreshBegins
  <2>2. pc \in ScanPlaces
    BY DEF ScanPlaces
  <2> QED
    BY <2>1, <2>2, ScanStarts
<1>5. told' = NotTold /\ told' \in ToldRow
  BY HistoryAssumption DEF RefreshBegins, NotTold, ToldRow
<1>6. restarts' \in 0..MaxRestarts
  BY DEF RefreshBegins, HistoryInv, SearchTypes
<1>7. SearchTypes'
  BY <1>2, <1>3, <1>4, <1>5, <1>6 DEF SearchTypes
<1>8. ScanInv'
  BY <1>4 DEF ScanInv
<1>9. ToldInv'
  BY <1>5 DEF ToldInv, NotTold
<1> QED
  BY <1>3, <1>7, <1>8, <1>9 DEF HistoryInv

\* While a refresh is under way there is no answer.
LEMMA NothingTold ==
  ASSUME HistoryInv, scan.pc # "idle", UNCHANGED told
  PROVE  ToldInv' /\ told' \in ToldRow
  BY DEF HistoryInv, ToldInv, SearchTypes

\* The history a refresh chose is either up to date or behind what it has.
LEMMA FindsKeeps ==
  ASSUME HistoryInv, NEW p \in Histories \cup {Nowhere}, Finds(p), UNCHANGED <<history, index>>,
         p = Nowhere \/ p \notin Rollouts \/ history[p] > 0
  PROVE  scan' \in ScanRow /\ ScanInv'
<1> DEFINE stamp == IF p = Nowhere THEN 0 ELSE StampOf(p)
           pc == IF p = Nowhere THEN "commit" ELSE IF index.mark[p] = StampOf(p) THEN "commit" ELSE "read"
<1>1. scan \in ScanRow /\ scan' = [scan EXCEPT !.path = p, !.stamp = stamp, !.pc = pc]
  BY DEF HistoryInv, SearchTypes, Finds
<1>2. p # Nowhere => p \in Histories
  OBVIOUS
<1>3. stamp \in 0..MaxMessages /\ pc \in ScanPlaces
  BY <1>2, SizeOfExisting, HistoryAssumption DEF StampOf, ScanPlaces
<1>4. /\ p = Nowhere => pc = "commit" /\ stamp = 0
      /\ p # Nowhere => stamp = history[p] /\ pc = IF index.mark[p] = history[p] THEN "commit" ELSE "read"
  BY DEF StampOf
<1> HIDE DEF stamp, pc
<1>5. /\ scan' \in ScanRow /\ scan'.path = p /\ scan'.stamp = stamp /\ scan'.pc = pc
  BY <1>1, <1>3 DEF ScanRow
<1>6. \A q \in Histories : Size(q)' = Size(q)
  BY DEF Size
<1>7. ASSUME p # Nowhere
      PROVE  /\ history[p] = Size(p) /\ Size(p) \in Nat /\ index.mark[p] \in Nat /\ index.docs[p] \in Nat
             /\ index.mark[p] <= Size(p) /\ (index.docs[p] >= index.mark[p] \/ index.mark[p] < Size(p))
  BY <1>2, <1>7, SizeOfExisting, HistoryAssumption DEF HistoryInv, Checked, SearchTypes, IndexRow, Counts
<1>8. CASE p = Nowhere
  BY <1>4, <1>5, <1>8 DEF ScanInv
<1>9. CASE p # Nowhere
  <2>1. Size(p)' = Size(p) /\ index' = index
    BY <1>2, <1>6, <1>9
  <2>2. CASE pc = "commit"
    BY <1>4, <1>5, <1>7, <1>9, <2>1, <2>2 DEF ScanInv
  <2>3. CASE pc = "read"
    <3>1. Size(p) = history[p] /\ index.mark[p] < Size(p)
      BY <1>4, <1>7, <1>9, <2>3
    <3>2. Size(scan.path)' = Size(p) /\ (index.mark[scan.path])' = index.mark[p] /\ scan'.stamp = Size(p)
      BY <1>4, <1>5, <1>9, <2>1, <3>1 DEF Size
    <3> QED
      BY <1>2, <1>5, <1>7, <1>9, <2>3, <3>1, <3>2 DEF ScanInv
  <2> QED
    BY <1>4, <1>9, <2>2, <2>3
<1> QED
  BY <1>5, <1>8, <1>9

LEMMA LocatesKeeps ==
  ASSUME HistoryInv, Locates
  PROVE  HistoryInv'
<1>1. catalog \in CatalogRow /\ row \in Rollouts \cup {Nowhere}
  BY DEF HistoryInv, SearchTypes
<1>2. catalog' \in CatalogRow /\ cached' \in Histories \cup {Nowhere} /\ saved' \in {saved, index}
  <2>1. CASE Catalogs
    BY <2>1, CatalogTypes
  <2>2. CASE UNCHANGED <<catalog, cached, saved>>
    BY <1>1, <2>2 DEF HistoryInv, SearchTypes
  <2> QED
    BY <2>1, <2>2 DEF Locates
<1>3. UNCHANGED <<index, told, restarts>> /\ World /\ scan.pc = "locate"
  BY DEF Locates, At
<1>4. /\ history' \in Counts /\ row' \in Rollouts \cup {Nowhere} /\ moves' \in 0..MaxMoves
      /\ index' \in IndexRow /\ saved' \in IndexRow
      /\ PlacedInv' /\ Checked(index)' /\ Checked(saved)'
  BY <1>2, <1>3, WorldKept
<1>5. \E p \in Histories \cup {Nowhere} : Finds(p) /\ (p = Nowhere \/ p \notin Rollouts \/ history[p] > 0)
  <2>1. CASE Located(catalog) # Nowhere
    <3>1. Located(catalog) \in Histories
      BY <1>1, <2>1 DEF Located, Fallback, CatalogRow, Histories
    <3>2. Located(catalog) \notin Rollouts \/ history[Located(catalog)] > 0
      BY <2>1 DEF Located, Fallback, Exists, Rollouts
    <3>3. Finds(Located(catalog))
      BY <2>1 DEF Locates
    <3> QED
      BY <3>1, <3>2, <3>3
  <2>2. CASE Located(catalog) = Nowhere
    <3>1. Finds(IF Exists(Chosen) /\ Chosen # "hook" THEN Chosen ELSE Nowhere)
      BY <2>2 DEF Locates
    <3>2. Chosen \in Histories \cup {Nowhere}
      BY <1>1, ChosenType
    <3> QED
      BY <3>1, <3>2 DEF Exists
  <2> QED
    BY <2>1, <2>2
<1>6. scan' \in ScanRow /\ ScanInv'
  BY <1>3, <1>5, FindsKeeps DEF World
<1>7. ToldInv' /\ told' \in ToldRow
  BY <1>3, NothingTold
<1>8. SearchTypes'
  BY <1>2, <1>3, <1>4, <1>6, <1>7 DEF SearchTypes, HistoryInv
<1> QED
  BY <1>4, <1>6, <1>7, <1>8 DEF HistoryInv

LEMMA DeadlinePassesKeeps ==
  ASSUME HistoryInv, DeadlinePasses
  PROVE  HistoryInv'
<1>1. scan \in ScanRow /\ scan' = [scan EXCEPT !.pc = "commit", !.late = TRUE]
  BY DEF HistoryInv, SearchTypes, DeadlinePasses
<1>2. scan' \in ScanRow /\ scan'.pc = "commit" /\ scan'.late
  BY <1>1 DEF ScanRow, ScanPlaces
<1>3. /\ history' \in Counts /\ row' \in Rollouts \cup {Nowhere} /\ moves' \in 0..MaxMoves
      /\ index' \in IndexRow /\ saved' \in IndexRow
      /\ PlacedInv' /\ Checked(index)' /\ Checked(saved)'
  BY WorldKept DEF DeadlinePasses
<1>4. ToldInv' /\ told' \in ToldRow
  BY NothingTold DEF DeadlinePasses
<1>5. ScanInv'
  BY <1>2 DEF ScanInv
<1>6. SearchTypes'
  BY <1>2, <1>3, <1>4 DEF SearchTypes, HistoryInv, DeadlinePasses
<1> QED
  BY <1>3, <1>4, <1>5, <1>6 DEF HistoryInv

\* Documents, and perhaps the checkpoint, of one history are replaced.
LEMMA DocsWritten ==
  ASSUME index \in IndexRow, NEW p \in Histories, NEW n \in 0..MaxMessages,
         index' = [index EXCEPT !.docs[p] = n]
  PROVE  index' \in IndexRow /\ index'.mark = index.mark /\ index'.docs = [index.docs EXCEPT ![p] = n]
<1>1. [index.docs EXCEPT ![p] = n] \in Counts
  BY DEF IndexRow, Counts
<1> QED
  BY <1>1 DEF IndexRow

LEMMA BothWritten ==
  ASSUME index \in IndexRow, NEW p \in Histories, NEW n \in 0..MaxMessages, NEW m \in 0..MaxMessages,
         index' = [index EXCEPT !.docs[p] = n, !.mark[p] = m]
  PROVE  /\ index' \in IndexRow
         /\ index'.mark = [index.mark EXCEPT ![p] = m] /\ index'.docs = [index.docs EXCEPT ![p] = n]
<1>1. [index.docs EXCEPT ![p] = n] \in Counts /\ [index.mark EXCEPT ![p] = m] \in Counts
  BY DEF IndexRow, Counts
<1> QED
  BY <1>1 DEF IndexRow

LEMMA SavedKept ==
  ASSUME HistoryInv, World, UNCHANGED saved
  PROVE  /\ history' \in Counts /\ row' \in Rollouts \cup {Nowhere} /\ moves' \in 0..MaxMoves
         /\ saved' \in IndexRow /\ PlacedInv' /\ Checked(saved)'
         /\ \A p \in Histories : Size(p)' = Size(p)
<1>1. \A p \in Histories : Size(p)' = Size(p)
  BY DEF World, Size
<1>2. Checked(saved)'
  BY <1>1 DEF HistoryInv, Checked
<1> QED
  BY <1>1, <1>2 DEF World, HistoryInv, SearchTypes, PlacedInv

LEMMA ReadsKeeps ==
  ASSUME HistoryInv, Reads
  PROVE  HistoryInv'
<1> DEFINE p == scan.path
<1>1. /\ p \in Histories /\ scan.stamp <= Size(p) /\ index.mark[p] < Size(p) /\ scan.pc = "read"
      /\ scan \in ScanRow /\ index \in IndexRow
  BY DEF HistoryInv, SearchTypes, ScanInv, Reads, At
<1>2. Size(p) \in 0..MaxMessages /\ history[p] \in 0..MaxMessages
  BY <1>1, SizeOfExisting
<1>3. index' = [index EXCEPT !.docs[p] = 0] /\ 0 \in 0..MaxMessages
  BY HistoryAssumption DEF Reads
<1>4. /\ index' \in IndexRow /\ index'.mark = index.mark
      /\ index'.docs = [index.docs EXCEPT ![p] = 0]
  BY <1>1, <1>3, DocsWritten
<1>5. /\ history' \in Counts /\ row' \in Rollouts \cup {Nowhere} /\ moves' \in 0..MaxMoves
      /\ saved' \in IndexRow /\ PlacedInv' /\ Checked(saved)'
      /\ \A q \in Histories : Size(q)' = Size(q)
  BY SavedKept DEF Reads
<1>6. Checked(index)'
  <2>1. index.docs \in Counts /\ Checked(index)
    BY <1>1 DEF IndexRow, HistoryInv
  <2>2. ASSUME NEW q \in Histories
        PROVE  /\ index'.mark[q] <= Size(q)'
               /\ index'.docs[q] >= index'.mark[q] \/ index'.mark[q] < Size(q)'
    <3>1. CASE q = p
      BY <1>1, <1>4, <1>5, <2>1, <3>1 DEF Checked
    <3>2. CASE q # p
      BY <1>4, <1>5, <2>1, <3>2 DEF Checked, Counts
    <3> QED
      BY <3>1, <3>2
  <2> QED
    BY <2>2 DEF Checked
<1>7. scan' \in ScanRow /\ ScanInv'
  <2>1. CASE p \in Rollouts /\ ~Exists(p)
    <3>1. scan' = NoScan
      BY <2>1 DEF Reads
    <3> QED
      BY <3>1, NoScanRow DEF ScanInv
  <2>2. CASE ~(p \in Rollouts /\ ~Exists(p))
    <3>1. history[p] = Size(p)
      BY <1>1, <2>2, SizeOfExisting DEF Exists
    <3>2. scan' = [scan EXCEPT !.pc = "store", !.read = history[p]]
      BY <2>2 DEF Reads, Parsed
    <3>3. /\ scan' \in ScanRow /\ scan'.pc = "store" /\ scan'.read = history[p]
          /\ scan'.path = p /\ scan'.stamp = scan.stamp
      BY <1>1, <1>2, <3>2 DEF ScanRow, ScanPlaces
    <3>4. Size(scan.path)' = Size(p) /\ (index.mark[scan.path])' = index.mark[p]
      BY <1>1, <1>4, <1>5, <3>3 DEF Size
    <3> QED
      BY <1>1, <3>1, <3>3, <3>4 DEF ScanInv
  <2> QED
    BY <2>1, <2>2
<1>8. ToldInv' /\ told' \in ToldRow
  BY <1>1, NothingTold DEF Reads
<1>9. SearchTypes'
  BY <1>4, <1>5, <1>7, <1>8 DEF SearchTypes, HistoryInv, Reads
<1> QED
  BY <1>5, <1>6, <1>7, <1>8, <1>9 DEF HistoryInv

LEMMA StoresKeeps ==
  ASSUME HistoryInv, Stores
  PROVE  HistoryInv'
<1> DEFINE p == scan.path
<1>1. /\ p \in Histories /\ scan.stamp <= Size(p) /\ scan.read >= scan.stamp /\ scan.pc = "store"
      /\ scan \in ScanRow /\ index \in IndexRow
  BY DEF HistoryInv, SearchTypes, ScanInv, Stores, At
<1>2. scan.read \in 0..MaxMessages /\ scan.stamp \in 0..MaxMessages
  BY <1>1 DEF ScanRow
<1>3. index' = [index EXCEPT !.docs[p] = scan.read, !.mark[p] = scan.stamp]
  BY DEF Stores, Stamp
<1>4. /\ index' \in IndexRow /\ index'.mark = [index.mark EXCEPT ![p] = scan.stamp]
      /\ index'.docs = [index.docs EXCEPT ![p] = scan.read]
  <2>1. p \in Histories /\ index \in IndexRow
    BY <1>1
  <2>2. PICK n \in 0..MaxMessages, m \in 0..MaxMessages : n = scan.read /\ m = scan.stamp
    BY <1>2
  <2>3. index' = [index EXCEPT !.docs[p] = n, !.mark[p] = m]
    BY <1>3, <2>2
  <2> HIDE DEF p
  <2>4. /\ index' \in IndexRow
        /\ index'.mark = [index.mark EXCEPT ![p] = m] /\ index'.docs = [index.docs EXCEPT ![p] = n]
    BY <2>1, <2>3, BothWritten
  <2> QED
    BY <2>2, <2>4
<1>5. /\ history' \in Counts /\ row' \in Rollouts \cup {Nowhere} /\ moves' \in 0..MaxMoves
      /\ saved' \in IndexRow /\ PlacedInv' /\ Checked(saved)'
      /\ \A q \in Histories : Size(q)' = Size(q)
  BY SavedKept DEF Stores
<1>6. index.docs \in Counts /\ index.mark \in Counts /\ Checked(index)
  BY <1>1 DEF IndexRow, HistoryInv
<1>7. Checked(index)'
  <2>1. ASSUME NEW q \in Histories
        PROVE  /\ index'.mark[q] <= Size(q)'
               /\ index'.docs[q] >= index'.mark[q] \/ index'.mark[q] < Size(q)'
    <3>1. CASE q = p
      BY <1>1, <1>4, <1>5, <1>6, <3>1 DEF Counts
    <3>2. CASE q # p
      BY <1>4, <1>5, <1>6, <3>2 DEF Checked, Counts
    <3> QED
      BY <3>1, <3>2
  <2> QED
    BY <2>1 DEF Checked
<1>8. /\ scan' \in ScanRow /\ scan'.pc = "commit" /\ scan'.path = p /\ scan'.stamp = scan.stamp
  BY <1>1 DEF Stores, ScanRow, ScanPlaces
<1>9. ScanInv'
  <2>1. index'.docs[p] = scan.read
    BY <1>1, <1>4, <1>6 DEF Counts
  <2> QED
    BY <1>1, <1>8, <2>1 DEF ScanInv
<1>10. ToldInv' /\ told' \in ToldRow
  BY <1>1, NothingTold DEF Stores
<1>11. SearchTypes'
  BY <1>4, <1>5, <1>8, <1>10 DEF SearchTypes, HistoryInv, Stores
<1> QED
  BY <1>5, <1>7, <1>9, <1>10, <1>11 DEF HistoryInv

LEMMA CommitsKeeps ==
  ASSUME HistoryInv, Commits
  PROVE  HistoryInv'
<1>1. scan \in ScanRow /\ scan.pc = "commit" /\ scan' = NoScan /\ saved' = index /\ UNCHANGED index
  BY DEF HistoryInv, SearchTypes, Commits, At
<1>2. /\ history' \in Counts /\ row' \in Rollouts \cup {Nowhere} /\ moves' \in 0..MaxMoves
      /\ index' \in IndexRow /\ saved' \in IndexRow
      /\ PlacedInv' /\ Checked(index)' /\ Checked(saved)'
  BY <1>1, WorldKept DEF Commits
<1>3. scan' \in ScanRow /\ scan'.pc = "idle"
  BY <1>1, NoScanRow
<1>4. /\ told' \in ToldRow /\ told'.path = scan.path /\ told'.late = scan.late
      /\ told'.had = scan.stamp
  BY <1>1 DEF Commits, ScanRow, ToldRow
<1>5. ToldInv'
  BY <1>1, <1>3, <1>4 DEF ToldInv, HistoryInv, ScanInv
<1>6. ScanInv'
  BY <1>3 DEF ScanInv
<1>7. SearchTypes'
  BY <1>2, <1>3, <1>4 DEF SearchTypes, HistoryInv, Commits
<1> QED
  BY <1>2, <1>5, <1>6, <1>7 DEF HistoryInv

LEMMA SomethingCommitsKeeps ==
  ASSUME HistoryInv, SomethingCommits
  PROVE  HistoryInv'
<1>1. saved' = index /\ saved # index /\ UNCHANGED <<catalog, cached, index, scan, told, restarts>> /\ World
  BY DEF SomethingCommits
<1>2. /\ history' \in Counts /\ row' \in Rollouts \cup {Nowhere} /\ moves' \in 0..MaxMoves
      /\ index' \in IndexRow /\ saved' \in IndexRow
      /\ PlacedInv' /\ Checked(index)' /\ Checked(saved)'
  BY <1>1, WorldKept
<1>3. ToldInv'
  BY <1>1 DEF HistoryInv, ToldInv
<1>4. ScanInv'
  BY <1>1 DEF HistoryInv, ScanInv, SomethingCommits, At
<1>5. SearchTypes'
  BY <1>1, <1>2 DEF SearchTypes, HistoryInv
<1> QED
  BY <1>2, <1>3, <1>4, <1>5 DEF HistoryInv

LEMMA ProcessRestartsKeeps ==
  ASSUME HistoryInv, ProcessRestarts
  PROVE  HistoryInv'
<1>1. /\ index' = saved /\ saved' = saved /\ scan' = NoScan /\ told' = NotTold
      /\ catalog' = Unloaded /\ UNCHANGED cached
  BY DEF ProcessRestarts
<1>2. /\ history' \in Counts /\ row' \in Rollouts \cup {Nowhere} /\ moves' \in 0..MaxMoves
      /\ saved' \in IndexRow /\ PlacedInv' /\ Checked(saved)'
  BY SavedKept DEF ProcessRestarts
<1>3. index' \in IndexRow /\ Checked(index)'
  BY <1>1, <1>2 DEF Checked
<1>4. scan' \in ScanRow /\ scan'.pc = "idle"
  BY <1>1, NoScanRow
<1>5. told' \in ToldRow /\ ToldInv'
  BY <1>1, HistoryAssumption DEF NotTold, ToldRow, ToldInv
<1>6. catalog' \in CatalogRow
  BY <1>1 DEF Unloaded, CatalogRow
<1>7. restarts' \in 0..MaxRestarts
  BY HistoryAssumption DEF ProcessRestarts, HistoryInv, SearchTypes
<1>8. SearchTypes' /\ ScanInv'
  BY <1>1, <1>2, <1>3, <1>4, <1>5, <1>6, <1>7 DEF SearchTypes, HistoryInv, ScanInv
<1> QED
  BY <1>2, <1>3, <1>5, <1>8 DEF HistoryInv

-----------------------------------------------------------------------------

LEMMA InitHistory == HistoryInit => HistoryInv
<1> SUFFICES ASSUME HistoryInit PROVE HistoryInv
  OBVIOUS
<1>1. 0 \in 0..MaxMessages /\ 0 \in 0..MaxMoves /\ 0 \in 0..MaxRestarts
  BY HistoryAssumption
<1>2. Empty \in IndexRow /\ history \in Counts
  BY <1>1 DEF Empty, IndexRow, Counts, HistoryInit
<1>3. scan \in ScanRow /\ scan.pc = "idle"
  BY NoScanRow DEF HistoryInit
<1>4. told \in ToldRow /\ told.path = Nowhere
  BY <1>1 DEF HistoryInit, NotTold, ToldRow
<1>5. catalog \in CatalogRow
  BY DEF HistoryInit, Unloaded, CatalogRow
<1>6. SearchTypes
  BY <1>1, <1>2, <1>3, <1>4, <1>5 DEF SearchTypes, HistoryInit
<1>7. PlacedInv /\ Checked(index) /\ Checked(saved)
  BY DEF HistoryInit, Empty, PlacedInv, Checked, Size, Histories, Rollouts
<1> QED
  BY <1>3, <1>4, <1>6, <1>7 DEF HistoryInv, ScanInv, ToldInv

LEMMA NextHistory == HistoryInv /\ [HistoryNext]_historyVars => HistoryInv'
<1> SUFFICES ASSUME HistoryInv, [HistoryNext]_historyVars PROVE HistoryInv'
  OBVIOUS
<1>1. CASE UNCHANGED historyVars
  <2>1. SearchTypes' /\ PlacedInv' /\ ScanInv' /\ ToldInv'
    BY <1>1 DEF historyVars, HistoryInv, SearchTypes, PlacedInv, ScanInv, ToldInv, Size
  <2>2. Checked(index)' /\ Checked(saved)'
    BY <1>1 DEF historyVars, HistoryInv, Checked, Size
  <2> QED
    BY <2>1, <2>2 DEF HistoryInv
<1> QED
  BY <1>1, GrowsKeeps, MovesKeeps, RowFollowsKeeps, RefreshBeginsKeeps, LocatesKeeps, DeadlinePassesKeeps,
     ReadsKeeps, StoresKeeps, CommitsKeeps, SomethingCommitsKeeps, ProcessRestartsKeeps DEF HistoryNext

LEMMA HistoryInductive == HistorySpec => []HistoryInv
<1> QED
  BY InitHistory, NextHistory, PTL DEF HistorySpec

\* Every variable of the search keeps its type.
THEOREM HistoryTypes == HistorySpec => []HistoryTypeOK
<1>1. HistoryInv => HistoryTypeOK
  BY TypesAre DEF HistoryInv
<1> QED
  BY <1>1, HistoryInductive, PTL

\* A search that was not cut short has every message of the history it chose.
THEOREM SearchComplete == HistorySpec => []SearchIsComplete
<1>1. HistoryInv => SearchIsComplete
  BY DEF HistoryInv, ToldInv, SearchIsComplete
<1> QED
  BY <1>1, HistoryInductive, PTL

-----------------------------------------------------------------------------
(* The three components of MCRecords                                       *)

\* A run of the three is a run of each: those that are not in focus stand still.
LEMMA EachIsRun == RecordsSpec => Spec /\ RecoverySpec /\ HistorySpec
<1>1. RecordsInit => Init /\ RecoveryInit /\ HistoryInit
  BY DEF RecordsInit
<1>2. [RecordsNext]_recordsVars => [Next]_vars /\ [RecoveryNext]_recoveryVars /\ [HistoryNext]_historyVars
  BY DEF RecordsNext, recordsVars
<1> QED
  BY <1>1, <1>2, PTL DEF RecordsSpec, Spec, RecoverySpec, HistorySpec

\* Every variable of submissions, repairs and the search keeps its type.
THEOREM RecordsTyped == RecordsSpec => []RecordsTypeOK
<1>1. TypeOK /\ RecoveryTypeOK /\ HistoryTypeOK => RecordsTypeOK
  BY DEF RecordsTypeOK
<1> QED
  BY <1>1, EachIsRun, DedupTypes, RecoveryTyped, HistoryTypes, PTL
=============================================================================

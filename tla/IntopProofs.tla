---------------------------- MODULE IntopProofs ----------------------------
(***************************************************************************)
(* Logs are added whole: an unfinished file is unreadable, whatever the    *)
(* number of its entries, and a readable one is read as what it is.  The   *)
(* cached answer of get_data is the one it would give anew, no filter      *)
(* rejects a flow, and cli.py prints all flows of the files it was given.  *)
(* The curses interface keeps its filters valid and shows the details of   *)
(* the row that was highlighted, and leaving an edit field changes nothing.*)
(***************************************************************************)
EXTENDS Intop, Cui, FiniteSetTheorems, SequenceTheorems, WellFoundedInduction, TLAPS

\* A set of naturals with 0 and every successor is the set of naturals.
LEMMA NatSetInduction ==
    ASSUME NEW P \in SUBSET Nat, 0 \in P, \A n \in P : n + 1 \in P
    PROVE  P = Nat
<1> DEFINE R == {ss \in Nat \X Nat : ss[1] < ss[2]}
           Q == Nat \ P
<1>1. IsWellFoundedOn(R, Nat)
  BY NatLessThanWellFounded, Zenon DEF OpToRel
<1>2. SUFFICES ASSUME Q # {} PROVE FALSE
  OBVIOUS
<1>3. PICK x \in Q : \A y \in Q : <<y, x>> \notin R
  <2>1. Q \subseteq Nat
    OBVIOUS
  <2> HIDE DEF R, Q
  <2> QED BY <1>1, <1>2, <2>1, WFMin, Zenon
<1>4. x \in Nat /\ x # 0 /\ x - 1 \in Nat /\ <<x - 1, x>> \in R
  OBVIOUS
<1>5. x - 1 \in P
  BY <1>3, <1>4
<1>6. (x - 1) + 1 = x
  BY <1>4
<1> QED BY <1>3, <1>5, <1>6

-----------------------------------------------------------------------------
(* Files.                                                                  *)

\* A file of a log is as dump_table leaves it between two writes: a header
\* only after all entries, and for the old formats nothing unfinished.
WellWritten(log, written, header) ==
    /\ written \in 0 .. Len(log.flows)
    /\ header => written = Len(log.flows)
    /\ log.version # "v2" => header

\* A v2 log with its header is read as v2, with all its flows.
LEMMA FinishedWhole ==
    ASSUME NEW log \in LogRecords, log.version = "v2",
           Readable(Image(log, Len(log.flows), TRUE))
    PROVE  parse(Image(log, Len(log.flows), TRUE)) = log.flows
<1> DEFINE n == Len(log.flows)
           file == Image(log, n, TRUE)
<1>1. n \in Nat /\ log.flows \in Seq(Flows)
  BY DEF LogRecords
<1>2. file.magic /\ file.words = 4 + n * 12 /\ file.log = log
  BY DEF Image, HeaderWords, EntryWords
<1> HIDE DEF n, file
<1>3. ReadAs(file) = "v2"
  BY <1>2 DEF ReadAs
<1>4. Body(file) = n * 12 /\ EntryWords("v2") = 12
  BY <1>1, <1>2, <1>3 DEF Body, HeaderWords, EntryWords
<1>5. Body(file) \div 12 = n
  BY <1>1, <1>4
<1>6. SubSeq(log.flows, 1, n) = log.flows
  BY <1>1 DEF n
<1>7. parse(file) = log.flows
  BY <1>2, <1>3, <1>4, <1>5, <1>6 DEF parse
<1> QED BY <1>7 DEF n, file

\* A v2 log without its header is unreadable: past a v1 header its entries
\* leave 12 * written + 1 words, a multiple neither of 9 nor of 10.
LEMMA UnfinishedUnreadable ==
    ASSUME NEW log \in LogRecords, log.version = "v2", NEW written \in Nat
    PROVE  ~Readable(Image(log, written, FALSE))
<1> DEFINE file == Image(log, written, FALSE)
<1>1. ~file.magic /\ file.words = IF written = 0 THEN 0 ELSE 4 + written * 12
  BY DEF Image, HeaderWords, EntryWords
<1> HIDE DEF file
<1>2. ReadAs(file) \in {"v1", "v1a"}
  BY <1>1 DEF ReadAs
<1>3. Body(file) = IF written = 0 THEN -3 ELSE 12 * written + 1
  BY <1>1, <1>2 DEF Body, HeaderWords
<1>4. EntryWords(ReadAs(file)) \in {9, 10} /\ EntryWords("v1a") = 10
  BY <1>2 DEF EntryWords
<1>5. ASSUME written = 0 PROVE ~Readable(file)
  BY <1>1, <1>3, <1>4, <1>5 DEF Readable
<1>6. ASSUME written # 0 PROVE ~Readable(file)
  <2>1. (12 * written + 1) % 9 # 0
    OBVIOUS
  <2>2. (12 * written + 1) % 10 # 0
    OBVIOUS
  <2>3. Body(file) = 12 * written + 1
    BY <1>3, <1>6
  <2> QED BY <1>4, <2>1, <2>2, <2>3 DEF Readable
<1>7. ~Readable(file)
  BY <1>5, <1>6
<1> QED BY <1>7 DEF file

\* A complete log of an old format is read as what it is, or not at all.
LEMMA OldWhole ==
    ASSUME NEW log \in LogRecords, log.version \in {"v1", "v1a"},
           (log.version = "v1" /\ Len(log.flows) >= 2) => log.flows[2].local_ip # 0,
           Readable(Image(log, Len(log.flows), TRUE))
    PROVE  parse(Image(log, Len(log.flows), TRUE)) = log.flows
<1> DEFINE n == Len(log.flows)
           e == EntryWords(log.version)
           file == Image(log, n, TRUE)
<1>1. n \in Nat /\ log.flows \in Seq(Flows)
  BY DEF LogRecords
<1>2. (log.version = "v1" /\ e = 9) \/ (log.version = "v1a" /\ e = 10)
  BY DEF EntryWords
<1>3. ~file.magic /\ file.words = 3 + n * e /\ file.log = log /\ file.blanks = Blanks(log, n)
  BY DEF Image, HeaderWords
<1>4. Readable(file)
  OBVIOUS
<1> HIDE DEF n, e, file
<1>5. ReadAs(file) \in {"v1", "v1a"}
  BY <1>3 DEF ReadAs
<1>6. Body(file) = n * e
  <2>1. HeaderWords(ReadAs(file)) = 3
    BY <1>5 DEF HeaderWords
  <2>2. n * e \in Int
    BY <1>1, <1>2
  <2> QED BY <1>3, <2>1, <2>2 DEF Body
<1>7. Body(file) >= 10
  BY <1>3, <1>4 DEF Readable, EntryWords
<1>8. ReadAs(file) = log.version
  <2>1. CASE log.version = "v1"
    <3>1. n * 9 >= 10
      BY <1>2, <1>6, <1>7, <2>1
    <3>2. n >= 2
      BY <1>1, <3>1
    <3>3. Blanks(log, n)
      BY <2>1, <3>2 DEF Blanks, n
    <3> QED BY <1>3, <2>1, <3>3 DEF ReadAs
  <2>2. CASE log.version = "v1a"
    BY <1>3, <2>2 DEF ReadAs, Blanks
  <2> QED BY <1>2, <2>1, <2>2
<1>9. Body(file) \div e = n
  <2>1. CASE e = 9
    <3>1. (n * 9) \div 9 = n
      BY <1>1
    <3> QED BY <1>6, <2>1, <3>1
  <2>2. CASE e = 10
    <3>1. (n * 10) \div 10 = n
      BY <1>1
    <3> QED BY <1>6, <2>2, <3>1
  <2> QED BY <1>2, <2>1, <2>2
<1>10. SubSeq(log.flows, 1, n) = log.flows
  BY <1>1 DEF n
<1>11. parse(file) = log.flows
  BY <1>3, <1>8, <1>9, <1>10 DEF parse, e
<1> QED BY <1>11 DEF n, file

\* What can be read of a well written file is the whole log.
LEMMA ReadWhole ==
    ASSUME NEW log \in LogRecords, NEW written, NEW header \in BOOLEAN,
           WellWritten(log, written, header),
           (log.version = "v1" /\ Len(log.flows) >= 2) => log.flows[2].local_ip # 0,
           Readable(Image(log, written, header))
    PROVE  parse(Image(log, written, header)) = log.flows
<1>1. CASE ~header
  <2>1. log.version = "v2" /\ written \in Nat /\ header = FALSE
    BY <1>1 DEF WellWritten
  <2> QED BY <2>1, UnfinishedUnreadable
<1>2. CASE header
  <2>1. written = Len(log.flows) /\ header = TRUE
    BY <1>2 DEF WellWritten
  <2>2. log.version = "v2" \/ log.version \in {"v1", "v1a"}
    BY DEF LogRecords, Versions
  <2> QED BY <2>1, <2>2, FinishedWhole, OldWhole
<1> QED BY <1>1, <1>2

-----------------------------------------------------------------------------
(* The inductive invariant: files are well written, and what the programs  *)
(* hold of them, or are about to read, is about files there are.           *)

WholeItems == {[log |-> l, flows |-> LogOf[l].flows] : l \in Logs}

DiskInv ==
    /\ disk \in [Logs -> [there : BOOLEAN, written : Nat, header : BOOLEAN]]
    /\ \A l \in Logs : WellWritten(LogOf[l], disk[l].written, disk[l].header)
DataInv == all_data \in Seq(WholeItems)
ListsInv == args.files \in Seq(Logs) /\ todo \in Seq(Logs)
WatchInv == events \in Seq(Logs) /\ (wpc = "append" => read \in WholeItems)
WholeInv == DiskInv /\ DataInv /\ ListsInv /\ WatchInv

\* A file of the directory that can be read gives an item with the whole log.
LEMMA ItemWhole ==
    ASSUME DiskInv, NEW l \in Logs, Readable(File(l))
    PROVE  FileItem(l, File(l)) \in WholeItems
<1>1. LogOf[l] \in LogRecords
  BY LogAssumption
<1>2. WellWritten(LogOf[l], disk[l].written, disk[l].header) /\ disk[l].header \in BOOLEAN
  BY DEF DiskInv
<1>3. (LogOf[l].version = "v1" /\ Len(LogOf[l].flows) >= 2) => LogOf[l].flows[2].local_ip # 0
  BY LogAssumption
<1>4. parse(File(l)) = LogOf[l].flows
  BY <1>1, <1>2, <1>3, ReadWhole DEF File
<1> QED BY <1>4 DEF FileItem, WholeItems

\* A directory is listed as a sequence of its files.
LEMMA ListingIsSeq ==
    ASSUME NEW S \in SUBSET Logs, NEW listing \in SetToSeqs(S)
    PROVE  listing \in Seq(Logs)
<1>1. Cardinality(S) \in Nat
  BY LogAssumption, FS_Subset, FS_CardinalityType
<1>2. listing \in [1 .. Cardinality(S) -> S]
  BY DEF SetToSeqs
<1>3. listing \in Seq(S)
  BY <1>1, <1>2
<1> QED BY <1>3

LEMMA WholeInit == Init => WholeInv
<1> SUFFICES ASSUME Init PROVE WholeInv
  OBVIOUS
<1>1. DiskInv
  <2>1. \A l \in Logs : Len(LogOf[l].flows) \in Nat
    BY LogAssumption DEF LogRecords
  <2>2. disk = [l \in Logs |->
                  [there |-> l \in OldLogs, header |-> l \in OldLogs,
                   written |-> IF l \in OldLogs THEN Len(LogOf[l].flows) ELSE 0]]
    BY DEF Init
  <2>3. disk \in [Logs -> [there : BOOLEAN, written : Nat, header : BOOLEAN]]
    BY <2>1, <2>2
  <2>4. ASSUME NEW l \in Logs
        PROVE  WellWritten(LogOf[l], disk[l].written, disk[l].header)
    <3>1. /\ disk[l].header <=> l \in OldLogs
          /\ disk[l].written = IF l \in OldLogs THEN Len(LogOf[l].flows) ELSE 0
      BY <2>2
    <3>2. CASE l \in OldLogs
      BY <2>1, <3>1, <3>2 DEF WellWritten
    <3>3. CASE l \notin OldLogs
      <4>1. LogOf[l].version = "v2"
        BY <3>3, LogAssumption
      <4> QED BY <2>1, <3>1, <3>3, <4>1 DEF WellWritten
    <3> QED BY <3>2, <3>3
  <2> QED BY <2>3, <2>4 DEF DiskInv
<1>2. DataInv
  BY DEF Init, ModelInit, DataInv
<1>3. ListsInv
  BY IntopAssumption DEF Init, CliArgs, ViewerArgs, ListsInv
<1>4. WatchInv
  BY DEF Init, WatchInv
<1> QED BY <1>1, <1>2, <1>3, <1>4 DEF WholeInv

\* What the monitor writes keeps its files well written.
LEMMA MonitorStep ==
    ASSUME WholeInv, Monitor
    PROVE  WholeInv'
<1> USE DEF WholeInv
<1>1. PICK l \in Logs : MonitorCreate(l) \/ MonitorFlush(l) \/ MonitorHeader(l)
  BY DEF Monitor
<1>2. Len(LogOf[l].flows) \in Nat
  BY LogAssumption DEF LogRecords
<1>3. DataInv' /\ ListsInv'
  BY <1>1 DEF MonitorCreate, MonitorFlush, MonitorHeader, modelVars, mainVars, DataInv, ListsInv
<1>4. WatchInv'
  BY <1>1 DEF MonitorCreate, MonitorFlush, MonitorHeader, watchVars, WatchInv
<1>5. CASE MonitorCreate(l)
  <2>1. disk' = [disk EXCEPT ![l].there = TRUE]
    BY <1>5 DEF MonitorCreate
  <2>2. DiskInv'
    BY <2>1 DEF DiskInv, WellWritten
  <2> QED BY <1>3, <1>4, <2>2
<1>6. CASE MonitorFlush(l)
  <2>1. PICK n \in disk[l].written + 1 .. Len(LogOf[l].flows) :
            disk' = [disk EXCEPT ![l].written = n]
    BY <1>6 DEF MonitorFlush
  <2>2. disk[l].written \in Nat /\ WellWritten(LogOf[l], disk[l].written, disk[l].header)
    BY DEF DiskInv
  <2>3. n \in 0 .. Len(LogOf[l].flows) /\ ~disk[l].header
    BY <1>2, <2>2 DEF WellWritten
  <2>4. DiskInv'
    BY <2>1, <2>3 DEF DiskInv, WellWritten
  <2> QED BY <1>3, <1>4, <2>4
<1>7. CASE MonitorHeader(l)
  <2>1. disk' = [disk EXCEPT ![l].header = TRUE] /\ disk[l].written = Len(LogOf[l].flows)
    BY <1>7 DEF MonitorHeader
  <2>2. DiskInv'
    BY <2>1 DEF DiskInv, WellWritten
  <2> QED BY <1>3, <1>4, <2>2
<1> QED BY <1>1, <1>5, <1>6, <1>7

\* A step of one of the programs leaves the directory as it is, and adds no
\* item that is not the whole of a log.
LEMMA ProgramStep ==
    ASSUME WholeInv, Cli \/ AddFile \/ Viewer \/ User \/ Joined \/ Watcher
    PROVE  WholeInv'
<1> USE DEF WholeInv
<1>1. DiskInv'
  <2>1. disk' = disk
    BY DEF Cli, Viewer, User, Watcher, CliUsage, CliSettings, CliPrint, AddFile, ListDir,
           NoDir, Construct, LookAtCache, FilterData, StoreAnswer, Redraw, ChangeSettings,
           Quit, Interrupt, Joined, WatchRead, WatchAppend, WatchInvalidate, WatchStops
  <2> QED BY <2>1 DEF DiskInv
<1>2. CASE Cli
  <2>1. DataInv' /\ WatchInv'
    BY <1>2 DEF Cli, CliUsage, CliSettings, CliPrint, modelVars, watchVars, DataInv, WatchInv
  <2>2. ListsInv'
    BY <1>2 DEF Cli, CliUsage, CliSettings, CliPrint, ListsInv
  <2> QED BY <1>1, <2>1, <2>2
<1>3. CASE AddFile
  <2> DEFINE l == Head(todo)
  <2>1. todo \in Seq(Logs) /\ todo # <<>> /\ args' = args
    BY <1>3 DEF AddFile, ListsInv
  <2>2. l \in Logs /\ Tail(todo) \in Seq(Logs)
    BY <2>1
  <2>3. WatchInv'
    BY <1>3 DEF AddFile, watchVars, WatchInv
  <2>4. CASE Readable(File(l))
    <3>1. all_data' = Append(all_data, FileItem(l, File(l))) /\ todo' = Tail(todo)
      BY <1>3, <2>4 DEF AddFile, AppendItem
    <3>2. FileItem(l, File(l)) \in WholeItems
      BY <2>2, <2>4, ItemWhole
    <3>3. DataInv'
      BY <3>1, <3>2 DEF DataInv
    <3>4. ListsInv'
      BY <2>1, <2>2, <3>1 DEF ListsInv
    <3> QED BY <1>1, <2>3, <3>3, <3>4
  <2>5. CASE ~Readable(File(l))
    <3>1. DataInv' /\ ListsInv'
      BY <1>3, <2>1, <2>5 DEF AddFile, modelVars, DataInv, ListsInv
    <3> QED BY <1>1, <2>3, <3>1
  <2> QED BY <2>4, <2>5
<1>4. CASE ListDir
  <2>1. DataInv' /\ WatchInv' /\ args' = args
    BY <1>4 DEF ListDir, modelVars, watchVars, DataInv, WatchInv
  <2>2. todo' \in Seq(Logs)
    <3> DEFINE there == {l \in Logs : disk[l].there}
               files == IF args.dir = "static" THEN args.files ELSE <<>>
    <3>1. files \in Seq(Logs)
      BY DEF ListsInv
    <3>2. \/ todo' = todo
          \/ \E inTime \in SUBSET there : \E listing \in SetToSeqs(inTime) : todo' = listing \o files
      BY <1>4 DEF ListDir
    <3> HIDE DEF files
    <3>3. ASSUME NEW inTime \in SUBSET there, NEW listing \in SetToSeqs(inTime),
                 todo' = listing \o files
          PROVE  todo' \in Seq(Logs)
      <4>1. listing \in Seq(Logs)
        BY ListingIsSeq
      <4> QED BY <3>1, <3>3, <4>1
    <3> QED BY <3>2, <3>3 DEF ListsInv
  <2>3. ListsInv'
    BY <2>1, <2>2 DEF ListsInv
  <2> QED BY <1>1, <2>1, <2>3
<1>5. CASE Viewer /\ ~ListDir
  <2>1. DataInv'
    BY <1>5 DEF Viewer, NoDir, Construct, LookAtCache, FilterData, StoreAnswer, modelVars, DataInv
  <2>2. ListsInv'
    BY <1>5 DEF Viewer, NoDir, Construct, LookAtCache, FilterData, StoreAnswer, ListsInv
  <2>3. WatchInv'
    BY <1>5 DEF Viewer, NoDir, Construct, LookAtCache, FilterData, StoreAnswer, watchVars, WatchInv
  <2> QED BY <1>1, <2>1, <2>2, <2>3
<1>6. CASE User \/ Joined
  <2>1. DataInv' /\ ListsInv'
    BY <1>6 DEF User, Redraw, ChangeSettings, Quit, Interrupt, Joined, modelVars, DataInv, ListsInv
  <2>2. WatchInv'
    BY <1>6 DEF User, Redraw, ChangeSettings, Quit, Interrupt, Joined, watchVars, WatchInv
  <2> QED BY <1>1, <2>1, <2>2
<1>7. CASE WatchRead
  <2> DEFINE l == Head(events)
  <2>1. DataInv' /\ ListsInv'
    BY <1>7 DEF WatchRead, modelVars, mainVars, DataInv, ListsInv
  <2>2. events \in Seq(Logs) /\ events # <<>> /\ events' = Tail(events)
    BY <1>7 DEF WatchRead, WatchInv
  <2>3. l \in Logs /\ events' \in Seq(Logs)
    BY <2>2
  <2>4. wpc' = "append" => Readable(File(l)) /\ read' = FileItem(l, File(l))
    BY <1>7 DEF WatchRead
  <2>5. WatchInv'
    BY <2>3, <2>4, ItemWhole DEF WatchInv
  <2> QED BY <1>1, <2>1, <2>5
<1>8. CASE WatchAppend
  <2>1. all_data' = Append(all_data, read) /\ read \in WholeItems
    BY <1>8 DEF WatchAppend, AppendItem, WatchInv
  <2>2. DataInv'
    BY <2>1 DEF DataInv
  <2>3. ListsInv' /\ WatchInv'
    BY <1>8 DEF WatchAppend, mainVars, ListsInv, WatchInv
  <2> QED BY <1>1, <2>2, <2>3
<1>9. CASE WatchInvalidate \/ WatchStops
  BY <1>1, <1>9 DEF WatchInvalidate, WatchStops, modelVars, mainVars, DataInv, ListsInv, WatchInv
<1> QED BY <1>2, <1>3, <1>4, <1>5, <1>6, <1>7, <1>8, <1>9 DEF Viewer, Watcher

\* Every log a program has added, in whatever order the monitor writes, the
\* user acts and the watching thread runs, was added with all its flows.
THEOREM Whole == Spec => []WholeLogs
<1>1. WholeInv /\ [Next]_vars => WholeInv'
  <2> SUFFICES ASSUME WholeInv, [Next]_vars PROVE WholeInv'
    OBVIOUS
  <2>1. CASE UNCHANGED vars
    BY <2>1 DEF vars, modelVars, mainVars, watchVars, WholeInv, DiskInv, DataInv, ListsInv, WatchInv
  <2>2. CASE Next
    BY <2>2, MonitorStep, ProgramStep DEF Next
  <2> QED BY <2>1, <2>2
<1>2. WholeInv => WholeLogs
  <2> SUFFICES ASSUME WholeInv, NEW i \in DOMAIN all_data
               PROVE  all_data[i].flows = LogOf[all_data[i].log].flows
    BY DEF WholeLogs
  <2>1. all_data[i] \in WholeItems
    BY DEF WholeInv, DataInv
  <2> QED BY <2>1 DEF WholeItems
<1> QED BY <1>1, <1>2, WholeInit, PTL DEF Spec

-----------------------------------------------------------------------------
(* The cache.  Only the answer to no logs at all is ever kept, as any      *)
(* other raises an error, and a log added since leaves the cache invalid,  *)
(* the watching thread about to invalidate it, or the race on record.      *)
(* There is no watching thread before the viewer is constructed.           *)

CacheInv ==
    /\ "valid" \in DOMAIN cache
    /\ pc \in {"start", "add"} => wpc = "off"
    /\ pc = "store" => answer = <<>>
    /\ cache.valid => cache.data = <<>> /\ (all_data = <<>> \/ wpc = "invalidate" \/ raced)

\* Filtering no logs gives none, under any settings.
LEMMA FilterNone == do_filter(<<>>) = <<>>
  BY DEF do_filter

\* A step that leaves what CacheInv is about as it is, but for the program
\* going on to a point other than "store", and for the watching thread going on
\* from a point that is neither before its start nor within add_file.
LEMMA CacheKept ==
    ASSUME CacheInv, UNCHANGED <<all_data, cache, raced, answer>>,
           pc' = pc \/ pc' # "store", pc' \in {"start", "add"} => pc \in {"start", "add"},
           wpc' = wpc \/ wpc \notin {"off", "invalidate"}
    PROVE  CacheInv'
  BY DEF CacheInv

LEMMA CacheStep ==
    ASSUME CacheInv, Next
    PROVE  CacheInv'
<1>1. CASE Monitor
  <2>1. PICK l \in Logs : MonitorCreate(l) \/ MonitorFlush(l) \/ MonitorHeader(l)
    BY <1>1 DEF Monitor
  <2> QED BY <2>1, CacheKept
          DEF MonitorCreate, MonitorFlush, MonitorHeader, modelVars, mainVars, watchVars
<1>2. CASE Cli
  BY <1>2, CacheKept DEF Cli, CliUsage, CliSettings, CliPrint, modelVars, watchVars
<1>3. CASE AddFile
  <2>1. CASE Readable(File(Head(todo)))
    <3>1. cache' = [cache EXCEPT !.valid = FALSE]
      BY <1>3, <2>1 DEF AddFile, Invalidate
    <3>2. pc' = pc /\ pc = "add" /\ wpc' = wpc
      BY <1>3, <2>1 DEF AddFile, watchVars
    <3> QED BY <3>1, <3>2 DEF CacheInv
  <2>2. CASE ~Readable(File(Head(todo)))
    BY <1>3, <2>2, CacheKept DEF AddFile, modelVars, watchVars
  <2> QED BY <2>1, <2>2
<1>4. CASE ListDir \/ NoDir \/ LookAtCache
  <2>1. UNCHANGED <<all_data, cache, raced, answer, wpc>>
    BY <1>4 DEF ListDir, NoDir, LookAtCache, modelVars, watchVars
  <2>2. pc' # "store"
    BY <1>4 DEF ListDir, NoDir, LookAtCache
  <2>3. pc' \in {"start", "add"} => pc \in {"start", "add"}
    BY <1>4 DEF ListDir, NoDir, LookAtCache
  <2> QED BY <2>1, <2>2, <2>3, CacheKept
<1>5. CASE Construct
  <2>1. UNCHANGED <<all_data, cache, raced, answer>> /\ pc' = "check"
    BY <1>5 DEF Construct, modelVars
  <2>2. wpc = "off"
    BY <1>5 DEF Construct, CacheInv
  <2> QED BY <1>5, <2>1, <2>2 DEF CacheInv
<1>6. CASE FilterData
  <2>1. UNCHANGED <<all_data, cache, raced, wpc>>
    BY <1>6 DEF FilterData, modelVars, watchVars
  <2>2. pc' \in {"store", "derive_raised"} /\ (pc' = "store" => answer' = <<>>)
    BY <1>6 DEF FilterData, derive_raises
  <2> QED BY <2>1, <2>2 DEF CacheInv
<1>7. CASE StoreAnswer
  <2>1. answer = <<>> /\ pc' = "key" /\ all_data' = all_data /\ wpc' = wpc
    BY <1>7 DEF StoreAnswer, watchVars, CacheInv
  <2>2. CASE settings.sort_key = "raw"
    BY <1>7, <2>1, <2>2 DEF StoreAnswer, Store, CacheInv
  <2>3. CASE settings.sort_key # "raw"
    <3>1. cache' = [key |-> settings.sort_key, threshold |-> settings.threshold,
                    data |-> answer, valid |-> TRUE]
      BY <1>7, <2>3 DEF StoreAnswer, Store
    <3>2. raced' = (all_data # answer /\ wpc # "invalidate")
      BY <1>7, <2>3 DEF StoreAnswer
    <3> QED BY <2>1, <3>1, <3>2 DEF CacheInv
  <2> QED BY <2>2, <2>3
<1>8. CASE User \/ Joined
  <2>1. UNCHANGED <<all_data, cache, raced, answer, wpc>>
    BY <1>8 DEF User, Redraw, ChangeSettings, Quit, Interrupt, Joined, modelVars, watchVars
  <2>2. pc' \notin {"start", "add", "store"}
    BY <1>8 DEF User, Redraw, ChangeSettings, Quit, Interrupt, Joined
  <2> QED BY <2>1, <2>2, CacheKept
<1>9. CASE WatchRead \/ WatchStops
  BY <1>9, CacheKept DEF WatchRead, WatchStops, modelVars, mainVars
<1>10. CASE WatchAppend
  BY <1>10 DEF WatchAppend, mainVars, CacheInv
<1>11. CASE WatchInvalidate
  BY <1>11 DEF WatchInvalidate, Invalidate, mainVars, CacheInv
<1> QED BY <1>1, <1>2, <1>3, <1>4, <1>5, <1>6, <1>7, <1>8, <1>9, <1>10, <1>11
        DEF Next, Viewer, Watcher

\* Whatever settings are changed and whenever the watching thread adds a log,
\* an answer get_data may give from its cache is the one do_filter would give
\* of all_data now, but for the two windows that Fresh names.
THEOREM AnswersFresh == Spec => []Fresh
<1>1. Init => CacheInv
  BY DEF Init, ModelInit, CacheInv
<1>2. CacheInv /\ [Next]_vars => CacheInv'
  <2>1. CacheInv /\ UNCHANGED vars => CacheInv'
    BY DEF vars, modelVars, mainVars, watchVars, CacheInv
  <2> QED BY <2>1, CacheStep
<1>3. CacheInv => Fresh
  BY FilterNone DEF CacheInv, Fresh
<1> QED BY <1>1, <1>2, <1>3, PTL DEF Spec

-----------------------------------------------------------------------------
(* Filters.  do_filter asks for them under names that are never set.       *)

FlowRecords == [local_ip : Int, remote_ip : Int, inflags : BOOLEAN]

\* The flows kept of the first n, by the loop of do_filter.
LoopStep(g, flows, n) ==
    IF n = 0 THEN <<>>
    ELSE IF /\ ~filter_reject("local_ip", flows[n].local_ip)
            /\ ~filter_reject("remote_ip", flows[n].remote_ip)
            /\ ~filter_reject("begin_time", 0)
         THEN Append(g[n - 1], flows[n])
         ELSE g[n - 1]
Loops(g, flows) == g = [n \in 0 .. Len(flows) |-> LoopStep(g, flows, n)]
Loop(flows) == CHOOSE g : Loops(g, flows)

\* KeptFlows is such a function, applied to the number of flows.
LEMMA KeptLoop ==
    ASSUME NEW flows PROVE KeptFlows(flows) = Loop(flows)[Len(flows)]
BY Zenon DEF KeptFlows, Loop, Loops, LoopStep

\* A name that nobody sets rejects nothing, and the one time that is asked for
\* under its name, "latest", rejects nothing either.
LEMMA NothingRejected ==
    ASSUME DOMAIN settings.filters \subseteq FilterNames
    PROVE  /\ \A v : ~filter_reject("local_ip", v) /\ ~filter_reject("remote_ip", v)
           /\ ~filter_reject("begin_time", 0)
           /\ ~filter_reject("end_time", 0)
           /\ ~filter_reject("latest", 0)
BY DEF FilterNames, filter_reject

\* All flows of a log are kept.
LEMMA KeptAll ==
    ASSUME DOMAIN settings.filters \subseteq FilterNames, NEW T, NEW flows \in Seq(T)
    PROVE  KeptFlows(flows) = flows
<1> DEFINE N == Len(flows)
           first(n) == SubSeq(flows, 1, n)
           P == {n \in Nat : n <= N => Loop(flows)[n] = first(n)}
<1>1. N \in Nat /\ first(0) = <<>> /\ first(N) = flows
  OBVIOUS
<1>2. ASSUME NEW n \in 1 .. N PROVE Append(first(n - 1), flows[n]) = first(n)
  OBVIOUS
<1>3. ASSUME NEW g, NEW n \in 0 .. N
      PROVE  LoopStep(g, flows, n) = IF n = 0 THEN <<>> ELSE Append(g[n - 1], flows[n])
  BY NothingRejected DEF LoopStep
<1>4. Loops(Loop(flows), flows)
  <2> DEFINE h == [n \in 0 .. N |-> first(n)]
  <2>1. ASSUME NEW n \in 0 .. N PROVE LoopStep(h, flows, n) = first(n)
    <3>1. CASE n = 0
      BY <1>1, <1>3, <3>1
    <3>2. CASE n # 0
      <4>1. n \in 1 .. N /\ n - 1 \in 0 .. N
        BY <1>1, <3>2
      <4>2. h[n - 1] = first(n - 1)
        BY <4>1
      <4> HIDE DEF h, first
      <4> QED BY <1>2, <1>3, <3>2, <4>1, <4>2
    <3> QED BY <3>1, <3>2
  <2>2. [n \in 0 .. N |-> LoopStep(h, flows, n)] = h
    <3> HIDE DEF first
    <3> QED BY <2>1
  <2>3. Loops(h, flows)
    <3> HIDE DEF h
    <3> QED BY <2>2, Zenon DEF Loops
  <2>4. \E g : Loops(g, flows)
    <3> HIDE DEF h
    <3> QED BY <2>3
  <2> QED BY <2>4, Zenon DEF Loop
<1>5. \A n \in 0 .. N : Loop(flows)[n] = LoopStep(Loop(flows), flows, n)
  BY <1>4, Zenon DEF Loops
<1> DEFINE g == Loop(flows)
<1> HIDE DEF g
<1>6. 0 \in P
  <2>1. g[0] = <<>>
    BY <1>1, <1>3, <1>5 DEF g
  <2> QED BY <1>1, <2>1 DEF g
<1>7. ASSUME NEW n \in P PROVE n + 1 \in P
  <2>1. n \in Nat /\ n + 1 \in Nat
    OBVIOUS
  <2>2. ASSUME n + 1 <= N PROVE g[n + 1] = first(n + 1)
    <3>1. g[n] = first(n)
      BY <1>1, <2>1, <2>2 DEF g
    <3>2. n + 1 \in 0 .. N /\ n + 1 \in 1 .. N /\ (n + 1) - 1 = n /\ n + 1 # 0
      BY <1>1, <2>1, <2>2
    <3>3. g[n + 1] = Append(g[(n + 1) - 1], flows[n + 1])
      BY <1>3, <1>5, <3>2 DEF g
    <3>4. Append(first((n + 1) - 1), flows[n + 1]) = first(n + 1)
      BY <1>2, <3>2
    <3> HIDE DEF first
    <3> QED BY <3>1, <3>2, <3>3, <3>4
  <2> HIDE DEF first
  <2> QED BY <2>1, <2>2 DEF g
<1>8. P = Nat
  <2>1. P \in SUBSET Nat
    OBVIOUS
  <2> HIDE DEF P
  <2> QED BY <1>6, <1>7, <2>1, NatSetInduction
<1>9. N \in P
  <2> HIDE DEF P
  <2> QED BY <1>1, <1>8
<1>10. Loop(flows)[N] = flows
  BY <1>1, <1>9
<1> QED BY <1>10, KeptLoop

\* do_filter keeps everything, whatever filters are set.
LEMMA FilterAll ==
    ASSUME DOMAIN settings.filters \subseteq FilterNames, NEW items \in Seq(Items)
    PROVE  do_filter(items) = items
<1>1. do_filter(items) = [i \in DOMAIN items |-> [items[i] EXCEPT !.flows = KeptFlows(items[i].flows)]]
  BY NothingRejected DEF do_filter
<1>2. ASSUME NEW i \in DOMAIN items
      PROVE  [items[i] EXCEPT !.flows = KeptFlows(items[i].flows)] = items[i]
  <2>1. items[i] \in Items
    OBVIOUS
  <2>2. items[i].flows \in Seq(FlowRecords)
    BY <2>1 DEF Items, FlowRecords
  <2>3. KeptFlows(items[i].flows) = items[i].flows
    BY <2>2, KeptAll
  <2> QED BY <2>1, <2>3 DEF Items
<1>3. items = [i \in DOMAIN items |-> items[i]]
  OBVIOUS
<1> QED BY <1>1, <1>2, <1>3

-----------------------------------------------------------------------------
(* Types.                                                                  *)

ModelTyped ==
    /\ settings \in [sort_key : SortKeys, threshold : Nat, filters : FilterSettings \cup {<<>>}]
    /\ cache \in [key : SortKeys \cup {NoKey}, threshold : Nat, data : {<<>>}, valid : BOOLEAN]
    /\ answer \in Seq(Items) /\ read \in Items
MainTyped ==
    /\ args \in CliArgs \cup ViewerArgs
    /\ pc \in Left \cup {"start", "add", "check", "filter", "store", "key", "quit"}
    /\ changes \in 0 .. MaxChanges
WatchTyped ==
    /\ wpc \in {"off", "idle", "append", "invalidate", "dead", "stopped"}
    /\ watching \in BOOLEAN /\ stopping \in BOOLEAN /\ raced \in BOOLEAN
TypeInv == ModelTyped /\ MainTyped /\ WatchTyped

\* Items with the whole of a log are items.
LEMMA WholeTyped ==
    /\ WholeItems \subseteq Items /\ NoItem \in Items
    /\ \A items \in Seq(WholeItems) : items \in Seq(Items)
<1>1. \A l \in Logs : LogOf[l].flows \in Seq(Flows)
  BY LogAssumption DEF LogRecords
<1>2. Flows \subseteq [local_ip : Int, remote_ip : Int, inflags : BOOLEAN]
  BY DEF Flows
<1>3. \A l \in Logs : LogOf[l].flows \in Seq([local_ip : Int, remote_ip : Int, inflags : BOOLEAN])
  <2> DEFINE F == [local_ip : Int, remote_ip : Int, inflags : BOOLEAN]
  <2>1. ASSUME NEW l \in Logs PROVE LogOf[l].flows \in Seq(F)
    <3>1. LogOf[l].flows \in Seq(Flows) /\ Flows \subseteq F
      BY <1>1, <1>2
    <3> HIDE DEF F
    <3> QED BY <3>1
  <2> QED BY <2>1
<1>4. WholeItems \subseteq Items
  BY <1>3 DEF WholeItems, Items
<1>5. NoItem \in Items
  BY DEF NoItem, Items
<1> QED BY <1>4, <1>5

\* The names filters are set under.
LEMMA FiltersNamed ==
    ASSUME ModelTyped PROVE DOMAIN settings.filters \subseteq FilterNames
<1>1. settings.filters \in FilterSettings \cup {<<>>}
  BY DEF ModelTyped
<1>2. DOMAIN <<>> = {}
  OBVIOUS
<1> QED BY <1>1, <1>2, IntopAssumption

\* The initial state has its types.
LEMMA TypeInit == Init => TypeInv
<1> SUFFICES ASSUME Init PROVE TypeInv
  OBVIOUS
<1>1. ModelTyped
  BY IntopAssumption, WholeTyped DEF Init, ModelInit, ModelTyped, NoKey
<1>2. MainTyped
  <2>1. args \in CliArgs \cup ViewerArgs /\ pc = "start" /\ changes = 0
    BY DEF Init
  <2> QED BY <2>1, IntopAssumption DEF MainTyped
<1>3. WatchTyped
  BY DEF Init, WatchTyped
<1> QED BY <1>1, <1>2, <1>3 DEF TypeInv

\* Every step keeps the types.
LEMMA TypeStep ==
    ASSUME WholeInv, WholeInv', CacheInv, TypeInv, Next
    PROVE  TypeInv'
<1> USE DEF TypeInv
<1>1. CASE Monitor
  <2>1. PICK l \in Logs : MonitorCreate(l) \/ MonitorFlush(l) \/ MonitorHeader(l)
    BY <1>1 DEF Monitor
  <2>2. UNCHANGED <<modelVars, mainVars, watching, stopping, wpc, read, raced>>
    BY <2>1 DEF MonitorCreate, MonitorFlush, MonitorHeader, watchVars
  <2> QED BY <2>2 DEF modelVars, mainVars, ModelTyped, MainTyped, WatchTyped
<1>2. CASE Cli
  <2>1. UNCHANGED <<cache, args, answer, changes, watchVars, raced>>
    BY <1>2 DEF Cli, CliUsage, CliSettings, CliPrint, modelVars
  <2>2. MainTyped'
    <3>1. pc' \in {"usage", "add", "ended"}
      BY <1>2 DEF Cli, CliUsage, CliSettings, CliPrint
    <3> QED BY <2>1, <3>1 DEF MainTyped, Left
  <2>3. WatchTyped'
    BY <2>1 DEF WatchTyped, watchVars
  <2>4. settings' \in [sort_key : SortKeys, threshold : Nat, filters : FilterSettings \cup {<<>>}]
    <3>1. CASE CliSettings
      <4>1. args \in CliArgs /\ settings' = [sort_key |-> "raw", threshold |-> 0, filters |-> args.filters]
        BY <3>1 DEF CliSettings, MainTyped, CliArgs, ViewerArgs
      <4>2. args.filters \in FilterSettings
        BY <4>1 DEF CliArgs
      <4> QED BY <4>1, <4>2, IntopAssumption
    <3>2. CASE ~CliSettings
      <4>1. settings' = settings
        BY <1>2, <3>2 DEF Cli, CliUsage, CliPrint, modelVars
      <4> QED BY <4>1 DEF ModelTyped
    <3> QED BY <3>1, <3>2
  <2>5. ModelTyped'
    BY <2>1, <2>4 DEF ModelTyped, watchVars
  <2> QED BY <2>2, <2>3, <2>5
<1>3. CASE AddFile
  <2>1. UNCHANGED <<settings, args, answer, changes, watchVars, raced>> /\ pc' \in {pc, "parse_raised"}
    BY <1>3 DEF AddFile, modelVars
  <2>2. cache' = cache \/ cache' = [cache EXCEPT !.valid = FALSE]
    BY <1>3 DEF AddFile, modelVars, Invalidate
  <2>3. ModelTyped'
    BY <2>1, <2>2 DEF ModelTyped, watchVars
  <2>4. MainTyped' /\ WatchTyped'
    BY <2>1 DEF MainTyped, WatchTyped, watchVars, Left, Raised
  <2> QED BY <2>3, <2>4
<1>4. CASE ListDir \/ NoDir \/ LookAtCache
  <2>1. UNCHANGED <<settings, cache, args, answer, changes, watchVars, raced>>
    BY <1>4 DEF ListDir, NoDir, LookAtCache, modelVars
  <2>2. pc' \in {"dates_raised", "path_raised", "add", "usage", "key", "filter"}
    BY <1>4 DEF ListDir, NoDir, LookAtCache
  <2>3. ModelTyped' /\ MainTyped' /\ WatchTyped'
    BY <2>1, <2>2 DEF ModelTyped, MainTyped, WatchTyped, watchVars, Left, Raised
  <2> QED BY <2>3
<1>5. CASE Construct
  <2>1. UNCHANGED <<settings, cache, args, answer, changes, stopping, read, raced>>
    BY <1>5 DEF Construct, modelVars
  <2>2. pc' = "check" /\ wpc' \in {wpc, "idle"} /\ watching' \in {watching, TRUE}
    BY <1>5 DEF Construct
  <2> QED BY <2>1, <2>2 DEF ModelTyped, MainTyped, WatchTyped
<1>6. CASE FilterData
  <2>1. UNCHANGED <<settings, cache, args, changes, watchVars, raced>>
    BY <1>6 DEF FilterData, modelVars
  <2>2. answer' = do_filter(all_data) /\ pc' \in {"derive_raised", "store"}
    BY <1>6 DEF FilterData
  <2>3. all_data \in Seq(Items)
    BY WholeTyped DEF WholeInv, DataInv
  <2>4. answer' = all_data
    BY <2>2, <2>3, FiltersNamed, FilterAll
  <2> QED BY <2>1, <2>2, <2>3, <2>4 DEF ModelTyped, MainTyped, WatchTyped, watchVars, Left, Raised
<1>7. CASE StoreAnswer
  <2>1. UNCHANGED <<settings, args, answer, changes, watchVars>> /\ pc' = "key" /\ answer = <<>>
    BY <1>7 DEF StoreAnswer, CacheInv
  <2>2. cache' = cache \/ cache' = [key |-> settings.sort_key, threshold |-> settings.threshold,
                                    data |-> answer, valid |-> TRUE]
    BY <1>7 DEF StoreAnswer, Store
  <2>3. raced' \in BOOLEAN
    BY <1>7 DEF StoreAnswer, WatchTyped
  <2>4. cache' \in [key : SortKeys \cup {NoKey}, threshold : Nat, data : {<<>>}, valid : BOOLEAN]
    <3>1. settings.sort_key \in SortKeys /\ settings.threshold \in Nat
      BY DEF ModelTyped
    <3>2. [key |-> settings.sort_key, threshold |-> settings.threshold, data |-> answer, valid |-> TRUE]
            \in [key : SortKeys \cup {NoKey}, threshold : Nat, data : {answer}, valid : BOOLEAN]
      BY <3>1
    <3> QED BY <2>1, <2>2, <3>2 DEF ModelTyped
  <2>5. ModelTyped'
    BY <2>1, <2>4 DEF ModelTyped, watchVars
  <2> QED BY <2>1, <2>3, <2>5 DEF MainTyped, WatchTyped, watchVars
<1>8. CASE ChangeSettings
  <2>1. UNCHANGED <<cache, args, answer, watchVars, raced>> /\ pc' = "check"
    BY <1>8 DEF ChangeSettings
  <2>2. changes' \in 0 .. MaxChanges
    BY <1>8, IntopAssumption DEF ChangeSettings, MainTyped
  <2>3. \/ \E key \in SortKeys : settings' = [settings EXCEPT !.sort_key = key]
        \/ \E threshold \in 0 .. 1 : settings' = [settings EXCEPT !.threshold = threshold]
        \/ \E filters \in FilterSettings : settings' = [settings EXCEPT !.filters = filters]
    BY <1>8 DEF ChangeSettings
  <2>4. ModelTyped'
    BY <2>1, <2>3 DEF ModelTyped, watchVars
  <2> QED BY <2>1, <2>2, <2>4 DEF MainTyped, WatchTyped, watchVars
<1>9. CASE Redraw \/ Quit \/ Interrupt \/ Joined
  <2>1. UNCHANGED <<settings, cache, args, answer, changes, wpc, read, raced>>
    BY <1>9 DEF Redraw, Quit, Interrupt, Joined, modelVars, watchVars
  <2>2. pc' \in {"check", "quit", "interrupted", "ended"}
    BY <1>9 DEF Redraw, Quit, Interrupt, Joined
  <2>3. watching' \in BOOLEAN /\ stopping' \in BOOLEAN
    BY <1>9 DEF Redraw, Quit, Interrupt, Joined, watchVars, WatchTyped
  <2> QED BY <2>1, <2>2, <2>3 DEF ModelTyped, MainTyped, WatchTyped, Left
<1>10. CASE Watcher
  <2>1. UNCHANGED <<settings, args, answer, changes, pc, watching, stopping>>
    BY <1>10 DEF Watcher, WatchRead, WatchAppend, WatchInvalidate, WatchStops, modelVars, mainVars
  <2>2. /\ wpc' \in {"append", "dead", "invalidate", "idle", "stopped"}
        /\ raced' \in {raced, FALSE}
    BY <1>10 DEF Watcher, WatchRead, WatchAppend, WatchInvalidate, WatchStops
  <2>3. cache' = cache \/ cache' = [cache EXCEPT !.valid = FALSE]
    BY <1>10 DEF Watcher, WatchRead, WatchAppend, WatchInvalidate, WatchStops, modelVars, Invalidate
  <2>4. read' \in Items
    <3>1. CASE WatchRead
      <4>1. read' = read \/ wpc' = "append"
        BY <3>1 DEF WatchRead
      <4> QED BY <4>1, WholeTyped DEF WholeInv, WatchInv, ModelTyped
    <3>2. CASE ~WatchRead
      <4>1. read' = read \/ read' = NoItem
        BY <1>10, <3>2 DEF Watcher, WatchAppend, WatchInvalidate, WatchStops
      <4> QED BY <4>1, WholeTyped DEF ModelTyped
    <3> QED BY <3>1, <3>2
  <2>5. ModelTyped'
    BY <2>1, <2>3, <2>4 DEF ModelTyped
  <2> QED BY <2>1, <2>2, <2>5 DEF MainTyped, WatchTyped
<1> QED BY <1>1, <1>2, <1>3, <1>4, <1>5, <1>6, <1>7, <1>8, <1>9, <1>10 DEF Next, Viewer, User

\* The whole invariant of the two programs.
IntopInv == WholeInv /\ CacheInv /\ TypeInv

\* Every step keeps it.
LEMMA IntopNext == IntopInv /\ [Next]_vars => IntopInv'
<1> SUFFICES ASSUME IntopInv, [Next]_vars PROVE IntopInv'
  OBVIOUS
<1>1. CASE UNCHANGED vars
  <2>1. UNCHANGED <<modelVars, mainVars, watchVars, disk, raced>>
    BY <1>1 DEF vars
  <2>2. WholeInv' /\ CacheInv'
    BY <2>1 DEF IntopInv, modelVars, mainVars, watchVars, WholeInv, DiskInv, DataInv, ListsInv,
                WatchInv, CacheInv
  <2>3. TypeInv'
    BY <2>1 DEF IntopInv, modelVars, mainVars, watchVars, TypeInv, ModelTyped, MainTyped, WatchTyped
  <2> QED BY <2>2, <2>3 DEF IntopInv
<1>2. CASE Next
  <2>1. WholeInv'
    BY <1>2, MonitorStep, ProgramStep DEF IntopInv, Next
  <2> QED BY <1>2, <2>1, CacheStep, TypeStep DEF IntopInv
<1> QED BY <1>1, <1>2

\* It holds always.
LEMMA IntopAlways == Spec => []IntopInv
<1>1. Init => IntopInv
  <2>1. Init => CacheInv
    BY DEF Init, ModelInit, CacheInv
  <2> QED BY <2>1, WholeInit, TypeInit DEF IntopInv
<1> QED BY <1>1, IntopNext, PTL DEF Spec

\* The state of the programs is well formed: filters are set under the names
\* of PNAModel.filters only, and an answer that is cached is empty, as any
\* other raises an error before it is stored.
THEOREM IntopTypes == Spec => []TypeOK
<1>1. IntopInv => TypeOK
  <2> SUFFICES ASSUME IntopInv PROVE TypeOK
    OBVIOUS
  <2> USE DEF IntopInv
  <2>1. all_data \in Seq(Items)
    BY WholeTyped DEF WholeInv, DataInv
  <2>2. answer \in Seq(Items) /\ read \in Items
    BY DEF TypeInv, ModelTyped
  <2>3. DOMAIN settings.filters \subseteq FilterNames
    BY FiltersNamed DEF TypeInv
  <2>4. settings.sort_key \in SortKeys /\ settings.threshold \in Nat
    BY DEF TypeInv, ModelTyped
  <2>5. cache.key \in SortKeys \cup {NoKey} /\ cache.valid \in BOOLEAN /\ cache.data = <<>>
    BY DEF TypeInv, ModelTyped
  <2>6. /\ disk \in [Logs -> [there : BOOLEAN, written : Nat, header : BOOLEAN]]
        /\ todo \in Seq(Logs) /\ events \in Seq(Logs)
    BY DEF WholeInv, DiskInv, ListsInv, WatchInv
  <2>7. {watching, stopping, raced} \subseteq BOOLEAN
    BY DEF TypeInv, WatchTyped
  <2>8. /\ args \in CliArgs \cup ViewerArgs /\ changes \in 0 .. MaxChanges
        /\ pc \in Left \cup {"start", "add", "check", "filter", "store", "key", "quit"}
        /\ wpc \in {"off", "idle", "append", "invalidate", "dead", "stopped"}
    BY DEF TypeInv, MainTyped, WatchTyped
  <2> QED BY <2>1, <2>2, <2>3, <2>4, <2>5, <2>6, <2>7, <2>8 DEF TypeOK
<1> QED BY <1>1, IntopAlways, PTL

\* The filters of the options and of the dialog reject no flow: what get_data
\* works on and cli.py prints is always all of the logs.
THEOREM FiltersKeepAll == Spec => [](do_filter(all_data) = all_data)
<1>1. IntopInv => do_filter(all_data) = all_data
  BY WholeTyped, FiltersNamed, FilterAll DEF IntopInv, WholeInv, DataInv, TypeInv
<1> QED BY <1>1, IntopAlways, PTL

-----------------------------------------------------------------------------
(* What cli.py prints.                                                     *)

\* The flows of the files named, in order.
Named == FlattenSeq([i \in DOMAIN args.files |-> LogOf[args.files[i]].flows])

\* The files named are those added, then those still to add.
Listed ==
    /\ Len(all_data) + Len(todo) = Len(args.files)
    /\ \A i \in 1 .. Len(all_data) : all_data[i].flows = LogOf[args.files[i]].flows
    /\ \A j \in 1 .. Len(todo) : todo[j] = args.files[Len(all_data) + j]

CliInv ==
    /\ args.program = "cli" =>
         /\ pc \in {"start", "add", "usage", "ended", "parse_raised"} /\ wpc = "off"
         /\ pc = "start" => all_data = <<>>
         /\ pc = "add" => Listed
         /\ pc = "ended" /\ (args.format = "json" => args.has_json) => printed = Named
    /\ args.program # "cli" => printed = <<>>
    /\ pc # "ended" => printed = <<>>

\* A file added was the next one named.
LEMMA ListedStep ==
    ASSUME WholeInv, WholeInv', Listed, AddFile, Readable(File(Head(todo)))
    PROVE  Listed'
<1> DEFINE l == Head(todo)
           n == Len(all_data)
<1>1. /\ all_data' = Append(all_data, FileItem(l, File(l))) /\ todo' = Tail(todo)
      /\ args' = args /\ todo # <<>>
  BY DEF AddFile, AppendItem
<1>2. all_data \in Seq(WholeItems) /\ todo \in Seq(Logs) /\ args.files \in Seq(Logs)
  BY DEF WholeInv, DataInv, ListsInv
<1>3. n \in Nat /\ Len(todo) \in Nat /\ Len(todo) >= 1 /\ l \in Logs /\ l = todo[1]
  BY <1>1, <1>2
<1>4. l = args.files[n + 1]
  BY <1>3 DEF Listed
<1>5. FileItem(l, File(l)).flows = LogOf[l].flows
  <2>1. FileItem(l, File(l)) \in WholeItems
    BY <1>3, ItemWhole DEF WholeInv
  <2>2. FileItem(l, File(l)).log = l
    BY DEF FileItem
  <2> HIDE DEF l
  <2> QED BY <2>1, <2>2 DEF WholeItems
<1> DEFINE item == FileItem(l, File(l))
<1> HIDE DEF item, l
<1>6. /\ Len(all_data') = n + 1 /\ all_data'[n + 1] = item
      /\ \A i \in 1 .. n : all_data'[i] = all_data[i]
  BY <1>1, <1>2 DEF item
<1>7. Len(todo') = Len(todo) - 1 /\ \A j \in 1 .. Len(todo) - 1 : todo'[j] = todo[j + 1]
  BY <1>1, <1>2
<1> HIDE DEF n
<1>8. Len(all_data') + Len(todo') = Len(args.files)
  <2>1. n + Len(todo) = Len(args.files)
    BY DEF Listed, n
  <2> DEFINE m == Len(todo)
  <2>2. m \in Nat /\ n \in Nat
    BY <1>3
  <2> HIDE DEF m
  <2>3. (n + 1) + (m - 1) = n + m
    BY <2>2
  <2> QED BY <1>6, <1>7, <2>1, <2>3 DEF m
<1>9. ASSUME NEW i \in 1 .. n + 1 PROVE all_data'[i].flows = LogOf[args.files[i]].flows
  <2>1. CASE i = n + 1
    BY <1>4, <1>5, <1>6, <2>1 DEF item
  <2>2. CASE i # n + 1
    <3>1. i \in 1 .. n
      BY <1>3, <2>2
    <3> QED BY <1>6, <3>1 DEF Listed, n
  <2> QED BY <2>1, <2>2
<1>10. ASSUME NEW j \in 1 .. Len(todo) - 1 PROVE todo'[j] = args.files[(n + 1) + j]
  <2>1. j + 1 \in 1 .. Len(todo) /\ n + (j + 1) = (n + 1) + j
    BY <1>3
  <2>2. todo[j + 1] = args.files[n + (j + 1)]
    BY <2>1 DEF Listed, n
  <2> QED BY <1>7, <2>1, <2>2
<1> QED BY <1>1, <1>6, <1>7, <1>8, <1>9, <1>10 DEF Listed

\* Every step keeps CliInv.
LEMMA CliStep ==
    ASSUME IntopInv, IntopInv', CliInv, Next
    PROVE  CliInv'
<1>1. CASE Monitor
  <2>1. UNCHANGED <<modelVars, mainVars, wpc>>
    BY <1>1 DEF Monitor, MonitorCreate, MonitorFlush, MonitorHeader, watchVars
  <2> QED BY <2>1 DEF modelVars, mainVars, CliInv, Listed, Named
<1>2. CASE CliUsage
  <2>1. pc' = "usage" /\ pc = "start" /\ UNCHANGED <<all_data, args, printed, wpc>>
    BY <1>2 DEF CliUsage, modelVars, watchVars
  <2> QED BY <2>1 DEF CliInv
<1>3. CASE CliSettings
  <2>1. /\ pc = "start" /\ pc' = "add" /\ todo' = args.files /\ args.program = "cli"
        /\ UNCHANGED <<all_data, args, printed, wpc>>
    BY <1>3 DEF CliSettings, watchVars
  <2>2. all_data = <<>> /\ args.files \in Seq(Logs)
    BY <2>1 DEF CliInv, IntopInv, WholeInv, ListsInv
  <2>3. Listed'
    BY <2>1, <2>2 DEF Listed
  <2> QED BY <2>1, <2>3 DEF CliInv
<1>4. CASE CliPrint
  <2>1. /\ pc = "add" /\ pc' = "ended" /\ args.program = "cli" /\ todo = <<>>
        /\ UNCHANGED <<all_data, args, wpc>>
    BY <1>4 DEF CliPrint, modelVars, watchVars
  <2>2. Listed /\ all_data \in Seq(WholeItems) /\ args.files \in Seq(Logs)
    BY <2>1 DEF CliInv, IntopInv, WholeInv, DataInv, ListsInv
  <2>3. do_filter(all_data) = all_data
    <3>1. all_data \in Seq(Items)
      BY <2>2, WholeTyped
    <3> QED BY <3>1, FiltersNamed, FilterAll DEF IntopInv, TypeInv
  <2>4. [i \in DOMAIN all_data |-> all_data[i].flows]
        = [i \in DOMAIN args.files |-> LogOf[args.files[i]].flows]
    <3>1. DOMAIN all_data = DOMAIN args.files /\ DOMAIN all_data = 1 .. Len(all_data)
      BY <2>1, <2>2 DEF Listed
    <3> QED BY <2>2, <3>1 DEF Listed
  <2>5. (args.format = "json" => args.has_json) => printed' = Named
    <3>1. ASSUME args.format = "json" => args.has_json
          PROVE  printed' = FlattenSeq([i \in DOMAIN all_data |-> all_data[i].flows])
      BY <1>4, <2>3, <3>1 DEF CliPrint
    <3> QED BY <2>4, <3>1 DEF Named
  <2>6. Named' = Named
    BY <2>1 DEF Named
  <2>7. wpc = "off"
    BY <2>1 DEF CliInv
  <2> QED BY <2>1, <2>5, <2>6, <2>7 DEF CliInv
<1>5. CASE AddFile
  <2>1. pc = "add" /\ UNCHANGED <<args, printed, wpc>> /\ pc' \in {"add", "parse_raised"}
    BY <1>5 DEF AddFile, watchVars
  <2>2. CASE Readable(File(Head(todo)))
    <3>1. args.program = "cli" => Listed'
      BY <1>5, <2>1, <2>2, ListedStep DEF CliInv, IntopInv
    <3> QED BY <2>1, <3>1 DEF CliInv
  <2>3. CASE ~Readable(File(Head(todo)))
    <3>1. pc' = "parse_raised"
      BY <1>5, <2>3 DEF AddFile
    <3> QED BY <2>1, <3>1 DEF CliInv
  <2> QED BY <2>2, <2>3
<1>6. CASE Viewer \/ User \/ Joined
  <2>1. UNCHANGED <<args, printed>> /\ args.program # "cli"
    <3>1. UNCHANGED <<args, printed>>
      BY <1>6 DEF Viewer, User, ListDir, NoDir, Construct, LookAtCache, FilterData, StoreAnswer,
                  Redraw, ChangeSettings, Quit, Interrupt, Joined
    <3>2. args.program = "cui" \/ pc \in {"check", "filter", "store", "key", "quit"}
      BY <1>6 DEF Viewer, User, ListDir, NoDir, Construct, LookAtCache, FilterData, StoreAnswer,
                  Redraw, ChangeSettings, Quit, Interrupt, Joined
    <3> QED BY <3>1, <3>2 DEF CliInv
  <2> QED BY <2>1 DEF CliInv
<1>7. CASE Watcher
  <2>1. UNCHANGED <<args, printed, pc>> /\ wpc # "off"
    BY <1>7 DEF Watcher, WatchRead, WatchAppend, WatchInvalidate, WatchStops, mainVars
  <2> QED BY <2>1 DEF CliInv
<1> QED BY <1>1, <1>2, <1>3, <1>4, <1>5, <1>6, <1>7 DEF Next, Cli

\* cli.py prints every flow its options ask for of every file named, in
\* order, and no flow of a list with a file it cannot read.
THEOREM CliPrintsAll == Spec => []PrintsAll
<1>1. Init => CliInv
  <2> SUFFICES ASSUME Init PROVE CliInv
    OBVIOUS
  <2>1. pc = "start" /\ printed = <<>> /\ all_data = <<>> /\ wpc = "off"
    BY DEF Init, ModelInit
  <2> QED BY <2>1 DEF CliInv
<1>2. IntopInv /\ IntopInv' /\ CliInv /\ [Next]_vars => CliInv'
  <2> SUFFICES ASSUME IntopInv, IntopInv', CliInv, [Next]_vars PROVE CliInv'
    OBVIOUS
  <2>1. CASE UNCHANGED vars
    BY <2>1 DEF vars, modelVars, mainVars, watchVars, CliInv, Listed, Named
  <2> QED BY <2>1, CliStep
<1>3. CliInv => PrintsAll
  <2> SUFFICES ASSUME CliInv PROVE PrintsAll
    OBVIOUS
  <2>1. pc = "ended" /\ args.program = "cli" /\ (args.format = "json" => args.has_json)
        => printed = Named
    BY DEF CliInv
  <2> QED BY <2>1 DEF CliInv, PrintsAll, Named
<1> QED BY <1>1, <1>2, <1>3, IntopAlways, PTL DEF Spec

-----------------------------------------------------------------------------
(* The curses interface.                                                   *)

\* FoldLeft goes through the subsets of a finite set S: with c[s] the element taken from s, and w[s]
\* what it adds.
FoldStep(g, c, w, b, s) == IF s = {} THEN 0 ELSE g[s \ {c[s]}] * b + w[s]
Folded(g, c, w, b, S) == g = [s \in SUBSET S |-> FoldStep(g, c, w, b, s)]
Taken(S, c, w) == \A s \in SUBSET S : s # {} => c[s] \in s /\ w[s] \in Nat
Small(S, n) == {s \in SUBSET S : Cardinality(s) <= n}

\* The subsets up to a size, and what is left of one without its c[s].
LEMMA SmallFacts ==
    ASSUME NEW S, IsFiniteSet(S), NEW c, NEW w, Taken(S, c, w)
    PROVE  /\ Small(S, Cardinality(S)) = SUBSET S /\ Cardinality(S) \in Nat
           /\ \A s \in SUBSET S : Cardinality(s) \in Nat /\ (Cardinality(s) = 0 => s = {})
           /\ \A n \in Nat : \A s \in Small(S, n + 1) : s # {} => s \ {c[s]} \in Small(S, n)
<1>1. \A s \in SUBSET S : IsFiniteSet(s) /\ Cardinality(s) <= Cardinality(S)
  BY FS_Subset
<1>2. \A s \in SUBSET S : Cardinality(s) \in Nat /\ (Cardinality(s) = 0 => s = {})
  BY <1>1, FS_CardinalityType, FS_EmptySet
<1>3. ASSUME NEW n \in Nat, NEW s \in Small(S, n + 1), s # {}
      PROVE  s \ {c[s]} \in Small(S, n)
  <2>1. s \in SUBSET S /\ c[s] \in s /\ Cardinality(s) <= n + 1
    BY <1>3 DEF Small, Taken
  <2>2. Cardinality(s \ {c[s]}) = Cardinality(s) - 1
    BY <1>1, <2>1, FS_RemoveElement
  <2> QED BY <1>2, <2>1, <2>2 DEF Small
<1>4. Cardinality(S) \in Nat
  BY FS_CardinalityType
<1> QED BY <1>1, <1>2, <1>3, <1>4 DEF Small

\* There is a function that satisfies the recursive equation, built up by size.
LEMMA FoldExists ==
    ASSUME NEW S, IsFiniteSet(S), NEW c, NEW w, NEW b \in Nat, Taken(S, c, w)
    PROVE  \E g : Folded(g, c, w, b, S)
<1> DEFINE Good(g, n) == g \in [Small(S, n) -> Nat] /\ \A s \in Small(S, n) : g[s] = FoldStep(g, c, w, b, s)
           P == {n \in Nat : \E g : Good(g, n)}
<1>1. 0 \in P
  <2> DEFINE g == [s \in Small(S, 0) |-> 0]
  <2>1. \A s \in Small(S, 0) : s = {}
    BY SmallFacts DEF Small
  <2>2. Good(g, 0)
    BY <2>1 DEF FoldStep
  <2> QED BY <2>2
<1>2. ASSUME NEW n \in P PROVE n + 1 \in P
  <2>1. PICK g : Good(g, n)
    OBVIOUS
  <2> DEFINE h == [s \in Small(S, n + 1) |-> IF s \in Small(S, n) THEN g[s] ELSE FoldStep(g, c, w, b, s)]
  <2>2. \A s \in Small(S, n + 1) : s # {} => s \ {c[s]} \in Small(S, n)
    BY SmallFacts
  <2>3. \A s \in Small(S, n) : s \in Small(S, n + 1) /\ h[s] = g[s]
    BY SmallFacts DEF Small
  <2>4. ASSUME NEW s \in Small(S, n + 1) PROVE FoldStep(h, c, w, b, s) = FoldStep(g, c, w, b, s)
    <3> HIDE DEF h
    <3> QED BY <2>2, <2>3 DEF FoldStep
  <2>5. ASSUME NEW s \in Small(S, n + 1) PROVE FoldStep(g, c, w, b, s) \in Nat
    <3>1. CASE s = {}
      BY <3>1 DEF FoldStep
    <3>2. CASE s # {}
      <4>1. w[s] \in Nat
        BY <3>2 DEF Small, Taken
      <4>2. g[s \ {c[s]}] \in Nat
        BY <2>1, <2>2, <3>2
      <4> QED BY <3>2, <4>1, <4>2 DEF FoldStep
    <3> QED BY <3>1, <3>2
  <2>6. \A s \in Small(S, n + 1) : h[s] = FoldStep(g, c, w, b, s)
    BY <2>1
  <2>7. h \in [Small(S, n + 1) -> Nat]
    <3>1. \A s \in Small(S, n + 1) : h[s] \in Nat
      <4> HIDE DEF h
      <4> QED BY <2>5, <2>6
    <3> QED BY <3>1
  <2>8. Good(h, n + 1)
    <3> HIDE DEF h
    <3> QED BY <2>4, <2>6, <2>7
  <2>9. n + 1 \in Nat
    OBVIOUS
  <2> HIDE DEF Good, h
  <2> QED BY <2>8, <2>9
<1>3. P = Nat
  <2>1. P \in SUBSET Nat
    OBVIOUS
  <2> HIDE DEF P
  <2> QED BY <1>1, <1>2, <2>1, NatSetInduction
<1>4. PICK g : Good(g, Cardinality(S))
  BY <1>3, SmallFacts
<1>5. Small(S, Cardinality(S)) = SUBSET S
  BY SmallFacts
<1>6. Folded(g, c, w, b, S)
  BY <1>4, <1>5 DEF Folded
<1> QED BY <1>6

\* A function that satisfies the equation has natural numbers for values.
LEMMA FoldInNat ==
    ASSUME NEW S, IsFiniteSet(S), NEW c, NEW w, NEW b \in Nat, Taken(S, c, w),
           NEW g, Folded(g, c, w, b, S)
    PROVE  g \in [SUBSET S -> Nat]
<1> DEFINE P == {n \in Nat : \A s \in Small(S, n) : g[s] \in Nat}
<1>0. \A s \in SUBSET S : g[s] = FoldStep(g, c, w, b, s)
  BY Zenon DEF Folded
<1> DEFINE zero == g[{}]
<1>a. zero = 0
  <2>1. {} \in SUBSET S
    OBVIOUS
  <2> QED BY <1>0, <2>1, Zenon DEF FoldStep
<1>1. 0 \in P
  <2>1. \A s \in Small(S, 0) : s = {}
    BY SmallFacts DEF Small
  <2>2. \A s \in Small(S, 0) : g[s] = zero
    BY <2>1, Zenon
  <2> HIDE DEF zero
  <2> QED BY <1>a, <2>2
<1>2. ASSUME NEW n \in P PROVE n + 1 \in P
  <2>1. ASSUME NEW s \in Small(S, n + 1) PROVE g[s] \in Nat
    <3>1. s \in SUBSET S
      BY DEF Small
    <3>2. CASE s = {}
      BY <1>a, <3>2
    <3>3. CASE s # {}
      <4>1. s \ {c[s]} \in Small(S, n)
        BY <3>3, SmallFacts
      <4>2. w[s] \in Nat
        BY <3>1, <3>3 DEF Taken
      <4>3. g[s \ {c[s]}] \in Nat
        BY <4>1
      <4>4. g[s] = g[s \ {c[s]}] * b + w[s]
        BY <1>0, <3>1, <3>3 DEF FoldStep
      <4> QED BY <4>2, <4>3, <4>4
    <3> QED BY <3>2, <3>3
  <2>2. n + 1 \in Nat
    OBVIOUS
  <2> QED BY <2>1, <2>2
<1>3. P = Nat
  <2>1. P \in SUBSET Nat
    OBVIOUS
  <2> HIDE DEF P
  <2> QED BY <1>1, <1>2, <2>1, NatSetInduction
<1>4. \A s \in SUBSET S : g[s] \in Nat
  <2>1. Cardinality(S) \in Nat /\ Small(S, Cardinality(S)) = SUBSET S
    BY SmallFacts
  <2>2. Cardinality(S) \in P
    <3> HIDE DEF P
    <3> QED BY <1>3, <2>1
  <2> QED BY <2>1, <2>2
<1>5. g = [s \in SUBSET S |-> FoldStep(g, c, w, b, s)]
  BY Zenon DEF Folded
<1>6. \A s \in SUBSET S : FoldStep(g, c, w, b, s) \in Nat
  BY <1>0, <1>4, Zenon
<1> QED BY <1>5, <1>6, Zenon

\* The digits of text, from the left: what is read up to a place, with the
\* digit at it.
ReadEq(g, text, S) ==
    g = [s \in SUBSET S |->
           IF s = {} THEN 0
           ELSE g[s \ {Max(s)}] * Len(Digits)
                + (CHOOSE i \in DOMAIN Digits : Digits[i] = text[Max(s)]) - 1]
Reading(text) == CHOOSE g : ReadEq(g, text, DOMAIN text)

\* ToInt is such a function, applied to all places.
LEMMA ToIntReading ==
    ASSUME NEW text PROVE ToInt(text) = Reading(text)[DOMAIN text]
BY Zenon DEF ToInt, FoldLeft, MapThenFoldSet, Reading, ReadEq, Max, Max

\* A nonempty bounded set of naturals has a greatest element, Max.
LEMMA GreatestNat ==
    ASSUME NEW N \in Nat, NEW S \in SUBSET (0 .. N), S # {}
    PROVE  Max(S) \in S /\ \A y \in S : Max(S) >= y
<1> DEFINE R == {ss \in Nat \X Nat : ss[1] < ss[2]}
           T == {N - x : x \in S}
<1>1. IsWellFoundedOn(R, Nat)
  BY NatLessThanWellFounded, Zenon DEF OpToRel
<1>2. T \subseteq Nat /\ T # {}
  <2>1. \A x \in S : N - x \in Nat /\ N - x \in T
    OBVIOUS
  <2>2. PICK x \in S : TRUE
    OBVIOUS
  <2> QED BY <2>1, <2>2
<1>3. PICK z \in T : \A y \in T : <<y, z>> \notin R
  <2> HIDE DEF R, T
  <2> QED BY <1>1, <1>2, WFMin, Zenon
<1>4. PICK x \in S : z = N - x
  BY <1>3
<1>5. ASSUME NEW y \in S, ~(x >= y) PROVE FALSE
  <2>1. N - y \in T /\ N - y \in Nat /\ z \in Nat /\ N - y < z
    BY <1>4, <1>5
  <2> QED BY <1>3, <2>1
<1> QED BY <1>5 DEF Max

\* What int makes of digits is a natural number.
LEMMA ToIntNat ==
    ASSUME NEW text \in Seq(DigitChars)
    PROVE  ToInt(text) \in Nat
<1> DEFINE S == DOMAIN text
           digit(s) == (CHOOSE i \in DOMAIN Digits : Digits[i] = text[Max(s)]) - 1
           c == [s \in SUBSET S |-> Max(s)]
           w == [s \in SUBSET S |-> digit(s)]
           b == Len(Digits)
<1>1. Digits \in Seq(DigitChars) /\ b \in Nat /\ DOMAIN Digits = 1 .. b
  BY CuiAssumption
<1>2. S = 1 .. Len(text) /\ Len(text) \in Nat
  OBVIOUS
<1>3. IsFiniteSet(S)
  BY <1>2, FS_Interval
<1>4. ASSUME NEW s \in SUBSET S, s # {} PROVE c[s] \in s /\ w[s] \in Nat
  <2>1. Max(s) \in s
    <3>1. s \in SUBSET (0 .. Len(text))
      BY <1>2
    <3> QED BY <1>2, <1>4, <3>1, GreatestNat
  <2>2. text[Max(s)] \in DigitChars
    BY <2>1
  <2>3. PICK i \in DOMAIN Digits : Digits[i] = text[Max(s)]
    BY <2>2 DEF DigitChars, Range
  <2>4. (CHOOSE j \in DOMAIN Digits : Digits[j] = text[Max(s)]) \in DOMAIN Digits
    BY <2>3
  <2>5. digit(s) \in Nat
    BY <1>1, <2>4
  <2> QED BY <2>1, <2>5
<1>5. Taken(S, c, w)
  <2> HIDE DEF c, w, S
  <2> QED BY <1>4 DEF Taken
<1>6. \A g : ReadEq(g, text, S) <=> Folded(g, c, w, b, S)
  <2>1. ASSUME NEW g, NEW s \in SUBSET S
        PROVE  (IF s = {} THEN 0 ELSE g[s \ {Max(s)}] * b + digit(s)) = FoldStep(g, c, w, b, s)
    BY DEF FoldStep
  <2>2. ASSUME NEW g
        PROVE  [s \in SUBSET S |-> IF s = {} THEN 0 ELSE g[s \ {Max(s)}] * b + digit(s)]
               = [s \in SUBSET S |-> FoldStep(g, c, w, b, s)]
    <3> HIDE DEF c, w, S, b, digit
    <3> QED BY <2>1
  <2>3. ASSUME NEW g
        PROVE  ReadEq(g, text, S) <=>
                 g = [s \in SUBSET S |-> IF s = {} THEN 0 ELSE g[s \ {Max(s)}] * b + digit(s)]
    BY Zenon DEF ReadEq
  <2> HIDE DEF c, w, S, b, digit
  <2> QED BY <2>2, <2>3, Zenon DEF Folded
<1>7. ReadEq(Reading(text), text, S)
  <2>1. \E g : ReadEq(g, text, S)
    <3> HIDE DEF c, w, S, b
    <3>1. \E g : Folded(g, c, w, b, S)
      BY <1>1, <1>3, <1>5, FoldExists
    <3> QED BY <1>6, <3>1, Zenon
  <2> QED BY <2>1, Zenon DEF Reading
<1>8. Reading(text) \in [SUBSET S -> Nat]
  <2>1. Folded(Reading(text), c, w, b, S)
    <3> HIDE DEF c, w, S, b
    <3> QED BY <1>6, <1>7, Zenon
  <2> HIDE DEF c, w, S, b
  <2> QED BY <1>1, <1>3, <1>5, <2>1, FoldInNat
<1> QED BY <1>8, ToIntReading, S \in SUBSET S

\* What str gives is digits that fit in the edit field, and int takes it back.
LEMMA ToStrFits ==
    ASSUME NEW n \in 0 .. ThresholdMax
    PROVE  /\ ToStr(n) \in Seq(DigitChars)
           /\ Len(ToStr(n)) <= ThresholdWidth - 2
           /\ ToInt(ToStr(n)) = n
<1>1. PICK text \in Numerals : ToInt(text) = n
  BY CuiAssumption
<1>2. ToStr(n) \in Numerals /\ ToInt(ToStr(n)) = n
  BY <1>1, Zenon DEF ToStr
<1>3. PICK m \in 0 .. ThresholdWidth - 2 : ToStr(n) \in [1 .. m -> DigitChars]
  BY <1>2 DEF Numerals, BoundedSeq, SeqOf
<1> HIDE DEF ToStr
<1>4. m \in Nat /\ m <= ThresholdWidth - 2
  BY CuiAssumption
<1>5. Len(ToStr(n)) = m /\ ToStr(n) \in Seq(DigitChars)
  BY <1>3, <1>4
<1> QED BY <1>2, <1>4, <1>5

-----------------------------------------------------------------------------
(* The list and the details.                                               *)

Rows == UNION {Range(got) : got \in Answers}

ListTyped == data \in Seq(Rows) /\ Len(data) <= Lines /\ selection \in -1 .. Lines
Lit == lit = IF selection + 1 \in DOMAIN data THEN data[selection + 1] ELSE NoRow

\* What is highlighted is what is selected whenever the list waits for a key.
ListShown ==
    /\ mode = "list" => Lit /\ selection < Len(data)
    /\ DetailsOfShown

ListInv == ListTyped /\ ListShown

\* The rows update_data leaves, and the selection.
LEMMA AnswerRows ==
    ASSUME NEW got \in Answers, NEW rows, NEW sel \in -1 .. Lines,
           rows = IF Len(got) <= Lines THEN got ELSE SubSeq(got, 1, Lines)
    PROVE  /\ rows \in Seq(Rows) /\ Len(rows) <= Lines /\ Len(rows) \in Nat
           /\ Clamped(sel, rows) \in -1 .. Lines /\ Clamped(sel, rows) < Len(rows)
<1>1. got \in Seq(Range(got)) /\ Range(got) \subseteq Rows /\ Lines \in Nat
  BY CuiAssumption DEF Rows, Range
<1>2. got \in Seq(Rows) /\ Len(got) \in Nat
  BY <1>1, SeqMonotonic
<1>3. rows \in Seq(Rows) /\ Len(rows) <= Lines /\ Len(rows) \in Nat
  BY <1>1, <1>2
<1>4. Clamped(sel, rows) \in -1 .. Lines /\ Clamped(sel, rows) < Len(rows)
  <2>1. rows # <<>> <=> Len(rows) # 0
    BY <1>3
  <2> QED BY <1>1, <1>3, <2>1 DEF Clamped
<1> QED BY <1>3, <1>4

\* update_data and redraw.
LEMMA Updated ==
    ASSUME ListTyped, update_data
    PROVE  ListTyped' /\ selection' < Len(data')
BY AnswerRows DEF update_data, ListTyped

LEMMA Redrawn ==
    ASSUME ListTyped, redraw
    PROVE  ListTyped' /\ selection' < Len(data') /\ Lit'
BY Updated DEF redraw, Lit

\* The list begins with its rows.
LEMMA ListInit == CuiInit => ListInv
<1> SUFFICES ASSUME CuiInit PROVE ListInv
  OBVIOUS
<1>1. 0 \in -1 .. Lines
  BY CuiAssumption
<1>2. ListTyped
  BY <1>1, AnswerRows DEF CuiInit, ListTyped
<1>3. ListShown
  BY DEF CuiInit, ListShown, DetailsOfShown
<1> QED BY <1>2, <1>3 DEF ListInv

\* The steps that leave the list as it is and do not come back to it.
Elsewhere ==
    /\ UNCHANGED <<data, selection, lit, detail>>
    /\ mode' \notin {"list", "index_error"} /\ (mode' = "details" => mode = "details")

\* Such a step keeps what is said of the list.
LEMMA ListElsewhere ==
    ASSUME ListInv, Elsewhere
    PROVE  ListInv'
BY DEF ListInv, ListTyped, ListShown, DetailsOfShown, Elsewhere

\* The steps that end in a drawing of the list.
LEMMA ListRedrawn ==
    ASSUME ListInv, redraw, mode' \in {"draw", "list"}
    PROVE  ListInv'
BY Redrawn DEF ListInv, ListShown, DetailsOfShown

\* The keys of the list.
LEMMA ListKeyStep ==
    ASSUME ListInv, NEW key, ListKey(key)
    PROVE  ListInv'
<1> USE DEF ListInv, ListTyped, ListShown, DetailsOfShown
<1>0. Lines \in Nat /\ Len(data) \in Nat /\ selection \in Int
  BY CuiAssumption
<1>1. ASSUME NEW sel \in -1 .. Lines, Select(sel) PROVE ListInv'
  BY <1>1 DEF Select
<1>2. CASE move_up(key)
  BY <1>0, <1>1, <1>2 DEF move_up
<1>3. CASE move_down(key)
  BY <1>0, <1>1, <1>3 DEF move_down
<1>4. CASE move_first(key)
  BY <1>0, <1>1, <1>4 DEF move_first
<1>5. CASE move_last(key)
  BY <1>0, <1>1, <1>5 DEF move_last
<1>6. CASE UpdateKey(key)
  BY <1>6, Updated DEF UpdateKey
<1>7. CASE view_details(key)
  <2>1. Lit /\ selection < Len(data) /\ mode = "list"
    BY <1>7 DEF view_details
  <2>2. CASE 0 > selection
    BY <1>0, <1>7, <2>2 DEF view_details, listVars
  <2>3. CASE ~(0 > selection)
    <3>1. selection + 1 \in DOMAIN data /\ lit = data[selection + 1]
      BY <1>0, <2>1, <2>3 DEF Lit
    <3>2. data[selection + 1] # NoRow
      <4>1. data[selection + 1] \in Rows
        BY <3>1
      <4>2. PICK got \in Answers : data[selection + 1] \in Range(got)
        BY <4>1 DEF Rows
      <4> QED BY CuiAssumption, <4>2 DEF Range
    <3>3. mode' = "details" /\ detail' = data[selection + 1] /\ UNCHANGED <<data, selection, lit>>
      BY <1>0, <1>7, <2>1, <2>3 DEF view_details, listVars
    <3> QED BY <3>1, <3>2, <3>3
  <2> QED BY <2>2, <2>3
<1>8. CASE LeaveDetails(key)
  BY <1>8 DEF LeaveDetails, listVars
<1>9. CASE quit(key)
  BY <1>9 DEF quit, listVars
<1>10. CASE OtherKey(key)
  BY <1>10 DEF OtherKey, listVars
<1> QED BY <1>2, <1>3, <1>4, <1>5, <1>6, <1>7, <1>8, <1>9, <1>10 DEF ListKey

\* The keys of the dialogs do not disturb the list.
LEMMA ListDialogStep ==
    ASSUME ListInv, NEW key, DialogKey(key)
    PROVE  ListInv'
<1>1. CASE set_sort_key(key) \/ view_filters(key) \/ set_threshold(key)
  BY <1>1, ListElsewhere DEF set_sort_key, view_filters, set_threshold, listVars, Elsewhere
<1>2. CASE DialogMove(key) \/ FilterEdit(key) \/ FilterClear(key)
  BY <1>2, ListElsewhere DEF DialogMove, FilterEdit, FilterClear, listVars, Elsewhere
<1>3. CASE DialogLeave(key) \/ SortKeyIs(key)
  BY <1>3, ListRedrawn DEF DialogLeave, SortKeyIs
<1> QED BY <1>1, <1>2, <1>3 DEF DialogKey

\* The keys of the edit field do not disturb the list.
LEMMA ListEditStep ==
    ASSUME ListInv, NEW key, EditKey(key)
    PROVE  ListInv'
<1>1. ASSUME NEW value, NEW position, Editing, Edited(value, position) PROVE ListInv'
  BY <1>1, ListElsewhere DEF Edited, listVars, Elsewhere, Editing
<1>2. CASE EditMove(key)
  BY <1>1, <1>2 DEF EditMove
<1>3. CASE EditDelete(key)
  BY <1>1, <1>3 DEF EditDelete
<1>4. CASE EditInsert(key)
  BY <1>1, <1>4 DEF EditInsert
<1>5. CASE EditTypeError(key)
  BY <1>5, ListElsewhere DEF EditTypeError, listVars, Elsewhere
<1>6. ASSUME NEW text, ThresholdIs(text) PROVE ListInv'
  BY <1>6, ListRedrawn DEF ThresholdIs
<1>7. ASSUME NEW text, FilterIs(text) PROVE ListInv'
  BY <1>7, ListElsewhere DEF FilterIs, listVars, Elsewhere
<1> QED BY <1>2, <1>3, <1>4, <1>5, <1>6, <1>7 DEF EditKey, EditConfirm, EditRevert

\* No step disturbs the list.
LEMMA ListStep == ListInv /\ [CuiNext]_cuiVars => ListInv'
<1> SUFFICES ASSUME ListInv, [CuiNext]_cuiVars PROVE ListInv'
  OBVIOUS
<1>1. CASE write_view
  BY <1>1, ListRedrawn DEF write_view
<1>2. ASSUME NEW key, ListKey(key) \/ DialogKey(key) \/ EditKey(key) PROVE ListInv'
  BY <1>2, ListKeyStep, ListDialogStep, ListEditStep
<1>3. CASE UNCHANGED cuiVars
  BY <1>3 DEF cuiVars, listVars, ListInv, ListTyped, ListShown, Lit, DetailsOfShown
<1> QED BY <1>1, <1>2, <1>3 DEF CuiNext

\* Whatever rows get_data answers with, the details shown are those of the row
\* highlighted when Enter was pressed, and view_details indexes no row that
\* has gone (update_data, redraw).
THEOREM CuiDetails == CuiSpec => []DetailsOfShown
<1>1. CuiInit => ListInv
  BY ListInit
<1>2. ListInv /\ [CuiNext]_cuiVars => ListInv'
  BY ListStep
<1>3. ListInv => DetailsOfShown
  BY DEF ListInv, ListShown
<1> QED BY <1>1, <1>2, <1>3, PTL DEF CuiSpec

-----------------------------------------------------------------------------
(* The settings and the edit field.                                        *)

AllChars == DigitChars \cup Letters

\* A text that fits in the edit field of a filter.
FilterText(text) == text \in Seq(AllChars) /\ Len(text) <= FilterWidth - 2

SettingsTyped ==
    /\ model_settings \in [sort_key : 0 .. NumSortKeys - 1, threshold : 0 .. ThresholdMax,
                   filters : [0 .. Filters - 1 -> Seq(AllChars)]]
    /\ \A f \in 0 .. Filters - 1 : FilterText(model_settings.filters[f])

DialogTyped ==
    /\ mode \in Modes
    /\ dialog \in Nat
    /\ mode = "sort" => dialog \in 0 .. NumSortKeys - 1
    /\ mode \in {"filters", "filter"} => dialog \in 0 .. Filters - 1

\* What the edit field began with is the setting, or a filter that was refused.
EditBegan ==
    /\ mode = "threshold" => edit.initial = ToStr(model_settings.threshold)
    /\ mode = "filter" =>
         /\ FilterText(edit.initial)
         /\ \/ edit.initial = model_settings.filters[dialog]
            \/ edit.initial # <<>> /\ ~Matches(dialog, edit.initial)

EditTyped ==
    /\ edit \in [value : Seq(AllChars), position : Nat, initial : Seq(AllChars)]
    /\ edit.position <= Len(edit.value)
    /\ mode = "threshold" =>
         edit.value \in Seq(DigitChars) /\ Len(edit.value) <= ThresholdWidth - 2
    /\ mode = "filter" => Len(edit.value) <= FilterWidth - 2

EditInv == SettingsTyped /\ DialogTyped /\ EditTyped /\ EditBegan

\* No filter is set and nothing is edited at the beginning.
LEMMA EditInit == CuiInit => EditInv
<1> SUFFICES ASSUME CuiInit PROVE EditInv
  OBVIOUS
<1>1. NumSortKeys - 1 \in 0 .. NumSortKeys - 1 /\ 0 \in 0 .. ThresholdMax /\ FilterWidth - 2 >= 0
  BY CuiAssumption
<1>2. <<>> \in Seq(AllChars) /\ Len(<<>>) = 0
  OBVIOUS
<1>3. SettingsTyped
  BY <1>1, <1>2 DEF CuiInit, SettingsTyped, FilterText
<1>4. DialogTyped
  BY DEF CuiInit, DialogTyped, Modes
<1>5. EditTyped /\ EditBegan
  BY <1>2 DEF CuiInit, EditTyped, EditBegan, NoEdit, EditOf
<1> QED BY <1>3, <1>4, <1>5 DEF EditInv

\* The steps that change neither the settings nor the edit field, and do not
\* come to it.
LEMMA EditElsewhere ==
    ASSUME EditInv, UNCHANGED <<model_settings, edit>>, mode' \notin {"threshold", "filter"}, DialogTyped'
    PROVE  EditInv'
BY DEF EditInv, SettingsTyped, EditTyped, EditBegan, FilterText

\* The keys of the list and the drawing.
LEMMA EditListStep ==
    ASSUME EditInv, NEW key, ListKey(key) \/ write_view
    PROVE  EditInv'
<1>1. UNCHANGED <<model_settings, dialog, edit>> /\ mode' \in {"list", "draw", "details", "quit", "index_error"}
  BY DEF write_view, ListKey, move_up, move_down, move_first, move_last, Select,
         UpdateKey, view_details, LeaveDetails, quit, OtherKey
<1>2. DialogTyped'
  BY <1>1 DEF EditInv, DialogTyped, Modes
<1> QED BY <1>1, <1>2, EditElsewhere

\* The steps of the edit field that stay in it.
LEMMA EditWithin ==
    ASSUME EditInv, NEW value \in Seq(AllChars), NEW position \in 0 .. Len(value),
           mode = "threshold" => value \in Seq(DigitChars) /\ Len(value) <= ThresholdWidth - 2,
           mode = "filter" => Len(value) <= FilterWidth - 2,
           Edited(value, position)
    PROVE  EditInv'
<1>1. UNCHANGED <<mode, model_settings, dialog>>
  BY DEF Edited
<1>2. /\ edit' \in [value : Seq(AllChars), position : Nat, initial : Seq(AllChars)]
      /\ edit'.value = value /\ edit'.position = position /\ edit'.initial = edit.initial
  <2>1. position \in Nat
    OBVIOUS
  <2>2. edit' = [edit EXCEPT !.value = value, !.position = position]
    BY DEF Edited
  <2>3. edit \in [value : Seq(AllChars), position : Nat, initial : Seq(AllChars)]
    BY DEF EditInv, EditTyped
  <2> QED BY <2>1, <2>2, <2>3
<1>3. SettingsTyped' /\ DialogTyped'
  BY <1>1 DEF EditInv, SettingsTyped, DialogTyped, FilterText
<1>4. EditTyped'
  BY <1>1, <1>2 DEF EditTyped
<1>5. EditBegan'
  BY <1>1, <1>2 DEF EditInv, EditBegan, FilterText
<1> QED BY <1>3, <1>4, <1>5 DEF EditInv

\* The keys of the dialogs.
LEMMA EditDialogStep ==
    ASSUME EditInv, NEW key, DialogKey(key)
    PROVE  EditInv'
<1>0. NumSortKeys \in Nat \ {0} /\ Filters \in Nat \ {0} /\ dialog \in Nat
  BY CuiAssumption DEF EditInv, DialogTyped
<1>1. CASE set_sort_key(key)
  <2>1. DialogTyped'
    BY <1>0, <1>1 DEF set_sort_key, EditInv, SettingsTyped, DialogTyped, Modes
  <2> QED BY <1>1, <2>1, EditElsewhere DEF set_sort_key
<1>2. CASE view_filters(key)
  <2>1. DialogTyped'
    BY <1>0, <1>2 DEF view_filters, DialogTyped, Modes
  <2> QED BY <1>2, <2>1, EditElsewhere DEF view_filters
<1>3. CASE DialogMove(key)
  <2>1. DialogTyped'
    BY <1>0, <1>3 DEF DialogMove, EditInv, DialogTyped, Modes
  <2> QED BY <1>3, <2>1, EditElsewhere DEF DialogMove
<1>4. CASE DialogLeave(key)
  <2>1. DialogTyped'
    BY <1>0, <1>4 DEF DialogLeave, DialogTyped, Modes
  <2> QED BY <1>4, <2>1, EditElsewhere DEF DialogLeave
<1>5. CASE SortKeyIs(key)
  <2>1. dialog \in 0 .. NumSortKeys - 1
    BY <1>5 DEF SortKeyIs, EditInv, DialogTyped
  <2>2. /\ model_settings' \in [sort_key : 0 .. NumSortKeys - 1, threshold : 0 .. ThresholdMax,
                        filters : [0 .. Filters - 1 -> Seq(AllChars)]]
        /\ model_settings'.filters = model_settings.filters
    BY <1>5, <2>1 DEF SortKeyIs, EditInv, SettingsTyped
  <2>3. SettingsTyped'
    BY <2>2 DEF EditInv, SettingsTyped, FilterText
  <2>4. DialogTyped' /\ EditTyped' /\ EditBegan'
    BY <1>0, <1>5 DEF SortKeyIs, EditInv, DialogTyped, Modes, EditTyped, EditBegan
  <2> QED BY <2>3, <2>4 DEF EditInv
<1>6. CASE set_threshold(key)
  <2>1. model_settings.threshold \in 0 .. ThresholdMax
    BY DEF EditInv, SettingsTyped
  <2> DEFINE text == ToStr(model_settings.threshold)
  <2>2. text \in Seq(DigitChars) /\ text \in Seq(AllChars) /\ Len(text) <= ThresholdWidth - 2
    BY <2>1, ToStrFits, SeqMonotonic DEF AllChars
  <2>3. /\ edit' = [value |-> text, position |-> Len(text), initial |-> text]
        /\ mode' = "threshold" /\ UNCHANGED <<model_settings, dialog>>
    BY <1>6 DEF set_threshold, EditOf
  <2>4. EditBegan'
    BY <2>3 DEF EditBegan
  <2> HIDE DEF text
  <2>5. EditTyped'
    BY <2>2, <2>3 DEF EditTyped
  <2>6. SettingsTyped' /\ DialogTyped'
    BY <2>3 DEF EditInv, SettingsTyped, FilterText, DialogTyped, Modes
  <2> QED BY <2>4, <2>5, <2>6 DEF EditInv
<1>7. CASE FilterEdit(key)
  <2>1. mode = "filters" /\ dialog \in 0 .. Filters - 1
    BY <1>7 DEF FilterEdit, EditInv, DialogTyped
  <2> DEFINE text == model_settings.filters[dialog]
  <2>2. FilterText(text)
    BY <2>1 DEF EditInv, SettingsTyped
  <2>3. /\ edit' = [value |-> text, position |-> Len(text), initial |-> text]
        /\ mode' = "filter" /\ UNCHANGED <<model_settings, dialog>>
    BY <1>7 DEF FilterEdit, EditOf
  <2>4. EditBegan'
    BY <2>2, <2>3 DEF EditBegan, FilterText
  <2> HIDE DEF text
  <2>5. EditTyped'
    BY <2>2, <2>3 DEF EditTyped, FilterText
  <2>6. SettingsTyped' /\ DialogTyped'
    BY <2>1, <2>3 DEF EditInv, SettingsTyped, FilterText, DialogTyped, Modes
  <2> QED BY <2>4, <2>5, <2>6 DEF EditInv
<1>8. CASE FilterClear(key)
  <2>1. mode = "filters" /\ dialog \in 0 .. Filters - 1
    BY <1>8 DEF FilterClear, EditInv, DialogTyped
  <2>2. FilterText(<<>>)
    BY CuiAssumption DEF FilterText
  <2>3. model_settings' = [model_settings EXCEPT !.filters = [model_settings.filters EXCEPT ![dialog] = <<>>]]
    BY <1>8 DEF FilterClear
  <2>4. SettingsTyped'
    BY <2>1, <2>2, <2>3 DEF EditInv, SettingsTyped, FilterText
  <2>5. DialogTyped' /\ EditTyped' /\ EditBegan'
    BY <1>8, <2>1 DEF FilterClear, EditInv, DialogTyped, EditTyped, EditBegan
  <2> QED BY <2>4, <2>5 DEF EditInv
<1> QED BY <1>1, <1>2, <1>3, <1>4, <1>5, <1>6, <1>7, <1>8 DEF DialogKey

\* A value without one of its characters.
LEMMA WithoutOne ==
    ASSUME NEW C, edit.value \in Seq(C), NEW position \in Nat, position < Len(edit.value)
    PROVE  Without(position) \in Seq(C) /\ Len(Without(position)) = Len(edit.value) - 1
<1> DEFINE n == Len(edit.value)
           head == SubSeq(edit.value, 1, position)
           tail == SubSeq(edit.value, position + 2, n)
<1>1. head \in Seq(C) /\ Len(head) = position
  OBVIOUS
<1>2. tail \in Seq(C) /\ Len(tail) = n - position - 1
  OBVIOUS
<1>3. head \o tail \in Seq(C) /\ Len(head \o tail) = Len(head) + Len(tail)
  <2> HIDE DEF head, tail
  <2> QED BY <1>1, <1>2
<1>4. Len(head) + Len(tail) = n - 1
  <2> HIDE DEF head, tail
  <2> QED BY <1>1, <1>2
<1> QED BY <1>3, <1>4 DEF Without

\* A value with one character more.
LEMMA WithOne ==
    ASSUME NEW C, edit.value \in Seq(C), NEW position \in 0 .. Len(edit.value), NEW key \in C
    PROVE  LET text == SubSeq(edit.value, 1, position) \o <<key>>
                         \o SubSeq(edit.value, position + 1, Len(edit.value))
           IN  text \in Seq(C) /\ Len(text) = Len(edit.value) + 1
<1> DEFINE n == Len(edit.value)
           head == SubSeq(edit.value, 1, position)
           tail == SubSeq(edit.value, position + 1, n)
<1>1. head \in Seq(C) /\ Len(head) = position
  OBVIOUS
<1>2. tail \in Seq(C) /\ Len(tail) = n - position
  OBVIOUS
<1>3. head \o <<key>> \in Seq(C) /\ Len(head \o <<key>>) = position + 1
  <2> HIDE DEF head, tail
  <2> QED BY <1>1
<1>4. (head \o <<key>>) \o tail \in Seq(C) /\ Len((head \o <<key>>) \o tail) = (position + 1) + Len(tail)
  <2> DEFINE left == head \o <<key>>
  <2> HIDE DEF head, tail, left
  <2>1. left \in Seq(C) /\ Len(left) = position + 1
    BY <1>3 DEF left
  <2>2. tail \in Seq(C)
    BY <1>2
  <2>3. left \o tail \in Seq(C) /\ Len(left \o tail) = Len(left) + Len(tail)
    BY <2>1, <2>2
  <2> QED BY <2>1, <2>3 DEF left
<1>5. (position + 1) + Len(tail) = n + 1
  <2>1. n \in Nat /\ position \in Nat
    OBVIOUS
  <2> HIDE DEF tail, n
  <2> QED BY <1>2, <2>1
<1> QED BY <1>4, <1>5

\* The keys that move the cursor, delete and insert.
LEMMA EditFieldStep ==
    ASSUME EditInv, NEW key,
           EditMove(key) \/ EditDelete(key) \/ EditInsert(key)
    PROVE  EditInv'
<1> DEFINE value == edit.value
           position == edit.position
           n == Len(value)
<1>1. value \in Seq(AllChars) /\ n \in Nat /\ position \in Nat /\ position <= n
  BY DEF EditInv, EditTyped
<1>2. mode = "threshold" => value \in Seq(DigitChars) /\ n <= ThresholdWidth - 2
  BY DEF EditInv, EditTyped
<1>3. mode = "filter" => n <= FilterWidth - 2
  BY DEF EditInv, EditTyped
<1>4. {ThresholdWidth, FilterWidth} \subseteq Nat
  BY CuiAssumption
<1>5. ASSUME NEW pos \in 0 .. n, Edited(edit.value, pos) PROVE EditInv'
  BY <1>1, <1>2, <1>3, <1>5, EditWithin
<1>6. CASE EditMove(key)
  <2>1. CASE Edited(edit.value, 0)
    BY <1>1, <1>5, <2>1
  <2>2. CASE Edited(edit.value, Len(edit.value))
    BY <1>1, <1>5, <2>2
  <2>3. CASE edit.position > 0 /\ Edited(edit.value, edit.position - 1)
    BY <1>1, <1>5, <2>3
  <2>4. CASE edit.position < Len(edit.value) /\ Edited(edit.value, edit.position + 1)
    BY <1>1, <1>5, <2>4
  <2> QED BY <1>6, <2>1, <2>2, <2>3, <2>4 DEF EditMove
<1>7. ASSUME NEW at \in Nat, at < n, NEW pos \in 0 .. at, Edited(Without(at), pos) PROVE EditInv'
  <2>1. Without(at) \in Seq(AllChars) /\ Len(Without(at)) = n - 1
    BY <1>1, <1>7, WithoutOne
  <2>2. mode = "threshold" => Without(at) \in Seq(DigitChars) /\ Len(Without(at)) <= ThresholdWidth - 2
    BY <1>1, <1>2, <1>4, <1>7, <2>1, WithoutOne
  <2>3. mode = "filter" => Len(Without(at)) <= FilterWidth - 2
    BY <1>1, <1>3, <1>4, <2>1
  <2>4. pos \in 0 .. Len(Without(at))
    BY <1>1, <1>7, <2>1
  <2> QED BY <1>7, <2>1, <2>2, <2>3, <2>4, EditWithin
<1>8. CASE EditDelete(key)
  <2>1. CASE edit.position > 0 /\ Edited(Without(edit.position - 1), edit.position - 1)
    BY <1>1, <1>7, <2>1
  <2>2. CASE edit.position < Len(edit.value) /\ Edited(Without(edit.position), edit.position)
    BY <1>1, <1>7, <2>2
  <2>3. CASE Edited(<<>>, 0)
    <3>1. <<>> \in Seq(AllChars) /\ <<>> \in Seq(DigitChars) /\ Len(<<>>) = 0
      OBVIOUS
    <3>2. mode = "threshold" => 0 <= ThresholdWidth - 2
      BY <1>1, <1>2, <1>4
    <3>3. mode = "filter" => 0 <= FilterWidth - 2
      BY <1>1, <1>3, <1>4
    <3> DEFINE none == <<>>
    <3>4. none \in Seq(AllChars) /\ 0 \in 0 .. Len(none) /\ Edited(none, 0)
      BY <2>3, <3>1
    <3>5. mode = "threshold" => none \in Seq(DigitChars) /\ Len(none) <= ThresholdWidth - 2
      BY <3>1, <3>2
    <3>6. mode = "filter" => Len(none) <= FilterWidth - 2
      BY <3>1, <3>3
    <3> HIDE DEF none
    <3> QED BY <3>4, <3>5, <3>6, EditWithin
  <2> QED BY <1>8, <2>1, <2>2, <2>3 DEF EditDelete
<1>9. CASE EditInsert(key)
  <2> DEFINE text == SubSeq(edit.value, 1, edit.position) \o <<key>>
                       \o SubSeq(edit.value, edit.position + 1, Len(edit.value))
  <2>1. key \in Chars /\ n < Width - 2 /\ Edited(text, position + 1)
    BY <1>9 DEF EditInsert
  <2>2. key \in AllChars /\ (mode = "threshold" => key \in DigitChars)
    BY <2>1 DEF Chars, AllChars
  <2>3. text \in Seq(AllChars) /\ Len(text) = n + 1
    BY <1>1, <2>2, WithOne
  <2>4. mode = "threshold" => text \in Seq(DigitChars)
    BY <1>1, <1>2, <2>2, WithOne
  <2> HIDE DEF text
  <2>5. mode = "threshold" => Len(text) <= ThresholdWidth - 2
    BY <1>1, <1>4, <2>1, <2>3 DEF Width
  <2>6. mode = "filter" => Len(text) <= FilterWidth - 2
    BY <1>1, <1>4, <2>1, <2>3 DEF Width
  <2>7. position + 1 \in 0 .. Len(text)
    BY <1>1, <2>3
  <2> QED BY <2>1, <2>3, <2>4, <2>5, <2>6, <2>7, EditWithin
<1> QED BY <1>6, <1>8, <1>9

\* No text fits in every edit field.
LEMMA NoEditTyped ==
    ASSUME EditInv, edit' = NoEdit, mode' \notin {"threshold", "filter"}
    PROVE  EditTyped' /\ EditBegan'
<1>1. edit' = [value |-> <<>>, position |-> 0, initial |-> <<>>]
  BY DEF NoEdit, EditOf
<1> QED BY <1>1 DEF EditTyped, EditBegan

\* What is typed for the threshold is cut to ThresholdMax.
LEMMA ThresholdStep ==
    ASSUME EditInv, NEW text \in Seq(DigitChars), ThresholdIs(text)
    PROVE  EditInv'
<1> DEFINE t == Capped(ToInt(text))
<1>1. t \in 0 .. ThresholdMax
  BY CuiAssumption, ToIntNat DEF Capped
<1> HIDE DEF t
<1>2. /\ model_settings' = [model_settings EXCEPT !.threshold = t] /\ UNCHANGED dialog
      /\ mode' = "draw" /\ edit' = NoEdit
  BY DEF ThresholdIs, t
<1>3. /\ model_settings' \in [sort_key : 0 .. NumSortKeys - 1, threshold : 0 .. ThresholdMax,
                      filters : [0 .. Filters - 1 -> Seq(AllChars)]]
      /\ model_settings'.filters = model_settings.filters
  BY <1>1, <1>2 DEF EditInv, SettingsTyped
<1>4. SettingsTyped'
  BY <1>3 DEF EditInv, SettingsTyped, FilterText
<1>5. DialogTyped'
  BY <1>2 DEF EditInv, DialogTyped, Modes
<1>6. EditTyped' /\ EditBegan'
  BY <1>2, NoEditTyped
<1> QED BY <1>4, <1>5, <1>6 DEF EditInv

\* A filter is set to what matches, or what was typed is tried again.
LEMMA FilterStep ==
    ASSUME EditInv, NEW text, FilterText(text), FilterIs(text)
    PROVE  EditInv'
<1>1. mode = "filter" /\ dialog \in 0 .. Filters - 1 /\ UNCHANGED dialog
  BY DEF FilterIs, EditInv, DialogTyped
<1>2. CASE text = <<>> \/ Matches(dialog, text)
  <2>1. /\ model_settings' = [model_settings EXCEPT !.filters = [model_settings.filters EXCEPT ![dialog] = text]]
        /\ mode' = "filters" /\ edit' = NoEdit
    BY <1>2 DEF FilterIs
  <2>2. SettingsTyped'
    BY <1>1, <1>2, <2>1 DEF EditInv, SettingsTyped, FilterText
  <2>3. DialogTyped'
    BY <1>1, <2>1 DEF EditInv, DialogTyped, Modes
  <2>4. EditTyped' /\ EditBegan'
    BY <2>1, NoEditTyped
  <2> QED BY <2>2, <2>3, <2>4 DEF EditInv
<1>3. CASE ~(text = <<>> \/ Matches(dialog, text))
  <2>1. /\ UNCHANGED <<mode, model_settings, dialog>>
        /\ edit' = [value |-> text, position |-> Len(text), initial |-> text]
    BY <1>1, <1>3 DEF FilterIs, EditOf
  <2>2. SettingsTyped' /\ DialogTyped'
    BY <2>1 DEF EditInv, SettingsTyped, DialogTyped, FilterText
  <2>3. EditTyped'
    BY <1>1, <2>1 DEF EditTyped, FilterText
  <2>4. EditBegan'
    BY <1>1, <1>3, <2>1 DEF EditBegan, FilterText
  <2> QED BY <2>2, <2>3, <2>4 DEF EditInv
<1> QED BY <1>2, <1>3

\* The keys that leave the edit field.
LEMMA EditEndStep ==
    ASSUME EditInv, NEW key,
           EditTypeError(key) \/ EditConfirm(key) \/ EditRevert(key)
    PROVE  EditInv'
<1>1. CASE EditTypeError(key)
  <2>1. DialogTyped'
    BY <1>1 DEF EditTypeError, EditInv, DialogTyped, Modes
  <2> QED BY <1>1, <2>1, EditElsewhere DEF EditTypeError
<1>2. ASSUME mode = "threshold"
      PROVE  edit.value \in Seq(DigitChars) /\ edit.initial \in Seq(DigitChars)
  <2>1. edit.value \in Seq(DigitChars) /\ edit.initial = ToStr(model_settings.threshold)
    BY <1>2 DEF EditInv, EditTyped, EditBegan
  <2>2. model_settings.threshold \in 0 .. ThresholdMax
    BY DEF EditInv, SettingsTyped
  <2> QED BY <2>1, <2>2, ToStrFits
<1>3. ASSUME mode = "filter" PROVE FilterText(edit.value) /\ FilterText(edit.initial)
  BY <1>3 DEF EditInv, EditTyped, EditBegan, FilterText
<1>4. CASE ThresholdIs(edit.value) \/ ThresholdIs(edit.initial)
  <2>1. mode = "threshold"
    BY <1>4 DEF ThresholdIs
  <2> QED BY <1>2, <1>4, <2>1, ThresholdStep
<1>5. CASE FilterIs(edit.value) \/ FilterIs(edit.initial)
  <2>1. mode = "filter"
    BY <1>5 DEF FilterIs
  <2> QED BY <1>3, <1>5, <2>1, FilterStep
<1> QED BY <1>1, <1>4, <1>5 DEF EditConfirm, EditRevert

\* No step disturbs the settings and the edit field.
LEMMA EditStep == EditInv /\ [CuiNext]_cuiVars => EditInv'
<1> SUFFICES ASSUME EditInv, [CuiNext]_cuiVars PROVE EditInv'
  OBVIOUS
<1>1. CASE write_view
  BY <1>1, EditListStep
<1>2. ASSUME NEW key, ListKey(key) PROVE EditInv'
  BY <1>2, EditListStep
<1>3. ASSUME NEW key, DialogKey(key) PROVE EditInv'
  BY <1>3, EditDialogStep
<1>4. ASSUME NEW key, EditKey(key) PROVE EditInv'
  BY <1>4, EditFieldStep, EditEndStep DEF EditKey
<1>5. CASE UNCHANGED cuiVars
  BY <1>5 DEF cuiVars, EditInv, SettingsTyped, DialogTyped, EditTyped, EditBegan, FilterText
<1> QED BY <1>1, <1>2, <1>3, <1>4, <1>5 DEF CuiNext

\* The interface keeps its types: the cursor stays in the value, the value
\* leaves the edit field two columns, the threshold stays in its range and
\* every selection in its list or dialog.
THEOREM CuiTypes == CuiSpec => []CuiTypeOK
<1>1. CuiInit => EditInv /\ ListInv
  BY EditInit, ListInit
<1>2. EditInv /\ ListInv /\ [CuiNext]_cuiVars => EditInv' /\ ListInv'
  BY EditStep, ListStep
<1>3. EditInv /\ ListInv => CuiTypeOK
  BY DEF EditInv, SettingsTyped, DialogTyped, EditTyped, ListInv, ListTyped, CuiTypeOK, Editing, Width
<1> QED BY <1>1, <1>2, <1>3, PTL DEF CuiSpec

\* What an edit field began with is the setting already, or is refused again.
LEMMA RevertKeeps ==
    ASSUME EditInv, NEW key, EditRevert(key)
    PROVE  model_settings' = model_settings
<1>0. model_settings \in [sort_key : 0 .. NumSortKeys - 1, threshold : 0 .. ThresholdMax,
                  filters : [0 .. Filters - 1 -> Seq(AllChars)]]
  BY DEF EditInv, SettingsTyped
<1>1. CASE ThresholdIs(edit.initial)
  <2>1. edit.initial = ToStr(model_settings.threshold)
    BY <1>1 DEF ThresholdIs, EditInv, EditBegan
  <2>2. ToInt(edit.initial) = model_settings.threshold
    BY <1>0, <2>1, ToStrFits
  <2>3. Capped(ToInt(edit.initial)) = model_settings.threshold
    BY CuiAssumption, <1>0, <2>2 DEF Capped
  <2>4. model_settings' = [model_settings EXCEPT !.threshold = model_settings.threshold]
    BY <1>1, <2>3 DEF ThresholdIs
  <2> QED BY <1>0, <2>4
<1>2. CASE FilterIs(edit.initial)
  <2>1. mode = "filter" /\ dialog \in 0 .. Filters - 1
    BY <1>2 DEF FilterIs, EditInv, DialogTyped
  <2>2. CASE edit.initial = <<>> \/ Matches(dialog, edit.initial)
    <3>1. edit.initial = model_settings.filters[dialog]
      BY <2>1, <2>2 DEF EditInv, EditBegan
    <3>2. model_settings' = [model_settings EXCEPT !.filters = [model_settings.filters EXCEPT ![dialog] = model_settings.filters[dialog]]]
      BY <1>2, <2>2, <3>1 DEF FilterIs
    <3>3. [model_settings.filters EXCEPT ![dialog] = model_settings.filters[dialog]] = model_settings.filters
      BY <1>0, <2>1
    <3> QED BY <1>0, <3>2, <3>3
  <2>3. CASE ~(edit.initial = <<>> \/ Matches(dialog, edit.initial))
    BY <1>2, <2>3 DEF FilterIs
  <2> QED BY <2>2, <2>3
<1> QED BY <1>1, <1>2 DEF EditRevert

\* Leaving an edit field by q or escape changes no setting, whatever was typed
\* and refused before (EditField.get_value).
THEOREM CuiEscape == CuiSpec => EscapeKeeps
<1>1. CuiInit => EditInv
  BY EditInit
<1>2. EditInv /\ [CuiNext]_cuiVars => EditInv'
  BY EditStep
<1>3. EditInv /\ [CuiNext]_cuiVars
        => [(\E key \in LeaveKeys : EditRevert(key)) => model_settings' = model_settings]_cuiVars
  BY RevertKeeps
<1> QED BY <1>1, <1>2, <1>3, PTL DEF CuiSpec, EscapeKeeps
=============================================================================

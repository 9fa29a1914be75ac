-------------------------- MODULE LifecycleProofs --------------------------
(***************************************************************************)
(* Proofs about Lifecycle, for any number of tables and packets, with      *)
(* SIGINT and SIGALRM at any point.                                        *)
(***************************************************************************)
EXTENDS Lifecycle, FiniteSetTheorems, SequenceTheorems, TLAPS

USE LifecycleAssumption

-----------------------------------------------------------------------------
(* The inductive invariant.                                                *)

InHook == {"dump", "dumping", "clean", "acquire", "record"}
Running == {"alarm", "privileges", "loop"} \cup InHook
Starting == {"init", "options", "source", "signal"}

\* How far main and cleanup are, and what is set up by then.
Progress ==
    /\ pc \in Starting => stage \in {"idle", "done"} /\ ~armed /\ ~registered /\ ~alarmed
    /\ pc = "init" => failed = {} /\ stage = "idle"
    /\ pc \in {"init", "options"} => misused = {}
    /\ pc = "atexit" => armed
    /\ pc \in Running => armed /\ registered
    /\ registered => armed
    /\ alarmed => armed /\ verbose
    /\ stage \notin {"idle", "done"} => armed /\ called
    /\ pc = "gone" => stage \in {"idle", "done"}

\* The resources are there, if they could be set up, until cleanup releases them.
Resources ==
    /\ (armed \/ pc = "signal") /\ stage \in {"idle", "close"} => pd = "open"
    /\ pc \in {"init", "gone"} \/ "dtrie" \in failed \/ stage \notin {"idle", "close", "trie"}
       \/ dtrie = "live"
    /\ pc \in {"init", "gone"} \/ "tables" \in failed \/ stage \notin {"idle", "close", "trie", "tables"}
       \/ tables = "live"

\* Only the current table has packets, and the packet in the hook is new.
Windows ==
    /\ \A t \in Tables :
         /\ flowtab[t].dirty => t = flowtab_idx
         /\ ~flowtab[t].dirty => flowtab[t].pkts = {}
         /\ flowtab[t].pkts \subseteq recorded
    /\ (pc \in {"dump", "dumping", "clean", "record"} /\ stage \notin {"exit", "done"})
         => flowtab[flowtab_idx].dirty
    /\ recorded \subseteq 1 .. npkts
    /\ pc \in InHook => npkts >= 1 /\ npkts \notin recorded

InTable == flowtab[flowtab_idx].pkts

\* Until cleanup writes its own, the files share no packets, and only the
\* file being written, or just written, shares any with the current table.
Apart ==
    /\ \A i, j \in DOMAIN files : i # j => files[i].pkts \cap files[j].pkts = {}
    /\ \A i \in DOMAIN files : files[i].pkts \cap InTable # {} => opened /\ i = Len(files)

\* The dump at work: its window is in the last file, or had none.
AtWork ==
    /\ pc = "dumping" => opened
    /\ opened => /\ pc \in {"dumping", "clean"}
                 /\ Len(files) # 0 /\ files[Len(files)].pkts = window
                 /\ pc = "dumping" => InTable = window
                 /\ files[Len(files)].complete <=> pc = "clean"
    /\ pc = "clean" => InTable \subseteq window
    /\ pc = "clean" /\ ~opened => window \subseteq unopened

\* The window that may be lost when cleanup writes over its log.
AtRisk == IF called /\ pc = "clean" THEN window ELSE {}

Files ==
    /\ \A i \in DOMAIN files : files[i].pkts \subseteq recorded
    /\ recorded \subseteq InLogs \cup unopened \cup InTable \cup AtRisk
    /\ stage \notin {"exit", "done"} =>
         /\ Apart
         /\ AtWork
         /\ recorded \subseteq InLogs \cup unopened \cup InTable

\* What is counted when the process ends.
Ending ==
    /\ ~registered => recorded = {}
    /\ stage = "exit" => \A t \in Tables : ~flowtab[t].dirty
    /\ Gone => \/ misused # {}
               \/ recorded = {}
               \/ \A t \in Tables : ~flowtab[t].dirty

\* Before cleanup no packet is in two logs at all: see Apart.
Stopped == stage \in {"exit", "done"} => TwiceWhenStopped

Control == Progress /\ Resources /\ UsesLive
Data == Windows /\ Files /\ Ending /\ Stopped

Inv == TypeOK /\ Control /\ Data

-----------------------------------------------------------------------------
(* Control and resources.                                                  *)

\* main before the capture loop keeps Control.
LEMMA ControlSetup == ASSUME TypeOK, Control, Setup PROVE Control'
<1> USE DEF TypeOK, Control, Progress, Resources, UsesLive, Main, Gone, setup, signals, monitor, logs,
            Running, Starting, InHook, Uses, NotLive
<1>1. CASE InitComponents
  <2>1. /\ pc = "init" /\ stage = "idle" /\ pc' \in {"options", "gone"}
        /\ UNCHANGED <<armed, registered, verbose, alarmed, stage, called, inHandler, flowtab, pd, misused>>
    BY <1>1 DEF InitComponents
  <2>2. tables' # "live" => pc' = "gone" \/ "tables" \in failed'
    BY <1>1 DEF InitComponents
  <2>3. dtrie' # "live" => "dtrie" \in failed'
    BY <1>1 DEF InitComponents
  <2>4. Progress'
    BY <2>1
  <2>5. Resources'
    BY <2>1, <2>2, <2>3
  <2>6. UsesLive'
    BY <2>1
  <2> QED BY <2>4, <2>5, <2>6
<1>2. CASE ReadOptions BY <1>2 DEF ReadOptions
<1>3. CASE OpenSource BY <1>3 DEF OpenSource
<1>4. CASE InstallHandler BY <1>4 DEF InstallHandler
<1>5. CASE RegisterCleanup BY <1>5 DEF RegisterCleanup
<1>6. CASE StartAlarm BY <1>6 DEF StartAlarm
<1>7. CASE DropPrivileges BY <1>7 DEF DropPrivileges
<1> QED BY <1>1, <1>2, <1>3, <1>4, <1>5, <1>6, <1>7 DEF Setup

\* The capture loop and the flow monitor keep Control.
LEMMA ControlCapture == ASSUME TypeOK, Control, Capture PROVE Control'
<1> USE DEF TypeOK, Control, Progress, Resources, UsesLive, Main, Gone, setup, signals, monitor, logs,
            Running, Starting, InHook, Uses, NotLive
<1>1. CASE NextPacket BY <1>1 DEF NextPacket
<1>2. CASE LoopEnds BY <1>2 DEF LoopEnds
<1>3. CASE DumpBegins BY <1>3 DEF DumpBegins
<1>4. CASE DumpEnds BY <1>4 DEF DumpEnds
<1>5. CASE WipeEntries BY <1>5 DEF WipeEntries
<1>6. CASE MarkClean BY <1>6 DEF MarkClean
<1>7. CASE MarkDirty BY <1>7 DEF MarkDirty
<1>8. CASE RecordPacket BY <1>8 DEF RecordPacket
<1> QED BY <1>1, <1>2, <1>3, <1>4, <1>5, <1>6, <1>7, <1>8 DEF Capture

\* exit and cleanup keep Control.
LEMMA ControlCleanup == ASSUME TypeOK, Control, Exit \/ Cleanup PROVE Control'
<1> USE DEF TypeOK, Control, Progress, Resources, UsesLive, Gone, setup, signals, monitor, logs,
            Running, Starting, InHook, Uses, NotLive
<1>1. CASE Exit BY <1>1 DEF Exit, EnterCleanup
<1>2. CASE PcapClose BY <1>2 DEF PcapClose
<1>3. CASE DtrieDeinit BY <1>3 DEF DtrieDeinit
<1>4. CASE FlowmonCleanup BY <1>4 DEF FlowmonCleanup
<1>5. CASE CleanupExits BY <1>5 DEF CleanupExits
<1> QED BY <1>1, <1>2, <1>3, <1>4, <1>5 DEF Cleanup

\* The signals and their handlers keep Control.
LEMMA ControlSignals ==
    ASSUME TypeOK, Control, DefaultInterrupt \/ sigproc \/ stats_report \/ Crash
    PROVE  Control'
<1> USE DEF TypeOK, Control, Progress, Resources, UsesLive, Gone, setup, signals, monitor, logs,
            Running, Starting, InHook, Uses, NotLive
<1>1. CASE DefaultInterrupt BY <1>1 DEF DefaultInterrupt
<1>2. CASE sigproc BY <1>2 DEF sigproc, EnterCleanup
<1>3. CASE stats_report BY <1>3 DEF stats_report
<1>4. CASE Crash BY <1>4 DEF Crash
<1> QED BY <1>1, <1>2, <1>3, <1>4

-----------------------------------------------------------------------------
(* Tables and files.                                                       *)

LogFile == [pkts : SUBSET Packets, complete : BOOLEAN]

\* The flow monitor before a step.
LEMMA Facts ==
    ASSUME Inv
    PROVE  /\ flowtab_idx \in Tables
           /\ flowtab \in [Tables -> [dirty : BOOLEAN, pkts : SUBSET Packets]]
           /\ files \in Seq(LogFile)
           /\ Len(files) \in Nat /\ DOMAIN files = 1 .. Len(files)
           /\ \A i \in DOMAIN files : files[i] \in LogFile
           /\ InTable \in SUBSET Packets
<1>1. /\ flowtab_idx \in Tables
      /\ flowtab \in [Tables -> [dirty : BOOLEAN, pkts : SUBSET Packets]]
      /\ files \in Seq(LogFile)
  BY DEF Inv, TypeOK, LogFile
<1>2. Len(files) \in Nat /\ DOMAIN files = 1 .. Len(files)
      /\ \A i \in DOMAIN files : files[i] \in LogFile
  BY <1>1
<1>3. InTable \in SUBSET Packets
  BY <1>1 DEF InTable
<1> QED BY <1>1, <1>2, <1>3

\* The logs of no table, and of one.
LEMMA LogsOfFew ==
    /\ LogsOf({}) = << >>
    /\ \A t \in Tables : LogsOf({t}) = <<[pkts |-> flowtab[t].pkts, complete |-> TRUE]>>
<1>1. LogsOf({}) = << >>
  <2>1. Cardinality({}) = 0
    BY FS_EmptySet
  <2> QED BY <2>1 DEF LogsOf
<1>2. ASSUME NEW t \in Tables
      PROVE  LogsOf({t}) = <<[pkts |-> flowtab[t].pkts, complete |-> TRUE]>>
  <2> DEFINE nth(i) == CHOOSE v \in {t} : Cardinality({u \in {t} : u > v}) = i - 1
             f(i) == [pkts |-> flowtab[nth(i)].pkts, complete |-> TRUE]
  <2>1. Cardinality({t}) = 1
    BY FS_Singleton
  <2>2. {u \in {t} : u > t} = {}
    BY DEF Tables
  <2>3. Cardinality({u \in {t} : u > t}) = 1 - 1
    BY <2>2, FS_EmptySet
  <2>4. nth(1) = t
    BY <2>3
  <2>5. f(1) = [pkts |-> flowtab[t].pkts, complete |-> TRUE]
    <3> HIDE DEF nth
    <3> QED BY <2>4
  <2>6. LogsOf({t}) = [i \in 1 .. 1 |-> f(i)]
    BY <2>1 DEF LogsOf
  <2> HIDE DEF f
  <2>7. LogsOf({t}) = <<f(1)>>
    BY <2>6
  <2> QED BY <2>5, <2>7
<1> QED BY <1>1, <1>2

\* The log flowmon_cleanup writes of the current table.
LastLog == [pkts |-> InTable, complete |-> TRUE]

\* The files after flowmon_cleanup: the first n there were, the last one only
\* missing if its dump was interrupted, and the current table.
Written(n) ==
    /\ n \in Nat
    /\ n = Len(files) \/ (opened /\ n = Len(files) - 1)
    /\ \A i \in 1 .. n : files'[i] = files[i]
    /\ Len(files') = n + 1
    /\ files'[n + 1] = LastLog

\* flowmon_cleanup writes at most one log, that of the current table.
LEMMA CleanupFiles ==
    ASSUME Inv, FlowmonCleanup
    PROVE  /\ files' \in Seq(LogFile)
           /\ \/ /\ files' = files
                 /\ unopened' = unopened \cup InTable
              \/ /\ unopened' = unopened
                 /\ \E n \in Nat : Written(n)
<1>1. PICK T \in SUBSET DirtyTables :
        /\ \/ files' = files \o LogsOf(T)
           \/ /\ opened /\ flowtab_idx \in T
              /\ files' = SubSeq(files, 1, Len(files) - 1) \o LogsOf(T)
        /\ unopened' = unopened \cup UNION {flowtab[t].pkts : t \in DirtyTables \ T}
  BY DEF FlowmonCleanup
<1>2. DirtyTables \subseteq {flowtab_idx}
  BY DEF DirtyTables, Inv, Data, Windows
<1>3. LastLog \in LogFile /\ files \in Seq(LogFile) /\ Len(files) \in Nat
  BY Facts DEF LastLog, LogFile
<1>4. CASE T = {}
  <2>1. files' = files
    BY <1>1, <1>3, <1>4, LogsOfFew
  <2>2. UNION {flowtab[t].pkts : t \in DirtyTables} = InTable
    <3>1. CASE DirtyTables = {}
      <4>1. InTable = {}
        BY <3>1, Facts DEF DirtyTables, InTable, Inv, Data, Windows
      <4> QED BY <3>1, <4>1
    <3>2. CASE DirtyTables = {flowtab_idx}
      BY <3>2 DEF InTable
    <3> QED BY <1>2, <3>1, <3>2
  <2>3. unopened' = unopened \cup InTable
    BY <1>1, <1>4, <2>2
  <2> QED BY <1>3, <2>1, <2>3
<1>5. CASE T # {}
  <2>1. T = {flowtab_idx} /\ DirtyTables \ T = {}
    BY <1>2, <1>5
  <2>2. LogsOf(T) = <<LastLog>>
    BY <2>1, LogsOfFew, Facts DEF LastLog, InTable
  <2>3. unopened' = unopened
    BY <1>1, <2>1
  <2>4. ASSUME NEW s \in Seq(LogFile), files' = s \o <<LastLog>>
        PROVE  /\ files' \in Seq(LogFile)
               /\ Len(files') = Len(s) + 1
               /\ files'[Len(s) + 1] = LastLog
               /\ \A i \in 1 .. Len(s) : files'[i] = s[i]
    BY <1>3, <2>4
  <2>5. CASE files' = files \o LogsOf(T)
    <3>1. files' = files \o <<LastLog>>
      BY <2>2, <2>5
    <3>2. files' \in Seq(LogFile) /\ Written(Len(files))
      BY <1>3, <2>4, <3>1 DEF Written
    <3> QED BY <1>3, <2>3, <3>2
  <2>6. CASE opened /\ files' = SubSeq(files, 1, Len(files) - 1) \o LogsOf(T)
    <3> DEFINE s == SubSeq(files, 1, Len(files) - 1)
    <3>1. Len(files) # 0
      BY <2>6 DEF Inv, Data, Files, AtWork, FlowmonCleanup
    <3>2. /\ s \in Seq(LogFile)
          /\ Len(s) = Len(files) - 1
          /\ \A i \in 1 .. Len(s) : s[i] = files[i]
      <4>. PICK m \in Nat : m = Len(files)
        BY <1>3
      <4>1. 1 \in 1 .. Len(files) + 1 /\ Len(files) - 1 \in 0 .. Len(files)
        BY <3>1
      <4> HIDE DEF s
      <4>2. /\ s \in Seq(LogFile)
            /\ Len(s) = IF 1 <= m - 1 THEN m - 1 - 1 + 1 ELSE 0
            /\ \A i \in 1 .. m - 1 - 1 + 1 : s[i] = files[1 + i - 1]
        BY <1>3, <4>1, SubSeqProperties DEF s
      <4>3. Len(s) = m - 1 /\ m - 1 - 1 + 1 = m - 1
        BY <3>1, <4>2
      <4>4. \A i \in 1 .. Len(s) : 1 + i - 1 = i
        BY <4>3
      <4> QED BY <4>2, <4>3, <4>4
    <3> HIDE DEF s
    <3>3. files' = s \o <<LastLog>>
      BY <2>2, <2>6 DEF s
    <3>4. /\ files' \in Seq(LogFile)
          /\ Len(files') = Len(s) + 1
          /\ files'[Len(s) + 1] = LastLog
          /\ \A i \in 1 .. Len(s) : files'[i] = s[i]
      BY <2>4, <3>2, <3>3
    <3>5. Len(s) \in Nat
      BY <1>3, <3>1, <3>2
    <3>6. Written(Len(s))
      BY <2>6, <3>2, <3>4, <3>5 DEF Written
    <3> QED BY <2>3, <3>4, <3>5, <3>6
  <2> QED BY <1>1, <2>5, <2>6
<1> QED BY <1>4, <1>5

\* A step that leaves the flow monitor alone: main is not in the hook after
\* it unless it was, and ends the process only with nothing left to write.
Idle ==
    /\ UNCHANGED <<flowtab, flowtab_idx, npkts, files, opened, window, unopened, recorded>>
    /\ pc' = pc \/ {pc, pc'} \cap InHook = {}
    /\ stage \in {"exit", "done"} => stage' \in {"exit", "done"}
    /\ stage' = "exit" => stage = "exit"
    /\ called => called'
    /\ registered => registered'
    /\ misused \subseteq misused'
    /\ Gone' => Gone \/ misused' # {} \/ ~registered \/ stage = "exit"

\* Where files are apart no packet is in two of them.
LEMMA ApartOnce == ASSUME Inv, Apart PROVE TwiceWhenStopped
<1>1. \A i, j \in DOMAIN files : i < j => i # j
  BY Facts
<1> QED BY <1>1 DEF Apart, TwiceWhenStopped

\* Such a step keeps what is known of tables and files.
LEMMA IdleData == ASSUME Inv, Idle PROVE Data'
<1>1. Windows' /\ Files'
  <2>1. InTable' = InTable /\ InLogs' = InLogs
    BY DEF Idle, InTable, InLogs
  <2>2. Windows'
    BY DEF Idle, Inv, Data, Windows, InHook
  <2>3. (Apart => Apart') /\ (AtWork => AtWork')
    BY <2>1 DEF Idle, Apart, AtWork, InHook
  <2>4. AtRisk \subseteq AtRisk'
    BY DEF Idle, AtRisk, InHook
  <2>5. Files'
    BY <2>1, <2>3, <2>4 DEF Idle, Inv, Data, Files
  <2> QED BY <2>2, <2>5
<1>2. Ending'
  BY DEF Idle, Inv, Data, Ending
<1>3. Stopped'
  <2>1. TwiceWhenStopped => TwiceWhenStopped'
    BY DEF Idle, TwiceWhenStopped, InHook
  <2>2. stage \notin {"exit", "done"} => TwiceWhenStopped
    BY ApartOnce DEF Inv, Data, Files
  <2> QED BY <2>1, <2>2 DEF Inv, Data, Stopped
<1> QED BY <1>1, <1>2, <1>3 DEF Data

\* The steps that leave the flow monitor alone.
LEMMA IdleSteps ==
    ASSUME Inv, \/ Setup \/ LoopEnds \/ Exit \/ PcapClose \/ DtrieDeinit \/ CleanupExits
                \/ DefaultInterrupt \/ sigproc \/ stats_report \/ Crash \/ UNCHANGED vars
    PROVE  Idle
<1> USE DEF Inv, TypeOK, Control, Progress, Main, Gone, setup, signals, monitor, logs, Idle,
            Running, Starting, InHook, Uses
<1>1. CASE Setup
  BY <1>1 DEF Setup, InitComponents, ReadOptions, OpenSource, InstallHandler,
              RegisterCleanup, StartAlarm, DropPrivileges
<1>2. CASE LoopEnds
  BY <1>2 DEF LoopEnds
<1>3. CASE Exit
  BY <1>3 DEF Exit, EnterCleanup
<1>4. CASE PcapClose \/ DtrieDeinit \/ CleanupExits
  BY <1>4 DEF PcapClose, DtrieDeinit, CleanupExits
<1>5. CASE DefaultInterrupt \/ sigproc
  BY <1>5 DEF DefaultInterrupt, sigproc, EnterCleanup
<1>6. CASE stats_report \/ Crash
  BY <1>6 DEF stats_report, Crash
<1>7. CASE UNCHANGED vars
  BY <1>7 DEF vars
<1> QED BY <1>1, <1>2, <1>3, <1>4, <1>5, <1>6, <1>7

\* main only moves before cleanup, or SIGINT, gets in its way.
LEMMA MainMoves ==
    ASSUME Inv, NEW from, NEW to, Main(from, to), from # "gone"
    PROVE  stage = "idle" /\ pc = from /\ pc' = to
BY DEF Inv, Control, Progress, Main

\* What is to be shown of a step of main in the capture loop.
LEMMA MainData ==
    ASSUME Inv, stage' = "idle", pc' # "gone", registered' \/ recorded' = {},
           Windows', Apart', AtWork',
           \A i \in DOMAIN files' : files'[i].pkts \subseteq recorded',
           recorded' \subseteq InLogs' \cup unopened' \cup InTable'
    PROVE  Data'
<1>1. Stopped'
  BY DEF Stopped
<1>2. Files'
  BY DEF Files
<1>3. Ending'
  BY DEF Ending, Gone
<1> QED BY <1>1, <1>2, <1>3 DEF Data

\* Before such a step.
LEMMA BeforeMain ==
    ASSUME Inv, stage = "idle"
    PROVE  /\ Windows /\ Apart /\ AtWork
           /\ registered \/ recorded = {}
           /\ \A i \in DOMAIN files : files[i].pkts \subseteq recorded
           /\ recorded \subseteq InLogs \cup unopened \cup InTable
BY DEF Inv, Data, Files, Ending

\* pkt_hook takes the next packet.
LEMMA DataNextPacket == ASSUME Inv, NextPacket PROVE Data'
<1>1. /\ stage = "idle" /\ stage' = stage /\ pc = "loop"
      /\ pc' \in {"record", "dump", "acquire"}
      /\ pc' # "acquire" => flowtab[flowtab_idx].dirty
  BY MainMoves DEF NextPacket, signals
<1>2. /\ UNCHANGED <<flowtab, flowtab_idx, files, opened, window, unopened, recorded, registered>>
      /\ npkts' = npkts + 1 /\ npkts \in Nat
  BY DEF NextPacket, setup, logs, Inv, TypeOK
<1>3. recorded' \subseteq 1 .. npkts' /\ npkts' \notin recorded' /\ npkts' >= 1
  BY <1>2 DEF Inv, Data, Windows
<1>4. InTable' = InTable /\ InLogs' = InLogs
  BY <1>2 DEF InTable, InLogs
<1>5. Windows'
  BY <1>1, <1>2, <1>3, BeforeMain DEF Windows
<1>6. Apart' /\ AtWork'
  BY <1>1, <1>2, <1>4, BeforeMain DEF Apart, AtWork
<1> QED BY <1>1, <1>2, <1>4, <1>5, <1>6, BeforeMain, MainData

\* dump_table opens its file, or not: the window is in the last file, or lost.
LEMMA DataDumpBegins == ASSUME Inv, DumpBegins PROVE Data'
<1> DEFINE w == [pkts |-> InTable, complete |-> FALSE]
           n == Len(files)
<1>1. /\ stage = "idle" /\ stage' = stage /\ pc = "dump"
      /\ \/ pc' = "dumping" /\ opened' = TRUE /\ files' = Append(files, w) /\ unopened' = unopened
         \/ pc' = "clean" /\ opened' = FALSE /\ files' = files /\ unopened' = unopened \cup InTable
  BY MainMoves DEF DumpBegins, signals, InTable
<1>2. /\ UNCHANGED <<flowtab, flowtab_idx, npkts, recorded, registered>>
      /\ window' = InTable
  BY DEF DumpBegins, setup, InTable
<1>3. n \in Nat /\ DOMAIN files = 1 .. n /\ files \in Seq(LogFile) /\ w \in LogFile
  BY Facts DEF LogFile
<1>4. InTable' = InTable /\ w.pkts = InTable /\ w.complete = FALSE
  BY <1>2 DEF InTable, w
<1>5. Windows'
  BY <1>1, <1>2, BeforeMain DEF Windows, InHook
<1>6. InTable \subseteq recorded
  BY <1>1, BeforeMain, Facts DEF Windows, InTable
<1>7. ~opened /\ \A i \in 1 .. n : files[i].pkts \cap InTable = {}
  BY <1>1, <1>3, BeforeMain DEF Apart, AtWork
<1> HIDE DEF w, n
<1>8. CASE pc' = "dumping" /\ opened' = TRUE /\ files' = Append(files, w) /\ unopened' = unopened
  <2>1. /\ Len(files') = n + 1 /\ DOMAIN files' = 1 .. n + 1
        /\ \A i \in 1 .. n : files'[i] = files[i]
        /\ files'[n + 1] = w
    BY <1>3, <1>8 DEF n
  <2>2. InLogs \subseteq InLogs'
    BY <1>3, <2>1 DEF InLogs
  <2>3. pc' = "dumping" /\ opened' = TRUE /\ unopened' = unopened
    BY <1>8
  <2>4. \A i \in DOMAIN files' : files'[i].pkts \subseteq recorded'
    BY <1>1, <1>2, <1>3, <1>4, <1>6, <2>1, BeforeMain
  <2>5. Apart'
    BY <1>1, <1>3, <1>4, <1>7, <2>1, <2>3, BeforeMain DEF Apart
  <2>6. AtWork'
    BY <1>2, <1>3, <1>4, <2>1, <2>3 DEF AtWork
  <2> QED BY <1>1, <1>2, <1>4, <1>5, <2>2, <2>3, <2>4, <2>5, <2>6, BeforeMain, MainData
<1>9. CASE pc' = "clean" /\ opened' = FALSE /\ files' = files /\ unopened' = unopened \cup InTable
  <2>1. InLogs' = InLogs
    BY <1>9 DEF InLogs
  <2>2. Apart' /\ AtWork'
    BY <1>1, <1>2, <1>3, <1>4, <1>7, <1>9, BeforeMain DEF Apart, AtWork
  <2> QED BY <1>1, <1>2, <1>4, <1>5, <1>9, <2>1, <2>2, BeforeMain, MainData
<1> QED BY <1>1, <1>8, <1>9

\* dump_table ends: the last file is complete.
LEMMA DataDumpEnds == ASSUME Inv, DumpEnds PROVE Data'
<1> DEFINE n == Len(files)
<1>1. stage = "idle" /\ stage' = stage /\ pc = "dumping" /\ pc' = "clean"
  BY MainMoves DEF DumpEnds, signals
<1>2. /\ UNCHANGED <<flowtab, flowtab_idx, npkts, recorded, opened, window, unopened, registered>>
      /\ files' = [files EXCEPT ![n].complete = TRUE]
  BY DEF DumpEnds, setup
<1>3. /\ n \in Nat /\ n # 0 /\ DOMAIN files = 1 .. n
      /\ \A i \in 1 .. n : files[i] \in LogFile
      /\ files \in Seq(LogFile) /\ opened
      /\ files[n].pkts = window /\ InTable = window
  BY <1>1, Facts, BeforeMain DEF AtWork
<1>4. /\ Len(files') = n /\ DOMAIN files' = 1 .. n
      /\ \A i \in 1 .. n : files'[i].pkts = files[i].pkts
      /\ \A i \in 1 .. n : files[i].complete => files'[i].complete
      /\ files'[n].complete
  BY <1>2, <1>3 DEF LogFile
<1> HIDE DEF n
<1>5. InTable' = InTable
  BY <1>2 DEF InTable
<1>6. Windows'
  BY <1>1, <1>2, BeforeMain DEF Windows, InHook
<1>7. InLogs \subseteq InLogs'
  BY <1>3, <1>4 DEF InLogs
<1>8. Apart'
  BY <1>1, <1>2, <1>3, <1>4, <1>5, BeforeMain DEF Apart, n
<1>9. AtWork'
  BY <1>1, <1>2, <1>3, <1>4, <1>5 DEF AtWork
<1> QED BY <1>1, <1>2, <1>3, <1>4, <1>5, <1>6, <1>7, <1>8, <1>9, BeforeMain, MainData

\* While a table is wiped, its window is in the last file or lost already.
LEMMA WindowKept ==
    ASSUME Inv, stage = "idle", pc = "clean"
    PROVE  InTable \subseteq window /\ window \subseteq InLogs \cup unopened
<1>1. CASE opened
  <2>1. Len(files) \in DOMAIN files /\ files[Len(files)].complete
        /\ files[Len(files)].pkts = window
    BY <1>1, Facts, BeforeMain DEF AtWork
  <2> QED BY <2>1, BeforeMain DEF InLogs, AtWork
<1>2. CASE ~opened
  BY <1>2, BeforeMain DEF AtWork
<1> QED BY <1>1, <1>2

\* flowtab_clean wipes some of the entries.
LEMMA DataWipeEntries == ASSUME Inv, WipeEntries PROVE Data'
<1>1. stage = "idle" /\ stage' = stage /\ pc = "clean" /\ pc' = "clean"
  BY MainMoves DEF WipeEntries, signals
<1>2. PICK left \in SUBSET flowtab[flowtab_idx].pkts :
        flowtab' = [flowtab EXCEPT ![flowtab_idx].pkts = left]
  BY DEF WipeEntries
<1>3. UNCHANGED <<flowtab_idx, npkts, files, opened, window, unopened, recorded, registered>>
  BY DEF WipeEntries, setup, logs
<1>4. /\ flowtab'[flowtab_idx].pkts = left
      /\ \A t \in Tables : /\ flowtab'[t].dirty = flowtab[t].dirty
                           /\ t # flowtab_idx => flowtab'[t] = flowtab[t]
  BY <1>2, Facts
<1>5. InTable' \subseteq InTable /\ InLogs' = InLogs
  BY <1>2, <1>3, <1>4, Facts DEF InTable, InLogs
<1>6. Windows'
  BY <1>1, <1>2, <1>3, <1>4, Facts, BeforeMain DEF Windows, InHook
<1>7. Apart' /\ AtWork'
  BY <1>1, <1>3, <1>5, BeforeMain DEF Apart, AtWork
<1>8. recorded' \subseteq InLogs' \cup unopened' \cup InTable'
  BY <1>1, <1>3, <1>5, BeforeMain, WindowKept
<1> QED BY <1>1, <1>3, <1>6, <1>7, <1>8, BeforeMain, MainData

\* The empty table is marked clean, and flowtab_get goes on to the next one.
LEMMA DataMarkClean == ASSUME Inv, MarkClean PROVE Data'
<1>1. stage = "idle" /\ stage' = stage /\ pc = "clean" /\ pc' = "acquire" /\ InTable = {}
  BY MainMoves DEF MarkClean, signals, InTable
<1>2. /\ UNCHANGED <<npkts, files, window, unopened, recorded, registered>>
      /\ flowtab' = [flowtab EXCEPT ![flowtab_idx].dirty = FALSE]
      /\ flowtab_idx' = (flowtab_idx + 1) % pna_tables
      /\ opened' = FALSE
  BY DEF MarkClean, setup
<1>3. flowtab_idx' \in Tables
  <2>1. flowtab_idx \in Nat
    BY Facts DEF Tables
  <2> QED BY <1>2, <2>1 DEF Tables
<1>4. \A t \in Tables : flowtab'[t].dirty = FALSE /\ flowtab'[t].pkts = {}
  <2>1. \A t \in Tables : /\ t # flowtab_idx => flowtab'[t] = flowtab[t]
                          /\ flowtab'[t].pkts = flowtab[t].pkts
    BY <1>2, Facts
  <2>2. flowtab'[flowtab_idx].dirty = FALSE
    BY <1>2, Facts
  <2>3. \A t \in Tables : t # flowtab_idx => flowtab[t].dirty = FALSE /\ flowtab[t].pkts = {}
    BY <1>1, Facts, BeforeMain DEF Windows
  <2> QED BY <1>1, <2>1, <2>2, <2>3 DEF InTable
<1>5. InTable' = {} /\ InLogs' = InLogs
  BY <1>2, <1>3, <1>4 DEF InTable, InLogs
<1>6. Windows'
  BY <1>1, <1>2, <1>4, BeforeMain DEF Windows, InHook
<1>7. Apart' /\ AtWork'
  BY <1>1, <1>2, <1>5, BeforeMain DEF Apart, AtWork
<1> QED BY <1>1, <1>2, <1>5, <1>6, <1>7, BeforeMain, MainData

\* flowtab_get hands out a clean table.
LEMMA DataMarkDirty == ASSUME Inv, MarkDirty PROVE Data'
<1>1. stage = "idle" /\ stage' = stage /\ pc = "acquire" /\ pc' = "record"
  BY MainMoves DEF MarkDirty, signals
<1>2. /\ UNCHANGED <<npkts, files, opened, window, unopened, recorded, registered, flowtab_idx>>
      /\ flowtab' = [flowtab EXCEPT ![flowtab_idx].dirty = TRUE]
  BY DEF MarkDirty, setup, logs
<1>3. /\ flowtab'[flowtab_idx].dirty = TRUE
      /\ \A t \in Tables : /\ flowtab'[t].pkts = flowtab[t].pkts
                           /\ t # flowtab_idx => flowtab'[t] = flowtab[t]
  BY <1>2, Facts
<1>4. InTable' = InTable /\ InLogs' = InLogs
  BY <1>2, <1>3, Facts DEF InTable, InLogs
<1>5. Windows'
  BY <1>1, <1>2, <1>3, BeforeMain DEF Windows, InHook
<1>6. Apart' /\ AtWork'
  BY <1>1, <1>2, <1>4, BeforeMain DEF Apart, AtWork
<1> QED BY <1>1, <1>2, <1>4, <1>5, <1>6, BeforeMain, MainData

\* flowmon_hook counts a packet that is in no file.
LEMMA DataRecordPacket == ASSUME Inv, RecordPacket PROVE Data'
<1>1. /\ stage = "idle" /\ stage' = stage /\ pc = "record" /\ pc' = "loop"
      /\ registered' = TRUE
  BY MainMoves DEF RecordPacket, signals, setup, Inv, TypeOK, Control, Progress, Running, InHook
<1>2. /\ UNCHANGED <<npkts, files, opened, window, unopened, flowtab_idx>>
      /\ recorded' = recorded \cup {npkts}
      /\ flowtab' = [flowtab EXCEPT ![flowtab_idx].pkts = @ \cup {npkts}]
  BY DEF RecordPacket, logs
<1>3. /\ flowtab'[flowtab_idx].pkts = flowtab[flowtab_idx].pkts \cup {npkts}
      /\ \A t \in Tables : /\ flowtab'[t].dirty = flowtab[t].dirty
                           /\ t # flowtab_idx => flowtab'[t] = flowtab[t]
  BY <1>2, Facts
<1>4. InTable' = InTable \cup {npkts} /\ InLogs' = InLogs
  BY <1>2, <1>3, Facts DEF InTable, InLogs
<1>5. npkts \notin recorded /\ npkts \in 1 .. npkts /\ flowtab[flowtab_idx].dirty
  BY <1>1 DEF Inv, TypeOK, Data, Windows, InHook
<1>6. Windows'
  BY <1>1, <1>2, <1>3, <1>5, Facts, BeforeMain DEF Windows, InHook
<1>7. Apart' /\ AtWork'
  BY <1>1, <1>2, <1>4, <1>5, BeforeMain DEF Apart, AtWork
<1> QED BY <1>1, <1>2, <1>4, <1>6, <1>7, BeforeMain, MainData

\* flowmon_cleanup writes what is left in the current table: next to its log
\* or over it, if its dump was interrupted.
LEMMA DataFlowmonCleanup == ASSUME Inv, FlowmonCleanup PROVE Data'
<1>1. /\ stage = "tables" /\ stage' = "exit" /\ pc' = pc
      /\ UNCHANGED <<npkts, recorded, called, opened, window, registered, flowtab_idx>>
  BY DEF FlowmonCleanup, setup
<1>2. pc # "gone" /\ called
  BY <1>1 DEF Inv, Control, Progress
<1>3. \A t \in Tables : flowtab'[t].dirty = FALSE /\ flowtab'[t].pkts = {}
  BY DEF FlowmonCleanup
<1>4. Windows'
  BY <1>1, <1>3 DEF Inv, Data, Windows
<1>5. Ending'
  BY <1>1, <1>2, <1>3 DEF Inv, Data, Ending, Gone
<1>6. /\ Apart /\ AtWork
      /\ recorded \subseteq InLogs \cup unopened \cup InTable
      /\ \A i \in DOMAIN files : files[i].pkts \subseteq recorded
      /\ InTable \subseteq recorded
  BY <1>1, Facts DEF Inv, Data, Files, Windows, InTable
<1>7. AtRisk' = IF pc = "clean" THEN window ELSE {}
  BY <1>1, <1>2 DEF AtRisk
<1>8. CASE files' = files /\ unopened' = unopened \cup InTable
  <2>1. InLogs' = InLogs
    BY <1>8 DEF InLogs
  <2>2. Files'
    BY <1>1, <1>6, <1>8, <2>1 DEF Files
  <2>3. TwiceWhenStopped'
    <3>1. \A i, j \in DOMAIN files : i < j => i # j
      BY Facts
    <3> QED BY <1>6, <1>8, <3>1 DEF Apart, TwiceWhenStopped
  <2> QED BY <1>4, <1>5, <2>2, <2>3 DEF Data, Stopped
<1>9. ASSUME NEW n \in Nat, Written(n), unopened' = unopened PROVE Data'
  <2>1. /\ DOMAIN files = 1 .. Len(files) /\ Len(files) \in Nat
        /\ DOMAIN files' = 1 .. n + 1 /\ n <= Len(files)
        /\ \A k \in 1 .. n : k \in DOMAIN files /\ files'[k] = files[k]
        /\ files'[n + 1].pkts = InTable /\ files'[n + 1].complete = TRUE
        /\ n + 1 \in DOMAIN files'
    <3>1. DOMAIN files = 1 .. Len(files) /\ Len(files) \in Nat
      BY Facts
    <3>2. files' \in Seq(LogFile)
      BY CleanupFiles
    <3>3. Len(files') = n + 1 /\ files'[n + 1] = LastLog
      BY <1>9 DEF Written
    <3>4. DOMAIN files' = 1 .. n + 1 /\ n + 1 \in 1 .. n + 1
      BY <3>2, <3>3
    <3>5. n <= Len(files) /\ \A k \in 1 .. n : files'[k] = files[k]
      <4>. PICK m \in Nat : m = Len(files)
        BY <3>1
      <4>1. n = m \/ n = m - 1
        BY <1>9 DEF Written
      <4>2. n <= m
        BY <4>1
      <4>3. \A k \in 1 .. n : files'[k] = files[k]
        BY <1>9 DEF Written
      <4> QED BY <4>2, <4>3
    <3>6. 1 .. n \subseteq DOMAIN files
      BY <3>1, <3>5
    <3>7. LastLog.pkts = InTable /\ LastLog.complete = TRUE
      BY DEF LastLog
    <3> QED BY <3>1, <3>3, <3>4, <3>5, <3>6, <3>7
  <2>2. InTable \subseteq InLogs'
    BY <2>1 DEF InLogs
  <2>3. ASSUME NEW i \in DOMAIN files, files[i].complete
        PROVE  files[i].pkts \subseteq InLogs' \cup AtRisk'
    <3>1. CASE i \in 1 .. n
      BY <2>1, <2>3, <3>1 DEF InLogs
    <3>2. CASE i \notin 1 .. n
      <4>1. i = Len(files) /\ opened
        <5>1. i \in 1 .. Len(files) /\ Len(files) \in Nat
          BY <2>1
        <5>2. n = Len(files) \/ (opened /\ n = Len(files) - 1)
          BY <1>9 DEF Written
        <5> QED BY <3>2, <5>1, <5>2
      <4>2. files[i].pkts = window /\ (pc = "dumping" \/ pc = "clean")
            /\ (pc = "dumping" => InTable = window)
        BY <1>6, <4>1 DEF AtWork
      <4>3. CASE pc = "dumping"
        BY <2>2, <4>2, <4>3
      <4>4. CASE pc = "clean"
        BY <1>7, <4>2, <4>4
      <4> QED BY <4>2, <4>3, <4>4
    <3> QED BY <3>1, <3>2
  <2>4. InLogs \subseteq InLogs' \cup AtRisk'
    BY <2>3 DEF InLogs
  <2>5. \A i \in DOMAIN files' : files'[i].pkts \subseteq recorded
    BY <1>6, <2>1
  <2>6. Files'
    BY <1>1, <1>6, <1>9, <2>2, <2>4, <2>5 DEF Files
  <2>7. ASSUME NEW i \in DOMAIN files', NEW j \in DOMAIN files', i < j,
               files'[i].complete, files'[i].pkts \cap files'[j].pkts # {}
        PROVE  pc = "clean" /\ j = Len(files') /\ files'[j].pkts \subseteq files'[i].pkts
    <3>1. i \in 1 .. n /\ files'[i] = files[i] /\ i \in DOMAIN files
      BY <2>1, <2>7
    <3>2. j = n + 1
      BY <1>6, <2>1, <2>7, <3>1 DEF Apart
    <3>3. opened /\ i = Len(files)
      BY <1>6, <2>1, <2>7, <3>1, <3>2 DEF Apart
    <3>4. pc \in {"dumping", "clean"} /\ files[i].pkts = window /\ InTable \subseteq window
      BY <1>6, <3>3 DEF AtWork
    <3>5. pc = "clean" \/ pc = "dumping"
      BY <3>4
    <3>6. CASE pc = "dumping"
      BY <2>7, <3>1, <3>3, <3>6, <1>6 DEF AtWork
    <3>7. CASE pc = "clean"
      BY <1>9, <2>1, <3>1, <3>2, <3>4, <3>7 DEF Written
    <3> QED BY <3>5, <3>6, <3>7
  <2>8. TwiceWhenStopped'
    BY <1>1, <1>2, <2>7 DEF TwiceWhenStopped
  <2> QED BY <1>4, <1>5, <2>6, <2>8 DEF Data, Stopped
<1> QED BY <1>8, <1>9, CleanupFiles

-----------------------------------------------------------------------------
(* The theorems.                                                           *)

\* Every step keeps the types.
LEMMA TypeNext == ASSUME Inv, [Next]_vars PROVE TypeOK'
<1> USE DEF setup, signals, monitor, logs, Main
<1>1. CASE Setup
  BY <1>1 DEF Inv, TypeOK, Setup, InitComponents, ReadOptions, OpenSource, InstallHandler,
              RegisterCleanup, StartAlarm, DropPrivileges, Uses, NotLive
<1>2. CASE NextPacket
  <2>1. npkts' \in 0 .. MaxPackets /\ pc' \in {"record", "dump", "acquire"}
    BY <1>2 DEF Inv, TypeOK, NextPacket
  <2>2. misused' \subseteq {"pd", "dtrie", "tables"}
    BY <1>2 DEF Inv, TypeOK, NextPacket, Uses, NotLive
  <2> QED BY <1>2, <2>1, <2>2 DEF Inv, TypeOK, NextPacket
<1>3. CASE LoopEnds
  BY <1>3 DEF Inv, TypeOK, LoopEnds, Uses, NotLive
<1>4. CASE DumpBegins
  <2>1. files' \in Seq(LogFile)
    <3> DEFINE w == [pkts |-> flowtab[flowtab_idx].pkts, complete |-> FALSE]
    <3>1. w \in LogFile /\ files \in Seq(LogFile)
      BY Facts DEF LogFile
    <3>2. files' = Append(files, w) \/ files' = files
      BY <1>4 DEF DumpBegins
    <3> HIDE DEF w
    <3> QED BY <3>1, <3>2
  <2>2. flowtab[flowtab_idx].pkts \in SUBSET Packets
    BY Facts
  <2> QED BY <1>4, <2>1, <2>2 DEF Inv, TypeOK, DumpBegins, Uses, NotLive, LogFile
<1>5. CASE DumpEnds
  <2>1. pc = "dumping" /\ stage = "idle"
    BY <1>5, MainMoves DEF DumpEnds
  <2>2. Len(files) # 0 /\ Len(files) \in DOMAIN files
    BY <2>1, Facts, BeforeMain DEF AtWork
  <2>3. files' \in Seq(LogFile)
    <3>1. files' = [files EXCEPT ![Len(files)] = [files[Len(files)] EXCEPT !.complete = TRUE]]
      BY <1>5 DEF DumpEnds
    <3>2. [files[Len(files)] EXCEPT !.complete = TRUE] \in LogFile
      BY <2>2, Facts DEF LogFile
    <3> QED BY <2>2, <3>1, <3>2, Facts
  <2> QED BY <1>5, <2>3 DEF Inv, TypeOK, DumpEnds, Uses, NotLive, LogFile
<1>6. CASE WipeEntries \/ MarkClean
  <2>1. flowtab_idx' \in Tables
    BY <1>6, Facts DEF WipeEntries, MarkClean, Tables
  <2>2. flowtab' \in [Tables -> [dirty : BOOLEAN, pkts : SUBSET Packets]]
    BY <1>6, Facts DEF WipeEntries, MarkClean
  <2> QED BY <1>6, <2>1, <2>2 DEF Inv, TypeOK, WipeEntries, MarkClean, Uses, NotLive
<1>7. CASE MarkDirty
  <2>1. flowtab' \in [Tables -> [dirty : BOOLEAN, pkts : SUBSET Packets]]
    BY <1>7, Facts DEF MarkDirty
  <2> QED BY <1>7, <2>1 DEF Inv, TypeOK, MarkDirty, Uses, NotLive
<1>8. CASE RecordPacket
  <2>1. pc = "record"
    BY <1>8 DEF RecordPacket
  <2>2. npkts \in Packets
    BY <2>1 DEF Inv, TypeOK, Data, Windows, InHook, Packets
  <2>3. flowtab' \in [Tables -> [dirty : BOOLEAN, pkts : SUBSET Packets]]
    BY <1>8, <2>2, Facts DEF RecordPacket
  <2> QED BY <1>8, <2>2, <2>3 DEF Inv, TypeOK, RecordPacket, Uses, NotLive
<1>9. CASE FlowmonCleanup
  <2>1. files' \in Seq(LogFile)
    BY <1>9, CleanupFiles
  <2>2. unopened' \in SUBSET Packets
    BY <1>9, CleanupFiles, Facts DEF Inv, TypeOK
  <2> QED BY <1>9, <2>1, <2>2 DEF Inv, TypeOK, FlowmonCleanup, Uses, NotLive, LogFile
<1>10. CASE Exit \/ PcapClose \/ DtrieDeinit \/ CleanupExits
  BY <1>10 DEF Inv, TypeOK, Exit, EnterCleanup, PcapClose, DtrieDeinit, CleanupExits,
               Uses, NotLive
<1>11. CASE DefaultInterrupt \/ sigproc \/ stats_report \/ Crash \/ UNCHANGED vars
  BY <1>11 DEF Inv, TypeOK, DefaultInterrupt, sigproc, EnterCleanup, stats_report, Crash,
               Uses, NotLive, vars
<1> QED
  BY <1>1, <1>2, <1>3, <1>4, <1>5, <1>6, <1>7, <1>8, <1>9, <1>10, <1>11
  DEF Next, Capture, Cleanup

\* Every step keeps the invariant.
LEMMA InvNext == Inv /\ [Next]_vars => Inv'
<1> SUFFICES ASSUME Inv, [Next]_vars PROVE Inv'
  OBVIOUS
<1>1. TypeOK'
  BY TypeNext
<1>2. Control'
  <2>1. CASE UNCHANGED vars
    BY <2>1 DEF Inv, Control, Progress, Resources, UsesLive, vars, setup, signals, Gone
  <2>2. TypeOK /\ Control
    BY DEF Inv
  <2> QED BY <2>1, <2>2, ControlSetup, ControlCapture, ControlCleanup, ControlSignals DEF Next
<1>3. Data'
  BY IdleSteps, IdleData, DataNextPacket, DataDumpBegins, DataDumpEnds, DataWipeEntries, DataMarkClean,
     DataMarkDirty, DataRecordPacket, DataFlowmonCleanup DEF Next, Capture, Cleanup
<1> QED BY <1>1, <1>2, <1>3 DEF Inv

\* The invariant holds always.
LEMMA InvAlways == Spec => []Inv
<1>1. Init => Inv
  <2> SUFFICES ASSUME Init PROVE Inv
    OBVIOUS
  <2>1. TypeOK
    <3>1. flowtab \in [Tables -> [dirty : BOOLEAN, pkts : SUBSET Packets]]
          /\ flowtab_idx \in Tables /\ npkts \in 0 .. MaxPackets
      BY DEF Init, Tables
    <3>2. {called, inHandler, armed, registered, verbose, alarmed, opened} \subseteq BOOLEAN
      BY DEF Init
    <3> QED BY <3>1, <3>2 DEF Init, TypeOK
  <2>2. Control
    BY DEF Init, Control, Progress, Resources, UsesLive, Starting, Running, InHook
  <2>3. Data
    BY DEF Init, Data, Windows, Files, Apart, AtWork, AtRisk, Ending, Gone, Stopped,
           InHook, InLogs, InTable
  <2> QED BY <2>1, <2>2, <2>3 DEF Inv
<1> QED BY <1>1, InvNext, PTL DEF Spec

\* Program counters, resources, tables and files keep their types.
THEOREM Typing == Spec => []TypeOK
<1>1. Inv => TypeOK
  BY DEF Inv
<1> QED BY <1>1, InvAlways, PTL

\* Nothing is used or freed that is not there, wherever SIGINT comes, but
\* what main could not set up; and stats_report may ask a closed capture for
\* its statistics.
THEOREM LiveUses == Spec => []UsesLive
<1>1. Inv => UsesLive
  BY DEF Inv, Control
<1> QED BY <1>1, InvAlways, PTL

\* However the process stops, every packet ever counted is in a complete log
\* or in a dump without a file, or of the window that was being wiped.
THEOREM StopsKindly == Spec => []KindStop
<1>1. Inv => KindStop
  <2> SUFFICES ASSUME Inv, Gone, misused = {} PROVE recorded \subseteq InLogs \cup unopened \cup AtRisk
    BY DEF KindStop, AtRisk
  <2>1. CASE recorded = {}
    BY <2>1
  <2>2. CASE \A t \in Tables : ~flowtab[t].dirty
    <3>1. InTable = {}
      BY <2>2, Facts DEF Inv, Data, Windows, InTable
    <3> QED BY <3>1 DEF Inv, Data, Files
  <2> QED BY <2>1, <2>2 DEF Inv, Data, Ending
<1> QED BY <1>1, InvAlways, PTL

\* Two complete logs share packets only when the process was stopped while a
\* table was being wiped, and then the last log has what was left of it.
THEOREM TwiceStopped == Spec => []TwiceWhenStopped
<1>1. Inv => TwiceWhenStopped
  BY ApartOnce DEF Inv, Data, Files, Stopped
<1> QED BY <1>1, InvAlways, PTL
=============================================================================

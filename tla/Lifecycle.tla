----------------------------- MODULE Lifecycle -----------------------------
(***************************************************************************)
(* The life of the pna process (module/pna.c): main sets up the components *)
(* and runs the capture loop; sigproc, on SIGINT, and the function main    *)
(* registers with atexit both run cleanup; stats_report runs on SIGALRM.   *)
(*                                                                         *)
(* A signal may come between any two steps of main, also in the middle of  *)
(* a flow monitor call, so flowtab_get and flowtab_dump are taken apart    *)
(* here, and the tables hold just the packets counted in them: FlowTable   *)
(* has the rest.  Which packets close a window is left open.  Windows get  *)
(* files of their own, but for a dump that cleanup begins again: FlowTable *)
(* says when the names of two windows are the same.                        *)
(***************************************************************************)
EXTENDS Integers, Sequences, FiniteSets

CONSTANTS
    pna_tables,     \* number of flow tables
    MaxPackets      \* bound on the packets of the capture

ASSUME LifecycleAssumption ==
    /\ pna_tables \in Nat \ {0}
    /\ MaxPackets \in Nat

Tables == 0 .. pna_tables - 1
Packets == 1 .. MaxPackets

VARIABLES
    pc,             \* where main is
    stage,          \* where cleanup is: "idle" before it is first called
    called,         \* cleanup: static int called
    inHandler,      \* SIGINT is being handled, and blocked
    armed,          \* main has installed sigproc
    registered,     \* main has registered cleanup with atexit
    verbose,        \* -v: print statistics on SIGALRM
    alarmed,        \* SIGALRM comes every ALARM_SLEEP seconds
    pd,             \* the capture: "none", "open" or "closed"
    dtrie,          \* the domain trie: "none", "live" or "freed"
    tables,         \* the memory of the flow tables: same
    failed,         \* history: what there was no memory for; main does not look
    flowtab,        \* table |-> [dirty, pkts]
    flowtab_idx,
    npkts,          \* packets so far; the last one is in the hook
    files,          \* the log files, in order: [pkts, complete]
    opened,         \* the dump at work has its file, the last one
    window,         \* history: the packets of the last dump
    unopened,       \* history: packets of dumps that could not open a file
    recorded,       \* history: packets counted in a table
    misused         \* history: what was used or freed when it was not live

setup == <<armed, registered, verbose, alarmed, failed>>
logs == <<files, opened, window, unopened>>
monitor == <<flowtab, flowtab_idx, npkts, logs, recorded>>
signals == <<stage, called, inHandler>>
vars == <<pc, setup, signals, monitor, pd, dtrie, tables, misused>>

\* The resources of the process, and those that are gone or not there yet.
NotLive == {r \in {"pd", "dtrie", "tables"} :
              \/ r = "pd" /\ pd # "open"
              \/ r = "dtrie" /\ dtrie # "live"
              \/ r = "tables" /\ tables # "live"}

Uses(R) == misused' = misused \cup (R \cap NotLive)

\* exit at the end of cleanup, or a crash, ends the process wherever main is.
Gone == pc = "gone" \/ stage = "done"

-----------------------------------------------------------------------------
(* main.  It stands still while a handler runs.                            *)

Main(from, to) ==
    /\ pc = from
    /\ stage = "idle"
    /\ ~inHandler
    /\ pc' = to

\* pna_init and pna_dtrie_init.  If memory runs out, flowmon_init frees the
\* tables and returns an error, or follows a null pointer if there is not
\* even memory for flowtab_info.  Whether there is a trie is decided by the
\* call of pna_dtrie_init in main, the last one.
InitComponents ==
    /\ \/ Main("init", "options") /\ tables' \in {"live", "freed"}
       \/ Main("init", "gone") /\ UNCHANGED tables
    /\ dtrie' \in {"live", "none"}
    /\ failed' = {r \in {"tables", "dtrie"} :
                    \/ r = "tables" /\ tables' # "live"
                    \/ r = "dtrie" /\ dtrie' # "live"}
    /\ UNCHANGED <<armed, registered, verbose, alarmed, signals, monitor, pd, misused>>

\* The options are read; -h, and -n with a bad networks file, exit.  With -n
\* the networks are added to the trie.
ReadOptions ==
    /\ Main("options", "source") \/ Main("options", "exit")
    /\ verbose' \in BOOLEAN
    /\ Uses({}) \/ Uses({"dtrie"})
    /\ UNCHANGED <<armed, registered, alarmed, failed, signals, monitor, pd, dtrie, tables>>

\* pcap_open_live or pcap_open_offline; both, none or a failure return -1.
OpenSource ==
    /\ \/ Main("source", "signal") /\ pd' = "open"
       \/ Main("source", "exit") /\ UNCHANGED pd
    /\ UNCHANGED <<setup, signals, monitor, dtrie, tables, misused>>

InstallHandler ==
    /\ Main("signal", "atexit")
    /\ armed' = TRUE
    /\ UNCHANGED <<registered, verbose, alarmed, failed, signals, monitor, pd, dtrie, tables, misused>>

\* Mutant: cleanup is not registered.
RegisterNothing ==
    /\ Main("atexit", "alarm")
    /\ UNCHANGED <<setup, signals, monitor, pd, dtrie, tables, misused>>

RegisterCleanup ==
    /\ Main("atexit", "alarm")
    /\ registered' = TRUE
    /\ UNCHANGED <<armed, verbose, alarmed, failed, signals, monitor, pd, dtrie, tables, misused>>

StartAlarm ==
    /\ Main("alarm", "privileges")
    /\ alarmed' = verbose
    /\ UNCHANGED <<armed, registered, verbose, failed, signals, monitor, pd, dtrie, tables, misused>>

\* uid_to, which exits when it fails.
DropPrivileges ==
    /\ Main("privileges", "loop") \/ Main("privileges", "exit")
    /\ UNCHANGED <<setup, signals, monitor, pd, dtrie, tables, misused>>

\* pcap_loop calls pkt_hook: the domains are looked up, and flowtab_get looks
\* at the current table.
NextPacket ==
    LET dirty == flowtab[flowtab_idx].dirty
    IN  /\ npkts < MaxPackets
        /\ npkts' = npkts + 1
        /\ \/ dirty /\ Main("loop", "record")
           \/ dirty /\ Main("loop", "dump")
           \/ ~dirty /\ Main("loop", "acquire")
        /\ Uses({"pd", "dtrie", "tables"})
        /\ UNCHANGED <<setup, signals, flowtab, flowtab_idx, logs, recorded,
                       pd, dtrie, tables>>

\* The capture file ends, or the device fails: main returns.
LoopEnds ==
    /\ Main("loop", "exit")
    /\ Uses({"pd"})
    /\ UNCHANGED <<setup, signals, monitor, pd, dtrie, tables>>

\* dump_table opens the file and writes entries, or there is no file ...
DumpBegins ==
    LET pkts == flowtab[flowtab_idx].pkts
    IN  /\ \/ /\ Main("dump", "dumping")
              /\ files' = Append(files, [pkts |-> pkts, complete |-> FALSE])
              /\ opened' = TRUE
              /\ UNCHANGED unopened
           \/ /\ Main("dump", "clean")
              /\ opened' = FALSE
              /\ unopened' = unopened \cup pkts
              /\ UNCHANGED files
        /\ window' = pkts
        /\ Uses({"tables"})
        /\ UNCHANGED <<setup, signals, flowtab, flowtab_idx, npkts, recorded, pd, dtrie, tables>>

\* ... and the header.
DumpEnds ==
    /\ Main("dumping", "clean")
    /\ files' = [files EXCEPT ![Len(files)].complete = TRUE]
    /\ Uses({"tables"})
    /\ UNCHANGED <<setup, signals, flowtab, flowtab_idx, npkts, opened, window, unopened,
                   recorded, pd, dtrie, tables>>

\* flowtab_clean wipes the entries one after the other ...
WipeEntries ==
    /\ Main("clean", "clean")
    /\ \E left \in SUBSET flowtab[flowtab_idx].pkts :
          /\ left # flowtab[flowtab_idx].pkts
          /\ flowtab' = [flowtab EXCEPT ![flowtab_idx].pkts = left]
    /\ Uses({"tables"})
    /\ UNCHANGED <<setup, signals, flowtab_idx, npkts, logs, recorded, pd, dtrie, tables>>

\* Mutant: flowtab_idx runs past the last table.
MarkCleanUnwrapped ==
    /\ Main("clean", "acquire")
    /\ flowtab[flowtab_idx].pkts = {}
    /\ flowtab' = [flowtab EXCEPT ![flowtab_idx].dirty = FALSE]
    /\ flowtab_idx' = flowtab_idx + 1
    /\ opened' = FALSE
    /\ Uses({"tables"})
    /\ UNCHANGED <<setup, signals, npkts, files, window, unopened, recorded, pd, dtrie, tables>>

\* Mutant: the entries are not wiped.
MarkCleanUnwiped ==
    /\ Main("clean", "acquire")
    /\ flowtab' = [flowtab EXCEPT ![flowtab_idx].dirty = FALSE]
    /\ flowtab_idx' = (flowtab_idx + 1) % pna_tables
    /\ opened' = FALSE
    /\ Uses({"tables"})
    /\ UNCHANGED <<setup, signals, npkts, files, window, unopened, recorded, pd, dtrie, tables>>

\* ... and marks the empty table clean; flowtab_get goes on to the next one.
MarkClean ==
    /\ Main("clean", "acquire")
    /\ flowtab[flowtab_idx].pkts = {}
    /\ flowtab' = [flowtab EXCEPT ![flowtab_idx].dirty = FALSE]
    /\ flowtab_idx' = (flowtab_idx + 1) % pna_tables
    /\ opened' = FALSE
    /\ Uses({"tables"})
    /\ UNCHANGED <<setup, signals, npkts, files, window, unopened, recorded, pd, dtrie, tables>>

\* flowtab_get marks the table it hands out.
MarkDirty ==
    /\ Main("acquire", "record")
    /\ flowtab' = [flowtab EXCEPT ![flowtab_idx].dirty = TRUE]
    /\ Uses({"tables"})
    /\ UNCHANGED <<setup, signals, flowtab_idx, npkts, logs, recorded, pd, dtrie, tables>>

\* flowmon_hook counts the packet, and pcap_loop goes on.
RecordPacket ==
    /\ Main("record", "loop")
    /\ flowtab' = [flowtab EXCEPT ![flowtab_idx].pkts = @ \cup {npkts}]
    /\ recorded' = recorded \cup {npkts}
    /\ Uses({"tables"})
    /\ UNCHANGED <<setup, signals, flowtab_idx, npkts, logs, pd, dtrie, tables>>

-----------------------------------------------------------------------------
(* cleanup.                                                                *)

\* Mutant: the first call is taken for a second one.
EnterCleanupStuck == called' = TRUE /\ UNCHANGED stage

\* Only the first call does anything.
EnterCleanup ==
    IF called THEN UNCHANGED <<called, stage>>
    ELSE called' = TRUE /\ stage' = "close"

\* exit, from main: the functions registered with atexit run.
Exit ==
    /\ pc = "exit"
    /\ stage = "idle"
    /\ IF registered
       THEN EnterCleanup /\ UNCHANGED pc
       ELSE pc' = "gone" /\ UNCHANGED <<called, stage>>
    /\ UNCHANGED <<inHandler, setup, monitor, pd, dtrie, tables, misused>>

PcapClose ==
    /\ stage = "close"
    /\ stage' = "trie"
    /\ pd' = "closed"
    /\ Uses({"pd"})
    /\ UNCHANGED <<pc, called, inHandler, setup, monitor, dtrie, tables>>

\* pna_dtrie_rm_node of no node does nothing.
DtrieDeinit ==
    /\ stage = "trie"
    /\ stage' = "tables"
    /\ dtrie' = IF dtrie = "none" THEN "none" ELSE "freed"
    /\ Uses(IF dtrie = "none" THEN {} ELSE {"dtrie"})
    /\ UNCHANGED <<pc, called, inHandler, setup, monitor, pd, tables>>

DirtyTables == {t \in Tables : flowtab[t].dirty}

\* The logs of the tables in T, written from the last one down.
LogsOf(T) ==
    LET nth(i) == CHOOSE t \in T : Cardinality({u \in T : u > t}) = i - 1
    IN  [i \in 1 .. Cardinality(T) |-> [pkts |-> flowtab[nth(i)].pkts, complete |-> TRUE]]

\* flowmon_cleanup dumps the dirty tables, as far as their files open, and
\* frees them all.  The log of a dump that was interrupted is written over if
\* the second has not changed, because the file gets the same name, and says
\* what is left in the table; otherwise both files are there.
FlowmonCleanup ==
    /\ stage = "tables"
    /\ stage' = "exit"
    /\ \E T \in SUBSET DirtyTables :
          /\ \/ files' = files \o LogsOf(T)
             \/ /\ opened /\ flowtab_idx \in T
                /\ files' = SubSeq(files, 1, Len(files) - 1) \o LogsOf(T)
          /\ unopened' = unopened \cup UNION {flowtab[t].pkts : t \in DirtyTables \ T}
    /\ flowtab' = [t \in Tables |-> [dirty |-> FALSE, pkts |-> {}]]
    /\ tables' = "freed"
    /\ Uses({"tables"})
    /\ UNCHANGED <<pc, called, inHandler, setup, flowtab_idx, npkts, opened, window,
                   recorded, pd, dtrie>>

\* Mutant: cleanup returns to what was interrupted.
CleanupReturns ==
    /\ stage = "exit"
    /\ stage' = "idle"
    /\ inHandler' = FALSE
    /\ UNCHANGED <<pc, called, setup, monitor, pd, dtrie, tables, misused>>

\* exit(0) at the end of cleanup: what was interrupted never goes on, and the
\* call of cleanup that atexit may still make returns at once.
CleanupExits ==
    /\ stage = "exit"
    /\ stage' = "done"
    /\ UNCHANGED <<pc, called, inHandler, setup, monitor, pd, dtrie, tables, misused>>

-----------------------------------------------------------------------------
(* Signals.                                                                *)

\* SIGINT before sigproc is installed: the default action.
DefaultInterrupt ==
    /\ ~armed
    /\ ~Gone
    /\ pc' = "gone"
    /\ UNCHANGED <<setup, signals, monitor, pd, dtrie, tables, misused>>

\* sigproc; further SIGINTs are blocked until it returns, which it does only
\* if cleanup was running already, called through exit.
sigproc ==
    /\ armed
    /\ ~Gone
    /\ ~inHandler
    /\ EnterCleanup
    /\ inHandler' = ~called
    /\ UNCHANGED <<pc, setup, monitor, pd, dtrie, tables, misused>>

\* stats_report asks pcap for its statistics.  SIGALRM is not blocked in sigproc.
stats_report ==
    /\ alarmed
    /\ ~Gone
    /\ Uses({"pd"})
    /\ UNCHANGED <<pc, setup, signals, monitor, pd, dtrie, tables>>

\* What was misused may end the process at any time.
Crash ==
    /\ misused # {}
    /\ ~Gone
    /\ stage' = "done"
    /\ UNCHANGED <<pc, called, inHandler, setup, monitor, pd, dtrie, tables, misused>>

-----------------------------------------------------------------------------
Init ==
    /\ pc = "init"
    /\ stage = "idle"
    /\ called = FALSE
    /\ inHandler = FALSE
    /\ armed = FALSE
    /\ registered = FALSE
    /\ verbose = FALSE
    /\ alarmed = FALSE
    /\ pd = "none"
    /\ dtrie = "none"
    /\ tables = "none"
    /\ failed = {}
    /\ flowtab = [t \in Tables |-> [dirty |-> FALSE, pkts |-> {}]]
    /\ flowtab_idx = 0
    /\ npkts = 0
    /\ files = <<>>
    /\ opened = FALSE
    /\ window = {}
    /\ unopened = {}
    /\ recorded = {}
    /\ misused = {}

Setup ==
    \/ InitComponents \/ ReadOptions \/ OpenSource \/ InstallHandler
    \/ RegisterCleanup \/ StartAlarm \/ DropPrivileges

Capture ==
    \/ NextPacket \/ LoopEnds \/ DumpBegins \/ DumpEnds \/ WipeEntries \/ MarkClean
    \/ MarkDirty \/ RecordPacket

Cleanup == PcapClose \/ DtrieDeinit \/ FlowmonCleanup \/ CleanupExits

Next ==
    \/ Setup \/ Capture \/ Exit \/ Cleanup
    \/ DefaultInterrupt \/ sigproc \/ stats_report \/ Crash

Spec == Init /\ [][Next]_vars

\* The process is scheduled: exit and cleanup go on.  Packets and signals
\* need not come.
FairSpec == Spec /\ WF_vars(Cleanup) /\ WF_vars(Exit)

-----------------------------------------------------------------------------
(* Properties.                                                             *)

\* Program counters, resources and tables have their types.
TypeOK ==
    /\ pc \in {"init", "options", "source", "signal", "atexit", "alarm", "privileges",
               "loop", "dump", "dumping", "clean", "acquire", "record", "exit", "gone"}
    /\ stage \in {"idle", "close", "trie", "tables", "exit", "done"}
    /\ {called, inHandler, armed, registered, verbose, alarmed, opened} \subseteq BOOLEAN
    /\ failed \subseteq {"dtrie", "tables"}
    /\ pd \in {"none", "open", "closed"}
    /\ {dtrie, tables} \subseteq {"none", "live", "freed"}
    /\ flowtab \in [Tables -> [dirty : BOOLEAN, pkts : SUBSET Packets]]
    /\ flowtab_idx \in Tables
    /\ npkts \in 0 .. MaxPackets
    /\ files \in Seq([pkts : SUBSET Packets, complete : BOOLEAN])
    /\ {window, unopened, recorded} \subseteq SUBSET Packets
    /\ misused \subseteq {"pd", "dtrie", "tables"}

\* Nothing is used or freed that is not there, wherever in the hook or in
\* cleanup SIGINT comes and however often, but what main could not set up and
\* goes on without; and with -v stats_report may ask a capture that cleanup
\* has closed for its statistics.
UsesLive == misused \subseteq failed \cup (IF verbose THEN {"pd"} ELSE {})

\* The packets of the complete logs.
InLogs == UNION {files[i].pkts : i \in {j \in DOMAIN files : files[j].complete}}

\* Ctrl-C, the end of the capture and a failed uid_to all lead through
\* cleanup: when the process is gone, every packet ever counted is in a
\* complete log or in a dump that could not open its file, but for the window
\* whose table was being wiped when SIGINT came: its log may have been
\* written over with what was left.  (Not if something was used that was not
\* there: see UsesLive.)
KindStop ==
    (Gone /\ misused = {}) =>
        recorded \subseteq InLogs \cup unopened \cup (IF called /\ pc = "clean" THEN window ELSE {})

\* A packet is in two complete logs only when SIGINT came after dump_table and
\* before flowtab_clean was done: cleanup found the table still dirty, and the
\* last log says again what was not wiped yet.  Nothing is counted twice
\* within a log, and no window leaks into the next one.
TwiceWhenStopped ==
    \A i, j \in DOMAIN files :
        (i < j /\ files[i].complete /\ files[j].complete
         /\ files[i].pkts \cap files[j].pkts # {})
            => /\ called /\ pc = "clean"
               /\ j = Len(files) /\ files[j].pkts \subseteq files[i].pkts

\* Once exit or cleanup was called the process comes to its end.
CleanupFinishes == (pc = "exit" \/ called) ~> Gone
=============================================================================

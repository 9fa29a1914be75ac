------------------------------- MODULE Intop -------------------------------
(***************************************************************************)
(* The two programs of util/intop that read logs, with the model they      *)
(* share: the command line interface (cli.py) and the curses viewer        *)
(* (cui.py), the viewer with the thread that watches a directory           *)
(* (monitor.py), while the monitor writes logs to that directory.          *)
(*                                                                         *)
(* One program runs, with arguments chosen in Init.  pc is where its main  *)
(* thread is, wpc where the watching thread is.  A step is what no other   *)
(* thread or process can come in between, or need not: reading a file,     *)
(* appending to all_data, invalidating the cache, looking at the cache,    *)
(* filtering, storing the answer.                                          *)
(***************************************************************************)
EXTENDS PnaModel, SequencesExt

CONSTANTS
    Logs,           \* the names of log files
    LogOf,          \* [Logs -> LogRecords], what is or will be in them
    OldLogs,        \* the logs that are complete before the program starts
    FileLists,      \* the lists of files a command line may name
    FilterSettings, \* the filters that may be set, under FilterNames
    SortKeys,       \* sort keys
    MaxChanges      \* bound on the settings a user changes

ASSUME IntopAssumption ==
    /\ OldLogs \subseteq Logs
    /\ FileLists \subseteq Seq(Logs)
    /\ \A filters \in FilterSettings : DOMAIN filters \subseteq FilterNames
    /\ {"raw", "sessions"} \subseteq SortKeys
    /\ MaxChanges \in Nat

\* The monitor writes v2 logs.  A v1 log is told from a v1a log by the local
\* address of its second flow.
ASSUME LogAssumption ==
    /\ IsFiniteSet(Logs)
    /\ LogOf \in [Logs -> LogRecords]
    /\ \A l \in Logs \ OldLogs : LogOf[l].version = "v2"
    /\ \A l \in Logs : LogOf[l].version = "v1" /\ Len(LogOf[l].flows) >= 2
                       => LogOf[l].flows[2].local_ip # 0

VARIABLES
    args,       \* the command line
    disk,       \* [Logs -> [there, written, header]], the directory
    pc,         \* where the main thread is
    todo,       \* the files it has still to add
    answer,     \* the data get_data is working on
    printed,    \* the flows that cli.py printed
    changes,    \* the number of settings changed
    watching,   \* the directory is watched
    stopping,   \* the notifier was told to stop
    wpc,        \* where the watching thread is
    events,     \* the creations it has still to handle
    read,       \* the item it adds
    raced       \* history: the cached answer lacks an item, added between
                \* do_filter and the end of get_data

mainVars == <<args, pc, todo, answer, printed, changes>>
watchVars == <<watching, stopping, wpc, events, read>>
vars == <<modelVars, mainVars, watchVars, disk, raced>>

File(l) == Image(LogOf[l], disk[l].written, disk[l].header)
NoItem == [log |-> "None", flows |-> <<>>]

CliArgs == [program : {"cli"}, format : {"python", "json", "flow", "unknown"},
            has_json : BOOLEAN, files : FileLists, filters : FilterSettings]
ViewerArgs == [program : {"cui"}, dir : {"absent", "static", "dynamic", "both"},
               files : FileLists]

\* What is given for begin and end: nothing, something no time can be made of,
\* a time in December, or another time.
Times == {"absent", "none", "december", "time"}

Raised == {"parse_raised", "dates_raised", "path_raised", "derive_raised"}
Left == Raised \cup {"usage", "ended", "interrupted"}

-----------------------------------------------------------------------------
(* The monitor: dump_table leaves a file empty, writes entries and, last,  *)
(* the header.                                                             *)

MonitorCreate(l) ==
    /\ ~disk[l].there
    /\ disk' = [disk EXCEPT ![l].there = TRUE]
    /\ events' = IF watching THEN Append(events, l) ELSE events
    /\ UNCHANGED <<modelVars, mainVars, watching, stopping, wpc, read, raced>>

MonitorFlush(l) ==
    /\ disk[l].there
    /\ \E n \in disk[l].written + 1 .. Len(LogOf[l].flows) :
           disk' = [disk EXCEPT ![l].written = n]
    /\ UNCHANGED <<modelVars, mainVars, watchVars, raced>>

MonitorHeader(l) ==
    /\ disk[l].there /\ ~disk[l].header
    /\ disk[l].written = Len(LogOf[l].flows)
    /\ disk' = [disk EXCEPT ![l].header = TRUE]
    /\ UNCHANGED <<modelVars, mainVars, watchVars, raced>>

-----------------------------------------------------------------------------
(* The command line interface.                                             *)

CliUsage ==
    /\ pc = "start" /\ args.program = "cli"
    /\ args.format = "unknown" \/ args.files = <<>>
    /\ pc' = "usage"
    /\ UNCHANGED <<modelVars, args, todo, answer, printed, changes, watchVars, disk, raced>>

\* Mutant: filters are set under the names of the options.
CliSettingsUnderscore ==
    /\ pc = "start" /\ args.program = "cli"
    /\ args.format # "unknown" /\ args.files # <<>>
    /\ settings' = [sort_key |-> "raw", threshold |-> 0,
                    filters |-> IF "local-ip" \in DOMAIN args.filters
                                THEN [local_ip |-> args.filters["local-ip"]] ELSE args.filters]
    /\ todo' = args.files
    /\ pc' = "add"
    /\ UNCHANGED <<all_data, cache, args, answer, printed, changes, watchVars, disk, raced>>

CliSettings ==
    /\ pc = "start" /\ args.program = "cli"
    /\ args.format # "unknown" /\ args.files # <<>>
    /\ settings' = [sort_key |-> "raw", threshold |-> 0, filters |-> args.filters]
    /\ todo' = args.files
    /\ pc' = "add"
    /\ UNCHANGED <<all_data, cache, args, answer, printed, changes, watchVars, disk, raced>>

\* get_data(raw=True) and the format routines.
CliPrint ==
    /\ pc = "add" /\ args.program = "cli" /\ todo = <<>>
    /\ printed' = IF args.format = "json" /\ ~args.has_json THEN <<>>
                  ELSE LET data == do_filter(all_data)
                       IN  FlattenSeq([i \in DOMAIN data |-> data[i].flows])
    /\ pc' = "ended"
    /\ UNCHANGED <<modelVars, args, todo, answer, changes, watchVars, disk, raced>>

-----------------------------------------------------------------------------
(* The files both programs add before they show anything.  There is no     *)
(* watching thread yet.                                                    *)

AddFile ==
    /\ pc = "add" /\ todo # <<>>
    /\ LET l == Head(todo) IN
       IF Readable(File(l))
       THEN /\ AppendItem(FileItem(l, File(l))) /\ Invalidate
            /\ todo' = Tail(todo)
            /\ UNCHANGED <<pc, settings>>
       ELSE /\ pc' = "parse_raised"
            /\ UNCHANGED <<modelVars, todo>>
    /\ UNCHANGED <<args, answer, printed, changes, watchVars, disk, raced>>

-----------------------------------------------------------------------------
(* The viewer: cui_main, add_data, the constructor and interact.           *)

\* datetime is given the month of begin, and the month after that of end.
DatesRaise(begin, end) == begin = "none" \/ end \in {"december", "none"}

\* The names of the files are glued to that of the directory.
PathsRaise(slash, there) == there # {} /\ ~slash

\* add_data, for any options and any times of the files: those between begin
\* and end are added, in whatever order the directory lists them.
ListDir ==
    /\ pc = "start" /\ args.program = "cui" /\ args.dir \in {"static", "dynamic"}
    /\ LET there == {l \in Logs : disk[l].there}
           files == IF args.dir = "static" THEN args.files ELSE <<>>
       IN  \/ /\ \E begin, end \in Times : DatesRaise(begin, end)
              /\ pc' = "dates_raised" /\ UNCHANGED todo
           \/ /\ \E begin, end \in Times : ~DatesRaise(begin, end)
              /\ \E slash \in BOOLEAN : PathsRaise(slash, there)
              /\ pc' = "path_raised" /\ UNCHANGED todo
           \/ /\ \E begin, end \in Times : ~DatesRaise(begin, end)
              /\ \E slash \in BOOLEAN : ~PathsRaise(slash, there)
              /\ pc' = "add"
              /\ \E inTime \in SUBSET there : \E listing \in SetToSeqs(inTime) :
                     todo' = listing \o files
    /\ UNCHANGED <<modelVars, args, answer, printed, changes, watchVars, disk, raced>>

NoDir ==
    /\ pc = "start" /\ args.program = "cui" /\ args.dir \in {"absent", "both"}
    /\ IF args.dir = "both" THEN pc' = "usage" /\ UNCHANGED todo
       ELSE pc' = "add" /\ todo' = args.files
    /\ UNCHANGED <<modelVars, args, answer, printed, changes, watchVars, disk, raced>>

\* The constructor starts the notifier and adds the watch.
Construct ==
    /\ pc = "add" /\ args.program = "cui" /\ todo = <<>>
    /\ pc' = "check"
    /\ IF args.dir = "dynamic" THEN wpc' = "idle" /\ watching' = TRUE
       ELSE UNCHANGED <<wpc, watching>>
    /\ UNCHANGED <<modelVars, args, todo, answer, printed, changes, stopping, events, read, disk, raced>>

\* update_data calls get_data: look at the cache,
LookAtCache ==
    /\ pc = "check"
    /\ pc' = IF CacheHit THEN "key" ELSE "filter"
    /\ UNCHANGED <<modelVars, args, todo, answer, printed, changes, watchVars, disk, raced>>

\* or filter the data,
FilterData ==
    /\ pc = "filter"
    /\ answer' = do_filter(all_data)
    /\ pc' = IF derive_raises(answer') THEN "derive_raised" ELSE "store"
    /\ UNCHANGED <<modelVars, args, todo, printed, changes, watchVars, disk, raced>>

\* and store what is derived from them.
StoreAnswer ==
    /\ pc = "store"
    /\ Store(settings.sort_key, settings.threshold, answer)
    /\ raced' = IF settings.sort_key = "raw" THEN raced
                ELSE all_data # answer /\ wpc # "invalidate"
    /\ pc' = "key"
    /\ UNCHANGED <<all_data, settings, args, todo, answer, printed, changes, watchVars, disk>>

\* No key, or one that changes no setting: the view is drawn again.
Redraw ==
    /\ pc = "key"
    /\ pc' = "check"
    /\ UNCHANGED <<modelVars, args, todo, answer, printed, changes, watchVars, disk, raced>>

ChangeSettings ==
    /\ pc = "key" /\ changes < MaxChanges
    /\ \/ \E key \in SortKeys : settings' = [settings EXCEPT !.sort_key = key]
       \/ \E threshold \in 0 .. 1 : settings' = [settings EXCEPT !.threshold = threshold]
       \/ \E filters \in FilterSettings : settings' = [settings EXCEPT !.filters = filters]
    /\ changes' = changes + 1
    /\ pc' = "check"
    /\ UNCHANGED <<all_data, cache, args, todo, answer, printed, watchVars, disk, raced>>

\* Mutant: the watch is removed and the notifier goes on.
QuitKeepsNotifier ==
    /\ pc = "key"
    /\ pc' = "quit"
    /\ watching' = FALSE
    /\ UNCHANGED <<modelVars, args, todo, answer, printed, changes, stopping, wpc, events,
                   read, disk, raced>>

\* quit, with the end of the directory watch: stop joins the thread.
Quit ==
    /\ pc = "key"
    /\ pc' = "quit"
    /\ watching' = FALSE /\ stopping' = watching
    /\ UNCHANGED <<modelVars, args, todo, answer, printed, changes, wpc, events, read, disk, raced>>

Alive == wpc \in {"idle", "append", "invalidate"}

Joined ==
    /\ pc = "quit" /\ ~Alive
    /\ pc' = "ended"
    /\ UNCHANGED <<modelVars, args, todo, answer, printed, changes, watchVars, disk, raced>>

\* KeyboardInterrupt: the program leaves without quit.
Interrupt ==
    /\ pc = "key"
    /\ pc' = "interrupted"
    /\ UNCHANGED <<modelVars, args, todo, answer, printed, changes, watchVars, disk, raced>>

-----------------------------------------------------------------------------
(* The watching thread.  A file it cannot read is the end of it.           *)

WatchRead ==
    /\ wpc = "idle" /\ events # <<>>
    /\ LET l == Head(events) IN
       IF Readable(File(l)) THEN wpc' = "append" /\ read' = FileItem(l, File(l))
       ELSE wpc' = "dead" /\ UNCHANGED read
    /\ events' = Tail(events)
    /\ UNCHANGED <<modelVars, mainVars, watching, stopping, disk, raced>>

WatchAppend ==
    /\ wpc = "append"
    /\ AppendItem(read)
    /\ wpc' = "invalidate" /\ read' = NoItem
    /\ UNCHANGED <<settings, cache, mainVars, watching, stopping, events, disk, raced>>

WatchInvalidate ==
    /\ wpc = "invalidate"
    /\ Invalidate
    /\ wpc' = "idle" /\ raced' = FALSE
    /\ UNCHANGED <<all_data, settings, mainVars, watching, stopping, events, read, disk>>

WatchStops ==
    /\ wpc = "idle" /\ stopping
    /\ wpc' = "stopped"
    /\ UNCHANGED <<modelVars, mainVars, watching, stopping, events, read, disk, raced>>

-----------------------------------------------------------------------------
Init ==
    /\ ModelInit
    /\ args \in CliArgs \cup ViewerArgs
    /\ disk = [l \in Logs |-> [there |-> l \in OldLogs, header |-> l \in OldLogs,
                               written |-> IF l \in OldLogs THEN Len(LogOf[l].flows) ELSE 0]]
    /\ pc = "start" /\ todo = <<>> /\ answer = <<>> /\ printed = <<>> /\ changes = 0
    /\ watching = FALSE /\ stopping = FALSE /\ wpc = "off" /\ events = <<>> /\ read = NoItem
    /\ raced = FALSE

Monitor == \E l \in Logs : MonitorCreate(l) \/ MonitorFlush(l) \/ MonitorHeader(l)
Cli == CliUsage \/ CliSettings \/ CliPrint
Viewer == ListDir \/ NoDir \/ Construct \/ LookAtCache \/ FilterData \/ StoreAnswer
User == Redraw \/ ChangeSettings \/ Quit \/ Interrupt
Watcher == WatchRead \/ WatchAppend \/ WatchInvalidate \/ WatchStops

Next == Monitor \/ Cli \/ AddFile \/ Viewer \/ User \/ Joined \/ Watcher

\* Threads are scheduled, and a join returns when the thread has ended.  Users
\* and the monitor do as they like.
Fairness == WF_vars(Joined) /\ WF_vars(Watcher)
Spec == Init /\ [][Next]_vars /\ Fairness

-----------------------------------------------------------------------------
Items == [log : Logs \cup {"None"}, flows : Seq([local_ip : Int, remote_ip : Int, inflags : BOOLEAN])]

\* The variables have their types: in particular filters are set under the
\* names of PNAModel.filters only, and an answer that is cached is empty.
TypeOK ==
    /\ all_data \in Seq(Items) /\ answer \in Seq(Items) /\ read \in Items
    /\ settings.sort_key \in SortKeys /\ settings.threshold \in Nat
    /\ DOMAIN settings.filters \subseteq FilterNames
    /\ cache.key \in SortKeys \cup {NoKey} /\ cache.valid \in BOOLEAN /\ cache.data = <<>>
    /\ args \in CliArgs \cup ViewerArgs
    /\ disk \in [Logs -> [there : BOOLEAN, written : Nat, header : BOOLEAN]]
    /\ pc \in Left \cup {"start", "add", "check", "filter", "store", "key", "quit"}
    /\ todo \in Seq(Logs) /\ events \in Seq(Logs)
    /\ wpc \in {"off", "idle", "append", "invalidate", "dead", "stopped"}
    /\ {watching, stopping, raced} \subseteq BOOLEAN /\ changes \in 0 .. MaxChanges

\* Whenever a log is added, by the list of a directory, a command line or the
\* watching thread, all its flows are: what dump_table has written of a log is
\* unreadable as long as its header is missing (PNALogParser, dump_table).
WholeLogs ==
    \A i \in DOMAIN all_data : all_data[i].flows = LogOf[all_data[i].log].flows

\* The answer get_data may give from its cache is the one it would give anew,
\* except while add_file is between its two statements, and except for a log
\* added between do_filter and the last lines of get_data.
Fresh ==
    cache.valid /\ wpc # "invalidate" /\ ~raced => cache.data = do_filter(all_data)

Wanted(flow) ==
    /\ ~filter_reject("local-ip", flow.local_ip)
    /\ ~filter_reject("remote-ip", flow.remote_ip)

\* cli.py prints every flow that its options ask for of every file named, in
\* order, or, if one of the files cannot be read, prints nothing.
PrintsAll ==
    /\ pc = "ended" /\ args.program = "cli" /\ (args.format = "json" => args.has_json) =>
           SelectSeq(printed, Wanted) =
           SelectSeq(FlattenSeq([i \in DOMAIN args.files |-> LogOf[args.files[i]].flows]), Wanted)
    /\ pc # "ended" => printed = <<>>

\* A viewer told to quit ends: the watching thread does not keep it.
QuitEnds == pc = "quit" ~> pc = "ended" /\ ~Alive

\* cli.py prints the flows its options ask for only ("display local IPs
\* matching IP").
FiltersApply ==
    args.program = "cli" => \A i \in DOMAIN printed : Wanted(printed[i])

\* The viewer goes on when there is something to view ("set CUI to watch
\* directory DIR for updates"): get_data raises no error.
ViewerShows == pc # "derive_raised"
=============================================================================

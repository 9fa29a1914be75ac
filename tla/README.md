# Verification of the Passive Network Appliance

TLA+ models of the PNA node software: the packet monitor in `src/module` (C), the
viewer in `src/util/intop` (Python) and the scripts in `src/util/cron`.  This file
says what the system consists of, which module models which part, what TLC checks
and on which instances, what is proved for every instance, and what is left out.

## The system

The monitor is one process per interface.  libpcap calls it for one packet after
the other from a single thread; the only concurrency inside it is that of signals.

| component | state | operations | source |
|---|---|---|---|
| process | `pd`, `called`, signal handlers | `main`, `pkt_hook`, `cleanup`, `sigproc`, `stats_report` | `module/pna.c` |
| packet hook | none of its own | `pna_hook`, `ether_hook`, `ip_hook`, `pna_localize` | `module/pna_main.c` |
| fragment table | `pna_frag_table`, `pna_frag_next_idx` | `pna_get_frag`, `pna_set_frag` | `module/pna_main.c` |
| domain trie | nodes below `pna_dtrie_head` | `pna_dtrie_build`, `_add`, `_lookup`, `_deinit` | `module/pna_domain_trie.c` |
| flow monitor | `flowtab_info[]`, `flowtab_idx` | `flowmon_hook`, `flowtab_get`, `flowtab_dump`, `flowmon_cleanup` | `module/pna_flowmon.c` |
| log writer | buffer, file | `dump_table`, `buf_flush` | `module/dump_table.c` |
| real-time monitors | empty list | `rtmon_hook` (switched off) | `module/pna_rtmon.c` |
| statistics | totals | `print_stats` | `module/util.c` |
| log parser | position in the file | `PNALogParser`, `parse` | `util/intop/parse.py` |
| directory watcher | watch, queue of events, a thread | `begin`, `process_IN_CREATE`, `end` | `util/intop/monitor.py` |
| intop data model | `all_data`, `settings`, `cache` | `add_file`, `get_data`, `filter_reject` | `util/intop/model.py` |
| command line interface | none of its own | `interact`, format routines | `util/intop/cli.py` |
| viewer | list and selection, dialogs, edit field | `add_data`, `interact`, `getkey`, key handlers | `util/intop/cui.py` |
| log shipping | archive directories on three hosts | pusher, archiver, syslog | `util/cron/*.sh` |

How they interact.  `main` builds the trie from the networks file, opens the
capture and enters `pcap_loop`.  For each packet `pkt_hook` calls `pna_hook`, which
decodes the frame (`ether_hook`, `ip_hook`; the ports of UDP fragments come from the
fragment table), lets `pna_localize` ask the trie which end is local, and calls
`flowmon_hook`.  That counts the packet in the current flow table; the first packet
of a new ten second window first makes `flowtab_get` write the old table to a log
(`dump_table`) and move on to the next one.  SIGINT (Ctrl-C, and `pna-service stop`)
runs `cleanup` in the middle of whatever is going on, and so does `exit` through
`atexit`.  The programs of `util/intop` and the scripts see the monitor only through the log
directory.  `cli.py` adds the files it is given to a `PNAModel` and prints what `get_data(raw=True)`
returns.  `cui.py` lists a directory, adds its logs, starts the watcher (whose thread calls
`add_file` when a file is created) and then draws the answer of `get_data` and reads a key, over
and over; keys change the settings `get_data` looks at.  The two threads share the `PNAModel`
without a lock.

What is hard: ten second boundaries, tables handed over while locked, collisions in
a table whose probe sequence is bounded, wrap-around of counters and rings, dumps that come late;
fragments out of order; a networks file in any order and memory that runs out;
signals between any two steps; memory that runs out and files that do not open; writes that fail or are short; files read while they
are written; a cache two threads use; rows that go away under the cursor.  `PROJECT.json` lists these hazards with the lines where they bite.

## Modules

**FlowTable** models `pna_flowmon.c`; a step is one call of `flowmon_hook` or
`flowmon_cleanup`.  `flowtab_info` is a function from tables to records with the
fields of the struct; a slot is a record of key, counters per direction, flags and
timestamps.  `flowtab_get` has three ways to end: `HookActive` (lines 122-125),
`HookRotate` (dump, clean, unlock, next table, lock: 115-121 and 127-151) and
`HookFresh` (127-151 only).  The loop over the probe sequence is `Stops`, the set
of attempts at which it would return; the least one is taken.  `DumpTo` chooses
whether `dump_table` can open the file, and when the dump is: its time of day (`wall`) is free, but that a live
capture is never dumped before the second of the packet that asks for it.  How long packets wait in the buffer of the kernel
is left open.  The capture time of a packet, its flow, direction,
length and flags are free inputs.  History variables (`seen` in an entry, `closed` in a log, `lost`, `missed`)
remember which packets went where, and which second of the capture closed a window.

**FlowAccounting** is what the flow monitor promises without tables and slots: one
window of packets, written or lost as a whole.  `FlowTable!Accounting` says that
FlowTable implements it, with the packets in the tables as `pending`, the packets of
each log as `exported`, and `first_sec` of the current table as `start`.

**DomainTrie** models `pna_domain_trie.c`; a node is the sequence of bits that leads to
it.  A step is one line of the networks file or one turn of the loop of
`pna_dtrie_add`, which goes down to a child (`Descend`), allocating it if it is missing, or gives up when it cannot
(`OutOfMemory`); `line` holds its arguments and the position it has reached.  `networks` remembers the lines that were added,
and `LongestMatch` is the textbook definition over it.  A networks file that cannot be
opened behaves like one whose first line is bad; two `-n` options like one longer file.

**FragTable** models the ring of UDP fragments in `pna_main.c`; a step is one fragment.
`pna_frag_hash` keeps what the exclusive or of the code loses: the order of the two
addresses.  Entries do not age, and the network may use a fingerprint again at any time; `entered` remembers the datagrams that
took an entry.

**PacketHook** models the rest of `pna_main.c`: frame in, call of `flowmon_hook` out.  It
uses FragTable's operations through `INSTANCE`, and the trie as a constant function
from addresses to domains (what DomainTrie proves it to be).  A frame is a number of
VLAN tags and a sequence of layers.  Where the code reads bytes that are not a header
(optional GRE fields it did not skip, a later fragment of a tunnel packet), `Misread`
lets it see any header of the set `Stray`, or none.

**DumpTable** models `dump_table` and `buf_flush`; a step is a turn of the loop or a
system call, and `Kill` may come between any two.  A write of entries may be short or fail, and so may that of the header,
whose result nobody looks at (`WriteHeader`).

**Lifecycle** models `pna.c` and takes `flowtab_get` and `flowtab_dump` apart, because
SIGINT may come between their steps.  Tables are sets of packets here, and whether a
packet closes a window is nondeterministic.  `flowtab_clean` wipes a table in any number of steps (`WipeEntries`) before it marks it
clean (`MarkClean`).  A dump may get no file (`unopened` remembers its packets), in a rotation and in cleanup.  `InitComponents`
may fail to get memory for the tables or for the trie, and `main` goes on in both cases; `failed` remembers it.
Windows have files of their own here; the one file that may be written twice is that of a dump SIGINT interrupts, which
`cleanup` dumps again within the same second: it then says what is left in the table.  `Crash` is the undefined behaviour of
using what is not there.

**Pusher** models `pna_pusher.sh` and `pna_archiver.sh`, one command of a script per
step.  A directory is a function from the names of archives (group of ten minutes,
"-straggle" or not, compressed or not) to their contents, a set of logs with whether each was
whole when `tar` read it.  `push` holds the shell variables of the run.  Time goes by in steps of the first minute of a group, the next four and
the last five.  From the source of the monitor it takes that
logs are named in UTC, one second before the time they are opened, so that the last log of a group may be opened in the
next; writing one takes as long as it likes.  From `crontab-pusher` it takes that the pusher starts at minute 01 of every ten
(`Scheduled`); a run may be missed, and runs are assumed not to overlap.  Local time, which the pusher reads, may be behind UTC
or ahead of it (`zone`), and `ChangeZone` begins or ends summer time.  `faults`
counts kills, failing copies and failing `tar`s.  Three histories remember what may lose a log: `mishaps`; `slow`, the logs
still open a minute after their group; and `early`, the groups collected before their end.

**LogParser** says what `PNALogParser` makes of a file.  A file is an image of a log: how many of its
entries are written and whether its header is.  Kept of the bytes is what the parser decides on:
the magic, the length, and the two bytes that are the blanks of a v1a entry.  `Readable` is that no
`unpack_from` raises an error; `parse` returns the flows, or entries put together from the bytes of
others if the version was mistaken.

**PnaModel** models `model.py`: its three variables are the attributes of the class.  The methods are taken apart
where the other thread may come in between: `AppendItem` and `Invalidate` are the two statements of
`add_file`; `CacheHit`, `do_filter` and `Store` are `get_data`.  `derive_raises` is what becomes of every
item in the branches that derive a table: `KeyError`.  `cache['filters']` is left out because it is the same
dictionary as `settings['filters']`, so comparing them finds no difference.

**Intop** composes them with `cli.py`, with the start, loop and end of `cui.py`, with `monitor.py` and
with a monitor that writes logs as DumpTable does.  `pc` and `wpc` say where the main and the watching thread are.
Steps that only the main thread can see (reading the options, adding the first files) are whole;
`get_data` has three steps (`LookAtCache`, `FilterData`, `StoreAnswer`) and `add_file` in the watching thread three
(`WatchRead`, `WatchAppend`, `WatchInvalidate`).  That list iteration sees what is appended meanwhile makes
`do_filter` as good as one step, at its end.  Which files have a time between begin and end is any subset; an
error that ends the main thread is a value of `pc`.  pyinotify is modelled from its use: creations are
queued while the watch is on, `stop` joins a thread that is not a daemon.

**Cui** models the interface of `cui.py`: `getkey` (escape sequences, sequences that break off), the list, the
three dialogs, the edit field and the details.  `mode` says which loop reads the next key; the redraw at the
end of a dialog is part of the key that closes it.  What `get_data` answers is an input here, any of `Answers`:
Cui is about the interface for any model that keeps the promise of `get_data` to return rows, while Intop shows
that `model.py` at present returns none or raises an error.  Characters are members of a small set, the regular
expressions a constant predicate `Matches`, the digits a sequence whose length is the base; `ToInt` is `int`, and `ToStr`
is `str`: the numeral, among those that fit the field (`Numerals`), that `int` takes back.  The settings are called `model_settings` and
the specification `CuiSpec` here, so that one module can extend both Intop and Cui.

**MC\*** modules give constants their values.  **FlowTableProofs**, **DomainTrieProofs**, **FragTableProofs**,
**PacketHookProofs**, **DumpTableProofs**, **LifecycleProofs**, **PusherProofs** and **IntopProofs** hold theorems about the
module of their name; IntopProofs also those about Cui.  Definitions commented "Mutant" are plausible bugs
of the definition that follows them.  They belong to no specification: each is
recorded in `PROJECT.json` with a property that catches it.

## Runs

| run | bounds | shows |
|---|---|---|
| rotation | 2 tables, 1 flow, 4 packets, seconds 9 10 14 19 20 30, dumps at 10 20 30 31, counters modulo 256 | hand-over of tables, entries equal a recount, windows, how late a dump must be to take the name of another log |
| probing | 4 flows on 4 slots, 2 probes, 2 tables, 4 packets, time may go back | no split flow, exactly-once accounting, refinement of FlowAccounting |
| trie | 2 bit addresses, masks up to 3, 3 lines, netids 1 3 4 modulo 4 | longest prefix match at any point of an addition, locality of an added line |
| fragments | ring of 2, 3 ip_ids used again, 4 datagrams that take an entry, 2 later fragments | ring discipline, how stale ports can be |
| hook | 5 addresses in 2 networks and outside, 3 frames, at most 2 tags | one key per conversation, the local end |
| dump | 5 slots, buffer of 2 entries and a half, short writes, 1 failing write | buffer, completeness, termination |
| stop | 2 tables, 4 packets, SIGINT and SIGALRM anywhere, memory and files that fail | no use after free, what may be lost, what may be written twice, the process ends |
| shipping | logs of 2 groups, 2 runs of the pusher, 2 faults, local time a group behind UTC, at it or ahead, 1 change | logs lost in five ways only, complete logs, catching up |
| intop | 3 complete logs (v1, v1 with one flow, v1a), 2 being written (v2), 2 changes of settings, all command lines | whole logs, cached answers, `cli.py` prints all or nothing, quitting ends |
| filters (violation) | as intop | `-l` and `-r` have no effect |
| viewer (violation) | as intop | the first log ends the viewer |
| cui | list of 2 lines, answers of 0 to 3 rows, 2 sort keys, 2 filters, fields of 2 and 3 characters, base 2 | bounds of the edit field, details of the highlighted row, escape |

Why these bounds are enough to be interesting.  Rotation needs a table to be used
again, so two tables and three windows: seconds 9, 10, 20, 30 give that with four
packets, 9 and 19 lie exactly ten seconds apart without a boundary of their own, 14
is inside a window.  The times of day let a dump be on time, late by a whole window, or the second after another.  In *probing* the four keys start at slots 0 and 1, and three of
them need the same two slots, so that one is missed while the table has a free slot, and
a key is found behind another one.  Counters modulo 256 wrap around at the third packet of 98 bytes.  In *trie* three lines are enough for a prefix, a
longer one and a repetition; a mask of 3 on 2 bits walks past the address.  The ring of
*fragments* is overrun by its third datagram, and the fourth comes back with the fingerprint of the first.  In *dump* two entries fill the buffer, so
that five slots need two flushes in the loop and one at the end.  In *shipping* each of two groups
has a log, which may be opened at the end of its group, in the first minute of the next, or be open for longer; the
pusher may run twice, so that one run can be missed, killed or fail to copy and the next one catch up; with local time ahead of
UTC, at it or behind it a run collects the group that is going on, the last one or the one before.  A day is as
short as two thirds of a group, so that the archiver meets the pusher in the same file.

In *intop* the v2 logs have one and two flows, so that an unfinished file may be empty or hold
one or two entries, and the first of them has inbound flags, which makes an unfinished file look like v1
instead of v1a; addresses have octets of two bits.  Two logs are created, so that the watching thread has an event left when the
first one ends it or the user quits.  In *cui* an answer may be longer or shorter than the list, the threshold field
holds numbers above `ThresholdMax` (2), and a filter field can be full.

Deadlock is not an error in any run: a capture may end, a user may leave, the bounds on packets, lines
and fragments stop the model, and a process that is gone takes no step.

Fairness.  `DumpTable!FairSpec` assumes that `dump_table` goes on: it is straight-line
code that only waits for the disk.  `Lifecycle!FairSpec` assumes the same of `cleanup` and
`exit`, which runs it; it does not assume that packets or signals
come, nor that the hook they interrupt ever goes on.  `Intop!Spec` assumes that the watching thread is scheduled and that a join returns
once the thread has ended; users, the monitor and the program before it quits are not assumed to
go on.  `Terminates` is checked with a bounded number of failing writes: on a full disk
`buf_flush` loops for ever.

## Findings

Two violation runs show where the programs of `util/intop` depart from what their texts say:
filters are set as `local-ip` and asked for as `local_ip` (*filters*), and the derived tables read
keys that no item has (*viewer*).  `PROJECT.json` quotes the lines.

Four more departures are formulas no run checks, each refuted by TLC when it is put in a
configuration:

* `FlowTable!LogNamesDistinct` without its condition `~Replay`, in `FlowTableRotation.cfg` with `Replay = TRUE`: `flowtab_dump` names a
  log after the time of day, so two windows of a capture replayed with `-r` within a second get one name, and the
  second is written over the first.  In a live capture the same happens when a dump is more than ten seconds behind the packet that
  asked for it; `LogNamesDistinct` says that nothing less will do.
* `PacketHook!InnerAddresses` in `PacketHook.cfg`: `struct pna_grehdr` has its bit fields the wrong way round for
  machines that allocate from the low bit; the optional fields are read as the inner header ("account
  for it", `pna_main.c:351`).
* `DumpTable!FlushesAll` in `DumpTable.cfg`: after a short write `buf_flush` writes the front of the buffer again, and a header
  cut short stays so.
* `Pusher!NoLogLost` in `Pusher.cfg`: in the hour that comes twice when summer time ends each group is archived
  twice, the second time empty, over the first on the remote host.  (On a host east of UTC it is worse: its
  local time is ahead of the names of all logs, the logs being written are stragglers, and `rm` removes them; `early`
  keeps such groups out of `OnlyComplete` and `LostInFiveWays`.)

More limits are visible in the models without a run of their own: SIGINT between
`dump_table` and the end of `flowtab_clean` dumps the table once more, with what is left of it: over the complete log
if the second has not changed, so that the packets already wiped are lost, and otherwise into a second log that repeats a part
of the first (`KindStop` and `TwiceWhenStopped` allow it, for that window only); SIGALRM after `pcap_close` asks a closed capture for its
statistics if `-v` was given, and `main` goes on without tables or a trie when there was no memory for them, and uses
them (`UsesLive` allows all three); a table whose file does not open is wiped like any other;
`pna_pusher.sh` removes logs that `tar` failed
to archive, and logs that are still written a minute after their group; the archiver may remove a file it has not copied
(`LostInFiveWays`); FragTable gives fragments the ports of another datagram when a fingerprint comes back too soon (`pna_set_frag` keeps
an old entry, and the hash is symmetric in the addresses; `RightPorts` says how old it can be); a log whose header cannot be written stays without one
(`WriteHeader`); and `VlanDrop` gives up a frame with
exactly `PNA_MAX_CHECKS` tags, whose data the loop has reached.

In `util/intop`: the watching thread reads a file when it is created, nearly always before it has
a header, and the error ends the thread (`WatchRead`).  A log added between `do_filter` and the last lines of `get_data` is missing from
an answer that is then marked valid (`Fresh` allows it).  An error or Ctrl-C leaves without `quit`, and the
watching thread keeps the process (`Interrupt`).  A log created between `ListDir` and `Construct` is never
added.  `-e` with a time in December, or a directory named without a slash at its end, ends the
viewer (`DatesRaise`, `PathsRaise`).  A complete v1 log with one flow or a v1 or v1a log with none is unreadable (the
first v1a entry is looked at before the version is known).  Control-L and control-R in an edit field end the viewer
(`EditTypeError`).  After a refused value escape goes back to that value, not to the one before the
edit, and so does not leave the field (`FilterIs`).  Outside the models: `flow_format` prints
`start_time` in the column `End`, and what the parser calls `nentries` is the size in bytes that `dump_table` writes.

## Proofs

Proved with TLAPS for every value of the constants that satisfies the named assumptions.  Most of them say no more
than that sizes are positive and constants of their kind.  The ones that say something about the world:

* `HookAssumption`: every layer of a frame but the innermost is a GRE tunnel.
* `PrintAssumption`, `HookPrintAssumption`: no packet has the fingerprint 0 of an unused entry.  In the code that is
  one chance in 2^32 per datagram.
* `PrintsDiffer` in one theorem about PacketHook: no two datagrams with different
  ports have the same fingerprint.  Without it the code does mix up ports (see Findings); the theorems about FragTable do without it.
* `pna_tables >= 2` in `NamesDistinct`.  With one table it is false, and TLC shows it; the code has two (`pna.c:50`).
* `DumpAssumption`: the buffer holds at least one entry.
* `LogAssumption` of Intop: there are finitely many logs, those written while the program runs are v2 as `dump_table`
  writes them, and a v1 log has a second flow whose local address the parser cannot take for the blanks of v1a
  (otherwise it is read as v1a, and what comes out is not the log).
* `IntopAssumption`: filters are set under the names of `PNAModel.filters`, as the options of `cli.py` and the dialog of
  `cui.py` do.
* `CuiAssumption`: the edit field of a filter is at least 2 wide, there is more than one digit and every threshold in range has a
  numeral that fits its field, and what `get_data` answers are sequences of rows.

Each proof follows one pattern: an inductive invariant, a lemma per action (or group of actions) that it is kept, and
the property as its consequence.  The parts of each invariant were checked by TLC on the instances of the runs before they were
proved.

* `FlowTableProofs!Typing`, `Locking`, `NoSplitFlows`: `TypeOK`, `LockDiscipline` and
  `UniqueFlows` are invariants of `FlowTable!Spec`.  `UniqueFlows` is not inductive: that a
  key has one slot after an insertion depends on where it would have been looked for.
  The invariant `Inv` adds, for each table, that every entry is `Reachable`: at some
  attempt of its own probe sequence, with no free slot and no other entry of its key at
  an earlier attempt.  A clean table has that trivially (`CleanInfoOK`); an update
  changes no key; an insertion takes the first free slot on the way of its key, so the new entry is
  reachable, and it fills a free slot, which no earlier attempt of another entry could have been
  (`RecordPacketOK`).  Two slots with one key contradict each other's `TakenBefore`
  (`ReachableUnique`).  `Locking` needs that a rotation unlocks the table it leaves before it
  looks for the next one (`AcquireBegins`).
* `FlowTableProofs!CountedOnce` and `Refinement`: `ExactlyOnce`, and that every step of FlowTable is a step of
  FlowAccounting or a stutter.  Both need that only the current table holds packets (from `Inv`), and the refinement that a
  table in use has counted at least the packet that opened it (`WindowInv`), since FlowAccounting closes no empty window.
* `FlowTableProofs!EntriesFaithful`: `FaithfulEntries`.  `FaithInv`: every flow of a table and of a log is `Good`, its counters, flags and
  times are those of a recount of `seen`, a finite set of packets with different ids.  The hook records in an entry of the packet's key
  or in a blank one (`Placed`, `InfoOK`), and the new packet has a higher id than all there are (`ExactlyOnce`), so it is not counted twice, is
  the latest, and is the earliest only in a blank entry (`RecordedGood`).  That a sum over a set grows by the bytes of one packet more
  (`SumBytesFacts`) needs that the fold the sum is made with does not depend on the order it takes packets in
  (`SumsAnyOrder`, `SumsAgree`), and counters that wrap around need that adding to a remainder is adding to the number
  (`ModPlus`).
* `FlowTableProofs!SecondsWhole`: `SecondsInv` bounds the packets of the open window by its first second and the clock, and
  says that every logged packet is older than the open window.
* `FlowTableProofs!NamesDistinct`: two logs of one name are far from the capture.  `NamesInv`: the seconds that closed two logs of a table are at
  least eleven apart (`Apart`), because another table had its window in between; the table in use began its window ten seconds after
  its last log was closed, or at a ten second boundary (`Gap`, `GapGrows`).  A log is never named before the second that closed it, so if
  two have one name, the older is late by at least the distance of the two.
* `DomainTrieProofs!Typing`, `LookupCorrect`, `EffectLocal`: `TypeOK` and
  `LookupIsLongestMatch` are invariants of `DomainTrie!Spec`, and the action property `LocalEffect` follows from the last of
  them, before and after a step.  The strengthening says that
  the nodes marked `isprefix` are exactly the networks, with their domains, that every node has its parents (`Connected`, which each turn of the loop
  keeps because it goes down from a node that is there), and that the walk of `pna_dtrie_add` stands on a node;
  the depths the lookup visits then include every network that matches.
* `FragTableProofs!Typing`, `OneEntry`, `PortsRight`, `Retained`: the ring of fragments.  `InOrder`: the ring holds the last
  `PNA_MAXFRAGS` datagrams that took an entry and nothing else, each in a slot (`Holds`) as far behind the next index as there were
  others since (`Behind`); a write moves every slot one further behind and
  overwrites the one at distance `PNA_MAXFRAGS` - 1 only (`Falls`).
* `PacketHookProofs!LocalEnds`, `OneFlow`: the local end of a recorded flow, and one key per conversation.  `HookInv` says that, unless stray
  bytes were read, the fragment table has ports of datagrams that passed and every call was made for the innermost packet with
  its own ports.  That localization gives both directions of a conversation one key and different ones to different
  conversations is then a matter of the operators (`pna_localize`, `pna_session_swap`).
* `DumpTableProofs!Typing`, `Fits`, `HeaderLast`: the log writer.  `Room`: whenever the loop looks at a slot, one more entry fits.
  `Content`, as long as no write of entries is short or fails: the file behind its hole and then the first `buf_idx` units of the
  buffer are a prefix of the `Stream`, the entries of the slots before `flow_idx` in order; there is no header before
  `dump_table` closes the file, and afterwards the file is complete or, if the header could not be written, has none.  That a slot's place in the stream is the number of slots in use before it
  (`SlotOfBefore`, `BeforeNext`) is a fact about cardinalities.
* `LifecycleProofs!Typing`, `LiveUses`, `StopsKindly`, `TwiceStopped`: the process under signals.  `Progress` and `Resources` relate where
  `main`, the hook and `cleanup` are to what is allocated, opened, installed and `failed`.  Of the packets, `Windows` says that only the
  current table has any and that the one in the hook is new; `Apart` that no two files share any before `cleanup` writes its own, and only the
  file of the dump at work shares any with the table; `AtWork` that this file has the window, of which the table holds all, or what is not
  wiped yet; `Files` that every recorded packet is in a complete log, in a dump without a file or in the table, until
  `cleanup`, and afterwards in one of these or in the window `AtRisk`; `Ending` and `Stopped` what `cleanup` leaves.
* `PusherProofs!Typing`, `ArchivesWhole`, `FiveWays`, `CatchesUp`: log shipping.  `Basic` has the types, the contents of archives
  and the course of a run.  `OpenLogs`: an open log whose group has been over for a minute is `slow`; as the pusher starts after that
  minute (`Course`), its target group has no other open logs unless it is `early`, which is all that `ArchivesWhole` needs.
  `Kept`, as long as `Undisturbed`, says where every log that is not `slow` is: in the log directory,
  in an archive of its own group that the run at work has yet to compress or copy, or on a remote host, and that a name in two places is
  a copy of the same contents (`Sound`, `Complete`).  `CatchesUp` follows from what the run has done at each point of it.
* `IntopProofs!Whole`: `WholeLogs` is an invariant of `Intop!Spec`, for any logs, any number of flows and any
  interleaving of the monitor, the user and the watching thread.  The strengthening says that every file is
  `WellWritten`: its header follows all its entries, and only a v2 file can lack it.  A v2 file without its header
  is unreadable (`UnfinishedUnreadable`): past a v1 header its length is 12n + 1 words, a multiple neither of 9 nor of 10;
  a complete file is read as its own format, with all its flows (`FinishedWhole`, `OldWhole`).  What the watching
  thread has read and not yet added is part of the invariant, as the file may have grown since.
* `IntopProofs!AnswersFresh`: `Fresh`.  `CacheInv`: a valid answer is the answer to no logs (any other raises an error before it
  is stored), and if there is a log all the same, the watching thread is about to invalidate it or the race is on record.
* `IntopProofs!IntopTypes`, `FiltersKeepAll`, `CliPrintsAll`: `TypeOK` of Intop; that `do_filter` keeps all flows of all logs whatever
  filters are set; and `PrintsAll`.  The second is the run *filters* for every instance: of the names `do_filter` asks for only `latest` is ever
  set, and `filter_reject` accepts it (`NothingRejected`, `KeptAll`).  For the third, `Listed` says that the files named are those
  added, with all their flows, followed by those still to add, and that there is no watching thread in `cli.py`.
* `IntopProofs!CuiTypes`: `CuiTypeOK`.  `EditInv` adds what an edit field holds while
  it is edited: for a threshold only digits, for a filter a value that fits; and what the value the edit began with is, to which escape
  goes back: the threshold that is set, or the filter that is set, or a value for it that was refused.  Digits have a natural number for their value (`ToIntNat`, about the fold `ToInt` is made with).
* `IntopProofs!CuiDetails`: `DetailsOfShown`.  `ListInv`: the row highlighted is a row of the answer on the screen, also after an
  answer with fewer rows.
* `IntopProofs!CuiEscape`: the action property `EscapeKeeps`, from `EditInv` and `RevertKeeps`: going back sets again what was set, or
  is refused again.

The proof of `CuiTypes` corrected the invariant: as it stood it bounded the selection of every dialog by its own number of
rows, also when control-L or control-R had ended the program in the edit field of a filter, which is false with more
filters than sort keys.  The instance of the run has as many of one as of the other.

The library's induction theorems take an operator as a parameter and cannot be used here; recursion over
numbers and finite sets goes through `NatSetInduction` instead (a set of naturals with 0 and all successors is `Nat`, from the
well-foundedness of the order).

Only model-checked: the liveness properties `Terminates`, `CleanupFinishes` and `QuitEnds`, which are out of the prover's reach.
Every invariant and every other action property that a passing run checks is a theorem.

## Not modelled

* The probe histogram `probes[]`, `smp_id`, `pna_frag_bytes_missed`, packet totals: nothing
  reads them but printed reports.
* IP options (`ip_hl` is ignored by the code as well), IPv6 (dropped by `ether_hook`).
* Accidental collisions of the 32 bit fragment hash and a fingerprint that happens to be 0.
* What a signal leaves of a single entry it interrupts in the middle of its counters, or of one the `memset` of `flowtab_clean` has reached the middle of.
* The length that is left of a packet shorter than its headers: `pkt_remains` is unsigned and wraps around
  (`pna_main.c:358`, `399`, `412`), after which bytes past the captured ones are read as headers.
* A shift by more than 31 in the trie is taken as x86 executes it, modulo 32.
* `rtmon`: its list of monitors is empty.  `util.c`: statistics for the terminal.
* `-f <entries>` of `pna`, which sets a variable nothing else reads: tables always have
  `2^pna_bits` slots.
* Overlapping runs of the pusher: when a copy takes more than ten minutes, the next run copies
  and removes the same archives.  `pna_syslog.sh`, which ends in the same copying loop.  Time zones that are off UTC by part of
  ten minutes (there are none).
* `derive_point_to_points`, `derive_local_ips` and the flattening for the sort key `raw`: with the items
  `do_filter` makes no line of them past the first key is reached.
* In `util/intop`: a file that is short by part of an entry, or read in the middle of one `write`.  LogParser's
  files grow by whole entries, as long as no write of `dump_table` is short.
* Wording and layout: `get_fields`, `stringify`, the drawing of windows, the columns of `flow_format`.
* `PNADirWatch` and `write_file` in `cui.py`, which nothing uses; `parse_cb` and `parse_iter`.
* `identity.py`, which takes apart an obsolete log format and calls `PNALogParser.parse` on the class; `npr.py`,
  which sends one message to a router and ends; `pna-service`.

## Plan

*Monitor*: PacketHook composed with FlowTable, to say what a frame adds to the logs.

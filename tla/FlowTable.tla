----------------------------- MODULE FlowTable -----------------------------
(***************************************************************************)
(* The flow monitor of module/pna_flowmon.c: an array of pna_tables hash   *)
(* tables, of which one at a time collects the flows of the traffic while  *)
(* the others wait.  A packet whose second closes the current window makes *)
(* flowtab_get write the current table to a log file and move on to the    *)
(* next one; flowmon_cleanup writes what is left when the program stops.   *)
(*                                                                         *)
(* One step of the specification is one call of flowmon_hook (pcap calls   *)
(* it for one packet after the other, from one thread) or of               *)
(* flowmon_cleanup.  A log file is modelled by the flow entries dump_table *)
(* writes into it; how the bytes reach the file is the business of         *)
(* DumpTable.                                                              *)
(*                                                                         *)
(* A packet carries the second of its capture; a dump reads the clock for  *)
(* itself.  In a live capture packets wait in the buffer of the kernel     *)
(* while flowmon_hook is busy, so a dump may come any time after the       *)
(* second of the packet that asked for it, and packets of many seconds may *)
(* be handled within one.                                                  *)
(*                                                                         *)
(* The field `seen' of an entry, the field `closed' of a log and the       *)
(* variables lost, missed and npkts are history: no guard reads them       *)
(* except the bound on npkts.                                              *)
(***************************************************************************)
EXTENDS Integers, FiniteSets, FiniteSetsExt

CONSTANTS
    Keys,               \* the flow keys of the traffic (struct pna_flowkey)
    NullKey,            \* null_key: all fields zero, marks a free slot
    pna_tables,         \* number of flow tables
    PNA_FLOW_ENTRIES,   \* slots of a table, 2^pna_bits
    PNA_TABLE_TRIES,    \* attempts to insert before giving up
    hash_0,             \* the slot hash_32 gives to a key
    FlagBits,           \* the bits of a TCP flags word
    PktLens,            \* lengths of captured packets
    Seconds,            \* capture timestamps (tv_sec)
    TimesOfDay,         \* seconds gettimeofday may return to flowtab_dump
    Word,               \* an unsigned int counts modulo Word, 2^32
    Monotone,           \* TRUE: neither timestamps nor the clock go back
    Replay,             \* TRUE: a capture file is read, stamped at any time
    MaxPackets          \* bound on the number of packets

Tables == 0 .. pna_tables - 1
Slots == 0 .. PNA_FLOW_ENTRIES - 1
Directions == {0, 1}    \* PNA_DIR_OUTBOUND, PNA_DIR_INBOUND

ASSUME KeyAssumption == NullKey \notin Keys
ASSUME SizeAssumption ==
    /\ pna_tables \in Nat \ {0}
    /\ PNA_FLOW_ENTRIES \in Nat \ {0}
    /\ PNA_TABLE_TRIES \in Nat \ {0}
    /\ Word \in Nat \ {0}
    /\ MaxPackets \in Nat
ASSUME InputAssumption ==
    /\ hash_0 \in [Keys -> Slots]
    /\ PktLens \subseteq Nat
    /\ Seconds \subseteq Nat
    /\ TimesOfDay \subseteq Nat \ {0}
    /\ Monotone \in BOOLEAN
    /\ Replay \in BOOLEAN

VARIABLES
    flowtab_info,   \* the flow tables, one record per table
    flowtab_idx,    \* the table flowtab_get tries first
    lock_misses,    \* packets refused since the last warning
    logs,           \* the log files written so far
    running,        \* FALSE once flowmon_cleanup has freed the tables
    clock,          \* capture timestamp of the last packet
    wall,           \* the time of day when tables were last dumped
    lost,           \* history: packets of dumps whose file could not be opened
    missed,         \* history: packets flowmon_hook gave up on
    npkts           \* history: number of packets so far

vars == <<flowtab_info, flowtab_idx, lock_misses, logs, running, clock, wall,
          lost, missed, npkts>>

Packets == [id : 0 .. MaxPackets - 1, key : Keys, dir : Directions, tv : Seconds,
            len : PktLens, flags : SUBSET FlagBits]

FlowEntries == [key : Keys \cup {NullKey},
                bytes : [Directions -> 0 .. Word - 1],
                packets : [Directions -> 0 .. Word - 1],
                flags : [Directions -> SUBSET FlagBits],
                first_tstamp : Nat,
                last_tstamp : Nat,
                first_dir : Directions,
                seen : SUBSET Packets]

FlowTables == [Slots -> FlowEntries]

FlowtabInfos == [flowtab : FlowTables,
                 table_dirty : BOOLEAN,
                 read_mutex : BOOLEAN,      \* TRUE: held
                 first_sec : Nat,
                 nflows : Nat,
                 nflows_missed : Nat]

LogFiles == [table_id : Tables, first_sec : Nat,
             at : Nat,                  \* the second in the file name
             closed : Nat,              \* that of the packet that closed it
             flows : SUBSET FlowEntries]

-----------------------------------------------------------------------------
(* Entries and tables.                                                     *)

NullFlow == [key |-> NullKey,
             bytes |-> [d \in Directions |-> 0],
             packets |-> [d \in Directions |-> 0],
             flags |-> [d \in Directions |-> {}],
             first_tstamp |-> 0,
             last_tstamp |-> 0,
             first_dir |-> 0,
             seen |-> {}]

\* A table as flowtab_clean leaves it, its mutex released.
CleanInfo == [flowtab |-> [s \in Slots |-> NullFlow],
              table_dirty |-> FALSE,
              read_mutex |-> FALSE,
              first_sec |-> 0,
              nflows |-> 0,
              nflows_missed |-> 0]

ActiveFlows(tab) == {tab[s] : s \in {x \in Slots : tab[x].key # NullKey}}

SeenIn(flows) == UNION {f.seen : f \in flows}

-----------------------------------------------------------------------------
(* flowmon_hook on the table flowtab_get chose.                            *)

ETH_OVERHEAD == 12 + 8 + 14 + 4

\* The slot the i-th attempt looks at.
Probe(k, i) == (hash_0[k] + ((i + i * i) \div 2)) % PNA_FLOW_ENTRIES

\* Mutant: the loop looks for a free slot without comparing keys.
StopsAtFree(tab, k) ==
    {i \in 0 .. PNA_TABLE_TRIES - 1 : tab[Probe(k, i)].key = NullKey}

\* The attempts that would end the loop: a slot of this key, or a free one.
Stops(tab, k) ==
    {i \in 0 .. PNA_TABLE_TRIES - 1 : tab[Probe(k, i)].key \in {k, NullKey}}

\* Mutant: the byte counters are wider than their field of the log.
UpdateFlowWide(f, p) ==
    [f EXCEPT !.bytes[p.dir] = @ + p.len + ETH_OVERHEAD,
              !.packets[p.dir] = @ + 1,
              !.flags[p.dir] = @ \cup p.flags,
              !.last_tstamp = p.tv,
              !.seen = @ \cup {p}]

\* The counters of flow f after packet p.
UpdateFlow(f, p) ==
    [f EXCEPT !.bytes[p.dir] = (@ + p.len + ETH_OVERHEAD) % Word,
              !.packets[p.dir] = (@ + 1) % Word,
              !.flags[p.dir] = @ \cup p.flags,
              !.last_tstamp = p.tv,
              !.seen = @ \cup {p}]

\* Mutant: the direction of the first packet is not remembered.
InsertFlowNoDir(f, p) ==
    [UpdateFlow(f, p) EXCEPT !.key = p.key, !.first_tstamp = p.tv]

\* The free entry f after packet p has started a flow in it.
InsertFlow(f, p) ==
    [UpdateFlow(f, p) EXCEPT !.key = p.key,
                             !.first_tstamp = p.tv,
                             !.first_dir = p.dir]

\* Mutant: a flow that finds no place evicts the one in its first slot.
RecordPacketEvict(info, p) ==
    LET s == IF Stops(info.flowtab, p.key) = {} THEN Probe(p.key, 0)
             ELSE Probe(p.key, Min(Stops(info.flowtab, p.key)))
        f == info.flowtab[s]
    IN  IF f.key = p.key
        THEN [info EXCEPT !.flowtab[s] = UpdateFlow(f, p)]
        ELSE [info EXCEPT !.flowtab[s] = InsertFlow(NullFlow, p),
                          !.nflows = @ + 1]

\* The table after packet p: counted, inserted, or missed.
RecordPacket(info, p) ==
    IF Stops(info.flowtab, p.key) = {}
    THEN [info EXCEPT !.nflows_missed = @ + 1]
    ELSE LET s == Probe(p.key, Min(Stops(info.flowtab, p.key)))
             f == info.flowtab[s]
         IN  IF f.key = p.key
             THEN [info EXCEPT !.flowtab[s] = UpdateFlow(f, p)]
             ELSE [info EXCEPT !.flowtab[s] = InsertFlow(f, p),
                               !.nflows = @ + 1]

-----------------------------------------------------------------------------
(* flowtab_get.                                                            *)

\* Mutant: every packet of a second that ends in 0 closes a window.
ExpiredAgain(info, tv) == tv % 10 = 0 \/ tv - info.first_sec >= 10

\* Mutant: a window is a second too long.
ExpiredLate(info, tv) ==
    \/ tv % 10 = 0 /\ tv # info.first_sec
    \/ tv - info.first_sec > 10

\* ten_bound || too_old
Expired(info, tv) ==
    \/ tv % 10 = 0 /\ tv # info.first_sec
    \/ tv - info.first_sec >= 10

\* The tables the trylock loop finds free, as distances from idx.
FreeDistances(infos, idx) ==
    {n \in 0 .. pna_tables - 1 : ~infos[(idx + n) % pna_tables].read_mutex}

\* The table after its mutex is taken for a packet of second tv.
OpenTable(info, tv) ==
    IF info.table_dirty
    THEN [info EXCEPT !.read_mutex = TRUE]
    ELSE [info EXCEPT !.read_mutex = TRUE,
                      !.table_dirty = TRUE,
                      !.first_sec = tv]

\* Take the first free table at or after idx and record p in it; if every
\* table is locked, refuse the packet.
AcquireAndRecord(infos, idx, p) ==
    IF FreeDistances(infos, idx) = {}
    THEN /\ flowtab_info' = infos
         /\ flowtab_idx' = idx
         /\ lock_misses' = (lock_misses + 1) % 1000
         /\ missed' = missed \cup {p}
    ELSE LET t == (idx + Min(FreeDistances(infos, idx))) % pna_tables
             opened == OpenTable(infos[t], p.tv)
         IN  /\ flowtab_info' = [infos EXCEPT ![t] = RecordPacket(opened, p)]
             /\ flowtab_idx' = t
             /\ missed' = IF Stops(opened.flowtab, p.key) = {}
                          THEN missed \cup {p} ELSE missed
             /\ UNCHANGED lock_misses

\* flowtab_dump of the tables in T, seen from the files: the file is named
\* one second before the time of day, whatever second tv of the capture asked
\* for the dump; dump_table opens and writes the file of a table of O, and
\* returns early for the others, whose flows are cleaned away all the same.
DumpTo(T, O, tv) ==
    /\ wall' \in TimesOfDay
    /\ Monotone => wall' >= wall
    /\ (Monotone /\ ~Replay) => wall' >= tv
    /\ logs' = logs \cup
         {[table_id |-> t,
           first_sec |-> flowtab_info[t].first_sec,
           at |-> wall' - 1,
           closed |-> tv,
           flows |-> ActiveFlows(flowtab_info[t].flowtab)] : t \in O}
    /\ lost' = lost \cup UNION {SeenIn(ActiveFlows(flowtab_info[t].flowtab)) :
                                t \in T \ O}

-----------------------------------------------------------------------------
(* The actions.                                                            *)

\* The current table is dirty and its window still open.
HookActive(p) ==
    LET info == flowtab_info[flowtab_idx]
    IN  /\ info.table_dirty
        /\ ~Expired(info, p.tv)
        /\ flowtab_info' = [flowtab_info EXCEPT
                              ![flowtab_idx] = RecordPacket(info, p)]
        /\ missed' = IF Stops(info.flowtab, p.key) = {}
                     THEN missed \cup {p} ELSE missed
        /\ UNCHANGED <<flowtab_idx, lock_misses, logs, lost, wall>>

\* Mutant: the mutex of the dumped table is not released.
HookRotateLocked(p) ==
    LET t == flowtab_idx
    IN  /\ flowtab_info[t].table_dirty
        /\ Expired(flowtab_info[t], p.tv)
        /\ \E O \in SUBSET {t} : DumpTo({t}, O, p.tv)
        /\ AcquireAndRecord([flowtab_info EXCEPT ![t] =
                               [CleanInfo EXCEPT !.read_mutex = TRUE]],
                            (t + 1) % pna_tables, p)

\* The current table is dirty and p closes its window: dump it, clean it,
\* unlock it, and start over with the next table.
HookRotate(p) ==
    LET t == flowtab_idx
    IN  /\ flowtab_info[t].table_dirty
        /\ Expired(flowtab_info[t], p.tv)
        /\ \E O \in SUBSET {t} : DumpTo({t}, O, p.tv)
        /\ AcquireAndRecord([flowtab_info EXCEPT ![t] = CleanInfo],
                            (t + 1) % pna_tables, p)

\* The current table is clean: the first packet.
HookFresh(p) ==
    /\ ~flowtab_info[flowtab_idx].table_dirty
    /\ AcquireAndRecord(flowtab_info, flowtab_idx, p)
    /\ UNCHANGED <<logs, lost, wall>>

flowmon_hook(p) ==
    /\ running
    /\ npkts < MaxPackets
    /\ Monotone => p.tv >= clock
    /\ HookActive(p) \/ HookRotate(p) \/ HookFresh(p)
    /\ clock' = p.tv
    /\ npkts' = npkts + 1
    /\ UNCHANGED running

DirtyTables == {t \in Tables : flowtab_info[t].table_dirty}

\* Mutant: the tables are freed without being dumped.
flowmon_cleanup_undumped ==
    /\ running
    /\ flowtab_info' = [t \in Tables |-> CleanInfo]
    /\ running' = FALSE
    /\ UNCHANGED <<flowtab_idx, lock_misses, clock, missed, npkts, logs, lost, wall>>

flowmon_cleanup ==
    /\ running
    /\ \E O \in SUBSET DirtyTables : DumpTo(DirtyTables, O, clock)
    /\ flowtab_info' = [t \in Tables |-> IF t \in DirtyTables THEN CleanInfo
                                         ELSE flowtab_info[t]]
    /\ running' = FALSE
    /\ UNCHANGED <<flowtab_idx, lock_misses, clock, missed, npkts>>

\* flowmon_init
Init ==
    /\ flowtab_info = [t \in Tables |-> CleanInfo]
    /\ flowtab_idx = 0
    /\ lock_misses = 0
    /\ logs = {}
    /\ running = TRUE
    /\ clock = 0
    /\ wall = 0
    /\ lost = {}
    /\ missed = {}
    /\ npkts = 0

NextPacket ==
    \E k \in Keys, d \in Directions, tv \in Seconds, l \in PktLens,
       fl \in SUBSET FlagBits :
         flowmon_hook([id |-> npkts, key |-> k, dir |-> d, tv |-> tv,
                       len |-> l, flags |-> fl])

Next == NextPacket \/ flowmon_cleanup

Spec == Init /\ [][Next]_vars

-----------------------------------------------------------------------------
(* Properties.                                                             *)

\* Every variable keeps its type: tables are arrays of entries, counters fit
\* their words, flowtab_idx always names a table.
TypeOK ==
    /\ flowtab_info \in [Tables -> FlowtabInfos]
    /\ flowtab_idx \in Tables
    /\ lock_misses \in 0 .. 999
    /\ logs \subseteq LogFiles
    /\ running \in BOOLEAN
    /\ clock \in Nat
    /\ wall \in Nat
    /\ lost \subseteq Packets
    /\ missed \subseteq Packets
    /\ npkts \in 0 .. MaxPackets

\* The tables are handed over one at a time: only the table flowtab_idx names
\* is ever dirty, a table is locked exactly while it is dirty, and so the
\* trylock loop of flowtab_get never finds every table locked.
LockDiscipline ==
    /\ \A t \in Tables :
         /\ flowtab_info[t].read_mutex <=> flowtab_info[t].table_dirty
         /\ flowtab_info[t].table_dirty => t = flowtab_idx
    /\ lock_misses = 0

\* The attempts of flowmon_hook that come before i look at slots that hold
\* other flows than k.
TakenBefore(tab, k, i) ==
    \A j \in 0 .. i - 1 : tab[Probe(k, j)].key \notin {k, NullKey}

\* Every flow sits where the probe sequence of its key finds it.
Reachable(tab) ==
    \A s \in Slots : tab[s].key # NullKey =>
        \E i \in 0 .. PNA_TABLE_TRIES - 1 :
            Probe(tab[s].key, i) = s /\ TakenBefore(tab, tab[s].key, i)

\* flowmon_hook never splits a flow: no two slots of a table hold the same
\* key, however the flows of the table collided, because entries are only
\* ever removed all at once.
UniqueFlows ==
    \A t \in Tables :
        LET tab == flowtab_info[t].flowtab
        IN  \A r, s \in Slots :
                (tab[r].key = tab[s].key /\ tab[r].key # NullKey) => r = s

AllFlows == UNION {ActiveFlows(flowtab_info[t].flowtab) : t \in Tables}
LoggedFlows == UNION {l.flows : l \in logs}

Pending == SeenIn(AllFlows)
Logged == SeenIn(LoggedFlows)

\* Every packet given to flowmon_hook is accounted for exactly once: it is
\* counted in one slot of one table or in one entry of one log, or it went
\* with a dump whose file could not be opened, or flowmon_hook returned -1
\* for it.
ExactlyOnce ==
    /\ {p.id : p \in Pending \cup Logged \cup lost \cup missed} = 0 .. npkts - 1
    /\ \A p, q \in Pending \cup Logged \cup lost \cup missed :
         p.id = q.id => p = q
    /\ Pending \cap Logged = {}
    /\ (Pending \cup Logged) \cap (lost \cup missed) = {}
    /\ lost \cap missed = {}
    /\ \A t, u \in Tables, r, s \in Slots :
         \/ t = u /\ r = s
         \/ flowtab_info[t].flowtab[r].seen
              \cap flowtab_info[u].flowtab[s].seen = {}
    /\ \A l, m \in logs : \A f \in l.flows, g \in m.flows :
         (l = m /\ f = g) \/ f.seen \cap g.seen = {}

\* What an entry says is what a recount of its packets gives: per direction
\* the packets, the bytes with the Ethernet overhead and the union of the
\* flags, the counters modulo the word; the second and the direction of the
\* earliest packet, the second of the latest, and one key for all of them.
FaithfulEntry(f) ==
    LET of(d) == {p \in f.seen : p.dir = d}
        first == CHOOSE p \in f.seen : \A q \in f.seen : p.id <= q.id
        last == CHOOSE p \in f.seen : \A q \in f.seen : p.id >= q.id
    IN  /\ f.seen # {}
        /\ \A p \in f.seen : p.key = f.key
        /\ \A d \in Directions :
             /\ f.packets[d] = Cardinality(of(d)) % Word
             /\ f.bytes[d] =
                  MapThenSumSet(LAMBDA p : p.len + ETH_OVERHEAD, of(d)) % Word
             /\ f.flags[d] = UNION {p.flags : p \in of(d)}
        /\ f.first_tstamp = first.tv
        /\ f.first_dir = first.dir
        /\ f.last_tstamp = last.tv

FaithfulEntries ==
    \A f \in AllFlows \cup LoggedFlows : FaithfulEntry(f)

\* Each log covers one window: with timestamps that never go back, its
\* packets lie within ten seconds of first_sec, and no second is split
\* between two logs or between a log and the table in use.
WholeSeconds ==
    Monotone =>
        LET windows == {SeenIn(l.flows) : l \in logs} \cup {Pending}
        IN  /\ \A l \in logs : \A p \in SeenIn(l.flows) :
                 l.first_sec <= p.tv /\ p.tv < l.first_sec + 10
            /\ \A v, w \in windows : v # w =>
                 {p.tv : p \in v} \cap {p.tv : p \in w} = {}

\* How long after the second of its packet a log was named.
Lateness(l) == l.at + 1 - l.closed

\* The name of a log holds the second before its dump and the table.  In a
\* live capture flowtab_dump chooses the name of an earlier log, whose entries
\* dump_table then overwrites, only when it is far behind the capture: while
\* the program runs one of the two logs was named more than ten seconds after
\* the packet that closed its window, and with the log of flowmon_cleanup
\* some second late.
LogNamesDistinct ==
    (Monotone /\ ~Replay) =>
        \A l, m \in logs :
            (l # m /\ l.table_id = m.table_id /\ l.at = m.at) =>
                \E k \in {l, m} : Lateness(k) >= (IF running THEN 11 ELSE 1)

\* The flow monitor seen as one window of packets (FlowAccounting).
FA == INSTANCE FlowAccounting WITH
        pending <- Pending,
        start <- flowtab_info[flowtab_idx].first_sec,
        exported <- {SeenIn(l.flows) : l \in logs}

\* The tables, probes and locks implement the accounting of one window:
\* rotation exports or loses a window as a whole, a packet that begins a
\* window always finds a place, a packet of a flow that is in the window is
\* never missed, and flowmon_cleanup leaves no packet behind.
Accounting == FA!Spec
=============================================================================

-------------------------- MODULE FlowTableProofs --------------------------
(***************************************************************************)
(* Proofs about FlowTable, for any number of tables, slots, attempts, keys *)
(* and packets.                                                            *)
(***************************************************************************)
EXTENDS FlowTable, FiniteSetTheorems, WellFoundedInduction, TLAPS

\* A nonempty set of naturals has a least element, and Min chooses it.
LEMMA LeastNat ==
    ASSUME NEW S \in SUBSET Nat, S # {}
    PROVE  Min(S) \in S /\ \A y \in S : Min(S) <= y
<1> DEFINE R == {ss \in Nat \X Nat : ss[1] < ss[2]}
<1>1. IsWellFoundedOn(R, Nat)
  BY NatLessThanWellFounded, Zenon DEF OpToRel
<1>2. PICK x \in S : \A y \in S : <<y, x>> \notin R
  <2> HIDE DEF R
  <2> QED BY <1>1, WFMin, Zenon
<1>3. ASSUME NEW y \in S, ~(x <= y) PROVE FALSE
  <2>1. y \in Nat /\ x \in Nat /\ y < x
    BY <1>3
  <2> QED BY <1>2, <2>1
<1> QED BY <1>3 DEF Min

\* A set of naturals with 0 and the successors of its elements has them all.
LEMMA NatSetInduction ==
    ASSUME NEW P \in SUBSET Nat, 0 \in P, \A n \in P : n + 1 \in P
    PROVE  P = Nat
<1> DEFINE R == {ss \in Nat \X Nat : ss[1] < ss[2]}
           Q == Nat \ P
<1>1. IsWellFoundedOn(R, Nat)
  BY NatLessThanWellFounded, Zenon DEF OpToRel
<1>2. SUFFICES ASSUME Q # {} PROVE FALSE
  OBVIOUS
<1>3. PICK x \in Q : \A y \in Q : <<y, x>> \notin R
  <2>1. Q \subseteq Nat
    OBVIOUS
  <2> HIDE DEF R, Q
  <2> QED BY <1>1, <1>2, <2>1, WFMin, Zenon
<1>4. x \in Nat /\ x # 0 /\ x - 1 \in Nat /\ <<x - 1, x>> \in R
  OBVIOUS
<1>5. x - 1 \in P
  BY <1>3, <1>4
<1>6. (x - 1) + 1 = x
  BY <1>4
<1> QED BY <1>3, <1>5, <1>6

USE KeyAssumption, SizeAssumption, InputAssumption

-----------------------------------------------------------------------------
(* Arithmetic and probing.                                                 *)

\* Every attempt of the probe loop stays inside the table.
LEMMA ProbeInSlots ==
    ASSUME NEW k \in Keys, NEW i \in Nat
    PROVE  Probe(k, i) \in Slots
<1>1. hash_0[k] \in Nat
  BY DEF Slots
<1>2. i * i \in Nat
  OBVIOUS
<1>3. (i + i * i) \div 2 \in Nat
  <2> DEFINE m == i + i * i
  <2>1. m \in Nat BY <1>2
  <2> HIDE DEF m
  <2> QED BY <2>1
<1>4. hash_0[k] + ((i + i * i) \div 2) \in Nat
  BY <1>1, <1>3
<1> DEFINE n == hash_0[k] + ((i + i * i) \div 2)
<1>5. n \in Nat BY <1>4
<1> HIDE DEF n
<1>6. n % PNA_FLOW_ENTRIES \in 0 .. PNA_FLOW_ENTRIES - 1
  BY <1>5
<1> USE DEF n
<1> QED BY <1>6 DEF Probe, Slots

\* The probe loop stops at the first slot that is free or holds the key.
LEMMA FirstStop ==
    ASSUME NEW tab, NEW k \in Keys, Stops(tab, k) # {}
    PROVE  LET i == Min(Stops(tab, k))
           IN  /\ i \in 0 .. PNA_TABLE_TRIES - 1
               /\ Probe(k, i) \in Slots
               /\ tab[Probe(k, i)].key \in {k, NullKey}
               /\ TakenBefore(tab, k, i)
<1> DEFINE i == Min(Stops(tab, k))
<1>1. Stops(tab, k) \in SUBSET Nat
  BY DEF Stops
<1>2. i \in Stops(tab, k) /\ \A j \in Stops(tab, k) : i <= j
  BY <1>1, LeastNat
<1>3. i \in 0 .. PNA_TABLE_TRIES - 1 /\ tab[Probe(k, i)].key \in {k, NullKey}
  BY <1>2 DEF Stops
<1>4. TakenBefore(tab, k, i)
  <2> SUFFICES ASSUME NEW j \in 0 .. i - 1,
                      tab[Probe(k, j)].key \in {k, NullKey}
               PROVE  FALSE
    BY DEF TakenBefore
  <2> HIDE DEF i
  <2>1. j \in 0 .. PNA_TABLE_TRIES - 1 /\ ~(i <= j)
    BY <1>3
  <2>2. j \in Stops(tab, k)
    BY <2>1 DEF Stops
  <2> QED BY <1>2, <2>1, <2>2
<1>5. Probe(k, i) \in Slots
  <2> HIDE DEF i
  <2> QED BY <1>3, ProbeInSlots
<1> QED BY <1>3, <1>4, <1>5

-----------------------------------------------------------------------------
(* Entries.                                                                *)

LEMMA NullFlowType == NullFlow \in FlowEntries
BY DEF NullFlow, FlowEntries, Directions

\* The counters keep their width, and the entry gains exactly packet p.
LEMMA UpdateFlowType ==
    ASSUME NEW f \in FlowEntries, NEW p \in Packets
    PROVE  /\ UpdateFlow(f, p) \in FlowEntries
           /\ UpdateFlow(f, p).key = f.key
           /\ UpdateFlow(f, p).seen = f.seen \cup {p}
<1>1. p.dir \in Directions /\ p.len \in Nat /\ p.tv \in Nat
      /\ p.flags \in SUBSET FlagBits
  BY DEF Packets
<1>2. (f.bytes[p.dir] + p.len + ETH_OVERHEAD) % Word \in 0 .. Word - 1
  <2> DEFINE n == f.bytes[p.dir] + p.len + ETH_OVERHEAD
  <2>1. n \in Nat BY <1>1 DEF FlowEntries, ETH_OVERHEAD
  <2> HIDE DEF n
  <2>2. n % Word \in 0 .. Word - 1 BY <2>1
  <2> QED BY <2>2 DEF n
<1>3. (f.packets[p.dir] + 1) % Word \in 0 .. Word - 1
  <2> DEFINE n == f.packets[p.dir] + 1
  <2>1. n \in Nat BY <1>1 DEF FlowEntries
  <2> HIDE DEF n
  <2>2. n % Word \in 0 .. Word - 1 BY <2>1
  <2> QED BY <2>2 DEF n
<1> QED BY <1>1, <1>2, <1>3 DEF UpdateFlow, FlowEntries

LEMMA InsertFlowType ==
    ASSUME NEW f \in FlowEntries, NEW p \in Packets
    PROVE  /\ InsertFlow(f, p) \in FlowEntries
           /\ InsertFlow(f, p).key = p.key
           /\ InsertFlow(f, p).seen = f.seen \cup {p}
<1>1. p.key \in Keys /\ p.dir \in Directions /\ p.tv \in Nat
  BY DEF Packets
<1> DEFINE u == UpdateFlow(f, p)
<1>2. u \in FlowEntries /\ u.seen = f.seen \cup {p}
  BY UpdateFlowType
<1> HIDE DEF u
<1>3. LET g == [u EXCEPT !.key = p.key, !.first_tstamp = p.tv, !.first_dir = p.dir]
      IN  g \in FlowEntries /\ g.key = p.key /\ g.seen = u.seen
  BY <1>1, <1>2 DEF FlowEntries
<1> QED BY <1>2, <1>3 DEF InsertFlow, u

-----------------------------------------------------------------------------
(* Tables.                                                                 *)

LEMMA CleanInfoType == CleanInfo \in FlowtabInfos
BY NullFlowType DEF CleanInfo, FlowtabInfos, FlowTables

\* What one table owes the others: a table that is not dirty is as
\* flowtab_clean left it, a dirty one has a flow, free slots are blank, the
\* packets of an entry belong to its flow, and every flow is where the probe
\* loop finds it.
InfoOK(info) ==
    /\ ~info.table_dirty => info = CleanInfo
    /\ info.table_dirty => \E s \in Slots : info.flowtab[s].key # NullKey
    /\ \A s \in Slots : info.flowtab[s].key = NullKey
                           => info.flowtab[s] = NullFlow
    /\ \A s \in Slots : \A p \in info.flowtab[s].seen :
         p.key = info.flowtab[s].key
    /\ Reachable(info.flowtab)

LEMMA CleanInfoOK ==
    /\ InfoOK(CleanInfo)
    /\ CleanInfo.table_dirty = FALSE
    /\ CleanInfo.read_mutex = FALSE
<1>1. CleanInfo.table_dirty = FALSE /\ CleanInfo.read_mutex = FALSE
      /\ \A s \in Slots : CleanInfo.flowtab[s] = NullFlow
  BY DEF CleanInfo
<1>2. NullFlow.key = NullKey /\ NullFlow.seen = {}
  BY DEF NullFlow
<1> QED BY <1>1, <1>2 DEF InfoOK, Reachable

\* The two outcomes of the probe loop: it refuses the packet and leaves the
\* entries alone, or one entry at the place of the key gains the packet.
Refused(info, new, p) ==
    /\ Stops(info.flowtab, p.key) = {}
    /\ new.flowtab = info.flowtab

Recorded(e, p) == IF e.key = p.key THEN UpdateFlow(e, p) ELSE InsertFlow(e, p)

Placed(info, new, p, s, f) ==
    /\ f.key = p.key
    /\ f = Recorded(info.flowtab[s], p)
    /\ f.seen = info.flowtab[s].seen \cup {p}
    /\ info.flowtab[s].key \in {p.key, NullKey}
    /\ new.flowtab = [info.flowtab EXCEPT ![s] = f]
    /\ \E i \in 0 .. PNA_TABLE_TRIES - 1 :
         Probe(p.key, i) = s /\ TakenBefore(info.flowtab, p.key, i)

LEMMA RecordPacketCases ==
    ASSUME NEW info \in FlowtabInfos, NEW p \in Packets
    PROVE  LET new == RecordPacket(info, p)
           IN  /\ new \in FlowtabInfos
               /\ new.table_dirty = info.table_dirty
               /\ new.read_mutex = info.read_mutex
               /\ new.first_sec = info.first_sec
               /\ \/ Refused(info, new, p)
                  \/ /\ Stops(info.flowtab, p.key) # {}
                     /\ \E s \in Slots, f \in FlowEntries : Placed(info, new, p, s, f)
<1> DEFINE new == RecordPacket(info, p)
           stops == Stops(info.flowtab, p.key)
<1>1. p.key \in Keys
  BY DEF Packets
<1>2. CASE stops = {}
  <2>1. new = [info EXCEPT !.nflows_missed = @ + 1]
    BY <1>2 DEF RecordPacket
  <2>2. new \in FlowtabInfos /\ new.flowtab = info.flowtab
        /\ new.table_dirty = info.table_dirty
        /\ new.read_mutex = info.read_mutex
        /\ new.first_sec = info.first_sec
    <3> HIDE DEF new
    <3> QED BY <2>1 DEF FlowtabInfos
  <2> QED BY <1>2, <2>2 DEF Refused
<1>3. CASE stops # {}
  <2> DEFINE i == Min(stops)
             s == Probe(p.key, i)
             e == info.flowtab[s]
             f == IF e.key = p.key THEN UpdateFlow(e, p) ELSE InsertFlow(e, p)
  <2>1. /\ i \in 0 .. PNA_TABLE_TRIES - 1
        /\ s \in Slots
        /\ e.key \in {p.key, NullKey}
        /\ TakenBefore(info.flowtab, p.key, i)
    BY <1>1, <1>3, FirstStop
  <2>2. e \in FlowEntries
    <3> HIDE DEF s
    <3> QED BY <2>1 DEF FlowtabInfos, FlowTables
  <2>3. f \in FlowEntries /\ f.key = p.key /\ f.seen = e.seen \cup {p}
    <3> HIDE DEF e
    <3>1. CASE e.key = p.key
      BY <2>2, <3>1, UpdateFlowType
    <3>2. CASE e.key # p.key
      BY <2>2, <3>2, InsertFlowType
    <3> QED BY <3>1, <3>2
  <2>4. new = IF e.key = p.key
              THEN [info EXCEPT !.flowtab[s] = f]
              ELSE [info EXCEPT !.flowtab[s] = f, !.nflows = @ + 1]
    BY <1>3 DEF RecordPacket
  <2>5. /\ new \in FlowtabInfos
        /\ new.flowtab = [info.flowtab EXCEPT ![s] = f]
        /\ new.table_dirty = info.table_dirty
        /\ new.read_mutex = info.read_mutex
        /\ new.first_sec = info.first_sec
    <3> HIDE DEF s, e, f, new
    <3>1. [info.flowtab EXCEPT ![s] = f] \in FlowTables
      BY <2>1, <2>3 DEF FlowtabInfos, FlowTables
    <3>2. CASE e.key = p.key
      <4>1. new = [info EXCEPT !.flowtab = [info.flowtab EXCEPT ![s] = f]]
        BY <2>4, <3>2
      <4> QED BY <3>1, <4>1 DEF FlowtabInfos
    <3>3. CASE e.key # p.key
      <4> DEFINE tab == [info.flowtab EXCEPT ![s] = f]
                 n == info.nflows + 1
      <4>1. new = [info EXCEPT !.flowtab = tab, !.nflows = n]
        BY <2>4, <3>3
      <4>2. n \in Nat /\ tab \in FlowTables
        BY <3>1 DEF FlowtabInfos
      <4> HIDE DEF tab, n
      <4>3. new \in FlowtabInfos /\ new.flowtab = tab
            /\ new.table_dirty = info.table_dirty
            /\ new.read_mutex = info.read_mutex
            /\ new.first_sec = info.first_sec
        BY <4>1, <4>2 DEF FlowtabInfos
      <4> QED BY <4>3 DEF tab
    <3> QED BY <3>2, <3>3
  <2>6. Placed(info, new, p, s, f)
    <3>1. f = Recorded(info.flowtab[s], p)
      BY DEF Recorded
    <3> HIDE DEF new, f
    <3> QED BY <2>1, <2>3, <2>5, <3>1 DEF Placed
  <2> QED BY <1>3, <2>1, <2>3, <2>5, <2>6
<1> QED BY <1>2, <1>3

\* Recording a packet in an open table keeps the table in order.
LEMMA RecordPacketOK ==
    ASSUME NEW info \in FlowtabInfos, NEW p \in Packets,
           info.table_dirty,
           InfoOK(info) \/ info.flowtab = CleanInfo.flowtab
    PROVE  InfoOK(RecordPacket(info, p))
<1> DEFINE new == RecordPacket(info, p)
           old == info.flowtab
<1>0. p.key \in Keys /\ p.key # NullKey
  BY DEF Packets
<1>1. /\ \A s \in Slots : old[s].key = NullKey => old[s] = NullFlow
      /\ \A s \in Slots : \A q \in old[s].seen : q.key = old[s].key
      /\ Reachable(old)
  <2>1. CASE InfoOK(info)
    BY <2>1 DEF InfoOK
  <2>2. CASE old = CleanInfo.flowtab
    <3>1. \A s \in Slots : old[s] = NullFlow
      BY <2>2 DEF CleanInfo
    <3>2. NullFlow.key = NullKey /\ NullFlow.seen = {}
      BY DEF NullFlow
    <3> HIDE DEF old
    <3> QED BY <3>1, <3>2 DEF Reachable
  <2> QED BY <2>1, <2>2
<1>2. new \in FlowtabInfos /\ new.table_dirty
  BY RecordPacketCases
<1>3. CASE Refused(info, new, p)
  <2>1. Stops(old, p.key) = {} /\ new.flowtab = old
    BY <1>3 DEF Refused
  <2>2. \E s \in Slots : old[s].key # NullKey
    <3>1. 0 \in 0 .. PNA_TABLE_TRIES - 1 /\ Probe(p.key, 0) \in Slots
      BY <1>0, ProbeInSlots
    <3>2. old[Probe(p.key, 0)].key # NullKey
      BY <2>1, <3>1 DEF Stops
    <3> QED BY <3>1, <3>2
  <2>3. InfoOK(new)
    <3> HIDE DEF new, old
    <3> QED BY <1>1, <1>2, <2>1, <2>2 DEF InfoOK
  <2> QED BY <2>3
<1>4. ASSUME NEW s \in Slots, NEW f \in FlowEntries, Placed(info, new, p, s, f)
      PROVE  InfoOK(new)
  <2> DEFINE tab == new.flowtab
  <2>1. /\ tab = [old EXCEPT ![s] = f]
        /\ f.key = p.key
        /\ f.seen = old[s].seen \cup {p}
        /\ old[s].key \in {p.key, NullKey}
    BY <1>4 DEF Placed
  <2>2. old \in [Slots -> FlowEntries]
    BY DEF FlowtabInfos, FlowTables
  <2>3. tab[s] = f /\ \A r \in Slots : r # s => tab[r] = old[r]
    <3> HIDE DEF tab, old
    <3> QED BY <2>1, <2>2
  <2>4. \E r \in Slots : tab[r].key # NullKey
    BY <1>0, <2>1, <2>3
  <2>5. \A r \in Slots : tab[r].key = NullKey => tab[r] = NullFlow
    <3> HIDE DEF tab, old
    <3> QED BY <1>0, <1>1, <2>1, <2>3
  <2>6. \A r \in Slots : \A q \in tab[r].seen : q.key = tab[r].key
    <3>1. \A q \in old[s].seen : q.key = p.key
      BY <1>1, <2>1 DEF NullFlow
    <3> HIDE DEF tab, old
    <3> QED BY <1>1, <2>1, <2>3, <3>1
  <2>7. Reachable(tab)
    <3> SUFFICES ASSUME NEW r \in Slots, tab[r].key # NullKey
                 PROVE  \E i \in 0 .. PNA_TABLE_TRIES - 1 :
                          Probe(tab[r].key, i) = r /\ TakenBefore(tab, tab[r].key, i)
      BY DEF Reachable
    <3> HIDE DEF tab, old
    <3>1. CASE r = s
      <4>1. PICK i \in 0 .. PNA_TABLE_TRIES - 1 :
               Probe(p.key, i) = s /\ TakenBefore(old, p.key, i)
        BY <1>4 DEF Placed, old
      <4>2. TakenBefore(tab, p.key, i)
        <5> SUFFICES ASSUME NEW j \in 0 .. i - 1
                     PROVE  tab[Probe(p.key, j)].key \notin {p.key, NullKey}
          BY DEF TakenBefore
        <5>1. Probe(p.key, j) \in Slots
          BY <1>0, ProbeInSlots
        <5>2. old[Probe(p.key, j)].key \notin {p.key, NullKey}
          BY <4>1 DEF TakenBefore
        <5>3. Probe(p.key, j) # s
          BY <2>1, <5>2
        <5> QED BY <2>3, <5>1, <5>2, <5>3
      <4> QED BY <2>1, <2>3, <3>1, <4>1, <4>2
    <3>2. CASE r # s
      <4>1. tab[r] = old[r]
        BY <2>3, <3>2
      <4> DEFINE k == old[r].key
      <4>2. k \in Keys
        BY <2>2, <4>1 DEF FlowEntries
      <4>3. PICK i \in 0 .. PNA_TABLE_TRIES - 1 :
               Probe(k, i) = r /\ TakenBefore(old, k, i)
        BY <1>1, <4>1 DEF Reachable
      <4>4. TakenBefore(tab, k, i)
        <5> SUFFICES ASSUME NEW j \in 0 .. i - 1
                     PROVE  tab[Probe(k, j)].key \notin {k, NullKey}
          BY DEF TakenBefore
        <5>1. Probe(k, j) \in Slots
          BY <4>2, ProbeInSlots
        <5>2. old[Probe(k, j)].key \notin {k, NullKey}
          BY <4>3 DEF TakenBefore
        <5>3. CASE Probe(k, j) = s
          <6>1. old[s].key = p.key /\ p.key # k
            BY <2>1, <5>2, <5>3
          <6> QED BY <1>0, <2>1, <2>3, <5>3, <6>1
        <5>4. CASE Probe(k, j) # s
          BY <2>3, <5>1, <5>2, <5>4
        <5> QED BY <5>3, <5>4
      <4> QED BY <4>1, <4>3, <4>4
    <3> QED BY <3>1, <3>2
  <2> HIDE DEF new
  <2> QED BY <1>2, <2>4, <2>5, <2>6, <2>7 DEF InfoOK
<1> QED BY <1>3, <1>4, RecordPacketCases

\* A table just opened for packet p, and p recorded in it: the packet that
\* begins a window always finds a place.
FirstRecord(p) == RecordPacket(OpenTable(CleanInfo, p.tv), p)

LEMMA FirstRecordOK ==
    ASSUME NEW p \in Packets
    PROVE  /\ FirstRecord(p) \in FlowtabInfos
           /\ FirstRecord(p).table_dirty
           /\ FirstRecord(p).read_mutex
           /\ FirstRecord(p).first_sec = p.tv
           /\ InfoOK(FirstRecord(p))
           /\ Stops(OpenTable(CleanInfo, p.tv).flowtab, p.key) # {}
           /\ \E s \in Slots, f \in FlowEntries :
                 /\ f.key = p.key
                 /\ f.seen = {p}
                 /\ f = Recorded(NullFlow, p)
                 /\ FirstRecord(p).flowtab = [CleanInfo.flowtab EXCEPT ![s] = f]
<1> DEFINE o == OpenTable(CleanInfo, p.tv)
<1>1. p.tv \in Nat /\ p.key \in Keys
  BY DEF Packets
<1>2. /\ o \in FlowtabInfos
      /\ o.table_dirty = TRUE
      /\ o.read_mutex = TRUE
      /\ o.first_sec = p.tv
      /\ o.flowtab = CleanInfo.flowtab
  <2>1. o = [CleanInfo EXCEPT !.read_mutex = TRUE, !.table_dirty = TRUE,
                              !.first_sec = p.tv]
    BY DEF OpenTable, CleanInfo
  <2>2. CleanInfo \in FlowtabInfos
    BY CleanInfoType
  <2> HIDE DEF o
  <2> QED BY <1>1, <2>1, <2>2 DEF FlowtabInfos
<1>3. \A s \in Slots : o.flowtab[s] = NullFlow
  BY <1>2 DEF CleanInfo
<1>4. NullFlow.key = NullKey /\ NullFlow.seen = {}
  BY DEF NullFlow
<1>5. Stops(o.flowtab, p.key) # {}
  <2>1. Probe(p.key, 0) \in Slots /\ 0 \in 0 .. PNA_TABLE_TRIES - 1
    BY <1>1, ProbeInSlots
  <2>2. o.flowtab[Probe(p.key, 0)].key = NullKey
    BY <1>3, <1>4, <2>1
  <2>3. 0 \in Stops(o.flowtab, p.key)
    <3> HIDE DEF o
    <3> QED BY <2>1, <2>2 DEF Stops
  <2> QED BY <2>3
<1> DEFINE new == RecordPacket(o, p)
<1>6. /\ new \in FlowtabInfos
      /\ new.table_dirty = TRUE
      /\ new.read_mutex = TRUE
      /\ new.first_sec = p.tv
      /\ \E s \in Slots, f \in FlowEntries : Placed(o, new, p, s, f)
  <2> HIDE DEF o
  <2>1. ~Refused(o, new, p)
    BY <1>5 DEF Refused
  <2> QED BY <1>2, <2>1, RecordPacketCases
<1>7. InfoOK(new)
  <2> HIDE DEF o
  <2> QED BY <1>2, RecordPacketOK
<1>8. \E s \in Slots, f \in FlowEntries :
        /\ f.key = p.key
        /\ f.seen = {p}
        /\ f = Recorded(NullFlow, p)
        /\ new.flowtab = [CleanInfo.flowtab EXCEPT ![s] = f]
  <2>1. PICK s \in Slots, f \in FlowEntries : Placed(o, new, p, s, f)
    BY <1>6
  <2> HIDE DEF new, o
  <2>2. f.key = p.key /\ f.seen = o.flowtab[s].seen \cup {p}
        /\ new.flowtab = [o.flowtab EXCEPT ![s] = f]
    BY <2>1 DEF Placed
  <2>3. f.seen = {p}
    BY <1>3, <1>4, <2>2
  <2>4. f = Recorded(NullFlow, p)
    BY <1>3, <2>1 DEF Placed
  <2> QED BY <1>2, <2>2, <2>3, <2>4
<1> HIDE DEF o
<1> QED BY <1>5, <1>6, <1>7, <1>8 DEF FirstRecord, o

-----------------------------------------------------------------------------
(* Steps.                                                                  *)

Inv ==
    /\ TypeOK
    /\ LockDiscipline
    /\ \A t \in Tables : InfoOK(flowtab_info[t])

AllClean == [t \in Tables |-> CleanInfo]

\* A packet begins a window in table t: every other table is clean.
BeginsIn(t, p) ==
    /\ flowtab_info' = [AllClean EXCEPT ![t] = FirstRecord(p)]
    /\ flowtab_idx' = t
    /\ UNCHANGED <<lock_misses, missed>>

\* With every table clean, the first table tried is the one taken.
LEMMA AcquireBegins ==
    ASSUME NEW t \in Tables, NEW p \in Packets,
           AcquireAndRecord(AllClean, t, p)
    PROVE  BeginsIn(t, p)
<1>1. FreeDistances(AllClean, t) = 0 .. pna_tables - 1
  <2>1. \A n \in 0 .. pna_tables - 1 : (t + n) % pna_tables \in Tables
    <3> SUFFICES ASSUME NEW n \in 0 .. pna_tables - 1
                 PROVE  (t + n) % pna_tables \in Tables
      OBVIOUS
    <3> DEFINE m == t + n
    <3>1. m \in Nat BY DEF Tables
    <3> HIDE DEF m
    <3>2. m % pna_tables \in Tables BY <3>1 DEF Tables
    <3> QED BY <3>2 DEF m
  <2>2. \A u \in Tables : AllClean[u].read_mutex = FALSE
    BY DEF AllClean, CleanInfo
  <2> QED BY <2>1, <2>2 DEF FreeDistances
<1>2. Min(FreeDistances(AllClean, t)) = 0
  <2> DEFINE S == 0 .. pna_tables - 1
  <2>1. S \in SUBSET Nat /\ 0 \in S
    OBVIOUS
  <2>2. Min(S) \in S /\ \A y \in S : Min(S) <= y
    BY <2>1, LeastNat
  <2>3. Min(S) = 0
    <3> DEFINE m == Min(S)
    <3>1. m \in S /\ m <= 0 BY <2>1, <2>2
    <3> HIDE DEF m
    <3>2. m = 0 BY <3>1
    <3> QED BY <3>2 DEF m
  <2> QED BY <1>1, <2>3
<1>3. (t + 0) % pna_tables = t
  BY DEF Tables
<1>4. FreeDistances(AllClean, t) # {}
  <2>1. 0 \in 0 .. pna_tables - 1
    OBVIOUS
  <2> QED BY <1>1, <2>1
<1>5. AllClean[t] = CleanInfo
  BY DEF AllClean
<1> QED
  BY <1>2, <1>3, <1>4, <1>5, FirstRecordOK
  DEF AcquireAndRecord, BeginsIn, FirstRecord

\* A packet either joins the open window or begins one; when it begins one
\* while another is open, that one was dumped first.
LEMMA HookCases ==
    ASSUME Inv, NEW p \in Packets, flowmon_hook(p)
    PROVE  \/ HookActive(p)
           \/ /\ ~flowtab_info[flowtab_idx].table_dirty
              /\ BeginsIn(flowtab_idx, p)
              /\ UNCHANGED <<logs, lost, wall>>
           \/ /\ flowtab_info[flowtab_idx].table_dirty
              /\ Expired(flowtab_info[flowtab_idx], p.tv)
              /\ BeginsIn((flowtab_idx + 1) % pna_tables, p)
              /\ (flowtab_idx + 1) % pna_tables \in Tables
              /\ \E O \in SUBSET {flowtab_idx} : DumpTo({flowtab_idx}, O, p.tv)
<1> USE DEF Inv, TypeOK
<1>1. \A t \in Tables : ~flowtab_info[t].table_dirty => flowtab_info[t] = CleanInfo
  BY DEF InfoOK
<1>2. \A t \in Tables : t # flowtab_idx => ~flowtab_info[t].table_dirty
  BY DEF LockDiscipline
<1>3. CASE HookFresh(p)
  <2>1. ~flowtab_info[flowtab_idx].table_dirty
    BY <1>3 DEF HookFresh
  <2>2. \A t \in Tables : flowtab_info[t] = CleanInfo
    BY <1>1, <1>2, <2>1
  <2>3. flowtab_info = AllClean
    BY <2>2 DEF AllClean
  <2>4. BeginsIn(flowtab_idx, p)
    BY <1>3, <2>3, AcquireBegins DEF HookFresh
  <2> QED BY <1>3, <2>1, <2>4 DEF HookFresh
<1>4. CASE HookRotate(p)
  <2> DEFINE t == flowtab_idx
             infos == [flowtab_info EXCEPT ![t] = CleanInfo]
             u == (t + 1) % pna_tables
  <2>1. u \in Tables
    BY DEF Tables
  <2>2. infos = AllClean
    <3>1. \A v \in Tables : infos[v] = CleanInfo
      BY <1>1, <1>2
    <3> QED BY <3>1 DEF AllClean
  <2>3. AcquireAndRecord(infos, u, p)
    BY <1>4 DEF HookRotate
  <2>4. BeginsIn(u, p)
    <3> HIDE DEF u, infos
    <3> QED BY <2>1, <2>2, <2>3, AcquireBegins
  <2> QED BY <1>4, <2>1, <2>4 DEF HookRotate
<1> QED BY <1>3, <1>4 DEF flowmon_hook

\* Both kinds of hook step keep the tables in order.
LEMMA BeginsOK ==
    ASSUME NEW t \in Tables, NEW p \in Packets, BeginsIn(t, p)
    PROVE  /\ flowtab_info' \in [Tables -> FlowtabInfos]
           /\ flowtab_info'[t] = FirstRecord(p)
           /\ \A u \in Tables : u # t => flowtab_info'[u] = CleanInfo
           /\ \A u \in Tables : InfoOK(flowtab_info'[u])
           /\ \A u \in Tables :
                /\ flowtab_info'[u].read_mutex <=> flowtab_info'[u].table_dirty
                /\ flowtab_info'[u].table_dirty => u = t
<1>1. flowtab_info' = [AllClean EXCEPT ![t] = FirstRecord(p)]
  BY DEF BeginsIn
<1>2. /\ flowtab_info'[t] = FirstRecord(p)
      /\ \A u \in Tables : u # t => flowtab_info'[u] = CleanInfo
  BY <1>1 DEF AllClean
<1>3. flowtab_info' \in [Tables -> FlowtabInfos]
  BY <1>1, CleanInfoType, FirstRecordOK DEF AllClean
<1> QED BY <1>2, <1>3, CleanInfoOK, FirstRecordOK

LEMMA ActiveOK ==
    ASSUME Inv, NEW p \in Packets, HookActive(p)
    PROVE  /\ flowtab_info' \in [Tables -> FlowtabInfos]
           /\ missed' \subseteq Packets
           /\ LockDiscipline'
           /\ \A u \in Tables : InfoOK(flowtab_info'[u])
<1> USE DEF Inv, TypeOK
<1> DEFINE t == flowtab_idx
           info == flowtab_info[t]
           new == RecordPacket(info, p)
<1>1. /\ info.table_dirty
      /\ flowtab_info' = [flowtab_info EXCEPT ![t] = new]
      /\ UNCHANGED <<flowtab_idx, lock_misses>>
      /\ missed' \in {missed, missed \cup {p}}
  BY DEF HookActive
<1>2. info \in FlowtabInfos /\ InfoOK(info)
  OBVIOUS
<1>3. new \in FlowtabInfos /\ InfoOK(new)
      /\ new.table_dirty = info.table_dirty
      /\ new.read_mutex = info.read_mutex
  <2> HIDE DEF info
  <2> QED BY <1>1, <1>2, RecordPacketCases, RecordPacketOK
<1> HIDE DEF new
<1>4. flowtab_info'[t] = new /\ \A u \in Tables : u # t => flowtab_info'[u] = flowtab_info[u]
  BY <1>1
<1>5. LockDiscipline'
  <2>1. flowtab_idx' = flowtab_idx /\ lock_misses' = 0
    BY <1>1 DEF LockDiscipline
  <2>2. ASSUME NEW u \in Tables
        PROVE  /\ flowtab_info'[u].read_mutex <=> flowtab_info'[u].table_dirty
               /\ flowtab_info'[u].table_dirty => u = flowtab_idx
    <3>1. CASE u = t
      BY <1>3, <1>4, <3>1 DEF LockDiscipline
    <3>2. CASE u # t
      BY <1>4, <3>2 DEF LockDiscipline
    <3> QED BY <3>1, <3>2
  <2> QED BY <2>1, <2>2 DEF LockDiscipline
<1> QED BY <1>1, <1>3, <1>4, <1>5

\* A dump writes entries of the table, and loses packets of the table.
LEMMA DumpType ==
    ASSUME TypeOK, NEW T \in SUBSET Tables, NEW O \in SUBSET T, NEW now \in Nat,
           DumpTo(T, O, now)
    PROVE  logs' \subseteq LogFiles /\ lost' \subseteq Packets /\ wall' \in Nat
<1>1. \A t \in Tables : /\ ActiveFlows(flowtab_info[t].flowtab) \subseteq FlowEntries
                         /\ flowtab_info[t].first_sec \in Nat
  BY DEF TypeOK, FlowtabInfos, FlowTables, ActiveFlows
<1>2. \A t \in Tables : SeenIn(ActiveFlows(flowtab_info[t].flowtab)) \subseteq Packets
  BY <1>1 DEF SeenIn, FlowEntries
<1>3. wall' \in Nat /\ wall' - 1 \in Nat
  <2>1. wall' \in TimesOfDay
    BY DEF DumpTo
  <2>2. wall' \in Nat /\ wall' # 0
    BY <2>1, InputAssumption
  <2>3. \A n \in Nat : n # 0 => n - 1 \in Nat
    OBVIOUS
  <2> QED BY <2>2, <2>3
<1>4. logs' \subseteq LogFiles
  BY <1>1, <1>3 DEF DumpTo, LogFiles, TypeOK
<1>5. lost' \subseteq Packets
  BY <1>2 DEF DumpTo, TypeOK
<1> QED BY <1>3, <1>4, <1>5

-----------------------------------------------------------------------------
(* The invariant.                                                          *)

LEMMA InvInit == Init => Inv
<1> SUFFICES ASSUME Init PROVE Inv
  OBVIOUS
<1>1. \A t \in Tables : flowtab_info[t] = CleanInfo
  BY DEF Init
<1>2. TypeOK
  <2>1. 0 \in Tables
    BY DEF Tables
  <2> QED BY <2>1, CleanInfoType DEF Init, TypeOK
<1> QED BY <1>1, <1>2, CleanInfoOK DEF Inv, LockDiscipline, Init

LEMMA InvHook ==
    ASSUME Inv, NEW p \in Packets, flowmon_hook(p)
    PROVE  Inv'
<1>1. /\ running' = running
      /\ clock' = p.tv
      /\ npkts' = npkts + 1
      /\ npkts < MaxPackets
      /\ p.tv \in Nat
  BY DEF flowmon_hook, Packets
<1>2. running' \in BOOLEAN /\ clock' \in Nat /\ npkts' \in 0 .. MaxPackets
  BY <1>1 DEF Inv, TypeOK
<1>3. CASE HookActive(p)
  <2>1. UNCHANGED <<flowtab_idx, lock_misses, logs, lost, wall>>
    BY <1>3 DEF HookActive
  <2> QED BY <1>2, <1>3, <2>1, ActiveOK DEF Inv, TypeOK
<1>4. ASSUME NEW t \in Tables, BeginsIn(t, p),
             logs' \subseteq LogFiles, lost' \subseteq Packets, wall' \in Nat
      PROVE  Inv'
  <2>1. flowtab_idx' = t /\ lock_misses' = lock_misses /\ missed' = missed
    BY <1>4 DEF BeginsIn
  <2>2. LockDiscipline'
    BY <1>4, <2>1, BeginsOK DEF LockDiscipline, Inv
  <2> QED BY <1>2, <1>4, <2>1, <2>2, BeginsOK DEF Inv, TypeOK
<1>5. CASE /\ BeginsIn(flowtab_idx, p)
           /\ UNCHANGED <<logs, lost, wall>>
  BY <1>4, <1>5 DEF Inv, TypeOK
<1>6. CASE /\ BeginsIn((flowtab_idx + 1) % pna_tables, p)
           /\ (flowtab_idx + 1) % pna_tables \in Tables
           /\ \E O \in SUBSET {flowtab_idx} : DumpTo({flowtab_idx}, O, p.tv)
  <2>1. logs' \subseteq LogFiles /\ lost' \subseteq Packets /\ wall' \in Nat
    <3>1. TypeOK /\ {flowtab_idx} \in SUBSET Tables
      BY DEF Inv, TypeOK
    <3>2. PICK O \in SUBSET {flowtab_idx} : DumpTo({flowtab_idx}, O, p.tv)
      BY <1>6
    <3> QED BY <1>1, <3>1, <3>2, DumpType
  <2> QED BY <1>4, <1>6, <2>1
<1> QED BY <1>3, <1>5, <1>6, HookCases

LEMMA InvCleanup ==
    ASSUME Inv, flowmon_cleanup
    PROVE  Inv' /\ flowtab_info' = AllClean
<1> USE DEF Inv, TypeOK
<1>1. \A t \in Tables : flowtab_info'[t] = CleanInfo
  BY DEF flowmon_cleanup, DirtyTables, InfoOK
<1>2. flowtab_info' = AllClean
  BY <1>1 DEF flowmon_cleanup, AllClean
<1>3. PICK O \in SUBSET DirtyTables : DumpTo(DirtyTables, O, clock)
  BY DEF flowmon_cleanup
<1>4. logs' \subseteq LogFiles /\ lost' \subseteq Packets /\ wall' \in Nat
  <2>1. DirtyTables \in SUBSET Tables
    BY DEF DirtyTables
  <2>2. TypeOK /\ clock \in Nat
    OBVIOUS
  <2> HIDE DEF Inv, TypeOK
  <2> QED BY <1>3, <2>1, <2>2, DumpType
<1>5. flowtab_info' \in [Tables -> FlowtabInfos]
  BY <1>2, CleanInfoType DEF AllClean
<1>6. LockDiscipline'
  BY <1>1, CleanInfoOK DEF LockDiscipline, flowmon_cleanup
<1>7. TypeOK'
  BY <1>4, <1>5 DEF flowmon_cleanup
<1>8. \A t \in Tables : InfoOK(flowtab_info'[t])
  BY <1>1, CleanInfoOK
<1> QED BY <1>2, <1>6, <1>7, <1>8

LEMMA PacketStep ==
    ASSUME TypeOK, NextPacket
    PROVE  \E p \in Packets : p.id = npkts /\ flowmon_hook(p)
<1>1. PICK k \in Keys, d \in Directions, tv \in Seconds, l \in PktLens,
           fl \in SUBSET FlagBits :
         flowmon_hook([id |-> npkts, key |-> k, dir |-> d, tv |-> tv,
                       len |-> l, flags |-> fl])
  BY DEF NextPacket
<1> DEFINE p == [id |-> npkts, key |-> k, dir |-> d, tv |-> tv,
                 len |-> l, flags |-> fl]
<1>2. npkts < MaxPackets
  BY <1>1 DEF flowmon_hook
<1>3. p \in Packets /\ p.id = npkts
  BY <1>2 DEF Packets, TypeOK
<1> QED BY <1>1, <1>3

LEMMA InvNext == Inv /\ [Next]_vars => Inv'
<1> SUFFICES ASSUME Inv, [Next]_vars PROVE Inv'
  OBVIOUS
<1>1. CASE NextPacket
  BY <1>1, PacketStep, InvHook DEF Inv
<1>2. CASE flowmon_cleanup
  BY <1>2, InvCleanup
<1>3. CASE UNCHANGED vars
  BY <1>3 DEF vars, Inv, TypeOK, LockDiscipline
<1> QED BY <1>1, <1>2, <1>3 DEF Next

LEMMA InvAlways == Spec => []Inv
BY InvInit, InvNext, PTL DEF Spec

\* The state of the flow monitor is well formed in every reachable state:
\* counters fit their words and flowtab_idx names a table.
THEOREM Typing == Spec => []TypeOK
<1>1. Inv => TypeOK
  BY DEF Inv
<1> QED BY <1>1, InvAlways, PTL

\* flowtab_get never finds all tables locked: a table is locked exactly while
\* it is dirty, and only the table flowtab_idx names ever is.
THEOREM Locking == Spec => []LockDiscipline
<1>1. Inv => LockDiscipline
  BY DEF Inv
<1> QED BY <1>1, InvAlways, PTL

\* Two slots of one table never hold the same flow: if they did, the probe
\* sequence of that flow would meet the flow before the later of the two,
\* which lies behind slots taken by other flows only.
LEMMA ReachableUnique ==
    ASSUME NEW tab \in FlowTables, Reachable(tab),
           NEW r \in Slots, NEW s \in Slots,
           tab[r].key = tab[s].key, tab[r].key # NullKey
    PROVE  r = s
<1> DEFINE k == tab[r].key
<1>1. PICK i \in 0 .. PNA_TABLE_TRIES - 1 : Probe(k, i) = r /\ TakenBefore(tab, k, i)
  BY DEF Reachable
<1>2. PICK j \in 0 .. PNA_TABLE_TRIES - 1 : Probe(k, j) = s /\ TakenBefore(tab, k, j)
  BY DEF Reachable
<1>3. ~(i < j) /\ ~(j < i)
  BY <1>1, <1>2 DEF TakenBefore
<1>4. i = j
  BY <1>3
<1> QED BY <1>1, <1>2, <1>4

\* flowmon_hook never splits a flow over two slots of a table.
THEOREM NoSplitFlows == Spec => []UniqueFlows
<1>1. Inv => UniqueFlows
  <2> SUFFICES ASSUME Inv, NEW t \in Tables, NEW r \in Slots, NEW s \in Slots,
                      flowtab_info[t].flowtab[r].key = flowtab_info[t].flowtab[s].key,
                      flowtab_info[t].flowtab[r].key # NullKey
               PROVE  r = s
    BY DEF UniqueFlows
  <2>1. flowtab_info[t].flowtab \in FlowTables /\ Reachable(flowtab_info[t].flowtab)
    BY DEF Inv, TypeOK, FlowtabInfos, InfoOK
  <2> QED BY <2>1, ReachableUnique
<1> QED BY <1>1, InvAlways, PTL

-----------------------------------------------------------------------------
(* Packets: what a step does to those in the tables, the logs and the      *)
(* histories.                                                              *)

SeenInTables(infos) == SeenIn(UNION {ActiveFlows(infos[t].flowtab) : t \in Tables})

\* The packets counted in the tables are those seen by some slot: a free slot
\* has seen none.
LEMMA SeenInSlots ==
    ASSUME NEW infos, \A t \in Tables : InfoOK(infos[t])
    PROVE  \A p : p \in SeenInTables(infos) <=>
                  \E t \in Tables, s \in Slots : p \in infos[t].flowtab[s].seen
<1>1. ASSUME NEW t \in Tables, NEW s \in Slots, NEW p, p \in infos[t].flowtab[s].seen
      PROVE  infos[t].flowtab[s].key # NullKey
  BY <1>1 DEF InfoOK, NullFlow
<1>2. ASSUME NEW t \in Tables, NEW p
      PROVE  p \in SeenIn(ActiveFlows(infos[t].flowtab)) <=>
             \E s \in Slots : p \in infos[t].flowtab[s].seen
  BY <1>1 DEF SeenIn, ActiveFlows
<1>3. ASSUME NEW p
      PROVE  p \in SeenInTables(infos) <=>
             \E t \in Tables : p \in SeenIn(ActiveFlows(infos[t].flowtab))
  BY DEF SeenInTables, SeenIn
<1> QED BY <1>2, <1>3

\* The window that is open: its table, its log if the step dumps it, and what
\* its slots have seen.
Current == flowtab_info[flowtab_idx]

WindowLog(now) ==
    [table_id |-> flowtab_idx, first_sec |-> Current.first_sec, at |-> wall' - 1,
     closed |-> now, flows |-> ActiveFlows(Current.flowtab)]

\* The slots afterwards: one has gained p, all are as before, only one has
\* seen anything, none has.
Gains(t, s, p) ==
    \A u \in Tables, r \in Slots :
        flowtab_info'[u].flowtab[r].seen =
            IF u = t /\ r = s THEN flowtab_info[u].flowtab[r].seen \cup {p}
            ELSE flowtab_info[u].flowtab[r].seen
Keeps ==
    \A u \in Tables, r \in Slots :
        flowtab_info'[u].flowtab[r].seen = flowtab_info[u].flowtab[r].seen
Only(t, s, p) ==
    \A u \in Tables, r \in Slots :
        flowtab_info'[u].flowtab[r].seen = IF u = t /\ r = s THEN {p} ELSE {}

\* Dumping the window: it is logged or lost as a whole.
Dumped(now) ==
    /\ wall' \in TimesOfDay
    /\ (Monotone /\ ~Replay) => wall' >= now
    /\ \/ logs' = logs \cup {WindowLog(now)} /\ lost' = lost
       \/ logs' = logs /\ lost' = lost \cup Pending
Flushed(now) ==
    \/ ~Current.table_dirty /\ logs' = logs /\ lost' = lost
    \/ Current.table_dirty /\ Dumped(now)

\* The three effects of flowmon_hook, and that of flowmon_cleanup.
Same == flowtab_idx' = flowtab_idx /\ flowtab_info'[flowtab_idx].first_sec = Current.first_sec
Open(p) == Current.table_dirty /\ ~Expired(Current, p.tv)
Joins(p) ==
    /\ Open(p) /\ Same
    /\ \E s \in Slots : Gains(flowtab_idx, s, p)
    /\ UNCHANGED <<logs, lost, missed>>
IsMissed(p) ==
    /\ Open(p) /\ Same /\ Keeps
    /\ \A s \in Slots : Current.flowtab[s].key # p.key
    /\ missed' = missed \cup {p}
    /\ UNCHANGED <<logs, lost>>
Begins(p) ==
    /\ flowtab_idx' \in Tables /\ flowtab_info'[flowtab_idx'].first_sec = p.tv
    /\ \E s \in Slots : Only(flowtab_idx', s, p)
    /\ missed' = missed
    /\ Flushed(p.tv)
    /\ Current.table_dirty =>
           /\ Expired(Current, p.tv)
           /\ flowtab_idx' = (flowtab_idx + 1) % pna_tables
CleansUp ==
    /\ \A u \in Tables : flowtab_info'[u] = CleanInfo
    /\ flowtab_idx' = flowtab_idx /\ missed' = missed /\ running /\ ~running'
    /\ Flushed(clock)

\* All packets in the tables are in the table in use.
LEMMA WindowPending ==
    ASSUME Inv
    PROVE  Pending = SeenIn(ActiveFlows(Current.flowtab))
<1>1. flowtab_idx \in Tables
  BY DEF Inv, TypeOK
<1>2. ASSUME NEW t \in Tables, t # flowtab_idx
      PROVE  ActiveFlows(flowtab_info[t].flowtab) = {}
  <2>1. flowtab_info[t] = CleanInfo
    BY <1>2 DEF Inv, LockDiscipline, InfoOK
  <2> QED BY <2>1 DEF CleanInfo, ActiveFlows, NullFlow
<1>3. AllFlows = ActiveFlows(Current.flowtab)
  BY <1>1, <1>2 DEF AllFlows, Current
<1> QED BY <1>3 DEF Pending

\* A dump of the table in use logs or loses the window.
LEMMA DumpEffect ==
    ASSUME Inv, NEW O \in SUBSET {flowtab_idx}, NEW now, DumpTo({flowtab_idx}, O, now)
    PROVE  Dumped(now)
<1>1. Pending = SeenIn(ActiveFlows(Current.flowtab))
  BY WindowPending
<1> USE DEF DumpTo
<1>2. CASE O = {}
  <2>1. logs' = logs
    BY <1>2
  <2>2. lost' = lost \cup UNION {SeenIn(ActiveFlows(flowtab_info[t].flowtab)) : t \in {flowtab_idx}}
    BY <1>2 DEF DumpTo
  <2>3. lost' = lost \cup Pending
    BY <1>1, <2>2 DEF Current
  <2> QED BY <2>1, <2>3 DEF Dumped
<1>3. CASE O = {flowtab_idx}
  BY <1>3 DEF DumpTo, Dumped, WindowLog, Current
<1> QED BY <1>2, <1>3

\* What flowmon_hook does to the packets: p joins the window, is missed, or
\* begins a new window after the old one is flushed.
LEMMA HookEffect ==
    ASSUME Inv, NEW p \in Packets, flowmon_hook(p)
    PROVE  Joins(p) \/ IsMissed(p) \/ Begins(p)
<1>1. /\ flowtab_idx \in Tables
      /\ flowtab_info \in [Tables -> FlowtabInfos]
      /\ \A t \in Tables : InfoOK(flowtab_info[t])
  BY DEF Inv, TypeOK
<1>2. p.key \in Keys
  BY DEF Packets
<1>3. CASE HookActive(p)
  <2> DEFINE t == flowtab_idx
             new == RecordPacket(Current, p)
  <2>1. /\ Open(p)
        /\ flowtab_info' = [flowtab_info EXCEPT ![t] = new]
        /\ flowtab_idx' = flowtab_idx /\ logs' = logs /\ lost' = lost
        /\ missed' = IF Stops(Current.flowtab, p.key) = {} THEN missed \cup {p} ELSE missed
    BY <1>3 DEF HookActive, Current, Open
  <2>2. Current \in FlowtabInfos /\ InfoOK(Current)
    BY <1>1 DEF Current
  <2>3. /\ new.first_sec = Current.first_sec
        /\ \/ Refused(Current, new, p)
           \/ /\ Stops(Current.flowtab, p.key) # {}
              /\ \E s \in Slots, f \in FlowEntries : Placed(Current, new, p, s, f)
    BY <2>2, RecordPacketCases
  <2> HIDE DEF new
  <2>4. flowtab_info'[t] = new /\ \A u \in Tables : u # t => flowtab_info'[u] = flowtab_info[u]
    BY <1>1, <2>1
  <2>5. Same
    BY <2>1, <2>3, <2>4 DEF Same
  <2>6. CASE Refused(Current, new, p)
    <3>1. Stops(Current.flowtab, p.key) = {} /\ new.flowtab = Current.flowtab
      BY <2>6 DEF Refused
    <3>2. Keeps
      BY <2>4, <3>1 DEF Keeps, Current
    <3>3. ASSUME NEW s \in Slots, Current.flowtab[s].key = p.key PROVE FALSE
      <4>1. PICK i \in 0 .. PNA_TABLE_TRIES - 1 : Probe(p.key, i) = s
        BY <1>2, <2>2, <3>3, KeyAssumption DEF InfoOK, Reachable
      <4>2. i \in Stops(Current.flowtab, p.key)
        BY <3>3, <4>1 DEF Stops
      <4> QED BY <3>1, <4>2
    <3> QED BY <2>1, <2>5, <3>1, <3>2, <3>3 DEF IsMissed
  <2>7. ASSUME NEW s \in Slots, NEW f \in FlowEntries, Placed(Current, new, p, s, f),
               Stops(Current.flowtab, p.key) # {}
        PROVE  Joins(p)
    <3>1. new.flowtab = [Current.flowtab EXCEPT ![s] = f]
          /\ f.seen = Current.flowtab[s].seen \cup {p}
      BY <2>7 DEF Placed
    <3>2. Current.flowtab \in [Slots -> FlowEntries]
      BY <2>2 DEF FlowtabInfos, FlowTables
    <3>3. \A r \in Slots : new.flowtab[r] = IF r = s THEN f ELSE Current.flowtab[r]
      BY <3>1, <3>2
    <3>4. Gains(t, s, p)
      BY <2>4, <3>1, <3>3 DEF Gains, Current
    <3> QED BY <2>1, <2>5, <2>7, <3>4 DEF Joins
  <2> QED BY <2>3, <2>6, <2>7
<1>4. ASSUME NEW t \in Tables, BeginsIn(t, p), Flushed(p.tv),
             Current.table_dirty =>
               Expired(Current, p.tv) /\ t = (flowtab_idx + 1) % pna_tables
      PROVE  Begins(p)
  <2>1. flowtab_idx' = t /\ missed' = missed
    BY <1>4 DEF BeginsIn
  <2>2. /\ flowtab_info'[t] = FirstRecord(p)
        /\ \A u \in Tables : u # t => flowtab_info'[u] = CleanInfo
    BY <1>4, BeginsOK
  <2>3. FirstRecord(p).first_sec = p.tv
    BY FirstRecordOK
  <2>4. PICK s \in Slots, f \in FlowEntries :
          /\ f.key = p.key
          /\ f.seen = {p}
          /\ FirstRecord(p).flowtab = [CleanInfo.flowtab EXCEPT ![s] = f]
    BY ONLY FirstRecordOK, p \in Packets
  <2>5. \A r \in Slots : CleanInfo.flowtab[r].seen = {}
    BY DEF CleanInfo, NullFlow
  <2>6. \A r \in Slots : FirstRecord(p).flowtab[r].seen = IF r = s THEN {p} ELSE {}
    BY <2>4, <2>5 DEF CleanInfo
  <2>7. Only(t, s, p)
    BY <2>2, <2>5, <2>6 DEF Only
  <2> QED BY <1>4, <2>1, <2>2, <2>3, <2>7 DEF Begins
<1>5. CASE /\ ~flowtab_info[flowtab_idx].table_dirty
           /\ BeginsIn(flowtab_idx, p)
           /\ UNCHANGED <<logs, lost, wall>>
  BY <1>1, <1>4, <1>5 DEF Flushed, Current
<1>6. CASE /\ flowtab_info[flowtab_idx].table_dirty
           /\ Expired(flowtab_info[flowtab_idx], p.tv)
           /\ BeginsIn((flowtab_idx + 1) % pna_tables, p)
           /\ (flowtab_idx + 1) % pna_tables \in Tables
           /\ \E O \in SUBSET {flowtab_idx} : DumpTo({flowtab_idx}, O, p.tv)
  <2>1. Dumped(p.tv)
    BY <1>6, DumpEffect
  <2> QED BY <1>4, <1>6, <2>1 DEF Flushed, Current
<1> QED BY <1>3, <1>5, <1>6, HookCases

\* flowmon_cleanup flushes the window and leaves all tables clean.
LEMMA CleanupEffect ==
    ASSUME Inv, flowmon_cleanup
    PROVE  CleansUp
<1>1. flowtab_idx \in Tables
  BY DEF Inv, TypeOK
<1>2. \A u \in Tables : flowtab_info'[u] = CleanInfo
  BY InvCleanup DEF AllClean
<1>3. PICK O \in SUBSET DirtyTables : DumpTo(DirtyTables, O, clock)
  BY DEF flowmon_cleanup
<1>4. DirtyTables = IF Current.table_dirty THEN {flowtab_idx} ELSE {}
  BY <1>1 DEF DirtyTables, Inv, LockDiscipline, Current
<1>5. CASE Current.table_dirty
  <2>1. Dumped(clock)
    BY <1>3, <1>4, <1>5, DumpEffect
  <2> QED BY <1>2, <1>5, <2>1 DEF CleansUp, Flushed, flowmon_cleanup
<1>6. CASE ~Current.table_dirty
  <2>1. DirtyTables = {} /\ O = {}
    BY <1>4, <1>6
  <2>2. logs' = logs /\ lost' = lost
    BY <1>3, <2>1 DEF DumpTo
  <2> QED BY <1>2, <1>6, <2>2 DEF CleansUp, Flushed, flowmon_cleanup
<1> QED BY <1>5, <1>6

\* A table in use that is dirty has counted a packet: the one that opened it.
WindowInv == Current.table_dirty => Pending # {}

\* While the table in use is clean no packet waits in a table.
LEMMA CleanMeansEmpty ==
    ASSUME Inv, ~Current.table_dirty
    PROVE  Pending = {}
<1>1. \A t \in Tables : flowtab_info[t] = CleanInfo
  BY DEF Inv, TypeOK, LockDiscipline, InfoOK, Current
<1>2. \A s \in Slots : CleanInfo.flowtab[s].seen = {}
  BY DEF CleanInfo, NullFlow
<1>3. Pending = SeenInTables(flowtab_info) /\ \A t \in Tables : InfoOK(flowtab_info[t])
  BY DEF Pending, AllFlows, SeenInTables, Inv
<1> QED BY <1>1, <1>2, <1>3, SeenInSlots

\* What the steps do to the packets in the tables.
LEMMA PendingEffect ==
    ASSUME Inv, Inv'
    PROVE  /\ \A p : p \in Pending <=>
                     \E t \in Tables, s \in Slots : p \in flowtab_info[t].flowtab[s].seen
           /\ \A p : Joins(p) => Pending' = Pending \cup {p}
           /\ \A p : IsMissed(p) => Pending' = Pending
           /\ \A p : Begins(p) => Pending' = {p}
           /\ CleansUp => Pending' = {}
<1>1. \A p : p \in Pending <=>
             \E t \in Tables, s \in Slots : p \in flowtab_info[t].flowtab[s].seen
  <2>1. Pending = SeenInTables(flowtab_info) /\ \A t \in Tables : InfoOK(flowtab_info[t])
    BY DEF Pending, AllFlows, SeenInTables, Inv
  <2> QED BY <2>1, SeenInSlots
<1>2. \A p : p \in Pending' <=>
             \E t \in Tables, s \in Slots : p \in flowtab_info'[t].flowtab[s].seen
  <2>1. Pending' = SeenInTables(flowtab_info') /\ \A t \in Tables : InfoOK(flowtab_info'[t])
    BY DEF Pending, AllFlows, SeenInTables, Inv
  <2> QED BY <2>1, SeenInSlots
<1>3. flowtab_idx \in Tables
  BY DEF Inv, TypeOK
<1>4. ASSUME NEW p, Joins(p) PROVE Pending' = Pending \cup {p}
  <2>1. PICK s \in Slots : Gains(flowtab_idx, s, p)
    BY <1>4 DEF Joins
  <2>2. ASSUME NEW q PROVE q \in Pending' <=> (q \in Pending \/ q = p)
    <3>1. \A u \in Tables, r \in Slots :
            q \in flowtab_info'[u].flowtab[r].seen <=>
            \/ q \in flowtab_info[u].flowtab[r].seen
            \/ u = flowtab_idx /\ r = s /\ q = p
      BY <2>1 DEF Gains
    <3> QED BY <1>1, <1>2, <1>3, <3>1
  <2> QED BY <2>2
<1>5. ASSUME NEW p, IsMissed(p) PROVE Pending' = Pending
  BY <1>1, <1>2, <1>5 DEF IsMissed, Keeps
<1>6. ASSUME NEW p, Begins(p) PROVE Pending' = {p}
  <2>1. flowtab_idx' \in Tables
    BY <1>6 DEF Begins
  <2>2. PICK s \in Slots : Only(flowtab_idx', s, p)
    BY <1>6 DEF Begins
  <2> QED BY <1>2, <2>1, <2>2 DEF Only
<1>7. ASSUME CleansUp PROVE Pending' = {}
  BY <1>2, <1>7 DEF CleansUp, CleanInfo, NullFlow
<1> QED BY <1>1, <1>4, <1>5, <1>6, <1>7

\* Every step keeps WindowInv.
LEMMA WindowStep ==
    ASSUME Inv, WindowInv, [Next]_vars
    PROVE  WindowInv'
<1>1. Inv'
  BY InvNext
<1>2. ASSUME NEW p \in Packets, flowmon_hook(p) PROVE WindowInv'
  BY <1>1, <1>2, HookEffect, PendingEffect DEF WindowInv, Joins, IsMissed, Begins, Open
<1>3. CASE flowmon_cleanup
  <2>1. CleansUp /\ flowtab_idx \in Tables
    BY <1>3, CleanupEffect DEF Inv, TypeOK
  <2> QED BY <2>1, CleanInfoOK DEF CleansUp, WindowInv, Current
<1>4. CASE UNCHANGED vars
  BY <1>4 DEF vars, WindowInv, Current, Pending, AllFlows
<1>5. CASE NextPacket
  BY <1>2, <1>5, PacketStep DEF Inv
<1> QED BY <1>3, <1>4, <1>5 DEF Next

\* A flush moves the packets of the window to the logs or to the lost ones.
LEMMA FlushEffect ==
    ASSUME Inv, NEW now, Flushed(now)
    PROVE  \/ Pending = {} /\ logs' = logs /\ Logged' = Logged /\ lost' = lost
           \/ /\ logs' = logs \cup {WindowLog(now)} /\ SeenIn(WindowLog(now).flows) = Pending
              /\ Logged' = Logged \cup Pending /\ lost' = lost
           \/ logs' = logs /\ Logged' = Logged /\ lost' = lost \cup Pending
<1>1. Pending = SeenIn(ActiveFlows(Current.flowtab))
  BY WindowPending
<1>2. logs' = logs => Logged' = Logged
  BY DEF Logged, LoggedFlows
<1>3. SeenIn(WindowLog(now).flows) = Pending
  BY <1>1 DEF WindowLog
<1>4. ASSUME logs' = logs \cup {WindowLog(now)} PROVE Logged' = Logged \cup Pending
  BY <1>3, <1>4 DEF Logged, LoggedFlows, SeenIn
<1> QED BY <1>2, <1>3, <1>4, CleanMeansEmpty DEF Flushed, Dumped

-----------------------------------------------------------------------------
(* Every packet exactly once.                                              *)

Known == Pending \cup Logged \cup lost \cup missed

\* The slots of the tables, and the entries of the logs, share no packets.
SlotsApart ==
    \A t, u \in Tables, r, s \in Slots :
        \/ t = u /\ r = s
        \/ flowtab_info[t].flowtab[r].seen \cap flowtab_info[u].flowtab[s].seen = {}
EntriesApart ==
    \A l, m \in logs : \A f \in l.flows, g \in m.flows :
        (l = m /\ f = g) \/ f.seen \cap g.seen = {}

\* No packet has come yet.
LEMMA ExactlyOnceInit == Init => ExactlyOnce
<1> SUFFICES ASSUME Init PROVE ExactlyOnce
  OBVIOUS
<1>1. \A t \in Tables : flowtab_info[t] = CleanInfo
  BY DEF Init
<1>2. \A s \in Slots : CleanInfo.flowtab[s] = NullFlow
  BY DEF CleanInfo
<1>3. Pending = {}
  BY <1>1, <1>2 DEF Pending, SeenIn, AllFlows, ActiveFlows, NullFlow
<1>4. Logged = {} /\ logs = {} /\ lost = {} /\ missed = {} /\ npkts = 0
  BY DEF Init, Logged, SeenIn, LoggedFlows
<1>5. SlotsApart
  BY <1>1, <1>2 DEF SlotsApart, NullFlow
<1> QED BY <1>3, <1>4, <1>5 DEF ExactlyOnce, SlotsApart

\* A packet not seen before is added to one of the places, and the others
\* only hand packets on.
LEMMA AddsOne ==
    ASSUME TypeOK, ExactlyOnce, NEW p, p.id = npkts, npkts' = npkts + 1,
           Known' = Known \cup {p}
    PROVE  /\ {q.id : q \in Known'} = 0 .. npkts' - 1
           /\ \A q, r \in Known' : q.id = r.id => q = r
<1>1. {q.id : q \in Known} = 0 .. npkts - 1 /\ \A q, r \in Known : q.id = r.id => q = r
  BY DEF ExactlyOnce, Known
<1>2. npkts \in Nat
  BY DEF TypeOK
<1>3. \A q \in Known : q.id \in 0 .. npkts - 1
  BY <1>1
<1>4. {q.id : q \in Known'} = {q.id : q \in Known} \cup {npkts}
  <2> HIDE DEF Known
  <2> QED OBVIOUS
<1>5. {q.id : q \in Known'} = 0 .. npkts' - 1
  <2> DEFINE ids == {q.id : q \in Known}
             ids1 == {q.id : q \in Known'}
  <2>1. ids1 = ids \cup {npkts} /\ ids = 0 .. npkts - 1
    BY <1>1, <1>4
  <2> HIDE DEF ids, ids1
  <2>2. ids1 = 0 .. npkts
    BY <1>2, <2>1
  <2>3. npkts' - 1 = npkts
    BY <1>2
  <2> QED BY <2>2, <2>3 DEF ids1
<1>6. \A q, r \in Known' : q.id = r.id => q = r
  <2> HIDE DEF Known
  <2> QED BY <1>1, <1>2, <1>3
<1> QED BY <1>5, <1>6

\* A window whose slots share no packets becomes a log whose entries share
\* none, with each other or with those of other logs.
LEMMA FlushApart ==
    ASSUME Inv, ExactlyOnce, NEW now, Flushed(now)
    PROVE  EntriesApart'
<1> DEFINE l == WindowLog(now)
<1>1. EntriesApart /\ Pending \cap Logged = {} /\ SlotsApart
  BY DEF ExactlyOnce, EntriesApart, SlotsApart
<1>2. CASE logs' = logs
  BY <1>1, <1>2 DEF EntriesApart
<1>3. CASE logs' = logs \cup {l}
  <2>1. l.flows = ActiveFlows(Current.flowtab) /\ SeenIn(l.flows) = Pending
    BY WindowPending DEF WindowLog
  <2>2. flowtab_idx \in Tables
    BY DEF Inv, TypeOK
  <2> HIDE DEF l
  <2>3. ASSUME NEW f \in l.flows, NEW g \in l.flows, f # g
        PROVE  f.seen \cap g.seen = {}
    <3>1. PICK r \in Slots : f = Current.flowtab[r]
      BY <2>1 DEF ActiveFlows
    <3>2. PICK s \in Slots : g = Current.flowtab[s]
      BY <2>1 DEF ActiveFlows
    <3> QED BY <1>1, <2>2, <2>3, <3>1, <3>2 DEF SlotsApart, Current
  <2>4. ASSUME NEW m \in logs, NEW f \in l.flows, NEW g \in m.flows
        PROVE  f.seen \cap g.seen = {}
    <3>1. f.seen \subseteq Pending
      BY <2>1 DEF SeenIn
    <3>2. g.seen \subseteq Logged
      BY DEF Logged, LoggedFlows, SeenIn
    <3> QED BY <1>1, <3>1, <3>2
  <2> QED BY <1>1, <1>3, <2>3, <2>4 DEF EntriesApart
<1> QED BY <1>2, <1>3 DEF Flushed, Dumped

\* flowmon_hook adds its packet once, whatever it does with the window.
LEMMA ExactlyOnceHook ==
    ASSUME Inv, Inv', ExactlyOnce, NEW p \in Packets, p.id = npkts, flowmon_hook(p)
    PROVE  ExactlyOnce'
<1>1. npkts' = npkts + 1 /\ npkts \in Nat /\ TypeOK
  BY DEF flowmon_hook, Inv, TypeOK
<1>2. p \notin Known
  <2>1. {q.id : q \in Known} = 0 .. npkts - 1
    BY DEF ExactlyOnce, Known
  <2>2. p \in Known => npkts \in 0 .. npkts - 1
    <3> HIDE DEF Known
    <3> QED BY <2>1
  <2> QED BY <1>1, <2>2
<1>3. /\ Pending \cap Logged = {}
      /\ (Pending \cup Logged) \cap (lost \cup missed) = {}
      /\ lost \cap missed = {}
      /\ SlotsApart /\ EntriesApart
  BY DEF ExactlyOnce, SlotsApart, EntriesApart
<1>4. \A u \in Tables, r \in Slots : flowtab_info[u].flowtab[r].seen \subseteq Pending
  BY PendingEffect
<1>5. ASSUME Known' = Known \cup {p},
             Pending' \cap Logged' = {},
             (Pending' \cup Logged') \cap (lost' \cup missed') = {},
             lost' \cap missed' = {},
             SlotsApart', EntriesApart'
      PROVE  ExactlyOnce'
  BY <1>1, <1>5, AddsOne DEF ExactlyOnce, Known, SlotsApart, EntriesApart
<1>6. CASE Joins(p)
  <2>1. Pending' = Pending \cup {p}
    BY <1>6, PendingEffect
  <2>2. logs' = logs /\ lost' = lost /\ missed' = missed
    BY <1>6 DEF Joins
  <2>3. Logged' = Logged /\ EntriesApart'
    BY <1>3, <2>2 DEF Logged, LoggedFlows, EntriesApart
  <2>4. SlotsApart'
    <3>1. PICK s \in Slots : Gains(flowtab_idx, s, p)
      BY <1>6 DEF Joins
    <3>2. \A u \in Tables, r \in Slots : p \notin flowtab_info[u].flowtab[r].seen
      BY <1>2, <1>4 DEF Known
    <3>3. ASSUME NEW t \in Tables, NEW u \in Tables, NEW r \in Slots, NEW x \in Slots,
                 ~(t = u /\ r = x)
          PROVE  flowtab_info'[t].flowtab[r].seen \cap flowtab_info'[u].flowtab[x].seen = {}
      <4>1. flowtab_info[t].flowtab[r].seen \cap flowtab_info[u].flowtab[x].seen = {}
        BY <1>3, <3>3 DEF SlotsApart
      <4>2. /\ flowtab_info'[t].flowtab[r].seen =
                 IF t = flowtab_idx /\ r = s THEN flowtab_info[t].flowtab[r].seen \cup {p}
                 ELSE flowtab_info[t].flowtab[r].seen
            /\ flowtab_info'[u].flowtab[x].seen =
                 IF u = flowtab_idx /\ x = s THEN flowtab_info[u].flowtab[x].seen \cup {p}
                 ELSE flowtab_info[u].flowtab[x].seen
        BY <3>1 DEF Gains
      <4> QED BY <3>2, <3>3, <4>1, <4>2
    <3> QED BY <3>3 DEF SlotsApart
  <2>5. Known' = Known \cup {p}
    BY <2>1, <2>2, <2>3 DEF Known
  <2> QED BY <1>2, <1>3, <1>5, <2>1, <2>2, <2>3, <2>4, <2>5 DEF Known
<1>7. CASE IsMissed(p)
  <2>1. Pending' = Pending
    BY <1>7, PendingEffect
  <2>2. logs' = logs /\ lost' = lost /\ missed' = missed \cup {p}
    BY <1>7 DEF IsMissed
  <2>3. Logged' = Logged /\ EntriesApart'
    BY <1>3, <2>2 DEF Logged, LoggedFlows, EntriesApart
  <2>4. SlotsApart'
    BY <1>3, <1>7 DEF IsMissed, Keeps, SlotsApart
  <2>5. Known' = Known \cup {p}
    BY <2>1, <2>2, <2>3 DEF Known
  <2> QED BY <1>2, <1>3, <1>5, <2>1, <2>2, <2>3, <2>4, <2>5 DEF Known
<1>8. CASE Begins(p)
  <2>1. Pending' = {p} /\ missed' = missed
    BY <1>8, PendingEffect DEF Begins
  <2>2. Flushed(p.tv)
    BY <1>8 DEF Begins
  <2>3. EntriesApart'
    BY <2>2, FlushApart
  <2>4. SlotsApart'
    <3>1. PICK s \in Slots : Only(flowtab_idx', s, p)
      BY <1>8 DEF Begins
    <3> QED BY <3>1 DEF Only, SlotsApart
  <2>5. \/ Pending = {} /\ Logged' = Logged /\ lost' = lost
        \/ Logged' = Logged \cup Pending /\ lost' = lost
        \/ Logged' = Logged /\ lost' = lost \cup Pending
    BY <2>2, FlushEffect
  <2>6. Known' = Known \cup {p}
    BY <2>1, <2>5 DEF Known
  <2> QED BY <1>2, <1>3, <1>5, <2>1, <2>3, <2>4, <2>5, <2>6 DEF Known
<1> QED BY <1>6, <1>7, <1>8, HookEffect

\* flowmon_cleanup hands on the packets of the window, once.
LEMMA ExactlyOnceCleanup ==
    ASSUME Inv, Inv', ExactlyOnce, flowmon_cleanup
    PROVE  ExactlyOnce'
<1>1. CleansUp /\ npkts' = npkts
  BY CleanupEffect DEF flowmon_cleanup
<1>2. Pending' = {} /\ missed' = missed /\ Flushed(clock)
  BY <1>1, PendingEffect DEF CleansUp
<1>3. EntriesApart'
  BY <1>2, FlushApart
<1>4. SlotsApart'
  BY <1>1 DEF CleansUp, SlotsApart, CleanInfo, NullFlow
<1>5. \/ Pending = {} /\ Logged' = Logged /\ lost' = lost
      \/ Logged' = Logged \cup Pending /\ lost' = lost
      \/ Logged' = Logged /\ lost' = lost \cup Pending
  BY <1>2, FlushEffect
<1>6. Known' = Known
  BY <1>2, <1>5 DEF Known
<1>7. /\ {q.id : q \in Known'} = 0 .. npkts' - 1
      /\ \A q, r \in Known' : q.id = r.id => q = r
  BY <1>1, <1>6 DEF ExactlyOnce, Known
<1>8. /\ Pending \cap Logged = {}
      /\ (Pending \cup Logged) \cap (lost \cup missed) = {}
      /\ lost \cap missed = {}
  BY DEF ExactlyOnce
<1> QED BY <1>2, <1>3, <1>4, <1>5, <1>7, <1>8 DEF ExactlyOnce, Known, SlotsApart, EntriesApart

\* Every step keeps ExactlyOnce.
LEMMA ExactlyOnceNext == Inv /\ ExactlyOnce /\ [Next]_vars => ExactlyOnce'
<1> SUFFICES ASSUME Inv, ExactlyOnce, [Next]_vars PROVE ExactlyOnce'
  OBVIOUS
<1>1. Inv' /\ TypeOK
  BY InvNext DEF Inv
<1>2. CASE NextPacket
  BY <1>1, <1>2, PacketStep, ExactlyOnceHook
<1>3. CASE flowmon_cleanup
  BY <1>1, <1>3, ExactlyOnceCleanup
<1>4. CASE UNCHANGED vars
  <2>1. /\ flowtab_info' = flowtab_info /\ logs' = logs
        /\ lost' = lost /\ missed' = missed /\ npkts' = npkts
    BY <1>4 DEF vars
  <2>2. Pending' = Pending /\ Logged' = Logged
    BY <2>1 DEF Pending, Logged, AllFlows, LoggedFlows
  <2> QED BY <2>1, <2>2 DEF ExactlyOnce
<1> QED BY <1>2, <1>3, <1>4 DEF Next

\* Every packet is counted exactly once.
THEOREM CountedOnce == Spec => []ExactlyOnce
BY InvAlways, ExactlyOnceInit, ExactlyOnceNext, PTL DEF Spec

-----------------------------------------------------------------------------
(* The refinement.                                                         *)

\* A packet is a step of the accounting: Join, Miss or Begin.
LEMMA AccountingHook ==
    ASSUME Inv, Inv', WindowInv, ExactlyOnce,
           NEW p \in Packets, p.id = npkts, flowmon_hook(p)
    PROVE  FA!Observe(p)
<1>1. running /\ running' = running
  BY DEF flowmon_hook
<1>2. FA!Known = Known
  <2>1. UNION {SeenIn(l.flows) : l \in logs} = Logged
    BY DEF Logged, LoggedFlows, SeenIn
  <2> QED BY <2>1 DEF FA!Known, Known
<1>3. p \notin FA!Known
  <2>1. {q.id : q \in Known} = 0 .. npkts - 1 /\ npkts \in Nat
    BY DEF ExactlyOnce, Known, Inv, TypeOK
  <2>2. p \in Known => npkts \in 0 .. npkts - 1
    <3> HIDE DEF Known
    <3> QED BY <2>1
  <2> QED BY <1>2, <2>1, <2>2
<1>4. FA!Closes(p.tv) <=> Expired(Current, p.tv)
  BY DEF FA!Closes, Expired, Current
<1>5. CASE Joins(p) \/ IsMissed(p)
  <2>1. Open(p) /\ Same /\ logs' = logs /\ lost' = lost
    BY <1>5 DEF Joins, IsMissed
  <2>2. Pending # {} /\ ~FA!Closes(p.tv)
    BY <1>4, <2>1 DEF Open, WindowInv
  <2>3. flowtab_info'[flowtab_idx'].first_sec = flowtab_info[flowtab_idx].first_sec
    BY <2>1 DEF Same, Current
  <2>4. \/ Pending' = Pending \cup {p} /\ missed' = missed
        \/ /\ \A q \in Pending : q.key # p.key
           /\ missed' = missed \cup {p} /\ Pending' = Pending
    <3>1. CASE Joins(p)
      BY <3>1, PendingEffect DEF Joins
    <3>2. CASE IsMissed(p)
      <4>1. Pending' = Pending /\ missed' = missed \cup {p}
        BY <3>2, PendingEffect DEF IsMissed
      <4>2. flowtab_idx \in Tables /\ InfoOK(Current)
        BY DEF Inv, TypeOK, Current
      <4>3. ASSUME NEW q \in Pending PROVE q.key # p.key
        <5>1. q \in SeenIn(ActiveFlows(Current.flowtab))
          BY WindowPending
        <5>2. PICK s \in Slots : q \in Current.flowtab[s].seen
          BY <5>1 DEF SeenIn, ActiveFlows
        <5>3. q.key = Current.flowtab[s].key
          BY <4>2, <5>2 DEF InfoOK
        <5> QED BY <3>2, <5>3 DEF IsMissed
      <4> QED BY <4>1, <4>3
    <3> QED BY <1>5, <3>1, <3>2
  <2>5. FA!Extend(p)
    BY <2>1, <2>2, <2>3, <2>4 DEF FA!Extend
  <2> QED BY <1>1, <1>3, <2>5 DEF FA!Observe
<1>6. CASE Begins(p)
  <2>1. Pending' = {p} /\ missed' = missed /\ flowtab_info'[flowtab_idx'].first_sec = p.tv
    BY <1>6, PendingEffect DEF Begins
  <2>2. CASE Current.table_dirty
    <3>1. Pending # {} /\ FA!Closes(p.tv)
      BY <1>4, <1>6, <2>2 DEF Begins, WindowInv
    <3>2. \/ {SeenIn(l.flows) : l \in logs'} = {SeenIn(l.flows) : l \in logs} \cup {Pending}
             /\ lost' = lost
          \/ logs' = logs /\ lost' = lost \cup Pending
      <4>1. Flushed(p.tv)
        BY <1>6 DEF Begins
      <4> QED BY <3>1, <4>1, FlushEffect
    <3>3. FA!Flush
      BY <3>2 DEF FA!Flush
    <3>4. FA!Begin(p)
      BY <2>1, <3>1, <3>3 DEF FA!Begin
    <3> QED BY <1>1, <1>3, <3>4 DEF FA!Observe
  <2>3. CASE ~Current.table_dirty
    <3>1. Pending = {} /\ logs' = logs /\ lost' = lost
      BY <1>6, <2>3, CleanMeansEmpty DEF Begins, Flushed
    <3>2. FA!Begin(p)
      BY <2>1, <3>1 DEF FA!Begin
    <3> QED BY <1>1, <1>3, <3>2 DEF FA!Observe
  <2> QED BY <2>2, <2>3
<1> QED BY <1>5, <1>6, HookEffect

\* flowmon_cleanup is the Stop of the accounting.
LEMMA AccountingStop ==
    ASSUME Inv, Inv', WindowInv, flowmon_cleanup
    PROVE  FA!Stop
<1>1. CleansUp /\ flowtab_idx \in Tables
  BY CleanupEffect DEF Inv, TypeOK
<1>2. Pending' = {} /\ missed' = missed /\ running /\ running' = FALSE
  BY <1>1, PendingEffect DEF CleansUp, flowmon_cleanup
<1>3. flowtab_info'[flowtab_idx'].first_sec = 0
  BY <1>1 DEF CleansUp, CleanInfo
<1>4. CASE Current.table_dirty
  <2>1. Pending # {}
    BY <1>4 DEF WindowInv
  <2>2. \/ {SeenIn(l.flows) : l \in logs'} = {SeenIn(l.flows) : l \in logs} \cup {Pending}
           /\ lost' = lost
        \/ logs' = logs /\ lost' = lost \cup Pending
    BY <1>1, <2>1, FlushEffect DEF CleansUp
  <2>3. FA!Flush
    BY <2>2 DEF FA!Flush
  <2> QED BY <1>2, <1>3, <2>1, <2>3 DEF FA!Stop
<1>5. CASE ~Current.table_dirty
  <2>1. Pending = {} /\ logs' = logs /\ lost' = lost
    BY <1>1, <1>5, CleanMeansEmpty DEF CleansUp, Flushed
  <2> QED BY <1>2, <1>3, <2>1 DEF FA!Stop
<1> QED BY <1>4, <1>5

\* The flow monitor with its tables, slots, probes and locks implements the
\* accounting of one window of packets.
THEOREM Refinement == Spec => Accounting
<1>1. Init => WindowInv
  BY DEF Init, WindowInv, Current, CleanInfo, Tables
<1>2. Init => FA!Init
  <2> SUFFICES ASSUME Init PROVE FA!Init
    OBVIOUS
  <2>1. Inv /\ flowtab_info[flowtab_idx] = CleanInfo
    BY InvInit DEF Init, Tables
  <2>2. Pending = {} /\ flowtab_info[flowtab_idx].first_sec = 0
    BY <2>1, CleanMeansEmpty DEF Current, CleanInfo
  <2> QED BY <2>2 DEF FA!Init, Init
<1>3. ASSUME Inv, Inv', WindowInv, ExactlyOnce, [Next]_vars
      PROVE  [FA!Next]_(FA!vars)
  <2>1. CASE NextPacket
    <3>1. PICK p \in Packets : p.id = npkts /\ flowmon_hook(p)
      BY <1>3, <2>1, PacketStep DEF Inv
    <3>2. FA!Observe(p)
      BY <1>3, <3>1, AccountingHook
    <3> QED BY <3>2 DEF FA!Next
  <2>2. CASE flowmon_cleanup
    BY <1>3, <2>2, AccountingStop DEF FA!Next
  <2>3. CASE UNCHANGED vars
    BY <2>3 DEF vars, FA!vars, Pending, AllFlows
  <2> QED BY <1>3, <2>1, <2>2, <2>3 DEF Next
<1> QED
  BY <1>1, <1>2, <1>3, InvAlways, WindowStep, CountedOnce, PTL
  DEF Spec, Accounting, FA!Spec

-----------------------------------------------------------------------------
(* Windows and seconds.                                                    *)

\* With timestamps that never go back: the packets of the open window are not
\* older than it and would not have closed it, those of the logs are older,
\* and only a monitor that has not begun has no window.
SecondsInv ==
    /\ \A q \in Pending :
         Current.first_sec <= q.tv /\ q.tv <= clock /\ ~Expired(Current, q.tv)
    /\ \A l \in logs : \A q \in SeenIn(l.flows) :
         l.first_sec <= q.tv /\ q.tv < l.first_sec + 10
    /\ Pending # {} => \A q \in Logged : q.tv < Current.first_sec
    /\ running /\ Pending = {} => logs = {}
    /\ \A l, m \in logs : SeenIn(l.flows) # SeenIn(m.flows) =>
         \A q \in SeenIn(l.flows), r \in SeenIn(m.flows) : q.tv # r.tv

\* Seconds are natural numbers.
LEMMA PacketTypes ==
    ASSUME Inv
    PROVE  /\ \A q \in Pending \cup Logged : q.tv \in Nat
           /\ Current.first_sec \in Nat
           /\ clock \in Nat
<1>1. Current \in FlowtabInfos /\ clock \in Nat
  BY DEF Inv, TypeOK, Current
<1>2. ActiveFlows(Current.flowtab) \subseteq FlowEntries
  BY <1>1 DEF FlowtabInfos, FlowTables, ActiveFlows
<1>3. LoggedFlows \subseteq FlowEntries
  BY DEF LoggedFlows, Inv, TypeOK, LogFiles
<1>4. Pending \subseteq Packets /\ Logged \subseteq Packets
  BY <1>2, <1>3, WindowPending DEF Logged, SeenIn, FlowEntries
<1> QED BY <1>1, <1>4 DEF Packets, FlowtabInfos

\* A packet that closes the window is younger than all its packets.
LEMMA ClosesLater ==
    ASSUME Inv, SecondsInv, NEW tv \in Nat, tv >= clock, Expired(Current, tv),
           NEW q \in Pending
    PROVE  q.tv < tv /\ Current.first_sec < tv
<1>1. q.tv \in Nat /\ Current.first_sec \in Nat /\ clock \in Nat
  BY PacketTypes
<1>2. Current.first_sec <= q.tv /\ q.tv <= clock /\ ~Expired(Current, q.tv)
  BY DEF SecondsInv
<1>3. q.tv # tv
  BY <1>2
<1>4. q.tv <= tv
  BY <1>1, <1>2
<1> QED BY <1>1, <1>2, <1>3, <1>4

\* A flush keeps what is said of logs.
LEMMA SecondsFlush ==
    ASSUME Inv, SecondsInv, NEW now, Flushed(now)
    PROVE  /\ \A l \in logs' : \A q \in SeenIn(l.flows) :
                l.first_sec <= q.tv /\ q.tv < l.first_sec + 10
           /\ \A l, m \in logs' : SeenIn(l.flows) # SeenIn(m.flows) =>
                \A q \in SeenIn(l.flows), r \in SeenIn(m.flows) : q.tv # r.tv
<1>1. CASE logs' = logs
  BY <1>1 DEF SecondsInv
<1>2. CASE logs' = logs \cup {WindowLog(now)}
  <2> DEFINE w == WindowLog(now)
  <2>1. SeenIn(w.flows) = Pending /\ w.first_sec = Current.first_sec
    BY WindowPending DEF WindowLog
  <2> HIDE DEF w
  <2>2. \A q \in Pending : w.first_sec <= q.tv /\ q.tv < w.first_sec + 10
    BY <2>1, PacketTypes DEF SecondsInv, Expired
  <2>3. ASSUME NEW l \in logs, NEW q \in SeenIn(l.flows), NEW r \in Pending
        PROVE  q.tv # r.tv
    <3>1. q \in Logged
      BY DEF Logged, LoggedFlows, SeenIn
    <3>2. q.tv < Current.first_sec /\ Current.first_sec <= r.tv
      BY <3>1 DEF SecondsInv
    <3> QED BY <3>1, <3>2, PacketTypes
  <2> QED BY <1>2, <2>1, <2>2, <2>3 DEF SecondsInv, w
<1> QED BY <1>1, <1>2 DEF Flushed, Dumped

\* flowmon_hook keeps SecondsInv.
LEMMA SecondsHook ==
    ASSUME Monotone, Inv, Inv', WindowInv, SecondsInv, NEW p \in Packets, flowmon_hook(p)
    PROVE  SecondsInv'
<1>1. running /\ running' = running /\ clock' = p.tv /\ p.tv >= clock /\ p.tv \in Nat
  BY DEF flowmon_hook, Packets
<1>2. clock \in Nat /\ Current.first_sec \in Nat /\ \A q \in Pending \cup Logged : q.tv \in Nat
  BY PacketTypes
<1>3. CASE Joins(p) \/ IsMissed(p)
  <2>1. Open(p) /\ Same /\ logs' = logs
    BY <1>3 DEF Joins, IsMissed
  <2>2. Pending # {} /\ ~Expired(Current, p.tv)
    BY <2>1 DEF Open, WindowInv
  <2>3. Pending' \in {Pending, Pending \cup {p}} /\ Logged' = Logged
    BY <1>3, <2>1, PendingEffect DEF Logged, LoggedFlows
  <2>4. Current'.first_sec = Current.first_sec
    BY <2>1 DEF Same, Current
  <2>5. \A tv : Expired(Current, tv)' <=> Expired(Current, tv)
    BY <2>4 DEF Expired
  <2>6. Current.first_sec <= p.tv
    <3>1. PICK q \in Pending : TRUE
      BY <2>2
    <3>2. Current.first_sec <= q.tv /\ q.tv <= clock
      BY <3>1 DEF SecondsInv
    <3> QED BY <1>1, <1>2, <3>2
  <2>7. ASSUME NEW q \in Pending'
        PROVE  Current'.first_sec <= q.tv /\ q.tv <= clock' /\ ~Expired(Current, q.tv)'
    <3>1. CASE q = p
      BY <1>1, <2>2, <2>4, <2>5, <2>6, <3>1
    <3>2. CASE q \in Pending
      <4>1. Current.first_sec <= q.tv /\ q.tv <= clock /\ ~Expired(Current, q.tv)
        BY <3>2 DEF SecondsInv
      <4> QED BY <1>1, <1>2, <2>4, <2>5, <3>2, <4>1
    <3> QED BY <2>3, <3>1, <3>2
  <2>8. Pending' # {}
    BY <2>2, <2>3
  <2>9. \A q \in Logged' : q.tv < Current'.first_sec
    BY <2>2, <2>3, <2>4 DEF SecondsInv
  <2> QED BY <2>1, <2>7, <2>8, <2>9 DEF SecondsInv
<1>4. CASE Begins(p)
  <2>1. Pending' = {p} /\ Current'.first_sec = p.tv /\ Flushed(p.tv)
    BY <1>4, PendingEffect DEF Begins, Current
  <2>2. ~Expired(Current, p.tv)'
    <3>1. ~(p.tv - p.tv >= 10)
      BY <1>1
    <3> QED BY <2>1, <3>1 DEF Expired
  <2>3. ASSUME NEW q \in Logged' PROVE q.tv < p.tv
    <3>1. CASE ~Current.table_dirty
      <4>1. Pending = {} /\ logs' = logs
        BY <1>4, <3>1, CleanMeansEmpty DEF Begins, Flushed
      <4>2. logs' = {}
        BY <1>1, <4>1 DEF SecondsInv
      <4> QED BY <4>2 DEF Logged, LoggedFlows, SeenIn
    <3>2. CASE Current.table_dirty
      <4>1. Expired(Current, p.tv) /\ Pending # {}
        BY <1>4, <3>2 DEF Begins, WindowInv
      <4>2. PICK r \in Pending : TRUE
        BY <4>1
      <4>3. Current.first_sec < p.tv /\ \A x \in Pending : x.tv < p.tv
        BY <1>1, <4>1, <4>2, ClosesLater
      <4>4. q \in Pending \cup Logged
        BY <2>1, FlushEffect
      <4>5. q \in Logged => q.tv < Current.first_sec
        BY <4>1 DEF SecondsInv
      <4> QED BY <1>1, <1>2, <4>3, <4>4, <4>5
    <3> QED BY <3>1, <3>2
  <2>4. /\ \A l \in logs' : \A q \in SeenIn(l.flows) :
             l.first_sec <= q.tv /\ q.tv < l.first_sec + 10
        /\ \A l, m \in logs' : SeenIn(l.flows) # SeenIn(m.flows) =>
             \A q \in SeenIn(l.flows), r \in SeenIn(m.flows) : q.tv # r.tv
    BY <2>1, SecondsFlush
  <2>5. \A q \in Pending' :
          Current'.first_sec <= q.tv /\ q.tv <= clock' /\ ~Expired(Current, q.tv)'
    BY <1>1, <2>1, <2>2
  <2> QED BY <2>1, <2>3, <2>4, <2>5 DEF SecondsInv
<1> QED BY <1>3, <1>4, HookEffect

\* flowmon_cleanup keeps SecondsInv.
LEMMA SecondsCleanup ==
    ASSUME Inv, Inv', SecondsInv, flowmon_cleanup
    PROVE  SecondsInv'
<1>1. CleansUp
  BY CleanupEffect
<1>2. Pending' = {} /\ ~running' /\ Flushed(clock)
  BY <1>1, PendingEffect DEF CleansUp
<1>3. /\ \A l \in logs' : \A q \in SeenIn(l.flows) :
           l.first_sec <= q.tv /\ q.tv < l.first_sec + 10
      /\ \A l, m \in logs' : SeenIn(l.flows) # SeenIn(m.flows) =>
           \A q \in SeenIn(l.flows), r \in SeenIn(m.flows) : q.tv # r.tv
  BY <1>2, SecondsFlush
<1> QED BY <1>2, <1>3 DEF SecondsInv

\* At the start no packet is in a table or a log.
LEMMA EmptyInit == ASSUME Init PROVE Pending = {} /\ WindowInv /\ Logged = {}
<1>1. Inv /\ flowtab_info[flowtab_idx] = CleanInfo
  BY InvInit DEF Init, Tables
<1>2. ~Current.table_dirty
  BY <1>1 DEF Current, CleanInfo
<1> QED BY <1>1, <1>2, CleanMeansEmpty DEF WindowInv, Init, Logged, LoggedFlows, SeenIn

\* Every step keeps SecondsInv.
LEMMA SecondsNext ==
    ASSUME Monotone, Inv, WindowInv, SecondsInv, [Next]_vars
    PROVE  SecondsInv'
<1>1. Inv'
  BY InvNext
<1>2. CASE NextPacket
  BY <1>1, <1>2, PacketStep, SecondsHook DEF Inv
<1>3. CASE flowmon_cleanup
  BY <1>1, <1>3, SecondsCleanup
<1>4. CASE UNCHANGED vars
  <2>1. flowtab_info' = flowtab_info /\ flowtab_idx' = flowtab_idx /\ logs' = logs
        /\ clock' = clock /\ running' = running
    BY <1>4 DEF vars
  <2>2. Pending' = Pending /\ Logged' = Logged /\ Current' = Current
    BY <2>1 DEF Pending, AllFlows, Logged, LoggedFlows, Current
  <2> QED BY <2>1, <2>2 DEF SecondsInv, Expired
<1> QED BY <1>2, <1>3, <1>4 DEF Next

\* SecondsInv holds at the start.
LEMMA SecondsInit == Init => WindowInv /\ SecondsInv
BY EmptyInit DEF Init, SecondsInv

\* With timestamps that never go back, no second is split between two logs
\* or between a log and the table in use, and a log covers ten seconds.
THEOREM SecondsWhole == Spec => []WholeSeconds
<1>1. ASSUME Inv, Monotone => SecondsInv PROVE WholeSeconds
  <2> SUFFICES ASSUME Monotone PROVE WholeSeconds
    BY DEF WholeSeconds
  <2>1. SecondsInv
    BY <1>1
  <2>2. ASSUME NEW l \in logs, NEW q \in SeenIn(l.flows), NEW r \in Pending
        PROVE  q.tv # r.tv
    <3>1. q \in Logged
      BY DEF Logged, LoggedFlows, SeenIn
    <3>2. q.tv < Current.first_sec /\ Current.first_sec <= r.tv
      BY <2>1, <3>1 DEF SecondsInv
    <3> QED BY <1>1, <3>1, <3>2, PacketTypes
  <2>3. ASSUME NEW v \in {SeenIn(l.flows) : l \in logs} \cup {Pending},
               NEW w \in {SeenIn(l.flows) : l \in logs} \cup {Pending},
               v # w
        PROVE  \A q \in v, r \in w : q.tv # r.tv
    BY <2>1, <2>2, <2>3 DEF SecondsInv
  <2>4. \A l \in logs : \A q \in SeenIn(l.flows) :
          l.first_sec <= q.tv /\ q.tv < l.first_sec + 10
    BY <2>1 DEF SecondsInv
  <2> QED BY <2>3, <2>4 DEF WholeSeconds
<1> DEFINE S == Monotone => SecondsInv
<1>2. Init => WindowInv /\ S
  BY SecondsInit
<1>3. Inv /\ WindowInv /\ S /\ [Next]_vars => WindowInv' /\ S'
  BY SecondsNext, WindowStep
<1>4. Inv /\ S => WholeSeconds
  BY <1>1
<1> HIDE DEF S
<1> QED BY <1>2, <1>3, <1>4, InvAlways, PTL DEF Spec

-----------------------------------------------------------------------------
(* Names of logs.                                                          *)

\* The closing seconds of two logs of a table are more than ten seconds apart,
\* until flowmon_cleanup writes the last one.  A log of the table in use was
\* closed ten seconds before the open window began, or the window began at a
\* ten second boundary.
Apart(l, m) ==
    IF running THEN l.closed >= m.closed + 11 \/ m.closed >= l.closed + 11
               ELSE l.closed >= m.closed + 1 \/ m.closed >= l.closed + 1
Gap(c, f) == c + 10 <= f \/ (c + 1 <= f /\ f % 10 = 0)
NamesInv ==
    /\ \A l \in logs : l.at + 1 >= l.closed
    /\ \A l, m \in logs : (l # m /\ l.table_id = m.table_id) => Apart(l, m)
    /\ Pending # {} => \A l \in logs :
         /\ l.closed <= Current.first_sec
         /\ l.table_id = flowtab_idx => Gap(l.closed, Current.first_sec)

LEMMA LogTypes ==
    ASSUME Inv
    PROVE  \A l \in logs : l.at \in Nat /\ l.closed \in Nat
BY DEF Inv, TypeOK, LogFiles

\* NamesInv is as strong as LogNamesDistinct.
LEMMA NamesEnough ==
    ASSUME Inv, NamesInv
    PROVE  LogNamesDistinct
<1> SUFFICES ASSUME NEW l \in logs, NEW m \in logs,
                    l # m, l.table_id = m.table_id, l.at = m.at
             PROVE  \E k \in {l, m} : Lateness(k) >= (IF running THEN 11 ELSE 1)
  BY DEF LogNamesDistinct
<1>1. /\ l.at \in Nat /\ l.closed \in Nat /\ m.closed \in Nat
      /\ l.at + 1 >= l.closed /\ l.at + 1 >= m.closed
  BY LogTypes DEF NamesInv
<1>2. Apart(l, m)
  BY DEF NamesInv
<1> QED BY <1>1, <1>2 DEF Apart, Lateness

\* A window that began after a boundary, or at one, is closed late enough.
LEMMA GapGrows ==
    ASSUME NEW c \in Nat, NEW f \in Nat, NEW tv \in Nat, f < tv,
           tv % 10 = 0 \/ tv - f >= 10
    PROVE  /\ Gap(c, f) => c + 11 <= tv
           /\ c <= f => Gap(c, tv)
<1>1. CASE tv - f >= 10
  BY <1>1 DEF Gap
<1>2. CASE tv % 10 = 0
  <2>1. f % 10 = 0 => tv >= f + 10
    BY <1>2
  <2> QED BY <1>2, <2>1 DEF Gap
<1> QED BY <1>1, <1>2

\* The next table is another one.
LEMMA NextTable ==
    ASSUME pna_tables >= 2, NEW t \in Tables
    PROVE  (t + 1) % pna_tables # t
<1>1. pna_tables \in Nat /\ t \in Nat /\ t < pna_tables
  BY DEF Tables
<1>2. CASE t + 1 < pna_tables
  <2>1. (t + 1) % pna_tables = t + 1
    BY <1>1, <1>2
  <2> QED BY <1>1, <2>1
<1>3. CASE t + 1 = pna_tables
  <2>1. (t + 1) % pna_tables = 0
    BY <1>1, <1>3
  <2> QED BY <1>1, <1>3, <2>1
<1> QED BY <1>1, <1>2, <1>3

\* flowmon_hook keeps NamesInv.
LEMMA NamesHook ==
    ASSUME Monotone, ~Replay, pna_tables >= 2, Inv, Inv', WindowInv, SecondsInv, NamesInv,
           NEW p \in Packets, flowmon_hook(p)
    PROVE  NamesInv'
<1>1. /\ running /\ running' = running
      /\ p.tv >= clock /\ p.tv \in Nat /\ flowtab_idx \in Tables
  BY DEF flowmon_hook, Packets, Inv, TypeOK
<1>2. clock \in Nat /\ Current.first_sec \in Nat
  BY PacketTypes
<1>3. CASE Joins(p) \/ IsMissed(p)
  <2>1. Open(p) /\ Same /\ logs' = logs
    BY <1>3 DEF Joins, IsMissed
  <2>2. Pending # {}
    BY <2>1 DEF Open, WindowInv
  <2>3. Current'.first_sec = Current.first_sec /\ flowtab_idx' = flowtab_idx
    BY <2>1 DEF Same, Current
  <2> QED BY <1>1, <2>1, <2>2, <2>3 DEF NamesInv, Apart
<1>4. CASE Begins(p)
  <2>1. Current'.first_sec = p.tv /\ Flushed(p.tv)
    BY <1>4 DEF Begins, Current
  <2>2. CASE ~Current.table_dirty
    <3>1. Pending = {} /\ logs' = logs
      BY <2>1, <2>2, CleanMeansEmpty DEF Flushed
    <3>2. logs' = {}
      BY <1>1, <3>1 DEF SecondsInv
    <3> QED BY <3>2 DEF NamesInv
  <2>3. CASE Current.table_dirty
    <3>1. /\ Expired(Current, p.tv) /\ Pending # {}
          /\ flowtab_idx' = (flowtab_idx + 1) % pna_tables
      BY <1>4, <2>3 DEF Begins, WindowInv
    <3>2. flowtab_idx' # flowtab_idx
      BY <1>1, <3>1, NextTable
    <3>3. Current.first_sec < p.tv /\ (p.tv % 10 = 0 \/ p.tv - Current.first_sec >= 10)
      BY <1>1, <3>1, ClosesLater DEF Expired
    <3>4. \A l \in logs : l.closed \in Nat
      BY LogTypes
    <3>5. \A l \in logs : /\ l.closed <= p.tv
                          /\ Gap(l.closed, p.tv)
                          /\ l.table_id = flowtab_idx => l.closed + 11 <= p.tv
      BY <1>1, <1>2, <3>1, <3>3, <3>4, GapGrows DEF NamesInv
    <3> DEFINE w == WindowLog(p.tv)
    <3>6. w.table_id = flowtab_idx /\ w.closed = p.tv /\ w.at = wall' - 1
      BY DEF WindowLog
    <3>7. wall' \in Nat /\ wall' >= p.tv
      BY <2>1, <2>3, InputAssumption DEF Flushed, Dumped
    <3>8. logs' \subseteq logs \cup {w}
      BY <2>1 DEF Flushed, Dumped
    <3> HIDE DEF w
    <3>9. \A l \in logs' : l.at + 1 >= l.closed
      BY <1>1, <3>6, <3>7, <3>8 DEF NamesInv
    <3>10. \A l, m \in logs' : (l # m /\ l.table_id = m.table_id) => Apart(l, m)'
      BY <1>1, <3>4, <3>5, <3>6, <3>8 DEF NamesInv, Apart
    <3>11. \A l \in logs' : /\ l.closed <= p.tv
                            /\ l.table_id = flowtab_idx' => Gap(l.closed, p.tv)
      BY <1>1, <3>2, <3>5, <3>6, <3>8
    <3> QED BY <2>1, <3>9, <3>10, <3>11 DEF NamesInv
  <2> QED BY <2>2, <2>3
<1> QED BY <1>3, <1>4, HookEffect

\* flowmon_cleanup keeps NamesInv.
LEMMA NamesCleanup ==
    ASSUME Monotone, ~Replay, Inv, Inv', WindowInv, SecondsInv, NamesInv, flowmon_cleanup
    PROVE  NamesInv'
<1>1. CleansUp
  BY CleanupEffect
<1>2. Pending' = {} /\ Flushed(clock) /\ running /\ ~running'
  BY <1>1, PendingEffect DEF CleansUp
<1>3. \A l \in logs : l.closed \in Nat
  BY LogTypes
<1>4. \A l, m \in logs : (l # m /\ l.table_id = m.table_id) => Apart(l, m)'
  BY <1>2, <1>3 DEF NamesInv, Apart
<1>5. CASE logs' = logs
  BY <1>2, <1>4, <1>5 DEF NamesInv
<1>6. CASE logs' # logs
  <2>1. Pending # {} /\ logs' = logs \cup {WindowLog(clock)} /\ wall' >= clock
        /\ wall' \in Nat
    BY <1>2, <1>6, InputAssumption DEF Flushed, Dumped, WindowInv
  <2>2. clock \in Nat /\ Current.first_sec \in Nat /\ Current.first_sec <= clock
    BY <2>1, PacketTypes DEF SecondsInv
  <2> DEFINE w == WindowLog(clock)
  <2>3. w.table_id = flowtab_idx /\ w.closed = clock /\ w.at = wall' - 1
    BY DEF WindowLog
  <2>4. \A l \in logs : l.table_id = flowtab_idx => l.closed + 1 <= clock
    BY <1>3, <2>1, <2>2 DEF NamesInv, Gap
  <2> HIDE DEF w
  <2>5. logs' = logs \cup {w}
    BY <2>1 DEF w
  <2>6. \A l \in logs' : l.at + 1 >= l.closed
    BY <2>1, <2>2, <2>3, <2>5 DEF NamesInv
  <2>7. \A l, m \in logs' : (l # m /\ l.table_id = m.table_id) => Apart(l, m)'
    BY <1>2, <1>3, <1>4, <2>2, <2>3, <2>4, <2>5 DEF Apart
  <2> QED BY <1>2, <2>6, <2>7 DEF NamesInv
<1> QED BY <1>5, <1>6

\* With two or more tables, two logs of a live capture get one name only when
\* the program is behind its capture: more than ten seconds while it runs, a
\* second for the log it leaves behind.  A rotation moves to another table, and
\* that table's next log is closed eleven or more seconds after its last.
THEOREM NamesDistinct ==
    ASSUME pna_tables >= 2
    PROVE  Spec => []LogNamesDistinct
<1> DEFINE N == (Monotone /\ ~Replay) => SecondsInv /\ NamesInv
<1>1. Init => WindowInv /\ N
  BY SecondsInit, EmptyInit DEF Init, NamesInv
<1>2. ASSUME Inv, WindowInv, Monotone, ~Replay, SecondsInv, NamesInv, [Next]_vars
      PROVE  NamesInv'
  <2>1. Inv'
    BY <1>2, InvNext
  <2>2. CASE NextPacket
    BY <1>2, <2>1, <2>2, PacketStep, NamesHook DEF Inv
  <2>3. CASE flowmon_cleanup
    BY <1>2, <2>1, <2>3, NamesCleanup
  <2>4. CASE UNCHANGED vars
    <3>1. /\ flowtab_info' = flowtab_info /\ flowtab_idx' = flowtab_idx
          /\ logs' = logs /\ running' = running
      BY <2>4 DEF vars
    <3>2. Pending' = Pending /\ Current' = Current
      BY <3>1 DEF Pending, AllFlows, Current
    <3> QED BY <1>2, <3>1, <3>2 DEF NamesInv, Apart
  <2> QED BY <1>2, <2>2, <2>3, <2>4 DEF Next
<1>3. Inv /\ WindowInv /\ N /\ [Next]_vars => WindowInv' /\ N'
  BY <1>2, SecondsNext, WindowStep
<1>4. Inv /\ N => LogNamesDistinct
  BY NamesEnough DEF LogNamesDistinct
<1> HIDE DEF N
<1> QED BY <1>1, <1>3, <1>4, InvAlways, PTL DEF Spec

-----------------------------------------------------------------------------
(* The sum of the bytes of a set of packets.                               *)

\* MapThenSumSet goes through the subsets of the set, with the element it
\* takes from each.
BytesOf(p) == p.len + ETH_OVERHEAD
SumBytes(S) == MapThenSumSet(LAMBDA p : p.len + ETH_OVERHEAD, S)
Pick(s) == CHOOSE x \in s : TRUE
SumStep(g, s) == IF s = {} THEN 0 ELSE BytesOf(Pick(s)) + g[s \ {Pick(s)}]
Sums(g, S) == g = [s \in SUBSET S |-> SumStep(g, s)]
Summing(S) == CHOOSE g : Sums(g, S)

Measured(S) == IsFiniteSet(S) /\ \A p \in S : p.len \in Nat
Small(S, n) == {s \in SUBSET S : Cardinality(s) <= n}

LEMMA SumBytesSumming ==
    ASSUME NEW S PROVE SumBytes(S) = Summing(S)[S]
BY Zenon DEF SumBytes, MapThenSumSet, MapThenFoldSet, Summing, Sums, SumStep, Pick, BytesOf

LEMMA BytesInNat == ASSUME NEW p, p.len \in Nat PROVE BytesOf(p) \in Nat
BY DEF BytesOf, ETH_OVERHEAD

\* The subsets up to a size.
LEMMA SmallFacts ==
    ASSUME NEW S, Measured(S)
    PROVE  /\ Small(S, Cardinality(S)) = SUBSET S /\ Cardinality(S) \in Nat
           /\ \A s \in Small(S, 0) : s = {}
           /\ \A n \in Nat : \A s \in Small(S, n) : s \in Small(S, n + 1)
           /\ \A n \in Nat : \A s \in Small(S, n + 1) : \A x \in s : s \ {x} \in Small(S, n)
<1>1. \A s \in SUBSET S : IsFiniteSet(s) /\ Cardinality(s) <= Cardinality(S)
  BY FS_Subset DEF Measured
<1>2. \A s \in SUBSET S : Cardinality(s) \in Nat /\ (Cardinality(s) = 0 => s = {})
  BY <1>1, FS_CardinalityType, FS_EmptySet
<1>3. ASSUME NEW n \in Nat, NEW s \in Small(S, n + 1), NEW x \in s
      PROVE  s \ {x} \in Small(S, n)
  <2>1. s \in SUBSET S /\ Cardinality(s) <= n + 1
    BY DEF Small
  <2>2. Cardinality(s \ {x}) = Cardinality(s) - 1
    BY <1>1, <2>1, FS_RemoveElement
  <2> QED BY <1>2, <2>1, <2>2 DEF Small
<1>4. Cardinality(S) \in Nat
  BY FS_CardinalityType DEF Measured
<1>5. \A n \in Nat : \A s \in Small(S, n) : s \in Small(S, n + 1)
  BY <1>2 DEF Small
<1>6. \A s \in Small(S, 0) : s = {}
  BY <1>2 DEF Small
<1> QED BY <1>1, <1>3, <1>4, <1>5, <1>6 DEF Small

LEMMA PickIn == ASSUME NEW s, s # {} PROVE Pick(s) \in s
BY Zenon DEF Pick

LEMMA PickBytes ==
    ASSUME NEW S, Measured(S), NEW s \in SUBSET S, s # {} PROVE Pick(s) \in s /\ BytesOf(Pick(s)) \in Nat
<1>1. Pick(s) \in s
  BY PickIn
<1> QED BY <1>1, BytesInNat DEF Measured

\* There is a function that satisfies the recursive equation, built up by size.
LEMMA SumsExist ==
    ASSUME NEW S, Measured(S)
    PROVE  \E g : Sums(g, S)
<1> DEFINE Good(g, n) == g \in [Small(S, n) -> Nat] /\ \A s \in Small(S, n) : g[s] = SumStep(g, s)
           P == {n \in Nat : \E g : Good(g, n)}
<1>1. 0 \in P
  <2> DEFINE g == [s \in Small(S, 0) |-> 0]
  <2>1. \A s \in Small(S, 0) : s = {}
    BY SmallFacts
  <2>2. Good(g, 0)
    BY <2>1 DEF SumStep
  <2> QED BY <2>2
<1>2. ASSUME NEW n \in P PROVE n + 1 \in P
  <2>1. PICK g : Good(g, n)
    OBVIOUS
  <2> DEFINE h == [s \in Small(S, n + 1) |-> IF s \in Small(S, n) THEN g[s] ELSE SumStep(g, s)]
  <2>2. \A s \in Small(S, n + 1) : s # {} => s \ {Pick(s)} \in Small(S, n)
    BY SmallFacts, PickIn
  <2>3. \A s \in Small(S, n) : s \in Small(S, n + 1) /\ h[s] = g[s]
    BY SmallFacts
  <2>4. ASSUME NEW s \in Small(S, n + 1) PROVE SumStep(h, s) = SumStep(g, s)
    <3> HIDE DEF h
    <3> QED BY <2>2, <2>3 DEF SumStep
  <2>5. ASSUME NEW s \in Small(S, n + 1) PROVE SumStep(g, s) \in Nat
    <3>1. CASE s = {}
      BY <3>1 DEF SumStep
    <3>2. CASE s # {}
      <4>1. BytesOf(Pick(s)) \in Nat
        BY <3>2, PickBytes DEF Small
      <4>2. g[s \ {Pick(s)}] \in Nat
        BY <2>1, <2>2, <3>2
      <4> QED BY <3>2, <4>1, <4>2 DEF SumStep
    <3> QED BY <3>1, <3>2
  <2>6. \A s \in Small(S, n + 1) : h[s] = SumStep(g, s)
    BY <2>1
  <2>7. h \in [Small(S, n + 1) -> Nat]
    <3>1. \A s \in Small(S, n + 1) : h[s] \in Nat
      <4> HIDE DEF h
      <4> QED BY <2>5, <2>6
    <3> QED BY <3>1
  <2>8. Good(h, n + 1)
    <3> HIDE DEF h
    <3> QED BY <2>4, <2>6, <2>7
  <2>9. n + 1 \in Nat
    OBVIOUS
  <2> HIDE DEF Good, h
  <2> QED BY <2>8, <2>9
<1>3. P = Nat
  <2>1. P \in SUBSET Nat
    OBVIOUS
  <2> HIDE DEF P
  <2> QED BY <1>1, <1>2, <2>1, NatSetInduction
<1>4. PICK g : Good(g, Cardinality(S))
  BY <1>3, SmallFacts
<1>5. Small(S, Cardinality(S)) = SUBSET S
  BY SmallFacts
<1>6. Sums(g, S)
  BY <1>4, <1>5 DEF Sums
<1> QED BY <1>6

\* What is known of such a function, subset by subset.
LEMMA SumsStep ==
    ASSUME NEW S, Measured(S), NEW g, Sums(g, S)
    PROVE  /\ g[{}] = 0
           /\ \A s \in SUBSET S : s # {} => g[s] = BytesOf(Pick(s)) + g[s \ {Pick(s)}]
<1>1. \A s \in SUBSET S : g[s] = SumStep(g, s)
  BY Zenon DEF Sums
<1>2. {} \in SUBSET S
  OBVIOUS
<1>3. g[{}] = 0
  BY <1>1, <1>2, Zenon DEF SumStep
<1>4. \A s \in SUBSET S : s # {} => g[s] = BytesOf(Pick(s)) + g[s \ {Pick(s)}]
  BY <1>1, Zenon DEF SumStep
<1> QED BY <1>3, <1>4, Zenon

\* Its values are natural numbers, and any element may be taken first.
LEMMA SumsAnyOrder ==
    ASSUME NEW S, Measured(S), NEW g, Sums(g, S)
    PROVE  \A s \in SUBSET S : g[s] \in Nat /\ \A x \in s : g[s] = BytesOf(x) + g[s \ {x}]
<1> DEFINE Good(s) == g[s] \in Nat /\ \A x \in s : g[s] = BytesOf(x) + g[s \ {x}]
           P == {n \in Nat : \A s \in Small(S, n) : Good(s)}
<1>0. \A x \in S : BytesOf(x) \in Nat
  BY BytesInNat DEF Measured
<1>1. Good({})
  <2>1. g[{}] = 0
    BY SumsStep
  <2> QED BY <2>1
<1>2. 0 \in P
  <2>1. \A s \in Small(S, 0) : s = {}
    BY SmallFacts
  <2>2. \A s \in Small(S, 0) : Good(s)
    <3> HIDE DEF Good
    <3> QED BY <1>1, <2>1
  <2> QED BY <2>2
<1>3. ASSUME NEW n \in P PROVE n + 1 \in P
  <2>0. n \in Nat /\ n + 1 \in Nat
    OBVIOUS
  <2>1. ASSUME NEW s \in Small(S, n + 1), s # {} PROVE Good(s)
    <3> DEFINE c == Pick(s)
    <3>1. s \in SUBSET S /\ c \in s /\ c \in S
      BY <2>1, PickIn DEF Small
    <3>2. g[s] = BytesOf(c) + g[s \ {c}]
      BY <2>1, <3>1, SumsStep
    <3>3. \A x \in s : Good(s \ {x})
      <4>1. \A x \in s : s \ {x} \in Small(S, n)
        BY <2>0, SmallFacts
      <4> QED BY <4>1
    <3> HIDE DEF c
    <3>4. g[s] \in Nat
      <4>1. g[s \ {c}] \in Nat /\ BytesOf(c) \in Nat
        BY <1>0, <3>1, <3>3
      <4> QED BY <3>2, <4>1
    <3>5. ASSUME NEW x \in s PROVE g[s] = BytesOf(x) + g[s \ {x}]
      <4>1. CASE x = c
        BY <3>2, <4>1
      <4>2. CASE x # c
        <5>1. g[s \ {c}] = BytesOf(x) + g[(s \ {c}) \ {x}]
          BY <3>1, <3>3, <4>2
        <5>2. g[s \ {x}] = BytesOf(c) + g[(s \ {x}) \ {c}]
          BY <3>1, <3>3, <4>2
        <5>3. (s \ {x}) \ {c} = (s \ {c}) \ {x}
          OBVIOUS
        <5> DEFINE r == g[(s \ {c}) \ {x}]
        <5>4. r \in Nat
          <6>1. (s \ {c}) \in Small(S, n) /\ (s \ {c}) \ {x} \in Small(S, n)
            <7>1. s \ {c} \in Small(S, n)
              BY <2>0, <3>1, SmallFacts
            <7>2. s \ {c} \in Small(S, n + 1) /\ x \in s \ {c}
              BY <2>0, <4>2, <7>1, SmallFacts
            <7> QED BY <2>0, <7>1, <7>2, SmallFacts
          <6> QED BY <6>1
        <5>5. BytesOf(x) \in Nat /\ BytesOf(c) \in Nat
          BY <1>0, <3>1
        <5>6. g[s \ {c}] = BytesOf(x) + r /\ g[s \ {x}] = BytesOf(c) + r
          BY <5>1, <5>2, <5>3
        <5> HIDE DEF r
        <5> QED BY <3>2, <5>4, <5>5, <5>6
      <4> QED BY <4>1, <4>2
    <3> QED BY <3>4, <3>5
  <2>2. \A s \in Small(S, n + 1) : Good(s)
    <3> HIDE DEF Good
    <3> QED BY <1>1, <2>1
  <2> HIDE DEF Good
  <2> QED BY <2>0, <2>2
<1>4. P = Nat
  <2>1. P \in SUBSET Nat
    OBVIOUS
  <2> HIDE DEF P
  <2> QED BY <1>2, <1>3, <2>1, NatSetInduction
<1>5. Cardinality(S) \in Nat /\ Small(S, Cardinality(S)) = SUBSET S
  BY SmallFacts
<1>6. Cardinality(S) \in P
  <2> HIDE DEF P
  <2> QED BY <1>4, <1>5
<1> HIDE DEF Good
<1>7. \A s \in SUBSET S : Good(s)
  BY <1>5, <1>6
<1> QED BY <1>7 DEF Good

\* The sums over a set and over a larger one agree on the subsets they share.
LEMMA SumsAgree ==
    ASSUME NEW S, NEW T, Measured(T), S \subseteq T, NEW g, NEW h, Sums(g, S), Sums(h, T)
    PROVE  \A s \in SUBSET S : g[s] = h[s]
<1>0. Measured(S)
  BY FS_Subset DEF Measured
<1> DEFINE P == {n \in Nat : \A s \in Small(S, n) : g[s] = h[s]}
<1>1. g[{}] = h[{}]
  BY <1>0, SumsStep
<1>2. 0 \in P
  <2>1. \A s \in Small(S, 0) : s = {}
    BY <1>0, SmallFacts
  <2>2. \A s \in Small(S, 0) : g[s] = h[s]
    BY <1>1, <2>1
  <2> QED BY <2>2
<1>3. ASSUME NEW n \in P PROVE n + 1 \in P
  <2>0. n \in Nat /\ n + 1 \in Nat
    OBVIOUS
  <2>1. ASSUME NEW s \in Small(S, n + 1), s # {} PROVE g[s] = h[s]
    <3> DEFINE c == Pick(s)
    <3>1. s \in SUBSET S /\ s \in SUBSET T /\ c \in s
      BY <2>1, PickIn DEF Small
    <3>2. g[s] = BytesOf(c) + g[s \ {c}]
      BY <1>0, <2>1, <3>1, SumsStep
    <3>3. h[s] = BytesOf(c) + h[s \ {c}]
      BY <2>1, <3>1, SumsStep
    <3>4. s \ {c} \in Small(S, n)
      BY <1>0, <2>0, <3>1, SmallFacts
    <3> HIDE DEF c
    <3> QED BY <3>2, <3>3, <3>4
  <2>2. \A s \in Small(S, n + 1) : g[s] = h[s]
    BY <1>1, <2>1
  <2> QED BY <2>0, <2>2
<1>4. P = Nat
  <2>1. P \in SUBSET Nat
    OBVIOUS
  <2> HIDE DEF P
  <2> QED BY <1>2, <1>3, <2>1, NatSetInduction
<1>5. Cardinality(S) \in Nat /\ Small(S, Cardinality(S)) = SUBSET S
  BY <1>0, SmallFacts
<1>6. Cardinality(S) \in P
  <2> HIDE DEF P
  <2> QED BY <1>4, <1>5
<1> QED BY <1>5, <1>6

\* The sum of no packets, and of one more.
LEMMA SumBytesFacts ==
    ASSUME NEW S, Measured(S)
    PROVE  /\ SumBytes({}) = 0 /\ SumBytes(S) \in Nat
           /\ \A p : p \notin S /\ p.len \in Nat => SumBytes(S \cup {p}) = SumBytes(S) + BytesOf(p)
<1>1. ASSUME NEW T, Measured(T) PROVE Sums(Summing(T), T)
  <2>1. \E g : Sums(g, T)
    BY <1>1, SumsExist
  <2> QED BY <2>1, Zenon DEF Summing
<1>2. SumBytes({}) = 0
  <2>1. Measured({})
    BY FS_EmptySet DEF Measured
  <2> QED BY <1>1, <2>1, SumsStep, SumBytesSumming
<1>3. SumBytes(S) \in Nat
  <2>1. S \in SUBSET S
    OBVIOUS
  <2> QED BY <1>1, <2>1, SumsAnyOrder, SumBytesSumming
<1>4. ASSUME NEW p, p \notin S, p.len \in Nat PROVE SumBytes(S \cup {p}) = SumBytes(S) + BytesOf(p)
  <2> DEFINE T == S \cup {p}
  <2>1. Measured(T)
    BY <1>4, FS_AddElement DEF Measured
  <2>2. T \in SUBSET T /\ p \in T /\ T \ {p} = S /\ S \subseteq T /\ S \in SUBSET S
    BY <1>4
  <2> HIDE DEF T
  <2>3. Summing(T)[T] = BytesOf(p) + Summing(T)[S]
    BY <1>1, <2>1, <2>2, SumsAnyOrder
  <2>4. Summing(S)[S] = Summing(T)[S]
    BY <1>1, <2>1, <2>2, SumsAgree
  <2>5. SumBytes(T) = BytesOf(p) + SumBytes(S)
    BY <2>3, <2>4, SumBytesSumming
  <2>6. BytesOf(p) \in Nat
    BY <1>4, BytesInNat
  <2> QED BY <1>3, <2>5, <2>6 DEF T
<1> QED BY <1>2, <1>3, <1>4

-----------------------------------------------------------------------------
(* Entries: what they say is what a recount of their packets gives.        *)

Of(S, d) == {p \in S : p.dir = d}
Earliest(S) == CHOOSE p \in S : \A q \in S : p.id <= q.id
Latest(S) == CHOOSE p \in S : \A q \in S : p.id >= q.id

\* The counters of an entry, also of a free one, and its times.
Counts(f) ==
    \A d \in Directions :
        /\ f.packets[d] = Cardinality(Of(f.seen, d)) % Word
        /\ f.bytes[d] = SumBytes(Of(f.seen, d)) % Word
        /\ f.flags[d] = UNION {p.flags : p \in Of(f.seen, d)}
Times(f) ==
    /\ f.first_tstamp = Earliest(f.seen).tv
    /\ f.first_dir = Earliest(f.seen).dir
    /\ f.last_tstamp = Latest(f.seen).tv

LEMMA FaithfulParts ==
    ASSUME NEW f
    PROVE  FaithfulEntry(f) <=>
             /\ f.seen # {} /\ \A p \in f.seen : p.key = f.key
             /\ Counts(f) /\ Times(f)
BY DEF FaithfulEntry, Counts, Times, Of, Earliest, Latest, SumBytes

\* The packets of an entry: finitely many, each with an id of its own.
Distinct(S) == S \subseteq Packets /\ IsFiniteSet(S) /\ \A p, q \in S : p.id = q.id => p = q

\* A remainder is unique.
LEMMA ModUnique ==
    ASSUME NEW k \in Nat, NEW u \in 0 .. Word - 1, NEW x \in Nat, x = Word * k + u
    PROVE  x % Word = u
<1> DEFINE m == x \div Word
           r == x % Word
<1>1. m \in Nat /\ r \in 0 .. Word - 1 /\ x = Word * m + r
  OBVIOUS
<1> HIDE DEF m, r
<1>2. Word * m + r = Word * k + u
  BY <1>1
<1>3. Word * m \in Nat /\ Word * k \in Nat
  BY <1>1
<1>4. CASE m > k
  <2>1. Word * m >= Word * k + Word
    <3>1. Word * m = Word * k + Word * (m - k) /\ m - k >= 1
      BY <1>1, <1>4
    <3>2. Word * (m - k) >= Word
      BY <1>1, <1>4
    <3> QED BY <1>1, <1>3, <3>1, <3>2
  <2> QED BY <1>1, <1>2, <1>3, <2>1
<1>5. CASE m < k
  <2>1. Word * k >= Word * m + Word
    <3>1. Word * k = Word * m + Word * (k - m) /\ k - m >= 1
      BY <1>1, <1>5
    <3>2. Word * (k - m) >= Word
      BY <1>1, <1>5
    <3> QED BY <1>1, <1>3, <3>1, <3>2
  <2> QED BY <1>1, <1>2, <1>3, <2>1
<1>6. CASE m = k
  BY <1>1, <1>2, <1>3, <1>6 DEF r
<1> QED BY <1>1, <1>4, <1>5, <1>6

\* Adding to a counter that wraps around.
LEMMA ModPlus ==
    ASSUME NEW a \in Nat, NEW b \in Nat
    PROVE  ((a % Word) + b) % Word = (a + b) % Word
<1> DEFINE q == a \div Word
           r == a % Word
<1>1. q \in Nat /\ r \in 0 .. Word - 1 /\ a = Word * q + r
  OBVIOUS
<1>2. (r + b) % Word \in 0 .. Word - 1
  OBVIOUS
<1> DEFINE t == (r + b) \div Word
           u == (r + b) % Word
<1>3. t \in Nat /\ u \in 0 .. Word - 1 /\ r + b = Word * t + u
  OBVIOUS
<1> HIDE DEF q, r, t, u
<1>4. a + b = Word * (q + t) + u /\ q + t \in Nat
  BY <1>1, <1>3
<1>5. (a + b) % Word = u
  <2> DEFINE x == a + b
             k == q + t
  <2>1. x \in Nat /\ k \in Nat /\ u \in 0 .. Word - 1 /\ x = Word * k + u
    BY <1>3, <1>4
  <2> HIDE DEF x, k
  <2>2. x % Word = u
    BY <2>1, ModUnique
  <2> QED BY <2>2 DEF x
<1> QED BY <1>5 DEF u, r

LEMMA MorePackets ==
    ASSUME NEW S, Distinct(S), NEW p \in Packets, \A q \in S : q.id < p.id
    PROVE  /\ Distinct(S \cup {p}) /\ p \notin S
           /\ \A d : IsFiniteSet(Of(S, d)) /\ Measured(Of(S, d))
           /\ Of(S \cup {p}, p.dir) = Of(S, p.dir) \cup {p}
           /\ \A d : d # p.dir => Of(S \cup {p}, d) = Of(S, d)
<1>1. \A q \in Packets : q.id \in Nat /\ q.len \in Nat
  <2>1. \A q \in Packets : q.id \in 0 .. MaxPackets - 1 /\ q.len \in PktLens
    BY DEF Packets
  <2>2. \A i \in 0 .. MaxPackets - 1 : i \in Nat
    OBVIOUS
  <2>3. \A l \in PktLens : l \in Nat
    OBVIOUS
  <2> QED BY ONLY <2>1, <2>2, <2>3
<1>2. p \notin S
  BY <1>1
<1>3. Distinct(S \cup {p})
  <2>1. IsFiniteSet(S \cup {p})
    BY FS_AddElement DEF Distinct
  <2>2. ASSUME NEW r \in S \cup {p}, NEW q \in S \cup {p}, r.id = q.id PROVE r = q
    <3>1. \A x \in S : x.id # p.id
      BY <1>1 DEF Distinct
    <3> QED BY <2>2, <3>1 DEF Distinct
  <2> QED BY <2>1, <2>2 DEF Distinct
<1>4. \A d : IsFiniteSet(Of(S, d)) /\ Measured(Of(S, d))
  <2>1. \A d : Of(S, d) \in SUBSET S
    BY DEF Of
  <2> QED BY <1>1, <2>1, FS_Subset DEF Measured, Distinct
<1>5. Of(S \cup {p}, p.dir) = Of(S, p.dir) \cup {p}
  BY DEF Of
<1>6. \A d : d # p.dir => Of(S \cup {p}, d) = Of(S, d)
  BY DEF Of
<1> QED BY <1>2, <1>3, <1>4, <1>5, <1>6

LEMMA EarliestIn ==
    ASSUME NEW S, Distinct(S), S # {}
    PROVE  Earliest(S) \in S /\ \A q \in S : Earliest(S).id <= q.id
<1> DEFINE I == {q.id : q \in S}
<1>1. I \subseteq Nat /\ I # {}
  BY DEF Distinct, Packets
<1>2. PICK p \in S : p.id = Min(I)
  BY <1>1, LeastNat
<1>3. \A q \in S : p.id <= q.id
  BY <1>1, <1>2, LeastNat
<1> QED BY <1>3 DEF Earliest

LEMMA EarliestIs ==
    ASSUME NEW S, Distinct(S), NEW p \in S, \A q \in S : p.id <= q.id
    PROVE  Earliest(S) = p
<1>1. Earliest(S) \in S /\ \A q \in S : Earliest(S).id <= q.id
  BY DEF Earliest
<1>2. Earliest(S).id \in Nat /\ p.id \in Nat
  BY <1>1 DEF Distinct, Packets
<1>3. Earliest(S).id = p.id
  BY <1>1, <1>2
<1> QED BY <1>1, <1>3 DEF Distinct

LEMMA LatestIs ==
    ASSUME NEW S, Distinct(S), NEW p \in S, \A q \in S : p.id >= q.id
    PROVE  Latest(S) = p
<1>1. Latest(S) \in S /\ \A q \in S : Latest(S).id >= q.id
  BY DEF Latest
<1>2. Latest(S).id \in Nat /\ p.id \in Nat
  BY <1>1 DEF Distinct, Packets
<1>3. Latest(S).id = p.id
  BY <1>1, <1>2
<1> QED BY <1>1, <1>3 DEF Distinct

\* The counters after one packet more.
LEMMA CountsMore ==
    ASSUME NEW e \in FlowEntries, Distinct(e.seen), Counts(e),
           NEW p \in Packets, \A q \in e.seen : q.id < p.id,
           NEW f, f.seen = e.seen \cup {p},
           f.packets = [e.packets EXCEPT ![p.dir] = (e.packets[p.dir] + 1) % Word],
           f.bytes = [e.bytes EXCEPT ![p.dir] = ((e.bytes[p.dir] + p.len) + ETH_OVERHEAD) % Word],
           f.flags = [e.flags EXCEPT ![p.dir] = e.flags[p.dir] \cup p.flags]
    PROVE  Counts(f)
<1> DEFINE S == e.seen
           d == p.dir
           O == Of(S, d)
<1>1. /\ p \notin S /\ IsFiniteSet(O) /\ Measured(O)
      /\ Of(f.seen, d) = O \cup {p}
      /\ \A c : c # d => Of(f.seen, c) = Of(S, c)
  <2>1. /\ Distinct(S \cup {p}) /\ p \notin S
        /\ \A c : IsFiniteSet(Of(S, c)) /\ Measured(Of(S, c))
        /\ Of(S \cup {p}, d) = O \cup {p}
        /\ \A c : c # d => Of(S \cup {p}, c) = Of(S, c)
    BY MorePackets
  <2>2. f.seen = S \cup {p}
    OBVIOUS
  <2> HIDE DEF S
  <2> QED BY <2>1, <2>2
<1>2. d \in Directions /\ p.len \in Nat
  BY DEF Packets
<1>3. /\ e.packets \in [Directions -> 0 .. Word - 1] /\ e.bytes \in [Directions -> 0 .. Word - 1]
      /\ e.flags \in [Directions -> SUBSET FlagBits]
  BY DEF FlowEntries
<1>4. ASSUME NEW c \in Directions, c # d
      PROVE  f.packets[c] = e.packets[c] /\ f.bytes[c] = e.bytes[c] /\ f.flags[c] = e.flags[c]
  BY <1>3, <1>4
<1>5. /\ f.packets[d] = (e.packets[d] + 1) % Word
      /\ f.bytes[d] = ((e.bytes[d] + p.len) + ETH_OVERHEAD) % Word
      /\ f.flags[d] = e.flags[d] \cup p.flags
  BY <1>2, <1>3
<1>6. p \notin O
  BY <1>1 DEF Of
<1>7. f.packets[d] = Cardinality(Of(f.seen, d)) % Word
  <2>1. Cardinality(O \cup {p}) = Cardinality(O) + 1 /\ Cardinality(O) \in Nat
    BY <1>1, <1>6, FS_AddElement, FS_CardinalityType
  <2>2. e.packets[d] = Cardinality(O) % Word
    BY <1>2 DEF Counts
  <2>3. ((Cardinality(O) % Word) + 1) % Word = (Cardinality(O) + 1) % Word
    BY <2>1, ModPlus
  <2> QED BY <1>1, <1>5, <2>1, <2>2, <2>3
<1>8. f.bytes[d] = SumBytes(Of(f.seen, d)) % Word
  <2>1. SumBytes(O) \in Nat /\ SumBytes(O \cup {p}) = SumBytes(O) + BytesOf(p)
    BY <1>1, <1>2, <1>6, SumBytesFacts
  <2>2. e.bytes[d] = SumBytes(O) % Word
    BY <1>2 DEF Counts
  <2>3. BytesOf(p) \in Nat /\ ETH_OVERHEAD \in Nat /\ BytesOf(p) = p.len + ETH_OVERHEAD
    BY <1>2 DEF BytesOf, ETH_OVERHEAD
  <2>4. ((SumBytes(O) % Word) + BytesOf(p)) % Word = (SumBytes(O) + BytesOf(p)) % Word
    BY <2>1, <2>3, ModPlus
  <2>5. e.bytes[d] \in Nat
    BY <1>2, <1>3
  <2>6. (e.bytes[d] + p.len) + ETH_OVERHEAD = e.bytes[d] + BytesOf(p)
    BY <1>2, <2>3, <2>5
  <2> QED BY <1>1, <1>5, <2>1, <2>2, <2>4, <2>6
<1>9. f.flags[d] = UNION {q.flags : q \in Of(f.seen, d)}
  <2>1. e.flags[d] = UNION {q.flags : q \in O}
    BY <1>2 DEF Counts
  <2>2. UNION {q.flags : q \in O \cup {p}} = (UNION {q.flags : q \in O}) \cup p.flags
    OBVIOUS
  <2> QED BY <1>1, <1>5, <2>1, <2>2
<1> QED BY <1>1, <1>4, <1>7, <1>8, <1>9 DEF Counts

\* An entry as flowmon_hook keeps it: what it says is what a recount gives.
Good(f) == FaithfulEntry(f) /\ Distinct(f.seen)

\* The fields of an entry that has recorded a packet.
LEMMA RecordedFields ==
    ASSUME NEW e \in FlowEntries, NEW p \in Packets
    PROVE  LET f == Recorded(e, p)
           IN  /\ f.key = p.key
               /\ f.seen = e.seen \cup {p}
               /\ f.packets = [e.packets EXCEPT ![p.dir] = (e.packets[p.dir] + 1) % Word]
               /\ f.bytes = [e.bytes EXCEPT ![p.dir] = ((e.bytes[p.dir] + p.len) + ETH_OVERHEAD) % Word]
               /\ f.flags = [e.flags EXCEPT ![p.dir] = e.flags[p.dir] \cup p.flags]
               /\ f.last_tstamp = p.tv
               /\ e.key = p.key => f.first_tstamp = e.first_tstamp /\ f.first_dir = e.first_dir
               /\ e.key # p.key => f.first_tstamp = p.tv /\ f.first_dir = p.dir
<1> DEFINE u == UpdateFlow(e, p)
           b == (e.bytes[p.dir] + p.len + ETH_OVERHEAD) % Word
           n == (e.packets[p.dir] + 1) % Word
           g == e.flags[p.dir] \cup p.flags
<1>1. u = [e EXCEPT !.bytes[p.dir] = b, !.packets[p.dir] = n, !.flags[p.dir] = g,
                    !.last_tstamp = p.tv, !.seen = e.seen \cup {p}]
  BY DEF UpdateFlow
<1>2. u \in FlowEntries
  BY UpdateFlowType
<1> HIDE DEF u, b, n, g
<1>3. /\ u.key = e.key /\ u.seen = e.seen \cup {p}
      /\ u.packets = [e.packets EXCEPT ![p.dir] = n]
      /\ u.bytes = [e.bytes EXCEPT ![p.dir] = b]
      /\ u.flags = [e.flags EXCEPT ![p.dir] = g]
      /\ u.last_tstamp = p.tv
      /\ u.first_tstamp = e.first_tstamp /\ u.first_dir = e.first_dir
  BY <1>1 DEF FlowEntries
<1>4. CASE e.key = p.key
  <2>1. Recorded(e, p) = u
    BY <1>4 DEF Recorded, u
  <2> QED BY <1>3, <1>4, <2>1 DEF b, n, g
<1>5. CASE e.key # p.key
  <2>1. Recorded(e, p) = [u EXCEPT !.key = p.key, !.first_tstamp = p.tv, !.first_dir = p.dir]
    BY <1>5 DEF Recorded, InsertFlow, u
  <2> DEFINE f == Recorded(e, p)
  <2>2. /\ f.key = p.key /\ f.first_tstamp = p.tv /\ f.first_dir = p.dir
        /\ f.seen = u.seen /\ f.packets = u.packets /\ f.bytes = u.bytes
        /\ f.flags = u.flags /\ f.last_tstamp = u.last_tstamp
    <3> HIDE DEF f
    <3> QED BY <1>2, <2>1 DEF FlowEntries, f
  <2> QED BY <1>3, <1>5, <2>2 DEF b, n, g
<1> QED BY <1>4, <1>5

\* A free slot counts nothing.
LEMMA CountsNull == Counts(NullFlow) /\ Distinct(NullFlow.seen)
<1>1. \A d : Of(NullFlow.seen, d) = {}
  BY DEF NullFlow, Of
<1>2. Cardinality({}) = 0 /\ IsFiniteSet({})
  BY FS_EmptySet
<1>3. SumBytes({}) = 0
  BY <1>2, SumBytesFacts DEF Measured
<1>4. 0 % Word = 0
  OBVIOUS
<1>5. \A d \in Directions : NullFlow.packets[d] = 0 /\ NullFlow.bytes[d] = 0 /\ NullFlow.flags[d] = {}
  BY DEF NullFlow
<1>6. NullFlow.seen = {}
  BY DEF NullFlow
<1>7. ASSUME NEW d \in Directions
      PROVE  /\ NullFlow.packets[d] = Cardinality(Of(NullFlow.seen, d)) % Word
             /\ NullFlow.bytes[d] = SumBytes(Of(NullFlow.seen, d)) % Word
             /\ NullFlow.flags[d] = UNION {p.flags : p \in Of(NullFlow.seen, d)}
  <2>1. UNION {p.flags : p \in Of(NullFlow.seen, d)} = {}
    BY <1>1
  <2> QED BY <1>1, <1>2, <1>3, <1>4, <1>5, <2>1
<1> QED BY <1>2, <1>6, <1>7 DEF Counts, Distinct

\* Recording the packet that comes next keeps an entry good, and makes a good
\* one of a free slot.
LEMMA RecordedGood ==
    ASSUME NEW e \in FlowEntries, NEW p \in Packets,
           e = NullFlow \/ (Good(e) /\ e.key = p.key),
           \A q \in e.seen : q.id < p.id
    PROVE  Good(Recorded(e, p))
<1> DEFINE f == Recorded(e, p)
<1>1. /\ f.key = p.key
      /\ f.seen = e.seen \cup {p}
      /\ f.packets = [e.packets EXCEPT ![p.dir] = (e.packets[p.dir] + 1) % Word]
      /\ f.bytes = [e.bytes EXCEPT ![p.dir] = ((e.bytes[p.dir] + p.len) + ETH_OVERHEAD) % Word]
      /\ f.flags = [e.flags EXCEPT ![p.dir] = e.flags[p.dir] \cup p.flags]
      /\ f.last_tstamp = p.tv
      /\ e.key = p.key => f.first_tstamp = e.first_tstamp /\ f.first_dir = e.first_dir
      /\ e.key # p.key => f.first_tstamp = p.tv /\ f.first_dir = p.dir
  BY RecordedFields
<1> HIDE DEF f
<1>2. Counts(e) /\ Distinct(e.seen)
  <2>1. CASE e = NullFlow
    BY <2>1, CountsNull
  <2>2. CASE Good(e)
    BY <2>2, FaithfulParts DEF Good
  <2> QED BY <2>1, <2>2
<1>3. Counts(f)
  BY <1>1, <1>2, CountsMore
<1>4. Distinct(f.seen) /\ p \in f.seen
  <2>1. Distinct(e.seen \cup {p})
    BY <1>2, MorePackets
  <2> QED BY <1>1, <2>1
<1>5. \A q \in f.seen : q.id \in Nat
  <2>1. \A q \in Packets : q.id \in 0 .. MaxPackets - 1
    BY DEF Packets
  <2>2. \A i \in 0 .. MaxPackets - 1 : i \in Nat
    OBVIOUS
  <2> QED BY ONLY <1>4, <2>1, <2>2 DEF Distinct
<1>6. \A q \in f.seen : p.id >= q.id
  BY <1>1, <1>4, <1>5
<1>7. Latest(f.seen) = p
  BY <1>4, <1>6, LatestIs
<1>8. /\ f.first_tstamp = Earliest(f.seen).tv /\ f.first_dir = Earliest(f.seen).dir
      /\ \A q \in f.seen : q.key = f.key
  <2>1. CASE e = NullFlow
    <3>1. e.seen = {} /\ e.key # p.key
      BY <2>1 DEF NullFlow, Packets
    <3>2. f.seen = {p}
      BY <1>1, <3>1
    <3>3. Earliest(f.seen) = p
      BY <1>4, <1>5, <3>2, EarliestIs
    <3> QED BY <1>1, <3>1, <3>2, <3>3
  <2>2. CASE Good(e) /\ e.key = p.key
    <3>1. /\ e.seen # {} /\ \A q \in e.seen : q.key = e.key
          /\ e.first_tstamp = Earliest(e.seen).tv /\ e.first_dir = Earliest(e.seen).dir
      BY <2>2, FaithfulParts DEF Good, Times
    <3> DEFINE a == Earliest(e.seen)
    <3>2. a \in e.seen /\ \A q \in e.seen : a.id <= q.id
      BY <1>2, <3>1, EarliestIn
    <3> HIDE DEF a
    <3>3. a \in f.seen /\ \A q \in f.seen : a.id <= q.id
      BY <1>1, <1>5, <3>2
    <3>4. Earliest(f.seen) = a
      BY <1>4, <3>3, EarliestIs
    <3> QED BY <1>1, <2>2, <3>1, <3>4 DEF a
  <2> QED BY <2>1, <2>2
<1>9. FaithfulEntry(f)
  <2>1. Times(f)
    BY <1>1, <1>7, <1>8 DEF Times
  <2>2. f.seen # {}
    BY <1>4
  <2> QED BY <1>3, <1>8, <2>1, <2>2, FaithfulParts
<1> QED BY <1>4, <1>9 DEF Good, f

\* Every flow of a table and of a log is good.
FaithInv ==
    /\ \A t \in Tables, s \in Slots :
         flowtab_info[t].flowtab[s].key # NullKey => Good(flowtab_info[t].flowtab[s])
    /\ \A l \in logs : \A f \in l.flows : Good(f)

\* A flush writes good flows.
LEMMA FaithFlush ==
    ASSUME Inv, FaithInv, NEW now, Flushed(now)
    PROVE  \A l \in logs' : \A f \in l.flows : Good(f)
<1>1. WindowLog(now).flows = ActiveFlows(flowtab_info[flowtab_idx].flowtab)
  BY DEF WindowLog, Current
<1>2. flowtab_idx \in Tables
  BY DEF Inv, TypeOK
<1>3. \A f \in WindowLog(now).flows : Good(f)
  BY <1>1, <1>2 DEF ActiveFlows, FaithInv
<1> QED BY <1>3 DEF FaithInv, Flushed, Dumped

\* flowmon_hook keeps FaithInv.
LEMMA FaithHook ==
    ASSUME Inv, ExactlyOnce, FaithInv, NEW p \in Packets, p.id = npkts, flowmon_hook(p)
    PROVE  FaithInv'
<1>1. /\ flowtab_idx \in Tables
      /\ flowtab_info \in [Tables -> FlowtabInfos]
      /\ \A t \in Tables : InfoOK(flowtab_info[t])
      /\ npkts \in Nat
  BY DEF Inv, TypeOK
<1>2. CASE HookActive(p)
  <2> DEFINE t == flowtab_idx
             new == RecordPacket(Current, p)
  <2>1. flowtab_info' = [flowtab_info EXCEPT ![t] = new] /\ logs' = logs
    BY <1>2 DEF HookActive, Current
  <2>2. Current \in FlowtabInfos /\ InfoOK(Current)
    BY <1>1 DEF Current
  <2>3. \/ Refused(Current, new, p)
        \/ \E s \in Slots, f \in FlowEntries : Placed(Current, new, p, s, f)
    BY <2>2, RecordPacketCases
  <2> HIDE DEF new
  <2>4. flowtab_info'[t] = new /\ \A u \in Tables : u # t => flowtab_info'[u] = flowtab_info[u]
    BY <1>1, <2>1
  <2>5. CASE Refused(Current, new, p)
    <3>1. new.flowtab = Current.flowtab
      BY <2>5 DEF Refused
    <3>2. \A u \in Tables : flowtab_info'[u].flowtab = flowtab_info[u].flowtab
      BY <2>4, <3>1 DEF Current
    <3> QED BY <2>1, <3>2 DEF FaithInv
  <2>6. ASSUME NEW s \in Slots, NEW f \in FlowEntries, Placed(Current, new, p, s, f)
        PROVE  FaithInv'
    <3> DEFINE e == Current.flowtab[s]
    <3>1. Current.flowtab \in [Slots -> FlowEntries]
      BY <2>2 DEF FlowtabInfos, FlowTables
    <3>2. /\ new.flowtab = [Current.flowtab EXCEPT ![s] = f]
          /\ f = Recorded(e, p)
          /\ e.key \in {p.key, NullKey}
      BY <2>6 DEF Placed
    <3>3. e \in FlowEntries /\ e = flowtab_info[t].flowtab[s]
      BY <3>1 DEF Current
    <3>4. e = NullFlow \/ (Good(e) /\ e.key = p.key)
      BY <1>1, <2>2, <3>2, <3>3 DEF InfoOK, FaithInv
    <3>5. \A q \in e.seen : q.id < p.id
      <4>1. e.seen \subseteq Known
        <5>1. Pending = SeenInTables(flowtab_info)
          BY DEF Pending, AllFlows, SeenInTables
        <5>2. \A q \in e.seen : q \in Pending
          BY <1>1, <3>3, <5>1, SeenInSlots
        <5> QED BY <5>2 DEF Known
      <4>2. {q.id : q \in Known} = 0 .. npkts - 1
        BY DEF ExactlyOnce, Known
      <4>3. \A q \in Known : q.id \in 0 .. npkts - 1
        BY <4>2
      <4> HIDE DEF e
      <4> QED BY <1>1, <4>1, <4>3
    <3>6. Good(f)
      <4> HIDE DEF e
      <4> QED BY <3>2, <3>3, <3>4, <3>5, RecordedGood
    <3>7. \A r \in Slots : new.flowtab[r] = IF r = s THEN f ELSE Current.flowtab[r]
      BY <3>1, <3>2
    <3>8. ASSUME NEW u \in Tables, NEW r \in Slots, flowtab_info'[u].flowtab[r].key # NullKey
          PROVE  Good(flowtab_info'[u].flowtab[r])
      <4>1. CASE u = t /\ r = s
        BY <2>4, <3>6, <3>7, <4>1
      <4>2. CASE ~(u = t /\ r = s)
        <5>1. flowtab_info'[u].flowtab[r] = flowtab_info[u].flowtab[r]
          BY <2>4, <3>7, <4>2 DEF Current
        <5> QED BY <3>8, <5>1 DEF FaithInv
      <4> QED BY <4>1, <4>2
    <3> QED BY <2>1, <3>8 DEF FaithInv
  <2> QED BY <2>3, <2>5, <2>6
<1>3. ASSUME NEW t \in Tables, BeginsIn(t, p), Flushed(p.tv)
      PROVE  FaithInv'
  <2>1. /\ flowtab_info'[t] = FirstRecord(p)
        /\ \A u \in Tables : u # t => flowtab_info'[u] = CleanInfo
    BY <1>3, BeginsOK
  <2>2. PICK s \in Slots, f \in FlowEntries :
          /\ f = Recorded(NullFlow, p)
          /\ FirstRecord(p).flowtab = [CleanInfo.flowtab EXCEPT ![s] = f]
    BY ONLY FirstRecordOK, p \in Packets
  <2>3. Good(f)
    <3>1. NullFlow.seen = {}
      BY DEF NullFlow
    <3> QED BY <2>2, <3>1, NullFlowType, RecordedGood
  <2>4. \A r \in Slots : CleanInfo.flowtab[r].key = NullKey
    BY DEF CleanInfo, NullFlow
  <2>5. \A r \in Slots : FirstRecord(p).flowtab[r] = IF r = s THEN f ELSE CleanInfo.flowtab[r]
    BY <2>2 DEF CleanInfo
  <2>6. \A u \in Tables, r \in Slots :
          flowtab_info'[u].flowtab[r].key # NullKey => Good(flowtab_info'[u].flowtab[r])
    BY <2>1, <2>3, <2>4, <2>5
  <2> QED BY <1>3, <2>6, FaithFlush DEF FaithInv
<1>4. CASE /\ ~flowtab_info[flowtab_idx].table_dirty
           /\ BeginsIn(flowtab_idx, p)
           /\ UNCHANGED <<logs, lost, wall>>
  BY <1>1, <1>3, <1>4 DEF Flushed, Current
<1>5. CASE /\ flowtab_info[flowtab_idx].table_dirty
           /\ BeginsIn((flowtab_idx + 1) % pna_tables, p)
           /\ (flowtab_idx + 1) % pna_tables \in Tables
           /\ \E O \in SUBSET {flowtab_idx} : DumpTo({flowtab_idx}, O, p.tv)
  <2>1. Dumped(p.tv)
    BY <1>5, DumpEffect
  <2> QED BY <1>3, <1>5, <2>1 DEF Flushed, Current
<1> QED BY <1>2, <1>4, <1>5, HookCases

\* Every step keeps FaithInv.
LEMMA FaithNext == Inv /\ ExactlyOnce /\ FaithInv /\ [Next]_vars => FaithInv'
<1> SUFFICES ASSUME Inv, ExactlyOnce, FaithInv, [Next]_vars PROVE FaithInv'
  OBVIOUS
<1>1. CASE NextPacket
  BY <1>1, PacketStep, FaithHook DEF Inv
<1>2. CASE flowmon_cleanup
  <2>1. CleansUp
    BY <1>2, CleanupEffect
  <2>2. \A l \in logs' : \A f \in l.flows : Good(f)
    BY <2>1, FaithFlush DEF CleansUp
  <2>3. \A r \in Slots : CleanInfo.flowtab[r].key = NullKey
    BY DEF CleanInfo, NullFlow
  <2> QED BY <2>1, <2>2, <2>3 DEF FaithInv, CleansUp
<1>3. CASE UNCHANGED vars
  BY <1>3 DEF vars, FaithInv
<1> QED BY <1>1, <1>2, <1>3 DEF Next

\* What an entry of a table or of a log says is what a recount of its packets
\* gives: per direction the packets and bytes modulo the word and the union
\* of the flags, the times of the first and the last packet, the direction of
\* the first, and one key.
THEOREM EntriesFaithful == Spec => []FaithfulEntries
<1>1. Init => FaithInv
  <2>1. \A r \in Slots : CleanInfo.flowtab[r].key = NullKey
    BY DEF CleanInfo, NullFlow
  <2> QED BY <2>1 DEF Init, FaithInv
<1>2. FaithInv => FaithfulEntries
  <2> SUFFICES ASSUME FaithInv, NEW f \in AllFlows \cup LoggedFlows PROVE Good(f)
    BY DEF FaithfulEntries, Good
  <2>1. CASE f \in AllFlows
    BY <2>1 DEF AllFlows, ActiveFlows, FaithInv
  <2>2. CASE f \in LoggedFlows
    BY <2>2 DEF LoggedFlows, FaithInv
  <2> QED BY <2>1, <2>2
<1> QED BY <1>1, <1>2, FaithNext, InvAlways, CountedOnce, PTL DEF Spec
=============================================================================

-------------------------- MODULE DumpTableProofs --------------------------
(***************************************************************************)
(* Proofs about DumpTable, for tables, entries and buffers of any size:    *)
(* the buffer is large enough, and a file with a header is complete.       *)
(***************************************************************************)
EXTENDS DumpTable, FiniteSetTheorems, TLAPS

USE DumpAssumption

-----------------------------------------------------------------------------
(* Arithmetic, and sequences laid over others.                             *)

LEMMA MaxPair ==
    ASSUME NEW a \in Int, NEW b \in Int
    PROVE  Max({a, b}) = IF a >= b THEN a ELSE b
  BY DEF Max

\* The place of a unit in the stream of entries tells its entry.
LEMMA Place ==
    ASSUME NEW n \in Nat, NEW j \in 0 .. EntrySize - 1
    PROVE  (n * EntrySize + j) \div EntrySize = n /\ (n * EntrySize + j) % EntrySize = j
  OBVIOUS

\* n entries and one more.
LEMMA OneMore ==
    ASSUME NEW n \in Nat
    PROVE  n * EntrySize \in Nat /\ (n + 1) * EntrySize = n * EntrySize + EntrySize
  OBVIOUS

\* What the buffer and the file hold.
Cells == {"hole", "junk", "cut", "header", "entry"} \X Int

\* What it means for data to be laid over seq at offset p, unit by unit.
LaidOver(over, seq, p, data, fill) ==
    LET k == Len(data)
        n == IF Len(seq) >= p + k THEN Len(seq) ELSE p + k
    IN  /\ over \in Seq(Cells) /\ Len(over) = n
        /\ \A i \in 1 .. n : over[i] = IF i \in p + 1 .. p + k THEN data[i - p]
                                       ELSE IF i <= Len(seq) THEN seq[i] ELSE fill

LEMMA Overlaid ==
    ASSUME NEW seq \in Seq(Cells), NEW data \in Seq(Cells), NEW p \in Nat, NEW fill \in Cells
    PROVE  LaidOver(Overlay(seq, p, data, fill), seq, p, data, fill)
<1> DEFINE m == Len(seq)
           k == Len(data)
           n == IF m >= p + k THEN m ELSE p + k
           at(i) == IF i \in p + 1 .. p + k THEN data[i - p]
                    ELSE IF i <= m THEN seq[i] ELSE fill
           over == Overlay(seq, p, data, fill)
<1>1. m \in Nat /\ k \in Nat /\ n \in Nat
  OBVIOUS
<1>2. Max({m, p + k}) = n
  BY <1>1, MaxPair
<1>3. over = [i \in 1 .. n |-> at(i)]
  BY <1>2 DEF Overlay
<1>4. ASSUME NEW i \in 1 .. n PROVE at(i) \in Cells
  <2>1. CASE i \in p + 1 .. p + k
    <3>1. i - p \in 1 .. k
      BY <1>1, <2>1
    <3> QED BY <2>1, <3>1
  <2>2. CASE i \notin p + 1 .. p + k /\ i <= m
    <3>1. i \in 1 .. m
      BY <1>1, <2>2
    <3> QED BY <2>2, <3>1
  <2>3. CASE i \notin p + 1 .. p + k /\ ~(i <= m)
    BY <2>3
  <2> QED BY <2>1, <2>2, <2>3
<1> HIDE DEF at, over, n
<1>5. over \in Seq(Cells) /\ Len(over) = n /\ \A i \in 1 .. n : over[i] = at(i)
  BY <1>1, <1>3, <1>4
<1> QED BY <1>5 DEF at, over, n, m, k, LaidOver

-----------------------------------------------------------------------------
(* The slots in use, in their order.                                       *)

\* The slots in use before slot s.
Before(s) == {r \in active : r < s}
Slots == 0 .. f_max_entries - 1

LEMMA ActiveInt ==
    ASSUME active \subseteq Slots
    PROVE  \A r \in active : r \in Int
  BY DEF Slots

LEMMA BeforeFinite ==
    ASSUME active \subseteq Slots, NEW s
    PROVE  IsFiniteSet(Before(s)) /\ Cardinality(Before(s)) \in Nat
<1>1. IsFiniteSet(Slots)
  BY FS_Interval DEF Slots
<1>2. Before(s) \subseteq Slots
  BY DEF Before
<1>3. IsFiniteSet(Before(s))
  BY <1>1, <1>2, FS_Subset
<1> QED BY <1>3, FS_CardinalityType

\* The number of slots in use before a slot tells which slot it is.
LEMMA SlotOfBefore ==
    ASSUME active \subseteq Slots, NEW s \in active
    PROVE  SlotOf(Cardinality(Before(s))) = s
<1>1. ASSUME NEW r \in active, NEW t \in active, r < t
      PROVE  Cardinality(Before(r)) # Cardinality(Before(t))
  <2>1. Before(r) \subseteq Before(t) /\ r \in Before(t) /\ r \notin Before(r)
    BY <1>1, ActiveInt DEF Before
  <2>2. IsFiniteSet(Before(t))
    BY BeforeFinite
  <2> QED BY <2>1, <2>2, FS_Subset
<1>2. ASSUME NEW t \in active, Cardinality(Before(t)) = Cardinality(Before(s))
      PROVE  t = s
  <2>1. s \in Int /\ t \in Int
    BY ActiveInt
  <2>2. t < s \/ s < t \/ t = s
    BY <2>1
  <2> QED BY <1>1, <1>2, <2>2
<1> QED BY <1>2 DEF SlotOf, Before

\* A slot in use is one more entry, a free slot is none.
LEMMA BeforeNext ==
    ASSUME active \subseteq Slots, NEW s \in Slots
    PROVE  Cardinality(Before(s + 1)) =
               IF s \in active THEN Cardinality(Before(s)) + 1 ELSE Cardinality(Before(s))
<1>1. CASE s \in active
  <2>1. Before(s + 1) = Before(s) \cup {s} /\ s \notin Before(s)
    BY <1>1, ActiveInt DEF Before
  <2> QED BY <1>1, <2>1, BeforeFinite, FS_AddElement
<1>2. CASE s \notin active
  <2>1. Before(s + 1) = Before(s)
    <3>1. \A r \in active : r # s
      BY <1>2
    <3>2. s \in Int
      BY DEF Slots
    <3>3. \A r \in active : r < s + 1 <=> r < s
      BY <3>1, <3>2, ActiveInt
    <3> QED BY <3>3 DEF Before
  <2> QED BY <1>2, <2>1
<1> QED BY <1>1, <1>2

-----------------------------------------------------------------------------
(* The inductive invariant.                                                *)

Typed == TypeOK /\ buf \in Seq(Cells) /\ file \in Seq(Cells)

\* There is room for one more entry whenever the loop looks at a slot.
Room ==
    nerrors = 0 =>
        /\ pc \in {"open", "scan"} => buf_idx + EntrySize <= BUF_SIZE
        /\ buf_idx <= BUF_SIZE /\ Len(buf) <= BUF_SIZE

\* The i-th unit of what a complete log has behind its header.
Stream(i) == Unit(SlotOf((i - 1) \div EntrySize), ((i - 1) % EntrySize) + 1)

\* Between open and close: the file and then the buffer have the entries of
\* the slots before flow_idx, behind the hole for the header.
Filling == pc \in {"scan", "flush", "lastflush", "header"}
Filled ==
    /\ nflows = Cardinality(Before(flow_idx))
    /\ pos >= 1 /\ pos - 1 + buf_idx = nflows * EntrySize
    /\ buf_idx <= Len(buf) /\ \A i \in 1 .. buf_idx : buf[i] = Stream(pos - 1 + i)
    /\ Len(file) = IF pos = 1 THEN 0 ELSE pos
    /\ \A i \in 2 .. Len(file) : file[i] = Stream(i - 1)
    /\ pc \in {"lastflush", "header"} => flow_idx = f_max_entries
    /\ pc = "header" => buf_idx = 0
    /\ pc \in {"flush", "lastflush"} => buf_idx > 0

Unstarted == flow_idx = 0 /\ nflows = 0 /\ buf_idx = 0 /\ file = <<>> /\ buf = <<>>

Clean == ~short /\ nerrors = 0
Headless == file # <<>> => file[1] = Hole

Content ==
    Clean => /\ pc = "open" => Unstarted
             /\ Filling => Filled
             /\ pc # "closed" => Headless
             /\ pc = "closed" => file = Complete \/ Headless

Inv == Typed /\ Room /\ Content

LEMMA InvInit == Init => Inv
<1> SUFFICES ASSUME Init PROVE Inv
  OBVIOUS
<1>1. Typed
  <2>1. active \subseteq 0 .. f_max_entries - 1 /\ pc = "open" /\ short = FALSE
    BY DEF Init
  <2>2. flow_idx = 0 /\ nflows = 0 /\ buf_idx = 0 /\ pos = 0 /\ nerrors = 0
    BY DEF Init
  <2>3. TypeOK
    <3>1. flow_idx \in 0 .. f_max_entries /\ nflows \in 0 .. flow_idx /\ nerrors \in 0 .. MaxErrors
      BY <2>2
    <3>2. buf_idx \in Nat /\ pos \in Nat
      BY <2>2
    <3> QED BY <2>1, <3>1, <3>2 DEF TypeOK
  <2>4. buf = <<>> /\ file = <<>>
    BY DEF Init
  <2> QED BY <2>3, <2>4 DEF Typed
<1>2. Room
  BY DEF Init, Room
<1>3. Content
  BY DEF Init, Content, Unstarted, Filling, Headless
<1> QED BY <1>1, <1>2, <1>3 DEF Inv

\* The entry of a slot.
LEMMA EntryUnits ==
    ASSUME NEW s \in Nat
    PROVE  Entry(s) \in Seq(Cells) /\ Len(Entry(s)) = EntrySize
           /\ \A i \in 1 .. EntrySize : Entry(s)[i] = Unit(s, i)
<1>1. \A i \in 1 .. EntrySize : Unit(s, i) \in Cells
  <2> SUFFICES ASSUME NEW i \in 1 .. EntrySize PROVE Unit(s, i) \in Cells
    OBVIOUS
  <2>1. s * EntrySize \in Int
    OBVIOUS
  <2>2. s * EntrySize + i \in Int
    BY <2>1
  <2> QED BY <2>2 DEF Unit, Cells
<1> QED BY <1>1 DEF Entry

\* What a write of count units is given.
LEMMA Given ==
    ASSUME Typed, NEW count \in 0 .. buf_idx
    PROVE  LET given == SubSeq(Buffered, 1, count)
           IN  /\ given \in Seq(Cells) /\ Len(given) = count
               /\ \A i \in 1 .. count : i <= Len(buf) => given[i] = buf[i]
<1>1. buf_idx \in Nat /\ buf \in Seq(Cells)
  BY DEF Typed, TypeOK
<1>2. Junk \in Cells
  BY DEF Junk, Cells
<1>3. \A i \in 1 .. buf_idx : (IF i <= Len(buf) THEN buf[i] ELSE Junk) \in Cells
  BY <1>1, <1>2
<1>4. /\ Buffered \in Seq(Cells) /\ Len(Buffered) = buf_idx
      /\ \A i \in 1 .. buf_idx : i <= Len(buf) => Buffered[i] = buf[i]
  BY <1>1, <1>3 DEF Buffered
<1> QED BY <1>1, <1>4

-----------------------------------------------------------------------------
(* The steps.                                                              *)

\* The set active does not change, so neither does what a log should hold.
LEMMA SameStream ==
    ASSUME active' = active
    PROVE  /\ \A s : Before(s)' = Before(s)
           /\ \A i : Stream(i)' = Stream(i)
           /\ Complete' = Complete
  BY DEF Before, Stream, SlotOf, Complete

LEMMA OpenStep ==
    ASSUME Inv, Open
    PROVE  Inv'
<1>1. UNCHANGED <<active, flow_idx, nflows, buf, buf_idx, file, nerrors, short>> /\ pc = "open"
  BY DEF Open
<1>2. \/ pc' = "scan" /\ pos' = 1
      \/ pc' = "unopened" /\ pos' = pos
  BY DEF Open
<1>3. Typed'
  BY <1>1, <1>2 DEF Inv, Typed, TypeOK
<1>4. Room'
  BY <1>1, <1>2 DEF Inv, Room
<1>5. ASSUME Clean' PROVE Content'
  <2>1. Clean /\ Unstarted
    BY <1>1, <1>5 DEF Clean, Inv, Content
  <2>2. Headless'
    BY <1>1, <2>1 DEF Headless, Unstarted
  <2>3. CASE pc' = "scan" /\ pos' = 1
    <3>1. Cardinality(Before(0)) = 0
      <4>1. Before(0) = {}
        <5>1. \A r \in active : ~(r < 0)
          BY DEF Inv, Typed, TypeOK
        <5> QED BY <5>1 DEF Before
      <4> QED BY <4>1, FS_EmptySet
    <3>2. Before(0)' = Before(0)
      BY <1>1, SameStream
    <3>3. flow_idx' = 0 /\ nflows' = 0 /\ buf_idx' = 0 /\ file' = <<>> /\ buf' = <<>>
      BY <1>1, <2>1 DEF Unstarted
    <3>4. nflows' = Cardinality(Before(flow_idx)')
      BY <3>1, <3>2, <3>3 DEF Before
    <3>5. Filled'
      BY <2>3, <3>3, <3>4 DEF Filled
    <3> QED BY <2>2, <2>3, <3>5 DEF Content
  <2>4. CASE pc' = "unopened"
    BY <2>2, <2>4 DEF Content, Filling
  <2> QED BY <1>2, <2>3, <2>4
<1> QED BY <1>3, <1>4, <1>5 DEF Inv, Content

\* The next entry is the continuation of the stream.
LEMMA EntryIsStream ==
    ASSUME TypeOK, flow_idx \in active, nflows = Cardinality(Before(flow_idx)),
           NEW i \in 1 .. EntrySize
    PROVE  Stream(nflows * EntrySize + i) = Unit(flow_idx, i)
<1>1. active \subseteq Slots /\ nflows \in Nat
  BY DEF TypeOK, Slots
<1>2. SlotOf(nflows) = flow_idx
  BY <1>1, SlotOfBefore
<1> DEFINE j == i - 1
           m == nflows * EntrySize
           x == m + i
<1>3. j \in 0 .. EntrySize - 1 /\ j + 1 = i
  OBVIOUS
<1>4. m \in Int
  BY <1>1
<1> HIDE DEF j
<1>5. (m + j) \div EntrySize = nflows /\ (m + j) % EntrySize = j
  BY <1>1, <1>3, Place, Zenon
<1> HIDE DEF m
<1>6. x - 1 = m + j
  BY <1>3, <1>4 DEF j
<1> HIDE DEF x
<1>7. Stream(x) = Unit(SlotOf(nflows), j + 1)
  BY <1>5, <1>6, Zenon DEF Stream
<1> QED BY <1>2, <1>3, <1>7, Zenon DEF x, m

LEMMA ScanStep ==
    ASSUME Inv, Scan
    PROVE  Inv'
<1>1. /\ pc = "scan" /\ flow_idx < f_max_entries /\ flow_idx' = flow_idx + 1
      /\ UNCHANGED <<active, pos, file, nerrors, short>>
  BY DEF Scan
<1>2. TypeOK /\ buf \in Seq(Cells) /\ file \in Seq(Cells)
  BY DEF Inv, Typed
<1>3. /\ active \subseteq Slots /\ flow_idx \in Slots /\ flow_idx \in Nat /\ nflows \in Nat
      /\ buf_idx \in Nat /\ pos \in Nat /\ nflows <= flow_idx
  BY <1>1, <1>2 DEF TypeOK, Slots
<1>4. CASE flow_idx \notin active
  <2>1. UNCHANGED <<pc, nflows, buf, buf_idx>>
    BY <1>4 DEF Scan
  <2>2. Typed'
    <3>1. nflows' \in 0 .. flow_idx' /\ flow_idx' \in 0 .. f_max_entries
      BY <1>1, <1>3, <2>1
    <3>2. TypeOK'
      BY <1>1, <1>2, <2>1, <3>1 DEF TypeOK
    <3> QED BY <1>1, <1>2, <2>1, <3>2 DEF Typed
  <2>3. Room'
    BY <1>1, <2>1 DEF Inv, Room
  <2>4. ASSUME Clean' PROVE Content'
    <3>1. Clean /\ Filled /\ Headless
      BY <1>1, <2>4 DEF Clean, Inv, Content, Filling
    <3>2. Headless'
      BY <1>1, <3>1 DEF Headless
    <3>3. Cardinality(Before(flow_idx + 1)) = nflows
      BY <1>3, <1>4, <3>1, BeforeNext DEF Filled
    <3>4. Before(flow_idx)' = Before(flow_idx + 1)
      BY <1>1 DEF Before
    <3>5. Filled'
      BY <1>1, <2>1, <3>1, <3>3, <3>4, SameStream DEF Filled
    <3> QED BY <1>1, <2>1, <3>2, <3>5 DEF Content
  <2> QED BY <2>2, <2>3, <2>4 DEF Inv, Content
<1>5. CASE flow_idx \in active
  <2> DEFINE over == Overlay(buf, buf_idx, Entry(flow_idx), Junk)
             m == IF Len(buf) >= buf_idx + EntrySize THEN Len(buf) ELSE buf_idx + EntrySize
  <2>1. /\ buf' = over /\ buf_idx' = buf_idx + EntrySize /\ nflows' = nflows + 1
        /\ pc' = IF buf_idx' + EntrySize >= BUF_SIZE THEN "flush" ELSE "scan"
    BY <1>5 DEF Scan
  <2>2. /\ Entry(flow_idx) \in Seq(Cells) /\ Len(Entry(flow_idx)) = EntrySize
        /\ \A i \in 1 .. EntrySize : Entry(flow_idx)[i] = Unit(flow_idx, i)
    BY <1>3, EntryUnits
  <2>3. Junk \in Cells
    BY DEF Junk, Cells
  <2>4. /\ over \in Seq(Cells) /\ Len(over) = m
        /\ \A i \in 1 .. m : over[i] =
               IF i \in buf_idx + 1 .. buf_idx + EntrySize THEN Entry(flow_idx)[i - buf_idx]
               ELSE IF i <= Len(buf) THEN buf[i] ELSE Junk
    <3>1. LaidOver(over, buf, buf_idx, Entry(flow_idx), Junk)
      BY <1>2, <1>3, <2>2, <2>3, Overlaid
    <3> HIDE DEF over
    <3> QED BY <2>2, <3>1 DEF LaidOver
  <2> HIDE DEF over
  <2>5. Typed'
    <3>1. nflows' \in 0 .. flow_idx' /\ flow_idx' \in 0 .. f_max_entries /\ buf_idx' \in Nat
      BY <1>1, <1>3, <2>1
    <3>2. pc' \in {"flush", "scan"}
      BY <2>1
    <3>3. TypeOK'
      BY <1>1, <1>2, <3>1, <3>2 DEF TypeOK
    <3> QED BY <1>1, <1>2, <2>1, <2>4, <3>3 DEF Typed
  <2>6. Room'
    <3> SUFFICES ASSUME nerrors' = 0
                 PROVE  /\ pc' \in {"open", "scan"} => buf_idx' + EntrySize <= BUF_SIZE
                        /\ buf_idx' <= BUF_SIZE /\ Len(buf)' <= BUF_SIZE
      BY DEF Room
    <3>1. buf_idx + EntrySize <= BUF_SIZE /\ Len(buf) <= BUF_SIZE
      BY <1>1 DEF Inv, Room
    <3>2. Len(buf') = m
      BY <2>1, <2>4
    <3> QED BY <1>2, <1>3, <2>1, <3>1, <3>2
  <2>7. ASSUME Clean' PROVE Content'
    <3>1. Clean /\ Filled /\ Headless
      BY <1>1, <2>7 DEF Clean, Inv, Content, Filling
    <3>2. Headless'
      BY <1>1, <3>1 DEF Headless
    <3>3. nflows' = Cardinality(Before(flow_idx)')
      <4>1. Cardinality(Before(flow_idx + 1)) = nflows + 1
        BY <1>3, <1>5, <3>1, BeforeNext DEF Filled
      <4>2. Before(flow_idx)' = Before(flow_idx + 1)
        BY <1>1 DEF Before
      <4> QED BY <2>1, <4>1, <4>2
    <3>4. pos' - 1 + buf_idx' = nflows' * EntrySize
      <4>1. (nflows + 1) * EntrySize = nflows * EntrySize + EntrySize /\ nflows * EntrySize \in Nat
        BY <1>3, OneMore
      <4>2. pos - 1 + buf_idx = nflows * EntrySize
        BY <3>1 DEF Filled
      <4> QED BY <1>1, <1>3, <2>1, <4>1, <4>2
    <3>5. buf_idx' <= Len(buf)' /\ buf_idx' > 0
      BY <1>2, <1>3, <2>1, <2>4
    <3>6. ASSUME NEW i \in 1 .. buf_idx + EntrySize
          PROVE  buf'[i] = Stream(pos - 1 + i)
      <4>1. buf_idx <= Len(buf) /\ Len(buf) \in Nat /\ i \in Nat
        BY <1>2, <1>3, <3>1 DEF Filled
      <4>2. i \in 1 .. m
        BY <1>3, <4>1
      <4>3. CASE i \in 1 .. buf_idx
        <5>1. i \notin buf_idx + 1 .. buf_idx + EntrySize /\ i <= Len(buf)
          BY <1>3, <4>1, <4>3
        <5>2. over[i] = buf[i]
          BY <2>4, <4>2, <5>1
        <5> QED BY <2>1, <3>1, <4>3, <5>2 DEF Filled
      <4>4. CASE i \in buf_idx + 1 .. buf_idx + EntrySize
        <5>1. i - buf_idx \in 1 .. EntrySize
          BY <1>3, <4>4
        <5>2. over[i] = Unit(flow_idx, i - buf_idx)
          BY <2>2, <2>4, <4>2, <4>4, <5>1
        <5>3. nflows * EntrySize + (i - buf_idx) = pos - 1 + i
          BY <1>3, <3>1, <4>1 DEF Filled
        <5>4. Stream(nflows * EntrySize + (i - buf_idx)) = Unit(flow_idx, i - buf_idx)
          BY <1>2, <1>5, <3>1, <5>1, EntryIsStream DEF Filled
        <5> QED BY <2>1, <5>2, <5>3, <5>4
      <4> QED BY <1>3, <4>3, <4>4
    <3>7. pc' \in {"flush", "scan"}
      BY <2>1
    <3>8. Filled'
      <4>1. \A i \in 1 .. buf_idx' : buf'[i] = Stream(pos - 1 + i)'
        BY <1>1, <2>1, <3>6, SameStream
      <4>2. \A i \in 2 .. Len(file)' : file'[i] = Stream(i - 1)'
        BY <1>1, <3>1, SameStream DEF Filled
      <4>3. pos' >= 1 /\ Len(file)' = IF pos' = 1 THEN 0 ELSE pos'
        BY <1>1, <3>1 DEF Filled
      <4> QED BY <3>3, <3>4, <3>5, <3>7, <4>1, <4>2, <4>3 DEF Filled
    <3> QED BY <3>2, <3>7, <3>8 DEF Content
  <2> QED BY <2>5, <2>6, <2>7 DEF Inv, Content
<1> QED BY <1>4, <1>5

LEMMA EndScanStep ==
    ASSUME Inv, EndScan
    PROVE  Inv'
<1>1. /\ pc = "scan" /\ flow_idx = f_max_entries
      /\ UNCHANGED <<active, flow_idx, nflows, buf, buf_idx, pos, file, nerrors, short>>
  BY DEF EndScan
<1>2. pc' = IF buf_idx > 0 THEN "lastflush" ELSE "header"
  BY DEF EndScan
<1>3. buf_idx \in Nat
  BY DEF Inv, Typed, TypeOK
<1>4. Typed'
  BY <1>1, <1>2 DEF Inv, Typed, TypeOK
<1>5. Room'
  BY <1>1, <1>2 DEF Inv, Room
<1>6. ASSUME Clean' PROVE Content'
  <2>1. Clean /\ Filled /\ Headless
    BY <1>1, <1>6 DEF Clean, Inv, Content, Filling
  <2>2. (pc' = "header" => buf_idx' = 0) /\ (pc' \in {"flush", "lastflush"} => buf_idx' > 0)
    BY <1>1, <1>2, <1>3
  <2>3. Before(flow_idx)' = Before(flow_idx)
    BY <1>1 DEF Before
  <2>4. Filled'
    BY <1>1, <2>1, <2>2, <2>3, SameStream DEF Filled
  <2>5. Headless' /\ pc' \notin {"open", "closed"}
    BY <1>1, <1>2, <2>1 DEF Headless
  <2> QED BY <2>4, <2>5 DEF Content
<1> QED BY <1>4, <1>5, <1>6 DEF Inv, Content

\* A write leaves room in the buffer, and a sequence in the file.
LEMMA WriteKeeps ==
    ASSUME Inv, NEW count \in 0 .. buf_idx, Write(count), short' \in BOOLEAN
    PROVE  /\ Typed' /\ Room'
           /\ LaidOver(file', file, pos, SubSeq(Buffered, 1, count), Hole)
<1>1. /\ pc \in {"flush", "lastflush"}
      /\ file' = Overlay(file, pos, SubSeq(Buffered, 1, count), Hole)
      /\ pos' = pos + count /\ buf_idx' = buf_idx - count
      /\ UNCHANGED <<active, flow_idx, nflows, buf, nerrors>>
  BY DEF Write
<1>2. pc' = IF buf_idx' > 0 THEN pc ELSE IF pc = "flush" THEN "scan" ELSE "header"
  BY DEF Write
<1>3. Typed /\ buf_idx \in Nat /\ pos \in Nat /\ file \in Seq(Cells)
  BY DEF Inv, Typed, TypeOK
<1>4. Hole \in Cells
  BY DEF Hole, Cells
<1>5. SubSeq(Buffered, 1, count) \in Seq(Cells)
  BY <1>3, Given
<1>6. LaidOver(file', file, pos, SubSeq(Buffered, 1, count), Hole)
  BY <1>1, <1>3, <1>4, <1>5, Overlaid
<1>7. buf_idx' \in Nat /\ pos' \in Nat /\ buf_idx' <= buf_idx
  BY <1>1, <1>3
<1>8. pc' \in {"flush", "lastflush", "scan", "header"}
  BY <1>1, <1>2
<1>9. Typed'
  <2>1. file' \in Seq(Cells)
    BY <1>6 DEF LaidOver
  <2> QED BY <1>1, <1>3, <1>7, <1>8, <2>1 DEF Typed, TypeOK
<1>10. Room'
  <2> SUFFICES ASSUME nerrors' = 0
               PROVE  /\ pc' \in {"open", "scan"} => buf_idx' + EntrySize <= BUF_SIZE
                      /\ buf_idx' <= BUF_SIZE /\ Len(buf)' <= BUF_SIZE
    BY DEF Room
  <2>1. buf_idx <= BUF_SIZE /\ Len(buf) <= BUF_SIZE
    BY <1>1 DEF Inv, Room
  <2>2. pc' = "scan" => buf_idx' = 0
    BY <1>1, <1>2, <1>7
  <2> QED BY <1>1, <1>3, <1>7, <1>8, <2>1, <2>2
<1> QED BY <1>6, <1>9, <1>10

\* A write of the whole buffer moves its contents to the end of the file.
LEMMA FullWriteStep ==
    ASSUME Inv, FullWrite
    PROVE  Inv'
<1> DEFINE given == SubSeq(Buffered, 1, buf_idx)
<1>1. /\ Typed /\ buf_idx \in Nat /\ buf_idx \in 0 .. buf_idx /\ pos \in Nat /\ nflows \in Nat
      /\ file \in Seq(Cells) /\ short \in BOOLEAN
  BY DEF Inv, Typed, TypeOK
<1>2. Write(buf_idx) /\ short' = short
  BY DEF FullWrite
<1>3. /\ pc \in {"flush", "lastflush"} /\ pos' = pos + buf_idx /\ buf_idx' = buf_idx - buf_idx
      /\ UNCHANGED <<active, flow_idx, nflows, buf, nerrors>>
  BY <1>2 DEF Write
<1>4. buf_idx' = 0
  BY <1>1, <1>3
<1>5. pc' = IF pc = "flush" THEN "scan" ELSE "header"
  BY <1>2, <1>4 DEF Write
<1>6. Typed' /\ Room' /\ LaidOver(file', file, pos, given, Hole)
  BY <1>1, <1>2, WriteKeeps
<1>7. /\ given \in Seq(Cells) /\ Len(given) = buf_idx
      /\ \A i \in 1 .. buf_idx : i <= Len(buf) => given[i] = buf[i]
  BY <1>1, Given
<1> HIDE DEF given
<1>8. ASSUME Clean' PROVE Content'
  <2>1. Clean /\ Filled /\ Headless
    BY <1>2, <1>3, <1>8 DEF Clean, Inv, Content, Filling
  <2>2. /\ pos >= 1 /\ pos - 1 + buf_idx = nflows * EntrySize
        /\ buf_idx <= Len(buf) /\ \A i \in 1 .. buf_idx : buf[i] = Stream(pos - 1 + i)
        /\ Len(file) = IF pos = 1 THEN 0 ELSE pos
        /\ \A i \in 2 .. Len(file) : file[i] = Stream(i - 1)
        /\ buf_idx > 0
    BY <1>3, <2>1 DEF Filled
  <2> DEFINE n == pos + buf_idx
  <2>3. n \in Nat /\ n >= 2 /\ Len(file) <= pos
    BY <1>1, <2>2
  <2>4. /\ Len(file') = n
        /\ \A i \in 1 .. n : file'[i] = IF i \in pos + 1 .. pos + buf_idx THEN given[i - pos]
                                        ELSE IF i <= Len(file) THEN file[i] ELSE Hole
    <3>1. (IF Len(file) >= pos + Len(given) THEN Len(file) ELSE pos + Len(given)) = n
      BY <1>1, <1>7, <2>2, <2>3
    <3> QED BY <1>6, <1>7, <3>1 DEF LaidOver
  <2> HIDE DEF n
  <2>5. ASSUME NEW i \in 2 .. n PROVE file'[i] = Stream(i - 1)
    <3>1. i \in 1 .. n /\ i \in Int
      BY <2>3
    <3>2. CASE i \in pos + 1 .. pos + buf_idx
      <4>1. i - pos \in 1 .. buf_idx /\ i - pos <= Len(buf)
        BY <1>1, <2>2, <3>1, <3>2
      <4>2. pos - 1 + (i - pos) = i - 1
        BY <1>1, <3>1
      <4> QED BY <1>7, <2>2, <2>4, <3>1, <3>2, <4>1, <4>2
    <3>3. CASE i \notin pos + 1 .. pos + buf_idx
      <4>1. i <= pos
        BY <1>1, <3>1, <3>3 DEF n
      <4>2. Len(file) = pos /\ i \in 2 .. Len(file)
        BY <1>1, <2>2, <4>1
      <4> QED BY <2>2, <2>4, <3>1, <3>3, <4>1, <4>2
    <3> QED BY <3>2, <3>3
  <2>6. Headless'
    <3>1. 1 \in 1 .. n /\ 1 \notin pos + 1 .. pos + buf_idx
      BY <1>1, <2>2, <2>3
    <3>2. 1 <= Len(file) => file # <<>>
      OBVIOUS
    <3>3. file'[1] = Hole
      BY <2>1, <2>4, <3>1, <3>2 DEF Headless
    <3> QED BY <3>3 DEF Headless, Hole
  <2>7. Filled'
    <3>1. nflows' = Cardinality(Before(flow_idx)')
      BY <1>3, <2>1 DEF Filled, Before
    <3>2. pos' >= 1 /\ pos' - 1 + buf_idx' = nflows' * EntrySize
      <4>1. nflows * EntrySize \in Nat
        BY <1>1, OneMore
      <4> QED BY <1>1, <1>3, <1>4, <2>2, <4>1
    <3>3. buf_idx' <= Len(buf)' /\ \A i \in 1 .. buf_idx' : buf'[i] = Stream(pos - 1 + i)'
      <4>1. Len(buf) \in Nat
        BY <1>1 DEF Typed
      <4> QED BY <1>3, <1>4, <4>1
    <3>4. Len(file)' = IF pos' = 1 THEN 0 ELSE pos'
      BY <1>1, <1>3, <2>3, <2>4 DEF n
    <3>5. \A i \in 2 .. Len(file)' : file'[i] = Stream(i - 1)'
      BY <1>3, <2>4, <2>5, SameStream
    <3>6. pc' \in {"lastflush", "header"} => flow_idx' = f_max_entries
      BY <1>3, <1>5, <2>1 DEF Filled
    <3>7. pc' \notin {"flush", "lastflush"}
      BY <1>3, <1>5
    <3> QED BY <1>4, <3>1, <3>2, <3>3, <3>4, <3>5, <3>6, <3>7 DEF Filled
  <2>8. pc' \notin {"open", "closed"}
    BY <1>3, <1>5
  <2> QED BY <2>6, <2>7, <2>8 DEF Content
<1> QED BY <1>6, <1>8 DEF Inv, Content

\* What is promised of the contents ends with a write that is short or fails.
LEMMA FaultStep ==
    ASSUME Inv, ShortWrite \/ WriteError
    PROVE  Inv'
<1>1. CASE ShortWrite
  <2>1. PICK count \in 1 .. buf_idx - 1 : Write(count)
    BY <1>1 DEF ShortWrite
  <2>2. count \in 0 .. buf_idx
    BY DEF Inv, Typed, TypeOK
  <2>3. short' = TRUE
    BY <1>1 DEF ShortWrite
  <2>4. Typed' /\ Room'
    BY <2>1, <2>2, <2>3, WriteKeeps
  <2> QED BY <2>3, <2>4 DEF Inv, Content, Clean
<1>2. CASE WriteError
  <2>1. /\ nerrors < MaxErrors /\ nerrors' = nerrors + 1 /\ buf_idx' = buf_idx + 1
        /\ UNCHANGED <<pc, active, flow_idx, nflows, buf, pos, file, short>>
    BY <1>2 DEF WriteError
  <2>2. nerrors \in 0 .. MaxErrors /\ buf_idx \in Nat
    BY DEF Inv, Typed, TypeOK
  <2>3. nerrors' \in 0 .. MaxErrors /\ nerrors' # 0 /\ buf_idx' \in Nat
    BY <2>1, <2>2
  <2>4. Typed'
    BY <2>1, <2>3 DEF Inv, Typed, TypeOK
  <2> QED BY <2>3, <2>4 DEF Inv, Room, Content, Clean
<1> QED BY <1>1, <1>2

\* The header completes the log: every slot has been looked at, the buffer is
\* empty, and behind the first unit the file has the stream.
LEMMA HeaderStep ==
    ASSUME Inv, WriteHeader
    PROVE  Inv'
<1> DEFINE head == Header(nflows * EntrySize)
<1>0. CASE UNCHANGED <<file, short>> /\ pos' = 0
  <2>1. /\ pc = "header" /\ pc' = "closed"
        /\ UNCHANGED <<active, flow_idx, nflows, buf, buf_idx, nerrors>>
    BY DEF WriteHeader
  <2>2. Typed' /\ Room'
    BY <1>0, <2>1 DEF Inv, Typed, TypeOK, Room
  <2>3. Content'
    BY <1>0, <2>1 DEF Inv, Content, Clean, Filling, Headless
  <2> QED BY <2>2, <2>3 DEF Inv
<1>0a. ASSUME NEW v \in Cells, pos' \in Nat, short' \in BOOLEAN,
              pc = "header", pc' = "closed", file' = Overlay(file, 0, <<v>>, Hole),
              UNCHANGED <<active, flow_idx, nflows, buf, buf_idx, nerrors>>
       PROVE  Typed' /\ Room' /\ LaidOver(file', file, 0, <<v>>, Hole)
  <2>1. <<v>> \in Seq(Cells) /\ Hole \in Cells /\ file \in Seq(Cells) /\ 0 \in Nat
    BY DEF Hole, Cells, Inv, Typed
  <2>2. LaidOver(file', file, 0, <<v>>, Hole)
    BY <1>0a, <2>1, Overlaid
  <2>3. file' \in Seq(Cells)
    BY <2>2 DEF LaidOver
  <2> QED BY <1>0a, <2>2, <2>3 DEF Inv, Typed, TypeOK, Room
<1>0b. CASE file' = Overlay(file, 0, <<Cut>>, Hole) /\ pos' = 0 /\ short' = TRUE
  <2>1. Cut \in Cells
    BY DEF Cut, Cells
  <2>2. Typed' /\ Room'
    BY <1>0a, <1>0b, <2>1 DEF WriteHeader
  <2> QED BY <1>0b, <2>2 DEF Inv, Content, Clean
<1> SUFFICES ASSUME file' = Overlay(file, 0, <<head>>, Hole), pos' = 1, short' = short
             PROVE  Inv'
  BY <1>0, <1>0b DEF WriteHeader
<1>1. /\ pc = "header" /\ pc' = "closed" /\ file' = Overlay(file, 0, <<head>>, Hole) /\ pos' = 1
      /\ UNCHANGED <<active, flow_idx, nflows, buf, buf_idx, nerrors, short>>
  BY DEF WriteHeader
<1>2. /\ active \subseteq Slots /\ nflows \in Nat /\ pos \in Nat /\ file \in Seq(Cells)
      /\ buf_idx \in Nat
  BY DEF Inv, Typed, TypeOK, Slots
<1>3. <<head>> \in Seq(Cells) /\ Len(<<head>>) = 1 /\ <<head>>[1] = head /\ Hole \in Cells
  <2>1. nflows * EntrySize \in Int
    BY <1>2
  <2>2. head \in Cells /\ Hole \in Cells
    BY <2>1 DEF Header, Hole, Cells
  <2> HIDE DEF head
  <2> QED BY <2>2
<1> HIDE DEF head
<1>4. LaidOver(file', file, 0, <<head>>, Hole)
  BY <1>1, <1>2, <1>3, Overlaid
<1>5. Typed'
  <2>1. file' \in Seq(Cells)
    BY <1>4 DEF LaidOver
  <2> QED BY <1>1, <2>1 DEF Inv, Typed, TypeOK
<1>6. Room'
  BY <1>1 DEF Inv, Room
<1>7. ASSUME Clean' PROVE file' = Complete'
  <2>1. Clean /\ Filled
    BY <1>1, <1>7 DEF Clean, Inv, Content, Filling
  <2>2. /\ nflows = Cardinality(Before(f_max_entries)) /\ pos >= 1 /\ buf_idx = 0
        /\ pos - 1 + buf_idx = nflows * EntrySize /\ Len(file) = IF pos = 1 THEN 0 ELSE pos
        /\ \A i \in 2 .. Len(file) : file[i] = Stream(i - 1)
    BY <1>1, <2>1 DEF Filled
  <2>3. nflows = Cardinality(active)
    <3>1. \A r \in active : r < f_max_entries
      BY <1>2 DEF Slots
    <3>2. Before(f_max_entries) = active
      BY <3>1 DEF Before
    <3> QED BY <2>2, <3>2
  <2>4. pos = 1 + nflows * EntrySize
    <3>1. nflows * EntrySize \in Nat
      BY <1>2, OneMore
    <3> QED BY <1>2, <2>2, <3>1
  <2>5. /\ Len(file') = pos
        /\ \A i \in 1 .. pos : file'[i] = IF i = 1 THEN head
                                          ELSE IF i <= Len(file) THEN file[i] ELSE Hole
    <3>1. (IF Len(file) >= 0 + 1 THEN Len(file) ELSE 0 + 1) = pos
      BY <1>2, <2>2
    <3>2. \A i \in 1 .. pos : i \in 0 + 1 .. 0 + 1 <=> i = 1
      BY <1>2
    <3>3. <<head>>[1 - 0] = head
      BY <1>3
    <3> QED BY <1>3, <1>4, <3>1, <3>2, <3>3 DEF LaidOver
  <2> DEFINE at(i) == IF i = 1 THEN head ELSE Stream(i - 1)
  <2>6. ASSUME NEW i \in 1 .. pos PROVE file'[i] = at(i)
    <3>1. CASE i = 1
      BY <2>5, <3>1
    <3>2. CASE i # 1
      <4>1. i \in 2 .. Len(file) /\ i <= Len(file)
        BY <1>2, <2>2, <3>2
      <4> QED BY <2>2, <2>5, <3>2, <4>1
    <3> QED BY <3>1, <3>2
  <2>7. Complete = [i \in 1 .. pos |-> at(i)]
    <3>1. ASSUME NEW i \in 1 .. pos
          PROVE  Stream(i - 1) = Unit(SlotOf((i - 2) \div EntrySize), ((i - 2) % EntrySize) + 1)
      <4>1. (i - 1) - 1 = i - 2
        BY <1>2
      <4> QED BY <4>1 DEF Stream
    <3>2. Complete = [i \in 1 .. 1 + nflows * EntrySize |->
                        IF i = 1 THEN head
                        ELSE Unit(SlotOf((i - 2) \div EntrySize), ((i - 2) % EntrySize) + 1)]
      BY <2>3 DEF Complete, head
    <3> QED BY <2>4, <3>1, <3>2
  <2>8. file' = [i \in 1 .. pos |-> file'[i]]
    <3>1. file' \in Seq(Cells) /\ Len(file') = pos
      BY <1>5, <2>5 DEF Typed
    <3> QED BY <3>1
  <2>9. Complete' = Complete
    BY <1>1, SameStream
  <2> HIDE DEF at
  <2> QED BY <2>6, <2>7, <2>8, <2>9
<1> QED BY <1>1, <1>5, <1>6, <1>7 DEF Inv, Content, Filling

LEMMA KillStep ==
    ASSUME Inv, Kill
    PROVE  Inv'
<1>1. /\ pc' = "killed" /\ pc # "closed"
      /\ UNCHANGED <<active, flow_idx, nflows, buf, buf_idx, pos, file, nerrors, short>>
  BY DEF Kill, Finished
<1>2. Typed'
  BY <1>1 DEF Inv, Typed, TypeOK
<1>3. Room'
  BY <1>1 DEF Inv, Room
<1>4. Content'
  BY <1>1 DEF Inv, Content, Clean, Filling, Headless
<1> QED BY <1>2, <1>3, <1>4 DEF Inv

-----------------------------------------------------------------------------
(* The theorems.                                                           *)

LEMMA Invariance == Spec => []Inv
<1>1. Inv /\ [Next]_vars => Inv'
  <2> SUFFICES ASSUME Inv, [Next]_vars PROVE Inv'
    OBVIOUS
  <2>1. CASE UNCHANGED vars
    <3>1. UNCHANGED <<pc, active, flow_idx, nflows, buf, buf_idx, pos, file, nerrors, short>>
      BY <2>1 DEF vars
    <3>2. Typed' /\ Room'
      BY <3>1 DEF Inv, Typed, TypeOK, Room
    <3>3. Content'
      <4>1. Before(flow_idx)' = Before(flow_idx)
        BY <3>1 DEF Before
      <4> QED BY <3>1, <4>1, SameStream
              DEF Inv, Content, Clean, Unstarted, Filling, Filled, Headless
    <3> QED BY <3>2, <3>3 DEF Inv
  <2>2. CASE Next
    BY <2>2, OpenStep, ScanStep, EndScanStep, FullWriteStep, FaultStep, HeaderStep, KillStep
    DEF Next, DumpStep
  <2> QED BY <2>1, <2>2
<1> QED BY <1>1, InvInit, PTL DEF Spec

\* dump_table keeps its indices and counters in range, for any table and any
\* buffer that holds an entry.
THEOREM Typing == Spec => []TypeOK
<1>1. Inv => TypeOK
  BY DEF Inv, Typed
<1> QED BY <1>1, Invariance, PTL

\* For sizes of the buffer and of an entry that need not divide one another,
\* an entry is put into the buffer only where it fits, short writes included.
THEOREM Fits == Spec => []BufferFits
<1>1. Inv => BufferFits
  BY DEF Inv, Room, BufferFits
<1> QED BY <1>1, Invariance, PTL

\* For tables of any size and any slots in use, whenever the process is killed,
\* a file with a header has the entries of all slots in use, in their order,
\* as long as the writes behind the header write all they are given.
THEOREM HeaderLast == Spec => []HeaderMeansComplete
<1>1. Inv => HeaderMeansComplete
  BY DEF Inv, Content, Clean, Headless, HeaderMeansComplete, HasHeader
<1> QED BY <1>1, Invariance, PTL
=============================================================================

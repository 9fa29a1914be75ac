-------------------------- MODULE FragTableProofs --------------------------
(***************************************************************************)
(* Proofs about FragTable, for a ring of any size and any number of        *)
(* fragments in any order.                                                 *)
(***************************************************************************)
EXTENDS FragTable, WellFoundedInduction, FiniteSetTheorems, TLAPS

\* A nonempty set of naturals has a least element, and Min chooses it.
LEMMA LeastNat ==
    ASSUME NEW S \in SUBSET Nat, S # {}
    PROVE  Min(S) \in S /\ \A y \in S : Min(S) <= y
<1> DEFINE R == {ss \in Nat \X Nat : ss[1] < ss[2]}
<1>1. IsWellFoundedOn(R, Nat)
  BY NatLessThanWellFounded, Zenon DEF OpToRel
<1>2. PICK x \in S : \A y \in S : <<y, x>> \notin R
  <2> HIDE DEF R
  <2> QED BY <1>1, WFMin, Zenon
<1>3. ASSUME NEW y \in S, ~(x <= y) PROVE FALSE
  <2>1. y \in Nat /\ x \in Nat /\ y < x
    BY <1>3
  <2> QED BY <1>2, <2>1
<1> QED BY <1>3 DEF Min

USE FragAssumption

-----------------------------------------------------------------------------
(* The ring and its types.                                                 *)

Typed == TypeOK /\ IsFiniteSet(recorded)

\* pna_get_frag returns an entry with the fingerprint it looks for.
LEMMA GetFrag ==
    ASSUME NEW h, Found(h) # {}
    PROVE  Min(Found(h)) \in Slots
           /\ pna_get_frag(h).fingerprint = pna_frag_hash(h)
<1>1. Found(h) \in SUBSET Nat
  BY DEF Found, Slots
<1>2. Min(Found(h)) \in Found(h)
  BY <1>1, LeastNat
<1> QED BY <1>2 DEF Found, pna_get_frag

\* The entry pna_set_frag writes.
NewFrag(d) == [fingerprint |-> pna_frag_hash(d.hdr), ports |-> d.ports]

\* pna_set_frag, slot by slot.
LEMMA SetFrag ==
    ASSUME TypeOK, NEW d \in Datagrams, FirstFragment(d), Found(d.hdr) = {}
    PROVE  /\ pna_frag_next_idx \in Slots
           /\ pna_frag_next_idx' = (pna_frag_next_idx + 1) % PNA_MAXFRAGS
           /\ pna_frag_next_idx' \in Slots
           /\ \A s \in Slots : pna_frag_table'[s] =
                IF s = pna_frag_next_idx THEN NewFrag(d) ELSE pna_frag_table[s]
           /\ pna_frag_table' = [pna_frag_table EXCEPT ![pna_frag_next_idx] = NewFrag(d)]
<1>1. /\ pna_frag_table' = [pna_frag_table EXCEPT ![pna_frag_next_idx] = NewFrag(d)]
      /\ pna_frag_next_idx' = (pna_frag_next_idx + 1) % PNA_MAXFRAGS
  BY DEF FirstFragment, pna_set_frag, NewFrag
<1>2. pna_frag_next_idx \in Slots /\ pna_frag_next_idx + 1 \in Nat
  BY DEF TypeOK, Slots
<1>3. pna_frag_next_idx' \in Slots
  BY <1>1, <1>2 DEF Slots
<1> QED BY <1>1, <1>2, <1>3 DEF TypeOK

\* Every step keeps the types.
LEMMA TypedNext == Typed /\ [Next]_vars => Typed'
<1> SUFFICES ASSUME Typed, [Next]_vars PROVE Typed'
  OBVIOUS
<1>1. ASSUME NEW d \in Datagrams, FirstFragment(d) PROVE Typed'
  <2>1. recorded' = recorded /\ pna_frag_packets_missed' = pna_frag_packets_missed
        /\ entered' \in Seq(Datagrams)
    BY <1>1 DEF FirstFragment, Typed, TypeOK
  <2>2. CASE Found(d.hdr) # {}
    BY <1>1, <2>1, <2>2 DEF FirstFragment, pna_set_frag, Typed, TypeOK
  <2>3. CASE Found(d.hdr) = {}
    <3>1. NewFrag(d) \in [fingerprint : Prints, ports : Ports \cup {ZeroPorts}]
      BY DEF NewFrag, Prints, Datagrams
    <3>2. /\ pna_frag_next_idx' \in Slots
          /\ pna_frag_table' = [pna_frag_table EXCEPT ![pna_frag_next_idx] = NewFrag(d)]
      BY <1>1, <2>3, SetFrag DEF Typed
    <3> QED BY <2>1, <3>1, <3>2 DEF Typed, TypeOK
  <2> QED BY <2>2, <2>3
<1>2. Cardinality(recorded) \in Nat
  BY FS_CardinalityType DEF Typed
<1>3. ASSUME NEW d \in Datagrams, LaterFragment(d) PROVE Typed'
  <2> DEFINE r == [datagram |-> d, ports |-> pna_get_frag(d.hdr).ports, after |-> Len(entered)]
  <2>1. pna_get_frag(d.hdr).ports \in Ports \cup {ZeroPorts}
    BY <1>3, GetFrag DEF LaterFragment, pna_get_frag, Typed, TypeOK
  <2>2. r \in [datagram : Datagrams, ports : Ports \cup {ZeroPorts}, after : Nat]
    BY <2>1 DEF Typed, TypeOK
  <2>3. recorded' = recorded \cup {r}
    BY <1>3 DEF LaterFragment
  <2> HIDE DEF r
  <2>4. IsFiniteSet(recorded')
    BY <2>3, FS_AddElement DEF Typed
  <2> QED BY <1>3, <2>2, <2>3, <2>4 DEF LaterFragment, Typed, TypeOK
<1>4. ASSUME NEW d \in Datagrams, OrphanFragment(d) PROVE Typed'
  <2>1. pna_frag_packets_missed' \in 0 .. MaxLater
    BY <1>2, <1>4 DEF OrphanFragment, Typed, TypeOK
  <2> QED BY <1>4, <2>1 DEF OrphanFragment, Typed, TypeOK
<1>5. CASE UNCHANGED vars
  BY <1>5 DEF vars, Typed, TypeOK
<1> QED BY <1>1, <1>3, <1>4, <1>5 DEF Next

\* Typed holds always.
LEMMA TypedAlways == Spec => []Typed
<1>1. Init => Typed
  BY FS_EmptySet DEF Init, Typed, TypeOK, Prints, Slots
<1> QED BY <1>1, TypedNext, PTL DEF Spec

\* The ring holds fingerprints and ports, and its index stays inside it.
THEOREM Typing == Spec => []TypeOK
<1>1. Typed => TypeOK
  BY DEF Typed
<1> QED BY <1>1, TypedAlways, PTL

-----------------------------------------------------------------------------
(* One entry for a fingerprint.                                            *)

\* pna_set_frag looks before it writes: no fingerprint is in the ring twice.
THEOREM OneEntry == Spec => []NoDuplicates
<1>1. Init => NoDuplicates
  BY DEF Init, NoDuplicates
<1>2. ASSUME Typed, NoDuplicates, [Next]_vars PROVE NoDuplicates'
  <2>1. ASSUME NEW d \in Datagrams, FirstFragment(d), Found(d.hdr) = {}
        PROVE  NoDuplicates'
    <3>1. \A s \in Slots : pna_frag_table'[s] =
            IF s = pna_frag_next_idx THEN NewFrag(d) ELSE pna_frag_table[s]
      BY <1>2, <2>1, SetFrag DEF Typed
    <3>2. \A s \in Slots : pna_frag_table[s].fingerprint # NewFrag(d).fingerprint
      BY <2>1 DEF Found, NewFrag
    <3> QED BY <1>2, <3>1, <3>2 DEF NoDuplicates
  <2>2. CASE pna_frag_table' = pna_frag_table
    BY <1>2, <2>2 DEF NoDuplicates
  <2> QED BY <1>2, <2>1, <2>2 DEF Next, vars, FirstFragment, pna_set_frag,
                                  LaterFragment, OrphanFragment
<1> QED BY <1>1, <1>2, TypedAlways, PTL DEF Spec

-----------------------------------------------------------------------------
(* What the ring holds.                                                    *)

\* Slot s was written n entries before the last one.
Behind(s, n) ==
    \/ s + 1 + n = pna_frag_next_idx
    \/ s + 1 + n = pna_frag_next_idx + PNA_MAXFRAGS

\* The i-th datagram that took an entry took slot s, and has it still.
Holds(s, i) ==
    /\ Len(entered) - i < PNA_MAXFRAGS
    /\ Behind(s, Len(entered) - i)
    /\ pna_frag_table[s] = NewFrag(entered[i])

\* The ring holds the last PNA_MAXFRAGS datagrams that took an entry, and
\* nothing else.
InOrder ==
    /\ \A i \in DOMAIN entered :
         Len(entered) - i < PNA_MAXFRAGS => \E s \in Slots : Holds(s, i)
    /\ \A s \in Slots : pna_frag_table[s].fingerprint # EmptyPrint =>
         \E i \in DOMAIN entered : Holds(s, i)

\* Writing the next slot puts the others one entry further behind; the slot it
\* overwrites is the one PNA_MAXFRAGS - 1 entries behind, and no other is.
LEMMA Falls ==
    ASSUME NEW s \in Slots, NEW n \in Nat, n < PNA_MAXFRAGS, Behind(s, n),
           pna_frag_next_idx \in Slots,
           pna_frag_next_idx' = (pna_frag_next_idx + 1) % PNA_MAXFRAGS
    PROVE  /\ n < PNA_MAXFRAGS - 1 <=> s # pna_frag_next_idx
           /\ n < PNA_MAXFRAGS - 1 => Behind(s, n + 1)'
<1>1. /\ s \in Nat /\ s < PNA_MAXFRAGS
      /\ pna_frag_next_idx \in Nat /\ pna_frag_next_idx < PNA_MAXFRAGS
  BY DEF Slots
<1>2. n < PNA_MAXFRAGS - 1 <=> s # pna_frag_next_idx
  BY <1>1 DEF Behind
<1>3. CASE pna_frag_next_idx + 1 < PNA_MAXFRAGS
  <2>1. pna_frag_next_idx' = pna_frag_next_idx + 1
    BY <1>1, <1>3
  <2> QED BY <1>1, <1>2, <2>1 DEF Behind
<1>4. CASE pna_frag_next_idx + 1 = PNA_MAXFRAGS
  <2>1. pna_frag_next_idx' = 0
    BY <1>1, <1>4
  <2> QED BY <1>1, <1>2, <1>4, <2>1 DEF Behind
<1> QED BY <1>1, <1>3, <1>4

\* The entry just written is none behind.
LEMMA Latest ==
    ASSUME pna_frag_next_idx \in Slots,
           pna_frag_next_idx' = (pna_frag_next_idx + 1) % PNA_MAXFRAGS
    PROVE  (pna_frag_next_idx + 1 + 0 = pna_frag_next_idx'
            \/ pna_frag_next_idx + 1 + 0 = pna_frag_next_idx' + PNA_MAXFRAGS)
<1>1. pna_frag_next_idx \in Nat /\ pna_frag_next_idx < PNA_MAXFRAGS
  BY DEF Slots
<1>2. CASE pna_frag_next_idx + 1 < PNA_MAXFRAGS
  BY <1>1, <1>2
<1>3. CASE pna_frag_next_idx + 1 = PNA_MAXFRAGS
  BY <1>1, <1>3
<1> QED BY <1>1, <1>2, <1>3

\* A first fragment that takes an entry is the last of the history.
LEMMA EnteredGrows ==
    ASSUME TypeOK, NEW d \in Datagrams, FirstFragment(d), Found(d.hdr) = {}
    PROVE  /\ Len(entered) \in Nat
           /\ DOMAIN entered = 1 .. Len(entered)
           /\ Len(entered') = Len(entered) + 1
           /\ DOMAIN entered' = 1 .. Len(entered) + 1
           /\ \A j \in DOMAIN entered : entered'[j] = entered[j]
           /\ entered'[Len(entered) + 1] = d
<1>1. entered \in Seq(Datagrams) /\ entered' = Append(entered, d)
  BY DEF TypeOK, FirstFragment
<1> QED BY <1>1

\* Holds after a step, with the slot and the number as they are now.
HoldsNext(s, i) ==
    /\ Len(entered') - i < PNA_MAXFRAGS
    /\ \/ s + 1 + (Len(entered') - i) = pna_frag_next_idx'
       \/ s + 1 + (Len(entered') - i) = pna_frag_next_idx' + PNA_MAXFRAGS
    /\ pna_frag_table'[s] = NewFrag(entered'[i])

\* A first fragment that takes an entry keeps InOrder.
LEMMA InOrderEnter ==
    ASSUME TypeOK, InOrder, NEW d \in Datagrams, FirstFragment(d), Found(d.hdr) = {}
    PROVE  InOrder'
<1>. PICK L \in Nat : L = Len(entered)
  BY EnteredGrows
<1>. PICK x \in Slots : x = pna_frag_next_idx
  BY SetFrag
<1>1. /\ DOMAIN entered = 1 .. L
      /\ Len(entered') = L + 1
      /\ DOMAIN entered' = 1 .. L + 1
      /\ \A j \in DOMAIN entered : entered'[j] = entered[j]
      /\ entered'[L + 1] = d
  BY EnteredGrows
<1>2. /\ pna_frag_next_idx' = (pna_frag_next_idx + 1) % PNA_MAXFRAGS
      /\ \A s \in Slots : pna_frag_table'[s] =
           IF s = x THEN NewFrag(d) ELSE pna_frag_table[s]
  BY SetFrag
<1>3. HoldsNext(x, L + 1)
  <2>1. x + 1 + 0 = pna_frag_next_idx' \/ x + 1 + 0 = pna_frag_next_idx' + PNA_MAXFRAGS
    BY <1>2, Latest
  <2>2. Len(entered') - (L + 1) = 0
    BY <1>1
  <2>3. pna_frag_table'[x] = NewFrag(entered'[L + 1])
    BY <1>1, <1>2
  <2> QED BY <2>1, <2>2, <2>3 DEF HoldsNext
<1>4. ASSUME NEW i \in DOMAIN entered, NEW s \in Slots, Holds(s, i)
      PROVE  /\ s # x => HoldsNext(s, i)
             /\ L - i < PNA_MAXFRAGS - 1 => s # x
  <2>. PICK n \in Nat : n = L - i
    BY <1>1
  <2>1. /\ n < PNA_MAXFRAGS /\ Behind(s, n)
        /\ pna_frag_table[s] = NewFrag(entered[i])
    BY <1>4 DEF Holds
  <2>2. Len(entered') - i = n + 1
    BY <1>1
  <2>3. /\ n < PNA_MAXFRAGS - 1 <=> s # x
        /\ n < PNA_MAXFRAGS - 1 => Behind(s, n + 1)'
    BY <1>2, <2>1, Falls
  <2>4. s # x => pna_frag_table'[s] = NewFrag(entered'[i])
    BY <1>1, <1>2, <2>1
  <2>5. ASSUME s # x PROVE HoldsNext(s, i)
    <3>1. n + 1 < PNA_MAXFRAGS
      BY <2>3, <2>5
    <3>2. \/ s + 1 + (n + 1) = pna_frag_next_idx'
          \/ s + 1 + (n + 1) = pna_frag_next_idx' + PNA_MAXFRAGS
      BY <2>3, <2>5 DEF Behind
    <3> QED BY <2>2, <2>4, <2>5, <3>1, <3>2 DEF HoldsNext
  <2> QED BY <2>3, <2>5
<1>5. ASSUME NEW i \in DOMAIN entered', Len(entered') - i < PNA_MAXFRAGS
      PROVE  \E s \in Slots : HoldsNext(s, i)
  <2>1. CASE i = L + 1
    BY <1>3, <2>1
  <2>2. CASE i # L + 1
    <3>1. i \in DOMAIN entered /\ L - i < PNA_MAXFRAGS /\ L - i < PNA_MAXFRAGS - 1
      BY <1>1, <1>5, <2>2
    <3>2. PICK s \in Slots : Holds(s, i)
      BY <3>1 DEF InOrder
    <3> QED BY <1>4, <3>1, <3>2
  <2> QED BY <2>1, <2>2
<1>6. ASSUME NEW s \in Slots, pna_frag_table'[s].fingerprint # EmptyPrint
      PROVE  \E i \in DOMAIN entered' : HoldsNext(s, i)
  <2>1. CASE s = x
    BY <1>1, <1>3, <2>1
  <2>2. CASE s # x
    <3>1. PICK i \in DOMAIN entered : Holds(s, i)
      BY <1>2, <1>6, <2>2 DEF InOrder
    <3> QED BY <1>1, <1>4, <2>2, <3>1
  <2> QED BY <2>1, <2>2
<1> QED BY <1>5, <1>6 DEF InOrder, Holds, HoldsNext, Behind, NewFrag

\* Every step keeps InOrder.
LEMMA InOrderNext ==
    ASSUME Typed, InOrder, [Next]_vars
    PROVE  InOrder'
<1>1. ASSUME NEW d \in Datagrams, FirstFragment(d), Found(d.hdr) = {} PROVE InOrder'
  BY <1>1, InOrderEnter DEF Typed
<1>2. CASE UNCHANGED <<pna_frag_table, pna_frag_next_idx, entered>>
  BY <1>2 DEF InOrder, Holds, Behind, NewFrag
<1>3. ASSUME NEW d \in Datagrams, FirstFragment(d), Found(d.hdr) # {} PROVE InOrder'
  BY <1>2, <1>3 DEF FirstFragment, pna_set_frag
<1> QED BY <1>1, <1>2, <1>3 DEF Next, vars, LaterFragment, OrphanFragment

\* InOrder holds always.
LEMMA InOrderAlways == Spec => []InOrder
<1>1. Init => InOrder
  BY DEF Init, InOrder
<1> QED BY <1>1, InOrderNext, TypedAlways, PTL DEF Spec

-----------------------------------------------------------------------------
(* Whose ports a fragment gets, and for how long.                          *)

\* Whatever fragments come, in any order and with fingerprints used again, a
\* later fragment is recorded under the ports of one of the last PNA_MAXFRAGS
\* datagrams that took an entry, one with its fingerprint.
THEOREM PortsRight == Spec => []RightPorts
<1>1. Init => RightPorts
  BY DEF Init, RightPorts
<1>2. ASSUME Typed, InOrder, RightPorts, [Next]_vars PROVE RightPorts'
  <2>1. ASSUME NEW d \in Datagrams, LaterFragment(d) PROVE RightPorts'
    <3> DEFINE r == [datagram |-> d, ports |-> pna_get_frag(d.hdr).ports,
                     after |-> Len(entered)]
               s == Min(Found(d.hdr))
    <3>1. s \in Slots /\ pna_frag_table[s].fingerprint = pna_frag_hash(d.hdr)
      BY <2>1, GetFrag DEF LaterFragment, pna_get_frag
    <3>2. PICK i \in DOMAIN entered : Holds(s, i)
      BY <1>2, <3>1, PrintAssumption DEF InOrder, Datagrams
    <3>3. /\ pna_frag_hash(entered[i].hdr) = pna_frag_hash(d.hdr)
          /\ entered[i].ports = r.ports
      BY <3>1, <3>2 DEF Holds, NewFrag, pna_get_frag
    <3>4. i <= r.after /\ r.after - i < PNA_MAXFRAGS
      BY <1>2, <3>2 DEF Holds, Typed, TypeOK
    <3>5. /\ recorded' = recorded \cup {r} /\ entered' = entered
          /\ r.datagram = d
      BY <2>1 DEF LaterFragment
    <3> HIDE DEF r, s
    <3> QED BY <1>2, <3>3, <3>4, <3>5 DEF RightPorts
  <2>2. ASSUME NEW d \in Datagrams, FirstFragment(d), Found(d.hdr) = {} PROVE RightPorts'
    <3>1. /\ DOMAIN entered \subseteq DOMAIN entered'
          /\ \A j \in DOMAIN entered : entered'[j] = entered[j]
      BY <1>2, <2>2, EnteredGrows DEF Typed
    <3>2. recorded' = recorded
      BY <2>2 DEF FirstFragment
    <3> QED BY <1>2, <3>1, <3>2 DEF RightPorts
  <2>3. CASE recorded' = recorded /\ entered' = entered
    BY <1>2, <2>3 DEF RightPorts
  <2> QED BY <1>2, <2>1, <2>2, <2>3 DEF Next, vars, FirstFragment, OrphanFragment
<1> QED BY <1>1, <1>2, InOrderAlways, TypedAlways, PTL DEF Spec

\* A datagram that took an entry is found, with its own ports, until
\* PNA_MAXFRAGS others have taken one: no sequence of fragments makes the ring
\* forget or change it earlier.
THEOREM Retained == Spec => []Retention
<1>1. ASSUME Typed, NoDuplicates, InOrder PROVE Retention
  <2> SUFFICES ASSUME NEW i \in DOMAIN entered, Len(entered) - i < PNA_MAXFRAGS
               PROVE  /\ Found(entered[i].hdr) # {}
                      /\ pna_get_frag(entered[i].hdr).ports = entered[i].ports
    BY DEF Retention
  <2>1. PICK s \in Slots : Holds(s, i)
    BY <1>1 DEF InOrder
  <2>2. /\ pna_frag_table[s].fingerprint = pna_frag_hash(entered[i].hdr)
        /\ pna_frag_table[s].ports = entered[i].ports
    BY <2>1 DEF Holds, NewFrag
  <2>3. s \in Found(entered[i].hdr)
    BY <2>2 DEF Found
  <2>4. entered[i] \in Datagrams
    BY <1>1 DEF Typed, TypeOK
  <2>5. pna_frag_table[s].fingerprint # EmptyPrint
    BY <2>2, <2>4, PrintAssumption DEF Datagrams
  <2>6. Min(Found(entered[i].hdr)) = s
    BY <1>1, <2>2, <2>3, <2>5, GetFrag DEF NoDuplicates, pna_get_frag
  <2> QED BY <2>2, <2>3, <2>6 DEF pna_get_frag
<1> QED BY <1>1, OneEntry, InOrderAlways, TypedAlways, PTL
=============================================================================

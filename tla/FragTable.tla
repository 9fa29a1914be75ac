----------------------------- MODULE FragTable -----------------------------
(***************************************************************************)
(* The fragment table of module/pna_main.c: only the first fragment of a   *)
(* UDP datagram carries the ports, so ip_hook remembers them in a ring of  *)
(* PNA_MAXFRAGS entries and looks them up for the later fragments.         *)
(*                                                                         *)
(* The network delivers the fragments of several datagrams in any order,   *)
(* loses some and repeats others, and uses an ip_id again.  One step is    *)
(* one fragment.                                                           *)
(*                                                                         *)
(* pna_frag_hash combines its parts with exclusive or, so a fingerprint    *)
(* tells neither which of the two addresses is the source nor which of two *)
(* datagrams with the same ip_id it came from.  The model keeps exactly    *)
(* that.  Accidental collisions of the 32 bit hash are left out, with one  *)
(* another and with the zero of a slot not used yet.                       *)
(***************************************************************************)
EXTENDS Integers, Sequences, FiniteSetsExt

CONSTANTS
    Hosts,              \* IP addresses
    IpIds,              \* values of ip_id
    Ports,              \* pairs <<source port, destination port>>
    EmptyPrint,         \* fingerprint of a slot not used yet (0)
    ZeroPorts,          \* ports of a slot not used yet
    PNA_MAXFRAGS,       \* entries of the ring, 512 in the code
    MaxFirsts,          \* bound on the first fragments that take an entry
    MaxLater            \* bound on the later fragments

ASSUME FragAssumption ==
    /\ PNA_MAXFRAGS \in Nat \ {0}
    /\ MaxFirsts \in Nat
    /\ MaxLater \in Nat

Slots == 0 .. PNA_MAXFRAGS - 1

Headers == {h \in [ip_src : Hosts, ip_dst : Hosts, ip_id : IpIds] :
               h.ip_src # h.ip_dst}

Datagrams == [hdr : Headers, ports : Ports]

pna_frag_hash(h) == <<{h.ip_src, h.ip_dst}, h.ip_id>>

\* No fragment has the fingerprint of a slot not used yet.
ASSUME PrintAssumption == \A h \in Headers : pna_frag_hash(h) # EmptyPrint

VARIABLES
    pna_frag_table,             \* slot |-> [fingerprint, ports]
    pna_frag_next_idx,
    pna_frag_packets_missed,
    entered,    \* history: the datagrams that took an entry, in order
    recorded    \* history: what the later fragments were recorded under, and
                \* after how many entries

vars == <<pna_frag_table, pna_frag_next_idx, pna_frag_packets_missed,
          entered, recorded>>

\* Mutant: the addresses alone identify a datagram.
FoundByHosts(h) ==
    {i \in Slots : pna_frag_table[i].fingerprint[1] = {h.ip_src, h.ip_dst}}

\* The slots pna_get_frag would stop at; it returns the first.
Found(h) == {i \in Slots : pna_frag_table[i].fingerprint = pna_frag_hash(h)}
pna_get_frag(h) == pna_frag_table[Min(Found(h))]

\* Mutant: the entry is added again.
pna_set_frag_again(h, ports) ==
    /\ pna_frag_table' = [pna_frag_table EXCEPT ![pna_frag_next_idx] =
         [fingerprint |-> pna_frag_hash(h), ports |-> ports]]
    /\ pna_frag_next_idx' = (pna_frag_next_idx + 1) % PNA_MAXFRAGS

\* Mutant: the ring does not wrap around.
pna_set_frag_unwrapped(h, ports) ==
    IF Found(h) # {}
    THEN UNCHANGED <<pna_frag_table, pna_frag_next_idx>>
    ELSE /\ pna_frag_table' = [pna_frag_table EXCEPT ![pna_frag_next_idx] =
              [fingerprint |-> pna_frag_hash(h), ports |-> ports]]
         /\ pna_frag_next_idx' = pna_frag_next_idx + 1

\* Mutant: the ring does not advance.
pna_set_frag_still(h, ports) ==
    IF Found(h) # {}
    THEN UNCHANGED <<pna_frag_table, pna_frag_next_idx>>
    ELSE /\ pna_frag_table' = [pna_frag_table EXCEPT ![pna_frag_next_idx] =
              [fingerprint |-> pna_frag_hash(h), ports |-> ports]]
         /\ UNCHANGED pna_frag_next_idx

\* Nothing if the fingerprint is there already; otherwise the next slot of
\* the ring, whatever it holds.
pna_set_frag(h, ports) ==
    IF Found(h) # {}
    THEN UNCHANGED <<pna_frag_table, pna_frag_next_idx>>
    ELSE /\ pna_frag_table' = [pna_frag_table EXCEPT ![pna_frag_next_idx] =
              [fingerprint |-> pna_frag_hash(h), ports |-> ports]]
         /\ pna_frag_next_idx' = (pna_frag_next_idx + 1) % PNA_MAXFRAGS

-----------------------------------------------------------------------------
\* ip_hook, UDP, no offset, IP_MF set.
FirstFragment(d) ==
    /\ Len(entered) < MaxFirsts
    /\ pna_set_frag(d.hdr, d.ports)
    /\ entered' = IF Found(d.hdr) # {} THEN entered ELSE Append(entered, d)
    /\ UNCHANGED <<pna_frag_packets_missed, recorded>>

\* ip_hook, UDP, offset set: record the fragment under the ports of the entry.
LaterFragment(d) ==
    /\ Cardinality(recorded) + pna_frag_packets_missed < MaxLater
    /\ Found(d.hdr) # {}
    /\ recorded' = recorded \cup
         {[datagram |-> d, ports |-> pna_get_frag(d.hdr).ports, after |-> Len(entered)]}
    /\ UNCHANGED <<pna_frag_table, pna_frag_next_idx, pna_frag_packets_missed, entered>>

\* ip_hook, UDP, offset set, no entry: count the fragment as missed.
OrphanFragment(d) ==
    /\ Cardinality(recorded) + pna_frag_packets_missed < MaxLater
    /\ Found(d.hdr) = {}
    /\ pna_frag_packets_missed' = pna_frag_packets_missed + 1
    /\ UNCHANGED <<pna_frag_table, pna_frag_next_idx, entered, recorded>>

Init ==
    /\ pna_frag_table = [i \in Slots |-> [fingerprint |-> EmptyPrint, ports |-> ZeroPorts]]
    /\ pna_frag_next_idx = 0
    /\ pna_frag_packets_missed = 0
    /\ entered = <<>>
    /\ recorded = {}

Next == \E d \in Datagrams :
            FirstFragment(d) \/ LaterFragment(d) \/ OrphanFragment(d)

Spec == Init /\ [][Next]_vars

-----------------------------------------------------------------------------
(* Properties.                                                             *)

Prints == {pna_frag_hash(h) : h \in Headers} \cup {EmptyPrint}

\* The ring holds fingerprints and ports, and its index stays inside.
TypeOK ==
    /\ pna_frag_table \in [Slots -> [fingerprint : Prints, ports : Ports \cup {ZeroPorts}]]
    /\ pna_frag_next_idx \in Slots
    /\ pna_frag_packets_missed \in 0 .. MaxLater
    /\ entered \in Seq(Datagrams)
    /\ recorded \subseteq [datagram : Datagrams, ports : Ports \cup {ZeroPorts}, after : Nat]

\* A fingerprint is in the ring at most once, so the entry pna_get_frag finds
\* first is the only one, and a datagram never blocks two slots.
NoDuplicates ==
    \A i, j \in Slots :
        (pna_frag_table[i].fingerprint = pna_frag_table[j].fingerprint
         /\ pna_frag_table[i].fingerprint # EmptyPrint) => i = j

\* Entries never age, so a fragment may be recorded under the ports of an
\* older datagram with its fingerprint, but never of one that PNA_MAXFRAGS or
\* more others have followed: a fingerprint that comes back after that many
\* gets its own ports.
RightPorts ==
    \A r \in recorded :
        \E i \in DOMAIN entered :
            /\ i <= r.after /\ r.after - i < PNA_MAXFRAGS
            /\ pna_frag_hash(entered[i].hdr) = pna_frag_hash(r.datagram.hdr)
            /\ entered[i].ports = r.ports

\* The ring forgets in order of arrival: a datagram that took an entry is
\* found, with its own ports, until PNA_MAXFRAGS others have taken one since.
Retention ==
    \A i \in DOMAIN entered :
        Len(entered) - i < PNA_MAXFRAGS =>
            /\ Found(entered[i].hdr) # {}
            /\ pna_get_frag(entered[i].hdr).ports = entered[i].ports
=============================================================================

-------------------------- MODULE PacketHookProofs --------------------------
(***************************************************************************)
(* Proofs about PacketHook, for any addresses, domains, tunnels and sizes  *)
(* of the fragment table, and for any number of frames.                    *)
(***************************************************************************)
EXTENDS PacketHook, WellFoundedInduction, TLAPS

\* A nonempty set of naturals has a least element, and Min chooses it.
LEMMA LeastNat ==
    ASSUME NEW S \in SUBSET Nat, S # {}
    PROVE  Min(S) \in S /\ \A y \in S : Min(S) <= y
<1> DEFINE R == {ss \in Nat \X Nat : ss[1] < ss[2]}
<1>1. IsWellFoundedOn(R, Nat)
  BY NatLessThanWellFounded, Zenon DEF OpToRel
<1>2. PICK x \in S : \A y \in S : <<y, x>> \notin R
  <2> HIDE DEF R
  <2> QED BY <1>1, WFMin, Zenon
<1>3. ASSUME NEW y \in S, ~(x <= y) PROVE FALSE
  <2>1. y \in Nat /\ x \in Nat /\ y < x
    BY <1>3
  <2> QED BY <1>2, <2>1
<1> QED BY <1>3 DEF Min

USE HookAssumption

-----------------------------------------------------------------------------
(* Frames.                                                                 *)

\* A frame has an innermost layer.
LEMMA InnerLayer ==
    ASSUME NEW f \in Frames
    PROVE  /\ f.layers \in Seq(Layers) /\ Len(f.layers) \in Nat /\ Len(f.layers) >= 1
           /\ Inner(f) \in Layers
<1>1. f.layers \in Seq(Layers) /\ f.layers # <<>>
  OBVIOUS
<1>2. Len(f.layers) \in Nat /\ Len(f.layers) >= 1
  BY <1>1
<1> QED BY <1>1, <1>2 DEF Inner

\* ether_hook calls ip_hook on the innermost layer or not at all: what comes
\* before it are tunnels.
LEMMA ReachedIsInner ==
    ASSUME NEW f \in Frames, HasIpHook(f)
    PROVE  Reached(f) = Inner(f) /\ Depth(f) = Len(f.layers) - 1
<1> DEFINE n == Len(f.layers)
           S == {k \in 0 .. n : k = n \/ ~Unpacked(f.layers[k + 1])}
<1>1. n \in Nat /\ n >= 1
  BY InnerLayer
<1> HIDE DEF n
<1>2. S \in SUBSET Nat /\ n \in S
  BY <1>1
<1>3. Depth(f) \in 0 .. n
  <2>1. Min(S) \in S
    <3> HIDE DEF S
    <3> QED BY <1>2, LeastNat
  <2> QED BY <2>1 DEF Depth, n
<1>4. Depth(f) < n /\ Reached(f).proto # "GRE"
  BY DEF HasIpHook, n
<1>5. Depth(f) + 1 \notin 1 .. n - 1
  BY <1>4 DEF Reached, n
<1>6. Depth(f) + 1 = n
  BY <1>1, <1>3, <1>4, <1>5
<1> QED BY <1>1, <1>3, <1>6 DEF Reached, Inner, n

-----------------------------------------------------------------------------
(* The local end.                                                          *)

\* A call of flowmon_hook for a frame, with the ports of some layer.
Call(f, l, ports) ==
    [frame |-> f, key |-> pna_localize(SourceKey(l, ports)).key,
     dir |-> pna_localize(SourceKey(l, ports)).dir]

\* The calls that ip_hook may make, and where it takes the ports from.
Calls(f, l, ports) ==
    /\ ~Unlocalized(SourceKey(l, ports))
    /\ calls' = calls \cup {Call(f, l, ports)}
    /\ \/ l.proto \in {"TCP", "SCTP", "UDP"} /\ ports = <<l.sport, l.dport>>
       \/ l.proto = "UDP" /\ FT!Found(Header(l)) # {} /\ ports = FT!pna_get_frag(Header(l)).ports
       \/ l.proto = "ICMP"

\* ip_hook makes one of these calls, or none.
LEMMA HookCalls ==
    ASSUME NEW f, NEW l, ip_hook(f, l)
    PROVE  calls' = calls \/ \E ports : Calls(f, l, ports)
<1>1. ASSUME NEW ports, Localize(f, SourceKey(l, ports))
      PROVE  \/ calls' = calls
             \/ /\ ~Unlocalized(SourceKey(l, ports))
                /\ calls' = calls \cup {Call(f, l, ports)}
  BY <1>1 DEF Localize, Call
<1>2. CASE StreamPacket(f, l)
  BY <1>1, <1>2 DEF StreamPacket, Calls
<1>3. CASE DatagramStart(f, l)
  BY <1>1, <1>3 DEF DatagramStart, Calls
<1>4. CASE DatagramRest(f, l)
  BY <1>1, <1>4 DEF DatagramRest, Calls
<1>5. CASE IcmpPacket(f, l)
  BY <1>1, <1>5 DEF IcmpPacket, Calls
<1>6. CASE OtherPacket(l)
  BY <1>6 DEF OtherPacket
<1> QED BY <1>2, <1>3, <1>4, <1>5, <1>6 DEF ip_hook

\* The fields of a layer.
LEMMA LayerFields ==
    ASSUME NEW l \in Layers
    PROVE  /\ l.src \in Addresses /\ l.dst \in Addresses
           /\ l.src \in Nat /\ l.dst \in Nat
           /\ domain[l.src] \in 0 .. MAX_DOMAIN /\ domain[l.dst] \in 0 .. MAX_DOMAIN
           /\ l.id \in IpIds
BY DEF Layers

\* What pna_localize makes of a key that has two ends.
LocalKey(k) ==
    /\ k.local_domain # MAX_DOMAIN
    /\ k.local_domain = domain[k.local_ip] /\ k.remote_domain = domain[k.remote_ip]
    /\ \/ k.local_domain < k.remote_domain
       \/ /\ k.local_domain = k.remote_domain
          /\ k.local_ip <= k.remote_ip

\* pna_localize makes such a key.
LEMMA Localized ==
    ASSUME NEW l \in Layers, NEW ports, ~Unlocalized(SourceKey(l, ports))
    PROVE  LocalKey(pna_localize(SourceKey(l, ports)).key)
<1> DEFINE k == SourceKey(l, ports)
<1>1. /\ k.local_ip = l.src /\ k.remote_ip = l.dst
      /\ k.local_domain = domain[l.src] /\ k.remote_domain = domain[l.dst]
  BY DEF SourceKey
<1>2. /\ pna_session_swap(k).local_ip = l.dst /\ pna_session_swap(k).remote_ip = l.src
      /\ pna_session_swap(k).local_domain = domain[l.dst]
      /\ pna_session_swap(k).remote_domain = domain[l.src]
  BY DEF SourceKey, pna_session_swap
<1>3. /\ l.src \in Nat /\ l.dst \in Nat
      /\ domain[l.src] \in 0 .. MAX_DOMAIN /\ domain[l.dst] \in 0 .. MAX_DOMAIN
  BY LayerFields
<1> HIDE DEF k
<1>4. ~(domain[l.src] = domain[l.dst] /\ domain[l.src] = MAX_DOMAIN)
  BY <1>1 DEF Unlocalized, k
<1>5. CASE SourceIsLocal(k)
  <2>1. pna_localize(k).key = k
    BY <1>5 DEF pna_localize
  <2> QED BY <1>1, <1>3, <1>4, <1>5, <2>1 DEF LocalKey, SourceIsLocal, k
<1>6. CASE ~SourceIsLocal(k)
  <2>1. pna_localize(k).key = pna_session_swap(k)
    BY <1>6 DEF pna_localize
  <2> QED BY <1>1, <1>2, <1>3, <1>4, <1>6, <2>1 DEF LocalKey, SourceIsLocal, k
<1> QED BY <1>5, <1>6

\* Every call of flowmon_hook is made for a layer, stray bytes included.
LEMMA StepCalls ==
    ASSUME NEW f \in Frames, pna_hook(f)
    PROVE  \/ calls' = calls
           \/ \E l \in Layers : \E ports : Calls(f, l, ports)
<1>1. CASE VlanDrop(f)
  BY <1>1 DEF VlanDrop
<1>2. CASE Aligned(f) /\ HasIpHook(f) /\ ip_hook(f, Reached(f))
  <2>1. Reached(f) \in Layers
    BY <1>2, ReachedIsInner, InnerLayer
  <2> QED BY <1>2, <2>1, HookCalls
<1>3. CASE Misread(f)
  BY <1>3, HookCalls DEF Misread
<1>4. CASE calls' = calls
  BY <1>4
<1> QED BY <1>1, <1>2, <1>3, <1>4 DEF pna_hook, Decode, ether_hook

\* The local end of a recorded flow is the one with the lower domain or
\* address, and it is in a configured network, whatever bytes were read.
THEOREM LocalEnds == Spec => []LocalEnd
<1>1. LocalEnd <=> \A c \in calls : LocalKey(c.key)
  BY DEF LocalEnd, LocalKey
<1>2. Init => LocalEnd
  BY DEF Init, LocalEnd
<1>3. ASSUME LocalEnd, [Next]_vars PROVE LocalEnd'
  <2>1. ASSUME NEW f \in Frames, NEW l \in Layers, NEW ports, Calls(f, l, ports)
        PROVE  \A c \in calls' : LocalKey(c.key)
    <3>1. LocalKey(Call(f, l, ports).key)
      <4>1. Call(f, l, ports).key = pna_localize(SourceKey(l, ports)).key
        BY DEF Call
      <4> QED BY <2>1, <4>1, Localized DEF Calls
    <3> QED BY <1>1, <1>3, <2>1, <3>1 DEF Calls
  <2>2. \A c \in calls' : LocalKey(c.key)
    BY <1>1, <1>3, <2>1, StepCalls DEF Next, vars
  <2> QED BY <2>2 DEF LocalEnd, LocalKey
<1> QED BY <1>2, <1>3, PTL DEF Spec

-----------------------------------------------------------------------------
(* One flow per conversation.                                              *)

OwnPorts(l) == <<l.sport, l.dport>>

\* The end that counts as local: the lower domain, then the lower address.
Before(a, b) == domain[a] < domain[b] \/ (domain[a] = domain[b] /\ a < b)

\* A key, from its protocol and its ends.
KeyOf(proto, a, p, b, q) ==
    [l4_protocol |-> proto, local_ip |-> a, remote_ip |-> b,
     local_port |-> p, remote_port |-> q,
     local_domain |-> domain[a], remote_domain |-> domain[b]]

\* Of two different addresses one comes first.
LEMMA OneBefore ==
    ASSUME NEW a \in Addresses, NEW b \in Addresses, a # b
    PROVE  Before(a, b) <=> ~Before(b, a)
<1>1. a \in Nat /\ b \in Nat /\ domain[a] \in Nat /\ domain[b] \in Nat
  OBVIOUS
<1> QED BY <1>1 DEF Before

\* Keys are equal when their parts are.
LEMMA KeysEqual ==
    ASSUME NEW proto, NEW a, NEW p, NEW b, NEW q,
           NEW proto2, NEW a2, NEW p2, NEW b2, NEW q2
    PROVE  KeyOf(proto, a, p, b, q) = KeyOf(proto2, a2, p2, b2, q2) <=>
             proto = proto2 /\ a = a2 /\ p = p2 /\ b = b2 /\ q = q2
BY DEF KeyOf

\* pna_session_swap exchanges the two ends.
LEMMA SwapKey ==
    ASSUME NEW proto, NEW a, NEW p, NEW b, NEW q
    PROVE  pna_session_swap(KeyOf(proto, a, p, b, q)) = KeyOf(proto, b, q, a, p)
<1> DEFINE S == {proto, a, p, b, q, domain[a], domain[b]}
           R == [l4_protocol : S, local_ip : S, remote_ip : S, local_port : S, remote_port : S,
                 local_domain : S, remote_domain : S]
           k == KeyOf(proto, a, p, b, q)
           j == pna_session_swap(k)
<1>1. /\ k \in R
      /\ k.l4_protocol = proto /\ k.local_ip = a /\ k.remote_ip = b
      /\ k.local_port = p /\ k.remote_port = q
      /\ k.local_domain = domain[a] /\ k.remote_domain = domain[b]
  BY DEF KeyOf
<1> HIDE DEF S, k
<1>2. j \in R
  BY <1>1 DEF pna_session_swap
<1>3. /\ j.l4_protocol = proto /\ j.local_ip = b /\ j.remote_ip = a
      /\ j.local_port = q /\ j.remote_port = p
      /\ j.local_domain = domain[b] /\ j.remote_domain = domain[a]
  BY <1>1 DEF pna_session_swap
<1>4. ASSUME NEW z \in R
      PROVE  z = [l4_protocol |-> z.l4_protocol, local_ip |-> z.local_ip,
                  remote_ip |-> z.remote_ip, local_port |-> z.local_port,
                  remote_port |-> z.remote_port, local_domain |-> z.local_domain,
                  remote_domain |-> z.remote_domain]
  OBVIOUS
<1> HIDE DEF R, j
<1>5. j = [l4_protocol |-> proto, local_ip |-> b, remote_ip |-> a,
           local_port |-> q, remote_port |-> p,
           local_domain |-> domain[b], remote_domain |-> domain[a]]
  BY <1>2, <1>3, <1>4
<1> QED BY <1>5 DEF KeyOf, j, k

\* The key and the direction of a packet with its own ports.
LEMMA KeyOfLayer ==
    ASSUME NEW l \in Layers
    PROVE  /\ Before(l.src, l.dst) =>
                /\ pna_localize(SourceKey(l, OwnPorts(l))).key =
                     KeyOf(l.proto, l.src, l.sport, l.dst, l.dport)
                /\ pna_localize(SourceKey(l, OwnPorts(l))).dir = 0
           /\ ~Before(l.src, l.dst) =>
                /\ pna_localize(SourceKey(l, OwnPorts(l))).key =
                     KeyOf(l.proto, l.dst, l.dport, l.src, l.sport)
                /\ pna_localize(SourceKey(l, OwnPorts(l))).dir = 1
<1> DEFINE k == SourceKey(l, OwnPorts(l))
<1>1. k = KeyOf(l.proto, l.src, l.sport, l.dst, l.dport)
  BY DEF SourceKey, OwnPorts, KeyOf
<1>2. pna_session_swap(k) = KeyOf(l.proto, l.dst, l.dport, l.src, l.sport)
  BY <1>1, SwapKey
<1>3. SourceIsLocal(k) <=> Before(l.src, l.dst)
  BY DEF SourceKey, SourceIsLocal, Before
<1> HIDE DEF k
<1>4. /\ pna_localize(k).key = IF SourceIsLocal(k) THEN k ELSE pna_session_swap(k)
      /\ pna_localize(k).dir = IF SourceIsLocal(k) THEN 0 ELSE 1
  BY DEF pna_localize
<1> QED BY <1>1, <1>2, <1>3, <1>4 DEF k

\* Two packets have the same key exactly when they have the same ends, and
\* then the same direction exactly when they have the same source.
LEMMA SameKey ==
    ASSUME NEW l \in Layers, NEW m \in Layers, l.src # l.dst, m.src # m.dst
    PROVE  LET k == pna_localize(SourceKey(l, OwnPorts(l)))
               j == pna_localize(SourceKey(m, OwnPorts(m)))
           IN  /\ k.key = j.key <=> (l.proto = m.proto /\ Ends(l) = Ends(m))
               /\ Ends(l) = Ends(m) => (k.dir = j.dir <=> l.src = m.src)
<1> DEFINE k == pna_localize(SourceKey(l, OwnPorts(l)))
           j == pna_localize(SourceKey(m, OwnPorts(m)))
           same == l.src = m.src /\ l.sport = m.sport /\ l.dst = m.dst /\ l.dport = m.dport
           turned == l.src = m.dst /\ l.sport = m.dport /\ l.dst = m.src /\ l.dport = m.sport
<1>1. /\ l.src \in Addresses /\ l.dst \in Addresses
      /\ m.src \in Addresses /\ m.dst \in Addresses
  BY LayerFields
<1>2. /\ Before(l.src, l.dst) <=> ~Before(l.dst, l.src)
      /\ Before(m.src, m.dst) <=> ~Before(m.dst, m.src)
  BY <1>1, OneBefore
<1>3. Ends(l) = Ends(m) <=> same \/ turned
  <2> DEFINE P == <<l.src, l.sport>>
             Q == <<l.dst, l.dport>>
             U == <<m.src, m.sport>>
             V == <<m.dst, m.dport>>
  <2>1. ASSUME NEW x, NEW y, NEW u, NEW v PROVE <<x, y>> = <<u, v>> <=> x = u /\ y = v
    OBVIOUS
  <2>2. /\ (P = U /\ Q = V) <=> same
        /\ (P = V /\ Q = U) <=> turned
    BY <2>1
  <2>3. Ends(l) = {P, Q} /\ Ends(m) = {U, V}
    BY DEF Ends
  <2> HIDE DEF P, Q, U, V, same, turned
  <2>4. {P, Q} = {U, V} <=> (P = U /\ Q = V) \/ (P = V /\ Q = U)
    OBVIOUS
  <2> QED BY <2>2, <2>3, <2>4
<1>4. /\ Before(l.src, l.dst) => k.key = KeyOf(l.proto, l.src, l.sport, l.dst, l.dport) /\ k.dir = 0
      /\ ~Before(l.src, l.dst) => k.key = KeyOf(l.proto, l.dst, l.dport, l.src, l.sport) /\ k.dir = 1
  BY KeyOfLayer
<1>5. /\ Before(m.src, m.dst) => j.key = KeyOf(m.proto, m.src, m.sport, m.dst, m.dport) /\ j.dir = 0
      /\ ~Before(m.src, m.dst) => j.key = KeyOf(m.proto, m.dst, m.dport, m.src, m.sport) /\ j.dir = 1
  BY KeyOfLayer
<1> HIDE DEF k, j
<1>6. k.key = j.key <=> l.proto = m.proto /\ (same \/ turned)
  <2>1. CASE Before(l.src, l.dst) /\ Before(m.src, m.dst)
    BY <1>2, <1>4, <1>5, <2>1, KeysEqual
  <2>2. CASE Before(l.src, l.dst) /\ ~Before(m.src, m.dst)
    BY <1>2, <1>4, <1>5, <2>2, KeysEqual
  <2>3. CASE ~Before(l.src, l.dst) /\ Before(m.src, m.dst)
    BY <1>2, <1>4, <1>5, <2>3, KeysEqual
  <2>4. CASE ~Before(l.src, l.dst) /\ ~Before(m.src, m.dst)
    BY <1>2, <1>4, <1>5, <2>4, KeysEqual
  <2> QED BY <2>1, <2>2, <2>3, <2>4
<1>7. same \/ turned => (k.dir = j.dir <=> l.src = m.src)
  <2>1. CASE same
    BY <1>4, <1>5, <2>1
  <2>2. CASE turned
    BY <1>2, <1>4, <1>5, <2>2
  <2> QED BY <2>1, <2>2
<1> QED BY <1>3, <1>6, <1>7 DEF k, j

\* The fragment table holds the ports of datagrams that passed, and every
\* call was made for the innermost packet, with its own ports if it has any.
TableRight ==
    \A s \in FT!Slots :
        \/ pna_frag_table[s].fingerprint = EmptyPrint
        \/ \E f \in Frames :
              /\ Inner(f).proto = "UDP"
              /\ pna_frag_table[s].fingerprint = Fingerprint(Inner(f))
              /\ pna_frag_table[s].ports = OwnPorts(Inner(f))
CallRight(c) ==
    /\ c.frame \in Frames
    /\ Inner(c.frame).proto \in {"TCP", "UDP", "SCTP"} =>
         c = Call(c.frame, Inner(c.frame), OwnPorts(Inner(c.frame)))
HookInv ==
    /\ DOMAIN pna_frag_table = FT!Slots
    /\ ~misread => TableRight /\ \A c \in calls : CallRight(c)

\* A later fragment finds its own ports.
LEMMA FoundPorts ==
    ASSUME PrintsDiffer, TableRight, NEW f \in Frames, Inner(f).proto = "UDP",
           FT!Found(Header(Inner(f))) # {}
    PROVE  FT!pna_get_frag(Header(Inner(f))).ports = OwnPorts(Inner(f))
<1> DEFINE h == Header(Inner(f))
           S == FT!Found(h)
           s == Min(S)
<1>1. S \in SUBSET Nat /\ S # {}
  BY DEF FT!Found, FT!Slots
<1>2. s \in S
  <2> HIDE DEF S
  <2> QED BY <1>1, LeastNat
<1>3. s \in FT!Slots /\ pna_frag_table[s].fingerprint = Fingerprint(Inner(f))
  <2> HIDE DEF s
  <2> QED BY <1>2 DEF FT!Found, Fingerprint
<1>4. Fingerprint(Inner(f)) # EmptyPrint
  BY InnerLayer, LayerFields, HookPrintAssumption DEF Fingerprint, Header
<1> HIDE DEF s
<1>5. PICK g \in Frames :
        /\ Inner(g).proto = "UDP"
        /\ pna_frag_table[s].fingerprint = Fingerprint(Inner(g))
        /\ pna_frag_table[s].ports = OwnPorts(Inner(g))
  BY <1>3, <1>4 DEF TableRight
<1>6. OwnPorts(Inner(g)) = OwnPorts(Inner(f))
  BY <1>3, <1>5 DEF PrintsDiffer, OwnPorts
<1>7. FT!pna_get_frag(h) = pna_frag_table[s]
  BY DEF FT!pna_get_frag, FT!Min, Min, s
<1> QED BY <1>5, <1>6, <1>7

\* One call of ip_hook.
LEMMA HookInvHook ==
    ASSUME PrintsDiffer, DOMAIN pna_frag_table = FT!Slots,
           TableRight, \A c \in calls : CallRight(c),
           NEW f \in Frames, ip_hook(f, Inner(f))
    PROVE  TableRight' /\ \A c \in calls' : CallRight(c)
<1> DEFINE l == Inner(f)
<1>1. TableRight'
  <2>1. CASE pna_frag_table' = pna_frag_table
    BY <2>1 DEF TableRight, FT!Slots
  <2>2. CASE /\ l.proto = "UDP"
             /\ pna_frag_table' = [pna_frag_table EXCEPT ![pna_frag_next_idx] =
                  [fingerprint |-> FT!pna_frag_hash(Header(l)), ports |-> OwnPorts(l)]]
    <3>1. ASSUME NEW s \in FT!Slots
          PROVE  \/ pna_frag_table'[s] = pna_frag_table[s]
                 \/ /\ pna_frag_table'[s].fingerprint = Fingerprint(l)
                    /\ pna_frag_table'[s].ports = OwnPorts(l)
      BY <2>2 DEF Fingerprint
    <3>2. \A s \in FT!Slots :
             \/ pna_frag_table'[s].fingerprint = EmptyPrint
             \/ \E g \in Frames :
                   /\ Inner(g).proto = "UDP"
                   /\ pna_frag_table'[s].fingerprint = Fingerprint(Inner(g))
                   /\ pna_frag_table'[s].ports = OwnPorts(Inner(g))
      BY <2>2, <3>1 DEF TableRight
    <3> QED BY <3>2 DEF TableRight, FT!Slots
  <2> QED BY <2>1, <2>2 DEF ip_hook, StreamPacket, DatagramStart, DatagramRest, IcmpPacket,
                            OtherPacket, fragVars, FT!pna_set_frag, OwnPorts
<1>2. ASSUME NEW ports, Calls(f, l, ports) PROVE CallRight(Call(f, l, ports))
  <2>1. l.proto \in {"TCP", "UDP", "SCTP"} => ports = OwnPorts(l)
    BY <1>2, FoundPorts DEF Calls, OwnPorts
  <2>2. Call(f, l, ports).frame = f
    BY DEF Call
  <2> QED BY <2>1, <2>2 DEF CallRight
<1>3. calls' = calls \/ \E ports : Calls(f, l, ports)
  BY HookCalls
<1> QED BY <1>1, <1>2, <1>3 DEF Calls

\* Every step keeps the invariant.
LEMMA HookInvNext ==
    ASSUME PrintsDiffer, HookInv, [Next]_vars
    PROVE  HookInv'
<1>1. CASE UNCHANGED vars
  BY <1>1 DEF HookInv, vars, TableRight, FT!Slots
<1>2. ASSUME NEW f \in Frames, pna_hook(f) PROVE HookInv'
  <2>1. DOMAIN pna_frag_table' = FT!Slots
    <3>1. ASSUME NEW l, ip_hook(f, l) PROVE DOMAIN pna_frag_table' = DOMAIN pna_frag_table
      BY <3>1 DEF ip_hook, StreamPacket, DatagramStart, DatagramRest, IcmpPacket,
                  OtherPacket, fragVars, FT!pna_set_frag
    <3> QED BY <1>2, <3>1 DEF HookInv, pna_hook, VlanDrop, Decode, ether_hook, Misread, fragVars
  <2>2. ASSUME ~misread' PROVE TableRight' /\ \A c \in calls' : CallRight(c)
    <3>1. ~misread /\ ~Misread(f)
      BY <1>2, <2>2 DEF pna_hook, VlanDrop, Decode, ether_hook, Misread
    <3>2. CASE UNCHANGED <<calls, fragVars>>
      BY <3>1, <3>2 DEF HookInv, TableRight, fragVars, FT!Slots
    <3>3. CASE HasIpHook(f) /\ ip_hook(f, Reached(f))
      BY <3>1, <3>3, ReachedIsInner, HookInvHook DEF HookInv
    <3> QED BY <1>2, <3>1, <3>2, <3>3 DEF pna_hook, VlanDrop, Decode, ether_hook
  <2> QED BY <2>1, <2>2 DEF HookInv, CallRight, FT!Slots
<1> QED BY <1>1, <1>2 DEF Next

\* Packets share a flow exactly when they share a conversation, through
\* whatever tags, tunnels and fragments they came, as long as no bytes are
\* misread and no two datagrams share a fingerprint.
THEOREM OneFlow == ASSUME PrintsDiffer PROVE Spec => []OneFlowPerConversation
<1>1. Init => HookInv
  BY DEF Init, HookInv, TableRight
<1>2. HookInv /\ [Next]_vars => HookInv'
  BY HookInvNext
<1>3. HookInv => OneFlowPerConversation
  <2> SUFFICES ASSUME HookInv, ~misread, NEW c \in calls, NEW d \in calls,
                      Conversing(c.frame), Conversing(d.frame)
               PROVE  /\ c.key = d.key <=> SameConversation(c.frame, d.frame)
                      /\ SameConversation(c.frame, d.frame) =>
                           (c.dir = d.dir <=> Inner(c.frame).src = Inner(d.frame).src)
    BY DEF OneFlowPerConversation
  <2> DEFINE l == Inner(c.frame)
             m == Inner(d.frame)
  <2>1. /\ c.frame \in Frames /\ c = Call(c.frame, l, OwnPorts(l))
        /\ d.frame \in Frames /\ d = Call(d.frame, m, OwnPorts(m))
    BY DEF HookInv, CallRight, Conversing
  <2>2. /\ c.key = pna_localize(SourceKey(l, OwnPorts(l))).key
        /\ c.dir = pna_localize(SourceKey(l, OwnPorts(l))).dir
    <3> HIDE DEF l
    <3> QED BY <2>1 DEF Call
  <2>3. /\ d.key = pna_localize(SourceKey(m, OwnPorts(m))).key
        /\ d.dir = pna_localize(SourceKey(m, OwnPorts(m))).dir
    <3> HIDE DEF m
    <3> QED BY <2>1 DEF Call
  <2>4. l \in Layers /\ m \in Layers /\ l.src # l.dst /\ m.src # m.dst
    BY <2>1, InnerLayer DEF Conversing
  <2>5. SameConversation(c.frame, d.frame) <=> l.proto = m.proto /\ Ends(l) = Ends(m)
    BY DEF SameConversation
  <2> HIDE DEF l, m
  <2>6. /\ c.key = d.key <=> l.proto = m.proto /\ Ends(l) = Ends(m)
        /\ Ends(l) = Ends(m) => (c.dir = d.dir <=> l.src = m.src)
    BY <2>2, <2>3, <2>4, SameKey
  <2> QED BY <2>5, <2>6 DEF l, m
<1> QED BY <1>1, <1>2, <1>3, PTL DEF Spec
=============================================================================

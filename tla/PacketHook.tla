----------------------------- MODULE PacketHook -----------------------------
(***************************************************************************)
(* The packet path of module/pna_main.c from the Ethernet frame to the     *)
(* call of flowmon_hook: pna_hook skips the VLAN tags, ether_hook takes    *)
(* the packet out of its GRE tunnels, ip_hook finds the ports, and         *)
(* pna_localize decides which end of the flow is the local one.            *)
(*                                                                         *)
(* A frame is the number of its VLAN tags and its network layers, the      *)
(* outermost first; every layer but the last one is a GRE tunnel.  The     *)
(* ports of a layer are those of its datagram, also in the fragments that  *)
(* do not carry them: only ip_hook may not look at them there.  One step   *)
(* is one call of pna_hook.                                                *)
(***************************************************************************)
EXTENDS Integers, Sequences, FiniteSetsExt

CONSTANTS
    Addresses,          \* IP addresses, as unsigned integers
    PortNumbers,
    IpIds,              \* values of ip_id
    Frames,             \* the frames the network delivers
    Stray,              \* what bytes that are no header may be taken for
    domain,             \* pna_dtrie_lookup, see DomainTrie
    MAX_DOMAIN,         \* the domain of an address in no network
    PNA_MAX_CHECKS,     \* 8 in the code
    PNA_MAXFRAGS,       \* entries of the fragment table
    EmptyPrint,         \* fingerprint of an unused entry
    BigEndian,          \* whether bit fields start at the high bit
    MaxFrames           \* bound on the number of frames

Protocols == {"TCP", "UDP", "SCTP", "ICMP", "GRE", "OTHER"}
GreFields == {"checksum", "routing", "key", "sequence"}

Layers == [ethertype : {"IP", "OTHER"},     \* what the layer above announced
           whole : BOOLEAN,                 \* an IP header fits in the rest
           proto : Protocols,
           src : Addresses, dst : Addresses,
           sport : PortNumbers, dport : PortNumbers,
           id : IpIds, offset : BOOLEAN, mf : BOOLEAN,
           gre : SUBSET GreFields]

ASSUME HookAssumption ==
    /\ Addresses \subseteq Nat
    /\ PortNumbers \subseteq Nat /\ 0 \in PortNumbers
    /\ Frames \subseteq [vlans : Nat, layers : Seq(Layers) \ {<<>>}]
    /\ \A f \in Frames : \A i \in 1 .. Len(f.layers) - 1 : f.layers[i].proto = "GRE"
    /\ Stray \subseteq Layers
    /\ MAX_DOMAIN \in Nat
    /\ domain \in [Addresses -> 0 .. MAX_DOMAIN]
    /\ PNA_MAX_CHECKS \in Nat \ {0}
    /\ PNA_MAXFRAGS \in Nat \ {0}
    /\ BigEndian \in BOOLEAN
    /\ MaxFrames \in Nat

VARIABLES
    pna_frag_table,
    pna_frag_next_idx,
    pna_frag_packets_missed,
    calls,      \* history: the calls of flowmon_hook, each with its frame
    misread,    \* history: bytes that are no header were taken for one
    nframes     \* number of frames so far

vars == <<pna_frag_table, pna_frag_next_idx, pna_frag_packets_missed,
          calls, misread, nframes>>

fragVars == <<pna_frag_table, pna_frag_next_idx, pna_frag_packets_missed>>

\* The fragment table; its history is not kept here.
FT == INSTANCE FragTable WITH
        Hosts <- Addresses, Ports <- PortNumbers \X PortNumbers,
        ZeroPorts <- <<0, 0>>, MaxFirsts <- MaxFrames,
        MaxLater <- MaxFrames, entered <- <<>>, recorded <- {}

Keys == [l4_protocol : Protocols,
         local_ip : Addresses, remote_ip : Addresses,
         local_port : PortNumbers, remote_port : PortNumbers,
         local_domain : 0 .. MAX_DOMAIN, remote_domain : 0 .. MAX_DOMAIN]

-----------------------------------------------------------------------------
(* ether_hook.                                                             *)

\* The optional fields ether_hook sees announced in a GRE header.  The bit
\* fields of struct pna_grehdr are declared from the high bit down; a
\* compiler that allocates them from the low bit reads the recursion bits
\* instead, which are zero.
Announced(l) == IF BigEndian THEN l.gre ELSE {}

\* ether_hook unpacks this layer and calls itself on the next one.
Unpacked(l) ==
    /\ l.ethertype = "IP"
    /\ l.whole
    /\ l.proto = "GRE"
    /\ "routing" \notin Announced(l)

\* The number of layers ether_hook unpacks.
Depth(f) ==
    Min({n \in 0 .. Len(f.layers) :
           n = Len(f.layers) \/ ~Unpacked(f.layers[n + 1])})

\* The layer ip_hook works on, if the tunnels end before the frame does.
Reached(f) == f.layers[Depth(f) + 1]
HasIpHook(f) ==
    /\ Depth(f) < Len(f.layers)
    /\ Reached(f).ethertype = "IP"
    /\ Reached(f).whole
    /\ Reached(f).proto # "GRE"

\* The optional fields of every tunnel were skipped, and no tunnel packet is a
\* later fragment, so that the bytes ip_hook reads as a header are one.
Aligned(f) ==
    \A i \in 1 .. Depth(f) :
        Announced(f.layers[i]) = f.layers[i].gre /\ ~f.layers[i].offset

-----------------------------------------------------------------------------
(* pna_localize.                                                           *)

\* The key as ether_hook and ip_hook leave it: the source counts as local.
SourceKey(l, ports) ==
    [l4_protocol |-> l.proto,
     local_ip |-> l.src, remote_ip |-> l.dst,
     local_port |-> ports[1], remote_port |-> ports[2],
     local_domain |-> domain[l.src], remote_domain |-> domain[l.dst]]

\* Mutant: the ports stay where they are.
pna_session_swap_ips(k) ==
    [k EXCEPT !.local_ip = k.remote_ip, !.remote_ip = k.local_ip,
              !.local_domain = k.remote_domain, !.remote_domain = k.local_domain]

\* Mutant: the domains stay where they are.
pna_session_swap_ends(k) ==
    [k EXCEPT !.local_ip = k.remote_ip, !.remote_ip = k.local_ip,
              !.local_port = k.remote_port, !.remote_port = k.local_port]

pna_session_swap(k) ==
    [k EXCEPT !.local_ip = k.remote_ip, !.remote_ip = k.local_ip,
              !.local_port = k.remote_port, !.remote_port = k.local_port,
              !.local_domain = k.remote_domain, !.remote_domain = k.local_domain]

\* Neither end is in a network of the networks file.
Unlocalized(k) == k.local_domain = k.remote_domain /\ k.local_domain = MAX_DOMAIN

\* The source is the local end: lower domain, or lower address in one domain.
SourceIsLocal(k) ==
    \/ k.local_domain < k.remote_domain
    \/ k.local_domain = k.remote_domain /\ k.local_ip < k.remote_ip

pna_localize(k) ==
    IF SourceIsLocal(k) THEN [key |-> k, dir |-> 0]
    ELSE [key |-> pna_session_swap(k), dir |-> 1]

\* Localize the key and hand it to flowmon_hook, unless both ends are remote.
Localize(f, k) ==
    calls' = IF Unlocalized(k) THEN calls
             ELSE calls \cup {[frame |-> f, key |-> pna_localize(k).key,
                               dir |-> pna_localize(k).dir]}

-----------------------------------------------------------------------------
(* ip_hook and pna_hook.                                                   *)

Header(l) == [ip_src |-> l.src, ip_dst |-> l.dst, ip_id |-> l.id]
Fingerprint(l) == FT!pna_frag_hash(Header(l))

\* No packet has the fingerprint of an entry not used yet, as in FragTable.
ASSUME HookPrintAssumption ==
    \A s, d \in Addresses, n \in IpIds :
        FT!pna_frag_hash([ip_src |-> s, ip_dst |-> d, ip_id |-> n]) # EmptyPrint

\* A TCP or SCTP packet or first fragment.
StreamPacket(f, l) ==
    /\ l.proto \in {"TCP", "SCTP"}
    /\ IF l.offset THEN UNCHANGED calls
       ELSE Localize(f, SourceKey(l, <<l.sport, l.dport>>))
    /\ UNCHANGED fragVars

\* A UDP packet with its ports; if fragments follow, remember them.
DatagramStart(f, l) ==
    /\ l.proto = "UDP"
    /\ ~l.offset
    /\ IF l.mf THEN FT!pna_set_frag(Header(l), <<l.sport, l.dport>>)
       ELSE UNCHANGED <<pna_frag_table, pna_frag_next_idx>>
    /\ Localize(f, SourceKey(l, <<l.sport, l.dport>>))
    /\ UNCHANGED pna_frag_packets_missed

\* A later fragment of a UDP packet: the ports come from the table.
DatagramRest(f, l) ==
    /\ l.proto = "UDP"
    /\ l.offset
    /\ IF FT!Found(Header(l)) = {}
       THEN /\ pna_frag_packets_missed' = pna_frag_packets_missed + 1
            /\ UNCHANGED calls
       ELSE /\ Localize(f, SourceKey(l, FT!pna_get_frag(Header(l)).ports))
            /\ UNCHANGED pna_frag_packets_missed
    /\ UNCHANGED <<pna_frag_table, pna_frag_next_idx>>

\* ICMP has no ports: 0 for the source, type and code for the destination.
IcmpPacket(f, l) ==
    /\ l.proto = "ICMP"
    /\ Localize(f, SourceKey(l, <<0, l.dport>>))
    /\ UNCHANGED fragVars

\* Routing protocols and protocols without a case.
OtherPacket(l) ==
    /\ l.proto = "OTHER"
    /\ UNCHANGED <<calls, fragVars>>

ip_hook(f, l) ==
    \/ StreamPacket(f, l)
    \/ DatagramStart(f, l)
    \/ DatagramRest(f, l)
    \/ IcmpPacket(f, l)
    \/ OtherPacket(l)

\* The bytes at the place of the header are something else: ether_hook drops
\* the packet, or takes them for some header.
Misread(f) ==
    /\ misread' = TRUE
    /\ \/ UNCHANGED <<calls, fragVars>>
       \/ \E l \in Stray : ip_hook(f, l)

\* ether_hook, by the layer it ends at.
ether_hook(f) ==
    \/ ~Aligned(f) /\ Misread(f)
    \/ Aligned(f) /\ HasIpHook(f) /\ ip_hook(f, Reached(f)) /\ UNCHANGED misread
    \/ Aligned(f) /\ ~HasIpHook(f) /\ UNCHANGED <<calls, fragVars, misread>>

\* The VLAN loop runs at most PNA_MAX_CHECKS times; a frame that needed them
\* all is dropped.
VlanDrop(f) ==
    /\ f.vlans >= PNA_MAX_CHECKS
    /\ UNCHANGED <<calls, fragVars, misread>>

Decode(f) ==
    /\ f.vlans < PNA_MAX_CHECKS
    /\ ether_hook(f)

pna_hook(f) ==
    /\ nframes < MaxFrames
    /\ VlanDrop(f) \/ Decode(f)
    /\ nframes' = nframes + 1

Init ==
    /\ pna_frag_table = [i \in FT!Slots |-> [fingerprint |-> EmptyPrint, ports |-> <<0, 0>>]]
    /\ pna_frag_next_idx = 0
    /\ pna_frag_packets_missed = 0
    /\ calls = {}
    /\ misread = FALSE
    /\ nframes = 0

Next == \E f \in Frames : pna_hook(f)

Spec == Init /\ [][Next]_vars

-----------------------------------------------------------------------------
(* Properties.                                                             *)

\* The innermost packet of a frame, whatever tunnels it came through.
Inner(f) == f.layers[Len(f.layers)]

\* The packets whose flow the two directions share: they have ports, and the
\* two addresses differ ("assume IPs are different").  Their tunnels, if any,
\* have plain GRE headers.
Conversing(f) ==
    /\ Inner(f).proto \in {"TCP", "UDP", "SCTP"}
    /\ Inner(f).src # Inner(f).dst
    /\ \A i \in 1 .. Len(f.layers) - 1 : f.layers[i].gre = {} /\ ~f.layers[i].offset

\* No two datagrams share a fingerprint.  The fragment table cannot tell them
\* apart if they do (see RightPorts of FragTable).
PrintsDiffer ==
    \A f, g \in Frames :
        (/\ Inner(f).proto = "UDP" /\ Inner(g).proto = "UDP"
         /\ Fingerprint(Inner(f)) = Fingerprint(Inner(g))) =>
            <<Inner(f).sport, Inner(f).dport>> = <<Inner(g).sport, Inner(g).dport>>

Ends(l) == {<<l.src, l.sport>>, <<l.dst, l.dport>>}

SameConversation(f, g) ==
    /\ Inner(f).proto = Inner(g).proto
    /\ Ends(Inner(f)) = Ends(Inner(g))

\* Packets end up in the same flow exactly when they belong to the same
\* conversation, through whatever VLAN tags, tunnels and fragments they came;
\* and the direction recorded tells the two ends apart.  (Stray bytes may put
\* the wrong ports into the fragment table.)
OneFlowPerConversation ==
    ~misread => \A c, d \in calls :
        (Conversing(c.frame) /\ Conversing(d.frame)) =>
            /\ c.key = d.key <=> SameConversation(c.frame, d.frame)
            /\ SameConversation(c.frame, d.frame) =>
                 (c.dir = d.dir <=> Inner(c.frame).src = Inner(d.frame).src)

\* The local end of a recorded flow is the end with the lower domain, the
\* lower address deciding within a domain, and it is in a configured network.
LocalEnd ==
    \A c \in calls :
        /\ c.key.local_domain # MAX_DOMAIN
        /\ <<c.key.local_domain, c.key.remote_domain>> =
             <<domain[c.key.local_ip], domain[c.key.remote_ip]>>
        /\ \/ c.key.local_domain < c.key.remote_domain
           \/ /\ c.key.local_domain = c.key.remote_domain
              /\ c.key.local_ip <= c.key.remote_ip

\* A flow is recorded under the addresses of the innermost packet: ether_hook
\* accounts for the optional fields of the GRE headers on the way to it.  With
\* BigEndian = FALSE it does not, which refutes this: no run checks it.
InnerAddresses ==
    \A c \in calls :
        (\A i \in DOMAIN c.frame.layers : ~c.frame.layers[i].offset) =>
            {c.key.local_ip, c.key.remote_ip} =
                {Inner(c.frame).src, Inner(c.frame).dst}
=============================================================================

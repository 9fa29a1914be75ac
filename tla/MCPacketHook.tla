---------------------------- MODULE MCPacketHook ----------------------------
(* PacketHook on a local host (1), a second one in its domain (2) and a     *)
(* remote one (9).                                                          *)
EXTENDS PacketHook, TLC

NoPrint == <<{}, 0>>
ThreeDomains == 1 :> 4 @@ 2 :> 4 @@ 3 :> 5 @@ 8 :> 7 @@ 9 :> 7

\* A packet from s to d.
Packet(pr, s, d, sp, dp, n, off, more) ==
    [ethertype |-> "IP", whole |-> TRUE, proto |-> pr, src |-> s, dst |-> d,
     sport |-> sp, dport |-> dp, id |-> n, offset |-> off, mf |-> more, gre |-> {}]

Tunnel(opts) == [Packet("GRE", 9, 9, 0, 0, 1, FALSE, FALSE) EXCEPT !.gre = opts]

Bare(l) == [vlans |-> 0, layers |-> <<l>>]
Tagged(n, l) == [vlans |-> n, layers |-> <<l>>]
Tunnelled(opts, l) == [vlans |-> 0, layers |-> <<Tunnel(opts), l>>]

\* One direction of a conversation, with an ip_id of its own.
Direction(pr, s, d, sp, dp, n) ==
    {Packet(pr, s, d, sp, dp, n, FALSE, FALSE), Packet(pr, s, d, sp, dp, n, FALSE, TRUE),
     Packet(pr, s, d, sp, dp, n, TRUE, FALSE)}

Conversation(pr, s, d, sp, dp, n) ==
    Direction(pr, s, d, sp, dp, n) \cup Direction(pr, d, s, dp, sp, n + 1)

Traffic ==
    Conversation("UDP", 1, 9, 5, 6, 1) \cup Conversation("UDP", 1, 2, 6, 5, 3)
    \cup Conversation("TCP", 9, 1, 5, 6, 1) \cup Conversation("SCTP", 3, 1, 5, 5, 1)
    \cup {Packet("ICMP", 1, 9, 0, 6, 1, FALSE, FALSE),
          Packet("OTHER", 1, 9, 0, 0, 1, FALSE, FALSE),
          Packet("TCP", 8, 9, 5, 6, 1, FALSE, FALSE),
          Packet("TCP", 1, 1, 5, 6, 1, FALSE, FALSE),
          [Packet("TCP", 1, 9, 5, 6, 1, FALSE, FALSE) EXCEPT !.ethertype = "OTHER"],
          [Packet("TCP", 1, 9, 5, 6, 1, FALSE, FALSE) EXCEPT !.whole = FALSE]}

\* A tunnel packet of which only a later fragment is there, and tunnels with
\* optional GRE fields around a packet of the second network.
StrayFrames ==
    {Bare([Tunnel({}) EXCEPT !.offset = TRUE]), Tunnelled({}, Tunnel({}))}
    \cup {Tunnelled(opts, Packet("UDP", 3, 1, 5, 5, 1, FALSE, FALSE)) :
            opts \in {{"checksum"}, {"routing"}, {"key", "sequence"}}}

\* Every packet bare, those of a UDP conversation also with the most tags that
\* pass and through two tunnels, frames with too many tags, and strays.
SomeFrames ==
    {Bare(l) : l \in Traffic}
    \cup {Tagged(2, l) : l \in Conversation("UDP", 1, 9, 5, 6, 1)}
    \cup {[vlans |-> 1, layers |-> <<Tunnel({}), Tunnel({}), l>>] :
            l \in Direction("UDP", 9, 1, 6, 5, 2)}
    \cup {Tagged(3, Packet("TCP", 1, 9, 5, 6, 1, FALSE, FALSE))}
    \cup StrayFrames

\* What stray bytes look like: ends of one network, of two, and of none, whole
\* or in fragments.
SomeHeaders ==
    {Packet("UDP", 2, 1, 0, 6, 3, FALSE, TRUE), Packet("UDP", 9, 1, 6, 5, 2, TRUE, FALSE),
     Packet("TCP", 3, 2, 5, 6, 1, FALSE, FALSE), Packet("SCTP", 9, 8, 5, 5, 1, FALSE, FALSE),
     Packet("OTHER", 1, 9, 0, 0, 1, FALSE, FALSE)}

\* The fragments of two datagrams are told apart here.
ASSUME SomeFramesDiffer == PrintsDiffer
=============================================================================

------------------------------ MODULE MCIntop ------------------------------
(***************************************************************************)
(* Five logs: complete ones of the three formats, one of them the v1 log   *)
(* with a single flow, which no parser reads, and one or two that the      *)
(* monitor writes while the program runs.                                  *)
(***************************************************************************)
EXTENDS Intop

Flow(l, r, in) == [local_ip |-> l, remote_ip |-> r, inflags |-> in]
MCLogOf ==
    "v1" :> [version |-> "v1", flows |-> <<Flow(1, 2, FALSE), Flow(3, 2, FALSE)>>] @@
    "v1one" :> [version |-> "v1", flows |-> <<Flow(1, 2, FALSE)>>] @@
    "v1a" :> [version |-> "v1a", flows |-> <<Flow(3, 4, FALSE)>>] @@
    "new" :> [version |-> "v2", flows |-> <<Flow(1, 2, TRUE), Flow(5, 2, FALSE)>>] @@
    "next" :> [version |-> "v2", flows |-> <<Flow(1, 4, FALSE)>>]
MCLogs == DOMAIN MCLogOf
MCOldLogs == {"v1", "v1one", "v1a"}
MCFileLists == {<<>>, <<"v1">>, <<"v1a", "new">>, <<"v1", "v1one">>}
MCFilters ==
    {<<>>,
     "local-ip" :> [octets |-> <<0, 0, 0, 1>>, bits |-> NoMask],
     "remote-ip" :> [octets |-> <<0, 0, 1, 0>>, bits |-> 2] @@
     "latest" :> [octets |-> <<0, 0, 0, 0>>, bits |-> NoMask]}
MCSortKeys == {"raw", "sessions", "tcp-ports"}
=============================================================================

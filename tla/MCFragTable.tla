---------------------------- MODULE MCFragTable ----------------------------
(* FragTable with a ring of two entries.                                   *)
EXTENDS FragTable, TLC

CONSTANTS a, b, c

\* A conversation sees its ports swapped from the other side.
TwoPorts == {<<1, 2>>, <<2, 1>>}
NoPorts == <<0, 0>>
NoPrint == <<{}, 0>>
=============================================================================

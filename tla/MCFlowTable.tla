---------------------------- MODULE MCFlowTable ----------------------------
(* FlowTable on small instances.                                           *)
EXTENDS FlowTable, TLC

CONSTANTS k1, k2, k3, k4

\* One flow, so that many rotations fit in.
OneFlow == {k1}
OneFlowHash == k1 :> 0

\* Four flows over the slots of a table of four.  With two attempts k1, k2
\* and k4 compete for slots 0 and 1, and k3 for slots 1 and 2.
ManyFlows == {k1, k2, k3, k4}
ManyFlowsHash == k1 :> 0 @@ k2 :> 0 @@ k3 :> 1 @@ k4 :> 0
=============================================================================

---------------------------- MODULE MCLifecycle ----------------------------
(* Lifecycle with two flow tables and a handful of packets.                *)
EXTENDS Lifecycle
=============================================================================

------------------------------ MODULE MCPusher ------------------------------
(* Pusher with logs of two groups and time for two runs of the pusher, on   *)
(* a host in UTC, a group behind it or a group ahead of it.                 *)
EXTENDS Pusher

LocalZones == {-1, 0, 1}
=============================================================================

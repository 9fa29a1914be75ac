---------------------------- MODULE MCDumpTable ----------------------------
(* DumpTable with a buffer that two entries fill and a half fits behind, as *)
(* a third of an entry does in the megabyte of the code.                    *)
EXTENDS DumpTable
=============================================================================

----------------------------- MODULE LogParser -----------------------------
(***************************************************************************)
(* PNALogParser of util/intop/parse.py: what it makes of a file.           *)
(*                                                                         *)
(* A log is the version of its format and its flows.  A file is as much of *)
(* a log as is on the disk: dump_table leaves a hole for the header, then  *)
(* writes the entries and the header last.  Of the bytes the parser looks  *)
(* at, only those that decide what it does are kept: whether the magic is  *)
(* there, the length, and whether the two bytes at which a v1a entry has   *)
(* its blanks are zero.  Lengths are in words of four bytes.               *)
(***************************************************************************)
EXTENDS Integers, Sequences

Versions == {"v1", "v1a", "v2"}

\* inflags: the TCP flags seen inbound are not all zero.
Flows == [local_ip : Nat, remote_ip : Nat, inflags : BOOLEAN]
LogRecords == [version : Versions, flows : Seq(Flows)]

\* The structures _header and _entry, in words.  v1 and v1a share a header.
HeaderWords(v) == IF v = "v2" THEN 4 ELSE 3
EntryWords(v) == CASE v = "v1" -> 9 [] v = "v1a" -> 10 [] v = "v2" -> 12

\* What lies where the first v1a entry has blank0 and blank1: the inbound
\* flags of the first flow of a v2 log whose header is missing, half of the
\* local address of the second flow of a v1 log (zero stands for any address
\* with that half zero), the blanks of a v1a log.
Blanks(log, written) ==
    \/ log.version = "v2" /\ written >= 1 /\ log.flows[1].inflags
    \/ log.version = "v1" /\ written >= 2 /\ log.flows[2].local_ip # 0

\* The file with the first written entries of a log, and its header or not.
\* Without any write it is empty: the hole is not there yet.
Image(log, written, header) ==
    [log |-> log,
     magic |-> header /\ log.version = "v2",
     blanks |-> Blanks(log, written),
     words |-> IF written = 0 /\ ~header THEN 0
               ELSE HeaderWords(log.version) + written * EntryWords(log.version)]

\* Mutant: without magic the log is taken for v2 all the same.
ReadAsNewest(file) == "v2"

\* The version the parser decides on.  Version 2 is the only one with magic.
ReadAs(file) ==
    IF file.magic THEN "v2" ELSE IF file.blanks THEN "v1" ELSE "v1a"

Body(file) == file.words - HeaderWords(ReadAs(file))

\* unpack_from raises no error: the header fits, without magic the first entry
\* fits that the constructor looks at to tell v1 from v1a, and the last entry
\* does not run over the end of the file.
Readable(file) ==
    /\ Body(file) >= (IF file.magic THEN 0 ELSE EntryWords("v1a"))
    /\ Body(file) % EntryWords(ReadAs(file)) = 0

\* An entry put together from bytes of other fields.
Misread == [local_ip |-> -1, remote_ip |-> -1, inflags |-> FALSE]

\* The list parse returns, if the file is readable.
parse(file) ==
    LET nentries == Body(file) \div EntryWords(ReadAs(file))
    IN  IF ReadAs(file) = file.log.version THEN SubSeq(file.log.flows, 1, nentries)
        ELSE [i \in 1 .. nentries |-> Misread]
=============================================================================

----------------------------- MODULE DumpTable -----------------------------
(***************************************************************************)
(* dump_table and buf_flush of module/dump_table.c: how the entries of a   *)
(* flow table reach the log file.  The entries are gathered in a buffer,   *)
(* the buffer is flushed when it is full and at the end, and the header is *)
(* written last, into the hole left for it at the front of the file.       *)
(*                                                                         *)
(* One step is one turn of the loop over the table or one system call; the *)
(* process may be killed between any two of them.  Bytes come in units: an *)
(* entry has EntrySize of them, the header one.  The file is new, as       *)
(* FlowTable!LogNamesDistinct says it is.                                  *)
(***************************************************************************)
EXTENDS Integers, Sequences, FiniteSetsExt

CONSTANTS
    f_max_entries,  \* slots of the table
    EntrySize,      \* sizeof(struct pna_log_entry)
    BUF_SIZE,       \* units the buffer holds
    ShortWrites,    \* TRUE: write may write less than it is asked to
    MaxErrors       \* bound on the writes that fail

ASSUME DumpAssumption ==
    /\ f_max_entries \in Nat
    /\ EntrySize \in Nat \ {0}
    /\ BUF_SIZE \in Nat /\ BUF_SIZE >= EntrySize
    /\ ShortWrites \in BOOLEAN
    /\ MaxErrors \in Nat

VARIABLES
    pc,         \* where dump_table is
    active,     \* the slots in use
    flow_idx,   \* next slot
    nflows,     \* entries so far
    buf,        \* contents of the buffer
    buf_idx,    \* units of the buffer in use
    pos,        \* offset of the file descriptor
    file,       \* contents of the file
    nerrors,    \* writes that failed
    short       \* history: some write was short

vars == <<pc, active, flow_idx, nflows, buf, buf_idx, pos, file, nerrors, short>>

Hole == <<"hole", 0>>
Junk == <<"junk", 0>>
Cut == <<"cut", 0>>                             \* a part of a header
Header(n) == <<"header", n>>                    \* n: log_header->size
Unit(s, i) == <<"entry", s * EntrySize + i>>    \* the i-th unit of slot s

Finished == pc \in {"closed", "unopened", "killed"}

\* The sequence seq with data laid over it at offset p; gaps hold fill.
Overlay(seq, p, data, fill) ==
    [i \in 1 .. Max({Len(seq), p + Len(data)}) |->
        IF i \in p + 1 .. p + Len(data) THEN data[i - p]
        ELSE IF i <= Len(seq) THEN seq[i] ELSE fill]

Entry(s) == [i \in 1 .. EntrySize |-> Unit(s, i)]

-----------------------------------------------------------------------------
\* open, and lseek past the place of the header; or open fails and dump_table
\* returns.
Open ==
    /\ pc = "open"
    /\ \/ pc' = "scan" /\ pos' = 1
       \/ pc' = "unopened" /\ UNCHANGED pos
    /\ UNCHANGED <<active, flow_idx, nflows, buf, buf_idx, file, nerrors, short>>

\* Mutant: the loop reads one slot too many.
ScanBeyond ==
    /\ pc = "scan"
    /\ flow_idx <= f_max_entries
    /\ flow_idx' = flow_idx + 1
    /\ UNCHANGED <<pc, nflows, buf, buf_idx, active, pos, file, nerrors, short>>

\* Mutant: the buffer is flushed once it has overflown.
ScanOverflow ==
    /\ pc = "scan"
    /\ flow_idx < f_max_entries
    /\ flow_idx' = flow_idx + 1
    /\ IF flow_idx \notin active
       THEN UNCHANGED <<pc, nflows, buf, buf_idx>>
       ELSE /\ buf' = Overlay(buf, buf_idx, Entry(flow_idx), Junk)
            /\ buf_idx' = buf_idx + EntrySize
            /\ nflows' = nflows + 1
            /\ pc' = IF buf_idx' >= BUF_SIZE THEN "flush" ELSE "scan"
    /\ UNCHANGED <<active, pos, file, nerrors, short>>

\* Mutant: a free slot is skipped without advancing.
ScanStuck ==
    /\ pc = "scan"
    /\ flow_idx < f_max_entries
    /\ flow_idx \in active
    /\ flow_idx' = flow_idx + 1
    /\ buf' = Overlay(buf, buf_idx, Entry(flow_idx), Junk)
    /\ buf_idx' = buf_idx + EntrySize
    /\ nflows' = nflows + 1
    /\ pc' = IF buf_idx' + EntrySize >= BUF_SIZE THEN "flush" ELSE "scan"
    /\ UNCHANGED <<active, pos, file, nerrors, short>>

\* One turn of the loop over the table.
Scan ==
    /\ pc = "scan"
    /\ flow_idx < f_max_entries
    /\ flow_idx' = flow_idx + 1
    /\ IF flow_idx \notin active
       THEN UNCHANGED <<pc, nflows, buf, buf_idx>>
       ELSE /\ buf' = Overlay(buf, buf_idx, Entry(flow_idx), Junk)
            /\ buf_idx' = buf_idx + EntrySize
            /\ nflows' = nflows + 1
            /\ pc' = IF buf_idx' + EntrySize >= BUF_SIZE THEN "flush" ELSE "scan"
    /\ UNCHANGED <<active, pos, file, nerrors, short>>

\* Mutant: what is left in the buffer is forgotten.
EndScanUnflushed ==
    /\ pc = "scan"
    /\ flow_idx = f_max_entries
    /\ pc' = "header"
    /\ UNCHANGED <<active, flow_idx, nflows, buf, buf_idx, pos, file, nerrors, short>>

\* The loop is over: flush what is left, if anything.
EndScan ==
    /\ pc = "scan"
    /\ flow_idx = f_max_entries
    /\ pc' = IF buf_idx > 0 THEN "lastflush" ELSE "header"
    /\ UNCHANGED <<active, flow_idx, nflows, buf, buf_idx, pos, file, nerrors, short>>

\* The buffer as write sees it: past its contents there is junk.
Buffered == [i \in 1 .. buf_idx |-> IF i <= Len(buf) THEN buf[i] ELSE Junk]

\* write in buf_flush, which always starts at the front of the buffer.
Write(count) ==
    /\ pc \in {"flush", "lastflush"}
    /\ file' = Overlay(file, pos, SubSeq(Buffered, 1, count), Hole)
    /\ pos' = pos + count
    /\ buf_idx' = buf_idx - count
    /\ pc' = IF buf_idx' > 0 THEN pc
             ELSE IF pc = "flush" THEN "scan" ELSE "header"
    /\ UNCHANGED <<active, flow_idx, nflows, buf, nerrors>>

FullWrite == Write(buf_idx) /\ UNCHANGED short

ShortWrite ==
    /\ ShortWrites
    /\ \E count \in 1 .. buf_idx - 1 : Write(count)
    /\ short' = TRUE

\* write returns -1, which buf_flush reports and subtracts.
WriteError ==
    /\ pc \in {"flush", "lastflush"}
    /\ nerrors < MaxErrors
    /\ nerrors' = nerrors + 1
    /\ buf_idx' = buf_idx + 1
    /\ UNCHANGED <<pc, active, flow_idx, nflows, buf, pos, file, short>>

\* lseek to the front and write the header.  Nobody looks at what write
\* returns: it may fail, which leaves the hole, or write a part.
WriteHeader ==
    /\ pc = "header"
    /\ pc' = "closed"
    /\ \/ /\ file' = Overlay(file, 0, <<Header(nflows * EntrySize)>>, Hole)
          /\ pos' = 1
          /\ UNCHANGED short
       \/ /\ UNCHANGED <<file, short>>
          /\ pos' = 0
       \/ /\ ShortWrites
          /\ file' = Overlay(file, 0, <<Cut>>, Hole)
          /\ pos' = 0
          /\ short' = TRUE
    /\ UNCHANGED <<active, flow_idx, nflows, buf, buf_idx, nerrors>>

Kill ==
    /\ ~Finished
    /\ pc' = "killed"
    /\ UNCHANGED <<active, flow_idx, nflows, buf, buf_idx, pos, file, nerrors, short>>

Init ==
    /\ pc = "open"
    /\ active \in SUBSET (0 .. f_max_entries - 1)
    /\ flow_idx = 0
    /\ nflows = 0
    /\ buf = <<>>
    /\ buf_idx = 0
    /\ pos = 0
    /\ file = <<>>
    /\ nerrors = 0
    /\ short = FALSE

DumpStep == Open \/ Scan \/ EndScan \/ FullWrite \/ ShortWrite \/ WriteHeader

Next == DumpStep \/ WriteError \/ Kill

Spec == Init /\ [][Next]_vars

\* dump_table runs until it returns or the process is killed.
FairSpec == Spec /\ WF_vars(DumpStep)

-----------------------------------------------------------------------------
(* Properties.                                                             *)

\* The program counter, the indices and the counters are in range.
TypeOK ==
    /\ pc \in {"open", "scan", "flush", "lastflush", "header",
               "closed", "unopened", "killed"}
    /\ active \subseteq 0 .. f_max_entries - 1
    /\ flow_idx \in 0 .. f_max_entries
    /\ nflows \in 0 .. flow_idx
    /\ buf_idx \in Nat
    /\ pos \in Nat
    /\ nerrors \in 0 .. MaxErrors
    /\ short \in BOOLEAN

\* The buffer never holds more than BUF_SIZE units as long as no write fails:
\* it is flushed before an entry would no longer fit.
BufferFits == nerrors = 0 => buf_idx <= BUF_SIZE /\ Len(buf) <= BUF_SIZE

\* The log dump_table promises: a header with the size, then the entries of
\* the table in the order of their slots, each once.
SlotOf(n) == CHOOSE s \in active : Cardinality({r \in active : r < s}) = n
Complete ==
    LET n == Cardinality(active)
    IN  [i \in 1 .. 1 + n * EntrySize |->
            IF i = 1 THEN Header(n * EntrySize)
            ELSE Unit(SlotOf((i - 2) \div EntrySize), ((i - 2) % EntrySize) + 1)]

HasHeader == file # <<>> /\ file[1] \notin {Hole, Junk}

\* As long as every write writes all it is given, a file with a header is
\* complete, whenever the process was killed: a reader that waits for the
\* header reads every entry.  That the write of the header itself fails is
\* no exception: the file has no header then, for good.
HeaderMeansComplete == (HasHeader /\ ~short /\ nerrors = 0) => file = Complete

\* The same whatever the writes do, as long as none fails (buf_flush "flushes
\* a buffer out to the file").  A short write refutes it: no run checks it.
FlushesAll == (HasHeader /\ nerrors = 0) => file = Complete

\* Every dump comes to an end.
Terminates == <>Finished
=============================================================================

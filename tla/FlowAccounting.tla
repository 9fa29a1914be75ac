--------------------------- MODULE FlowAccounting ---------------------------
(***************************************************************************)
(* What the flow monitor of module/pna_flowmon.c promises its user, without *)
(* tables, slots, probes or locks: packets gather in one window; a packet  *)
(* of a later window first has the old one written out as a whole, or lost *)
(* as a whole when the log file cannot be opened; a packet may only be     *)
(* missed when its flow is not yet in the window, and never when it is the *)
(* packet that begins the window; a clean stop leaves nothing behind.      *)
(* FlowTable implements this specification (FlowTable!Accounting).         *)
(***************************************************************************)
EXTENDS Integers

CONSTANT Packets        \* records with at least the fields key and tv

VARIABLES
    pending,    \* the packets of the open window
    start,      \* the second the window began, 0 if none is open
    exported,   \* the windows written out, each a set of packets
    lost,       \* packets of windows whose log could not be opened
    missed,     \* packets that found no place in their window
    running

vars == <<pending, start, exported, lost, missed, running>>

Known == pending \cup (UNION exported) \cup lost \cup missed

\* A window ends at a ten second boundary, and ten seconds after it began.
Closes(tv) == (tv % 10 = 0 /\ tv # start) \/ tv - start >= 10

Flush ==
    \/ exported' = exported \cup {pending} /\ UNCHANGED lost
    \/ lost' = lost \cup pending /\ UNCHANGED exported

Init ==
    /\ pending = {}
    /\ start = 0
    /\ exported = {}
    /\ lost = {}
    /\ missed = {}
    /\ running = TRUE

Extend(p) ==
    /\ pending # {}
    /\ ~Closes(p.tv)
    /\ \/ pending' = pending \cup {p} /\ UNCHANGED missed
       \/ /\ \A q \in pending : q.key # p.key
          /\ missed' = missed \cup {p}
          /\ UNCHANGED pending
    /\ UNCHANGED <<start, exported, lost>>

Begin(p) ==
    /\ \/ pending = {} /\ UNCHANGED <<exported, lost>>
       \/ pending # {} /\ Closes(p.tv) /\ Flush
    /\ pending' = {p}
    /\ start' = p.tv
    /\ UNCHANGED missed

Observe(p) ==
    /\ running
    /\ p \notin Known
    /\ Extend(p) \/ Begin(p)
    /\ UNCHANGED running

Stop ==
    /\ running
    /\ \/ pending = {} /\ UNCHANGED <<exported, lost>>
       \/ pending # {} /\ Flush
    /\ pending' = {}
    /\ start' = 0
    /\ running' = FALSE
    /\ UNCHANGED missed

Next == Stop \/ \E p \in Packets : Observe(p)

Spec == Init /\ [][Next]_vars

=============================================================================

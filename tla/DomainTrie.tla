----------------------------- MODULE DomainTrie -----------------------------
(***************************************************************************)
(* The domain trie of module/pna_domain_trie.c: a binary trie that maps an *)
(* IP address to the domain of the longest configured network prefix.      *)
(* pna_dtrie_build reads the networks file line by line and calls          *)
(* pna_dtrie_add for each network; one step of the specification is one    *)
(* turn of the loop of either.  Init is what a pna_dtrie_init leaves that  *)
(* got its memory; Lifecycle has the one that did not.                     *)
(*                                                                         *)
(* A node is identified by the bits on the way to it from pna_dtrie_head,  *)
(* so the children of a node are the paths one bit longer.  An address is  *)
(* the function from bit positions, the highest first, to bits.  Bit       *)
(* positions past the last one, which masks longer than an address reach,  *)
(* wrap around: the shift by 31 - cur_bit_pos takes its count modulo the   *)
(* width of the word.                                                      *)
(***************************************************************************)
EXTENDS Integers, FiniteSetsExt

CONSTANTS
    Width,          \* bits of an address, 32 in the code
    MaxMask,        \* longest mask in the networks file
    NetIds,         \* netids in the networks file
    DomainWord,     \* domain_id is an unsigned short: 2^16
    MAX_DOMAIN,     \* the domain of addresses in no network, 0xFFFF
    MaxLines        \* bound on the lines of the networks file

ASSUME TrieAssumption ==
    /\ Width \in Nat \ {0}
    /\ MaxMask \in Nat \ {0}
    /\ NetIds \subseteq Nat \ {0}
    /\ DomainWord \in Nat \ {0}
    /\ MAX_DOMAIN \in 0 .. DomainWord - 1
    /\ MaxLines \in Nat

Bits == {0, 1}
Addresses == [0 .. Width - 1 -> Bits]
Domains == 0 .. DomainWord - 1

\* The node n bits down the path of address ip.
Path(ip, n) == [i \in 0 .. n - 1 |-> ip[i % Width]]

Head == Path([i \in 0 .. Width - 1 |-> 0], 0)

\* The paths the networks file can mention.
Paths == {Path(ip, n) : ip \in Addresses, n \in 1 .. MaxMask}

VARIABLES
    trie,       \* the allocated nodes: path |-> [isprefix, domain_id]
    status,     \* pna_dtrie_build: "reading", "built" or "failed"; "adding"
                \* inside pna_dtrie_add; "freed"
    line,       \* the arguments of pna_dtrie_add and its cur_bit_pos
    nlines,     \* lines read so far
    networks    \* history: path |-> domain of the last line added for it

vars == <<trie, status, line, nlines, networks>>

Nodes == [isprefix : BOOLEAN, domain_id : Domains]

Lines == [prefix : Addresses, mask : 0 .. MaxMask, netid : NetIds \cup {0},
          cur_bit_pos : 0 .. MaxMask]

NoLine == [prefix |-> [i \in 0 .. Width - 1 |-> 0], mask |-> 0, netid |-> 0,
           cur_bit_pos |-> 0]

\* Mutant: a new node already counts as a prefix.
FreshPrefix == [isprefix |-> TRUE, domain_id |-> MAX_DOMAIN]

\* pna_dtrie_entry_alloc
FreshNode == [isprefix |-> FALSE, domain_id |-> MAX_DOMAIN]

-----------------------------------------------------------------------------
\* The depths the lookup loop visits: it goes down as long as there is a node.
Visited(ip) == {n \in 1 .. MaxMask : \A m \in 1 .. n : Path(ip, m) \in DOMAIN trie}

\* Mutant: the walk ends at the first prefix.
pna_dtrie_lookup_first(ip) ==
    LET hits == {n \in Visited(ip) : trie[Path(ip, n)].isprefix}
    IN  IF hits = {} THEN MAX_DOMAIN ELSE trie[Path(ip, Min(hits))].domain_id

pna_dtrie_lookup(ip) ==
    LET hits == {n \in Visited(ip) : trie[Path(ip, n)].isprefix}
    IN  IF hits = {} THEN MAX_DOMAIN ELSE trie[Path(ip, Max(hits))].domain_id

-----------------------------------------------------------------------------
(* pna_dtrie_add.                                                          *)

\* The nodes cur and next of the loop.
Cur == Path(line.prefix, line.cur_bit_pos)
NextNode == Path(line.prefix, line.cur_bit_pos + 1)

\* A turn of the loop: go down to the child, which is allocated and linked
\* to cur if it is missing.
Descend ==
    /\ status = "adding"
    /\ line.cur_bit_pos < line.mask
    /\ trie' = [q \in DOMAIN trie \cup {NextNode} |->
                  IF q \in DOMAIN trie THEN trie[q] ELSE FreshNode]
    /\ line' = [line EXCEPT !.cur_bit_pos = @ + 1]
    /\ UNCHANGED <<status, nlines, networks>>

\* The child is missing and cannot be allocated: pna_dtrie_add gives up, which
\* pna_dtrie_build ignores; the nodes it has allocated stay.
OutOfMemory ==
    /\ status = "adding"
    /\ line.cur_bit_pos < line.mask
    /\ NextNode \notin DOMAIN trie
    /\ status' = "reading"
    /\ line' = NoLine
    /\ UNCHANGED <<trie, nlines, networks>>

\* Mutant: the netid is not cut to an unsigned short.
MarkPrefixWide ==
    /\ status = "adding"
    /\ line.cur_bit_pos = line.mask
    /\ trie' = [trie EXCEPT ![Cur] = [isprefix |-> TRUE, domain_id |-> line.netid]]
    /\ networks' = [q \in DOMAIN networks \cup {Cur} |->
                     IF q = Cur THEN line.netid % DomainWord ELSE networks[q]]
    /\ status' = "reading"
    /\ line' = NoLine
    /\ UNCHANGED nlines

\* The loop is over: cur is the node of the network.
MarkPrefix ==
    /\ status = "adding"
    /\ line.cur_bit_pos = line.mask
    /\ trie' = [trie EXCEPT ![Cur] = [isprefix |-> TRUE,
                                     domain_id |-> line.netid % DomainWord]]
    /\ networks' = [q \in DOMAIN networks \cup {Cur} |->
                     IF q = Cur THEN line.netid % DomainWord ELSE networks[q]]
    /\ status' = "reading"
    /\ line' = NoLine
    /\ UNCHANGED nlines

-----------------------------------------------------------------------------
(* pna_dtrie_build.                                                        *)

\* A line <prefix>/<mask>/<netid>: pna_dtrie_add is called.
NetworkLine(prefix, mask, netid) ==
    /\ status' = "adding"
    /\ line' = [prefix |-> prefix, mask |-> mask, netid |-> netid,
                cur_bit_pos |-> 0]
    /\ UNCHANGED <<trie, networks>>

\* A comment, an empty line, or a line that starts with a blank.
SkippedLine == UNCHANGED <<trie, status, line, networks>>

\* A part is missing, or the mask or the netid is 0: pna_dtrie_build returns
\* -1 and main exits.
BadLine ==
    /\ status' = "failed"
    /\ UNCHANGED <<trie, line, networks>>

ReadLine ==
    /\ status = "reading"
    /\ nlines < MaxLines
    /\ nlines' = nlines + 1
    /\ \/ \E ip \in Addresses, mask \in 1 .. MaxMask, netid \in NetIds :
            NetworkLine(ip, mask, netid)
       \/ SkippedLine
       \/ BadLine

\* fgets meets the end of the file.
EndOfFile ==
    /\ status = "reading"
    /\ status' = "built"
    /\ UNCHANGED <<trie, line, nlines, networks>>

\* pna_dtrie_rm_node frees every node, the head too.
pna_dtrie_deinit ==
    /\ status = "built"
    /\ status' = "freed"
    /\ trie' = [q \in {} |-> FreshNode]
    /\ UNCHANGED <<line, nlines, networks>>

\* pna_dtrie_init
Init ==
    /\ trie = [q \in {Head} |-> FreshNode]
    /\ status = "reading"
    /\ line = NoLine
    /\ nlines = 0
    /\ networks = [q \in {} |-> MAX_DOMAIN]

Next == \/ ReadLine \/ Descend \/ OutOfMemory \/ MarkPrefix
        \/ EndOfFile \/ pna_dtrie_deinit

Spec == Init /\ [][Next]_vars

-----------------------------------------------------------------------------
(* Properties.                                                             *)

\* Nodes are nodes, and networks are remembered by the path of their prefix.
TypeOK ==
    /\ DOMAIN trie \subseteq Paths \cup {Head}
    /\ trie \in [DOMAIN trie -> Nodes]
    /\ status \in {"reading", "adding", "built", "failed", "freed"}
    /\ line \in Lines
    /\ nlines \in 0 .. MaxLines
    /\ DOMAIN networks \subseteq Paths
    /\ networks \in [DOMAIN networks -> Domains]

\* The reference: the longest network whose prefix starts the address.
LongestMatch(ip) ==
    LET matches == {n \in 1 .. MaxMask : Path(ip, n) \in DOMAIN networks}
    IN  IF matches = {} THEN MAX_DOMAIN ELSE networks[Path(ip, Max(matches))]

\* pna_dtrie_lookup gives every address the domain of the longest network it
\* belongs to, the last line for a prefix deciding, MAX_DOMAIN if there is
\* none: whatever the order of the lines, whatever nodes adds that ran out of
\* memory left behind, and at any point of the walk of pna_dtrie_add.
LookupIsLongestMatch ==
    status # "freed" =>
        \A ip \in Addresses : pna_dtrie_lookup(ip) = LongestMatch(ip)

\* A step that adds nodes, or gives up for lack of memory, changes no answer;
\* one that marks a network changes the answers inside its own prefix only.
LocalEffect ==
    [][ status' # "freed" =>
          \A ip \in Addresses :
              pna_dtrie_lookup(ip) # pna_dtrie_lookup(ip)' =>
                  \E n \in 1 .. MaxMask :
                      /\ Path(ip, n) \in DOMAIN networks'
                      /\ Path(ip, n) \notin DOMAIN networks \/
                         networks'[Path(ip, n)] # networks[Path(ip, n)] ]_vars
=============================================================================

-------------------------- MODULE DomainTrieProofs --------------------------
(***************************************************************************)
(* Proofs about DomainTrie, for addresses of any width and networks files  *)
(* of any length.                                                          *)
(***************************************************************************)
EXTENDS DomainTrie, WellFoundedInduction, TLAPS

\* A nonempty set of naturals with an upper bound has a greatest element, and
\* Max chooses it.
LEMMA GreatestNat ==
    ASSUME NEW N \in Nat, NEW S \in SUBSET (0 .. N), S # {}
    PROVE  Max(S) \in S /\ \A y \in S : Max(S) >= y
<1> DEFINE R == {ss \in Nat \X Nat : ss[1] < ss[2]}
           T == {N - x : x \in S}
<1>1. IsWellFoundedOn(R, Nat)
  BY NatLessThanWellFounded, Zenon DEF OpToRel
<1>2. T \subseteq Nat /\ T # {}
  <2>1. \A x \in S : N - x \in Nat /\ N - x \in T
    OBVIOUS
  <2>2. PICK x \in S : TRUE
    OBVIOUS
  <2> QED BY <2>1, <2>2
<1>3. PICK z \in T : \A y \in T : <<y, z>> \notin R
  <2> HIDE DEF R, T
  <2> QED BY <1>1, <1>2, WFMin, Zenon
<1>4. PICK x \in S : z = N - x
  BY <1>3
<1>5. ASSUME NEW y \in S, ~(x >= y) PROVE FALSE
  <2>1. N - y \in T /\ N - y \in Nat /\ z \in Nat /\ N - y < z
    BY <1>4, <1>5
  <2> QED BY <1>3, <2>1
<1> QED BY <1>5 DEF Max

USE TrieAssumption

\* The nodes that are marked are the networks, and carry their domains.
Marked ==
    /\ \A q \in DOMAIN trie : trie[q].isprefix <=> q \in DOMAIN networks
    /\ \A q \in DOMAIN trie \cap DOMAIN networks : trie[q].domain_id = networks[q]
    /\ status # "freed" => DOMAIN networks \subseteq DOMAIN trie

Rooted == status # "freed" => Head \in DOMAIN trie

\* Every node is linked to the head by nodes.
Connected ==
    \A ip \in Addresses, n \in 1 .. MaxMask :
        Path(ip, n) \in DOMAIN trie =>
            \A m \in 0 .. n - 1 : Path(ip, m) \in DOMAIN trie

\* pna_dtrie_add stands at a node, no further down than the mask.
Walking ==
    status = "adding" =>
        /\ line.mask \in 1 .. MaxMask
        /\ line.netid \in NetIds
        /\ line.cur_bit_pos \in 0 .. line.mask
        /\ Cur \in DOMAIN trie

Inv == TypeOK /\ Connected /\ Marked /\ Rooted /\ Walking

-----------------------------------------------------------------------------
(* Paths.                                                                  *)

\* Equal paths have equal length, and agree on every shorter path.
LEMMA PathPrefix ==
    ASSUME NEW a \in Addresses, NEW b \in Addresses,
           NEW n \in Nat, NEW k \in Nat, Path(a, n) = Path(b, k)
    PROVE  /\ n = k
           /\ \A m \in 0 .. n : Path(a, m) = Path(b, m)
<1>1. DOMAIN Path(a, n) = 0 .. n - 1 /\ DOMAIN Path(b, k) = 0 .. k - 1
  BY DEF Path
<1>2. 0 .. n - 1 = 0 .. k - 1
  BY <1>1
<1>3. n = k
  <2>1. ~(n < k)
    <3> SUFFICES ASSUME n < k PROVE FALSE
      OBVIOUS
    <3>1. n \in 0 .. k - 1 /\ n \notin 0 .. n - 1
      OBVIOUS
    <3> QED BY <1>2, <3>1
  <2>2. ~(k < n)
    <3> SUFFICES ASSUME k < n PROVE FALSE
      OBVIOUS
    <3>1. k \in 0 .. n - 1 /\ k \notin 0 .. k - 1
      OBVIOUS
    <3> QED BY <1>2, <3>1
  <2> QED BY <2>1, <2>2
<1>4. \A i \in 0 .. n - 1 : a[i % Width] = b[i % Width]
  <2> SUFFICES ASSUME NEW i \in 0 .. n - 1 PROVE a[i % Width] = b[i % Width]
    OBVIOUS
  <2>1. Path(a, n)[i] = a[i % Width] /\ Path(b, k)[i] = b[i % Width]
    BY <1>3 DEF Path
  <2> QED BY <2>1
<1>5. \A m \in 0 .. n : Path(a, m) = Path(b, m)
  <2> SUFFICES ASSUME NEW m \in 0 .. n PROVE Path(a, m) = Path(b, m)
    OBVIOUS
  <2>1. \A i \in 0 .. m - 1 : a[i % Width] = b[i % Width]
    BY <1>4
  <2> QED BY <2>1 DEF Path
<1> QED BY <1>3, <1>5

LEMMA PathZero ==
    ASSUME NEW a \in Addresses
    PROVE  Path(a, 0) = Head
BY DEF Path, Head

LEMMA PathInPaths ==
    ASSUME NEW a \in Addresses, NEW n \in 1 .. MaxMask
    PROVE  Path(a, n) \in Paths
BY DEF Paths

LEMMA NoLineOK == NoLine \in Lines
BY DEF NoLine, Lines, Addresses, Bits

-----------------------------------------------------------------------------
(* Steps.                                                                  *)

LEMMA InvDescend ==
    ASSUME Inv, Descend
    PROVE  Inv'
<1> DEFINE ip == line.prefix
           pos == line.cur_bit_pos
           p == NextNode
<1>1. /\ status = "adding" /\ status' = status
      /\ UNCHANGED <<nlines, networks>>
      /\ line' = [line EXCEPT !.cur_bit_pos = @ + 1]
      /\ DOMAIN trie' = DOMAIN trie \cup {p}
      /\ \A q \in DOMAIN trie : trie'[q] = trie[q]
      /\ p \notin DOMAIN trie => trie'[p] = FreshNode
      /\ trie' = [q \in DOMAIN trie' |-> trie'[q]]
  BY DEF Descend
<1>2. /\ line \in Lines /\ ip \in Addresses /\ pos \in Nat
      /\ line.mask \in 1 .. MaxMask /\ pos < line.mask
      /\ line.netid \in NetIds
      /\ Path(ip, pos) \in DOMAIN trie
      /\ p = Path(ip, pos + 1)
  BY <1>1 DEF Descend, Inv, TypeOK, Walking, Lines, Cur, NextNode
<1>3. p \in Paths
  BY <1>2, PathInPaths
<1>4. /\ line' \in Lines /\ line'.prefix = ip /\ line'.cur_bit_pos = pos + 1
      /\ line'.mask = line.mask /\ line'.netid = line.netid
  BY <1>1, <1>2 DEF Lines
<1>5. Cur' = p
  BY <1>2, <1>4 DEF Cur, Path
<1> HIDE DEF p, ip, pos
<1>6. TypeOK'
  <2>1. FreshNode \in Nodes
    BY DEF FreshNode, Nodes, Domains
  <2>2. \A q \in DOMAIN trie' : trie'[q] \in Nodes
    BY <1>1, <2>1 DEF Inv, TypeOK
  <2>3. DOMAIN trie' \subseteq Paths \cup {Head}
    BY <1>1, <1>3 DEF Inv, TypeOK
  <2> QED BY <1>1, <1>4, <2>2, <2>3 DEF Inv, TypeOK
<1>7. ASSUME NEW a \in Addresses, NEW n \in 1 .. MaxMask,
             Path(a, n) \in DOMAIN trie', NEW m \in 0 .. n - 1
      PROVE  Path(a, m) \in DOMAIN trie'
  <2>1. CASE Path(a, n) \in DOMAIN trie
    BY <1>1, <2>1 DEF Inv, Connected
  <2>2. CASE Path(a, n) = p
    <3>1. n = pos + 1 /\ Path(a, m) = Path(ip, m)
      BY <1>2, <2>2, PathPrefix
    <3>2. CASE m = pos
      BY <1>1, <1>2, <3>1, <3>2
    <3>3. CASE m # pos
      <4>1. m \in 0 .. pos - 1 /\ pos \in 1 .. MaxMask
        BY <1>2, <3>1, <3>3
      <4> QED BY <1>1, <1>2, <3>1, <4>1 DEF Inv, Connected
    <3> QED BY <3>2, <3>3
  <2> QED BY <1>1, <1>7, <2>1, <2>2
<1>8. Connected'
  BY <1>7 DEF Connected, Path
<1>9. Marked'
  <2>1. p \notin DOMAIN trie => p \notin DOMAIN networks
    BY <1>1 DEF Inv, Marked
  <2> QED BY <1>1, <2>1 DEF Inv, Marked, FreshNode
<1>10. Rooted' /\ Walking'
  BY <1>1, <1>2, <1>4, <1>5 DEF Inv, Rooted, Walking
<1> QED BY <1>6, <1>8, <1>9, <1>10 DEF Inv

LEMMA InvMarkPrefix ==
    ASSUME Inv, MarkPrefix
    PROVE  Inv'
<1> DEFINE q0 == Cur
           dom == line.netid % DomainWord
           node == [isprefix |-> TRUE, domain_id |-> dom]
<1>1. /\ status = "adding" /\ status' = "reading" /\ line' = NoLine
      /\ nlines' = nlines
      /\ trie' = [trie EXCEPT ![q0] = node]
      /\ DOMAIN networks' = DOMAIN networks \cup {q0}
      /\ networks'[q0] = dom
      /\ \A q \in DOMAIN networks : q # q0 => networks'[q] = networks[q]
      /\ networks' = [q \in DOMAIN networks' |-> networks'[q]]
  BY DEF MarkPrefix
<1>2. q0 \in Paths /\ q0 \in DOMAIN trie
  <2>1. /\ line.prefix \in Addresses /\ line.mask \in 1 .. MaxMask
        /\ line.cur_bit_pos = line.mask
    BY <1>1 DEF MarkPrefix, Inv, TypeOK, Walking, Lines
  <2> QED BY <1>1, <2>1, PathInPaths DEF Inv, Walking, Cur
<1>3. dom \in Domains
  <2>1. line.netid \in Nat
    BY <1>1 DEF Inv, Walking
  <2> QED BY <2>1 DEF Domains
<1>4. node \in Nodes /\ node.isprefix = TRUE /\ node.domain_id = dom
  BY <1>3 DEF Nodes
<1> HIDE DEF q0, dom, node
<1>5. /\ DOMAIN trie' = DOMAIN trie
      /\ trie'[q0] = node
      /\ \A q \in DOMAIN trie : q # q0 => trie'[q] = trie[q]
      /\ trie' \in [DOMAIN trie' -> Nodes]
  BY <1>1, <1>2, <1>4 DEF Inv, TypeOK
<1>6. TypeOK'
  <2>1. \A q \in DOMAIN networks' : networks'[q] \in Domains
    BY <1>1, <1>3 DEF Inv, TypeOK
  <2>2. networks' \in [DOMAIN networks' -> Domains]
    BY <1>1, <2>1
  <2>3. DOMAIN networks' \subseteq Paths
    BY <1>1, <1>2 DEF Inv, TypeOK
  <2> QED BY <1>1, <1>5, <2>2, <2>3, NoLineOK DEF Inv, TypeOK
<1>7. Connected' /\ Rooted' /\ Walking'
  BY <1>1, <1>5 DEF Inv, Connected, Rooted, Walking, Path
<1>8. Marked'
  <2>1. ASSUME NEW q \in DOMAIN trie'
        PROVE  /\ trie'[q].isprefix <=> q \in DOMAIN networks'
               /\ q \in DOMAIN networks' => trie'[q].domain_id = networks'[q]
    <3>1. CASE q = q0
      BY <1>1, <1>4, <1>5, <3>1
    <3>2. CASE q # q0
      <4>1. trie'[q] = trie[q] /\ q \in DOMAIN trie
        BY <1>5, <3>2
      <4> QED BY <1>1, <3>2, <4>1 DEF Inv, Marked
    <3> QED BY <3>1, <3>2
  <2>2. DOMAIN networks' \subseteq DOMAIN trie'
    BY <1>1, <1>2, <1>5 DEF Inv, Marked
  <2> QED BY <2>1, <2>2 DEF Marked
<1> QED BY <1>6, <1>7, <1>8 DEF Inv

\* A network line begins the walk at the head.
LEMMA InvNetworkLine ==
    ASSUME Inv, status = "reading", nlines' \in 0 .. MaxLines,
           NEW ip \in Addresses, NEW mask \in 1 .. MaxMask, NEW netid \in NetIds,
           NetworkLine(ip, mask, netid)
    PROVE  Inv'
<1>1. /\ status' = "adding" /\ UNCHANGED <<trie, networks>>
      /\ line' = [prefix |-> ip, mask |-> mask, netid |-> netid, cur_bit_pos |-> 0]
  BY DEF NetworkLine
<1>2. line' \in Lines
  BY <1>1 DEF Lines
<1>3. Cur' = Head
  BY <1>1, PathZero DEF Cur, Path
<1>4. Head \in DOMAIN trie
  BY DEF Inv, Rooted
<1>5. TypeOK'
  BY <1>1, <1>2 DEF Inv, TypeOK
<1>6. Connected' /\ Marked' /\ Rooted'
  BY <1>1 DEF Inv, Connected, Marked, Rooted, Path
<1>7. Walking'
  <2>1. line'.mask = mask /\ line'.netid = netid /\ line'.cur_bit_pos = 0
    BY <1>1
  <2> QED BY <1>1, <1>3, <1>4, <2>1 DEF Walking
<1> QED BY <1>5, <1>6, <1>7 DEF Inv

LEMMA InvInit == Init => Inv
<1> SUFFICES ASSUME Init PROVE Inv
  OBVIOUS
<1>1. FreshNode \in Nodes /\ FreshNode.isprefix = FALSE
  BY DEF FreshNode, Nodes, Domains
<1>2. DOMAIN trie = {Head} /\ trie[Head] = FreshNode /\ DOMAIN networks = {}
  BY DEF Init
<1>3. TypeOK
  BY <1>1, <1>2, NoLineOK DEF Init, TypeOK
<1>4. Connected
  <2> SUFFICES ASSUME NEW ip \in Addresses, NEW n \in 1 .. MaxMask,
                      Path(ip, n) \in DOMAIN trie
               PROVE  FALSE
    BY DEF Connected
  <2> DEFINE zero == [i \in 0 .. Width - 1 |-> 0]
  <2>1. zero \in Addresses
    BY DEF Addresses, Bits
  <2>2. Path(ip, n) = Path(zero, 0)
    BY <1>2 DEF Head
  <2> HIDE DEF zero
  <2>3. n = 0
    BY <2>1, <2>2, PathPrefix
  <2> QED BY <2>3
<1> QED BY <1>1, <1>2, <1>3, <1>4 DEF Init, Inv, Marked, Rooted, Walking

LEMMA InvNext == Inv /\ [Next]_vars => Inv'
<1> SUFFICES ASSUME Inv, [Next]_vars PROVE Inv'
  OBVIOUS
<1>1. CASE ReadLine
  <2>1. status = "reading" /\ nlines' \in 0 .. MaxLines
    BY <1>1 DEF ReadLine, Inv, TypeOK
  <2>2. ASSUME NEW ip \in Addresses, NEW mask \in 1 .. MaxMask,
               NEW netid \in NetIds, NetworkLine(ip, mask, netid)
        PROVE  Inv'
    BY <2>1, <2>2, InvNetworkLine
  <2>3. CASE SkippedLine \/ BadLine
    BY <2>1, <2>3 DEF SkippedLine, BadLine, Inv, TypeOK, Connected, Marked, Rooted, Walking
  <2> QED BY <1>1, <2>2, <2>3 DEF ReadLine
<1>2. CASE EndOfFile
  BY <1>2 DEF EndOfFile, Inv, TypeOK, Connected, Marked, Rooted, Walking
<1>3. CASE pna_dtrie_deinit
  <2>1. DOMAIN trie' = {} /\ status' = "freed" /\ UNCHANGED <<line, nlines, networks>>
        /\ trie' = [q \in {} |-> FreshNode]
    BY <1>3 DEF pna_dtrie_deinit
  <2> QED BY <2>1 DEF Inv, TypeOK, Connected, Marked, Rooted, Walking
<1>4. CASE OutOfMemory
  BY <1>4, NoLineOK DEF OutOfMemory, Inv, TypeOK, Connected, Marked, Rooted, Walking
<1>5. CASE UNCHANGED vars
  BY <1>5 DEF vars, Inv, TypeOK, Connected, Marked, Rooted, Walking, Cur
<1> QED BY <1>1, <1>2, <1>3, <1>4, <1>5, InvDescend, InvMarkPrefix DEF Next

LEMMA InvAlways == Spec => []Inv
BY InvInit, InvNext, PTL DEF Spec

-----------------------------------------------------------------------------
(* Theorems.                                                               *)

\* The trie stays a trie: its nodes are paths that the networks file can
\* reach, each with a domain that fits an unsigned short.
THEOREM Typing == Spec => []TypeOK
<1>1. Inv => TypeOK
  BY DEF Inv
<1> QED BY <1>1, InvAlways, PTL

\* As long as there is a trie, the walk finds the longest match.
Matching ==
    status # "freed" => \A ip \in Addresses : pna_dtrie_lookup(ip) = LongestMatch(ip)

LEMMA InvMatching == Inv => Matching
<1> SUFFICES ASSUME Inv, status # "freed", NEW ip \in Addresses
             PROVE  pna_dtrie_lookup(ip) = LongestMatch(ip)
  BY DEF Matching
<1> DEFINE hits == {n \in Visited(ip) : trie[Path(ip, n)].isprefix}
           matches == {n \in 1 .. MaxMask : Path(ip, n) \in DOMAIN networks}
<1>1. DOMAIN networks \subseteq DOMAIN trie
  BY DEF Inv, Marked
<1>2. \A n \in matches : n \in Visited(ip)
  <2> SUFFICES ASSUME NEW n \in matches, NEW m \in 1 .. n
               PROVE  Path(ip, m) \in DOMAIN trie
    BY DEF Visited
  <2>1. Path(ip, n) \in DOMAIN trie
    BY <1>1
  <2>2. \A l \in 0 .. n - 1 : Path(ip, l) \in DOMAIN trie
    BY <2>1 DEF Inv, Connected
  <2> QED BY <2>1, <2>2
<1>3. \A n \in Visited(ip) : n \in 1 .. MaxMask /\ Path(ip, n) \in DOMAIN trie
  BY DEF Visited
<1>4. hits = matches
  BY <1>2, <1>3 DEF Inv, Marked
<1>5. \A n \in matches : trie[Path(ip, n)].domain_id = networks[Path(ip, n)]
  BY <1>1 DEF Inv, Marked
<1>6. CASE matches = {}
  BY <1>4, <1>6 DEF pna_dtrie_lookup, LongestMatch
<1>7. CASE matches # {}
  <2>1. Max(matches) \in matches
    <3>1. matches \in SUBSET (0 .. MaxMask)
      OBVIOUS
    <3> HIDE DEF matches
    <3> QED BY <1>7, <3>1, GreatestNat
  <2> QED BY <1>4, <1>5, <1>7, <2>1 DEF pna_dtrie_lookup, LongestMatch
<1> QED BY <1>6, <1>7

\* pna_dtrie_lookup is longest prefix match on the lines that were added,
\* for every address.
THEOREM LookupCorrect == Spec => []LookupIsLongestMatch
<1>1. Matching => LookupIsLongestMatch
  BY DEF Matching, LookupIsLongestMatch
<1> QED BY <1>1, InvMatching, InvAlways, PTL

\* Lines are added, and none is taken away.
LEMMA NetworksGrow ==
    ASSUME [Next]_vars
    PROVE  DOMAIN networks \subseteq DOMAIN networks'
<1>1. CASE ReadLine
  BY <1>1 DEF ReadLine, NetworkLine, SkippedLine, BadLine
<1>2. CASE MarkPrefix
  BY <1>2 DEF MarkPrefix
<1>3. CASE Descend \/ OutOfMemory \/ EndOfFile \/ pna_dtrie_deinit \/ UNCHANGED vars
  BY <1>3 DEF Descend, OutOfMemory, EndOfFile, pna_dtrie_deinit, vars
<1> QED BY <1>1, <1>2, <1>3 DEF Next

\* A line of the networks file changes the answers inside its own prefix only,
\* and only once it is marked: nodes that are added on the way there, or left
\* behind when memory runs out, change none.
THEOREM EffectLocal == Spec => LocalEffect
<1> DEFINE Changed(ip, n) == /\ Path(ip, n) \in DOMAIN networks'
                             /\ Path(ip, n) \notin DOMAIN networks \/
                                networks'[Path(ip, n)] # networks[Path(ip, n)]
           Local == status' # "freed" =>
                      \A ip \in Addresses :
                          pna_dtrie_lookup(ip) # pna_dtrie_lookup(ip)' =>
                              \E n \in 1 .. MaxMask : Changed(ip, n)
<1>1. Matching /\ Matching' /\ [Next]_vars => [Local]_vars
  <2> SUFFICES ASSUME Matching, Matching', [Next]_vars, status' # "freed",
                      NEW ip \in Addresses, \A n \in 1 .. MaxMask : ~Changed(ip, n)
               PROVE  pna_dtrie_lookup(ip) = pna_dtrie_lookup(ip)'
    OBVIOUS
  <2> DEFINE before == {n \in 1 .. MaxMask : Path(ip, n) \in DOMAIN networks}
             after == {n \in 1 .. MaxMask : Path(ip, n) \in DOMAIN networks'}
  <2>1. status # "freed"
    BY DEF Next, ReadLine, NetworkLine, SkippedLine, BadLine, Descend, OutOfMemory,
           MarkPrefix, EndOfFile, pna_dtrie_deinit, vars
  <2>2. /\ pna_dtrie_lookup(ip) = LongestMatch(ip)
        /\ pna_dtrie_lookup(ip)' = LongestMatch(ip)'
    BY <2>1 DEF Matching
  <2>3. before = after /\ \A n \in after : networks'[Path(ip, n)] = networks[Path(ip, n)]
    BY NetworksGrow
  <2>4. LongestMatch(ip) = IF before = {} THEN MAX_DOMAIN ELSE networks[Path(ip, Max(before))]
    BY DEF LongestMatch
  <2>5. LongestMatch(ip)' = IF after = {} THEN MAX_DOMAIN ELSE networks'[Path(ip, Max(after))]
    BY DEF LongestMatch, Path
  <2>6. after # {} => Max(after) \in after
    <3>1. after \in SUBSET (0 .. MaxMask)
      OBVIOUS
    <3> HIDE DEF after
    <3> QED BY <3>1, GreatestNat
  <2> HIDE DEF before, after
  <2> QED BY <2>2, <2>3, <2>4, <2>5, <2>6
<1> QED BY <1>1, InvMatching, InvAlways, PTL DEF Spec, LocalEffect
=============================================================================

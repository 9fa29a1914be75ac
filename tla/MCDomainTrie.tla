---------------------------- MODULE MCDomainTrie ----------------------------
(* DomainTrie on addresses of two bits.  The netids are a local domain, the *)
(* domain of remote networks, and one that an unsigned short cuts to 0.     *)
EXTENDS DomainTrie
=============================================================================

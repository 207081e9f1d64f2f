----------------------------- MODULE MCLruHeap -----------------------------
(***************************************************************************)
(* Four documents for a cache of three, so that a node is removed at each  *)
(* end of the list and in the middle and a put of a fourth key evicts, and *)
(* one address more of each kind than the cache can hold: one string for   *)
(* the caller's duplicate, one node for the choice malloc has.             *)
(***************************************************************************)
EXTENDS LruHeap, TLC

CONSTANTS n1, n2, n3, n4, p1, p2, p3, p4

DataDef == [str : Strings, val : Contents]
Addresses == Permutations(Nodes) \union Permutations(Strings)
=============================================================================

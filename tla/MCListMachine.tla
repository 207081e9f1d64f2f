---------------------------- MODULE MCListMachine ----------------------------
(***************************************************************************)
(* Lists of up to four nodes, so that insertions, removals and moves happen*)
(* at the head, at the tail and between two inner nodes, and an index      *)
(* beyond the size.                                                        *)
(***************************************************************************)
EXTENDS ListMachine, TLC

CONSTANTS n1, n2, n3, n4

IndicesDef == 0 .. 4
Addresses == Permutations(Nodes)
=============================================================================

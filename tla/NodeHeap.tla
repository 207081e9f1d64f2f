------------------------------ MODULE NodeHeap ------------------------------
(***************************************************************************)
(* The heap that the nodes of a linked list live in, and what it is to     *)
(* follow pointers in it. A list is a record with its head and tail, the   *)
(* pointers of its nodes by address, and their data; memory that is not    *)
(* allocated carries Garbage. An address means nothing else than which     *)
(* node it is, so every list has a heap of its own.                        *)
(***************************************************************************)
EXTENDS Integers, SequencesExt

CONSTANTS
  Nodes,     (* the addresses malloc may answer for a node                 *)
  Null,      (* the pointer NULL                                           *)
  Data,      (* what a node may carry                                      *)
  Garbage    (* what memory that is not allocated carries                  *)

ASSUME NullAssumption == Null \notin Nodes /\ Garbage \notin Data

(* There are finitely many addresses. *)
ASSUME NodesAssumption == IsFiniteSet(Nodes)

Pointer == Nodes \union {Null}

Allocated(l) == {n \in Nodes : l.data[n] # Garbage}

(* The nodes a walk along one kind of pointer visits, in order: steps[k][n]*)
(* are those that the first k steps from n visit. No walk is followed for  *)
(* longer than the heap goes.                                              *)
Walk(along, start) ==
  LET steps[k \in 0 .. Cardinality(Nodes)] ==
        [n \in Pointer |-> IF k = 0 \/ n = Null THEN << >>
                           ELSE <<n>> \o steps[k - 1][along[n]]]
  IN  steps[Cardinality(Nodes)][start]

(* The nodes a walk from the head meets. *)
Visited(l) == Walk(l.next, l.head)
=============================================================================

--------------------------- MODULE MCDuplicateIds ---------------------------
(***************************************************************************)
(* Three ids and arrays of up to six elements: with a search that misses,  *)
(* four are the fewest in which al_find_by answers the first of two equal  *)
(* ids. One document lies between the first two ids, the other one wraps.  *)
(***************************************************************************)
EXTENDS DuplicateIds

ServersDef == {1, 2, 3}
LabelHashDef == <<10, 20, 30>>
DocHashDef == [d \in Docs |-> IF d = "a" THEN 15 ELSE 35]
=============================================================================

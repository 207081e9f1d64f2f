---------------------------- MODULE MCDbTransfer ----------------------------
(***************************************************************************)
(* Two servers and two buckets. The documents share the second bucket: one *)
(* that moves is the first, the middle or the last of a chain, and two     *)
(* neighbours move in a row; the first bucket is empty. Nothing reads the  *)
(* size field of a map, which a modulus of 1 leaves out.                   *)
(***************************************************************************)
EXTENDS DbTransfer

CONSTANTS a, b, c, n1, n2, n3

Hashes == [k \in Keys |-> CASE k = a -> 1 [] k = b -> 3 [] k = c -> 5]
DataDef == [key : Keys, val : Vals]
=============================================================================

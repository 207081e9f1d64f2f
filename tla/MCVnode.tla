------------------------------ MODULE MCVnode ------------------------------
(***************************************************************************)
(* Values for the constants of VnodeBalancer. The labels of two or three   *)
(* servers alternate on the ring; without s2, two of s3 are neighbours:    *)
(*   s1/0 < s2/1 < s1/2 < s3/0 < s2/2 < s3/2 < s2/0 < s1/1 < s3/1          *)
(***************************************************************************)
EXTENDS VnodeInvariant

CONSTANTS s1, s2, s3, a, b, c, t

(* Even positions, in the order above. *)
Positions ==
  <<s1, 0>> :> 2 @@ <<s2, 1>> :> 4 @@ <<s1, 2>> :> 6 @@ <<s3, 0>> :> 8
    @@ <<s2, 2>> :> 10 @@ <<s3, 2>> :> 12 @@ <<s2, 0>> :> 14
    @@ <<s1, 1>> :> 16 @@ <<s3, 1>> :> 18
LabelHashDef == [x \in Labels |-> Positions[x]]

(* a is below every label, b lies between labels of s3 and s2, c is beyond *)
(* every label, and t has the hash of a label of s1.                       *)
Names == a :> 1 @@ b :> 9 @@ c :> 19 @@ t :> 6
DocHashDef == [d \in Docs |-> Names[d]]
=============================================================================

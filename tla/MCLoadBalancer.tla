--------------------------- MODULE MCLoadBalancer ---------------------------
(***************************************************************************)
(* Values for the constants of LoadBalancer: three servers at 2, 4 and 6   *)
(* on the ring and documents before, between, after and on them, so that   *)
(* every order of joins meets the wrap around the end of the array.        *)
(***************************************************************************)
EXTENDS LoadBalancerInvariant

CONSTANTS s1, s2, s3, a, b, c, t

Positions == s1 :> 2 @@ s2 :> 4 @@ s3 :> 6
LabelHashDef == [s \in Servers |-> Positions[s]]

(* a is below every server, b lies between s1 and s2, c is beyond s3, and  *)
(* t has the hash of s2.                                                   *)
Names == a :> 1 @@ b :> 3 @@ c :> 7 @@ t :> 4
DocHashDef == [d \in Docs |-> Names[d]]
=============================================================================

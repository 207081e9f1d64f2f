-------------------------------- MODULE Ring --------------------------------
(***************************************************************************)
(* What the servers array is to the load balancer: a set of labels, from   *)
(* which a label leaves by its id. LoadBalancer uses the ring in this form.*)
(***************************************************************************)
EXTENDS HashRing

CONSTANT Labels   \* the labels a server may have on the ring

VARIABLE ring

Init == ring = {}

Join(x) ==
  /\ x \in Labels \ ring
  /\ ring' = ring \union {x}

(* The label with the id leaves, or the last one when there is none. *)
Leave(id) ==
  \E x \in ring :
    /\ IF id \in ring THEN x = id ELSE IsLast(ring, x)
    /\ ring' = ring \ {x}

Next == \E x \in Labels : Join(x) \/ Leave(x)

Spec == Init /\ [][Next]_ring
=============================================================================

------------------------------ MODULE HashRing ------------------------------
(***************************************************************************)
(* The hash ring: which server of a set is responsible for a document, and *)
(* which documents change hands when a server joins. The program keeps its *)
(* servers in an array sorted by hash; here the ring is the set of labels  *)
(* in it, and a position in the array is the place of a label's hash.      *)
(***************************************************************************)
EXTENDS Naturals

CONSTANTS
  LabelHash,   (* hash_uint of every ring label                            *)
  DocHash      (* hash_string of every document name                       *)

(* al_get_ordered(servers, hash of d): the first server of the array whose *)
(* hash is not below the document's, and the first of all when none is.    *)
IsOwner(R, x, d) ==
  /\ x \in R
  /\ \/ /\ LabelHash[x] >= DocHash[d]
        /\ \A y \in R : LabelHash[y] >= DocHash[d]
                          => LabelHash[x] <= LabelHash[y]
     \/ \A y \in R : LabelHash[y] < DocHash[d] /\ LabelHash[x] <= LabelHash[y]

(* The element at index (i + 1) % size, where x is the one at i. *)
IsNext(R, x, y) ==
  /\ y \in R
  /\ \/ /\ LabelHash[x] < LabelHash[y]
        /\ \A z \in R : LabelHash[x] < LabelHash[z]
                          => LabelHash[y] <= LabelHash[z]
     \/ \A z \in R : LabelHash[z] <= LabelHash[x] /\ LabelHash[y] <= LabelHash[z]

(* The element at index size - 1. *)
IsLast(R, x) == x \in R /\ \A y \in R : LabelHash[y] <= LabelHash[x]

(* Variant of ShouldMove that forgets the documents below the first label. *)
ShouldMoveNoWrap(src, dest, d) ==
  \/ LabelHash[src] < DocHash[d] /\ DocHash[d] < LabelHash[dest]
  \/ LabelHash[src] < DocHash[d] /\ LabelHash[dest] < LabelHash[src]

(* should_move: whether document d leaves src when dest joins before it. *)
ShouldMove(src, dest, d) ==
  \/ LabelHash[src] < DocHash[d] /\ DocHash[d] < LabelHash[dest]
  \/ LabelHash[src] < DocHash[d] /\ LabelHash[dest] < LabelHash[src]
  \/ DocHash[d] < LabelHash[dest] /\ LabelHash[dest] <= LabelHash[src]

(* The document's hash is the hash of none of the labels in S. The program *)
(* routes a hash equal to a server's to that server (>= above), while      *)
(* should_move compares with < and leaves such a document behind.          *)
Untied(S, d) == \A x \in S : LabelHash[x] # DocHash[d]
=============================================================================

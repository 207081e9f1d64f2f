----------------------------- MODULE VnodeRing -----------------------------
(***************************************************************************)
(* The ring with virtual nodes: a server has three labels, its id plus 0,  *)
(* 100000 and 200000, and the choices that server.c makes among them when  *)
(* documents move. A label is the pair of its server and its number.       *)
(***************************************************************************)
EXTENDS HashRing

Replicas == 0 .. 2

(* A server * that is still NULL: no label. *)
Null == << >>

(* id % 100000 *)
ServerOf(x) == x[1]

LabelsOf(s) == {<<s, i>> : i \in Replicas}

(* A server answers for a document when one of its labels does. *)
Serves(R, s, d) == \E x \in R : ServerOf(x) = s /\ IsOwner(R, x, d)

(* al_get at the index al_find_by answers for label x: x itself, and the   *)
(* last element of the array when x is not there.                          *)
Found(R, x) == IF x \in R THEN x ELSE CHOOSE y \in R : IsLast(R, y)

(* Variant of Closer without the case in which best lies beyond the wrap. *)
CloserNoWrap(d, x, best) ==
  \/ DocHash[d] < LabelHash[x] /\ LabelHash[x] < LabelHash[best]
  \/ DocHash[d] < LabelHash[x] /\ LabelHash[best] < DocHash[d]

(* Label x comes before best, going up the ring from document d. pick_dest *)
(* has <= where pick_src has <, which is the same for labels with hashes   *)
(* of their own: taking best again changes nothing.                        *)
Closer(d, x, best) ==
  \/ DocHash[d] < LabelHash[x] /\ LabelHash[x] < LabelHash[best]
  \/ DocHash[d] < LabelHash[x] /\ LabelHash[best] < DocHash[d]
  \/ LabelHash[best] < DocHash[d] /\ LabelHash[x] < LabelHash[best]

(* One iteration of pick_src. *)
TakeSrc(d, best, x) == IF Closer(d, x, best) THEN x ELSE best

(* pick_src: of three labels, the one that has document d. *)
PickSrc(d, r) == TakeSrc(d, TakeSrc(d, r[0], r[1]), r[2])

(* Variant of TakeDest that forgets the best when it meets a label of src. *)
TakeDestForgetting(d, s, best, x) ==
  IF ServerOf(x) = s THEN Null
  ELSE IF best = Null THEN x
  ELSE TakeSrc(d, best, x)

(* One iteration of pick_dest, which passes over the labels of src itself. *)
TakeDest(d, s, best, x) ==
  IF ServerOf(x) = s THEN best
  ELSE IF best = Null THEN x
  ELSE TakeSrc(d, best, x)

(* pick_dest: of three labels, the one that gets document d of server s,   *)
(* or Null when all are labels of s.                                       *)
PickDest(d, s, r) ==
  TakeDest(d, s, TakeDest(d, s, TakeDest(d, s, Null, r[0]), r[1]), r[2])

(* Every server that has a label has its three. *)
Whole(R) == \A x \in R : LabelsOf(ServerOf(x)) \subseteq R
=============================================================================

---------------------------- MODULE ClusterProofs ----------------------------
(***************************************************************************)
(* What the proofs about both load balancers rest on, so that they need    *)
(* not look into it again: the geometry of the ring, the choices made      *)
(* among the three labels of a server, and what the operations on a cache  *)
(* and on a server preserve and change.                                    *)
(***************************************************************************)
EXTENDS Server, VnodeRing, SequenceTheorems, FiniteSetTheorems, TLAPS

-----------------------------------------------------------------------------
(* The ring: every document has one owner, and which label that is after   *)
(* another one leaves or joins, for rings of every size and all hashes.    *)

(* R is a set of labels with hashes of their own. *)
IsRing(R) ==
  /\ \A x \in R : LabelHash[x] \in Nat
  /\ \A x, y \in R : LabelHash[x] = LabelHash[y] => x = y

(* A set of natural numbers that is not empty has a least element. *)
LEMMA LeastElement ==
  ASSUME NEW T \in SUBSET Nat, T # {}
  PROVE  \E x \in T : \A y \in T : x <= y
<1> DEFINE R == OpToRel(<, Nat)
<1>1. IsWellFoundedOn(R, Nat)
  BY NatLessThanWellFounded
<1>2. PICK x \in T : \A y \in T : ~ (<<y, x>> \in R)
  <2> HIDE DEF R
  <2> QED BY <1>1, WFMin
<1>3. \A m, n \in Nat : <<m, n>> \in R <=> m < n
  BY DEF OpToRel
<1>4. \A y \in T : ~ (y < x)
  <2> HIDE DEF R
  <2> QED BY <1>2, <1>3
<1> HIDE DEF R
<1> QED BY <1>4

(* An array that is not empty has a first element. *)
LEMMA FirstExists ==
  ASSUME NEW R, IsRing(R), R # {}
  PROVE  \E x \in R : \A y \in R : LabelHash[x] <= LabelHash[y]
<1> DEFINE T == {LabelHash[y] : y \in R}
<1>1. T \in SUBSET Nat /\ T # {}
  BY DEF IsRing
<1>2. PICK n \in T : \A m \in T : n <= m
  BY <1>1, LeastElement
<1> QED BY <1>2

(* It has a last one too, because it is finite: or else take a smallest of *)
(* the sets of labels that have none, and one of its labels out of it.     *)
LEMMA LastExists ==
  ASSUME NEW R, IsRing(R), R # {}, IsFiniteSet(R)
  PROVE  \E x \in R : IsLast(R, x)
<1> DEFINE HasLast(S) == \E x \in S : IsLast(S, x)
           T == {Cardinality(S) : S \in {S \in SUBSET R : S # {} /\ ~HasLast(S)}}
<1>1. SUFFICES ASSUME ~HasLast(R)
               PROVE  FALSE
  OBVIOUS
<1>2. \A S \in SUBSET R : IsFiniteSet(S) /\ Cardinality(S) \in Nat
  BY FS_Subset, FS_CardinalityType
<1>3. T \in SUBSET Nat /\ T # {}
  BY <1>1, <1>2
<1>4. PICK n \in T : \A m \in T : n <= m
  <2> HIDE DEF T
  <2> QED BY <1>3, LeastElement
<1>5. PICK S \in SUBSET R : S # {} /\ ~HasLast(S) /\ Cardinality(S) = n
  BY <1>4
<1>6. PICK z \in S : TRUE
  BY <1>5
<1>7. Cardinality(S \ {z}) = Cardinality(S) - 1
  BY <1>2, <1>6, FS_RemoveElement
<1>8. CASE S \ {z} = {}
  <2>1. S = {z} /\ LabelHash[z] \in Nat
    BY <1>6, <1>8 DEF IsRing
  <2> QED BY <1>5, <2>1 DEF IsLast
<1>9. CASE HasLast(S \ {z})
  <2>1. PICK x \in S \ {z} : \A y \in S \ {z} : LabelHash[y] <= LabelHash[x]
    BY <1>9 DEF IsLast
  <2>2. \A y \in S : LabelHash[y] \in Nat
    BY DEF IsRing
  <2>3. IsLast(S, IF LabelHash[z] <= LabelHash[x] THEN x ELSE z)
    BY <1>6, <2>1, <2>2 DEF IsLast
  <2> QED BY <1>5, <1>6, <2>1, <2>3
<1>10. CASE S \ {z} # {} /\ ~HasLast(S \ {z})
  <2>1. Cardinality(S \ {z}) \in T
    BY <1>10
  <2>2. Cardinality(S \ {z}) \in Nat /\ n \in Nat
    BY <1>2, <1>5
  <2> HIDE DEF T
  <2> QED BY <1>4, <1>5, <1>7, <2>1, <2>2
<1> QED BY <1>8, <1>9, <1>10

(* Every document has an owner as soon as there is a label: a request is   *)
(* always forwarded.                                                       *)
LEMMA OwnerExists ==
  ASSUME NEW R, IsRing(R), R # {}, NEW d, DocHash[d] \in Nat
  PROVE  \E x \in R : IsOwner(R, x, d)
<1> DEFINE A == {y \in R : LabelHash[y] >= DocHash[d]}
<1>1. CASE A # {}
  <2>1. IsRing(A)
    BY DEF IsRing
  <2>2. PICK x \in A : \A y \in A : LabelHash[x] <= LabelHash[y]
    <3> HIDE DEF A
    <3> QED BY <1>1, <2>1, FirstExists
  <2> QED BY <2>2 DEF IsOwner
<1>2. CASE A = {}
  <2>1. PICK x \in R : \A y \in R : LabelHash[x] <= LabelHash[y]
    BY FirstExists
  <2> QED BY <1>2, <2>1 DEF IsOwner, IsRing
<1> QED BY <1>1, <1>2

(* Binary searches over one array agree: a document has one owner. *)
LEMMA OwnerUnique ==
  ASSUME NEW R, IsRing(R), NEW d, DocHash[d] \in Nat,
         NEW x, NEW y, IsOwner(R, x, d), IsOwner(R, y, d)
  PROVE  x = y
BY DEF IsRing, IsOwner

(* al_erase of a label takes no document away from another owner. *)
LEMMA OwnerStays ==
  ASSUME NEW R, NEW d, NEW x, NEW z, z # x, IsOwner(R, x, d)
  PROVE  IsOwner(R \ {z}, x, d)
BY DEF IsOwner

(* When a label leaves the ring, the label after it inherits its documents:*)
(* the destination internal_loader_remove_server picks is the right one.   *)
LEMMA NextInherits ==
  ASSUME NEW R, IsRing(R), NEW d, DocHash[d] \in Nat,
         NEW x, NEW y, x # y, IsOwner(R, x, d), IsNext(R, x, y)
  PROVE  IsOwner(R \ {x}, y, d)
BY DEF IsRing, IsOwner, IsNext

(* A label that joins before y takes documents from y only. *)
LEMMA JoinSparesOthers ==
  ASSUME NEW R, IsRing(R), NEW d, DocHash[d] \in Nat,
         NEW z \in R, NEW y, IsNext(R, z, y),
         NEW x, x # y, IsOwner(R \ {z}, x, d)
  PROVE  IsOwner(R, x, d)
BY DEF IsRing, IsOwner, IsNext

(* What y loses to a label that joins before it goes to that label.        *)
LEMMA JoinGivesToOne ==
  ASSUME NEW R, IsRing(R), NEW d, DocHash[d] \in Nat,
         NEW z \in R, NEW y, y # z, IsNext(R, z, y), IsOwner(R \ {z}, y, d)
  PROVE  IsOwner(R, z, d) \/ IsOwner(R, y, d)
BY DEF IsRing, IsOwner, IsNext

(* should_move picks exactly the documents that change owner when z joins  *)
(* before y, for every document that is not tied with z.                   *)
LEMMA ShouldMoveIsRight ==
  ASSUME NEW R, IsRing(R), NEW d, DocHash[d] \in Nat,
         NEW z \in R, NEW y, y # z, IsNext(R, z, y), IsOwner(R \ {z}, y, d),
         LabelHash[z] # DocHash[d]
  PROVE  IF ShouldMove(y, z, d) THEN IsOwner(R, z, d) ELSE IsOwner(R, y, d)
BY DEF IsRing, IsOwner, IsNext, ShouldMove

(* A label that is its own successor is alone: removing it moves nothing.  *)
LEMMA NextOfLone ==
  ASSUME NEW R, IsRing(R), NEW x \in R, IsNext(R, x, x)
  PROVE  R = {x}
BY DEF IsRing, IsNext

-----------------------------------------------------------------------------
(* Virtual nodes: pick_src and pick_dest fold over three labels in the     *)
(* order of their numbers, not of the ring, and still find the one that    *)
(* owns the document.                                                      *)

(* An owner stays one in every smaller ring that has it. *)
LEMMA OwnerRestricts ==
  ASSUME NEW R, NEW S, S \subseteq R, NEW d, NEW x \in S, IsOwner(R, x, d)
  PROVE  IsOwner(S, x, d)
BY DEF IsOwner

(* One iteration of pick_src: the best of the labels seen so far becomes   *)
(* the best of these and one more.                                         *)
LEMMA TakeSrcIsOwner ==
  ASSUME NEW R, NEW x, IsRing(R \union {x}), NEW d, DocHash[d] \in Nat,
         Untied(R \union {x}, d), NEW best, IsOwner(R, best, d)
  PROVE  IsOwner(R \union {x}, TakeSrc(d, best, x), d)
BY DEF IsRing, Untied, IsOwner, TakeSrc, Closer

(* A label alone owns everything. *)
LEMMA LoneOwner ==
  ASSUME NEW x, LabelHash[x] \in Nat, NEW d, DocHash[d] \in Nat
  PROVE  IsOwner({x}, x, d)
BY DEF IsOwner

(* pick_src answers the label that owns the document among the three.      *)
THEOREM PickSrcIsOwner ==
  ASSUME NEW r, IsRing({r[0], r[1], r[2]}), NEW d, DocHash[d] \in Nat,
         Untied({r[0], r[1], r[2]}, d)
  PROVE  IsOwner({r[0], r[1], r[2]}, PickSrc(d, r), d)
<1> DEFINE R1 == {r[0]}
           R2 == R1 \union {r[1]}
           R3 == R2 \union {r[2]}
           b2 == TakeSrc(d, r[0], r[1])
<1>1. R3 = {r[0], r[1], r[2]}
  OBVIOUS
<1>2. IsRing(R2) /\ IsRing(R3) /\ Untied(R2, d) /\ Untied(R3, d)
  BY DEF IsRing, Untied
<1>3. IsOwner(R1, r[0], d)
  BY LoneOwner DEF IsRing
<1>4. IsOwner(R2, b2, d)
  BY <1>2, <1>3, TakeSrcIsOwner
<1>5. IsOwner(R3, TakeSrc(d, b2, r[2]), d)
  <2> HIDE DEF R2, b2
  <2> QED BY <1>2, <1>4, TakeSrcIsOwner DEF R3
<1> QED BY <1>1, <1>5 DEF PickSrc

(* The destinations that pick_dest considers: those of other servers. *)
Others(s, R) == {x \in R : ServerOf(x) # s}

(* What pick_dest has found when it has seen the destinations in R. *)
Picked(d, s, R, best) ==
  IF Others(s, R) = {} THEN best = Null ELSE IsOwner(Others(s, R), best, d)

(* One iteration of pick_dest. *)
LEMMA TakeDestPicks ==
  ASSUME NEW R, Null \notin R, NEW x, IsRing(R \union {x}),
         NEW d, DocHash[d] \in Nat, Untied(R \union {x}, d),
         NEW s, NEW best, Picked(d, s, R, best)
  PROVE  Picked(d, s, R \union {x}, TakeDest(d, s, best, x))
<1>1. CASE ServerOf(x) = s
  <2>1. Others(s, R \union {x}) = Others(s, R)
    BY <1>1 DEF Others
  <2> QED BY <1>1, <2>1 DEF Picked, TakeDest
<1>2. CASE ServerOf(x) # s /\ Others(s, R) = {}
  <2>1. Others(s, R \union {x}) = {x}
    BY <1>2 DEF Others
  <2>2. TakeDest(d, s, best, x) = x
    BY <1>2 DEF Picked, TakeDest
  <2>3. IsOwner({x}, x, d)
    BY LoneOwner DEF IsRing
  <2> QED BY <2>1, <2>2, <2>3 DEF Picked
<1>3. CASE ServerOf(x) # s /\ Others(s, R) # {}
  <2>1. Others(s, R \union {x}) = Others(s, R) \union {x}
    BY <1>3 DEF Others
  <2>2. IsOwner(Others(s, R), best, d) /\ best \in R
    BY <1>3 DEF Picked, IsOwner, Others
  <2>3. TakeDest(d, s, best, x) = TakeSrc(d, best, x)
    BY <1>3, <2>2 DEF TakeDest
  <2>4. /\ IsRing(Others(s, R) \union {x})
        /\ Untied(Others(s, R) \union {x}, d)
    BY DEF IsRing, Untied, Others
  <2>5. IsOwner(Others(s, R) \union {x}, TakeSrc(d, best, x), d)
    BY <2>2, <2>4, TakeSrcIsOwner
  <2> QED BY <2>1, <2>3, <2>5 DEF Picked
<1> QED BY <1>1, <1>2, <1>3

(* pick_dest answers the label that owns the document among those of the   *)
(* three that are of other servers, and nothing when there are none.       *)
THEOREM PickDestIsOwner ==
  ASSUME NEW r, IsRing({r[0], r[1], r[2]}), Null \notin {r[0], r[1], r[2]},
         NEW d, DocHash[d] \in Nat, Untied({r[0], r[1], r[2]}, d), NEW s
  PROVE  Picked(d, s, {r[0], r[1], r[2]}, PickDest(d, s, r))
<1> DEFINE R1 == {} \union {r[0]}
           R2 == R1 \union {r[1]}
           R3 == R2 \union {r[2]}
           b1 == TakeDest(d, s, Null, r[0])
           b2 == TakeDest(d, s, b1, r[1])
<1>1. R3 = {r[0], r[1], r[2]}
  OBVIOUS
<1>2. /\ IsRing(R1) /\ IsRing(R2) /\ IsRing(R3)
      /\ Untied(R1, d) /\ Untied(R2, d) /\ Untied(R3, d)
      /\ Null \notin R1 /\ Null \notin R2
  BY DEF IsRing, Untied
<1>3. Picked(d, s, {}, Null)
  BY DEF Picked, Others
<1>4. Picked(d, s, R1, b1)
  BY <1>2, <1>3, TakeDestPicks
<1>5. Picked(d, s, R2, b2)
  <2> HIDE DEF R1, b1
  <2> QED BY <1>2, <1>4, TakeDestPicks DEF R2, b2
<1>6. Picked(d, s, R3, TakeDest(d, s, b2, r[2]))
  <2> HIDE DEF R2, b2
  <2> QED BY <1>2, <1>5, TakeDestPicks DEF R3
<1> QED BY <1>1, <1>6 DEF PickDest

-----------------------------------------------------------------------------
(* What three labels leave behind when they are removed at once.           *)

LEMMA ReplicasAre == Replicas = {0, 1, 2}
BY DEF Replicas

LEMMA ThreeLabels ==
  ASSUME NEW s
  PROVE  LabelsOf(s) = {<<s, 0>>, <<s, 1>>, <<s, 2>>}
BY ReplicasAre DEF LabelsOf

(* Going up the ring from hash h, label x comes before y. *)
Before(h, x, y) ==
  \/ h <= LabelHash[x] /\ LabelHash[x] < LabelHash[y]
  \/ h <= LabelHash[x] /\ LabelHash[y] < h
  \/ LabelHash[y] < h /\ LabelHash[x] < LabelHash[y]

(* The owner of a document is the first label going up from its hash. *)
LEMMA OwnerComesFirst ==
  ASSUME NEW R, IsRing(R), NEW d, DocHash[d] \in Nat,
         NEW x, IsOwner(R, x, d), NEW y \in R, y # x
  PROVE  Before(DocHash[d], x, y) /\ ~Before(DocHash[d], y, x)
BY DEF IsRing, IsOwner, Before

(* Of three labels of which some come before v, one comes last. *)
LEMMA LastBefore ==
  ASSUME NEW R, IsRing(R), NEW h \in Nat, NEW v \in R, NEW r,
         r[0] \in R, r[1] \in R, r[2] \in R,
         NEW k \in Replicas, Before(h, r[k], v)
  PROVE  \E i \in Replicas :
           /\ Before(h, r[i], v)
           /\ \A j \in Replicas :
                Before(h, r[j], v) => r[j] = r[i] \/ Before(h, r[j], r[i])
<1> DEFINE Late(i) == Before(h, r[i], v)
           Later(i, j) == Late(j) => r[j] = r[i] \/ Before(h, r[j], r[i])
<1>1. \A i, j \in {0, 1, 2} : Late(i) /\ ~Later(i, j) => Late(j) /\ Later(j, i)
  BY DEF IsRing, Before
<1>2. ASSUME NEW i \in {0, 1, 2}, NEW j \in {0, 1, 2}, NEW m \in {0, 1, 2},
             Late(m), Later(m, j), Later(j, i), Late(j)
      PROVE  Later(m, i)
  BY <1>2 DEF IsRing, Before
<1>3. k \in {0, 1, 2} /\ Late(k) /\ \A i \in {0, 1, 2} : Later(i, i)
  BY ReplicasAre
<1>4. \A i, j \in {0, 1, 2} : ~Late(j) => Later(i, j)
  OBVIOUS
<1> HIDE DEF Late, Later
<1>5. \E i \in {0, 1, 2} : Late(i) /\ Later(i, 0) /\ Later(i, 1) /\ Later(i, 2)
  BY <1>1, <1>2, <1>3, <1>4
<1> QED BY <1>5, ReplicasAre DEF Late, Later

(* The label after y is v, or comes between y and v. *)
LEMMA NextComesSoon ==
  ASSUME NEW R, IsRing(R), NEW h \in Nat, NEW y \in R, NEW v \in R,
         Before(h, y, v), NEW n, IsNext(R, y, n)
  PROVE  /\ n \in R /\ n # y
         /\ n = v \/ (Before(h, y, n) /\ Before(h, n, v))
BY DEF IsRing, IsNext, Before

(* The labels after three of a ring, and one that is not among the three:  *)
(* one of the labels after them is not either, and comes no later.         *)
LEMMA NextOutside ==
  ASSUME NEW R, IsRing(R), NEW h \in Nat, NEW r, NEW n,
         r[0] \in R, r[1] \in R, r[2] \in R,
         \A i \in Replicas : IsNext(R, r[i], n[i]),
         NEW v \in R \ {r[0], r[1], r[2]},
         NEW k \in Replicas, Before(h, r[k], v)
  PROVE  \E i \in Replicas : /\ n[i] \in R \ {r[0], r[1], r[2]}
                             /\ n[i] = v \/ Before(h, n[i], v)
<1>1. PICK i \in Replicas :
        /\ Before(h, r[i], v)
        /\ \A j \in Replicas :
             Before(h, r[j], v) => r[j] = r[i] \/ Before(h, r[j], r[i])
  BY LastBefore
<1>2. r[i] \in R
  BY ReplicasAre
<1>3. /\ n[i] \in R /\ n[i] # r[i]
      /\ n[i] = v \/ (Before(h, r[i], n[i]) /\ Before(h, n[i], v))
  BY <1>1, <1>2, NextComesSoon
<1>4. \A x, y \in R : ~(Before(h, x, y) /\ Before(h, y, x))
  BY DEF IsRing, Before
<1>5. \A j \in Replicas : n[i] # r[j]
  BY <1>1, <1>2, <1>3, <1>4, ReplicasAre
<1> QED BY <1>3, <1>5, ReplicasAre

(* pick_dest answers one of the labels it is given, of another server, and *)
(* nothing only when they are all of the same one.                         *)
LEMMA PickDestChooses ==
  ASSUME NEW r, Null \notin {r[0], r[1], r[2]}, NEW d, NEW s
  PROVE  IF PickDest(d, s, r) = Null
           THEN \A i \in Replicas : ServerOf(r[i]) = s
           ELSE /\ PickDest(d, s, r) \in {r[0], r[1], r[2]}
                /\ ServerOf(PickDest(d, s, r)) # s
<1> DEFINE b1 == TakeDest(d, s, Null, r[0])
           b2 == TakeDest(d, s, b1, r[1])
           b3 == TakeDest(d, s, b2, r[2])
           Chosen(b, R) == IF b = Null THEN \A x \in R : ServerOf(x) = s
                           ELSE b \in R /\ ServerOf(b) # s
<1>1. ASSUME NEW R, NEW b, NEW x, x # Null, Chosen(b, R)
      PROVE  Chosen(TakeDest(d, s, b, x), R \union {x})
  BY <1>1 DEF TakeDest, TakeSrc
<1>2. Chosen(Null, {})
  OBVIOUS
<1> HIDE DEF Chosen
<1>3. Chosen(b1, {} \union {r[0]})
  BY <1>1, <1>2
<1>4. Chosen(b2, {} \union {r[0]} \union {r[1]})
  <2> HIDE DEF b1
  <2> QED BY <1>1, <1>3
<1>5. Chosen(b3, {} \union {r[0]} \union {r[1]} \union {r[2]})
  <2> HIDE DEF b2
  <2> QED BY <1>1, <1>4
<1>6. {} \union {r[0]} \union {r[1]} \union {r[2]} = {r[0], r[1], r[2]}
  OBVIOUS
<1>7. Chosen(PickDest(d, s, r), {r[0], r[1], r[2]})
  BY <1>5, <1>6 DEF PickDest
<1> QED BY <1>7, ReplicasAre DEF Chosen

(* pick_dest is right: when the labels of s leave the ring together, each  *)
(* of their documents has the label that pick_dest answers as its owner.   *)
THEOREM DestinationInherits ==
  ASSUME NEW R, IsRing(R), Null \notin R, NEW s, NEW r, NEW n,
         {y \in R : ServerOf(y) = s} = {r[0], r[1], r[2]},
         \A i \in Replicas : IsNext(R, r[i], n[i]),
         NEW d, DocHash[d] \in Nat, Untied(R, d),
         NEW x, IsOwner(R, x, d), ServerOf(x) = s,
         PickDest(d, s, n) # Null
  PROVE  IsOwner(R \ {r[0], r[1], r[2]}, PickDest(d, s, n), d)
<1> DEFINE L == {r[0], r[1], r[2]}
           N == {n[0], n[1], n[2]}
           w == PickDest(d, s, n)
<1>1. L \subseteq R /\ N \subseteq R /\ x \in L
  BY ReplicasAre DEF IsNext, IsOwner
<1>2. IsRing(N) /\ IsRing(R \ L) /\ Untied(N, d) /\ Null \notin N
  BY <1>1 DEF IsRing, Untied
<1>3. Picked(d, s, N, w)
  BY <1>2, PickDestIsOwner
<1> HIDE DEF w
<1>4. Others(s, N) # {} /\ IsOwner(Others(s, N), w, d)
  BY <1>3 DEF Picked, w
<1>5. Others(s, N) \subseteq R \ L
  BY <1>1 DEF Others
<1>6. PICK v \in R \ L : IsOwner(R \ L, v, d)
  BY <1>2, <1>4, <1>5, OwnerExists
<1>7. Before(DocHash[d], x, v)
  BY <1>1, <1>6, OwnerComesFirst
<1>8. PICK i \in Replicas : n[i] \in R \ L /\ (n[i] = v \/ Before(DocHash[d], n[i], v))
  <2>1. PICK k \in Replicas : x = r[k]
    BY <1>1, ReplicasAre
  <2>2. r[0] \in R /\ r[1] \in R /\ r[2] \in R
    BY <1>1
  <2> QED BY <1>6, <1>7, <2>1, <2>2, NextOutside
<1>9. n[i] = v
  BY <1>2, <1>6, <1>8, OwnerComesFirst
<1>10. v \in Others(s, N)
  BY <1>6, <1>9, ReplicasAre DEF Others
<1>11. IsOwner(Others(s, N), v, d)
  BY <1>5, <1>6, <1>10, OwnerRestricts
<1>12. w = v
  <2>1. IsRing(Others(s, N))
    BY <1>2 DEF IsRing, Others
  <2> QED BY <1>4, <1>11, <2>1, OwnerUnique
<1> QED BY <1>6, <1>12 DEF w

(* The labels after those of s are not all of s, unless there are no other *)
(* labels at all.                                                          *)
LEMMA DestinationExists ==
  ASSUME NEW R, IsRing(R), NEW s, NEW r, NEW n,
         {y \in R : ServerOf(y) = s} = {r[0], r[1], r[2]},
         \A i \in Replicas : IsNext(R, r[i], n[i]),
         NEW v \in R, ServerOf(v) # s
  PROVE  \E i \in Replicas : ServerOf(n[i]) # s
<1> DEFINE h == LabelHash[v] + 1
<1>1. r[0] \in R /\ r[1] \in R /\ r[2] \in R /\ v \in R \ {r[0], r[1], r[2]}
  OBVIOUS
<1>2. h \in Nat /\ Before(h, r[0], v)
  BY <1>1 DEF IsRing, Before
<1>3. 0 \in Replicas
  BY ReplicasAre
<1> HIDE DEF h
<1>4. \E i \in Replicas : n[i] \in R \ {r[0], r[1], r[2]}
  BY <1>1, <1>2, <1>3, NextOutside
<1> QED BY <1>4

(* The labels at the end of the array leave: the first label inherits.     *)
LEMMA FirstInherits ==
  ASSUME NEW R, IsRing(R), NEW L, NEW d, DocHash[d] \in Nat,
         \A v \in R \ L, l \in L : LabelHash[v] < LabelHash[l],
         NEW l \in L, L \subseteq R, IsOwner(R, l, d),
         NEW n \in R \ L, \A v \in R : LabelHash[n] <= LabelHash[v]
  PROVE  IsOwner(R \ L, n, d)
BY DEF IsRing, IsOwner

-----------------------------------------------------------------------------
(* Caches: the list and the map keep the same keys, within the capacity,   *)
(* and a key's value changes only when it is put, removed or evicted.      *)

(* A cache as the program builds it. *)
CacheOK(c) == c \in CacheType /\ CacheShape(c)

(* What a list is to the map: its keys, without repetition. *)
Lists(o, keys) ==
  /\ o \in Seq(Docs)
  /\ \A i, j \in DOMAIN o : o[i] = o[j] => i = j
  /\ \A d \in Docs : d \in keys <=> \E i \in DOMAIN o : o[i] = d

Keys(c) == {d \in Docs : Cached(c, d)}

(* CacheOK, with the list and the map told apart. *)
LEMMA CacheParts ==
  ASSUME NEW c \in CacheType
  PROVE  CacheShape(c) <=> Lists(c.order, Keys(c)) /\ Len(c.order) <= c.cap
BY DEF CacheType, CacheShape, Lists, Keys

(* A list without its node at position p. *)
LEMMA RemoveAtLists ==
  ASSUME NEW o, NEW keys, Lists(o, keys), NEW p \in DOMAIN o
  PROVE  /\ Lists(RemoveAt(o, p), keys \ {o[p]})
         /\ Len(RemoveAt(o, p)) = Len(o) - 1
<1> DEFINE r == RemoveAt(o, p)
<1>1. /\ o \in Seq(Docs)
      /\ Len(o) \in Nat
      /\ DOMAIN o = 1 .. Len(o)
      /\ \A i \in 1 .. Len(o) : o[i] \in Docs
      /\ p \in 1 .. Len(o)
  BY LenProperties, ElementOfSeq DEF Lists
<1> DEFINE l == SubSeq(o, 1, p - 1)
           h == SubSeq(o, p + 1, Len(o))
<1>2. /\ r \in Seq(Docs)
      /\ Len(r) = Len(o) - 1
      /\ DOMAIN r = 1 .. Len(o) - 1
      /\ \A i \in 1 .. Len(o) - 1 : r[i] = IF i < p THEN o[i] ELSE o[i + 1]
  <2>1. /\ l \in Seq(Docs)
        /\ Len(l) = p - 1
        /\ \A i \in 1 .. p - 1 : l[i] = o[i]
    BY <1>1, SubSeqProperties
  <2>2. /\ h \in Seq(Docs)
        /\ Len(h) = Len(o) - p
        /\ \A i \in 1 .. Len(o) - p : h[i] = o[p + i]
    BY <1>1, SubSeqProperties
  <2>3. r = l \o h
    BY DEF RemoveAt
  <2> HIDE DEF l, h
  <2> HIDE DEF r
  <2>4. /\ r \in Seq(Docs)
        /\ Len(r) = Len(l) + Len(h)
        /\ \A i \in 1 .. Len(l) + Len(h) :
             r[i] = IF i <= Len(l) THEN l[i] ELSE h[i - Len(l)]
    <3>1. l \in Seq(Docs) /\ h \in Seq(Docs)
      BY <2>1, <2>2
    <3> QED BY <3>1, <2>3, ConcatProperties
  <2>5. DOMAIN r = 1 .. Len(o) - 1 /\ Len(r) = Len(o) - 1
    BY <1>1, <2>1, <2>2, <2>4, LenProperties
  <2>6. ASSUME NEW i \in 1 .. Len(o) - 1
        PROVE  r[i] = IF i < p THEN o[i] ELSE o[i + 1]
    <3>1. r[i] = IF i <= p - 1 THEN l[i] ELSE h[i - (p - 1)]
      BY <1>1, <2>1, <2>2, <2>4
    <3>2. CASE i < p
      BY <1>1, <2>1, <3>1, <3>2
    <3>3. CASE i >= p
      <4>1. i - (p - 1) \in 1 .. Len(o) - p
        BY <1>1, <3>3
      <4>2. h[i - (p - 1)] = o[p + (i - (p - 1))] /\ p + (i - (p - 1)) = i + 1
        BY <1>1, <2>2, <4>1
      <4> QED BY <1>1, <3>1, <3>3, <4>2
    <3> QED BY <1>1, <3>2, <3>3
  <2> QED BY <2>4, <2>5, <2>6
<1> HIDE DEF r
<1>3. ASSUME NEW i \in DOMAIN r, NEW j \in DOMAIN r, r[i] = r[j]
      PROVE  i = j
  <2>1. \A m, n \in 1 .. Len(o) : o[m] = o[n] => m = n
    BY <1>1 DEF Lists
  <2>2. i \in 1 .. Len(o) - 1 /\ j \in 1 .. Len(o) - 1
    BY <1>2
  <2>3. (IF i < p THEN o[i] ELSE o[i + 1]) = IF j < p THEN o[j] ELSE o[j + 1]
    BY <1>2, <1>3, <2>2
  <2> QED BY <1>1, <2>1, <2>2, <2>3
<1>4. ASSUME NEW d \in Docs
      PROVE  d \in keys \ {o[p]} <=> \E i \in DOMAIN r : r[i] = d
  <2>1. ASSUME d \in keys, d # o[p]
        PROVE  \E i \in DOMAIN r : r[i] = d
    <3>1. PICK k \in DOMAIN o : o[k] = d
      BY <2>1 DEF Lists
    <3>2. CASE k < p
      BY <1>1, <1>2, <3>1, <3>2
    <3>3. CASE k > p
      <4>1. k - 1 \in DOMAIN r /\ r[k - 1] = d
        BY <1>1, <1>2, <3>1, <3>3
      <4> QED BY <4>1
    <3> QED BY <1>1, <2>1, <3>1, <3>2, <3>3
  <2>2. ASSUME NEW i \in DOMAIN r, r[i] = d
        PROVE  d \in keys /\ d # o[p]
    <3>1. PICK k \in DOMAIN o : k # p /\ o[k] = d
      BY <1>1, <1>2, <2>2
    <3> QED BY <3>1 DEF Lists
  <2> QED BY <2>1, <2>2
<1>5. Lists(r, keys \ {o[p]})
  BY <1>2, <1>3, <1>4 DEF Lists
<1> QED BY <1>2, <1>5 DEF r

(* A list with a new node at its head. *)
LEMMA PushLists ==
  ASSUME NEW o, NEW keys, Lists(o, keys), NEW d \in Docs, d \notin keys
  PROVE  /\ Lists(<<d>> \o o, keys \union {d})
         /\ Len(<<d>> \o o) = Len(o) + 1
<1> DEFINE r == <<d>> \o o
<1>1. o \in Seq(Docs) /\ Len(o) \in Nat
  BY DEF Lists
<1>2. /\ r \in Seq(Docs)
      /\ Len(r) = Len(o) + 1
      /\ \A i \in 1 .. Len(o) + 1 : r[i] = IF i = 1 THEN d ELSE o[i - 1]
  BY <1>1
<1>3. \A i \in DOMAIN o : o[i] # d
  BY DEF Lists
<1>4. \A i, j \in DOMAIN r : r[i] = r[j] => i = j
  BY <1>1, <1>2, <1>3 DEF Lists
<1>5. ASSUME NEW e \in Docs
      PROVE  e \in keys \union {d} <=> \E i \in DOMAIN r : r[i] = e
  <2>1. CASE e = d
    <3>1. 1 \in DOMAIN r /\ r[1] = d
      BY <1>1, <1>2
    <3> QED BY <2>1, <3>1
  <2>2. CASE e # d
    <3>1. ASSUME NEW k \in DOMAIN o, o[k] = e
          PROVE  \E i \in DOMAIN r : r[i] = e
      <4>1. k + 1 \in DOMAIN r /\ r[k + 1] = e
        BY <1>1, <1>2, <3>1
      <4> QED BY <4>1
    <3>2. ASSUME NEW i \in DOMAIN r, r[i] = e
          PROVE  \E k \in DOMAIN o : o[k] = e
      <4>1. i - 1 \in DOMAIN o /\ o[i - 1] = e
        BY <1>1, <1>2, <2>2, <3>2
      <4> QED BY <4>1
    <3>3. e \in keys <=> \E k \in DOMAIN o : o[k] = e
      BY DEF Lists
    <3> QED BY <2>2, <3>1, <3>2, <3>3
  <2> QED BY <2>1, <2>2
<1> QED BY <1>2, <1>4, <1>5 DEF Lists

(* dll_remove_node takes exactly the node of d off the list. *)
LEMMA UnlinkLists ==
  ASSUME NEW c, CacheOK(c), NEW d \in Docs, Cached(c, d)
  PROVE  /\ Lists(Unlink(c, d), Keys(c) \ {d})
         /\ Len(Unlink(c, d)) = Len(c.order) - 1
<1> DEFINE p == CHOOSE i \in DOMAIN c.order : c.order[i] = d
<1>1. Lists(c.order, Keys(c)) /\ d \in Keys(c)
  BY CacheParts DEF CacheOK, Keys
<1>2. p \in DOMAIN c.order /\ c.order[p] = d
  BY <1>1 DEF Lists
<1>3. Unlink(c, d) = RemoveAt(c.order, p)
  BY DEF Unlink
<1> HIDE DEF p
<1>4. /\ Lists(RemoveAt(c.order, p), Keys(c) \ {c.order[p]})
      /\ Len(RemoveAt(c.order, p)) = Len(c.order) - 1
  BY <1>1, <1>2, RemoveAtLists
<1> QED BY <1>2, <1>3, <1>4

(* lru_cache_get changes the order of the keys and nothing else. *)
LEMMA GetKeeps ==
  ASSUME NEW c, CacheOK(c), NEW d \in Docs
  PROVE  CacheOK(CacheGet(c, d)) /\ CacheGet(c, d).val = c.val
<1>1. CASE ~Cached(c, d)
  BY <1>1 DEF CacheGet
<1>2. CASE Cached(c, d)
  <2> DEFINE o == <<d>> \o Unlink(c, d)
             g == [c EXCEPT !.order = o]
  <2>1. CacheGet(c, d) = g
    BY <1>2 DEF CacheGet, Promote
  <2>2. Lists(c.order, Keys(c)) /\ Len(c.order) <= c.cap /\ d \in Keys(c)
    BY <1>2, CacheParts DEF CacheOK, Keys
  <2>3. Lists(o, (Keys(c) \ {d}) \union {d}) /\ Len(o) = Len(Unlink(c, d)) + 1
    <3>1. Lists(Unlink(c, d), Keys(c) \ {d}) /\ d \notin Keys(c) \ {d}
      BY <1>2, UnlinkLists
    <3> QED BY <3>1, PushLists
  <2>4. Len(Unlink(c, d)) = Len(c.order) - 1
    BY <1>2, UnlinkLists
  <2>5. (Keys(c) \ {d}) \union {d} = Keys(c)
    BY <2>2
  <2>6. Len(c.order) \in Nat
    BY <2>2, LenProperties DEF Lists
  <2> HIDE DEF o
  <2>7. g \in CacheType /\ g.order = o /\ g.val = c.val /\ g.cap = c.cap
    BY <2>3 DEF CacheOK, CacheType, Lists
  <2>8. Keys(g) = Keys(c)
    BY <2>7 DEF Keys, Cached
  <2> HIDE DEF g
  <2>9. CacheShape(g)
    <3>1. Lists(g.order, Keys(g))
      BY <2>3, <2>5, <2>7, <2>8
    <3>2. Len(g.order) <= g.cap
      BY <2>2, <2>3, <2>4, <2>6, <2>7
    <3> QED BY <2>7, <3>1, <3>2, CacheParts
  <2> QED BY <2>1, <2>7, <2>9 DEF CacheOK
<1> QED BY <1>1, <1>2

(* lru_cache_remove takes d out of the list and of the map. *)
LEMMA RemoveKeeps ==
  ASSUME NEW c, CacheOK(c), NEW d \in Docs
  PROVE  /\ CacheOK(CacheRemove(c, d))
         /\ CacheRemove(c, d).val = [c.val EXCEPT ![d] = None]
         /\ CacheRemove(c, d).cap = c.cap
         /\ Cached(c, d) =>
              Len(CacheRemove(c, d).order) = Len(c.order) - 1
<1>1. CASE ~Cached(c, d)
  BY <1>1 DEF CacheRemove, CacheOK, CacheType, Cached
<1>2. CASE Cached(c, d)
  <2> DEFINE o == Unlink(c, d)
             r == [c EXCEPT !.order = o, !.val[d] = None]
  <2>1. CacheRemove(c, d) = r
    BY <1>2 DEF CacheRemove
  <2>2. Len(c.order) <= c.cap /\ Len(c.order) \in Nat /\ c.cap \in Nat
    BY LenProperties DEF CacheOK, CacheType, CacheShape
  <2>3. Lists(o, Keys(c) \ {d}) /\ Len(o) = Len(c.order) - 1
    BY <1>2, UnlinkLists
  <2> HIDE DEF o
  <2>4. /\ r \in CacheType
        /\ r.order = o
        /\ r.val = [c.val EXCEPT ![d] = None]
        /\ r.cap = c.cap
    BY <2>3 DEF CacheOK, CacheType, Lists, MaybeContent
  <2>5. Keys(r) = Keys(c) \ {d}
    BY <2>4 DEF Keys, Cached, CacheOK, CacheType
  <2> HIDE DEF r
  <2>6. CacheShape(r)
    <3>1. Lists(r.order, Keys(r))
      BY <2>3, <2>4, <2>5
    <3>2. Len(r.order) <= r.cap
      BY <2>2, <2>3, <2>4
    <3> QED BY <2>4, <3>1, <3>2, CacheParts
  <2> QED BY <2>1, <2>3, <2>4, <2>6 DEF CacheOK
<1> QED BY <1>1, <1>2

(* lru_cache_put leaves the new value at its key; any other key keeps its  *)
(* value, or loses it to the eviction.                                     *)
LEMMA PutKeeps ==
  ASSUME NEW c, CacheOK(c), NEW d \in Docs, NEW v \in Contents,
         ~PutCrashes(c, d)
  PROVE  /\ CacheOK(CachePut(c, d, v))
         /\ CachePut(c, d, v).val[d] = v
         /\ \A e \in Docs \ {d} : CachePut(c, d, v).val[e] \in {c.val[e], None}
<1>1. CASE Cached(c, d)
  <2> DEFINE g == CacheGet(c, d)
             r == [g EXCEPT !.val[d] = v]
  <2>1. CachePut(c, d, v) = r
    BY <1>1 DEF CachePut, CacheGet
  <2>2. CacheOK(g) /\ g.val = c.val
    BY GetKeeps
  <2> HIDE DEF g
  <2>3. /\ r \in CacheType
        /\ r.order = g.order
        /\ r.cap = g.cap
        /\ r.val = [g.val EXCEPT ![d] = v]
    BY <2>2 DEF CacheOK, CacheType, MaybeContent
  <2>4. g.val[d] # None /\ v # None
    BY <1>1, <2>2, NoneAssumption DEF Cached
  <2>5. Keys(r) = Keys(g)
    BY <2>2, <2>3, <2>4 DEF Keys, Cached, CacheOK, CacheType
  <2>6. CacheShape(r)
    BY <2>2, <2>3, <2>5, CacheParts DEF CacheOK
  <2> QED BY <2>1, <2>2, <2>3, <2>6 DEF CacheOK, CacheType
<1>2. CASE ~Cached(c, d)
  <2> DEFINE m == MakeRoom(c)
             r == [m EXCEPT !.order = <<d>> \o m.order, !.val[d] = v]
  <2>1. CachePut(c, d, v) = r
    BY <1>2 DEF CachePut
  <2>2. c.order \in Seq(Docs) /\ Len(c.order) \in Nat /\ c.cap \in Nat
    BY LenProperties DEF CacheOK, CacheType
  <2>3. /\ CacheOK(m)
        /\ m.cap = c.cap
        /\ Len(m.order) + 1 <= m.cap
        /\ ~Cached(m, d)
        /\ \A e \in Docs : m.val[e] \in {c.val[e], None}
    <3>1. CASE ~CacheFull(c)
      BY <1>2, <2>2, <3>1 DEF MakeRoom, CacheFull, CacheOK, CacheShape
    <3>2. CASE CacheFull(c)
      <4> DEFINE w == Last(c.order)
      <4>1. c.order # << >>
        BY <1>2, <3>2 DEF PutCrashes
      <4>2. Len(c.order) \in DOMAIN c.order
        BY <2>2, <4>1, LenProperties, EmptySeq
      <4>3. w \in Docs /\ Cached(c, w)
        BY <2>2, <4>2, ElementOfSeq, LenProperties
           DEF Last, CacheOK, CacheShape
      <4>4. m = CacheRemove(c, w)
        BY <3>2 DEF MakeRoom
      <4> HIDE DEF w, m
      <4>5. /\ CacheOK(m)
            /\ m.val = [c.val EXCEPT ![w] = None]
            /\ m.cap = c.cap
            /\ Len(m.order) = Len(c.order) - 1
        BY <4>3, <4>4, RemoveKeeps
      <4> QED BY <1>2, <2>2, <3>2, <4>3, <4>5
              DEF CacheFull, Cached, CacheOK, CacheType
    <3> QED BY <3>1, <3>2
  <2> HIDE DEF m
  <2>4. Lists(m.order, Keys(m)) /\ d \notin Keys(m) /\ Len(m.order) \in Nat
    BY <2>3, CacheParts, LenProperties DEF CacheOK, CacheType, Keys
  <2> DEFINE o == <<d>> \o m.order
  <2>5. Lists(o, Keys(m) \union {d}) /\ Len(o) = Len(m.order) + 1
    BY <2>4, PushLists
  <2> HIDE DEF o
  <2>6. /\ r \in CacheType
        /\ r.order = o
        /\ r.cap = m.cap
        /\ r.val = [m.val EXCEPT ![d] = v]
    BY <2>3, <2>5 DEF CacheOK, CacheType, Lists, MaybeContent, o
  <2>7. Keys(r) = Keys(m) \union {d}
    BY <2>3, <2>6, NoneAssumption DEF Keys, Cached, CacheOK, CacheType
  <2>8. CacheShape(r)
    BY <2>3, <2>5, <2>6, <2>7, CacheParts
  <2> QED BY <2>1, <2>3, <2>6, <2>8 DEF CacheOK, CacheType
<1> QED BY <1>1, <1>2

(* init_lru_cache *)
LEMMA EmptyCacheOK ==
  ASSUME NEW n \in Nat
  PROVE  CacheOK(EmptyCache(n)) /\ \A d \in Docs : ~Cached(EmptyCache(n), d)
BY EmptySeq DEF CacheOK, CacheType, CacheShape, EmptyCache, NoDocs, Cached,
                MaybeContent

-----------------------------------------------------------------------------
(* Servers.                                                                *)

(* The servers are well-typed and every cache is in shape. *)
ServersOK == ServerTypeOK /\ \A s \in Servers : CacheShape(cache[s])

LEMMA ServersOKCache ==
  ASSUME ServersOK, NEW s \in Servers
  PROVE  CacheOK(cache[s])
BY DEF ServersOK, ServerTypeOK, CacheOK

(* free_server and init_server leave a server with nothing. *)
LEMMA ResetKeeps ==
  ASSUME ServersOK, NEW s \in Servers, NEW n \in Nat, ResetServer(s, n)
  PROVE  /\ ServersOK'
         /\ db'[s] = NoDocs /\ queue'[s] = << >>
         /\ \A d \in Docs : ~Cached(cache'[s], d)
         /\ \A x \in Servers \ {s} : /\ db'[x] = db[x]
                                     /\ queue'[x] = queue[x]
                                     /\ cache'[x] = cache[x]
<1>1. /\ db' = [db EXCEPT ![s] = NoDocs]
      /\ cache' = [cache EXCEPT ![s] = EmptyCache(n)]
      /\ queue' = [queue EXCEPT ![s] = << >>]
  BY DEF ResetServer
<1>2. CacheOK(EmptyCache(n)) /\ \A d \in Docs : ~Cached(EmptyCache(n), d)
  BY EmptyCacheOK
<1>3. NoDocs \in [Docs -> MaybeContent]
  BY DEF NoDocs, MaybeContent
<1>4. << >> \in Seq(EditRequest) /\ Len(<< >>) <= TaskQueueSize
  BY EmptySeq, QueueAssumption
<1> HIDE DEF NoDocs
<1>5. /\ db \in [Servers -> [Docs -> MaybeContent]]
      /\ cache \in [Servers -> CacheType]
      /\ queue \in [Servers -> Seq(EditRequest)]
      /\ \A x \in Servers : Len(queue[x]) <= TaskQueueSize
      /\ \A x \in Servers : CacheShape(cache[x])
  BY DEF ServersOK, ServerTypeOK
<1>6. ServersOK'
  BY <1>1, <1>2, <1>3, <1>4, <1>5 DEF ServersOK, ServerTypeOK, CacheOK
<1> QED BY <1>1, <1>2, <1>5, <1>6

(* An EDIT waits at the end of the queue, which has room for it. *)
LEMMA EnqueueKeeps ==
  ASSUME ServersOK, NEW s \in Servers, NEW d \in Docs, NEW c \in Contents,
         Enqueue(s, d, c)
  PROVE  /\ ServersOK'
         /\ db' = db /\ cache' = cache
         /\ \A x \in Servers : \A i \in DOMAIN queue'[x] :
              \/ i \in DOMAIN queue[x] /\ queue'[x][i] = queue[x][i]
              \/ x = s /\ queue'[x][i].doc = d
         /\ \A x \in Servers \ {s} : queue'[x] = queue[x]
<1> DEFINE e == [doc |-> d, content |-> c]
<1>1. /\ Len(queue[s]) < TaskQueueSize
      /\ queue' = [queue EXCEPT ![s] = Append(queue[s], e)]
      /\ db' = db /\ cache' = cache
  BY DEF Enqueue
<1>2. e \in EditRequest /\ e.doc = d
  BY DEF EditRequest
<1> HIDE DEF e
<1>3. queue \in [Servers -> Seq(EditRequest)]
  BY DEF ServersOK, ServerTypeOK
<1>4. /\ queue[s] \in Seq(EditRequest)
      /\ Append(queue[s], e) \in Seq(EditRequest)
      /\ Len(Append(queue[s], e)) = Len(queue[s]) + 1
      /\ DOMAIN Append(queue[s], e) = 1 .. Len(queue[s]) + 1
      /\ \A i \in 1 .. Len(queue[s]) : Append(queue[s], e)[i] = queue[s][i]
      /\ Append(queue[s], e)[Len(queue[s]) + 1] = e
  BY <1>2, <1>3, AppendProperties, LenProperties
<1>5. Len(queue[s]) \in Nat /\ DOMAIN queue[s] = 1 .. Len(queue[s])
  BY <1>4, LenProperties
<1>6. ServersOK'
  BY <1>1, <1>3, <1>4, <1>5, QueueAssumption DEF ServersOK, ServerTypeOK
<1>7. ASSUME NEW x \in Servers, NEW i \in DOMAIN queue'[x]
      PROVE  \/ i \in DOMAIN queue[x] /\ queue'[x][i] = queue[x][i]
             \/ x = s /\ queue'[x][i].doc = d
  <2>1. CASE x # s
    BY <1>1, <1>3, <2>1
  <2>2. CASE x = s
    <3>1. queue'[x] = Append(queue[s], e)
      BY <1>1, <1>3, <2>2
    <3>2. i \in 1 .. Len(queue[s]) \/ i = Len(queue[s]) + 1
      BY <1>4, <1>5, <3>1
    <3> QED BY <1>2, <1>4, <1>5, <2>2, <3>1, <3>2
  <2> QED BY <2>1, <2>2
<1> QED BY <1>1, <1>3, <1>6, <1>7

(* One iteration of solve_queue applies the oldest edit to the database    *)
(* and to the cache, and takes it off the queue.                           *)
LEMMA SolveKeeps ==
  ASSUME ServersOK, NEW s \in Servers, SolveOne(s)
  PROVE  /\ ServersOK'
         /\ queue[s] # << >> /\ 1 \in DOMAIN queue[s]
         /\ queue[s][1] \in EditRequest
         /\ db' = [db EXCEPT ![s][queue[s][1].doc] = queue[s][1].content]
         /\ cache'[s].val[queue[s][1].doc] = queue[s][1].content
         /\ \A f \in Docs \ {queue[s][1].doc} :
              cache'[s].val[f] \in {cache[s].val[f], None}
         /\ \A x \in Servers \ {s} : /\ queue'[x] = queue[x]
                                     /\ cache'[x] = cache[x]
         /\ \A x \in Servers : \A i \in DOMAIN queue'[x] :
              \E j \in DOMAIN queue[x] : queue'[x][i] = queue[x][j]
<1> DEFINE q == queue[s]
           e == Head(q)
           g == CacheGet(cache[s], e.doc)
           r == CachePut(g, e.doc, e.content)
<1>1. /\ q # << >>
      /\ ~PutCrashes(cache[s], e.doc)
      /\ db' = [db EXCEPT ![s][e.doc] = e.content]
      /\ cache' = [cache EXCEPT ![s] = r]
      /\ queue' = [queue EXCEPT ![s] = Tail(q)]
  BY DEF SolveOne, EditDocument
<1>2. /\ db \in [Servers -> [Docs -> MaybeContent]]
      /\ cache \in [Servers -> CacheType]
      /\ queue \in [Servers -> Seq(EditRequest)]
      /\ \A x \in Servers : Len(queue[x]) <= TaskQueueSize
      /\ \A x \in Servers : CacheShape(cache[x])
  BY DEF ServersOK, ServerTypeOK
<1>3. /\ q \in Seq(EditRequest)
      /\ Len(q) \in Nat /\ Len(q) # 0
      /\ DOMAIN q = 1 .. Len(q)
      /\ e = q[1] /\ e \in EditRequest
      /\ Tail(q) \in Seq(EditRequest)
      /\ Len(Tail(q)) = Len(q) - 1
      /\ DOMAIN Tail(q) = 1 .. Len(q) - 1
      /\ \A i \in 1 .. Len(q) - 1 : Tail(q)[i] = q[i + 1]
  <2>1. q \in Seq(EditRequest)
    BY <1>2
  <2>2. Len(q) \in Nat /\ Len(q) # 0 /\ DOMAIN q = 1 .. Len(q)
    BY <1>1, <2>1, LenProperties, EmptySeq
  <2>3. /\ e \in EditRequest
        /\ Tail(q) \in Seq(EditRequest)
        /\ Len(Tail(q)) = Len(q) - 1
        /\ \A i \in 1 .. Len(Tail(q)) : Tail(q)[i] = q[i + 1]
    BY <1>1, <2>1, HeadTailProperties
  <2>4. DOMAIN Tail(q) = 1 .. Len(q) - 1
    BY <2>3, LenProperties
  <2>5. e = q[1]
    BY <2>1
  <2> QED BY <2>1, <2>2, <2>3, <2>4, <2>5
<1>4. e.doc \in Docs /\ e.content \in Contents
  BY <1>3 DEF EditRequest
<1>5. /\ CacheOK(r)
      /\ r.val[e.doc] = e.content
      /\ \A f \in Docs \ {e.doc} : r.val[f] \in {cache[s].val[f], None}
  <2>1. CacheOK(g) /\ g.val = cache[s].val
    BY <1>4, ServersOKCache, GetKeeps
  <2>2. ~PutCrashes(g, e.doc)
    BY <1>1, <2>1 DEF PutCrashes, CacheGet, Cached
  <2> HIDE DEF g
  <2> QED BY <1>4, <2>1, <2>2, PutKeeps
<1> HIDE DEF r
<1>6. ServersOK'
  <2>1. db' \in [Servers -> [Docs -> MaybeContent]]
    BY <1>1, <1>2, <1>4 DEF MaybeContent
  <2>2. /\ cache' \in [Servers -> CacheType]
        /\ \A x \in Servers : CacheShape(cache[x])'
    BY <1>1, <1>2, <1>5 DEF CacheOK
  <2>3. /\ queue' \in [Servers -> Seq(EditRequest)]
        /\ \A x \in Servers : Len(queue[x])' <= TaskQueueSize
    BY <1>1, <1>2, <1>3, QueueAssumption
  <2> QED BY <2>1, <2>2, <2>3 DEF ServersOK, ServerTypeOK
<1>7. ASSUME NEW x \in Servers, NEW i \in DOMAIN queue'[x]
      PROVE  \E j \in DOMAIN queue[x] : queue'[x][i] = queue[x][j]
  <2>1. CASE x # s
    BY <1>1, <1>2, <2>1
  <2>2. CASE x = s
    <3>1. queue'[x] = Tail(q)
      BY <1>1, <1>2, <2>2
    <3>2. i + 1 \in DOMAIN q /\ Tail(q)[i] = q[i + 1]
      BY <1>3, <3>1
    <3> QED BY <2>2, <3>1, <3>2
  <2> QED BY <2>1, <2>2
<1> QED BY <1>1, <1>2, <1>3, <1>5, <1>6, <1>7

(* Answering a GET caches what the database has, and changes no content of *)
(* any other cached document.                                              *)
LEMMA GetDocumentKeeps ==
  ASSUME ServersOK, NEW s \in Servers, NEW d \in Docs, GetDocument(s, d)
  PROVE  /\ ServersOK'
         /\ db' = db /\ queue' = queue
         /\ \A x \in Servers, f \in Docs :
              \/ cache'[x].val[f] \in {cache[x].val[f], None}
              \/ cache'[x].val[f] = db[x][f]
<1>1. /\ db \in [Servers -> [Docs -> MaybeContent]]
      /\ cache \in [Servers -> CacheType]
      /\ CacheOK(cache[s])
      /\ db' = db /\ queue' = queue
  BY ServersOKCache DEF ServersOK, ServerTypeOK, GetDocument
<1>2. SUFFICES ASSUME NEW r, CacheOK(r), cache' = [cache EXCEPT ![s] = r],
                      \A f \in Docs : \/ r.val[f] \in {cache[s].val[f], None}
                                      \/ r.val[f] = db[s][f]
               PROVE  /\ ServersOK'
                      /\ \A x \in Servers, f \in Docs :
                           \/ cache'[x].val[f] \in {cache[x].val[f], None}
                           \/ cache'[x].val[f] = db[x][f]
  <2>1. CASE Cached(cache[s], d) /\ cache' = [cache EXCEPT ![s] = CacheGet(cache[s], d)]
    <3>1. /\ CacheOK(CacheGet(cache[s], d))
          /\ CacheGet(cache[s], d).val = cache[s].val
      BY <1>1, GetKeeps
    <3> QED BY <1>1, <1>2, <2>1, <3>1
  <2>2. CASE /\ ~Cached(cache[s], d)
             /\ db[s][d] # None
             /\ ~PutCrashes(cache[s], d)
             /\ cache' = [cache EXCEPT ![s] = CachePut(cache[s], d, db[s][d])]
    <3> DEFINE r == CachePut(cache[s], d, db[s][d])
    <3>1. db[s][d] \in Contents
      BY <1>1, <2>2 DEF MaybeContent
    <3>2. /\ CacheOK(r)
          /\ r.val[d] = db[s][d]
          /\ \A e \in Docs \ {d} : r.val[e] \in {cache[s].val[e], None}
      BY <1>1, <2>2, <3>1, PutKeeps
    <3> HIDE DEF r
    <3> QED BY <1>1, <1>2, <2>2, <3>2 DEF r
  <2>3. CASE cache' = cache
    <3>1. cache' = [cache EXCEPT ![s] = cache[s]]
      BY <1>1, <2>3
    <3> QED BY <1>1, <1>2, <3>1
  <2> QED BY <2>1, <2>2, <2>3 DEF GetDocument
<1>3. ServersOK'
  BY <1>1, <1>2 DEF ServersOK, ServerTypeOK, CacheOK
<1> QED BY <1>1, <1>2, <1>3

(* A transfer takes the document out of the source's database and cache,   *)
(* and into the destination's database only.                               *)
LEMMA MoveKeeps ==
  ASSUME ServersOK, NEW src \in Servers, NEW dest \in Servers, src # dest,
         NEW d \in Docs, MoveDocument(src, dest, d)
  PROVE  /\ ServersOK'
         /\ queue' = queue
         /\ db'[dest][d] = db[src][d] /\ db'[src][d] = None
         /\ \A x \in Servers, f \in Docs :
              f # d \/ x \notin {src, dest} => db'[x][f] = db[x][f]
         /\ ~Cached(cache'[src], d)
         /\ \A x \in Servers, f \in Docs :
              f # d \/ x # src => cache'[x].val[f] = cache[x].val[f]
<1> DEFINE r == CacheRemove(cache[src], d)
<1>1. /\ db' = [db EXCEPT ![dest][d] = db[src][d], ![src][d] = None]
      /\ cache' = [cache EXCEPT ![src] = r]
      /\ queue' = queue
  BY DEF MoveDocument
<1>2. /\ db \in [Servers -> [Docs -> MaybeContent]]
      /\ cache \in [Servers -> CacheType]
      /\ CacheOK(cache[src])
  BY ServersOKCache DEF ServersOK, ServerTypeOK
<1>3. CacheOK(r) /\ r.val = [cache[src].val EXCEPT ![d] = None]
  BY <1>2, RemoveKeeps
<1> HIDE DEF r
<1>4. ServersOK'
  <2>1. db' \in [Servers -> [Docs -> MaybeContent]]
    <3> DEFINE m == [db EXCEPT ![dest][d] = db[src][d]]
    <3>1. None \in MaybeContent /\ db[src][d] \in MaybeContent
      BY <1>2 DEF MaybeContent
    <3>2. m \in [Servers -> [Docs -> MaybeContent]]
      BY <1>2, <3>1
    <3>3. db' = [m EXCEPT ![src][d] = None]
      BY <1>1
    <3> HIDE DEF m
    <3> QED BY <3>1, <3>2, <3>3
  <2>2. /\ cache' \in [Servers -> CacheType]
        /\ \A x \in Servers : CacheShape(cache[x])'
    BY <1>1, <1>3 DEF CacheOK, ServersOK, ServerTypeOK
  <2> QED BY <1>1, <2>1, <2>2 DEF ServersOK, ServerTypeOK
<1> QED BY <1>1, <1>2, <1>3, <1>4 DEF CacheOK, CacheType, Cached

-----------------------------------------------------------------------------
(* What the clients see: which server holds a document, and what it would  *)
(* answer.                                                                 *)

Answers(s, d) == IF Waiting(s, d) # {} THEN Newest(s, d) ELSE db[s][d]

(* A bounded set of positions that is not empty has a largest one. *)
LEMMA LargestPosition ==
  ASSUME NEW n \in Nat, NEW S \in SUBSET (1 .. n), S # {}
  PROVE  Max(S) \in S /\ \A i \in S : i <= Max(S)
<1> DEFINE T == {n - i : i \in S}
           R == OpToRel(<, Nat)
<1>1. T \in SUBSET Nat /\ T # {}
  <2>1. \A i \in S : n - i \in Nat
    OBVIOUS
  <2> QED BY <2>1
<1>2. PICK k \in T : \A j \in T : ~ (<<j, k>> \in R)
  <2>1. IsWellFoundedOn(R, Nat)
    BY NatLessThanWellFounded
  <2> HIDE DEF R, T
  <2> QED BY <1>1, <2>1, WFMin
<1>3. \A i, j \in Nat : <<i, j>> \in R <=> i < j
  BY DEF OpToRel
<1> HIDE DEF R
<1>4. PICK m \in S : k = n - m
  BY <1>2
<1>5. \A i \in S : n - i \in T /\ n - i \in Nat /\ k \in Nat
  BY <1>1, <1>4
<1>6. \A i \in S : ~ (n - i < k)
  BY <1>2, <1>3, <1>5
<1>7. \A i \in S : m >= i
  BY <1>4, <1>6
<1>8. Max(S) \in S /\ \A i \in S : Max(S) >= i
  BY <1>7 DEF Max
<1> QED BY <1>8

LEMMA LargestIs ==
  ASSUME NEW n \in Nat, NEW S \in SUBSET (1 .. n),
         NEW m \in S, \A i \in S : i <= m
  PROVE  Max(S) = m
<1>1. Max(S) \in S /\ m <= Max(S)
  BY LargestPosition
<1> DEFINE k == Max(S)
<1>2. k \in S /\ m <= k
  BY <1>1
<1> HIDE DEF k
<1>3. k \in Nat /\ m \in Nat /\ k <= m
  BY <1>2
<1>4. k = m
  BY <1>2, <1>3
<1> QED BY <1>4 DEF k

(* The edits that wait are those in the queue, and the newest one is there.*)
LEMMA WaitingIs ==
  ASSUME ServersOK, NEW s \in Servers, NEW d \in Docs
  PROVE  /\ queue[s] \in Seq(EditRequest)
         /\ Len(queue[s]) \in Nat
         /\ DOMAIN queue[s] = 1 .. Len(queue[s])
         /\ Waiting(s, d) \in SUBSET (1 .. Len(queue[s]))
         /\ Waiting(s, d) # {} =>
              /\ Max(Waiting(s, d)) \in Waiting(s, d)
              /\ \A i \in Waiting(s, d) : i <= Max(Waiting(s, d))
<1>1. queue[s] \in Seq(EditRequest)
  BY DEF ServersOK, ServerTypeOK
<1>2. Len(queue[s]) \in Nat /\ DOMAIN queue[s] = 1 .. Len(queue[s])
  BY <1>1, LenProperties
<1>3. Waiting(s, d) \in SUBSET (1 .. Len(queue[s]))
  BY <1>2 DEF Waiting
<1> QED BY <1>1, <1>2, <1>3, LargestPosition

(* A document that one server holds reads as that server has it. *)
LEMMA LatestIs ==
  ASSUME NEW d \in Docs, NEW s \in Servers,
         \A t \in Servers : Holds(t, d) => t = s
  PROVE  Latest(d) = Answers(s, d)
BY DEF Latest, Answers, Holds

LEMMA LatestIsNext ==
  ASSUME NEW d \in Docs, NEW s \in Servers,
         \A t \in Servers : Holds(t, d)' => t = s
  PROVE  Latest(d)' = Answers(s, d)'
BY DEF Latest, Answers, Holds

(* A document that no server holds is unknown. *)
LEMMA LatestIsNone ==
  ASSUME NEW d \in Docs, \A t \in Servers : ~Holds(t, d)
  PROVE  Latest(d) = None
BY DEF Latest, Holds

LEMMA LatestIsNoneNext ==
  ASSUME NEW d \in Docs, \A t \in Servers : ~Holds(t, d)'
  PROVE  Latest(d)' = None
BY DEF Latest, Holds

(* A document whose holder and answer stay reads the same. *)
LEMMA LatestStays ==
  ASSUME NEW d \in Docs,
         \A s, t \in Servers : Holds(s, d) /\ Holds(t, d) => s = t,
         \A s \in Servers : Holds(s, d)' <=> Holds(s, d),
         \A s \in Servers : Holds(s, d) => Answers(s, d)' = Answers(s, d)
  PROVE  Latest(d)' = Latest(d)
<1>1. CASE \A s \in Servers : ~Holds(s, d)
  BY <1>1, LatestIsNone, LatestIsNoneNext
<1>2. CASE \E s \in Servers : Holds(s, d)
  BY <1>2, LatestIs, LatestIsNext
<1> QED BY <1>1, <1>2

(* q_push: the document now reads as the edit says, the others as before. *)
LEMMA EnqueueShows ==
  ASSUME ServersOK, NEW s \in Servers, NEW d \in Docs, NEW c \in Contents,
         Enqueue(s, d, c)
  PROVE  /\ Answers(s, d)' = c
         /\ \A x \in Servers, f \in Docs :
              Holds(x, f)' <=> Holds(x, f) \/ (x = s /\ f = d)
         /\ \A x \in Servers, f \in Docs :
              f # d => Answers(x, f)' = Answers(x, f)
<1> DEFINE e == [doc |-> d, content |-> c]
           q == queue[s]
           n == Len(q) + 1
<1>1. /\ queue' = [queue EXCEPT ![s] = Append(q, e)]
      /\ db' = db
      /\ queue \in [Servers -> Seq(EditRequest)]
  BY DEF Enqueue, ServersOK, ServerTypeOK
<1>2. e \in EditRequest /\ e.doc = d /\ e.content = c
  BY DEF EditRequest
<1>3. q \in Seq(EditRequest) /\ Len(q) \in Nat /\ DOMAIN q = 1 .. Len(q)
  BY WaitingIs
<1> HIDE DEF e, q
<1>4. /\ DOMAIN Append(q, e) = 1 .. n
      /\ \A i \in 1 .. Len(q) : Append(q, e)[i] = q[i]
      /\ Append(q, e)[n] = e
  BY <1>2, <1>3, AppendProperties, LenProperties
<1>5. queue'[s] = Append(q, e) /\ \A x \in Servers \ {s} : queue'[x] = queue[x]
  BY <1>1
<1>6. /\ Waiting(s, d)' = Waiting(s, d) \union {n}
      /\ \A f \in Docs \ {d} : Waiting(s, f)' = Waiting(s, f)
  <2>1. 1 .. n = (1 .. Len(q)) \union {n} /\ n \notin 1 .. Len(q)
    BY <1>3
  <2> HIDE DEF n
  <2> QED BY <1>2, <1>3, <1>4, <1>5, <2>1 DEF Waiting, q
<1>7. \A x \in Servers, f \in Docs :
        x # s => Waiting(x, f)' = Waiting(x, f)
  BY <1>5 DEF Waiting
<1>8. Answers(s, d)' = c
  <2>1. /\ Waiting(s, d) \in SUBSET (1 .. Len(q))
        /\ Waiting(s, d)' \in SUBSET (1 .. n)
    BY <1>3, <1>6, WaitingIs DEF q
  <2>2. n \in Waiting(s, d)' /\ \A i \in Waiting(s, d)' : i <= n
    BY <1>6, <2>1
  <2>3. Max(Waiting(s, d)') = n
    <3>1. n \in Nat
      BY <1>3
    <3> HIDE DEF n
    <3> QED BY <2>1, <2>2, <3>1, LargestIs
  <2>4. queue'[s][n] = e
    BY <1>4, <1>5
  <2> HIDE DEF n
  <2> QED BY <1>2, <2>2, <2>3, <2>4 DEF Answers, Newest
<1>9. ASSUME NEW x \in Servers, NEW f \in Docs, f # d
      PROVE  Answers(x, f)' = Answers(x, f)
  <2>1. Waiting(x, f)' = Waiting(x, f)
    BY <1>6, <1>7, <1>9
  <2>2. CASE Waiting(x, f) # {}
    <3>1. Max(Waiting(x, f)) \in DOMAIN queue[x]
      BY <2>2, WaitingIs
    <3>2. queue'[x][Max(Waiting(x, f))] = queue[x][Max(Waiting(x, f))]
      BY <1>3, <1>4, <1>5, <3>1 DEF q
    <3> QED BY <2>1, <2>2, <3>2 DEF Answers, Newest
  <2>3. CASE Waiting(x, f) = {}
    BY <1>1, <2>1, <2>3 DEF Answers
  <2> QED BY <2>2, <2>3
<1>10. \A x \in Servers, f \in Docs :
         Holds(x, f)' <=> Holds(x, f) \/ (x = s /\ f = d)
  <2> HIDE DEF n
  <2> QED BY <1>1, <1>6, <1>7 DEF Holds
<1> QED BY <1>8, <1>9, <1>10

(* solve_queue: no client sees that an edit was applied. *)
LEMMA SolveShows ==
  ASSUME ServersOK, NEW s \in Servers, SolveOne(s)
  PROVE  /\ \A x \in Servers, f \in Docs : Holds(x, f)' <=> Holds(x, f)
         /\ \A x \in Servers, f \in Docs : Answers(x, f)' = Answers(x, f)
<1> DEFINE q == queue[s]
           e == q[1]
           n == Len(q)
<1>1. /\ q \in Seq(EditRequest) /\ n \in Nat /\ DOMAIN q = 1 .. n
      /\ q # << >> /\ 1 \in 1 .. n
      /\ e \in EditRequest
      /\ db' = [db EXCEPT ![s][e.doc] = e.content]
      /\ \A x \in Servers \ {s} : queue'[x] = queue[x]
  <2>1. /\ queue[s] \in Seq(EditRequest)
        /\ Len(queue[s]) \in Nat /\ DOMAIN queue[s] = 1 .. Len(queue[s])
    <3>1. queue[s] \in Seq(EditRequest)
      BY DEF ServersOK, ServerTypeOK
    <3> QED BY <3>1, LenProperties
  <2> QED BY <2>1, SolveKeeps
<1>2. queue'[s] = Tail(q)
  BY DEF SolveOne, ServersOK, ServerTypeOK
<1> HIDE DEF q
<1>3. DOMAIN Tail(q) = 1 .. n - 1 /\ \A i \in 1 .. n - 1 : Tail(q)[i] = q[i + 1]
  BY <1>1, HeadTailProperties, LenProperties
<1>4. e.doc \in Docs /\ e.content \in Contents
  BY <1>1 DEF EditRequest
<1>5. db \in [Servers -> [Docs -> MaybeContent]]
  BY DEF ServersOK, ServerTypeOK
<1>6. \A x \in Servers, f \in Docs :
        db'[x][f] = IF x = s /\ f = e.doc THEN e.content ELSE db[x][f]
  BY <1>1, <1>4, <1>5
<1>7. \A x \in Servers, f \in Docs :
        x # s => /\ Waiting(x, f)' = Waiting(x, f)
                 /\ Answers(x, f)' = Answers(x, f)
                 /\ Holds(x, f)' <=> Holds(x, f)
  <2>1. \A x \in Servers, f \in Docs : x # s => Waiting(x, f)' = Waiting(x, f)
    BY <1>1 DEF Waiting
  <2> HIDE DEF e
  <2> QED BY <1>1, <1>6, <2>1 DEF Answers, Newest, Holds
<1>8. ASSUME NEW f \in Docs
      PROVE  /\ \A i \in 1 .. n - 1 : i \in Waiting(s, f)' <=> i + 1 \in Waiting(s, f)
             /\ Waiting(s, f)' \in SUBSET (1 .. n - 1)
             /\ 1 \in Waiting(s, f) <=> f = e.doc
  BY <1>1, <1>2, <1>3 DEF Waiting, q
<1>9. ASSUME NEW f \in Docs
      PROVE  Answers(s, f)' = Answers(s, f) /\ (Holds(s, f)' <=> Holds(s, f))
  <2> DEFINE W == Waiting(s, f)
             V == Waiting(s, f)'
  <2>1. /\ \A i \in 1 .. n - 1 : i \in V <=> i + 1 \in W
        /\ V \in SUBSET (1 .. n - 1)
        /\ W \in SUBSET (1 .. n)
        /\ 1 \in W <=> f = e.doc
    BY <1>8, WaitingIs DEF q
  <2> HIDE DEF W, V, n
  <2>2. CASE V # {}
    <3>1. Max(V) \in V /\ \A i \in V : i <= Max(V)
      BY <1>1, <2>1, <2>2, LargestPosition
    <3>2. /\ Max(V) \in 1 .. n - 1
          /\ Max(V) + 1 \in W
          /\ \A i \in W : i <= Max(V) + 1
      <4>1. Max(V) \in 1 .. n - 1 /\ Max(V) + 1 \in W
        BY <2>1, <3>1
      <4>2. ASSUME NEW i \in W, i # 1
            PROVE  i <= Max(V) + 1
        <5>1. i - 1 \in 1 .. n - 1 /\ i = (i - 1) + 1
          BY <1>1, <2>1, <4>2
        <5>2. i - 1 \in V
          BY <2>1, <5>1
        <5>3. i - 1 <= Max(V)
          BY <3>1, <5>2
        <5> QED BY <4>1, <5>1, <5>3
      <4> QED BY <1>1, <4>1, <4>2
    <3>3. Max(W) = Max(V) + 1
      BY <1>1, <2>1, <3>2, LargestIs
    <3>4. queue'[s][Max(V)] = q[Max(W)]
      BY <1>2, <1>3, <3>2, <3>3
    <3> QED BY <2>2, <3>2, <3>4 DEF Answers, Newest, Holds, V, W, q
  <2>3. CASE V = {} /\ f = e.doc
    <3>1. \A i \in W : i = 1
      <4>1. SUFFICES ASSUME NEW i \in W, i # 1
                     PROVE  FALSE
        OBVIOUS
      <4>2. i - 1 \in 1 .. n - 1 /\ i = (i - 1) + 1
        BY <1>1, <2>1, <4>1
      <4> QED BY <2>1, <2>3, <4>2
    <3>2. 1 \in W /\ \A i \in W : i <= 1
      BY <2>1, <2>3, <3>1
    <3>3. Max(W) = 1
      BY <1>1, <2>1, <3>2, LargestIs
    <3>4. Answers(s, f)' = e.content /\ Holds(s, f)'
      BY <1>4, <1>6, <2>3, NoneAssumption DEF Answers, Holds, V
    <3>5. Answers(s, f) = e.content /\ Holds(s, f)
      BY <3>2, <3>3 DEF Answers, Newest, Holds, W, q
    <3> QED BY <3>4, <3>5
  <2>4. CASE V = {} /\ f # e.doc
    <3>1. W = {}
      <4>1. SUFFICES ASSUME NEW i \in W
                     PROVE  FALSE
        OBVIOUS
      <4>2. i # 1
        BY <2>1, <2>4
      <4>3. i - 1 \in 1 .. n - 1 /\ i = (i - 1) + 1
        BY <1>1, <2>1, <4>2
      <4> QED BY <2>1, <2>4, <4>3
    <3> QED BY <1>6, <2>4, <3>1 DEF Answers, Holds, V, W
  <2> QED BY <2>2, <2>3, <2>4
<1> QED BY <1>7, <1>9

(* A transfer from a server whose queue is empty hands the document over,  *)
(* and with it the answer, when no edit waits at the destination.          *)
LEMMA MoveShows ==
  ASSUME ServersOK, NEW src \in Servers, NEW dest \in Servers, src # dest,
         NEW d \in Docs, MoveDocument(src, dest, d),
         queue[src] = << >>, db[src][d] # None
  PROVE  /\ ~Holds(src, d)' /\ Holds(dest, d)'
         /\ Waiting(dest, d) = {} => Answers(dest, d)' = Answers(src, d)
         /\ \A x \in Servers, f \in Docs :
              f # d \/ x \notin {src, dest} =>
                (Holds(x, f)' <=> Holds(x, f)) /\ Answers(x, f)' = Answers(x, f)
<1>1. /\ queue' = queue
      /\ db'[dest][d] = db[src][d] /\ db'[src][d] = None
      /\ \A x \in Servers, f \in Docs :
           f # d \/ x \notin {src, dest} => db'[x][f] = db[x][f]
  BY MoveKeeps
<1>2. \A x \in Servers, f \in Docs : Waiting(x, f)' = Waiting(x, f)
  BY <1>1 DEF Waiting
<1>3. Waiting(src, d) = {}
  BY DEF Waiting
<1> QED BY <1>1, <1>2, <1>3 DEF Holds, Answers, Newest

(* A server that starts or is freed holds nothing. *)
LEMMA ResetShows ==
  ASSUME ServersOK, NEW s \in Servers, NEW n \in Nat, ResetServer(s, n)
  PROVE  /\ \A f \in Docs : ~Holds(s, f)'
         /\ \A x \in Servers \ {s}, f \in Docs :
              (Holds(x, f)' <=> Holds(x, f)) /\ Answers(x, f)' = Answers(x, f)
<1>1. /\ db'[s] = NoDocs /\ queue'[s] = << >>
      /\ \A x \in Servers \ {s} : db'[x] = db[x] /\ queue'[x] = queue[x]
  BY ResetKeeps
<1>2. \A f \in Docs : db'[s][f] = None /\ Waiting(s, f)' = {}
  BY <1>1 DEF Waiting, NoDocs
<1>3. \A x \in Servers \ {s}, f \in Docs : Waiting(x, f)' = Waiting(x, f)
  BY <1>1 DEF Waiting
<1> QED BY <1>1, <1>2, <1>3 DEF Holds, Answers, Newest

(* What the caches have cannot be seen. *)
LEMMA CachesDoNotShow ==
  ASSUME db' = db, queue' = queue
  PROVE  /\ \A x \in Servers, f \in Docs :
              (Holds(x, f)' <=> Holds(x, f)) /\ Answers(x, f)' = Answers(x, f)
         /\ \A f \in Docs : Latest(f)' = Latest(f)
BY DEF Holds, Answers, Newest, Waiting, Latest
=============================================================================

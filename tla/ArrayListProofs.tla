--------------------------- MODULE ArrayListProofs ---------------------------
(***************************************************************************)
(* The binary searches of arraylist.c answer what the ring needs, in an    *)
(* array of any size: the recursion they stand for is followed by looking  *)
(* at a shortest interval on which it would go wrong. From these follow    *)
(* the invariants of ArrayList and its refinement of Ring.                 *)
(***************************************************************************)
EXTENDS ArrayList, SequenceTheorems, FiniteSetTheorems, TLAPS

(* A set of natural numbers that is not empty has a least element. *)
LEMMA LeastElement ==
  ASSUME NEW T \in SUBSET Nat, T # {}
  PROVE  \E x \in T : \A y \in T : x <= y
<1> DEFINE R == OpToRel(<, Nat)
<1>1. IsWellFoundedOn(R, Nat)
  BY NatLessThanWellFounded
<1>2. PICK x \in T : \A y \in T : ~ (<<y, x>> \in R)
  <2> HIDE DEF R
  <2> QED BY <1>1, WFMin
<1>3. \A m, n \in Nat : <<m, n>> \in R <=> m < n
  BY DEF OpToRel
<1>4. \A y \in T : ~ (y < x)
  <2> HIDE DEF R
  <2> QED BY <1>2, <1>3
<1> HIDE DEF R
<1> QED BY <1>4

-----------------------------------------------------------------------------
(* The binary search.                                                      *)

LEMMA MiddleIsBetween ==
  ASSUME NEW l \in Int, NEW r \in Int, l <= r
  PROVE  Middle(l, r) \in Int /\ l <= Middle(l, r) /\ Middle(l, r) <= r
BY DEF Middle

(* An iteration leaves a search, on a shorter interval. *)
LEMMA NarrowIs ==
  ASSUME NEW n \in Nat, NEW lefts, NEW hits,
         NEW w \in Searches(n), w.left <= w.right
  PROVE  LET m == Middle(w.left, w.right)
             v == Narrow(w, lefts, hits)
         IN  /\ m \in 0 .. n - 1 /\ w.left <= m /\ m <= w.right
             /\ v \in Searches(n)
             /\ v.right - v.left < w.right - w.left
             /\ m \in lefts => v.left = w.left /\ v.right = m - 1
             /\ m \notin lefts => v.left = m + 1 /\ v.right = w.right
             /\ v.ans = IF m \in hits THEN m ELSE w.ans
<1> DEFINE m == Middle(w.left, w.right)
<1>1. /\ w.left \in 0 .. n /\ w.right \in -1 .. n - 1 /\ w.ans \in 0 .. n
  BY DEF Searches
<1>2. m \in 0 .. n - 1 /\ w.left <= m /\ m <= w.right
  <2>1. w.left \in Int /\ w.right \in Int
    BY <1>1
  <2>2. m \in Int /\ w.left <= m /\ m <= w.right
    BY <2>1, MiddleIsBetween
  <2> HIDE DEF m
  <2> QED BY <1>1, <2>2
<1> HIDE DEF m
<1>3. Narrow(w, lefts, hits) =
        [left |-> IF m \in lefts THEN w.left ELSE m + 1,
         right |-> IF m \in lefts THEN m - 1 ELSE w.right,
         ans |-> IF m \in hits THEN m ELSE w.ans]
  BY DEF Narrow, m
<1>4. Narrow(w, lefts, hits) \in Searches(n)
  BY <1>1, <1>2, <1>3 DEF Searches
<1> QED BY <1>1, <1>2, <1>3, <1>4 DEF m

(* The recursive function exists: one that is right on the intervals of    *)
(* fewer than m elements can be made right on those of m.                  *)
LEMMA OutcomeIs ==
  ASSUME NEW n \in Nat, NEW lefts, NEW hits, NEW w \in Searches(n)
  PROVE  Outcome(n, lefts, hits)[w] =
           IF w.left > w.right THEN w.ans
           ELSE Outcome(n, lefts, hits)[Narrow(w, lefts, hits)]
<1> DEFINE S == Searches(n)
           Once(f, v) == IF v.left > v.right THEN v.ans
                         ELSE f[Narrow(v, lefts, hits)]
           Right(f, m) == \A v \in S : v.right - v.left < m => f[v] = Once(f, v)
           Is(f) == f = [v \in S |-> IF v.left > v.right THEN v.ans
                                     ELSE f[Narrow(v, lefts, hits)]]
           T == {m \in Nat : ~ \E f : Right(f, m)}
<1>1. \A v \in S : v.left \in Int /\ v.right \in Int
  BY DEF Searches
<1>2. \A v \in S : v.left <= v.right =>
        /\ Narrow(v, lefts, hits) \in S
        /\ Narrow(v, lefts, hits).right - Narrow(v, lefts, hits).left < v.right - v.left
  BY NarrowIs
<1> HIDE DEF S
<1>3. T = {}
  <2>1. SUFFICES ASSUME T # {} PROVE FALSE
    OBVIOUS
  <2>2. PICK m \in T : \A k \in T : m <= k
    BY <2>1, LeastElement
  <2>3. CASE m = 0
    <3>1. Right([v \in S |-> v.ans], 0)
      BY <1>1
    <3> QED BY <2>3, <3>1
  <2>4. CASE m # 0
    <3>1. m - 1 \in Nat /\ m - 1 \notin T
      BY <2>2, <2>4
    <3>2. PICK f : Right(f, m - 1)
      BY <3>1
    <3> DEFINE g == [v \in S |-> IF v.right - v.left < m - 1 THEN f[v] ELSE Once(f, v)]
    <3>3. ASSUME NEW v \in S, v.right - v.left < m
          PROVE  g[v] = Once(g, v)
      <4>1. g[v] = Once(f, v)
        BY <3>2
      <4>2. CASE v.left > v.right
        BY <4>1, <4>2
      <4>3. CASE v.left <= v.right
        <5> DEFINE u == Narrow(v, lefts, hits)
        <5>1. u \in S /\ u.right - u.left < v.right - v.left
          BY <1>2, <4>3
        <5>2. u.right - u.left < m - 1
          BY <1>1, <3>1, <3>3, <5>1
        <5> HIDE DEF u
        <5>3. g[u] = f[u]
          BY <5>1, <5>2
        <5> QED BY <1>1, <4>1, <4>3, <5>3 DEF u
      <4> QED BY <1>1, <4>2, <4>3
    <3>4. Right(g, m)
      BY <3>3
    <3> HIDE DEF g
    <3> QED BY <2>2, <3>4
  <2> QED BY <2>3, <2>4
<1>4. PICK f : Right(f, n)
  BY <1>3
<1>5. \A v \in S : v.right - v.left < n
  BY DEF S, Searches
<1> DEFINE g == [v \in S |-> f[v]]
<1>6. ASSUME NEW v \in S
      PROVE  g[v] = Once(g, v)
  <2>1. f[v] = Once(f, v)
    BY <1>4, <1>5
  <2> QED BY <1>1, <1>2, <2>1
<1>7. Is(g)
  BY <1>6
<1> HIDE DEF Is, g
<1>8. Is(CHOOSE h : Is(h))
  BY <1>7
<1>9. Outcome(n, lefts, hits) = CHOOSE h : Is(h)
  BY DEF Outcome, Is, S
<1>10. Is(Outcome(n, lefts, hits))
  BY <1>8, <1>9
<1> QED BY <1>10 DEF Is, S

(* When the search turns left exactly from index k on, and answers where   *)
(* it turns left, its answer is k.                                         *)
LEMMA SearchFinds ==
  ASSUME NEW n \in Nat, NEW k \in 0 .. n, NEW lefts,
         lefts = {i \in 0 .. n - 1 : i >= k}, NEW first \in 0 .. n
  PROVE  BinarySearch(n, lefts, lefts, first) = IF k = n THEN first ELSE k
<1> DEFINE S == Searches(n)
           f == Outcome(n, lefts, lefts)
           Around(w) == w.left <= k /\ k <= w.right + 1
           Found(w) == f[w] = IF k <= w.right THEN k ELSE w.ans
           T == {m \in Nat : \E w \in S : /\ m = w.right + 1 - w.left
                                          /\ Around(w) /\ ~Found(w)}
<1>1. \A w \in S : w.left \in Int /\ w.right \in Int /\ w.ans \in Int
  BY DEF Searches
<1> HIDE DEF Around, Found, T
<1>0. \A w \in S : f[w] = IF w.left > w.right THEN w.ans ELSE f[Narrow(w, lefts, lefts)]
  BY OutcomeIs
<1> USE DEF Around, Found, T
<1>2. T = {}
  <2>1. SUFFICES ASSUME T # {} PROVE FALSE
    OBVIOUS
  <2>2. PICK m \in T : \A j \in T : m <= j
    BY <2>1, LeastElement
  <2>3. PICK w \in S : /\ m = w.right + 1 - w.left
                       /\ Around(w) /\ ~Found(w)
    OBVIOUS
  <2>4. f[w] = IF w.left > w.right THEN w.ans ELSE f[Narrow(w, lefts, lefts)]
    BY <1>0
  <2>5. CASE w.left > w.right
    BY <1>1, <2>3, <2>4, <2>5
  <2>6. CASE w.left <= w.right
    <3> DEFINE c == Middle(w.left, w.right)
               v == Narrow(w, lefts, lefts)
    <3>1. /\ c \in 0 .. n - 1 /\ w.left <= c /\ c <= w.right
          /\ v \in S
          /\ v.right - v.left < w.right - w.left
          /\ c \in lefts => v.left = w.left /\ v.right = c - 1
          /\ c \notin lefts => v.left = c + 1 /\ v.right = w.right
          /\ v.ans = IF c \in lefts THEN c ELSE w.ans
      BY <2>6, NarrowIs
    <3> HIDE DEF c, v, S, f
    <3>2. c \in lefts <=> c >= k
      BY <3>1
    <3>3. Around(v)
      BY <1>1, <2>3, <3>1, <3>2
    <3>4. v.right + 1 - v.left \in Nat /\ v.right + 1 - v.left < m
      BY <1>1, <2>3, <3>1, <3>3
    <3>5. Found(v)
      BY <2>2, <3>1, <3>3, <3>4
    <3>6. Found(w)
      BY <1>1, <2>3, <2>4, <2>6, <3>1, <3>2, <3>5 DEF v
    <3> QED BY <2>3, <3>6
  <2> QED BY <1>1, <2>5, <2>6
<1> DEFINE w == [left |-> 0, right |-> n - 1, ans |-> first]
<1>3. w \in S /\ w.left = 0 /\ w.right = n - 1 /\ w.ans = first
  BY DEF Searches
<1>4. Around(w) /\ w.right + 1 - w.left \in Nat
  BY <1>3
<1> HIDE DEF w, f, S
<1>5. Found(w)
  BY <1>2, <1>3, <1>4
<1> QED BY <1>3, <1>5 DEF BinarySearch, w, f

(* Whichever way the search turns, it answers a hit, or what it began with.*)
LEMMA SearchHits ==
  ASSUME NEW n \in Nat, NEW lefts, NEW hits, NEW first \in 0 .. n
  PROVE  BinarySearch(n, lefts, hits, first) \in {first} \union hits
<1> DEFINE S == Searches(n)
           f == Outcome(n, lefts, hits)
           Hit(w) == f[w] \in {w.ans} \union hits
           T == {m \in Nat : \E w \in S : w.right - w.left < m /\ ~Hit(w)}
<1>1. \A w \in S : w.left \in Int /\ w.right \in Int /\ w.right - w.left < n
  BY DEF Searches
<1>2. T = {}
  <2>1. SUFFICES ASSUME T # {} PROVE FALSE
    OBVIOUS
  <2>2. PICK m \in T : \A j \in T : m <= j
    BY <2>1, LeastElement
  <2>3. PICK w \in S : w.right - w.left < m /\ ~Hit(w)
    OBVIOUS
  <2>4. f[w] = IF w.left > w.right THEN w.ans ELSE f[Narrow(w, lefts, hits)]
    BY OutcomeIs
  <2>5. CASE w.left > w.right
    BY <2>3, <2>4, <2>5
  <2>6. CASE w.left <= w.right
    <3> DEFINE v == Narrow(w, lefts, hits)
    <3>1. /\ v \in S
          /\ v.right - v.left < w.right - w.left
          /\ v.ans \in {w.ans} \union hits
      BY <2>6, NarrowIs
    <3> HIDE DEF v, S, f
    <3>2. m - 1 \in Nat /\ v.right - v.left < m - 1
      BY <1>1, <2>3, <2>6, <3>1
    <3>3. Hit(v)
      BY <2>2, <3>1, <3>2
    <3> QED BY <1>1, <2>3, <2>4, <2>6, <3>1, <3>3 DEF v
  <2> QED BY <1>1, <2>5, <2>6
<1> DEFINE w == [left |-> 0, right |-> n - 1, ans |-> first]
<1>3. w \in S /\ w.ans = first
  BY DEF Searches
<1> HIDE DEF w, f, S
<1>4. Hit(w)
  BY <1>1, <1>2, <1>3
<1> QED BY <1>3, <1>4 DEF BinarySearch, w, f

-----------------------------------------------------------------------------
(* An array with an element more, or with one less.                        *)

LEMMA RemoveAtIs ==
  ASSUME NEW S, NEW s \in Seq(S), NEW p \in 1 .. Len(s)
  PROVE  /\ RemoveAt(s, p) \in Seq(S)
         /\ Len(RemoveAt(s, p)) = Len(s) - 1
         /\ \A i \in 1 .. Len(s) - 1 :
              RemoveAt(s, p)[i] = IF i < p THEN s[i] ELSE s[i + 1]
<1> DEFINE l == SubSeq(s, 1, p - 1)
           h == SubSeq(s, p + 1, Len(s))
<1>1. Len(s) \in Nat /\ \A i \in 1 .. Len(s) : s[i] \in S
  BY LenProperties, ElementOfSeq
<1>2. /\ l \in Seq(S)
      /\ Len(l) = p - 1
      /\ \A i \in 1 .. p - 1 : l[i] = s[i]
  BY <1>1, SubSeqProperties
<1>3. /\ h \in Seq(S)
      /\ Len(h) = Len(s) - p
      /\ \A i \in 1 .. Len(s) - p : h[i] = s[p + i]
  BY <1>1, SubSeqProperties
<1>4. RemoveAt(s, p) = l \o h
  BY DEF RemoveAt
<1> HIDE DEF l, h
<1>5. /\ l \o h \in Seq(S)
      /\ Len(l \o h) = Len(l) + Len(h)
      /\ \A i \in 1 .. Len(l) + Len(h) :
           (l \o h)[i] = IF i <= Len(l) THEN l[i] ELSE h[i - Len(l)]
  BY <1>2, <1>3, ConcatProperties
<1>6. ASSUME NEW i \in 1 .. Len(s) - 1
      PROVE  (l \o h)[i] = IF i < p THEN s[i] ELSE s[i + 1]
  <2>1. (l \o h)[i] = IF i <= p - 1 THEN l[i] ELSE h[i - (p - 1)]
    BY <1>1, <1>2, <1>3, <1>5
  <2>2. CASE i < p
    BY <1>1, <1>2, <2>1, <2>2
  <2>3. CASE i >= p
    <3>1. i - (p - 1) \in 1 .. Len(s) - p
      BY <1>1, <2>3
    <3>2. h[i - (p - 1)] = s[p + (i - (p - 1))] /\ p + (i - (p - 1)) = i + 1
      BY <1>1, <1>3, <3>1
    <3> QED BY <1>1, <2>1, <2>3, <3>2
  <2>4. i < p \/ i >= p
    BY <1>1
  <2> QED BY <2>2, <2>3, <2>4
<1> QED BY <1>1, <1>2, <1>3, <1>4, <1>5, <1>6

LEMMA InsertAtIs ==
  ASSUME NEW S, NEW s \in Seq(S), NEW p \in 1 .. Len(s) + 1, NEW e \in S
  PROVE  /\ InsertAt(s, p, e) \in Seq(S)
         /\ Len(InsertAt(s, p, e)) = Len(s) + 1
         /\ \A i \in 1 .. Len(s) + 1 :
              InsertAt(s, p, e)[i] = IF i < p THEN s[i]
                                     ELSE IF i = p THEN e ELSE s[i - 1]
<1> DEFINE l == SubSeq(s, 1, p - 1)
           h == SubSeq(s, p, Len(s))
           m == l \o <<e>>
<1>1. Len(s) \in Nat /\ \A i \in 1 .. Len(s) : s[i] \in S
  BY LenProperties, ElementOfSeq
<1>2. /\ l \in Seq(S)
      /\ Len(l) = p - 1
      /\ \A i \in 1 .. p - 1 : l[i] = s[i]
  BY <1>1, SubSeqProperties
<1>3. /\ h \in Seq(S)
      /\ Len(h) = Len(s) + 1 - p
      /\ \A i \in 1 .. Len(s) + 1 - p : h[i] = s[p + i - 1]
  BY <1>1, SubSeqProperties
<1>4. InsertAt(s, p, e) = m \o h
  BY DEF InsertAt
<1>5. <<e>> \in Seq(S) /\ Len(<<e>>) = 1 /\ <<e>>[1] = e
  OBVIOUS
<1> HIDE DEF l, h
<1>6. /\ m \in Seq(S)
      /\ Len(m) = p
      /\ \A i \in 1 .. p : m[i] = IF i < p THEN l[i] ELSE e
  <2>1. /\ m \in Seq(S)
        /\ Len(m) = Len(l) + Len(<<e>>)
        /\ \A i \in 1 .. Len(l) + Len(<<e>>) :
             m[i] = IF i <= Len(l) THEN l[i] ELSE <<e>>[i - Len(l)]
    BY <1>2, <1>5, ConcatProperties
  <2> HIDE DEF m
  <2>2. Len(m) = p
    BY <1>1, <1>2, <1>5, <2>1
  <2>3. ASSUME NEW i \in 1 .. p
        PROVE  m[i] = IF i < p THEN l[i] ELSE e
    <3>1. m[i] = IF i <= p - 1 THEN l[i] ELSE <<e>>[i - (p - 1)]
      BY <1>1, <1>2, <1>5, <2>1
    <3>2. CASE i < p
      BY <1>1, <3>1, <3>2
    <3>3. CASE i = p
      <4>1. i - (p - 1) = 1
        BY <1>1, <3>3
      <4> QED BY <1>1, <1>5, <3>1, <3>3, <4>1
    <3> QED BY <1>1, <3>2, <3>3
  <2> QED BY <2>1, <2>2, <2>3
<1> HIDE DEF m
<1>7. /\ m \o h \in Seq(S)
      /\ Len(m \o h) = Len(m) + Len(h)
      /\ \A i \in 1 .. Len(m) + Len(h) :
           (m \o h)[i] = IF i <= Len(m) THEN m[i] ELSE h[i - Len(m)]
  BY <1>3, <1>6, ConcatProperties
<1>8. ASSUME NEW i \in 1 .. Len(s) + 1
      PROVE  (m \o h)[i] = IF i < p THEN s[i] ELSE IF i = p THEN e ELSE s[i - 1]
  <2>1. (m \o h)[i] = IF i <= p THEN m[i] ELSE h[i - p]
    BY <1>1, <1>3, <1>6, <1>7
  <2>2. CASE i <= p
    BY <1>1, <1>2, <1>6, <2>1, <2>2
  <2>3. CASE i > p
    <3>1. i - p \in 1 .. Len(s) + 1 - p
      BY <1>1, <2>3
    <3>2. h[i - p] = s[p + (i - p) - 1] /\ p + (i - p) - 1 = i - 1
      BY <1>1, <1>3, <3>1
    <3> QED BY <1>1, <2>1, <2>3, <3>2
  <2>4. i <= p \/ i > p
    BY <1>1
  <2> QED BY <2>2, <2>3, <2>4
<1> QED BY <1>1, <1>3, <1>4, <1>6, <1>7, <1>8

-----------------------------------------------------------------------------
(* The searches in an array that is in order.                              *)

(* A list of labels in the order of their hashes. *)
Sorts(list) ==
  /\ list \in Seq(Labels)
  /\ \A i, j \in DOMAIN list : i < j => LabelHash[list[i]] < LabelHash[list[j]]

LEMMA ElementsOf ==
  ASSUME NEW list, Sorts(list)
  PROVE  /\ Len(list) \in Nat
         /\ DOMAIN list = 1 .. Len(list)
         /\ \A i \in 1 .. Len(list) : /\ list[i] \in Labels
                                      /\ LabelHash[list[i]] \in Nat
<1>1. list \in Seq(Labels)
  BY DEF Sorts
<1>2. /\ Len(list) \in Nat
      /\ DOMAIN list = 1 .. Len(list)
      /\ \A i \in 1 .. Len(list) : list[i] \in Labels
  BY <1>1, LenProperties, ElementOfSeq
<1> QED BY <1>2, LabelsAssumption

(* At counts from 0, and keeps the order. *)
LEMMA AtIs ==
  ASSUME NEW list, Sorts(list), NEW i \in Indices(list)
  PROVE  /\ i \in Nat /\ i < Len(list) /\ i + 1 \in DOMAIN list
         /\ At(list, i) = list[i + 1]
         /\ At(list, i) \in Labels
         /\ LabelHash[At(list, i)] \in Nat
         /\ \A j \in Indices(list) :
              i < j => LabelHash[At(list, i)] < LabelHash[At(list, j)]
<1>1. /\ Len(list) \in Nat
      /\ DOMAIN list = 1 .. Len(list)
      /\ \A k \in 1 .. Len(list) : /\ list[k] \in Labels
                                   /\ LabelHash[list[k]] \in Nat
  BY ElementsOf
<1>2. \A j \in Indices(list) : /\ j \in Nat /\ j < Len(list)
                               /\ j + 1 \in 1 .. Len(list)
                               /\ At(list, j) = list[j + 1]
  BY <1>1 DEF Indices, At
<1>3. \A j \in Indices(list) :
        i < j => LabelHash[At(list, i)] < LabelHash[At(list, j)]
  BY <1>1, <1>2 DEF Sorts
<1> QED BY <1>1, <1>2, <1>3

(* A set of indices that holds all those above one it holds begins at one. *)
LEMMA Threshold ==
  ASSUME NEW n \in Nat, NEW T \in SUBSET (0 .. n - 1),
         \A i \in T : \A j \in 0 .. n - 1 : i < j => j \in T
  PROVE  \E k \in 0 .. n : T = {i \in 0 .. n - 1 : i >= k}
<1>1. CASE T = {}
  <2>1. T = {i \in 0 .. n - 1 : i >= n}
    BY <1>1
  <2> QED BY <2>1
<1>2. CASE T # {}
  <2>1. T \in SUBSET Nat
    OBVIOUS
  <2>2. PICK k \in T : \A i \in T : k <= i
    BY <1>2, <2>1, LeastElement
  <2>3. ASSUME NEW i \in 0 .. n - 1
        PROVE  i \in T <=> i >= k
    <3>1. k \in 0 .. n - 1
      OBVIOUS
    <3>2. i >= k => i = k \/ k < i
      BY <3>1
    <3> QED BY <2>2, <3>2
  <2>4. T = {i \in 0 .. n - 1 : i >= k}
    BY <2>3
  <2> QED BY <2>4
<1> QED BY <1>1, <1>2

(* al_get_ordered's search ends at the first element not below h, and at   *)
(* the first of all when there is none.                                    *)
LEMMA OrderedIndexIs ==
  ASSUME NEW list, Sorts(list), NEW h \in Nat
  PROVE  \E k \in 0 .. Len(list) :
           /\ \A i \in Indices(list) : LabelHash[At(list, i)] >= h <=> i >= k
           /\ OrderedIndex(list, h) = IF k = Len(list) THEN 0 ELSE k
<1> DEFINE n == Len(list)
           T == From(list, h)
<1>1. n \in Nat
  BY ElementsOf
<1>2. Indices(list) = 0 .. n - 1
  BY DEF Indices
<1>3. ASSUME NEW i \in T, NEW j \in 0 .. n - 1, i < j
      PROVE  j \in T
  <2>1. /\ LabelHash[At(list, i)] \in Nat /\ LabelHash[At(list, i)] >= h
        /\ LabelHash[At(list, j)] \in Nat
        /\ LabelHash[At(list, i)] < LabelHash[At(list, j)]
    BY <1>2, <1>3, AtIs DEF From
  <2> QED BY <1>2, <2>1 DEF From
<1>4. T \in SUBSET (0 .. n - 1)
  BY <1>2 DEF From
<1> HIDE DEF T, n
<1>5. PICK k \in 0 .. n : T = {i \in 0 .. n - 1 : i >= k}
  BY <1>1, <1>3, <1>4, Threshold
<1>6. BinarySearch(n, T, T, 0) = IF k = n THEN 0 ELSE k
  BY <1>1, <1>5, SearchFinds
<1>7. \A i \in Indices(list) : LabelHash[At(list, i)] >= h <=> i >= k
  BY <1>2, <1>5 DEF From, T
<1> QED BY <1>6, <1>7 DEF OrderedIndex, T, n

(* al_insert_ordered's search ends at the first element above x, and past  *)
(* the last when there is none.                                            *)
LEMMA InsertionIndexIs ==
  ASSUME NEW list, Sorts(list), NEW x \in Labels
  PROVE  /\ InsertionIndex(list, x) \in 0 .. Len(list)
         /\ \A i \in Indices(list) :
              LabelHash[At(list, i)] > LabelHash[x] <=> i >= InsertionIndex(list, x)
<1> DEFINE n == Len(list)
           h == LabelHash[x]
           T == Above(list, h)
<1>1. n \in Nat /\ h \in Nat
  BY ElementsOf, LabelsAssumption
<1>2. Indices(list) = 0 .. n - 1
  BY DEF Indices
<1>3. ASSUME NEW i \in T, NEW j \in 0 .. n - 1, i < j
      PROVE  j \in T
  <2>1. /\ LabelHash[At(list, i)] \in Nat /\ LabelHash[At(list, i)] > h
        /\ LabelHash[At(list, j)] \in Nat
        /\ LabelHash[At(list, i)] < LabelHash[At(list, j)]
    BY <1>2, <1>3, AtIs DEF Above
  <2> HIDE DEF h
  <2> QED BY <1>1, <1>2, <2>1 DEF Above
<1>4. T \in SUBSET (0 .. n - 1)
  BY <1>2 DEF Above
<1> HIDE DEF T, n
<1>5. PICK k \in 0 .. n : T = {i \in 0 .. n - 1 : i >= k}
  BY <1>1, <1>3, <1>4, Threshold
<1>6. BinarySearch(n, T, T, n) = k
  BY <1>1, <1>5, SearchFinds
<1>7. \A i \in Indices(list) : LabelHash[At(list, i)] > h <=> i >= k
  BY <1>2, <1>5 DEF Above, T
<1>8. InsertionIndex(list, x) = k
  BY <1>6 DEF InsertionIndex, T, n
<1> QED BY <1>7, <1>8 DEF n

(* al_find_by begins its scan at index 0 or at the element that has the    *)
(* hash of x, and finds x when it is there.                                *)
LEMMA FindByIs ==
  ASSUME NEW list, Sorts(list), NEW x \in Labels
  PROVE  /\ \A i \in Indices(list) : At(list, i) = x => FindBy(list, x) = i
         /\ (\A i \in Indices(list) : At(list, i) # x) => FindBy(list, x) = -1
<1> DEFINE s == ScanStart(list, x)
           found == {i \in s .. Len(list) - 1 : At(list, i) = x}
<1>1. Len(list) \in Nat
  BY ElementsOf
<1>2. s \in {0} \union Equal(list, LabelHash[x])
  <2> DEFINE lefts == Below(list, LabelHash[x])
             hits == Equal(list, LabelHash[x])
  <2> HIDE DEF lefts, hits
  <2>1. 0 \in 0 .. Len(list)
    BY <1>1
  <2>2. BinarySearch(Len(list), lefts, hits, 0) \in {0} \union hits
    BY <1>1, <2>1, SearchHits
  <2> QED BY <2>2 DEF ScanStart, lefts, hits
<1>3. s \in Nat /\ s .. Len(list) - 1 \in SUBSET Indices(list)
  BY <1>1, <1>2 DEF Equal, Indices
<1>4. ASSUME NEW i \in Indices(list), At(list, i) = x
      PROVE  FindBy(list, x) = i
  <2>1. ASSUME NEW j \in Indices(list), LabelHash[At(list, j)] = LabelHash[x]
        PROVE  j = i
    <3>1. /\ i < j => LabelHash[At(list, i)] < LabelHash[At(list, j)]
          /\ j < i => LabelHash[At(list, j)] < LabelHash[At(list, i)]
          /\ LabelHash[At(list, i)] \in Nat /\ i \in Nat /\ j \in Nat
      BY <1>4, AtIs
    <3> QED BY <1>4, <2>1, <3>1
  <2>2. s \in {0, i}
    BY <1>2, <2>1 DEF Equal
  <2> HIDE DEF s
  <2>3. i \in s .. Len(list) - 1
    BY <1>1, <2>2 DEF Indices
  <2>4. \A j \in found : j = i
    BY <1>3, <2>1
  <2>5. found = {i}
    BY <1>4, <2>3, <2>4
  <2>6. Min({i}) = i
    <3>1. i <= i
      BY DEF Indices
    <3> HIDE DEF Indices
    <3> QED BY <3>1 DEF Min
  <2> HIDE DEF found
  <2> QED BY <2>5, <2>6 DEF FindBy, found, s
<1>5. ASSUME \A i \in Indices(list) : At(list, i) # x
      PROVE  FindBy(list, x) = -1
  <2>1. found = {}
    BY <1>3, <1>5
  <2> QED BY <2>1 DEF FindBy
<1> QED BY <1>4, <1>5

-----------------------------------------------------------------------------
(* The operations keep the order.                                          *)

Elements(list) == {list[i] : i \in DOMAIN list}

(* In an array that is in order no label is twice. *)
LEMMA SortsOnce ==
  ASSUME NEW list, Sorts(list),
         NEW i \in DOMAIN list, NEW j \in DOMAIN list, list[i] = list[j]
  PROVE  i = j
<1>1. /\ i \in 1 .. Len(list) /\ j \in 1 .. Len(list) /\ Len(list) \in Nat
      /\ LabelHash[list[i]] \in Nat
  BY ElementsOf
<1>2. ~ (i < j) /\ ~ (j < i)
  BY <1>1 DEF Sorts
<1> QED BY <1>1, <1>2

(* al_insert_ordered puts a label that is not there where it belongs.      *)
LEMMA InsertAtSorts ==
  ASSUME NEW list, Sorts(list), NEW x \in Labels, x \notin Elements(list)
  PROVE  LET s == InsertAt(list, InsertionIndex(list, x) + 1, x)
         IN  /\ Sorts(s)
             /\ Len(s) = Len(list) + 1
             /\ Elements(s) = Elements(list) \union {x}
<1> DEFINE p == InsertionIndex(list, x) + 1
           s == InsertAt(list, p, x)
<1>1. /\ list \in Seq(Labels)
      /\ Len(list) \in Nat
      /\ DOMAIN list = 1 .. Len(list)
      /\ \A i \in 1 .. Len(list) : /\ list[i] \in Labels
                                   /\ LabelHash[list[i]] \in Nat
  BY ElementsOf DEF Sorts
<1>2. /\ p \in 1 .. Len(list) + 1
      /\ \A i \in 1 .. Len(list) : LabelHash[list[i]] > LabelHash[x] <=> i >= p
  <2>1. /\ InsertionIndex(list, x) \in 0 .. Len(list)
        /\ \A i \in Indices(list) :
             LabelHash[At(list, i)] > LabelHash[x] <=> i >= InsertionIndex(list, x)
    BY InsertionIndexIs
  <2>2. ASSUME NEW i \in 1 .. Len(list)
        PROVE  i - 1 \in Indices(list) /\ At(list, i - 1) = list[i]
    <3>1. i - 1 \in 0 .. Len(list) - 1 /\ (i - 1) + 1 = i
      BY <1>1
    <3> QED BY <3>1 DEF Indices, At
  <2>3. ASSUME NEW i \in 1 .. Len(list)
        PROVE  LabelHash[list[i]] > LabelHash[x] <=> i >= p
    <3>1. LabelHash[list[i]] > LabelHash[x] <=> i - 1 >= InsertionIndex(list, x)
      BY <2>1, <2>2
    <3> QED BY <1>1, <2>1, <3>1
  <2> QED BY <1>1, <2>1, <2>3
<1> HIDE DEF p
<1>3. /\ s \in Seq(Labels)
      /\ Len(s) = Len(list) + 1
      /\ \A i \in 1 .. Len(list) + 1 :
           s[i] = IF i < p THEN list[i] ELSE IF i = p THEN x ELSE list[i - 1]
  BY <1>1, <1>2, InsertAtIs
<1> HIDE DEF s
<1>4. DOMAIN s = 1 .. Len(list) + 1
  BY <1>3, LenProperties
<1>5. LabelHash[x] \in Nat
  BY LabelsAssumption
<1>6. ASSUME NEW i \in 1 .. Len(list)
      PROVE  LabelHash[list[i]] # LabelHash[x]
  BY <1>1, LabelsAssumption DEF Elements
<1>7. ASSUME NEW i \in 1 .. Len(list) + 1, NEW j \in 1 .. Len(list) + 1, i < j
      PROVE  LabelHash[s[i]] < LabelHash[s[j]]
  <2>1. \A a, b \in 1 .. Len(list) : a < b => LabelHash[list[a]] < LabelHash[list[b]]
    BY <1>1 DEF Sorts
  <2>2. CASE j < p
    <3>1. i < p /\ i \in 1 .. Len(list) /\ j \in 1 .. Len(list)
      BY <1>1, <1>2, <1>7, <2>2
    <3>2. s[i] = list[i] /\ s[j] = list[j]
      BY <1>3, <2>2, <3>1
    <3> QED BY <1>7, <2>1, <3>1, <3>2
  <2>3. CASE j = p
    <3>1. i < p /\ i \in 1 .. Len(list) /\ ~ (i >= p)
      BY <1>1, <1>2, <1>7, <2>3
    <3>2. s[i] = list[i] /\ s[j] = x
      BY <1>3, <2>3, <3>1
    <3>3. ~ (LabelHash[list[i]] > LabelHash[x])
      BY <1>2, <3>1
    <3> QED BY <1>1, <1>5, <1>6, <3>1, <3>2, <3>3
  <2>4. CASE j > p /\ i = p
    <3>1. j - 1 \in 1 .. Len(list) /\ j - 1 >= p /\ ~ (j < p) /\ j # p
      BY <1>1, <1>2, <2>4
    <3>2. s[i] = x /\ s[j] = list[j - 1]
      BY <1>2, <1>3, <2>4, <3>1
    <3> QED BY <1>1, <1>2, <1>5, <3>1, <3>2
  <2>5. CASE j > p /\ i < p
    <3>1. /\ j - 1 \in 1 .. Len(list) /\ i \in 1 .. Len(list) /\ i < j - 1
          /\ ~ (j < p) /\ j # p
      BY <1>1, <1>2, <2>5
    <3>2. s[i] = list[i] /\ s[j] = list[j - 1]
      BY <1>3, <2>5, <3>1
    <3> QED BY <2>1, <3>1, <3>2
  <2>6. CASE j > p /\ i > p
    <3>1. /\ j - 1 \in 1 .. Len(list) /\ i - 1 \in 1 .. Len(list) /\ i - 1 < j - 1
          /\ ~ (j < p) /\ j # p /\ ~ (i < p) /\ i # p
      BY <1>1, <1>2, <1>7, <2>6
    <3>2. s[i] = list[i - 1] /\ s[j] = list[j - 1]
      BY <1>3, <3>1
    <3> QED BY <2>1, <3>1, <3>2
  <2>7. j < p \/ j = p \/ (j > p /\ i = p) \/ (j > p /\ i < p) \/ (j > p /\ i > p)
    BY <1>1, <1>2
  <2> QED BY <2>2, <2>3, <2>4, <2>5, <2>6, <2>7
<1>8. Sorts(s)
  BY <1>3, <1>4, <1>7 DEF Sorts
<1>9. Elements(s) = Elements(list) \union {x}
  <2>1. ASSUME NEW i \in 1 .. Len(list) + 1
        PROVE  s[i] \in Elements(list) \union {x}
    <3>1. i < p \/ i = p \/ (~ (i < p) /\ i # p)
      OBVIOUS
    <3>2. /\ i < p => i \in 1 .. Len(list)
          /\ ~ (i < p) /\ i # p => i - 1 \in 1 .. Len(list)
      BY <1>1, <1>2
    <3> QED BY <1>1, <1>3, <3>1, <3>2 DEF Elements
  <2>2. ASSUME NEW i \in 1 .. Len(list)
        PROVE  list[i] \in Elements(s)
    <3>1. CASE i < p
      <4>1. i \in 1 .. Len(list) + 1 /\ s[i] = list[i]
        BY <1>1, <1>3, <3>1
      <4> QED BY <1>4, <4>1 DEF Elements
    <3>2. CASE i >= p
      <4>1. /\ i + 1 \in 1 .. Len(list) + 1
            /\ ~ (i + 1 < p) /\ i + 1 # p /\ (i + 1) - 1 = i
        BY <1>1, <1>2, <3>2
      <4>2. s[i + 1] = list[i]
        BY <1>3, <4>1
      <4> QED BY <1>4, <4>1, <4>2 DEF Elements
    <3>3. i < p \/ i >= p
      BY <1>1, <1>2
    <3> QED BY <3>1, <3>2, <3>3
  <2>3. x \in Elements(s)
    <3>1. p \in 1 .. Len(list) + 1 /\ ~ (p < p) /\ s[p] = x
      BY <1>1, <1>2, <1>3
    <3> QED BY <1>4, <3>1 DEF Elements
  <2> QED BY <1>1, <1>4, <2>1, <2>2, <2>3 DEF Elements
<1> QED BY <1>3, <1>8, <1>9 DEF s, p

(* al_erase closes the gap the element leaves.                             *)
LEMMA RemoveAtSorts ==
  ASSUME NEW list, Sorts(list), NEW p \in DOMAIN list
  PROVE  /\ Sorts(RemoveAt(list, p))
         /\ Len(RemoveAt(list, p)) = Len(list) - 1
         /\ Elements(RemoveAt(list, p)) = Elements(list) \ {list[p]}
<1> DEFINE s == RemoveAt(list, p)
<1>1. /\ list \in Seq(Labels)
      /\ Len(list) \in Nat
      /\ DOMAIN list = 1 .. Len(list)
      /\ p \in 1 .. Len(list)
  BY ElementsOf DEF Sorts
<1>2. /\ s \in Seq(Labels)
      /\ Len(s) = Len(list) - 1
      /\ \A i \in 1 .. Len(list) - 1 : s[i] = IF i < p THEN list[i] ELSE list[i + 1]
  BY <1>1, RemoveAtIs
<1> HIDE DEF s
<1>3. DOMAIN s = 1 .. Len(list) - 1
  BY <1>2, LenProperties
<1>4. ASSUME NEW i \in 1 .. Len(list) - 1
      PROVE  \/ i < p /\ i \in 1 .. Len(list) /\ s[i] = list[i]
             \/ i >= p /\ i + 1 \in 1 .. Len(list) /\ s[i] = list[i + 1]
  <2>1. i \in 1 .. Len(list) /\ i + 1 \in 1 .. Len(list) /\ (~ (i < p) <=> i >= p)
    BY <1>1
  <2> QED BY <1>2, <2>1
<1>5. Sorts(s)
  <2>1. \A a, b \in 1 .. Len(list) : a < b => LabelHash[list[a]] < LabelHash[list[b]]
    BY <1>1 DEF Sorts
  <2>2. ASSUME NEW i \in 1 .. Len(list) - 1, NEW j \in 1 .. Len(list) - 1, i < j
        PROVE  LabelHash[s[i]] < LabelHash[s[j]]
    <3>1. /\ ~ (i >= p /\ j < p)
          /\ i < j + 1 /\ i + 1 < j + 1
      BY <1>1, <2>2
    <3> QED BY <1>4, <2>1, <2>2, <3>1
  <2> QED BY <1>2, <1>3, <2>2 DEF Sorts
<1>6. Elements(s) = Elements(list) \ {list[p]}
  <2>1. ASSUME NEW i \in 1 .. Len(list) - 1
        PROVE  s[i] \in Elements(list) \ {list[p]}
    <3>1. PICK j \in 1 .. Len(list) : j # p /\ s[i] = list[j]
      <4>1. i >= p => i + 1 # p
        BY <1>1
      <4>2. i < p => i # p
        BY <1>1
      <4> QED BY <1>4, <4>1, <4>2
    <3> QED BY <1>1, <3>1, SortsOnce DEF Elements
  <2>2. ASSUME NEW i \in 1 .. Len(list), list[i] # list[p]
        PROVE  list[i] \in Elements(s)
    <3>1. CASE i < p
      <4>1. i \in 1 .. Len(list) - 1 /\ s[i] = list[i]
        BY <1>1, <1>2, <3>1
      <4> QED BY <1>3, <4>1 DEF Elements
    <3>2. CASE i > p
      <4>1. i - 1 \in 1 .. Len(list) - 1 /\ ~ (i - 1 < p) /\ (i - 1) + 1 = i
        BY <1>1, <3>2
      <4>2. s[i - 1] = list[i]
        BY <1>2, <4>1
      <4> QED BY <1>3, <4>1, <4>2 DEF Elements
    <3>3. i < p \/ i > p
      BY <1>1, <2>2
    <3> QED BY <3>1, <3>2, <3>3
  <2> QED BY <1>1, <1>3, <2>1, <2>2 DEF Elements
<1> QED BY <1>2, <1>5, <1>6 DEF s

(* The element al_erase takes: the label with the id, or the last one.     *)
LEMMA FoundIs ==
  ASSUME NEW list, Sorts(list), Len(list) > 0, NEW x \in Labels
  PROVE  LET i == FindBy(list, x)
             p == IF i = -1 THEN Len(list) ELSE i + 1
         IN  /\ p \in DOMAIN list
             /\ x \in Elements(list) => /\ i \in 0 .. Len(list) - 1
                                        /\ At(list, i) = x
                                        /\ list[p] = x
             /\ x \notin Elements(list) => /\ i = -1
                                           /\ IsLast(Elements(list), list[p])
<1> DEFINE i == FindBy(list, x)
           p == IF i = -1 THEN Len(list) ELSE i + 1
<1>1. /\ Len(list) \in Nat
      /\ DOMAIN list = 1 .. Len(list)
      /\ \A k \in 1 .. Len(list) : LabelHash[list[k]] \in Nat
  BY ElementsOf
<1>2. \A k \in Indices(list) : /\ k \in Nat /\ k + 1 \in DOMAIN list
                               /\ At(list, k) = list[k + 1]
  BY AtIs
<1>3. CASE x \in Elements(list)
  <2>1. PICK k \in 1 .. Len(list) : list[k] = x
    BY <1>1, <1>3 DEF Elements
  <2>2. k - 1 \in Indices(list) /\ At(list, k - 1) = x
    <3>1. k - 1 \in Indices(list) /\ (k - 1) + 1 = k
      BY <1>1 DEF Indices
    <3> QED BY <1>2, <2>1, <3>1
  <2>3. i = k - 1
    BY <2>2, FindByIs
  <2> HIDE DEF i
  <2>4. i # -1 /\ i + 1 = k
    BY <1>1, <2>3
  <2> QED BY <1>1, <1>3, <2>1, <2>2, <2>3, <2>4 DEF i, Indices
<1>4. CASE x \notin Elements(list)
  <2>1. i = -1
    BY <1>2, <1>4, FindByIs DEF Elements
  <2> HIDE DEF i
  <2>2. p = Len(list) /\ p \in DOMAIN list
    BY <1>1, <2>1
  <2>3. \A k \in 1 .. Len(list) : LabelHash[list[k]] <= LabelHash[list[Len(list)]]
    <3> SUFFICES ASSUME NEW k \in 1 .. Len(list)
                 PROVE  LabelHash[list[k]] <= LabelHash[list[Len(list)]]
      OBVIOUS
    <3>1. k = Len(list) \/ k < Len(list)
      <4>1. \A n \in Nat : \A j \in 1 .. n : j = n \/ j < n
        OBVIOUS
      <4> QED BY <1>1, <4>1
    <3>2. Len(list) \in 1 .. Len(list)
      BY <1>1
    <3> QED BY <1>1, <3>1, <3>2 DEF Sorts
  <2> QED BY <1>1, <1>4, <2>1, <2>2, <2>3 DEF Elements, IsLast, i
<1> QED BY <1>3, <1>4

-----------------------------------------------------------------------------
(* The invariant.                                                          *)

LEMMA SoundSorts ==
  /\ ArraySound <=> /\ Sorts(servers)
              /\ capacity \in Nat \ {0}
              /\ Len(servers) <= capacity
  /\ Members = Elements(servers)
BY DEF ArraySound, TypeOK, InOrder, Size, Sorts, Members, Elements

LEMMA InsertKeeps ==
  ASSUME ArraySound, NEW x \in Labels, Insert(x)
  PROVE  /\ ArraySound'
         /\ x \notin Members
         /\ Members' = Members \union {x}
<1>1. Sorts(servers) /\ capacity \in Nat \ {0} /\ Len(servers) <= capacity
  BY SoundSorts
<1>2. x \notin Elements(servers)
  BY DEF Insert, Elements
<1>3. servers' = InsertAt(servers, InsertionIndex(servers, x) + 1, x)
  BY DEF Insert
<1>4. /\ Sorts(servers')
      /\ Len(servers') = Len(servers) + 1
      /\ Elements(servers') = Elements(servers) \union {x}
  BY <1>1, <1>2, <1>3, InsertAtSorts
<1>5. capacity' \in Nat \ {0} /\ Len(servers') <= capacity'
  <2>1. Len(servers) \in Nat
    BY <1>1, ElementsOf
  <2>2. capacity' = IF Len(servers) = capacity THEN 2 * capacity ELSE capacity
    BY DEF Insert, Size
  <2> QED BY <1>1, <1>4, <2>1, <2>2
<1>6. ArraySound'
  BY <1>4, <1>5 DEF ArraySound, TypeOK, InOrder, Size, Sorts
<1> QED BY <1>2, <1>4, <1>6 DEF Members, Elements

LEMMA EraseKeeps ==
  ASSUME ArraySound, NEW x \in Labels, Erase(x)
  PROVE  /\ ArraySound'
         /\ \E y \in Members :
              /\ IF x \in Members THEN y = x ELSE IsLast(Members, y)
              /\ Members' = Members \ {y}
<1> DEFINE i == FindBy(servers, x)
           p == IF i = -1 THEN Len(servers) ELSE i + 1
<1>1. Sorts(servers) /\ capacity \in Nat \ {0} /\ Len(servers) <= capacity
  BY SoundSorts
<1>2. servers' = RemoveAt(servers, p) /\ Len(servers) > 0
  BY DEF Erase, Size
<1>3. /\ p \in DOMAIN servers
      /\ x \in Elements(servers) => servers[p] = x
      /\ x \notin Elements(servers) => IsLast(Elements(servers), servers[p])
  BY <1>1, <1>2, FoundIs
<1> HIDE DEF p
<1>4. /\ Sorts(servers')
      /\ Len(servers') = Len(servers) - 1
      /\ Elements(servers') = Elements(servers) \ {servers[p]}
  BY <1>1, <1>2, <1>3, RemoveAtSorts
<1>5. capacity' \in Nat \ {0} /\ Len(servers') <= capacity'
  <2>1. Len(servers) \in Nat
    BY <1>1, ElementsOf
  <2>2. capacity' = IF Len(servers) - 1 < capacity \div 2
                      THEN capacity \div 2 ELSE capacity
    BY DEF Erase, Size
  <2>3. capacity \div 2 \in Nat
    BY <1>1
  <2> QED BY <1>1, <1>2, <1>4, <2>1, <2>2, <2>3
<1>6. ArraySound'
  BY <1>4, <1>5 DEF ArraySound, TypeOK, InOrder, Size, Sorts
<1>7. servers[p] \in Elements(servers)
  BY <1>3 DEF Elements
<1>8. Members = Elements(servers) /\ Members' = Elements(servers')
  BY DEF Members, Elements
<1> QED BY <1>3, <1>4, <1>6, <1>7, <1>8

(* Whatever is inserted and erased, the array is sorted, holds no label    *)
(* twice and stays within its allocation, for any labels with hashes of    *)
(* their own.                                                              *)
THEOREM Invariance == Spec => []ArraySound
<1>1. Init => ArraySound
  BY DEF Init, ArraySound, TypeOK, InOrder, Size
<1>2. ASSUME ArraySound, [Next]_vars PROVE ArraySound'
  <2>1. CASE Next
    BY <1>2, <2>1, InsertKeeps, EraseKeeps DEF Next
  <2>2. CASE UNCHANGED vars
    BY <1>2, <2>2 DEF vars, ArraySound, TypeOK, InOrder, Size
  <2> QED BY <1>2, <2>1, <2>2
<1> QED BY <1>1, <1>2, PTL DEF Spec

(* al_insert never writes past the allocation, nor does al_erase give back *)
(* memory that is in use.                                                  *)
THEOREM TypeCorrect == Spec => []TypeOK
<1>1. ArraySound => TypeOK
  BY DEF ArraySound
<1> QED BY <1>1, Invariance, PTL

(* In an array of any size al_get_ordered answers the owner of every       *)
(* document, which is the first greater element unless there is an equal.  *)
THEOREM FindsOwnerHolds == Spec => []FindsOwner
<1>1. ASSUME ArraySound, servers # << >>, NEW d \in Docs
      PROVE  /\ IsOwner(Members, GetOrdered(servers, DocHash[d]), d)
             /\ Untied(Members, d) =>
                  GetOrdered(servers, DocHash[d]) = FirstGreater(servers, DocHash[d])
  <2> DEFINE n == Len(servers)
             h == DocHash[d]
  <2>1. Sorts(servers) /\ Members = Elements(servers)
    BY <1>1, SoundSorts
  <2>2. n \in Nat /\ DOMAIN servers = 1 .. n /\ n # 0
    <3>1. n \in Nat /\ DOMAIN servers = 1 .. n /\ servers \in Seq(Labels)
      BY <2>1, ElementsOf DEF Sorts
    <3> QED BY <1>1, <3>1, EmptySeq
  <2>3. h \in Nat
    BY LabelsAssumption
  <2>4. PICK k \in 0 .. n :
          /\ \A i \in Indices(servers) : LabelHash[At(servers, i)] >= h <=> i >= k
          /\ OrderedIndex(servers, h) = IF k = n THEN 0 ELSE k
    BY <2>1, <2>3, OrderedIndexIs
  <2>5. ASSUME NEW y \in Members
        PROVE  \E i \in Indices(servers) : At(servers, i) = y
    <3>1. PICK j \in 1 .. n : servers[j] = y
      BY <2>1, <2>2 DEF Elements
    <3>2. j - 1 \in Indices(servers) /\ (j - 1) + 1 = j
      BY <2>2 DEF Indices
    <3> QED BY <2>1, <3>1, <3>2, AtIs
  <2>6. \A i \in Indices(servers) :
          /\ i \in 0 .. n - 1
          /\ At(servers, i) \in Members
          /\ LabelHash[At(servers, i)] \in Nat
          /\ \A j \in Indices(servers) :
               i < j => LabelHash[At(servers, i)] < LabelHash[At(servers, j)]
    BY <2>1, AtIs DEF Elements, Indices
  <2> HIDE DEF n, h
  <2>9. ASSUME Untied(Members, d)
        PROVE  Above(servers, h) = {i \in Indices(servers) : i >= k}
    <3>1. ASSUME NEW i \in Indices(servers)
          PROVE  LabelHash[At(servers, i)] > h <=> i >= k
      <4>1. LabelHash[At(servers, i)] # h
        BY <2>6, <2>9 DEF Untied, h
      <4> QED BY <2>3, <2>4, <2>6, <4>1
    <3> QED BY <3>1 DEF Above
  <2>7. CASE k = n
    <3>1. 0 \in Indices(servers)
      BY <2>2 DEF Indices, n
    <3>2. ASSUME NEW i \in Indices(servers)
          PROVE  /\ LabelHash[At(servers, i)] < h
                 /\ LabelHash[At(servers, 0)] <= LabelHash[At(servers, i)]
      <4>1. ~ (i >= k) /\ (i = 0 \/ 0 < i)
        BY <2>2, <2>6, <2>7
      <4> QED BY <2>3, <2>4, <2>6, <3>1, <4>1
    <3>3. \A y \in Members : /\ LabelHash[y] < h
                             /\ LabelHash[At(servers, 0)] <= LabelHash[y]
      BY <2>5, <3>2
    <3>4. Untied(Members, d) => Above(servers, h) = {}
      BY <2>2, <2>6, <2>7, <2>9
    <3>5. Untied(Members, d) => GetOrdered(servers, h) = FirstGreater(servers, h)
      BY <2>4, <2>7, <3>4 DEF GetOrdered, FirstGreater
    <3> QED BY <2>4, <2>6, <2>7, <3>1, <3>3, <3>5 DEF IsOwner, GetOrdered, h
  <2>8. CASE k # n
    <3>1. k \in Indices(servers) /\ k >= k
      <4>1. k \in 0 .. n - 1 /\ k >= k
        BY <2>2, <2>8
      <4> QED BY <4>1 DEF Indices, n
    <3>2. ASSUME NEW i \in Indices(servers), LabelHash[At(servers, i)] >= h
          PROVE  LabelHash[At(servers, k)] <= LabelHash[At(servers, i)]
      <4>1. i = k \/ k < i
        BY <2>4, <2>6, <3>2
      <4> QED BY <2>6, <3>1, <4>1
    <3>3. \A y \in Members :
            LabelHash[y] >= h => LabelHash[At(servers, k)] <= LabelHash[y]
      BY <2>5, <3>2
    <3>4. LabelHash[At(servers, k)] >= h /\ At(servers, k) \in Members
      BY <2>4, <2>6, <3>1
    <3>5. ASSUME Untied(Members, d)
          PROVE  Above(servers, h) # {} /\ Min(Above(servers, h)) = k
      <4>1. k \in Above(servers, h) /\ \A i \in Above(servers, h) : k <= i
        BY <2>6, <2>9, <3>1, <3>5
      <4>2. \A i \in Above(servers, h) : i \in Int
        BY <2>2, <2>6, <2>9, <3>5
      <4>3. ASSUME NEW m \in Above(servers, h), \A i \in Above(servers, h) : m <= i
            PROVE  m = k
        BY <4>1, <4>2, <4>3
      <4> QED BY <4>1, <4>3 DEF Min
    <3>6. Untied(Members, d) => GetOrdered(servers, h) = FirstGreater(servers, h)
      BY <2>4, <2>8, <3>5 DEF GetOrdered, FirstGreater
    <3> QED BY <2>4, <2>8, <3>3, <3>4, <3>6 DEF IsOwner, GetOrdered, h
  <2> QED BY <2>7, <2>8
<1>2. ArraySound => FindsOwner
  BY <1>1 DEF FindsOwner
<1> QED BY <1>2, Invariance, PTL

(* al_find_by finds every label that is in the array and no other, though  *)
(* its binary search goes the wrong way.                                   *)
THEOREM FindsByIdHolds == Spec => []FindsById
<1>1. ASSUME ArraySound, NEW x \in Labels
      PROVE  IF x \in Members
               THEN /\ FindBy(servers, x) \in 0 .. Size - 1
                    /\ At(servers, FindBy(servers, x)) = x
               ELSE FindBy(servers, x) = -1
  <2>1. Sorts(servers) /\ Members = Elements(servers)
    BY <1>1, SoundSorts
  <2>2. Len(servers) \in Nat /\ DOMAIN servers = 1 .. Len(servers)
    BY <2>1, ElementsOf
  <2>3. CASE Len(servers) > 0
    BY <2>1, <2>3, FoundIs DEF Size
  <2>4. CASE Len(servers) = 0
    <3>1. Elements(servers) = {}
      BY <2>2, <2>4 DEF Elements
    <3>2. \A i \in Indices(servers) : At(servers, i) # x
      BY <2>2, <2>4 DEF Indices
    <3> QED BY <2>1, <3>1, <3>2, FindByIs
  <2> QED BY <2>2, <2>3, <2>4
<1>2. ArraySound => FindsById
  BY <1>1 DEF FindsById
<1> QED BY <1>2, Invariance, PTL

LEMMA NextIndex ==
  ASSUME NEW n \in Nat, NEW i \in 0 .. n - 1
  PROVE  (i + 1) % n = IF i + 1 = n THEN 0 ELSE i + 1
OBVIOUS

(* The index (index + 1) % size is that of the next label on the ring: the *)
(* neighbour a join takes documents from and a removal gives them to.      *)
THEOREM NextIsAdjacentHolds == Spec => []NextIsAdjacent
<1>1. ASSUME ArraySound, NEW i \in 0 .. Size - 1
      PROVE  IsNext(Members, At(servers, i), At(servers, (i + 1) % Size))
  <2> DEFINE n == Len(servers)
             H(j) == LabelHash[At(servers, j)]
  <2>1. Sorts(servers) /\ Members = Elements(servers)
    BY <1>1, SoundSorts
  <2>2. n \in Nat /\ DOMAIN servers = 1 .. n /\ i \in 0 .. n - 1
    BY <2>1, ElementsOf DEF Size
  <2>3. ASSUME NEW z \in Members
        PROVE  \E j \in 0 .. n - 1 : At(servers, j) = z
    <3>1. PICK j \in 1 .. n : servers[j] = z
      BY <2>1, <2>2 DEF Elements
    <3>2. j - 1 \in 0 .. n - 1 /\ (j - 1) + 1 = j
      BY <2>2
    <3> QED BY <2>1, <3>1, <3>2, AtIs DEF Indices
  <2>4. \A j \in 0 .. n - 1 : /\ At(servers, j) \in Members
                              /\ H(j) \in Nat
                              /\ \A k \in 0 .. n - 1 : j < k => H(j) < H(k)
    BY <2>1, AtIs DEF Elements, Indices
  <2>5. (i + 1) % Size = IF i + 1 = n THEN 0 ELSE i + 1
    BY <2>2, NextIndex DEF Size
  <2> HIDE DEF n, H
  <2>6. CASE i + 1 = n
    <3>1. 0 \in 0 .. n - 1
      BY <2>2
    <3>2. \A j \in 0 .. n - 1 : (j = i \/ j < i) /\ (j = 0 \/ 0 < j)
      BY <2>2, <2>6
    <3>3. \A j \in 0 .. n - 1 : H(j) <= H(i) /\ H(0) <= H(j)
      BY <2>2, <2>4, <3>1, <3>2
    <3>4. \A z \in Members : /\ LabelHash[z] <= LabelHash[At(servers, i)]
                             /\ LabelHash[At(servers, 0)] <= LabelHash[z]
      BY <2>3, <3>3 DEF H
    <3> QED BY <2>4, <2>5, <2>6, <3>1, <3>4 DEF IsNext
  <2>7. CASE i + 1 # n
    <3>1. i + 1 \in 0 .. n - 1 /\ i < i + 1
      BY <2>2, <2>7
    <3>2. ASSUME NEW j \in 0 .. n - 1, H(i) < H(j)
          PROVE  H(i + 1) <= H(j)
      <4>1. j < i \/ j = i \/ j = i + 1 \/ i + 1 < j
        BY <2>2
      <4> QED BY <2>2, <2>4, <3>1, <3>2, <4>1
    <3>3. \A z \in Members :
            LabelHash[At(servers, i)] < LabelHash[z]
              => LabelHash[At(servers, i + 1)] <= LabelHash[z]
      BY <2>3, <3>2 DEF H
    <3>4. LabelHash[At(servers, i)] < LabelHash[At(servers, i + 1)]
      BY <2>2, <2>4, <3>1 DEF H
    <3> QED BY <2>4, <2>5, <2>7, <3>1, <3>3, <3>4 DEF IsNext
  <2> QED BY <2>6, <2>7
<1>2. ArraySound => NextIsAdjacent
  BY <1>1 DEF NextIsAdjacent
<1> QED BY <1>2, Invariance, PTL

-----------------------------------------------------------------------------
(* The sorted array implements the set of labels of Ring: an insertion is  *)
(* a join, and an erasure the departure of the same label, whatever the    *)
(* searches did to find it.                                                *)
THEOREM Refinement == Spec => IsTheRing
<1> DEFINE Same == \A x \in Labels : /\ Insert(x) => RingSet!Join(x)
                                     /\ Erase(x) => RingSet!Leave(x)
<1>1. Init => RingSet!Init
  BY DEF Init, RingSet!Init, Members
<1>2. ASSUME ArraySound, NEW x \in Labels, Insert(x)
      PROVE  RingSet!Join(x)
  BY <1>2, InsertKeeps DEF RingSet!Join
<1>3. ASSUME ArraySound, NEW x \in Labels, Erase(x)
      PROVE  RingSet!Leave(x)
  BY <1>3, EraseKeeps DEF RingSet!Leave, RingSet!IsLast, IsLast
<1>4. ArraySound => Same
  BY <1>2, <1>3
<1>5. ASSUME ArraySound, [Next]_vars
      PROVE  [RingSet!Next]_Members
  <2>1. CASE Next
    BY <1>2, <1>3, <1>5, <2>1 DEF Next, RingSet!Next
  <2>2. CASE UNCHANGED vars
    BY <2>2 DEF vars, Members
  <2> QED BY <1>5, <2>1, <2>2
<1> HIDE DEF Same
<1>6. ArraySound => [Same]_vars
  BY <1>4
<1>7. Spec => RingSet!Spec /\ [][Same]_vars
  BY <1>1, <1>5, <1>6, Invariance, PTL DEF Spec, RingSet!Spec
<1> QED BY <1>7 DEF IsTheRing, Same
=============================================================================

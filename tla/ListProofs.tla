----------------------------- MODULE ListProofs -----------------------------
(***************************************************************************)
(* What inserting, removing and freeing do to the nodes that a linked list *)
(* represents, for lists of every length: for the doubly linked list, what *)
(* a cache asks of it first, and for the singly linked one.                *)
(***************************************************************************)
EXTENDS LinkedList, DoublyLinkedList, WellFoundedInduction, FiniteSetTheorems, TLAPS

(* The sequence s with n in front of it, and s without its i-th node. *)
InFront(n, s) == [j \in 1 .. Len(s) + 1 |-> IF j = 1 THEN n ELSE s[j - 1]]

Without(s, i) ==
  [j \in 1 .. Len(s) - 1 |-> IF j < i THEN s[j] ELSE s[j + 1]]

(* The sequence s with n behind its first i nodes. *)
Placed(s, i, n) ==
  [j \in 1 .. Len(s) + 1 |-> CASE j <= i    -> s[j]
                               [] j = i + 1 -> n
                               [] OTHER     -> s[j - 1]]

(* Two lists with the same pointers. *)
SameLinks(l, m) ==
  /\ l.head = m.head /\ l.tail = m.tail /\ l.size = m.size
  /\ l.next = m.next /\ l.prev = m.prev

(* A set of natural numbers that is not empty has a least element. *)
LEMMA LeastElement ==
  ASSUME NEW T \in SUBSET Nat, T # {}
  PROVE  \E x \in T : \A y \in T : x <= y
<1> DEFINE R == OpToRel(<, Nat)
<1>1. IsWellFoundedOn(R, Nat)
  BY NatLessThanWellFounded
<1>2. PICK x \in T : \A y \in T : ~ (<<y, x>> \in R)
  <2> HIDE DEF R
  <2> QED BY <1>1, WFMin
<1>3. \A m, n \in Nat : <<m, n>> \in R <=> m < n
  BY DEF OpToRel
<1>4. \A y \in T : ~ (y < x)
  <2> HIDE DEF R
  <2> QED BY <1>2, <1>3
<1> HIDE DEF R
<1>5. \A y \in T : x <= y
  BY <1>4
<1> QED BY <1>5

(* A node is added to a sequence. *)
LEMMA InFrontType ==
  ASSUME NEW S, NEW s \in Seq(S), NEW n \in S
  PROVE  /\ InFront(n, s) \in Seq(S)
         /\ Len(InFront(n, s)) = Len(s) + 1
         /\ Range(InFront(n, s)) = Range(s) \union {n}
<1> DEFINE t == InFront(n, s)
<1>1. Len(s) \in Nat /\ DOMAIN s = 1 .. Len(s) /\ \A j \in 1 .. Len(s) : s[j] \in S
  OBVIOUS
<1>2. t \in [1 .. Len(s) + 1 -> S]
  BY <1>1 DEF InFront
<1>3. t \in Seq(S) /\ Len(t) = Len(s) + 1
  BY <1>1, <1>2
<1>4. \A x \in Range(t) : x \in Range(s) \union {n}
  BY <1>1 DEF Range, InFront
<1>5. n \in Range(t)
  <2>1. t[1] = n /\ 1 \in DOMAIN t
    BY <1>1 DEF InFront
  <2> QED BY <2>1 DEF Range
<1>6. \A j \in DOMAIN s : s[j] \in Range(t)
  <2> TAKE j \in DOMAIN s
  <2>1. t[j + 1] = s[j] /\ j + 1 \in DOMAIN t
    BY <1>1 DEF InFront
  <2> QED BY <2>1 DEF Range
<1> QED BY <1>3, <1>4, <1>5, <1>6 DEF Range

(* A node is taken from a sequence that has each node once. *)
LEMMA WithoutType ==
  ASSUME NEW S, NEW s \in Seq(S), NEW i \in DOMAIN s,
         \A j, k \in DOMAIN s : s[j] = s[k] => j = k
  PROVE  /\ Without(s, i) \in Seq(S)
         /\ Len(Without(s, i)) = Len(s) - 1
         /\ Range(Without(s, i)) = Range(s) \ {s[i]}
<1> DEFINE t == Without(s, i)
<1>1. /\ Len(s) \in Nat /\ DOMAIN s = 1 .. Len(s) /\ i \in 1 .. Len(s)
      /\ \A j \in 1 .. Len(s) : s[j] \in S
  OBVIOUS
<1>2. Len(s) - 1 \in Nat /\ t \in [1 .. Len(s) - 1 -> S]
  BY <1>1 DEF Without
<1>3. t \in Seq(S) /\ Len(t) = Len(s) - 1
  <2> HIDE DEF t
  <2> DEFINE k == Len(s) - 1
  <2>1. k \in Nat /\ t \in [1 .. k -> S]
    BY <1>2
  <2> HIDE DEF k
  <2>2. t \in Seq(S) /\ Len(t) = k
    BY <2>1
  <2> QED BY <2>2 DEF k
<1>4. \A j \in DOMAIN t : t[j] \in Range(s) \ {s[i]}
  BY <1>1 DEF Range, Without
<1>5. \A j \in DOMAIN s : j # i => s[j] \in Range(t)
  <2> SUFFICES ASSUME NEW j \in DOMAIN s, j # i PROVE s[j] \in Range(t)
    OBVIOUS
  <2>1. CASE j < i
    <3>1. j \in DOMAIN t /\ t[j] = s[j]
      BY <1>1, <2>1 DEF Without
    <3> QED BY <3>1 DEF Range
  <2>2. CASE j > i
    <3>1. j - 1 \in DOMAIN t /\ t[j - 1] = s[j]
      BY <1>1, <2>2 DEF Without
    <3> QED BY <3>1 DEF Range
  <2> QED BY <1>1, <2>1, <2>2
<1> QED BY <1>3, <1>4, <1>5 DEF Range

(* dll_insert_nth at 0 puts a node in front that the list does not have.   *)
LEMMA InsertFirstRepresents ==
  ASSUME NEW l \in DllType, NEW s \in Seq(Nodes), Represents(l, s),
         NEW n \in Nodes, n \notin Range(s)
  PROVE  /\ InsertFirst(l, n) \in DllType
         /\ InsertFirst(l, n).data = l.data
         /\ Represents(InsertFirst(l, n), InFront(n, s))
<1> DEFINE m == InsertFirst(l, n)
           t == InFront(n, s)
<1>1. /\ Len(s) \in Nat /\ DOMAIN s = 1 .. Len(s)
      /\ \A j \in 1 .. Len(s) : s[j] \in Nodes /\ s[j] # n
      /\ s = << >> <=> Len(s) = 0
  BY DEF Range
<1>2. /\ l.head \in Pointer /\ l.tail \in Pointer /\ l.size = Len(s)
      /\ l.next \in [Nodes -> Pointer] /\ l.prev \in [Nodes -> Pointer]
  BY DEF DllType, Represents
<1>3. /\ m.next = [l.next EXCEPT ![n] = l.head]
      /\ m.prev = [x \in Nodes |-> IF x = n THEN Null
                                   ELSE IF x = l.head THEN n ELSE l.prev[x]]
      /\ m.head = n
      /\ m.tail = IF l.size = 0 THEN n ELSE l.tail
      /\ m.size = l.size + 1
      /\ m.data = l.data
      /\ m = [head |-> m.head, tail |-> m.tail, size |-> m.size,
              next |-> m.next, prev |-> m.prev, data |-> m.data]
  BY DEF InsertFirst
<1>4. m.prev \in [Nodes -> Pointer]
  <2>1. \A x \in Nodes : l.prev[x] \in Pointer
    BY <1>2
  <2> HIDE DEF m
  <2> QED BY <1>3, <2>1 DEF Pointer
<1>5. m \in DllType
  <2> HIDE DEF m
  <2> QED BY <1>1, <1>2, <1>3, <1>4 DEF DllType, Pointer
<1>6. /\ t \in Seq(Nodes) /\ Len(t) = Len(s) + 1
      /\ DOMAIN t = 1 .. Len(s) + 1
      /\ \A j \in 1 .. Len(s) + 1 : t[j] = IF j = 1 THEN n ELSE s[j - 1]
  BY InFrontType, <1>1 DEF InFront
<1>7. \A i, j \in DOMAIN s : s[i] = s[j] => i = j
  BY DEF Represents
<1>8. /\ l.head = IF Len(s) = 0 THEN Null ELSE s[1]
      /\ l.tail = IF Len(s) = 0 THEN Null ELSE s[Len(s)]
      /\ \A i \in 1 .. Len(s) :
           /\ l.next[s[i]] = IF i = Len(s) THEN Null ELSE s[i + 1]
           /\ l.prev[s[i]] = IF i = 1 THEN Null ELSE s[i - 1]
  BY <1>1 DEF Represents
<1> HIDE DEF m, t
<1>9. m.size = Len(t) /\ t # << >> /\ m.head = t[1] /\ m.tail = t[Len(t)]
  <2>1. t # << >> /\ m.size = Len(t) /\ m.head = t[1]
    BY <1>1, <1>2, <1>3, <1>6
  <2>2. m.tail = t[Len(t)]
    BY <1>1, <1>2, <1>3, <1>6, <1>8
  <2> QED BY <2>1, <2>2
<1>10. \A i, j \in DOMAIN t : t[i] = t[j] => i = j
  <2> SUFFICES ASSUME NEW i \in 1 .. Len(s) + 1, NEW j \in 1 .. Len(s) + 1,
                      t[i] = t[j]
               PROVE  i = j
    BY <1>6
  <2>1. i = 1 <=> j = 1
    BY <1>1, <1>6
  <2>2. CASE i # 1 /\ j # 1
    BY <1>1, <1>6, <1>7, <2>2
  <2> QED BY <2>1, <2>2
<1>11. \A i \in DOMAIN t :
         /\ m.next[t[i]] = IF i = Len(t) THEN Null ELSE t[i + 1]
         /\ m.prev[t[i]] = IF i = 1 THEN Null ELSE t[i - 1]
  <2> SUFFICES ASSUME NEW i \in 1 .. Len(s) + 1
               PROVE  /\ m.next[t[i]] = IF i = Len(t) THEN Null ELSE t[i + 1]
                      /\ m.prev[t[i]] = IF i = 1 THEN Null ELSE t[i - 1]
    BY <1>6
  <2>1. CASE i = 1
    <3>1. t[i] = n /\ m.next[n] = l.head /\ m.prev[n] = Null
      BY <1>2, <1>3, <1>6, <2>1
    <3>2. Len(s) # 0 => t[2] = s[1]
      BY <1>1, <1>6
    <3>3. l.head = IF Len(s) = 0 THEN Null ELSE s[1]
      BY <1>8
    <3>4. l.head = IF 1 = Len(t) THEN Null ELSE t[1 + 1]
      BY <1>1, <1>6, <3>2, <3>3
    <3> QED BY <2>1, <3>1, <3>4
  <2>2. CASE i > 1
    <3>1. /\ i - 1 \in 1 .. Len(s) /\ t[i] = s[i - 1]
          /\ s[i - 1] # n /\ s[i - 1] \in Nodes
      BY <1>1, <1>6, <2>2
    <3>2. m.next[s[i - 1]] = l.next[s[i - 1]]
      BY <1>2, <1>3, <3>1
    <3>3. l.next[s[i - 1]] = IF i - 1 = Len(s) THEN Null ELSE s[i]
      BY <1>8, <3>1
    <3>4. i # Len(s) + 1 => t[i + 1] = s[i]
      BY <1>1, <1>6, <2>2
    <3>5. m.next[t[i]] = IF i = Len(t) THEN Null ELSE t[i + 1]
      BY <1>1, <1>6, <3>1, <3>2, <3>3, <3>4
    <3>6. m.prev[s[i - 1]] = IF s[i - 1] = l.head THEN n ELSE l.prev[s[i - 1]]
      BY <1>3, <3>1
    <3>7. s[i - 1] = l.head <=> i = 2
      <4>1. Len(s) # 0 /\ 1 \in 1 .. Len(s)
        BY <1>1, <3>1
      <4>3. l.head = s[1]
        BY <1>8, <4>1
      <4>2. s[i - 1] = s[1] <=> i - 1 = 1
        BY <1>1, <1>7, <3>1, <4>1
      <4> QED BY <4>2, <4>3
    <3>8. i # 2 => l.prev[s[i - 1]] = s[i - 2] /\ t[i - 1] = s[i - 2]
      <4>1. l.prev[s[i - 1]] = IF i - 1 = 1 THEN Null ELSE s[i - 1 - 1]
        BY <1>8, <3>1
      <4>2. i # 2 => t[i - 1] = s[i - 1 - 1]
        BY <1>1, <1>6, <2>2
      <4>3. i - 1 - 1 = i - 2
        OBVIOUS
      <4> QED BY <4>1, <4>2, <4>3
    <3> QED BY <1>6, <2>2, <3>1, <3>5, <3>6, <3>7, <3>8
  <2> QED BY <1>1, <2>1, <2>2
<1>12. Represents(m, t)
  BY <1>9, <1>10, <1>11 DEF Represents
<1> QED BY <1>3, <1>5, <1>12 DEF m, t

(* A node is put behind the first i nodes of a sequence. *)
LEMMA PlacedType ==
  ASSUME NEW S, NEW s \in Seq(S), NEW n \in S, NEW i \in 0 .. Len(s)
  PROVE  /\ Placed(s, i, n) \in Seq(S)
         /\ Len(Placed(s, i, n)) = Len(s) + 1
         /\ Range(Placed(s, i, n)) = Range(s) \union {n}
<1> DEFINE k == Len(s)
           t == Placed(s, i, n)
<1>1. k \in Nat /\ i \in 0 .. k /\ DOMAIN s = 1 .. k /\ \A j \in 1 .. k : s[j] \in S
  OBVIOUS
<1>2. t = [j \in 1 .. k + 1 |-> CASE j <= i    -> s[j]
                                  [] j = i + 1 -> n
                                  [] OTHER     -> s[j - 1]]
  BY DEF Placed
<1> HIDE DEF k, t
<1>3. \A j \in 1 .. k + 1 :
        /\ j <= i => t[j] = s[j] /\ j \in 1 .. k
        /\ j = i + 1 => t[j] = n
        /\ j > i + 1 => t[j] = s[j - 1] /\ j - 1 \in 1 .. k
        /\ j <= i \/ j = i + 1 \/ j > i + 1
  <2> TAKE j \in 1 .. k + 1
  <2>1. CASE j <= i
    BY <1>1, <1>2, <2>1
  <2>2. CASE j = i + 1
    BY <1>1, <1>2, <2>2
  <2>3. CASE j > i + 1
    BY <1>1, <1>2, <2>3
  <2> QED BY <1>1, <2>1, <2>2, <2>3
<1>4. t \in [1 .. k + 1 -> S]
  <2>1. \A j \in 1 .. k + 1 : t[j] \in S
    BY <1>1, <1>3
  <2>2. t = [j \in 1 .. k + 1 |-> t[j]]
    BY <1>2
  <2> QED BY <2>1, <2>2
<1>5. t \in Seq(S) /\ Len(t) = k + 1 /\ DOMAIN t = 1 .. k + 1
  BY <1>1, <1>4
<1>6. \A x \in Range(t) : x \in Range(s) \union {n}
  BY <1>1, <1>3, <1>5 DEF Range
<1>7. n \in Range(t)
  <2>1. i + 1 \in 1 .. k + 1 /\ t[i + 1] = n
    BY <1>1, <1>3
  <2> QED BY <1>5, <2>1 DEF Range
<1>8. ASSUME NEW j \in 1 .. k PROVE s[j] \in Range(t)
  <2>1. CASE j <= i
    <3>1. j \in 1 .. k + 1 /\ t[j] = s[j]
      BY <1>1, <1>3, <2>1
    <3> QED BY <1>5, <3>1 DEF Range
  <2>2. CASE ~ (j <= i)
    <3>1. j + 1 \in 1 .. k + 1 /\ j + 1 > i + 1 /\ j + 1 - 1 = j
      BY <1>1, <2>2
    <3>2. t[j + 1] = s[j]
      BY <1>3, <3>1
    <3> QED BY <1>5, <3>1, <3>2 DEF Range
  <2> QED BY <2>1, <2>2
<1> QED BY <1>1, <1>5, <1>6, <1>7, <1>8 DEF Range, k, t

(* dll_insert_nth behind the i-th node puts in a node the list does not have. *)
LEMMA InsertAfterRepresents ==
  ASSUME NEW l \in DllType, NEW s \in Seq(Nodes), Represents(l, s),
         NEW i \in DOMAIN s, NEW n \in Nodes, n \notin Range(s)
  PROVE  /\ InsertAfter(l, s[i], n) \in DllType
         /\ InsertAfter(l, s[i], n).data = l.data
         /\ Represents(InsertAfter(l, s[i], n), Placed(s, i, n))
<1> DEFINE k == Len(s)
           node == s[i]
           after == IF i = k THEN Null ELSE s[i + 1]
           m == InsertAfter(l, node, n)
           t == Placed(s, i, n)
<1>1. /\ k \in Nat /\ DOMAIN s = 1 .. k /\ i \in 1 .. k /\ s # << >>
      /\ \A j \in 1 .. k : s[j] \in Nodes /\ s[j] # n /\ s[j] # Null
  BY NullAssumption DEF Range
<1>2. /\ l.head = s[1] /\ l.tail = s[k] /\ l.size = k
      /\ \A a, b \in 1 .. k : s[a] = s[b] => a = b
      /\ \A j \in 1 .. k : /\ l.next[s[j]] = IF j = k THEN Null ELSE s[j + 1]
                           /\ l.prev[s[j]] = IF j = 1 THEN Null ELSE s[j - 1]
  BY <1>1 DEF Represents
<1>3. /\ l.head \in Pointer /\ l.tail \in Pointer
      /\ l.next \in [Nodes -> Pointer] /\ l.prev \in [Nodes -> Pointer]
      /\ l.data \in [Nodes -> Data \union {Garbage}]
  BY DEF DllType
<1>4. /\ node \in Nodes /\ after \in Pointer /\ l.next[node] = after
      /\ after = Null <=> i = k
      /\ after # n
  <2>1. node \in Nodes /\ l.next[node] = after
    BY <1>1, <1>2
  <2>2. CASE i = k
    BY <2>1, <2>2, NullAssumption DEF Pointer
  <2>3. CASE i # k
    <3>1. i + 1 \in 1 .. k
      BY <1>1, <2>3
    <3>2. after = s[i + 1] /\ s[i + 1] \in Nodes /\ s[i + 1] # n /\ s[i + 1] # Null
      BY <1>1, <2>3, <3>1
    <3> QED BY <2>1, <2>3, <3>2 DEF Pointer
  <2> QED BY <2>2, <2>3
<1>5. /\ m.next = [l.next EXCEPT ![n] = after, ![node] = n]
      /\ m.prev = [x \in Nodes |-> CASE x = n     -> node
                                     [] x = after -> n
                                     [] OTHER     -> l.prev[x]]
      /\ m.head = l.head
      /\ m.tail = IF i = k THEN n ELSE l.tail
      /\ m.size = k + 1
      /\ m.data = l.data
      /\ m = [head |-> m.head, tail |-> m.tail, size |-> m.size,
              next |-> m.next, prev |-> m.prev, data |-> m.data]
  <2>1. /\ l.next[node] = after /\ (after = Null <=> i = k) /\ l.size = k
        /\ l = [head |-> l.head, tail |-> l.tail, size |-> l.size,
                next |-> l.next, prev |-> l.prev, data |-> l.data]
    BY <1>2, <1>4 DEF DllType
  <2> HIDE DEF after, node, k
  <2> QED BY <2>1 DEF InsertAfter
<1>6. \A j \in 1 .. k : /\ s[j] = node <=> j = i
                        /\ s[j] = after <=> j = i + 1
  <2> TAKE j \in 1 .. k
  <2>1. s[j] = node <=> j = i
    BY <1>1, <1>2
  <2>2. CASE i = k
    <3>1. after = Null /\ j # i + 1 /\ s[j] # Null
      BY <1>1, <2>2
    <3> QED BY <2>1, <3>1
  <2>3. CASE i # k
    <3>1. i + 1 \in 1 .. k /\ after = s[i + 1]
      BY <1>1, <2>3
    <3> QED BY <1>2, <2>1, <3>1
  <2> QED BY <2>2, <2>3
<1>7. /\ t \in Seq(Nodes) /\ Len(t) = k + 1 /\ DOMAIN t = 1 .. k + 1
      /\ t = [j \in 1 .. k + 1 |-> CASE j <= i    -> s[j]
                                     [] j = i + 1 -> n
                                     [] OTHER     -> s[j - 1]]
  <2>1. i \in 0 .. Len(s)
    BY <1>1
  <2> QED BY <2>1, PlacedType DEF Placed
<1>8. (i = k => after = Null) /\ (i # k => after = s[i + 1]) /\ node = s[i]
  OBVIOUS
<1> HIDE DEF m, t, after, node, k
<1>9. /\ \A j \in 1 .. i : t[j] = s[j]
      /\ t[i + 1] = n
      /\ \A j \in i + 1 .. k : t[j + 1] = s[j]
  <2>1. \A j \in 1 .. i : t[j] = s[j]
    BY <1>1, <1>7
  <2>2. t[i + 1] = n
    BY <1>1, <1>7
  <2>3. ASSUME NEW j \in i + 1 .. k PROVE t[j + 1] = s[j]
    <3>1. /\ j + 1 \in 1 .. k + 1 /\ ~ (j + 1 <= i) /\ j + 1 # i + 1
          /\ j + 1 - 1 = j
      BY <1>1
    <3> QED BY <1>7, <3>1
  <2> QED BY <2>1, <2>2, <2>3
<1>10. m \in DllType
  <2>1. \A x \in Nodes : m.prev[x] \in Pointer
    BY <1>3, <1>4, <1>5 DEF Pointer
  <2>2. m.prev \in [Nodes -> Pointer]
    <3>1. m.prev = [x \in Nodes |-> m.prev[x]]
      BY <1>5
    <3> QED BY <2>1, <3>1
  <2>3. m.next \in [Nodes -> Pointer]
    BY <1>3, <1>4, <1>5 DEF Pointer
  <2>4. m.head \in Pointer /\ m.tail \in Pointer /\ m.size \in Nat
    BY <1>1, <1>3, <1>5 DEF Pointer
  <2> QED BY <1>3, <1>5, <2>2, <2>3, <2>4 DEF DllType
<1>11. \A j \in 1 .. k :
         /\ j # i => m.next[s[j]] = IF j = k THEN Null ELSE s[j + 1]
         /\ j # i + 1 => m.prev[s[j]] = IF j = 1 THEN Null ELSE s[j - 1]
         /\ j = i + 1 => m.prev[s[j]] = n
  <2> TAKE j \in 1 .. k
  <2>1. s[j] \in Nodes /\ s[j] # n
    BY <1>1
  <2>2. j # i => m.next[s[j]] = l.next[s[j]]
    BY <1>3, <1>5, <1>6, <2>1
  <2>3. m.prev[s[j]] = IF j = i + 1 THEN n ELSE l.prev[s[j]]
    BY <1>5, <1>6, <2>1
  <2> QED BY <1>2, <2>2, <2>3
<1>12. /\ m.next[s[i]] = n /\ m.next[n] = after /\ m.prev[n] = s[i]
  <2>1. s[i] = node /\ node # n /\ node \in Nodes /\ after # n
    BY <1>1, <1>4, <1>8
  <2>2. m.next[node] = n /\ m.next[n] = after
    BY <1>3, <1>5, <2>1
  <2>3. m.prev[n] = node
    BY <1>5, <2>1
  <2> QED BY <2>1, <2>2, <2>3
<1>13. ASSUME NEW j \in 1 .. i
       PROVE  /\ m.next[t[j]] = t[j + 1]
              /\ m.prev[t[j]] = IF j = 1 THEN Null ELSE t[j - 1]
  <2>1. j \in 1 .. k /\ t[j] = s[j] /\ j # k + 1 /\ j # i + 1
    BY <1>1, <1>9
  <2>2. j # 1 => t[j - 1] = s[j - 1]
    BY <1>1, <1>9
  <2>3. CASE j = i
    BY <1>9, <1>11, <1>12, <2>1, <2>2, <2>3
  <2>4. CASE j # i
    <3>1. j # k /\ t[j + 1] = s[j + 1]
      BY <1>1, <1>9, <2>4
    <3> QED BY <1>11, <2>1, <2>2, <2>4, <3>1
  <2> QED BY <2>3, <2>4
<1>14. /\ m.next[t[i + 1]] = IF i = k THEN Null ELSE t[i + 1 + 1]
       /\ m.prev[t[i + 1]] = t[i]
  <2>1. i # k => t[i + 1 + 1] = s[i + 1]
    BY <1>1, <1>9
  <2>2. t[i] = s[i] /\ t[i + 1] = n
    BY <1>1, <1>9
  <2> QED BY <1>8, <1>12, <2>1, <2>2
<1>15. ASSUME NEW j \in i + 1 .. k
       PROVE  /\ m.next[t[j + 1]] = IF j = k THEN Null ELSE t[j + 1 + 1]
              /\ m.prev[t[j + 1]] = t[j]
  <2>1. j \in 1 .. k /\ j # i /\ j # 1 /\ t[j + 1] = s[j]
    BY <1>1, <1>9
  <2>2. j # k => t[j + 1 + 1] = s[j + 1]
    BY <1>1, <1>9
  <2>3. CASE j = i + 1
    <3>1. t[j] = n
      BY <1>9, <2>3
    <3> QED BY <1>11, <2>1, <2>2, <2>3, <3>1
  <2>4. CASE j # i + 1
    <3>1. j - 1 \in i + 1 .. k /\ j - 1 + 1 = j
      BY <1>1, <2>4
    <3>2. t[j] = s[j - 1]
      BY <1>9, <3>1
    <3> QED BY <1>11, <2>1, <2>2, <2>4, <3>2
  <2> QED BY <2>3, <2>4
<1>16. \A j \in 1 .. k + 1 :
         /\ m.next[t[j]] = IF j = k + 1 THEN Null ELSE t[j + 1]
         /\ m.prev[t[j]] = IF j = 1 THEN Null ELSE t[j - 1]
  <2> TAKE j \in 1 .. k + 1
  <2>1. CASE j \in 1 .. i
    <3>1. j # k + 1
      BY <1>1, <2>1
    <3> QED BY <1>13, <2>1, <3>1
  <2>2. CASE j = i + 1
    <3>1. j # 1 /\ j - 1 = i /\ (j = k + 1 <=> i = k)
      BY <1>1, <2>2
    <3> QED BY <1>14, <2>2, <3>1
  <2>3. CASE j \in i + 2 .. k + 1
    <3>1. /\ j - 1 \in i + 1 .. k /\ j - 1 + 1 = j /\ j - 1 + 1 + 1 = j + 1
          /\ j # 1 /\ (j = k + 1 <=> j - 1 = k)
      BY <1>1, <2>3
    <3> QED BY <1>15, <3>1
  <2> QED BY <1>1, <2>1, <2>2, <2>3
<1>17. \A a, b \in 1 .. k + 1 : t[a] = t[b] => a = b
  <2> SUFFICES ASSUME NEW a \in 1 .. k + 1, NEW b \in 1 .. k + 1, t[a] = t[b]
               PROVE  a = b
    OBVIOUS
  <2> DEFINE at(j) == IF j <= i THEN j ELSE j - 1
  <2>1. \A j \in 1 .. k + 1 : /\ j = i + 1 => t[j] = n
                              /\ j # i + 1 => at(j) \in 1 .. k /\ t[j] = s[at(j)]
    BY <1>1, <1>7
  <2>2. a = i + 1 <=> b = i + 1
    <3> HIDE DEF at
    <3> QED BY <1>1, <2>1
  <2>3. CASE a # i + 1
    <3>1. at(a) = at(b)
      <4>1. /\ at(a) \in 1 .. k /\ t[a] = s[at(a)]
            /\ at(b) \in 1 .. k /\ t[b] = s[at(b)]
        BY <2>1, <2>2, <2>3
      <4> HIDE DEF at
      <4> QED BY <1>2, <4>1
    <3> QED BY <1>1, <2>2, <2>3, <3>1
  <2> QED BY <2>2, <2>3
<1>18. m.head = t[1] /\ m.tail = t[k + 1] /\ t # << >>
  <2>1. t[1] = s[1] /\ t # << >>
    BY <1>1, <1>7, <1>9
  <2>2. CASE i = k
    BY <1>2, <1>5, <1>9, <2>1, <2>2
  <2>3. CASE i # k
    <3>1. t[k + 1] = s[k]
      BY <1>1, <1>9, <2>3
    <3> QED BY <1>2, <1>5, <2>1, <2>3, <3>1
  <2> QED BY <2>2, <2>3
<1>19. Represents(m, t)
  <2>1. DOMAIN t = 1 .. k + 1 /\ Len(t) = k + 1 /\ m.size = k + 1
    BY <1>5, <1>7
  <2> QED BY <1>16, <1>17, <1>18, <2>1, Zenon DEF Represents
<1> QED BY <1>5, <1>10, <1>19 DEF m, t, node

(* dll_remove_node takes out the node it is given, wherever it stands.     *)
THEOREM RemoveNodeRepresents ==
  ASSUME NEW l \in DllType, NEW s \in Seq(Nodes), Represents(l, s),
         NEW i \in DOMAIN s
  PROVE  /\ RemoveNode(l, s[i]) \in DllType
         /\ RemoveNode(l, s[i]).data = l.data
         /\ Represents(RemoveNode(l, s[i]), Without(s, i))
<1> DEFINE m == RemoveNode(l, s[i])
           t == Without(s, i)
           k == Len(s) - 1
           before == IF i = 1 THEN Null ELSE s[i - 1]
           after == IF i = Len(s) THEN Null ELSE s[i + 1]
<1>1. /\ Len(s) \in Nat /\ DOMAIN s = 1 .. Len(s)
      /\ \A j \in 1 .. Len(s) : s[j] \in Nodes
      /\ i \in 1 .. Len(s)
      /\ s # << >> /\ k \in Nat
  OBVIOUS
<1>2. /\ l.head \in Pointer /\ l.tail \in Pointer /\ l.size = Len(s)
      /\ l.next \in [Nodes -> Pointer] /\ l.prev \in [Nodes -> Pointer]
  BY DEF DllType, Represents
<1>3. \A a, b \in 1 .. Len(s) : s[a] = s[b] => a = b
  BY <1>1 DEF Represents
<1>4. l.head = s[1] /\ l.tail = s[Len(s)]
  BY <1>1 DEF Represents
<1>5. \A j \in 1 .. Len(s) :
        /\ l.next[s[j]] = IF j = Len(s) THEN Null ELSE s[j + 1]
        /\ l.prev[s[j]] = IF j = 1 THEN Null ELSE s[j - 1]
  BY <1>1 DEF Represents
<1>6. l.prev[s[i]] = before /\ l.next[s[i]] = after
  BY <1>1, <1>5
<1>7. /\ before \in Pointer /\ after \in Pointer
      /\ before = Null <=> i = 1
      /\ after = Null <=> i = Len(s)
  BY <1>1, NullAssumption DEF Pointer
<1>20. \A a \in 1 .. Len(s) : s[a] = before <=> a = i - 1
  <2> SUFFICES ASSUME NEW a \in 1 .. Len(s)
               PROVE  s[a] = before <=> a = i - 1
    OBVIOUS
  <2>1. CASE i = 1
    BY <1>1, <2>1, NullAssumption
  <2>2. CASE i # 1
    <3>1. before = s[i - 1] /\ i - 1 \in 1 .. Len(s)
      BY <1>1, <2>2
    <3> QED BY <1>3, <3>1
  <2> QED BY <2>1, <2>2
<1>21. \A a \in 1 .. Len(s) : s[a] = after <=> a = i + 1
  <2> SUFFICES ASSUME NEW a \in 1 .. Len(s)
               PROVE  s[a] = after <=> a = i + 1
    OBVIOUS
  <2>1. CASE i = Len(s)
    BY <1>1, <2>1, NullAssumption
  <2>2. CASE i # Len(s)
    <3>1. after = s[i + 1] /\ i + 1 \in 1 .. Len(s)
      BY <1>1, <2>2
    <3> QED BY <1>3, <3>1
  <2> QED BY <2>1, <2>2
<1>8. /\ m.head = IF before = Null THEN after ELSE l.head
      /\ m.tail = IF after = Null THEN before ELSE l.tail
      /\ m.size = l.size - 1
      /\ m.next = [n \in Nodes |-> IF n = before THEN after ELSE l.next[n]]
      /\ m.prev = [n \in Nodes |-> IF n = after THEN before ELSE l.prev[n]]
      /\ m.data = l.data
      /\ m = [head |-> m.head, tail |-> m.tail, size |-> m.size,
              next |-> m.next, prev |-> m.prev, data |-> m.data]
  <2> HIDE DEF before, after
  <2> QED BY <1>6 DEF RemoveNode
<1>9. m \in DllType
  <2>1. l.size - 1 \in Nat /\ l.data \in [Nodes -> Data \union {Garbage}]
    BY <1>1, <1>2 DEF DllType
  <2> HIDE DEF m, before, after
  <2>2. m.next \in [Nodes -> Pointer] /\ m.prev \in [Nodes -> Pointer]
    BY <1>2, <1>7, <1>8
  <2>3. m.head \in Pointer /\ m.tail \in Pointer
    BY <1>2, <1>7, <1>8
  <2> QED BY <1>8, <2>1, <2>2, <2>3 DEF DllType
<1>10. /\ t \in Seq(Nodes) /\ Len(t) = k /\ DOMAIN t = 1 .. k
       /\ \A j \in 1 .. k : t[j] = IF j < i THEN s[j] ELSE s[j + 1]
  <2>1. t \in Seq(Nodes) /\ Len(t) = k
    BY <1>1, <1>3, WithoutType
  <2>2. DOMAIN t = 1 .. k /\ \A j \in 1 .. k : t[j] = IF j < i THEN s[j] ELSE s[j + 1]
    BY DEF Without
  <2> QED BY <2>1, <2>2
<1>11. Len(s) = k + 1
  BY <1>1
<1> HIDE DEF m, t, k
<1>12. t = << >> <=> k = 0
  BY <1>1, <1>10
<1>13. m.head = IF k = 0 THEN Null ELSE t[1]
  <2>1. CASE i = 1
    <3>1. m.head = after
      BY <1>7, <1>8, <2>1
    <3>2. k # 0 => t[1] = s[2]
      BY <1>1, <1>10, <2>1
    <3>3. after = IF k = 0 THEN Null ELSE s[2]
      BY <1>1, <1>11, <2>1
    <3> QED BY <3>1, <3>2, <3>3
  <2>2. CASE i # 1
    <3>1. m.head = s[1]
      BY <1>4, <1>7, <1>8, <2>2
    <3>2. k # 0 /\ t[1] = s[1]
      BY <1>1, <1>10, <1>11, <2>2
    <3> QED BY <3>1, <3>2
  <2> QED BY <2>1, <2>2
<1>14. m.tail = IF k = 0 THEN Null ELSE t[k]
  <2>1. CASE i = Len(s)
    <3>1. m.tail = before
      BY <1>7, <1>8, <2>1
    <3>2. k # 0 => t[k] = s[k]
      BY <1>1, <1>10, <1>11, <2>1
    <3>3. i = k + 1 /\ i - 1 = k
      BY <1>1, <1>11, <2>1
    <3>4. before = IF k = 0 THEN Null ELSE s[k]
      BY <1>1, <3>3
    <3> QED BY <3>1, <3>2, <3>4
  <2>2. CASE i # Len(s)
    <3>1. m.tail = s[Len(s)]
      BY <1>4, <1>7, <1>8, <2>2
    <3>2. k # 0 /\ t[k] = s[k + 1]
      BY <1>1, <1>10, <1>11, <2>2
    <3> QED BY <1>11, <3>1, <3>2
  <2> QED BY <2>1, <2>2
<1>15. \A a, b \in 1 .. k : t[a] = t[b] => a = b
  <2> SUFFICES ASSUME NEW a \in 1 .. k, NEW b \in 1 .. k, t[a] = t[b]
               PROVE  a = b
    OBVIOUS
  <2> DEFINE at(j) == IF j < i THEN j ELSE j + 1
  <2>1. /\ at(a) \in 1 .. Len(s) /\ at(b) \in 1 .. Len(s)
        /\ t[a] = s[at(a)] /\ t[b] = s[at(b)]
    BY <1>1, <1>10, <1>11
  <2>2. at(a) = at(b)
    <3> HIDE DEF at
    <3> QED BY <1>3, <2>1
  <2> QED BY <1>1, <2>2
<1>22. /\ before = IF i = 1 THEN Null ELSE s[i - 1]
       /\ after = IF i = Len(s) THEN Null ELSE s[i + 1]
  OBVIOUS
<1> HIDE DEF before, after
<1>16. ASSUME NEW j \in 1 .. k, j < i
       PROVE  /\ m.next[t[j]] = IF j = k THEN Null ELSE t[j + 1]
              /\ m.prev[t[j]] = IF j = 1 THEN Null ELSE t[j - 1]
  <2>1. /\ j \in 1 .. Len(s) /\ t[j] = s[j] /\ s[j] \in Nodes /\ j # Len(s)
        /\ l.next[s[j]] = s[j + 1]
        /\ l.prev[s[j]] = IF j = 1 THEN Null ELSE s[j - 1]
    BY <1>1, <1>5, <1>10, <1>11, <1>16
  <2>2. s[j] = before <=> j = i - 1
    BY <1>20, <2>1
  <2>3. s[j] # after
    <3>1. s[j] = after <=> j = i + 1
      BY <1>21, <2>1
    <3>2. j # i + 1
      BY <1>1, <1>16
    <3> QED BY <3>1, <3>2
  <2>4. m.prev[s[j]] = l.prev[s[j]]
    BY <1>8, <2>1, <2>3
  <2>5. j # 1 => t[j - 1] = s[j - 1]
    BY <1>1, <1>10, <1>16
  <2>6. CASE j = i - 1
    <3>1. m.next[s[j]] = after
      BY <1>8, <2>1, <2>2, <2>6
    <3>2. j # k => t[j + 1] = s[i + 1]
      BY <1>1, <1>10, <2>6
    <3>3. j = k <=> i = Len(s)
      BY <1>1, <1>11, <2>6
    <3> QED BY <1>22, <2>1, <2>4, <2>5, <3>1, <3>2, <3>3
  <2>7. CASE j # i - 1
    <3>1. m.next[s[j]] = s[j + 1]
      BY <1>8, <2>1, <2>2, <2>7
    <3>2. j # k /\ t[j + 1] = s[j + 1]
      BY <1>1, <1>10, <1>11, <1>16, <2>7
    <3> QED BY <2>1, <2>4, <2>5, <3>1, <3>2
  <2> QED BY <2>6, <2>7
<1>17. ASSUME NEW j \in 1 .. k, j >= i
       PROVE  /\ m.next[t[j]] = IF j = k THEN Null ELSE t[j + 1]
              /\ m.prev[t[j]] = IF j = 1 THEN Null ELSE t[j - 1]
  <2>1. /\ j + 1 \in 1 .. Len(s) /\ t[j] = s[j + 1] /\ s[j + 1] \in Nodes
        /\ j + 1 = Len(s) <=> j = k
    BY <1>1, <1>10, <1>11, <1>17
  <2>2. /\ l.next[s[j + 1]] = IF j = k THEN Null ELSE s[j + 1 + 1]
        /\ l.prev[s[j + 1]] = s[j + 1 - 1]
    BY <1>5, <2>1
  <2>3. s[j + 1] # before
    <3>1. s[j + 1] = before <=> j + 1 = i - 1
      BY <1>20, <2>1
    <3>2. j + 1 # i - 1
      BY <1>1, <1>17
    <3> QED BY <3>1, <3>2
  <2>4. s[j + 1] = after <=> j = i
    <3>1. s[j + 1] = after <=> j + 1 = i + 1
      BY <1>21, <2>1
    <3>2. j + 1 = i + 1 <=> j = i
      BY <1>1, <1>17
    <3> QED BY <3>1, <3>2
  <2>5. m.next[s[j + 1]] = l.next[s[j + 1]]
    BY <1>8, <2>1, <2>3
  <2>6. j # k => t[j + 1] = s[j + 1 + 1]
    BY <1>1, <1>10, <1>17
  <2>7. m.next[t[j]] = IF j = k THEN Null ELSE t[j + 1]
    BY <2>1, <2>2, <2>5, <2>6
  <2>8. CASE j = i
    <3>1. m.prev[s[j + 1]] = before
      BY <1>8, <2>1, <2>4, <2>8
    <3>2. j # 1 => t[j - 1] = s[i - 1]
      BY <1>1, <1>10, <2>8
    <3> QED BY <1>22, <2>1, <2>7, <2>8, <3>1, <3>2
  <2>9. CASE j # i
    <3>1. m.prev[s[j + 1]] = s[j + 1 - 1]
      BY <1>8, <2>1, <2>2, <2>4, <2>9
    <3>2. j # 1 /\ t[j - 1] = s[j - 1 + 1]
      BY <1>1, <1>10, <1>17, <2>9
    <3>3. j + 1 - 1 = j - 1 + 1
      OBVIOUS
    <3> QED BY <2>1, <2>7, <3>1, <3>2, <3>3
  <2> QED BY <2>8, <2>9
<1>18. \A j \in 1 .. k : j < i \/ j >= i
  BY <1>1
<1>19. Represents(m, t)
  <2>1. \A j \in 1 .. k : /\ m.next[t[j]] = IF j = k THEN Null ELSE t[j + 1]
                          /\ m.prev[t[j]] = IF j = 1 THEN Null ELSE t[j - 1]
    BY <1>16, <1>17, <1>18
  <2>2. m.size = k
    BY <1>1, <1>2, <1>8, <1>11
  <2> QED BY <1>10, <1>12, <1>13, <1>14, <1>15, <2>1, <2>2 DEF Represents
<1> QED BY <1>8, <1>9, <1>19 DEF m, t

(* The nodes that dll_free frees are the ones the list represents.         *)
THEOREM MetAreRepresented ==
  ASSUME NEW l \in DllType, NEW s \in Seq(Nodes), Represents(l, s)
  PROVE  Met(l) = Range(s)
<1>1. /\ Len(s) \in Nat /\ DOMAIN s = 1 .. Len(s)
      /\ \A j \in 1 .. Len(s) : s[j] \in Nodes
      /\ s = << >> <=> Len(s) = 0
  OBVIOUS
<1>2. /\ l.head = IF Len(s) = 0 THEN Null ELSE s[1]
      /\ \A i \in 1 .. Len(s) : l.next[s[i]] = IF i = Len(s) THEN Null ELSE s[i + 1]
  BY <1>1 DEF Represents
<1>3. Range(s) \subseteq Nodes /\ \A x \in Range(s) : \E j \in 1 .. Len(s) : x = s[j]
  BY <1>1 DEF Range
<1>4. \A j \in 1 .. Len(s) : s[j] \in Range(s)
  BY <1>1 DEF Range
<1>5. ASSUME NEW n \in Met(l) PROVE n \in Range(s)
  <2>1. l.head \in Range(s) \union {Null}
    <3>1. Len(s) # 0 => 1 \in 1 .. Len(s)
      BY <1>1
    <3> QED BY <1>2, <1>4, <3>1
  <2>2. \A m \in Range(s) : l.next[m] \in Range(s) \union {Null}
    <3> SUFFICES ASSUME NEW j \in 1 .. Len(s)
                 PROVE  l.next[s[j]] \in Range(s) \union {Null}
      BY <1>3
    <3>1. j # Len(s) => j + 1 \in 1 .. Len(s)
      <4>1. Len(s) \in Nat
        OBVIOUS
      <4> DEFINE k == Len(s)
      <4> HIDE DEF k
      <4>2. \A x \in 1 .. k : x # k => x + 1 \in 1 .. k
        BY <4>1 DEF k
      <4> QED BY <4>2 DEF k
    <3> QED BY <1>2, <1>4, <3>1
  <2> QED BY <1>3, <1>5, <2>1, <2>2 DEF Met
<1>6. ASSUME NEW S \in SUBSET Nodes,
             l.head \in S \union {Null},
             \A m \in S : l.next[m] \in S \union {Null}
      PROVE  Range(s) \subseteq S
  <2> DEFINE T == {j \in 1 .. Len(s) : s[j] \notin S}
  <2>1. T \in SUBSET Nat
    BY <1>1
  <2>2. T = {}
    <3>1. SUFFICES ASSUME T # {} PROVE FALSE
      OBVIOUS
    <3>2. PICK x \in T : \A y \in T : x <= y
      <4> HIDE DEF T
      <4> QED BY <2>1, <3>1, LeastElement
    <3>3. x \in 1 .. Len(s) /\ s[x] \notin S /\ s[x] \in Nodes
      BY <1>1, <3>2
    <3>4. x # 1
      <4>1. Len(s) # 0
        BY <1>1, <3>3
      <4> QED BY <1>2, <1>6, <3>3, <4>1, NullAssumption
    <3>5. x - 1 \in 1 .. Len(s) /\ x - 1 # Len(s) /\ x - 1 + 1 = x /\ ~ (x <= x - 1)
      BY <1>1, <3>3, <3>4
    <3>6. s[x - 1] \in S
      BY <3>2, <3>5
    <3>7. l.next[s[x - 1]] = s[x]
      BY <1>2, <3>5
    <3> QED BY <1>6, <3>3, <3>6, <3>7, NullAssumption
  <2> QED BY <1>3, <2>2
<1>7. ASSUME NEW n \in Range(s) PROVE n \in Met(l)
  <2>1. n \in Nodes
    BY <1>3, <1>7
  <2> QED BY <1>6, <1>7, <2>1 DEF Met
<1> QED BY <1>5, <1>7

-----------------------------------------------------------------------------
(* The nodes that k steps from each pointer visit, given those of k - 1    *)
FromEach(along, steps, k) ==
  [n \in Pointer |-> IF k = 0 \/ n = Null THEN << >>
                     ELSE <<n>> \o steps[k - 1][along[n]]]

FollowsUpTo(along, steps, k) == steps = [j \in 0 .. k |-> FromEach(along, steps, j)]

(* What is visited in no step does not depend on anything, and in more     *)
(* only on what is visited in one less.                                    *)
LEMMA FromEachAgrees ==
  ASSUME NEW along, NEW f, NEW g, NEW k, k = 0 \/ f[k - 1] = g[k - 1]
  PROVE  FromEach(along, f, k) = FromEach(along, g, k)
BY Zenon DEF FromEach

(* The recursion in Walk defines a function. *)
LEMMA StepsExist ==
  ASSUME NEW along, NEW c \in Nat
  PROVE  \E f : FollowsUpTo(along, f, c)
<1> DEFINE T == {k \in Nat : ~ \E f : FollowsUpTo(along, f, k)}
<1>1. SUFFICES ASSUME T # {} PROVE FALSE
  OBVIOUS
<1>2. PICK k \in T : \A j \in T : k <= j
  <2>1. T \in SUBSET Nat
    OBVIOUS
  <2> HIDE DEF T
  <2> QED BY <1>1, <2>1, LeastElement
<1>3. CASE k = 0
  <2> DEFINE g == [j \in 0 .. 0 |-> FromEach(along, << >>, j)]
  <2>1. \A j \in 0 .. 0 : FromEach(along, g, j) = FromEach(along, << >>, j)
    BY FromEachAgrees
  <2>2. g = [j \in 0 .. 0 |-> FromEach(along, g, j)]
    <3> HIDE DEF g
    <3>1. g = [j \in 0 .. 0 |-> FromEach(along, << >>, j)]
      BY DEF g
    <3> QED BY <2>1, <3>1
  <2> HIDE DEF g
  <2> QED BY <1>2, <1>3, <2>2 DEF FollowsUpTo
<1>4. CASE k # 0
  <2>1. k \in Nat /\ k - 1 \in Nat /\ ~ (k <= k - 1) /\ k - 1 \in 0 .. k - 1
    BY <1>2, <1>4
  <2>2. PICK f : FollowsUpTo(along, f, k - 1)
    BY <1>2, <2>1
  <2> DEFINE g == [j \in 0 .. k |-> IF j = k THEN FromEach(along, f, k) ELSE f[j]]
  <2>3. \A j \in 0 .. k - 1 : f[j] = FromEach(along, f, j) /\ g[j] = f[j]
    BY <2>1, <2>2 DEF FollowsUpTo
  <2>4. g[k] = FromEach(along, f, k)
    BY <2>1
  <2> HIDE DEF g
  <2>5. \A j \in 0 .. k : g[j] = FromEach(along, g, j)
    <3> TAKE j \in 0 .. k
    <3>1. j = 0 \/ j - 1 \in 0 .. k - 1
      BY <2>1
    <3>2. j = 0 \/ f[j - 1] = g[j - 1]
      BY <2>3, <3>1
    <3>3. FromEach(along, f, j) = FromEach(along, g, j)
      BY <3>2, FromEachAgrees
    <3>4. g[j] = FromEach(along, f, j)
      <4>1. j = k \/ j \in 0 .. k - 1
        BY <2>1
      <4> QED BY <2>3, <2>4, <4>1
    <3> QED BY <3>3, <3>4
  <2>6. g = [j \in 0 .. k |-> g[j]]
    BY DEF g
  <2>7. g = [j \in 0 .. k |-> FromEach(along, g, j)]
    BY <2>5, <2>6
  <2> QED BY <1>2, <2>7 DEF FollowsUpTo
<1> QED BY <1>3, <1>4

(* What follows the first i - 1 members of a sequence *)
Suffix(s, i) == [j \in 1 .. Len(s) + 1 - i |-> s[i - 1 + j]]

LEMMA SuffixUnfolds ==
  ASSUME NEW S, NEW s \in Seq(S), NEW i \in 1 .. Len(s)
  PROVE  Suffix(s, i) = <<s[i]>> \o Suffix(s, i + 1)
<1> DEFINE k == Len(s) - i
           t == Suffix(s, i + 1)
<1>1. /\ Len(s) \in Nat /\ i \in 1 .. Len(s) /\ k \in Nat
      /\ \A j \in 1 .. Len(s) : s[j] \in S
  OBVIOUS
<1>2. Len(s) + 1 - (i + 1) = k /\ Len(s) + 1 - i = k + 1
  BY <1>1
<1>3. t = [j \in 1 .. k |-> s[i + j]]
  BY <1>1, <1>2 DEF Suffix
<1>4. t \in Seq(S) /\ Len(t) = k /\ \A j \in 1 .. k : t[j] = s[i + j]
  <2>1. t \in [1 .. k -> S]
    BY <1>1, <1>3
  <2> HIDE DEF k
  <2> QED BY <1>1, <1>3, <2>1
<1>5. <<s[i]>> \in Seq(S) /\ Len(<<s[i]>>) = 1
  BY <1>1
<1> DEFINE u == <<s[i]>> \o t
<1> HIDE DEF t, k
<1>6. /\ u \in Seq(S) /\ Len(u) = 1 + k
      /\ u[1] = s[i] /\ \A j \in 2 .. k + 1 : u[j] = t[j - 1]
  BY <1>1, <1>4, <1>5
<1> HIDE DEF u
<1>7. \A j \in 1 .. k + 1 : u[j] = s[i - 1 + j]
  <2> TAKE j \in 1 .. k + 1
  <2>1. CASE j = 1
    BY <1>1, <1>6, <2>1
  <2>2. CASE j # 1
    <3>1. j \in 2 .. k + 1 /\ j - 1 \in 1 .. k /\ i + (j - 1) = i - 1 + j
      BY <1>1, <2>2
    <3> QED BY <1>4, <1>6, <3>1
  <2> QED BY <2>1, <2>2
<1>8. u = [j \in 1 .. k + 1 |-> s[i - 1 + j]]
  BY <1>1, <1>6, <1>7
<1> QED BY <1>2, <1>8 DEF Suffix, u, t

(* A walk visits the nodes of a sequence that its pointers lead along.     *)
LEMMA WalkVisits ==
  ASSUME NEW along \in [Nodes -> Pointer], NEW start, NEW s \in Seq(Nodes),
         \A i, j \in DOMAIN s : s[i] = s[j] => i = j,
         start = IF s = << >> THEN Null ELSE s[1],
         \A i \in DOMAIN s : along[s[i]] = IF i = Len(s) THEN Null ELSE s[i + 1]
  PROVE  Walk(along, start) = s
<1> DEFINE c == Cardinality(Nodes)
           f == CHOOSE h : FollowsUpTo(along, h, c)
           at(i) == IF i = Len(s) + 1 THEN Null ELSE s[i]
<1>1. /\ Len(s) \in Nat /\ DOMAIN s = 1 .. Len(s)
      /\ \A i \in 1 .. Len(s) : s[i] \in Nodes /\ s[i] # Null
      /\ s = << >> <=> Len(s) = 0
  BY NullAssumption
<1>2. c \in Nat /\ Len(s) <= c
  <2>1. s \in Injection(1 .. Len(s), Nodes)
    BY <1>1 DEF Injection, IsInjective
  <2>2. Cardinality(1 .. Len(s)) <= c
    BY <2>1, NodesAssumption, FS_Injection
  <2>3. \A k \in Nat : Cardinality(1 .. k) = k
    BY FS_Interval
  <2> QED BY <1>1, <2>2, <2>3, NodesAssumption, FS_CardinalityType
<1>3. Walk(along, start) = f[c][start]
  BY DEF Walk, FollowsUpTo, FromEach
<1> HIDE DEF c
<1>4. FollowsUpTo(along, f, c)
  BY <1>2, StepsExist
<1> HIDE DEF f
<1>5. \A k \in 0 .. c : \A n \in Pointer :
        f[k][n] = IF k = 0 \/ n = Null THEN << >> ELSE <<n>> \o f[k - 1][along[n]]
  <2>1. \A k \in 0 .. c : f[k] = FromEach(along, f, k)
    BY <1>4, Zenon DEF FollowsUpTo
  <2>2. ASSUME NEW k \in 0 .. c, NEW n \in Pointer
        PROVE  FromEach(along, f, k)[n] = IF k = 0 \/ n = Null THEN << >>
                                          ELSE <<n>> \o f[k - 1][along[n]]
    BY Zenon DEF FromEach
  <2> QED BY <2>1, <2>2, Zenon
<1>6. \A i \in 1 .. Len(s) + 1 : at(i) \in Pointer
  BY <1>1 DEF Pointer
<1>7. \A i \in 1 .. Len(s) : /\ at(i) = s[i] /\ at(i) # Null
                            /\ along[at(i)] = at(i + 1) /\ i + 1 \in 1 .. Len(s) + 1
  <2> TAKE i \in 1 .. Len(s)
  <2>1. at(i) = s[i] /\ at(i) # Null
    BY <1>1
  <2>2. along[s[i]] = IF i = Len(s) THEN Null ELSE s[i + 1]
    BY <1>1
  <2>3. (i = Len(s) <=> i + 1 = Len(s) + 1) /\ i + 1 \in 1 .. Len(s) + 1
    <3> DEFINE k == Len(s)
    <3>1. k \in Nat /\ i \in 1 .. k
      OBVIOUS
    <3> HIDE DEF k
    <3>2. (i = k <=> i + 1 = k + 1) /\ i + 1 \in 1 .. k + 1
      BY <3>1
    <3> QED BY <3>2 DEF k
  <2> QED BY <2>1, <2>2, <2>3
<1>8. at(Len(s) + 1) = Null
  OBVIOUS
<1>9. Suffix(s, Len(s) + 1) = << >>
  BY <1>1 DEF Suffix
<1> HIDE DEF at
<1> DEFINE Reads(k, i) == f[k][at(i)] = Suffix(s, i)
<1>10. \A k \in 0 .. c : \A i \in 1 .. Len(s) + 1 : Len(s) + 1 - i <= k => Reads(k, i)
  <2> DEFINE T == {k \in 0 .. c : \E i \in 1 .. Len(s) + 1 :
                                   Len(s) + 1 - i <= k /\ ~ Reads(k, i)}
  <2>1. SUFFICES ASSUME T # {} PROVE FALSE
    OBVIOUS
  <2>2. PICK k \in T : \A j \in T : k <= j
    <3>1. T \in SUBSET Nat
      OBVIOUS
    <3> HIDE DEF T
    <3> QED BY <2>1, <3>1, LeastElement
  <2>3. PICK i \in 1 .. Len(s) + 1 : Len(s) + 1 - i <= k /\ ~ Reads(k, i)
    BY <2>2
  <2>4. k \in 0 .. c /\ at(i) \in Pointer
    BY <1>6, <2>2
  <2>5. CASE i = Len(s) + 1
    <3>1. f[k][at(i)] = << >>
      BY <1>5, <1>8, <2>4, <2>5
    <3> QED BY <1>9, <2>3, <2>5, <3>1
  <2>6. CASE i # Len(s) + 1
    <3>1. /\ i \in 1 .. Len(s) /\ i + 1 \in 1 .. Len(s) + 1
          /\ k # 0 /\ k - 1 \in 0 .. c /\ ~ (k <= k - 1)
          /\ Len(s) + 1 - (i + 1) <= k - 1
      BY <1>1, <1>2, <2>3, <2>4, <2>6
    <3>2. Reads(k - 1, i + 1)
      <4> HIDE DEF Reads
      <4> QED BY <2>2, <3>1
    <3>3. f[k][at(i)] = <<s[i]>> \o f[k - 1][at(i + 1)]
      <4>1. at(i) = s[i] /\ at(i) # Null /\ along[at(i)] = at(i + 1)
        BY <1>7, <3>1, Zenon
      <4>2. f[k][at(i)] = <<at(i)>> \o f[k - 1][along[at(i)]]
        BY <1>5, <2>4, <3>1, <4>1, Zenon
      <4> QED BY <4>1, <4>2, Zenon
    <3>4. f[k][at(i)] = Suffix(s, i)
      BY <3>1, <3>2, <3>3, SuffixUnfolds
    <3> QED BY <2>3, <3>4
  <2> QED BY <2>5, <2>6
<1>11. 1 \in 1 .. Len(s) + 1 /\ Len(s) + 1 - 1 <= c /\ c \in 0 .. c
  BY <1>1, <1>2
<1>12. Reads(c, 1)
  <2> HIDE DEF Reads
  <2> QED BY <1>10, <1>11
<1>13. at(1) = start
  BY <1>1 DEF at
<1>14. Suffix(s, 1) = s
  BY <1>1 DEF Suffix
<1> QED BY <1>3, <1>12, <1>13, <1>14

(* The walk along next visits the nodes a list represents, in their order. *)
LEMMA WalkForward ==
  ASSUME NEW l \in DllType, NEW s \in Seq(Nodes), Represents(l, s)
  PROVE  Visited(l) = s
<1>1. l.next \in [Nodes -> Pointer]
  BY DEF DllType
<1>2. /\ \A i, j \in DOMAIN s : s[i] = s[j] => i = j
      /\ l.head = IF s = << >> THEN Null ELSE s[1]
      /\ \A i \in DOMAIN s : l.next[s[i]] = IF i = Len(s) THEN Null ELSE s[i + 1]
  BY DEF Represents
<1> QED BY <1>1, <1>2, WalkVisits DEF Visited

-----------------------------------------------------------------------------
(* The same facts, as a cache uses them: of a list that is linked through  *)
(* exactly the allocated nodes.                                            *)

Lists(l, s) == s \in Seq(Nodes) /\ Represents(l, s) /\ Range(s) = Allocated(l)

(* Linked speaks of functions on 1 .. l.size: those are sequences. *)
LEMMA LinkedSequence ==
  ASSUME NEW l \in DllType
  PROVE  Linked(l) <=> \E s : Lists(l, s)
<1>1. l.size \in Nat
  BY DEF DllType
<1>2. ASSUME Linked(l)
      PROVE  \E s : Lists(l, s)
  <2>1. PICK s \in [1 .. l.size -> Nodes] : Represents(l, s) /\ Range(s) = Allocated(l)
    BY <1>2 DEF Linked
  <2>2. s \in Seq(Nodes)
    BY <1>1
  <2> QED BY <2>1, <2>2 DEF Lists
<1>3. ASSUME NEW s, Lists(l, s)
      PROVE  Linked(l)
  <2>1. s \in [1 .. l.size -> Nodes]
    BY <1>3 DEF Lists, Represents
  <2> QED BY <1>3, <2>1 DEF Lists, Linked
<1> QED BY <1>2, <1>3

(* Every allocated node has its place in the list. *)
LEMMA PlaceInList ==
  ASSUME NEW l, NEW s, Lists(l, s), NEW n \in Allocated(l)
  PROVE  \E i \in DOMAIN s : n = s[i]
BY DEF Lists, Range

(* A list and another with the same pointers represent the same nodes. *)
LEMMA SamePointers ==
  ASSUME NEW l \in DllType, NEW m \in DllType, NEW s \in Seq(Nodes), Represents(l, s),
         m.head = l.head, m.tail = l.tail, m.size = l.size,
         \A j \in DOMAIN s : m.next[s[j]] = l.next[s[j]] /\ m.prev[s[j]] = l.prev[s[j]]
  PROVE  Represents(m, s)
BY DEF Represents

(* The index 0 is never beyond the end of a list. *)
LEMMA InsertNthFirst ==
  ASSUME NEW l \in DllType, NEW n \in Nodes
  PROVE  DllInsertNth(l, 0, n) = InsertFirst(l, n)
<1>1. l.size \in Nat
  BY DEF DllType
<1>2. (IF 0 > l.size THEN l.size ELSE 0) = 0
  BY <1>1
<1> QED BY <1>2, Zenon DEF DllInsertNth

(* A node of the list can be taken out, given other data, and put first.   *)
LEMMA MoveFirst ==
  ASSUME NEW l \in DllType, NEW s, Lists(l, s), NEW i \in DOMAIN s, NEW r \in DllType,
         SameLinks(r, RemoveNode(l, s[i])),
         \A x \in Nodes : r.data[x] = Garbage <=> l.data[x] = Garbage
  PROVE  LET m == DllInsertNth(r, 0, s[i])
         IN  /\ m \in DllType /\ m.size = l.size /\ m.data = r.data
             /\ Lists(m, InFront(s[i], Without(s, i)))
<1> DEFINE n == s[i]
           o == RemoveNode(l, n)
           t == Without(s, i)
           m == InsertFirst(r, n)
           u == InFront(n, t)
<1>1. s \in Seq(Nodes) /\ Represents(l, s) /\ Range(s) = Allocated(l)
  BY DEF Lists
<1>2. n \in Nodes
  BY <1>1
<1>4. /\ o \in DllType /\ Represents(o, t)
      /\ t \in Seq(Nodes) /\ Len(t) = Len(s) - 1 /\ Range(t) = Range(s) \ {n}
  <2>1. \A j, k \in DOMAIN s : s[j] = s[k] => j = k
    BY <1>1 DEF Represents
  <2> QED BY <1>1, <2>1, RemoveNodeRepresents, WithoutType
<1>5. /\ r.head = o.head /\ r.tail = o.tail /\ r.size = o.size
      /\ r.next = o.next /\ r.prev = o.prev
  BY DEF SameLinks
<1> HIDE DEF n, o, t
<1>6. Represents(r, t)
  BY <1>4, <1>5, SamePointers
<1>7. /\ m \in DllType /\ m.data = r.data /\ Represents(m, u)
      /\ u \in Seq(Nodes) /\ Len(u) = Len(t) + 1 /\ Range(u) = Range(t) \union {n}
  BY <1>2, <1>4, <1>6, InsertFirstRepresents, InFrontType
<1>8. DllInsertNth(r, 0, n) = m
  BY <1>2, InsertNthFirst
<1> HIDE DEF m, u
<1>9. Range(u) = Allocated(m)
  <2>3. n \in Range(s)
    BY DEF n, Range
  <2>1. Range(u) = Allocated(l)
    BY <1>1, <1>4, <1>7, <2>3
  <2>2. Allocated(l) = Allocated(r)
    BY DEF Allocated
  <2> QED BY <1>7, <2>1, <2>2 DEF Allocated
<1>10. Lists(m, u)
  BY <1>7, <1>9 DEF Lists
<1>11. m.size = l.size
  <2>1. m.size = Len(u) /\ l.size = Len(s)
    BY <1>1, <1>7 DEF Represents
  <2>2. Len(s) \in Nat
    OBVIOUS
  <2> QED BY <1>4, <1>7, <2>1, <2>2
<1> QED BY <1>7, <1>8, <1>10, <1>11 DEF n, t, u

(* dll_remove_node keeps the type and the data of a list. *)
LEMMA RemoveNodeType ==
  ASSUME NEW l \in DllType, NEW s, Lists(l, s), NEW i \in DOMAIN s
  PROVE  RemoveNode(l, s[i]) \in DllType /\ RemoveNode(l, s[i]).data = l.data
BY RemoveNodeRepresents DEF Lists

(* A node that was not allocated can be put first. *)
LEMMA InsertNew ==
  ASSUME NEW l \in DllType, NEW s, Lists(l, s),
         NEW n \in Nodes \ Allocated(l), NEW x \in Data
  PROVE  LET m == DllInsertNthNode(l, 0, x, n)
         IN  /\ m \in DllType /\ m.size = l.size + 1
             /\ m.data = [l.data EXCEPT ![n] = x]
             /\ Lists(m, InFront(n, s))
<1>1. s \in Seq(Nodes) /\ Represents(l, s) /\ Range(s) = Allocated(l)
  BY DEF Lists
<1> DEFINE r == [l EXCEPT !.data[n] = x]
           m == InsertFirst(r, n)
           u == InFront(n, s)
<1>2. /\ r \in DllType /\ r.data = [l.data EXCEPT ![n] = x]
      /\ r.head = l.head /\ r.tail = l.tail /\ r.size = l.size
      /\ r.next = l.next /\ r.prev = l.prev
  BY DEF DllType
<1>3. DllInsertNthNode(l, 0, x, n) = DllInsertNth(r, 0, n)
  BY Zenon DEF DllInsertNthNode
<1> HIDE DEF r
<1>4. Represents(r, s)
  BY <1>1, <1>2, SamePointers
<1>5. /\ m \in DllType /\ m.data = r.data /\ Represents(m, u)
      /\ u \in Seq(Nodes) /\ Len(u) = Len(s) + 1 /\ Range(u) = Range(s) \union {n}
  <2>1. m \in DllType /\ m.data = r.data /\ Represents(m, u)
    BY <1>1, <1>2, <1>4, InsertFirstRepresents
  <2>2. s \in Seq(Nodes) /\ n \in Nodes
    BY <1>1
  <2>3. u \in Seq(Nodes) /\ Len(u) = Len(s) + 1 /\ Range(u) = Range(s) \union {n}
    BY <2>2, InFrontType
  <2> QED BY <2>1, <2>3
<1>6. DllInsertNth(r, 0, n) = m
  BY <1>2, InsertNthFirst
<1> HIDE DEF m, u
<1>7. Range(u) = Allocated(m)
  <2>1. l.data \in [Nodes -> Data \union {Garbage}] /\ x # Garbage
    BY NullAssumption DEF DllType
  <2> QED BY <1>1, <1>2, <1>5, <2>1 DEF Allocated
<1>8. Lists(m, u)
  BY <1>5, <1>7 DEF Lists
<1>9. m.size = l.size + 1
  BY <1>1, <1>5 DEF Represents
<1> QED BY <1>2, <1>3, <1>5, <1>6, <1>8, <1>9 DEF u

(* A node of the list can be taken out and freed. *)
LEMMA RemoveAndFree ==
  ASSUME NEW l \in DllType, NEW s, Lists(l, s), NEW i \in DOMAIN s
  PROVE  LET m == FreeNode(RemoveNode(l, s[i]), s[i])
         IN  /\ m \in DllType /\ m.size = l.size - 1
             /\ m.data = [l.data EXCEPT ![s[i]] = Garbage]
             /\ Lists(m, Without(s, i))
<1>1. s \in Seq(Nodes) /\ Represents(l, s) /\ Range(s) = Allocated(l)
  BY DEF Lists
<1> DEFINE n == s[i]
           r == RemoveNode(l, n)
           t == Without(s, i)
           m == FreeNode(r, n)
<1>2. n \in Nodes
  BY <1>1
<1>4. /\ r \in DllType /\ r.data = l.data /\ Represents(r, t)
      /\ t \in Seq(Nodes) /\ Len(t) = Len(s) - 1 /\ Range(t) = Range(s) \ {n}
  <2>1. \A j, k \in DOMAIN s : s[j] = s[k] => j = k
    BY <1>1 DEF Represents
  <2> QED BY <1>1, <2>1, RemoveNodeRepresents, WithoutType
<1> HIDE DEF n, r, t
<1>5. /\ m \in DllType /\ m.data = [r.data EXCEPT ![n] = Garbage]
      /\ m.head = r.head /\ m.tail = r.tail /\ m.size = r.size
      /\ m.next = [r.next EXCEPT ![n] = Null] /\ m.prev = [r.prev EXCEPT ![n] = Null]
  BY <1>2, <1>4 DEF FreeNode, DllType, Pointer
<1> HIDE DEF m
<1>6. Represents(m, t)
  <2>1. \A j \in DOMAIN t : t[j] # n /\ t[j] \in Nodes
    BY <1>4 DEF Range
  <2>2. r.next \in [Nodes -> Pointer] /\ r.prev \in [Nodes -> Pointer]
    BY <1>4 DEF DllType
  <2>3. \A j \in DOMAIN t : m.next[t[j]] = r.next[t[j]] /\ m.prev[t[j]] = r.prev[t[j]]
    BY <1>5, <2>1, <2>2
  <2> QED BY <1>4, <1>5, <2>3, SamePointers
<1>7. Range(t) = Allocated(m)
  <2>1. l.data \in [Nodes -> Data \union {Garbage}]
    BY DEF DllType
  <2> QED BY <1>1, <1>2, <1>4, <1>5, <2>1 DEF Allocated
<1>8. Lists(m, t)
  BY <1>4, <1>6, <1>7 DEF Lists
<1>9. m.size = l.size - 1
  BY <1>1, <1>4, <1>5 DEF Represents
<1> QED BY <1>4, <1>5, <1>8, <1>9 DEF m, n, r, t
-----------------------------------------------------------------------------
(* dll_insert_nth at any index, and the same node somewhere else.          *)

(* How many nodes of the list an insertion at i leaves in front. *)
Least(i, k) == IF i > k THEN k ELSE i

LEMMA NthIsListed ==
  ASSUME NEW l \in DllType, NEW s \in Seq(Nodes), Represents(l, s), NEW i \in DOMAIN s
  PROVE  DllNthNode(l, i - 1) = s[i]
<1>1. Visited(l) = s
  BY WalkForward
<1>2. i - 1 < Len(s) /\ i - 1 + 1 = i
  OBVIOUS
<1> QED BY <1>1, <1>2 DEF DllNthNode

LEMMA InsertNthRepresents ==
  ASSUME NEW l \in DllType, NEW s \in Seq(Nodes), Represents(l, s),
         NEW i \in Nat, NEW n \in Nodes, n \notin Range(s)
  PROVE  /\ DllInsertNth(l, i, n) \in DllType
         /\ DllInsertNth(l, i, n).data = l.data
         /\ Represents(DllInsertNth(l, i, n), Placed(s, Least(i, Len(s)), n))
<1> DEFINE k == Len(s)
           at == Least(i, k)
<1>1. k \in Nat /\ l.size = k /\ DOMAIN s = 1 .. k
  BY DEF Represents
<1>2. at \in 0 .. k /\ (at # 0 => at \in DOMAIN s)
  BY <1>1 DEF Least
<1>3. DllInsertNth(l, i, n) = IF at = 0 THEN InsertFirst(l, n)
                              ELSE InsertAfter(l, DllNthNode(l, at - 1), n)
  BY <1>1, Zenon DEF DllInsertNth, Least
<1>4. CASE at = 0
  <2>1. Placed(s, 0, n) = InFront(n, s)
    <3>1. \A j \in 1 .. k + 1 :
            (CASE j <= 0 -> s[j] [] j = 0 + 1 -> n [] OTHER -> s[j - 1])
            = IF j = 1 THEN n ELSE s[j - 1]
      BY <1>1
    <3> QED BY <3>1, Zenon DEF Placed, InFront
  <2>2. at = Least(i, Len(s))
    OBVIOUS
  <2> HIDE DEF at
  <2>3. DllInsertNth(l, i, n) = InsertFirst(l, n)
    BY <1>3, <1>4
  <2> QED BY <1>4, <2>1, <2>2, <2>3, InsertFirstRepresents
<1>5. CASE at # 0
  <2>1. DllNthNode(l, at - 1) = s[at] /\ at \in DOMAIN s
    BY <1>2, <1>5, NthIsListed
  <2>2. at = Least(i, Len(s))
    OBVIOUS
  <2> HIDE DEF at
  <2>3. DllInsertNth(l, i, n) = InsertAfter(l, s[at], n)
    BY <1>3, <1>5, <2>1
  <2> QED BY <2>1, <2>2, <2>3, InsertAfterRepresents
<1> QED BY <1>4, <1>5

(* A node that was not allocated can be put anywhere. *)
LEMMA InsertAnywhere ==
  ASSUME NEW l \in DllType, NEW s, Lists(l, s), NEW i \in Nat,
         NEW n \in Nodes \ Allocated(l), NEW x \in Data
  PROVE  LET m == DllInsertNthNode(l, i, x, n)
         IN  /\ m \in DllType
             /\ m.data = [l.data EXCEPT ![n] = x]
             /\ Lists(m, Placed(s, Least(i, Len(s)), n))
<1>1. s \in Seq(Nodes) /\ Represents(l, s) /\ Range(s) = Allocated(l)
  BY DEF Lists
<1> DEFINE r == [l EXCEPT !.data[n] = x]
           m == DllInsertNth(r, i, n)
           u == Placed(s, Least(i, Len(s)), n)
<1>2. /\ r \in DllType /\ r.data = [l.data EXCEPT ![n] = x]
      /\ r.head = l.head /\ r.tail = l.tail /\ r.size = l.size
      /\ r.next = l.next /\ r.prev = l.prev
  BY DEF DllType
<1>3. DllInsertNthNode(l, i, x, n) = m
  BY Zenon DEF DllInsertNthNode
<1> HIDE DEF r
<1>4. Represents(r, s)
  BY <1>1, <1>2, SamePointers
<1>5. m \in DllType /\ m.data = r.data /\ Represents(m, u)
  BY <1>1, <1>2, <1>4, InsertNthRepresents
<1>6. u \in Seq(Nodes) /\ Range(u) = Range(s) \union {n}
  <2> DEFINE at == Least(i, Len(s))
  <2>1. at \in 0 .. Len(s)
    BY <1>1 DEF Least
  <2> HIDE DEF at
  <2>2. /\ Placed(s, at, n) \in Seq(Nodes)
        /\ Range(Placed(s, at, n)) = Range(s) \union {n}
    BY <1>1, <2>1, PlacedType
  <2> QED BY <2>2 DEF at
<1> HIDE DEF m, u
<1>7. Range(u) = Allocated(m)
  <2>1. l.data \in [Nodes -> Data \union {Garbage}] /\ x # Garbage
    BY NullAssumption DEF DllType
  <2> QED BY <1>1, <1>2, <1>5, <1>6, <2>1 DEF Allocated
<1> QED BY <1>2, <1>3, <1>5, <1>6, <1>7 DEF Lists, u

(* A node of the list can be taken out and put anywhere else. *)
LEMMA MoveAnywhere ==
  ASSUME NEW l \in DllType, NEW s, Lists(l, s), NEW i \in DOMAIN s, NEW j \in Nat
  PROVE  LET m == DllInsertNth(RemoveNode(l, s[i]), j, s[i])
         IN  /\ m \in DllType /\ m.data = l.data
             /\ Lists(m, Placed(Without(s, i), Least(j, Len(s) - 1), s[i]))
<1> DEFINE n == s[i]
           r == RemoveNode(l, n)
           t == Without(s, i)
           m == DllInsertNth(r, j, n)
           u == Placed(t, Least(j, Len(t)), n)
<1>1. s \in Seq(Nodes) /\ Represents(l, s) /\ Range(s) = Allocated(l)
  BY DEF Lists
<1>2. n \in Nodes /\ n \in Range(s)
  BY <1>1 DEF Range
<1>3. /\ r \in DllType /\ r.data = l.data /\ Represents(r, t)
      /\ t \in Seq(Nodes) /\ Len(t) = Len(s) - 1 /\ Range(t) = Range(s) \ {n}
  <2>1. \A a, b \in DOMAIN s : s[a] = s[b] => a = b
    BY <1>1 DEF Represents
  <2> QED BY <1>1, <2>1, RemoveNodeRepresents, WithoutType
<1> HIDE DEF n, r, t
<1>4. m \in DllType /\ m.data = r.data /\ Represents(m, u)
  BY <1>2, <1>3, InsertNthRepresents
<1>5. u \in Seq(Nodes) /\ Range(u) = Range(t) \union {n}
  <2> DEFINE at == Least(j, Len(t))
  <2>1. at \in 0 .. Len(t)
    BY <1>3 DEF Least
  <2> HIDE DEF at
  <2>2. /\ Placed(t, at, n) \in Seq(Nodes)
        /\ Range(Placed(t, at, n)) = Range(t) \union {n}
    <3>1. n \in Nodes /\ t \in Seq(Nodes)
      BY <1>2, <1>3
    <3> QED BY <2>1, <3>1, PlacedType
  <2> QED BY <2>2 DEF at
<1> HIDE DEF m, u
<1>6. Range(u) = Allocated(m)
  BY <1>1, <1>2, <1>3, <1>4, <1>5 DEF Allocated
<1>7. u = Placed(t, Least(j, Len(s) - 1), n)
  BY <1>3 DEF u
<1> QED BY <1>3, <1>4, <1>5, <1>6, <1>7 DEF Lists, m, n, r, t
-----------------------------------------------------------------------------
(* A singly linked list is a doubly linked one whose prev pointers are     *)
(* forgotten, and what the code does to it is what it does to that one.    *)

LEMMA OneWayFields ==
  ASSUME NEW d
  PROVE  /\ OneWay(d).head = d.head /\ OneWay(d).tail = d.tail
         /\ OneWay(d).size = d.size /\ OneWay(d).next = d.next
         /\ OneWay(d).data = d.data
         /\ Allocated(OneWay(d)) = Allocated(d)
         /\ Visited(OneWay(d)) = Visited(d)
         /\ \A i : NthNode(OneWay(d), i) = DllNthNode(d, i)
<1>1. /\ OneWay(d).head = d.head /\ OneWay(d).tail = d.tail
      /\ OneWay(d).size = d.size /\ OneWay(d).next = d.next
      /\ OneWay(d).data = d.data
  BY DEF OneWay
<1>2. Allocated(OneWay(d)) = Allocated(d)
  BY <1>1 DEF Allocated
<1>3. Visited(OneWay(d)) = Visited(d)
  BY <1>1 DEF Visited
<1>4. \A i : NthNode(OneWay(d), i) = DllNthNode(d, i)
  BY <1>3, Zenon DEF NthNode, DllNthNode
<1> QED BY <1>1, <1>2, <1>3, <1>4

LEMMA OneWayType ==
  ASSUME NEW d \in DllType
  PROVE  OneWay(d) \in ListType
BY DEF OneWay, ListType, DllType

(* What Represents says, in numbers. *)
LEMMA Listed ==
  ASSUME NEW l, NEW s, Lists(l, s)
  PROVE  /\ s \in Seq(Nodes) /\ Len(s) \in Nat /\ DOMAIN s = 1 .. Len(s)
         /\ s = << >> <=> Len(s) = 0
         /\ l.size = Len(s)
         /\ l.head = IF Len(s) = 0 THEN Null ELSE s[1]
         /\ l.tail = IF Len(s) = 0 THEN Null ELSE s[Len(s)]
         /\ \A i \in 1 .. Len(s) :
              /\ s[i] \in Nodes /\ s[i] # Null /\ s[i] \in Allocated(l)
              /\ l.next[s[i]] = IF i = Len(s) THEN Null ELSE s[i + 1]
              /\ l.prev[s[i]] = IF i = 1 THEN Null ELSE s[i - 1]
         /\ \A i, j \in 1 .. Len(s) : s[i] = s[j] => i = j
<1>1. s \in Seq(Nodes) /\ Represents(l, s) /\ Range(s) = Allocated(l)
  BY DEF Lists
<1>2. /\ Len(s) \in Nat /\ DOMAIN s = 1 .. Len(s)
      /\ s = << >> <=> Len(s) = 0
      /\ \A i \in 1 .. Len(s) : s[i] \in Nodes
  BY <1>1
<1>3. \A i \in 1 .. Len(s) : s[i] # Null /\ s[i] \in Allocated(l)
  BY <1>1, <1>2, NullAssumption DEF Range
<1> QED BY <1>1, <1>2, <1>3 DEF Represents

(* What ListShape promises holds of it. *)
LEMMA OneWayShape ==
  ASSUME NEW d \in DllType, NEW s, Lists(d, s)
  PROVE  Visited(d) = s /\ ListShape(OneWay(d))
<1>1. Visited(d) = s
  BY WalkForward DEF Lists
<1>2. Visited(OneWay(d)) = s
  BY <1>1, OneWayFields
<1>3. IsInjective(s) /\ Len(s) = OneWay(d).size /\ Range(s) = Allocated(OneWay(d))
  <2>1. Range(s) = Allocated(d)
    BY DEF Lists
  <2> QED BY <2>1, Listed, OneWayFields DEF IsInjective
<1>4. IF s = << >> THEN OneWay(d).head = Null /\ OneWay(d).tail = Null
      ELSE OneWay(d).tail = Last(s) /\ OneWay(d).next[OneWay(d).tail] = Null
  BY Listed, OneWayFields DEF Last
<1> QED BY <1>1, <1>2, <1>3, <1>4 DEF ListShape

LEMMA MinOfTwo ==
  ASSUME NEW i \in Int, NEW k \in Int
  PROVE  Min({i, k}) = Least(i, k)
<1> DEFINE T == {i, k}
           m == Least(i, k)
<1>1. m \in T /\ \A y \in T : m <= y
  BY DEF Least
<1>2. \A x \in T : (\A y \in T : x <= y) => x = m
  BY DEF Least
<1> HIDE DEF T, m
<1>3. Min(T) = m
  BY <1>1, <1>2, Zenon DEF Min
<1> QED BY <1>3 DEF T, m

(* ll_insert_nth *)
LEMMA OneWayInsert ==
  ASSUME NEW d \in DllType, NEW s, Lists(d, s), NEW i \in Nat,
         NEW n \in Nodes \ Allocated(d), NEW x \in Data
  PROVE  InsertNth(OneWay(d), i, x, n) = OneWay(DllInsertNthNode(d, i, x, n))
<1> DEFINE l == OneWay(d)
           r == [d EXCEPT !.data[n] = x]
           k == Len(s)
           at == Least(i, k)
           data == [d.data EXCEPT ![n] = x]
           list(head, tail, next) == [head |-> head, tail |-> tail, size |-> k + 1,
                                      next |-> next, data |-> data]
<1>1. /\ k \in Nat /\ d.size = k /\ (k # 0 => d.tail = s[k])
      /\ \A j \in 1 .. k : /\ s[j] \in Nodes /\ s[j] # Null /\ s[j] # n
                           /\ d.next[s[j]] = IF j = k THEN Null ELSE s[j + 1]
  BY Listed
<1>2. at \in 0 .. k
  BY <1>1 DEF Least
<1>3. /\ l.head = d.head /\ l.tail = d.tail /\ l.size = k
      /\ l.next = d.next /\ l.data = d.data
  <2> HIDE DEF k
  <2> QED BY <1>1, OneWayFields, Zenon
<1>4. /\ r \in DllType /\ r.data = data
      /\ r.head = d.head /\ r.tail = d.tail /\ r.size = k
      /\ r.next = d.next /\ r.prev = d.prev
  <2>1. x \in Data \union {Garbage} /\ n \in Nodes
    OBVIOUS
  <2> HIDE DEF k
  <2> QED BY <1>1, <2>1 DEF DllType
<1>5. d.next \in [Nodes -> Pointer] /\ n \in Nodes
  BY DEF DllType
<1>6. Min({i, l.size}) = at
  <2>1. i \in Int /\ k \in Int
    BY <1>1
  <2> HIDE DEF k, l
  <2> QED BY <1>3, <2>1, MinOfTwo
<1>7. Visited(r) = s /\ Visited(l) = s
  <2>1. Visited(d) = s
    BY OneWayShape
  <2>2. Visited(r) = Visited(d) /\ Visited(l) = Visited(d)
    <3> HIDE DEF r, l
    <3> QED BY <1>3, <1>4 DEF Visited
  <2> QED BY <2>1, <2>2
<1> HIDE DEF l
<1>8. at # 0 => NthNode(l, at - 1) = s[at] /\ DllNthNode(r, at - 1) = s[at]
  <2>1. at # 0 => at - 1 < Len(s) /\ at - 1 + 1 = at
    BY <1>1, <1>2
  <2> HIDE DEF at, r
  <2> QED BY <1>7, <2>1 DEF NthNode, DllNthNode
<1> DEFINE m == DllInsertNth(r, i, n)
<1>9. DllInsertNthNode(d, i, x, n) = m
  BY Zenon DEF DllInsertNthNode
<1>10. m = IF at = 0 THEN InsertFirst(r, n) ELSE InsertAfter(r, DllNthNode(r, at - 1), n)
  <2>1. (IF i > r.size THEN r.size ELSE i) = at
    <3> HIDE DEF r
    <3> QED BY <1>4 DEF Least
  <2> HIDE DEF at, r
  <2> QED BY <2>1, Zenon DEF DllInsertNth
<1>11. InsertNth(l, i, x, n) =
         CASE at = 0 -> list(n, IF k = 0 THEN n ELSE d.tail, [d.next EXCEPT ![n] = d.head])
           [] at = k /\ at # 0 -> list(d.head, n, [d.next EXCEPT ![n] = Null, ![d.tail] = n])
           [] OTHER -> list(d.head, d.tail,
                            [d.next EXCEPT ![n] = d.next[NthNode(l, at - 1)],
                                           ![NthNode(l, at - 1)] = n])
  <2> HIDE DEF k, at
  <2> QED BY <1>3, <1>6, Zenon DEF InsertNth
<1> HIDE DEF r, m, list, data
<1>12. CASE at = 0
  <2>1. InsertNth(l, i, x, n) =
          list(n, IF k = 0 THEN n ELSE d.tail, [d.next EXCEPT ![n] = d.head])
    BY <1>11, <1>12
  <2>2. OneWay(m) = list(n, IF k = 0 THEN n ELSE d.tail, [d.next EXCEPT ![n] = d.head])
    <3>1. m = InsertFirst(r, n)
      BY <1>10, <1>12
    <3> HIDE DEF k
    <3> QED BY <1>4, <3>1 DEF OneWay, InsertFirst, list
  <2> QED BY <1>9, <2>1, <2>2 DEF l
<1>13. ASSUME at # 0
       PROVE  /\ at \in 1 .. k /\ s[at] \in Nodes /\ s[at] # n
              /\ d.next[s[at]] = Null <=> at = k
              /\ OneWay(m) = list(d.head, IF at = k THEN n ELSE d.tail,
                                   [d.next EXCEPT ![n] = d.next[s[at]], ![s[at]] = n])
  <2>1. at \in 1 .. k
    BY <1>2, <1>13
  <2>2. d.next[s[at]] = Null <=> at = k
    <3>1. at # k => at + 1 \in 1 .. k
      BY <1>1, <2>1
    <3> HIDE DEF at, k
    <3> QED BY <1>1, <2>1, <3>1
  <2>3. m = InsertAfter(r, s[at], n)
    BY <1>8, <1>10, <1>13
  <2>4. s[at] \in Nodes /\ s[at] # n
    BY <1>1, <2>1
  <2> HIDE DEF at, k
  <2> QED BY <1>4, <2>1, <2>2, <2>3, <2>4 DEF OneWay, InsertAfter, list
<1>14. CASE at # 0 /\ at = k
  <2>1. InsertNth(l, i, x, n) = list(d.head, n, [d.next EXCEPT ![n] = Null, ![d.tail] = n])
    BY <1>11, <1>14
  <2>2. d.tail = s[at] /\ d.next[s[at]] = Null
    BY <1>1, <1>13, <1>14
  <2> HIDE DEF at, k
  <2> QED BY <1>9, <1>13, <1>14, <2>1, <2>2 DEF l
<1>15. CASE at # 0 /\ at # k
  <2>1. InsertNth(l, i, x, n) = list(d.head, d.tail,
                                     [d.next EXCEPT ![n] = d.next[NthNode(l, at - 1)],
                                                    ![NthNode(l, at - 1)] = n])
    BY <1>11, <1>15
  <2> HIDE DEF at, k
  <2> QED BY <1>8, <1>9, <1>13, <1>15, <2>1 DEF l
<1> QED BY <1>12, <1>14, <1>15

(* ll_remove_nth_node, and the free of the node it answers *)
LEMMA OneWayRemove ==
  ASSUME NEW d \in DllType, NEW s, Lists(d, s), NEW i \in DOMAIN s, NEW j,
         Removable(OneWay(d), j) = i - 1
  PROVE  /\ NthNode(OneWay(d), i - 1) = s[i]
         /\ RemoveNth(OneWay(d), j) = OneWay(RemoveNode(d, s[i]))
         /\ Dispose(RemoveNth(OneWay(d), j), s[i])
              = OneWay(FreeNode(RemoveNode(d, s[i]), s[i]))
<1> DEFINE l == OneWay(d)
           k == Len(s)
           gone == s[i]
           m == RemoveNode(d, gone)
           before == IF i = 1 THEN Null ELSE s[i - 1]
           after == IF i = k THEN Null ELSE s[i + 1]
           list(head, tail, next) == [head |-> head, tail |-> tail, size |-> k - 1,
                                      next |-> next, data |-> d.data]
<1>1. /\ k \in Nat /\ d.size = k /\ i \in 1 .. k
      /\ d.head = s[1] /\ d.tail = s[k]
      /\ \A a \in 1 .. k : s[a] \in Nodes /\ s[a] # Null
      /\ d.next[s[i]] = after /\ d.prev[s[i]] = before
  BY Listed
<1>2. /\ (after = Null <=> i = k) /\ (before = Null <=> i = 1)
  BY <1>1
<1>3. /\ l.head = d.head /\ l.tail = d.tail /\ l.size = k
      /\ l.next = d.next /\ l.data = d.data
  <2> HIDE DEF k
  <2> QED BY <1>1, OneWayFields, Zenon
<1>4. \A a \in 1 .. k : NthNode(l, a - 1) = s[a]
  <2>1. \A a \in DOMAIN s : DllNthNode(d, a - 1) = s[a]
    BY NthIsListed DEF Lists
  <2>2. \A a \in DOMAIN s : NthNode(l, a - 1) = s[a]
    BY <2>1, OneWayFields, Zenon
  <2> QED BY <2>2, Listed
<1>5. d.next \in [Nodes -> Pointer]
  BY DEF DllType
<1>6. NthNode(l, i - 1) = gone /\ (i # 1 => NthNode(l, i - 1 - 1) = before)
  <2>1. i # 1 => i - 1 \in 1 .. k
    BY <1>1
  <2> HIDE DEF l
  <2> QED BY <1>1, <1>4, <2>1
<1> HIDE DEF l
<1>7. RemoveNth(l, j) =
        IF i - 1 = 0
          THEN list(d.next[gone], IF k = 1 THEN Null ELSE d.tail, d.next)
          ELSE list(d.head, IF i - 1 = k - 1 THEN NthNode(l, i - 1 - 1) ELSE d.tail,
                    [d.next EXCEPT ![NthNode(l, i - 1 - 1)] = d.next[gone]])
  <2>1. Removable(l, j) = i - 1
    BY DEF l
  <2> HIDE DEF k, gone
  <2> QED BY <1>3, <1>6, <2>1, Zenon DEF RemoveNth
<1>8. OneWay(m) = list(IF before = Null THEN after ELSE d.head,
                        IF after = Null THEN before ELSE d.tail,
                        [x \in Nodes |-> IF x = before THEN after ELSE d.next[x]])
  <2> HIDE DEF before, after, k
  <2> QED BY <1>1 DEF OneWay, RemoveNode, list
<1>9. (i - 1 = 0 <=> i = 1) /\ (i - 1 = k - 1 <=> i = k)
  BY <1>1
<1>12. RemoveNth(l, j) = OneWay(m)
  <2>1. CASE i = 1
    <3>1. before = Null /\ d.next[gone] = after
      BY <1>1, <2>1
    <3>2. [x \in Nodes |-> IF x = before THEN after ELSE d.next[x]] = d.next
      BY <1>5, <3>1, NullAssumption
    <3>3. (IF k = 1 THEN Null ELSE d.tail) = (IF after = Null THEN before ELSE d.tail)
      BY <1>2, <2>1, <3>1
    <3> HIDE DEF before, after, k, list
    <3> QED BY <1>7, <1>8, <1>9, <2>1, <3>1, <3>2, <3>3
  <2>2. CASE i # 1
    <3>1. NthNode(l, i - 1 - 1) = before /\ before # Null /\ d.next[gone] = after
      BY <1>1, <1>2, <1>6, <2>2
    <3>2. [d.next EXCEPT ![before] = after]
            = [x \in Nodes |-> IF x = before THEN after ELSE d.next[x]]
      BY <1>5
    <3>3. (IF i - 1 = k - 1 THEN before ELSE d.tail)
            = (IF after = Null THEN before ELSE d.tail)
      BY <1>2, <1>9
    <3> HIDE DEF before, after, k, list
    <3> QED BY <1>7, <1>8, <1>9, <2>2, <3>1, <3>2, <3>3
  <2> QED BY <2>1, <2>2
<1> HIDE DEF gone, m
<1>13. m \in DllType
  BY RemoveNodeType DEF m, gone
<1>14. Dispose(OneWay(m), gone) = OneWay(FreeNode(m, gone))
  <2>1. gone \in Nodes
    BY <1>1 DEF gone
  <2> DEFINE f == FreeNode(m, gone)
             e == Dispose(OneWay(m), gone)
  <2>2. /\ f.head = m.head /\ f.tail = m.tail /\ f.size = m.size
        /\ f.next = [m.next EXCEPT ![gone] = Null]
        /\ f.data = [m.data EXCEPT ![gone] = Garbage]
    BY <1>13, <2>1 DEF FreeNode, DllType
  <2>3. OneWay(m) \in ListType
    BY <1>13, OneWayType
  <2>4. /\ e \in ListType
        /\ e.head = OneWay(m).head /\ e.tail = OneWay(m).tail
        /\ e.size = OneWay(m).size
        /\ e.next = [OneWay(m).next EXCEPT ![gone] = Null]
        /\ e.data = [OneWay(m).data EXCEPT ![gone] = Garbage]
    <3> DEFINE y == OneWay(m)
    <3> HIDE DEF y
    <3> QED BY <2>1, <2>3 DEF Dispose, ListType, Pointer, y
  <2> HIDE DEF f, e
  <2>5. e = [head |-> e.head, tail |-> e.tail, size |-> e.size,
             next |-> e.next, data |-> e.data]
    BY <2>4 DEF ListType
  <2>6. e = OneWay(f)
    BY <2>2, <2>4, <2>5, OneWayFields DEF OneWay
  <2> QED BY <2>6 DEF e, f
<1> QED BY <1>6, <1>12, <1>14 DEF l, m, gone

(* What a node that is not in the list points at is of no account when it  *)
(* is put in.                                                              *)
LEMMA InsertIgnores ==
  ASSUME NEW l \in DllType, NEW m \in DllType, NEW s \in Seq(Nodes),
         Represents(l, s), NEW n \in Nodes, n \notin Range(s), NEW i \in Nat,
         m.head = l.head, m.tail = l.tail, m.size = l.size, m.data = l.data,
         \A x \in Nodes : x # n => m.next[x] = l.next[x] /\ m.prev[x] = l.prev[x]
  PROVE  DllInsertNth(m, i, n) = DllInsertNth(l, i, n)
<1> DEFINE k == Len(s)
           at == Least(i, k)
<1>1. k \in Nat /\ DOMAIN s = 1 .. k /\ l.size = k /\ m.size = k
  BY DEF Represents
<1>2. \A a \in 1 .. k : s[a] \in Nodes /\ s[a] # n
  BY <1>1 DEF Range
<1>3. Represents(m, s)
  <2>1. \A a \in DOMAIN s : m.next[s[a]] = l.next[s[a]] /\ m.prev[s[a]] = l.prev[s[a]]
    BY <1>1, <1>2
  <2> QED BY <2>1, SamePointers
<1>4. /\ l.next \in [Nodes -> Pointer] /\ l.prev \in [Nodes -> Pointer]
      /\ m.next \in [Nodes -> Pointer] /\ m.prev \in [Nodes -> Pointer]
  BY DEF DllType
<1>5. at \in 0 .. k
  BY <1>1 DEF Least
<1>6. \A r \in {l, m} :
        DllInsertNth(r, i, n) = IF at = 0 THEN InsertFirst(r, n)
                                ELSE InsertAfter(r, s[at], n)
  <2> TAKE r \in {l, m}
  <2>1. (IF i > r.size THEN r.size ELSE i) = at
    BY <1>1 DEF Least
  <2>2. at # 0 => DllNthNode(r, at - 1) = s[at]
    <3>1. at # 0 => at \in DOMAIN s
      BY <1>1, <1>5
    <3>2. r \in DllType /\ Represents(r, s)
      BY <1>3
    <3> HIDE DEF at
    <3> QED BY <3>1, <3>2, NthIsListed
  <2> HIDE DEF at
  <2> QED BY <2>1, <2>2, Zenon DEF DllInsertNth
<1>7. CASE at = 0
  <2>1. \A h : [m.next EXCEPT ![n] = h] = [l.next EXCEPT ![n] = h]
    BY <1>4
  <2>2. InsertFirst(m, n).prev = InsertFirst(l, n).prev
    BY DEF InsertFirst
  <2>3. InsertFirst(m, n) = InsertFirst(l, n)
    BY <2>1, <2>2 DEF InsertFirst
  <2> QED BY <1>6, <1>7, <2>3
<1>8. CASE at # 0
  <2>1. s[at] \in Nodes /\ s[at] # n /\ m.next[s[at]] = l.next[s[at]]
    <3>1. at \in 1 .. k
      BY <1>1, <1>5, <1>8
    <3> HIDE DEF at
    <3> QED BY <1>2, <3>1
  <2> DEFINE node == s[at]
  <2> HIDE DEF node
  <2>2. node \in Nodes /\ node # n /\ m.next[node] = l.next[node]
    BY <2>1 DEF node
  <2>3. \A h : [m.next EXCEPT ![n] = h, ![node] = n] = [l.next EXCEPT ![n] = h, ![node] = n]
    BY <1>4, <2>2
  <2>4. InsertAfter(m, node, n).prev = InsertAfter(l, node, n).prev
    BY <2>2 DEF InsertAfter
  <2>5. InsertAfter(m, node, n) = InsertAfter(l, node, n)
    BY <2>2, <2>3, <2>4 DEF InsertAfter
  <2> HIDE DEF at
  <2> QED BY <1>6, <1>8, <2>5 DEF node
<1> QED BY <1>7, <1>8

(* A node taken out and freed, and put back where it was allocated again,  *)
(* is a node taken out and put back.                                       *)
LEMMA OneWayMove ==
  ASSUME NEW d \in DllType, NEW s, Lists(d, s), NEW i \in DOMAIN s, NEW y,
         Removable(OneWay(d), y) = i - 1, NEW j \in Nat
  PROVE  InsertNth(Dispose(RemoveNth(OneWay(d), y), s[i]), j, d.data[s[i]], s[i])
           = OneWay(DllInsertNth(RemoveNode(d, s[i]), j, s[i]))
<1> DEFINE n == s[i]
           x == d.data[n]
           r == RemoveNode(d, n)
           e == FreeNode(r, n)
           t == Without(s, i)
           f == [e EXCEPT !.data[n] = x]
<1>1. /\ s \in Seq(Nodes) /\ Represents(d, s) /\ Range(s) = Allocated(d)
      /\ \A a, b \in DOMAIN s : s[a] = s[b] => a = b
  BY DEF Lists, Represents
<1>2. n \in Nodes /\ n \in Allocated(d)
  BY <1>1 DEF Range
<1>3. x \in Data /\ d.data \in [Nodes -> Data \union {Garbage}]
  BY <1>2 DEF DllType, Allocated
<1>4. /\ r \in DllType /\ r.data = d.data /\ Represents(r, t)
      /\ t \in Seq(Nodes) /\ Range(t) = Range(s) \ {n}
  BY <1>1, RemoveNodeRepresents, WithoutType
<1>5. /\ e \in DllType /\ e.data = [d.data EXCEPT ![n] = Garbage]
      /\ Lists(e, t) /\ n \notin Allocated(e)
  <2>1. /\ e \in DllType /\ e.data = [d.data EXCEPT ![n] = Garbage] /\ Lists(e, t)
    BY RemoveAndFree
  <2> HIDE DEF n, e
  <2> QED BY <1>2, <1>3, <2>1 DEF Allocated
<1>6. Dispose(RemoveNth(OneWay(d), y), n) = OneWay(e)
  BY OneWayRemove
<1> HIDE DEF n, r
<1>7. /\ e.head = r.head /\ e.tail = r.tail /\ e.size = r.size
      /\ e.next = [r.next EXCEPT ![n] = Null] /\ e.prev = [r.prev EXCEPT ![n] = Null]
  BY <1>2, <1>4 DEF FreeNode, DllType
<1> HIDE DEF e, x
<1>8. /\ f \in DllType /\ f.data = d.data
      /\ f.head = r.head /\ f.tail = r.tail /\ f.size = r.size
      /\ f.next = e.next /\ f.prev = e.prev
  <2>1. /\ f \in DllType /\ f.data = [e.data EXCEPT ![n] = x]
        /\ f.head = e.head /\ f.tail = e.tail /\ f.size = e.size
        /\ f.next = e.next /\ f.prev = e.prev
    BY <1>2, <1>3, <1>5 DEF DllType
  <2>2. [e.data EXCEPT ![n] = x] = d.data
    BY <1>2, <1>3, <1>5 DEF x
  <2> QED BY <1>7, <2>1, <2>2
<1>9. DllInsertNthNode(e, j, x, n) = DllInsertNth(f, j, n)
  BY Zenon DEF DllInsertNthNode
<1> HIDE DEF f
<1>10. DllInsertNth(f, j, n) = DllInsertNth(r, j, n)
  <2>1. n \notin Range(t)
    BY <1>4
  <2>2. r.next \in [Nodes -> Pointer] /\ r.prev \in [Nodes -> Pointer]
    BY <1>4 DEF DllType
  <2>3. \A z \in Nodes : z # n => f.next[z] = r.next[z] /\ f.prev[z] = r.prev[z]
    BY <1>7, <1>8, <2>2
  <2> HIDE DEF t
  <2> QED BY <1>2, <1>4, <1>8, <2>1, <2>3, InsertIgnores
<1>11. InsertNth(OneWay(e), j, x, n) = OneWay(DllInsertNthNode(e, j, x, n))
  <2>1. n \in Nodes \ Allocated(e)
    BY <1>2, <1>5
  <2> HIDE DEF t
  <2> QED BY <1>3, <1>5, <2>1, OneWayInsert
<1> QED BY <1>6, <1>9, <1>10, <1>11 DEF n, r, x

(* hm_init, ll_init, dll_init *)
LEMMA EmptyLists ==
  /\ EmptyDll \in DllType /\ Lists(EmptyDll, << >>)
  /\ OneWay(EmptyDll) = EmptyList
<1>1. EmptyDll \in DllType
  BY DEF EmptyDll, DllType, Pointer
<1>2. OneWay(EmptyDll) = EmptyList
  BY DEF EmptyDll, OneWay, EmptyList
<1>3. << >> \in Seq(Nodes) /\ Len(<< >>) = 0 /\ DOMAIN << >> = {} /\ Range(<< >>) = {}
  BY DEF Range
<1>4. Allocated(EmptyDll) = {}
  BY DEF Allocated, EmptyDll
<1>5. Represents(EmptyDll, << >>)
  BY <1>3 DEF Represents, EmptyDll
<1> QED BY <1>1, <1>2, <1>3, <1>4, <1>5 DEF Lists

(* ll_free and dll_free give every node back. *)
LEMMA FreeEverything ==
  ASSUME NEW d \in DllType, NEW s, Lists(d, s)
  PROVE  /\ [EmptyList EXCEPT !.data = FreeAll(OneWay(d)).data] = EmptyList
         /\ [EmptyDll EXCEPT !.data = DllFree(d).data] = EmptyDll
<1> DEFINE none == [n \in Nodes |-> Garbage]
           l == OneWay(d)
<1>1. d.data \in [Nodes -> Data \union {Garbage}] /\ l \in ListType
  BY OneWayType DEF DllType
<1>2. /\ \A n \in Nodes : n \notin Range(s) => d.data[n] = Garbage
      /\ l.data = d.data
  BY OneWayFields DEF Lists, Allocated
<1>3. FreeAll(l).data = none
  <2>1. Reached(l) = Range(s)
    BY OneWayShape, OneWayFields DEF Reached
  <2>2. FreeAll(l).data = [n \in Nodes |-> IF n \in Reached(l) THEN Garbage ELSE l.data[n]]
    <3> HIDE DEF l
    <3> QED BY <1>1 DEF FreeAll, ListType
  <2> HIDE DEF l
  <2> QED BY <1>2, <2>1, <2>2
<1>4. DllFree(d).data = none
  <2>1. Met(d) = Range(s)
    BY MetAreRepresented DEF Lists
  <2>2. DllFree(d).data = [n \in Nodes |-> IF n \in Met(d) THEN Garbage ELSE d.data[n]]
    BY DEF DllFree, DllType
  <2> QED BY <1>2, <2>1, <2>2
<1> HIDE DEF l
<1>5. [EmptyList EXCEPT !.data = none] = EmptyList
  BY DEF EmptyList
<1>6. [EmptyDll EXCEPT !.data = none] = EmptyDll
  BY DEF EmptyDll
<1> HIDE DEF none
<1> QED BY <1>3, <1>4, <1>5, <1>6 DEF l
=============================================================================

------------------------- MODULE ListMachineProofs -------------------------
(***************************************************************************)
(* The two linked lists are well formed after every sequence of calls, in  *)
(* step with each other, and both are the sequence of their values, for    *)
(* lists of every length and calls with any index.                         *)
(***************************************************************************)
EXTENDS ListMachine, ListProofs, SequenceTheorems

(* The values of the nodes of s, in their order. *)
Found(data, s) == [i \in DOMAIN s |-> data[s[i]]]

-----------------------------------------------------------------------------
(* InsertAt and RemoveAt do to the values what a call does to the nodes.   *)

LEMMA RemoveAtIs ==
  ASSUME NEW S, NEW q \in Seq(S), NEW p \in 1 .. Len(q)
  PROVE  RemoveAt(q, p) = Without(q, p)
<1> DEFINE k == Len(q)
           l == SubSeq(q, 1, p - 1)
           h == SubSeq(q, p + 1, k)
           c == l \o h
<1>1. k \in Nat /\ p \in 1 .. k /\ \A i \in 1 .. k : q[i] \in S
  BY LenProperties, ElementOfSeq
<1>2. l \in Seq(S) /\ Len(l) = p - 1 /\ \A i \in 1 .. p - 1 : l[i] = q[i]
  BY <1>1, SubSeqProperties
<1>3. h \in Seq(S) /\ Len(h) = k - p /\ \A i \in 1 .. k - p : h[i] = q[p + i]
  BY <1>1, SubSeqProperties
<1> HIDE DEF l, h
<1>4. /\ c \in Seq(S) /\ Len(c) = Len(l) + Len(h)
      /\ \A i \in 1 .. Len(l) + Len(h) : c[i] = IF i <= Len(l) THEN l[i] ELSE h[i - Len(l)]
  BY <1>2, <1>3, ConcatProperties
<1> HIDE DEF c, k
<1>5. Len(c) = k - 1 /\ DOMAIN c = 1 .. k - 1
  <2>1. Len(c) = k - 1
    BY <1>1, <1>2, <1>3, <1>4
  <2> QED BY <1>4, <2>1, LenProperties
<1>6. ASSUME NEW i \in 1 .. k - 1
      PROVE  c[i] = IF i < p THEN q[i] ELSE q[i + 1]
  <2>1. c[i] = IF i <= p - 1 THEN l[i] ELSE h[i - (p - 1)]
    BY <1>1, <1>2, <1>3, <1>4
  <2>2. CASE i < p
    BY <1>1, <1>2, <2>1, <2>2
  <2>3. CASE i >= p
    <3>1. i - (p - 1) \in 1 .. k - p
      BY <1>1, <2>3
    <3>2. h[i - (p - 1)] = q[p + (i - (p - 1))] /\ p + (i - (p - 1)) = i + 1
      BY <1>1, <1>3, <3>1
    <3> QED BY <1>1, <2>1, <2>3, <3>2
  <2> QED BY <1>1, <2>2, <2>3
<1>7. c = [i \in 1 .. k - 1 |-> IF i < p THEN q[i] ELSE q[i + 1]]
  <2>1. c = [i \in 1 .. k - 1 |-> c[i]]
    BY <1>4, <1>5
  <2> QED BY <1>6, <2>1
<1> QED BY <1>7 DEF RemoveAt, Without, c, l, h, k

LEMMA InsertAtIs ==
  ASSUME NEW S, NEW q \in Seq(S), NEW at \in 0 .. Len(q), NEW e \in S
  PROVE  InsertAt(q, at + 1, e) = Placed(q, at, e)
<1> DEFINE k == Len(q)
           l == SubSeq(q, 1, (at + 1) - 1)
           h == SubSeq(q, at + 1, k)
           m == l \o <<e>>
           c == m \o h
<1>1. k \in Nat /\ at \in 0 .. k /\ (at + 1) - 1 = at /\ \A i \in 1 .. k : q[i] \in S
  BY LenProperties, ElementOfSeq
<1>2. l \in Seq(S) /\ Len(l) = at /\ \A i \in 1 .. at : l[i] = q[i]
  BY <1>1, SubSeqProperties
<1>3. h \in Seq(S) /\ Len(h) = k - at /\ \A i \in 1 .. k - at : h[i] = q[at + i]
  BY <1>1, SubSeqProperties
<1>4. <<e>> \in Seq(S) /\ Len(<<e>>) = 1 /\ <<e>>[1] = e
  OBVIOUS
<1> HIDE DEF l, h
<1>5. /\ m \in Seq(S) /\ Len(m) = Len(l) + Len(<<e>>)
      /\ \A i \in 1 .. Len(l) + Len(<<e>>) :
           m[i] = IF i <= Len(l) THEN l[i] ELSE <<e>>[i - Len(l)]
  BY <1>2, <1>4, ConcatProperties
<1> HIDE DEF m
<1>6. /\ c \in Seq(S) /\ Len(c) = Len(m) + Len(h)
      /\ \A i \in 1 .. Len(m) + Len(h) : c[i] = IF i <= Len(m) THEN m[i] ELSE h[i - Len(m)]
  <2>1. m \in Seq(S) /\ h \in Seq(S)
    BY <1>3, <1>5
  <2> QED BY <2>1, ConcatProperties
<1> HIDE DEF c, k
<1>7. Len(m) = at + 1 /\ Len(c) = k + 1
  BY <1>1, <1>2, <1>3, <1>4, <1>5, <1>6
<1>8. DOMAIN c = 1 .. k + 1
  BY <1>6, <1>7, LenProperties
<1>9. ASSUME NEW i \in 1 .. k + 1
      PROVE  c[i] = CASE i <= at -> q[i] [] i = at + 1 -> e [] OTHER -> q[i - 1]
  <2>1. c[i] = IF i <= at + 1 THEN m[i] ELSE h[i - (at + 1)]
    BY <1>1, <1>3, <1>6, <1>7
  <2>2. i <= at + 1 => m[i] = IF i <= at THEN l[i] ELSE <<e>>[i - at]
    BY <1>1, <1>2, <1>4, <1>5
  <2>3. CASE i <= at
    BY <1>1, <1>2, <2>1, <2>2, <2>3
  <2>4. CASE i = at + 1
    <3>1. i - at = 1 /\ ~ (i <= at) /\ i <= at + 1
      BY <1>1, <2>4
    <3> QED BY <1>4, <2>1, <2>2, <2>4, <3>1
  <2>5. CASE i > at + 1
    <3>1. i - (at + 1) \in 1 .. k - at /\ at + (i - (at + 1)) = i - 1
      BY <1>1, <2>5
    <3>2. h[i - (at + 1)] = q[i - 1]
      BY <1>3, <3>1
    <3>3. ~ (i <= at) /\ i # at + 1 /\ ~ (i <= at + 1)
      BY <1>1, <2>5
    <3> QED BY <2>1, <3>2, <3>3
  <2> QED BY <1>1, <2>3, <2>4, <2>5
<1>10. c = [i \in 1 .. k + 1 |-> CASE i <= at    -> q[i]
                                   [] i = at + 1 -> e
                                   [] OTHER      -> q[i - 1]]
  <2>1. c = [i \in 1 .. k + 1 |-> c[i]]
    BY <1>6, <1>7, <1>8
  <2> QED BY <1>9, <2>1, Zenon
<1>11. InsertAt(q, at + 1, e) = c
  BY DEF InsertAt, c, m, l, h, k
<1> QED BY <1>10, <1>11, Zenon DEF Placed, k

LEMMA FoundType ==
  ASSUME NEW d \in DllType, NEW s, Lists(d, s)
  PROVE  /\ Found(d.data, s) \in Seq(Data)
         /\ Len(Found(d.data, s)) = Len(s)
         /\ \A i \in 1 .. Len(s) : Found(d.data, s)[i] = d.data[s[i]]
<1> DEFINE k == Len(s)
<1>1. /\ k \in Nat /\ DOMAIN s = 1 .. k
      /\ \A i \in 1 .. k : s[i] \in Nodes /\ s[i] \in Allocated(d)
  BY Listed
<1>2. d.data \in [Nodes -> Data \union {Garbage}]
  BY DEF DllType
<1>3. \A i \in 1 .. k : d.data[s[i]] \in Data
  BY <1>1, <1>2 DEF Allocated
<1> HIDE DEF k
<1>4. Found(d.data, s) = [i \in 1 .. k |-> d.data[s[i]]]
  BY <1>1 DEF Found
<1>5. Found(d.data, s) \in [1 .. k -> Data]
  BY <1>3, <1>4
<1>6. Found(d.data, s) \in Seq(Data) /\ Len(Found(d.data, s)) = k
  BY <1>1, <1>5
<1> QED BY <1>4, <1>6 DEF k

LEMMA FoundPlaced ==
  ASSUME NEW d \in DllType, NEW s, Lists(d, s), NEW data, NEW n,
         NEW at \in 0 .. Len(s),
         \A i \in 1 .. Len(s) : data[s[i]] = d.data[s[i]]
  PROVE  Found(data, Placed(s, at, n)) = Placed(Found(d.data, s), at, data[n])
<1> DEFINE x == data[n]
           k == Len(s)
           q == Found(d.data, s)
           t == Placed(s, at, n)
<1>1. k \in Nat /\ Len(q) = k /\ \A i \in 1 .. k : q[i] = d.data[s[i]]
  BY FoundType, Listed
<1>2. DOMAIN t = 1 .. k + 1
  BY DEF Placed
<1> HIDE DEF q, k, x
<1>3. ASSUME NEW i \in 1 .. k + 1
      PROVE  data[t[i]] = CASE i <= at -> q[i] [] i = at + 1 -> x [] OTHER -> q[i - 1]
  <2>1. CASE i <= at
    <3>1. i \in 1 .. k
      BY <1>1, <2>1 DEF k
    <3>2. t[i] = s[i]
      BY <2>1 DEF Placed, k
    <3> QED BY <1>1, <2>1, <3>1, <3>2 DEF k
  <2>2. CASE i = at + 1
    <3>1. ~ (i <= at)
      BY <1>1, <2>2 DEF k
    <3>2. t[i] = n
      BY <2>2, <3>1 DEF Placed, k
    <3> QED BY <2>2, <3>1, <3>2 DEF x
  <2>3. CASE i > at + 1
    <3>1. i - 1 \in 1 .. k /\ ~ (i <= at) /\ i # at + 1
      BY <1>1, <2>3 DEF k
    <3>2. t[i] = s[i - 1]
      BY <3>1 DEF Placed, k
    <3> QED BY <1>1, <3>1, <3>2 DEF k
  <2> QED BY <1>1, <2>1, <2>2, <2>3 DEF k
<1> HIDE DEF t
<1>4. Found(data, t) = [i \in 1 .. k + 1 |-> data[t[i]]]
  BY <1>2 DEF Found
<1>5. Found(data, t) = [i \in 1 .. k + 1 |-> CASE i <= at    -> q[i]
                                                [] i = at + 1 -> x
                                                [] OTHER      -> q[i - 1]]
  BY <1>3, <1>4, Zenon
<1> QED BY <1>1, <1>5, Zenon DEF Placed, q, t, x

LEMMA FoundWithout ==
  ASSUME NEW d \in DllType, NEW s, Lists(d, s), NEW data, NEW p \in 1 .. Len(s),
         \A i \in 1 .. Len(s) : i # p => data[s[i]] = d.data[s[i]]
  PROVE  Found(data, Without(s, p)) = Without(Found(d.data, s), p)
<1> DEFINE k == Len(s)
           q == Found(d.data, s)
           t == Without(s, p)
<1>1. k \in Nat /\ Len(q) = k /\ \A i \in 1 .. k : q[i] = d.data[s[i]]
  BY FoundType, Listed
<1>2. DOMAIN t = 1 .. k - 1
  BY DEF Without
<1> HIDE DEF q, k
<1>3. ASSUME NEW i \in 1 .. k - 1
      PROVE  data[t[i]] = IF i < p THEN q[i] ELSE q[i + 1]
  <2>1. CASE i < p
    <3>1. i \in 1 .. k /\ i # p
      BY <1>1, <2>1
    <3>2. t[i] = s[i]
      BY <2>1 DEF Without, k
    <3> QED BY <1>1, <2>1, <3>1, <3>2 DEF k
  <2>2. CASE ~ (i < p)
    <3>1. i + 1 \in 1 .. k /\ i + 1 # p
      BY <1>1, <2>2 DEF k
    <3>2. t[i] = s[i + 1]
      BY <2>2 DEF Without, k
    <3> QED BY <1>1, <2>2, <3>1, <3>2 DEF k
  <2> QED BY <2>1, <2>2
<1> HIDE DEF t
<1>4. Found(data, t) = [i \in 1 .. k - 1 |-> data[t[i]]]
  BY <1>2 DEF Found
<1>5. Found(data, t) = [i \in 1 .. k - 1 |-> IF i < p THEN q[i] ELSE q[i + 1]]
  BY <1>3, <1>4
<1> QED BY <1>1, <1>5, Zenon DEF Without, q, t

-----------------------------------------------------------------------------
(* The inductive invariant, and what a call does to the sequence.          *)

(* The same calls leave the same nodes in the same order in both lists:    *)
(* whichever place a node is taken from or put in, ll and dll relink head, *)
(* tail, size and next alike.                                              *)
InStep == single = OneWay(double)

IInv == TypeOK /\ WellLinked /\ InStep /\ last.double = last.single

(* What the next-state relation of ValueSequence says of the values q      *)
(* before a call, the values r after it, and what the call answers.        *)
SequenceStep(q, r, c) ==
  \/ \E i \in Indices, x \in Data :
       /\ r = InsertAt(q, Min({i, Len(q)}) + 1, x)
       /\ c = Call("insert", i, x)
  \/ \E i \in Indices :
       /\ q # << >>
       /\ r = RemoveAt(q, Min({i + 1, Len(q)}))
       /\ c = Call("remove", i, q[Min({i + 1, Len(q)})])
  \/ \E i, j \in Indices :
       /\ i < Len(q)
       /\ r = InsertAt(RemoveAt(q, i + 1), Min({j, Len(RemoveAt(q, i + 1))}) + 1, q[i + 1])
       /\ c = Call("move", j, q[i + 1])
  \/ \E i \in Indices :
       /\ r = q
       /\ c = Call("get", i, IF i < Len(q) THEN q[i + 1] ELSE Null)
  \/ r = << >> /\ c = Call("free", 0, Null)

(* The state after a call that was made on the nodes of s. *)
After(s) ==
  \E t : /\ double' \in DllType /\ Lists(double', t)
         /\ single' = OneWay(double')
         /\ last' \in [single : CallType, double : CallType]
         /\ last'.double = last'.single
         /\ SequenceStep(Found(double.data, s), Found(double'.data, t), last'.single)

(* Every answer the lists agree on is one of the calls. *)
LEMMA Answered ==
  ASSUME NEW o \in {"init", "insert", "remove", "get", "move", "free"}, NEW i \in Nat,
         NEW x \in Data \union {Null}, last' = Calls(o, i, x, x)
  PROVE  /\ last' \in [single : CallType, double : CallType]
         /\ last'.double = last'.single /\ last'.single = Call(o, i, x)
<1>1. Call(o, i, x) \in CallType
  BY DEF Call, CallType
<1> QED BY <1>1 DEF Calls

LEMMA PutStep ==
  ASSUME IInv, NEW s, Lists(double, s), NEW i \in Indices, NEW x \in Data, Put(i, x)
  PROVE  After(s)
<1> DEFINE q == Found(double.data, s)
           k == Len(s)
           at == Least(i, k)
<1>1. double \in DllType /\ single = OneWay(double)
  BY DEF IInv, TypeOK, InStep
<1>2. PICK n \in Nodes \ Allocated(double) :
        /\ single' = InsertNth(single, i, x, n)
        /\ double' = DllInsertNthNode(double, i, x, n)
  BY DEF Put, Unused
<1>3. i \in Nat /\ k \in Nat
  BY IndicesAssumption, Listed
<1>4. /\ double' \in DllType /\ double'.data = [double.data EXCEPT ![n] = x]
      /\ Lists(double', Placed(s, at, n))
  BY <1>1, <1>2, <1>3, InsertAnywhere
<1>5. single' = OneWay(double')
  BY <1>1, <1>2, <1>3, OneWayInsert
<1>6. /\ last' \in [single : CallType, double : CallType]
      /\ last'.double = last'.single /\ last'.single = Call("insert", i, x)
  <2>1. last' = Calls("insert", i, x, x)
    BY DEF Put
  <2> QED BY <1>3, <2>1, Answered
<1>7. at \in 0 .. k /\ q \in Seq(Data) /\ Len(q) = k
  BY <1>1, <1>3, FoundType DEF Least
<1>8. Found(double'.data, Placed(s, at, n)) = Placed(q, at, x)
  <2>1. double.data \in [Nodes -> Data \union {Garbage}]
    BY <1>1 DEF DllType
  <2>2. double'.data[n] = x
    BY <1>4, <2>1
  <2>3. \A j \in 1 .. k : double'.data[s[j]] = double.data[s[j]]
    BY <1>4, <2>1, Listed
  <2> DEFINE data == double'.data
  <2> HIDE DEF data, at
  <2>4. Found(data, Placed(s, at, n)) = Placed(Found(double.data, s), at, data[n])
    BY <1>1, <1>7, <2>3, FoundPlaced DEF data
  <2> QED BY <2>2, <2>4 DEF data
<1>9. Placed(q, at, x) = InsertAt(q, Min({i, Len(q)}) + 1, x)
  <2>1. Min({i, Len(q)}) = at
    BY <1>3, <1>7, MinOfTwo
  <2> HIDE DEF at, q
  <2> QED BY <1>7, <2>1, InsertAtIs
<1>10. SequenceStep(q, Found(double'.data, Placed(s, at, n)), last'.single)
  <2> HIDE DEF q, at
  <2> QED BY <1>6, <1>8, <1>9, Zenon DEF SequenceStep
<1> QED BY <1>4, <1>5, <1>6, <1>10 DEF After

(* The node that a list answers at an index, and its value. *)
LEMMA NodeAt ==
  ASSUME IInv, NEW s, Lists(double, s), NEW p \in 1 .. Len(s)
  PROVE  /\ NthNode(single, p - 1) = s[p] /\ DllNthNode(double, p - 1) = s[p]
         /\ single.data = double.data /\ single.size = Len(s)
         /\ Found(double.data, s)[p] = double.data[s[p]]
         /\ double.data[s[p]] \in Data
         /\ p \in DOMAIN s
<1>1. double \in DllType /\ single = OneWay(double)
  BY DEF IInv, TypeOK, InStep
<1>2. p \in DOMAIN s /\ s[p] \in Allocated(double) /\ s[p] \in Nodes
  BY Listed
<1>3. DllNthNode(double, p - 1) = s[p]
  BY <1>1, <1>2, NthIsListed DEF Lists
<1>4. NthNode(single, p - 1) = s[p]
  BY <1>1, <1>3, OneWayFields
<1>5. single.data = double.data /\ single.size = Len(s)
  BY <1>1, OneWayFields, Listed
<1>6. Found(double.data, s)[p] = double.data[s[p]]
  BY <1>2 DEF Found
<1>7. double.data[s[p]] \in Data
  BY <1>1, <1>2 DEF DllType, Allocated
<1> QED BY <1>2, <1>3, <1>4, <1>5, <1>6, <1>7

LEMMA TakeStep ==
  ASSUME IInv, NEW s, Lists(double, s), NEW i \in Indices, Take(i)
  PROVE  After(s)
<1> DEFINE q == Found(double.data, s)
           k == Len(s)
           p == Min({i + 1, k})
           n == s[p]
<1>1. double \in DllType /\ single = OneWay(double) /\ single.size > 0
  BY DEF IInv, TypeOK, InStep, Take
<1>2. i \in Nat /\ k \in Nat /\ single.size = k
  <2>1. single.size = k
    BY <1>1, OneWayFields, Listed
  <2> QED BY <2>1, IndicesAssumption, Listed
<1>3. p \in 1 .. k /\ Removable(single, i) = p - 1
  <2>1. p = Least(i + 1, k) /\ Min({i, k - 1}) = Least(i, k - 1)
    BY <1>2, MinOfTwo
  <2>2. p \in 1 .. k /\ Least(i, k - 1) = p - 1
    <3> HIDE DEF p, k
    <3> QED BY <1>1, <1>2, <2>1 DEF Least
  <2> HIDE DEF p, k
  <2> QED BY <1>2, <2>1, <2>2 DEF Removable
<1> HIDE DEF p
<1>4. /\ NthNode(single, p - 1) = n /\ DllNthNode(double, p - 1) = n
      /\ single.data = double.data /\ q[p] = double.data[n] /\ q[p] \in Data
      /\ p \in DOMAIN s
  BY <1>3, NodeAt
<1>5. /\ single' = Dispose(RemoveNth(single, i), n)
      /\ double' = FreeNode(RemoveNode(double, n), n)
      /\ last' = Calls("remove", i, q[p], q[p])
  <2> HIDE DEF n, q
  <2> QED BY <1>3, <1>4 DEF Take
<1>6. /\ double' \in DllType /\ double'.data = [double.data EXCEPT ![n] = Garbage]
      /\ Lists(double', Without(s, p))
  BY <1>1, <1>4, <1>5, RemoveAndFree
<1>7. single' = OneWay(double')
  BY <1>1, <1>3, <1>4, <1>5, OneWayRemove
<1>8. /\ last' \in [single : CallType, double : CallType]
      /\ last'.double = last'.single /\ last'.single = Call("remove", i, q[p])
  BY <1>2, <1>4, <1>5, Answered
<1>9. q \in Seq(Data) /\ Len(q) = k /\ q # << >>
  <2>1. q \in Seq(Data) /\ Len(q) = k
    BY <1>1, FoundType
  <2> HIDE DEF q
  <2> QED BY <1>3, <2>1
<1>10. Found(double'.data, Without(s, p)) = RemoveAt(q, p)
  <2>1. double.data \in [Nodes -> Data \union {Garbage}]
    BY <1>1 DEF DllType
  <2>2. \A j \in 1 .. k : j # p => double'.data[s[j]] = double.data[s[j]]
    <3>1. \A j \in 1 .. k : j # p => s[j] \in Nodes /\ s[j] # n
      BY <1>3, Listed
    <3> HIDE DEF n
    <3> QED BY <1>6, <2>1, <3>1
  <2>3. Found(double'.data, Without(s, p)) = Without(q, p)
    <3> DEFINE data == double'.data
    <3> HIDE DEF data
    <3>1. \A j \in 1 .. k : j # p => data[s[j]] = double.data[s[j]]
      BY <2>2 DEF data
    <3>2. Found(data, Without(s, p)) = Without(q, p)
      BY <1>1, <1>3, <3>1, FoundWithout
    <3> QED BY <3>2 DEF data
  <2> HIDE DEF q
  <2> QED BY <1>3, <1>9, <2>3, RemoveAtIs
<1>11. SequenceStep(q, Found(double'.data, Without(s, p)), last'.single)
  <2>1. p = Min({i + 1, Len(q)})
    BY <1>9 DEF p
  <2> HIDE DEF q
  <2> QED BY <1>8, <1>9, <1>10, <2>1, Zenon DEF SequenceStep
<1> QED BY <1>6, <1>7, <1>8, <1>11 DEF After

LEMMA MoveStep ==
  ASSUME IInv, NEW s, Lists(double, s), NEW i \in Indices, NEW j \in Indices, Move(i, j)
  PROVE  After(s)
<1> DEFINE q == Found(double.data, s)
           k == Len(s)
           p == i + 1
           n == s[p]
           t == Without(s, p)
           at == Least(j, k - 1)
           rest == RemoveAt(q, p)
<1>1. double \in DllType /\ single = OneWay(double) /\ i < single.size
  BY DEF IInv, TypeOK, InStep, Move
<1>2. i \in Nat /\ j \in Nat /\ k \in Nat /\ single.size = k
  <2>1. single.size = k
    BY <1>1, OneWayFields, Listed
  <2> QED BY <2>1, IndicesAssumption, Listed
<1>3. p \in 1 .. k /\ p - 1 = i /\ Removable(single, i) = i
  <2>1. Min({i, k - 1}) = Least(i, k - 1)
    BY <1>2, MinOfTwo
  <2>2. p \in 1 .. k /\ p - 1 = i /\ Least(i, k - 1) = i
    <3> HIDE DEF k
    <3> QED BY <1>1, <1>2 DEF Least
  <2> HIDE DEF p, k
  <2> QED BY <1>2, <2>1, <2>2 DEF Removable
<1> HIDE DEF p
<1>4. /\ NthNode(single, i) = n /\ DllNthNode(double, i) = n
      /\ single.data = double.data /\ q[p] = double.data[n] /\ q[p] \in Data
      /\ p \in DOMAIN s
  BY <1>3, NodeAt
<1>5. /\ single' = InsertNth(Dispose(RemoveNth(single, i), n), j, double.data[n], n)
      /\ double' = DllInsertNth(RemoveNode(double, n), j, n)
      /\ last' = Calls("move", j, q[p], q[p])
  <2> HIDE DEF n, q
  <2> QED BY <1>4 DEF Move
<1>6. /\ double' \in DllType /\ double'.data = double.data
      /\ Lists(double', Placed(t, at, n))
  BY <1>1, <1>2, <1>4, <1>5, MoveAnywhere
<1>7. single' = OneWay(double')
  <2>1. Removable(OneWay(double), i) = p - 1
    BY <1>1, <1>3
  <2> QED BY <1>1, <1>2, <1>4, <1>5, <2>1, OneWayMove
<1>8. /\ last' \in [single : CallType, double : CallType]
      /\ last'.double = last'.single /\ last'.single = Call("move", j, q[p])
  BY <1>2, <1>4, <1>5, Answered
<1>9. /\ q \in Seq(Data) /\ Len(q) = k
      /\ \A a \in 1 .. k : q[a] = double.data[s[a]]
  BY <1>1, FoundType
<1>10. /\ rest = Without(q, p) /\ rest \in Seq(Data) /\ Len(rest) = k - 1
       /\ at \in 0 .. k - 1
  <2>1. rest = Without(q, p) /\ rest \in Seq(Data) /\ Len(rest) = k - 1
    <3> HIDE DEF q
    <3>1. rest = Without(q, p)
      BY <1>3, <1>9, RemoveAtIs
    <3>2. Len(Without(q, p)) = k - 1
      <4>1. DOMAIN Without(q, p) = 1 .. k - 1 /\ k - 1 \in Nat
        BY <1>2, <1>3, <1>9 DEF Without
      <4>2. \A a \in 1 .. k - 1 : Without(q, p)[a] \in Data
        BY <1>2, <1>3, <1>9 DEF Without
      <4>3. Without(q, p) \in [1 .. k - 1 -> Data]
        BY <4>1, <4>2 DEF Without
      <4> DEFINE w == Without(q, p)
                 c == k - 1
      <4> HIDE DEF w, c
      <4>4. w \in [1 .. c -> Data] /\ c \in Nat
        BY <4>1, <4>3 DEF w, c
      <4>5. Len(w) = c
        BY <4>4
      <4> QED BY <4>5 DEF w, c
    <3>3. rest \in Seq(Data)
      <4>1. \A a \in 1 .. k - 1 : Without(q, p)[a] \in Data
        BY <1>2, <1>3, <1>9 DEF Without
      <4>2. Without(q, p) \in [1 .. k - 1 -> Data]
        BY <1>9, <4>1 DEF Without
      <4>3. k - 1 \in Nat
        BY <1>2, <1>3
      <4> QED BY <3>1, <4>2, <4>3
    <3> QED BY <3>1, <3>2, <3>3
  <2>2. at \in 0 .. k - 1
    BY <1>2, <1>3 DEF Least
  <2> QED BY <2>1, <2>2
<1> HIDE DEF rest
<1>11. Found(double.data, Placed(t, at, n)) = Placed(rest, at, q[p])
  <2>1. /\ s \in Seq(Nodes) /\ \A a, b \in DOMAIN s : s[a] = s[b] => a = b
        /\ Len(t) = k - 1
    BY <1>4, WithoutType DEF Lists, Represents
  <2> DEFINE r == FreeNode(RemoveNode(double, n), n)
  <2>2. r \in DllType /\ Lists(r, t) /\ r.data = [double.data EXCEPT ![n] = Garbage]
    BY <1>1, <1>4, RemoveAndFree
  <2>3. \A a \in 1 .. k - 1 : double.data[t[a]] = r.data[t[a]]
    <3>1. \A a \in 1 .. k - 1 : t[a] # n /\ t[a] \in Nodes
      <4>1. \A a, b \in 1 .. k : s[a] = s[b] => a = b
        BY Listed
      <4>2. \A a \in 1 .. k : s[a] \in Nodes
        BY Listed
      <4> QED BY <1>2, <1>3, <4>1, <4>2 DEF Without
    <3> HIDE DEF n, t, r
    <3> QED BY <2>2, <3>1 DEF DllType
  <2>4. Found(r.data, t) = rest
    <3>1. \A a \in 1 .. k : a # p => r.data[s[a]] = double.data[s[a]]
      <4>1. \A a \in 1 .. k : a # p => s[a] \in Nodes /\ s[a] # n
        BY <1>3, Listed
      <4> HIDE DEF n, r
      <4> QED BY <2>2, <4>1 DEF DllType
    <3> DEFINE data == r.data
    <3> HIDE DEF data
    <3>2. \A a \in 1 .. k : a # p => data[s[a]] = double.data[s[a]]
      BY <3>1 DEF data
    <3>3. Found(data, t) = Without(q, p)
      BY <1>1, <1>3, <3>2, FoundWithout
    <3> QED BY <1>10, <3>3 DEF data
  <2> HIDE DEF r, t, at, n, q
  <2>5. /\ at \in 0 .. Len(t) /\ double.data[n] = q[p]
        /\ \A a \in 1 .. Len(t) : double.data[t[a]] = r.data[t[a]]
    BY <1>4, <1>10, <2>1, <2>3
  <2>6. Found(double.data, Placed(t, at, n)) = Placed(Found(r.data, t), at, q[p])
    <3> DEFINE data == double.data
    <3>1. at \in 0 .. Len(t)
      BY <2>5
    <3>2. \A a \in 1 .. Len(t) : data[t[a]] = r.data[t[a]]
      BY <2>5
    <3> HIDE DEF data
    <3>3. Found(data, Placed(t, at, n)) = Placed(Found(r.data, t), at, data[n])
      <4>1. r \in DllType
        BY <2>2
      <4>2. Lists(r, t)
        BY <2>2
      <4> QED BY <3>1, <3>2, <4>1, <4>2, FoundPlaced
    <3> QED BY <2>5, <3>3 DEF data
  <2> QED BY <2>4, <2>6
<1>12. Placed(rest, at, q[p]) = InsertAt(rest, Min({j, Len(rest)}) + 1, q[p])
  <2>1. Min({j, Len(rest)}) = at
    BY <1>2, <1>3, <1>10, MinOfTwo
  <2> HIDE DEF at, q
  <2> QED BY <1>4, <1>10, <2>1, InsertAtIs
<1>13. SequenceStep(q, Found(double'.data, Placed(t, at, n)), last'.single)
  <2>1. i < Len(q)
    BY <1>1, <1>2, <1>9
  <2> HIDE DEF q, at, t, n
  <2> QED BY <1>6, <1>8, <1>11, <1>12, <2>1, Zenon DEF SequenceStep, rest, p
<1> QED BY <1>6, <1>7, <1>8, <1>13 DEF After

LEMMA GetStep ==
  ASSUME IInv, NEW s, Lists(double, s), NEW i \in Indices, Get(i)
  PROVE  After(s)
<1> DEFINE q == Found(double.data, s)
           k == Len(s)
           x == IF i < k THEN q[i + 1] ELSE Null
           value(data, node) == IF node = Null THEN Null ELSE data[node]
<1>1. double \in DllType /\ single = OneWay(double) /\ double' = double /\ single' = single
  BY DEF IInv, TypeOK, InStep, Get
<1>2. i \in Nat /\ k \in Nat /\ Len(q) = k
  BY <1>1, IndicesAssumption, Listed, FoundType
<1>3. /\ value(single.data, NthNode(single, i)) = x
      /\ value(double.data, DllNthNode(double, i)) = x
      /\ x \in Data \union {Null}
  <2>1. CASE i < k
    <3> DEFINE p == i + 1
    <3>1. p \in 1 .. k /\ p - 1 = i /\ p = i + 1
      BY <1>2, <2>1
    <3> HIDE DEF p
    <3>2. /\ NthNode(single, p - 1) = s[p] /\ DllNthNode(double, p - 1) = s[p]
          /\ single.data = double.data /\ q[p] = double.data[s[p]]
          /\ double.data[s[p]] \in Data
      BY <3>1, NodeAt
    <3>3. s[p] # Null
      BY <3>1, Listed
    <3> HIDE DEF q, k
    <3> QED BY <2>1, <3>1, <3>2, <3>3
  <2>2. CASE ~ (i < k)
    <3>1. DllNthNode(double, i) = Null
      BY <1>1, <2>2, OneWayShape DEF DllNthNode
    <3>2. NthNode(single, i) = Null
      BY <1>1, <3>1, OneWayFields
    <3> QED BY <2>2, <3>1, <3>2
  <2> QED BY <2>1, <2>2
<1>4. last' = Calls("get", i, x, x)
  <2> HIDE DEF x
  <2> QED BY <1>3 DEF Get
<1>5. /\ last' \in [single : CallType, double : CallType]
      /\ last'.double = last'.single /\ last'.single = Call("get", i, x)
  <2> HIDE DEF x
  <2> QED BY <1>2, <1>3, <1>4, Answered
<1>6. SequenceStep(q, Found(double'.data, s), last'.single)
  <2>1. Found(double'.data, s) = q
    BY <1>1
  <2>2. x = IF i < Len(q) THEN q[i + 1] ELSE Null
    BY <1>2
  <2> HIDE DEF q, x
  <2> QED BY <1>5, <2>1, <2>2, Zenon DEF SequenceStep
<1> QED BY <1>1, <1>5, <1>6 DEF After

LEMMA ClearStep ==
  ASSUME IInv, NEW s, Lists(double, s), Clear
  PROVE  After(s)
<1>1. double \in DllType /\ single = OneWay(double)
  BY DEF IInv, TypeOK, InStep
<1>2. double' = EmptyDll /\ single' = EmptyList /\ last' = Calls("free", 0, Null, Null)
  BY <1>1, FreeEverything DEF Clear
<1>3. double' \in DllType /\ Lists(double', << >>) /\ single' = OneWay(double')
  BY <1>2, EmptyLists
<1>4. /\ last' \in [single : CallType, double : CallType]
      /\ last'.double = last'.single /\ last'.single = Call("free", 0, Null)
  BY <1>2, Answered
<1>5. Found(double'.data, << >>) = << >>
  BY DEF Found
<1>6. SequenceStep(Found(double.data, s), Found(double'.data, << >>), last'.single)
  BY <1>4, <1>5, Zenon DEF SequenceStep
<1> QED BY <1>3, <1>4, <1>6 DEF After

-----------------------------------------------------------------------------
(* The invariant is inductive.                                             *)

LEMMA SomeNodes ==
  ASSUME IInv
  PROVE  \E s : Lists(double, s)
BY LinkedSequence DEF IInv, TypeOK, WellLinked

(* Every step is a call on the nodes that the lists hold, or a stutter. *)
LEMMA NextStep ==
  ASSUME IInv, NEW s, Lists(double, s), Next
  PROVE  After(s)
<1>1. ASSUME NEW i \in Indices, Take(i) \/ Get(i) \/ \E x \in Data : Put(i, x)
      PROVE  After(s)
  BY <1>1, TakeStep, GetStep, PutStep
<1>2. ASSUME NEW i \in Indices, NEW j \in Indices, Move(i, j)
      PROVE  After(s)
  BY <1>2, MoveStep
<1> QED BY <1>1, <1>2, ClearStep DEF Next

LEMMA InitInvariant == Init => IInv
<1> SUFFICES ASSUME Init PROVE IInv
  OBVIOUS
<1>1. single = EmptyList /\ double = EmptyDll /\ last = Calls("init", 0, Null, Null)
  BY DEF Init
<1>2. double \in DllType /\ Lists(double, << >>) /\ single = OneWay(double)
  BY <1>1, EmptyLists
<1>3. single \in ListType
  BY <1>2, OneWayType
<1>4. last \in [single : CallType, double : CallType] /\ last.double = last.single
  BY <1>1 DEF Calls, Call, CallType
<1>5. Linked(double)
  BY <1>2, LinkedSequence
<1> QED BY <1>2, <1>3, <1>4, <1>5 DEF IInv, TypeOK, WellLinked, InStep

LEMMA StepInvariant == IInv /\ [Next]_vars => IInv'
<1> SUFFICES ASSUME IInv, [Next]_vars PROVE IInv'
  OBVIOUS
<1>1. CASE Next
  <2>1. PICK s : Lists(double, s)
    BY SomeNodes
  <2>2. After(s)
    BY <1>1, <2>1, NextStep
  <2>3. PICK t : /\ double' \in DllType /\ Lists(double', t)
                 /\ single' = OneWay(double')
                 /\ last' \in [single : CallType, double : CallType]
                 /\ last'.double = last'.single
    BY <2>2 DEF After
  <2>4. single' \in ListType
    BY <2>3, OneWayType
  <2>5. Linked(double')
    BY <2>3, LinkedSequence
  <2> QED BY <2>3, <2>4, <2>5 DEF IInv, TypeOK, WellLinked, InStep
<1>2. CASE UNCHANGED vars
  BY <1>2 DEF IInv, TypeOK, WellLinked, InStep, vars
<1> QED BY <1>1, <1>2

LEMMA Invariance == Spec => []IInv
BY InitInvariant, StepInvariant, PTL DEF Spec

(* The type invariant, for lists of every length and calls at any index. *)
THEOREM TypeCorrect == Spec => []TypeOK
<1>1. IInv => TypeOK
  BY DEF IInv
<1> QED BY <1>1, Invariance, PTL

(* Whatever is inserted, removed, moved and freed, the doubly linked list  *)
(* is linked both ways through each of its nodes once, so dll_remove_node  *)
(* may trust the pointers of any node of it.                               *)
THEOREM AlwaysWellLinked == Spec => []WellLinked
<1>1. IInv => WellLinked
  BY DEF IInv
<1> QED BY <1>1, Invariance, PTL

(* The singly linked list's head, tail, size and next pointers agree, and  *)
(* its nodes are those that are allocated: a list that is in step with one *)
(* that is linked both ways is well formed.                                *)
THEOREM AlwaysWellFormed == Spec => []WellFormed
<1>1. IInv => WellFormed
  <2> SUFFICES ASSUME IInv PROVE WellFormed
    OBVIOUS
  <2>1. PICK s : Lists(double, s)
    BY SomeNodes
  <2>2. ListShape(OneWay(double))
    BY <2>1, OneWayShape DEF IInv, TypeOK
  <2> QED BY <2>2 DEF IInv, InStep, WellFormed
<1> QED BY <1>1, Invariance, PTL

-----------------------------------------------------------------------------
(* The lists implement a sequence of values.                               *)

(* A list read from the tail is the list read from the head, reversed. *)
LEMMA ReadBackward ==
  ASSUME NEW d \in DllType, NEW s, Lists(d, s)
  PROVE  Reverse(ValuesAlong(d, d.prev, d.tail)) = Found(d.data, s)
<1> DEFINE k == Len(s)
           w == [i \in 1 .. k |-> s[(k - i) + 1]]
           v == ValuesAlong(d, d.prev, d.tail)
<1>1. /\ s \in Seq(Nodes) /\ k \in Nat /\ DOMAIN s = 1 .. k
      /\ \A i \in 1 .. k : s[i] \in Nodes
      /\ \A i, j \in 1 .. k : s[i] = s[j] => i = j
      /\ d.tail = IF k = 0 THEN Null ELSE s[k]
      /\ \A i \in 1 .. k : d.prev[s[i]] = IF i = 1 THEN Null ELSE s[i - 1]
  BY Listed
<1>2. d.prev \in [Nodes -> Pointer]
  BY DEF DllType
<1> HIDE DEF k
<1>3. w \in Seq(Nodes) /\ Len(w) = k /\ DOMAIN w = 1 .. k
  <2>1. w \in [1 .. k -> Nodes]
    BY <1>1
  <2> QED BY <1>1, <2>1
<1>4. \A i, j \in DOMAIN w : w[i] = w[j] => i = j
  <2> SUFFICES ASSUME NEW i \in 1 .. k, NEW j \in 1 .. k, w[i] = w[j] PROVE i = j
    BY <1>3
  <2>1. s[(k - i) + 1] = s[(k - j) + 1] /\ (k - i) + 1 \in 1 .. k /\ (k - j) + 1 \in 1 .. k
    BY <1>1
  <2>2. (k - i) + 1 = (k - j) + 1
    BY <1>1, <2>1
  <2> QED BY <1>1, <2>2
<1>5. w = << >> <=> k = 0
  <2> HIDE DEF w
  <2> QED BY <1>1, <1>3
<1>6. d.tail = IF w = << >> THEN Null ELSE w[1]
  <2>1. k # 0 => w[1] = s[k]
    BY <1>1
  <2> QED BY <1>1, <1>5, <2>1
<1>7. \A i \in DOMAIN w : d.prev[w[i]] = IF i = Len(w) THEN Null ELSE w[i + 1]
  <2> SUFFICES ASSUME NEW i \in 1 .. k
               PROVE  d.prev[w[i]] = IF i = k THEN Null ELSE w[i + 1]
    BY <1>3
  <2> DEFINE j == (k - i) + 1
  <2>1. j \in 1 .. k /\ (j = 1 <=> i = k) /\ w[i] = s[j]
    BY <1>1
  <2>2. i # k => w[i + 1] = s[j - 1]
    <3>1. i # k => i + 1 \in 1 .. k /\ (k - (i + 1)) + 1 = j - 1
      BY <1>1
    <3> QED BY <3>1
  <2> HIDE DEF j, w
  <2> QED BY <1>1, <2>1, <2>2
<1> HIDE DEF w
<1>8. Walk(d.prev, d.tail) = w
  BY <1>2, <1>3, <1>4, <1>6, <1>7, WalkVisits
<1>9. v = [i \in 1 .. k |-> d.data[w[i]]]
  BY <1>3, <1>8 DEF ValuesAlong
<1>10. Len(v) = k
  BY <1>1, <1>9
<1> HIDE DEF v
<1>11. Reverse(v) = [i \in 1 .. k |-> v[(k - i) + 1]]
  BY <1>10 DEF Reverse
<1>12. \A i \in 1 .. k : v[(k - i) + 1] = d.data[s[i]]
  <2> SUFFICES ASSUME NEW i \in 1 .. k PROVE v[(k - i) + 1] = d.data[s[i]]
    OBVIOUS
  <2> DEFINE j == (k - i) + 1
  <2>1. j \in 1 .. k /\ (k - j) + 1 = i
    BY <1>1
  <2>2. w[j] = s[(k - j) + 1]
    BY <2>1 DEF w
  <2> HIDE DEF j
  <2>3. v[j] = d.data[s[i]]
    BY <1>9, <2>1, <2>2
  <2> QED BY <2>3 DEF j
<1>13. Reverse(v) = Found(d.data, s)
  BY <1>1, <1>11, <1>12 DEF Found
<1> QED BY <1>13 DEF v

(* Each of the lists shows the values of the nodes, in their order. *)
LEMMA ListsShow ==
  ASSUME NEW d \in DllType, NEW s, Lists(d, s)
  PROVE  /\ Values(OneWay(d)) = Found(d.data, s)
         /\ ValuesAlong(d, d.next, d.head) = Found(d.data, s)
         /\ Reverse(ValuesAlong(d, d.prev, d.tail)) = Found(d.data, s)
<1>1. Visited(d) = s
  BY OneWayShape
<1>2. ValuesAlong(d, d.next, d.head) = Found(d.data, s)
  BY <1>1 DEF ValuesAlong, Visited, Found
<1>3. Values(OneWay(d)) = Found(d.data, s)
  BY <1>1, OneWayFields DEF Values, Found
<1> QED BY <1>2, <1>3, ReadBackward

(* What each of the refinement mappings shows: the values, and the call. *)
Shown == <<Values(single), last.single>>
ShownForward == <<ValuesAlong(double, double.next, double.head), last.double>>
ShownBackward == <<Reverse(ValuesAlong(double, double.prev, double.tail)), last.double>>

LEMMA InitShows == Init => Sequence!Init /\ Forward!Init /\ Backward!Init
<1> SUFFICES ASSUME Init PROVE Sequence!Init /\ Forward!Init /\ Backward!Init
  OBVIOUS
<1>1. single = OneWay(double) /\ double \in DllType /\ Lists(double, << >>)
  BY EmptyLists DEF Init
<1>2. Found(double.data, << >>) = << >>
  BY DEF Found
<1>3. /\ Values(single) = << >>
      /\ ValuesAlong(double, double.next, double.head) = << >>
      /\ Reverse(ValuesAlong(double, double.prev, double.tail)) = << >>
  BY <1>1, <1>2, ListsShow
<1>4. /\ last.single = [op |-> "init", at |-> 0, value |-> Null]
      /\ last.double = [op |-> "init", at |-> 0, value |-> Null]
  BY DEF Init, Calls, Call
<1> QED BY <1>3, <1>4 DEF Sequence!Init, Forward!Init, Backward!Init,
          Sequence!Call, Forward!Call, Backward!Call

(* What SequenceStep says is the next-state relation of ValueSequence. *)
LEMMA StepShows ==
  ASSUME IInv, Next
  PROVE  Sequence!Next /\ Forward!Next /\ Backward!Next
<1>1. PICK s : Lists(double, s)
  BY SomeNodes
<1>2. After(s)
  BY <1>1, NextStep
<1>3. PICK t :
        /\ double' \in DllType /\ Lists(double', t)
        /\ single' = OneWay(double') /\ last'.double = last'.single
        /\ SequenceStep(Found(double.data, s), Found(double'.data, t), last'.single)
  BY <1>2 DEF After
<1> DEFINE q == Found(double.data, s)
           r == Found(double'.data, t)
<1>4. /\ Values(single) = q
      /\ ValuesAlong(double, double.next, double.head) = q
      /\ Reverse(ValuesAlong(double, double.prev, double.tail)) = q
  BY <1>1, ListsShow DEF IInv, TypeOK, InStep
<1>5. /\ Values(single)' = r
      /\ ValuesAlong(double, double.next, double.head)' = r
      /\ Reverse(ValuesAlong(double, double.prev, double.tail))' = r
  BY <1>3, ListsShow
<1>6. SequenceStep(q, r, last'.single)
  BY <1>3
<1> HIDE DEF q, r
<1>7. Sequence!Next
  <2> DEFINE v == Values(single)
  <2>1. SequenceStep(v, v', last'.single)
    BY <1>3, <1>4, <1>5, <1>6
  <2>2. ASSUME NEW i \in Indices, NEW x \in Data,
               v' = InsertAt(v, Min({i, Len(v)}) + 1, x), last'.single = Call("insert", i, x)
        PROVE  Sequence!Next
    <3>1. Sequence!Put(i, x)
      BY <2>2, Zenon DEF Sequence!Put, Sequence!Call, Call,
         InsertAt, Min, Sequence!InsertAt, Sequence!Min
    <3> QED BY <3>1, Zenon DEF Sequence!Next
  <2>3. ASSUME NEW i \in Indices, v # << >>,
               v' = RemoveAt(v, Min({i + 1, Len(v)})),
               last'.single = Call("remove", i, v[Min({i + 1, Len(v)})])
        PROVE  Sequence!Next
    <3>1. Sequence!Take(i)
      BY <2>3, Zenon DEF Sequence!Take, Sequence!Call, Call,
         RemoveAt, Min, Sequence!RemoveAt, Sequence!Min
    <3> QED BY <3>1, Zenon DEF Sequence!Next
  <2>4. ASSUME NEW i \in Indices, NEW j \in Indices, i < Len(v),
               v' = InsertAt(RemoveAt(v, i + 1),
                             Min({j, Len(RemoveAt(v, i + 1))}) + 1, v[i + 1]),
               last'.single = Call("move", j, v[i + 1])
        PROVE  Sequence!Next
    <3>1. Sequence!Move(i, j)
      BY <2>4, Zenon DEF Sequence!Move, Sequence!Call, Call,
         InsertAt, RemoveAt, Min, Sequence!InsertAt, Sequence!RemoveAt, Sequence!Min
    <3> QED BY <3>1, Zenon DEF Sequence!Next
  <2>5. ASSUME NEW i \in Indices, v' = v,
               last'.single = Call("get", i, IF i < Len(v) THEN v[i + 1] ELSE Null)
        PROVE  Sequence!Next
    <3>1. Sequence!Get(i)
      BY <2>5, Zenon DEF Sequence!Get, Sequence!Call, Call
    <3> QED BY <3>1, Zenon DEF Sequence!Next
  <2>6. ASSUME v' = << >>, last'.single = Call("free", 0, Null)
        PROVE  Sequence!Next
    <3>1. Sequence!Clear
      BY <2>6, Zenon DEF Sequence!Clear, Sequence!Call, Call
    <3> QED BY <3>1, Zenon DEF Sequence!Next
  <2> HIDE DEF v
  <2> QED BY <2>1, <2>2, <2>3, <2>4, <2>5, <2>6, Zenon DEF SequenceStep
<1>8. Forward!Next
  <2> DEFINE v == ValuesAlong(double, double.next, double.head)
  <2>1. SequenceStep(v, v', last'.double)
    BY <1>3, <1>4, <1>5, <1>6
  <2>2. ASSUME NEW i \in Indices, NEW x \in Data,
               v' = InsertAt(v, Min({i, Len(v)}) + 1, x), last'.double = Call("insert", i, x)
        PROVE  Forward!Next
    <3>1. Forward!Put(i, x)
      BY <2>2, Zenon DEF Forward!Put, Forward!Call, Call,
         InsertAt, Min, Forward!InsertAt, Forward!Min
    <3> QED BY <3>1, Zenon DEF Forward!Next
  <2>3. ASSUME NEW i \in Indices, v # << >>,
               v' = RemoveAt(v, Min({i + 1, Len(v)})),
               last'.double = Call("remove", i, v[Min({i + 1, Len(v)})])
        PROVE  Forward!Next
    <3>1. Forward!Take(i)
      BY <2>3, Zenon DEF Forward!Take, Forward!Call, Call,
         RemoveAt, Min, Forward!RemoveAt, Forward!Min
    <3> QED BY <3>1, Zenon DEF Forward!Next
  <2>4. ASSUME NEW i \in Indices, NEW j \in Indices, i < Len(v),
               v' = InsertAt(RemoveAt(v, i + 1),
                             Min({j, Len(RemoveAt(v, i + 1))}) + 1, v[i + 1]),
               last'.double = Call("move", j, v[i + 1])
        PROVE  Forward!Next
    <3>1. Forward!Move(i, j)
      BY <2>4, Zenon DEF Forward!Move, Forward!Call, Call,
         InsertAt, RemoveAt, Min, Forward!InsertAt, Forward!RemoveAt, Forward!Min
    <3> QED BY <3>1, Zenon DEF Forward!Next
  <2>5. ASSUME NEW i \in Indices, v' = v,
               last'.double = Call("get", i, IF i < Len(v) THEN v[i + 1] ELSE Null)
        PROVE  Forward!Next
    <3>1. Forward!Get(i)
      BY <2>5, Zenon DEF Forward!Get, Forward!Call, Call
    <3> QED BY <3>1, Zenon DEF Forward!Next
  <2>6. ASSUME v' = << >>, last'.double = Call("free", 0, Null)
        PROVE  Forward!Next
    <3>1. Forward!Clear
      BY <2>6, Zenon DEF Forward!Clear, Forward!Call, Call
    <3> QED BY <3>1, Zenon DEF Forward!Next
  <2> HIDE DEF v
  <2> QED BY <2>1, <2>2, <2>3, <2>4, <2>5, <2>6, Zenon DEF SequenceStep
<1>9. Backward!Next
  <2> DEFINE v == Reverse(ValuesAlong(double, double.prev, double.tail))
  <2>1. SequenceStep(v, v', last'.double)
    BY <1>3, <1>4, <1>5, <1>6
  <2>2. ASSUME NEW i \in Indices, NEW x \in Data,
               v' = InsertAt(v, Min({i, Len(v)}) + 1, x), last'.double = Call("insert", i, x)
        PROVE  Backward!Next
    <3>1. Backward!Put(i, x)
      BY <2>2, Zenon DEF Backward!Put, Backward!Call, Call,
         InsertAt, Min, Backward!InsertAt, Backward!Min
    <3> QED BY <3>1, Zenon DEF Backward!Next
  <2>3. ASSUME NEW i \in Indices, v # << >>,
               v' = RemoveAt(v, Min({i + 1, Len(v)})),
               last'.double = Call("remove", i, v[Min({i + 1, Len(v)})])
        PROVE  Backward!Next
    <3>1. Backward!Take(i)
      BY <2>3, Zenon DEF Backward!Take, Backward!Call, Call,
         RemoveAt, Min, Backward!RemoveAt, Backward!Min
    <3> QED BY <3>1, Zenon DEF Backward!Next
  <2>4. ASSUME NEW i \in Indices, NEW j \in Indices, i < Len(v),
               v' = InsertAt(RemoveAt(v, i + 1),
                             Min({j, Len(RemoveAt(v, i + 1))}) + 1, v[i + 1]),
               last'.double = Call("move", j, v[i + 1])
        PROVE  Backward!Next
    <3>1. Backward!Move(i, j)
      BY <2>4, Zenon DEF Backward!Move, Backward!Call, Call,
         InsertAt, RemoveAt, Min, Backward!InsertAt, Backward!RemoveAt, Backward!Min
    <3> QED BY <3>1, Zenon DEF Backward!Next
  <2>5. ASSUME NEW i \in Indices, v' = v,
               last'.double = Call("get", i, IF i < Len(v) THEN v[i + 1] ELSE Null)
        PROVE  Backward!Next
    <3>1. Backward!Get(i)
      BY <2>5, Zenon DEF Backward!Get, Backward!Call, Call
    <3> QED BY <3>1, Zenon DEF Backward!Next
  <2>6. ASSUME v' = << >>, last'.double = Call("free", 0, Null)
        PROVE  Backward!Next
    <3>1. Backward!Clear
      BY <2>6, Zenon DEF Backward!Clear, Backward!Call, Call
    <3> QED BY <3>1, Zenon DEF Backward!Next
  <2> HIDE DEF v
  <2> QED BY <2>1, <2>2, <2>3, <2>4, <2>5, <2>6, Zenon DEF SequenceStep
<1> QED BY <1>7, <1>8, <1>9

LEMMA StuttersShow ==
  ASSUME UNCHANGED vars
  PROVE  UNCHANGED Shown /\ UNCHANGED ShownForward /\ UNCHANGED ShownBackward
BY DEF vars, Shown, ShownForward, ShownBackward

LEMMA StepRefines ==
  IInv /\ [Next]_vars =>
    [Sequence!Next]_Shown /\ [Forward!Next]_ShownForward /\ [Backward!Next]_ShownBackward
<1>1. CASE Next
  BY <1>1, StepShows
<1>2. CASE UNCHANGED vars
  BY <1>2, StuttersShow
<1> QED BY <1>1, <1>2

(* Refinement. Every call does to the singly linked list's values, and     *)
(* answers, what the same call does to a sequence: insertions anywhere,    *)
(* removals, moves and reads, beyond the end as well as within it.         *)
THEOREM SequenceRefinement == Spec => IsASequence
<1>1. Init => Sequence!Init
  BY InitShows
<1>2. IInv /\ [Next]_vars => [Sequence!Next]_Shown
  BY StepRefines
<1> QED BY <1>1, <1>2, Invariance, PTL DEF Spec, IsASequence, Sequence!Spec, Shown

(* Refinement. So it does to the doubly linked list, read along next from  *)
(* the head, and along prev from the tail and reversed.                    *)
THEOREM BothWaysRefinement == Spec => ReadsBothWays
<1>1. Init => Forward!Init /\ Backward!Init
  BY InitShows
<1>2. IInv /\ [Next]_vars => [Forward!Next]_ShownForward /\ [Backward!Next]_ShownBackward
  BY StepRefines
<1> QED BY <1>1, <1>2, Invariance, PTL DEF Spec, ReadsBothWays, Forward!Spec,
          Backward!Spec, ShownForward, ShownBackward
=============================================================================

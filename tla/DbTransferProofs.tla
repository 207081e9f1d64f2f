-------------------------- MODULE DbTransferProofs --------------------------
(***************************************************************************)
(* The hash maps stay well formed under every sequence of writes, removals *)
(* and transfers, the loop of transfer_files stands on a node that is      *)
(* still there, and it moves what the load balancer's model moves: for any *)
(* number of servers, buckets, documents and nodes.                        *)
(***************************************************************************)
EXTENDS DbTransfer, ListProofs

-----------------------------------------------------------------------------
(* The singly linked list l holds the nodes of s, in their order: it is a  *)
(* doubly linked one without its prev pointers.                            *)
ChainOf(l, s) == \E d \in DllType : Lists(d, s) /\ l = OneWay(d)

LEMMA ChainFacts ==
  ASSUME NEW l, NEW s, ChainOf(l, s)
  PROVE  /\ l \in ListType /\ s \in Seq(Nodes) /\ Len(s) \in Nat /\ DOMAIN s = 1 .. Len(s)
         /\ l.size = Len(s) /\ Visited(l) = s /\ ListShape(l)
         /\ l.head = IF Len(s) = 0 THEN Null ELSE s[1]
         /\ \A i \in 1 .. Len(s) :
              /\ s[i] \in Nodes /\ s[i] # Null /\ s[i] \in Allocated(l)
              /\ l.next[s[i]] = IF i = Len(s) THEN Null ELSE s[i + 1]
              /\ l.data[s[i]] \in Data
         /\ \A i, j \in 1 .. Len(s) : s[i] = s[j] => i = j
         /\ \A n \in Allocated(l) : \E i \in 1 .. Len(s) : n = s[i]
<1>1. PICK d \in DllType : Lists(d, s) /\ l = OneWay(d)
  BY DEF ChainOf
<1>2. /\ l.head = d.head /\ l.size = d.size /\ l.next = d.next /\ l.data = d.data
      /\ Allocated(l) = Allocated(d) /\ Visited(l) = Visited(d)
  BY <1>1, OneWayFields
<1>3. l \in ListType
  BY <1>1, OneWayType
<1>4. Visited(l) = s /\ ListShape(l)
  BY <1>1, <1>2, OneWayShape
<1>5. \A i \in 1 .. Len(s) : l.data[s[i]] \in Data
  <2>1. \A i \in 1 .. Len(s) : s[i] \in Nodes /\ s[i] \in Allocated(l)
    BY <1>1, <1>2, Listed
  <2>2. l.data \in [Nodes -> Data \union {Garbage}]
    BY <1>3 DEF ListType
  <2> QED BY <2>1, <2>2 DEF Allocated
<1>6. \A n \in Allocated(l) : \E i \in 1 .. Len(s) : n = s[i]
  <2>1. \A n \in Allocated(d) : \E i \in DOMAIN s : n = s[i]
    BY <1>1, PlaceInList
  <2> QED BY <1>1, <1>2, <2>1, Listed
<1>7. /\ s \in Seq(Nodes) /\ Len(s) \in Nat /\ DOMAIN s = 1 .. Len(s)
      /\ d.size = Len(s)
      /\ d.head = IF Len(s) = 0 THEN Null ELSE s[1]
      /\ \A i \in 1 .. Len(s) :
           /\ s[i] \in Nodes /\ s[i] # Null /\ s[i] \in Allocated(d)
           /\ d.next[s[i]] = IF i = Len(s) THEN Null ELSE s[i + 1]
      /\ \A i, j \in 1 .. Len(s) : s[i] = s[j] => i = j
  BY <1>1, Listed
<1> QED BY <1>2, <1>3, <1>4, <1>5, <1>6, <1>7

LEMMA EmptyChain ==
  ChainOf(EmptyList, << >>) /\ Allocated(EmptyList) = {}
<1>1. ChainOf(EmptyList, << >>)
  BY EmptyLists DEF ChainOf
<1>2. EmptyList.data = [n \in Nodes |-> Garbage]
  BY DEF EmptyList
<1> QED BY <1>1, <1>2 DEF Allocated

(* Freed, a list leaves nothing behind. *)
LEMMA ChainFreed ==
  ASSUME NEW l, NEW s, ChainOf(l, s)
  PROVE  [EmptyList EXCEPT !.data = FreeAll(l).data] = EmptyList
BY FreeEverything DEF ChainOf

(* ll_insert_nth at the size *)
LEMMA ChainAppended ==
  ASSUME NEW l, NEW s, ChainOf(l, s), NEW n \in Unused(l), NEW x \in Data
  PROVE  LET m == InsertNth(l, l.size, x, n)
         IN  /\ m.data = [l.data EXCEPT ![n] = x]
             /\ \E t : ChainOf(m, t)
<1>1. PICK d \in DllType : Lists(d, s) /\ l = OneWay(d)
  BY DEF ChainOf
<1>2. l.size \in Nat /\ n \in Nodes \ Allocated(d)
  BY <1>1, OneWayFields DEF Unused, DllType
<1> DEFINE i == l.size
           e == DllInsertNthNode(d, i, x, n)
<1> HIDE DEF i
<1>3. /\ e \in DllType /\ e.data = [d.data EXCEPT ![n] = x]
      /\ Lists(e, Placed(s, Least(i, Len(s)), n))
  BY <1>1, <1>2, InsertAnywhere DEF i
<1>4. InsertNth(l, i, x, n) = OneWay(e)
  BY <1>1, <1>2, OneWayInsert DEF i
<1> HIDE DEF e
<1>5. OneWay(e).data = e.data /\ l.data = d.data
  BY <1>1, OneWayFields
<1>6. ChainOf(OneWay(e), Placed(s, Least(i, Len(s)), n))
  BY <1>3 DEF ChainOf
<1> QED BY <1>3, <1>4, <1>5, <1>6 DEF i

(* ll_remove_nth_node, and the free of the node *)
LEMMA ChainRemoved ==
  ASSUME NEW l, NEW s, ChainOf(l, s), NEW i \in 1 .. Len(s)
  PROVE  LET m == Dispose(RemoveNth(l, i - 1), s[i])
         IN  /\ m.data = [l.data EXCEPT ![s[i]] = Garbage]
             /\ ChainOf(m, Without(s, i))
<1>1. PICK d \in DllType : Lists(d, s) /\ l = OneWay(d)
  BY DEF ChainOf
<1>2. i \in DOMAIN s /\ l.size = Len(s) /\ Len(s) \in Nat
  BY ChainFacts
<1>3. Removable(l, i - 1) = i - 1
  <2>1. Min({i - 1, Len(s) - 1}) = Least(i - 1, Len(s) - 1)
    BY <1>2, MinOfTwo
  <2>2. Least(i - 1, Len(s) - 1) = i - 1
    BY <1>2 DEF Least
  <2> QED BY <1>2, <2>1, <2>2 DEF Removable
<1> DEFINE e == FreeNode(RemoveNode(d, s[i]), s[i])
<1>4. /\ e \in DllType /\ e.data = [d.data EXCEPT ![s[i]] = Garbage]
      /\ Lists(e, Without(s, i))
  BY <1>1, <1>2, RemoveAndFree
<1>5. Dispose(RemoveNth(l, i - 1), s[i]) = OneWay(e)
  BY <1>1, <1>2, <1>3, OneWayRemove
<1> HIDE DEF e
<1>6. OneWay(e).data = e.data /\ l.data = d.data
  BY <1>1, OneWayFields
<1>7. ChainOf(OneWay(e), Without(s, i))
  BY <1>4 DEF ChainOf
<1> QED BY <1>4, <1>5, <1>6, <1>7

(* Another value in a node that is there. *)
LEMMA ChainUpdated ==
  ASSUME NEW l, NEW s, ChainOf(l, s), NEW n \in Allocated(l), NEW x \in Data
  PROVE  LET m == [l EXCEPT !.data[n] = x]
         IN  /\ m.data = [l.data EXCEPT ![n] = x]
             /\ ChainOf(m, s)
<1>1. PICK d \in DllType : Lists(d, s) /\ l = OneWay(d)
  BY DEF ChainOf
<1> DEFINE e == [d EXCEPT !.data[n] = x]
           m == [l EXCEPT !.data[n] = x]
<1>2. n \in Nodes /\ n \in Allocated(d)
  BY <1>1, OneWayFields DEF Allocated
<1>3. /\ e \in DllType /\ e.data = [d.data EXCEPT ![n] = x]
      /\ e.head = d.head /\ e.tail = d.tail /\ e.size = d.size
      /\ e.next = d.next /\ e.prev = d.prev
  BY <1>2 DEF DllType
<1>4. /\ l.head = d.head /\ l.tail = d.tail /\ l.size = d.size
      /\ l.next = d.next /\ l.data = d.data /\ l \in ListType
  BY <1>1, OneWayFields, OneWayType
<1>5. m = [head |-> l.head, tail |-> l.tail, size |-> l.size, next |-> l.next,
           data |-> [l.data EXCEPT ![n] = x]]
  BY <1>4 DEF ListType
<1> HIDE DEF e, m
<1>6. m = OneWay(e)
  BY <1>3, <1>4, <1>5 DEF OneWay
<1>7. Lists(e, s)
  <2>1. s \in Seq(Nodes) /\ Represents(d, s) /\ Range(s) = Allocated(d)
    BY <1>1 DEF Lists
  <2>2. Represents(e, s)
    BY <1>3, <2>1, SamePointers
  <2>3. Allocated(e) = Allocated(d)
    BY <1>2, <1>3, NullAssumption DEF Allocated, DllType
  <2> QED BY <2>1, <2>2, <2>3 DEF Lists
<1>8. m.data = [l.data EXCEPT ![n] = x]
  BY <1>5
<1> QED BY <1>3, <1>6, <1>7, <1>8 DEF ChainOf, m

-----------------------------------------------------------------------------
(* The keys of a bucket.                                                   *)

(* Every key in bucket b belongs to it, and is in one node. *)
Keyed(l, b) ==
  /\ \A n \in Allocated(l) : BucketOf(l.data[n].key) = b
  /\ \A m, n \in Allocated(l) : l.data[m].key = l.data[n].key => m = n

(* What hm_get finds for key k in the bucket l. *)
ValueIn(l, k) == IF Hit(l, k) = Null THEN Missing ELSE l.data[Hit(l, k)].val

LEMMA MinOfOne == \A i \in Int : Min({i}) = i
<1> SUFFICES ASSUME NEW i \in Int PROVE Min({i}) = i
  OBVIOUS
<1>1. Min({i, i}) = i
  BY MinOfTwo DEF Least
<1>2. {i, i} = {i}
  OBVIOUS
<1> QED BY <1>1, <1>2

(* The walks of hm_get, hm_set and hm_remove stop at the one node that has *)
(* the key, whatever its position.                                         *)
LEMMA HitIs ==
  ASSUME NEW l, NEW s, ChainOf(l, s), NEW b, Keyed(l, b), NEW k
  PROVE  /\ \A i \in 1 .. Len(s) : l.data[s[i]].key = k =>
              Hit(l, k) = s[i] /\ Min(Hits(l, s, k)) = i
         /\ (\A n \in Allocated(l) : l.data[n].key # k) => Hit(l, k) = Null
         /\ Hit(l, k) # Null => Hit(l, k) \in Allocated(l) /\ l.data[Hit(l, k)].key = k
<1> DEFINE hits == Hits(l, s, k)
<1>1. /\ Len(s) \in Nat /\ DOMAIN s = 1 .. Len(s) /\ Visited(l) = s
      /\ \A i \in 1 .. Len(s) : s[i] \in Allocated(l) /\ s[i] # Null
      /\ \A i, j \in 1 .. Len(s) : s[i] = s[j] => i = j
      /\ \A n \in Allocated(l) : \E i \in 1 .. Len(s) : n = s[i]
  BY ChainFacts
<1>2. hits = {i \in 1 .. Len(s) : l.data[s[i]].key = k}
  BY <1>1 DEF Hits
<1>3. Hit(l, k) = IF hits = {} THEN Null ELSE s[Min(hits)]
  BY <1>1, Zenon DEF Hit
<1> HIDE DEF hits
<1>4. ASSUME NEW i \in 1 .. Len(s), l.data[s[i]].key = k
      PROVE  Hit(l, k) = s[i] /\ Min(hits) = i /\ l.data[Hit(l, k)].key = k
  <2>1. \A j \in hits : j = i
    BY <1>1, <1>2, <1>4 DEF Keyed
  <2>2. hits = {i}
    BY <1>2, <1>4, <2>1
  <2>3. Min(hits) = i
    BY <2>2, MinOfOne
  <2> QED BY <1>3, <1>4, <2>2, <2>3
<1>5. (\A n \in Allocated(l) : l.data[n].key # k) => Hit(l, k) = Null
  BY <1>1, <1>2, <1>3
<1>6. Hit(l, k) # Null => Hit(l, k) \in Allocated(l) /\ l.data[Hit(l, k)].key = k
  <2> SUFFICES ASSUME Hit(l, k) # Null
               PROVE  Hit(l, k) \in Allocated(l) /\ l.data[Hit(l, k)].key = k
    OBVIOUS
  <2>1. PICK i \in 1 .. Len(s) : l.data[s[i]].key = k
    BY <1>2, <1>3
  <2> QED BY <1>1, <1>4, <2>1
<1> QED BY <1>4, <1>5, <1>6 DEF hits

LEMMA ValueIs ==
  ASSUME NEW l, NEW s, ChainOf(l, s), NEW b, Keyed(l, b)
  PROVE  /\ \A n \in Allocated(l) : ValueIn(l, l.data[n].key) = l.data[n].val
         /\ \A k : (\A n \in Allocated(l) : l.data[n].key # k) => ValueIn(l, k) = Missing
<1>1. ASSUME NEW n \in Allocated(l)
      PROVE  ValueIn(l, l.data[n].key) = l.data[n].val
  <2>1. PICK i \in 1 .. Len(s) : n = s[i]
    BY ChainFacts
  <2>2. Hit(l, l.data[n].key) = n /\ n # Null
    BY <2>1, HitIs, ChainFacts
  <2> QED BY <2>2 DEF ValueIn
<1>2. ASSUME NEW k, \A n \in Allocated(l) : l.data[n].key # k
      PROVE  ValueIn(l, k) = Missing
  BY <1>2, HitIs DEF ValueIn
<1> QED BY <1>1, <1>2

LEMMA EntryFields ==
  ASSUME NEW k \in Keys, NEW v \in Vals
  PROVE  /\ Entry(k, v) \in Data /\ Entry(k, v) # Garbage
         /\ Entry(k, v).key = k /\ Entry(k, v).val = v
BY NullAssumption, MapAssumption DEF Entry

(* A bucket in which the node n was made or overwritten to hold k and v,   *)
(* and no other holds k.                                                   *)
LEMMA BucketWritten ==
  ASSUME NEW l \in ListType, NEW s, ChainOf(l, s), NEW b, Keyed(l, b),
         NEW m, NEW t, ChainOf(m, t), NEW n \in Nodes, NEW k \in Keys, NEW v \in Vals,
         m.data = [l.data EXCEPT ![n] = Entry(k, v)], BucketOf(k) = b,
         \A q \in Allocated(l) : l.data[q].key = k <=> q = n
  PROVE  /\ Keyed(m, b)
         /\ \A j : ValueIn(m, j) = IF j = k THEN v ELSE ValueIn(l, j)
<1>1. l.data \in [Nodes -> Data \union {Garbage}]
  BY DEF ListType
<1>2. /\ m.data[n] = Entry(k, v)
      /\ \A q \in Nodes \ {n} : m.data[q] = l.data[q]
  BY <1>1
<1>3. Allocated(m) = Allocated(l) \union {n} /\ m.data[n].key = k /\ m.data[n].val = v
  BY <1>2, EntryFields DEF Allocated
<1>4. \A q \in Allocated(l) : q # n => m.data[q] = l.data[q] /\ l.data[q].key # k
  BY <1>2 DEF Allocated
<1>5. Keyed(m, b)
  BY <1>3, <1>4 DEF Keyed
<1>6. ASSUME NEW j
      PROVE  ValueIn(m, j) = IF j = k THEN v ELSE ValueIn(l, j)
  <2>1. CASE j = k
    BY <1>3, <1>5, <2>1, ValueIs
  <2>2. CASE j # k /\ \E q \in Allocated(l) : l.data[q].key = j
    <3>1. PICK q \in Allocated(l) : l.data[q].key = j
      BY <2>2
    <3>2. q \in Allocated(m) /\ m.data[q] = l.data[q]
      BY <1>3, <1>4, <2>2, <3>1
    <3>3. ValueIn(l, l.data[q].key) = l.data[q].val
      BY <3>1, ValueIs
    <3>4. ValueIn(m, m.data[q].key) = m.data[q].val
      BY <1>5, <3>2, ValueIs
    <3> QED BY <2>2, <3>1, <3>2, <3>3, <3>4
  <2>3. CASE j # k /\ \A q \in Allocated(l) : l.data[q].key # j
    <3>1. \A q \in Allocated(m) : m.data[q].key # j
      BY <1>3, <1>4, <2>3
    <3>2. ValueIn(m, j) = Missing /\ ValueIn(l, j) = Missing
      BY <1>5, <2>3, <3>1, ValueIs
    <3> QED BY <2>3, <3>2
  <2> QED BY <2>1, <2>2, <2>3
<1> QED BY <1>5, <1>6

(* A bucket from which the node with k was taken. *)
LEMMA BucketErased ==
  ASSUME NEW l \in ListType, NEW s, ChainOf(l, s), NEW b, Keyed(l, b),
         NEW m, NEW t, ChainOf(m, t), NEW n \in Allocated(l),
         m.data = [l.data EXCEPT ![n] = Garbage]
  PROVE  /\ Keyed(m, b) /\ Allocated(m) = Allocated(l) \ {n}
         /\ \A j : ValueIn(m, j) = IF j = l.data[n].key THEN Missing ELSE ValueIn(l, j)
<1> DEFINE k == l.data[n].key
<1>1. l.data \in [Nodes -> Data \union {Garbage}]
  BY DEF ListType
<1>2. /\ m.data[n] = Garbage
      /\ \A q \in Nodes \ {n} : m.data[q] = l.data[q]
  BY <1>1 DEF Allocated
<1>3. Allocated(m) = Allocated(l) \ {n}
  BY <1>2 DEF Allocated
<1>4. \A q \in Allocated(m) : m.data[q] = l.data[q] /\ l.data[q].key # k
  BY <1>2, <1>3 DEF Keyed, Allocated
<1>5. Keyed(m, b)
  BY <1>3, <1>4 DEF Keyed
<1> HIDE DEF k
<1>6. ASSUME NEW j
      PROVE  ValueIn(m, j) = IF j = k THEN Missing ELSE ValueIn(l, j)
  <2>1. CASE j = k
    <3>1. \A q \in Allocated(m) : m.data[q].key # j
      BY <1>4, <2>1
    <3> QED BY <1>5, <2>1, <3>1, ValueIs
  <2>2. CASE j # k /\ \E q \in Allocated(l) : l.data[q].key = j
    <3>1. PICK q \in Allocated(l) : l.data[q].key = j
      BY <2>2
    <3>2. q \in Allocated(m) /\ m.data[q] = l.data[q]
      BY <1>3, <1>4, <2>2, <3>1 DEF k
    <3>3. ValueIn(l, l.data[q].key) = l.data[q].val
      BY <3>1, ValueIs
    <3>4. ValueIn(m, m.data[q].key) = m.data[q].val
      BY <1>5, <3>2, ValueIs
    <3> QED BY <2>2, <3>1, <3>2, <3>3, <3>4
  <2>3. CASE j # k /\ \A q \in Allocated(l) : l.data[q].key # j
    <3>1. \A q \in Allocated(m) : m.data[q].key # j
      BY <1>3, <1>4, <2>3
    <3>2. ValueIn(m, j) = Missing /\ ValueIn(l, j) = Missing
      BY <1>5, <2>3, <3>1, ValueIs
    <3> QED BY <2>3, <3>2
  <2> QED BY <2>1, <2>2, <2>3
<1> QED BY <1>3, <1>5, <1>6 DEF k

-----------------------------------------------------------------------------
(* The maps.                                                               *)

(* Every bucket is a list of keys that belong to it, each once. *)
Sound(m) ==
  /\ m \in MapType
  /\ \A b \in Buckets : Keyed(m.buckets[b], b) /\ \E s : ChainOf(m.buckets[b], s)

LEMMA BucketIndex == \A k \in Keys : BucketOf(k) \in Buckets
<1> SUFFICES ASSUME NEW k \in Keys PROVE BucketOf(k) \in Buckets
  OBVIOUS
<1> DEFINE h == KeyHash[k]
<1>1. h \in Nat /\ HMax \in Nat /\ HMax > 0
  BY MapAssumption
<1> HIDE DEF h
<1>2. h % HMax \in 0 .. HMax - 1
  BY <1>1
<1> QED BY <1>2 DEF BucketOf, Buckets, h

LEMMA GetIs == \A m, k : HmGet(m, k) = ValueIn(m.buckets[BucketOf(k)], k)
BY Zenon DEF HmGet, ValueIn

LEMMA EmptySound == Sound(EmptyMap) /\ \A k \in Keys : HmGet(EmptyMap, k) = Missing
<1>1. \A b \in Buckets : EmptyMap.buckets[b] = EmptyList
  BY DEF EmptyMap
<1>2. EmptyMap \in MapType
  <2>1. EmptyList \in ListType
    BY EmptyChain, ChainFacts
  <2>2. 0 \in 0 .. SizeModulus - 1
    BY MapAssumption
  <2> QED BY <2>1, <2>2 DEF EmptyMap, MapType
<1>3. \A b \in Buckets : Keyed(EmptyMap.buckets[b], b) /\ ChainOf(EmptyMap.buckets[b], << >>)
  BY <1>1, EmptyChain DEF Keyed
<1>4. \A k \in Keys : ValueIn(EmptyMap.buckets[BucketOf(k)], k) = Missing
  <2>1. \A k : ValueIn(EmptyList, k) = Missing
    <3>1. Keyed(EmptyList, 0)
      BY EmptyChain DEF Keyed
    <3> QED BY <3>1, EmptyChain, ValueIs
  <2> QED BY <1>1, <2>1, BucketIndex
<1> QED BY <1>2, <1>3, <1>4, GetIs DEF Sound

(* hm_free leaves nothing behind. *)
LEMMA FreedIsEmpty ==
  ASSUME NEW m, Sound(m)
  PROVE  HmFree(m) = EmptyMap
<1> DEFINE freed(b) == [EmptyList EXCEPT !.data = FreeAll(m.buckets[b]).data]
<1>1. \A b \in Buckets : freed(b) = EmptyList
  BY ChainFreed DEF Sound
<1> HIDE DEF freed
<1>2. [b \in Buckets |-> freed(b)] = [b \in Buckets |-> EmptyList]
  BY <1>1
<1>3. [EmptyMap EXCEPT !.buckets = [b \in Buckets |-> EmptyList]] = EmptyMap
  BY DEF EmptyMap
<1> QED BY <1>2, <1>3, Zenon DEF HmFree, freed

(* The bucket l answers for k what v says, and for every other key what the*)
(* bucket of m that k belongs to does.                                     *)
Changes(l, m, k, v) ==
  \A j : ValueIn(l, j) = IF j = k THEN v ELSE ValueIn(m.buckets[BucketOf(k)], j)

(* The map m with l for the bucket that k belongs to, and another size. *)
WithBucket(m, k, l, size) ==
  [buckets |-> [m.buckets EXCEPT ![BucketOf(k)] = l], size |-> size]

LEMMA BucketReplaced ==
  ASSUME NEW m, Sound(m), NEW k \in Keys, NEW l, NEW s, ChainOf(l, s),
         Keyed(l, BucketOf(k)), NEW size \in 0 .. SizeModulus - 1, NEW v,
         Changes(l, m, k, v)
  PROVE  /\ Sound(WithBucket(m, k, l, size))
         /\ \A j \in Keys : HmGet(WithBucket(m, k, l, size), j)
                              = IF j = k THEN v ELSE HmGet(m, j)
<1> DEFINE b == BucketOf(k)
           r == [buckets |-> [m.buckets EXCEPT ![b] = l], size |-> size]
<1>1. b \in Buckets /\ m.buckets \in [Buckets -> ListType]
  BY BucketIndex DEF Sound, MapType
<1>2. l \in ListType
  BY ChainFacts
<1>3. r.buckets[b] = l /\ \A c \in Buckets \ {b} : r.buckets[c] = m.buckets[c]
  BY <1>1
<1>4. r \in MapType
  BY <1>1, <1>2 DEF MapType
<1> HIDE DEF r
<1>5. Sound(r)
  BY <1>1, <1>3, <1>4 DEF Sound
<1>6. ASSUME NEW j \in Keys
      PROVE  HmGet(r, j) = IF j = k THEN v ELSE HmGet(m, j)
  <2>1. CASE BucketOf(j) = b
    BY <1>3, <2>1, GetIs DEF Changes
  <2>2. CASE BucketOf(j) # b
    BY <1>3, <2>2, GetIs, BucketIndex
  <2> QED BY <2>1, <2>2
<1> QED BY <1>5, <1>6 DEF r, WithBucket

LEMMA SetSound ==
  ASSUME NEW m, Sound(m), NEW k \in Keys, NEW v \in Vals, NEW new,
         HasKey(m, k) \/ new \in Unused(m.buckets[BucketOf(k)])
  PROVE  LET r == HmSet(m, k, v, new)
         IN  /\ Sound(r)
             /\ \A j \in Keys : HmGet(r, j) = IF j = k THEN v ELSE HmGet(m, j)
<1> DEFINE b == BucketOf(k)
           l == m.buckets[b]
           x == Entry(k, v)
           e == IF HasKey(m, k) THEN [l EXCEPT !.data[Hit(l, k)] = x]
                                ELSE InsertNth(l, l.size, x, new)
<1>1. b \in Buckets /\ m \in MapType /\ Keyed(l, b)
  BY BucketIndex DEF Sound
<1>2. PICK s : ChainOf(l, s)
  BY <1>1 DEF Sound
<1>3. l \in ListType /\ x \in Data
  BY <1>2, ChainFacts, EntryFields
<1>4. HmSet(m, k, v, new) = [buckets |-> [m.buckets EXCEPT ![b] = e], size |-> m.size]
  BY <1>1, <1>3 DEF HmSet, MapType
<1>5. HasKey(m, k) <=> Hit(l, k) # Null
  BY DEF HasKey
<1> HIDE DEF l, b, x
<1>6. /\ Keyed(e, b) /\ \E t : ChainOf(e, t)
      /\ \A j : ValueIn(e, j) = IF j = k THEN v ELSE ValueIn(l, j)
  <2>1. CASE HasKey(m, k)
    <3> DEFINE n == Hit(l, k)
    <3>1. n \in Allocated(l) /\ l.data[n].key = k
      BY <1>1, <1>2, <1>5, <2>1, HitIs
    <3> HIDE DEF n
    <3>2. e = [l EXCEPT !.data[n] = x]
      BY <2>1 DEF n
    <3> HIDE DEF e
    <3>3. e.data = [l.data EXCEPT ![n] = x] /\ ChainOf(e, s)
      BY <1>2, <1>3, <3>1, <3>2, ChainUpdated
    <3>4. \A q \in Allocated(l) : l.data[q].key = k <=> q = n
      BY <1>1, <3>1 DEF Keyed
    <3>5. n \in Nodes
      BY <3>1 DEF Allocated
    <3> QED BY <1>1, <1>2, <1>3, <3>3, <3>4, <3>5, BucketWritten DEF x, b
  <2>2. CASE ~ HasKey(m, k)
    <3>1. e = InsertNth(l, l.size, x, new) /\ new \in Unused(l)
      BY <2>2 DEF l, b
    <3> HIDE DEF e
    <3>2. e.data = [l.data EXCEPT ![new] = x] /\ \E t : ChainOf(e, t)
      BY <1>2, <1>3, <3>1, ChainAppended
    <3>3. new \in Nodes /\ new \notin Allocated(l)
      BY <3>1 DEF Unused
    <3>4. \A q \in Allocated(l) : l.data[q].key = k <=> q = new
      <4>1. ASSUME NEW q \in Allocated(l), l.data[q].key = k
            PROVE  FALSE
        <5>1. PICK i \in 1 .. Len(s) : q = s[i]
          BY <1>2, ChainFacts
        <5>2. l.data[s[i]].key = k /\ s[i] # Null
          BY <1>2, <4>1, <5>1, ChainFacts
        <5>3. Keyed(l, b)
          BY <1>1
        <5>4. Hit(l, k) = s[i]
          BY <1>2, <5>2, <5>3, HitIs
        <5> QED BY <1>5, <2>2, <5>2, <5>4
      <4> QED BY <3>3, <4>1
    <3> QED BY <1>1, <1>2, <1>3, <3>2, <3>3, <3>4, BucketWritten DEF x, b
  <2> QED BY <2>1, <2>2
<1> HIDE DEF e
<1>7. m.size \in 0 .. SizeModulus - 1
  BY <1>1 DEF MapType
<1>8. PICK t : ChainOf(e, t)
  BY <1>6
<1>9. Changes(e, m, k, v) /\ Keyed(e, BucketOf(k))
  BY <1>6 DEF Changes, l, b
<1> DEFINE r == WithBucket(m, k, e, m.size)
<1>10. /\ Sound(r)
      /\ \A j \in Keys : HmGet(r, j) = IF j = k THEN v ELSE HmGet(m, j)
  BY <1>7, <1>8, <1>9, BucketReplaced
<1> QED BY <1>4, <1>10 DEF b, WithBucket

(* hm_remove of the key in the i-th node of its bucket. *)
LEMMA RemoveSound ==
  ASSUME NEW m, Sound(m), NEW k \in Keys, NEW s, ChainOf(m.buckets[BucketOf(k)], s),
         NEW i \in 1 .. Len(s), m.buckets[BucketOf(k)].data[s[i]].key = k
  PROVE  LET r == HmRemove(m, k)
             l == r.buckets[BucketOf(k)]
         IN  /\ Sound(r)
             /\ \A j \in Keys : HmGet(r, j) = IF j = k THEN Missing ELSE HmGet(m, j)
             /\ ChainOf(l, Without(s, i))
             /\ l.data = [m.buckets[BucketOf(k)].data EXCEPT ![s[i]] = Garbage]
             /\ \A b \in Buckets : b # BucketOf(k) => r.buckets[b] = m.buckets[b]
<1> DEFINE b == BucketOf(k)
           l == m.buckets[b]
           e == Dispose(RemoveNth(l, i - 1), s[i])
           size == (m.size - 1) % SizeModulus
           r == WithBucket(m, k, e, size)
<1>1. b \in Buckets /\ m \in MapType /\ Keyed(l, b)
  BY BucketIndex DEF Sound
<1>2. l \in ListType /\ Visited(l) = s /\ s[i] \in Allocated(l) /\ s[i] # Null
  BY ChainFacts
<1>3. Hit(l, k) = s[i] /\ Min(Hits(l, s, k)) = i
  BY <1>1, HitIs
<1>4. HmRemove(m, k) = r
  <2>1. HasKey(m, k)
    BY <1>2, <1>3 DEF HasKey
  <2>2. Min(Hits(l, Visited(l), k)) - 1 = i - 1
    BY <1>2, <1>3
  <2> HIDE DEF l
  <2> QED BY <1>3, <2>1, <2>2, Zenon DEF HmRemove, l, WithBucket
<1> HIDE DEF l, e
<1>5. e.data = [l.data EXCEPT ![s[i]] = Garbage] /\ ChainOf(e, Without(s, i))
  BY ChainRemoved DEF e, l
<1>6. /\ Keyed(e, b)
      /\ \A j : ValueIn(e, j) = IF j = k THEN Missing ELSE ValueIn(l, j)
  BY <1>1, <1>2, <1>5, BucketErased DEF l
<1>7. size \in 0 .. SizeModulus - 1
  <2>1. m.size - 1 \in Int /\ SizeModulus \in Nat /\ SizeModulus > 0
    BY <1>1, MapAssumption DEF MapType
  <2> QED BY <2>1
<1> HIDE DEF size
<1>8. /\ Sound(r)
      /\ \A j \in Keys : HmGet(r, j) = IF j = k THEN Missing ELSE HmGet(m, j)
  <2> DEFINE t == Without(s, i)
  <2>1. ChainOf(e, t)
    BY <1>5
  <2>2. Keyed(e, BucketOf(k))
    BY <1>6
  <2>3. Changes(e, m, k, Missing)
    BY <1>6 DEF Changes, l
  <2> HIDE DEF t
  <2> QED BY <1>7, <2>1, <2>2, <2>3, BucketReplaced
<1>9. r.buckets[b] = e /\ \A c \in Buckets : c # b => r.buckets[c] = m.buckets[c]
  BY <1>1 DEF MapType, WithBucket
<1> HIDE DEF r
<1> QED BY <1>4, <1>5, <1>8, <1>9 DEF l

(* A map that is sound is what MapShape says. *)
LEMMA SoundShape ==
  ASSUME NEW m, Sound(m)
  PROVE  MapShape(m)
<1> SUFFICES ASSUME NEW b \in Buckets
             PROVE  /\ ListShape(m.buckets[b])
                    /\ \A k \in Keys :
                         LET hits == Hits(m.buckets[b], Visited(m.buckets[b]), k)
                         IN  Cardinality(hits) <= 1 /\ (hits # {} => b = BucketOf(k))
  BY DEF MapShape
<1> DEFINE l == m.buckets[b]
<1>1. PICK s : ChainOf(l, s)
  BY DEF Sound
<1>2. Keyed(l, b)
  BY DEF Sound
<1> HIDE DEF l
<1>3. ListShape(l) /\ Visited(l) = s /\ DOMAIN s = 1 .. Len(s) /\ Len(s) \in Nat
  BY <1>1, ChainFacts
<1>4. ASSUME NEW k \in Keys
      PROVE  Cardinality(Hits(l, s, k)) <= 1 /\ (Hits(l, s, k) # {} => b = BucketOf(k))
  <2>1. Hits(l, s, k) = {i \in 1 .. Len(s) : l.data[s[i]].key = k}
    BY <1>3 DEF Hits
  <2>2. CASE Hits(l, s, k) = {}
    BY <2>2, FS_EmptySet
  <2>3. CASE Hits(l, s, k) # {}
    <3>1. PICK i \in 1 .. Len(s) : l.data[s[i]].key = k
      BY <2>1, <2>3
    <3>2. \A j \in Hits(l, s, k) : j = i
      BY <1>1, <1>2, <2>1, <3>1, ChainFacts DEF Keyed
    <3>3. Hits(l, s, k) = {i}
      BY <2>3, <3>2
    <3>4. Cardinality(Hits(l, s, k)) = 1
      BY <3>3, FS_Singleton
    <3>5. b = BucketOf(k)
      BY <1>1, <1>2, <3>1, ChainFacts DEF Keyed
    <3> QED BY <3>4, <3>5
  <2> QED BY <2>2, <2>3
<1> QED BY <1>3, <1>4 DEF l

-----------------------------------------------------------------------------
(* The inductive invariant: the maps are sound, and a transfer stands at a *)
(* place p of the chain s that it walks, with nothing it was to move in the*)
(* nodes before that place or in the buckets before that chain.            *)

ScanType ==
  [at : {"scan"}, src : Servers, dest : Servers, chosen : SUBSET Keys,
   bucket : Buckets, node : Pointer]

(* The node is at p on the chain l, and no document before it is chosen. *)
StandsAt(l, chosen, node, s, p) ==
  /\ ChainOf(l, s) /\ p \in 1 .. Len(s) + 1
  /\ node = IF p = Len(s) + 1 THEN Null ELSE s[p]
  /\ \A i \in 1 .. Len(s) : i < p => l.data[s[i]].key \notin chosen

(* No document of m in a bucket before b is chosen. *)
Swept(m, chosen, b) ==
  \A c \in Buckets : c < b =>
    \A n \in Allocated(m.buckets[c]) : m.buckets[c].data[n].key \notin chosen

Cursor ==
  scan.at = "scan" =>
    /\ scan.src # scan.dest
    /\ \E s, p : StandsAt(Chain, scan.chosen, scan.node, s, p)
    /\ Swept(db[scan.src], scan.chosen, scan.bucket)

MapsSound == \A s \in Servers : Sound(db[s])

IInv == TypeOK /\ MapsSound /\ Cursor

LEMMA Scans ==
  ASSUME TypeOK
  PROVE  /\ scan = Idle \/ scan \in ScanType
         /\ scan = Idle => scan.at # "scan"
         /\ scan \in ScanType => scan.at = "scan" /\ scan # Idle
<1>1. scan = Idle \/ scan \in ScanType
  BY DEF TypeOK, ScanType
<1>2. Idle.at = "idle"
  BY DEF Idle
<1>3. scan \in ScanType => scan.at = "scan"
  BY DEF ScanType
<1> QED BY <1>1, <1>2, <1>3

LEMMA FreshIs ==
  ASSUME NEW t \in Servers, NEW k \in Keys, NEW new \in Fresh(t, k)
  PROVE  HasKey(db[t], k) \/ new \in Unused(db[t].buckets[BucketOf(k)])
BY DEF Fresh

LEMMA FirstBucket == 0 \in Buckets
<1>1. HMax \in Nat /\ HMax > 0
  BY MapAssumption
<1> QED BY <1>1 DEF Buckets

(* A walk that is about to start on a chain. *)
LEMMA StandsAtHead ==
  ASSUME NEW l, NEW s, ChainOf(l, s), NEW chosen
  PROVE  StandsAt(l, chosen, l.head, s, 1) /\ l.head \in Pointer
<1>1. /\ Len(s) \in Nat /\ l.head = IF Len(s) = 0 THEN Null ELSE s[1]
      /\ \A i \in 1 .. Len(s) : s[i] \in Nodes
  BY ChainFacts
<1>2. 1 \in 1 .. Len(s) + 1 /\ (1 = Len(s) + 1 <=> Len(s) = 0)
  BY <1>1
<1>3. l.head = IF 1 = Len(s) + 1 THEN Null ELSE s[1]
  BY <1>1, <1>2
<1>4. l.head \in Pointer
  BY <1>1 DEF Pointer
<1> QED BY <1>1, <1>2, <1>3, <1>4 DEF StandsAt

LEMMA InitInvariant == Init => IInv
<1> SUFFICES ASSUME Init PROVE IInv
  OBVIOUS
<1>1. \A t \in Servers : db[t] = EmptyMap
  BY DEF Init
<1>2. MapsSound
  BY <1>1, EmptySound DEF MapsSound
<1>3. scan = Idle /\ Idle.at # "scan"
  BY DEF Init, Idle
<1>4. TypeOK
  <2>1. EmptyMap \in MapType
    BY EmptySound DEF Sound
  <2> QED BY <1>3, <2>1 DEF Init, TypeOK
<1> QED BY <1>2, <1>3, <1>4 DEF IInv, Cursor

(* A change of one database while no transfer is going on. *)
LEMMA IdleChange ==
  ASSUME IInv, scan = Idle, NEW t \in Servers, NEW m, Sound(m),
         db' = [db EXCEPT ![t] = m], UNCHANGED scan
  PROVE  IInv'
<1>1. db \in [Servers -> MapType]
  BY DEF IInv, TypeOK
<1>2. m \in MapType
  BY DEF Sound
<1>3. (MapsSound)'
  BY <1>1 DEF MapsSound, IInv
<1>4. TypeOK'
  BY <1>1, <1>2 DEF TypeOK
<1>5. Cursor'
  BY Scans DEF Cursor, IInv
<1> QED BY <1>3, <1>4, <1>5 DEF IInv

(* The map m answers for k what v says, and for every other key what n does*)
Written(m, n, k, v) == \A j \in Keys : HmGet(m, j) = IF j = k THEN v ELSE HmGet(n, j)

(* What hm_set and hm_free make of one database. *)
LEMMA WriteMap ==
  ASSUME IInv, NEW t \in Servers, NEW k \in Keys, NEW v \in Vals, Write(t, k, v)
  PROVE  \E m : Sound(m) /\ db' = [db EXCEPT ![t] = m] /\ Written(m, db[t], k, v)
<1>1. PICK new \in Fresh(t, k) : db' = [db EXCEPT ![t] = HmSet(@, k, v, new)]
  BY DEF Write
<1> DEFINE m == HmSet(db[t], k, v, new)
<1>2. Sound(m) /\ Written(m, db[t], k, v)
  BY FreshIs, SetSound DEF IInv, MapsSound, Written
<1>3. db' = [db EXCEPT ![t] = m]
  BY <1>1
<1> HIDE DEF m
<1> QED BY <1>2, <1>3

LEMMA ReplaceMap ==
  ASSUME IInv, NEW t \in Servers, Replace(t)
  PROVE  db' = [db EXCEPT ![t] = EmptyMap]
BY FreedIsEmpty DEF Replace, IInv, MapsSound

LEMMA BeginKeeps ==
  ASSUME IInv, NEW t \in Servers, NEW u \in Servers, NEW chosen \in SUBSET Keys,
         Begin(t, u, chosen)
  PROVE  IInv'
<1> DEFINE l == db[t].buckets[0]
<1>1. db' = db /\ t # u /\ scan' = Scanning(t, u, chosen, 0, l.head)
  BY DEF Begin
<1>2. PICK s : ChainOf(l, s)
  BY FirstBucket DEF IInv, MapsSound, Sound
<1>3. StandsAt(l, chosen, l.head, s, 1) /\ l.head \in Pointer
  BY <1>2, StandsAtHead
<1> HIDE DEF l
<1>4. /\ scan' \in ScanType /\ scan'.src = t /\ scan'.dest = u /\ scan'.chosen = chosen
      /\ scan'.bucket = 0 /\ scan'.node = l.head
  BY <1>1, <1>3, FirstBucket DEF Scanning, ScanType
<1>5. Chain' = l
  BY <1>1, <1>4 DEF Chain, l
<1>6. Swept(db[t], chosen, 0)
  BY DEF Swept, Buckets
<1>7. Cursor'
  BY <1>1, <1>3, <1>4, <1>5, <1>6 DEF Cursor
<1>8. TypeOK'
  BY <1>1, <1>4 DEF TypeOK, IInv, ScanType
<1>9. (MapsSound)'
  BY <1>1 DEF MapsSound, IInv
<1> QED BY <1>7, <1>8, <1>9 DEF IInv

(* A transfer that stands on a node stands on one that the chain holds. *)
LEMMA OnChain ==
  ASSUME IInv, OnNode
  PROVE  /\ scan \in ScanType /\ scan.src # scan.dest
         /\ Sound(db[scan.src]) /\ Sound(db[scan.dest])
         /\ Keyed(Chain, scan.bucket) /\ BucketOf(Key) = scan.bucket
         /\ Swept(db[scan.src], scan.chosen, scan.bucket)
         /\ scan.node \in Allocated(Chain) /\ Chain.data[scan.node] \in Data
         /\ \E s, p : /\ StandsAt(Chain, scan.chosen, scan.node, s, p)
                      /\ p \in 1 .. Len(s) /\ scan.node = s[p]
<1>1. scan \in ScanType
  BY Scans DEF OnNode, IInv
<1>2. /\ scan.src \in Servers /\ scan.dest \in Servers /\ scan.bucket \in Buckets
  BY <1>1 DEF ScanType
<1>3. Sound(db[scan.src]) /\ Sound(db[scan.dest])
  BY <1>2 DEF IInv, MapsSound
<1>4. Keyed(Chain, scan.bucket)
  BY <1>2, <1>3 DEF Sound, Chain
<1>5. PICK s, p : StandsAt(Chain, scan.chosen, scan.node, s, p)
  BY DEF OnNode, IInv, Cursor
<1>6. p \in 1 .. Len(s) /\ scan.node = s[p]
  <2>1. Len(s) \in Nat
    BY <1>5, ChainFacts DEF StandsAt
  <2>2. p \in 1 .. Len(s) + 1 /\ p # Len(s) + 1
    BY <1>5 DEF StandsAt, OnNode
  <2>3. p \in 1 .. Len(s)
    BY <2>1, <2>2
  <2> QED BY <1>5, <2>2, <2>3 DEF StandsAt
<1>7. scan.node \in Allocated(Chain) /\ Chain.data[scan.node] \in Data
  BY <1>5, <1>6, ChainFacts DEF StandsAt
<1>8. BucketOf(Key) = scan.bucket
  BY <1>4, <1>7 DEF Keyed, Key
<1>9. scan.src # scan.dest /\ Swept(db[scan.src], scan.chosen, scan.bucket)
  BY DEF OnNode, IInv, Cursor
<1> QED BY <1>1, <1>3, <1>4, <1>5, <1>6, <1>7, <1>8, <1>9

(* The place after one whose document stays. *)
LEMMA StandsAtNext ==
  ASSUME NEW l, NEW chosen, NEW s, NEW p \in 1 .. Len(s),
         StandsAt(l, chosen, s[p], s, p), l.data[s[p]].key \notin chosen
  PROVE  StandsAt(l, chosen, l.next[s[p]], s, p + 1) /\ l.next[s[p]] \in Pointer
<1>1. /\ ChainOf(l, s) /\ \A i \in 1 .. Len(s) : i < p => l.data[s[i]].key \notin chosen
  BY DEF StandsAt
<1>2. /\ Len(s) \in Nat /\ l.next[s[p]] = IF p = Len(s) THEN Null ELSE s[p + 1]
      /\ \A i \in 1 .. Len(s) : s[i] \in Nodes
  BY <1>1, ChainFacts
<1>3. p + 1 \in 1 .. Len(s) + 1 /\ (p + 1 = Len(s) + 1 <=> p = Len(s))
  BY <1>2
<1>4. \A i \in 1 .. Len(s) : i < p + 1 => i < p \/ i = p
  BY <1>2
<1>5. l.next[s[p]] = IF p + 1 = Len(s) + 1 THEN Null ELSE s[p + 1]
  BY <1>2, <1>3
<1>6. l.next[s[p]] \in Pointer
  BY <1>2, <1>3 DEF Pointer
<1> QED BY <1>1, <1>3, <1>4, <1>5, <1>6 DEF StandsAt

(* The place after one whose node is removed. *)
LEMMA StandsAtSame ==
  ASSUME NEW l, NEW chosen, NEW s, NEW p \in 1 .. Len(s),
         StandsAt(l, chosen, s[p], s, p),
         NEW m, ChainOf(m, Without(s, p)), m.data = [l.data EXCEPT ![s[p]] = Garbage]
  PROVE  StandsAt(m, chosen, l.next[s[p]], Without(s, p), p) /\ l.next[s[p]] \in Pointer
<1> DEFINE k == Len(s)
           t == Without(s, p)
<1>1. ChainOf(l, s) /\ \A i \in 1 .. k : i < p => l.data[s[i]].key \notin chosen
  BY DEF StandsAt
<1>2. /\ k \in Nat /\ l.next[s[p]] = IF p = k THEN Null ELSE s[p + 1]
      /\ \A i \in 1 .. k : s[i] \in Nodes
      /\ \A i, j \in 1 .. k : s[i] = s[j] => i = j
      /\ l \in ListType
  BY <1>1, ChainFacts
<1>3. DOMAIN t = 1 .. k - 1
  BY DEF Without
<1>4. Len(t) = k - 1
  <2>1. Len(t) \in Nat /\ DOMAIN t = 1 .. Len(t)
    BY ChainFacts
  <2> HIDE DEF t, k
  <2> QED BY <1>2, <1>3, <2>1 DEF k
<1>5. /\ \A i \in 1 .. k - 1 : i < p => t[i] = s[i]
      /\ p # k => t[p] = s[p + 1]
  BY <1>2 DEF Without
<1> HIDE DEF t, k
<1>6. p \in 1 .. Len(t) + 1 /\ (p = Len(t) + 1 <=> p = k)
  BY <1>2, <1>4 DEF k
<1>7. l.next[s[p]] = IF p = Len(t) + 1 THEN Null ELSE t[p]
  BY <1>2, <1>5, <1>6
<1>8. \A i \in 1 .. Len(t) : i < p => m.data[t[i]].key \notin chosen
  <2> SUFFICES ASSUME NEW i \in 1 .. Len(t), i < p PROVE m.data[t[i]].key \notin chosen
    OBVIOUS
  <2>1. i \in 1 .. k /\ i # p /\ t[i] = s[i]
    BY <1>2, <1>4, <1>5
  <2>2. s[i] # s[p] /\ s[i] \in Nodes
    BY <1>2, <2>1 DEF k
  <2>3. m.data[s[i]] = l.data[s[i]]
    BY <1>2, <2>2 DEF ListType
  <2> QED BY <1>1, <2>1, <2>3
<1>9. l.next[s[p]] \in Pointer
  BY <1>2 DEF Pointer, k
<1>10. ChainOf(m, t)
  BY DEF t
<1>11. StandsAt(m, chosen, l.next[s[p]], t, p)
  BY <1>6, <1>7, <1>8, <1>10 DEF StandsAt
<1> QED BY <1>9, <1>11 DEF t

-----------------------------------------------------------------------------
(* The steps of the loop.                                                  *)

(* What an iteration on a document that moves makes of the two databases,  *)
(* m at the destination and r at the source, and of the chain it walks.    *)
Moved(s, p, m, r) ==
  /\ Sound(m) /\ Sound(r)
  /\ db' = [db EXCEPT ![scan.dest] = m, ![scan.src] = r]
  /\ Written(m, db[scan.dest], Key, HmGet(db[scan.src], Key))
  /\ Written(r, db[scan.src], Key, Missing)
  /\ ChainOf(r.buckets[scan.bucket], Without(s, p))
  /\ r.buckets[scan.bucket].data = [Chain.data EXCEPT ![s[p]] = Garbage]
  /\ \A b \in Buckets : b # scan.bucket => r.buckets[b] = db[scan.src].buckets[b]

LEMMA MoveEffect ==
  ASSUME IInv, MoveNode,
         NEW s, NEW p \in 1 .. Len(s), scan.node = s[p],
         StandsAt(Chain, scan.chosen, scan.node, s, p)
  PROVE  \E m, r : Moved(s, p, m, r)
<1>1. /\ scan \in ScanType /\ Sound(db[scan.src]) /\ Sound(db[scan.dest])
      /\ Keyed(Chain, scan.bucket) /\ BucketOf(Key) = scan.bucket
      /\ scan.node \in Allocated(Chain) /\ Chain.data[scan.node] \in Data
  BY OnChain DEF MoveNode
<1> DEFINE k == Key
           v == Chain.data[scan.node].val
<1>2. k \in Keys /\ v \in Vals
  BY <1>1, MapAssumption DEF Key
<1>3. PICK new \in Fresh(scan.dest, k) :
        db' = [db EXCEPT ![scan.dest] = HmSet(@, k, v, new),
                         ![scan.src] = HmRemove(@, k)]
  BY DEF MoveNode
<1>4. scan.src # scan.dest /\ scan.src \in Servers /\ scan.dest \in Servers
  BY <1>1, OnChain DEF MoveNode, ScanType
<1>5. ChainOf(Chain, s)
  BY DEF StandsAt
<1>6. Chain = db[scan.src].buckets[BucketOf(k)] /\ Chain.data[s[p]].key = k
  BY <1>1 DEF Chain, Key
<1>7. HmGet(db[scan.src], k) = v
  <2>1. ValueIn(Chain, Chain.data[scan.node].key) = Chain.data[scan.node].val
    BY <1>1, <1>5, ValueIs
  <2> QED BY <1>6, <2>1, GetIs DEF Key
<1> HIDE DEF k, v
<1> DEFINE m == HmSet(db[scan.dest], k, v, new)
           r == HmRemove(db[scan.src], k)
<1>8. /\ Sound(m)
      /\ \A j \in Keys : HmGet(m, j) = IF j = k THEN v ELSE HmGet(db[scan.dest], j)
  BY <1>1, <1>2, <1>4, FreshIs, SetSound
<1>9. /\ Sound(r)
      /\ \A j \in Keys : HmGet(r, j) = IF j = k THEN Missing ELSE HmGet(db[scan.src], j)
      /\ ChainOf(r.buckets[BucketOf(k)], Without(s, p))
      /\ r.buckets[BucketOf(k)].data
           = [db[scan.src].buckets[BucketOf(k)].data EXCEPT ![s[p]] = Garbage]
      /\ \A b \in Buckets : b # BucketOf(k) => r.buckets[b] = db[scan.src].buckets[b]
  BY <1>1, <1>2, <1>5, <1>6, RemoveSound
<1>10. db' = [db EXCEPT ![scan.dest] = m, ![scan.src] = r]
  BY <1>3, <1>4
<1> HIDE DEF m, r
<1>11. BucketOf(k) = scan.bucket
  BY <1>1 DEF k
<1>12. /\ Written(m, db[scan.dest], k, HmGet(db[scan.src], k))
       /\ Written(r, db[scan.src], k, Missing)
  BY <1>7, <1>8, <1>9 DEF Written
<1>13. /\ ChainOf(r.buckets[scan.bucket], Without(s, p))
       /\ r.buckets[scan.bucket].data = [Chain.data EXCEPT ![s[p]] = Garbage]
       /\ \A b \in Buckets : b # scan.bucket => r.buckets[b] = db[scan.src].buckets[b]
  BY <1>6, <1>9, <1>11
<1> QED BY <1>8, <1>9, <1>10, <1>12, <1>13 DEF Moved, k

LEMMA MoveKeeps ==
  ASSUME IInv, MoveNode
  PROVE  IInv'
<1>1. /\ scan \in ScanType /\ scan.src # scan.dest
      /\ Swept(db[scan.src], scan.chosen, scan.bucket)
  BY OnChain DEF MoveNode
<1>2. PICK s, p : /\ StandsAt(Chain, scan.chosen, scan.node, s, p)
                  /\ p \in 1 .. Len(s) /\ scan.node = s[p]
  BY OnChain DEF MoveNode
<1>3. PICK m, r :
        /\ Sound(m) /\ Sound(r)
        /\ db' = [db EXCEPT ![scan.dest] = m, ![scan.src] = r]
        /\ ChainOf(r.buckets[scan.bucket], Without(s, p))
        /\ r.buckets[scan.bucket].data = [Chain.data EXCEPT ![s[p]] = Garbage]
        /\ \A b \in Buckets : b # scan.bucket => r.buckets[b] = db[scan.src].buckets[b]
  BY <1>2, MoveEffect DEF Moved
<1>4. db \in [Servers -> MapType] /\ scan.src \in Servers /\ scan.dest \in Servers
      /\ scan.bucket \in Buckets
  BY <1>1 DEF IInv, TypeOK, ScanType
<1>5. /\ db'[scan.src] = r /\ db'[scan.dest] = m
      /\ \A t \in Servers : t # scan.src /\ t # scan.dest => db'[t] = db[t]
      /\ m \in MapType /\ r \in MapType /\ db' \in [Servers -> MapType]
  BY <1>1, <1>3, <1>4 DEF Sound
<1> DEFINE n == Chain.next[scan.node]
           l == r.buckets[scan.bucket]
<1>6. StandsAt(l, scan.chosen, n, Without(s, p), p) /\ n \in Pointer
  <2> DEFINE c == Chain
  <2>1. /\ StandsAt(c, scan.chosen, s[p], s, p) /\ ChainOf(l, Without(s, p))
        /\ l.data = [c.data EXCEPT ![s[p]] = Garbage]
    BY <1>2, <1>3
  <2> HIDE DEF c, l
  <2>2. StandsAt(l, scan.chosen, c.next[s[p]], Without(s, p), p) /\ c.next[s[p]] \in Pointer
    BY <1>2, <2>1, StandsAtSame
  <2> QED BY <1>2, <2>2 DEF c
<1>7. scan' = [scan EXCEPT !.node = n]
  BY DEF MoveNode
<1> HIDE DEF n, l
<1>8. /\ scan' \in ScanType /\ scan'.node = n /\ scan'.src = scan.src
      /\ scan'.dest = scan.dest /\ scan'.chosen = scan.chosen /\ scan'.bucket = scan.bucket
  BY <1>1, <1>6, <1>7 DEF ScanType
<1>9. Chain' = l
  BY <1>5, <1>8 DEF Chain, l
<1>10. Swept(r, scan.chosen, scan.bucket)
  <2>1. \A b \in Buckets : b < scan.bucket => r.buckets[b] = db[scan.src].buckets[b]
    BY <1>3, <1>4 DEF Buckets
  <2> QED BY <1>1, <2>1 DEF Swept
<1>11. Cursor'
  BY <1>1, <1>5, <1>6, <1>8, <1>9, <1>10 DEF Cursor
<1>12. TypeOK'
  BY <1>5, <1>8 DEF TypeOK, ScanType
<1>13. (MapsSound)'
  BY <1>3, <1>5 DEF MapsSound, IInv
<1> QED BY <1>11, <1>12, <1>13 DEF IInv

LEMMA PassKeeps ==
  ASSUME IInv, PassNode
  PROVE  IInv'
<1>1. /\ scan \in ScanType /\ scan.src # scan.dest
      /\ Swept(db[scan.src], scan.chosen, scan.bucket)
  BY OnChain DEF PassNode
<1>2. PICK s, p : /\ StandsAt(Chain, scan.chosen, scan.node, s, p)
                  /\ p \in 1 .. Len(s) /\ scan.node = s[p]
  BY OnChain DEF PassNode
<1> DEFINE n == Chain.next[scan.node]
<1>3. StandsAt(Chain, scan.chosen, n, s, p + 1) /\ n \in Pointer
  <2> DEFINE c == Chain
  <2>1. StandsAt(c, scan.chosen, s[p], s, p) /\ c.data[s[p]].key \notin scan.chosen
    BY <1>2 DEF PassNode, Key
  <2> HIDE DEF c
  <2>2. StandsAt(c, scan.chosen, c.next[s[p]], s, p + 1) /\ c.next[s[p]] \in Pointer
    BY <1>2, <2>1, StandsAtNext
  <2> QED BY <1>2, <2>2 DEF c
<1>4. scan' = [scan EXCEPT !.node = n] /\ db' = db
  BY DEF PassNode
<1> HIDE DEF n
<1>5. /\ scan' \in ScanType /\ scan'.node = n /\ scan'.src = scan.src
      /\ scan'.dest = scan.dest /\ scan'.chosen = scan.chosen /\ scan'.bucket = scan.bucket
  BY <1>1, <1>3, <1>4 DEF ScanType
<1>6. Chain' = Chain
  BY <1>4, <1>5 DEF Chain
<1>7. Cursor'
  BY <1>1, <1>3, <1>4, <1>5, <1>6 DEF Cursor
<1>8. TypeOK'
  BY <1>4, <1>5 DEF TypeOK, ScanType, IInv
<1>9. (MapsSound)'
  BY <1>4 DEF MapsSound, IInv
<1> QED BY <1>7, <1>8, <1>9 DEF IInv

(* At the end of a chain nothing that was to move is left on it. *)
LEMMA ChainSwept ==
  ASSUME IInv, EndOfChain
  PROVE  /\ scan \in ScanType /\ scan.src # scan.dest
         /\ Swept(db[scan.src], scan.chosen, scan.bucket + 1)
<1>1. scan \in ScanType /\ scan.src # scan.dest
  BY Scans DEF EndOfChain, IInv, Cursor
<1>2. PICK s, p : StandsAt(Chain, scan.chosen, scan.node, s, p)
  BY DEF EndOfChain, IInv, Cursor
<1>3. Swept(db[scan.src], scan.chosen, scan.bucket)
  BY DEF EndOfChain, IInv, Cursor
<1>4. Len(s) \in Nat /\ \A i \in 1 .. Len(s) : s[i] # Null
  BY <1>2, ChainFacts DEF StandsAt
<1>5. p = Len(s) + 1
  BY <1>2, <1>4 DEF StandsAt, EndOfChain
<1>6. \A n \in Allocated(Chain) : Chain.data[n].key \notin scan.chosen
  <2> SUFFICES ASSUME NEW n \in Allocated(Chain) PROVE Chain.data[n].key \notin scan.chosen
    OBVIOUS
  <2>1. PICK i \in 1 .. Len(s) : n = s[i]
    BY <1>2, ChainFacts DEF StandsAt
  <2>2. i < p
    BY <1>4, <1>5
  <2> QED BY <1>2, <2>1, <2>2 DEF StandsAt
<1>7. \A c \in Buckets : c < scan.bucket + 1 => c < scan.bucket \/ c = scan.bucket
  BY <1>1 DEF ScanType, Buckets
<1> QED BY <1>1, <1>3, <1>6, <1>7 DEF Swept, Chain

LEMMA EndKeeps ==
  ASSUME IInv, EndOfChain
  PROVE  IInv'
<1> DEFINE b == scan.bucket + 1
           l == db[scan.src].buckets[b]
<1>1. /\ scan \in ScanType /\ scan.src # scan.dest
      /\ Swept(db[scan.src], scan.chosen, b)
  BY ChainSwept
<1>2. db' = db
  BY DEF EndOfChain
<1>3. (MapsSound)'
  BY <1>2 DEF MapsSound, IInv
<1>4. CASE b = HMax
  <2>1. scan' = Idle /\ Idle.at # "scan"
    BY <1>4 DEF EndOfChain, Idle
  <2>2. TypeOK' /\ Cursor'
    BY <1>2, <2>1 DEF TypeOK, Cursor, IInv
  <2> QED BY <1>3, <2>2 DEF IInv
<1>5. CASE b # HMax
  <2>1. scan' = [scan EXCEPT !.bucket = b, !.node = l.head]
    BY <1>5 DEF EndOfChain
  <2>2. b \in Buckets /\ scan.src \in Servers
    BY <1>1, <1>5, MapAssumption DEF ScanType, Buckets
  <2>3. PICK s : ChainOf(l, s)
    BY <2>2 DEF IInv, MapsSound, Sound
  <2>4. StandsAt(l, scan.chosen, l.head, s, 1) /\ l.head \in Pointer
    BY <2>3, StandsAtHead
  <2> HIDE DEF l, b
  <2>5. /\ scan' \in ScanType /\ scan'.node = l.head /\ scan'.src = scan.src
        /\ scan'.dest = scan.dest /\ scan'.chosen = scan.chosen /\ scan'.bucket = b
    BY <1>1, <2>1, <2>2, <2>4 DEF ScanType
  <2>6. Chain' = l
    BY <1>2, <2>5 DEF Chain, l
  <2>7. Cursor'
    BY <1>1, <1>2, <2>4, <2>5, <2>6 DEF Cursor
  <2>8. TypeOK'
    BY <1>2, <2>5 DEF TypeOK, ScanType, IInv
  <2> QED BY <1>3, <2>7, <2>8 DEF IInv
<1> QED BY <1>4, <1>5

LEMMA StepInvariant == IInv /\ [Next]_vars => IInv'
<1> SUFFICES ASSUME IInv, [Next]_vars PROVE IInv'
  OBVIOUS
<1>1. ASSUME NEW t \in Servers, NEW k \in Keys, NEW v \in Vals, Write(t, k, v)
      PROVE  IInv'
  <2>1. scan = Idle /\ UNCHANGED scan
    BY <1>1 DEF Write
  <2> QED BY <1>1, <2>1, WriteMap, IdleChange
<1>2. ASSUME NEW t \in Servers, Replace(t)
      PROVE  IInv'
  <2>1. scan = Idle /\ UNCHANGED scan
    BY <1>2 DEF Replace
  <2>2. db' = [db EXCEPT ![t] = EmptyMap]
    BY <1>2, ReplaceMap
  <2> QED BY <2>1, <2>2, EmptySound, IdleChange
<1>3. ASSUME NEW t \in Servers, NEW u \in Servers,
             NEW chosen \in SUBSET {k \in Keys : Present(t, k)}, Begin(t, u, chosen)
      PROVE  IInv'
  BY <1>3, BeginKeeps
<1>4. CASE Loop
  BY <1>4, MoveKeeps, PassKeeps, EndKeeps DEF Loop
<1>5. CASE UNCHANGED vars
  <2>1. db' = db /\ scan' = scan
    BY <1>5 DEF vars
  <2> QED BY <2>1 DEF IInv, TypeOK, MapsSound, Cursor, Chain
<1> QED BY <1>1, <1>2, <1>3, <1>4, <1>5 DEF Next

LEMMA Invariance == Spec => []IInv
BY InitInvariant, StepInvariant, PTL DEF Spec

(* Every chain of every database stays well formed, and every key is in    *)
(* one node of the bucket it belongs to, whatever is written, and whichever*)
(* of a chain's nodes a transfer takes out of it.                          *)
THEOREM MapsStayWellFormed == Spec => []MapsWellFormed
<1>1. IInv => MapsWellFormed
  BY SoundShape DEF IInv, MapsSound, MapsWellFormed
<1> QED BY <1>1, Invariance, PTL

(* The loop of transfer_files never stands on a node that hm_remove has    *)
(* freed: the pointer it read before the removal leads to one still there. *)
THEOREM CursorStaysLive == Spec => []CursorIsLive
<1>1. IInv => CursorIsLive
  <2> SUFFICES ASSUME IInv, OnNode PROVE scan.node \in Reached(Chain)
    BY DEF CursorIsLive
  <2>1. PICK s, p : /\ StandsAt(Chain, scan.chosen, scan.node, s, p)
                    /\ p \in 1 .. Len(s) /\ scan.node = s[p]
    BY OnChain
  <2>2. Visited(Chain) = s /\ DOMAIN s = 1 .. Len(s)
    BY <2>1, ChainFacts DEF StandsAt
  <2> QED BY <2>1, <2>2 DEF Reached, Range
<1> QED BY <1>1, Invariance, PTL

-----------------------------------------------------------------------------
(* The loop moves what the load balancer's model moves.                    *)

(* What a database answers for every key. *)
Row(m) == [j \in Keys |-> HmGet(m, j)]

(* The databases as maps, the transfer, and what it still has to move.     *)
Contents(d) == [t \in Servers |-> [k \in Keys |-> HmGet(d[t], k)]]
Job == IF scan = Idle THEN << >> ELSE <<scan.src, scan.dest>>
ToMove == IF scan = Idle THEN {} ELSE {k \in scan.chosen : Present(scan.src, k)}
shown == <<[s \in Servers |-> [k \in Keys |-> HmGet(db[s], k)]], Job, ToMove>>

LEMMA RowWritten ==
  ASSUME NEW m, NEW n, NEW k \in Keys, NEW v, Written(m, n, k, v)
  PROVE  Row(m) = [Row(n) EXCEPT ![k] = v]
BY DEF Written, Row

Updated(f, t, k, v) == [f EXCEPT ![t][k] = v]

(* One key of one database, written. *)
LEMMA ContentsWritten ==
  ASSUME IInv, NEW t \in Servers, NEW k \in Keys, NEW v, NEW m,
         db' = [db EXCEPT ![t] = m], Written(m, db[t], k, v)
  PROVE  Contents(db') = Updated(Contents(db), t, k, v)
<1>1. /\ db'[t] = m
      /\ \A u \in Servers : u # t => db'[u] = db[u]
  BY DEF IInv, TypeOK
<1>2. Row(m) = [Row(db[t]) EXCEPT ![k] = v]
  BY RowWritten
<1> DEFINE e == db'
           row(u) == Row(db[u])
           new(u) == Row(e[u])
<1>3. \A u \in Servers : new(u) = IF u = t THEN [row(t) EXCEPT ![k] = v] ELSE row(u)
  BY <1>1, <1>2
<1> HIDE DEF row, new, e
<1>4. [u \in Servers |-> new(u)] = [[u \in Servers |-> row(u)] EXCEPT ![t][k] = v]
  BY <1>3
<1> QED BY <1>4 DEF Updated, Contents, Row, row, new, e

LEMMA WriteRefines ==
  ASSUME IInv, NEW t \in Servers, NEW k \in Keys, NEW v \in Vals, Write(t, k, v)
  PROVE  Moves!Write(t, k, v)
<1>1. scan = Idle /\ scan' = Idle
  BY DEF Write
<1>2. PICK m : db' = [db EXCEPT ![t] = m] /\ Written(m, db[t], k, v)
  BY WriteMap
<1>3. Contents(db') = Updated(Contents(db), t, k, v)
  BY <1>2, ContentsWritten
<1> QED BY <1>1, <1>3, Zenon DEF Moves!Write, Moves!NoJob, Contents, Updated

LEMMA ReplaceRefines ==
  ASSUME IInv, NEW t \in Servers, Replace(t)
  PROVE  Moves!Replace(t)
<1>1. scan = Idle /\ scan' = Idle
  BY DEF Replace
<1>2. db' = [db EXCEPT ![t] = EmptyMap]
  BY ReplaceMap
<1>3. db'[t] = EmptyMap /\ \A u \in Servers : u # t => db'[u] = db[u]
  BY <1>2 DEF IInv, TypeOK
<1>4. Contents(db') = [Contents(db) EXCEPT ![t] = [k \in Keys |-> Missing]]
  <2> DEFINE e == db'
             row(u) == Row(db[u])
             new(u) == Row(e[u])
             none == [j \in Keys |-> Missing]
  <2>1. \A u \in Servers : new(u) = IF u = t THEN none ELSE row(u)
    BY <1>3, EmptySound DEF Row
  <2> HIDE DEF row, new, e, none
  <2>2. [u \in Servers |-> new(u)] = [[u \in Servers |-> row(u)] EXCEPT ![t] = none]
    BY <2>1
  <2> QED BY <2>2 DEF Contents, Row, row, new, e, none
<1> QED BY <1>1, <1>4, Zenon DEF Moves!Replace, Moves!NoJob, Contents

LEMMA BeginRefines ==
  ASSUME IInv, NEW t \in Servers, NEW u \in Servers, NEW chosen \in SUBSET Keys,
         Begin(t, u, chosen)
  PROVE  Moves!Begin(t, u, chosen)
<1>1. scan = Idle /\ t # u /\ db' = db
  BY DEF Begin
<1>2. scan' # Idle /\ scan'.src = t /\ scan'.dest = u /\ scan'.chosen = chosen
  <2>1. scan'.at = "scan" /\ Idle.at = "idle"
    BY DEF Begin, Scanning, Idle
  <2> QED BY <2>1 DEF Begin, Scanning
<1>3. Job' = <<t, u>>
  BY <1>2 DEF Job
<1>4. ToMove' = {k \in chosen : HmGet(db[t], k) # Missing}
  BY <1>1, <1>2 DEF ToMove, Present
<1>5. Contents(db') = Contents(db)
  BY <1>1
<1>6. {k \in chosen : HmGet(db[t], k) # Missing}
        = {k \in chosen : Contents(db)[t][k] # Missing}
  BY DEF Contents
<1>7. Job = << >>
  BY <1>1 DEF Job
<1> QED BY <1>1, <1>3, <1>4, <1>5, <1>6, <1>7, Zenon
        DEF Moves!Begin, Moves!NoJob, Contents, Job, ToMove

LEMMA MoveRefines ==
  ASSUME IInv, MoveNode
  PROVE  Key \in Keys /\ Moves!MoveOne(Key)
<1> DEFINE k == Key
           x == scan.src
           y == scan.dest
<1>1. /\ scan \in ScanType /\ x # y /\ Sound(db[x])
      /\ scan.node \in Allocated(Chain) /\ Chain.data[scan.node] \in Data
      /\ Keyed(Chain, scan.bucket) /\ BucketOf(k) = scan.bucket
  BY OnChain DEF MoveNode
<1>2. x \in Servers /\ y \in Servers /\ scan # Idle /\ scan.chosen \subseteq Keys
  BY <1>1, Scans DEF ScanType, IInv
<1>3. k \in Keys /\ k \in scan.chosen
  BY <1>1, MapAssumption DEF Key, MoveNode
<1>4. PICK s, p : /\ StandsAt(Chain, scan.chosen, scan.node, s, p)
                  /\ p \in 1 .. Len(s) /\ scan.node = s[p]
  BY OnChain DEF MoveNode
<1>5. PICK m, r : Moved(s, p, m, r)
  BY <1>4, MoveEffect
<1>6. HmGet(db[x], k) # Missing
  <2>1. ValueIn(Chain, Chain.data[scan.node].key) = Chain.data[scan.node].val
    BY <1>1, <1>4, ValueIs DEF StandsAt
  <2>2. HmGet(db[x], k) = ValueIn(Chain, k)
    BY <1>1, GetIs DEF Chain
  <2> QED BY <1>1, <2>1, <2>2, MapAssumption DEF Key
<1>7. /\ db'[y] = m /\ db'[x] = r
      /\ \A u \in Servers : u # x /\ u # y => db'[u] = db[u]
      /\ Written(m, db[y], k, HmGet(db[x], k)) /\ Written(r, db[x], k, Missing)
  BY <1>1, <1>2, <1>5 DEF Moved, IInv, TypeOK
<1>8. scan' # Idle /\ scan'.src = x /\ scan'.dest = y /\ scan'.chosen = scan.chosen
  <2>1. scan' = [scan EXCEPT !.node = Chain.next[@]]
    BY DEF MoveNode
  <2>2. scan'.at = "scan" /\ Idle.at = "idle"
    BY <1>1, <2>1 DEF ScanType, Idle
  <2> QED BY <1>1, <2>1, <2>2 DEF ScanType
<1> HIDE DEF k, x, y
<1>9. Job = <<x, y>> /\ Job' = <<x, y>>
  BY <1>2, <1>8 DEF Job, x, y
<1>10. k \in ToMove
  BY <1>2, <1>3, <1>6 DEF ToMove, Present, x
<1>11. ToMove' = ToMove \ {k}
  <2>1. ToMove = {j \in scan.chosen : HmGet(db[x], j) # Missing}
    BY <1>2 DEF ToMove, Present, x
  <2>2. ToMove' = {j \in scan.chosen : HmGet(db'[x], j) # Missing}
    BY <1>8 DEF ToMove, Present
  <2> QED BY <1>2, <1>7, <2>1, <2>2 DEF Written
<1>12. Contents(db') = [Contents(db) EXCEPT ![y][k] = Contents(db)[x][k], ![x][k] = Missing]
  <2> DEFINE e == db'
             row(u) == Row(db[u])
             new(u) == Row(e[u])
             old == [u \in Servers |-> row(u)]
             mid == [old EXCEPT ![y][k] = old[x][k]]
  <2>1. old[x][k] = HmGet(db[x], k)
    BY <1>2, <1>3 DEF x, Row
  <2>2. /\ new(y) = [row(y) EXCEPT ![k] = HmGet(db[x], k)]
        /\ new(x) = [row(x) EXCEPT ![k] = Missing]
    <3>1. /\ Row(m) = [Row(db[y]) EXCEPT ![k] = HmGet(db[x], k)]
          /\ Row(r) = [Row(db[x]) EXCEPT ![k] = Missing]
      <4>1. Written(m, db[y], k, HmGet(db[x], k)) /\ k \in Keys
        BY <1>3, <1>7
      <4>2. Written(r, db[x], k, Missing)
        BY <1>7
      <4>3. Row(m) = [Row(db[y]) EXCEPT ![k] = HmGet(db[x], k)]
        BY <4>1, RowWritten
      <4>4. Row(r) = [Row(db[x]) EXCEPT ![k] = Missing]
        BY <4>1, <4>2, RowWritten
      <4> QED BY <4>3, <4>4
    <3> QED BY <1>7, <3>1
  <2>3. \A u \in Servers : u # x /\ u # y => new(u) = row(u)
    BY <1>7
  <2>4. \A u \in Servers : old[u] = row(u)
    OBVIOUS
  <2>5. old = [u \in Servers |-> old[u]]
    OBVIOUS
  <2> HIDE DEF row, new, e, old
  <2>6. /\ mid = [u \in Servers |-> mid[u]] /\ mid[y] = [row(y) EXCEPT ![k] = HmGet(db[x], k)]
        /\ \A u \in Servers : u # y => mid[u] = row(u)
    BY <1>2, <2>1, <2>4, <2>5 DEF x, y
  <2> HIDE DEF mid
  <2>7. [mid EXCEPT ![x][k] = Missing]
          = [u \in Servers |-> IF u = x THEN [row(x) EXCEPT ![k] = Missing] ELSE mid[u]]
    BY <1>1, <1>2, <2>6 DEF x, y
  <2>8. \A u \in Servers : new(u) = IF u = x THEN [row(x) EXCEPT ![k] = Missing] ELSE mid[u]
    BY <1>1, <2>2, <2>3, <2>6 DEF x, y
  <2>9. [u \in Servers |-> new(u)] = [mid EXCEPT ![x][k] = Missing]
    BY <2>7, <2>8
  <2> QED BY <2>9 DEF Contents, Row, mid, old, new, row, e
<1>13. Job[1] = x /\ Job[2] = y
  BY <1>9
<1>14. Moves!MoveOne(k)
  <2>1. /\ k \in ToMove /\ ToMove' = ToMove \ {k} /\ Job' = Job
        /\ Contents(db') = [Contents(db) EXCEPT ![Job[2]][k] = Contents(db)[Job[1]][k],
                                                ![Job[1]][k] = Missing]
    BY <1>9, <1>10, <1>11, <1>12, <1>13
  <2> QED BY <2>1, Zenon DEF Moves!MoveOne, Contents, Job, ToMove
<1> QED BY <1>3, <1>14 DEF k

(* Going on to another node or chain shows nothing. *)
LEMMA PassStutters ==
  ASSUME IInv, PassNode
  PROVE  UNCHANGED shown
<1>1. scan \in ScanType /\ scan # Idle
  BY OnChain, Scans DEF PassNode, IInv
<1>2. db' = db /\ scan' = [scan EXCEPT !.node = Chain.next[@]]
  BY DEF PassNode
<1>3. /\ scan'.src = scan.src /\ scan'.dest = scan.dest /\ scan'.chosen = scan.chosen
      /\ scan' # Idle
  <2>1. scan'.at = "scan" /\ Idle.at = "idle"
    BY <1>1, <1>2 DEF ScanType, Idle
  <2> QED BY <1>1, <1>2, <2>1 DEF ScanType
<1> QED BY <1>1, <1>2, <1>3 DEF shown, Job, ToMove, Present

LEMMA EndRefines ==
  ASSUME IInv, EndOfChain
  PROVE  Moves!Finish \/ UNCHANGED shown
<1> DEFINE b == scan.bucket + 1
<1>1. scan \in ScanType /\ scan # Idle /\ Swept(db[scan.src], scan.chosen, b) /\ db' = db
  BY ChainSwept, Scans DEF EndOfChain, IInv
<1>2. CASE b = HMax
  <2>1. scan' = Idle
    BY <1>2 DEF EndOfChain
  <2>2. Job # << >> /\ Job' = << >> /\ ToMove' = {}
    BY <1>1, <2>1 DEF Job, ToMove
  <2>3. ToMove = {}
    <3> SUFFICES ASSUME NEW k \in scan.chosen PROVE HmGet(db[scan.src], k) = Missing
      BY <1>1 DEF ToMove, Present
    <3> DEFINE c == BucketOf(k)
               l == db[scan.src].buckets[c]
    <3>1. c \in Buckets /\ scan.src \in Servers /\ c < b
      BY <1>1, <1>2, BucketIndex, MapAssumption DEF ScanType, Buckets
    <3>2. \A n \in Allocated(l) : l.data[n].key # k
      BY <1>1, <3>1 DEF Swept
    <3>3. Keyed(l, c) /\ \E s : ChainOf(l, s)
      BY <3>1 DEF IInv, MapsSound, Sound
    <3> HIDE DEF l, c
    <3>4. ValueIn(l, k) = Missing
      BY <3>2, <3>3, ValueIs
    <3> QED BY <3>4, GetIs DEF l, c
  <2> QED BY <1>1, <2>2, <2>3 DEF Moves!Finish, Moves!NoJob, Job, ToMove
<1>3. CASE b # HMax
  <2>1. scan' = [scan EXCEPT !.bucket = b, !.node = db[scan.src].buckets[b].head]
    BY <1>3 DEF EndOfChain
  <2>2. /\ scan'.src = scan.src /\ scan'.dest = scan.dest /\ scan'.chosen = scan.chosen
        /\ scan' # Idle
    <3>1. scan'.at = "scan" /\ Idle.at = "idle"
      BY <1>1, <2>1 DEF ScanType, Idle
    <3> QED BY <1>1, <2>1, <3>1 DEF ScanType
  <2> QED BY <1>1, <2>2 DEF shown, Job, ToMove, Present
<1> QED BY <1>2, <1>3

LEMMA InitRefines == Init => Moves!Init
<1> SUFFICES ASSUME Init PROVE Moves!Init
  OBVIOUS
<1>1. \A t \in Servers : db[t] = EmptyMap
  BY DEF Init
<1>2. [t \in Servers |-> [k \in Keys |-> HmGet(db[t], k)]]
        = [t \in Servers |-> [k \in Keys |-> Missing]]
  BY <1>1, EmptySound
<1> QED BY <1>2 DEF Init, Moves!Init, Moves!NoJob

LEMMA StepRefines == IInv /\ [Next]_vars => [Moves!Next]_shown
<1> SUFFICES ASSUME IInv, [Next]_vars PROVE [Moves!Next]_shown
  OBVIOUS
<1>1. ASSUME NEW t \in Servers, NEW k \in Keys, NEW v \in Vals, Write(t, k, v)
      PROVE  Moves!Next
  BY <1>1, WriteRefines, Zenon DEF Moves!Next
<1>2. ASSUME NEW t \in Servers, Replace(t)
      PROVE  Moves!Next
  BY <1>2, ReplaceRefines, Zenon DEF Moves!Next
<1>3. ASSUME NEW t \in Servers, NEW u \in Servers,
             NEW chosen \in SUBSET {k \in Keys : Present(t, k)}, Begin(t, u, chosen)
      PROVE  Moves!Next
  <2>1. chosen \in SUBSET Keys
    OBVIOUS
  <2>2. Moves!Begin(t, u, chosen)
    BY <1>3, <2>1, BeginRefines
  <2> QED BY <2>1, <2>2, Zenon DEF Moves!Next
<1>4. CASE MoveNode
  BY <1>4, MoveRefines, Zenon DEF Moves!Next
<1>5. CASE PassNode
  BY <1>5, PassStutters
<1>6. CASE EndOfChain
  BY <1>6, EndRefines, Zenon DEF Moves!Next
<1>7. CASE UNCHANGED vars
  BY <1>7 DEF vars, shown, Job, ToMove, Present
<1> QED BY <1>1, <1>2, <1>3, <1>4, <1>5, <1>6, <1>7 DEF Next, Loop

(* Refinement. The walk over the buckets, relinking the chain it stands on *)
(* with every removal, moves each chosen document once and leaves none of  *)
(* them behind: it is the transfer between two maps that the load          *)
(* balancer's model has.                                                   *)
THEOREM MovesRefinement == Spec => MovesTheChosen
<1>1. IInv /\ [Next]_vars => [Moves!Next]_(Moves!vars)
  BY StepRefines DEF Moves!vars, shown, Job, ToMove
<1> QED BY <1>1, InitRefines, Invariance, PTL DEF Spec, MovesTheChosen, Moves!Spec
=============================================================================

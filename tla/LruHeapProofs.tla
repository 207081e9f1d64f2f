---------------------------- MODULE LruHeapProofs ----------------------------
(***************************************************************************)
(* A cache's list, map and key strings stay sound under every call, and    *)
(* implement the cache that the servers are modelled with, for every       *)
(* capacity and every heap.                                                *)
(***************************************************************************)
EXTENDS LruHeap, ListProofs, SequenceTheorems

(* Owned for a list, a map and strings that need not be the state's own:   *)
(* lru_cache_put goes through lru_cache_remove before it inserts.          *)
OwnedBy(l, m, t) ==
  /\ \A n \in Allocated(l) : [str |-> l.data[n].str, node |-> n] \in m
  /\ \A e \in m : e.node \in Allocated(l) /\ l.data[e.node].str = e.str
  /\ \A e, f \in m : t[e.str] = t[f.str] => e = f
  /\ \A p \in Strings : p \in {e.str : e \in m} <=> t[p] # None

Whole(l, m, t) ==
  /\ l \in DllType
  /\ m \in SUBSET EntryType
  /\ t \in [Strings -> Docs \union {None}]
  /\ Linked(l)
  /\ OwnedBy(l, m, t)

(* g is f with y at x. *)
Updated(g, f, x, y) == g = [f EXCEPT ![x] = y]

(* HeapSound without the bound on the size, which lru_cache_put passes     *)
(* through, and without what is written for the caller.                    *)
LEMMA HeapSoundParts ==
  HeapSound <=> Whole(dll, map, text) /\ dll.size <= Capacity /\ last \in CallType
<1>1. TypeOK => ({e.str : e \in map} = Live <=>
        \A p \in Strings : p \in {e.str : e \in map} <=> text[p] # None)
  BY DEF TypeOK, Live, EntryType
<1> QED BY <1>1 DEF HeapSound, TypeOK, ListWhole, Owned, Whole, OwnedBy

(* The same after a step. *)
LEMMA HeapSoundPartsNext ==
  HeapSound' <=> Whole(dll', map', text') /\ dll'.size <= Capacity /\ last' \in CallType
<1>1. TypeOK' => ({e.str : e \in map'} = Live' <=>
        \A p \in Strings : p \in {e.str : e \in map'} <=> text'[p] # None)
  BY DEF TypeOK, Live, EntryType
<1> QED BY <1>1 DEF HeapSound, TypeOK, ListWhole, Owned, Whole, OwnedBy

(* A node is allocated when it carries a pair. *)
LEMMA AllocatedCarriesData ==
  ASSUME NEW l \in DllType, NEW n \in Allocated(l)
  PROVE  /\ n \in Nodes /\ l.data[n] \in Data
         /\ l.data[n].str \in Strings /\ l.data[n].val \in Contents
BY HeapAssumption DEF Allocated, DllType

(* lru_cache_remove frees a node, its string and its entry: what is left   *)
(* is whole, and compares as it did.                                       *)
LEMMA RemovedIsWhole ==
  ASSUME NEW l, NEW m, NEW t, Whole(l, m, t), NEW e \in m, NEW k, NEW u,
         k \in DllType, Linked(k),
         Updated(k.data, l.data, e.node, Garbage), Updated(u, t, e.str, None)
  PROVE  /\ Whole(k, m \ {e}, u)
         /\ \A f \in m \ {e} : u[f.str] = t[f.str]
         /\ Allocated(k) = Allocated(l) \ {e.node}
<1>1. /\ l \in DllType /\ m \in SUBSET EntryType
      /\ t \in [Strings -> Docs \union {None}] /\ OwnedBy(l, m, t)
      /\ e.str \in Strings /\ e.node \in Nodes
      /\ e.node \in Allocated(l) /\ l.data[e.node].str = e.str
  BY DEF Whole, OwnedBy, EntryType
<1>2. l.data \in [Nodes -> Data \union {Garbage}]
  BY <1>1 DEF DllType
<1>3. Allocated(k) = Allocated(l) \ {e.node}
  BY <1>1, <1>2 DEF Allocated, Updated
<1>4. \A n \in Allocated(k) : k.data[n] = l.data[n]
  BY <1>2, <1>3 DEF Allocated, Updated
<1>5. \A f, g \in m : f = g <=> f.str = g.str
  <2>1. \A f, g \in m : t[f.str] = t[g.str] => f = g
    BY <1>1 DEF OwnedBy
  <2> QED BY <2>1
<1>6. \A f, g \in m : f.node = g.node => f = g
  <2>1. \A f \in m : l.data[f.node].str = f.str
    BY <1>1 DEF OwnedBy
  <2> QED BY <1>5, <2>1
<1>7. \A f \in m : f.str \in Strings
  BY <1>1 DEF EntryType
<1>8. \A f \in m \ {e} : f.str # e.str /\ u[f.str] = t[f.str]
  BY <1>1, <1>5, <1>7 DEF Updated
<1>9. u \in [Strings -> Docs \union {None}] /\ u[e.str] = None
  BY <1>1 DEF Updated
<1>10. \A p \in Strings : p # e.str => u[p] = t[p]
  BY <1>1 DEF Updated
<1>11. \A n \in Allocated(k) : [str |-> k.data[n].str, node |-> n] \in m \ {e}
  BY <1>1, <1>3, <1>4 DEF OwnedBy
<1>12. \A f \in m \ {e} : f.node \in Allocated(k) /\ k.data[f.node].str = f.str
  BY <1>1, <1>3, <1>4, <1>6 DEF OwnedBy
<1>13. \A f, g \in m \ {e} : u[f.str] = u[g.str] => f = g
  BY <1>1, <1>8 DEF OwnedBy
<1>14. \A p \in Strings : p \in {f.str : f \in m \ {e}} <=> u[p] # None
  <2> SUFFICES ASSUME NEW p \in Strings
               PROVE  p \in {f.str : f \in m \ {e}} <=> u[p] # None
    OBVIOUS
  <2>1. p \in {f.str : f \in m} <=> t[p] # None
    BY <1>1 DEF OwnedBy
  <2>2. p \in {f.str : f \in m \ {e}} <=> p \in {f.str : f \in m} /\ p # e.str
    BY <1>5
  <2> QED BY <1>9, <1>10, <2>1, <2>2
<1>15. OwnedBy(k, m \ {e}, u)
  BY <1>11, <1>12, <1>13, <1>14 DEF OwnedBy
<1> QED BY <1>1, <1>3, <1>8, <1>9, <1>15 DEF Whole

(* lru_cache_put of a new key: the node, its entry and the string they     *)
(* share are added together.                                               *)
LEMMA AddedIsWhole ==
  ASSUME NEW l, NEW m, NEW t, Whole(l, m, t), NEW d \in Docs, NEW v \in Contents,
         NEW p \in Strings, t[p] = None,
         NEW n \in Nodes \ Allocated(l), \A e \in m : t[e.str] # d,
         NEW k, k \in DllType, Linked(k),
         k.data = [l.data EXCEPT ![n] = [str |-> p, val |-> v]]
  PROVE  Whole(k, m \union {[str |-> p, node |-> n]}, [t EXCEPT ![p] = d])
<1> DEFINE u == [t EXCEPT ![p] = d]
           new == [str |-> p, node |-> n]
<1>1. /\ l \in DllType /\ m \in SUBSET EntryType
      /\ t \in [Strings -> Docs \union {None}] /\ OwnedBy(l, m, t)
  BY DEF Whole
<1>2. l.data \in [Nodes -> Data \union {Garbage}]
  BY <1>1 DEF DllType
<1>3. [str |-> p, val |-> v] # Garbage
  BY NullAssumption, HeapAssumption
<1>4. Allocated(k) = Allocated(l) \union {n} /\ k.data[n].str = p
  BY <1>2, <1>3 DEF Allocated
<1>5. \A x \in Allocated(l) : k.data[x] = l.data[x]
  BY <1>2 DEF Allocated
<1>6. \A e \in m : e.str \in Strings /\ e.str # p
  BY <1>1 DEF OwnedBy, EntryType
<1>7. /\ u \in [Strings -> Docs \union {None}] /\ u[p] = d /\ d # None
      /\ \A q \in Strings : q # p => u[q] = t[q]
  BY <1>1, HeapAssumption
<1>8. new \in EntryType /\ new.str = p /\ new.node = n
  BY DEF EntryType
<1> HIDE DEF u
<1>9. \A x \in Allocated(k) : [str |-> k.data[x].str, node |-> x] \in m \union {new}
  BY <1>1, <1>4, <1>5 DEF OwnedBy
<1> HIDE DEF new
<1>10. \A e \in m \union {new} : e.node \in Allocated(k) /\ k.data[e.node].str = e.str
  BY <1>1, <1>4, <1>5, <1>8 DEF OwnedBy
<1>11. \A e, f \in m \union {new} : u[e.str] = u[f.str] => e = f
  <2>1. \A e, f \in m : t[e.str] = t[f.str] => e = f
    BY <1>1 DEF OwnedBy
  <2>2. \A e \in m : u[e.str] = t[e.str] /\ u[e.str] # d
    BY <1>6, <1>7
  <2> QED BY <1>7, <1>8, <2>1, <2>2
<1>12. \A q \in Strings : q \in {e.str : e \in m \union {new}} <=> u[q] # None
  <2> SUFFICES ASSUME NEW q \in Strings
               PROVE  q \in {e.str : e \in m \union {new}} <=> u[q] # None
    OBVIOUS
  <2>1. q \in {e.str : e \in m} <=> t[q] # None
    BY <1>1 DEF OwnedBy
  <2>2. q \in {e.str : e \in m \union {new}} <=> q \in {e.str : e \in m} \/ q = p
    BY <1>8
  <2> QED BY <1>7, <2>1, <2>2
<1>13. OwnedBy(k, m \union {new}, u)
  BY <1>9, <1>10, <1>11, <1>12 DEF OwnedBy
<1> QED BY <1>1, <1>7, <1>8, <1>13 DEF Whole, u, new

(* A list of which the pointers change, or the value of a pair, and the    *)
(* strings do not.                                                         *)
LEMMA RelinkedIsWhole ==
  ASSUME NEW l, NEW m, NEW t, Whole(l, m, t), NEW k, k \in DllType, Linked(k),
         \A n \in Nodes : /\ k.data[n] = Garbage <=> l.data[n] = Garbage
                          /\ k.data[n] # Garbage => k.data[n].str = l.data[n].str
  PROVE  Whole(k, m, t)
<1>1. Allocated(k) = Allocated(l) /\ \A n \in Allocated(k) : k.data[n].str = l.data[n].str
  BY DEF Allocated
<1>2. OwnedBy(k, m, t)
  BY <1>1 DEF Whole, OwnedBy
<1> QED BY <1>2 DEF Whole

(* A list without nodes is linked. *)
LEMMA EmptyIsWhole ==
  ASSUME NEW l \in DllType, l.size = 0, l.head = Null, l.tail = Null,
         \A n \in Nodes : l.data[n] = Garbage,
         NEW t \in [Strings -> Docs \union {None}], \A p \in Strings : t[p] = None
  PROVE  Whole(l, {}, t)
<1>1. << >> \in Seq(Nodes) /\ Represents(l, << >>)
  BY DEF Represents
<1>2. Allocated(l) = {} /\ Range(<< >>) = {}
  BY DEF Allocated, Range
<1>3. Linked(l)
  BY <1>1, <1>2, LinkedSequence DEF Lists
<1> QED BY <1>2, <1>3 DEF Whole, OwnedBy

(* init_lru_cache *)
LEMMA InitHeapSound == Init => HeapSound
<1> SUFFICES ASSUME Init PROVE HeapSound
  OBVIOUS
<1>1. EmptyDll \in DllType
  BY DEF EmptyDll, DllType, Pointer
<1>2. Whole(dll, map, text)
  <2>1. /\ EmptyDll.size = 0 /\ EmptyDll.head = Null /\ EmptyDll.tail = Null
        /\ \A n \in Nodes : EmptyDll.data[n] = Garbage
    BY DEF EmptyDll
  <2> QED BY <1>1, <2>1, EmptyIsWhole DEF Init
<1>3. dll.size <= Capacity
  BY HeapAssumption DEF Init, EmptyDll
<1>4. last \in CallType
  BY DEF Init, Call, CallType, MaybeContent
<1> QED BY <1>2, <1>3, <1>4, HeapSoundParts

(* An entry of a whole heap leads to an allocated pair. *)
LEMMA EntryLeadsToPair ==
  ASSUME NEW l, NEW m, NEW t, Whole(l, m, t), NEW e \in m
  PROVE  /\ e.node \in Allocated(l) /\ e.node \in Nodes /\ e.str \in Strings
         /\ l.data[e.node] \in Data /\ l.data[e.node].str = e.str
         /\ l.data[e.node].val \in Contents
<1>1. l \in DllType /\ e.node \in Allocated(l) /\ l.data[e.node].str = e.str
  BY DEF Whole, OwnedBy
<1> QED BY <1>1, AllocatedCarriesData DEF Whole, EntryType

(* An entry of the map leads to a place in the list. *)
LEMMA EntryHasPlace ==
  ASSUME NEW l, NEW m, NEW t, Whole(l, m, t), NEW e \in m
  PROVE  \E s : Lists(l, s) /\ \E i \in DOMAIN s : s[i] = e.node
<1>1. l \in DllType /\ Linked(l) /\ e.node \in Allocated(l)
  BY DEF Whole, OwnedBy
<1>2. PICK s : Lists(l, s)
  BY <1>1, LinkedSequence
<1>3. \E i \in DOMAIN s : e.node = s[i]
  BY <1>1, <1>2, PlaceInList
<1> QED BY <1>2, <1>3

(* lru_cache_get, of a key the cache has: its node goes first. *)
LEMMA GetHitMoves ==
  ASSUME HeapSound, NEW d \in Docs, GetHit(d)
  PROVE  \E s : Lists(dll, s) /\ \E i \in DOMAIN s :
           /\ text[dll.data[s[i]].str] = d /\ dll.data[s[i]].val \in Contents
           /\ dll' \in DllType /\ dll'.size = dll.size /\ dll'.data = dll.data
           /\ Lists(dll', InFront(s[i], Without(s, i)))
           /\ last' = Call("get", d, dll.data[s[i]].val, TRUE, None)
<1>1. PICK e \in Entries(map, d) :
         /\ dll' = DllInsertNth(RemoveNode(dll, e.node), 0, e.node)
         /\ last' = Call("get", d, dll.data[e.node].val, TRUE, None)
  BY DEF GetHit
<1>2. Whole(dll, map, text) /\ e \in map /\ text[e.str] = d
  BY HeapSoundParts DEF Entries
<1>3. dll.data[e.node].str = e.str /\ dll.data[e.node].val \in Contents
  BY <1>2, EntryLeadsToPair
<1>4. PICK s : Lists(dll, s) /\ \E i \in DOMAIN s : s[i] = e.node
  BY <1>2, EntryHasPlace
<1>5. PICK i \in DOMAIN s : s[i] = e.node
  BY <1>4
<1> DEFINE r == RemoveNode(dll, s[i])
<1>6. dll \in DllType
  BY <1>2 DEF Whole
<1>7. r \in DllType /\ r.data = dll.data
  BY <1>4, <1>6, RemoveNodeType
<1>8. SameLinks(r, RemoveNode(dll, s[i]))
  BY DEF SameLinks
<1>9. /\ dll' \in DllType /\ dll'.size = dll.size /\ dll'.data = dll.data
      /\ Lists(dll', InFront(s[i], Without(s, i)))
  BY <1>1, <1>4, <1>5, <1>6, <1>7, <1>8, MoveFirst
<1> QED BY <1>1, <1>2, <1>3, <1>4, <1>5, <1>9

(* The heap stays sound: only pointers change.                             *)
LEMMA GetHitSound ==
  ASSUME HeapSound, NEW d \in Docs, GetHit(d)
  PROVE  HeapSound'
<1>1. PICK s : Lists(dll, s) /\ \E i \in DOMAIN s :
           /\ text[dll.data[s[i]].str] = d /\ dll.data[s[i]].val \in Contents
           /\ dll' \in DllType /\ dll'.size = dll.size /\ dll'.data = dll.data
           /\ Lists(dll', InFront(s[i], Without(s, i)))
           /\ last' = Call("get", d, dll.data[s[i]].val, TRUE, None)
  BY GetHitMoves
<1>2. Whole(dll, map, text) /\ dll.size <= Capacity
  BY HeapSoundParts
<1>3. Linked(dll')
  BY <1>1, LinkedSequence
<1>4. map' = map /\ text' = text
  BY DEF GetHit
<1>5. Whole(dll', map', text')
  BY <1>1, <1>2, <1>3, <1>4, RelinkedIsWhole
<1>6. last' \in CallType
  BY <1>1 DEF Call, CallType, MaybeContent
<1> QED BY <1>1, <1>2, <1>5, <1>6, HeapSoundPartsNext

(* lru_cache_put, of a key the cache has: its pair takes the new value and *)
(* goes first.                                                             *)
LEMMA PutKnownMoves ==
  ASSUME HeapSound, NEW d \in Docs, NEW v \in Contents, PutKnown(d, v)
  PROVE  \E s : Lists(dll, s) /\ \E i \in DOMAIN s :
           /\ text[dll.data[s[i]].str] = d
           /\ dll' \in DllType /\ dll'.size = dll.size
           /\ dll'.data = [dll.data EXCEPT ![s[i]] =
                             [str |-> dll.data[s[i]].str, val |-> v]]
           /\ Lists(dll', InFront(s[i], Without(s, i)))
<1>1. PICK e \in Entries(map, d) :
         dll' = DllInsertNth([RemoveNode(dll, e.node) EXCEPT !.data[e.node].val = v],
                          0, e.node)
  BY DEF PutKnown
<1>2. Whole(dll, map, text) /\ e \in map /\ text[e.str] = d
  BY HeapSoundParts DEF Entries
<1>3. dll.data[e.node].str = e.str /\ dll.data[e.node] \in Data
  BY <1>2, EntryLeadsToPair
<1>4. PICK s : Lists(dll, s) /\ \E i \in DOMAIN s : s[i] = e.node
  BY <1>2, EntryHasPlace
<1>5. PICK i \in DOMAIN s : s[i] = e.node
  BY <1>4
<1>6. dll \in DllType /\ e.node \in Nodes
  BY <1>2, EntryLeadsToPair DEF Whole
<1> DEFINE n == e.node
           o == RemoveNode(dll, n)
           x == [str |-> dll.data[n].str, val |-> v]
           r == [o EXCEPT !.data[n].val = v]
<1>7. o \in DllType /\ o.data = dll.data
  BY <1>4, <1>5, <1>6, RemoveNodeType
<1>8. x \in Data /\ [dll.data[n] EXCEPT !.val = v] = x
  BY <1>3, HeapAssumption
<1>9. /\ r.head = o.head /\ r.tail = o.tail /\ r.size = o.size
      /\ r.next = o.next /\ r.prev = o.prev
      /\ r.data = [dll.data EXCEPT ![n] = x] /\ r \in DllType
  <2> HIDE DEF o, n, x
  <2>1. r = [o EXCEPT !.data = [dll.data EXCEPT ![n] = x]]
    BY <1>7, <1>8
  <2> HIDE DEF r
  <2> QED BY <1>7, <1>8, <2>1 DEF DllType
<1> HIDE DEF x
<1>10. dll.data[n] # Garbage /\ x # Garbage
  BY <1>3, <1>8, NullAssumption
<1>11. \A y \in Nodes : r.data[y] = Garbage <=> dll.data[y] = Garbage
  <2>1. dll.data \in [Nodes -> Data \union {Garbage}]
    BY <1>6 DEF DllType
  <2> HIDE DEF r, n
  <2> QED BY <1>9, <1>10, <2>1
<1>12. SameLinks(r, RemoveNode(dll, s[i]))
  <2> HIDE DEF r
  <2> QED BY <1>5, <1>9 DEF o, SameLinks
<1>13. dll' = DllInsertNth(r, 0, s[i])
  BY <1>1, <1>5
<1>14. /\ dll' \in DllType /\ dll'.size = dll.size /\ dll'.data = r.data
       /\ Lists(dll', InFront(s[i], Without(s, i)))
  <2>1. Lists(dll, s) /\ dll \in DllType /\ r \in DllType
    BY <1>4, <1>6, <1>9
  <2> HIDE DEF r, n, o
  <2> QED BY <1>11, <1>12, <1>13, <2>1, MoveFirst
<1> HIDE DEF r
<1> QED BY <1>2, <1>3, <1>4, <1>5, <1>9, <1>14 DEF x

(* The heap stays sound: besides, the value of one pair changes.           *)
LEMMA PutKnownSound ==
  ASSUME HeapSound, NEW d \in Docs, NEW v \in Contents, PutKnown(d, v)
  PROVE  HeapSound'
<1>1. PICK s : Lists(dll, s) /\ \E i \in DOMAIN s :
           /\ dll' \in DllType /\ dll'.size = dll.size
           /\ dll'.data = [dll.data EXCEPT ![s[i]] =
                             [str |-> dll.data[s[i]].str, val |-> v]]
           /\ Lists(dll', InFront(s[i], Without(s, i)))
  BY PutKnownMoves
<1>2. PICK i \in DOMAIN s :
           /\ dll' \in DllType /\ dll'.size = dll.size
           /\ dll'.data = [dll.data EXCEPT ![s[i]] =
                             [str |-> dll.data[s[i]].str, val |-> v]]
           /\ Lists(dll', InFront(s[i], Without(s, i)))
  BY <1>1
<1>3. Whole(dll, map, text) /\ dll.size <= Capacity
  BY HeapSoundParts
<1>4. Linked(dll')
  BY <1>2, LinkedSequence
<1>5. s[i] \in Allocated(dll)
  BY <1>1 DEF Lists, Range
<1>6. \A n \in Nodes : /\ dll'.data[n] = Garbage <=> dll.data[n] = Garbage
                       /\ dll'.data[n] # Garbage => dll'.data[n].str = dll.data[n].str
  <2> DEFINE x == [str |-> dll.data[s[i]].str, val |-> v]
  <2>1. /\ dll.data \in [Nodes -> Data \union {Garbage}]
        /\ dll.data[s[i]] # Garbage /\ s[i] \in Nodes /\ dll.data[s[i]].str \in Strings
    BY <1>3, <1>5, AllocatedCarriesData DEF Whole, DllType, Allocated
  <2>2. x # Garbage /\ x.str = dll.data[s[i]].str
    BY <2>1, NullAssumption, HeapAssumption
  <2>3. dll'.data = [dll.data EXCEPT ![s[i]] = x]
    BY <1>2
  <2> HIDE DEF x
  <2> QED BY <2>1, <2>2, <2>3
<1>7. map' = map /\ text' = text
  BY DEF PutKnown
<1>8. Whole(dll', map', text')
  BY <1>2, <1>3, <1>4, <1>6, <1>7, RelinkedIsWhole
<1>9. last' \in CallType
  BY DEF PutKnown, Call, CallType, MaybeContent
<1> QED BY <1>2, <1>3, <1>8, <1>9, HeapSoundPartsNext

(* The step that copies d to string p and inserts (d, v) in a new node n *)
(* in front of the sequence s of the list                                *)
Inserts(d, v, s, p, n) ==
  /\ Lists(dll, s)
  /\ p \in Strings /\ text[p] = None /\ n \in Nodes \ Allocated(dll)
  /\ \A e \in map : text[e.str] # d
  /\ dll' \in DllType /\ dll'.size = dll.size + 1
  /\ dll'.data = [dll.data EXCEPT ![n] = [str |-> p, val |-> v]]
  /\ Lists(dll', InFront(n, s))
  /\ map' = map \union {[str |-> p, node |-> n]}
  /\ text' = [text EXCEPT ![p] = d]

(* lru_cache_put, of a new key while there is room: a new node goes first. *)
LEMMA PutNewInserts ==
  ASSUME HeapSound, NEW d \in Docs, NEW v \in Contents, PutNew(d, v)
  PROVE  \E s, p, n : Inserts(d, v, s, p, n)
<1>1. PICK p \in Strings \ Live, n \in Nodes \ Allocated(dll) :
         /\ dll' = DllInsertNthNode(dll, 0, [str |-> p, val |-> v], n)
         /\ map' = map \union {[str |-> p, node |-> n]}
         /\ text' = [text EXCEPT ![p] = d]
  BY DEF PutNew
<1>2. Whole(dll, map, text)
  BY HeapSoundParts
<1>3. PICK s : Lists(dll, s)
  BY <1>2, LinkedSequence DEF Whole
<1>4. /\ [str |-> p, val |-> v] \in Data
      /\ text[p] = None
      /\ \A e \in map : text[e.str] # d
  BY HeapAssumption DEF Live, PutNew, Known, Entries
<1>5. /\ dll' \in DllType /\ dll'.size = dll.size + 1
      /\ dll'.data = [dll.data EXCEPT ![n] = [str |-> p, val |-> v]]
      /\ Lists(dll', InFront(n, s))
  BY <1>1, <1>2, <1>3, <1>4, InsertNew DEF Whole
<1>6. Inserts(d, v, s, p, n)
  BY <1>1, <1>3, <1>4, <1>5 DEF Inserts
<1> QED BY <1>6

(* The heap stays sound, and the size within capacity.                     *)
LEMMA PutNewSound ==
  ASSUME HeapSound, NEW d \in Docs, NEW v \in Contents, PutNew(d, v)
  PROVE  HeapSound'
<1>0. PICK s, p, n : Inserts(d, v, s, p, n)
  BY PutNewInserts
<1>1. /\ Lists(dll, s)
      /\ p \in Strings /\ text[p] = None /\ n \in Nodes \ Allocated(dll)
      /\ \A e \in map : text[e.str] # d
      /\ dll' \in DllType /\ dll'.size = dll.size + 1
      /\ dll'.data = [dll.data EXCEPT ![n] = [str |-> p, val |-> v]]
      /\ Lists(dll', InFront(n, s))
      /\ map' = map \union {[str |-> p, node |-> n]}
      /\ text' = [text EXCEPT ![p] = d]
  BY <1>0 DEF Inserts
<1>2. Whole(dll, map, text) /\ dll.size <= Capacity
  BY HeapSoundParts
<1>3. Linked(dll')
  BY <1>1, LinkedSequence
<1>4. Whole(dll', map', text')
  BY <1>1, <1>2, <1>3, AddedIsWhole
<1>5. dll'.size <= Capacity
  <2>1. dll.size \in Nat /\ dll.size # Capacity
    BY <1>2 DEF Whole, DllType, PutNew, Full
  <2> QED BY <1>1, <1>2, <2>1, HeapAssumption
<1>6. last' \in CallType
  BY DEF PutNew, Call, CallType, MaybeContent
<1> QED BY <1>4, <1>5, <1>6, HeapSoundPartsNext

(* What lru_cache_remove leaves of the list *)
LEMMA RemovalShortens ==
  ASSUME Whole(dll, map, text), NEW e \in map,
         NEW s, Lists(dll, s), NEW i \in DOMAIN s, s[i] = e.node
  PROVE  /\ ListWithout(e) \in DllType /\ ListWithout(e).size = dll.size - 1
         /\ ListWithout(e).data = [dll.data EXCEPT ![e.node] = Garbage]
         /\ Lists(ListWithout(e), Without(s, i))
BY RemoveAndFree DEF Whole, ListWithout

(* and of a whole heap *)
LEMMA RemovalSound ==
  ASSUME Whole(dll, map, text), NEW e \in map
  PROVE  /\ Whole(ListWithout(e), map \ {e}, StringsWithout(e))
         /\ \A f \in map \ {e} : StringsWithout(e)[f.str] = text[f.str]
         /\ Allocated(ListWithout(e)) = Allocated(dll) \ {e.node}
         /\ ListWithout(e).size = dll.size - 1
         /\ StringsWithout(e) = [text EXCEPT ![e.str] = None]
         /\ \A p \in Strings \ Live : StringsWithout(e)[p] = None
<1> DEFINE k == ListWithout(e)
<1>2. /\ k \in DllType /\ Linked(k) /\ k.size = dll.size - 1
      /\ k.data = [dll.data EXCEPT ![e.node] = Garbage]
  <2>1. PICK s : Lists(dll, s) /\ \E i \in DOMAIN s : s[i] = e.node
    BY EntryHasPlace
  <2>2. PICK i \in DOMAIN s : s[i] = e.node
    BY <2>1
  <2>3. /\ k \in DllType /\ k.size = dll.size - 1 /\ Lists(k, Without(s, i))
        /\ k.data = [dll.data EXCEPT ![e.node] = Garbage]
    BY <2>1, <2>2, RemovalShortens
  <2> QED BY <2>3, LinkedSequence
<1>3. StringsWithout(e) = [text EXCEPT ![e.str] = None]
  BY EntryLeadsToPair DEF StringsWithout
<1> HIDE DEF k
<1>4. /\ Whole(k, map \ {e}, StringsWithout(e))
      /\ \A f \in map \ {e} : StringsWithout(e)[f.str] = text[f.str]
      /\ Allocated(k) = Allocated(dll) \ {e.node}
  <2>1. /\ Updated(k.data, dll.data, e.node, Garbage)
        /\ Updated(StringsWithout(e), text, e.str, None)
    BY <1>2, <1>3 DEF Updated
  <2> QED BY <1>2, <2>1, RemovedIsWhole
<1>5. \A p \in Strings \ Live : StringsWithout(e)[p] = None
  BY <1>3 DEF Whole, Live
<1> QED BY <1>2, <1>3, <1>4, <1>5 DEF k

(* lru_cache_put, of a new key into a full cache *)
LEMMA PutEvictingSound ==
  ASSUME HeapSound, NEW d \in Docs, NEW v \in Contents, PutEvicting(d, v)
  PROVE  HeapSound'
<1> DEFINE victim == text[dll.data[dll.tail].str]
<1>1. PICK e \in Entries(map, victim), p \in Strings \ Live :
        \E n \in (Nodes \ Allocated(dll)) \union {e.node} :
          /\ dll' = DllInsertNthNode(ListWithout(e), 0, [str |-> p, val |-> v], n)
          /\ map' = (map \ {e}) \union {[str |-> p, node |-> n]}
          /\ text' = [StringsWithout(e) EXCEPT ![p] = d]
          /\ last' = Call("put", d, v, FALSE, victim)
  BY DEF PutEvicting
<1>2. PICK n \in (Nodes \ Allocated(dll)) \union {e.node} :
          /\ dll' = DllInsertNthNode(ListWithout(e), 0, [str |-> p, val |-> v], n)
          /\ map' = (map \ {e}) \union {[str |-> p, node |-> n]}
          /\ text' = [StringsWithout(e) EXCEPT ![p] = d]
          /\ last' = Call("put", d, v, FALSE, victim)
  BY <1>1
<1>3. /\ Whole(dll, map, text) /\ dll.size <= Capacity
      /\ e \in map /\ text[e.str] = victim
  BY HeapSoundParts DEF Entries
<1>4. e.node \in Nodes /\ e.str \in Strings
  BY <1>3, EntryLeadsToPair
<1> DEFINE k == ListWithout(e)
           t == StringsWithout(e)
<1>5. /\ Whole(k, map \ {e}, t)
      /\ \A f \in map \ {e} : t[f.str] = text[f.str]
      /\ Allocated(k) = Allocated(dll) \ {e.node}
      /\ k.size = dll.size - 1
      /\ \A q \in Strings \ Live : t[q] = None
  BY <1>3, RemovalSound
<1>6. \A f \in map \ {e} : t[f.str] # d
  BY <1>5 DEF PutEvicting, Known, Entries
<1>7. n \in Nodes \ Allocated(k) /\ [str |-> p, val |-> v] \in Data /\ t[p] = None
  BY <1>4, <1>5, HeapAssumption
<1> HIDE DEF k, t
<1>8. /\ dll' \in DllType /\ Linked(dll') /\ dll'.size = k.size + 1
      /\ dll'.data = [k.data EXCEPT ![n] = [str |-> p, val |-> v]]
  <2>1. k \in DllType /\ \E s : Lists(k, s)
    BY <1>5, LinkedSequence DEF Whole
  <2>2. PICK s : Lists(k, s)
    BY <2>1
  <2>3. /\ dll' \in DllType /\ Lists(dll', InFront(n, s)) /\ dll'.size = k.size + 1
        /\ dll'.data = [k.data EXCEPT ![n] = [str |-> p, val |-> v]]
    BY <1>2, <1>7, <2>1, <2>2, InsertNew DEF k
  <2> QED BY <2>3, LinkedSequence
<1>9. Whole(dll', map', text')
  <2>2. /\ Whole(k, map \ {e}, t) /\ n \in Nodes \ Allocated(k) /\ t[p] = None
        /\ dll' \in DllType
        /\ dll'.data = [k.data EXCEPT ![n] = [str |-> p, val |-> v]]
    BY <1>5, <1>7, <1>8
  <2>1. Whole(dll', (map \ {e}) \union {[str |-> p, node |-> n]}, [t EXCEPT ![p] = d])
    BY <1>6, <1>8, <2>2, AddedIsWhole
  <2> QED BY <1>2, <2>1 DEF t
<1>10. dll'.size <= Capacity
  <2>1. dll.size \in Nat
    BY <1>3 DEF Whole, DllType
  <2> QED BY <1>3, <1>5, <1>8, <2>1
<1>11. last' \in CallType
  <2>1. victim \in Docs \union {None}
    BY <1>3, <1>4 DEF Whole
  <2> HIDE DEF victim
  <2> QED BY <1>2, <2>1 DEF Call, CallType, MaybeContent
<1> QED BY <1>9, <1>10, <1>11, HeapSoundPartsNext

(* lru_cache_remove *)
LEMMA RemoveKnownSound ==
  ASSUME HeapSound, NEW d \in Docs, RemoveKnown(d)
  PROVE  HeapSound'
<1>1. PICK e \in Entries(map, d) :
         /\ map' = map \ {e}
         /\ dll' = ListWithout(e)
         /\ text' = StringsWithout(e)
         /\ last' = Call("remove", d, None, TRUE, None)
  BY DEF RemoveKnown
<1>2. Whole(dll, map, text) /\ dll.size <= Capacity /\ e \in map
  BY HeapSoundParts DEF Entries
<1>3. Whole(dll', map', text') /\ dll'.size = dll.size - 1
  BY <1>1, <1>2, RemovalSound
<1>4. dll'.size <= Capacity
  <2>1. dll.size \in Nat
    BY <1>2 DEF Whole, DllType
  <2> QED BY <1>2, <1>3, <2>1, HeapAssumption
<1>5. last' \in CallType
  BY <1>1 DEF Call, CallType, MaybeContent
<1> QED BY <1>3, <1>4, <1>5, HeapSoundPartsNext

(* Calls that leave the heap alone *)
LEMMA MissSound ==
  ASSUME HeapSound, UNCHANGED <<dll, map, text>>, last' \in CallType
  PROVE  HeapSound'
BY HeapSoundParts, HeapSoundPartsNext

(* free_lru_cache: every pair is freed by the list, and every string with  *)
(* its pair.                                                               *)
LEMMA FreeSound ==
  ASSUME HeapSound, Free
  PROVE  HeapSound'
<1>1. Whole(dll, map, text)
  BY HeapSoundParts
<1>2. Met(dll) = Allocated(dll)
  <2>1. dll \in DllType /\ Linked(dll)
    BY <1>1 DEF Whole
  <2>2. PICK s : Lists(dll, s)
    BY <2>1, LinkedSequence
  <2> QED BY <2>1, <2>2, MetAreRepresented DEF Lists
<1> DEFINE after == [n \in Nodes |-> IF n \in Met(dll) THEN Garbage ELSE dll.data[n]]
<1>3. DllFree(dll).data = after
  BY <1>1 DEF DllFree, Whole, DllType
<1>4. \A n \in Nodes : after[n] = Garbage
  BY <1>2 DEF Allocated
<1>5. /\ dll' \in DllType /\ dll'.size = 0 /\ dll'.head = Null /\ dll'.tail = Null
      /\ dll'.data = after
  <2>1. after \in [Nodes -> Data \union {Garbage}]
    BY <1>4
  <2> HIDE DEF after
  <2>2. dll' = [EmptyDll EXCEPT !.data = after]
    BY <1>3 DEF Free
  <2> QED BY <2>1, <2>2 DEF EmptyDll, DllType, Pointer
<1>6. /\ text' \in [Strings -> Docs \union {None}]
      /\ \A p \in Strings : text'[p] = None
  <2> DEFINE freed == {dll.data[n].str : n \in Met(dll)}
  <2>1. text' = [p \in Strings |-> IF p \in freed THEN None ELSE text[p]]
    BY DEF Free
  <2>2. ASSUME NEW p \in Strings, text[p] # None PROVE p \in freed
    <3>1. PICK e \in map : e.str = p
      BY <1>1, <2>2 DEF Whole, OwnedBy
    <3>2. e.node \in Allocated(dll) /\ dll.data[e.node].str = p
      BY <1>1, <3>1, EntryLeadsToPair
    <3> QED BY <1>2, <3>2
  <2> HIDE DEF freed
  <2> QED BY <2>1, <2>2
<1>7. Whole(dll', map', text')
  <2>1. map' = {}
    BY DEF Free
  <2> HIDE DEF after
  <2>2. \A n \in Nodes : dll'.data[n] = Garbage
    BY <1>4, <1>5
  <2> QED BY <1>5, <1>6, <2>1, <2>2, EmptyIsWhole
<1>8. dll'.size <= Capacity
  BY <1>5, HeapAssumption
<1>9. last' \in CallType
  BY DEF Free, Call, CallType, MaybeContent
<1> QED BY <1>7, <1>8, <1>9, HeapSoundPartsNext

(* Every node of the list is in the map and its string is the map's: under *)
(* every sequence of lru_cache_get, put, remove and free, no string is     *)
(* freed twice, none is left behind, and no entry outlives its node.       *)
THEOREM HeapStaysSound == Spec => []HeapSound
<1>1. Init => HeapSound
  BY InitHeapSound
<1>2. HeapSound /\ [Next]_vars => HeapSound'
  <2> SUFFICES ASSUME HeapSound, [Next]_vars PROVE HeapSound'
    OBVIOUS
  <2>1. ASSUME NEW d \in Docs, GetHit(d) PROVE HeapSound'
    BY <2>1, GetHitSound
  <2>2. ASSUME NEW d \in Docs, GetMiss(d) PROVE HeapSound'
    <3>1. UNCHANGED <<dll, map, text>> /\ last' \in CallType
      BY <2>2 DEF GetMiss, Call, CallType, MaybeContent
    <3> QED BY <3>1, MissSound
  <2>3. ASSUME NEW d \in Docs, RemoveKnown(d) PROVE HeapSound'
    BY <2>3, RemoveKnownSound
  <2>4. ASSUME NEW d \in Docs, RemoveUnknown(d) PROVE HeapSound'
    <3>1. UNCHANGED <<dll, map, text>> /\ last' \in CallType
      BY <2>4 DEF RemoveUnknown, Call, CallType, MaybeContent
    <3> QED BY <3>1, MissSound
  <2>5. ASSUME NEW d \in Docs, NEW v \in Contents, PutKnown(d, v) PROVE HeapSound'
    BY <2>5, PutKnownSound
  <2>6. ASSUME NEW d \in Docs, NEW v \in Contents, PutNew(d, v) PROVE HeapSound'
    BY <2>6, PutNewSound
  <2>7. ASSUME NEW d \in Docs, NEW v \in Contents, PutEvicting(d, v) PROVE HeapSound'
    BY <2>7, PutEvictingSound
  <2>8. ASSUME Free PROVE HeapSound'
    BY <2>8, FreeSound
  <2>9. ASSUME UNCHANGED vars PROVE HeapSound'
    BY <2>9, HeapSoundParts, HeapSoundPartsNext DEF vars
  <2> QED BY <2>1, <2>2, <2>3, <2>4, <2>5, <2>6, <2>7, <2>8, <2>9 DEF Next
<1> QED BY <1>1, <1>2, PTL DEF Spec

-----------------------------------------------------------------------------
(* The cache that a list, a map and their strings stand for, as the servers*)
(* are modelled with it.                                                   *)

EntriesIn(m, t, d) == {e \in m : t[e.str] = d}

Held(l, m, t, d) == IF EntriesIn(m, t, d) # {}
                      THEN {l.data[e.node].val : e \in EntriesIn(m, t, d)}
                      ELSE {None}

OrderOf(l, t) == LET w == Walk(l.next, l.head)
                 IN  [i \in DOMAIN w |-> t[l.data[w[i]].str]]

CacheAt(l, m, t) ==
  [order |-> OrderOf(l, t),
   val |-> [d \in Docs |-> CHOOSE v \in Held(l, m, t, d) : TRUE],
   cap |-> Capacity]

(* A cache whose order is what the nodes of s say, and that holds their    *)
(* contents and no other.                                                  *)
Reads(l, t, s, c) ==
  /\ c \in [order : Seq(Docs), val : [Docs -> MaybeContent], cap : {Capacity}]
  /\ Len(c.order) = Len(s)
  /\ \A i \in DOMAIN s : /\ c.order[i] = t[l.data[s[i]].str]
                         /\ c.val[c.order[i]] = l.data[s[i]].val
  /\ \A d \in Docs : c.val[d] = None \/ \E i \in DOMAIN s : c.order[i] = d

(* No two nodes carry the same key. *)
LEMMA KeysDiffer ==
  ASSUME NEW l, NEW m, NEW t, Whole(l, m, t), NEW s, Lists(l, s)
  PROVE  /\ \A i \in DOMAIN s :
              /\ s[i] \in Allocated(l) /\ l.data[s[i]].str \in Strings
              /\ [str |-> l.data[s[i]].str, node |-> s[i]] \in m
              /\ t[l.data[s[i]].str] \in Docs /\ l.data[s[i]].val \in Contents
         /\ \A i, j \in DOMAIN s :
              t[l.data[s[i]].str] = t[l.data[s[j]].str] => i = j
<1>1. l \in DllType /\ OwnedBy(l, m, t) /\ t \in [Strings -> Docs \union {None}]
  BY DEF Whole
<1>2. \A i, j \in DOMAIN s : s[i] = s[j] => i = j
  BY DEF Lists, Represents
<1>3. ASSUME NEW i \in DOMAIN s
      PROVE  /\ s[i] \in Allocated(l) /\ l.data[s[i]].str \in Strings
             /\ [str |-> l.data[s[i]].str, node |-> s[i]] \in m
             /\ t[l.data[s[i]].str] \in Docs /\ l.data[s[i]].val \in Contents
  <2>1. s[i] \in Allocated(l)
    BY DEF Lists, Range
  <2>2. l.data[s[i]].str \in Strings /\ l.data[s[i]].val \in Contents
    BY <1>1, <2>1, AllocatedCarriesData
  <2> DEFINE e == [str |-> l.data[s[i]].str, node |-> s[i]]
  <2>3. e \in m
    BY <1>1, <2>1 DEF OwnedBy
  <2>4. t[e.str] # None
    BY <1>1, <2>2, <2>3 DEF OwnedBy
  <2> QED BY <1>1, <2>1, <2>2, <2>3, <2>4
<1>4. ASSUME NEW i \in DOMAIN s, NEW j \in DOMAIN s,
             t[l.data[s[i]].str] = t[l.data[s[j]].str]
      PROVE  i = j
  <2> DEFINE e == [str |-> l.data[s[i]].str, node |-> s[i]]
             f == [str |-> l.data[s[j]].str, node |-> s[j]]
  <2>1. e \in m /\ f \in m /\ t[e.str] = t[f.str]
    BY <1>3, <1>4
  <2>2. e = f
    BY <1>1, <2>1 DEF OwnedBy
  <2>3. e.node = f.node
    BY <2>2
  <2> QED BY <1>2, <2>3
<1> QED BY <1>3, <1>4

(* A whole heap reads as the cache it stands for. *)
LEMMA CacheIsRead ==
  ASSUME NEW l, NEW m, NEW t, Whole(l, m, t), NEW s, Lists(l, s)
  PROVE  Reads(l, t, s, CacheAt(l, m, t))
<1> DEFINE q == [i \in DOMAIN s |-> t[l.data[s[i]].str]]
           val == [d \in Docs |-> CHOOSE v \in Held(l, m, t, d) : TRUE]
<1>1. /\ \A i \in DOMAIN s :
           /\ s[i] \in Allocated(l)
           /\ [str |-> l.data[s[i]].str, node |-> s[i]] \in m
           /\ t[l.data[s[i]].str] \in Docs /\ l.data[s[i]].val \in Contents
      /\ \A e \in m : e.node \in Allocated(l) /\ l.data[e.node].str = e.str
      /\ \A e, f \in m : t[e.str] = t[f.str] => e = f
  <2>1. \A i \in DOMAIN s :
           /\ s[i] \in Allocated(l)
           /\ [str |-> l.data[s[i]].str, node |-> s[i]] \in m
           /\ t[l.data[s[i]].str] \in Docs /\ l.data[s[i]].val \in Contents
    BY KeysDiffer
  <2> QED BY <2>1 DEF Whole, OwnedBy
<1>2. CacheAt(l, m, t) = [order |-> q, val |-> val, cap |-> Capacity]
  <2>1. Walk(l.next, l.head) = s
    BY WalkForward DEF Visited, Whole, Lists
  <2> QED BY <2>1 DEF CacheAt, OrderOf
<1>3. q \in Seq(Docs) /\ Len(q) = Len(s) /\ DOMAIN s = 1 .. Len(s)
  <2>1. Len(s) \in Nat /\ DOMAIN s = 1 .. Len(s)
    BY DEF Lists
  <2>2. q \in [1 .. Len(s) -> Docs]
    BY <1>1, <2>1
  <2> HIDE DEF q
  <2> QED BY <2>1, <2>2
<1>4. ASSUME NEW i \in DOMAIN s
      PROVE  Held(l, m, t, q[i]) = {l.data[s[i]].val} /\ q[i] \in Docs
  <2> DEFINE e == [str |-> l.data[s[i]].str, node |-> s[i]]
  <2>1. e \in m /\ t[e.str] = q[i] /\ e.node = s[i] /\ q[i] \in Docs
    BY <1>1
  <2> HIDE DEF e, q
  <2>2. EntriesIn(m, t, q[i]) = {e}
    BY <1>1, <2>1 DEF EntriesIn
  <2> QED BY <2>1, <2>2 DEF Held
<1>5. ASSUME NEW d \in Docs, \A i \in DOMAIN s : q[i] # d
      PROVE  Held(l, m, t, d) = {None}
  <2>1. ASSUME NEW e \in m, t[e.str] = d PROVE FALSE
    <3>1. PICK i \in DOMAIN s : e.node = s[i]
      BY <1>1, PlaceInList
    <3>2. q[i] = d
      BY <1>1, <2>1, <3>1
    <3> QED BY <1>5, <3>2
  <2> QED BY <2>1 DEF Held, EntriesIn
<1> HIDE DEF q
<1>6. /\ \A i \in DOMAIN s : q[i] \in Docs /\ val[q[i]] = l.data[s[i]].val
      /\ \A d \in Docs : (\A i \in DOMAIN s : q[i] # d) => val[d] = None
  BY <1>4, <1>5
<1>7. val \in [Docs -> MaybeContent]
  <2>1. ASSUME NEW d \in Docs PROVE val[d] \in MaybeContent
    BY <1>1, <1>6 DEF MaybeContent
  <2> QED BY <2>1
<1> HIDE DEF val
<1>8. \A i \in DOMAIN s : q[i] = t[l.data[s[i]].str]
  BY DEF q
<1> QED BY <1>2, <1>3, <1>6, <1>7, <1>8 DEF Reads

(* It reads as no other. *)
LEMMA CacheReadOnce ==
  ASSUME NEW l, NEW t, NEW s, NEW b, NEW c, Reads(l, t, s, b), Reads(l, t, s, c),
         s \in Seq(Nodes)
  PROVE  b = c
<1>1. /\ b \in [order : Seq(Docs), val : [Docs -> MaybeContent], cap : {Capacity}]
      /\ c \in [order : Seq(Docs), val : [Docs -> MaybeContent], cap : {Capacity}]
  BY DEF Reads
<1>2. b.order = c.order
  <2>1. /\ b.order \in Seq(Docs) /\ c.order \in Seq(Docs)
        /\ Len(b.order) = Len(s) /\ Len(c.order) = Len(s)
        /\ \A i \in 1 .. Len(s) : b.order[i] = c.order[i]
    BY DEF Reads
  <2> QED BY <2>1, SeqEqual
<1>3. b.val = c.val
  <2>1. ASSUME NEW d \in Docs PROVE b.val[d] = c.val[d]
    <3>1. CASE \E i \in DOMAIN s : c.order[i] = d
      BY <1>2, <3>1 DEF Reads
    <3>2. CASE \A i \in DOMAIN s : c.order[i] # d
      BY <1>2, <3>2 DEF Reads
    <3> QED BY <3>1, <3>2
  <2> QED BY <1>1, <2>1
<1> QED BY <1>1, <1>2, <1>3
(* The sequence operators of LruCache are those of the list. *)
LEMMA RemoveAtIsWithout ==
  ASSUME NEW S, NEW q \in Seq(S), NEW i \in DOMAIN q
  PROVE  Abstract!RemoveAt(q, i) = Without(q, i)
<1> DEFINE a == SubSeq(q, 1, i - 1)
           b == SubSeq(q, i + 1, Len(q))
<1>1. /\ Len(q) \in Nat /\ i \in 1 .. Len(q) /\ DOMAIN q = 1 .. Len(q)
      /\ \A j \in 1 .. Len(q) : q[j] \in S
  BY LenProperties, ElementOfSeq
<1>2. a \in Seq(S) /\ Len(a) = i - 1 /\ \A j \in 1 .. i - 1 : a[j] = q[j]
  BY <1>1, SubSeqProperties
<1>3. /\ b \in Seq(S) /\ Len(b) = Len(q) - i
      /\ \A j \in 1 .. Len(q) - i : b[j] = q[i + j]
  BY <1>1, SubSeqProperties
<1>4. Abstract!RemoveAt(q, i) = a \o b
  BY DEF Abstract!RemoveAt
<1> HIDE DEF a, b
<1> DEFINE k == Len(q) - 1
<1>5. a \o b = [j \in 1 .. k |-> IF j <= i - 1 THEN a[j] ELSE b[j - (i - 1)]]
  <2>1. Len(a) + Len(b) = k /\ k \in Nat
    BY <1>1, <1>2, <1>3
  <2>2. /\ a \o b \in Seq(S) /\ Len(a \o b) = Len(a) + Len(b)
        /\ \A j \in 1 .. Len(a) + Len(b) :
             (a \o b)[j] = IF j <= Len(a) THEN a[j] ELSE b[j - Len(a)]
    BY <1>2, <1>3, ConcatProperties
  <2> HIDE DEF k
  <2> DEFINE x == a \o b
  <2>3. /\ x \in Seq(S) /\ Len(x) = k
        /\ \A j \in 1 .. k : x[j] = IF j <= i - 1 THEN a[j] ELSE b[j - (i - 1)]
    BY <1>2, <2>1, <2>2
  <2> HIDE DEF x
  <2>4. x = [j \in 1 .. k |-> x[j]]
    BY <2>1, <2>3
  <2>5. x = [j \in 1 .. k |-> IF j <= i - 1 THEN a[j] ELSE b[j - (i - 1)]]
    BY <2>3, <2>4
  <2> QED BY <2>5 DEF x
<1>6. ASSUME NEW j \in 1 .. k
      PROVE  (IF j <= i - 1 THEN a[j] ELSE b[j - (i - 1)])
               = (IF j < i THEN q[j] ELSE q[j + 1])
  <2>1. CASE j < i
    BY <1>1, <1>2, <2>1
  <2>2. CASE ~ (j < i)
    <3>1. j - (i - 1) \in 1 .. Len(q) - i /\ i + (j - (i - 1)) = j + 1 /\ ~ (j <= i - 1)
      BY <1>1, <2>2
    <3> QED BY <1>3, <2>2, <3>1
  <2> QED BY <2>1, <2>2
<1> QED BY <1>4, <1>5, <1>6 DEF Without

(* A key in front of the order                                             *)
LEMMA ConcatIsInFront ==
  ASSUME NEW S, NEW q \in Seq(S), NEW d \in S
  PROVE  <<d>> \o q = InFront(d, q)
<1>1. <<d>> \in Seq(S) /\ Len(<<d>>) = 1 /\ <<d>>[1] = d
  OBVIOUS
<1>2. Len(q) \in Nat
  OBVIOUS
<1> DEFINE k == Len(q) + 1
           x == <<d>> \o q
<1>3. k \in Nat /\ 1 + Len(q) = k /\ \A j \in 1 .. k : j <= 1 <=> j = 1
  BY <1>2
<1>4. /\ x \in Seq(S) /\ Len(x) = Len(<<d>>) + Len(q)
      /\ \A j \in 1 .. Len(<<d>>) + Len(q) :
           x[j] = IF j <= Len(<<d>>) THEN <<d>>[j] ELSE q[j - Len(<<d>>)]
  BY <1>1, ConcatProperties
<1> HIDE DEF x, k
<1>5. /\ x \in Seq(S) /\ Len(x) = k
      /\ \A j \in 1 .. k : x[j] = IF j = 1 THEN d ELSE q[j - 1]
  BY <1>1, <1>3, <1>4
<1>6. x = [j \in 1 .. k |-> x[j]]
  BY <1>3, <1>5
<1>7. x = [j \in 1 .. k |-> IF j = 1 THEN d ELSE q[j - 1]]
  BY <1>5, <1>6
<1> QED BY <1>7 DEF InFront, x, k

(* dll_remove_node, on the cache that is read: the node of a key is the    *)
(* place of the key in the order.                                          *)
LEMMA UnlinkIsWithout ==
  ASSUME NEW l, NEW m, NEW t, Whole(l, m, t), NEW s, Lists(l, s),
         NEW c, Reads(l, t, s, c), NEW i \in DOMAIN s
  PROVE  /\ Abstract!Unlink(c, c.order[i]) = Without(c.order, i)
         /\ i \in DOMAIN c.order /\ c.order[i] \in Docs
         /\ \A j, k \in DOMAIN c.order : c.order[j] = c.order[k] => j = k
         /\ Abstract!Cached(c, c.order[i])
<1>1. c.order \in Seq(Docs) /\ DOMAIN c.order = DOMAIN s
  BY DEF Reads, Lists
<1>2. \A j, k \in DOMAIN c.order : c.order[j] = c.order[k] => j = k
  BY <1>1, KeysDiffer DEF Reads
<1>3. (CHOOSE j \in DOMAIN c.order : c.order[j] = c.order[i]) = i
  BY <1>1, <1>2
<1>4. Abstract!Unlink(c, c.order[i]) = Without(c.order, i)
  BY <1>1, <1>3, RemoveAtIsWithout DEF Abstract!Unlink
<1>5. Abstract!Cached(c, c.order[i])
  <2>1. l.data[s[i]].val \in Contents
    BY KeysDiffer
  <2>2. c.val[c.order[i]] = l.data[s[i]].val
    BY DEF Reads
  <2> QED BY <2>1, <2>2, HeapAssumption DEF Abstract!Cached
<1> QED BY <1>1, <1>2, <1>4, <1>5

(* A key that no string of the map says is not in the cache. *)
LEMMA UnknownIsNotRead ==
  ASSUME NEW l, NEW m, NEW t, Whole(l, m, t), NEW s, Lists(l, s),
         NEW c, Reads(l, t, s, c), NEW d \in Docs, \A e \in m : t[e.str] # d
  PROVE  ~ Abstract!Cached(c, d)
<1>1. \A i \in DOMAIN s : [str |-> l.data[s[i]].str, node |-> s[i]] \in m
  BY KeysDiffer
<1>2. \A i \in DOMAIN s : t[l.data[s[i]].str] # d
  BY <1>1
<1> QED BY <1>2 DEF Reads, Abstract!Cached
(* Two sequences that lose their elements at the same place, or gain one   *)
(* in front, pair the elements that they paired.                           *)
LEMMA WithoutPairs ==
  ASSUME NEW s \in Seq(Nodes), NEW q \in Seq(Docs), Len(q) = Len(s),
         NEW i \in DOMAIN s
  PROVE  /\ DOMAIN Without(s, i) = 1 .. Len(s) - 1
         /\ Without(q, i) \in Seq(Docs) /\ Len(Without(q, i)) = Len(s) - 1
         /\ \A j \in DOMAIN Without(s, i) : \E x \in DOMAIN s :
              /\ x # i /\ Without(s, i)[j] = s[x] /\ Without(q, i)[j] = q[x]
         /\ \A x \in DOMAIN s :
              x # i => \E j \in DOMAIN Without(s, i) : Without(q, i)[j] = q[x]
<1> DEFINE k == Len(s) - 1
<1>1. /\ Len(s) \in Nat /\ DOMAIN s = 1 .. Len(s) /\ DOMAIN q = 1 .. Len(s)
      /\ i \in 1 .. Len(s) /\ k \in Nat /\ k + 1 = Len(s)
      /\ \A j \in 1 .. Len(s) : q[j] \in Docs
  OBVIOUS
<1>2. /\ Without(s, i) = [j \in 1 .. k |-> IF j < i THEN s[j] ELSE s[j + 1]]
      /\ Without(q, i) = [j \in 1 .. k |-> IF j < i THEN q[j] ELSE q[j + 1]]
  BY DEF Without
<1> HIDE DEF k
<1>3. Without(q, i) \in Seq(Docs) /\ Len(Without(q, i)) = k
  <2>1. ASSUME NEW j \in 1 .. k PROVE Without(q, i)[j] \in Docs
    BY <1>1, <1>2
  <2>2. Without(q, i) \in [1 .. k -> Docs]
    BY <1>2, <2>1
  <2> QED BY <1>1, <2>2
<1>4. ASSUME NEW j \in 1 .. k
      PROVE  \E x \in DOMAIN s :
               /\ x # i /\ Without(s, i)[j] = s[x] /\ Without(q, i)[j] = q[x]
  <2>1. CASE j < i
    <3>1. j \in DOMAIN s /\ j # i
      BY <1>1, <2>1
    <3> QED BY <1>2, <2>1, <3>1
  <2>2. CASE ~ (j < i)
    <3>1. j + 1 \in DOMAIN s /\ j + 1 # i
      BY <1>1, <2>2
    <3> QED BY <1>2, <2>2, <3>1
  <2> QED BY <2>1, <2>2
<1>5. ASSUME NEW x \in DOMAIN s, x # i
      PROVE  \E j \in 1 .. k : Without(q, i)[j] = q[x]
  <2>1. CASE x < i
    <3>1. x \in 1 .. k
      BY <1>1, <2>1
    <3> QED BY <1>2, <2>1, <3>1
  <2>2. CASE x > i
    <3>1. x - 1 \in 1 .. k /\ ~ (x - 1 < i) /\ x - 1 + 1 = x
      BY <1>1, <2>2
    <3> QED BY <1>2, <3>1
  <2> QED BY <1>1, <1>5, <2>1, <2>2
<1> QED BY <1>2, <1>3, <1>4, <1>5 DEF k

(* The pairs of two sequences with n and d put in front *)
PairsInFront(n, s, d, q) ==
  /\ DOMAIN InFront(n, s) = 1 .. Len(s) + 1 /\ Len(InFront(n, s)) = Len(s) + 1
  /\ InFront(d, q) \in Seq(Docs) /\ Len(InFront(d, q)) = Len(s) + 1
  /\ \A j \in DOMAIN InFront(n, s) :
       \/ InFront(n, s)[j] = n /\ InFront(d, q)[j] = d
       \/ \E x \in DOMAIN s : /\ InFront(n, s)[j] = s[x]
                              /\ InFront(d, q)[j] = q[x]
  /\ \E j \in DOMAIN InFront(n, s) : InFront(d, q)[j] = d
  /\ \A x \in DOMAIN s :
       \E j \in DOMAIN InFront(n, s) : InFront(d, q)[j] = q[x]

(* A node in front of a list, and its key in front of the order            *)
LEMMA InFrontPairs ==
  ASSUME NEW s \in Seq(Nodes), NEW q \in Seq(Docs), Len(q) = Len(s),
         NEW n \in Nodes, NEW d \in Docs
  PROVE  PairsInFront(n, s, d, q)
<1> DEFINE k == Len(s) + 1
<1>1. /\ Len(s) \in Nat /\ DOMAIN s = 1 .. Len(s) /\ DOMAIN q = 1 .. Len(s)
      /\ k \in Nat /\ k = Len(s) + 1
      /\ \A j \in 1 .. Len(s) : q[j] \in Docs
  OBVIOUS
<1>2. /\ InFront(n, s) = [j \in 1 .. k |-> IF j = 1 THEN n ELSE s[j - 1]]
      /\ InFront(d, q) = [j \in 1 .. k |-> IF j = 1 THEN d ELSE q[j - 1]]
  BY DEF InFront
<1> HIDE DEF k
<1>3. InFront(d, q) \in Seq(Docs) /\ Len(InFront(d, q)) = k
  <2>1. ASSUME NEW j \in 1 .. k PROVE InFront(d, q)[j] \in Docs
    BY <1>1, <1>2
  <2>2. InFront(d, q) \in [1 .. k -> Docs]
    BY <1>2, <2>1
  <2> QED BY <1>1, <2>2
<1>4. Len(InFront(n, s)) = k
  BY <1>1, <1>2
<1>5. ASSUME NEW j \in 1 .. k
      PROVE  \/ InFront(n, s)[j] = n /\ InFront(d, q)[j] = d
             \/ \E x \in DOMAIN s : /\ InFront(n, s)[j] = s[x]
                                    /\ InFront(d, q)[j] = q[x]
  <2>1. CASE j = 1
    BY <1>2, <2>1
  <2>2. CASE j # 1
    <3>1. j - 1 \in DOMAIN s
      BY <1>1, <2>2
    <3> QED BY <1>2, <2>2, <3>1
  <2> QED BY <2>1, <2>2
<1>6. 1 \in 1 .. k /\ InFront(d, q)[1] = d
  BY <1>1, <1>2
<1>7. ASSUME NEW x \in DOMAIN s
      PROVE  \E j \in 1 .. k : InFront(d, q)[j] = q[x]
  <2>1. x + 1 \in 1 .. k /\ x + 1 # 1 /\ x + 1 - 1 = x
    BY <1>1
  <2> QED BY <1>2, <2>1
<1> QED BY <1>2, <1>3, <1>4, <1>5, <1>6, <1>7 DEF k, PairsInFront

(* lru_cache_remove, on the cache that is read *)
LEMMA RemovedIsRead ==
  ASSUME NEW l, NEW m, NEW t, Whole(l, m, t), NEW s, Lists(l, s),
         NEW c, Reads(l, t, s, c), NEW i \in DOMAIN s, NEW k, NEW u,
         \A x \in Allocated(l) : x # s[i] => k.data[x] = l.data[x],
         \A p \in Strings : p # l.data[s[i]].str => u[p] = t[p]
  PROVE  Reads(k, u, Without(s, i), Abstract!CacheRemove(c, c.order[i]))
<1> DEFINE q == c.order
           d == c.order[i]
           b == Abstract!CacheRemove(c, d)
<1>1. /\ Abstract!Unlink(c, d) = Without(q, i) /\ Abstract!Cached(c, d)
      /\ d \in Docs /\ \A x \in DOMAIN s : q[x] = d => x = i
      /\ DOMAIN q = DOMAIN s
  <2>1. DOMAIN q = DOMAIN s
    BY DEF Reads, Lists
  <2> QED BY <2>1, UnlinkIsWithout
<1>2. /\ c \in [order : Seq(Docs), val : [Docs -> MaybeContent], cap : {Capacity}]
      /\ q \in Seq(Docs) /\ Len(q) = Len(s) /\ s \in Seq(Nodes)
  BY DEF Reads, Lists
<1>3. b = [c EXCEPT !.order = Without(q, i), !.val[d] = None]
  BY <1>1 DEF Abstract!CacheRemove
<1>4. /\ DOMAIN Without(s, i) = 1 .. Len(s) - 1
      /\ Without(q, i) \in Seq(Docs) /\ Len(Without(q, i)) = Len(s) - 1
      /\ \A j \in DOMAIN Without(s, i) : \E x \in DOMAIN s :
           /\ x # i /\ Without(s, i)[j] = s[x] /\ Without(q, i)[j] = q[x]
      /\ \A x \in DOMAIN s :
           x # i => \E j \in DOMAIN Without(s, i) : Without(q, i)[j] = q[x]
  <2>1. s \in Seq(Nodes) /\ q \in Seq(Docs) /\ Len(q) = Len(s)
    BY <1>2
  <2> HIDE DEF q
  <2> QED BY <2>1, WithoutPairs
<1>5. Len(Without(s, i)) = Len(s) - 1
  <2>1. \A x, y \in DOMAIN s : s[x] = s[y] => x = y
    BY DEF Lists, Represents
  <2> QED BY <1>2, <2>1, WithoutType
<1>6. \A x \in DOMAIN s : x # i =>
        /\ q[x] = u[k.data[s[x]].str] /\ c.val[q[x]] = k.data[s[x]].val
        /\ q[x] # d /\ q[x] \in Docs
  <2> SUFFICES ASSUME NEW x \in DOMAIN s, x # i
               PROVE  /\ q[x] = u[k.data[s[x]].str] /\ c.val[q[x]] = k.data[s[x]].val
                      /\ q[x] # d /\ q[x] \in Docs
    OBVIOUS
  <2>1. s[x] \in Allocated(l) /\ l.data[s[x]].str \in Strings
    BY KeysDiffer
  <2>2. /\ q[x] = t[l.data[s[x]].str] /\ c.val[q[x]] = l.data[s[x]].val
        /\ d = t[l.data[s[i]].str]
    BY DEF Reads
  <2>3. q[x] # d
    BY <1>1
  <2>4. l.data[s[x]].str # l.data[s[i]].str /\ s[x] # s[i]
    BY <2>2, <2>3
  <2>5. k.data[s[x]] = l.data[s[x]] /\ u[l.data[s[x]].str] = t[l.data[s[x]].str]
    BY <2>1, <2>4
  <2>6. q[x] \in Docs
    BY <1>1, <1>2
  <2> QED BY <2>2, <2>3, <2>5, <2>6
<1> HIDE DEF q, d, b
<1>7. b.val = [c.val EXCEPT ![d] = None] /\ b.order = Without(q, i)
  BY <1>2, <1>3
<1>8. b \in [order : Seq(Docs), val : [Docs -> MaybeContent], cap : {Capacity}]
  BY <1>2, <1>3, <1>4 DEF MaybeContent
<1>9. \A x \in Docs : b.val[x] = IF x = d THEN None ELSE c.val[x]
  BY <1>2, <1>7
<1>10. \A j \in DOMAIN Without(s, i) :
         /\ b.order[j] = u[k.data[Without(s, i)[j]].str]
         /\ b.val[b.order[j]] = k.data[Without(s, i)[j]].val
  <2> TAKE j \in DOMAIN Without(s, i)
  <2>1. PICK x \in DOMAIN s :
          /\ x # i /\ Without(s, i)[j] = s[x] /\ Without(q, i)[j] = q[x]
    BY <1>4
  <2> QED BY <1>6, <1>7, <1>9, <2>1
<1>11. \A x \in Docs : b.val[x] = None \/ \E j \in DOMAIN Without(s, i) : b.order[j] = x
  <2> SUFFICES ASSUME NEW x \in Docs, b.val[x] # None
               PROVE  \E j \in DOMAIN Without(s, i) : b.order[j] = x
    OBVIOUS
  <2>1. x # d /\ c.val[x] # None
    BY <1>9
  <2>2. PICK y \in DOMAIN s : q[y] = x
    BY <2>1 DEF Reads, q
  <2>3. y # i
    BY <2>1, <2>2 DEF q, d
  <2> QED BY <1>4, <1>7, <2>2, <2>3
<1>12. Reads(k, u, Without(s, i), b)
  BY <1>4, <1>5, <1>7, <1>8, <1>10, <1>11 DEF Reads
<1> QED BY <1>12 DEF b, d

(* The cache with a new key in front *)
WithFirst(c, d, v) == [c EXCEPT !.order = <<d>> \o c.order, !.val[d] = v]

(* List k and texts u have the pair (d, v) in node n, which cache c has    *)
(* not, and the pairs of the nodes of s as in list l and texts t           *)
Adds(l, t, s, c, k, u, n, d, v) ==
  /\ u[k.data[n].str] = d
  /\ k.data[n].val = v
  /\ \A i \in DOMAIN s : /\ c.order[i] # d
                         /\ k.data[s[i]] = l.data[s[i]]
                         /\ u[l.data[s[i]].str] = t[l.data[s[i]].str]

(* The new pair is read first, the others as before.                       *)
LEMMA AddedIsRead ==
  ASSUME NEW l, NEW t, NEW s \in Seq(Nodes), NEW c, Reads(l, t, s, c),
         NEW d \in Docs, NEW v \in Contents, NEW n \in Nodes, NEW k, NEW u,
         Adds(l, t, s, c, k, u, n, d, v)
  PROVE  Reads(k, u, InFront(n, s), WithFirst(c, d, v))
<1> USE DEF Adds
<1> DEFINE q == c.order
           b == WithFirst(c, d, v)
<1>1. /\ c \in [order : Seq(Docs), val : [Docs -> MaybeContent], cap : {Capacity}]
      /\ q \in Seq(Docs) /\ Len(q) = Len(s)
  BY DEF Reads
<1>2. b = [c EXCEPT !.order = InFront(d, q), !.val[d] = v]
  <2>1. q \in Seq(Docs)
    BY <1>1
  <2>2. <<d>> \o q = InFront(d, q)
    <3> HIDE DEF q
    <3> QED BY <2>1, ConcatIsInFront
  <2> QED BY <2>2 DEF WithFirst
<1>3. /\ DOMAIN InFront(n, s) = 1 .. Len(s) + 1 /\ Len(InFront(n, s)) = Len(s) + 1
      /\ InFront(d, q) \in Seq(Docs) /\ Len(InFront(d, q)) = Len(s) + 1
      /\ \A j \in DOMAIN InFront(n, s) :
           \/ InFront(n, s)[j] = n /\ InFront(d, q)[j] = d
           \/ \E x \in DOMAIN s : /\ InFront(n, s)[j] = s[x]
                                  /\ InFront(d, q)[j] = q[x]
      /\ \E j \in DOMAIN InFront(n, s) : InFront(d, q)[j] = d
      /\ \A x \in DOMAIN s :
           \E j \in DOMAIN InFront(n, s) : InFront(d, q)[j] = q[x]
  <2>1. s \in Seq(Nodes) /\ q \in Seq(Docs) /\ Len(q) = Len(s)
    BY <1>1
  <2>2. PairsInFront(n, s, d, q)
    <3> HIDE DEF q
    <3> QED BY <2>1, InFrontPairs
  <2> QED BY <2>2 DEF PairsInFront
<1>4. \A x \in DOMAIN s :
        /\ q[x] = u[k.data[s[x]].str] /\ c.val[q[x]] = k.data[s[x]].val
        /\ q[x] # d /\ q[x] \in Docs
  <2>1. \A x \in DOMAIN s : q[x] = t[l.data[s[x]].str] /\ c.val[q[x]] = l.data[s[x]].val
    BY DEF Reads
  <2>2. \A x \in DOMAIN s : q[x] \in Docs
    BY <1>1
  <2> QED BY <2>1, <2>2
<1> HIDE DEF q, b
<1>5. b.val = [c.val EXCEPT ![d] = v] /\ b.order = InFront(d, q)
  BY <1>1, <1>2
<1>6. b \in [order : Seq(Docs), val : [Docs -> MaybeContent], cap : {Capacity}]
  BY <1>1, <1>2, <1>3 DEF MaybeContent
<1>7. \A x \in Docs : b.val[x] = IF x = d THEN v ELSE c.val[x]
  BY <1>1, <1>5
<1>8. \A j \in DOMAIN InFront(n, s) :
        /\ b.order[j] = u[k.data[InFront(n, s)[j]].str]
        /\ b.val[b.order[j]] = k.data[InFront(n, s)[j]].val
  <2> TAKE j \in DOMAIN InFront(n, s)
  <2>1. CASE InFront(n, s)[j] = n /\ InFront(d, q)[j] = d
    BY <1>5, <1>7, <2>1
  <2>2. CASE \E x \in DOMAIN s : InFront(n, s)[j] = s[x] /\ InFront(d, q)[j] = q[x]
    BY <1>4, <1>5, <1>7, <2>2
  <2> QED BY <1>3, <2>1, <2>2
<1>9. \A x \in Docs : b.val[x] = None \/ \E j \in DOMAIN InFront(n, s) : b.order[j] = x
  <2> SUFFICES ASSUME NEW x \in Docs, b.val[x] # None
               PROVE  \E j \in DOMAIN InFront(n, s) : b.order[j] = x
    OBVIOUS
  <2>1. CASE x = d
    BY <1>3, <1>5, <2>1
  <2>2. CASE x # d
    <3>1. PICK y \in DOMAIN s : q[y] = x
      BY <1>7, <2>2 DEF Reads, q
    <3> QED BY <1>3, <1>5, <3>1
  <2> QED BY <2>1, <2>2
<1>10. Reads(k, u, InFront(n, s), b)
  BY <1>3, <1>5, <1>6, <1>8, <1>9 DEF Reads
<1> QED BY <1>10 DEF b
(* The cache with a key put first that takes a new value *)
Promoted(c, d, v) == [Abstract!Promote(c, d) EXCEPT !.val[d] = v]

(* List k has the pairs of list l, that of node n with value v *)
Renews(l, k, n, v) ==
  /\ \A x \in Allocated(l) : x # n => k.data[x] = l.data[x]
  /\ k.data[n].str = l.data[n].str
  /\ k.data[n].val = v

(* The pair is taken out, as lru_cache_remove does, and put back first.    *)
LEMMA PromotedIsRead ==
  ASSUME NEW l, NEW m, NEW t, Whole(l, m, t), NEW s, Lists(l, s),
         NEW c, Reads(l, t, s, c), NEW i \in DOMAIN s, NEW v \in Contents, NEW k,
         Renews(l, k, s[i], v)
  PROVE  Reads(k, t, InFront(s[i], Without(s, i)), Promoted(c, c.order[i], v))
<1> USE DEF Renews
<1> DEFINE q == c.order
           d == c.order[i]
           r == Without(s, i)
           b == Abstract!CacheRemove(c, d)
<1>1. /\ Abstract!Unlink(c, d) = Without(q, i) /\ Abstract!Cached(c, d)
      /\ d \in Docs /\ \A x \in DOMAIN s : q[x] = d => x = i
  <2>1. DOMAIN q = DOMAIN s
    BY DEF Reads, Lists
  <2> QED BY <2>1, UnlinkIsWithout
<1>2. /\ c \in [order : Seq(Docs), val : [Docs -> MaybeContent], cap : {Capacity}]
      /\ q \in Seq(Docs) /\ Len(q) = Len(s) /\ s \in Seq(Nodes)
  BY DEF Reads, Lists
<1>3. \A x, y \in DOMAIN s : s[x] = s[y] => x = y
  BY DEF Lists, Represents
<1>4. r \in Seq(Nodes) /\ s[i] \in Nodes
  BY <1>2, <1>3, WithoutType
<1>5. /\ \A j \in DOMAIN r : \E x \in DOMAIN s :
           /\ x # i /\ r[j] = s[x] /\ Without(q, i)[j] = q[x]
  <2>1. s \in Seq(Nodes) /\ q \in Seq(Docs) /\ Len(q) = Len(s)
    BY <1>2
  <2> HIDE DEF q
  <2> QED BY <2>1, WithoutPairs
<1>6. Reads(l, t, r, b)
  BY RemovedIsRead
<1>7. b = [c EXCEPT !.order = Without(q, i), !.val[d] = None]
  BY <1>1 DEF Abstract!CacheRemove
<1>8. b.order = Without(q, i)
  <2> HIDE DEF q, b, d
  <2> QED BY <1>2, <1>7
<1>9. \A j \in DOMAIN r : /\ b.order[j] # d
                          /\ k.data[r[j]] = l.data[r[j]]
  <2> SUFFICES ASSUME NEW j \in DOMAIN r
               PROVE  b.order[j] # d /\ k.data[r[j]] = l.data[r[j]]
    OBVIOUS
  <2>1. PICK x \in DOMAIN s : x # i /\ r[j] = s[x] /\ Without(q, i)[j] = q[x]
    BY <1>5
  <2>2. s[x] # s[i] /\ s[x] \in Allocated(l)
    BY <1>3, <2>1, KeysDiffer
  <2>3. q[x] # d
    BY <1>1, <2>1
  <2> HIDE DEF b, q, d, r
  <2> QED BY <1>8, <2>1, <2>2, <2>3
<1>10. t[k.data[s[i]].str] = d
  BY DEF Reads
<1> HIDE DEF r, b, d
<1>11. Reads(k, t, InFront(s[i], r), WithFirst(b, d, v))
  <2>1. Adds(l, t, r, b, k, t, s[i], d, v)
    BY <1>9, <1>10 DEF Adds
  <2>2. d \in Docs
    BY <1>1
  <2> QED BY <1>4, <1>6, <2>1, <2>2, AddedIsRead
<1>12. Abstract!Promote(c, d) = [c EXCEPT !.order = <<d>> \o Without(q, i)]
  BY <1>1 DEF Abstract!Promote
<1>13. WithFirst(b, d, v) = Promoted(c, d, v)
  <2> HIDE DEF q
  <2> QED BY <1>2, <1>7, <1>8, <1>12 DEF WithFirst, Promoted
<1> QED BY <1>11, <1>13 DEF r, d

(* The cache of the refinement mapping *)
LEMMA StandsFor ==
  /\ [order |-> Order, val |-> [d \in Docs |-> CHOOSE v \in Mapped(d) : TRUE],
      cap |-> Capacity] = CacheAt(dll, map, text)
  /\ [order |-> Order', val |-> [d \in Docs |-> CHOOSE v \in Mapped(d)' : TRUE],
      cap |-> Capacity] = CacheAt(dll', map', text')
<1>1. \A d \in Docs : Mapped(d) = Held(dll, map, text, d)
  BY DEF Mapped, Held, Known, Entries, EntriesIn
<1>2. \A d \in Docs : Mapped(d)' = Held(dll', map', text', d)
  BY DEF Mapped, Held, Known, Entries, EntriesIn
<1>3. Order = OrderOf(dll, text)
  BY DEF Order, OrderOf
<1>4. Order' = OrderOf(dll', text')
  BY DEF Order, OrderOf
<1> DEFINE A(d) == CHOOSE v \in Mapped(d) : TRUE
           B(d) == CHOOSE v \in Held(dll, map, text, d) : TRUE
           C(d) == CHOOSE v \in Mapped(d)' : TRUE
           D(d) == CHOOSE v \in Held(dll', map', text', d) : TRUE
<1>5. ASSUME NEW d \in Docs PROVE A(d) = B(d)
  <2>1. Mapped(d) = Held(dll, map, text, d)
    BY <1>1
  <2> QED BY <2>1, Zenon
<1>6. ASSUME NEW d \in Docs PROVE C(d) = D(d)
  <2>1. Mapped(d)' = Held(dll', map', text', d)
    BY <1>2
  <2> QED BY <2>1, Zenon
<1> HIDE DEF A, B, C, D
<1>7. [d \in Docs |-> A(d)] = [d \in Docs |-> B(d)]
  BY <1>5
<1>8. [d \in Docs |-> C(d)] = [d \in Docs |-> D(d)]
  BY <1>6
<1> QED BY <1>3, <1>4, <1>7, <1>8, Zenon DEF CacheAt, A, B, C, D

(* lru_cache_get, as a step of the abstract cache                          *)
LEMMA IsGet ==
  ASSUME NEW c, c = CacheAt(dll, map, text), NEW d,
         CacheAt(dll', map', text') = Abstract!CacheGet(c, d),
         last' = Call("get", d, c.val[d], Abstract!Cached(c, d), None)
  PROVE  Abstract!Get(d)
BY StandsFor DEF Abstract!Get, Abstract!Call, Call

(* lru_cache_remove, as a step of the abstract cache                       *)
LEMMA IsDrop ==
  ASSUME NEW c, c = CacheAt(dll, map, text), NEW d,
         CacheAt(dll', map', text') = Abstract!CacheRemove(c, d),
         last' = Call("remove", d, None, Abstract!Cached(c, d), None)
  PROVE  Abstract!Drop(d)
BY StandsFor DEF Abstract!Drop, Abstract!Call, Call

(* lru_cache_put, as a step of the abstract cache                          *)
LEMMA IsPut ==
  ASSUME NEW c, c = CacheAt(dll, map, text), NEW d, NEW v,
         CacheAt(dll', map', text') = Abstract!CachePut(c, d, v),
         last' = Call("put", d, v, Abstract!Cached(c, d),
                      IF Abstract!Cached(c, d) \/ ~ Abstract!CacheFull(c)
                        THEN None ELSE Abstract!Last(c.order))
  PROVE  Abstract!Put(d, v)
BY StandsFor DEF Abstract!Put, Abstract!Call, Call
(* A cache that the list is read as after a step is the one it stands for. *)
LEMMA ReadNext ==
  ASSUME Whole(dll', map', text'), NEW s, Lists(dll', s),
         NEW b, Reads(dll', text', s, b)
  PROVE  CacheAt(dll', map', text') = b
<1>1. Reads(dll', text', s, CacheAt(dll', map', text'))
  BY CacheIsRead
<1>2. s \in Seq(Nodes)
  BY DEF Lists
<1> QED BY <1>1, <1>2, CacheReadOnce

(* lru_cache_get finds, promotes and answers what the cache does. *)
LEMMA GetHitRefines ==
  ASSUME HeapSound, HeapSound', NEW d \in Docs, GetHit(d)
  PROVE  Abstract!Get(d)
<1> DEFINE c == CacheAt(dll, map, text)
<1>1. PICK s : Lists(dll, s) /\ \E i \in DOMAIN s :
           /\ text[dll.data[s[i]].str] = d /\ dll.data[s[i]].val \in Contents
           /\ dll' \in DllType /\ dll'.size = dll.size /\ dll'.data = dll.data
           /\ Lists(dll', InFront(s[i], Without(s, i)))
           /\ last' = Call("get", d, dll.data[s[i]].val, TRUE, None)
  BY GetHitMoves
<1>2. PICK i \in DOMAIN s :
           /\ text[dll.data[s[i]].str] = d /\ dll.data[s[i]].val \in Contents
           /\ dll'.data = dll.data
           /\ Lists(dll', InFront(s[i], Without(s, i)))
           /\ last' = Call("get", d, dll.data[s[i]].val, TRUE, None)
  BY <1>1
<1>3. Whole(dll, map, text) /\ Whole(dll', map', text') /\ text' = text
  BY HeapSoundParts, HeapSoundPartsNext DEF GetHit
<1>4. Reads(dll, text, s, c)
  BY <1>1, <1>3, CacheIsRead
<1> HIDE DEF c
<1>5. /\ c.order[i] = d /\ c.val[d] = dll.data[s[i]].val
      /\ c.val \in [Docs -> MaybeContent]
      /\ c = [order |-> c.order, val |-> c.val, cap |-> c.cap]
  BY <1>2, <1>4 DEF Reads
<1>6. Abstract!Cached(c, d)
  BY <1>1, <1>3, <1>4, <1>5, UnlinkIsWithout
<1>7. Reads(dll', text', InFront(s[i], Without(s, i)),
            Promoted(c, d, dll.data[s[i]].val))
  <2>1. Lists(dll, s) /\ Whole(dll, map, text) /\ text' = text
    BY <1>1, <1>3
  <2>2. Renews(dll, dll', s[i], dll.data[s[i]].val) /\ dll.data[s[i]].val \in Contents
    BY <1>2 DEF Renews
  <2>3. Reads(dll', text, InFront(s[i], Without(s, i)),
              Promoted(c, c.order[i], dll.data[s[i]].val))
    BY <1>4, <2>1, <2>2, PromotedIsRead
  <2> QED BY <1>5, <2>1, <2>3
<1>8. CacheAt(dll', map', text')
        = Promoted(c, d, dll.data[s[i]].val)
  BY <1>2, <1>3, <1>7, ReadNext
<1>9. Promoted(c, d, dll.data[s[i]].val) = Abstract!Promote(c, d)
  BY <1>5 DEF Abstract!Promote, Promoted
<1>10. CacheAt(dll', map', text') = Abstract!CacheGet(c, d)
  BY <1>6, <1>8, <1>9 DEF Abstract!CacheGet
<1>11. last' = Call("get", d, c.val[d], Abstract!Cached(c, d), None)
  <2>1. Abstract!Cached(c, d) = TRUE
    BY <1>6 DEF Abstract!Cached
  <2> QED BY <1>2, <1>5, <2>1
<1> QED BY <1>10, <1>11, IsGet DEF c
(* lru_cache_put of a key the map has promotes it with the new value. *)
LEMMA PutKnownRefines ==
  ASSUME HeapSound, HeapSound', NEW d \in Docs, NEW v \in Contents, PutKnown(d, v)
  PROVE  Abstract!Put(d, v)
<1> DEFINE c == CacheAt(dll, map, text)
<1>1. PICK s : Lists(dll, s) /\ \E i \in DOMAIN s :
           /\ text[dll.data[s[i]].str] = d
           /\ dll' \in DllType /\ dll'.size = dll.size
           /\ dll'.data = [dll.data EXCEPT ![s[i]] =
                             [str |-> dll.data[s[i]].str, val |-> v]]
           /\ Lists(dll', InFront(s[i], Without(s, i)))
  BY PutKnownMoves
<1>2. PICK i \in DOMAIN s :
           /\ text[dll.data[s[i]].str] = d
           /\ dll'.data = [dll.data EXCEPT ![s[i]] =
                             [str |-> dll.data[s[i]].str, val |-> v]]
           /\ Lists(dll', InFront(s[i], Without(s, i)))
  BY <1>1
<1>3. /\ Whole(dll, map, text) /\ Whole(dll', map', text') /\ text' = text
      /\ last' = Call("put", d, v, TRUE, None)
  BY HeapSoundParts, HeapSoundPartsNext DEF PutKnown
<1>4. Reads(dll, text, s, c)
  BY <1>1, <1>3, CacheIsRead
<1> HIDE DEF c
<1>5. c.order[i] = d
  BY <1>2, <1>4 DEF Reads
<1>6. Abstract!Cached(c, d)
  BY <1>1, <1>3, <1>4, <1>5, UnlinkIsWithout
<1>7. Renews(dll, dll', s[i], v)
  <2>1. dll.data \in [Nodes -> Data \union {Garbage}] /\ s[i] \in Nodes
    BY <1>1, <1>3 DEF Whole, DllType, Lists
  <2> QED BY <1>2, <2>1 DEF Allocated, Renews
<1>8. Reads(dll', text', InFront(s[i], Without(s, i)), Promoted(c, d, v))
  <2>1. Lists(dll, s) /\ Whole(dll, map, text) /\ text' = text
    BY <1>1, <1>3
  <2>2. Reads(dll', text, InFront(s[i], Without(s, i)), Promoted(c, c.order[i], v))
    BY <1>4, <1>7, <2>1, PromotedIsRead
  <2> QED BY <1>5, <2>1, <2>2
<1>9. CacheAt(dll', map', text') = Promoted(c, d, v)
  BY <1>2, <1>3, <1>8, ReadNext
<1>10. CacheAt(dll', map', text') = Abstract!CachePut(c, d, v)
  BY <1>6, <1>9 DEF Abstract!CachePut, Promoted
<1>11. last' = Call("put", d, v, Abstract!Cached(c, d),
                    IF Abstract!Cached(c, d) \/ ~ Abstract!CacheFull(c)
                      THEN None ELSE Abstract!Last(c.order))
  <2>1. Abstract!Cached(c, d) = TRUE
    BY <1>6 DEF Abstract!Cached
  <2> QED BY <1>3, <2>1
<1> QED BY <1>10, <1>11, IsPut DEF c

(* The pair of a new key, on the cache that is read *)
LEMMA NewKeyIsRead ==
  ASSUME NEW l, NEW m, NEW t, Whole(l, m, t), NEW s, Lists(l, s),
         NEW c, Reads(l, t, s, c), NEW d \in Docs, \A e \in m : t[e.str] # d,
         NEW v \in Contents, NEW p \in Strings, t[p] = None,
         NEW n \in Nodes \ Allocated(l), NEW k,
         k.data = [l.data EXCEPT ![n] = [str |-> p, val |-> v]]
  PROVE  Reads(k, [t EXCEPT ![p] = d], InFront(n, s), WithFirst(c, d, v))
<1> DEFINE u == [t EXCEPT ![p] = d]
<1>1. /\ l.data \in [Nodes -> Data \union {Garbage}] /\ n \in Nodes
      /\ t \in [Strings -> Docs \union {None}] /\ s \in Seq(Nodes)
  BY DEF Whole, DllType, Lists
<1>2. \A i \in DOMAIN s :
        /\ s[i] \in Allocated(l) /\ l.data[s[i]].str \in Strings
        /\ [str |-> l.data[s[i]].str, node |-> s[i]] \in m
        /\ t[l.data[s[i]].str] \in Docs
  BY KeysDiffer
<1>3. k.data[n].str = p /\ k.data[n].val = v /\ u[k.data[n].str] = d
  BY <1>1
<1>4. \A i \in DOMAIN s : k.data[s[i]] = l.data[s[i]]
  <2> TAKE i \in DOMAIN s
  <2>1. s[i] \in Nodes /\ s[i] # n
    BY <1>2 DEF Allocated
  <2> QED BY <1>1, <2>1
<1>5. \A i \in DOMAIN s : u[l.data[s[i]].str] = t[l.data[s[i]].str]
  <2> TAKE i \in DOMAIN s
  <2>1. l.data[s[i]].str # p
    BY <1>2, HeapAssumption
  <2> QED BY <1>1, <1>2, <2>1
<1>6. \A i \in DOMAIN s : c.order[i] # d
  <2> TAKE i \in DOMAIN s
  <2> DEFINE e == [str |-> l.data[s[i]].str, node |-> s[i]]
  <2>1. e \in m /\ t[e.str] # d
    BY <1>2
  <2>2. c.order[i] = t[e.str]
    BY DEF Reads
  <2> QED BY <2>1, <2>2
<1> HIDE DEF u
<1>7. Adds(l, t, s, c, k, u, n, d, v)
  BY <1>3, <1>4, <1>5, <1>6 DEF Adds
<1>8. s \in Seq(Nodes) /\ n \in Nodes
  BY <1>1
<1>9. Reads(k, u, InFront(n, s), WithFirst(c, d, v))
  BY <1>7, <1>8, AddedIsRead
<1> QED BY <1>9 DEF u

(* The list is full when the cache is, and its tail carries the last key.  *)
LEMMA FullIsRead ==
  ASSUME NEW t, NEW s, Lists(dll, s), NEW c, Reads(dll, t, s, c)
  PROVE  /\ Abstract!CacheFull(c) <=> Full
         /\ Full => Abstract!Last(c.order) = t[dll.data[dll.tail].str]
<1>1. /\ s \in Seq(Nodes) /\ dll.size = Len(s) /\ Len(c.order) = Len(s)
      /\ c.cap = Capacity
      /\ \A i \in DOMAIN s : c.order[i] = t[dll.data[s[i]].str]
      /\ dll.tail = IF s = << >> THEN Null ELSE s[Len(s)]
  BY DEF Reads, Lists, Represents
<1>2. Abstract!CacheFull(c) <=> Full
  BY <1>1 DEF Abstract!CacheFull, Full
<1>3. ASSUME Full PROVE Abstract!Last(c.order) = t[dll.data[dll.tail].str]
  <2>1. Len(s) # 0
    BY <1>1, <1>3, HeapAssumption DEF Full
  <2>2. s # << >> /\ Len(s) \in DOMAIN s
    BY <1>1, <2>1
  <2> QED BY <1>1, <2>2 DEF Abstract!Last
<1> QED BY <1>2, <1>3

(* lru_cache_put of a new key while there is room *)
LEMMA PutNewRefines ==
  ASSUME HeapSound, HeapSound', NEW d \in Docs, NEW v \in Contents, PutNew(d, v)
  PROVE  Abstract!Put(d, v)
<1> DEFINE c == CacheAt(dll, map, text)
<1>0. PICK s, p, n : Inserts(d, v, s, p, n)
  BY PutNewInserts
<1>1. /\ Lists(dll, s)
      /\ p \in Strings /\ text[p] = None /\ n \in Nodes \ Allocated(dll)
      /\ \A e \in map : text[e.str] # d
      /\ dll' \in DllType /\ dll'.size = dll.size + 1
      /\ dll'.data = [dll.data EXCEPT ![n] = [str |-> p, val |-> v]]
      /\ Lists(dll', InFront(n, s))
      /\ map' = map \union {[str |-> p, node |-> n]}
      /\ text' = [text EXCEPT ![p] = d]
  BY <1>0 DEF Inserts
<1>2. /\ Whole(dll, map, text) /\ Whole(dll', map', text') /\ ~ Full
      /\ last' = Call("put", d, v, FALSE, None)
  BY HeapSoundParts, HeapSoundPartsNext DEF PutNew
<1>3. Reads(dll, text, s, c)
  BY <1>1, <1>2, CacheIsRead
<1> HIDE DEF c
<1>4. Reads(dll', text', InFront(n, s), WithFirst(c, d, v))
  BY <1>1, <1>2, <1>3, NewKeyIsRead
<1>5. CacheAt(dll', map', text') = WithFirst(c, d, v)
  BY <1>1, <1>2, <1>4, ReadNext
<1>6. ~ Abstract!Cached(c, d) /\ ~ Abstract!CacheFull(c)
  BY <1>1, <1>2, <1>3, UnknownIsNotRead, FullIsRead
<1>7. CacheAt(dll', map', text') = Abstract!CachePut(c, d, v)
  BY <1>5, <1>6 DEF Abstract!CachePut, Abstract!MakeRoom, WithFirst
<1>8. last' = Call("put", d, v, Abstract!Cached(c, d),
                   IF Abstract!Cached(c, d) \/ ~ Abstract!CacheFull(c)
                     THEN None ELSE Abstract!Last(c.order))
  <2>1. Abstract!Cached(c, d) = FALSE
    BY <1>6 DEF Abstract!Cached
  <2> QED BY <1>2, <1>6, <2>1
<1> QED BY <1>7, <1>8, IsPut DEF c

(* What lru_cache_remove leaves, on the cache that is read *)
LEMMA RemovalIsRead ==
  ASSUME Whole(dll, map, text), NEW e \in map, NEW s, Lists(dll, s),
         NEW i \in DOMAIN s, s[i] = e.node, NEW c, Reads(dll, text, s, c)
  PROVE  /\ c.order[i] = text[e.str]
         /\ Lists(ListWithout(e), Without(s, i))
         /\ Reads(ListWithout(e), StringsWithout(e), Without(s, i),
                  Abstract!CacheRemove(c, text[e.str]))
<1>1. dll.data[e.node].str = e.str /\ e.str \in Strings /\ e.node \in Nodes
  BY EntryLeadsToPair
<1>2. c.order[i] = text[e.str]
  BY <1>1 DEF Reads
<1>3. /\ Lists(ListWithout(e), Without(s, i))
      /\ ListWithout(e).data = [dll.data EXCEPT ![e.node] = Garbage]
  BY RemovalShortens
<1>4. StringsWithout(e) = [text EXCEPT ![e.str] = None]
  BY RemovalSound
<1>5. \A x \in Allocated(dll) : x # s[i] => ListWithout(e).data[x] = dll.data[x]
  BY <1>3 DEF Whole, DllType, Allocated
<1>6. \A p \in Strings : p # dll.data[s[i]].str => StringsWithout(e)[p] = text[p]
  BY <1>1, <1>4 DEF Whole
<1>7. Reads(ListWithout(e), StringsWithout(e), Without(s, i),
            Abstract!CacheRemove(c, c.order[i]))
  BY <1>5, <1>6, RemovedIsRead
<1> QED BY <1>2, <1>3, <1>7

(* lru_cache_remove *)
LEMMA RemoveKnownRefines ==
  ASSUME HeapSound, HeapSound', NEW d \in Docs, RemoveKnown(d)
  PROVE  Abstract!Drop(d)
<1> DEFINE c == CacheAt(dll, map, text)
<1>1. PICK e \in Entries(map, d) :
         /\ map' = map \ {e}
         /\ dll' = ListWithout(e)
         /\ text' = StringsWithout(e)
         /\ last' = Call("remove", d, None, TRUE, None)
  BY DEF RemoveKnown
<1>2. Whole(dll, map, text) /\ Whole(dll', map', text') /\ e \in map /\ text[e.str] = d
  BY HeapSoundParts, HeapSoundPartsNext DEF Entries
<1>3. PICK s : Lists(dll, s) /\ \E i \in DOMAIN s : s[i] = e.node
  BY <1>2, EntryHasPlace
<1>4. PICK i \in DOMAIN s : s[i] = e.node
  BY <1>3
<1>5. Reads(dll, text, s, c)
  BY <1>2, <1>3, CacheIsRead
<1> HIDE DEF c
<1>6. /\ c.order[i] = d /\ Lists(dll', Without(s, i))
      /\ Reads(dll', text', Without(s, i), Abstract!CacheRemove(c, d))
  BY <1>1, <1>2, <1>3, <1>4, <1>5, RemovalIsRead
<1>7. CacheAt(dll', map', text') = Abstract!CacheRemove(c, d)
  BY <1>2, <1>6, ReadNext
<1>8. Abstract!Cached(c, d) = TRUE
  BY <1>2, <1>3, <1>5, <1>6, UnlinkIsWithout DEF Abstract!Cached
<1> QED BY <1>1, <1>7, <1>8, IsDrop DEF c
(* lru_cache_put of a new key into a full cache evicts the key that the    *)
(* cache does, and then inserts as it does.                                *)
LEMMA PutEvictingRefines ==
  ASSUME HeapSound, HeapSound', NEW d \in Docs, NEW v \in Contents, PutEvicting(d, v)
  PROVE  Abstract!Put(d, v)
<1> DEFINE c == CacheAt(dll, map, text)
           victim == text[dll.data[dll.tail].str]
           r == Abstract!CacheRemove(c, victim)
<1>1. PICK e \in Entries(map, victim), p \in Strings \ Live :
        \E n \in (Nodes \ Allocated(dll)) \union {e.node} :
          /\ dll' = DllInsertNthNode(ListWithout(e), 0, [str |-> p, val |-> v], n)
          /\ text' = [StringsWithout(e) EXCEPT ![p] = d]
          /\ last' = Call("put", d, v, FALSE, victim)
  BY DEF PutEvicting
<1>2. PICK n \in (Nodes \ Allocated(dll)) \union {e.node} :
          /\ dll' = DllInsertNthNode(ListWithout(e), 0, [str |-> p, val |-> v], n)
          /\ text' = [StringsWithout(e) EXCEPT ![p] = d]
          /\ last' = Call("put", d, v, FALSE, victim)
  BY <1>1
<1>3. /\ Whole(dll, map, text) /\ Whole(dll', map', text') /\ Full
      /\ e \in map /\ text[e.str] = victim
      /\ \A f \in map : text[f.str] # d
  BY HeapSoundParts, HeapSoundPartsNext DEF Entries, PutEvicting, Known
<1>4. PICK s : Lists(dll, s) /\ \E i \in DOMAIN s : s[i] = e.node
  BY <1>3, EntryHasPlace
<1>5. PICK i \in DOMAIN s : s[i] = e.node
  BY <1>4
<1>6. Reads(dll, text, s, c)
  BY <1>3, <1>4, CacheIsRead
<1>7. ~ Abstract!Cached(c, d) /\ Abstract!CacheFull(c) /\ Abstract!Last(c.order) = victim
  <2> HIDE DEF c
  <2> QED BY <1>3, <1>4, <1>6, UnknownIsNotRead, FullIsRead
<1> HIDE DEF c, victim
<1> DEFINE k == ListWithout(e)
           t == StringsWithout(e)
<1>8. Lists(k, Without(s, i)) /\ Reads(k, t, Without(s, i), r)
  BY <1>3, <1>4, <1>5, <1>6, RemovalIsRead
<1>9. /\ Whole(k, map \ {e}, t)
      /\ \A f \in map \ {e} : t[f.str] # d
      /\ n \in Nodes \ Allocated(k) /\ t[p] = None
  <2>1. /\ Whole(k, map \ {e}, t)
        /\ \A f \in map \ {e} : t[f.str] = text[f.str]
        /\ Allocated(k) = Allocated(dll) \ {e.node}
        /\ \A q \in Strings \ Live : t[q] = None
    BY <1>3, RemovalSound
  <2>2. e.node \in Nodes
    BY <1>3, EntryLeadsToPair
  <2> QED BY <1>3, <2>1, <2>2
<1> HIDE DEF k, t, r
<1>10. /\ dll'.data = [k.data EXCEPT ![n] = [str |-> p, val |-> v]]
       /\ Lists(dll', InFront(n, Without(s, i)))
  <2>1. [str |-> p, val |-> v] \in Data /\ k \in DllType
    BY <1>9, HeapAssumption DEF Whole
  <2>2. dll' = DllInsertNthNode(k, 0, [str |-> p, val |-> v], n)
    BY <1>2 DEF k
  <2> QED BY <1>8, <1>9, <2>1, <2>2, InsertNew
<1>11. Reads(dll', text', InFront(n, Without(s, i)), WithFirst(r, d, v))
  <2>1. text' = [t EXCEPT ![p] = d]
    BY <1>2 DEF t
  <2>2. Reads(dll', [t EXCEPT ![p] = d], InFront(n, Without(s, i)), WithFirst(r, d, v))
    BY <1>8, <1>9, <1>10, NewKeyIsRead
  <2> QED BY <2>1, <2>2
<1>12. CacheAt(dll', map', text') = WithFirst(r, d, v)
  BY <1>3, <1>10, <1>11, ReadNext
<1>13. CacheAt(dll', map', text') = Abstract!CachePut(c, d, v)
  BY <1>7, <1>12 DEF Abstract!CachePut, Abstract!MakeRoom, WithFirst, r
<1>14. last' = Call("put", d, v, Abstract!Cached(c, d),
                    IF Abstract!Cached(c, d) \/ ~ Abstract!CacheFull(c)
                      THEN None ELSE Abstract!Last(c.order))
  <2>1. Abstract!Cached(c, d) = FALSE
    BY <1>7 DEF Abstract!Cached
  <2> QED BY <1>2, <1>7, <2>1
<1> QED BY <1>13, <1>14, IsPut DEF c

(* A key that the cache has not is neither found nor removed. *)
LEMMA MissRefines ==
  ASSUME HeapSound, NEW d \in Docs
  PROVE  /\ GetMiss(d) => Abstract!Get(d)
         /\ RemoveUnknown(d) => Abstract!Drop(d)
<1> DEFINE c == CacheAt(dll, map, text)
<1>1. ASSUME ~ Known(d), UNCHANGED <<dll, map, text>>
      PROVE  /\ CacheAt(dll', map', text') = c
             /\ Abstract!Cached(c, d) = FALSE /\ c.val[d] = None
  <2>1. Whole(dll, map, text) /\ \A e \in map : text[e.str] # d
    BY <1>1, HeapSoundParts DEF Known, Entries
  <2>2. PICK s : Lists(dll, s)
    BY <2>1, LinkedSequence DEF Whole
  <2>3. Reads(dll, text, s, c)
    BY <2>1, <2>2, CacheIsRead
  <2>4. CacheAt(dll', map', text') = c
    BY <1>1
  <2> HIDE DEF c
  <2>5. ~ Abstract!Cached(c, d)
    BY <2>1, <2>2, <2>3, UnknownIsNotRead
  <2> QED BY <2>4, <2>5 DEF Abstract!Cached
<1> HIDE DEF c
<1>2. ASSUME GetMiss(d) PROVE Abstract!Get(d)
  <2>1. /\ CacheAt(dll', map', text') = c
        /\ Abstract!Cached(c, d) = FALSE /\ c.val[d] = None
    BY <1>1, <1>2 DEF GetMiss
  <2>2. last' = Call("get", d, None, FALSE, None)
    BY <1>2 DEF GetMiss
  <2>3. CacheAt(dll', map', text') = Abstract!CacheGet(c, d)
    BY <2>1 DEF Abstract!CacheGet
  <2> QED BY <2>1, <2>2, <2>3, IsGet DEF c
<1>3. ASSUME RemoveUnknown(d) PROVE Abstract!Drop(d)
  <2>1. /\ CacheAt(dll', map', text') = c /\ Abstract!Cached(c, d) = FALSE
    BY <1>1, <1>3 DEF RemoveUnknown
  <2>2. last' = Call("remove", d, None, FALSE, None)
    BY <1>3 DEF RemoveUnknown
  <2>3. CacheAt(dll', map', text') = Abstract!CacheRemove(c, d)
    BY <2>1 DEF Abstract!CacheRemove
  <2> QED BY <2>1, <2>2, <2>3, IsDrop DEF c
<1> QED BY <1>2, <1>3

(* A list without nodes stands for a cache without keys. *)
LEMMA EmptyIsRead ==
  ASSUME NEW l, NEW m, NEW t, Whole(l, m, t), l.size = 0
  PROVE  CacheAt(l, m, t) = Abstract!EmptyCache(Capacity)
<1>1. PICK s : Lists(l, s)
  BY LinkedSequence DEF Whole
<1>2. s \in Seq(Nodes) /\ s = << >>
  BY <1>1 DEF Lists, Represents
<1> DEFINE b == Abstract!EmptyCache(Capacity)
<1>3. Reads(l, t, s, b)
  <2>1. b = [order |-> << >>, val |-> [d \in Docs |-> None], cap |-> Capacity]
    BY DEF Abstract!EmptyCache, Abstract!NoDocs
  <2> HIDE DEF b
  <2>2. b \in [order : Seq(Docs), val : [Docs -> MaybeContent], cap : {Capacity}]
    BY <2>1 DEF MaybeContent
  <2> QED BY <1>2, <2>1, <2>2 DEF Reads
<1> HIDE DEF b
<1>4. Reads(l, t, s, CacheAt(l, m, t))
  BY <1>1, CacheIsRead
<1>5. CacheAt(l, m, t) = b
  BY <1>2, <1>3, <1>4, CacheReadOnce
<1> QED BY <1>5 DEF b

(* free_lru_cache: the same again *)
LEMMA FreeRefines ==
  ASSUME HeapSound', Free
  PROVE  Abstract!Free
<1>1. dll'.size = 0
  BY DEF Free, EmptyDll
<1>2. CacheAt(dll', map', text') = Abstract!EmptyCache(Capacity)
  BY <1>1, HeapSoundPartsNext, EmptyIsRead
<1>3. last' = Call("free", None, None, FALSE, None)
  BY DEF Free
<1> QED BY <1>2, <1>3, StandsFor DEF Abstract!Free, Abstract!Call, Call

(* init_lru_cache: a cache without keys                                    *)
LEMMA InitRefines == Init => Abstract!Init
<1> SUFFICES ASSUME Init PROVE Abstract!Init
  OBVIOUS
<1>1. HeapSound
  BY InitHeapSound
<1>2. dll.size = 0 /\ last = Call("init", None, None, FALSE, None)
  BY DEF Init, EmptyDll
<1>3. CacheAt(dll, map, text) = Abstract!EmptyCache(Capacity)
  BY <1>1, <1>2, HeapSoundParts, EmptyIsRead
<1> QED BY <1>2, <1>3, StandsFor DEF Abstract!Init, Abstract!Call, Call

(* The cache that the servers are modelled with is what lru_cache.c        *)
(* implements with its list, its map and the strings they share: for every *)
(* capacity and every heap, each call finds, answers, promotes and evicts  *)
(* what the cache does.                                                    *)
THEOREM Refinement == Spec => IsTheCache
<1> DEFINE shown == <<[order |-> Order,
                       val |-> [d \in Docs |-> CHOOSE v \in Mapped(d) : TRUE],
                       cap |-> Capacity], last>>
<1>1. Init => Abstract!Init
  BY InitRefines
<1>2. ASSUME HeapSound, HeapSound', [Next]_vars
      PROVE  [Abstract!Next]_shown
  <2>1. ASSUME NEW d \in Docs,
               \/ GetHit(d) \/ GetMiss(d) \/ RemoveKnown(d) \/ RemoveUnknown(d)
               \/ \E v \in Contents : PutKnown(d, v) \/ PutNew(d, v) \/ PutEvicting(d, v)
        PROVE  Abstract!Next
    <3>1. GetHit(d) \/ GetMiss(d) => Abstract!Get(d)
      BY <1>2, GetHitRefines, MissRefines
    <3>2. RemoveKnown(d) \/ RemoveUnknown(d) => Abstract!Drop(d)
      BY <1>2, RemoveKnownRefines, MissRefines
    <3>3. ASSUME NEW v \in Contents, PutKnown(d, v) \/ PutNew(d, v) \/ PutEvicting(d, v)
          PROVE  Abstract!Put(d, v)
      BY <1>2, <3>3, PutKnownRefines, PutNewRefines, PutEvictingRefines
    <3> QED BY <2>1, <3>1, <3>2, <3>3 DEF Abstract!Next
  <2>2. ASSUME Free PROVE Abstract!Next
    BY <1>2, <2>2, FreeRefines DEF Abstract!Next
  <2>3. ASSUME UNCHANGED vars PROVE shown' = shown
    <3>1. dll' = dll /\ map' = map /\ text' = text /\ last' = last
      BY <2>3 DEF vars
    <3>2. CacheAt(dll', map', text') = CacheAt(dll, map, text)
      BY <3>1
    <3> QED BY <3>1, <3>2, StandsFor
  <2> QED BY <1>2, <2>1, <2>2, <2>3 DEF Next
<1>3. HeapSound /\ HeapSound' /\ [Next]_vars => [Abstract!Next]_shown
  BY <1>2
<1> QED BY <1>1, <1>3, HeapStaysSound, PTL DEF Spec, IsTheCache, Abstract!Spec
=============================================================================

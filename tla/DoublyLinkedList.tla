-------------------------- MODULE DoublyLinkedList --------------------------
(***************************************************************************)
(* The doubly linked list behind a cache (doubly_linked_list.c), as        *)
(* operators on a record: the fields of dll_t and the heap its nodes live  *)
(* in. A node can be taken out and put back without being freed, so to     *)
(* link a node and to allocate it are two things here.                     *)
(***************************************************************************)
EXTENDS NodeHeap

DllType ==
  [head : Pointer, tail : Pointer, size : Nat, next : [Nodes -> Pointer],
   prev : [Nodes -> Pointer], data : [Nodes -> Data \union {Garbage}]]

(* dll_init *)
EmptyDll ==
  [head |-> Null, tail |-> Null, size |-> 0, next |-> [n \in Nodes |-> Null],
   prev |-> [n \in Nodes |-> Null], data |-> [n \in Nodes |-> Garbage]]

(* dll_get_nth_node *)
DllNthNode(l, i) ==
  LET w == Visited(l)
  IN  IF i < Len(w) THEN w[i + 1] ELSE Null

(* Variant of InsertFirst that forgets to point the old head back. *)
InsertFirstOneWay(l, new) ==
  [l EXCEPT !.next[new] = l.head, !.prev[new] = Null, !.head = new,
            !.tail = IF l.size = 0 THEN new ELSE @, !.size = @ + 1]

(* dll_insert_nth at 0. *)
InsertFirst(l, new) ==
  [head |-> new,
   tail |-> IF l.size = 0 THEN new ELSE l.tail,
   size |-> l.size + 1,
   next |-> [l.next EXCEPT ![new] = l.head],
   prev |-> [n \in Nodes |-> IF n = new THEN Null
                             ELSE IF n = l.head THEN new ELSE l.prev[n]],
   data |-> l.data]

(* dll_insert_nth behind the node that its walk stops at. *)
InsertAfter(l, node, new) ==
  LET after == l.next[node]
  IN  [head |-> l.head,
       tail |-> IF after = Null THEN new ELSE l.tail,
       size |-> l.size + 1,
       next |-> [l.next EXCEPT ![new] = after, ![node] = new],
       prev |-> [n \in Nodes |-> CASE n = new   -> node
                                   [] n = after -> new
                                   [] OTHER     -> l.prev[n]],
       data |-> l.data]

(* dll_insert_nth: an index beyond the end means the end. *)
DllInsertNth(l, i, new) ==
  LET n == IF i > l.size THEN l.size ELSE i
  IN  IF n = 0 THEN InsertFirst(l, new)
               ELSE InsertAfter(l, DllNthNode(l, n - 1), new)

(* dll_insert_nth_node, with a node that malloc answered. *)
DllInsertNthNode(l, i, x, new) == DllInsertNth([l EXCEPT !.data[new] = x], i, new)

(* Variant of RemoveNode that leaves the tail where it was. *)
RemoveNodeKeepingTail(l, node) ==
  [l EXCEPT !.next = [n \in Nodes |-> IF n = l.prev[node] THEN l.next[node]
                                                          ELSE @[n]],
            !.prev = [n \in Nodes |-> IF n = l.next[node] THEN l.prev[node]
                                                          ELSE @[n]],
            !.head = IF l.prev[node] = Null THEN l.next[node] ELSE @,
            !.size = @ - 1]

(* dll_remove_node: its neighbours, or the ends of the list, skip it. The  *)
(* node keeps its own pointers.                                            *)
RemoveNode(l, node) ==
  LET before == l.prev[node]
      after  == l.next[node]
  IN  [head |-> IF before = Null THEN after ELSE l.head,
       tail |-> IF after = Null THEN before ELSE l.tail,
       size |-> l.size - 1,
       next |-> [n \in Nodes |-> IF n = before THEN after ELSE l.next[n]],
       prev |-> [n \in Nodes |-> IF n = after THEN before ELSE l.prev[n]],
       data |-> l.data]

(* free of a node that no longer is in the list *)
FreeNode(l, n) ==
  [l EXCEPT !.data[n] = Garbage, !.next[n] = Null, !.prev[n] = Null]

(* The nodes a walk from the head meets: the fewest that hold the head and *)
(* the next node of each of them.                                          *)
Met(l) ==
  {n \in Nodes : \A S \in SUBSET Nodes :
     /\ l.head \in S \union {Null}
     /\ \A m \in S : l.next[m] \in S \union {Null}
     => n \in S}

(* dll_free frees each of them. *)
DllFree(l) ==
  [l EXCEPT !.data = [n \in Nodes |-> IF n \in Met(l) THEN Garbage ELSE @[n]]]

-----------------------------------------------------------------------------

(* s is the list, from the head to the tail: each node once, next leads to *)
(* the one after it and prev to the one before it.                         *)
Represents(l, s) ==
  /\ l.size = Len(s)
  /\ l.head = IF s = << >> THEN Null ELSE s[1]
  /\ l.tail = IF s = << >> THEN Null ELSE s[Len(s)]
  /\ \A i, j \in DOMAIN s : s[i] = s[j] => i = j
  /\ \A i \in DOMAIN s :
       /\ l.next[s[i]] = IF i = Len(s) THEN Null ELSE s[i + 1]
       /\ l.prev[s[i]] = IF i = 1 THEN Null ELSE s[i - 1]

(* The list is linked both ways through exactly the allocated nodes. *)
Linked(l) ==
  \E s \in [1 .. l.size -> Nodes] : Represents(l, s) /\ Range(s) = Allocated(l)

(* The list without its prev pointers. *)
OneWay(d) ==
  [head |-> d.head, tail |-> d.tail, size |-> d.size,
   next |-> d.next, data |-> d.data]

(* What a walk along one kind of pointer finds, in order. *)
ValuesAlong(l, along, start) ==
  LET w == Walk(along, start) IN [i \in DOMAIN w |-> l.data[w[i]]]
=============================================================================

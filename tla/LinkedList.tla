----------------------------- MODULE LinkedList -----------------------------
(***************************************************************************)
(* The singly linked list (linked_list.c) behind the task queues and the   *)
(* buckets of every hash map, as operators on a record: the fields of ll_t *)
(* and the heap its nodes live in.                                         *)
(***************************************************************************)
EXTENDS NodeHeap

ListType ==
  [head : Pointer, tail : Pointer, size : Nat,
   next : [Nodes -> Pointer], data : [Nodes -> Data \union {Garbage}]]

(* ll_init *)
EmptyList ==
  [head |-> Null, tail |-> Null, size |-> 0,
   next |-> [n \in Nodes |-> Null], data |-> [n \in Nodes |-> Garbage]]

Unused(l) == Nodes \ Allocated(l)

(* ll_get_nth_node: the node reached by following next i times, or Null. *)
NthNode(l, i) == LET w == Visited(l) IN IF i < Len(w) THEN w[i + 1] ELSE Null

Reached(l) == Range(Visited(l))

(* Variant of InsertNth that forgets the tail when it appends. *)
InsertNthLosingTail(l, i, x, new) ==
  LET n == Min({i, l.size})
      made == [l EXCEPT !.data[new] = x, !.size = @ + 1]
  IN  CASE n = 0 -> [made EXCEPT !.next[new] = l.head, !.head = new,
                                 !.tail = IF l.size = 0 THEN new ELSE @]
        [] OTHER -> LET before == NthNode(l, n - 1)
                    IN  [made EXCEPT !.next[new] = l.next[before],
                                     !.next[before] = new]

(* ll_insert_nth, in a node that malloc answered: first, last, or between. *)
InsertNth(l, i, x, new) ==
  LET n == Min({i, l.size})
      before == NthNode(l, n - 1)
      list(head, tail, next) ==
        [head |-> head, tail |-> tail, size |-> l.size + 1, next |-> next,
         data |-> [l.data EXCEPT ![new] = x]]
  IN  CASE n = 0 -> list(new, IF l.size = 0 THEN new ELSE l.tail,
                         [l.next EXCEPT ![new] = l.head])
        [] n = l.size /\ n # 0 -> list(l.head, new,
                         [l.next EXCEPT ![new] = Null, ![l.tail] = new])
        [] OTHER -> list(l.head, l.tail,
                         [l.next EXCEPT ![new] = l.next[before], ![before] = new])

(* The index ll_remove_nth_node removes when it is asked for i. *)
Removable(l, i) == Min({i, l.size - 1})

(* Variant of RemoveNth that keeps pointing at the last node it removed. *)
RemoveNthKeepingTail(l, i) ==
  LET n == Removable(l, i)
      gone == NthNode(l, n)
  IN  IF n = 0
        THEN [l EXCEPT !.head = l.next[gone], !.size = @ - 1]
        ELSE LET before == NthNode(l, n - 1)
             IN  [l EXCEPT !.next[before] = l.next[gone], !.size = @ - 1]

(* ll_remove_nth_node on a list that is not empty; NthNode(l, Removable)   *)
(* is the node it answers, for its caller to free.                         *)
RemoveNth(l, i) ==
  LET n == Removable(l, i)
      gone == NthNode(l, n)
      before == NthNode(l, n - 1)
      list(head, tail, next) ==
        [head |-> head, tail |-> tail, size |-> l.size - 1, next |-> next,
         data |-> l.data]
  IN  IF n = 0
        THEN list(l.next[gone], IF l.size = 1 THEN Null ELSE l.tail, l.next)
        ELSE list(l.head, IF n = l.size - 1 THEN before ELSE l.tail,
                  [l.next EXCEPT ![before] = l.next[gone]])

(* free of a node and of its data *)
Dispose(l, n) == [l EXCEPT !.data[n] = Garbage, !.next[n] = Null]

(* ll_free: every node a walk from the head meets is freed. *)
FreeAll(l) ==
  [l EXCEPT !.data = [n \in Nodes |-> IF n \in Reached(l) THEN Garbage ELSE @[n]]]

-----------------------------------------------------------------------------

(* The list is what its fields say: the nodes met from the head are the    *)
(* allocated ones, size of them, the last one is the tail and ends the     *)
(* walk. A node that was freed is reached by no pointer.                   *)
ListShape(l) ==
  LET w == Visited(l)
  IN  /\ IsInjective(w) /\ Len(w) = l.size
      /\ Range(w) = Allocated(l)
      /\ IF w = << >> THEN l.head = Null /\ l.tail = Null
         ELSE l.tail = Last(w) /\ l.next[l.tail] = Null

(* What a walk from the head finds, in order. *)
Values(l) == LET w == Visited(l) IN [i \in DOMAIN w |-> l.data[w[i]]]
=============================================================================

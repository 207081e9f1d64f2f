----------------------------- MODULE ListMachine -----------------------------
(***************************************************************************)
(* The two linked lists under their own interfaces: the same sequence of   *)
(* calls, with any index, on a singly linked list (ll_insert_nth,          *)
(* ll_remove_nth_node, ll_get_nth_node, ll_free), whose nodes are freed    *)
(* when they are removed, and on a doubly linked one (dll_insert_nth_node, *)
(* dll_remove_node, dll_insert_nth, dll_get_nth_node, dll_free), whose     *)
(* nodes may be put back, as the cache does with one it promotes. Each has *)
(* a heap of its own, in which malloc answers the same addresses.          *)
(***************************************************************************)
EXTENDS LinkedList, DoublyLinkedList

CONSTANT Indices   \* the indices callers use

ASSUME IndicesAssumption == Indices \subseteq Nat

VARIABLES
  single,    (* the singly linked list                                     *)
  double,    (* the doubly linked list                                     *)
  last       (* what the last call was and answered on each, as in         *)
             (* ValueSequence                                              *)

vars == <<single, double, last>>

Call(o, i, x) == [op |-> o, at |-> i, value |-> x]

(* The same call, answered x by the one list and y by the other. *)
Calls(o, i, x, y) == [single |-> Call(o, i, x), double |-> Call(o, i, y)]

CallType ==
  [op : {"init", "insert", "remove", "get", "move", "free"},
   at : Nat, value : Data \union {Null}]

Init ==
  /\ single = EmptyList
  /\ double = EmptyDll
  /\ last = Calls("init", 0, Null, Null)

-----------------------------------------------------------------------------

(* ll_insert_nth, dll_insert_nth_node *)
Put(i, x) ==
  /\ \E new \in Unused(single) \ Allocated(double) :
       /\ single' = InsertNth(single, i, x, new)
       /\ double' = DllInsertNthNode(double, i, x, new)
  /\ last' = Calls("insert", i, x, x)

(* ll_remove_nth_node and dll_remove_node of the node at that index, and   *)
(* the frees their callers owe.                                            *)
Take(i) ==
  /\ single.size > 0
  /\ LET n == Removable(single, i)
         one == NthNode(single, n)
         other == DllNthNode(double, n)
     IN  /\ single' = Dispose(RemoveNth(single, i), one)
         /\ double' = FreeNode(RemoveNode(double, other), other)
         /\ last' = Calls("remove", i, single.data[one], double.data[other])

(* dll_remove_node, and dll_insert_nth of the same node, which must reset  *)
(* the pointers the first left in it; the singly linked list makes a new   *)
(* one, at the address it freed.                                           *)
Move(i, j) ==
  /\ i < single.size
  /\ LET one == NthNode(single, i)
         other == DllNthNode(double, i)
     IN  /\ single' = InsertNth(Dispose(RemoveNth(single, i), one),
                                j, single.data[one], one)
         /\ double' = DllInsertNth(RemoveNode(double, other), j, other)
         /\ last' = Calls("move", j, single.data[one], double.data[other])

(* ll_get_nth_node, dll_get_nth_node *)
Get(i) ==
  /\ LET value(data, node) == IF node = Null THEN Null ELSE data[node]
     IN  last' = Calls("get", i, value(single.data, NthNode(single, i)),
                                 value(double.data, DllNthNode(double, i)))
  /\ UNCHANGED <<single, double>>

(* ll_free and dll_free, and new lists in what is left of their heaps. *)
Clear ==
  /\ single' = [EmptyList EXCEPT !.data = FreeAll(single).data]
  /\ double' = [EmptyDll EXCEPT !.data = DllFree(double).data]
  /\ last' = Calls("free", 0, Null, Null)

Next ==
  \/ \E i \in Indices : Take(i) \/ Get(i) \/ \E x \in Data : Put(i, x)
  \/ \E i, j \in Indices : Move(i, j)
  \/ Clear

Spec == Init /\ [][Next]_vars

-----------------------------------------------------------------------------
(* Properties.                                                             *)

TypeOK ==
  /\ single \in ListType
  /\ double \in DllType
  /\ last \in [single : CallType, double : CallType]

(* Head, tail, size and the next pointers agree after every sequence of    *)
(* calls; no node is lost, and none that its caller freed is still linked: *)
(* q_push appends behind the tail, and ll_free frees what a walk meets.    *)
WellFormed == TypeOK /\ ListShape(single)

Sequence == INSTANCE ValueSequence WITH
  seq <- Values(single), last <- last.single

(* The pointers are a sequence: every call does to the list, and answers,  *)
(* what the same call does to a sequence. A queue built of insertions at   *)
(* the size and removals at 0 is first in, first out.                      *)
IsASequence == Sequence!Spec

(* After every sequence of calls the list is linked both ways through each *)
(* of its nodes once: dll_remove_node trusts prev and next of any node it  *)
(* is given, and the cache evicts whatever tail points at.                 *)
WellLinked == Linked(double)

Forward == INSTANCE ValueSequence WITH
  seq <- ValuesAlong(double, double.next, double.head),
  last <- last.double
Backward == INSTANCE ValueSequence WITH
  seq <- Reverse(ValuesAlong(double, double.prev, double.tail)),
  last <- last.double

(* Read from the head, and read from the tail and reversed, the pointers   *)
(* are the same sequence, and every call does to it and answers what it    *)
(* does to a sequence, whichever node it removes or moves.                 *)
ReadsBothWays == Forward!Spec /\ Backward!Spec
=============================================================================

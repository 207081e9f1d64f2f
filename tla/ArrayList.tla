------------------------------ MODULE ArrayList ------------------------------
(***************************************************************************)
(* The array behind the ring (arraylist.c): labels sorted by hash, found   *)
(* by the searches of SortedArray, and a capacity that doubles and halves. *)
(* al_insert, al_erase and al_resize are parts of the two operations the   *)
(* load balancer uses.                                                     *)
(***************************************************************************)
EXTENDS SortedArray

CONSTANTS
  Labels,   (* the labels a server may have on the ring                    *)
  Docs      (* documents, looked up by their hash                          *)

ASSUME LabelsAssumption ==
  /\ LabelHash \in [Labels -> Nat]
  /\ \A x, y \in Labels : LabelHash[x] = LabelHash[y] => x = y
  /\ DocHash \in [Docs -> Nat]

VARIABLES
  servers,   (* list->data: its first list->size elements                  *)
  capacity   (* list->capacity                                             *)

vars == <<servers, capacity>>

Size == Len(servers)

-----------------------------------------------------------------------------

(* al_init *)
Init == servers = << >> /\ capacity = 1

(* al_insert_ordered, which doubles a full array. *)
Insert(x) ==
  /\ ~ \E i \in DOMAIN servers : servers[i] = x
  /\ servers' = InsertAt(servers, InsertionIndex(servers, x) + 1, x)
  /\ capacity' = IF Size = capacity THEN 2 * capacity ELSE capacity

(* Variant of Erase that halves one element too early. *)
EraseHalvingEarly(x) ==
  /\ Size > 0
  /\ LET i == FindBy(servers, x)
     IN  servers' = RemoveAt(servers, IF i = -1 THEN Size ELSE i + 1)
  /\ capacity' = IF Size - 1 <= capacity \div 2
                   THEN capacity \div 2 ELSE capacity

(* al_find_by and al_erase, which halves an array that is more than half   *)
(* empty and takes -1 for the last index.                                  *)
Erase(x) ==
  /\ Size > 0
  /\ LET i == FindBy(servers, x)
     IN  servers' = RemoveAt(servers, IF i = -1 THEN Size ELSE i + 1)
  /\ capacity' = IF Size - 1 < capacity \div 2
                   THEN capacity \div 2 ELSE capacity

Next == \E x \in Labels : Insert(x) \/ Erase(x)

Spec == Init /\ [][Next]_vars

-----------------------------------------------------------------------------
(* Properties.                                                             *)

(* Elements and capacity keep their types; the array is in its allocation: *)
(* al_insert writes at list->size and al_erase gives memory back.          *)
TypeOK ==
  /\ servers \in Seq(Labels)
  /\ capacity \in Nat \ {0}
  /\ Size <= capacity

(* The elements are in the order of their hashes, and no two are equal.    *)
InOrder ==
  \A i, j \in DOMAIN servers :
    i < j => LabelHash[servers[i]] < LabelHash[servers[j]]

(* What every operation keeps, for any number of labels and any hashes:    *)
(* each search relies on the order the insertions before it made.          *)
ArraySound == TypeOK /\ InOrder

Members == {servers[i] : i \in DOMAIN servers}

(* The first element above h, or the one at index 0, as arraylist.h:39 has *)
(* the answer of al_get_ordered.                                           *)
FirstGreater(list, h) ==
  At(list, IF Above(list, h) = {} THEN 0 ELSE Min(Above(list, h)))

(* al_get_ordered answers the owner of every document, for an array of     *)
(* every size: GET and EDIT go where LoadBalancer says. The code takes an  *)
(* element that is equal to the target (arraylist.c:50), while the header  *)
(* wants one that is greater: its word is kept for the documents that have *)
(* no server's hash, and for the others it is not.                         *)
FindsOwner ==
  servers # << >> =>
    \A d \in Docs :
      LET found == GetOrdered(servers, DocHash[d])
      IN  /\ IsOwner(Members, found, d)
          /\ Untied(Members, d) => found = FirstGreater(servers, DocHash[d])

(* al_find_by finds the index of every label that is in the array, though  *)
(* its binary search goes the wrong way, and no other.                     *)
FindsById ==
  \A x \in Labels :
    IF x \in Members
      THEN FindBy(servers, x) \in 0 .. Size - 1 /\ At(servers, FindBy(servers, x)) = x
      ELSE FindBy(servers, x) = -1

(* The element at (index + 1) % size is the next one on the ring: the      *)
(* source of a join and the destination of a removal.                      *)
NextIsAdjacent ==
  \A i \in 0 .. Size - 1 :
    IsNext(Members, At(servers, i), At(servers, (i + 1) % Size))

RingSet == INSTANCE Ring WITH ring <- Members

(* The array is the set of labels that the load balancer's model has, and  *)
(* each operation is the one of that set with the same argument, whatever  *)
(* came before: an id that is in the array leaves it alone, and an id that *)
(* is not there takes the last label with it.                              *)
IsTheRing ==
  /\ RingSet!Spec
  /\ [][\A x \in Labels : /\ Insert(x) => RingSet!Join(x)
                          /\ Erase(x) => RingSet!Leave(x)]_vars
=============================================================================

----------------------------- MODULE SortedArray -----------------------------
(***************************************************************************)
(* The searches of arraylist.c over an array of elements sorted by hash,   *)
(* an element being its id. Indices are the program's, from 0. The three   *)
(* binary searches are one loop: they differ in the elements at which they *)
(* turn left, in those they take for an answer, and in the answer they     *)
(* begin with.                                                             *)
(***************************************************************************)
EXTENDS HashRing, Integers, SequencesExt

(* al_get: an index that is out of range, -1 included, means the last one. *)
At(list, i) ==
  IF i \in 0 .. Len(list) - 1 THEN list[i + 1] ELSE list[Len(list)]

Indices(list) == 0 .. Len(list) - 1

Middle(left, right) == (left + right) \div 2

(* The variables of a search in n elements: the interval still to be       *)
(* looked at, and the answer so far.                                       *)
Searches(n) == [left : 0 .. n, right : -1 .. n - 1, ans : 0 .. n]

(* One iteration of the loop. *)
Narrow(w, lefts, hits) ==
  LET mid == Middle(w.left, w.right)
  IN  [left |-> IF mid \in lefts THEN w.left ELSE mid + 1,
       right |-> IF mid \in lefts THEN mid - 1 ELSE w.right,
       ans |-> IF mid \in hits THEN mid ELSE w.ans]

(* What every search ends with. *)
Outcome(n, lefts, hits) ==
  LET outcome[w \in Searches(n)] ==
        IF w.left > w.right THEN w.ans ELSE outcome[Narrow(w, lefts, hits)]
  IN  outcome

BinarySearch(n, lefts, hits, first) ==
  Outcome(n, lefts, hits)[[left |-> 0, right |-> n - 1, ans |-> first]]

From(list, h) == {i \in Indices(list) : LabelHash[At(list, i)] >= h}
Above(list, h) == {i \in Indices(list) : LabelHash[At(list, i)] > h}

(* Variants of OrderedIndex: one wants a hash above h, as arraylist.h has  *)
(* it, the other takes the last of several elements with one hash.         *)
OrderedIndexAbove(list, h) ==
  BinarySearch(Len(list), Above(list, h), Above(list, h), 0)

OrderedIndexLastEqual(list, h) ==
  LET from == From(list, h)
  IN  IF from = {} THEN 0
      ELSE Max({i \in from : At(list, i) = At(list, Min(from))})

(* The index al_get_ordered stops at: of the first element whose hash is   *)
(* not below h, and 0 when there is none.                                  *)
OrderedIndex(list, h) ==
  BinarySearch(Len(list), From(list, h), From(list, h), 0)

(* al_get_ordered *)
GetOrdered(list, h) == At(list, OrderedIndex(list, h))

(* Variant of InsertionIndex that stops one element too late. *)
InsertionIndexLate(list, x) ==
  LET above == Above(list, LabelHash[x])
  IN  IF above = {} THEN Len(list) ELSE Min(above) + 1

(* The position at which al_insert_ordered inserts: the first element      *)
(* whose hash is above that of x, or the end.                              *)
InsertionIndex(list, x) ==
  LET above == Above(list, LabelHash[x])
  IN  BinarySearch(Len(list), above, above, Len(list))

Below(list, h) == {i \in Indices(list) : LabelHash[At(list, i)] < h}
Equal(list, h) == {i \in Indices(list) : LabelHash[At(list, i)] = h}

(* Variant of ScanStart that trusts the search: an element it did not meet *)
(* is not in the array.                                                    *)
ScanStartAtMiss(list, x) ==
  BinarySearch(Len(list), Below(list, LabelHash[x]), Equal(list, LabelHash[x]), Len(list))

(* The index from which al_find_by compares ids one by one. Its search     *)
(* turns left at an element that is too small and right at one that is too *)
(* large, so it meets x by luck only, and answers 0 otherwise.             *)
ScanStart(list, x) ==
  BinarySearch(Len(list), Below(list, LabelHash[x]), Equal(list, LabelHash[x]), 0)

(* Variant of FindBy that answers index 0 for an unknown id. *)
FindByOrFirst(list, x) ==
  LET found == {i \in Indices(list) : At(list, i) = x}
  IN  IF found = {} THEN 0 ELSE Min(found)

(* al_find_by: the first index from ScanStart on that has the id, or -1. *)
FindBy(list, x) ==
  LET found == {i \in ScanStart(list, x) .. Len(list) - 1 : At(list, i) = x}
  IN  IF found = {} THEN -1 ELSE Min(found)
=============================================================================

---------------------------- MODULE MCArrayList ----------------------------
(***************************************************************************)
(* Seven labels: arrays of every size up to 7, so that the capacity        *)
(* doubles three times, and a document below, between, on and above every  *)
(* label. The labels are placed by hash_uint on words of 14 bits, in an    *)
(* order of its own; TLC computes with 32 bits, and 14 is the widest even  *)
(* word whose products are exact.                                          *)
(***************************************************************************)
EXTENDS ArrayList, Hashes

LabelsDef == {1, 2, 3, 4, 5, 6, 7}
LabelHashDef == [x \in Labels |-> HashUint(x)]

(* Document 2 * i has the hash of the i-th label, 2 * i + 1 the next one.  *)
Sorted == SetToSortSeq({HashUint(x) : x \in Labels}, LAMBDA x, y : x < y)
DocsDef == 1 .. 2 * Cardinality(Labels) + 1
DocHashDef ==
  [d \in Docs |-> IF d = 1 THEN Sorted[1] - 1 ELSE Sorted[d \div 2] + (d % 2)]
=============================================================================

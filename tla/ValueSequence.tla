---------------------------- MODULE ValueSequence ----------------------------
(***************************************************************************)
(* What a linked list is to its callers: a sequence of values, changed and *)
(* read by index. An index beyond the end means the end (ll_insert_nth)    *)
(* or the last value (ll_remove_nth_node).                                 *)
(***************************************************************************)
EXTENDS Naturals, SequencesExt

CONSTANTS
  Data,      (* the values                                                 *)
  Indices,   (* the indices callers use                                    *)
  Null       (* "no value at that index"                                   *)

VARIABLES
  seq,       (* the values in the list                                     *)
  last       (* the last call: what it did, at which index, to which value *)

Call(o, i, x) == [op |-> o, at |-> i, value |-> x]

Init == seq = << >> /\ last = Call("init", 0, Null)

Put(i, x) ==
  /\ seq' = InsertAt(seq, Min({i, Len(seq)}) + 1, x)
  /\ last' = Call("insert", i, x)

Take(i) ==
  /\ seq # << >>
  /\ LET n == Min({i + 1, Len(seq)})
     IN  seq' = RemoveAt(seq, n) /\ last' = Call("remove", i, seq[n])

(* The value at i, taken out and put back at j. *)
Move(i, j) ==
  /\ i < Len(seq)
  /\ LET rest == RemoveAt(seq, i + 1)
     IN  seq' = InsertAt(rest, Min({j, Len(rest)}) + 1, seq[i + 1])
  /\ last' = Call("move", j, seq[i + 1])

Get(i) ==
  /\ last' = Call("get", i, IF i < Len(seq) THEN seq[i + 1] ELSE Null)
  /\ UNCHANGED seq

Clear == seq' = << >> /\ last' = Call("free", 0, Null)

Next ==
  \/ \E i \in Indices : Take(i) \/ Get(i) \/ \E x \in Data : Put(i, x)
  \/ \E i, j \in Indices : Move(i, j)
  \/ Clear

Spec == Init /\ [][Next]_<<seq, last>>
=============================================================================

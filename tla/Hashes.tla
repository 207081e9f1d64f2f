------------------------------- MODULE Hashes -------------------------------
(***************************************************************************)
(* hash_uint (utils.c), which places a label on the ring, on words of      *)
(* Width bits where the program has 32. Every other module takes the       *)
(* hashes of distinct labels to be distinct: here is why they are.         *)
(***************************************************************************)
EXTENDS Integers, Bitwise

CONSTANTS
  Width,        (* bits of an unsigned int, an even number                 *)
  Multiplier,   (* 0x45d9f3b, or its lower bits                            *)
  Reciprocal    (* what undoes a multiplication by it                      *)

ASSUME WordAssumption ==
  /\ Width \in Nat \ {0}
  /\ Width % 2 = 0
  /\ (Multiplier * Reciprocal) % 2^Width = 1

Word == 0 .. 2^Width - 1

(* (x >> 16) ^ x *)
Folded(x) == (x \div 2^(Width \div 2)) ^^ x

(* One of the two lines that fold and multiply; the product wraps. *)
Spread(x) == (Folded(x) * Multiplier) % 2^Width

(* hash_uint *)
HashUint(x) == Folded(Spread(Spread(x)))

Unspread(y) == Folded((y * Reciprocal) % 2^Width)

(* The label can be read back from its hash, so no two labels share one,   *)
(* however the products overflow. al_find_by would miss the first of two   *)
(* labels with one hash, and the order of the ring would not be total. TLC *)
(* finds this to be so for every word.                                     *)
ASSUME Reversible ==
  \A x \in Word : /\ HashUint(x) \in Word
                  /\ Unspread(Unspread(Folded(HashUint(x)))) = x
=============================================================================

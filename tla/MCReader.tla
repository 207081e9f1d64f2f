------------------------------- MODULE MCReader -------------------------------
(***************************************************************************)
(* Up to three requests with every content of up to MaxContent characters, *)
(* newlines anywhere, in a file that may end after any of its lines. Both  *)
(* lengths are scaled down; the longest line still fits in the buffer, as  *)
(* it does with the lengths of the program.                                *)
(***************************************************************************)
EXTENDS Reader
=============================================================================

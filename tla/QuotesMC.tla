------------------------------ MODULE QuotesMC ------------------------------
(* Two staff rows and one addressed to a contact; sessions and rows of one  *)
(* kind are interchangeable.                                                 *)
EXTENDS Quotes, TLC

Symmetry == Permutations(Sessions) \cup Permutations(StaffRows)
=============================================================================

--------------------------- MODULE PrepaidHoursMC ---------------------------
(* Instances of PrepaidHours for TLC.                                      *)
EXTENDS PrepaidHours, TLC

(* Entries, requests and invoices are interchangeable.                     *)
Symmetry == Permutations(Entry) \cup Permutations(Request) \cup Permutations(Invoice)
=============================================================================

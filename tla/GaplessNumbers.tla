--------------------------- MODULE GaplessNumbers ---------------------------
(***************************************************************************)
(* What document numbering promises (service.rs, next_invoice_number;      *)
(* numbering.rs, "Gap-free is an audit expectation on invoices"): the      *)
(* documents of one series are numbered 1, 2, 3, ... in the order in which *)
(* they come to exist, each number once, however creates race and fail.    *)
(***************************************************************************)
EXTENDS Naturals, Sequences

CONSTANT Series   \* the counters of a tenant: per document kind, per customer

VARIABLE numbers  \* the numbers of the documents of each series, oldest first

Init == numbers = [s \in Series |-> <<>>]

Issue(s) == numbers' = [numbers EXCEPT ![s] = Append(@, Len(@) + 1)]

Next == \E s \in Series : Issue(s)

Spec == Init /\ [][Next]_numbers
=============================================================================

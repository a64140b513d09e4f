------------------------- MODULE InvoiceNumberingMC -------------------------
(* Instances of InvoiceNumbering for TLC.                                  *)
EXTENDS InvoiceNumbering, TLC

(* Customers, prefixes and transactions are interchangeable.               *)
Symmetry == Permutations(Company) \cup Permutations(Prefix) \cup Permutations(Txn)
=============================================================================

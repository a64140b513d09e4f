-------------------------- MODULE InvoiceLedgerMC --------------------------
(* Instances of InvoiceLedger for TLC.                                     *)
EXTENDS InvoiceLedger, TLC

(* The elements of each set are interchangeable: no action or property     *)
(* names one of them.                                                      *)
Symmetry ==
  Permutations(Invoice) \cup Permutations(Editor) \cup Permutations(PaymentId)
    \cup Permutations(NoteId) \cup Permutations(Charge) \cup Permutations(Refund)
=============================================================================

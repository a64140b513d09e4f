------------------------- MODULE InvoiceRemindersMC -------------------------
(* Instances of InvoiceReminders for TLC.                                  *)
EXTENDS InvoiceReminders, TLC

CONSTANTS early, late

\* Two invoices due on following days, so that one day can be the first step
\* of one and the second step of the other.
Dates == (early :> 0) @@ (late :> 1)
=============================================================================

\* A refund webhook that overtakes its payment webhook.
SPECIFICATION Spec
CONSTANTS
  Invoice = {i1}
  Editor = {e1}
  PaymentId = {p1}
  Charge = {c1}
  Refund = {r1}
  NoteId = {}
  LineTotals = {2}
  TaxAmounts = {}
  Discounts = {0}
  Amounts = {1}
  TaxPct = 0
  Delegation = FALSE
  None = None
INVARIANT
  RefundsConverge
CHECK_DEADLOCK FALSE

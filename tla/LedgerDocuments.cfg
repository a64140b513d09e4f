\* Three invoices, two concurrent updates: drafts, sends and amendments, with
\* an accounting provider that issues and voids invoices by itself.
SPECIFICATION Spec
CONSTANTS
  Invoice = {i1, i2, i3}
  Editor = {e1, e2}
  PaymentId = {p1}
  Charge = {}
  Refund = {}
  NoteId = {}
  LineTotals = {1}
  TaxAmounts = {}
  Discounts = {0}
  Amounts = {1}
  TaxPct = 0
  Delegation = TRUE
  None = None
SYMMETRY Symmetry
INVARIANTS
  OneReplacement
CHECK_DEADLOCK FALSE

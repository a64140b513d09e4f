\* One invoice, every way money can move on it, and two updates that race its
\* send; lines, discount and tax vary, and the tax is rounded.
SPECIFICATION Spec
CONSTANTS
  Invoice = {i1}
  Editor = {e1, e2}
  PaymentId = {p1, p2, p3}
  Charge = {c1}
  Refund = {r1, r2}
  NoteId = {n1}
  LineTotals = {1, 2}
  TaxAmounts = {}
  Discounts = {0, 1}
  Amounts = {1, 2}
  TaxPct = 25
  Delegation = FALSE
  None = None
SYMMETRY Symmetry
INVARIANTS
  TypeOK
  UnissuedCarriesNoMoney
  LedgerAgrees
  NoOverCollection
  StatusFollowsMoney
  GatewayCountedOnce
PROPERTIES
  TerminalStands
  IssuedNeverRewritten
CHECK_DEADLOCK FALSE

\* Two requests on one entry while it is invoiced, against repeated rolls over
\* a term and its renewal.
SPECIFICATION Spec
CONSTANTS
  Entry = {e1}
  Request = {r1, r2}
  Invoice = {n1, n2}
  MaxPeriod = 3
  TermEnd = 2
  AutoRenew = TRUE
  Hours = {2, 4}
  Included = 3
  Rollover = TRUE
  Cap = 1
  None = None
SYMMETRY Symmetry
INVARIANT HoursTypeOK
INVARIANT BalanceExact
INVARIANT DrawsAreBacked
INVARIANT RolloverCapped
INVARIANT ChargedOnce
CHECK_DEADLOCK FALSE

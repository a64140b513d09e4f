\* Two creates at once on a tenant with a seeded and an unseeded counter and
\* two customers who may draw the same prefix.
SPECIFICATION FairSpec
CONSTANTS
  Counter = {invoice, quote}
  Seeded = {invoice}
  Company = {c1, c2}
  Prefix = {x, y}
  Txn = {t1, t2}
  MaxNumber = 2
  None = None
INVARIANTS
  NumberingTypeOK
  NoNumberTwice
  OnePrefixPerCustomer
PROPERTIES
  ImplementsGapless
  EveryCreateEnds
CHECK_DEADLOCK FALSE

\* Two servers sweep two contracts, of which the second always fails, over
\* two boundaries of periods, while staff edit.
SPECIFICATION Spec
CONSTANTS
  fee = fee
  setup = setup
  MonthDays <- JanToMar
  Contract = {1, 2}
  Item = {fee, setup}
  Server = {s1, s2}
  Broken = {2}
  Days <- Boundaries
  Opening <- Agreements
  Cycles = {"monthly", "weekly"}
  Ends = {58}
  MaxEdits = 1
  MaxAborts = 1
INVARIANTS RecurringTypeOK PeriodsDisjoint OnceBilledOnce PeriodsAgree
PROPERTIES DuePeriodsBilled
CHECK_DEADLOCK FALSE

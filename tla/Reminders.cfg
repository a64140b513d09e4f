\* Two servers sweep two invoices up to the third day; one thing changes and one
\* sweep ends early or comes too late.
SPECIFICATION Spec
CONSTANTS
  early = early
  late = late
  Invoice = {early, late}
  Server = {s1, s2}
  DueDate <- Dates
  Offset = {1, 2}
  HoursPerDay = 2
  LastHour = 4
  Owed = {0, 1}
  MaxChanges = 1
  MaxFaults = 1
INVARIANT RowsTellMails
PROPERTIES StepsReminded MailsAtMostOnce
CHECK_DEADLOCK FALSE

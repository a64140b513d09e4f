SPECIFICATION Spec
CONSTANTS
  Sessions = {s1, s2}
  Workers = {w1, w2}
  high = high
  bare = bare
  Priorities = {high, bare}
  Targets <- MCTargets
  Updates <- MCUpdates
  Rules <- MCRules
  Workflow <- MCWorkflow
  FallbackDays = 3
  LeadFloor = 1
  LeadCeil = 2
  MaxNow = 1
  MaxRequests = 3
  MaxFaults = 1
  None = None
INVARIANTS
  TicketTypeOK
  SlaDateWins
PROPERTIES
  BreachClaimed
  AlertsAtMostOnce
CHECK_DEADLOCK FALSE

SPECIFICATION Spec
CONSTANTS
  Sessions = {s1, s2, s3}
  StaffRows = {a1, a2}
  ContactRows = {c1}
  Starts = {"draft", "submitted", "sent"}
  MaxRequests = 4
  MaxFaults = 0
  None = None
SYMMETRY Symmetry
INVARIANTS
  OneProject
CHECK_DEADLOCK FALSE

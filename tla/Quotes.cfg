SPECIFICATION Spec
CONSTANTS
  Sessions = {s1, s2, s3}
  StaffRows = {a1, a2}
  ContactRows = {c1}
  Starts = {"draft", "submitted", "sent"}
  MaxRequests = 4
  MaxFaults = 1
  None = None
SYMMETRY Symmetry
INVARIANTS
  ConvertedOnce
  ChainSettles
CHECK_DEADLOCK FALSE

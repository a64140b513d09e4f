\* Two workers drain the rows of a dispatch over a relay that fails, with a
\* crash and a batch that outlasts its claim.
SPECIFICATION Spec
CONSTANTS
  ann = ann
  client = client
  home = home
  HOME = HOME
  other = other
  User = {ann}
  Contact = {client}
  Address = {home, HOME, other}
  AddressOf <- Home
  Lower <- SmallLetters
  Rule <- Rules
  Context <- Contexts
  None = None
  Worker = {w1, w2}
  Ladder = 1
  BatchSize = 2
  MaxRows = 2
  MaxCrashes = 1
  MaxOutlasted = 1
INVARIANTS NotificationsTypeOK MailsExplained QueuedOnce
PROPERTY EveryRowEnds
CHECK_DEADLOCK FALSE

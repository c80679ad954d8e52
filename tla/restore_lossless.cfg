SPECIFICATION Alone
CONSTANTS
  Admins = {a1}
  MaxRows = 4
  Backups = {b1}
  ClientKinds = {"portfolio", "property"}
  Outcomes = {TRUE}
  Crashes = FALSE
  Unused = Unused
  Gone = Gone
  None = None
CHECK_DEADLOCK FALSE
INVARIANTS RoundTripLossless

SPECIFICATION Spec
SYMMETRY MCSymmetry
CONSTANTS
  Requests = {u1, u2}
  Tags = {0}
  MaxRelease = 1
  MaxFaults = 2
  None = None
CHECK_DEADLOCK FALSE
INVARIANTS UpdaterTypeOK OneUpdater LockOwned SchemaMatches
PROPERTIES ChangesKept AnswersTruly

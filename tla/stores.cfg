SPECIFICATION MCSpec
CONSTANTS
  Areas <- MCAreas
  NewIds = {n1}
  MaxCalls = 3
  Unused = Unused
  Gone = Gone
  None = None
  Absent = Absent
  MaxTorn = 2
CHECK_DEADLOCK FALSE
INVARIANTS StoreTypeOK ForeignKeysHold MemoryForgetsOnlyThese CoreAgrees ChecksCover  SchemaAccounted
PROPERTIES DeletesSpare

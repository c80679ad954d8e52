SPECIFICATION FairSpec
CONSTANTS
  Admins = {a1}
  MaxRows = 5
  Backups = {b1}
  ClientKinds = {"portfolio", "property", "unit", "meter", "period"}
  Outcomes = {TRUE}
  Crashes = TRUE
  Unused = Unused
  Gone = Gone
  None = None
CHECK_DEADLOCK FALSE
INVARIANTS BackupTypeOK ReferencesHold RestoreReplaces
PROPERTIES ExportComplete RestoreCompletes

SPECIFICATION Spec
CONSTANTS
  Requests = {u1}
  Tags = {0}
  MaxRelease = 1
  MaxFaults = 1
  None = None
CHECK_DEADLOCK FALSE
PROPERTY EditsGuaranteed

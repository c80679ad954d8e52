SPECIFICATION Spec
CONSTANTS
  Workers = {w1, w2}
  Periods = {p1, p2}
  Statements = {s1, s2, s3}
  Items = {i1, i2}
  Keys = {k1}
  Contracts = {c1}
  Balances = {0, 1}
  Requests = {"add_item", "generate", "finalize"}
  PayloadStatuses = {"draft"}
  StatementPayloads = {}
  Faults = FALSE
  MaxCharges = 1
  Unused = Unused
  Gone = Gone
  NoHash = NoHash
CHECK_DEADLOCK FALSE
PROPERTY FrozenStatements

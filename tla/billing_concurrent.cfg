SPECIFICATION FairSpec
CONSTANTS
  Workers = {w1, w2}
  Periods = {p1}
  Statements = {s1, s2, s3}
  Items = {i1}
  Keys = {k1}
  Contracts = {c1}
  Balances = {1}
  Requests = {"submit_review", "finalize", "generate", "dispute", "add_item", "delete_statement", "delete_period"}
  PayloadStatuses = {"draft"}
  StatementPayloads = {}
  Faults = FALSE
  MaxCharges = 1
  Unused = Unused
  Gone = Gone
  NoHash = NoHash
CHECK_DEADLOCK FALSE
INVARIANTS RowsHaveParents StampCoversStatement
PROPERTIES RequestsComplete

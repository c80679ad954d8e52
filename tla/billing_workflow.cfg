SPECIFICATION FairSpec
CONSTANTS
  Workers = {w1}
  Periods = {p1}
  Statements = {s1, s2, s3, s4}
  Items = {i1}
  Keys = {k1}
  Contracts = {c1, c2}
  Balances = {0, 1}
  Requests = {"delete_period", "submit_review", "revert_draft", "finalize", "generate", "create_receivables", "dispute", "add_item", "delete_item", "patch_statement", "delete_statement", "mark_delivered"}
  PayloadStatuses = {"draft"}
  StatementPayloads = {}
  Faults = FALSE
  MaxCharges = 1
  Unused = Unused
  Gone = Gone
  NoHash = NoHash
CHECK_DEADLOCK FALSE
INVARIANTS FinalizedIsStamped OneStatementPerContract
PROPERTIES ImplementsLifecycle StampingCompletes

SPECIFICATION Spec
CONSTANTS
  Workers = {w1}
  Periods = {p1, p2}
  Statements = {s1}
  Items = {i1, i2}
  Keys = {k1, k2}
  Contracts = {c1}
  Balances = {0, 1}
  Requests = {"edit_period", "delete_period", "finalize", "generate", "dispute", "create_receivables", "add_item", "set_active", "move_item", "delete_item", "delete_key", "revise", "patch_statement", "move_statement", "delete_statement", "mark_delivered"}
  PayloadStatuses = {"draft", "finalized"}
  StatementPayloads = {"finalized"}
  Faults = TRUE
  MaxCharges = 1
  Unused = Unused
  Gone = Gone
  NoHash = NoHash
SYMMETRY RowSymmetry
CHECK_DEADLOCK FALSE
INVARIANTS TypeOK
PROPERTIES FrozenItems FrozenStatements IssuedWhenFinal

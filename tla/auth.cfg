SPECIFICATION Spec
CONSTANTS
  Requests = {r1, r2}
  Users = {u1}
  Tokens = {t1, t2}
  Lifetime = 1
  MaxAttempts = 1
  Window = 2
  MaxBlacklist = 1
  MaxFaults = 1
  Unissued = Unissued
  None = None
CHECK_DEADLOCK FALSE
INVARIANTS AttemptsBounded
PROPERTIES RefusedOnceAnswered LockEnds

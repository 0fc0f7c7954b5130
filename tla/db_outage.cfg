SPECIFICATION Spec
CONSTANTS
  a1 = a1
  a2 = a2
  m1 = m1
  Account = {a1}
  Msg = {m1}
  MaxKeys = 1
  Locks = {}
  MaxCrashes = 0
  MaxFaults = 1
INVARIANTS
  NothingLost
CHECK_DEADLOCK FALSE

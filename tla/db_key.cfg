SPECIFICATION Spec
CONSTANTS
  a1 = a1
  a2 = a2
  m1 = m1
  Account = {a1, a2}
  Msg = {m1}
  MaxKeys = 2
  Locks = {"pin", "hello"}
  MaxCrashes = 2
  MaxFaults = 2
INVARIANTS
  TypeOK
  OneKey
  KeyKept
  DataKept
  NotStranded
CHECK_DEADLOCK FALSE

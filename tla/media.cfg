SPECIFICATION Spec
CONSTANTS
  d1 = d1
  g1 = g1
  Direct = {d1}
  Group = {g1}
  Chunks = 1
  Credits = 1
  MaxInbound = 1
  Sessions = 2
  Tries = 2
  MaxFaults = 1
INVARIANTS
  TypeOK
  CreditsKept
  SlotsFreed
  SendingIsOwned
CHECK_DEADLOCK FALSE

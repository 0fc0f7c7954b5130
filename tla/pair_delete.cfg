SPECIFICATION Spec
CONSTANTS
  n1 = n1
  n2 = n2
  n3 = n3
  Node = {n1, n2}
  Creator = n1
  MaxMsg = 1
  Paired <- Star
  Reach <- FromCreator
  Speakers = {n2}
  Slots = 1
  Window = 2
  MaxEpoch = 4
  MaxBreaks = 0
  MaxRestarts = 1
  MaxDrops = 0
  MaxFaults = 0
  SaveFaults = {}
  Ops = {"add", "remove", "rename", "disband", "leave", "delete"}
INVARIANTS
  StubIsEmpty
PROPERTIES
  OutStaysOut
CHECK_DEADLOCK FALSE

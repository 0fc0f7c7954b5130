SPECIFICATION FairSpec
CONSTANTS
  n1 = n1
  n2 = n2
  n3 = n3
  Node = {n1, n2}
  Creator = n1
  MaxMsg = 2
  Paired <- Star
  Reach <- Everyone
  Speakers = {n2}
  Slots = 1
  Window = 1
  MaxEpoch = 1
  MaxBreaks = 0
  MaxRestarts = 1
  MaxDrops = 0
  MaxFaults = 0
  SaveFaults = {}
  Ops = {"leave"}
PROPERTIES
  Delivery
  Convergence
  LeaveIsHeard
CHECK_DEADLOCK FALSE

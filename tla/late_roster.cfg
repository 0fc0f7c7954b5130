SPECIFICATION FairSpec
CONSTANTS
  n1 = n1
  n2 = n2
  n3 = n3
  Node = {n1, n2, n3}
  Creator = n1
  MaxMsg = 1
  Paired <- Everyone
  Reach <- OneWay
  Speakers = {n2}
  Slots = 1
  Window = 2
  MaxEpoch = 1
  MaxBreaks = 0
  MaxRestarts = 0
  MaxDrops = 0
  MaxFaults = 0
  SaveFaults = {}
  Ops = {}
PROPERTIES
  Delivery
CHECK_DEADLOCK FALSE

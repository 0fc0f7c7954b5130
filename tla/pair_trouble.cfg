SPECIFICATION Spec
CONSTANTS
  n1 = n1
  n2 = n2
  n3 = n3
  Node = {n1, n2}
  Creator = n1
  MaxMsg = 2
  Paired <- Star
  Reach <- FromCreator
  Speakers = {n1}
  Slots = 2
  Window = 2
  MaxEpoch = 2
  MaxBreaks = 1
  MaxRestarts = 1
  MaxDrops = 1
  MaxFaults = 1
  SaveFaults = {"roster", "counters"}
  Ops = {"leave"}
INVARIANTS
  TypeOK
  PrefixLog
  AckSound
PROPERTIES
  FeedSpec
CHECK_DEADLOCK FALSE

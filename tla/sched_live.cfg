SPECIFICATION FairSpec
CONSTANTS
  i1 = i1
  Item = {i1}
  Shells = {"android", "desktop"}
  PageOpen = TRUE
  MaxRev = 2
  MaxCrashes = 1
  MaxFaults = 1
INVARIANTS
  TypeOK
  NoDoubleSend
  NothingLost
PROPERTIES
  SendingEnds
  DueIsTakenUp
CHECK_DEADLOCK FALSE

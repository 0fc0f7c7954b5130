SPECIFICATION Spec
CONSTANTS
  i1 = i1
  Item = {i1}
  Shells = {"android", "desktop"}
  PageOpen = TRUE
  MaxRev = 1
  MaxCrashes = 0
  MaxFaults = 0
INVARIANT
  StaysUntilDue
CHECK_DEADLOCK FALSE

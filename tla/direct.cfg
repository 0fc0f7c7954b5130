SPECIFICATION FairSpec
CONSTANTS
  t1 = t1
  Id = {t1}
  Slots = 1
  MaxBreaks = 1
  MaxRestarts = 2
  Restarts = {"a", "b"}
  Removes = {"a", "b"}
INVARIANTS
  TypeOK
  AckDurable
  QueueDurable
  SentIsAccounted
PROPERTIES
  Arrives
CHECK_DEADLOCK FALSE

SPECIFICATION FairSpec
CONSTANTS
  j1 = j1
  Joiner = {j1}
  Tries = 2
  MaxInvites = 1
  MaxJobs = 2
  MaxTroubles = 1
INVARIANTS
  TypeOK
  PairedByConsent
  WelcomeIsSaved
  RequestReachable
PROPERTIES
  HandshakesEnd
CHECK_DEADLOCK FALSE

SPECIFICATION FairSpec
CONSTANTS
  four = four
  six = six
  None = None
  NumServers = 2
  Rounds = 2
  Tries = 2
  Addrs <- SomeAddrs
  V6 <- SomeV6
CHECK_DEADLOCK FALSE
INVARIANTS
  TypeOK
PROPERTIES
  ConeIsCone
  ToldIsAnswered
  TestShrinks
  TestEnds

SPECIFICATION Spec
CONSTANTS
  four = four
  six = six
  None = None
  NumServers = 1
  Rounds = 2
  Tries = 2
  Addrs <- SomeAddrs
  V6 <- SomeV6
CHECK_DEADLOCK FALSE
PROPERTIES
  SecondAddressCounts

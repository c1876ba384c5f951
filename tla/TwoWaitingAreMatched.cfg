CONSTANTS
  a = a
  b = b
  c = c
  d = d
  NoUser = NoUser
  MaxHandlers = 2
  Users = {a, b}
  Bounds <- TwoUsers
SPECIFICATION FairSpec
PROPERTIES TwoWaitingAreMatched
CHECK_DEADLOCK FALSE

CONSTANTS
  BoardSize = 9
  MaxTurnOverCnt = 2
  Regions <- Crosses
SPECIFICATION Spec
INVARIANTS RefusesDoubleThreesOnly
CHECK_DEADLOCK FALSE

CONSTANTS
  BoardSize = 9
  MaxTurnOverCnt = 2
  Regions <- LinesAndCrosses
SPECIFICATION Spec
INVARIANTS TypeOK RunningHasNoFive StonesCounted RefusesGapsOfThree
PROPERTIES FollowsRules
CHECK_DEADLOCK FALSE

SPECIFICATION Spec
CHECK_DEADLOCK FALSE
CONSTANTS
  M = 3
  MaxDay = 7
  MaxRemovalDay = 5
  MaxNode = 12
  Versions = 1
  NULL = 0
  Modes = {"new days", "removal"}
  Day <- MCDay
  DaysOf <- MCDaysOf
  Addr <- MCAddr
  TreesFor <- MCTreesFor
INVARIANT SplitsKeepShape
INVARIANT AnswersAreSound
PROPERTY ImplementsDayIndex

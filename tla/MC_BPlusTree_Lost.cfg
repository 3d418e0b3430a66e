SPECIFICATION Spec
CHECK_DEADLOCK FALSE
CONSTANTS
  M = 3
  MaxDay = 3
  MaxRemovalDay = 3
  MaxNode = 12
  Versions = 1
  NULL = 0
  Modes = {"removal"}
  Day <- MCDay
  DaysOf <- MCDaysOf
  Addr <- MCAddr
  TreesFor <- MCTreesFor
INVARIANT SearchFindsEveryDay

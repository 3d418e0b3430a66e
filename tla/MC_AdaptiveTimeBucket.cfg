SPECIFICATION FairSpec
CONSTANTS
  Records = 4
  SecondsPerDay = 6
  LocatorSlots = 3
  Config <- MCConfig
  Input <- MCInput
  QueryTime <- MCQueryTime
INVARIANT BucketsHoldEveryRecord
INVARIANT SlotsAreSplitOnlyWhenForced
INVARIANT LocatorNeverSkips
INVARIANT WalkIsExact
PROPERTY WalkTerminates

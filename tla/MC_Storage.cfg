SPECIFICATION MCSpec
CHECK_DEADLOCK FALSE
CONSTANTS
  Key = {"a", "b"}
  NumPages = 3
  PageItems = 2
  Batch = 2
  BufferPages = 3
  Counts = {0, 1, 3}
  Positional = {"b"}
  ValuesFor <- MCValuesFor
  W = 3
  MaxSize = 7
  Object = {"x", "y", "z"}
  Hashers <- MCHashers
  Max = 3
  Decay = 2
  Capacity = 2
  MaxCalls = 5
INVARIANT PagesHoldEveryItem
INVARIANT PagesHaveOneOwner
INVARIANT BlocksHoldTheBits
INVARIANT CountsHold
INVARIANT RecentlyAddedIsFound
PROPERTY GetIsExact

SPECIFICATION MCSpec
CONSTANTS
  Record = {1, 2}
  Axis = {"x", "y"}
  GridBits = 3
  Ranges <- MCRanges
  MaxAttr = 4
  Schemes = {"tdag", "qdag", "i1"}
  Coord = {"x", "y"}
  Levels = 2
  Row1 <- MCRow1
  Row2 <- MCRow2
  MaxRows <- MCMaxRows
  Box <- MCBox
  SlotsPerDay = 2
  Times <- MCTimes
  MaxWrong = 1
  Searches = {"labels", "join"}
INVARIANT QueryMissesNothing
INVARIANT CoverIsSmallest
INVARIANT JoinAnswersAreExact
INVARIANT ClientReadsTheBox

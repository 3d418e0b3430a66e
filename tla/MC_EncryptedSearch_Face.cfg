SPECIFICATION MCSpec
CONSTANTS
  Record = {1, 2}
  Axis = {"x", "y"}
  GridBits = 2
  Ranges <- MCExactRanges
  MaxAttr = 1
  Schemes = {"qdag"}
  Coord = {"x", "y"}
  Levels = 2
  Row1 <- MCRow1
  Row2 <- MCRow2
  MaxRows <- MCMaxRows
  Box <- MCBox
  SlotsPerDay = 2
  Times <- MCTimes
  MaxWrong = 1
  Searches = {"labels"}
INVARIANT AnswerIncludesTruth

SPECIFICATION Spec
SYMMETRY RecordSymmetry
CHECK_DEADLOCK FALSE
CONSTANTS
  Height = 1
  Modes = {"mixed"}
  k1 = k1
  k2 = k2
  Keyword = {k1, k2}
  Bit = {1, 2, 3}
  Hash <- MCHash
  MaxShareDistance = 2
  KeywordLists = {{k1}, {k2}}
  Record = {r1, r2, r3}
  NULL = NULL
  Node <- MCNode
  Obj <- MCObj
INVARIANT NoFalseNegative

SPECIFICATION Spec
SYMMETRY RecordSymmetry
CONSTANTS
  N = 3
  NumSlots = 3
  k1 = k1
  k2 = k2
  Keyword = {k1, k2}
  Bit = {1, 2, 3}
  Hash <- MCHash
  MaxShareDistance = 1
  KeywordLists = {{k1}, {k2}}
  Record = {r1, r2, r3}
  NULL = NULL
  Node <- MCNode
  Obj <- MCObj
  Span <- MCSpan
INVARIANT TypeOK
INVARIANT NoFalseNegative
PROPERTY LeafFiltersOnlyGrow
PROPERTY ImplementsSupersetIndex

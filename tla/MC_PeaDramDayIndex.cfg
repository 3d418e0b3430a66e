SPECIFICATION Spec
CONSTANTS
  r1 = r1
  r2 = r2
  NULL = NULL
  Day <- MCDay
  Tree = {r1, r2}
  HashCan = {"store", "fail"}
INVARIANT TypeOK
INVARIANT LinksFollowMap
INVARIANT LookupMissesOnlyFailedDays
INVARIANT WalkFindsRange
PROPERTY WalkMovesOn

CONSTANTS
  a = a
  b = b
  c = c
  Empty = Empty
  BundleIdxCount = 2
  ItemsPerBundle = 1
  Item <- MCItem
  Loc <- MCLoc
  MaxCaches = 2
  EqualCaches = FALSE
  ThreadCount = 2
SPECIFICATION Spec
INVARIANTS PackagesBalance AllReceived MatchesSound CardinalityExact
PROPERTY MatrixWritten

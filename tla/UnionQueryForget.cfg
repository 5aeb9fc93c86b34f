CONSTANTS
  a = a
  b = b
  c = c
  Empty = Empty
  BundleIdxCount = 2
  ItemsPerBundle = 1
  Item <- MCItem
  Loc <- MCLoc
  MaxCaches = 2
  EqualCaches = TRUE
  ThreadCount = 2
SPECIFICATION Spec
INVARIANT NothingForgotten

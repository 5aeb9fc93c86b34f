CONSTANTS
  a = a
  b = b
  c = c
  Empty = Empty
  BundleIdxCount = 2
  ItemsPerBundle = 2
  Item <- MCItemWide
  Loc <- MCLocWide
  MaxCaches = 1
  EqualCaches = TRUE
  ThreadCount = 2
SPECIFICATION FairSpec
PROPERTIES RefinesUnion QueryAnswered

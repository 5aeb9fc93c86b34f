SPECIFICATION SpecData
CONSTANTS
  Item = {"w", "x", "y", "z"}
  Empty = "none"
  TableSize = 4
  ItemsPerBundle = 2
  Loc <- Locations
  InsertAttempts = 3
  Felts <- Elements
  PlainModulus = 7
  SourcePowers = {1, 3, 6}
  MaxItems = 4
INVARIANTS PermutedShares TagsKept QueryRight PackingInjective LabelAtItsItem
PROPERTY RoundTrips
CHECK_DEADLOCK FALSE

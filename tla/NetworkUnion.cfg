SPECIFICATION SpecNetwork
CONSTANTS
  Builds <- AllBuilds
  MaxParts = 3
  Blobs = {d, e}
  Ciphertexts = {c}
  Foreign = {f}
  Exponents = {1, 3}
  Counts = {0, 1}
  NoValue = none
  MaxLoads = 2
  QueriesServed = 1
  Points = 2
  PointLen = 2
  FlagLen = 2
  BufferSize = 3
  Capacity = 2
  MayAbort = TRUE
PROPERTY UnionWritten
CHECK_DEADLOCK FALSE

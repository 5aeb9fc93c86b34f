SPECIFICATION MCSpec
CONSTANTS
  NumBins = 4
  MaxBinSize = 3
  LabelSize = 0
  BundleIdxCount = 2
  Item <- Items
  Parts <- SharedParts
  Locations <- Rows
  InsertBatches <- PlainBatches
  RemoveBatches <- ItemBatches
  MixedBatches = TRUE
  RemoveAbsent = FALSE
  MaxBundles = 9
INVARIANTS BundlesRight ServedLabelsAgree HashedAreHeld
PROPERTIES CallsEnd ImplementsMap

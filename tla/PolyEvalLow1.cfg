CONSTANTS
  MaxItemsPerBin = 4
  PsLowDegrees = {1}
  Unset = Unset
SPECIFICATION Spec
INVARIANT NonZeroLowDegreeEvaluates

SPECIFICATION SpecUse
CONSTANTS
  MaxItemsPerBin = 7
  PsLowDegrees = {0, 2, 3, 4, 5, 6}
  Unset = Unset
INVARIANTS PolynomialEvaluated AcceptedAreUsable
PROPERTY SidesAgree

CONSTANTS
  w1 = w1
  w2 = w2
  w3 = w3
  Worker <- MCWorker
  Order <- MCOrder
  TargetCount = 5
  TargetVec <- MCTargetVec
  Parents <- MCParents
  MaxThrows = 2
SPECIFICATION SpecThrows
INVARIANTS RightInFrame HarmlessInFrame
PROPERTIES FinalInFrame ReturnsUnlessThrown
CHECK_DEADLOCK FALSE

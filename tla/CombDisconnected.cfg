SPECIFICATION Spec
CONSTANTS
  CombGraphs <- AnyGraph
  CountInputs <- NoCounts
INVARIANTS AssertionsHold

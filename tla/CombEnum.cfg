SPECIFICATION Spec
CONSTANTS
  CombGraphs <- Enumerated
  CountInputs <- Counted
INVARIANTS PmcsExact MinSepsExact CountExact AssertionsHold

SPECIFICATION FairSpec
CONSTANTS
  TreewidthCalls <- Calls
  McsMGraphs <- Searched
  MaxVertices = 6
INVARIANTS BucketsExact TreewidthExact FillIsMinimal AtomsExact
PROPERTIES IsMaximumCardinalitySearch IsMcsM

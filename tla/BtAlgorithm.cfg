SPECIFICATION Spec
CONSTANTS
  Graphs <- AllGiven
  Inputs <- Given
INVARIANTS ResultIsBest FillTriangulates SolveAssertions
PROPERTIES EntriesFinalWhenRead

SPECIFICATION Spec
CONSTANTS
  Graphs <- ThreeEdges
  Encodings = {0, 1, 2, 3, 5}
  CardEncodings = {1}
  Simplifies = TRUE
PROPERTIES TotalizerOnLiveVars

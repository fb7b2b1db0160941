SPECIFICATION Spec
CONSTANTS
  Graphs <- LiveFamily
  Encodings = {0, 1, 2, 3, 5}
  CardEncodings = {0}
  Simplifies = TRUE
PROPERTIES ClausesOnLiveVars

SPECIFICATION FairSpec
CONSTANTS
  Graphs <- SmallInputs
  Encodings = {0, 1, 2, 3, 4, 5}
  CardEncodings = {0, 1}
  Simplifies = TRUE
INVARIANTS TypeOK SearchInvariant RoundExact NoPmcLost BlockAssertions
PROPERTIES BadModelExcluded ImplementsPmcEnumeration ReusedMinsepVarsLive RoundReturns

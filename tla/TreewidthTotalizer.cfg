SPECIFICATION TSpec
CONSTANTS
  Inputs <- ReadAsIs
  Methods = {"totalizer"}
INVARIANTS BuildToSizeAssertion

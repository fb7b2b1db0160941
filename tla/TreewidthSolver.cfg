SPECIFICATION TSpec
CONSTANTS
  Inputs <- Read
  Methods <- AllMethods
INVARIANTS TypeOK TreewidthPreserved AssertionsHold FillRecorded
PROPERTIES StartsOverSimpler Terminates

SPECIFICATION Spec
CONSTANTS
  Hypergraphs <- Read
  Methods <- AllMethods
INVARIANTS WidthPreserved AssertionsHold
PROPERTIES SolvedInItsRound Terminates

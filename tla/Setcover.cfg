SPECIFICATION Spec
CONSTANTS
  Families <- SmallFamilies
  Bounds <- SmallBounds
  MaxCalls = 2
INVARIANTS AnswerCorrect SearchComplete ExclusionsUndone

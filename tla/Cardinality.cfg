SPECIFICATION Spec
CONSTANT Instances <- SomeInstances
INVARIANTS CountsExact FoundInItsRound AddEqualExact
PROPERTY ClausesOnKeptVars

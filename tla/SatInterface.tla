---------------------------- MODULE SatInterface ----------------------------
(***************************************************************************)
(* SatInterface, SatHelper and the classes that pass clauses on to the SAT   *)
(* solvers (sat_interface.cpp, minisat_interface.cpp, glucose_interface.cpp,  *)
(* mapleglucose_interface.cpp, cryptominisat_interface.cpp,                  *)
(* ipasir_interface.cpp).  A Lit is a variable with a sign, TRUE for the      *)
(* variable itself, and a clause the set of its literals.  A variable is       *)
(* named <<what it is for, a, b, c>>, and not by its number.                 *)
(***************************************************************************)
EXTENDS Integers, FiniteSets

VARIABLES solver,    \* the name that the driver SatSolver is given
          made,      \* the variables that NewVar has returned
          clauses,   \* the clauses that the external solver has, in its own literals
          frozen,    \* the variables it was told not to remove
          removable, \* those it may have removed in a Solve before
          state,     \* state_ of IpasirInterface
          model      \* the variables that are true in the external solver's model

interface == <<solver, made, clauses, frozen, removable, state, model>>

Solvers == {"minisat", "glucose", "mapleglucose", "minisatnopp", "glucosenopp",
            "cryptominisat", "ipasir"}

Pos(v) == <<v, TRUE>>
Minus(lit) == <<lit[1], ~lit[2]>>
TrueLit == Pos(<<"true", 0, 0, 0>>)
FalseLit == Minus(TrueLit)
\* A Lit that no value was given to.
NoLit == Pos(<<"none", 0, 0, 0>>)

\* SatHelper::ProcessClause.
ProcessClause(clause) ==
  IF TrueLit \in clause \/ \E lit \in clause : Minus(lit) \in clause
  THEN {TrueLit}
  ELSE clause \ {FalseLit}

\* These pass every literal on with its sign turned around.
Inverts == solver \in {"minisat", "glucose", "mapleglucose", "minisatnopp", "glucosenopp"}

External(lit) == IF Inverts THEN Minus(lit) ELSE lit

\* The arguments solver classes are made with: preprocess_.
Preprocesses == solver \in {"minisat", "glucose", "mapleglucose"}

\* AddClause, for each of the clauses.
Passed(cls) ==
  {{External(lit) : lit \in clause} : clause \in {ProcessClause(cl) : cl \in cls} \ {{TrueLit}}}

\* The assertions of AddClause: every literal has a value, of a variable there is.
AreAddable(cls, vs) ==
  \A clause \in cls : NoLit \notin clause /\ \A lit \in ProcessClause(clause) :
    lit = TrueLit \/ lit[1] \in vs

\* Planted fault: the value is not turned around for the literals that are.
SolutionValueStraight(lit) ==
  CASE lit = TrueLit -> TRUE
    [] lit = FalseLit -> FALSE
    [] OTHER -> lit[2] = (lit[1] \in model)

\* SolutionValue, in a state where there is a model.
SolutionValue(lit) ==
  CASE lit = TrueLit -> TRUE
    [] lit = FalseLit -> FALSE
    [] OTHER -> lit[2] = IF Inverts THEN lit[1] \notin model ELSE lit[1] \in model

\* The assertion of IpasirInterface::SolutionValue.
MayReadValues == solver = "ipasir" => state = "kSat"

\* FreezeVar does something for solvers that preprocess only.
Freeze(vs) == frozen' = IF Preprocesses THEN frozen \cup vs ELSE frozen

\* What follows from clauses when the literals are set, by unit propagation.
RECURSIVE Propagate(_, _)
Propagate(cls, lits) ==
  LET more == lits \cup UNION {{lit \in clause : \A other \in clause \ {lit} : Minus(other) \in lits} :
                                clause \in cls}
  IN  IF more = lits THEN lits ELSE Propagate(cls, more)

IsConsistent(lits) == \A lit \in lits : Minus(lit) \notin lits
=============================================================================

---------------------------- MODULE Enumerator ----------------------------
(***************************************************************************)
(* Enumerator with FixedSizeEnumerator and FixedSizeHyperEnumerator          *)
(* (enumerator.cpp, fixed_size_enumerator.cpp,                               *)
(* fixed_size_hyper_enumerator.cpp): the search for the potential maximal    *)
(* cliques of a graph with an incremental SAT solver, one size k after the    *)
(* other.  The size of a clique is the number of its vertices, or in a        *)
(* hypergraph, which is its primal graph with a sequence of edges, the least  *)
(* number of edges that cover it.                                           *)
(*                                                                         *)
(* The solver is external.  It holds the encoding that the constructor      *)
(* builds, of which only the selection variables x and the connectivity      *)
(* variables c are kept here (the other variables are bound by them), the    *)
(* clauses added since, and it answers Solve with any model or with UNSAT.  *)
(* x is the set of selected vertices, c the set of connected pairs.  The     *)
(* loop of BlockBadSolution that shrinks a separator is a step of its own    *)
(* for each turn, so that what it maintains can be stated.                  *)
(***************************************************************************)
EXTENDS GraphOps, TotalizerTree, Sequences

CONSTANTS Graphs,          \* the graphs and hypergraphs there may be enumerators for
          Encodings,       \* the values of minsep_encoding, of 0 .. 5
          CardEncodings,   \* the values of card_encoding, of 0 .. 1
          Simplifies       \* the solver preprocesses when a Solve allows it

\* A graph that is read from a file has an edge, or no vertex at all; one that
\* is not empty is assumed.
ASSUME GraphsAssumption == \A g \in Graphs : IsGraph(g) /\ g.n >= 1

IsHyper(g) == "edges" \in DOMAIN g

ASSUME HypergraphsAssumption ==
  \A g \in Graphs : IsHyper(g) =>
    /\ g.edges \in Seq(SUBSET V(g))
    /\ g.adj = UNION {Pairs(g.edges[i]) : i \in DOMAIN g.edges}
ASSUME EncodingsAssumption == /\ Encodings \subseteq 0 .. 5
                              /\ CardEncodings \subseteq 0 .. 1
ASSUME SimplifiesAssumption == Simplifies \in BOOLEAN

VARIABLES graph,            \* graph_
          minsep_encoding,  \* minsep_encoding_
          card_encoding,    \* card_encoding_
          pc,               \* where the enumerator is
          k,                \* the size asked for
          first_call,       \* no clique has been found in this round yet
          x,                \* the last model: selected vertices
          c,                \* the last model: connected pairs
          minsep,           \* the separator BlockBadSolution is shrinking
          kept,             \* its vertices before the loop index
          minsep_vars,      \* the keys of minsep_vars_
          pair_clauses,     \* <<S, p>>: all of S selected => p not connected
          blocked,          \* the cliques with a block clause in the solver
          pmcs,             \* the cliques found in this round
          pmcs_found,       \* the counter of EnumeratorStats
          eliminable        \* solver variables that preprocessing may have removed

params == <<graph, minsep_encoding, card_encoding>>
model == <<x, c>>
loop == <<minsep, kept>>
clauses == <<minsep_vars, pair_clauses, blocked>>
results == <<pmcs, pmcs_found>>
vars == <<params, pc, k, first_call, model, loop, clauses, results, eliminable>>

-----------------------------------------------------------------------------
(* The graph queries, tabulated once for each graph. *)

Connected == [g \in Graphs |-> [S \in SUBSET V(g) |-> ConnectedMatrix(g, S)]]

Pmcs == [g \in Graphs |-> {X \in SUBSET V(g) : IsPmcIn(g, X, Connected[g][X])}]

\* The inputs of the cardinality constraint: the vertices, or the edges.
NumInputs(g) == IF IsHyper(g) THEN Len(g.edges) ELSE g.n

\* The clauses of FixedSizeHyperEnumerator: a selected vertex is in an edge of S.
Covers(g, S, X) == \A v \in X : \E i \in S : v \in g.edges[i]

\* How many inputs may be true when X is selected.
InputCounts ==
  [g \in Graphs |-> [X \in SUBSET V(g) |->
     IF IsHyper(g) THEN {Cardinality(S) : S \in {T \in SUBSET (DOMAIN g.edges) : Covers(g, T, X)}}
                   ELSE {Cardinality(X)}]]

-----------------------------------------------------------------------------
(* The encoding that the constructor gives to the solver. *)

\* Enumerator::BuildBasicEncoding: edges are connected, connectivity goes on
\* through unselected vertices, selected vertices are connected, and every
\* other vertex misses one of them.
BasicEncoding(g, X, C) ==
  /\ g.adj \subseteq C
  /\ \A i \in V(g) : \A ii \in V(g) \ ({i} \cup X) : \A iii \in Neighbors(g, ii) \ {i} :
       {i, ii} \in C => {i, iii} \in C
  /\ Pairs(X) \subseteq C
  /\ \A i \in V(g) \ X : \E ii \in X : {i, ii} \notin C

\* Planted fault: inner vertices may be selected.
PathLengthPairsAnyInner(g, X) == Pairs(V(g))

\* Enumerator::BuildPathLengthEncoding: the pairs that cl_var[n-1] can be true
\* of, those with a path of at most n - 1 edges whose inner vertices are not
\* selected.
PathLengthPairs(g, X) ==
  LET cl[j \in 1 .. g.n] ==
        IF j = 1 THEN g.adj
        ELSE LET prev == cl[j - 1]
                 Step(i, ii) == \E iii \in Neighbors(g, ii) \ ({i} \cup X) :
                                  {i, iii} \in prev
             IN  g.adj \cup {e \in Pairs(V(g)) :
                               \A i, ii \in e : i # ii => Step(i, ii)}
  IN  IF g.n = 1 THEN {} ELSE cl[g.n - 1]

\* The models of the clauses that the constructor adds.
EncodingModels ==
  [g \in Graphs |->
    [enc \in Encodings |->
      {m \in [x : SUBSET V(g),
              c : {g.adj \cup F : F \in SUBSET (Pairs(V(g)) \ g.adj)}] :
         /\ BasicEncoding(g, m.x, m.c)
         /\ enc = 4 => m.c \subseteq PathLengthPairs(g, m.x)}]]

\* Planted fault: the assumptions leave one output more undecided.
SizeAssumedOffByOne(X) ==
  \E count \in InputCounts[graph][X] :
    IF card_encoding = 0 THEN count \in {Min2(k, NumInputs(graph)), k + 1}
                         ELSE count <= k + 1

\* The assumptions of AllPmcs on the outputs of the cardinality constraint, the
\* first k of which are true if there are as many: a cardinality network counts
\* in both directions, a totalizer upwards only.
SizeAssumed(X) ==
  \E count \in InputCounts[graph][X] :
    IF card_encoding = 0 THEN count = Min2(k, NumInputs(graph)) ELSE count <= k

\* A model satisfies the clauses of BlockBadSolution.
Satisfies(m, cls) == \A cl \in cls : cl[1] \subseteq m.x => cl[2] \notin m.c

\* The models that Solve may return.
SolverModels ==
  {m \in EncodingModels[graph][minsep_encoding] :
     /\ SizeAssumed(m.x)
     /\ m.x \notin blocked
     /\ Satisfies(m, pair_clauses)}

\* Planted fault: encoding 1 does not freeze the separator variables either.
UnfrozenVarsMore ==
  {<<"c", p>> : p \in Pairs(V(graph)) \ graph.adj}
    \cup {<<"minsep", S>> : S \in IF minsep_encoding \in {0, 1, 5} THEN minsep_vars ELSE {}}
    \cup {<<"edge", i>> : i \in IF IsHyper(graph) THEN DOMAIN graph.edges ELSE {}}

\* Solver variables that were never frozen: every c variable, with the encodings
\* 0 and 5 the separator variables, and the edge variables of a hypergraph.
UnfrozenVars ==
  {<<"c", p>> : p \in Pairs(V(graph)) \ graph.adj}
    \cup {<<"minsep", S>> : S \in IF minsep_encoding \in {0, 5} THEN minsep_vars ELSE {}}
    \cup {<<"edge", i>> : i \in IF IsHyper(graph) THEN DOMAIN graph.edges ELSE {}}

\* Solve(assumptions, first_call) simplifies if the solver does at all.
Simplify == eliminable' = IF Simplifies /\ first_call THEN eliminable \cup UnfrozenVars
                                                      ELSE eliminable

-----------------------------------------------------------------------------
(* The clauses that BlockBadSolution adds. *)

\* Enumerator::IsBadSep: some connected pair is not connected around S.
IsBadSep(S, C) == ~(C \subseteq Connected[graph][S])

CrossPairs(A, B) == {{v, u} : v \in A, u \in B}

\* Planted fault: the second component may be the first.
CrossSetsWithSelf(S) ==
  LET Cs == Components(graph, S)
  IN  UNION {{CrossPairs(A, B) : B \in Cs} : A \in Cs}

\* The pairs of two components of graph - S, for each two of them.
CrossSets(S) ==
  LET Cs == Components(graph, S)
  IN  UNION {{CrossPairs(A, B) : B \in Cs \ {A}} : A \in Cs}

\* Planted fault: the test of the model's value is left out or turned around.
PairChoicesUntested(enc, S, C) ==
  LET Crosses == CrossSets(S)
      Broken == {X \in Crosses : X \cap C # {}}
  IN  CASE enc \in {0, 5} -> {UNION Crosses}
        [] enc = 1 -> {(UNION Broken) \ C}
        [] enc = 2 -> {P \in SUBSET (UNION Broken) :
                         \A X \in Broken : Cardinality(P \cap X) = 1}
        [] enc = 3 -> {UNION Broken}
        [] OTHER -> {}

\* The sets of pairs the switch of BlockBadSolution may add clauses for: all
\* pairs (0, 5), the broken ones (1), one broken pair for each two components
\* (2, whichever the shuffles put first), all pairs of broken components (3).
PairChoices(enc, S, C) ==
  LET Crosses == CrossSets(S)
      Broken == {X \in Crosses : X \cap C # {}}
  IN  CASE enc \in {0, 5} -> {UNION Crosses}
        [] enc = 1 -> {(UNION Broken) \cap C}
        [] enc = 2 -> {P \in SUBSET ((UNION Broken) \cap C) :
                         \A X \in Broken : Cardinality(P \cap X) = 1}
        [] enc = 3 -> {UNION Broken}
        [] OTHER -> {}

-----------------------------------------------------------------------------
TypeOK ==
  /\ graph \in Graphs
  /\ minsep_encoding \in Encodings
  /\ card_encoding \in CardEncodings
  /\ pc \in {"idle", "solve", "classify", "minimize", "stopped", "aborted"}
  /\ k \in 0 .. graph.n
  /\ first_call \in BOOLEAN
  /\ x \in SUBSET V(graph)
  /\ c \in SUBSET Pairs(V(graph))
  /\ minsep \in SUBSET V(graph)
  /\ kept \in SUBSET minsep
  /\ minsep_vars \in SUBSET SUBSET V(graph)
  /\ pair_clauses \in SUBSET ((SUBSET V(graph)) \X Pairs(V(graph)))
  /\ blocked \in SUBSET SUBSET V(graph)
  /\ pmcs \in SUBSET blocked
  /\ pmcs_found \in Nat
  /\ eliminable \in SUBSET (({"c", "minsep"} \X (SUBSET V(graph))) \cup ({"edge"} \X Nat))

Init ==
  /\ graph \in Graphs
  /\ minsep_encoding \in Encodings
  /\ card_encoding \in CardEncodings
  /\ pc = "idle"
  /\ k = 0
  /\ first_call = TRUE
  /\ x = {} /\ c = {}
  /\ minsep = {} /\ kept = {}
  /\ minsep_vars = {} /\ pair_clauses = {}
  /\ blocked = {} /\ pmcs = {}
  /\ pmcs_found = 0
  /\ eliminable = {}

\* TotalizerBuilder::BuildToSize(size) asserts that size inputs exist.
BuildToSizeOk(size) == size <= NumInputs(graph)

\* AllPmcs(k) of either class up to its loop, called for k = 1, 2, ...
AllPmcs ==
  /\ pc = "idle" /\ k < graph.n
  /\ card_encoding = 1 => BuildToSizeOk(k + 2)
  /\ k' = k + 1
  /\ pc' = "solve"
  /\ first_call' = TRUE
  /\ pmcs' = {}
  /\ UNCHANGED <<params, model, loop, clauses, pmcs_found, eliminable>>

\* The assertion of BuildToSize ends the program.
AllPmcsAborts ==
  /\ pc = "idle" /\ k < graph.n
  /\ card_encoding = 1 /\ ~BuildToSizeOk(k + 2)
  /\ pc' = "aborted"
  /\ UNCHANGED <<params, k, first_call, model, loop, clauses, results, eliminable>>

\* GetPmc: Solve finds a model, and its values are read.
SolveSat ==
  /\ pc = "solve"
  /\ \E m \in SolverModels : x' = m.x /\ c' = m.c
  /\ Simplify
  /\ pc' = "classify"
  /\ UNCHANGED <<params, k, first_call, loop, clauses, results>>

\* GetPmc returns the empty vector and AllPmcs its result.
SolveUnsat ==
  /\ pc = "solve"
  /\ SolverModels = {}
  /\ Simplify
  /\ pc' = "idle"
  /\ x' = {} /\ c' = {}
  /\ UNCHANGED <<params, k, first_call, loop, clauses, results>>

\* Planted fault: the block clause is not added.
FoundPmcUnblocked ==
  /\ pc = "classify"
  /\ x \in Pmcs[graph]
  /\ pmcs' = pmcs \cup {x}
  /\ pmcs_found' = pmcs_found + 1
  /\ first_call' = FALSE
  /\ pc' = "solve"
  /\ x' = {} /\ c' = {}
  /\ UNCHANGED <<params, k, loop, clauses, eliminable>>

\* GetPmc: the model is a clique; it is blocked, counted and returned, and
\* AllPmcs asks for the next one.
FoundPmc ==
  /\ pc = "classify"
  /\ x \in Pmcs[graph]
  /\ blocked' = blocked \cup {x}
  /\ pmcs' = pmcs \cup {x}
  /\ pmcs_found' = pmcs_found + 1
  /\ first_call' = FALSE
  /\ pc' = "solve"
  /\ x' = {} /\ c' = {}
  /\ UNCHANGED <<params, k, loop, minsep_vars, pair_clauses, eliminable>>

\* GetPmc: the model is no clique; BlockBadSolution starts from all of it.
FoundBad ==
  /\ pc = "classify"
  /\ x \notin Pmcs[graph]
  /\ minsep' = x
  /\ kept' = {}
  /\ pc' = "minimize"
  /\ UNCHANGED <<params, k, first_call, model, clauses, results, eliminable>>

\* Planted fault: the index is not set back when an element is dropped, and
\* the element that takes its place is passed over.
ShrinkSkipping(v) ==
  /\ pc = "minimize"
  /\ v \in minsep \ kept
  /\ \A u \in minsep \ kept : v <= u
  /\ IF IsBadSep(minsep \ {v}, c)
     THEN /\ minsep' = minsep \ {v}
          /\ kept' = kept \cup {u \in minsep' \ kept : \A w \in minsep' \ kept : u <= w}
     ELSE kept' = kept \cup {v} /\ UNCHANGED minsep
  /\ UNCHANGED <<params, pc, k, first_call, model, clauses, results, eliminable>>

\* One turn of the shrinking loop: v is the element at the index, dropped if
\* the rest still separates a connected pair and passed over if not.
Shrink(v) ==
  /\ pc = "minimize"
  /\ v \in minsep \ kept
  /\ \A u \in minsep \ kept : v <= u
  /\ IF IsBadSep(minsep \ {v}, c)
     THEN minsep' = minsep \ {v} /\ UNCHANGED kept
     ELSE kept' = kept \cup {v} /\ UNCHANGED minsep
  /\ UNCHANGED <<params, pc, k, first_call, model, clauses, results, eliminable>>

\* The rest of BlockBadSolution: the separator's variable, made unless the
\* separator is known, and its clauses.
BlockSeparator ==
  /\ pc = "minimize"
  /\ kept = minsep
  /\ minsep_vars' = minsep_vars \cup {minsep}
  /\ \E P \in PairChoices(minsep_encoding, minsep, c) :
       pair_clauses' = pair_clauses \cup {<<minsep, p>> : p \in P}
  /\ minsep' = {} /\ kept' = {}
  /\ x' = {} /\ c' = {}
  /\ pc' = "solve"
  /\ UNCHANGED <<params, k, first_call, blocked, results, eliminable>>

\* The caller has what it needs, or has asked for every size.
Stop ==
  /\ pc = "idle"
  /\ pc' = "stopped"
  /\ UNCHANGED <<params, k, first_call, model, loop, clauses, results, eliminable>>

Ended == pc \in {"stopped", "aborted"} /\ UNCHANGED vars

Step == \/ SolveSat \/ SolveUnsat \/ FoundPmc \/ FoundBad
        \/ (\E v \in V(graph) : Shrink(v))
        \/ BlockSeparator

Next == AllPmcs \/ AllPmcsAborts \/ Step \/ Stop \/ Ended

Spec == Init /\ [][Next]_vars

\* The solver answers every call, and the program goes on.
FairSpec == Spec /\ WF_vars(Next)

-----------------------------------------------------------------------------
(* Properties *)

OfSizeAtMost(s) == {X \in Pmcs[graph] : \E count \in InputCounts[graph][X] : count <= s}

\* Added pair clauses are about pairs that their separator separates.
ClauseInv == \A cl \in pair_clauses : /\ cl[1] \in SUBSET V(graph)
                                      /\ cl[2] \notin Connected[graph][cl[1]]

\* The model being looked at satisfies all that the solver holds.
ModelInv == pc \in {"classify", "minimize"} => [x |-> x, c |-> c] \in SolverModels

\* The shrinking loop keeps a set that separates a connected pair, and no
\* vertex that it has passed over can be dropped, then or later.
LoopInv ==
  pc = "minimize" =>
    /\ x \notin Pmcs[graph]
    /\ minsep \subseteq x
    /\ IsBadSep(minsep, c)
    /\ \A v \in kept : ~IsBadSep(minsep \ {v}, c)

\* The sizes whose cliques have all been found.
Completed == IF pc \in {"solve", "classify", "minimize"} THEN k - 1 ELSE k

\* The rounds find potential maximal cliques only, those of the completed
\* sizes all, and each is counted once.
RoundInv ==
  /\ blocked \subseteq OfSizeAtMost(k)
  /\ OfSizeAtMost(Completed) \subseteq blocked
  /\ pmcs = blocked \ OfSizeAtMost(k - 1)
  /\ pmcs_found = Cardinality(blocked)

\* What is true at every step of the search, and is preserved by each: the
\* clauses are sound, the model at hand satisfies what the solver holds, the
\* shrinking loop cannot undo its progress, and the rounds leave nothing over.
SearchInvariant == ClauseInv /\ ModelInv /\ LoopInv /\ RoundInv

\* When AllPmcs(k) returns, the round has found every potential maximal clique
\* of size k and nothing else, and no clique was found twice in all the rounds so
\* far.  With the totalizer, which only bounds the size from above, and for
\* hypergraphs, where more edges than needed may be chosen, this rests on the
\* earlier rounds having left nothing over.
RoundExact ==
  pc = "idle" /\ k > 0 =>
    /\ pmcs = OfSizeAtMost(k) \ OfSizeAtMost(k - 1)
    /\ blocked = OfSizeAtMost(k)
    /\ pmcs_found = Cardinality(blocked)

\* The clauses of BlockBadSolution never exclude a potential maximal clique:
\* the true connectivity around it satisfies all of them.
NoPmcLost ==
  \A X \in Pmcs[graph] : Satisfies([x |-> X, c |-> Connected[graph][X]], pair_clauses)

\* The two assertions of BlockBadSolution, and its default case: a model that
\* is no clique has a connected pair that its vertices separate, the shrunk set
\* leaves at least two components, and encoding 4 never gets here.
BlockAssertions ==
  /\ pc = "classify" /\ x \notin Pmcs[graph] => IsBadSep(x, c)
  /\ pc = "minimize" => /\ minsep_encoding # 4
                        /\ kept = minsep => Cardinality(Components(graph, minsep)) >= 2

\* What the shrinking loop leaves is a minimal separator of the graph, so the
\* map minsep_vars_ never holds more entries than the graph has separators.
MinsepsAreMinimal ==
  \A S \in minsep_vars :
    \E C, D \in Components(graph, S) : /\ C # D
                                       /\ NeighborsOf(graph, C) = S
                                       /\ NeighborsOf(graph, D) = S

\* BlockBadSolution excludes the model it was called for, whichever pairs the
\* encoding chooses: without that the solver could return it forever.
BadModelExcluded ==
  [][BlockSeparator => ~Satisfies([x |-> x, c |-> c], pair_clauses')]_vars

\* Every call of AllPmcs returns, whichever models the solver gives.
RoundReturns == (pc = "solve") ~> (pc = "idle")

\* A separator variable is never referred to after a preprocessing Solve may
\* have removed it: encodings 1 to 3, which find separators again, freeze it,
\* and encodings 0 and 5, which do not freeze it, never find one again.
ReusedMinsepVarsLive == [][BlockSeparator => <<"minsep", minsep>> \notin eliminable]_vars

\* The comment in BlockBadSolution says that a variable which a later clause
\* refers to should be frozen: no added clause refers to a variable that a
\* preprocessing Solve may have removed.
ClausesOnLiveVars ==
  [][\A cl \in pair_clauses' \ pair_clauses :
       {<<"minsep", cl[1]>>, <<"c", cl[2]>>} \cap eliminable = {}]_vars

\* cur_size_ of the totalizer between two rounds.
CurSize == IF k = 0 THEN -1 ELSE k + 1

\* The same of the clauses that BuildToSize adds between two rounds: none of
\* them is over an edge variable that a Solve of an earlier round may have removed.
TotalizerOnLiveVars ==
  [][AllPmcs /\ card_encoding = 1 =>
       \A i \in InputsOf(NewClauses(NumInputs(graph), CurSize, k' + 1)) :
         <<"edge", i + 1>> \notin eliminable]_vars

Phase == CASE pc = "idle" -> "between"
           [] pc \in {"stopped", "aborted"} -> "finished"
           [] OTHER -> "round"

PmcsOfSize ==
  [g \in Graphs |-> [s \in 0 .. g.n |->
     {X \in Pmcs[g] : s \in InputCounts[g][X] /\ \A count \in InputCounts[g][X] : s <= count}]]

Abstract == INSTANCE PmcEnumeration WITH found <- blocked, phase <- Phase

\* The rounds implement the abstract enumeration.
ImplementsPmcEnumeration == Abstract!Spec
=============================================================================

------------------------ MODULE HypertreewidthSolver ------------------------
(***************************************************************************)
(* HypertreewidthPreprocessor (hypertreewidthpreprocessor.cpp) with class     *)
(* HyperGraph (hypergraph.cpp), and the drivers HypertreewidthSat,            *)
(* HypertreewidthAsp and HypertreewidthComb (solver.cpp).  A hypergraph is a  *)
(* record of its primal graph's fields and the sequence of its edges, so it   *)
(* is its own PrimalGraph.  What the enumerators, BtAlgorithm and Setcover     *)
(* return is taken from their own modules.                                  *)
(***************************************************************************)
EXTENDS AspEnumerator, SequencesExt

CONSTANTS Hypergraphs,   \* the hypergraphs that may be read
          Methods        \* of "network" and "totalizer" (SAT), "asp" and "comb"

\* Every vertex is read in an edge.
ASSUME HypergraphsAssumption ==
  \A h \in Hypergraphs : IsGraph(h) /\ V(h) = UNION ToSet(h.edges)
ASSUME MethodsAssumption == Methods \subseteq {"network", "totalizer", "asp", "comb"}

VARIABLES hypergraph,
          method,         \* the driver, with its card_encoding
          pc,
          pending,        \* the hypergraphs of the calls of Preprocess1 to come
          instances,
          solved,         \* how many instances the loop has passed
          k,              \* the last round
          apmcs,          \* the cliques found for the instance; of comb, those with can
          clingo_failed,  \* a run of clingo has failed
          solution,
          aborted         \* an assertion has failed

loop == <<solved, k, apmcs>>
vars == <<hypergraph, method, pc, pending, instances, loop, clingo_failed, solution, aborted>>

\* HyperGraph::EdgesIn.
EdgesIn(h, S) ==
  SelectSeq([i \in DOMAIN h.edges |-> h.edges[i] \cap S], LAMBDA e : Cardinality(e) >= 2)

\* The constructor of HyperGraph from edges with two vertices or more: the
\* vertices are numbered as the primal graph numbers them.
HyperGraph(edges) ==
  LET vs == UNION ToSet(edges)
      Rank(v) == Cardinality({u \in vs : u < v})
      ranked == [i \in DOMAIN edges |-> {Rank(v) : v \in edges[i]}]
  IN  [n |-> Cardinality(vs), adj |-> UNION {Pairs(e) : e \in ToSet(ranked)}, edges |-> ranked]

Init ==
  /\ hypergraph \in Hypergraphs
  /\ method \in Methods
  /\ pc = "preprocess"
  /\ pending = <<hypergraph>> /\ instances = <<>>
  /\ solved = 0 /\ k = 0 /\ apmcs = {}
  /\ clingo_failed = FALSE /\ solution = 1 /\ aborted = FALSE

\* Preprocess1 of an empty hypergraph, and of an atom with a single edge.
DropTrivial ==
  /\ pc = "preprocess" /\ pending # <<>>
  /\ LET h == Head(pending)
     IN  h.n = 0 \/ (Len(Atoms(h, McsM(h))) = 1 /\ Len(h.edges) <= 1)
  /\ pending' = Tail(pending)
  /\ UNCHANGED <<hypergraph, method, pc, instances, loop, clingo_failed, solution, aborted>>

\* Preprocess1 of any other atom.
KeepInstance ==
  /\ pc = "preprocess" /\ pending # <<>>
  /\ LET h == Head(pending)
     IN  /\ h.n > 0 /\ Len(Atoms(h, McsM(h))) = 1 /\ Len(h.edges) > 1
         /\ instances' = Append(instances, h)
  /\ pending' = Tail(pending)
  /\ UNCHANGED <<hypergraph, method, pc, loop, clingo_failed, solution, aborted>>

\* Preprocess1 of a hypergraph with several atoms.
SplitIntoAtoms ==
  /\ pc = "preprocess" /\ pending # <<>>
  /\ \E h \in {Head(pending)} : \E atoms \in {Atoms(h, McsM(h))} :
       /\ h.n > 0 /\ Len(atoms) > 1
       /\ pending' = [i \in DOMAIN atoms |-> HyperGraph(EdgesIn(h, atoms[i]))] \o Tail(pending)
  /\ UNCHANGED <<hypergraph, method, pc, instances, loop, clingo_failed, solution, aborted>>

ReturnInstances ==
  /\ pc = "preprocess" /\ pending = <<>>
  /\ pc' = "solve"
  /\ UNCHANGED <<hypergraph, method, pending, instances, loop, clingo_failed, solution, aborted>>

-----------------------------------------------------------------------------
Solving == pc = "solve" /\ solved < Len(instances)
Current == instances[solved + 1]

AllPmcs(h) == UNION {PmcsWithSize(h, s) : s \in 1 .. h.n}

\* The sets of P that s of the edges cover.
CoveredBy(P, s) ==
  UNION {{X \in P : \E U \in unions : X \subseteq U} : unions \in {Unions(Current, s)}}

\* TotalizerBuilder::BuildToSize asserts that it is asked for no more outputs
\* than it has inputs, which are the edges, and AllPmcs(k) asks for k + 1.
\* EqualNetwork asserts that it has an input.
CardinalityOk(h) == IF method = "totalizer" THEN k + 2 <= Len(h.edges) ELSE h.edges # <<>>

\* Planted fault: the width of the last instance is the result.
CombinedLast(width) == width

\* The widest instance decides.
Combined(width) == MaxOf({solution, width})

\* BtAlgorithm::Solve for the cliques of P, and the end of the round.
TryCliques(P, kept) ==
  IF BtSolve(Current, P) = {}
  THEN k' = k + 1 /\ apmcs' = kept /\ UNCHANGED <<solved, solution>>
  ELSE /\ solution' = Combined(k + 1)
       /\ solved' = solved + 1 /\ k' = 0 /\ apmcs' = {}

\* HypertreewidthSat: a round finds the cliques that k edges cover, or all of
\* them when there are fewer, and that no round has found before.  The cliques of
\* all rounds are tried.
RoundSat ==
  /\ Solving /\ method \in {"network", "totalizer"} /\ k < Current.n
  /\ \E pmcs \in {CoveredBy(AllPmcs(Current) \ apmcs, k + 1)} :
     \E P \in {apmcs \cup pmcs} : TryCliques(P, P)
  /\ aborted' = (aborted \/ ~CardinalityOk(Current))
  /\ UNCHANGED <<hypergraph, method, pc, pending, instances, clingo_failed>>

\* HypertreewidthAsp: every round finds all its cliques anew, unless clingo
\* fails, which goes unnoticed.
RoundAsp ==
  /\ Solving /\ method = "asp" /\ k < Current.n
  /\ \/ /\ \E P \in {HypertreewidthPmcs(Current, k + 1)} : TryCliques(P, {})
        /\ UNCHANGED clingo_failed
     \/ TryCliques({}, {}) /\ clingo_failed' = TRUE
  /\ UNCHANGED <<hypergraph, method, pc, pending, instances, aborted>>

\* Planted fault: can is not set for a clique that has a cover.
CanForgotten(P) == {}

\* The cliques that need not be tried again.
Can(P) == P

\* HypertreewidthComb: cliques that have a cover are kept, the others tried with
\* one more set.  The driver asserts that the cover it gets has that many.
RoundComb ==
  /\ Solving /\ method = "comb" /\ k < Current.n
  /\ \E found \in {CoveredBy(AllPmcs(Current) \ apmcs, k + 1)} : \E P \in {apmcs \cup found} :
       /\ TryCliques(P, Can(P))
       /\ aborted' = (aborted \/ CoveredBy(found, k) # {})
  /\ UNCHANGED <<hypergraph, method, pc, pending, instances, clingo_failed>>

\* Planted fault: the rounds begin again.
RunOutRetrying ==
  /\ Solving /\ k = Current.n
  /\ k' = 0 /\ apmcs' = {} /\ UNCHANGED solved
  /\ UNCHANGED <<hypergraph, method, pc, pending, instances, clingo_failed, solution, aborted>>

\* The sizes run out without a triangulation: the instance counts for nothing.
RunOut ==
  /\ Solving /\ k = Current.n
  /\ solved' = solved + 1 /\ k' = 0 /\ apmcs' = {}
  /\ UNCHANGED <<hypergraph, method, pc, pending, instances, clingo_failed, solution, aborted>>

ReturnSolution ==
  /\ pc = "solve" /\ solved = Len(instances)
  /\ pc' = "done"
  /\ UNCHANGED <<hypergraph, method, pending, instances, loop, clingo_failed, solution, aborted>>

Finished == pc = "done" /\ UNCHANGED vars

Next == \/ DropTrivial \/ KeepInstance \/ SplitIntoAtoms \/ ReturnInstances
        \/ RoundSat \/ RoundAsp \/ RoundComb \/ RunOut
        \/ ReturnSolution \/ Finished

\* One thread runs all of it.
Spec == Init /\ [][Next]_vars /\ WF_vars(Next)

-----------------------------------------------------------------------------
(* Properties *)

IsHypergraph(h) ==
  /\ h.n \in Nat /\ h.adj = UNION {Pairs(e) : e \in ToSet(h.edges)}
  /\ V(h) = UNION ToSet(h.edges)

TypeOK ==
  /\ IsHypergraph(hypergraph) /\ method \in Methods
  /\ pc \in {"preprocess", "solve", "done"}
  /\ \A h \in ToSet(pending) \cup ToSet(instances) : IsHypergraph(h)
  /\ solved \in 0 .. Len(instances) /\ solution \in 1 .. Len(hypergraph.edges) + 1
  /\ Solving => k \in 0 .. Current.n /\ apmcs \subseteq SUBSET V(Current)
  /\ clingo_failed \in BOOLEAN /\ aborted \in BOOLEAN

\* The generalized hypertree width: the primal graph has an elimination order
\* along which no bag needs more edges to cover it.
Ghtw(h) ==
  LET least[width \in 0 .. Len(h.edges)] ==
        LET Fits(B) == \E S \in SUBSET DOMAIN h.edges :
                         Cardinality(S) <= width /\ B \subseteq UNION {h.edges[i] : i \in S}
        IN  IF CanEliminate(h, Fits) THEN width ELSE least[width + 1]
  IN  least[0]

\* The hypergraphs whose width is still to be found.
Open == ToSet(pending) \cup {instances[i] : i \in solved + 1 .. Len(instances)}

\* Splitting, dropping and solving parts keeps the width: at every moment it is
\* the larger one of the solution so far and what the open parts have, and at
\* the end it is the solution, with each of the drivers, unless clingo has failed.
WidthPreserved ==
  clingo_failed \/ k > 0 \/ MaxOf({1, Ghtw(hypergraph)}) =
                              MaxOf({solution} \cup {Ghtw(h) : h \in Open})

\* The state stays within its domains and no assertion fails: the preprocessor
\* passes on hypergraphs with so many edges that the totalizer is never asked for
\* an output too many, and a cover that Setcover finds in a round has as many sets
\* as the round allows, as with fewer an earlier round would have found it.
AssertionsHold == TypeOK /\ ~aborted

\* Every instance is solved in the round of its own width, though its cliques
\* come in by cover number and not by size: none of the drivers stops for a
\* triangulation that is not the best, or goes past one that is.
SolvedInItsRound ==
  [][solved' > solved /\ ~clingo_failed' => solution' >= k + 1 /\ k + 1 = Ghtw(Current)]_vars

\* The program ends, with clingo failing or not.
Terminates == <>(pc = "done")
=============================================================================

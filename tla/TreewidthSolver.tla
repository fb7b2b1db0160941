--------------------------- MODULE TreewidthSolver ---------------------------
(***************************************************************************)
(* The drivers TreewidthSat, TreewidthAsp and TreewidthComb (solver.cpp):    *)
(* preprocess the graph, solve one instance after the other, and put the      *)
(* solutions together.  TreewidthSat and TreewidthAsp ask for the cliques of  *)
(* one size after the other, of a FixedSizeEnumerator or of clingo, and run    *)
(* BtAlgorithm on all cliques so far; TreewidthComb runs it once, on all.     *)
(* What those parts return is taken from their own modules.                  *)
(*                                                                         *)
(* clingo is another process.  The program does not look at its status, so    *)
(* when it cannot be run or writes nothing the round has no cliques.         *)
(***************************************************************************)
EXTENDS Preprocessor, AspEnumerator

CONSTANT Methods     \* of "network" and "totalizer" (SAT), "asp" and "comb"

ASSUME MethodsAssumption == Methods \subseteq {"network", "totalizer", "asp", "comb"}

VARIABLES method,         \* the driver, with its card_encoding; "" before it matters
          solved,         \* how many instances the loop has passed
          k,              \* the size of the last round
          apmcs,          \* the cliques found for the instance
          clingo_failed   \* a run of clingo has failed

driver == <<method, solved, k, apmcs, clingo_failed>>
tvars == <<vars, driver>>

TInit ==
  /\ Init
  /\ method = "" /\ solved = 0 /\ k = 0 /\ apmcs = {} /\ clingo_failed = FALSE

\* The drivers preprocess alike, and part if there are instances to solve.
CallPreprocess ==
  /\ PreprocessStep
  /\ IF pc' = "solve" /\ instances' # <<>> THEN method' \in Methods ELSE UNCHANGED method
  /\ UNCHANGED <<solved, k, apmcs, clingo_failed>>

Solving == pc = "solve" /\ solved < Len(instances)
Current == instances[solved + 1].graph

unsolved == <<orig_graph, pp, pending, instance, d2, fill_d2, lower_bound, fill_edges,
              instances, treewidth>>

\* An assertion ends the program.
Abort ==
  /\ aborted' = TRUE
  /\ pc' = "done"
  /\ UNCHANGED <<unsolved, solutions, driver>>

\* TotalizerBuilder::BuildToSize asserts that there are size inputs.
BuildToSizeOk(g, size) == size <= g.n

\* EqualNetwork and BuildToSize have assertions on the number of vertices.
CardinalityAborts ==
  /\ Solving
  /\ \/ method = "network" /\ k = 0 /\ Current.n = 0
     \/ method = "totalizer" /\ k < Current.n /\ ~BuildToSizeOk(Current, k + 2)
  /\ Abort

\* What a round of size s may return, and whether clingo has failed in it.
RoundOutcomes(g, s) ==
  IF method = "asp" THEN {<<TreewidthPmcs(g, s), FALSE>>, <<{}, TRUE>>}
                    ELSE {<<PmcsWithSize(g, s), FALSE>>}

\* The instance is done, with a solution or without.
NextInstance == solved' = solved + 1 /\ k' = 0 /\ apmcs' = {}

\* Planted fault: a round looks at its own cliques only.
CollectedAnew(P) == P

\* The cliques of a round are appended to those of the rounds before.
Collected(P) == apmcs \cup P

\* One round of TreewidthSat or TreewidthAsp, with its assertion on the width.
Round ==
  /\ Solving /\ method # "comb"
  /\ k < Current.n /\ (method = "totalizer" => BuildToSizeOk(Current, k + 2))
  /\ \E out \in RoundOutcomes(Current, k + 1) : \E P \in {Collected(out[1])} :
     \E sols \in {BtSolve(Current, P)} :
       /\ clingo_failed' = (clingo_failed \/ out[2])
       /\ IF sols = {}
          THEN k' = k + 1 /\ apmcs' = P /\ UNCHANGED <<solved, solutions, aborted>>
          ELSE \E sol \in sols :
                 /\ solutions' = Append(solutions, sol.fill)
                 /\ aborted' = (aborted \/ sol.width # k)
                 /\ NextInstance
  /\ UNCHANGED <<unsolved, pc, method>>

\* The loop over the sizes ends without a solution, and the instance has none.
RunOut ==
  /\ Solving /\ method # "comb"
  /\ k = Current.n /\ (method = "network" => k > 0)
  /\ NextInstance
  /\ UNCHANGED <<unsolved, pc, solutions, aborted, method, clingo_failed>>

\* The vertices that still have an edge.
Active(g) == {v \in V(g) : Neighbors(g, v) # {}}

IsConnectedOrIsolated(g) ==
  \A u, v \in Active(g) : v \in Reach(g, V(g), u)

\* comb_enumerator::Pmcs asserts that its graph is connected.
CombAborts == Solving /\ method = "comb" /\ ~IsConnectedOrIsolated(Current) /\ Abort

\* TreewidthComb for one instance: an empty graph has no clique and no
\* triangulation, but its solution is recorded all the same.
SolveComb ==
  /\ Solving /\ method = "comb" /\ IsConnectedOrIsolated(Current)
  /\ \E P \in {UNION {PmcsWithSize(Current, s) : s \in 1 .. Current.n}} :
     \E sols \in {BtSolve(Current, P)} :
       IF sols = {} THEN solutions' = Append(solutions, {})
                    ELSE \E sol \in sols : solutions' = Append(solutions, sol.fill)
  /\ NextInstance
  /\ UNCHANGED <<unsolved, pc, aborted, method, clingo_failed>>

CallMapBack ==
  /\ pc = "solve" /\ solved = Len(instances)
  /\ pc' = "map_back"
  /\ UNCHANGED <<unsolved, solutions, aborted, driver>>

MapBackAll == MapBackStep /\ UNCHANGED driver

Finished == pc = "done" /\ UNCHANGED tvars

TNext == \/ CallPreprocess \/ CardinalityAborts \/ Round \/ RunOut \/ CombAborts
         \/ SolveComb \/ CallMapBack \/ MapBackAll \/ Finished

\* One thread runs all of it.
TSpec == TInit /\ [][TNext]_tvars /\ WF_tvars(TNext)

-----------------------------------------------------------------------------
(* Properties *)

IsMappedGraph(g) ==
  /\ IsGraph(g)
  /\ DOMAIN g.vmap = V(g) /\ \A v \in V(g) : g.vmap[v] \in V(orig_graph)
  /\ \A u, v \in V(g) : u < v => g.vmap[u] < g.vmap[v]

TypeOK ==
  /\ \E i \in Inputs : orig_graph = WithMap(i[1]) /\ pp = i[2]
  /\ pc \in {"preprocess", "preprocess1", "degree2", "solve", "map_back", "done"}
  /\ \A i \in 1 .. Len(pending) : IsMappedGraph(pending[i])
  /\ d2 \in Seq(V(instance.graph)) /\ fill_d2 \subseteq Pairs(V(instance.graph))
  /\ lower_bound \in 0 .. orig_graph.n
  /\ IsABag(fill_edges) /\ BagToSet(fill_edges) \subseteq Pairs(V(orig_graph))
  /\ \A i \in 1 .. Len(instances) : IsMappedGraph(instances[i].graph)
  /\ Len(solutions) <= solved /\ solved \in 0 .. Len(instances)
  /\ aborted \in BOOLEAN /\ treewidth \in -1 .. orig_graph.n
  /\ method \in Methods \cup {""} /\ clingo_failed \in BOOLEAN
  /\ k \in 0 .. orig_graph.n
  /\ Solving => \A X \in apmcs : X \subseteq V(Current)

\* The graphs whose treewidth is still to be found.
Open ==
  ToSet(pending) \cup {instances[i].graph : i \in 1 .. Len(instances)}
    \cup (IF pc = "degree2" THEN {instance.graph} ELSE {})
    \cup (IF pc = "preprocess" THEN {orig_graph} ELSE {})

\* No rule changes the treewidth: at every moment it is the larger one of the
\* lower bound and what the open graphs have.  In the end it is what the program
\* prints, with each driver, and MapBack has a triangulation for it.  A round that
\* clingo failed in can only make the result too large.  The rounds leave alone
\* what this is about, and it is not evaluated again for each of them.
TreewidthPreserved ==
  IF pc = "done"
  THEN aborted \/ IF clingo_failed THEN treewidth >= EliminationWidth(orig_graph)
                                   ELSE treewidth = EliminationWidth(orig_graph)
  ELSE pc = "map_back" \/ (pc = "solve" /\ solved + k > 0)
         \/ EliminationWidth(orig_graph) =
              MaxOf({lower_bound} \cup {EliminationWidth(g) : g \in Open})

\* A graph that is not preprocessed and that a driver cannot deal with.
Unsuitable ==
  ~pp /\ \/ method = "totalizer" /\ NonEdges(orig_graph) = {}
         \/ method = "comb" /\ ~IsConnectedOrIsolated(orig_graph)
         \/ method # "comb" /\ orig_graph.n = 0

\* The fill edges of the atoms, of both rules and of the solvers do not
\* overlap, fit the original numbers and make a triangulation of the width
\* returned, every instance gets a solution, and the first one that a round finds
\* has the width of the round: no assertion on the way fails, except for graphs
\* given without preprocessing that are complete (totalizer), not connected
\* (comb) or empty (not comb), or when clingo has failed.
AssertionsHold ==
  pc = "done" => clingo_failed \/ (aborted <=> Unsuitable)

\* BuildToSize asserts that it is asked for no more outputs than it has inputs.
BuildToSizeAssertion ==
  Solving /\ method = "totalizer" /\ k < Current.n => BuildToSizeOk(Current, k + 2)

\* Nothing is lost on the way through the renumbered parts: the fill recorded
\* so far has no pair twice, and explains every edge that an open graph has and
\* the graph that was read has not.
FillRecorded ==
  /\ IsFillOf(fill_edges, orig_graph)
  /\ pc # "done" =>
       \A g \in Open : \A e \in g.adj :
         \/ MapBackEdge(g, e) \in orig_graph.adj \cup BagToSet(fill_edges)
         \/ pc = "degree2" /\ g = instance.graph /\ e \in fill_d2

Simpler(h, g) ==
  \/ h.n < g.n
  \/ h.n = g.n /\ Cardinality(Active(h)) < Cardinality(Active(g))
  \/ h.n = g.n /\ Active(h) = Active(g) /\ Cardinality(NonEdges(h)) < Cardinality(NonEdges(g))

\* Preprocess1 and Preprocess2 cannot go on calling each other: an atom has no
\* vertex without an edge, every graph made from another is simpler, and when
\* an atom starts over it has lost a vertex or has an edge more.
StartsOverSimpler ==
  [][/\ \A h \in Open' \ Open : \E g \in Open : Simpler(h, g)
     /\ pc = "preprocess1" /\ pc' = "degree2" =>
          Active(instance'.graph) = V(instance'.graph)
     /\ pc = "degree2" /\ Len(pending') > Len(pending) =>
          \/ Active(Head(pending')) # V(Head(pending'))
          \/ Simpler(Head(pending'), instance.graph)]_tvars

\* The program ends: the rules stop, and every instance is solved or given up
\* after as many rounds as it has vertices.
Terminates == <>(pc = "done")
=============================================================================

# A verification of pmcenum

pmcenum computes the treewidth and the (generalised) hypertreewidth of a graph
exactly: it enumerates the *potential maximal cliques* (PMCs) of the graph with
few vertices first, with a SAT solver that is called over and over with more
clauses, and runs the Bouchitté–Todinca dynamic program on what it has found
until that yields a triangulation.  The answer is right only if the enumeration
is exhaustive and exact, size by size, under every order in which the solver may
return models; a clause too many loses a clique without a trace, a clause too
few makes the search run forever or abort.  That search is the core of this
project.  Line numbers are those of `src/src/`.

## The parts of the system

| part | state | operations | what makes it correct |
|---|---|---|---|
| `Graph` (graph.cpp) | `adj_list_`, `adj_mat_`, `vertex_map_` | `Components`, `Neighbors`, `ConnectedMatrix`, `IsPmc`, `IsClique`, edges in and out, `MapBack`, `InheritMap` | the PMC test agrees with the definition |
| `Enumerator`, `FixedSizeEnumerator` | the clauses in the solver, `minsep_vars_`, the round's cliques | constructor, `GetPmc` (a loop of `Solve`), `BlockBadSolution`, `AllPmcs(k)` | every round returns exactly the PMCs of size k; the loop ends; the assertions hold |
| `FixedSizeHyperEnumerator` | the same, and one variable per hyperedge | `AllPmcs(k)` | the PMCs that k hyperedges cover |
| cardinality builders | variables of the networks, `cur_size_` | `EqualNetwork`, `AddEqual`, `Init`, `BuildToSize` | output i holds iff at least i inputs do (network), or if (totalizer, up to the size built) |
| SAT interfaces | variables, clauses, frozen flags | `NewVar`, `AddClause`, `FreezeVar`, `Solve(assumptions, allow_simp)`, `SolutionValue` | a variable that is used again survives preprocessing |
| `BtAlgorithm` | `dp`, `opt_choice`, queue | `Solve` | the least width from the given cliques, and a fill that has it |
| `mcs` | labels, buckets, marks (static vectors) | `Mcs`, `McsM`, `Atoms`, `Treewidth` | a minimal triangulation, the atoms, the width of a chordal graph |
| `TreewidthPreprocessor` | `instances_`, `fill_edges_`, `lower_bound_` | `Preprocess`, `MapBack` | the combined solution is optimal for the original graph |
| `HypertreewidthPreprocessor`, `HyperGraph` | `instances_` | `Preprocess`, `EdgesIn` | width is the maximum over the atoms |
| `comb_enumerator` | lists of separators and cliques | `FindMinSeps`, `OneMoreVertex`, `Pmcs` | all minimal separators, all PMCs |
| `Setcover` | `cv_`, `opt_`, `no_`, `tno_` | `Solve`, `Go` | a cover of k sets is found iff there is one, call after call |
| drivers (solver.cpp) | `apmcs`, `can`, `solutions` | `TreewidthSat`, `TreewidthAsp`, `TreewidthComb`, `HypertreewidthSat`, `HypertreewidthAsp`, `HypertreewidthComb`, `CountMinseps` | the loop stops with the right width and one solution for each instance |
| `asp_enumerator` and two logic programs | temporary files | `TreewidthPmcs`, `HypertreewidthPmcs` | the answers are the PMCs of the size asked for |
| `Io`, `StaticSet` | `vertex_map_` | `ReadGraph`, `ReadHyperGraph` | the graph of the last description in the file, no vertex without an edge |
| main (triangulator.cpp) | - | chooses a driver | - |

The program is one thread; calls go down from the drivers and nothing calls
back.  What is hard is not scheduling but *protocol*: the enumerator and the
solver share a growing set of clauses, and the solver answers with any model it
likes.  The other hard spots are iteration orders that the C++ library leaves
open (`std::sort` with ties), stale entries in buckets and queues, assertions
that rest on graph theory, parts of a graph that are numbered anew and mapped
back, and rounds that rely on all earlier rounds.  `PROJECT.json` lists these
hazards with their lines and the properties that watch over them.

## Modules

    GraphOps            Graph's queries                GraphTheory   reference definitions
      |                                                   |
      +-- Enumerator --(implements)--> PmcEnumeration     SmallGraphs   graphs for the runs
      +-- BtAlgorithm
      +-- CombEnum              Pmcs, FindMinSeps, CountMinseps
      +-- Mcs --(implements)--> MaximumCardinalitySearch, McsMByPaths
      +-- Io                    the files
      +-- Elimination           what the algorithms above return, as functions
            +-- Preprocessor            the rules, MapBack
            +-- AspEnumerator           clingo's rules
            +-- TreewidthSolver         Preprocessor, AspEnumerator and the three drivers
            +-- HypertreewidthSolver    preprocessor and the three drivers
    SatInterface -- SortingNetwork --+
    TotalizerTree -------------------+-- Cardinality     the constraints at work
    Setcover

    GraphLemmas                      connectivity, chordal graphs, for every graph
      +-- EnumeratorProofs           proofs about Enumerator
      +-- BtProofs                   proofs about BtAlgorithm
      +-- CombProofs                 proofs about CombEnum
      +-- McsLemmas                  McsM and Atoms as functions
            +-- McsProofs            proofs about Mcs
            +-- TreewidthProofs      proofs about Preprocessor and TreewidthSolver
    SetcoverProofs                   proofs about Setcover

A graph is a record of `n` and the set `adj` of its edges; a hypergraph has its
primal graph's fields and the sequence `edges`.  A vector of vertices that the
code sorts or uses as a set is a set; where an order is observable and left open
by the code or the library, the model takes every order.  Operators marked
*Planted fault* are wrong variants of the definition that follows; no
specification uses them.  They show that the properties can fail.

The program is too large for one state machine.  Each algorithm is a machine of
its own, whose run compares its result with a definition; the drivers then take
that result from **Elimination** (`McsM`, `Atoms`, `ChordalWidth`,
`PmcsWithSize`, `BtSolve`), as any of the results the algorithm may return.  The
run mcs checks that the functions there agree with the machines, and for `McsM`,
`Atoms`, `ChordalWidth` and `HasPerfectElimination` that is proved as well.
**GraphTheory** says what chordal graphs, minimal triangulations, PMCs, minimal
separators, atoms and treewidth are, without any algorithm of the program; the
runs compare the two where the program relies on them (`PmcsExact`,
`ResultIsBest`, `TreewidthExact`, `AtomsExact`).

**Enumerator** is `Enumerator` with `FixedSizeEnumerator` and
`FixedSizeHyperEnumerator`.  Its state is what the solver has been told:
`minsep_vars` (the separator variables), the blocked cliques and the clauses of
blocked separators.  One action is one step of the loop in `GetPmc`: `SolveSat`
(any model of the clauses and the assumptions of round k), `FoundPmc`,
`FoundBad`, `Shrink` (one iteration of the loop that makes the separator
minimal), `BlockSeparator` (all of the clauses of the chosen encoding),
`SolveUnsat` (the round returns), `AllPmcs` (the next round, with
`BuildToSize`).  The solver is outside: a `Solve` returns any model.  The
encodings 0 to 5 and both cardinality encodings are parameters; encoding 2
chooses at random and is nondeterministic here.  In a hypergraph the inputs of
the constraint are the edges, a selected vertex needs a true edge, and any edges
may be true besides, so a model has a *set* of possible counts (`InputCounts`).
`eliminable` is the set of variables that a preprocessing solver may have
removed.

**SortingNetwork** has `CardinalityNetworkBuilder` as functions from literals to
clauses, bit reversal and variable numbers included; **TotalizerTree** the nodes
and clauses of `TotalizerBuilder`; **SatInterface** what the five solver classes
do with literals (the MiniSat family turns every sign around), `ProcessClause`,
frozen variables and the state of the IPASIR class.  **Cardinality** puts them to
work: constructor, rounds, `BuildToSize` between calls of `Solve`, assumptions and
reading of models.  There the rest of the encoding is one selection of inputs,
any of them, that it leaves possible; what the clauses force is found by unit
propagation, which is complete for them once the inputs are set.

**BtAlgorithm** is the dynamic program as a state machine: build the triplets,
process them in any order that the unstable sort may give, reconstruct the fill
through the queue.  **Setcover** has one action for each branch of `Go` and its
loop, with the C++ call stack as the sequence `stack` and the undo log `tno_` as
`tno`; `Solve`, whose last loop takes one step for each element, may be called
again on the same object.  **CombEnum** is `Pmcs`:
the vertices are added in any order that maximum cardinality search may take,
`FindMinSeps` expands separators in any order, `OneMoreVertex` is one action; and
`CountMinseps`, which uses `FindMinSeps` with a bound.

**Mcs** has all of mcs.cpp.  Calls of `Treewidth` run one after the other over the
static buckets of `Mcs`, each finding what the one before has left; and `McsM`,
whose labels are raised during the search, hands over to `Atoms`.  Both searches
implement an abstract machine that chooses by definition
(**MaximumCardinalitySearch**, **McsMByPaths**).

**Preprocessor** is `Preprocess1` and `Preprocess2`, which call each other, as a
machine over the sequence `pending` of graphs whose call is still to come; every
return path and both rules are an action, and `MapBackSolutions` is `MapBack` with
its assertions, which become `aborted`.  **TreewidthSolver** extends it with the
drivers: rounds of the SAT drivers and of `TreewidthAsp`, the single round of
`TreewidthComb`, running out of sizes, and the assertions of the constraints.
**AspEnumerator** evaluates the rules of the two logic programs; clingo may also
fail, in any round, which the program does not notice.  **Io** turns a file's
lines into the graph, by which the inputs of the runs are made.
**HypertreewidthSolver** is class `HyperGraph`, `HypertreewidthPreprocessor` and
the other three drivers.

## What the runs show

| run | instance | shows |
|---|---|---|
| enumerator | 9 graphs with at most 4 vertices and `K(2,3)`, 5 hypergraphs; encodings 0 to 5, both cardinality encodings, a solver that preprocesses; every model it may return | rounds end and are exact, no clique is lost, assertions hold, every bad model is excluded, separator variables are frozen where needed, the abstract enumeration is implemented |
| cardinality | 2 and 3 inputs with all seven solver names, 4 to 6 with minisat and ipasir, 7 with glucosenopp; every selection, a stop after every round | the network's outputs are exact in both directions, each node of the totalizer counts up to the size built, every selection is found in its round and once, no clause over a removed variable, `AddEqual` is exact |
| bt | every subset of the cliques (at most 4 vertices); cliques up to size k (5 vertices), all orders of ties | least width, right fill, entries final when read |
| treewidth | all graphs with 2 to 4 vertices and one of each class with 5, with preprocessing and without, all four methods; with it, 6-vertex graphs on which the rules have most to do, irreducible graphs with 6 to 8 vertices; small files | the width printed is the treewidth, fill is recorded once and in the right numbers, assertions fail for the unsuitable inputs only, the recursion and the program end |
| hypertreewidth | all hypergraphs with at most three different edges over at most 4 vertices, 16 special ones, up to 6 vertices and 12 edges; all four methods | the width is kept and returned, each part is solved in the round of its width, no assertion fails, the program ends |
| setcover | 4 families, 5 pairs of bounds, 2 calls | answers are right, the search misses nothing, exclusions undone |
| mcs | all labelled graphs with at most 4 vertices, one of each class with 5, also with reversed numbers for McsM, larger ones with 6; calls of Treewidth for two graphs, the first one as large or larger | both abstract searches are implemented, Mcs to its end; width of chordal graphs; minimal fill; atoms |
| comb_enum | connected graphs with at most 5 vertices, three with 6; counts with tight bounds | PMCs and separators exact after every vertex, the bounded count |
| enumerator_frozen, hyper_totalizer, treewidth_totalizer, comb_disconnected | see below | disagreements of the code with its own comments and assertions |

Why these bounds are enough.  The enumerator's hard cases are a model with
several broken pairs, a separator that leaves three components (`K(2,3)`), a
cycle whose separators cross (`C4`), a graph without any separator
(complete graphs) and one of two components: all are among the graphs; its
hypergraphs have edges that are there twice, more edges than a round allows,
and cliques that need two.  Four vertices suffice for the round structure (sizes
1 to 4) and two calls of `Solve` for anything left over in Setcover's arrays.  Six
and seven inputs give the totalizer a tree that is not balanced and three levels
deep, and the network eight literals with padding, the first number for which bit
reversal moves anything.  The preprocessor's rules settle every graph with up to
five vertices; `Irreducible6` and its larger fellows are the smallest graphs found
that leave instances, two in one of them.  The special hypergraphs have parts of
different width, the widest first, last and between, and complete graphs, whose
width needs several rounds.  Where GraphTheory's treewidth would be too slow,
`EliminationWidth`, the least width with which all vertices can be eliminated, is
the reference; `Ghtw` is the same with covers.  `MaxCalls` (Setcover) and
`MaxVertices` (the number of buckets in Mcs) are the only bounds that are not the
program's own; all other state is bounded by the graph.

Fairness.  The program is one thread and every call of a solver returns, so weak
fairness of the whole next-state relation is justified, and no more is assumed.
Every solver answer stays open.  `RoundReturns` says that a round of the
enumerator ends for any choice of models; `Terminates` that the preprocessor's
recursion and the drivers' loops end, with clingo failing or not; and
`IsMaximumCardinalitySearch` has a liveness part: the loop of `Mcs`, which steps
its own index back, numbers every vertex.

Where the program stops, the model has a step `Ended`, `Finished` or `Stopped`
that changes nothing, so that deadlock can be checked everywhere.

### Disagreements found

* `enumerator_frozen`: `BlockBadSolution` adds clauses over the connectivity
  variables, which are never frozen, after a preprocessing `Solve`.
* `hyper_totalizer`: `FixedSizeHyperEnumerator` does not freeze its edge
  variables; they are leaves of the totalizer, and later rounds add clauses over
  them after a preprocessing `Solve`.  The inner nodes are frozen
  (`ClausesOnKeptVars`).
* `treewidth_totalizer`: without preprocessing the last round of a complete graph
  asks the totalizer for one more output than there are inputs, which
  `BuildToSize` asserts against.  With preprocessing, and for hypergraphs, the
  preprocessor keeps such instances away (`AssertionsHold`).
* `comb_disconnected`: without preprocessing `Pmcs` is called for graphs of
  several components, which its first assertion excludes.  The run comb_enum is
  on connected graphs therefore.

`AssertionsHold` of TreewidthSolver lists, as `Unsuitable`, the inputs for which an
assertion ends the program: besides the last two, an empty graph without
preprocessing, for which no round finds a solution that `MapBack` asserts there is.

## What is proved

Every theorem is about a specification as the runs check it, for every value of
its constants that the assumptions in its module allow; a theorem that needs more
has that as a hypothesis, named here.  Three techniques recur.  An invariant is
proved in layers, each inductive with the ones before it.  A statement for all
numbers, or for all finite sets, is proved by a least counterexample
(`LeastElement`, `SmallestSet` in GraphLemmas), as the induction theorems of the
library cannot be used.  And a function that the model defines by recursion over
numbers is used through its *stages*, a function that the recursion determines
and whose existence is proved once (`StagesExist`, `SumsExist`).

GraphLemmas is graph theory.  Its second part starts from the definition of chordal
graphs in GraphTheory and has: a simplicial vertex on either
side of a clique (`SimplicialOutside`, Dirac), a common neighbour of a clique in a
component that sees all of it (`CommonNeighbor`), `BetweenTwoSides` (a minimal
separator of a chordal graph is a clique), `CutAtClique` (two chordal graphs glued
at a clique are chordal), what width is (`WidthIs`), that maximum cardinality
search eliminates a chordal graph perfectly (`SearchIsPerfect`, Tarjan and
Yannakakis), and that the elimination of simplicial vertices in any order finds
its width (`EliminationExact`).  `TestIsExact` is about `Graph::IsPmc`: it accepts
exactly the potential maximal cliques (Bouchitté and Todinca).  A set that passes is
one, since filling the set, and each component of the rest with its neighbours,
triangulates the graph, and any minimal part of that fill still joins every pair in
the set (`TestIsSound`).  A maximal clique of a minimal triangulation passes, since a
full component would have a common neighbour of it, and a pair not covered could be
left out of the fill (`TestIsComplete`).  So the theorems below that speak of
`IsPmc`, `RoundsAreExact` and `BestReturned` among them, are about the textbook notion.

### The enumerator

`EnumeratorProofs` is for every finite graph and hypergraph, every encoding and
every choice of models, except where `4 \notin Encodings` is assumed: encoding 4 relies on
the path-length clauses to admit no bad model, which is checked on small graphs
only.  The assumptions on constants are those of module Enumerator.

* `TypeCorrect`: `Spec => []TypeOK`.
* `NoPmcIsLost`: no clause ever excludes a PMC.
* `BadModelIsExcluded`: each `BlockBadSolution` excludes its own model, which is
  the reason for termination.
* `SearchCorrect`, `RoundsAreExact`: when a round returns, all cliques of its
  size have been found, once each, and nothing else.
* `Refinement`: the enumerator implements PmcEnumeration.
* `MinsepsMinimal`, `MinsepVarsLive`, `AssertionsHold`: what is recorded are
  minimal separators, their variables survive preprocessing, and the assertions
  of `BlockBadSolution` hold.

The argument.  None of these properties is inductive.  `CoreInv` strengthens
them: `ClauseInv` says that every blocked pair is really separated by its
separator (so a PMC that contains the separator does not mark the pair, and
satisfies the clause); `ModelInv` that the current model satisfies all clauses;
`LoopInv` that the set being shrunk is still bad, and that no vertex already
tried can be dropped, which by `BadSepMonotone` (separators only get worse when
they lose vertices) makes the final set minimal.  Then `BrokenPairCrosses` finds
the broken pair across two components of the rest and `ChoicesHit` shows that
every encoding has a clause for such a pair.  `RoundInv` adds that all PMCs of a
size less than k are blocked in round k, where the size is the number of vertices
or, in a hypergraph, the least number of edges that cover the clique: so a model
under "at most k" is of size k (the totalizer bounds from above only, and edges
may be true that are not needed), and UNSAT means that the round is complete
(`UnsatComplete`).

### Setcover

`SetcoverProofs` is for every finite family of finite sets,
all bounds with `ok_cover <= upper_bound` (which `Solve` asserts), any number of
calls to one object, and every order of sets that sorting with ties may give.

* `AnswersAreCorrect`: `Spec => []AnswerCorrect`, what `Solve` is for.
* `NothingIsMissed`: `Spec => []SearchComplete`.
* `NothingStaysExcluded`: `Spec => []ExclusionsUndone`.
* `GoAssertsHold`: the assertions of `Go`.  `TypeCorrect`: `Spec => []TypeOK`.

The argument is in four layers, each inductive with the ones before.  `LogInv`:
the log and the flags agree, the marks `ss` grow along the stack, and a loop has no
candidate that was selected outside of it; so a loop undoes exactly what was logged
since it was entered, and the marks start at 0.  `SearchInv`: the selection covers
all positions before the current one, and is smaller than bound and best cover.
`Exact`: the lists have all sets with their element, for which `OrderIsExact` shows
that ranks are a bijection.  `Complete`: a cover that would improve stays in reach.
Its core is `LeaveLoopComplete`: a loop that is open to such a cover K has all of
the selection and one more candidate in K, so K is too large for any of the three
breaks to be taken.

### BtAlgorithm

`BtProofs` is for every graph with a vertex, every set of its potential maximal
cliques and every order of the triplets that ties may give.

* `AssertionsOfSolve`, `EntriesFinal`: the assertions hold; an entry of `dp` that
  has been read does not change any more.
* `TriangulationReturned`: the fill is a triangulation and has the width returned.
* `BestReturned`: `Spec => []ResultIsBest`.  The width is the least among all
  minimal triangulations that have only given cliques, and the search fails only if
  there is none.
* `TreewidthReturned`: given all potential maximal cliques, it is the treewidth.

`BtInv` says where the triplets and the queue come from.  `EntriesExact` is about
the table: an entry is the least width over the triplets passed so far, and
`opt_choice` says of which.  The order by size is what makes it inductive, because
the blocks that a triplet reads are smaller than its own.  `BuildInv` and `PhaseInv`
follow the reconstruction: what has been filled is chordal outside of the blocks
still in the queue, which `CutAtClique` puts together.  For optimality
`AllConsidered` shows that any minimal triangulation with given cliques has, in each
block of it, a clique whose triplet the loop has passed: the clique around
the block's separator.  Together this is the correctness of the Bouchitté–Todinca
dynamic program, given the cliques.

### McsM and Atoms as functions

`McsLemmas` is about the functions `McsM` and `Atoms` of Elimination, for every graph.

* `McsMFinds`: the fill is a minimal triangulation; the order is a maximum
  cardinality search of the filled graph and eliminates it perfectly; and the points are
  where as few neighbours come after a vertex as after the next one (`FoundByMcsM`).
* `AtomsFound`: every atom of the graph is returned once, and nothing else.

The search of `McsM` is looked at as *steps* that number a vertex of largest weight
(`Numbers`), as the search by paths has them.
`Searching` is what they keep: a weight counts the
numbered neighbours in the filled graph (`WeightsCount`); what v filled is still
reached along smaller weights (`StaysReached`), and any way from v to what it did not
fill has a larger one (`StaysBehind`), although weights have grown since; so whatever
is not yet numbered is surrounded by cliques (`SurroundedByCliques`), which makes the
order a perfect elimination (`NextIsSimplicial`).  `LeastFill` is minimality: a
triangulation that adds, at the numbered vertices, nothing but the fill so far has all
of that fill.  Its step needs that in a chordal graph, what a vertex reaches beside a
vertex b is surrounded by neighbours of b (`AwayFrom`), which would weigh more than
the vertex chosen (`ChordalStep`).  `History` adds how many neighbours each vertex had
before it: weights have grown since, but not these (`HistoryStep`).  `StagesOfRun` has
all of it at every stage of the loop, into whose form `McsMLoop` and `AtomsLoop` bring
the two functions.

`IsPoint` is why `Atoms` may look at the points only: of two components of a clique
separator, the last vertex of the one that ends first is a point, and all its
neighbours after it are in the separator.
`AtomSearch` is the invariant of the elimination.  What is not cut off is *convex*:
whatever is linked meets it in something linked, so that its clique separators are
those of the graph (`ConvexCut`).  Each set that has no clique separator is in an atom
found, or keeps clear of what was cut off (`NoneMissed`).  Each atom has a vertex
that no later one has, and is in no earlier one (`NoneTwice`), since beside what is left of
it there is a vertex not cut off that sees all of that in the filled graph
(`HasBeside`).  `CutIsAtom` and `RestIsAtom` say that a set cut off, and what is left,
have no clique separator: by `IsPoint` one would have given a point passed before.

### Mcs

`McsProofs` is for every sequence of graphs: calls of `Treewidth` share the static
buckets of `Mcs`, and `McsM` hands over to `Atoms`.

* `BucketsRight`: `Spec => []BucketsExact`.  Its invariant says what a bucket holds
  behind stale entries and behind all that earlier calls have left, and bounds the
  labels of `McsM`.
* `SearchRefined`: the safety part of `IsMaximumCardinalitySearch`, each step of
  the code being one of the abstract search or a stutter.  That `Mcs` gets to the
  end stays with TLC.
* `WidthReturned`: `Spec => []TreewidthExact`.  From the refinement `OrderInv`
  follows, that each vertex had the most numbered neighbours, and from that with
  `SearchIsPerfect` that the order is a perfect elimination of a chordal graph, and
  that the assertion of `Treewidth` fails for all other graphs.
* `SearchByPaths`: `Spec => IsMcsM`, the refinement of McsMByPaths.  It assumes that
  there is a graph for `McsM` at all, since the calls of `Treewidth` have to be mapped
  to the search on some graph that does nothing.
* `FillMinimal`: `Spec => []FillIsMinimal`.
* `AtomsReturned`: `Spec => []AtomsExact`.  `Atoms` returns every atom once, one
  component is left at the end (the assertion that the code marks with a TODO), and what
  the program computes is what the functions `McsM` and `Atoms` of Elimination define,
  from which the drivers' models take it.

The invariant of `McsM`, `PathInv` (checked by TLC on small graphs before it was
proved), looks at the search through what it had when x was chosen: `OldFill` and
`Weight`, which a step of the search leaves as they are although it adds fill and
raises labels.  In `NearInv` the number of a vertex's bucket
is the least i such that x reaches it along weights up to i; so at the end exactly
those that x reaches along smaller weights are filled (`BucketsEnd`), and a whole
search is one step `Numbers`.  `StageInv` and `AtomsInv` say at which stage of the
functions in Elimination the program is; during a search through the buckets, at
the one before.

### CombEnum

`CombProofs`:

* `MinSepsFound`: `Spec => []MinSepsExact`, for connected graphs
  (`ConnectedInputs`: what `Pmcs` asserts, but for isolated vertices, and what the
  preprocessor leaves).
* `PmcsFound`: `Spec => []PmcsExact`, for connected graphs: the cliques kept are the
  potential maximal cliques of what has been added, after every vertex.
* `PmcsAssertionsHold`: no assertion fails for connected graphs.
* `CountRight`: `Spec => []CountExact`, for graphs with an edge or a single vertex
  (`InputsHaveEdges`; FindMinSeps finds no separator of a graph without edges,
  though the empty set is one).

Soundness: whatever is found has two full components (`SeedIsSeparator`,
`MovedIsSeparator`).  Completeness (`AllSeparatorsFound`): for a separator S with
full components A and B, take among the found separators with a full component that
contains B one where that component is smallest.  If it is not S, it has a vertex
that is not in S, and the move off it finds one with a smaller component
(`SeparatorReached`).  That the vertices added so far stay connected is
`NextIsAdjacent`.

`CliquesInv` says to which graph the cliques belong: to the one before the last
vertex v until `OneMoreVertex` has run.  An old clique remains one if no component
sees all of it (`OldIsPmc`), and else gives one with v if v reaches all of it
(`OldWithIsPmc`); the only other cliques with v are minimal separators and v
(`CliqueWith`).  A clique without v that was none before has a pair that only one
component sees, the one with v; the neighbours of that component are a new separator,
and a separator that crosses it has the rest (`CrossingSeparator`, `NewClique`).  So
no kind of clique is missing in `OneMoreVertex` (`UpdateComplete`), and whatever it
adds passes the test (`UpdateSound`), by `DfsTest` also the one that dfs2 makes.

The totals over all instances are the sums of `SumsExist`.

### The treewidth preprocessor and the drivers

`TreewidthProofs` is for every graph, with preprocessing and without, and for all
drivers.  It uses the functions of Elimination, through `McsMFinds` and `AtomsFound`.

* `TypeCorrect`: `TSpec => []TypeOK`.
* `FillIsRecordedOnce`: `TSpec => []FillRecorded`.  So one of MapBack's assertions,
  that the fill is distinct and new to the graph, never fails, and every edge of a part
  is an edge of the original graph or recorded.
* `RulesMakeProgress`: `TSpec => StartsOverSimpler`, why `Preprocess1` and
  `Preprocess2` cannot call each other without end.

Fill edges of different parts are recorded independently of each other.  The invariant,
`TInv`, says why they do not meet.  Mapped back to the original numbers, the graphs that
are not done are parts which lie apart (`LayoutInv`): where two of them have both ends
of an edge, both have the edge (`Apart`), and a part has every edge recorded that lies
between its vertices.  A step replaces the first part by others within it and may add
edges (`ReplaceFirst`): the atoms of a graph lie apart since a minimal triangulation has
no edge between them (`AtomsApart`); the new edges of an elimination, and the one that
`NeighborClique` finds, lie between vertices of the part, so in no other
(`ReworkedPart`).  What `GreedyDegree2` fills is recorded only when the graph starts
over; until then it is `Held`.  The renumbering of an atom keeps the order of its
vertices (`RankFacts`, `AtomGraphFacts`), so mapping back takes no two edges to one.

For progress, `ReducedInv` keeps what `Preprocess1` has left: a graph that is its own
only atom has no simplicial vertex (`NoneSimplicial`).  So the first elimination makes an edge,
the graph starts over without a vertex, and `NeighborClique` finds a vertex that lacks
just one edge.  That all this must end is then a matter of well-founded order, which
TLC checks (`Terminates`).

### Only model-checked

Liveness and termination, Setcover's included; encoding 4;
Cardinality, whose network and tree are built by recursion over the inputs;
that the preprocessors keep the width and that no other assertion of the treewidth
drivers fails (`TreewidthPreserved`, `AssertionsHold`, `WidthPreserved`), which needs
the theory of safe reductions and covers; HypertreewidthSolver.

## What is not modelled

* The solvers themselves, under `src/solvers`: MiniSat, Glucose, MapleGlucose,
  CryptoMiniSat, the IPASIR solvers and clingo.  They are other projects' code,
  nine tenths and more of the lines in the repository, and the program uses them
  through a narrow interface, which is modelled.  A solver is any that answers
  rightly; clingo may also fail.  Of the program's own code, `src/src`, what is
  left out follows.
* Logging, timers and statistics other than `pmcs_found`; `HyperGraph::Print` and
  `Graph::Print`; the redirection of stdout in the IPASIR class; the names of
  temporary files in the ASP enumerator, which are taken to be new.
* Command line arguments: the choice of a driver is a parameter.  Cutting text
  into tokens: a line is given as its tokens.
* The unit tests.
* `IdOf` in BtAlgorithm reads past the end of its map for a set that has no id:
  with libstdc++ it yields half of the pointer behind the map, the end of the
  storage of `elements_`.  The model takes it to be no id.
* Overflow: all numbers are bounded by the size of a graph, for which the
  program needs memory quadratic in it.

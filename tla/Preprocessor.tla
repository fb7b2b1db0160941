---------------------------- MODULE Preprocessor ----------------------------
(***************************************************************************)
(* TreewidthPreprocessor (treewidthpreprocessor.cpp): the graph is split into *)
(* atoms, its vertices of degree two are eliminated and almost simplicial     *)
(* vertices are made simplicial until neither applies.  What is left, the     *)
(* instances, is solved elsewhere, and MapBack puts the fill of all parts     *)
(* together.  TreewidthSolver has the caller and the properties of both.     *)
(*                                                                         *)
(* A graph of this module has a third field, vmap: its vertex_map_, the       *)
(* original number of each vertex.  Preprocess1 calls itself and Preprocess2  *)
(* for one graph after the other; the graphs whose call is still to come are *)
(* the sequence pending, the next one first.  An instance is a record of     *)
(* graph, upper_bound and fill.  The vector fill_edges_ is a bag: its order    *)
(* does not matter, but MapBack asserts that no edge is in it twice.        *)
(***************************************************************************)
EXTENDS Elimination, SequencesExt, Bags

CONSTANT Inputs      \* the graphs that may be read, each with a value of the flag pp

\* A vertex is read with an edge, so one alone cannot be.
ASSUME InputsAssumption ==
  \A i \in Inputs : IsGraph(i[1]) /\ i[1].n # 1 /\ i[2] \in BOOLEAN

Infinity == 1000000000

VARIABLES orig_graph,
          pp,
          pc,            \* what runs next
          pending,       \* the graphs of the calls of Preprocess1 to come
          instance,      \* the argument of Preprocess2
          d2, fill_d2,   \* of GreedyDegree2
          lower_bound, fill_edges, instances,
          solutions,     \* the fill for each instance solved so far
          aborted,       \* an assertion has failed
          treewidth      \* the result, -1 before

vars == <<orig_graph, pp, pc, pending, instance, d2, fill_d2, lower_bound,
          fill_edges, instances, solutions, aborted, treewidth>>

Degree(g, v) == Cardinality(Neighbors(g, v))
Identity(n) == [v \in 0 .. n - 1 |-> v]
WithMap(g) == [n |-> g.n, adj |-> g.adj, vmap |-> Identity(g.n)]

\* Planted fault: an edge is not mapped back.
MapBackIdentity(g, edges) == SetToBag(edges)

\* Graph::MapBack of an edge and of a vector of distinct edges.
MapBackEdge(g, e) == {g.vmap[v] : v \in e}
MapBack(g, edges) == SetToBag({MapBackEdge(g, e) : e \in edges})

\* A set of numbers in order.
Ascending(S) ==
  [j \in 1 .. Cardinality(S) |-> CHOOSE v \in S : Cardinality({u \in S : u < v}) = j - 1]

\* Planted fault: the edges keep the numbers of the graph they are taken from.
GraphOfUnranked(edges) ==
  LET vs == UNION edges
  IN  [n |-> Cardinality(vs), adj |-> edges,
       vmap |-> [i \in 0 .. Cardinality(vs) - 1 |-> i]]

\* The constructor of Graph from edges: the ends of the edges are numbered in
\* their order, so a vertex without an edge is gone.
GraphOf(edges) ==
  LET vs == UNION edges
      Rank(v) == Cardinality({u \in vs : u < v})
  IN  [n |-> Cardinality(vs),
       adj |-> {{Rank(v) : v \in e} : e \in edges},
       vmap |-> [i \in 0 .. Cardinality(vs) - 1 |-> Ascending(vs)[i + 1]]]

\* Graph(graph.EdgesIn(component)), and InheritMap.
AtomGraph(g, S) ==
  LET atom == GraphOf({e \in g.adj : e \subseteq S})
  IN  [atom EXCEPT !.vmap = [v \in 0 .. atom.n - 1 |-> g.vmap[atom.vmap[v]]]]

\* Graph::MinDegree.
MinDegree(g) == MinOf({g.n - 1} \cup {Degree(g, v) : v \in V(g)})

NoInstance == [graph |-> [n |-> 0, adj |-> {}, vmap |-> <<>>], upper_bound |-> 0, fill |-> {}]

Init ==
  /\ \E i \in Inputs : orig_graph = WithMap(i[1]) /\ pp = i[2]
  /\ pc = "preprocess"
  /\ pending = <<>> /\ instance = NoInstance
  /\ d2 = <<>> /\ fill_d2 = {}
  /\ lower_bound = 0 /\ fill_edges = EmptyBag /\ instances = <<>>
  /\ solutions = <<>> /\ aborted = FALSE /\ treewidth = -1

Preprocess ==
  /\ pc = "preprocess"
  /\ IF pp
     THEN pending' = <<orig_graph>> /\ UNCHANGED instances
     ELSE /\ instances' = <<[graph |-> orig_graph, upper_bound |-> Infinity, fill |-> {}]>>
          /\ UNCHANGED pending
  /\ pc' = "preprocess1"
  /\ UNCHANGED <<orig_graph, pp, instance, d2, fill_d2, lower_bound, fill_edges,
                 solutions, aborted, treewidth>>

\* One fill edge at most makes a minimal triangulation the best one.
SolvedByFill(fill) == Cardinality(fill) <= 1

\* Preprocess1 of a graph whose triangulation is the best.
TakeTriangulation ==
  /\ pc = "preprocess1" /\ pending # <<>>
  /\ \E g \in {Head(pending)} : \E fill \in {McsM(g).fill} :
         /\ SolvedByFill(fill)
         /\ lower_bound' = MaxOf({lower_bound, ChordalWidth(Filled(g, fill))})
         /\ fill_edges' = fill_edges (+) MapBack(g, fill)
  /\ pending' = Tail(pending)
  /\ UNCHANGED <<orig_graph, pp, pc, instance, d2, fill_d2, instances, solutions,
                 aborted, treewidth>>

\* Preprocess1 of a graph with clique separators: its atoms come next.
SplitIntoAtoms ==
  /\ pc = "preprocess1" /\ pending # <<>>
  /\ \E g \in {Head(pending)} : \E out \in {McsM(g)} : \E atoms \in {Atoms(g, out)} :
         /\ ~SolvedByFill(out.fill) /\ Len(atoms) > 1
         /\ pending' = [i \in 1 .. Len(atoms) |-> AtomGraph(g, atoms[i])] \o Tail(pending)
  /\ UNCHANGED <<orig_graph, pp, pc, instance, d2, fill_d2, lower_bound, fill_edges,
                 instances, solutions, aborted, treewidth>>

\* The queue that GreedyDegree2 starts with.
DegreeTwo(g) == Ascending({v \in V(g) : Degree(g, v) = 2})

\* Preprocess1 of an atom, which Preprocess2 goes on with.  The assertions are
\* that of Preprocess1 on the least degree and that of GreedyDegree2.
KeepAtom ==
  /\ pc = "preprocess1" /\ pending # <<>>
  /\ \E g \in {Head(pending)} : \E out \in {McsM(g)} : \E atoms \in {Atoms(g, out)} :
      \E atom \in {AtomGraph(g, atoms[1])} :
         /\ ~SolvedByFill(out.fill) /\ Len(atoms) = 1
         /\ lower_bound' = MaxOf({lower_bound, MinDegree(atom)})
         /\ instance' = [graph |-> atom, upper_bound |-> ChordalWidth(Filled(g, out.fill)),
                         fill |-> out.fill]
         /\ d2' = DegreeTwo(atom)
         /\ aborted' = (aborted \/ MinDegree(atom) < 2)
  /\ fill_d2' = {}
  /\ pc' = "degree2"
  /\ pending' = Tail(pending)
  /\ UNCHANGED <<orig_graph, pp, fill_edges, instances, solutions, treewidth>>

WithoutEdges(g, edges) == [g EXCEPT !.adj = @ \ edges]
EdgesAt(g, v) == {e \in g.adj : v \in e}

\* The graph once a vertex with at most two neighbours is eliminated from it.
AfterElimination(g, x) ==
  [WithoutEdges(g, EdgesAt(g, x)) EXCEPT !.adj = @ \cup Pairs(Neighbors(g, x))]

\* Planted fault: the front is read and not taken out.
PopUntaken(queue) == queue

Pop(queue) == Tail(queue)

\* One iteration of GreedyDegree2.  A vertex may be in the queue more than
\* once, and by its turn have lost neighbours; the two neighbours are pushed
\* in the order of the adjacency list, here either.
EliminateDegree2 ==
  /\ pc = "degree2" /\ d2 # <<>>
  /\ LET g == instance.graph
         x == Head(d2)
         after == AfterElimination(g, x)
         low == {v \in Neighbors(g, x) : Degree(after, v) <= 2}
     IN  /\ instance' = [instance EXCEPT !.graph = after]
         /\ fill_d2' = fill_d2 \cup (after.adj \ g.adj)
         /\ \E order \in SetToSeqs(low) :
              d2' = Pop(d2) \o (IF Degree(g, x) = 2 THEN order ELSE <<>>)
         /\ aborted' = (aborted \/ Degree(g, x) > 2)
  /\ UNCHANGED <<orig_graph, pp, pc, pending, lower_bound, fill_edges, instances,
                 solutions, treewidth>>

\* Preprocess2 after GreedyDegree2 with some fill: the graph starts over.
RestartFilled ==
  /\ pc = "degree2" /\ d2 = <<>> /\ fill_d2 # {}
  /\ fill_edges' = fill_edges (+) MapBack(instance.graph, fill_d2)
  /\ pending' = <<instance.graph>> \o pending
  /\ pc' = "preprocess1"
  /\ UNCHANGED <<orig_graph, pp, instance, d2, fill_d2, lower_bound, instances,
                 solutions, aborted, treewidth>>

MissingAt(g, x) == Pairs(Neighbors(g, x)) \ g.adj

\* The vertices whose neighbourhood lacks at most one edge to be a clique.
AlmostCliques(g) == {x \in V(g) : Cardinality(MissingAt(g, x)) <= 1}

\* Planted fault: the edge goes to a copy of the graph.
WithMissingForgotten(g, missing) == g

WithMissing(g, missing) == Filled(g, missing)

\* Preprocess2 when NeighborClique finds such a vertex, the first one: its
\* edge is added, and the graph starts over.
AddMissingEdge ==
  /\ pc = "degree2" /\ d2 = <<>> /\ fill_d2 = {}
  /\ AlmostCliques(instance.graph) # {}
  /\ LET g == instance.graph
         x == MinOf(AlmostCliques(g))
         missing == MissingAt(g, x)
     IN  /\ fill_edges' = fill_edges (+) MapBack(g, missing)
         /\ pending' = <<WithMissing(g, missing)>> \o pending
         /\ aborted' = (aborted \/ missing = {} \/ \E v \in 0 .. x : Degree(g, v) <= 2)
  /\ pc' = "preprocess1"
  /\ UNCHANGED <<orig_graph, pp, instance, d2, fill_d2, lower_bound, instances,
                 solutions, treewidth>>

\* Preprocess2 when nothing applies: an instance.
KeepInstance ==
  /\ pc = "degree2" /\ d2 = <<>> /\ fill_d2 = {}
  /\ AlmostCliques(instance.graph) = {}
  /\ instances' = Append(instances, instance)
  /\ aborted' = (aborted \/ \E v \in V(instance.graph) : Degree(instance.graph, v) <= 2)
  /\ pc' = "preprocess1"
  /\ UNCHANGED <<orig_graph, pp, pending, instance, d2, fill_d2, lower_bound, fill_edges,
                 solutions, treewidth>>

\* The instance's triangulation is good enough for the final lower bound.
SettledByBound(i) == lower_bound >= i.upper_bound

\* The bag with the fill of the instances I mapped back into it, fill[i] that of
\* the i-th: an edge is in it once more for each instance that has it.
WithFill(edges, I, fill) ==
  LET MappedBack(i) == BagToSet(MapBack(instances[i].graph, fill[i]))
  IN  edges (+) [e \in UNION {MappedBack(i) : i \in I} |->
                   Cardinality({i \in I : e \in MappedBack(i)})]

\* The end of Preprocess: instances that the final lower bound settles get
\* their minimal triangulation.
FilterInstances ==
  /\ pc = "preprocess1" /\ pending = <<>>
  /\ LET settled == {i \in DOMAIN instances : SettledByBound(instances[i])}
         left == Ascending(DOMAIN instances \ settled)
     IN  /\ fill_edges' = WithFill(fill_edges, settled, [i \in settled |-> instances[i].fill])
         /\ instances' = [j \in DOMAIN left |-> instances[left[j]]]
  /\ pc' = "solve"
  /\ UNCHANGED <<orig_graph, pp, pending, instance, d2, fill_d2, lower_bound, solutions,
                 aborted, treewidth>>

\* The edges of the bag are distinct, within the graph and new to it.
IsFillOf(bag, g) ==
  \A e \in BagToSet(bag) : e \in NonEdges(g) /\ bag[e] = 1

\* MapBack: the fill of all parts as one vector, and its assertions.
MapBackSolutions ==
  /\ pc = "map_back" /\ Len(solutions) = Len(instances)
  /\ LET S == 1 .. Len(solutions)
         width == MaxOf({lower_bound} \cup
                        {ChordalWidth(Filled(instances[i].graph, solutions[i])) : i \in S})
         final_fill == Filled(orig_graph, BagToSet(fill_edges'))
     IN  /\ fill_edges' = WithFill(fill_edges, S, solutions)
         /\ treewidth' = width
         /\ aborted' = (aborted \/ ~IsFillOf(fill_edges', orig_graph)
                        \/ ~HasPerfectElimination(final_fill)
                        \/ width # ChordalWidth(final_fill))
  /\ pc' = "done"
  /\ UNCHANGED <<orig_graph, pp, pending, instance, d2, fill_d2, lower_bound, instances,
                 solutions>>

\* MapBack's first assertion: an instance is left without a solution.
MapBackAborts ==
  /\ pc = "map_back" /\ Len(solutions) # Len(instances)
  /\ aborted' = TRUE
  /\ pc' = "done"
  /\ UNCHANGED <<orig_graph, pp, pending, instance, d2, fill_d2, lower_bound, fill_edges,
                 instances, solutions, treewidth>>

PreprocessStep == \/ Preprocess \/ TakeTriangulation \/ SplitIntoAtoms \/ KeepAtom
                  \/ EliminateDegree2 \/ RestartFilled \/ AddMissingEdge \/ KeepInstance
                  \/ FilterInstances

MapBackStep == MapBackSolutions \/ MapBackAborts
=============================================================================

-------------------------------- MODULE Mcs --------------------------------
(***************************************************************************)
(* The algorithms of mcs.cpp.  Treewidth has mcs::Mcs order the vertices by   *)
(* maximum cardinality search, with buckets of candidates by label whose      *)
(* entries go stale when a label grows or a vertex is numbered; it measures   *)
(* a chordal graph along that order and asserts that it was one.  McsM finds  *)
(* a minimal triangulation by a search of its own, and Atoms decomposes the   *)
(* graph by the clique separators that the search passes.                    *)
(*                                                                         *)
(* McsM numbers the vertices from the last to the first.  A vertex z that    *)
(* is reached from the new vertex x along vertices with smaller labels gets  *)
(* a fill edge; the search for them goes through buckets by the largest       *)
(* label on the way and raises labels as it goes.                           *)
(*                                                                         *)
(* A run is one call of Atoms on what McsM returns, or calls of Treewidth one  *)
(* after the other: the buckets of Mcs are static, and a call finds what the   *)
(* one before has left in them.  The other static vectors are set up for the   *)
(* graph and all used up by each call.  A vertex is pushed to a bucket at      *)
(* most once in a search, so a bucket is a set; the element that back() gives  *)
(* depends on the order of the adjacency lists, and may be any.              *)
(***************************************************************************)
EXTENDS Elimination

CONSTANTS TreewidthCalls,   \* the sequences of graphs that Treewidth is called with
          McsMGraphs,       \* the graphs that McsM and Atoms are called with
          MaxVertices       \* bound on their vertices

IsGiven(g) == IsGraph(g) /\ g.n \in 1 .. MaxVertices

ASSUME GivenAssumption == /\ MaxVertices \in Nat
                          /\ \A g \in McsMGraphs : IsGiven(g)
                          /\ \A given \in TreewidthCalls :
                               /\ given # <<>> /\ given \in Seq({given[i] : i \in DOMAIN given})
                               /\ \A i \in DOMAIN given : IsGiven(given[i])

\* The buckets that the largest graph needs.
AllBuckets == 0 .. MaxVertices - 1

VARIABLES function,      \* "Treewidth", or "Atoms" with McsM before it
          graph,
          calls,         \* the graphs of the later calls
          pc,
          label, rm, order,
          labels, max_label, it,   \* of Mcs; the position in Atoms too
          treewidth,     \* the result of Treewidth, -1 before, -2 if it aborts
          rc, reach,
          bucket,        \* the index i of the loop over reach
          x,             \* the vertex numbered last
          fill, prev_label,
          maximal_points,   \* the vertices with is_maximal_clique_point
          block,         \* the marks of Atoms
          atoms,         \* the vertex sets of the atoms, in order
          found

input == <<function, graph, calls>>
mcsVars == <<labels, max_label, treewidth>>
searchVars == <<rc, reach, bucket, x, fill, prev_label, maximal_points>>
atomVars == <<block, atoms, found>>
vars == <<input, pc, label, rm, order, it, mcsVars, searchVars, atomVars>>

Init ==
  /\ \/ /\ function = "Treewidth" /\ pc = "enter"
        /\ \E given \in TreewidthCalls : graph = Head(given) /\ calls = Tail(given)
     \/ /\ function = "Atoms" /\ pc = "select"
        /\ graph \in McsMGraphs /\ calls = <<>>
  /\ label = [v \in V(graph) |-> 0]
  /\ rm = {} /\ order = <<>>
  /\ labels = [l \in AllBuckets |-> {}] /\ max_label = 0
  /\ it = 1 /\ treewidth = -1
  /\ rc = {} /\ reach = [i \in V(graph) |-> {}] /\ bucket = 0 /\ x = 0
  /\ fill = {} /\ prev_label = -1 /\ maximal_points = {}
  /\ block = {} /\ atoms = <<>> /\ found = 0

-----------------------------------------------------------------------------
(* Mcs and Treewidth. *)

\* Planted fault: the buckets are made empty once, when they are made.
ClearedOnce == [l \in AllBuckets |-> IF l = 0 THEN V(graph) ELSE labels[l]]

\* The buckets of the graph with all vertices in the first; those of larger
\* graphs are left as they are.
Cleared == [l \in AllBuckets |-> CASE l = 0 -> V(graph)
                                   [] l \in V(graph) \ {0} -> {}
                                   [] OTHER -> labels[l]]

\* Treewidth without an edge to look at, or the beginning of Mcs.
Enter ==
  /\ pc = "enter"
  /\ IF graph.adj = {}
     THEN treewidth' = 0 /\ pc' = "done" /\ UNCHANGED <<label, rm, order, it, labels, max_label>>
     ELSE /\ pc' = "mcs"
          /\ label' = [v \in V(graph) |-> 0] /\ rm' = {} /\ order' = <<>>
          /\ labels' = Cleared /\ max_label' = 0
          /\ it' = graph.n - 1
          /\ UNCHANGED treewidth
  /\ UNCHANGED <<input, searchVars, atomVars>>

\* Nothing is left in the highest bucket.
LowerMaxLabel ==
  /\ pc = "mcs" /\ it >= 0 /\ labels[max_label] = {}
  /\ max_label' = max_label - 1
  /\ UNCHANGED <<input, pc, label, rm, labels, it, order, treewidth, searchVars, atomVars>>

\* Planted fault: the entry is looked at before it is popped.
SkipRemovedKeeping ==
  /\ pc = "mcs" /\ it >= 0
  /\ \E y \in labels[max_label] \cap rm : labels' = labels
  /\ UNCHANGED <<input, pc, label, rm, max_label, it, order, treewidth, searchVars, atomVars>>

\* A stale entry: the vertex has been numbered since it was pushed.
SkipRemoved ==
  /\ pc = "mcs" /\ it >= 0
  /\ \E y \in labels[max_label] \cap rm :
       labels' = [labels EXCEPT ![max_label] = @ \ {y}]
  /\ UNCHANGED <<input, pc, label, rm, max_label, it, order, treewidth, searchVars, atomVars>>

\* y is numbered: the labels of its neighbours grow, and they are pushed again.
Number ==
  /\ pc = "mcs" /\ it >= 0
  /\ \E y \in labels[max_label] \ rm :
       LET later == Neighbors(graph, y) \ rm
       IN  /\ order' = <<y>> \o order
           /\ label' = [v \in V(graph) |-> IF v \in later THEN label[v] + 1 ELSE label[v]]
           /\ labels' = [l \in AllBuckets |->
                (IF l = max_label THEN labels[l] \ {y} ELSE labels[l])
                  \cup {v \in later : label'[v] = l}]
           /\ max_label' = MaxOf({max_label} \cup {label'[v] : v \in later})
           /\ rm' = rm \cup {y}
  /\ it' = it - 1
  /\ UNCHANGED <<input, pc, treewidth, searchVars, atomVars>>

\* Planted fault: the neighbours that come before are taken.
EarlierNotLater(i) ==
  {v \in Neighbors(graph, order[i]) : \E j \in 1 .. i : order[j] = v}

\* The neighbours of the i-th vertex of the order that come after it.
Later(i) ==
  {v \in Neighbors(graph, order[i]) : \E j \in i + 1 .. graph.n : order[j] = v}

\* The width along the order.
WidthAlong == MaxOf({0} \cup {Cardinality(Later(i)) : i \in 1 .. graph.n})

\* The rest of Treewidth, with its assertion.
MeasureWidth ==
  /\ pc = "mcs" /\ it = -1
  /\ treewidth' = IF \A i \in 1 .. graph.n : IsClique(graph, Later(i))
                  THEN WidthAlong ELSE -2
  /\ pc' = "done"
  /\ UNCHANGED <<input, label, rm, labels, max_label, it, order, searchVars, atomVars>>

\* There is no other call, or the assertion has failed.
Ends == calls = <<>> \/ treewidth = -2

\* The next call of Treewidth.
CallAgain ==
  /\ pc = "done" /\ ~Ends
  /\ graph' = Head(calls) /\ calls' = Tail(calls)
  /\ treewidth' = -1
  /\ order' = <<>> /\ rm' = {} /\ label' = [v \in V(graph') |-> 0]
  /\ reach' = [i \in V(graph') |-> {}]
  /\ pc' = "enter"
  /\ UNCHANGED <<function, labels, max_label, it, rc, bucket, x, fill, prev_label,
                 maximal_points, atomVars>>

-----------------------------------------------------------------------------
(* McsM and Atoms. *)

Filling(g, F) == [g EXCEPT !.adj = @ \cup F]

\* The scan for the vertex to number: the last of those with the largest label.
MaxLabelVertex ==
  LET Left == V(graph) \ rm
      Top == {v \in Left : \A u \in Left : label[u] <= label[v]}
  IN  CHOOSE v \in Top : \A u \in Top : u <= v

\* The new vertex is connected to fewer than the last one was.
IsMaximalPoint(v) == label[v] <= prev_label

\* The marks rc that a search starts with.
StartMarks(v, start) == start \cup {v}

\* x is numbered and its neighbours start the search.
Select ==
  /\ pc = "select" /\ rm # V(graph)
  /\ x' = MaxLabelVertex
  /\ order' = <<x'>> \o order
  /\ maximal_points' = IF IsMaximalPoint(x') THEN maximal_points \cup {x'}
                                             ELSE maximal_points
  /\ prev_label' = label[x']
  /\ rm' = rm \cup {x'}
  /\ LET Start == Neighbors(graph, x') \ rm'
     IN  /\ rc' = StartMarks(x', Start)
         /\ reach' = [i \in V(graph) |-> {y \in Start : label[y] = i}]
  /\ bucket' = 0
  /\ pc' = "reach"
  /\ UNCHANGED <<input, label, fill, it, mcsVars, atomVars>>

\* Planted fault: a vertex with the bucket's own label is filled too.
HigherOrEqual(z) == label[z] >= bucket

\* z's label is larger than all labels on the way from x to it.
Higher(z) == label[z] > bucket

\* Planted fault: a vertex that was filled is not searched on from.
ReachStopping ==
  /\ pc = "reach" /\ bucket < graph.n
  /\ \E y \in reach[bucket] :
       LET New == (Neighbors(graph, y) \ rm) \ rc
           FillEnds == {z \in New : Higher(z)}
       IN  /\ rc' = rc \cup New
           /\ reach' = [reach EXCEPT ![bucket] = (@ \ {y}) \cup (New \ FillEnds)]
           /\ label' = [v \in V(graph) |-> IF v \in FillEnds THEN label[v] + 1 ELSE label[v]]
           /\ fill' = fill \cup {{x, z} : z \in FillEnds}
  /\ UNCHANGED <<input, pc, rm, bucket, x, order, prev_label, maximal_points, it, mcsVars, atomVars>>

\* One vertex of the bucket: its neighbours that were not reached go on the
\* bucket of their label, with a fill edge, or stay in this one.
ReachNeighbors ==
  /\ pc = "reach" /\ bucket < graph.n
  /\ \E y \in reach[bucket] :
       LET New == (Neighbors(graph, y) \ rm) \ rc
           FillEnds == {z \in New : Higher(z)}
       IN  /\ rc' = rc \cup New
           /\ reach' = [i \in V(graph) |->
                (IF i = bucket THEN (reach[i] \ {y}) \cup (New \ FillEnds) ELSE reach[i])
                  \cup {z \in FillEnds : label[z] = i}]
           /\ label' = [v \in V(graph) |-> IF v \in FillEnds THEN label[v] + 1 ELSE label[v]]
           /\ fill' = fill \cup {{x, z} : z \in FillEnds}
  /\ UNCHANGED <<input, pc, rm, bucket, x, order, prev_label, maximal_points, it, mcsVars, atomVars>>

NextBucket ==
  /\ pc = "reach" /\ bucket < graph.n /\ reach[bucket] = {}
  /\ bucket' = bucket + 1
  /\ UNCHANGED <<input, pc, label, rm, rc, reach, x, fill, order, prev_label,
                 maximal_points, it, mcsVars, atomVars>>

\* The neighbours' own labels grow last; after the last vertex Atoms begins,
\* with marks of its own.
RaiseNeighbors ==
  /\ pc = "reach" /\ bucket = graph.n
  /\ label' = [v \in V(graph) |->
       IF v \in Neighbors(graph, x) \ rm THEN label[v] + 1 ELSE label[v]]
  /\ IF rm = V(graph) THEN pc' = "atoms" /\ rm' = {}
                      ELSE pc' = "select" /\ UNCHANGED rm
  /\ UNCHANGED <<input, searchVars, order, it, mcsVars, atomVars>>

\* Planted fault: the neighbours in the graph without the fill.
CandCliqueUnfilled(v) == Neighbors(graph, v) \ rm

\* The neighbours of v in the filled graph that are not eliminated before it.
CandClique(v) == Neighbors(Filling(graph, fill), v) \ rm

\* A vertex of the elimination order: the component that a clique separator
\* cuts off is an atom together with that clique.
AtomAt ==
  /\ pc = "atoms" /\ it <= graph.n
  /\ LET v == order[it]
         cand == CandClique(v)
         component == FindComponent(graph, (block \cup cand) \ {v}, v)
     IN  IF v \in maximal_points /\ IsClique(graph, cand)
         THEN /\ atoms' = Append(atoms, component \cup cand)
              /\ block' = (block \cup component) \ cand
         ELSE UNCHANGED <<atoms, block>>
  /\ rm' = rm \cup {order[it]}
  /\ it' = it + 1
  /\ UNCHANGED <<input, pc, label, searchVars, order, mcsVars, found>>

EndElimination ==
  /\ pc = "atoms" /\ it > graph.n
  /\ pc' = "rest"
  /\ UNCHANGED <<input, label, rm, order, it, mcsVars, searchVars, atomVars>>

\* What is left is an atom, component by component.
AtomOfRest ==
  /\ pc = "rest" /\ block # V(graph)
  /\ LET v == CHOOSE u \in V(graph) \ block : \A w \in V(graph) \ block : u <= w
         component == FindComponent(graph, block, v)
     IN  /\ atoms' = Append(atoms, component)
         /\ block' = block \cup component
  /\ found' = found + 1
  /\ UNCHANGED <<input, pc, label, rm, order, it, mcsVars, searchVars>>

ReturnAtoms ==
  /\ pc = "rest" /\ block = V(graph)
  /\ pc' = "done"
  /\ UNCHANGED <<input, label, rm, order, it, mcsVars, searchVars, atomVars>>

Finished == pc = "done" /\ Ends /\ UNCHANGED vars

Next == \/ Enter \/ LowerMaxLabel \/ SkipRemoved \/ Number \/ MeasureWidth \/ CallAgain
        \/ Select \/ ReachNeighbors \/ NextBucket \/ RaiseNeighbors
        \/ AtomAt \/ EndElimination \/ AtomOfRest \/ ReturnAtoms \/ Finished

Spec == Init /\ [][Next]_vars

\* The program is one thread: the loops go on.
FairSpec == Spec /\ WF_vars(Next)

-----------------------------------------------------------------------------
(* Properties *)

TypeOK ==
  /\ function \in {"Treewidth", "Atoms"}
  /\ IsGiven(graph) /\ \A i \in DOMAIN calls : IsGiven(calls[i])
  /\ pc \in {"enter", "mcs", "select", "reach", "atoms", "rest", "done"}
  /\ label \in [V(graph) -> V(graph)]
  /\ rm \subseteq V(graph) /\ order \in Seq(V(graph))
  /\ labels \in [AllBuckets -> SUBSET AllBuckets]
  /\ max_label \in AllBuckets
  /\ it \in -1 .. graph.n + 1
  /\ treewidth \in -2 .. graph.n - 1
  /\ rc \subseteq V(graph) /\ block \subseteq V(graph)
  /\ reach \in [V(graph) -> SUBSET V(graph)]
  /\ bucket \in 0 .. graph.n /\ x \in V(graph)
  /\ fill \subseteq NonEdges(graph) /\ maximal_points \subseteq V(graph)
  /\ prev_label \in -1 .. graph.n - 1
  /\ found \in 0 .. graph.n /\ atoms \in Seq(SUBSET V(graph))

\* Behind the stale entries the buckets are right: every vertex that is not
\* numbered is in the bucket of its label, which counts its numbered
\* neighbours, and no bucket above max_label has a vertex to number.  Nothing
\* that an earlier call left behind is in them.
BucketsExact ==
  /\ TypeOK
  /\ pc = "mcs" =>
       /\ rm = {order[i] : i \in 1 .. Len(order)}
       /\ Len(order) = graph.n - 1 - it
       /\ Cardinality(rm) = Len(order)
       /\ \A v \in V(graph) \ rm :
            /\ label[v] = Cardinality(Neighbors(graph, v) \cap rm)
            /\ v \in labels[label[v]]
            /\ label[v] <= max_label
       /\ \A l \in V(graph) : \A v \in labels[l] : l <= label[v]

\* The order is one a maximum cardinality search may give, although the
\* loop takes any vertex of a bucket and meets stale entries; and every call
\* returns, although the loops step back.
Search == INSTANCE MaximumCardinalitySearch WITH
  McsGraphs <- McsMGraphs \cup UNION {{given[i] : i \in DOMAIN given} : given \in TreewidthCalls},
  order <- IF pc = "mcs" \/ (pc = "done" /\ graph.adj # {} /\ function = "Treewidth")
           THEN order ELSE <<>>
IsMaximumCardinalitySearch == Search!Spec /\ <>(pc = "done" /\ Ends)

\* Treewidth gives the width of every chordal graph, and its assertion fails
\* for the others only; the functions of Elimination say the same.
TreewidthExact ==
  treewidth # -1 =>
    /\ treewidth = IF IsChordal(graph) THEN WidthOf(graph, {}) ELSE -2
    /\ HasPerfectElimination(graph) <=> treewidth # -2
    /\ treewidth # -2 => ChordalWidth(graph) = treewidth

\* While a search is under way its fill edges are those from x to a vertex
\* that is not numbered.
FillOfSearch == IF pc = "reach" THEN {e \in fill : e \ rm # {} /\ x \in e} ELSE {}

\* The search by buckets, which changes the labels it compares, numbers and
\* fills as the definition by paths does.
TriangulatedGraph == IF function = "Atoms" THEN graph ELSE CHOOSE g \in McsMGraphs : TRUE
ByPaths == INSTANCE McsMByPaths WITH
  graph <- TriangulatedGraph,
  order <- CASE function # "Atoms" -> <<>> [] pc = "reach" -> Tail(order) [] OTHER -> order,
  fill <- fill \ FillOfSearch,
  weight <- [v \in V(TriangulatedGraph) |->
    CASE function # "Atoms" -> 0
      [] {x, v} \in FillOfSearch -> label[v] - 1
      [] OTHER -> label[v]]
IsMcsM == ByPaths!Spec

\* The fill is a minimal triangulation of the graph, and the order eliminates
\* the filled graph without further fill.
FillIsMinimal ==
  pc = "atoms" =>
    /\ IsMinimalTriangulation(graph, fill)
    /\ \A i \in 1 .. graph.n :
         IsClique(Filling(graph, fill),
                  {order[j] : j \in i .. graph.n} \cap
                    Neighbors(Filling(graph, fill), order[i]))

\* Atoms returns every atom of the graph once, although it looks for clique
\* separators only where the labels stop growing, and its assertion marked TODO
\* holds: one component is left at the end, of a graph that is not connected
\* too.  The loops over buckets and marks return what the functions of
\* Elimination define.
AtomsExact ==
  pc = "done" /\ function = "Atoms" =>
    /\ {atoms[i] : i \in 1 .. Len(atoms)} = AtomsOf(graph)
    /\ \A i, j \in 1 .. Len(atoms) : atoms[i] = atoms[j] => i = j
    /\ found = 1
    /\ \E out \in {McsM(graph)} :
         /\ out.fill = fill /\ out.order = order /\ out.points = maximal_points
         /\ atoms = Atoms(graph, out)
=============================================================================

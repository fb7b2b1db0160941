--------------------------- MODULE SmallGraphs ---------------------------
(***************************************************************************)
(* The graphs the runs use.  An edge {u, v} with u < v is written as the     *)
(* number 10 u + v.                                                         *)
(***************************************************************************)
EXTENDS GraphOps

Graph(n, edges) == [n |-> n, adj |-> {{e \div 10, e % 10} : e \in edges}]

\* Every labelled graph on n vertices.
AllGraphs(n) == {[n |-> n, adj |-> E] : E \in SUBSET Pairs(0 .. n - 1)}

\* One graph for each of the 34 isomorphism classes on five vertices.
FiveVertexEdges ==
  { {}, {1}, {1,2}, {1,23}, {1,2,3}, {1,2,12}, {1,2,13}, {1,2,34}, {1,2,3,4},
    {1,2,3,12}, {1,2,3,14}, {1,2,12,34}, {1,2,13,23}, {1,2,13,24},
    {1,2,3,4,12}, {1,2,3,12,13}, {1,2,3,12,14}, {1,2,3,12,34}, {1,2,3,14,24},
    {1,2,13,24,34}, {1,2,3,4,12,13}, {1,2,3,4,12,34}, {1,2,3,12,13,23},
    {1,2,3,12,13,24}, {1,2,3,12,14,34}, {1,2,3,14,24,34}, {1,2,3,4,12,13,14},
    {1,2,3,4,12,13,23}, {1,2,3,4,12,13,24}, {1,2,3,12,13,24,34},
    {1,2,3,4,12,13,14,23}, {1,2,3,4,12,13,24,34}, {1,2,3,4,12,13,14,23,24},
    {1,2,3,4,12,13,14,23,24,34} }

FiveVertexGraphs == {Graph(5, edges) : edges \in FiveVertexEdges}

Complete(n) == [n |-> n, adj |-> Pairs(0 .. n - 1)]

Path3 == Graph(3, {1, 12})
Path4 == Graph(4, {1, 12, 23})
Path4Shuffled == Graph(4, {2, 23, 13})
Cycle4 == Graph(4, {1, 12, 23, 3})
Claw == Graph(4, {3, 13, 23})
Diamond == Graph(4, {1, 2, 3, 12, 23})
Paw == Graph(4, {1, 2, 12, 23})
TwoEdges == Graph(4, {1, 23})
Cycle5 == Graph(5, {1, 12, 23, 34, 4})
House == Graph(5, {1, 12, 23, 3, 4, 14})
Path5 == Graph(5, {1, 12, 23, 34})
\* The two sides are {0, 4} and {1, 2, 3}.
CompleteBipartite23 == Graph(5, {1, 2, 3, 14, 24, 34})
Wheel4 == Graph(5, {1, 12, 23, 3, 4, 14, 24, 34})

\* The search of McsM fills here along a path that it has just filled.
SixWithLongPath == Graph(6, {3, 5, 14, 15, 23, 25, 34})
Cycle6 == Graph(6, {1, 12, 23, 34, 45, 5})
Domino == Graph(6, {1, 12, 23, 34, 45, 5, 14})
TwoTriangles == Graph(6, {1, 2, 12, 34, 35, 45})
CycleAndTail == Graph(6, {1, 12, 23, 3, 34, 45})
Prism == Graph(6, {1, 2, 12, 34, 35, 45, 3, 14, 25})
CompleteBipartite33 == Graph(6, {3, 4, 5, 13, 14, 15, 23, 24, 25})
Octahedron == Graph(6, {1, 2, 4, 5, 12, 13, 15, 23, 24, 34, 35, 45})
=============================================================================

--------------------------- MODULE MCTreewidthSolver ---------------------------
EXTENDS TreewidthSolver, Io, SmallGraphs

\* A graph read from a file has no vertex without an edge.
NoneIsolated(G) == {g \in G : \A v \in V(g) : Neighbors(g, v) # {}}

Small == NoneIsolated(UNION {AllGraphs(n) : n \in 2 .. 4} \cup FiveVertexGraphs)

\* The rules settle every graph with up to five vertices.  These leave
\* instances: one with all six vertices, one with six of seven, all seven, and
\* two with six of eight each.
Irreducible6 == Graph(6, {3, 4, 5, 13, 14, 15, 23, 24, 25, 34})
Irreducible7 == Graph(7, {2, 3, 5, 6, 12, 13, 15, 16, 23, 24, 35, 45, 46})
OneOfSeven == Graph(7, {4, 6, 12, 13, 14, 16, 25, 26, 34, 35, 36, 45, 46})
TwoOfEight == Graph(8, {3, 4, 5, 12, 13, 14, 15, 16, 25, 27, 36, 45, 46, 47, 56, 67})

\* A graph for each rule: K4 with two edges subdivided, and wheels.
SubdividedK4 == Graph(6, {2, 3, 12, 13, 4, 14, 25, 35})
Wheel5 == Graph(6, {1, 2, 3, 4, 5, 12, 23, 34, 45, 15})
Wheel6 == Graph(7, {1, 2, 3, 4, 5, 6, 12, 23, 34, 45, 56, 16})

Larger == {SixWithLongPath, Cycle6, Domino, TwoTriangles, CycleAndTail, Prism,
           CompleteBipartite33, Octahedron, SubdividedK4, Wheel5, Wheel6,
           Irreducible6, Irreducible7, OneOfSeven, TwoOfEight}
\* Of the graphs with six vertices, those with nine or ten edges and no
\* vertex of degree two, and those with seven edges, all in a cycle, in which
\* the last vertex and another one have degree three: the graphs on which the
\* rules have most to do.
SixVertexGraphs(sizes, degree) ==
  {g \in {[n |-> 6, adj |-> edges] :
            edges \in {S \in SUBSET Pairs(0 .. 5) : Cardinality(S) \in sizes}} :
     \A v \in V(g) : Cardinality(Neighbors(g, v)) >= degree}
SixVertices == SixVertexGraphs({9, 10}, 3) \cup 
                 {g \in SixVertexGraphs({7}, 2) : Cardinality(Neighbors(g, 5)) = 3}

\* Files: empty, with a header alone, with an edge twice and names left out, with
\* lines of no meaning, and with a second header, which drops what is before it.
Line(tag, rest) == [tag |-> tag, rest |-> rest]
Header == Line("p", <<8, 8>>)
Edge(u, v) == Line("e", <<u, v>>)
Files == {<<>>, <<Header>>,
          <<Edge(1, 2), Header, Edge(3, 7), Edge(7, 3), Edge(7, 9)>>,
          <<Header, Edge(1, 2), Line("p", <<4>>), Edge(2, 4), Line("e", <<5>>), Edge(4, 1),
            Line("c", <<1, 6>>)>>,
          <<Header, Edge(1, 2), Edge(2, 3), Header, Edge(2, 5), Edge(3, 6)>>}

\* Without preprocessing the graph is the only instance: smaller ones will do.
Read == ((Small \cup Larger \cup SixVertices) \X {TRUE})
          \cup ((Small \cup {ReadGraph(f) : f \in Files}) \X BOOLEAN)
AllMethods == {"network", "totalizer", "asp", "comb"}

\* Without preprocessing, and with the totalizer.
ReadAsIs == NoneIsolated(UNION {AllGraphs(n) : n \in 2 .. 4}) \X {FALSE}

ASSUME FilesAssumption == \A f \in Files : IsReadable(f)
=============================================================================

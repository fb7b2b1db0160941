--------------------------- MODULE MCEnumerator ---------------------------
EXTENDS Enumerator, SmallGraphs

\* An edge, paths, a cycle, a star, two components, a complete graph: rounds
\* without, with one and with many bad models; and five vertices with
\* separators of two and three vertices that leave up to three components.  As
\* in all graphs that are read from a file, no vertex is isolated.
SmallFamily == {Complete(2), Path3, Path4, Path4Shuffled, Cycle4, Claw,
                TwoEdges, Diamond, Complete(4), CompleteBipartite23}

\* The hypergraph of some edges, numbered like those of SmallGraphs.
Hyper(n, edges) ==
  [n |-> n, edges |-> edges, adj |-> UNION {Pairs(edges[i]) : i \in DOMAIN edges}]
Binary(edges) == [i \in DOMAIN edges |-> {edges[i] \div 10, edges[i] % 10}]

\* One vertex, in an edge that is there twice; edges with a vertex of their own;
\* one clique that takes an edge and one that takes two; a cycle and the complete
\* graph, whose cliques take two.
Hypergraphs == {Hyper(1, <<{0}, {0}>>), Hyper(4, <<{0, 3}, {1, 3}, {2, 3}>>),
                Hyper(4, <<{0, 1, 2}, {2, 3}, {3, 0}>>),
                Hyper(4, Binary(<<1, 12, 23, 30>>)),
                Hyper(4, Binary(<<1, 2, 3, 12, 13, 23>>))}

SmallInputs == SmallFamily \cup Hypergraphs

\* The totalizer's third output is made of an input here.
ThreeEdges == {Hyper(3, Binary(<<1, 2, 12>>))}

\* Enough for the first separator that is cut.
LiveFamily == {Path3, Path4, Cycle4, TwoEdges, Complete(2)}
=============================================================================

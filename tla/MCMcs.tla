------------------------------- MODULE MCMcs -------------------------------
EXTENDS Mcs, SmallGraphs

\* Every labelled graph on up to four vertices, as the scan for the largest
\* label depends on the numbers of the vertices, and one of each isomorphism
\* class on five.
UpToFive == UNION {AllGraphs(n) : n \in 1 .. 4} \cup FiveVertexGraphs

\* What a call leaves behind in every bucket of a graph that is as large, or of
\* one that is smaller or larger.
Before == {Complete(4), Path4, Claw, Complete(5)}
Calls == {<<g>> : g \in UpToFive} \cup {<<g, h>> : g \in Before, h \in AllGraphs(4)}
           \cup {<<Complete(4), Path3, g>> : g \in FiveVertexGraphs}

\* For McsM those on five vertices with their numbers reversed too, and some
\* larger ones.
Reversed(g) == [g EXCEPT !.adj = {{g.n - 1 - v : v \in e} : e \in @}]
Larger == {SixWithLongPath, Reversed(SixWithLongPath), Domino, TwoTriangles,
           CycleAndTail, Prism, CompleteBipartite33, Octahedron}
Searched == UpToFive \cup {Reversed(g) : g \in FiveVertexGraphs} \cup Larger
=============================================================================

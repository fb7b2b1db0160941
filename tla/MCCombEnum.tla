----------------------------- MODULE MCCombEnum -----------------------------
EXTENDS CombEnum, SmallGraphs

Connected(G) == {g \in G : \A C \in Components(g, {}) : C = V(g)}

Small == UNION {AllGraphs(n) : n \in 1 .. 4} \cup FiveVertexGraphs
Enumerated == Connected(Small) \cup {SixWithLongPath, Domino, Prism}

\* The instances that preprocessing leaves are connected.
Counted == {<<<<g>>, b>> : g \in {Cycle6, Domino, Prism, CompleteBipartite33}, b \in {2, 8, 9, 100}}
             \cup {<<<<g, h>>, b>> : g, h \in {Cycle4, Cycle5, CompleteBipartite23}, b \in {2, 6, 7, 8}}

\* A graph that is read need not be connected, but has no vertex without an edge.
AnyGraph == {g \in UNION {AllGraphs(n) : n \in 2 .. 4} : \A v \in V(g) : Neighbors(g, v) # {}}
NoCounts == {}
=============================================================================

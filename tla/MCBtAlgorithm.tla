--------------------------- MODULE MCBtAlgorithm ---------------------------
EXTENDS BtAlgorithm, SmallGraphs

\* Connected and disconnected graphs whose every subset of cliques is tried.
\* One vertex alone is what a hypergraph of singletons comes to.
SmallFamily == {Complete(1), Path4, Path4Shuffled, Cycle4, Claw,
                TwoEdges, Diamond, Paw, Complete(4)}
\* Larger graphs with the cliques of at most k vertices for each k, as the
\* drivers pass them.
FiveFamily == {Path5, Cycle5, House, CompleteBipartite23, Wheel4}

AllGiven == SmallFamily \cup FiveFamily
Given ==
  [g \in AllGiven |->
    LET P == PotentialMaximalCliques(g)
    IN  IF g \in SmallFamily THEN SUBSET P
        ELSE {{X \in P : Cardinality(X) <= s} : s \in 1 .. g.n}]
=============================================================================

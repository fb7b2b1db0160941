----------------------- MODULE MCHypertreewidthSolver -----------------------
EXTENDS HypertreewidthSolver, Io

\* Up to three different edges with at most four names, the first ones in use.
SmallFiles ==
  {SetToSeq(E) : E \in {F \in UNION {kSubset(m, SUBSET (1 .. 4)) : m \in 0 .. 3} :
                          UNION F = 1 .. Cardinality(UNION F)}}

Binary(edges) == [i \in DOMAIN edges |-> {edges[i] \div 10, edges[i] % 10}]
\* Files with an edge twice, a singleton twice, an empty line; cycles of large and
\* of small edges; complete graphs, which need many edges; parts of different
\* width that share an edge or a vertex, the widest first, last and between.
Special == { <<{3}, {3}>>, <<{1, 2}, {1, 2}>>, <<{}, {2}>>, <<{1}, {1, 2}, {}>>,
             <<{1, 2, 3}, {3, 4, 5}, {1, 5, 6}>>, <<{1, 2, 3}, {3, 4, 5}, {1, 5}, {2, 4}>>,
             Binary(<<12, 23, 34, 41>>), Binary(<<12, 23, 34, 45, 51>>),
             Binary(<<12, 13, 14, 23, 24, 34>>),
             Binary(<<12, 13, 14, 15, 23, 24, 25, 34, 35, 45>>),
             Binary(<<12, 13, 14, 15, 23, 24, 25, 34, 35, 45, 46, 56>>),
             Binary(<<12, 13, 23, 24, 25, 26, 34, 35, 36, 45, 46, 56>>),
             Binary(<<13, 14, 15, 16, 23, 24, 25, 26, 34, 35, 36, 45>>),
             Binary(<<12, 23, 31, 34, 45, 53>>),
             Binary(<<12, 23, 31, 34, 35, 36, 45, 46, 56>>),
             <<{1, 2, 3}, {2, 3, 4}, {1, 4}, {4, 5}, {5, 6}, {4, 6}>> }
Read == {ReadHyperGraph([i \in DOMAIN f |-> SetToSeq(f[i])]) : f \in SmallFiles \cup Special}
AllMethods == {"network", "totalizer", "asp", "comb"}
=============================================================================

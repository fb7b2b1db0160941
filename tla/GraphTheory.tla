--------------------------- MODULE GraphTheory ---------------------------
(***************************************************************************)
(* What the literature means by the notions the program computes, defined   *)
(* with no reference to its algorithms: chordal graphs, minimal             *)
(* triangulations, potential maximal cliques, minimal separators and        *)
(* treewidth.  The runs compare the program's tests and results with these. *)
(***************************************************************************)
EXTENDS GraphOps

NonEdges(g) == Pairs(V(g)) \ g.adj

Filled(g, fill) == [g EXCEPT !.adj = @ \cup fill]

\* A graph is chordal iff every induced subgraph has a simplicial vertex.
IsChordal(g) ==
  \A S \in (SUBSET V(g)) \ {{}} :
    \E v \in S : IsClique(g, Neighbors(g, v) \cap S)

Triangulations(g) == {F \in SUBSET NonEdges(g) : IsChordal(Filled(g, F))}

MinimalTriangulations(g) ==
  LET T == Triangulations(g)
  IN  {F \in T : \A G \in T : G \subseteq F => G = F}

IsMinimalTriangulation(g, F) ==
  /\ F \subseteq NonEdges(g)
  /\ \A G \in SUBSET F : IsChordal(Filled(g, G)) <=> G = F

MaximalCliques(g) ==
  LET K == {S \in SUBSET V(g) : IsClique(g, S)}
  IN  {S \in K : \A T \in K : S \subseteq T => S = T}

\* A potential maximal clique is a maximal clique of a minimal triangulation.
PotentialMaximalCliques(g) ==
  UNION {MaximalCliques(Filled(g, F)) : F \in MinimalTriangulations(g)}

\* S separates two vertices and each of them sees all of S.
IsMinimalSeparator(g, S) ==
  \E C, D \in Components(g, S) : /\ C # D
                                 /\ NeighborsOf(g, C) = S
                                 /\ NeighborsOf(g, D) = S

\* The vertices S induce a graph that is connected and has no clique separator.
HasNoCliqueSeparator(g, S) ==
  \A K \in SUBSET S : IsClique(g, K) => Cardinality(Components(g, (V(g) \ S) \cup K)) <= 1

\* The atoms of a graph: the largest such sets.
AtomsOf(g) ==
  LET A == {S \in (SUBSET V(g)) \ {{}} : HasNoCliqueSeparator(g, S)}
  IN  {S \in A : \A T \in A : S \subseteq T => S = T}

\* The size of a largest clique of the graph filled with F, less one.
WidthOf(g, F) ==
  LET Sizes == {Cardinality(K) : K \in MaximalCliques(Filled(g, F))}
  IN  (CHOOSE s \in Sizes : \A t \in Sizes : t <= s) - 1

\* The least width of a minimal triangulation built from the cliques in
\* pmcs only; -1 if there is none.
WidthFrom(g, pmcs) ==
  LET W == {WidthOf(g, F) :
              F \in {G \in MinimalTriangulations(g) :
                       MaximalCliques(Filled(g, G)) \subseteq pmcs}}
  IN  IF W = {} THEN -1 ELSE CHOOSE w \in W : \A x \in W : w <= x

Treewidth(g) == WidthFrom(g, SUBSET V(g))
=============================================================================

---------------------------- MODULE GraphOps ----------------------------
(***************************************************************************)
(* The queries of class Graph (graph.cpp).  A graph is a record with the    *)
(* number of vertices n and the set adj of its edges, each a two-element    *)
(* set, so adj_list_ and adj_mat_, which the class keeps in step, are one    *)
(* field.  A vector of vertices is the set of its elements: every caller     *)
(* sorts it or treats it as a set.  A symmetric Matrix<char> is the set of   *)
(* the two-element sets whose entry is true.                                *)
(*                                                                         *)
(* A component is the least closed set around a vertex, with no recursion,   *)
(* so that the module can be proved about.                                  *)
(*                                                                         *)
(* A definition marked "Planted fault", here and in the other modules, is a *)
(* wrong variant of the definition after it.  No specification uses it: it   *)
(* is there to see that a property does fail when the code is wrong.        *)
(***************************************************************************)
EXTENDS Integers, FiniteSets

V(g) == 0 .. (g.n - 1)

\* The unordered pairs of distinct elements of S.
Pairs(S) == {{u, w} : u \in S, w \in S} \ {{u} : u \in S}

IsGraph(g) == /\ {"n", "adj"} \subseteq DOMAIN g
              /\ g.n \in Nat
              /\ g.adj \subseteq Pairs(V(g))

HasEdge(g, u, v) == {u, v} \in g.adj

\* Graph::Neighbors of one vertex.
Neighbors(g, v) == {u \in V(g) : HasEdge(g, u, v)}

\* Planted fault: the set's members are not taken out again.
NeighborsAndMembers(g, vs) == {u \in V(g) : \E v \in vs : u = v \/ HasEdge(g, u, v)}

\* Graph::Neighbors of a set: its members left out.
NeighborsOf(g, vs) == {u \in V(g) \ vs : \E v \in vs : HasEdge(g, u, v)}

\* C is left by no edge of g that avoids the blocked vertices.
IsClosed(g, block, C) ==
  \A u \in C : \A w \in V(g) \ block : HasEdge(g, u, w) => w \in C

\* What Graph::Dfs visits from v: the least closed set of unblocked vertices
\* that contains v.
FindComponent(g, block, v) ==
  {w \in V(g) \ block :
     \A C \in SUBSET (V(g) \ block) : v \in C /\ IsClosed(g, block, C) => w \in C}

\* Graph::Components.
Components(g, separator) ==
  {FindComponent(g, separator, v) : v \in V(g) \ separator}

\* Graph::ConnectedMatrix: the edges, and every pair inside a component of
\* g - separator together with that component's neighbourhood.
ConnectedMatrix(g, separator) ==
  g.adj \cup
  UNION {Pairs(C \cup NeighborsOf(g, C)) : C \in Components(g, separator)}

\* Graph::IsPmc for a connectivity matrix that was computed before.
IsPmcIn(g, pmc, connected) ==
  /\ Pairs(pmc) \subseteq connected
  /\ \A i \in V(g) \ pmc : \E j \in pmc : {i, j} \notin connected

\* Graph::IsPmc: the potential maximal clique test.
IsPmc(g, pmc) == IsPmcIn(g, pmc, ConnectedMatrix(g, pmc))

IsClique(g, clique) == Pairs(clique) \subseteq g.adj
=============================================================================

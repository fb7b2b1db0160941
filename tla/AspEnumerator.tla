--------------------------- MODULE AspEnumerator ---------------------------
(***************************************************************************)
(* asp_enumerator (asp_enumerator.cpp): the cliques that clingo finds for     *)
(* the rules of treewidth_encoding.lp and hypertreewidth_encoding.lp.  A      *)
(* choice rule is a choice of a set, a defined relation is the least one its   *)
(* rules allow, and a test rules answers out.                               *)
(***************************************************************************)
EXTENDS Elimination

\* Planted fault: the last rule for c goes through selected vertices too.
AspConnectedThrough(g, pmc, v) == SeenFrom(g, {}, v)

\* The vertices y with c(v, y): v itself, its neighbours, and the neighbours of
\* connected vertices that are not selected.
AspConnected(g, pmc, v) ==
  LET Grow(c) == c \cup UNION {Neighbors(g, z) : z \in c \ pmc}
  IN  Iterate(Grow, {v} \cup Neighbors(g, v), g.n)

\* The tests: selected vertices are connected, and for no other vertex the set
\* of y with d(v, y) is empty.
PassesTests(g, pmc) ==
  \A v \in V(g) : \E c \in {AspConnected(g, pmc, v)} :
    IF v \in pmc THEN pmc \subseteq c ELSE pmc \ c # {}

\* TreewidthPmcs: size vertices are selected.
TreewidthPmcs(g, size) ==
  {pmc \in SUBSET V(g) : Cardinality(pmc) = size /\ PassesTests(g, pmc)}

\* Planted fault: one hyperedge too few.
UnionsOfFewer(h, s) ==
  LET Extend(U) == U \cup {A \cup h.edges[i] : A \in U, i \in DOMAIN h.edges}
  IN  IF s <= 1 THEN Extend({{}}) ELSE Iterate(Extend, {{}}, s - 1)

\* What some s of the hyperedges of h, or fewer, have in them.
Unions(h, s) ==
  LET Extend(U) == U \cup {A \cup h.edges[i] : A \in U, i \in DOMAIN h.edges}
  IN  Iterate(Extend, {{}}, s)

\* HypertreewidthPmcs for a hypergraph with its primal graph: size hyperedges
\* are selected, if there are so many, and cover the vertices that are.  Answers
\* that differ in the hyperedges only are one after SortAndDedup.
HypertreewidthPmcs(h, size) ==
  IF size > Len(h.edges) THEN {}
  ELSE UNION {{pmc \in SUBSET V(h) : (\E U \in covered : pmc \subseteq U) /\ PassesTests(h, pmc)} :
                covered \in {Unions(h, size)}}
=============================================================================

---------------------------- MODULE Elimination ----------------------------
(***************************************************************************)
(* The results of mcs.cpp as functions of the graph, for the modules that    *)
(* call it.  The run of Mcs shows that the step-by-step algorithms  *)
(* compute what is defined here.                                            *)
(***************************************************************************)
EXTENDS GraphTheory, Sequences

MaxOf(S) == CHOOSE m \in S : \A x \in S : x <= m
MinOf(S) == CHOOSE m \in S : \A x \in S : m <= x

\* Op applied n times.  Each stage is bound as an element of a set, so that TLC
\* evaluates it once wherever Op uses its argument.
Iterate(Op(_), start, n) ==
  LET after[k \in 0 .. n] ==
        IF k = 0 THEN start
        ELSE CHOOSE t \in {Op(s) : s \in {after[k - 1]}} : TRUE
  IN  after[n]

\* What v reaches along vertices of S.
Reach(g, S, v) ==
  LET Grow(reached) == reached \cup {w \in S : \E u \in reached : HasEdge(g, u, w)}
  IN  Iterate(Grow, {v}, Cardinality(S))

\* The vertex that McsM numbers next: the last of those with the largest label.
LastOfLargest(left, label) ==
  MaxOf({v \in left : \A u \in left : label[u] <= label[v]})

\* The vertices whose label McsM raises when it numbers x: those it reaches
\* along vertices with smaller labels.
Raised(g, left, label, x) ==
  {z \in left : \E y \in Reach(g, {w \in left : label[w] < label[z]}, x) : HasEdge(g, y, z)}

\* McsM: the elimination order, the fill, and the vertices at which the
\* labels stopped growing.
McsM(g) ==
  LET NumberVertex(s, x, raised) ==
        [left |-> s.left \ {x},
         order |-> <<x>> \o s.order,
         label |-> [v \in V(g) |-> IF v \in raised THEN s.label[v] + 1 ELSE s.label[v]],
         fill |-> s.fill \cup {{x, z} : z \in {u \in raised : ~HasEdge(g, x, u)}},
         prev |-> s.label[x],
         points |-> IF s.label[x] <= s.prev THEN s.points \cup {x} ELSE s.points]
      Next(s) ==
        CHOOSE t \in UNION {{NumberVertex(s, x, raised) :
                               raised \in {Raised(g, s.left \ {x}, s.label, x)}} :
                              x \in {LastOfLargest(s.left, s.label)}} : TRUE
  IN  Iterate(Next, [left |-> V(g), order |-> <<>>, label |-> [v \in V(g) |-> 0],
                     fill |-> {}, prev |-> -1, points |-> {}], g.n)

\* Atoms: their vertex sets in the order they are found.  cand is what the
\* filled graph has of x's neighbours among those that are left.
Atoms(g, out) ==
  LET Eliminate(s, x, cand) ==
        LET component == Reach(g, V(g) \ (s.block \cup cand), x)
            rest == [s EXCEPT !.it = @ + 1, !.rm = @ \cup {x}]
        IN  IF x \in out.points /\ IsClique(g, cand)
            THEN [rest EXCEPT !.block = (@ \cup component) \ cand,
                              !.atoms = Append(@, component \cup cand)]
            ELSE rest
      Next(s) ==
        CHOOSE t \in UNION {{Eliminate(s, x, cand) :
                   cand \in {Neighbors(Filled(g, out.fill), x) \ s.rm}} :
                   x \in {out.order[s.it]}} : TRUE
      end == Iterate(Next, [it |-> 1, rm |-> {}, block |-> {}, atoms |-> <<>>], g.n)
  IN  Append(end.atoms, V(g) \ end.block)

\* Treewidth: a perfect elimination, if there is one, the width along it, and
\* each vertex with its neighbours after it.
SimplicialElimination(g) ==
  LET After(s, v) == Neighbors(g, v) \cap s.left
      Simplicial(s) == {v \in s.left : IsClique(g, After(s, v))}
      Next(s) ==
        IF Simplicial(s) = {} THEN s
        ELSE CHOOSE t \in {[left |-> s.left \ {v},
                            width |-> MaxOf({s.width, Cardinality(After(s, v))}),
                            bags |-> s.bags \cup {{v} \cup After(s, v)}] :
                             v \in {MinOf(Simplicial(s))}} : TRUE
  IN  Iterate(Next, [left |-> V(g), width |-> 0, bags |-> {}], g.n)

ChordalWidth(g) == SimplicialElimination(g).width
HasPerfectElimination(g) == SimplicialElimination(g).left = {}

\* The vertices that v is connected to around S, the notion of ConnectedMatrix.
SeenFrom(g, S, v) ==
  UNION {R \cup NeighborsOf(g, R) : R \in {Reach(g, V(g) \ S, v)}}

\* The potential maximal cliques with s vertices, as Graph::IsPmc tells them.
PmcsWithSize(g, s) ==
  {X \in SUBSET V(g) : Cardinality(X) = s /\ \A v \in V(g) : v \in X <=> X \subseteq SeenFrom(g, X, v)}

\* BtAlgorithm::Solve: the triangulations of least width whose maximal cliques
\* are all in P, any of which may be returned; none if there are none.
BtSolve(g, P) ==
  LET Cliques(s) == {B \in s.bags : \A C \in s.bags : B \subseteq C => B = C}
      Candidates == {t \in {[fill |-> F, by |-> SimplicialElimination(Filled(g, F))] :
                             F \in SUBSET ((UNION {Pairs(X) : X \in P}) \ g.adj)} :
                       t.by.left = {} /\ Cliques(t.by) \subseteq P}
      Best(all) == {[fill |-> t.fill, width |-> t.by.width] :
                      t \in {u \in all : \A w \in all : u.by.width <= w.by.width}}
  IN  UNION {Best(all) : all \in {Candidates}}

\* All vertices can be eliminated one after the other so that Fits(B) for each
\* of them with its neighbours at that moment, B.  S is eliminated first.
CanEliminate(g, Fits(_)) ==
  LET Bag(S, v) == {v} \cup (NeighborsOf(g, Reach(g, S, v)) \ S)
      Extend(first) ==
        UNION {{S \cup {v} : v \in {w \in V(g) \ S : Fits(Bag(S, w))}} : S \in first}
  IN  V(g) \in Iterate(Extend, {{}}, g.n)

\* The treewidth of any graph, as the least width with which all vertices can
\* be eliminated: the reference for graphs too large for GraphTheory's.
EliminationWidth(g) ==
  LET least[width \in 0 .. g.n] ==
        LET Fits(B) == Cardinality(B) <= width + 1
        IN  IF CanEliminate(g, Fits) THEN width ELSE least[width + 1]
  IN  least[0]
=============================================================================

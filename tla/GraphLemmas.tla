--------------------------- MODULE GraphLemmas ---------------------------
(***************************************************************************)
(* Graph theory, for every graph.  First facts about the queries of GraphOps, *)
(* and about the least and the greatest of a set of numbers; then about      *)
(* chordal graphs as GraphTheory defines them (every induced subgraph has a    *)
(* simplicial vertex, one whose neighbours are a clique), their width and their *)
(* perfect eliminations, and about minimal triangulations: their maximal       *)
(* cliques are the sets that Graph::IsPmc accepts.                            *)
(***************************************************************************)
EXTENDS Elimination, FiniteSetTheorems, WellFoundedInduction, TLAPS

\* An unordered pair is a pair of distinct elements.
LEMMA PairsMember ==
  ASSUME NEW S, NEW e
  PROVE  e \in Pairs(S) <=> \E u \in S, w \in S : u # w /\ e = {u, w}
<1>1. ASSUME NEW u \in S, NEW w \in S, u # w, e = {u, w}
      PROVE  e \in Pairs(S)
  <2>1. \A z : e # {z}
    BY <1>1
  <2> QED
    BY <1>1, <2>1 DEF Pairs
<1>2. ASSUME e \in Pairs(S)
      PROVE  \E u \in S, w \in S : u # w /\ e = {u, w}
  <2>1. PICK u \in S, w \in S : e = {u, w}
    BY <1>2 DEF Pairs
  <2>2. u # w
    BY <1>2, <2>1 DEF Pairs
  <2> QED
    BY <2>1, <2>2
<1> QED
  BY <1>1, <1>2

\* A pair of two different vertices is over S iff both are in S.
LEMMA PairsOf ==
  ASSUME NEW S, NEW u, NEW w, u # w
  PROVE  {u, w} \in Pairs(S) <=> u \in S /\ w \in S
  BY PairsMember

\* No edge leads from a vertex to itself.
LEMMA NoLoops ==
  ASSUME NEW g, IsGraph(g)
  PROVE  \A a : ~HasEdge(g, a, a)
<1> SUFFICES ASSUME NEW a, {a, a} \in g.adj PROVE FALSE
  BY DEF HasEdge
<1>1. {a, a} \in Pairs(V(g))
  BY DEF IsGraph
<1>2. PICK p \in V(g), q \in V(g) : p # q /\ {a, a} = {p, q}
  BY <1>1, PairsMember
<1> QED
  BY <1>2

\* Edges have no direction.
LEMMA EdgeSymmetric ==
  ASSUME NEW g, NEW u, NEW w
  PROVE  HasEdge(g, u, w) <=> HasEdge(g, w, u)
<1>1. {u, w} = {w, u}
  OBVIOUS
<1> QED
  BY <1>1 DEF HasEdge

\* A depth-first search starts from its vertex, stays among the unblocked
\* vertices, follows every edge to one of them, and visits no more than that.
LEMMA ComponentClosed ==
  ASSUME NEW g, NEW S, NEW v \in V(g) \ S
  PROVE  /\ v \in FindComponent(g, S, v)
         /\ FindComponent(g, S, v) \subseteq V(g) \ S
         /\ IsClosed(g, S, FindComponent(g, S, v))
         /\ \A C \in SUBSET (V(g) \ S) :
              v \in C /\ IsClosed(g, S, C) => FindComponent(g, S, v) \subseteq C
  BY DEF FindComponent, IsClosed

\* A search that starts anywhere in a component visits the same component.
LEMMA ComponentOfMember ==
  ASSUME NEW g, NEW S, NEW v \in V(g) \ S, NEW u \in FindComponent(g, S, v)
  PROVE  FindComponent(g, S, u) = FindComponent(g, S, v)
<1> DEFINE A == FindComponent(g, S, v)
           B == FindComponent(g, S, u)
<1>1. u \in V(g) \ S
  BY ComponentClosed
<1>2. B \subseteq A
  BY <1>1, ComponentClosed
<1>3. v \in B
  <2> SUFFICES ASSUME v \notin B PROVE FALSE
    OBVIOUS
  <2>1. IsClosed(g, S, A \ B)
    <3> SUFFICES ASSUME NEW a \in A \ B, NEW b \in V(g) \ S, HasEdge(g, a, b)
                 PROVE  b \in A \ B
      BY DEF IsClosed
    <3>1. b \in A
      BY ComponentClosed DEF IsClosed
    <3>2. ASSUME b \in B PROVE FALSE
      <4>1. HasEdge(g, b, a) /\ a \in V(g) \ S
        BY ComponentClosed DEF HasEdge
      <4> QED
        BY <1>1, <3>2, <4>1, ComponentClosed DEF IsClosed
    <3> QED
      BY <3>1, <3>2
  <2>2. A \subseteq A \ B
    BY <2>1, ComponentClosed
  <2>3. u \in B
    BY <1>1, ComponentClosed
  <2> QED
    BY <2>2, <2>3
<1>4. A \subseteq B
  BY <1>1, <1>3, ComponentClosed
<1> QED
  BY <1>2, <1>4

\* A component is the component of each of its vertices.
LEMMA ComponentsMember ==
  ASSUME NEW g, NEW S, NEW C \in Components(g, S)
  PROVE  /\ C # {}
         /\ C \subseteq V(g) \ S
         /\ IsClosed(g, S, C)
         /\ \A u \in C : C = FindComponent(g, S, u)
<1>1. PICK v \in V(g) \ S : C = FindComponent(g, S, v)
  BY DEF Components
<1> QED
  BY <1>1, ComponentClosed, ComponentOfMember

\* Blocking fewer vertices can only make a component larger.
LEMMA ComponentGrows ==
  ASSUME NEW g, NEW X, NEW S, S \subseteq X, NEW v \in V(g) \ X
  PROVE  FindComponent(g, X, v) \subseteq FindComponent(g, S, v)
<1> DEFINE A == FindComponent(g, S, v)
<1>1. v \in V(g) \ S
  OBVIOUS
<1>2. v \in A /\ A \subseteq V(g) \ S /\ IsClosed(g, S, A)
  BY <1>1, ComponentClosed
<1>3. A \ X \in SUBSET (V(g) \ X) /\ v \in A \ X
  BY <1>2
<1>4. IsClosed(g, X, A \ X)
  BY <1>2 DEF IsClosed
<1> HIDE DEF A
<1>5. FindComponent(g, X, v) \subseteq A \ X
  BY <1>3, <1>4, ComponentClosed
<1> QED
  BY <1>5 DEF A

\* A component is also one when only its neighbourhood is blocked.
LEMMA ComponentOfNeighborhood ==
  ASSUME NEW g, NEW S, NEW C \in Components(g, S)
  PROVE  C \in Components(g, NeighborsOf(g, C))
<1> DEFINE T == NeighborsOf(g, C)
<1>1. PICK v \in C : TRUE
  BY ComponentsMember
<1>2. /\ C \subseteq V(g) \ S /\ IsClosed(g, S, C) /\ C = FindComponent(g, S, v)
      /\ v \in V(g) \ S
  BY <1>1, ComponentsMember
<1>3. C \cap T = {}
  BY DEF NeighborsOf
<1>4. v \in V(g) \ T
  BY <1>1, <1>2, <1>3
<1> DEFINE D == FindComponent(g, T, v)
<1>5. v \in D /\ D \subseteq V(g) \ T /\ IsClosed(g, T, D)
  BY <1>4, ComponentClosed
<1>6. D \subseteq C
  <2>1. C \in SUBSET (V(g) \ T)
    BY <1>2, <1>3
  <2>2. IsClosed(g, T, C)
    BY DEF IsClosed, NeighborsOf, HasEdge
  <2> QED
    BY <1>1, <1>4, <2>1, <2>2, ComponentClosed
<1>7. C \subseteq D
  <2>1. IsClosed(g, S, D)
    <3> SUFFICES ASSUME NEW u \in D, NEW w \in V(g) \ S, HasEdge(g, u, w)
                 PROVE  w \in D
      BY DEF IsClosed
    <3>1. w \in C
      BY <1>2, <1>6 DEF IsClosed
    <3> QED
      BY <1>3, <1>5, <3>1 DEF IsClosed
  <2>2. D \in SUBSET (V(g) \ S)
    BY <1>2, <1>6
  <2> QED
    BY <1>2, <1>5, <2>1, <2>2, ComponentClosed
<1> QED
  BY <1>4, <1>6, <1>7 DEF Components

\* A component that the blocked vertices of another search leave whole is part
\* of what that search visits.
LEMMA ComponentSpared ==
  ASSUME NEW g, NEW S, NEW A \in Components(g, S), NEW X, A \cap X = {},
         NEW v \in A
  PROVE  v \in V(g) \ X /\ A \subseteq FindComponent(g, X, v)
<1> DEFINE D == FindComponent(g, X, v)
<1>1. A \subseteq V(g) \ S /\ IsClosed(g, S, A) /\ A = FindComponent(g, S, v) /\ v \in V(g) \ S
  BY ComponentsMember
<1>2. v \in V(g) \ X
  BY <1>1
<1>3. v \in D /\ D \subseteq V(g) \ X /\ IsClosed(g, X, D)
  BY <1>2, ComponentClosed
<1> HIDE DEF D
<1>4. IsClosed(g, S, A \cap D)
  <2> SUFFICES ASSUME NEW u \in A \cap D, NEW w \in V(g) \ S, HasEdge(g, u, w)
               PROVE  w \in A \cap D
    BY DEF IsClosed
  <2>1. w \in A
    BY <1>1 DEF IsClosed
  <2> QED
    BY <1>3, <2>1 DEF IsClosed
<1>5. A \cap D \in SUBSET (V(g) \ S) /\ v \in A \cap D
  BY <1>1, <1>3
<1>6. A \subseteq A \cap D
  BY <1>1, <1>4, <1>5, ComponentClosed
<1> QED
  BY <1>2, <1>6 DEF D

\* What a component sees outside itself is blocked.
LEMMA NeighborsBlocked ==
  ASSUME NEW g, NEW S, NEW C \in Components(g, S)
  PROVE  NeighborsOf(g, C) \subseteq S \cap V(g)
<1> SUFFICES ASSUME NEW u \in NeighborsOf(g, C), u \notin S PROVE FALSE
  BY DEF NeighborsOf
<1>1. PICK v \in C : HasEdge(g, u, v) /\ u \in V(g) \ C
  BY DEF NeighborsOf
<1>2. HasEdge(g, v, u)
  BY <1>1 DEF HasEdge
<1> QED
  BY <1>1, <1>2, ComponentsMember DEF IsClosed

\* An entry of the connectivity matrix is an edge or lies in a component with
\* its neighbourhood.
LEMMA ConnectedMember ==
  ASSUME NEW g, NEW S, NEW e
  PROVE  e \in ConnectedMatrix(g, S) <=>
           \/ e \in g.adj
           \/ \E C \in Components(g, S) : e \in Pairs(C \cup NeighborsOf(g, C))
  BY DEF ConnectedMatrix

\* ConnectedMatrix marks pairs of vertices of the graph only.
LEMMA ConnectedPairs ==
  ASSUME NEW g, IsGraph(g), NEW S
  PROVE  ConnectedMatrix(g, S) \subseteq Pairs(V(g))
<1> SUFFICES ASSUME NEW C \in Components(g, S)
             PROVE  Pairs(C \cup NeighborsOf(g, C)) \subseteq Pairs(V(g))
  BY DEF ConnectedMatrix, IsGraph
<1>1. C \cup NeighborsOf(g, C) \subseteq V(g)
  BY ComponentsMember DEF NeighborsOf
<1> QED
  BY <1>1, PairsMember

\* Vertices of two components are not connected around the separator.
LEMMA CrossNotConnected ==
  ASSUME NEW g, NEW S, NEW A \in Components(g, S), NEW B \in Components(g, S),
         A # B, NEW u \in A, NEW w \in B
  PROVE  /\ u # w
         /\ {u, w} \notin ConnectedMatrix(g, S)
<1>1. u \notin B /\ w \notin A
  BY ComponentsMember
<1>2. ~HasEdge(g, u, w)
  BY <1>1, ComponentsMember DEF IsClosed
<1>3. ASSUME NEW C \in Components(g, S), {u, w} \in Pairs(C \cup NeighborsOf(g, C))
      PROVE  FALSE
  <2>1. u \in C \cup NeighborsOf(g, C) /\ w \in C \cup NeighborsOf(g, C)
    BY <1>3, <1>1, PairsOf
  <2>2. u \notin S /\ w \notin S
    BY ComponentsMember
  <2>3. u \in C /\ w \in C
    BY <2>1, <2>2, NeighborsBlocked
  <2> QED
    BY <2>3, <1>1, ComponentsMember
<1> QED
  BY <1>1, <1>2, <1>3, ConnectedMember DEF HasEdge

\* Two vertices inside a component and its neighbourhood are connected.
LEMMA ConnectedIntro ==
  ASSUME NEW g, NEW S, NEW C \in Components(g, S),
         NEW u \in C \cup NeighborsOf(g, C), NEW w \in C \cup NeighborsOf(g, C), u # w
  PROVE  {u, w} \in ConnectedMatrix(g, S)
  BY PairsOf, ConnectedMember

\* Blocking more vertices connects no more pairs.
LEMMA ConnectedAntitone ==
  ASSUME NEW g, NEW S, NEW X, S \subseteq X
  PROVE  ConnectedMatrix(g, X) \subseteq ConnectedMatrix(g, S)
<1> SUFFICES ASSUME NEW C \in Components(g, X),
                    NEW e \in Pairs(C \cup NeighborsOf(g, C))
             PROVE  e \in ConnectedMatrix(g, S)
  BY ConnectedMember
<1>1. PICK v \in V(g) \ X : C = FindComponent(g, X, v)
  BY DEF Components
<1> DEFINE D == FindComponent(g, S, v)
<1>2. v \in V(g) \ S /\ D \in Components(g, S)
  BY DEF Components
<1>3. v \in D \ X /\ D \ X \subseteq V(g) \ X
  BY <1>2, ComponentClosed
<1>4. IsClosed(g, X, D \ X)
  BY <1>2, ComponentClosed DEF IsClosed
<1>5. C \subseteq D
  BY <1>1, <1>3, <1>4, ComponentClosed
<1>6. C \cup NeighborsOf(g, C) \subseteq D \cup NeighborsOf(g, D)
  BY <1>5, ComponentsMember DEF NeighborsOf
<1>7. PICK u \in C \cup NeighborsOf(g, C), w \in C \cup NeighborsOf(g, C) :
        u # w /\ e = {u, w}
  BY PairsMember
<1> QED
  BY <1>2, <1>6, <1>7, ConnectedIntro

\* If two vertices are connected around S - {a} and one of them is a, which is
\* in S, they are connected around S: no vertex of S is worth its place for a
\* pair that it belongs to.
LEMMA ConnectedAtSeparator ==
  ASSUME NEW g, NEW S, NEW a \in S, NEW b, a # b,
         {a, b} \in ConnectedMatrix(g, S \ {a})
  PROVE  {a, b} \in ConnectedMatrix(g, S)
<1> DEFINE R == S \ {a}
<1> SUFFICES ASSUME {a, b} \notin g.adj PROVE {a, b} \in ConnectedMatrix(g, S)
  BY ConnectedMember
<1>1. PICK C \in Components(g, R) : {a, b} \in Pairs(C \cup NeighborsOf(g, C))
  BY ConnectedMember
<1>2. a \in C /\ b \in C \cup NeighborsOf(g, C)
  <2>1. a \in C \cup NeighborsOf(g, C) /\ b \in C \cup NeighborsOf(g, C)
    BY <1>1, PairsOf
  <2>2. a \notin R
    OBVIOUS
  <2> HIDE DEF R
  <2> QED
    BY <2>1, <2>2, NeighborsBlocked
\* From each other vertex u of C a search around S meets a neighbour of a.
<1>3. ASSUME NEW u \in C, u # a
      PROVE  \E D \in Components(g, S) : u \in D /\ a \in NeighborsOf(g, D)
  <2>1. u \in V(g) \ S /\ C = FindComponent(g, R, u)
    BY <1>3, ComponentsMember
  <2> DEFINE D == FindComponent(g, S, u)
  <2>2. D \in Components(g, S) /\ u \in D /\ D \subseteq V(g) \ S /\ IsClosed(g, S, D)
    BY <2>1, ComponentClosed DEF Components
  <2>3. ASSUME a \notin NeighborsOf(g, D) PROVE FALSE
    <3>1. \A d \in D : ~HasEdge(g, d, a)
      <4>1. a \in V(g) \ D
        BY <1>2, <2>2, ComponentsMember
      <4> QED
        BY <2>3, <4>1 DEF NeighborsOf, HasEdge
    <3>2. IsClosed(g, R, D)
      BY <2>2, <3>1 DEF IsClosed
    <3>3. C \subseteq D
      <4>1. u \in V(g) \ R /\ D \in SUBSET (V(g) \ R) /\ u \in D
        BY <2>1, <2>2
      <4> QED
        BY <2>1, <3>2, <4>1, ComponentClosed
    <3> QED
      BY <1>2, <2>2, <3>3
  <2> QED
    BY <2>2, <2>3
<1>4. CASE b \in C
  <2>1. PICK D \in Components(g, S) : b \in D /\ a \in NeighborsOf(g, D)
    BY <1>3, <1>4
  <2> QED
    BY <2>1, ConnectedIntro
<1>5. CASE b \in NeighborsOf(g, C)
  <2>1. PICK u \in C : HasEdge(g, b, u)
    BY <1>5 DEF NeighborsOf
  <2>2. u # a
    BY <2>1 DEF HasEdge
  <2>3. PICK D \in Components(g, S) : u \in D /\ a \in NeighborsOf(g, D)
    BY <2>2, <1>3
  <2>4. b \in S \cap V(g)
    BY <1>5, NeighborsBlocked
  <2>5. b \in NeighborsOf(g, D)
    BY <2>1, <2>3, <2>4, ComponentsMember DEF NeighborsOf
  <2> QED
    BY <2>3, <2>5, ConnectedIntro
<1> QED
  BY <1>2, <1>4, <1>5

-----------------------------------------------------------------------------
(* Least and greatest elements.  The natural numbers are well founded, which   *)
(* is what induction over them comes to where no operator can be a parameter. *)

\* A set of naturals that is not empty has a least element.
LEMMA LeastElement ==
  ASSUME NEW S \in SUBSET Nat, S # {}
  PROVE  \E m \in S : \A l \in S : m <= l
<1>1. \E R : IsWellFoundedOn(R, Nat) /\ \A l, m \in Nat : l < m => <<l, m>> \in R
  <2>1. \A l, m \in Nat : l < m => <<l, m>> \in OpToRel(<, Nat)
    BY DEF OpToRel
  <2> QED
    BY <2>1, NatLessThanWellFounded
<1>2. PICK R : IsWellFoundedOn(R, Nat) /\ \A l, m \in Nat : l < m => <<l, m>> \in R
  BY <1>1
<1>3. PICK m \in S : \A l \in S : <<l, m>> \notin R
  <2>1. IsWellFoundedOn(R, Nat)
    BY <1>2
  <2>2. \E m \in S : \A l \in S : ~(<<l, m>> \in R)
    BY <2>1, WFMin
  <2> QED
    BY <2>2
<1>4. ASSUME NEW l \in S PROVE m <= l
  <2>1. m \in Nat /\ l \in Nat /\ ~(l < m)
    BY <1>2, <1>3
  <2> QED
    BY <2>1
<1> QED
  BY <1>4

\* A bounded one has a greatest element.
LEMMA GreatestElement ==
  ASSUME NEW S \in SUBSET Nat, S # {}, NEW n \in Nat, \A l \in S : l <= n
  PROVE  \E m \in S : \A l \in S : l <= m
<1> DEFINE T == {k \in Nat : \A l \in S : l <= k}
<1>1. PICK m \in T : \A k \in T : m <= k
  <2>1. n \in T /\ T \in SUBSET Nat
    OBVIOUS
  <2> QED
    BY <2>1, LeastElement
<1>2. m \in S
  <2> SUFFICES ASSUME m \notin S PROVE FALSE
    OBVIOUS
  <2>1. PICK s \in S : TRUE
    OBVIOUS
  <2>2. m \in Nat /\ m - 1 \in Int /\ \A l \in S : l \in Nat /\ l <= m - 1
    OBVIOUS
  <2>3. m - 1 \in Nat
    BY <2>1, <2>2
  <2>4. m - 1 \in T
    BY <2>2, <2>3
  <2> QED
    BY <2>2, <2>4, <1>1
<1> QED
  BY <1>1, <1>2

\* So has a finite one.
LEMMA FiniteGreatest ==
  ASSUME NEW S \in SUBSET Nat, S # {}, IsFiniteSet(S)
  PROVE  \E m \in S : \A l \in S : l <= m
<1> DEFINE HasGreatest(T) == \E m \in T : \A l \in T : l <= m
           K == {k \in Nat : \E T \in SUBSET S : T # {} /\ Cardinality(T) = k /\ ~HasGreatest(T)}
<1>1. ASSUME NEW k \in K, \A j \in K : k <= j
      PROVE  FALSE
  <2>1. PICK T \in SUBSET S : T # {} /\ Cardinality(T) = k /\ ~HasGreatest(T)
    OBVIOUS
  <2>2. PICK x \in T : TRUE
    BY <2>1
  <2>3. /\ IsFiniteSet(T) /\ Cardinality(T \ {x}) = k - 1
        /\ IsFiniteSet(T \ {x}) /\ Cardinality(T \ {x}) \in Nat /\ k \in Nat
    BY <2>1, <2>2, FS_Subset, FS_RemoveElement, FS_CardinalityType
  <2>4. CASE T \ {x} = {}
    <3>1. x \in Nat /\ T = {x}
      BY <2>2, <2>4
    <3> QED
      BY <2>1, <3>1
  <2>5. CASE T \ {x} # {}
    <3>1. k - 1 \notin K
      BY <2>3, <1>1
    <3>2. HasGreatest(T \ {x})
      BY <3>1, <2>3, <2>5
    <3>3. PICK m \in T \ {x} : \A l \in T \ {x} : l <= m
      BY <3>2
    <3>4. /\ \A l \in T : l \in Nat
          /\ IF m <= x THEN \A l \in T : l <= x ELSE \A l \in T : l <= m
      BY <3>3, <2>1, <2>2
    <3> QED
      BY <2>1, <2>2, <3>3, <3>4
  <2> QED
    BY <2>4, <2>5
<1>2. K = {}
  <2>1. K \in SUBSET Nat
    OBVIOUS
  <2> HIDE DEF K
  <2> QED
    BY <1>1, <2>1, LeastElement
<1>3. Cardinality(S) \in Nat
  BY FS_CardinalityType
<1> QED
  BY <1>2, <1>3

-----------------------------------------------------------------------------
(* Finite sets. *)

\* The vertices of a graph are finite, and so is every set of them.
LEMMA VerticesFinite ==
  ASSUME NEW g, g.n \in Nat, NEW S \in SUBSET V(g)
  PROVE  /\ IsFiniteSet(V(g)) /\ Cardinality(V(g)) = g.n
         /\ IsFiniteSet(S) /\ Cardinality(S) \in 0 .. g.n
<1>1. IsFiniteSet(V(g)) /\ Cardinality(V(g)) = g.n
  <2>1. 0 \in Int /\ g.n - 1 \in Int
    OBVIOUS
  <2>2. IsFiniteSet(0 .. (g.n - 1)) /\ Cardinality(0 .. (g.n - 1)) = IF 0 > g.n - 1 THEN 0 ELSE g.n - 1 - 0 + 1
    BY <2>1, FS_Interval
  <2> QED
    BY <2>2 DEF V
<1> QED
  BY <1>1, FS_Subset, FS_CardinalityType

\* The size of a union of disjoint sets.
LEMMA DisjointUnion ==
  ASSUME NEW S, NEW T, IsFiniteSet(S), IsFiniteSet(T), S \cap T = {}
  PROVE  /\ IsFiniteSet(S \cup T)
         /\ Cardinality(S \cup T) = Cardinality(S) + Cardinality(T)
<1>1. /\ IsFiniteSet(S \cup T)
      /\ Cardinality(S \cup T) = Cardinality(S) + Cardinality(T) - Cardinality(S \cap T)
  BY FS_Union
<1>2. Cardinality(S) \in Nat /\ Cardinality(T) \in Nat /\ Cardinality(S \cap T) = 0
  BY FS_CardinalityType, FS_EmptySet
<1> QED
  BY <1>1, <1>2

\* Two different components make the count that the code asserts.
LEMMA TwoComponents ==
  ASSUME NEW g, g.n \in Nat, NEW S, NEW A \in Components(g, S), NEW B \in Components(g, S),
         A # B
  PROVE  Cardinality(Components(g, S)) >= 2
<1>1. Components(g, S) \subseteq SUBSET V(g)
  BY ComponentsMember
<1>2. IsFiniteSet(Components(g, S))
  BY <1>1, VerticesFinite, FS_SUBSET, FS_Subset
<1>3. IsFiniteSet({A}) /\ Cardinality({A}) = 1
  BY FS_Singleton
<1>4. Cardinality({A} \cup {B}) = 2
  <2>1. Cardinality({A} \cup {B}) = IF B \in {A} THEN Cardinality({A}) ELSE Cardinality({A}) + 1
    BY <1>3, FS_AddElement, Zenon
  <2> QED
    BY <1>3, <2>1
<1>5. {A} \cup {B} \subseteq Components(g, S)
  OBVIOUS
<1> QED
  BY <1>2, <1>4, <1>5, FS_Subset, FS_CardinalityType

\* Among any sets of elements of a finite set, one has the fewest.
LEMMA SmallestSubset ==
  ASSUME NEW E, IsFiniteSet(E), NEW F \in SUBSET (SUBSET E), F # {}
  PROVE  \E T \in F : \A S \in F : Cardinality(T) <= Cardinality(S)
<1> DEFINE K == {Cardinality(S) : S \in F}
<1>1. K \in SUBSET Nat /\ K # {}
  BY FS_Subset, FS_CardinalityType
<1>2. PICK m \in K : \A l \in K : m <= l
  BY <1>1, LeastElement
<1> QED
  BY <1>2

\* Among any sets of vertices, too.
LEMMA SmallestSet ==
  ASSUME NEW g, g.n \in Nat, NEW F \in SUBSET (SUBSET V(g)), F # {}
  PROVE  \E T \in F : \A S \in F : Cardinality(T) <= Cardinality(S)
  BY VerticesFinite, SmallestSubset

-----------------------------------------------------------------------------
(* Chordal graphs. *)

Simplicial(g, T, v) == IsClique(g, Neighbors(g, v) \cap T)

\* An edge leads from u to T.
Sees(g, u, T) == \E w \in T : HasEdge(g, u, w)

\* The vertices T cannot be parted without cutting an edge.
Linked(g, T) ==
  /\ T # {}
  /\ \A A \in SUBSET T : A # {} /\ A # T => \E u \in A : Sees(g, u, T \ A)

LEMMA CliquePairs ==
  ASSUME NEW g, NEW K
  PROVE  IsClique(g, K) <=> \A u, w \in K : u # w => HasEdge(g, u, w)
<1>1. \A e \in Pairs(K) : \E u, w \in K : u # w /\ e = {u, w}
  BY PairsMember
<1>2. \A u, w \in K : u # w => {u, w} \in Pairs(K)
  BY PairsOf
<1>3. IsClique(g, K) <=> \A e \in Pairs(K) : e \in g.adj
  BY DEF IsClique
<1> QED
  BY <1>1, <1>2, <1>3 DEF HasEdge

LEMMA SimplicialPairs ==
  ASSUME NEW g, NEW T, T \subseteq V(g), NEW v
  PROVE  Simplicial(g, T, v) <=>
           \A u, w \in T : u # w /\ HasEdge(g, v, u) /\ HasEdge(g, v, w) => HasEdge(g, u, w)
<1>1. \A u : u \in Neighbors(g, v) \cap T <=> u \in T /\ HasEdge(g, v, u)
  BY DEF Neighbors, HasEdge
<1> QED
  BY <1>1, CliquePairs DEF Simplicial

\* One vertex less.
LEMMA WithoutVertex ==
  ASSUME NEW g, g.n \in Nat, NEW T \in SUBSET V(g), NEW v \in T
  PROVE  /\ T \ {v} \in SUBSET V(g)
         /\ ~(Cardinality(T) <= Cardinality(T \ {v}))
<1>1. IsFiniteSet(T) /\ Cardinality(T) \in Nat
  BY VerticesFinite
<1>2. Cardinality(T \ {v}) = Cardinality(T) - 1
  BY <1>1, FS_RemoveElement
<1> QED
  BY <1>1, <1>2

\* A chordal graph that is more than a clique K has a simplicial vertex outside K.
LEMMA SimplicialOutside ==
  ASSUME NEW g, IsGraph(g), IsChordal(g),
         NEW T \in SUBSET V(g), NEW K \in SUBSET T, K # T, IsClique(g, K)
  PROVE  \E v \in T \ K : Simplicial(g, T, v)
<1> DEFINE Bad == {U \in SUBSET V(g) : \E L \in SUBSET U :
                     /\ L # U /\ IsClique(g, L)
                     /\ \A v \in U \ L : ~Simplicial(g, U, v)}
<1>1. ASSUME NEW U \in Bad, \A S \in Bad : Cardinality(U) <= Cardinality(S)
      PROVE  FALSE
  <2>1. PICK L \in SUBSET U : L # U /\ IsClique(g, L) /\ \A v \in U \ L : ~Simplicial(g, U, v)
    OBVIOUS
  <2>2. PICK v \in U : Simplicial(g, U, v)
    BY <2>1 DEF IsChordal, Simplicial
  <2>3. v \in L
    BY <2>1, <2>2
  <2> DEFINE M == {u \in U : u # v /\ HasEdge(g, v, u)}
             R == U \ {v}
  <2>4. IsClique(g, M)
    BY <2>2, SimplicialPairs, CliquePairs
  <2>5. L \ {v} \subseteq M
    BY <2>1, <2>3, CliquePairs
  <2>6. R \in SUBSET V(g) /\ ~(Cardinality(U) <= Cardinality(R)) /\ g.n \in Nat
    BY WithoutVertex DEF IsGraph
  <2>7. R \notin Bad
    BY <1>1, <2>6
  <2>8. M # R
    <3> SUFFICES ASSUME M = R PROVE FALSE
      OBVIOUS
    <3>1. PICK w \in U : w \notin L
      BY <2>1
    <3>2. ASSUME NEW u \in U, NEW x \in U, u # x PROVE HasEdge(g, u, x)
      <4>1. u = v \/ u \in M
        OBVIOUS
      <4>2. x = v \/ x \in M
        OBVIOUS
      <4> QED
        BY <2>4, <3>2, <4>1, <4>2, CliquePairs DEF HasEdge
    <3>3. Simplicial(g, U, w)
      BY <3>2, SimplicialPairs
    <3> QED
      BY <2>1, <3>1, <3>3
  <2>9. PICK w \in R \ M : Simplicial(g, R, w)
    BY <2>4, <2>6, <2>7, <2>8
  <2>10. Simplicial(g, U, w)
    <3>1. ~HasEdge(g, w, v)
      BY <2>9 DEF HasEdge
    <3> QED
      BY <2>6, <2>9, <3>1, SimplicialPairs
  <2> QED
    BY <2>1, <2>3, <2>5, <2>9, <2>10
<1>2. Bad = {}
  <2>1. Bad \in SUBSET (SUBSET V(g)) /\ g.n \in Nat
    BY DEF IsGraph
  <2> HIDE DEF Bad
  <2> QED
    BY <1>1, <2>1, SmallestSet
<1> QED
  BY <1>2

\* A simplicial vertex can be taken out of a linked set, and what sees the set
\* through it sees the rest of the set too.
LEMMA SimplicialSpared ==
  ASSUME NEW g, NEW T, T \subseteq V(g), NEW A \in SUBSET T, Linked(g, A),
         NEW v \in A, A # {v}, Simplicial(g, T, v)
  PROVE  /\ Linked(g, A \ {v})
         /\ \A u \in T \ {v} : u \notin A /\ Sees(g, u, A) => Sees(g, u, A \ {v})
<1> DEFINE B == A \ {v}
<1>1. \A u, w \in T : u # w /\ HasEdge(g, v, u) /\ HasEdge(g, v, w) => HasEdge(g, u, w)
  BY SimplicialPairs
<1>2. PICK x \in B : HasEdge(g, v, x)
  <2>1. {v} \in SUBSET A /\ {v} # {} /\ {v} # A
    OBVIOUS
  <2>2. \E u \in {v} : Sees(g, u, A \ {v})
    BY <2>1 DEF Linked
  <2> QED
    BY <2>2 DEF Sees
<1>3. ASSUME NEW u \in T \ {v}, u \notin A, Sees(g, u, A)
      PROVE  Sees(g, u, B)
  <2>1. PICK w \in A : HasEdge(g, u, w)
    BY <1>3 DEF Sees
  <2>2. CASE w = v
    <3>1. HasEdge(g, v, u) /\ u # x /\ u \in T /\ x \in T
      BY <1>3, <2>1, <2>2 DEF HasEdge
    <3> QED
      BY <1>1, <1>2, <3>1 DEF Sees
  <2> QED
    BY <2>1, <2>2 DEF Sees
<1>4. ASSUME NEW C \in SUBSET B, C # {}, C # B
      PROVE  \E u \in C : Sees(g, u, B \ C)
  <2>1. PICK u \in C : Sees(g, u, A \ C)
    <3>1. C \in SUBSET A /\ C # A
      BY <1>4
    <3> QED
      BY <1>4, <3>1 DEF Linked
  <2>2. PICK w \in A \ C : HasEdge(g, u, w)
    BY <2>1 DEF Sees
  <2>3. CASE w # v
    BY <2>2, <2>3 DEF Sees
  <2>4. CASE w = v
    \* Between v and the other part there is an edge too.
    <3>1. PICK z \in B \ C : HasEdge(g, v, z) \/ \E y \in C : HasEdge(g, y, z)
      <4>1. C \cup {v} \in SUBSET A /\ C \cup {v} # {} /\ C \cup {v} # A
        BY <1>4
      <4>2. PICK y \in C \cup {v} : Sees(g, y, A \ (C \cup {v}))
        BY <4>1 DEF Linked
      <4> QED
        BY <4>2 DEF Sees
    <3>2. CASE \E y \in C : HasEdge(g, y, z)
      BY <3>1, <3>2 DEF Sees
    <3>3. CASE HasEdge(g, v, z)
      <4>1. HasEdge(g, v, u) /\ u # z /\ u \in T /\ z \in T
        BY <1>4, <2>2, <2>4, <3>1 DEF HasEdge
      <4>2. HasEdge(g, u, z)
        BY <1>1, <3>3, <4>1
      <4> QED
        BY <3>1, <4>2 DEF Sees
    <3> QED
      BY <3>1, <3>2, <3>3
  <2> QED
    BY <2>3, <2>4
<1>5. B # {}
  BY <1>2
<1> QED
  BY <1>3, <1>4, <1>5 DEF Linked

\* What is linked stays so in a graph with more edges.
LEMMA LinkedInMore ==
  ASSUME NEW g, NEW h, NEW A, Linked(g, A), \A u, w : HasEdge(g, u, w) => HasEdge(h, u, w)
  PROVE  Linked(h, A)
  BY DEF Linked, Sees

\* A component is linked.
LEMMA ComponentLinked ==
  ASSUME NEW g, NEW S, NEW C \in Components(g, S)
  PROVE  Linked(g, C)
<1> SUFFICES ASSUME NEW A \in SUBSET C, A # {}, A # C, \A u \in A : ~Sees(g, u, C \ A)
             PROVE  FALSE
  BY ComponentsMember DEF Linked
<1>1. PICK v \in A : TRUE
  OBVIOUS
<1>2. /\ C \subseteq V(g) \ S /\ IsClosed(g, S, C)
      /\ C = FindComponent(g, S, v) /\ v \in V(g) \ S
  BY <1>1, ComponentsMember
<1>3. IsClosed(g, S, A)
  BY <1>2 DEF IsClosed, Sees
<1>4. C \subseteq A
  BY <1>1, <1>2, <1>3, ComponentClosed
<1> QED
  BY <1>4

\* In a chordal graph a linked set that every vertex of a clique S sees has a
\* vertex that sees all of S.
LEMMA CommonNeighbor ==
  ASSUME NEW g, IsGraph(g), IsChordal(g), NEW S \in SUBSET V(g), IsClique(g, S),
         NEW D \in SUBSET V(g), D \cap S = {}, Linked(g, D), \A s \in S : Sees(g, s, D)
  PROVE  \E d \in D : \A s \in S : HasEdge(g, s, d)
<1> DEFINE Good == {A \in SUBSET D : Linked(g, A) /\ \A s \in S : Sees(g, s, A)}
<1>1. D \in Good
  OBVIOUS
<1>2. PICK A \in Good : \A B \in Good : Cardinality(A) <= Cardinality(B)
  <2>1. Good \in SUBSET (SUBSET V(g)) /\ g.n \in Nat /\ Good # {}
    BY <1>1 DEF IsGraph
  <2> HIDE DEF Good
  <2> QED
    BY <2>1, SmallestSet
<1>3. PICK v \in S \cup A : Simplicial(g, S \cup A, v)
  <2>1. S \cup A \in (SUBSET V(g)) \ {{}}
    BY <1>2 DEF Linked
  <2> QED
    BY <2>1 DEF IsChordal, Simplicial
<1>4. \A u, w \in S \cup A : u # w /\ HasEdge(g, v, u) /\ HasEdge(g, v, w) => HasEdge(g, u, w)
  <2>1. S \cup A \subseteq V(g)
    OBVIOUS
  <2> QED
    BY <1>3, <2>1, SimplicialPairs
<1>5. CASE v \in S
  <2>1. PICK d \in A : HasEdge(g, v, d)
    BY <1>5 DEF Sees
  <2>2. ASSUME NEW s \in S PROVE HasEdge(g, s, d)
    <3>1. s # v => HasEdge(g, v, s) /\ s # d
      BY <1>5, CliquePairs
    <3> QED
      BY <1>4, <2>1, <3>1
  <2> QED
    BY <2>1, <2>2
<1>6. CASE v \in A /\ A = {v}
  BY <1>2, <1>6 DEF Sees
<1>7. CASE v \in A /\ A # {v}
  <2>1. /\ Linked(g, A \ {v})
        /\ \A u \in (S \cup A) \ {v} : u \notin A /\ Sees(g, u, A) => Sees(g, u, A \ {v})
    <3>1. S \cup A \subseteq V(g) /\ A \in SUBSET (S \cup A)
      OBVIOUS
    <3>2. Linked(g, A)
      BY <1>2
    <3> QED
      BY <1>3, <1>7, <3>1, <3>2, SimplicialSpared
  <2>2. A \ {v} \in Good
    BY <1>2, <1>7, <2>1
  <2>3. ~(Cardinality(A) <= Cardinality(A \ {v}))
    <3>1. A \in SUBSET V(g) /\ g.n \in Nat
      BY DEF IsGraph
    <3> QED
      BY <1>7, <3>1, WithoutVertex
  <2> QED
    BY <1>2, <2>2, <2>3
<1> QED
  BY <1>3, <1>5, <1>6, <1>7

\* Two vertices of a chordal graph that both see two linked sets with no edge
\* between them are adjacent.
LEMMA BetweenTwoSides ==
  ASSUME NEW g, IsGraph(g), IsChordal(g),
         NEW u \in V(g), NEW w \in V(g), u # w,
         NEW A \in SUBSET V(g), Linked(g, A), Sees(g, u, A), Sees(g, w, A),
         NEW B \in SUBSET V(g), Linked(g, B), Sees(g, u, B), Sees(g, w, B),
         {u, w} \cap A = {}, {u, w} \cap B = {}, A \cap B = {},
         \A a \in A : ~Sees(g, a, B)
  PROVE  HasEdge(g, u, w)
<1> SUFFICES ASSUME ~HasEdge(g, u, w) PROVE FALSE
  OBVIOUS
<1> DEFINE Side(X) == Linked(g, X) /\ Sees(g, u, X) /\ Sees(g, w, X)
           Good == {T \in SUBSET V(g) : \E X \in SUBSET A, Y \in SUBSET B :
                       T = X \cup Y /\ Side(X) /\ Side(Y)}
<1>1. A \cup B \in Good
  OBVIOUS
<1>2. PICK T \in Good : \A R \in Good : Cardinality(T) <= Cardinality(R)
  <2>1. Good \in SUBSET (SUBSET V(g)) /\ g.n \in Nat /\ Good # {}
    BY <1>1 DEF IsGraph
  <2> HIDE DEF Good
  <2> QED
    BY <2>1, SmallestSet
<1>3. PICK X \in SUBSET A, Y \in SUBSET B : T = X \cup Y /\ Side(X) /\ Side(Y)
  BY <1>2
<1> DEFINE U == T \cup {u, w}
<1>4. U \in SUBSET V(g)
  BY <1>3
<1>5. PICK v \in U : Simplicial(g, U, v)
  BY <1>4 DEF IsChordal, Simplicial
<1>6. \A y, z \in U : y # z /\ HasEdge(g, v, y) /\ HasEdge(g, v, z) => HasEdge(g, y, z)
  BY <1>4, <1>5, SimplicialPairs
<1>7. ASSUME NEW o \in {u, w}, v = o
      PROVE  FALSE
  <2>1. PICK x \in X : HasEdge(g, o, x)
    BY <1>3 DEF Sees
  <2>2. PICK y \in Y : HasEdge(g, o, y)
    BY <1>3 DEF Sees
  <2>3. HasEdge(g, x, y)
    BY <1>3, <1>6, <1>7, <2>1, <2>2
  <2> QED
    BY <2>3 DEF Sees
\* A simplicial vertex on one side could be spared.
<1>8. ASSUME NEW P \in SUBSET V(g), Side(P), v \in P, P \subseteq T, P \cap {u, w} = {}
      PROVE  Side(P \ {v})
  <2>1. P # {v}
    <3> SUFFICES ASSUME P = {v} PROVE FALSE
      OBVIOUS
    <3>1. HasEdge(g, v, u) /\ HasEdge(g, v, w)
      BY <1>8 DEF Sees, HasEdge
    <3> QED
      BY <1>6, <3>1
  <2>2. /\ Linked(g, P \ {v})
        /\ \A z \in U \ {v} : z \notin P /\ Sees(g, z, P) => Sees(g, z, P \ {v})
    <3>1. U \subseteq V(g) /\ P \in SUBSET U
      BY <1>4, <1>8
    <3>2. Linked(g, P)
      BY <1>8
    <3> HIDE DEF U
    <3> QED
      BY <1>5, <1>8, <2>1, <3>1, <3>2, SimplicialSpared
  <2> QED
    BY <1>8, <2>2
<1>9. ASSUME T \ {v} \in Good, v \in T
      PROVE  FALSE
  <2>1. ~(Cardinality(T) <= Cardinality(T \ {v}))
    <3>1. T \in SUBSET V(g) /\ g.n \in Nat
      BY DEF IsGraph
    <3> HIDE DEF Good
    <3> QED
      BY <1>9, <3>1, WithoutVertex
  <2> QED
    BY <1>2, <1>9, <2>1
<1>10. ASSUME v \in X PROVE FALSE
  <2>1. X \in SUBSET V(g) /\ X \subseteq T /\ X \cap {u, w} = {} /\ Side(X)
    BY <1>3
  <2> HIDE DEF Side
  <2>2. Side(X \ {v})
    BY <1>8, <1>10, <2>1
  <2>3. T \ {v} = (X \ {v}) \cup Y
    BY <1>3, <1>10
  <2>4. T \ {v} \in Good /\ v \in T
    BY <1>3, <1>10, <2>2, <2>3
  <2> QED
    BY <1>9, <2>4
<1>11. ASSUME v \in Y PROVE FALSE
  <2>1. Y \in SUBSET V(g) /\ Y \subseteq T /\ Y \cap {u, w} = {} /\ Side(Y)
    BY <1>3
  <2> HIDE DEF Side
  <2>2. Side(Y \ {v})
    BY <1>8, <1>11, <2>1
  <2>3. T \ {v} = X \cup (Y \ {v})
    BY <1>3, <1>11
  <2>4. T \ {v} \in Good /\ v \in T
    BY <1>3, <1>11, <2>2, <2>3
  <2> QED
    BY <1>9, <2>4
<1> QED
  BY <1>3, <1>5, <1>7, <1>10, <1>11

\* When S is a clique of a chordal graph, the graph without the edges between
\* D and what is outside of S and D is chordal.
LEMMA CutAtClique ==
  ASSUME NEW g, IsGraph(g), IsChordal(g), NEW S \in SUBSET V(g), IsClique(g, S),
         NEW D \in SUBSET V(g), D \cap S = {},
         NEW h, IsGraph(h), V(h) = V(g),
         \A u, w : HasEdge(h, u, w) <=>
           HasEdge(g, u, w) /\ (u \in D => w \in S \cup D) /\ (w \in D => u \in S \cup D)
  PROVE  IsChordal(h)
<1> SUFFICES ASSUME NEW T \in (SUBSET V(g)) \ {{}}
             PROVE  \E v \in T : Simplicial(h, T, v)
  BY DEF IsChordal, Simplicial
<1>1. T \in SUBSET V(g) /\ T # {} /\ T \subseteq V(h)
  OBVIOUS
<1>2. CASE T \cap D = {}
  <2>1. PICK v \in T : Simplicial(g, T, v)
    BY DEF IsChordal, Simplicial
  <2>2. \A u, w \in T : HasEdge(h, u, w) <=> HasEdge(g, u, w)
    BY <1>2
  <2>3. \A u, w \in T : u # w /\ HasEdge(g, v, u) /\ HasEdge(g, v, w) => HasEdge(g, u, w)
    BY <1>1, <2>1, SimplicialPairs
  <2>4. \A u, w \in T : u # w /\ HasEdge(h, v, u) /\ HasEdge(h, v, w) => HasEdge(h, u, w)
    BY <2>2, <2>3
  <2>5. Simplicial(h, T, v)
    BY <1>1, <2>4, SimplicialPairs
  <2> QED
    BY <2>5
<1>3. CASE T \cap D # {}
  <2> DEFINE U == T \cap (S \cup D)
             K == T \cap S
  <2>1. U \in SUBSET V(g) /\ K \in SUBSET U /\ K # U /\ IsClique(g, K)
    BY <1>3, CliquePairs
  <2>2. PICK v \in U \ K : Simplicial(g, U, v)
    BY <2>1, SimplicialOutside
  <2>3. \A u, w \in U : u # w /\ HasEdge(g, v, u) /\ HasEdge(g, v, w) => HasEdge(g, u, w)
    BY <2>1, <2>2, SimplicialPairs
  <2>4. v \in T /\ v \in D
    BY <2>2
  <2>5. ASSUME NEW u \in T, NEW w \in T, u # w, HasEdge(h, v, u), HasEdge(h, v, w)
        PROVE  HasEdge(h, u, w)
    <3>1. u \in U /\ w \in U /\ HasEdge(g, v, u) /\ HasEdge(g, v, w)
      BY <2>4, <2>5
    <3>2. HasEdge(g, u, w)
      BY <2>3, <2>5, <3>1
    <3> QED
      BY <3>1, <3>2
  <2>6. Simplicial(h, T, v)
    BY <1>1, <2>5, SimplicialPairs
  <2> QED
    BY <2>4, <2>6
<1> QED
  BY <1>2, <1>3

-----------------------------------------------------------------------------
(* Cliques and widths. *)

\* A filled graph has the same vertices and the edges of both.
LEMMA FilledGraph ==
  ASSUME NEW g, IsGraph(g), NEW F
  PROVE  /\ V(Filled(g, F)) = V(g)
         /\ Filled(g, F).adj = g.adj \cup F
         /\ \A u, w : HasEdge(Filled(g, F), u, w) <=> {u, w} \in g.adj \/ {u, w} \in F
<1>1. Filled(g, F).n = g.n /\ Filled(g, F).adj = g.adj \cup F
  BY DEF Filled, IsGraph
<1> QED
  BY <1>1 DEF V, HasEdge

\* Every clique is part of a maximal one.
LEMMA MaximalCliqueAround ==
  ASSUME NEW g, g.n \in Nat, NEW K \in SUBSET V(g), IsClique(g, K)
  PROVE  \E X \in MaximalCliques(g) : K \subseteq X
<1> DEFINE Around == {X \in SUBSET V(g) : IsClique(g, X) /\ K \subseteq X}
           Sizes == {Cardinality(X) : X \in Around}
<1>1. \A X \in SUBSET V(g) : IsFiniteSet(X) /\ Cardinality(X) \in Nat /\ Cardinality(X) <= g.n
  BY VerticesFinite
<1>2. Sizes \in SUBSET Nat /\ Sizes # {} /\ \A s \in Sizes : s <= g.n
  BY <1>1
<1>3. PICK m \in Sizes : \A s \in Sizes : s <= m
  <2> HIDE DEF Sizes
  <2> QED
    BY <1>2, GreatestElement
<1>4. PICK X \in Around : Cardinality(X) = m
  BY <1>3
<1>5. ASSUME NEW T \in SUBSET V(g), IsClique(g, T), X \subseteq T
      PROVE  X = T
  <2>1. T \in Around
    BY <1>5
  <2>2. Cardinality(T) <= Cardinality(X)
    BY <1>3, <1>4, <2>1
  <2>3. Cardinality(X) <= Cardinality(T) /\ (Cardinality(X) = Cardinality(T) => X = T)
    BY <1>1, <1>5, FS_Subset
  <2> QED
    BY <1>1, <2>2, <2>3
<1> QED
  BY <1>4, <1>5 DEF MaximalCliques

\* No clique of a filled graph has more than one vertex more than its width.
LEMMA WidthBounds ==
  ASSUME NEW g, IsGraph(g), NEW F
  PROVE  /\ WidthOf(g, F) \in Int
         /\ \A K \in MaximalCliques(Filled(g, F)) : Cardinality(K) - 1 <= WidthOf(g, F)
<1> DEFINE H == Filled(g, F)
           Sizes == {Cardinality(K) : K \in MaximalCliques(H)}
           largest == CHOOSE s \in Sizes : \A r \in Sizes : r <= s
<1>1. V(H) = V(g) /\ H.n = g.n /\ g.n \in Nat
  BY FilledGraph DEF Filled, IsGraph
<1>2. WidthOf(g, F) = largest - 1
  BY DEF WidthOf
<1>3. {} \in SUBSET V(H) /\ IsClique(H, {})
  BY PairsMember DEF IsClique
<1>4. MaximalCliques(H) # {}
  <2> HIDE DEF H
  <2> QED
    BY <1>1, <1>3, MaximalCliqueAround
<1>5. MaximalCliques(H) \subseteq SUBSET V(g)
  BY <1>1 DEF MaximalCliques
<1>6. Sizes \in SUBSET Nat /\ Sizes # {} /\ \A s \in Sizes : s <= g.n
  <2> HIDE DEF H
  <2> QED
    BY <1>1, <1>4, <1>5, VerticesFinite
<1>7. \A K \in MaximalCliques(H) : Cardinality(K) \in Sizes
  OBVIOUS
<1> HIDE DEF Sizes
<1>8. \E m \in Sizes : \A s \in Sizes : s <= m
  BY <1>1, <1>6, GreatestElement
<1>9. largest \in Sizes /\ \A s \in Sizes : s <= largest
  BY <1>8
<1> HIDE DEF largest, H
<1>10. \A K \in MaximalCliques(H) : Cardinality(K) <= largest /\ Cardinality(K) \in Nat
  BY <1>6, <1>7, <1>9
<1> QED
  BY <1>2, <1>6, <1>9, <1>10 DEF H

\* What makes w the width of a graph: a clique with w + 1 vertices, and none
\* with more.
LEMMA WidthIs ==
  ASSUME NEW g, IsGraph(g), NEW w \in Nat,
         \E K \in SUBSET V(g) : IsClique(g, K) /\ Cardinality(K) = w + 1,
         \A K \in SUBSET V(g) : IsClique(g, K) => Cardinality(K) <= w + 1
  PROVE  WidthOf(g, {}) = w
<1> DEFINE Sizes == {Cardinality(K) : K \in MaximalCliques(Filled(g, {}))}
           largest == CHOOSE s \in Sizes : \A r \in Sizes : r <= s
<1>1. MaximalCliques(Filled(g, {})) = MaximalCliques(g)
  <2>1. V(Filled(g, {})) = V(g) /\ Filled(g, {}).adj = g.adj
    BY FilledGraph
  <2> QED
    BY <2>1 DEF MaximalCliques, IsClique
<1>2. PICK K \in SUBSET V(g) : IsClique(g, K) /\ Cardinality(K) = w + 1
  OBVIOUS
<1>3. PICK X \in MaximalCliques(g) : K \subseteq X
  BY <1>2, MaximalCliqueAround DEF IsGraph
<1>4. Cardinality(X) = w + 1
  <2>1. X \in SUBSET V(g) /\ IsClique(g, X)
    BY <1>3 DEF MaximalCliques
  <2>2. IsFiniteSet(X) /\ Cardinality(X) \in Int /\ Cardinality(X) <= w + 1
    BY <2>1, VerticesFinite DEF IsGraph
  <2>3. Cardinality(K) <= Cardinality(X)
    BY <1>3, <2>2, FS_Subset
  <2> QED
    BY <1>2, <2>2, <2>3
<1>5. w + 1 \in Sizes
  BY <1>1, <1>3, <1>4
<1>6. \A s \in Sizes : s <= w + 1 /\ s \in Nat
  <2> SUFFICES ASSUME NEW Y \in MaximalCliques(g) PROVE Cardinality(Y) <= w + 1 /\ Cardinality(Y) \in Nat
    BY <1>1
  <2>1. Y \in SUBSET V(g) /\ IsClique(g, Y)
    BY DEF MaximalCliques
  <2> QED
    BY <2>1, VerticesFinite DEF IsGraph
<1>7. WidthOf(g, {}) = largest - 1
  BY DEF WidthOf
<1> HIDE DEF Sizes
<1>8. largest \in Sizes /\ \A r \in Sizes : r <= largest
  BY <1>5, <1>6
<1> HIDE DEF largest
<1>9. largest \in Nat /\ largest <= w + 1 /\ w + 1 <= largest
  BY <1>5, <1>6, <1>8
<1> QED
  BY <1>7, <1>9

-----------------------------------------------------------------------------
(* Perfect eliminations: the orders of maximum cardinality search. *)

\* ord numbers the vertices from 1.
Numbering(g, ord) ==
  /\ \A i \in 1 .. g.n : ord[i] \in V(g)
  /\ \A v \in V(g) : \E i \in 1 .. g.n : ord[i] = v
  /\ \A i, j \in 1 .. g.n : ord[i] = ord[j] => i = j

\* The neighbours of the i-th vertex that come after the k-th.
AfterIn(g, ord, i, k) == {v \in Neighbors(g, ord[i]) : \E j \in k + 1 .. g.n : ord[j] = v}

\* Each vertex has the most neighbours after it, of those that do not come later.
HasMostAfter(g, ord) ==
  \A i \in 1 .. g.n : \A j \in 1 .. i :
    Cardinality(AfterIn(g, ord, j, i)) <= Cardinality(AfterIn(g, ord, i, i))

IsPerfect(g, ord) == \A i \in 1 .. g.n : IsClique(g, AfterIn(g, ord, i, i))

\* A vertex that misses one that an earlier vertex has, has one that it misses.
LEMMA HasAnother ==
  ASSUME NEW g, IsGraph(g), NEW ord, Numbering(g, ord), HasMostAfter(g, ord),
         NEW a \in 1 .. g.n, NEW b \in 1 .. g.n, NEW c \in 1 .. g.n, a < b, b < c,
         HasEdge(g, ord[a], ord[c]), ~HasEdge(g, ord[b], ord[c])
  PROVE  \E d \in 1 .. g.n : b < d /\ HasEdge(g, ord[b], ord[d]) /\ ~HasEdge(g, ord[a], ord[d])
<1> DEFINE A == AfterIn(g, ord, a, b)
           B == AfterIn(g, ord, b, b)
<1>1. g.n \in Nat
  BY DEF IsGraph
<1>2. Cardinality(A) <= Cardinality(B)
  <2>1. a \in 1 .. b
    OBVIOUS
  <2> QED
    BY <2>1 DEF HasMostAfter
<1>3. /\ A \in SUBSET V(g) /\ B \in SUBSET V(g)
      /\ IsFiniteSet(A) /\ Cardinality(A) \in Nat /\ IsFiniteSet(B) /\ Cardinality(B) \in Nat
  <2>1. A \in SUBSET V(g) /\ B \in SUBSET V(g)
    BY DEF AfterIn, Neighbors
  <2> QED
    BY <1>1, <2>1, VerticesFinite
<1>4. ord[c] \in A /\ ord[c] \notin B
  <2>1. c \in b + 1 .. g.n /\ ord[c] \in V(g)
    BY <1>1 DEF Numbering
  <2>2. {ord[a], ord[c]} = {ord[c], ord[a]} /\ {ord[b], ord[c]} = {ord[c], ord[b]}
    OBVIOUS
  <2> QED
    BY <2>1, <2>2 DEF AfterIn, Neighbors, HasEdge
<1>5. PICK x \in B : x \notin A
  <2> SUFFICES ASSUME B \subseteq A PROVE FALSE
    OBVIOUS
  <2> HIDE DEF A, B
  <2>1. Cardinality(B) <= Cardinality(A) /\ (Cardinality(B) = Cardinality(A) => B = A)
    BY <1>3, FS_Subset
  <2>2. Cardinality(B) = Cardinality(A)
    BY <1>2, <1>3, <2>1
  <2> QED
    BY <1>4, <2>1, <2>2
<1>6. PICK d \in b + 1 .. g.n : ord[d] = x
  BY <1>5 DEF AfterIn
<1>7. d \in 1 .. g.n /\ b < d
  BY <1>1, <1>6
<1>8. HasEdge(g, ord[b], ord[d])
  <2>1. HasEdge(g, x, ord[b])
    BY <1>5 DEF AfterIn, Neighbors
  <2>2. {ord[b], ord[d]} = {x, ord[b]}
    BY <1>6
  <2> QED
    BY <2>1, <2>2 DEF HasEdge
<1>9. ~HasEdge(g, ord[a], ord[d])
  <2>1. {ord[a], ord[d]} = {x, ord[a]}
    BY <1>6
  <2>2. x \in V(g)
    BY <1>3, <1>5
  <2> QED
    BY <1>5, <1>6, <2>1, <2>2 DEF AfterIn, Neighbors, HasEdge
<1> QED
  BY <1>7, <1>8, <1>9

\* A linked set with a vertex that sees it is linked.
LEMMA LinkedWith ==
  ASSUME NEW g, NEW C, Linked(g, C), NEW v, Sees(g, v, C)
  PROVE  Linked(g, C \cup {v})
<1> SUFFICES ASSUME NEW A \in SUBSET (C \cup {v}), A # {}, A # C \cup {v}
             PROVE  \E u \in A : Sees(g, u, (C \cup {v}) \ A)
  BY DEF Linked
<1>1. CASE A \cap C = {}
  BY <1>1 DEF Sees
<1>2. CASE C \subseteq A
  <2>1. PICK w \in C : HasEdge(g, v, w)
    BY DEF Sees
  <2>2. w \in A /\ v \in (C \cup {v}) \ A /\ {w, v} = {v, w}
    BY <1>2
  <2> QED
    BY <2>1, <2>2 DEF Sees, HasEdge
<1>3. CASE A \cap C # {} /\ ~(C \subseteq A)
  <2>1. A \cap C \in SUBSET C /\ A \cap C # {} /\ A \cap C # C
    BY <1>3
  <2>2. PICK u \in A \cap C : Sees(g, u, C \ (A \cap C))
    BY <2>1 DEF Linked
  <2> QED
    BY <2>2 DEF Sees
<1> QED
  BY <1>1, <1>2, <1>3

\* The part of a linked set T that v reaches without the vertices Out is linked,
\* and sees one of Out if there is one in T.
LEMMA ReachesOut ==
  ASSUME NEW g, NEW T \in SUBSET V(g), Linked(g, T), NEW Out, NEW v \in T \ Out
  PROVE  \E E \in SUBSET (T \ Out) :
           /\ v \in E /\ Linked(g, E)
           /\ T \cap Out # {} => \E e \in E, u \in T \cap Out : HasEdge(g, e, u)
<1> DEFINE S == V(g) \ (T \ Out)
           E == FindComponent(g, S, v)
<1>1. V(g) \ S = T \ Out /\ v \in V(g) \ S
  OBVIOUS
<1>2. v \in E /\ E \subseteq V(g) \ S /\ IsClosed(g, S, E)
  BY <1>1, ComponentClosed
<1>3. Linked(g, E)
  <2>1. E \in Components(g, S)
    BY <1>1 DEF Components
  <2> QED
    BY <2>1, ComponentLinked
<1> HIDE DEF E, S
<1>4. ASSUME T \cap Out # {} PROVE \E e \in E, u \in T \cap Out : HasEdge(g, e, u)
  <2>1. E \in SUBSET T /\ E # {} /\ E # T
    BY <1>1, <1>2, <1>4
  <2>2. PICK e \in E : Sees(g, e, T \ E)
    BY <2>1 DEF Linked
  <2>3. PICK u \in T \ E : HasEdge(g, e, u)
    BY <2>2 DEF Sees
  <2>4. u \in Out
    BY <1>1, <1>2, <2>3 DEF IsClosed
  <2> QED
    BY <2>3, <2>4
<1> QED
  BY <1>1, <1>2, <1>3, <1>4

\* No way round: two vertices of a chordal graph that are not adjacent do not
\* both see a linked set of vertices that come before them.
LEMMA NoDetour ==
  ASSUME NEW g, IsGraph(g), IsChordal(g), NEW ord, Numbering(g, ord), HasMostAfter(g, ord),
         NEW b \in 1 .. g.n, NEW c \in 1 .. g.n, b < c,
         NEW C \in SUBSET V(g), Linked(g, C), \A i \in 1 .. g.n : ord[i] \in C => i < b,
         Sees(g, ord[b], C), Sees(g, ord[c], C)
  PROVE  HasEdge(g, ord[b], ord[c])
<1> DEFINE Detour(p, q) ==
             /\ p < q /\ ~HasEdge(g, ord[p], ord[q])
             /\ \E D \in SUBSET V(g) :
                  /\ Linked(g, D) /\ \A i \in 1 .. g.n : ord[i] \in D => i < p
                  /\ Sees(g, ord[p], D) /\ Sees(g, ord[q], D)
           Bad == {p \in 1 .. g.n : \E q \in 1 .. g.n : Detour(p, q)}
<1>1. g.n \in Nat /\ \A u, w : HasEdge(g, u, w) => HasEdge(g, w, u)
  <2>1. \A u, w : {u, w} = {w, u}
    OBVIOUS
  <2> QED
    BY <2>1 DEF IsGraph, HasEdge
<1>2. ASSUME NEW p \in Bad, \A r \in Bad : r <= p
      PROVE  FALSE
  <2>1. p \in 1 .. g.n
    OBVIOUS
  <2>2. PICK q \in 1 .. g.n : Detour(p, q)
    OBVIOUS
  <2>3. PICK D \in SUBSET V(g) :
          /\ Linked(g, D) /\ \A i \in 1 .. g.n : ord[i] \in D => i < p
          /\ Sees(g, ord[p], D) /\ Sees(g, ord[q], D)
    BY <2>2
  <2> DEFINE v == ord[p]
             w == ord[q]
             T == D \cup {v}
  <2>4. /\ v \in V(g) /\ w \in V(g) /\ p < q /\ ~HasEdge(g, v, w) /\ ~HasEdge(g, w, v)
        /\ p \in Int /\ q \in Int
    BY <1>1, <2>1, <2>2 DEF Numbering
  <2>5. ASSUME NEW i \in 1 .. g.n, ord[i] \in T
        PROVE  i <= p
    <3>1. CASE ord[i] \in D
      BY <2>3, <2>4, <3>1
    <3>2. CASE ord[i] = v
      BY <2>1, <2>4, <3>2 DEF Numbering
    <3> QED
      BY <2>5, <3>1, <3>2
  <2>6. T \in SUBSET V(g) /\ Linked(g, T) /\ v \in T /\ w \notin T
    <3>1. Linked(g, T)
      BY <2>3, LinkedWith
    <3>2. w \notin T
      BY <2>2, <2>4, <2>5
    <3> QED
      BY <2>3, <2>4, <3>1, <3>2
  <2> HIDE DEF T
  <2>7. PICK E \in SUBSET (T \ Neighbors(g, w)) :
          /\ v \in E /\ Linked(g, E)
          /\ T \cap Neighbors(g, w) # {} => \E e \in E, u \in T \cap Neighbors(g, w) : HasEdge(g, e, u)
    <3>1. v \in T \ Neighbors(g, w)
      BY <2>4, <2>6 DEF Neighbors
    <3>2. T \in SUBSET V(g) /\ Linked(g, T)
      BY <2>6
    <3> DEFINE Out == Neighbors(g, w)
    <3> HIDE DEF v, w, Out
    <3>3. v \in T \ Out
      BY <3>1 DEF Out
    <3>4. \E E \in SUBSET (T \ Out) :
            /\ v \in E /\ Linked(g, E)
            /\ T \cap Out # {} => \E e \in E, u \in T \cap Out : HasEdge(g, e, u)
      BY <3>2, <3>3, ReachesOut
    <3> QED
      BY <3>4 DEF Out
  <2>8. T \cap Neighbors(g, w) # {}
    <3>1. PICK z \in D : HasEdge(g, w, z)
      BY <2>3 DEF Sees
    <3> QED
      BY <1>1, <3>1 DEF T, Neighbors
  <2>9. PICK e \in E, u \in T \cap Neighbors(g, w) : HasEdge(g, e, u)
    BY <2>7, <2>8
  <2>10. PICK a \in 1 .. g.n : ord[a] = u
    BY <2>6, <2>9 DEF Numbering
  <2>11. HasEdge(g, u, w) /\ u # v /\ a < p
    <3>1. HasEdge(g, u, w)
      BY <2>9 DEF Neighbors
    <3>2. a <= p /\ a \in Int
      BY <1>1, <2>5, <2>9, <2>10
    <3> QED
      BY <2>4, <2>10, <3>1, <3>2
  <2>12. PICK d \in 1 .. g.n : p < d /\ HasEdge(g, v, ord[d]) /\ ~HasEdge(g, u, ord[d])
    <3>1. HasEdge(g, ord[a], ord[q]) /\ ~HasEdge(g, ord[p], ord[q]) /\ a < p /\ p < q
      BY <2>4, <2>10, <2>11
    <3>2. \E d \in 1 .. g.n : p < d /\ HasEdge(g, ord[p], ord[d]) /\ ~HasEdge(g, ord[a], ord[d])
      BY <2>1, <3>1, HasAnother
    <3> QED
      BY <2>10, <3>2
  <2> DEFINE x == ord[d]
  <2>13. x \in V(g) /\ x # w /\ x \notin T /\ d # q
    <3>1. x \in V(g)
      BY DEF Numbering
    <3>2. x # w /\ d # q
      BY <2>11, <2>12
    <3>3. x \notin T
      BY <2>4, <2>5, <2>12
    <3> QED
      BY <3>1, <3>2, <3>3
  <2>14. HasEdge(g, x, w)
    <3> SUFFICES ASSUME ~HasEdge(g, x, w) PROVE FALSE
      OBVIOUS
    <3>1. Sees(g, x, T) /\ Sees(g, w, T)
      <4>1. HasEdge(g, x, v) /\ HasEdge(g, w, u)
        BY <1>1, <2>11, <2>12
      <4> QED
        BY <2>6, <2>9, <4>1 DEF Sees
    <3>2. \A i \in 1 .. g.n : ord[i] \in T => i < d /\ i < q
      BY <1>1, <2>4, <2>5, <2>12
    <3>3. CASE d < q
      <4>1. Detour(d, q)
        BY <2>6, <3>1, <3>2, <3>3
      <4>2. d <= p
        BY <1>2, <4>1
      <4> QED
        BY <2>4, <2>12, <4>2
    <3>4. CASE q < d
      <4>1. Detour(q, d)
        BY <1>1, <2>6, <3>1, <3>2, <3>4
      <4>2. q <= p
        BY <1>2, <4>1
      <4> QED
        BY <2>4, <4>2
    <3> QED
      BY <1>1, <2>4, <2>13, <3>3, <3>4
  <2> HIDE DEF v, w, x, Detour, Bad
  <2>15. PICK H \in SUBSET ((E \cup {u}) \ Neighbors(g, x)) :
           /\ u \in H /\ Linked(g, H)
           /\ (E \cup {u}) \cap Neighbors(g, x) # {} =>
                \E z \in H, y \in (E \cup {u}) \cap Neighbors(g, x) : HasEdge(g, z, y)
    <3>1. Linked(g, E \cup {u})
      <4>1. Sees(g, u, E)
        BY <1>1, <2>9 DEF Sees
      <4> QED
        BY <2>7, <4>1, LinkedWith
    <3>2. u \in (E \cup {u}) \ Neighbors(g, x) /\ E \cup {u} \in SUBSET V(g)
      BY <2>6, <2>7, <2>9, <2>12 DEF Neighbors, x
    <3> QED
      BY <3>1, <3>2, ReachesOut
  <2>16. PICK z \in H, y \in (E \cup {u}) \cap Neighbors(g, x) : HasEdge(g, z, y)
    <3>1. v \in (E \cup {u}) \cap Neighbors(g, x)
      BY <2>4, <2>7, <2>12 DEF Neighbors, x
    <3> QED
      BY <2>15, <3>1
  <2>17. y \in E /\ HasEdge(g, y, x) /\ ~HasEdge(g, y, w)
    <3>1. y \in E
      BY <2>12, <2>16 DEF Neighbors, x
    <3>2. HasEdge(g, y, x)
      BY <2>16 DEF Neighbors
    <3>3. ~HasEdge(g, y, w)
      BY <2>6, <2>7, <3>1 DEF Neighbors
    <3> QED
      BY <3>1, <3>2, <3>3
  <2>18. HasEdge(g, y, w)
    <3>1. /\ y \in V(g) /\ y # w /\ y # x /\ H \subseteq T /\ H \in SUBSET V(g) /\ w \notin H /\ x \notin H
          /\ y \notin H
      BY <2>6, <2>7, <2>9, <2>13, <2>15, <2>16, <2>17 
    <3>2. Linked(g, {x})
      BY DEF Linked
    <3>3. Sees(g, y, {x}) /\ Sees(g, w, {x}) /\ Sees(g, y, H) /\ Sees(g, w, H)
      BY <1>1, <2>11, <2>14, <2>15, <2>16, <2>17 DEF Sees
    <3>4. \A r \in {x} : ~Sees(g, r, H)
      BY <1>1, <2>6, <2>15, <3>1 DEF Sees, Neighbors
    <3>5. {x} \in SUBSET V(g) /\ {y, w} \cap {x} = {} /\ {y, w} \cap H = {} /\ {x} \cap H = {}
      BY <2>13, <3>1
    <3> QED
      BY <2>4, <2>15, <3>1, <3>2, <3>3, <3>4, <3>5, BetweenTwoSides
  <2> QED
    BY <2>17, <2>18
<1>3. Bad = {}
  <2>1. Bad \in SUBSET Nat /\ \A p \in Bad : p <= g.n
    BY <1>1
  <2> HIDE DEF Bad
  <2> QED
    BY <1>1, <1>2, <2>1, GreatestElement
<1>4. ~Detour(b, c)
  BY <1>3
<1> QED
  BY <1>4

\* A maximum cardinality search eliminates a chordal graph without fill.
LEMMA SearchIsPerfect ==
  ASSUME NEW g, IsGraph(g), IsChordal(g), NEW ord, Numbering(g, ord), HasMostAfter(g, ord)
  PROVE  IsPerfect(g, ord)
<1> SUFFICES ASSUME NEW i \in 1 .. g.n, NEW u \in AfterIn(g, ord, i, i),
                    NEW w \in AfterIn(g, ord, i, i), u # w
             PROVE  HasEdge(g, u, w)
  BY CliquePairs DEF IsPerfect
<1>1. g.n \in Nat /\ \A p, q : HasEdge(g, p, q) => HasEdge(g, q, p)
  <2>1. \A p, q : {p, q} = {q, p}
    OBVIOUS
  <2> QED
    BY <2>1 DEF IsGraph, HasEdge
<1>2. PICK b \in i + 1 .. g.n, c \in i + 1 .. g.n : ord[b] = u /\ ord[c] = w
  BY DEF AfterIn
<1>3. b \in 1 .. g.n /\ c \in 1 .. g.n /\ i < b /\ i < c /\ (b < c \/ c < b)
  BY <1>1, <1>2
<1>4. /\ {ord[i]} \in SUBSET V(g) /\ Linked(g, {ord[i]})
      /\ Sees(g, u, {ord[i]}) /\ Sees(g, w, {ord[i]})
      /\ \A j \in 1 .. g.n : ord[j] \in {ord[i]} => j = i
  <2>1. ord[i] \in V(g) /\ \A j \in 1 .. g.n : ord[j] = ord[i] => j = i
    BY DEF Numbering
  <2>2. HasEdge(g, u, ord[i]) /\ HasEdge(g, w, ord[i])
    BY DEF AfterIn, Neighbors
  <2>3. Linked(g, {ord[i]})
    BY DEF Linked
  <2> QED
    BY <2>1, <2>2, <2>3 DEF Sees
<1>5. CASE b < c
  <2>1. HasEdge(g, ord[b], ord[c])
    BY <1>2, <1>3, <1>4, <1>5, NoDetour
  <2> QED
    BY <1>2, <2>1
<1>6. CASE c < b
  <2>1. HasEdge(g, ord[c], ord[b])
    BY <1>2, <1>3, <1>4, <1>6, NoDetour
  <2> QED
    BY <1>1, <1>2, <2>1
<1> QED
  BY <1>3, <1>5, <1>6

\* The first vertex of a set has all its neighbours of the set after it.
LEMMA FirstOf ==
  ASSUME NEW g, IsGraph(g), NEW ord, Numbering(g, ord), NEW S \in SUBSET V(g), S # {}
  PROVE  \E i \in 1 .. g.n : /\ ord[i] \in S
                             /\ Neighbors(g, ord[i]) \cap S \subseteq AfterIn(g, ord, i, i)
<1> DEFINE P == {i \in 1 .. g.n : ord[i] \in S}
<1>1. P \in SUBSET Nat /\ P # {} /\ g.n \in Nat
  BY DEF Numbering, IsGraph
<1>2. PICK i \in P : \A j \in P : i <= j
  <2> HIDE DEF P
  <2> QED
    BY <1>1, LeastElement
<1>3. ASSUME NEW v \in Neighbors(g, ord[i]) \cap S PROVE v \in AfterIn(g, ord, i, i)
  <2>1. PICK j \in 1 .. g.n : ord[j] = v
    BY DEF Numbering
  <2>2. j # i
    <3>1. {v, ord[i]} \in g.adj
      BY DEF Neighbors, HasEdge
    <3>2. \E p, q \in V(g) : p # q /\ {v, ord[i]} = {p, q}
      BY <3>1, PairsMember DEF IsGraph
    <3> QED
      BY <2>1, <3>2
  <2>3. i <= j
    BY <1>2, <2>1
  <2>4. j \in i + 1 .. g.n
    BY <1>1, <1>2, <2>2, <2>3
  <2> QED
    BY <2>1, <2>4 DEF AfterIn
<1> QED
  BY <1>2, <1>3

\* A graph with a perfect elimination is chordal, and its width is the largest
\* number of neighbours that a vertex has after it.
LEMMA PerfectWidth ==
  ASSUME NEW g, IsGraph(g), NEW ord, Numbering(g, ord), IsPerfect(g, ord)
  PROVE  /\ IsChordal(g)
         /\ \A w \in Nat :
              /\ \E i \in 1 .. g.n : Cardinality(AfterIn(g, ord, i, i)) = w
              /\ \A i \in 1 .. g.n : Cardinality(AfterIn(g, ord, i, i)) <= w
              => WidthOf(g, {}) = w
<1>1. IsChordal(g)
  <2> SUFFICES ASSUME NEW S \in (SUBSET V(g)) \ {{}}
               PROVE  \E v \in S : IsClique(g, Neighbors(g, v) \cap S)
    BY DEF IsChordal
  <2>1. PICK i \in 1 .. g.n : /\ ord[i] \in S
                              /\ Neighbors(g, ord[i]) \cap S \subseteq AfterIn(g, ord, i, i)
    BY FirstOf
  <2>2. IsClique(g, AfterIn(g, ord, i, i))
    BY DEF IsPerfect
  <2> QED
    BY <2>1, <2>2, CliquePairs
<1>2. ASSUME NEW w \in Nat,
             \E i \in 1 .. g.n : Cardinality(AfterIn(g, ord, i, i)) = w,
             \A i \in 1 .. g.n : Cardinality(AfterIn(g, ord, i, i)) <= w
      PROVE  WidthOf(g, {}) = w
  <2>1. ASSUME NEW i \in 1 .. g.n
        PROVE  /\ AfterIn(g, ord, i, i) \in SUBSET V(g) /\ ord[i] \in V(g)
               /\ AfterIn(g, ord, i, i) \cup {ord[i]} \in SUBSET V(g)
               /\ IsClique(g, AfterIn(g, ord, i, i) \cup {ord[i]})
               /\ Cardinality(AfterIn(g, ord, i, i) \cup {ord[i]}) = Cardinality(AfterIn(g, ord, i, i)) + 1
               /\ Cardinality(AfterIn(g, ord, i, i)) \in Nat
    <3> DEFINE A == AfterIn(g, ord, i, i)
    <3>1. A \in SUBSET V(g) /\ ord[i] \in V(g)
      BY DEF AfterIn, Neighbors, Numbering
    <3>2. \A v \in A : HasEdge(g, v, ord[i]) /\ HasEdge(g, ord[i], v)
      <4>1. \A v : {v, ord[i]} = {ord[i], v}
        OBVIOUS
      <4> QED
        BY <4>1 DEF AfterIn, Neighbors, HasEdge
    <3>3. ord[i] \notin A
      <4>1. ~ \E j \in i + 1 .. g.n : ord[j] = ord[i]
        <5>1. \A j \in i + 1 .. g.n : j \in 1 .. g.n /\ j # i
          BY DEF IsGraph
        <5> QED
          BY <5>1 DEF Numbering
      <4> QED
        BY <4>1 DEF AfterIn
    <3>4. IsClique(g, A \cup {ord[i]})
      <4>1. IsClique(g, A)
        BY DEF IsPerfect
      <4>2. \A p, q \in A : p # q => HasEdge(g, p, q)
        BY <4>1, CliquePairs
      <4> HIDE DEF A
      <4>3. \A p, q \in A \cup {ord[i]} : p # q => HasEdge(g, p, q)
        BY <3>2, <4>2
      <4> QED
        BY <4>3, CliquePairs
    <3> HIDE DEF A
    <3>5. IsFiniteSet(A) /\ Cardinality(A) \in Nat /\ Cardinality(A \cup {ord[i]}) = Cardinality(A) + 1
      BY <3>1, <3>3, VerticesFinite, FS_AddElement DEF IsGraph
    <3> QED
      BY <3>1, <3>4, <3>5 DEF A
  <2>2. \E K \in SUBSET V(g) : IsClique(g, K) /\ Cardinality(K) = w + 1
    BY <1>2, <2>1
  <2>3. ASSUME NEW K \in SUBSET V(g), IsClique(g, K)
        PROVE  Cardinality(K) <= w + 1
    <3>1. CASE K = {}
      BY <3>1, FS_EmptySet
    <3>2. CASE K # {}
      <4>1. PICK i \in 1 .. g.n : /\ ord[i] \in K
                                  /\ Neighbors(g, ord[i]) \cap K \subseteq AfterIn(g, ord, i, i)
        BY <3>2, FirstOf
      <4>2. K \subseteq AfterIn(g, ord, i, i) \cup {ord[i]}
        <5>1. \A v \in K : v # ord[i] => HasEdge(g, v, ord[i])
          BY <2>3, <4>1, CliquePairs
        <5> QED
          BY <4>1, <5>1 DEF Neighbors
      <4> DEFINE B == AfterIn(g, ord, i, i) \cup {ord[i]}
      <4>3. IsFiniteSet(B) /\ Cardinality(B) = Cardinality(AfterIn(g, ord, i, i)) + 1
        BY <2>1, VerticesFinite DEF IsGraph
      <4>4. Cardinality(K) <= Cardinality(B) /\ Cardinality(K) \in Nat
        <5>1. K \subseteq B
          BY <4>2
        <5> HIDE DEF B
        <5> QED
          BY <4>3, <5>1, FS_Subset, VerticesFinite DEF IsGraph
      <4>5. Cardinality(AfterIn(g, ord, i, i)) <= w /\ Cardinality(AfterIn(g, ord, i, i)) \in Nat
        BY <1>2, <2>1
      <4> HIDE DEF B
      <4> QED
        BY <4>3, <4>4, <4>5
    <3> QED
      BY <3>1, <3>2
  <2> QED
    BY <2>2, <2>3, WidthIs
<1> QED
  BY <1>1, <1>2

-----------------------------------------------------------------------------
(* SimplicialElimination, stage by stage. *)

AreStages(f, S, next, start, n) ==
  f \in [0 .. n -> S] /\ f[0] = start /\ \A k \in 1 .. n : f[k] = next[f[k - 1]]

\* What is done again and again has a sequence of results.
LEMMA StagesExist ==
  ASSUME NEW S, NEW next \in [S -> S], NEW start \in S, NEW n \in Nat
  PROVE  \E f : AreStages(f, S, next, start, n)
<1> DEFINE Has(m) == \E f \in [0 .. m -> S] : f[0] = start /\ \A k \in 1 .. m : f[k] = next[f[k - 1]]
           Bad == {m \in Nat : ~Has(m)}
<1>1. ASSUME NEW m \in Bad, \A l \in Bad : m <= l
      PROVE  FALSE
  <2>1. CASE m = 0
    <3> DEFINE f == [k \in 0 .. 0 |-> start]
    <3>1. f \in [0 .. m -> S] /\ f[0] = start /\ \A k \in 1 .. m : f[k] = next[f[k - 1]]
      BY <2>1
    <3> QED
      BY <3>1
  <2>2. CASE m # 0
    <3>1. m - 1 \in Nat /\ ~(m <= m - 1) /\ m \in Nat
      BY <2>2
    <3>2. Has(m - 1)
      BY <1>1, <3>1
    <3>3. PICK f \in [0 .. m - 1 -> S] :
            f[0] = start /\ \A k \in 1 .. m - 1 : f[k] = next[f[k - 1]]
      BY <3>2
    <3> DEFINE h == [k \in 0 .. m |-> IF k = m THEN next[f[m - 1]] ELSE f[k]]
    <3>4. \A k \in 0 .. m : k # m => k \in 0 .. m - 1
      BY <3>1
    <3>5. f[m - 1] \in S
      <4>1. m - 1 \in 0 .. m - 1
        BY <3>1
      <4> QED
        BY <3>3, <4>1
    <3>6. \A k \in 0 .. m : h[k] \in S
      BY <3>3, <3>4, <3>5
    <3>7. h \in [0 .. m -> S]
      BY <3>6
    <3>8. h[0] = start
      <4>1. 0 \in 0 .. m /\ 0 # m
        BY <2>2, <3>1
      <4> QED
        BY <3>3, <4>1
    <3>9. ASSUME NEW k \in 1 .. m PROVE h[k] = next[h[k - 1]]
      <4>1. k - 1 \in 0 .. m /\ k - 1 # m /\ k \in 0 .. m /\ (k # m => k \in 1 .. m - 1)
        BY <3>1
      <4> QED
        BY <3>3, <4>1
    <3> QED
      BY <3>7, <3>8, <3>9
  <2> QED
    BY <2>1, <2>2
<1>2. Bad = {}
  <2>1. Bad \in SUBSET Nat
    OBVIOUS
  <2> HIDE DEF Bad
  <2> QED
    BY <1>1, <2>1, LeastElement
<1> QED
  BY <1>2 DEF AreStages

\* The states of the elimination and one step of it.
States(g) == [left : SUBSET V(g), width : Nat, bags : SUBSET SUBSET V(g)]

SimplicialOnes(g, s) == {v \in s.left : IsClique(g, Neighbors(g, v) \cap s.left)}

EliminateOne(g, s, v) ==
  [left |-> s.left \ {v},
   width |-> MaxOf({s.width, Cardinality(Neighbors(g, v) \cap s.left)}),
   bags |-> s.bags \cup {{v} \cup (Neighbors(g, v) \cap s.left)}]

EliminateNext(g, s) ==
  IF SimplicialOnes(g, s) = {} THEN s ELSE EliminateOne(g, s, MinOf(SimplicialOnes(g, s)))

LEMMA EliminateFacts ==
  ASSUME NEW g, IsGraph(g), NEW s \in States(g)
  PROVE  /\ EliminateNext(g, s) \in States(g)
         /\ \/ SimplicialOnes(g, s) = {} /\ EliminateNext(g, s) = s
            \/ \E v \in SimplicialOnes(g, s) :
                 LET t == EliminateNext(g, s)
                     A == Neighbors(g, v) \cap s.left
                 IN  /\ t.left = s.left \ {v} /\ t.bags = s.bags \cup {{v} \cup A}
                     /\ s.width <= t.width /\ Cardinality(A) <= t.width
                     /\ t.width = s.width \/ t.width = Cardinality(A)
<1>1. CASE SimplicialOnes(g, s) = {}
  BY <1>1 DEF EliminateNext
<1>2. CASE SimplicialOnes(g, s) # {}
  <2> DEFINE v == MinOf(SimplicialOnes(g, s))
             A == Neighbors(g, v) \cap s.left
             W == {s.width, Cardinality(A)}
  <2>1. g.n \in Nat /\ s.left \in SUBSET V(g) /\ s.width \in Nat /\ s.bags \in SUBSET SUBSET V(g)
    BY DEF IsGraph, States
  <2>2. v \in SimplicialOnes(g, s)
    <3> DEFINE P == SimplicialOnes(g, s)
    <3>1. P \in SUBSET Nat /\ P # {}
      BY <1>2, <2>1 DEF SimplicialOnes, V
    <3> HIDE DEF P
    <3>2. \E m \in P : \A l \in P : m <= l
      BY <3>1, LeastElement
    <3>3. MinOf(P) \in P
      BY <3>2 DEF MinOf
    <3> QED
      BY <3>3 DEF P
  <2> HIDE DEF v
  <2>3. A \in SUBSET V(g) /\ Cardinality(A) \in Nat
    <3>1. A \in SUBSET V(g)
      BY <2>1
    <3> QED
      BY <2>1, <3>1, VerticesFinite
  <2>4. v \in V(g)
    BY <2>1, <2>2 DEF SimplicialOnes
  <2>5. MaxOf(W) \in W /\ \A l \in W : l <= MaxOf(W)
    <3> HIDE DEF A
    <3>1. \E m \in W : \A l \in W : l <= m
      <4>1. CASE s.width <= Cardinality(A)
        BY <2>1, <2>3, <4>1
      <4>2. CASE Cardinality(A) <= s.width
        BY <2>1, <2>3, <4>2
      <4> QED
        BY <2>1, <2>3, <4>1, <4>2
    <3> QED
      BY <3>1 DEF MaxOf
  <2>6. EliminateNext(g, s) = [left |-> s.left \ {v}, width |-> MaxOf(W), bags |-> s.bags \cup {{v} \cup A}]
    BY <1>2 DEF EliminateNext, EliminateOne, v
  <2> DEFINE mw == MaxOf(W)
  <2>7. mw \in Nat /\ s.width <= mw /\ Cardinality(A) <= mw /\ (mw = s.width \/ mw = Cardinality(A))
    BY <2>1, <2>3, <2>5
  <2> HIDE DEF mw
  <2>8. EliminateNext(g, s) = [left |-> s.left \ {v}, width |-> mw, bags |-> s.bags \cup {{v} \cup A}]
    BY <2>6 DEF mw
  <2>9. EliminateNext(g, s) \in States(g)
    BY <2>1, <2>3, <2>4, <2>7, <2>8 DEF States
  <2>10. /\ EliminateNext(g, s).left = s.left \ {v}
         /\ EliminateNext(g, s).bags = s.bags \cup {{v} \cup A}
         /\ EliminateNext(g, s).width = mw
    BY <2>8
  <2>11. LET t == EliminateNext(g, s)
         IN  /\ t.left = s.left \ {v} /\ t.bags = s.bags \cup {{v} \cup (Neighbors(g, v) \cap s.left)}
             /\ s.width <= t.width /\ Cardinality(Neighbors(g, v) \cap s.left) <= t.width
             /\ t.width = s.width \/ t.width = Cardinality(Neighbors(g, v) \cap s.left)
    BY <2>7, <2>10
  <2> QED
    BY <2>2, <2>9, <2>11
<1> QED
  BY <1>1, <1>2

AreEliminationStages(g, f) ==
  /\ f \in [0 .. g.n -> States(g)]
  /\ f[0] = [left |-> V(g), width |-> 0, bags |-> {}]
  /\ \A k \in 1 .. g.n : f[k] = EliminateNext(g, f[k - 1])

\* The recursive function in SimplicialElimination has these stages.
LEMMA EliminationStages ==
  ASSUME NEW g, IsGraph(g)
  PROVE  \E f : AreEliminationStages(g, f) /\ SimplicialElimination(g) = f[g.n]
<1> DEFINE start == [left |-> V(g), width |-> 0, bags |-> {}]
           next == [s \in States(g) |-> EliminateNext(g, s)]
           Step(s) == IF SimplicialOnes(g, s) = {} THEN s
                      ELSE CHOOSE t \in {EliminateOne(g, s, v) : v \in {MinOf(SimplicialOnes(g, s))}} : TRUE
           Is(f) == f = [k \in 0 .. g.n |-> IF k = 0 THEN start
                                            ELSE CHOOSE t \in {Step(s) : s \in {f[k - 1]}} : TRUE]
           after == CHOOSE f : Is(f)
<1>1. g.n \in Nat
  BY DEF IsGraph
<1>2. SimplicialElimination(g) = after[g.n]
  BY DEF SimplicialElimination, Iterate, SimplicialOnes, EliminateOne
<1>3. \A s : Step(s) = EliminateNext(g, s)
  BY DEF EliminateNext
<1>4. start \in States(g) /\ next \in [States(g) -> States(g)]
  BY EliminateFacts DEF States
<1> HIDE DEF start, next, Step
<1>5. PICK f \in [0 .. g.n -> States(g)] :
        f[0] = start /\ \A k \in 1 .. g.n : f[k] = next[f[k - 1]]
  <2>1. \E f : AreStages(f, States(g), next, start, g.n)
    BY <1>1, <1>4, StagesExist
  <2> QED
    BY <2>1 DEF AreStages
<1>6. \A k \in 1 .. g.n : k \in 0 .. g.n /\ k # 0 /\ k - 1 \in 0 .. g.n
  BY <1>1
<1>7. \A k \in 0 .. g.n : k # 0 => k \in 1 .. g.n
  BY <1>1
<1>8. \A x : (CHOOSE t \in {Step(s) : s \in {x}} : TRUE) = EliminateNext(g, x)
  BY <1>3
<1>9. ASSUME NEW k \in 1 .. g.n PROVE f[k] = EliminateNext(g, f[k - 1])
  BY <1>5, <1>6 DEF next
<1>10. Is(f)
  BY <1>5, <1>7, <1>8, <1>9
<1>11. Is(after)
  BY <1>10
<1> HIDE DEF after
<1>12. after[0] = start /\ \A k \in 1 .. g.n : after[k] = EliminateNext(g, after[k - 1])
  BY <1>1, <1>6, <1>8, <1>11
<1>13. after \in [0 .. g.n -> States(g)]
  <2> DEFINE Bad == {k \in 0 .. g.n : after[k] \notin States(g)}
  <2>1. ASSUME NEW k \in Bad, \A l \in Bad : k <= l PROVE FALSE
    <3>1. k # 0
      BY <1>4, <1>12
    <3>2. k \in 1 .. g.n /\ k - 1 \in 0 .. g.n /\ ~(k <= k - 1)
      BY <1>1, <3>1
    <3>3. after[k - 1] \in States(g)
      BY <2>1, <3>2
    <3> QED
      BY <1>12, <3>2, <3>3, EliminateFacts
  <2>2. Bad \in SUBSET Nat
    BY <1>1
  <2>3. Bad = {}
    <3> HIDE DEF Bad
    <3> QED
      BY <2>1, <2>2, LeastElement
  <2>4. \A k \in 0 .. g.n : after[k] \in States(g)
    BY <2>3
  <2>5. after = [k \in 0 .. g.n |-> after[k]]
    BY <1>11
  <2> QED
    BY <2>4, <2>5
<1> QED
  BY <1>2, <1>12, <1>13 DEF start, AreEliminationStages

\* t is s after v has been eliminated.
Removes(g, s, t, v) ==
  LET A == Neighbors(g, v) \cap s.left
  IN  /\ v \in s.left /\ v \in V(g) /\ IsClique(g, A) /\ t.left = s.left \ {v}
      /\ s.width <= t.width /\ Cardinality(A) <= t.width
      /\ t.width = s.width \/ t.width = Cardinality(A)

\* One stage after the other.
LEMMA StageFacts ==
  ASSUME NEW g, IsGraph(g), NEW f, AreEliminationStages(g, f), NEW k \in 0 .. g.n, k # 0
  PROVE  /\ k \in 1 .. g.n /\ k - 1 \in 0 .. g.n /\ ~(k <= k - 1)
         /\ f[k].left \in SUBSET V(g) /\ f[k - 1].left \in SUBSET V(g)
         /\ f[k].width \in Nat /\ f[k - 1].width \in Nat
         /\ \/ SimplicialOnes(g, f[k - 1]) = {} /\ f[k] = f[k - 1]
            \/ \E v : Removes(g, f[k - 1], f[k], v)
<1> DEFINE s == f[k - 1]
           t == f[k]
<1>1. k \in 1 .. g.n /\ k - 1 \in 0 .. g.n /\ ~(k <= k - 1)
  BY DEF IsGraph
<1>2. s \in States(g) /\ t \in States(g) /\ t = EliminateNext(g, s)
  BY <1>1 DEF AreEliminationStages
<1> HIDE DEF s, t
<1>3. \/ SimplicialOnes(g, s) = {} /\ t = s
      \/ \E v \in SimplicialOnes(g, s) :
           LET A == Neighbors(g, v) \cap s.left
           IN  /\ t.left = s.left \ {v}
               /\ s.width <= t.width /\ Cardinality(A) <= t.width
               /\ t.width = s.width \/ t.width = Cardinality(A)
  BY <1>2, EliminateFacts
<1>4. s.left \in SUBSET V(g) /\ t.left \in SUBSET V(g) /\ s.width \in Nat /\ t.width \in Nat
  BY <1>2 DEF States
<1>5. \A v \in SimplicialOnes(g, s) :
        v \in s.left /\ v \in V(g) /\ IsClique(g, Neighbors(g, v) \cap s.left)
  BY <1>4 DEF SimplicialOnes
<1>6. (SimplicialOnes(g, s) = {} /\ t = s) \/ \E v : Removes(g, s, t, v)
  BY <1>3, <1>5 DEF Removes
<1> QED
  BY <1>1, <1>4, <1>6 DEF s, t

\* A clique with a vertex that is adjacent to all of it.
LEMMA OneMoreInClique ==
  ASSUME NEW g, IsGraph(g), NEW v \in V(g), NEW A \in SUBSET Neighbors(g, v), IsClique(g, A)
  PROVE  /\ A \cup {v} \in SUBSET V(g) /\ IsClique(g, A \cup {v})
         /\ Cardinality(A \cup {v}) = Cardinality(A) + 1 /\ Cardinality(A) \in Nat
<1>1. A \in SUBSET V(g) /\ \A u \in A : HasEdge(g, u, v) /\ HasEdge(g, v, u)
  <2>1. \A u : {u, v} = {v, u}
    OBVIOUS
  <2> QED
    BY <2>1 DEF Neighbors, HasEdge
<1>2. v \notin A
  <2>1. ~HasEdge(g, v, v)
    <3>1. {v, v} \in g.adj => \E p, q \in V(g) : p # q /\ {v, v} = {p, q}
      BY PairsMember DEF IsGraph
    <3> QED
      BY <3>1 DEF HasEdge
  <2> QED
    BY <1>1, <2>1
<1>3. \A p, q \in A \cup {v} : p # q => HasEdge(g, p, q)
  <2>1. \A p, q \in A : p # q => HasEdge(g, p, q)
    BY CliquePairs
  <2> QED
    BY <1>1, <2>1
<1>4. IsFiniteSet(A) /\ Cardinality(A) \in Nat
  BY <1>1, VerticesFinite DEF IsGraph
<1> QED
  BY <1>1, <1>2, <1>3, <1>4, CliquePairs, FS_AddElement

\* SimplicialElimination stops early for the graphs only that are not chordal,
\* and else finds their width.
LEMMA EliminationExact ==
  ASSUME NEW g, IsGraph(g), g.n >= 1
  PROVE  /\ HasPerfectElimination(g) <=> IsChordal(g)
         /\ IsChordal(g) => ChordalWidth(g) = WidthOf(g, {}) /\ ChordalWidth(g) \in Nat
<1>1. PICK f : AreEliminationStages(g, f) /\ SimplicialElimination(g) = f[g.n]
  BY EliminationStages
<1>2. /\ g.n \in Nat /\ g.n \in 0 .. g.n /\ 0 \in 0 .. g.n /\ 0 .. g.n \in SUBSET Nat
      /\ Cardinality(V(g)) = g.n /\ f[0].left = V(g) /\ f[0].width = 0
      /\ f[g.n].left \in SUBSET V(g) /\ f[g.n].width \in Nat
  <2>1. g.n \in 0 .. g.n /\ g.n \in Nat
    BY DEF IsGraph
  <2> QED
    BY <1>1, <2>1, VerticesFinite DEF AreEliminationStages, States
<1>3. ASSUME NEW T \in SUBSET V(g), \A v \in T : ~IsClique(g, Neighbors(g, v) \cap T)
      PROVE  T \subseteq f[g.n].left
  <2> DEFINE Bad == {k \in 0 .. g.n : ~(T \subseteq f[k].left)}
  <2>1. ASSUME NEW k \in Bad, \A l \in Bad : k <= l PROVE FALSE
    <3>1. k # 0
      BY <1>2
    <3>2. T \subseteq f[k - 1].left
      BY <1>1, <2>1, <3>1, StageFacts
    <3>6. k \in 0 .. g.n /\ f[k] # f[k - 1]
      BY <2>1, <3>2
    <3>3. PICK v \in f[k - 1].left : /\ IsClique(g, Neighbors(g, v) \cap f[k - 1].left)
                                     /\ f[k].left = f[k - 1].left \ {v}
      BY <1>1, <3>1, <3>6, StageFacts DEF Removes
    <3>4. v \in T
      BY <3>2, <3>3
    <3>5. IsClique(g, Neighbors(g, v) \cap T)
      BY <3>2, <3>3, CliquePairs
    <3> QED
      BY <1>3, <3>4, <3>5
  <2>2. Bad \in SUBSET Nat
    BY <1>2
  <2>3. Bad = {}
    <3> HIDE DEF Bad
    <3> QED
      BY <2>1, <2>2, LeastElement
  <2> QED
    BY <1>2, <2>3
<1>4. ASSUME f[g.n].left = {} PROVE IsChordal(g)
  <2> SUFFICES ASSUME NEW T \in (SUBSET V(g)) \ {{}}
               PROVE  \E v \in T : IsClique(g, Neighbors(g, v) \cap T)
    BY DEF IsChordal
  <2> QED
    BY <1>3, <1>4
<1>5. ASSUME IsChordal(g) PROVE f[g.n].left = {}
  <2> DEFINE Bad == {k \in 0 .. g.n : Cardinality(f[k].left) # g.n - k}
  <2>1. ASSUME NEW k \in Bad, \A l \in Bad : k <= l PROVE FALSE
    <3>1. k # 0 /\ k \in Nat /\ k <= g.n
      BY <1>2
    <3>2. /\ Cardinality(f[k - 1].left) = g.n - (k - 1)
          /\ f[k - 1].left \in SUBSET V(g)
      BY <1>1, <2>1, <3>1, StageFacts
    <3>3. IsFiniteSet(f[k - 1].left)
      BY <1>2, <3>2, VerticesFinite
    <3>4. f[k - 1].left # {}
      <4>1. Cardinality(f[k - 1].left) # 0
        BY <1>2, <3>1, <3>2
      <4> QED
        BY <4>1, FS_EmptySet
    <3>5. SimplicialOnes(g, f[k - 1]) # {}
      BY <1>5, <3>2, <3>4 DEF IsChordal, SimplicialOnes
    <3>8. k \in 0 .. g.n
      BY <2>1
    <3>6. PICK v \in f[k - 1].left : f[k].left = f[k - 1].left \ {v}
      <4>1. \E v : Removes(g, f[k - 1], f[k], v)
        BY <1>1, <3>1, <3>5, <3>8, StageFacts
      <4> QED
        BY <4>1 DEF Removes
    <3>7. Cardinality(f[k].left) = g.n - (k - 1) - 1
      BY <3>2, <3>3, <3>6, FS_RemoveElement
    <3> QED
      BY <1>2, <3>1, <3>7
  <2>2. Bad \in SUBSET Nat
    BY <1>2
  <2>3. Bad = {}
    <3> HIDE DEF Bad
    <3> QED
      BY <2>1, <2>2, LeastElement
  <2>4. Cardinality(f[g.n].left) = 0 /\ f[g.n].left \in SUBSET V(g)
    BY <1>2, <2>3 DEF States
  <2> QED
    BY <1>2, <2>4, VerticesFinite, FS_EmptySet
<1>6. ASSUME NEW K \in SUBSET V(g), IsClique(g, K)
      PROVE  K \subseteq f[g.n].left \/ Cardinality(K) <= f[g.n].width + 1
  <2> DEFINE Bad == {k \in 0 .. g.n : ~(K \subseteq f[k].left) /\ ~(Cardinality(K) <= f[k].width + 1)}
  <2>1. ASSUME NEW k \in Bad, \A l \in Bad : k <= l PROVE FALSE
    <3>1. k # 0
      BY <1>2
    <3>2. K \subseteq f[k - 1].left \/ Cardinality(K) <= f[k - 1].width + 1
      BY <1>1, <2>1, <3>1, StageFacts
    <3>10. k \in 0 .. g.n /\ f[k] # f[k - 1]
      BY <2>1, <3>2
    <3>3. PICK v \in f[k - 1].left : /\ f[k].left = f[k - 1].left \ {v} /\ v \in V(g)
                                     /\ f[k - 1].width <= f[k].width
                                     /\ Cardinality(Neighbors(g, v) \cap f[k - 1].left) <= f[k].width
      BY <1>1, <3>1, <3>10, StageFacts DEF Removes
    <3>4. Cardinality(K) \in Nat /\ f[k].width \in Nat /\ f[k - 1].width \in Nat /\ f[k - 1].left \in SUBSET V(g)
      <4>1. Cardinality(K) \in Nat
        BY <1>2, VerticesFinite
      <4> QED
        BY <1>1, <3>1, <4>1, StageFacts
    <3>5. K \subseteq f[k - 1].left /\ v \in K
      BY <3>2, <3>3, <3>4
    <3> DEFINE A == Neighbors(g, v) \cap f[k - 1].left
    <3>6. K \ {v} \subseteq A
      BY <1>6, <3>4, <3>5, CliquePairs DEF Neighbors
    <3>7. /\ IsFiniteSet(K) /\ IsFiniteSet(A) /\ Cardinality(A) \in Nat
          /\ Cardinality(K \ {v}) = Cardinality(K) - 1
      <4>1. A \in SUBSET V(g)
        BY <3>4
      <4> HIDE DEF A
      <4> QED
        BY <1>2, <3>5, <4>1, VerticesFinite, FS_RemoveElement
    <3>8. Cardinality(K \ {v}) <= Cardinality(A)
      <4> HIDE DEF A
      <4> QED
        BY <3>6, <3>7, FS_Subset
    <3>9. Cardinality(A) <= f[k].width
      BY <3>3
    <3> HIDE DEF A
    <3> QED
      BY <3>4, <3>7, <3>8, <3>9
  <2>2. Bad \in SUBSET Nat
    BY <1>2
  <2>3. Bad = {}
    <3> HIDE DEF Bad
    <3> QED
      BY <2>1, <2>2, LeastElement
  <2> QED
    BY <1>2, <2>3
<1>7. f[g.n].width = 0 \/ \E K \in SUBSET V(g) : IsClique(g, K) /\ Cardinality(K) = f[g.n].width + 1
  <2> DEFINE Reached(w) == w = 0 \/ \E K \in SUBSET V(g) : IsClique(g, K) /\ Cardinality(K) = w + 1
             Bad == {k \in 0 .. g.n : ~Reached(f[k].width)}
  <2>1. ASSUME NEW k \in Bad, \A l \in Bad : k <= l PROVE FALSE
    <3>1. k # 0
      BY <1>2
    <3>2. Reached(f[k - 1].width)
      BY <1>1, <2>1, <3>1, StageFacts
    <3>3. PICK v \in f[k - 1].left : /\ v \in V(g) /\ IsClique(g, Neighbors(g, v) \cap f[k - 1].left)
                                     /\ f[k].width = Cardinality(Neighbors(g, v) \cap f[k - 1].left)
      <4>1. k \in 0 .. g.n /\ f[k].width # f[k - 1].width /\ f[k] # f[k - 1]
        BY <2>1, <3>2
      <4> HIDE DEF Bad, Reached
      <4>2. PICK v : Removes(g, f[k - 1], f[k], v)
        BY <1>1, <3>1, <4>1, StageFacts
      <4>3. f[k].width = Cardinality(Neighbors(g, v) \cap f[k - 1].left)
        BY <4>1, <4>2 DEF Removes
      <4> QED
        BY <4>2, <4>3 DEF Removes
    <3> DEFINE A == Neighbors(g, v) \cap f[k - 1].left
    <3>4. A \in SUBSET Neighbors(g, v) /\ IsClique(g, A)
      BY <3>3
    <3>5. f[k].width = Cardinality(A)
      BY <3>3
    <3> HIDE DEF A
    <3>6. A \cup {v} \in SUBSET V(g) /\ IsClique(g, A \cup {v}) /\ Cardinality(A \cup {v}) = Cardinality(A) + 1
      BY <3>3, <3>4, OneMoreInClique
    <3>7. Reached(f[k].width)
      BY <3>5, <3>6
    <3> QED
      BY <2>1, <3>7
  <2>2. Bad \in SUBSET Nat
    BY <1>2
  <2>3. Bad = {}
    <3> HIDE DEF Bad
    <3> QED
      BY <2>1, <2>2, LeastElement
  <2> QED
    BY <1>2, <2>3
<1>8. ASSUME IsChordal(g) PROVE ChordalWidth(g) = WidthOf(g, {}) /\ ChordalWidth(g) \in Nat
  <2>1. f[g.n].left = {} /\ f[g.n].width \in Nat /\ ChordalWidth(g) = f[g.n].width
    BY <1>1, <1>2, <1>5, <1>8 DEF States, ChordalWidth
  <2>2. ASSUME NEW K \in SUBSET V(g), IsClique(g, K)
        PROVE  Cardinality(K) <= f[g.n].width + 1
    <3>1. CASE K = {}
      BY <2>1, <3>1, FS_EmptySet
    <3>2. CASE K # {}
      BY <1>6, <2>1, <2>2, <3>2
    <3> QED
      BY <3>1, <3>2
  <2>3. \E K \in SUBSET V(g) : IsClique(g, K) /\ Cardinality(K) = 0 + 1
    <3>1. 0 \in V(g) /\ {} \in SUBSET Neighbors(g, 0)
      BY <1>2 DEF V
    <3>2. IsClique(g, {})
      BY CliquePairs
    <3>3. {} \cup {0} \in SUBSET V(g) /\ IsClique(g, {} \cup {0}) /\ Cardinality({} \cup {0}) = Cardinality({}) + 1
      BY <3>1, <3>2, OneMoreInClique
    <3> QED
      BY <3>3, FS_EmptySet
  <2>4. \E K \in SUBSET V(g) : IsClique(g, K) /\ Cardinality(K) = f[g.n].width + 1
    BY <1>7, <2>3
  <2> QED
    BY <2>1, <2>2, <2>4, WidthIs
<1> QED
  BY <1>1, <1>4, <1>5, <1>8 DEF HasPerfectElimination

-----------------------------------------------------------------------------
(* Potential maximal cliques. *)

\* No component outside a potential maximal clique sees all of it.
LEMMA NoFullComponent ==
  ASSUME NEW g, NEW X, IsPmc(g, X), NEW C \in Components(g, X)
  PROVE  NeighborsOf(g, C) # X
<1> SUFFICES ASSUME NeighborsOf(g, C) = X PROVE FALSE
  OBVIOUS
<1>1. PICK i \in C : i \in V(g) \ X
  BY ComponentsMember
<1>2. PICK j \in X : {i, j} \notin ConnectedMatrix(g, X)
  BY <1>1 DEF IsPmc, IsPmcIn
<1>3. i # j /\ i \in C \cup NeighborsOf(g, C) /\ j \in C \cup NeighborsOf(g, C)
  BY <1>1
<1> QED
  BY <1>2, <1>3, ConnectedIntro

\* The first two assertions of Solve are about such a separator: it leaves out
\* a vertex of the clique, and the rest of the clique is in one component.
LEMMA RestIsConnected ==
  ASSUME NEW g, NEW X, X \subseteq V(g), IsPmc(g, X), NEW C \in Components(g, X),
         NEW u \in X \ NeighborsOf(g, C), NEW w \in X \ NeighborsOf(g, C)
  PROVE  w \in FindComponent(g, NeighborsOf(g, C), u)
<1> DEFINE S == NeighborsOf(g, C)
           A == FindComponent(g, S, u)
<1>1. S \subseteq X
  BY NeighborsBlocked
<1>2. u \in A /\ A \subseteq V(g) \ S /\ IsClosed(g, S, A)
  BY ComponentClosed
<1>3. ASSUME u # w PROVE w \in A
  <2>1. {u, w} \in ConnectedMatrix(g, X)
    BY <1>3, PairsOf DEF IsPmc, IsPmcIn
  <2>2. CASE {u, w} \in g.adj
    BY <2>2, <1>2 DEF IsClosed, HasEdge
  <2>3. CASE {u, w} \notin g.adj
    <3>1. PICK D \in Components(g, X) : {u, w} \in Pairs(D \cup NeighborsOf(g, D))
      BY <2>1, <2>3, ConnectedMember
    <3>2. u \in NeighborsOf(g, D) /\ w \in NeighborsOf(g, D)
      <4>1. u \in D \cup NeighborsOf(g, D) /\ w \in D \cup NeighborsOf(g, D)
        BY <3>1, <1>3, PairsOf
      <4>2. u \notin D /\ w \notin D
        BY ComponentsMember
      <4> QED
        BY <4>1, <4>2
    <3>3. PICK d \in D : HasEdge(g, u, d)
      BY <3>2 DEF NeighborsOf
    <3>4. PICK e \in D : HasEdge(g, e, w)
      BY <3>2 DEF NeighborsOf, HasEdge
    <3>5. d \in V(g) \ X /\ D = FindComponent(g, X, d)
      BY ComponentsMember
    <3>6. d \in A
      BY <3>3, <3>5, <1>1, <1>2 DEF IsClosed
    <3>7. A = FindComponent(g, S, d)
      BY <3>6, ComponentOfMember
    <3>8. D \subseteq A
      BY <3>5, <3>7, <1>1, ComponentGrows
    <3> QED
      BY <3>4, <3>8, <1>2 DEF IsClosed
  <2> QED
    BY <2>2, <2>3
<1> QED
  BY <1>2, <1>3

\* A neighbour of a component outside a potential maximal clique sees what the
\* component's neighbourhood leaves of the clique.
LEMMA RestSeesAll ==
  ASSUME NEW g, NEW X, X \subseteq V(g), IsPmc(g, X), NEW C \in Components(g, X),
         NEW a \in X \ NeighborsOf(g, C), NEW u \in NeighborsOf(g, C)
  PROVE  Sees(g, u, FindComponent(g, NeighborsOf(g, C), a))
<1> DEFINE S == NeighborsOf(g, C)
           A == FindComponent(g, S, a)
<1>1. S \subseteq X /\ u \in X /\ u # a
  BY NeighborsBlocked
<1>2. a \in V(g) \ S
  OBVIOUS
<1>3. a \in A /\ A \subseteq V(g) \ S /\ IsClosed(g, S, A)
  BY <1>2, ComponentClosed
<1>4. {u, a} \in ConnectedMatrix(g, X)
  BY <1>1, PairsOf DEF IsPmc, IsPmcIn
<1>5. CASE {u, a} \in g.adj
  BY <1>3, <1>5 DEF Sees, HasEdge
<1>6. CASE {u, a} \notin g.adj
  <2>1. PICK D \in Components(g, X) : {u, a} \in Pairs(D \cup NeighborsOf(g, D))
    BY <1>4, <1>6, ConnectedMember
  <2>2. u \in NeighborsOf(g, D) /\ a \in NeighborsOf(g, D)
    <3>1. u \in D \cup NeighborsOf(g, D) /\ a \in D \cup NeighborsOf(g, D)
      BY <1>1, <2>1, PairsOf
    <3>2. u \notin D /\ a \notin D
      BY <1>1, ComponentsMember
    <3> QED
      BY <3>1, <3>2
  <2>3. PICK d \in D : HasEdge(g, u, d)
    BY <2>2 DEF NeighborsOf, HasEdge
  <2>4. PICK e \in D : HasEdge(g, a, e)
    BY <2>2 DEF NeighborsOf, HasEdge
  <2>5. e \in V(g) \ X /\ D = FindComponent(g, X, e)
    BY ComponentsMember
  <2>6. e \in A
    BY <1>1, <1>3, <2>4, <2>5 DEF IsClosed
  <2>7. A = FindComponent(g, S, e)
    BY <1>2, <2>6, ComponentOfMember
  <2>8. D \subseteq A
    BY <1>1, <2>5, <2>7, ComponentGrows
  <2> QED
    BY <2>3, <2>8 DEF Sees
<1> QED
  BY <1>5, <1>6

\* A component outside a clique is one outside its own neighbourhood, too, and
\* what that leaves of the clique is in another one with the same neighbourhood.
LEMMA OtherSide ==
  ASSUME NEW g, NEW X, X \subseteq V(g), IsPmc(g, X), NEW C \in Components(g, X)
  PROVE  LET S == NeighborsOf(g, C)
         IN  /\ C \in Components(g, S)
             /\ \E a \in X \ S :
                  LET A == FindComponent(g, S, a)
                  IN  /\ A \in Components(g, S) /\ A \cap C = {}
                      /\ NeighborsOf(g, A) = S
                      /\ \A u \in S : Sees(g, u, A) /\ Sees(g, u, C)
<1> DEFINE S == NeighborsOf(g, C)
<1>1. S \subseteq X /\ S \subseteq V(g) /\ S # X
  BY NeighborsBlocked, NoFullComponent
<1>2. C \subseteq V(g) \ X /\ C # {}
  BY ComponentsMember
<1>3. C \in SUBSET (V(g) \ S) /\ IsClosed(g, S, C)
  BY <1>1, <1>2 DEF IsClosed, NeighborsOf, HasEdge
<1>4. ASSUME NEW v \in C PROVE FindComponent(g, S, v) = C
  <2>1. C = FindComponent(g, X, v) /\ v \in V(g) \ X /\ v \in V(g) \ S
    BY <1>1, <1>2, ComponentsMember
  <2>2. FindComponent(g, X, v) \subseteq FindComponent(g, S, v)
    BY <1>1, <2>1, ComponentGrows
  <2>3. FindComponent(g, S, v) \subseteq C
    BY <1>3, <2>1, ComponentClosed
  <2> QED
    BY <2>1, <2>2, <2>3
<1>5. C \in Components(g, S)
  BY <1>2, <1>3, <1>4 DEF Components
<1>6. PICK a \in X : a \notin S
  BY <1>1
<1> DEFINE A == FindComponent(g, S, a)
<1>7. a \in V(g) \ S /\ A \in Components(g, S) /\ a \in A /\ A \subseteq V(g) \ S
  BY <1>6, ComponentClosed DEF Components
<1>8. A \cap C = {}
  <2> SUFFICES ASSUME NEW c \in A \cap C PROVE FALSE
    OBVIOUS
  <2>1. FindComponent(g, S, c) = A
    BY <1>7, ComponentOfMember
  <2> QED
    BY <1>2, <1>4, <1>6, <1>7, <2>1
<1>9. ASSUME NEW u \in S PROVE Sees(g, u, A) /\ Sees(g, u, C)
  <2>1. Sees(g, u, C)
    BY DEF Sees, NeighborsOf
  <2>2. Sees(g, u, A)
    BY <1>6, RestSeesAll
  <2> QED
    BY <2>1, <2>2
<1>10. NeighborsOf(g, A) = S
  <2>1. NeighborsOf(g, A) \subseteq S
    BY <1>7, NeighborsBlocked
  <2>2. ASSUME NEW u \in S PROVE u \in NeighborsOf(g, A)
    BY <1>1, <1>7, <1>9 DEF Sees, NeighborsOf, HasEdge
  <2> QED
    BY <2>1, <2>2
<1> QED
  BY <1>5, <1>6, <1>7, <1>8, <1>9, <1>10

\* A minimal triangulation has no edge between the two sides of a separator that
\* it makes a clique: those that it had could be left out.
LEMMA NoEdgeAcross ==
  ASSUME NEW g, IsGraph(g), NEW F \in MinimalTriangulations(g),
         NEW S \in SUBSET V(g), IsClique(Filled(g, F), S),
         NEW D \in SUBSET V(g), D \cap S = {}, IsClosed(g, S, D),
         NEW u \in D, NEW w, HasEdge(Filled(g, F), u, w)
  PROVE  w \in S \cup D
<1> DEFINE H == Filled(g, F)
           G == {e \in F : e \cap D # {} => e \subseteq S \cup D}
           h == Filled(g, G)
<1>1. F \subseteq NonEdges(g) /\ IsChordal(H)
  BY DEF MinimalTriangulations, Triangulations
<1>2. NonEdges(g) \subseteq Pairs(V(g)) /\ g.adj \subseteq Pairs(V(g))
  BY DEF NonEdges, IsGraph
<1>3. /\ V(H) = V(g) /\ IsGraph(H)
      /\ \A x, y : HasEdge(H, x, y) <=> {x, y} \in g.adj \/ {x, y} \in F
  <2>1. V(H) = V(g) /\ H.adj = g.adj \cup F
    BY FilledGraph
  <2>2. H.n = g.n /\ {"n", "adj"} \subseteq DOMAIN H
    BY DEF Filled, IsGraph
  <2> HIDE DEF H
  <2> QED
    BY <1>1, <1>2, <2>1, <2>2 DEF HasEdge, IsGraph
<1>4. /\ V(h) = V(g) /\ IsGraph(h)
      /\ \A x, y : HasEdge(h, x, y) <=> {x, y} \in g.adj \/ {x, y} \in G
  <2>1. V(h) = V(g) /\ h.adj = g.adj \cup G
    BY FilledGraph
  <2>2. h.n = g.n /\ {"n", "adj"} \subseteq DOMAIN h
    BY DEF Filled, IsGraph
  <2>3. G \subseteq Pairs(V(g))
    BY <1>1, <1>2
  <2> HIDE DEF h, G
  <2> QED
    BY <1>2, <2>1, <2>2, <2>3 DEF HasEdge, IsGraph
<1>5. ASSUME NEW x \in D, NEW y, {x, y} \in g.adj
      PROVE  y \in S \cup D
  <2>1. y \in V(g)
    <3>1. {x, y} \in Pairs(V(g))
      BY <1>2, <1>5
    <3>2. PICK a \in V(g), b \in V(g) : a # b /\ {x, y} = {a, b}
      BY <3>1, PairsMember
    <3> QED
      BY <3>2
  <2> QED
    BY <1>5, <2>1 DEF IsClosed, HasEdge
<1>6. ASSUME NEW x, NEW y
      PROVE  HasEdge(h, x, y) <=>
               HasEdge(H, x, y) /\ (x \in D => y \in S \cup D) /\ (y \in D => x \in S \cup D)
  <2>1. {x, y} \in G <=>
          {x, y} \in F /\ (x \in D => y \in S \cup D) /\ (y \in D => x \in S \cup D)
    OBVIOUS
  <2>2. {x, y} \in g.adj => (x \in D => y \in S \cup D) /\ (y \in D => x \in S \cup D)
    <3>1. {y, x} = {x, y}
      OBVIOUS
    <3> QED
      BY <1>5, <3>1
  <2> QED
    BY <1>3, <1>4, <2>1, <2>2
<1>7. IsChordal(h)
  <2>1. S \in SUBSET V(H) /\ D \in SUBSET V(H) /\ V(h) = V(H) /\ IsClique(H, S)
    BY <1>3, <1>4
  <2> HIDE DEF H, h
  <2> QED
    BY <1>1, <1>3, <1>4, <1>6, <2>1, CutAtClique
<1>8. G = F
  <2>1. G \in Triangulations(g) /\ G \subseteq F
    BY <1>1, <1>7 DEF Triangulations
  <2> HIDE DEF G
  <2> QED
    BY <2>1 DEF MinimalTriangulations
<1> QED
  BY <1>3, <1>5, <1>8

\* Two vertices of K are joined, or a component outside of K sees both.
IsCovered(g, K, u, w) ==
  \/ HasEdge(g, u, w)
  \/ \E C \in Components(g, K) : u \in NeighborsOf(g, C) /\ w \in NeighborsOf(g, C)

\* Graph::IsPmc accepts the sets whose pairs are all covered and that no
\* component sees all of.
LEMMA PmcTest ==
  ASSUME NEW g, IsGraph(g), NEW K \in SUBSET V(g)
  PROVE  IsPmc(g, K) <=> /\ \A u, w \in K : u # w => IsCovered(g, K, u, w)
                         /\ \A C \in Components(g, K) : NeighborsOf(g, C) # K
<1>1. ASSUME IsPmc(g, K), NEW u \in K, NEW w \in K, u # w
      PROVE  IsCovered(g, K, u, w)
  <2>1. {u, w} \in ConnectedMatrix(g, K)
    BY <1>1, PairsOf DEF IsPmc, IsPmcIn
  <2>2. ASSUME NEW C \in Components(g, K), {u, w} \in Pairs(C \cup NeighborsOf(g, C))
        PROVE  u \in NeighborsOf(g, C) /\ w \in NeighborsOf(g, C)
    <3>1. u \in C \cup NeighborsOf(g, C) /\ w \in C \cup NeighborsOf(g, C)
      BY <1>1, <2>2, PairsOf
    <3> QED
      BY <3>1, ComponentsMember
  <2> QED
    BY <2>1, <2>2, ConnectedMember DEF IsCovered, HasEdge
<1>2. ASSUME \A u, w \in K : u # w => IsCovered(g, K, u, w)
      PROVE  Pairs(K) \subseteq ConnectedMatrix(g, K)
  <2> SUFFICES ASSUME NEW e \in Pairs(K) PROVE e \in ConnectedMatrix(g, K)
    OBVIOUS
  <2>1. PICK u \in K, w \in K : u # w /\ e = {u, w}
    BY PairsMember
  <2>2. IsCovered(g, K, u, w)
    BY <1>2, <2>1
  <2>3. CASE HasEdge(g, u, w)
    BY <2>1, <2>3, ConnectedMember DEF HasEdge
  <2>4. CASE \E C \in Components(g, K) : u \in NeighborsOf(g, C) /\ w \in NeighborsOf(g, C)
    BY <2>1, <2>4, ConnectedIntro
  <2> QED
    BY <2>2, <2>3, <2>4 DEF IsCovered
<1>3. ASSUME \A C \in Components(g, K) : NeighborsOf(g, C) # K, NEW i \in V(g) \ K
      PROVE  \E j \in K : {i, j} \notin ConnectedMatrix(g, K)
  <2> DEFINE C == FindComponent(g, K, i)
  <2>1. C \in Components(g, K) /\ i \in C /\ NeighborsOf(g, C) \subseteq K
    BY ComponentClosed, NeighborsBlocked DEF Components
  <2> HIDE DEF C
  <2>2. PICK j \in K : j \notin NeighborsOf(g, C)
    BY <1>3, <2>1
  <2>3. j \in V(g) /\ i # j
    OBVIOUS
  <2>4. {i, j} \notin g.adj
    <3>1. j \in V(g) \ C
      BY <2>1, <2>3, ComponentsMember
    <3>2. ~HasEdge(g, j, i)
      BY <2>1, <2>2, <3>1 DEF NeighborsOf
    <3> QED
      BY <3>2, EdgeSymmetric DEF HasEdge
  <2>5. ASSUME NEW D \in Components(g, K), {i, j} \in Pairs(D \cup NeighborsOf(g, D))
        PROVE  FALSE
    <3>1. i \in D \cup NeighborsOf(g, D) /\ j \in D \cup NeighborsOf(g, D)
      BY <2>3, <2>5, PairsOf
    <3>2. i \in D /\ j \in NeighborsOf(g, D)
      BY <3>1, NeighborsBlocked, ComponentsMember
    <3>3. D = C
      BY <2>1, <3>2, ComponentsMember
    <3> QED
      BY <2>2, <3>2, <3>3
  <2> QED
    BY <2>4, <2>5, ConnectedMember
<1>4. IsPmc(g, K) => \A C \in Components(g, K) : NeighborsOf(g, C) # K
  BY NoFullComponent
<1> QED
  BY <1>1, <1>2, <1>3, <1>4 DEF IsPmc, IsPmcIn

\* A graph that is filled with pairs of its vertices is a graph.
LEMMA FilledIsGraph ==
  ASSUME NEW g, IsGraph(g), NEW F \in SUBSET NonEdges(g)
  PROVE  IsGraph(Filled(g, F)) /\ V(Filled(g, F)) = V(g)
<1> DEFINE H == Filled(g, F)
<1>1. V(H) = V(g) /\ H.adj = g.adj \cup F
  BY FilledGraph
<1>2. H.n = g.n /\ {"n", "adj"} \subseteq DOMAIN H
  BY DEF Filled, IsGraph
<1>3. IsGraph(H) /\ V(H) = V(g)
  <2> HIDE DEF H
  <2> QED
    BY <1>1, <1>2 DEF IsGraph, NonEdges
<1> QED
  BY <1>3

\* A triangulation has a part that is a minimal triangulation.
LEMMA MinimalPart ==
  ASSUME NEW g, IsGraph(g), NEW F0 \in Triangulations(g)
  PROVE  \E F \in MinimalTriangulations(g) : F \subseteq F0
<1> DEFINE Parts == {F \in Triangulations(g) : F \subseteq F0}
<1>1. IsFiniteSet(F0)
  <2>1. IsFiniteSet(SUBSET V(g))
    BY VerticesFinite, FS_SUBSET DEF IsGraph
  <2>2. F0 \subseteq SUBSET V(g)
    <3> SUFFICES ASSUME NEW e \in F0 PROVE e \subseteq V(g)
      OBVIOUS
    <3>1. e \in Pairs(V(g))
      BY DEF Triangulations, NonEdges
    <3> QED
      BY <3>1, PairsMember
  <2> QED
    BY <2>1, <2>2, FS_Subset
<1>2. F0 \in Parts /\ Parts \in SUBSET (SUBSET F0)
  OBVIOUS
<1>3. PICK F \in Parts : \A G \in Parts : Cardinality(F) <= Cardinality(G)
  <2> HIDE DEF Parts
  <2> QED
    BY <1>1, <1>2, SmallestSubset
<1>4. ASSUME NEW G \in Triangulations(g), G \subseteq F PROVE G = F
  <2>1. G \in Parts /\ IsFiniteSet(F)
    BY <1>1, <1>4, FS_Subset
  <2>2. Cardinality(F) <= Cardinality(G)
    BY <1>3, <2>1
  <2>3. Cardinality(G) <= Cardinality(F) /\ (Cardinality(G) = Cardinality(F) => G = F)
    BY <1>4, <2>1, FS_Subset
  <2>4. Cardinality(F) \in Nat /\ Cardinality(G) \in Nat
    BY <1>4, <2>1, FS_Subset, FS_CardinalityType
  <2> QED
    BY <2>2, <2>3, <2>4
<1> QED
  BY <1>3, <1>4 DEF MinimalTriangulations

\* What the test accepts is a maximal clique of some minimal triangulation: of
\* any part of the one in which the set and each component outside of it with
\* its neighbourhood are cliques.
LEMMA TestIsSound ==
  ASSUME NEW g, IsGraph(g), NEW K \in SUBSET V(g), IsPmc(g, K)
  PROVE  K \in PotentialMaximalCliques(g)
<1> DEFINE N(C) == NeighborsOf(g, C)
           Near(e) == e \subseteq K \/ \E C \in Components(g, K) : e \subseteq C \cup N(C)
           F0 == {e \in NonEdges(g) : Near(e)}
           H0 == Filled(g, F0)
<1>1. \A e \in g.adj : Near(e)
  <2> SUFFICES ASSUME NEW e \in g.adj PROVE Near(e)
    OBVIOUS
  <2>1. PICK u \in V(g), w \in V(g) : u # w /\ e = {u, w}
    BY PairsMember DEF IsGraph
  <2>2. CASE u \in K /\ w \in K
    BY <2>1, <2>2
  <2>3. ASSUME NEW a \in V(g) \ K, NEW b \in V(g), HasEdge(g, a, b), e = {a, b}
        PROVE  Near(e)
    <3> DEFINE C == FindComponent(g, K, a)
    <3>1. C \in Components(g, K) /\ a \in C
      BY ComponentClosed DEF Components
    <3> HIDE DEF C
    <3>2. b \in C \cup N(C)
      BY <2>3, <3>1, EdgeSymmetric DEF NeighborsOf
    <3> QED
      BY <2>3, <3>1, <3>2
  <2>4. HasEdge(g, u, w) /\ HasEdge(g, w, u) /\ e = {w, u}
    BY <2>1, EdgeSymmetric DEF HasEdge
  <2> HIDE DEF Near
  <2> QED
    BY <2>1, <2>2, <2>3, <2>4
<1>2. F0 \in SUBSET NonEdges(g)
  OBVIOUS
<1>3. /\ IsGraph(H0) /\ V(H0) = V(g)
      /\ \A u, w \in V(g) : u # w => (HasEdge(H0, u, w) <=> Near({u, w}))
  <2>1. IsGraph(H0) /\ V(H0) = V(g)
    BY <1>2, FilledIsGraph
  <2>2. ASSUME NEW u \in V(g), NEW w \in V(g), u # w
        PROVE  HasEdge(H0, u, w) <=> Near({u, w})
    <3>1. HasEdge(H0, u, w) <=> {u, w} \in g.adj \/ {u, w} \in F0
      BY FilledGraph
    <3>2. {u, w} \in Pairs(V(g))
      BY <2>2, PairsOf
    <3> HIDE DEF Near, H0
    <3> QED
      BY <1>1, <3>1, <3>2 DEF NonEdges
  <2> QED
    BY <2>1, <2>2
<1>4. IsChordal(H0)
  <2> SUFFICES ASSUME NEW S \in SUBSET V(g), S # {}
               PROVE  \E v \in S : IsClique(H0, Neighbors(H0, v) \cap S)
    BY <1>3 DEF IsChordal
  <2> HIDE DEF H0
  <2>1. CASE S \subseteq K
    <3>1. PICK v \in S : TRUE
      OBVIOUS
    <3>2. \A a, b \in Neighbors(H0, v) \cap S : a # b => HasEdge(H0, a, b)
      BY <1>3, <2>1
    <3> QED
      BY <3>2, CliquePairs
  <2>2. CASE ~(S \subseteq K)
    <3>1. PICK v \in S : v \in V(g) \ K
      BY <2>2
    <3> DEFINE C == FindComponent(g, K, v)
    <3>2. C \in Components(g, K) /\ v \in C
      BY <3>1, ComponentClosed DEF Components
    <3> HIDE DEF C
    <3>3. ASSUME NEW a \in Neighbors(H0, v)
          PROVE  a \in C \cup N(C)
      <4>1. a \in V(g) /\ HasEdge(H0, a, v)
        BY <1>3 DEF Neighbors
      <4>2. CASE a = v
        BY <3>2, <4>2
      <4>3. CASE a # v
        <5>1. PICK D \in Components(g, K) : {a, v} \subseteq D \cup N(D)
          BY <1>3, <3>1, <4>1, <4>3
        <5>2. v \in D
          BY <3>1, <5>1, NeighborsBlocked
        <5>3. D = C
          BY <3>2, <5>2, ComponentsMember
        <5> QED
          BY <5>1, <5>3
      <4> QED
        BY <4>2, <4>3
    <3>4. \A a, b \in Neighbors(H0, v) \cap S : a # b => HasEdge(H0, a, b)
      BY <1>3, <3>2, <3>3
    <3> QED
      BY <3>4, CliquePairs
  <2> QED
    BY <2>1, <2>2
<1>5. PICK F \in MinimalTriangulations(g) : F \subseteq F0
  BY <1>2, <1>4, MinimalPart DEF Triangulations
<1> DEFINE H == Filled(g, F)
<1>6. /\ IsGraph(H) /\ V(H) = V(g) /\ IsChordal(H)
      /\ \A u, w : HasEdge(g, u, w) => HasEdge(H, u, w)
      /\ \A u, w : HasEdge(H, u, w) => Near({u, w})
  <2>1. F \in SUBSET NonEdges(g) /\ IsChordal(H)
    BY DEF MinimalTriangulations, Triangulations
  <2>2. IsGraph(H) /\ V(H) = V(g)
    BY <2>1, FilledIsGraph
  <2>3. \A u, w : HasEdge(H, u, w) <=> {u, w} \in g.adj \/ {u, w} \in F
    BY FilledGraph
  <2>4. \A e \in F : Near(e)
    BY <1>5
  <2> HIDE DEF Near, H, F0
  <2> QED
    BY <1>1, <2>1, <2>2, <2>3, <2>4 DEF HasEdge
<1> HIDE DEF H0, F0, H
<1>7. ASSUME NEW u \in K, NEW w \in K, u # w
      PROVE  HasEdge(H, u, w)
  <2>1. CASE HasEdge(g, u, w)
    BY <1>6, <2>1
  <2>2. CASE ~HasEdge(g, u, w)
    <3>1. PICK C \in Components(g, K) : u \in N(C) /\ w \in N(C)
      BY <1>7, <2>2, PmcTest DEF IsCovered
    <3>2. PICK a \in K \ N(C) :
            LET A == FindComponent(g, N(C), a)
            IN  /\ A \in Components(g, N(C)) /\ A \cap C = {}
                /\ \A t \in N(C) : Sees(g, t, A) /\ Sees(g, t, C)
      BY OtherSide
    <3> DEFINE A == FindComponent(g, N(C), a)
    <3>3. /\ A \in Components(g, N(C)) /\ A \cap C = {}
          /\ \A t \in N(C) : Sees(g, t, A) /\ Sees(g, t, C)
      BY <3>2
    <3> HIDE DEF A
    <3>4. A \in SUBSET V(g) /\ C \in SUBSET V(g) /\ A \cap N(C) = {} /\ C \cap N(C) = {} /\ C \cap K = {}
      BY <3>3, ComponentsMember DEF NeighborsOf
    <3>5. Linked(H, A) /\ Linked(H, C)
      BY <1>6, <3>3, ComponentLinked, LinkedInMore
    <3>6. \A t \in N(C) : Sees(H, t, A) /\ Sees(H, t, C)
      BY <1>6, <3>3 DEF Sees
    <3>7. ASSUME NEW c \in C PROVE ~Sees(H, c, A)
      <4> SUFFICES ASSUME NEW b \in A, HasEdge(H, c, b) PROVE FALSE
        BY DEF Sees
      <4>1. PICK D \in Components(g, K) : {c, b} \subseteq D \cup N(D)
        BY <1>6, <3>4
      <4>2. c \in D
        BY <3>4, <4>1, NeighborsBlocked
      <4>3. D = C
        BY <4>2, ComponentsMember
      <4> QED
        BY <3>3, <3>4, <4>1, <4>3
    <3> HIDE DEF N
    <3>8. u \in V(H) /\ w \in V(H) /\ C \in SUBSET V(H) /\ A \in SUBSET V(H)
      BY <1>6, <3>4
    <3>9. {u, w} \cap A = {} /\ {u, w} \cap C = {} /\ C \cap A = {}
      BY <3>1, <3>3, <3>4
    <3>10. Sees(H, u, A) /\ Sees(H, w, A) /\ Sees(H, u, C) /\ Sees(H, w, C)
      BY <3>1, <3>6
    <3> QED
      BY <1>6, <1>7, <3>5, <3>7, <3>8, <3>9, <3>10, BetweenTwoSides
  <2> QED
    BY <2>1, <2>2
<1>8. ASSUME NEW T \in SUBSET V(g), IsClique(H, T), K \subseteq T
      PROVE  T = K
  <2> SUFFICES ASSUME NEW i \in T \ K PROVE FALSE
    BY <1>8
  <2> DEFINE C == FindComponent(g, K, i)
  <2>1. C \in Components(g, K) /\ i \in C /\ N(C) \subseteq K
    BY ComponentClosed, NeighborsBlocked DEF Components
  <2> HIDE DEF C
  <2>2. PICK j \in K : j \notin N(C)
    BY <2>1, PmcTest
  <2>3. HasEdge(H, i, j)
    BY <1>8, <2>2, CliquePairs
  <2>4. PICK D \in Components(g, K) : {i, j} \subseteq D \cup N(D)
    BY <1>6, <2>3
  <2>5. i \in D /\ j \in N(D)
    BY <2>4, NeighborsBlocked, ComponentsMember
  <2>6. D = C
    BY <2>1, <2>5, ComponentsMember
  <2> QED
    BY <2>2, <2>5, <2>6
<1>9. K \in MaximalCliques(H)
  <2>1. IsClique(H, K)
    BY <1>7, CliquePairs
  <2> QED
    BY <1>6, <1>8, <2>1 DEF MaximalCliques
<1> QED
  BY <1>9 DEF H, PotentialMaximalCliques

\* And the test accepts every maximal clique of a minimal triangulation: a pair
\* that it missed could be left out of the fill.
LEMMA TestIsComplete ==
  ASSUME NEW g, IsGraph(g), g.n >= 1, NEW K \in PotentialMaximalCliques(g)
  PROVE  K \in (SUBSET V(g)) \ {{}} /\ IsPmc(g, K)
<1> DEFINE N(C) == NeighborsOf(g, C)
<1>1. PICK F \in MinimalTriangulations(g) : K \in MaximalCliques(Filled(g, F))
  BY DEF PotentialMaximalCliques
<1> DEFINE H == Filled(g, F)
<1>2. F \in SUBSET NonEdges(g) /\ IsChordal(H)
  BY DEF MinimalTriangulations, Triangulations
<1>3. /\ IsGraph(H) /\ V(H) = V(g)
      /\ \A u, w : HasEdge(H, u, w) <=> HasEdge(g, u, w) \/ {u, w} \in F
  BY <1>2, FilledIsGraph, FilledGraph DEF HasEdge
<1>4. /\ K \in SUBSET V(g) /\ IsClique(H, K)
      /\ \A T \in SUBSET V(g) : IsClique(H, T) /\ K \subseteq T => T = K
  BY <1>1, <1>3 DEF MaximalCliques
<1>5. \A u, w \in K : u # w => HasEdge(H, u, w)
  BY <1>4, CliquePairs
<1>6. K # {}
  <2> SUFFICES ASSUME K = {} PROVE FALSE
    OBVIOUS
  <2>1. 0 \in V(g)
    BY DEF IsGraph, V
  <2>2. IsClique(H, {0})
    BY CliquePairs
  <2> HIDE DEF H
  <2> QED
    BY <1>4, <2>1, <2>2
<1>7. ASSUME NEW C \in Components(g, K), N(C) = K
      PROVE  FALSE
  <2>1. C \in SUBSET V(g) /\ C \cap K = {}
    BY ComponentsMember
  <2>2. Linked(H, C)
    BY <1>3, ComponentLinked, LinkedInMore
  <2>3. \A s \in K : Sees(H, s, C)
    BY <1>3, <1>7 DEF Sees, NeighborsOf
  <2> HIDE DEF H, N
  <2>4. PICK d \in C : \A s \in K : HasEdge(H, s, d)
    BY <1>2, <1>3, <1>4, <2>1, <2>2, <2>3, CommonNeighbor
  <2>5. \A u, w \in K \cup {d} : u # w => HasEdge(H, u, w)
    BY <1>5, <2>4, EdgeSymmetric
  <2>6. IsClique(H, K \cup {d})
    BY <2>5, CliquePairs
  <2> QED
    BY <1>4, <2>1, <2>6
<1>8. ASSUME NEW C \in Components(g, K), NEW a \in C, NEW b, HasEdge(H, a, b)
      PROVE  b \in N(C) \cup C
  <2>1. N(C) \subseteq K /\ C \in SUBSET V(g) /\ C \cap K = {}
    BY NeighborsBlocked, ComponentsMember
  <2>2. IsClosed(g, N(C), C)
    BY EdgeSymmetric DEF IsClosed, NeighborsOf
  <2>3. IsClique(H, N(C))
    BY <1>5, <2>1, CliquePairs
  <2> HIDE DEF N
  <2>4. N(C) \in SUBSET V(g) /\ C \cap N(C) = {}
    BY <1>4, <2>1
  <2> QED
    BY <1>8, <2>1, <2>2, <2>3, <2>4, NoEdgeAcross
<1>9. ASSUME NEW u \in K, NEW w \in K, u # w, ~IsCovered(g, K, u, w)
      PROVE  FALSE
  <2> DEFINE e == {u, w}
             G == F \ {e}
             h == Filled(g, G)
  <2>1. HasEdge(H, u, w) /\ ~HasEdge(g, u, w) /\ e \in F
    BY <1>3, <1>5, <1>9 DEF IsCovered
  <2>2. \A C \in Components(g, K) : ~(u \in N(C) /\ w \in N(C))
    BY <1>9 DEF IsCovered
  <2>3. /\ IsGraph(h) /\ V(h) = V(g)
        /\ \A a, b : HasEdge(h, a, b) <=> HasEdge(g, a, b) \/ {a, b} \in G
    BY <1>2, FilledIsGraph, FilledGraph DEF HasEdge
  <2>4. \A a, b : HasEdge(h, a, b) <=> HasEdge(H, a, b) /\ {a, b} # e
    BY <1>3, <2>1, <2>3 DEF HasEdge
  <2> HIDE DEF h, H, G
  <2>5. \A a, b : {a, b} = e <=> (a = u /\ b = w) \/ (a = w /\ b = u)
    BY <1>9
  <2> HIDE DEF e
  <2>6. IsChordal(h)
    <3> SUFFICES ASSUME NEW T \in SUBSET V(g), T # {}
                 PROVE  \E v \in T : IsClique(h, Neighbors(h, v) \cap T)
      BY <2>3 DEF IsChordal
    <3>1. ASSUME NEW v \in T,
                 \A a, b \in T : a # b /\ HasEdge(H, v, a) /\ HasEdge(H, v, b) => HasEdge(H, a, b),
                 ~(u \in T /\ w \in T /\ HasEdge(H, v, u) /\ HasEdge(H, v, w))
          PROVE  \E z \in T : IsClique(h, Neighbors(h, z) \cap T)
      <4>1. \A a, b \in Neighbors(h, v) \cap T : a # b => HasEdge(h, a, b)
        <5> SUFFICES ASSUME NEW a \in Neighbors(h, v) \cap T, NEW b \in Neighbors(h, v) \cap T, a # b
                     PROVE  HasEdge(h, a, b)
          OBVIOUS
        <5>1. HasEdge(H, v, a) /\ HasEdge(H, v, b)
          BY <2>4, EdgeSymmetric DEF Neighbors
        <5>2. HasEdge(H, a, b)
          BY <3>1, <5>1
        <5>3. {a, b} # e
          BY <2>5, <3>1, <5>1
        <5> QED
          BY <2>4, <5>2, <5>3
      <4> QED
        BY <4>1, CliquePairs
    <3>2. CASE ~(u \in T /\ w \in T)
      <4>1. PICK v \in T : IsClique(H, Neighbors(H, v) \cap T)
        BY <1>2, <1>3 DEF IsChordal
      <4>2. \A a, b \in T : a # b /\ HasEdge(H, v, a) /\ HasEdge(H, v, b) => HasEdge(H, a, b)
        BY <1>3, <4>1, SimplicialPairs DEF Simplicial
      <4> QED
        BY <3>1, <3>2, <4>2
    <3>3. CASE u \in T /\ w \in T /\ T \subseteq K
      <4>1. \A a, b \in Neighbors(h, u) \cap T : a # b => HasEdge(h, a, b)
        <5> SUFFICES ASSUME NEW a \in Neighbors(h, u) \cap T, NEW b \in Neighbors(h, u) \cap T, a # b
                     PROVE  HasEdge(h, a, b)
          OBVIOUS
        <5>1. HasEdge(h, a, u) /\ HasEdge(h, b, u)
          BY DEF Neighbors
        <5>2. a # w /\ b # w
          BY <2>4, <2>5, <5>1
        <5>3. HasEdge(H, a, b)
          BY <1>5, <3>3
        <5> QED
          BY <2>4, <2>5, <5>2, <5>3
      <4> QED
        BY <3>3, <4>1, CliquePairs
    <3>4. CASE ~(T \subseteq K)
      <4>1. PICK t \in T : t \in V(g) \ K
        BY <3>4
      <4> DEFINE C == FindComponent(g, K, t)
      <4>2. C \in Components(g, K) /\ t \in C /\ N(C) \subseteq K /\ C \cap K = {}
        BY <4>1, ComponentClosed, NeighborsBlocked DEF Components
      <4> HIDE DEF C
      <4> DEFINE Part == T \cap (C \cup N(C))
                 Rim == T \cap N(C)
      <4>3. IsClique(H, Rim)
        BY <1>5, <4>2, CliquePairs
      <4>4. Part \in SUBSET V(H) /\ Rim \in SUBSET Part /\ Rim # Part /\ Part \ Rim \subseteq T \cap C
        BY <1>3, <4>2
      <4> HIDE DEF N
      <4>5. PICK v \in Part \ Rim : Simplicial(H, Part, v)
        <5> HIDE DEF Part, Rim
        <5> QED
          BY <1>2, <1>3, <4>3, <4>4, SimplicialOutside
      <4>6. v \in T \cap C
        BY <4>4, <4>5
      <4>7. \A a \in T : HasEdge(H, v, a) => a \in Part
        BY <1>8, <4>2, <4>6
      <4>8. \A a, b \in Part : a # b /\ HasEdge(H, v, a) /\ HasEdge(H, v, b) => HasEdge(H, a, b)
        BY <4>4, <4>5, SimplicialPairs
      <4>9. \A a, b \in T : a # b /\ HasEdge(H, v, a) /\ HasEdge(H, v, b) => HasEdge(H, a, b)
        <5> HIDE DEF Part
        <5> QED
          BY <4>7, <4>8
      <4>10. ~(HasEdge(H, v, u) /\ HasEdge(H, v, w))
        <5> SUFFICES ASSUME HasEdge(H, v, u), HasEdge(H, v, w) PROVE FALSE
          OBVIOUS
        <5>1. u \in N(C) \cup C /\ w \in N(C) \cup C
          BY <1>8, <4>2, <4>6
        <5> QED
          BY <2>2, <4>2, <5>1
      <4> QED
        BY <3>1, <4>6, <4>9, <4>10
    <3> QED
      BY <3>2, <3>3, <3>4
  <2>7. G \in Triangulations(g) /\ G \subseteq F /\ G # F
    BY <1>2, <2>1, <2>6 DEF Triangulations, G, h
  <2> QED
    BY <2>7 DEF MinimalTriangulations
<1> QED
  BY <1>4, <1>6, <1>7, <1>9, PmcTest

\* Graph::IsPmc is right, for every graph: the nonempty sets that it accepts are
\* the maximal cliques of the minimal triangulations.
THEOREM TestIsExact ==
  ASSUME NEW g, IsGraph(g), g.n >= 1
  PROVE  PotentialMaximalCliques(g) = {K \in (SUBSET V(g)) \ {{}} : IsPmc(g, K)}
  BY TestIsSound, TestIsComplete
=============================================================================

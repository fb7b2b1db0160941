----------------------------- MODULE CombProofs -----------------------------
(***************************************************************************)
(* Proofs about CombEnum, for all graphs: FindMinSeps finds the minimal      *)
(* separators and nothing else, the bounded count is right, and for connected *)
(* graphs Pmcs finds the potential maximal cliques, and its assertions hold.  *)
(***************************************************************************)
EXTENDS CombEnum, GraphLemmas

-----------------------------------------------------------------------------
(* Minimal separators. *)

\* Two full components, each in turn, of a minimal separator.
IsFull(g, S, C) == C \in Components(g, S) /\ NeighborsOf(g, C) = S

LEMMA FullComponent ==
  ASSUME NEW g, NEW S, NEW C, IsFull(g, S, C)
  PROVE  /\ C # {} /\ C \subseteq V(g) \ S /\ S \subseteq V(g)
         /\ \A s \in S : \E u \in C : HasEdge(g, u, s)
         /\ \A u \in C : \A w \in V(g) : HasEdge(g, u, w) => w \in C \/ w \in S
<1>1. C # {} /\ C \subseteq V(g) \ S /\ IsClosed(g, S, C)
  BY ComponentsMember DEF IsFull
<1>2. \A s \in S : s \in V(g) /\ \E u \in C : HasEdge(g, s, u)
  BY DEF IsFull, NeighborsOf
<1>3. \A u, w : HasEdge(g, u, w) <=> HasEdge(g, w, u)
  BY DEF HasEdge
<1> QED
  BY <1>1, <1>2, <1>3 DEF IsClosed

\* Different components of one search share no vertex.
LEMMA ComponentsApart ==
  ASSUME NEW g, NEW S, NEW A \in Components(g, S), NEW B \in Components(g, S), A # B
  PROVE  A \cap B = {}
  BY ComponentsMember

\* The neighbourhood T of a component C is a minimal separator, if a vertex
\* outside sees all of T together with a set that it is connected to.
LEMMA OtherSideSees ==
  ASSUME NEW g, NEW X, NEW C \in Components(g, X),
         NEW v \in V(g) \ C, v \notin NeighborsOf(g, C),
         \A t \in NeighborsOf(g, C) :
           \E u \in FindComponent(g, NeighborsOf(g, C), v) : HasEdge(g, u, t)
  PROVE  IsMinimalSeparator(g, NeighborsOf(g, C))
<1> DEFINE T == NeighborsOf(g, C)
           D == FindComponent(g, T, v)
<1>1. C \in Components(g, T)
  BY ComponentOfNeighborhood
<1>2. v \in V(g) \ T
  OBVIOUS
<1>3. v \in D /\ D \subseteq V(g) \ T /\ D \in Components(g, T)
  BY <1>2, ComponentClosed DEF Components
<1>4. NeighborsOf(g, D) \subseteq T
  BY <1>3, NeighborsBlocked
<1>5. ASSUME NEW t \in T PROVE t \in NeighborsOf(g, D)
  <2>1. PICK u \in D : HasEdge(g, u, t)
    OBVIOUS
  <2>2. t \in V(g) \ D /\ HasEdge(g, t, u)
    BY <1>3, <2>1 DEF NeighborsOf, HasEdge
  <2> QED
    BY <2>1, <2>2 DEF NeighborsOf
<1>6. C # D
  BY <1>3
<1>7. NeighborsOf(g, D) = T
  BY <1>4, <1>5
<1> HIDE DEF D
<1> QED
  BY <1>1, <1>3, <1>6, <1>7 DEF IsMinimalSeparator

\* What surrounds a component off a vertex and its neighbours is a minimal
\* separator.
LEMMA SeedIsSeparator ==
  ASSUME NEW g, NEW v \in V(g), NEW T \in SeparatorsAround(g, Neighbors(g, v) \cup {v})
  PROVE  IsMinimalSeparator(g, T)
<1> DEFINE X == Neighbors(g, v) \cup {v}
<1>1. PICK C \in Components(g, X) : T = NeighborsOf(g, C)
  BY DEF SeparatorsAround
<1>2. C \subseteq V(g) \ X /\ T \subseteq X
  BY <1>1, ComponentsMember, NeighborsBlocked
<1>3. v \notin T
  <2> SUFFICES ASSUME v \in T PROVE FALSE
    OBVIOUS
  <2>1. PICK c \in C : HasEdge(g, v, c)
    BY <1>1 DEF NeighborsOf
  <2>2. c \in Neighbors(g, v)
    BY <1>2, <2>1 DEF Neighbors, HasEdge
  <2> QED
    BY <1>2, <2>1, <2>2
<1>4. v \in V(g) \ T /\ v \in V(g) \ C
  BY <1>2, <1>3
<1>5. v \in FindComponent(g, T, v)
  BY <1>4, ComponentClosed
<1>6. \A t \in T : HasEdge(g, v, t)
  BY <1>2, <1>3 DEF Neighbors, HasEdge
<1> HIDE DEF X
<1> QED
  BY <1>1, <1>3, <1>4, <1>5, <1>6, OtherSideSees

\* A minimal separator that is moved off one of its vertices is one again.
LEMMA MovedIsSeparator ==
  ASSUME NEW g, NEW S, IsMinimalSeparator(g, S), NEW v \in S,
         NEW T \in SeparatorsAround(g, S \cup Neighbors(g, v))
  PROVE  IsMinimalSeparator(g, T)
<1> DEFINE X == S \cup Neighbors(g, v)
<1>1. PICK C \in Components(g, X) : T = NeighborsOf(g, C)
  BY DEF SeparatorsAround
<1>2. C \subseteq V(g) \ X /\ T \subseteq X /\ C # {}
  BY <1>1, ComponentsMember, NeighborsBlocked
<1>3. PICK A1, A2 : IsFull(g, S, A1) /\ IsFull(g, S, A2) /\ A1 # A2
  BY DEF IsMinimalSeparator, IsFull
<1>4. v \in V(g)
  BY <1>3, FullComponent
<1>5. v \notin T
  <2> SUFFICES ASSUME v \in T PROVE FALSE
    OBVIOUS
  <2>1. PICK c \in C : HasEdge(g, v, c)
    BY <1>1 DEF NeighborsOf
  <2>2. c \in Neighbors(g, v)
    BY <1>2, <2>1 DEF Neighbors, HasEdge
  <2> QED
    BY <1>2, <2>1, <2>2
<1>6. PICK K \in Components(g, S) : C \subseteq K
  <2>1. PICK c \in C : TRUE
    BY <1>2
  <2>2. C = FindComponent(g, X, c) /\ c \in V(g) \ X
    BY <1>1, <1>2, <2>1, ComponentsMember
  <2>3. S \subseteq X
    OBVIOUS
  <2> HIDE DEF X
  <2>4. C \subseteq FindComponent(g, S, c)
    BY <2>2, <2>3, ComponentGrows
  <2>5. FindComponent(g, S, c) \in Components(g, S)
    BY <2>2, <2>3 DEF Components
  <2> QED
    BY <2>4, <2>5
<1>7. PICK A : IsFull(g, S, A) /\ A # K
  BY <1>3
<1>8. A \in Components(g, S) /\ A \cap K = {}
  BY <1>6, <1>7, ComponentsApart DEF IsFull
<1>9. A \cap T = {}
  <2> SUFFICES ASSUME NEW t \in A, t \in T PROVE FALSE
    OBVIOUS
  <2>1. PICK c \in C : HasEdge(g, t, c)
    BY <1>1 DEF NeighborsOf
  <2>2. t \in V(g) \ S /\ HasEdge(g, c, t) /\ c \in K
    BY <1>6, <1>8, <2>1, ComponentsMember, EdgeSymmetric
  <2>3. t \in K
    BY <1>6, <2>2, ComponentsMember DEF IsClosed
  <2> QED
    BY <1>8, <2>3
<1> DEFINE D == FindComponent(g, T, v)
<1>10. v \in V(g) \ T /\ v \in V(g) \ C
  BY <1>2, <1>4, <1>5
<1>11. v \in D /\ D \subseteq V(g) \ T /\ IsClosed(g, T, D)
  BY <1>10, ComponentClosed
<1>12. A \subseteq D
  <2>1. PICK a \in A : HasEdge(g, a, v)
    BY <1>7, FullComponent
  <2>2. a \in V(g) \ T /\ HasEdge(g, v, a)
    BY <1>8, <1>9, <2>1, ComponentsMember, EdgeSymmetric
  <2>3. a \in D
    BY <1>11, <2>2 DEF IsClosed
  <2>4. A \subseteq FindComponent(g, T, a)
    BY <1>8, <1>9, <2>1, ComponentSpared
  <2>5. FindComponent(g, T, a) = D
    BY <1>10, <2>3, ComponentOfMember
  <2> QED
    BY <2>4, <2>5
<1> HIDE DEF D
<1>13. ASSUME NEW t \in T PROVE \E u \in D : HasEdge(g, u, t)
  <2>1. CASE t \in S
    BY <1>7, <1>12, <2>1, FullComponent
  <2>2. CASE t \in Neighbors(g, v)
    BY <1>11, <2>2 DEF Neighbors, HasEdge
  <2> QED
    BY <1>2, <2>1, <2>2
<1> HIDE DEF X
<1> QED
  BY <1>1, <1>5, <1>10, <1>13, OtherSideSees DEF D

\* Nothing but the separator separates the one full component from the other,
\* whichever vertices are blocked.
LEMMA SeparatorStands ==
  ASSUME NEW g, NEW S, NEW A, NEW B, IsFull(g, S, A), IsFull(g, S, B), A # B,
         NEW a \in A, NEW C, NEW Y, C \in Components(g, Y), B \subseteq C, a \notin C,
         NeighborsOf(g, C) \subseteq S
  PROVE  NeighborsOf(g, C) = S
<1> DEFINE T == NeighborsOf(g, C)
<1> SUFFICES ASSUME NEW s \in S, s \notin T PROVE FALSE
  OBVIOUS
<1>1. /\ A \in Components(g, S) /\ A \subseteq V(g) \ S /\ A \cap T = {}
      /\ B \subseteq V(g) \ S /\ s \in V(g)
  BY FullComponent DEF IsFull
<1>2. C \in Components(g, T) /\ C \subseteq V(g) \ T /\ IsClosed(g, T, C)
      /\ \A u \in C : C = FindComponent(g, T, u)
  BY ComponentOfNeighborhood, ComponentsMember
<1>3. s \in C
  <2>1. PICK b \in B : HasEdge(g, b, s)
    BY FullComponent
  <2> QED
    BY <1>1, <1>2, <2>1 DEF IsClosed
<1>4. PICK u \in A : HasEdge(g, u, s)
  BY FullComponent
<1>5. u \in C
  <2>1. HasEdge(g, s, u) /\ u \in V(g) \ T
    BY <1>1, <1>4, EdgeSymmetric
  <2> QED
    BY <1>2, <1>3, <2>1 DEF IsClosed
<1>6. A \subseteq C
  BY <1>1, <1>2, <1>4, <1>5, ComponentSpared
<1> QED
  BY <1>6

\* A set of separators that has those that FindMinSeps starts with and is
\* closed under its step has every minimal separator whose side a has a
\* neighbour: from the separator that is close to a, those with the other side
\* around B come closer to B until there is none between.
LEMMA SeparatorReached ==
  ASSUME NEW g, g.n \in Nat, NEW F,
         NEW S, NEW A, NEW B, IsFull(g, S, A), IsFull(g, S, B), A # B, NEW a \in A,
         SeparatorsAround(g, Neighbors(g, a) \cup {a}) \subseteq F,
         \A T \in F : \A v \in T : SeparatorsAround(g, T \cup Neighbors(g, v)) \subseteq F
  PROVE  S \in F
<1>1. /\ A \subseteq V(g) \ S /\ B \subseteq V(g) \ S /\ A \cap B = {} /\ B # {}
      /\ A \in Components(g, S) /\ B \in Components(g, S)
  BY FullComponent, ComponentsApart DEF IsFull
<1>2. PICK b \in B : TRUE
  BY <1>1
<1> DEFINE Around(C) == /\ B \subseteq C /\ a \notin C /\ a \notin NeighborsOf(g, C)
                        /\ NeighborsOf(g, C) \in F
                        /\ C \in Components(g, NeighborsOf(g, C))
           Q == {C \in SUBSET V(g) : Around(C)}
<1>3. ASSUME NEW X, B \cap X = {}, SeparatorsAround(g, X) \subseteq F
      PROVE  \E C \in Components(g, X) :
               /\ C \in SUBSET V(g) /\ B \subseteq C /\ NeighborsOf(g, C) \in F
               /\ C \in Components(g, NeighborsOf(g, C))
  <2> DEFINE C == FindComponent(g, X, b)
  <2>1. b \in V(g) \ X /\ B \subseteq C
    BY <1>1, <1>2, <1>3, ComponentSpared
  <2>2. C \in Components(g, X)
    BY <2>1 DEF Components
  <2> HIDE DEF C
  <2>3. C \in SUBSET V(g) /\ NeighborsOf(g, C) \in SeparatorsAround(g, X)
    BY <2>2, ComponentsMember DEF SeparatorsAround
  <2>4. C \in Components(g, NeighborsOf(g, C))
    BY <2>2, ComponentOfNeighborhood
  <2> QED
    BY <1>3, <2>1, <2>2, <2>3, <2>4
<1>4. Q # {}
  <2> DEFINE X == Neighbors(g, a) \cup {a}
  <2>1. B \cap X = {}
    <3> SUFFICES ASSUME NEW u \in B, u \in X PROVE FALSE
      OBVIOUS
    <3>1. HasEdge(g, a, u) /\ u \in V(g)
      BY <1>1 DEF Neighbors, HasEdge
    <3>2. u \in A \/ u \in S
      BY <3>1, FullComponent
    <3> QED
      BY <1>1, <3>2
  <2>2. PICK C \in Components(g, X) :
               /\ C \in SUBSET V(g) /\ B \subseteq C /\ NeighborsOf(g, C) \in F
               /\ C \in Components(g, NeighborsOf(g, C))
    BY <1>3, <2>1
  <2>3. C \cap X = {}
    BY ComponentsMember
  <2>4. a \notin NeighborsOf(g, C)
    <3> SUFFICES ASSUME a \in NeighborsOf(g, C) PROVE FALSE
      OBVIOUS
    <3>1. PICK c \in C : HasEdge(g, a, c)
      BY DEF NeighborsOf
    <3>2. c \in Neighbors(g, a)
      BY <2>2, <3>1, EdgeSymmetric DEF Neighbors
    <3> QED
      BY <2>3, <3>2
  <2> QED
    BY <2>2, <2>3, <2>4
<1>5. PICK C \in Q : \A D \in Q : Cardinality(C) <= Cardinality(D)
  <2>1. Q \in SUBSET (SUBSET V(g))
    OBVIOUS
  <2> HIDE DEF Q
  <2> QED
    BY <1>4, <2>1, SmallestSet
<1> DEFINE T == NeighborsOf(g, C)
<1>6. C \in SUBSET V(g) /\ Around(C)
  BY <1>5
<1>7. T \subseteq S
  <2> SUFFICES ASSUME NEW v \in T, v \notin S PROVE FALSE
    OBVIOUS
  <2> DEFINE X == T \cup Neighbors(g, v)
  <2>1. v \in V(g) \ C /\ \E c \in C : HasEdge(g, v, c)
    BY DEF NeighborsOf
  <2>2. B \cap X = {}
    <3> SUFFICES ASSUME NEW u \in B, u \in X PROVE FALSE
      OBVIOUS
    <3>1. u \notin T
      BY <1>6 DEF NeighborsOf
    <3>2. HasEdge(g, u, v)
      BY <3>1 DEF Neighbors
    <3>3. v \in B \/ v \in S
      BY <2>1, <3>2, FullComponent
    <3> QED
      BY <1>6, <2>1, <3>3
  <2>3. SeparatorsAround(g, X) \subseteq F
    BY <1>6
  <2>4. PICK D \in Components(g, X) :
               /\ D \in SUBSET V(g) /\ B \subseteq D /\ NeighborsOf(g, D) \in F
               /\ D \in Components(g, NeighborsOf(g, D))
    BY <1>3, <2>2, <2>3
  <2>5. D \cap X = {} /\ D = FindComponent(g, X, b) /\ b \in D
    BY <1>2, <2>4, ComponentsMember
  <2>6. D \subseteq C
    <3>1. C = FindComponent(g, T, b) /\ b \in V(g) \ T
      BY <1>2, <1>6, ComponentsMember
    <3>2. b \in V(g) \ X /\ T \subseteq X
      BY <2>4, <2>5
    <3> HIDE DEF X
    <3> QED
      BY <2>5, <3>1, <3>2, ComponentGrows
  <2>7. PICK c \in C : c \notin D
    <3>1. PICK c \in C : HasEdge(g, v, c)
      BY <2>1
    <3>2. c \in Neighbors(g, v)
      BY <1>6, <3>1, EdgeSymmetric DEF Neighbors
    <3> QED
      BY <2>5, <3>1, <3>2
  <2>8. a \notin D /\ a \notin NeighborsOf(g, D)
    BY <1>6, <2>6 DEF NeighborsOf
  <2>9. D \in Q
    BY <2>4, <2>8
  <2>10. ~(Cardinality(C) <= Cardinality(D))
    <3>1. D \subseteq C \ {c} /\ C \ {c} \in SUBSET V(g)
      BY <1>6, <2>6, <2>7
    <3>2. ~(Cardinality(C) <= Cardinality(C \ {c}))
      BY <1>6, <2>7, WithoutVertex
    <3>3. Cardinality(D) <= Cardinality(C \ {c})
      BY <3>1, VerticesFinite, FS_Subset
    <3>4. Cardinality(C) \in Nat /\ Cardinality(D) \in Nat /\ Cardinality(C \ {c}) \in Nat
      BY <1>6, <2>4, <3>1, VerticesFinite
    <3> QED
      BY <3>2, <3>3, <3>4
  <2> QED
    BY <1>5, <2>9, <2>10
<1>8. T = S
  BY <1>6, <1>7, SeparatorStands
<1> QED
  BY <1>6, <1>8

IsSearched(g, F) ==
  /\ \A v \in V(g) :
       Neighbors(g, v) # {} => SeparatorsAround(g, Neighbors(g, v) \cup {v}) \subseteq F
  /\ \A T \in F : \A v \in T : SeparatorsAround(g, T \cup Neighbors(g, v)) \subseteq F

\* In a graph with an edge, or with one vertex only, FindMinSeps misses no
\* minimal separator.
LEMMA AllSeparatorsFound ==
  ASSUME NEW g, IsGraph(g), g.adj # {} \/ g.n = 1, NEW F, IsSearched(g, F)
  PROVE  MinimalSeparators(g) \subseteq F
<1> SUFFICES ASSUME NEW S \in MinimalSeparators(g) PROVE S \in F
  OBVIOUS
<1>1. PICK A, B : IsFull(g, S, A) /\ IsFull(g, S, B) /\ A # B
  BY DEF MinimalSeparators, IsMinimalSeparator, IsFull
<1>2. /\ A \subseteq V(g) /\ B \subseteq V(g) /\ A # {} /\ B # {} /\ A \cap B = {}
  BY <1>1, FullComponent, ComponentsApart DEF IsFull
<1>3. ASSUME NEW C, NEW D, IsFull(g, S, C), IsFull(g, S, D), C # D,
             NEW a \in C, Neighbors(g, a) # {}
      PROVE  S \in F
  <2>1. a \in V(g) /\ g.n \in Nat
    BY <1>3, FullComponent DEF IsGraph
  <2> QED
    BY <1>3, <2>1, SeparatorReached DEF IsSearched
<1>4. CASE S # {}
  <2>1. PICK s \in S : TRUE
    BY <1>4
  <2>2. PICK a \in A : HasEdge(g, a, s) /\ s \in V(g)
    BY <1>1, FullComponent
  <2>3. s \in Neighbors(g, a)
    BY <2>2, EdgeSymmetric DEF Neighbors
  <2> QED
    BY <1>1, <1>3, <2>3
<1>5. CASE S = {}
  <2>1. g.adj # {}
    <3> SUFFICES ASSUME g.n = 1 PROVE FALSE
      OBVIOUS
    <3>1. V(g) = {0}
      BY DEF V
    <3> QED
      BY <1>2, <3>1
  <2>2. PICK u \in V(g), w \in V(g) : HasEdge(g, u, w)
    <3>1. PICK e \in g.adj : e \in Pairs(V(g))
      BY <2>1 DEF IsGraph
    <3>2. PICK u \in V(g), w \in V(g) : e = {u, w}
      BY <3>1, PairsMember
    <3> QED
      BY <3>1, <3>2 DEF HasEdge
  <2> DEFINE K == FindComponent(g, {}, u)
  <2>3. u \in K /\ K \in Components(g, {})
    BY ComponentClosed DEF Components
  <2> HIDE DEF K
  <2>4. IsFull(g, S, K)
    <3>1. NeighborsOf(g, K) \subseteq {}
      BY <2>3, NeighborsBlocked
    <3> QED
      BY <1>5, <2>3, <3>1 DEF IsFull
  <2>5. w \in Neighbors(g, u)
    BY <2>2, EdgeSymmetric DEF Neighbors
  <2>6. K # A \/ K # B
    BY <1>1
  <2> QED
    BY <1>1, <1>3, <2>3, <2>4, <2>5, <2>6
<1> QED
  BY <1>4, <1>5

-----------------------------------------------------------------------------
(* The inductive invariant. *)

\* The call of Pmcs or of CountMinseps that a run is.
InputInv ==
  /\ \/ ub = NoBound /\ graphs \in {<<g>> : g \in CombGraphs}
     \/ \E input \in CountInputs : graphs = input[1] /\ ub = input[2]
  /\ pc \in {"pmcs", "add", "update"} => ub = NoBound
  /\ ub # NoBound => added = {}
  /\ pc = "count" => ub # NoBound
  /\ pc \in {"seed", "expand"} /\ ub # NoBound =>
       counted \in 1 .. Len(graphs) /\ new_graph = graphs[counted]

\* The graph that Pmcs builds, and what it has found in it.
PmcsInv ==
  ub = NoBound =>
    /\ pc = "pmcs" => added = {}
    /\ pc \in {"add", "seed", "expand", "update"} =>
         /\ x \in added /\ new_graph.n = graphs[1].n
         /\ new_graph.adj = {e \in graphs[1].adj : e \subseteq added}
    /\ pc \in {"seed", "expand", "update"} => pmcs \subseteq SUBSET (added \ {x})

\* What FindMinSeps has found are minimal separators, and where its loop has
\* passed, those that it leads to are there.
FoundInv ==
  /\ pc \in {"expand", "update"} => found \subseteq MinimalSeparators(new_graph)
  /\ pc = "expand" =>
       /\ \A v \in V(new_graph) : Neighbors(new_graph, v) # {} =>
            SeparatorsAround(new_graph, Neighbors(new_graph, v) \cup {v}) \subseteq found
       /\ \A T \in expanded : \A v \in T :
            SeparatorsAround(new_graph, T \cup Neighbors(new_graph, v)) \subseteq found
  /\ pc = "update" => IsSearched(new_graph, found)

Inv == TypeOK /\ InputInv /\ PmcsInv /\ FoundInv

\* A minimal separator is a set of vertices that have neighbours.
LEMMA SeparatorVertices ==
  ASSUME NEW g, NEW S, IsMinimalSeparator(g, S)
  PROVE  S \in MinimalSeparators(g) /\ \A s \in S : s \in V(g) /\ Neighbors(g, s) # {}
<1>1. PICK C : IsFull(g, S, C)
  BY DEF IsMinimalSeparator, IsFull
<1>2. ASSUME NEW s \in S PROVE s \in V(g) /\ Neighbors(g, s) # {}
  <2>1. PICK u \in C : HasEdge(g, u, s)
    BY <1>1, FullComponent
  <2>2. u \in V(g) /\ s \in V(g)
    BY <1>1, FullComponent
  <2> QED
    BY <2>1, <2>2 DEF Neighbors
<1> QED
  BY <1>2 DEF MinimalSeparators

LEMMA InputFacts ==
  ASSUME InputInv
  PROVE  /\ ub = NoBound => /\ graphs[1] \in CombGraphs /\ graphs = <<graphs[1]>> /\ Len(graphs) = 1
                            /\ IsGraph(graphs[1]) /\ graphs[1].n >= 1 /\ graphs[1].n \in Nat
         /\ ub # NoBound => ub \in Nat \ {0, 1} /\ ub \in Nat /\ ub > 1
         /\ Len(graphs) \in Nat
         /\ \A i \in 1 .. Len(graphs) : IsGraph(graphs[i]) /\ graphs[i].n >= 1
<1>1. CASE ub = NoBound /\ graphs \in {<<g>> : g \in CombGraphs}
  <2>1. PICK g \in CombGraphs : graphs = <<g>>
    BY <1>1
  <2>2. IsGraph(g) /\ g.n >= 1 /\ g.n \in Nat
    BY CombGraphsAssumption DEF IsGraph
  <2>3. graphs[1] = g /\ Len(graphs) = 1 /\ \A i \in 1 .. Len(graphs) : graphs[i] = g
    BY <2>1
  <2> QED
    BY <1>1, <2>1, <2>2, <2>3
<1>2. CASE \E input \in CountInputs : graphs = input[1] /\ ub = input[2]
  <2>1. PICK input \in CountInputs : graphs = input[1] /\ ub = input[2]
    BY <1>2
  <2>2. /\ graphs \in Seq({graphs[i] : i \in DOMAIN graphs})
        /\ \A i \in 1 .. Len(graphs) : IsGraph(graphs[i]) /\ graphs[i].n >= 1
        /\ ub \in Nat /\ ub > 1
    BY <2>1, CountInputsAssumption
  <2>3. ub # NoBound /\ ub \notin {0, 1}
    BY <2>2 DEF NoBound
  <2>4. Len(graphs) \in Nat
    BY <2>2
  <2> QED
    BY <2>2, <2>3, <2>4
<1> QED
  BY <1>1, <1>2 DEF InputInv

LEMMA InvInit == Init => Inv
<1> SUFFICES ASSUME Init PROVE Inv
  OBVIOUS
<1>1. InputInv
  <2>1. ASSUME pc = "count" PROVE ub # NoBound /\ \E input \in CountInputs : graphs = input[1] /\ ub = input[2]
    <3>1. PICK input \in CountInputs : graphs = input[1] /\ ub = input[2]
      BY <2>1 DEF Init
    <3>2. input[2] \in Nat
      BY CountInputsAssumption
    <3> QED
      BY <3>1, <3>2 DEF NoBound
  <2>2. added = {} /\ (pc = "count" \/ (pc = "pmcs" /\ graphs \in {<<g>> : g \in CombGraphs} /\ ub = NoBound))
    BY DEF Init
  <2> QED
    BY <2>1, <2>2 DEF InputInv
<1>2. IsGraph(new_graph)
  BY DEF Init, IsGraph
<1>3. TypeOK
  <2>1. ub \in {NoBound} \cup (Nat \ {0, 1}) /\ counted \in 0 .. Len(graphs)
    BY <1>1, InputFacts DEF Init
  <2> QED
    BY <1>1, <1>2, <2>1, InputFacts DEF Init, TypeOK
<1>4. PmcsInv /\ FoundInv
  BY DEF Init, PmcsInv, FoundInv
<1> QED
  BY <1>1, <1>3, <1>4 DEF Inv

LEMMA StartStep ==
  ASSUME Inv, StartPmcs
  PROVE  Inv'
<1> USE DEF Inv
<1>1. ub = NoBound /\ pc = "pmcs" /\ UNCHANGED <<graphs, counted, ub, minseps, found, expanded, ans>>
  BY DEF StartPmcs, InputInv
<1>2. PICK v \in V(graphs[1]) :
        /\ x' = v /\ added' = {v} /\ pmcs' = {{v}}
        /\ new_graph' = [n |-> graphs[1].n, adj |-> {}]
        /\ aborted' \in BOOLEAN /\ pc' \in {"done", "add"}
  BY DEF StartPmcs, NextInOrder
<1>3. IsGraph(graphs[1]) /\ graphs[1].n \in Nat
  BY <1>1, InputFacts
<1>4. InputInv'
  BY <1>1, <1>2 DEF InputInv
<1>5. IsGraph(new_graph') /\ V(new_graph') = V(graphs[1]) /\ v \in Nat
  BY <1>2, <1>3 DEF IsGraph, V
<1>6. added = {}
  BY <1>1 DEF PmcsInv
<1>7. TypeOK'
  BY <1>1, <1>2, <1>5, <1>6 DEF TypeOK
<1>8. PmcsInv'
  <2>1. \A e \in graphs[1].adj : ~(e \subseteq {v})
    BY <1>3, PairsMember DEF IsGraph
  <2>2. new_graph'.adj = {e \in graphs[1].adj : e \subseteq added'}
    BY <1>2, <2>1
  <2> QED
    BY <1>1, <1>2, <2>2 DEF PmcsInv
<1>9. FoundInv'
  BY <1>2 DEF FoundInv
<1> QED
  BY <1>4, <1>7, <1>8, <1>9

LEMMA AddStep ==
  ASSUME Inv, AddVertex
  PROVE  Inv'
<1> USE DEF Inv
<1> DEFINE g == graphs[1]
<1>1. ub = NoBound /\ pc = "add"
      /\ UNCHANGED <<graphs, counted, ub, pmcs, minseps, found, expanded, ans>>
  BY DEF AddVertex, InputInv
<1>2. PICK v \in V(g) \ added :
        /\ x' = v /\ added' = added \cup {v}
        /\ new_graph' = [new_graph EXCEPT !.adj = @ \cup {{v, w} : w \in Neighbors(g, v) \cap added}]
        /\ aborted' \in BOOLEAN /\ pc' \in {"done", "seed"}
  BY DEF AddVertex, NextInOrder
<1>3. IsGraph(g) /\ g.n \in Nat
  BY <1>1, InputFacts
<1>4. /\ new_graph.n = g.n /\ new_graph.adj = {e \in g.adj : e \subseteq added}
      /\ IsGraph(new_graph) /\ added \subseteq V(new_graph) /\ V(new_graph) = V(g)
  BY <1>1 DEF PmcsInv, TypeOK, V
<1>5. InputInv'
  BY <1>1, <1>2 DEF InputInv
<1>6. new_graph'.n = g.n /\ new_graph'.adj = {e \in g.adj : e \subseteq added'}
  <2>1. new_graph'.n = g.n /\ DOMAIN new_graph' = DOMAIN new_graph
    BY <1>2, <1>4
  <2>2. new_graph'.adj = new_graph.adj \cup {{v, w} : w \in Neighbors(g, v) \cap added}
    BY <1>2, <1>4 DEF IsGraph
  <2>3. ASSUME NEW w \in Neighbors(g, v) \cap added
        PROVE  {v, w} \in g.adj /\ {v, w} \subseteq added'
    BY <1>2, EdgeSymmetric DEF Neighbors, HasEdge
  <2>4. ASSUME NEW e \in g.adj, e \subseteq added', ~(e \subseteq added)
        PROVE  \E w \in Neighbors(g, v) \cap added : e = {v, w}
    <3>1. PICK u \in V(g), w \in V(g) : u # w /\ e = {u, w}
      BY <1>3, PairsMember DEF IsGraph
    <3>2. u = v \/ w = v
      BY <1>2, <2>4, <3>1
    <3>3. PICK t \in V(g) : t # v /\ e = {t, v} /\ e = {v, t}
      BY <3>1, <3>2
    <3>4. t \in added
      BY <1>2, <2>4, <3>3
    <3> QED
      BY <2>4, <3>3, <3>4 DEF Neighbors, HasEdge
  <2>5. {e \in g.adj : e \subseteq added} \subseteq {e \in g.adj : e \subseteq added'}
    BY <1>2
  <2> QED
    BY <1>4, <2>1, <2>2, <2>3, <2>4, <2>5
<1>7. IsGraph(new_graph') /\ V(new_graph') = V(g)
  <2>1. DOMAIN new_graph' = DOMAIN new_graph
    BY <1>2
  <2>2. V(new_graph') = V(g)
    BY <1>6 DEF V
  <2> QED
    BY <1>3, <1>4, <1>6, <2>1, <2>2 DEF IsGraph
<1>8. TypeOK'
  <2>1. v \in Nat
    BY DEF V
  <2>2. pmcs' \subseteq SUBSET added' /\ minseps' \subseteq SUBSET added'
    BY <1>1, <1>2 DEF TypeOK
  <2> QED
    BY <1>1, <1>2, <1>4, <1>7, <2>1, <2>2 DEF TypeOK
<1>9. PmcsInv'
  <2>1. pmcs' \subseteq SUBSET (added' \ {x'})
    BY <1>1, <1>2 DEF TypeOK
  <2> QED
    BY <1>1, <1>2, <1>6, <2>1 DEF PmcsInv
<1>10. FoundInv'
  BY <1>2 DEF FoundInv
<1> QED
  BY <1>5, <1>8, <1>9, <1>10

LEMMA SeedStep ==
  ASSUME Inv, SeedMinSeps
  PROVE  Inv'
<1> USE DEF Inv
<1>1. /\ pc = "seed" /\ pc' = "expand" /\ expanded' = {}
      /\ UNCHANGED <<graphs, counted, ub, new_graph, added, x, pmcs, minseps, ans, aborted>>
      /\ found' = UNION {SeparatorsAround(new_graph, Neighbors(new_graph, v) \cup {v}) :
                           v \in {w \in V(new_graph) : Neighbors(new_graph, w) # {}}}
  BY DEF SeedMinSeps
<1>2. found' \subseteq MinimalSeparators(new_graph)
  <2> SUFFICES ASSUME NEW T \in found' PROVE T \in MinimalSeparators(new_graph)
    OBVIOUS
  <2>1. PICK v \in V(new_graph) :
          T \in SeparatorsAround(new_graph, Neighbors(new_graph, v) \cup {v})
    BY <1>1
  <2> QED
    BY <2>1, SeedIsSeparator, SeparatorVertices
<1>3. InputInv'
  BY <1>1 DEF InputInv
<1>4. TypeOK'
  <2>1. found' \subseteq SUBSET V(new_graph)
    BY <1>2 DEF MinimalSeparators
  <2> QED
    BY <1>1, <2>1 DEF TypeOK
<1>5. PmcsInv'
  BY <1>1 DEF PmcsInv
<1>6. FoundInv'
  <2>1. \A v \in V(new_graph) : Neighbors(new_graph, v) # {} =>
          SeparatorsAround(new_graph, Neighbors(new_graph, v) \cup {v}) \subseteq found'
    BY <1>1
  <2> QED
    BY <1>1, <1>2, <2>1 DEF FoundInv
<1> QED
  BY <1>3, <1>4, <1>5, <1>6

LEMMA ExpandStep ==
  ASSUME Inv, ExpandMinSep
  PROVE  Inv'
<1> USE DEF Inv
<1>1. pc = "expand"
      /\ UNCHANGED <<pc, graphs, counted, ub, new_graph, added, x, pmcs, minseps, ans, aborted>>
  BY DEF ExpandMinSep
<1>2. PICK minsep \in found \ expanded :
        /\ found' = found \cup UNION {SeparatorsAround(new_graph, minsep \cup Neighbors(new_graph, v)) :
                                        v \in minsep}
        /\ expanded' = expanded \cup {minsep}
  BY DEF ExpandMinSep, BlockAt
<1>3. found' \subseteq MinimalSeparators(new_graph)
  <2>1. IsMinimalSeparator(new_graph, minsep) /\ found \subseteq MinimalSeparators(new_graph)
    BY <1>1 DEF FoundInv, MinimalSeparators
  <2>2. ASSUME NEW v \in minsep,
               NEW T \in SeparatorsAround(new_graph, minsep \cup Neighbors(new_graph, v))
        PROVE  T \in MinimalSeparators(new_graph)
    BY <2>1, MovedIsSeparator, SeparatorVertices
  <2> QED
    BY <1>2, <2>1, <2>2
<1>4. InputInv'
  BY <1>1 DEF InputInv
<1>5. TypeOK'
  <2>1. found' \subseteq SUBSET V(new_graph)
    BY <1>3 DEF MinimalSeparators
  <2>2. expanded' \subseteq found'
    BY <1>2 DEF TypeOK
  <2> QED
    BY <1>1, <2>1, <2>2 DEF TypeOK
<1>6. PmcsInv'
  BY <1>1 DEF PmcsInv
<1>7. FoundInv'
  <2>1. \A v \in V(new_graph) : Neighbors(new_graph, v) # {} =>
          SeparatorsAround(new_graph, Neighbors(new_graph, v) \cup {v}) \subseteq found'
    BY <1>1, <1>2 DEF FoundInv
  <2>2. ASSUME NEW T \in expanded', NEW v \in T
        PROVE  SeparatorsAround(new_graph, T \cup Neighbors(new_graph, v)) \subseteq found'
    <3>1. CASE T = minsep
      BY <1>2, <2>2, <3>1
    <3>2. CASE T # minsep
      BY <1>1, <1>2, <2>2, <3>2 DEF FoundInv
    <3> QED
      BY <3>1, <3>2
  <2> QED
    BY <1>1, <1>3, <2>1, <2>2 DEF FoundInv
<1> QED
  BY <1>4, <1>5, <1>6, <1>7

LEMMA FoundFinite ==
  ASSUME TypeOK, pc \in {"expand", "update"}
  PROVE  Cardinality(found) \in Nat /\ IsFiniteSet(found)
<1>1. new_graph.n \in Nat /\ found \subseteq SUBSET V(new_graph)
  BY DEF TypeOK, IsGraph
<1>2. IsFiniteSet(V(new_graph))
  BY <1>1, VerticesFinite
<1> QED
  BY <1>1, <1>2, FS_SUBSET, FS_Subset, FS_CardinalityType

LEMMA ReturnStep ==
  ASSUME Inv, ReturnMinSeps
  PROVE  Inv'
<1> USE DEF Inv
<1>1. /\ pc = "expand" /\ (BoundReached \/ expanded = found)
      /\ UNCHANGED <<graphs, counted, ub, new_graph, added, x, pmcs, minseps, found, expanded, aborted>>
      /\ \/ ub = NoBound /\ pc' = "update" /\ ans' = ans
         \/ ub # NoBound /\ pc' = "count" /\ ans' = ans + Cardinality(found)
  BY DEF ReturnMinSeps
<1>2. InputInv'
  BY <1>1 DEF InputInv
<1>3. ans' \in Nat
  BY <1>1, FoundFinite DEF TypeOK
<1>4. TypeOK'
  BY <1>1, <1>3 DEF TypeOK
<1>5. PmcsInv'
  BY <1>1 DEF PmcsInv
<1>6. FoundInv'
  <2>1. ASSUME ub = NoBound PROVE IsSearched(new_graph, found)
    <3>1. expanded = found
      BY <1>1, <2>1 DEF BoundReached
    <3> QED
      BY <1>1, <3>1 DEF FoundInv, IsSearched
  <2>2. pc' # "expand" /\ (pc' = "update" => ub = NoBound) /\ found \subseteq MinimalSeparators(new_graph)
    BY <1>1 DEF FoundInv
  <2>3. pc' = "update" => IsSearched(new_graph, found)
    BY <2>1, <2>2
  <2> QED
    BY <1>1, <2>2, <2>3 DEF FoundInv
<1> QED
  BY <1>2, <1>4, <1>5, <1>6

\* The separators that FindMinSeps finds while Pmcs adds vertices lie among
\* the vertices added.
LEMMA FoundAmongAdded ==
  ASSUME Inv, pc = "update"
  PROVE  found \subseteq SUBSET added
<1> SUFFICES ASSUME NEW S \in found, NEW s \in S PROVE s \in added
  OBVIOUS
<1>1. IsMinimalSeparator(new_graph, S)
  BY DEF Inv, FoundInv, MinimalSeparators
<1>2. PICK u \in V(new_graph) : HasEdge(new_graph, u, s)
  BY <1>1, SeparatorVertices DEF Neighbors
<1>3. {u, s} \subseteq added
  BY <1>2 DEF Inv, InputInv, PmcsInv, HasEdge
<1> QED
  BY <1>3

LEMMA UpdateStep ==
  ASSUME Inv, OneMoreVertex
  PROVE  Inv'
<1> USE DEF Inv
<1>1. /\ pc = "update" /\ ub = NoBound /\ pc' \in {"add", "done"} /\ aborted' \in BOOLEAN
      /\ UNCHANGED <<graphs, counted, ub, new_graph, added, x, found, expanded, ans>>
      /\ minseps' = found
      /\ pmcs' = OldPmcs(new_graph) \cup PmcsWithX(new_graph) \cup PmcsFromPairs(new_graph)
  BY DEF OneMoreVertex, InputInv
<1>2. InputInv'
  BY <1>1 DEF InputInv
<1>3. found \subseteq SUBSET added /\ pmcs \subseteq SUBSET added /\ x \in added
  BY <1>1, FoundAmongAdded DEF TypeOK, PmcsInv
<1>4. pmcs' \subseteq SUBSET added
  <2>1. OldPmcs(new_graph) \subseteq SUBSET added
    BY <1>3 DEF OldPmcs
  <2>2. PmcsWithX(new_graph) \subseteq SUBSET added
    BY <1>3 DEF PmcsWithX, SeparatorsOffX
  <2>3. PmcsFromPairs(new_graph) \subseteq SUBSET added
    BY <1>3 DEF PmcsFromPairs, SeparatorsOffX
  <2> QED
    BY <1>1, <2>1, <2>2, <2>3
<1>5. TypeOK'
  BY <1>1, <1>3, <1>4 DEF TypeOK
<1>6. PmcsInv'
  BY <1>1 DEF PmcsInv
<1>7. FoundInv'
  BY <1>1 DEF FoundInv
<1> QED
  BY <1>2, <1>5, <1>6, <1>7

LEMMA CountStep ==
  ASSUME Inv, CountNext
  PROVE  Inv'
<1> USE DEF Inv
<1>1. /\ pc = "count" /\ ub # NoBound /\ counted < Len(graphs) /\ counted' = counted + 1
      /\ new_graph' = graphs[counted + 1] /\ pc' = "seed"
      /\ UNCHANGED <<graphs, ub, added, x, pmcs, minseps, found, expanded, ans, aborted>>
  BY DEF CountNext, InputInv
<1>2. counted + 1 \in 1 .. Len(graphs) /\ counted + 1 \in 0 .. Len(graphs)
  BY <1>1, InputFacts DEF TypeOK
<1>3. IsGraph(new_graph') /\ added = {}
  BY <1>1, <1>2, InputFacts DEF InputInv
<1>4. InputInv'
  BY <1>1, <1>2 DEF InputInv
<1>5. TypeOK'
  BY <1>1, <1>2, <1>3 DEF TypeOK
<1>6. PmcsInv' /\ FoundInv'
  BY <1>1 DEF PmcsInv, FoundInv
<1> QED
  BY <1>4, <1>5, <1>6

LEMMA EndStep ==
  ASSUME Inv, ReturnPmcs \/ ReturnCount \/ UNCHANGED vars
  PROVE  Inv'
<1> USE DEF Inv
<1>1. /\ UNCHANGED <<graphs, counted, ub, new_graph, added, x, pmcs, minseps, found, expanded, aborted>>
      /\ \/ pc' = "done" /\ ans' \in {ans, ub} /\ (ans' = ub => ub # NoBound \/ ans' = ans)
         \/ UNCHANGED <<pc, ans>>
  BY DEF ReturnPmcs, ReturnCount, vars, InputInv
<1>2. ans' \in Nat
  BY <1>1, InputFacts DEF TypeOK
<1> QED
  BY <1>1, <1>2 DEF TypeOK, InputInv, PmcsInv, FoundInv

LEMMA InvariantHolds == Spec => []Inv
<1>1. Inv /\ [Next]_vars => Inv'
  BY StartStep, AddStep, CountStep, SeedStep, ExpandStep, ReturnStep, UpdateStep, EndStep
  DEF Next, Finished
<1> QED
  BY <1>1, InvInit, PTL DEF Spec

-----------------------------------------------------------------------------
(* FindMinSeps in Pmcs. *)

\* The graphs that Pmcs asserts and that preprocessing leaves.
ConnectedInputs == \A g \in CombGraphs : \A C \in Components(g, {}) : C = V(g)

\* While some vertices of a connected graph are numbered, one with a numbered
\* neighbour is next.
LEMMA NextIsAdjacent ==
  ASSUME NEW g, IsGraph(g), \A C \in Components(g, {}) : C = V(g),
         NEW S \in SUBSET V(g), S # {}, NEW v \in NextInOrder(g, S)
  PROVE  Neighbors(g, v) \cap S # {}
<1>1. v \in V(g) \ S /\ g.n \in Nat
  BY DEF NextInOrder, IsGraph
<1>2. PICK u \in S, w \in V(g) \ S : HasEdge(g, u, w)
  <2> SUFFICES ASSUME \A u \in S : \A w \in V(g) \ S : ~HasEdge(g, u, w) PROVE FALSE
    OBVIOUS
  <2>1. PICK u \in S : TRUE
    OBVIOUS
  <2>2. u \in V(g) \ {} /\ S \in SUBSET (V(g) \ {})
    OBVIOUS
  <2>3. IsClosed(g, {}, S)
    BY DEF IsClosed
  <2>4. FindComponent(g, {}, u) \subseteq S
    BY <2>2, <2>3, ComponentClosed
  <2>5. FindComponent(g, {}, u) = V(g)
    BY <2>2 DEF Components
  <2> QED
    BY <1>1, <2>4, <2>5
<1>3. u \in Neighbors(g, w) \cap S
  BY <1>2 DEF Neighbors
<1>4. \A t : IsFiniteSet(Neighbors(g, t) \cap S) /\ Cardinality(Neighbors(g, t) \cap S) \in Nat
  <2> SUFFICES ASSUME NEW t
               PROVE  IsFiniteSet(Neighbors(g, t) \cap S) /\ Cardinality(Neighbors(g, t) \cap S) \in Nat
    OBVIOUS
  <2>1. Neighbors(g, t) \cap S \in SUBSET V(g)
    OBVIOUS
  <2> QED
    BY <1>1, <2>1, VerticesFinite
<1>5. Cardinality(Neighbors(g, w) \cap S) <= Cardinality(Neighbors(g, v) \cap S)
  BY <1>2 DEF NextInOrder
<1>6. Cardinality(Neighbors(g, w) \cap S) # 0
  BY <1>3, <1>4, FS_EmptySet
<1> SUFFICES ASSUME Neighbors(g, v) \cap S = {} PROVE FALSE
  OBVIOUS
<1>7. Cardinality(Neighbors(g, v) \cap S) = 0
  BY FS_EmptySet
<1> QED
  BY <1>4, <1>5, <1>6, <1>7

\* After the first vertex there is always an edge.
HasEdges ==
  ub = NoBound /\ pc \in {"seed", "expand", "update"} => new_graph.adj # {}

LEMMA HasEdgesInvariant ==
  ASSUME ConnectedInputs
  PROVE  Spec => []HasEdges
<1>1. Init => HasEdges
  BY DEF Init, HasEdges
<1>2. Inv /\ HasEdges /\ [Next]_vars => HasEdges'
  <2> SUFFICES ASSUME Inv, HasEdges, [Next]_vars PROVE HasEdges'
    OBVIOUS
  <2>1. CASE AddVertex
    <3>1. ub = NoBound /\ pc = "add"
      BY <2>1 DEF AddVertex, Inv, InputInv
    <3>2. PICK v \in NextInOrder(graphs[1], added) :
            new_graph' = [new_graph EXCEPT !.adj =
                            @ \cup {{v, w} : w \in Neighbors(graphs[1], v) \cap added}]
      BY <2>1 DEF AddVertex
    <3>3. graphs[1] \in CombGraphs /\ IsGraph(graphs[1])
      BY <3>1, InputFacts DEF Inv
    <3>4. added # {} /\ added \in SUBSET V(graphs[1])
      BY <3>1 DEF Inv, PmcsInv, TypeOK, V
    <3>5. \A C \in Components(graphs[1], {}) : C = V(graphs[1])
      BY <3>3 DEF ConnectedInputs
    <3>6. Neighbors(graphs[1], v) \cap added # {}
      BY <3>3, <3>4, <3>5, NextIsAdjacent
    <3>7. "adj" \in DOMAIN new_graph
      BY DEF Inv, TypeOK, IsGraph
    <3>8. new_graph'.adj # {}
      BY <3>2, <3>6, <3>7
    <3> QED
      BY <3>8 DEF HasEdges
  <2>2. CASE SeedMinSeps \/ ExpandMinSep \/ ReturnMinSeps \/ UNCHANGED vars \/ Finished
    BY <2>2 DEF SeedMinSeps, ExpandMinSep, ReturnMinSeps, vars, Finished, HasEdges
  <2>3. CASE CountNext
    BY <2>3 DEF CountNext, HasEdges, Inv, InputInv
  <2>4. CASE StartPmcs \/ OneMoreVertex \/ ReturnPmcs \/ ReturnCount
    BY <2>4 DEF StartPmcs, OneMoreVertex, ReturnPmcs, ReturnCount, HasEdges
  <2> QED
    BY <2>1, <2>2, <2>3, <2>4 DEF Next
<1> QED
  BY <1>1, <1>2, InvariantHolds, PTL DEF Spec

\* FindMinSeps finds every minimal separator of every graph on the way of Pmcs
\* through a connected graph, and nothing else, in whatever order it expands
\* what it has found.
THEOREM MinSepsFound ==
  ASSUME ConnectedInputs
  PROVE  Spec => []MinSepsExact
<1>1. Inv /\ HasEdges => MinSepsExact
  <2> SUFFICES ASSUME Inv, HasEdges, pc = "update" PROVE found = MinimalSeparators(new_graph)
    BY DEF MinSepsExact, Inv
  <2>1. new_graph.adj # {} /\ IsGraph(new_graph)
    BY DEF HasEdges, Inv, InputInv, TypeOK
  <2>2. IsSearched(new_graph, found) /\ found \subseteq MinimalSeparators(new_graph)
    BY DEF Inv, FoundInv
  <2> QED
    BY <2>1, <2>2, AllSeparatorsFound
<1> QED
  BY <1>1, InvariantHolds, HasEdgesInvariant, PTL

-----------------------------------------------------------------------------
(* The assertions of Pmcs. *)

\* The vertices added so far are connected by their edges.
Joined ==
  ub = NoBound /\ pc \in {"add", "seed", "expand", "update"} =>
    \A u \in added : added \subseteq FindComponent(new_graph, {}, u)

\* More edges only make a component larger.
LEMMA ComponentInMore ==
  ASSUME NEW g, NEW h, V(h) = V(g), g.adj \subseteq h.adj, NEW u \in V(g)
  PROVE  FindComponent(g, {}, u) \subseteq FindComponent(h, {}, u)
<1> DEFINE D == FindComponent(h, {}, u)
<1>1. u \in V(h) \ {}
  OBVIOUS
<1>2. u \in D /\ D \subseteq V(h) \ {} /\ IsClosed(h, {}, D)
  BY <1>1, ComponentClosed
<1> HIDE DEF D
<1>3. IsClosed(g, {}, D)
  BY <1>2 DEF IsClosed, HasEdge
<1>4. D \in SUBSET (V(g) \ {}) /\ u \in V(g) \ {}
  BY <1>2
<1>5. FindComponent(g, {}, u) \subseteq D
  BY <1>2, <1>3, <1>4, ComponentClosed
<1> QED
  BY <1>5 DEF D

\* The next vertex of a maximum cardinality search is joined too.
LEMMA JoinedByNext ==
  ASSUME NEW h, NEW S, S \subseteq V(h), NEW v \in V(h), NEW w \in S, HasEdge(h, v, w),
         \A u \in S : S \subseteq FindComponent(h, {}, u)
  PROVE  \A u \in S \cup {v} : S \cup {v} \subseteq FindComponent(h, {}, u)
<1>1. \A u \in V(h) : u \in V(h) \ {}
  OBVIOUS
<1>2. v \in FindComponent(h, {}, w)
  <2>1. HasEdge(h, w, v)
    BY EdgeSymmetric
  <2>2. w \in FindComponent(h, {}, w) /\ IsClosed(h, {}, FindComponent(h, {}, w))
    BY <1>1, ComponentClosed
  <2> QED
    BY <2>1, <2>2 DEF IsClosed
<1>3. S \cup {v} \subseteq FindComponent(h, {}, w)
  BY <1>2
<1>4. ASSUME NEW u \in S \cup {v} PROVE FindComponent(h, {}, u) = FindComponent(h, {}, w)
  <2>1. w \in V(h) \ {} /\ u \in FindComponent(h, {}, w)
    BY <1>3
  <2> QED
    BY <2>1, ComponentOfMember
<1> QED
  BY <1>3, <1>4

\* A graph with edges among joined vertices only is connected up to isolated
\* vertices.
LEMMA JoinedIsConnected ==
  ASSUME NEW h, NEW S, S \subseteq V(h), \A e \in h.adj : e \subseteq S,
         \A u \in S : S \subseteq FindComponent(h, {}, u)
  PROVE  IsConnectedOrIsolated(h)
<1>1. ASSUME NEW C \in Components(h, {}), Cardinality(C) > 1
      PROVE  S \cap C # {}
  <2> SUFFICES ASSUME S \cap C = {} PROVE FALSE
    OBVIOUS
  <2>1. PICK u \in C : C = FindComponent(h, {}, u) /\ u \in V(h) \ {}
    BY ComponentsMember
  <2>2. u \notin S
    BY <2>1
  <2>3. \A w : ~HasEdge(h, u, w)
    BY <2>2 DEF HasEdge
  <2>4. IsClosed(h, {}, {u}) /\ {u} \in SUBSET (V(h) \ {}) /\ u \in {u}
    BY <2>1, <2>3 DEF IsClosed
  <2>5. C \subseteq {u}
    BY <2>1, <2>4, ComponentClosed
  <2>6. C = {u}
    BY <2>5, <2>1
  <2>7. Cardinality({u}) = 1
    BY FS_Singleton
  <2>8. ~(1 > 1)
    OBVIOUS
  <2> QED
    BY <1>1, <2>6, <2>7, <2>8
<1> SUFFICES ASSUME NEW C \in Components(h, {}), NEW D \in Components(h, {}),
                    Cardinality(C) > 1, Cardinality(D) > 1
             PROVE  C = D
  BY DEF IsConnectedOrIsolated
<1>2. PICK u \in S \cap C : TRUE
  BY <1>1
<1>3. S \subseteq C
  BY <1>2, ComponentsMember
<1>4. u \in D
  <2>1. PICK w \in S \cap D : TRUE
    BY <1>1
  <2>2. S \subseteq D
    BY <2>1, ComponentsMember
  <2> QED
    BY <2>2
<1> QED
  BY <1>2, <1>4, ComponentsApart

AssertInv == ~aborted /\ Joined

LEMMA StartAsserts ==
  ASSUME Inv, ConnectedInputs, StartPmcs, ~aborted
  PROVE  AssertInv'
<1> USE DEF Inv
<1>1. graphs[1] \in CombGraphs
  BY InputFacts DEF StartPmcs, InputInv
<1>2. IsConnectedOrIsolated(graphs[1])
  BY <1>1 DEF ConnectedInputs, IsConnectedOrIsolated
<1>3. PICK v \in V(graphs[1]) : added' = {v} /\ V(new_graph') = V(graphs[1])
  BY DEF StartPmcs, NextInOrder, V
<1>4. aborted' = ~IsConnectedOrIsolated(graphs[1])
  BY DEF StartPmcs
<1>5. v \in V(new_graph') \ {}
  BY <1>3
<1>6. v \in FindComponent(new_graph', {}, v)
  BY <1>5, ComponentClosed
<1>7. \A u \in added' : added' \subseteq FindComponent(new_graph', {}, u)
  BY <1>3, <1>6
<1> QED
  BY <1>2, <1>4, <1>7 DEF AssertInv, Joined

LEMMA AddAsserts ==
  ASSUME Inv, Inv', ConnectedInputs, AddVertex, AssertInv
  PROVE  AssertInv'
<1> USE DEF Inv
<1>1. ub = NoBound /\ pc = "add" /\ UNCHANGED <<graphs, ub>>
  BY DEF AddVertex, InputInv
<1>2. PICK v \in NextInOrder(graphs[1], added) :
        /\ added' = added \cup {v}
        /\ new_graph' = [new_graph EXCEPT !.adj =
                            @ \cup {{v, w} : w \in Neighbors(graphs[1], v) \cap added}]
  BY DEF AddVertex
<1>3. graphs[1] \in CombGraphs /\ IsGraph(graphs[1])
  BY <1>1, InputFacts
<1>4. added # {} /\ added \in SUBSET V(graphs[1]) /\ V(new_graph) = V(graphs[1])
  BY <1>1 DEF PmcsInv, TypeOK, V
<1>5. \A C \in Components(graphs[1], {}) : C = V(graphs[1])
  BY <1>3 DEF ConnectedInputs
<1>6. PICK w \in added : w \in Neighbors(graphs[1], v)
  BY <1>3, <1>4, <1>5, NextIsAdjacent
<1>7. {"n", "adj"} \subseteq DOMAIN new_graph
  BY DEF TypeOK, IsGraph
<1>8. new_graph.adj \subseteq new_graph'.adj /\ {v, w} \in new_graph'.adj /\ new_graph'.n = new_graph.n
  BY <1>2, <1>6, <1>7
<1>9. V(new_graph') = V(new_graph) /\ v \in V(new_graph')
  BY <1>2, <1>4, <1>8 DEF V, NextInOrder
<1>10. \A u \in added : added \subseteq FindComponent(new_graph', {}, u)
  BY <1>1, <1>4, <1>8, <1>9, ComponentInMore DEF AssertInv, Joined
<1>11. \A u \in added' : added' \subseteq FindComponent(new_graph', {}, u)
  <2>1. HasEdge(new_graph', v, w)
    BY <1>8 DEF HasEdge
  <2>2. added \subseteq V(new_graph')
    BY <1>4, <1>9
  <2>3. \A u \in added \cup {v} : added \cup {v} \subseteq FindComponent(new_graph', {}, u)
    BY <1>6, <1>9, <1>10, <2>1, <2>2, JoinedByNext
  <2> QED
    BY <1>2, <2>3
<1>12. \A e \in new_graph'.adj : e \subseteq added'
  <2>1. \A e \in new_graph.adj : e \subseteq added
    BY <1>1 DEF PmcsInv
  <2>2. new_graph'.adj = new_graph.adj \cup {{v, t} : t \in Neighbors(graphs[1], v) \cap added}
    BY <1>2, <1>7
  <2> QED
    BY <1>2, <2>1, <2>2
<1>13. IsConnectedOrIsolated(new_graph')
  <2>1. added' \subseteq V(new_graph')
    BY <1>2, <1>4, <1>9
  <2> QED
    BY <1>11, <1>12, <2>1, JoinedIsConnected
<1>14. aborted' = ~IsConnectedOrIsolated(new_graph')
  BY DEF AddVertex
<1> QED
  BY <1>11, <1>13, <1>14 DEF AssertInv, Joined

LEMMA UpdateAsserts ==
  ASSUME Inv, OneMoreVertex, AssertInv
  PROVE  AssertInv'
<1> USE DEF Inv
<1>1. pc = "update" /\ ub = NoBound /\ UNCHANGED <<ub, new_graph, added>>
  BY DEF OneMoreVertex, InputInv
<1>2. \A P \in pmcs : x \notin P
  BY <1>1 DEF PmcsInv
<1>3. \A S \in SeparatorsOffX : x \notin S
  BY DEF SeparatorsOffX
<1>4. ASSUME NEW S \in SeparatorsOffX \ minseps
      PROVE  ~(Cardinality(Components(new_graph, S)) < 2)
  <2>1. S \in MinimalSeparators(new_graph) /\ new_graph.n \in Nat
    BY <1>1 DEF SeparatorsOffX, FoundInv, TypeOK, IsGraph
  <2>2. PICK A, B \in Components(new_graph, S) : A # B
    BY <2>1 DEF MinimalSeparators, IsMinimalSeparator
  <2>3. Cardinality(Components(new_graph, S)) >= 2
    BY <2>1, <2>2, TwoComponents
  <2>4. Components(new_graph, S) \subseteq SUBSET V(new_graph)
    BY ComponentsMember
  <2>5. Cardinality(Components(new_graph, S)) \in Nat
    BY <2>1, <2>4, VerticesFinite, FS_SUBSET, FS_Subset, FS_CardinalityType
  <2> QED
    BY <2>3, <2>5
<1>5. ~aborted'
  BY <1>2, <1>3, <1>4 DEF OneMoreVertex
<1> QED
  BY <1>1, <1>5 DEF AssertInv, Joined

\* In a connected graph no assertion of Pmcs, dfs2 and OneMoreVertex fails: the
\* vertices that maximum cardinality search has numbered stay connected, no
\* clique has the new vertex before it is looked at, and every new separator
\* leaves two components.  The counts have no assertion.
THEOREM PmcsAssertionsHold ==
  ASSUME ConnectedInputs
  PROVE  Spec => []AssertionsHold
<1>1. Init => AssertInv
  BY DEF Init, AssertInv, Joined
<1>2. Inv /\ Inv' /\ AssertInv /\ [Next]_vars => AssertInv'
  <2> SUFFICES ASSUME Inv, Inv', AssertInv, [Next]_vars PROVE AssertInv'
    OBVIOUS
  <2>1. CASE StartPmcs
    BY <2>1, StartAsserts DEF AssertInv
  <2>2. CASE AddVertex
    BY <2>2, AddAsserts
  <2>3. CASE OneMoreVertex
    BY <2>3, UpdateAsserts
  <2>4. CASE SeedMinSeps \/ ExpandMinSep \/ ReturnMinSeps \/ UNCHANGED vars \/ Finished
    <3>1. UNCHANGED <<ub, added, new_graph, aborted>>
          /\ (pc \in {"add", "seed", "expand", "update"} \/ pc' \notin {"add", "seed", "expand", "update"})
      BY <2>4 DEF SeedMinSeps, ExpandMinSep, ReturnMinSeps, vars, Finished
    <3> QED
      BY <3>1 DEF AssertInv, Joined
  <2>5. CASE CountNext
    BY <2>5 DEF CountNext, AssertInv, Joined, Inv, InputInv
  <2>6. CASE ReturnPmcs \/ ReturnCount
    BY <2>6 DEF ReturnPmcs, ReturnCount, AssertInv, Joined
  <2> QED
    BY <2>1, <2>2, <2>3, <2>4, <2>5, <2>6 DEF Next
<1>3. AssertInv => AssertionsHold
  BY DEF AssertInv, AssertionsHold
<1> QED
  BY <1>1, <1>2, <1>3, InvariantHolds, PTL DEF Spec

-----------------------------------------------------------------------------
(* The bounded count. *)

AreSums(f, c, n) ==
  f \in [0 .. n -> Nat] /\ f[0] = 0 /\ \A k \in 1 .. n : f[k] = f[k - 1] + c[k]

\* Numbers have sums.
LEMMA SumsExist ==
  ASSUME NEW n \in Nat, NEW c \in [1 .. n -> Nat]
  PROVE  \E f : AreSums(f, c, n)
<1> DEFINE Has(m) == \E f : AreSums(f, c, m)
           Bad == {m \in 0 .. n : ~Has(m)}
<1>1. ASSUME NEW m \in Bad, \A l \in Bad : m <= l
      PROVE  FALSE
  <2>1. CASE m = 0
    <3> DEFINE f == [k \in 0 .. 0 |-> 0]
    <3>1. f \in [0 .. m -> Nat] /\ f[0] = 0 /\ \A k \in 1 .. m : f[k] = f[k - 1] + c[k]
      BY <2>1
    <3> HIDE DEF f
    <3>2. AreSums(f, c, m)
      BY <3>1 DEF AreSums
    <3> QED
      BY <3>2
  <2>2. CASE m # 0
    <3>1. m - 1 \in 0 .. n /\ m - 1 \in Nat /\ ~(m <= m - 1) /\ m \in 1 .. n
      BY <2>2
    <3>2. PICK f : AreSums(f, c, m - 1)
      BY <1>1, <3>1
    <3>3. /\ f \in [0 .. m - 1 -> Nat] /\ f[0] = 0
          /\ \A k \in 1 .. m - 1 : f[k] = f[k - 1] + c[k]
      BY <3>2 DEF AreSums
    <3> DEFINE h == [k \in 0 .. m |-> IF k = m THEN f[m - 1] + c[m] ELSE f[k]]
    <3>4. \A k \in 0 .. m : k # m => k \in 0 .. m - 1
      BY <3>1
    <3>5. f[m - 1] + c[m] \in Nat
      <4>1. m - 1 \in 0 .. m - 1
        BY <3>1
      <4>2. f[m - 1] \in Nat /\ c[m] \in Nat
        BY <3>1, <3>3, <4>1
      <4> QED
        BY <4>2
    <3>6. \A k \in 0 .. m : h[k] \in Nat
      BY <3>3, <3>4, <3>5
    <3>7. h \in [0 .. m -> Nat]
      BY <3>6
    <3>8. h[0] = 0
      <4>1. 0 \in 0 .. m /\ 0 # m
        BY <2>2, <3>1
      <4> QED
        BY <3>3, <4>1
    <3>9. ASSUME NEW k \in 1 .. m PROVE h[k] = h[k - 1] + c[k]
      <4>1. k - 1 \in 0 .. m /\ k - 1 # m /\ k \in 0 .. m /\ (k # m => k \in 1 .. m - 1)
        BY <3>1
      <4> QED
        BY <3>3, <4>1
    <3> HIDE DEF h
    <3>10. AreSums(h, c, m)
      BY <3>7, <3>8, <3>9 DEF AreSums
    <3> QED
      BY <3>10
  <2> QED
    BY <2>1, <2>2
<1>2. Bad = {}
  <2>1. Bad \in SUBSET Nat
    OBVIOUS
  <2> HIDE DEF Bad
  <2> QED
    BY <1>1, <2>1, LeastElement
<1>3. n \in 0 .. n
  OBVIOUS
<1> QED
  BY <1>2, <1>3

\* Sums do not decrease.
LEMMA SumsGrow ==
  ASSUME NEW n \in Nat, NEW c \in [1 .. n -> Nat], NEW f, AreSums(f, c, n), NEW k \in 0 .. n
  PROVE  f[k] <= f[n]
<1> DEFINE Bad == {m \in Nat : m \in 0 .. n /\ ~(f[n - m] <= f[n])}
<1>1. ASSUME NEW m \in Bad, \A l \in Bad : m <= l
      PROVE  FALSE
  <2>1. m \in 0 .. n /\ ~(f[n - m] <= f[n]) /\ m \in Nat
    OBVIOUS
  <2>2. f[n] \in Nat /\ \A l \in 0 .. n : f[l] \in Nat
    BY DEF AreSums
  <2>3. m # 0
    <3> SUFFICES ASSUME m = 0 PROVE FALSE
      OBVIOUS
    <3>1. n - m = n
      OBVIOUS
    <3> QED
      BY <2>1, <2>2, <3>1
  <2>4. m - 1 \in 0 .. n /\ m - 1 \in Nat /\ ~(m <= m - 1)
    BY <2>1, <2>3
  <2>5. f[n - (m - 1)] <= f[n]
    BY <1>1, <2>4
  <2>6. n - (m - 1) \in 1 .. n /\ (n - (m - 1)) - 1 = n - m /\ n - (m - 1) \in 0 .. n /\ n - m \in 0 .. n
    BY <2>1, <2>3
  <2>7. f[n - (m - 1)] = f[n - m] + c[n - (m - 1)] /\ c[n - (m - 1)] \in Nat
    BY <2>6 DEF AreSums
  <2> QED
    BY <2>1, <2>2, <2>5, <2>6, <2>7
<1>2. Bad = {}
  <2>1. Bad \in SUBSET Nat
    OBVIOUS
  <2> HIDE DEF Bad
  <2> QED
    BY <1>1, <2>1, LeastElement
<1>3. n - k \in Nat /\ n - k \in 0 .. n /\ n - (n - k) = k
  OBVIOUS
<1> QED
  BY <1>2, <1>3

Counts(gs) == [i \in 1 .. Len(gs) |-> Cardinality(MinimalSeparators(gs[i]))]

\* The number of minimal separators of a graph is a number.
LEMMA SeparatorsFinite ==
  ASSUME NEW g, IsGraph(g)
  PROVE  IsFiniteSet(MinimalSeparators(g)) /\ Cardinality(MinimalSeparators(g)) \in Nat
<1>1. IsFiniteSet(V(g))
  BY VerticesFinite DEF IsGraph
<1>2. MinimalSeparators(g) \subseteq SUBSET V(g)
  BY DEF MinimalSeparators
<1> QED
  BY <1>1, <1>2, FS_SUBSET, FS_Subset, FS_CardinalityType

LEMMA TotalsAreSums ==
  ASSUME NEW gs, Len(gs) \in Nat, \A i \in 1 .. Len(gs) : IsGraph(gs[i])
  PROVE  /\ AreSums(SeparatorTotals(gs), Counts(gs), Len(gs))
         /\ Counts(gs) \in [1 .. Len(gs) -> Nat]
<1> DEFINE n == Len(gs)
           Is(f) == f = [i \in 0 .. n |-> IF i = 0 THEN 0
                                          ELSE f[i - 1] + Cardinality(MinimalSeparators(gs[i]))]
           total == CHOOSE f : Is(f)
<1>1. Counts(gs) \in [1 .. n -> Nat]
  BY SeparatorsFinite DEF Counts
<1>2. \A i \in 1 .. n : Counts(gs)[i] = Cardinality(MinimalSeparators(gs[i]))
  BY DEF Counts
<1>3. SeparatorTotals(gs) = total
  BY DEF SeparatorTotals
<1> HIDE DEF n
<1>4. n \in Nat
  BY DEF n
<1>5. PICK f : AreSums(f, Counts(gs), n)
  BY <1>1, <1>4, SumsExist
<1>6. f \in [0 .. n -> Nat] /\ f[0] = 0 /\ \A k \in 1 .. n : f[k] = f[k - 1] + Counts(gs)[k]
  BY <1>5 DEF AreSums
<1>7. \A k \in 0 .. n : k # 0 => k \in 1 .. n
  BY <1>4
<1>8. Is(f)
  BY <1>2, <1>6, <1>7
<1>9. Is(total)
  BY <1>8
<1> HIDE DEF total
<1>10. total[0] = 0 /\ \A k \in 1 .. n : total[k] = total[k - 1] + Counts(gs)[k]
  <2>1. 0 \in 0 .. n /\ \A k \in 1 .. n : k \in 0 .. n /\ k # 0
    BY <1>4
  <2> QED
    BY <1>2, <1>9, <2>1
<1>11. total \in [0 .. n -> Nat]
  <2> DEFINE Bad == {k \in 0 .. n : total[k] \notin Nat}
  <2>1. ASSUME NEW k \in Bad, \A l \in Bad : k <= l PROVE FALSE
    <3>1. k # 0
      BY <1>10
    <3>2. k \in 1 .. n /\ k - 1 \in 0 .. n /\ ~(k <= k - 1)
      BY <1>4, <3>1
    <3>3. total[k - 1] \in Nat /\ Counts(gs)[k] \in Nat
      BY <1>1, <2>1, <3>2
    <3> QED
      BY <1>10, <3>2, <3>3
  <2>2. Bad \in SUBSET Nat
    BY <1>4
  <2>3. Bad = {}
    <3> HIDE DEF Bad
    <3> QED
      BY <2>1, <2>2, LeastElement
  <2>4. \A k \in 0 .. n : total[k] \in Nat
    BY <2>3
  <2>5. total = [k \in 0 .. n |-> total[k]]
    BY <1>9
  <2> QED
    BY <2>4, <2>5
<1> QED
  BY <1>1, <1>3, <1>10, <1>11 DEF AreSums, n

\* A graph that is read has no vertex without an edge, and an instance of more
\* than one vertex has an edge.
InputsHaveEdges ==
  \A input \in CountInputs : \A i \in 1 .. Len(input[1]) :
    input[1][i].adj # {} \/ input[1][i].n = 1

\* The count after c instances: what they have, or no less than the bound.
CountedUpTo(c) ==
  LET all == SeparatorTotals(graphs)[c]
  IN  ans <= all /\ (ans = all \/ ans >= ub)

CountInv ==
  ub # NoBound =>
    /\ pc = "count" => CountedUpTo(counted)
    /\ pc \in {"seed", "expand"} => CountedUpTo(counted - 1)
    /\ pc = "done" => LET all == SeparatorTotals(graphs)[Len(graphs)]
                      IN  ans = IF all <= ub THEN all ELSE ub

LEMMA TotalFacts ==
  ASSUME Inv
  PROVE  /\ SeparatorTotals(graphs)[0] = 0
         /\ \A k \in 0 .. Len(graphs) :
              /\ SeparatorTotals(graphs)[k] \in Nat
              /\ SeparatorTotals(graphs)[k] <= SeparatorTotals(graphs)[Len(graphs)]
         /\ \A k \in 1 .. Len(graphs) :
              SeparatorTotals(graphs)[k] =
                SeparatorTotals(graphs)[k - 1] + Cardinality(MinimalSeparators(graphs[k]))
<1> DEFINE T == SeparatorTotals(graphs)
           n == Len(graphs)
           c == Counts(graphs)
<1>1. n \in Nat /\ \A i \in 1 .. n : IsGraph(graphs[i])
  BY InputFacts DEF Inv
<1>2. AreSums(T, c, n) /\ c \in [1 .. n -> Nat]
  BY <1>1, TotalsAreSums
<1>3. \A k \in 1 .. n : c[k] = Cardinality(MinimalSeparators(graphs[k]))
  BY DEF Counts
<1> HIDE DEF T, n, c
<1>4. \A k \in 0 .. n : T[k] <= T[n]
  BY <1>1, <1>2, SumsGrow
<1>5. /\ T[0] = 0 /\ \A k \in 0 .. n : T[k] \in Nat
      /\ \A k \in 1 .. n : T[k] = T[k - 1] + c[k]
  BY <1>2 DEF AreSums
<1> QED
  BY <1>3, <1>4, <1>5 DEF T, n

LEMMA CountReturns ==
  ASSUME Inv, InputsHaveEdges, CountInv, ReturnMinSeps, ub # NoBound
  PROVE  CountInv'
<1> USE DEF Inv
<1> DEFINE T == SeparatorTotals(graphs)
           m == Cardinality(MinimalSeparators(new_graph))
           f == Cardinality(found)
<1>1. /\ pc = "expand" /\ pc' = "count" /\ ans' = ans + f
      /\ UNCHANGED <<graphs, counted, ub, new_graph, found>>
      /\ f >= ub \/ expanded = found
  BY DEF ReturnMinSeps, BoundReached
<1>2. /\ counted \in 1 .. Len(graphs) /\ new_graph = graphs[counted] /\ IsGraph(new_graph)
      /\ ub \in Nat /\ ans \in Nat
  BY <1>1, InputFacts DEF InputInv, TypeOK
<1>3. new_graph.adj # {} \/ new_graph.n = 1
  BY <1>2 DEF InputInv, InputsHaveEdges
<1>4. found \subseteq MinimalSeparators(new_graph)
  BY <1>1 DEF FoundInv
<1>5. f \in Nat /\ m \in Nat /\ f <= m
  BY <1>1, <1>2, <1>4, FoundFinite, SeparatorsFinite, FS_Subset
<1>6. f = m \/ f >= ub
  <2> SUFFICES ASSUME expanded = found PROVE f = m
    BY <1>1
  <2>1. IsSearched(new_graph, found)
    BY <1>1 DEF FoundInv, IsSearched
  <2>2. found = MinimalSeparators(new_graph)
    BY <1>2, <1>3, <1>4, <2>1, AllSeparatorsFound
  <2> QED
    BY <2>2
<1>7. /\ T[counted] = T[counted - 1] + m
      /\ T[counted] \in Nat /\ T[counted - 1] \in Nat
  <2>1. counted \in 0 .. Len(graphs) /\ counted - 1 \in 0 .. Len(graphs)
    BY <1>2, InputFacts
  <2> QED
    BY <1>2, <2>1, TotalFacts
<1>8. ans <= T[counted - 1] /\ (ans = T[counted - 1] \/ ans >= ub)
  BY <1>1 DEF CountInv, CountedUpTo
<1> HIDE DEF T, m, f
<1>9. ans' <= T[counted] /\ (ans' = T[counted] \/ ans' >= ub)
  BY <1>1, <1>2, <1>5, <1>6, <1>7, <1>8
<1> QED
  BY <1>1, <1>9 DEF CountInv, CountedUpTo, T

LEMMA CountEnds ==
  ASSUME Inv, CountInv, ReturnCount
  PROVE  CountInv'
<1> USE DEF Inv
<1> DEFINE T == SeparatorTotals(graphs)
           n == Len(graphs)
<1>1. /\ pc = "count" /\ ub # NoBound /\ pc' = "done" /\ (counted = n \/ ans > ub)
      /\ ans' = (IF ans <= ub THEN ans ELSE ub)
      /\ UNCHANGED <<graphs, ub>>
  BY DEF ReturnCount, InputInv
<1>2. ub \in Nat /\ ans \in Nat /\ n \in Nat /\ counted \in 0 .. n /\ n \in 0 .. n
  BY <1>1, InputFacts DEF TypeOK
<1>3. T[counted] \in Nat /\ T[n] \in Nat /\ T[counted] <= T[n]
  BY <1>2, TotalFacts
<1>4. ans <= T[counted] /\ (ans = T[counted] \/ ans >= ub)
  BY <1>1 DEF CountInv, CountedUpTo
<1> HIDE DEF T
<1>5. ans' = IF T[n] <= ub THEN T[n] ELSE ub
  BY <1>1, <1>2, <1>3, <1>4
<1> QED
  BY <1>1, <1>5 DEF CountInv, T

\* CountMinseps returns the number of minimal separators of all instances, or
\* its bound if that is less, although it stops the search of an instance, and
\* the loop over them, when the bound is reached.
THEOREM CountRight ==
  ASSUME InputsHaveEdges
  PROVE  Spec => []CountExact
<1>1. Init => CountInv
  <2> SUFFICES ASSUME Init, ub # NoBound, pc = "count" PROVE CountedUpTo(counted)
    BY DEF Init, CountInv
  <2>1. Inv
    BY InvInit
  <2>2. counted = 0 /\ ans = 0 /\ 0 <= 0
    BY DEF Init
  <2> QED
    BY <2>1, <2>2, TotalFacts DEF CountedUpTo
<1>2. Inv /\ CountInv /\ [Next]_vars => CountInv'
  <2> SUFFICES ASSUME Inv, CountInv, [Next]_vars, ub' # NoBound PROVE CountInv'
    BY DEF CountInv
  <2>1. CASE ReturnMinSeps
    <3>1. ub # NoBound
      BY <2>1 DEF ReturnMinSeps
    <3> QED
      BY <2>1, <3>1, CountReturns
  <2>2. CASE ReturnCount
    BY <2>2, CountEnds
  <2>3. CASE CountNext
    <3>1. /\ pc = "count" /\ pc' = "seed" /\ counted' = counted + 1 /\ UNCHANGED <<graphs, ub, ans>>
      BY <2>3 DEF CountNext
    <3>2. (counted + 1) - 1 = counted
      BY DEF Inv, TypeOK
    <3>3. CountedUpTo(counted) /\ ub # NoBound
      BY <2>3, <3>1 DEF CountInv
    <3> QED
      BY <3>1, <3>2, <3>3 DEF CountInv, CountedUpTo
  <2>4. CASE SeedMinSeps \/ ExpandMinSep \/ UNCHANGED vars \/ Finished
    <3>1. /\ UNCHANGED <<graphs, ub, ans, counted>>
          /\ UNCHANGED pc \/ (pc = "seed" /\ pc' = "expand")
      BY <2>4 DEF SeedMinSeps, ExpandMinSep, vars, Finished
    <3> QED
      BY <3>1 DEF CountInv, CountedUpTo
  <2>5. CASE StartPmcs \/ AddVertex \/ OneMoreVertex \/ ReturnPmcs
    <3>1. pc \in {"pmcs", "add", "update"} /\ UNCHANGED ub
      BY <2>5 DEF StartPmcs, AddVertex, OneMoreVertex, ReturnPmcs
    <3> QED
      BY <3>1 DEF Inv, InputInv
  <2> QED
    BY <2>1, <2>2, <2>3, <2>4, <2>5 DEF Next
<1>3. CountInv => CountExact
  BY DEF CountInv, CountExact
<1> QED
  BY <1>1, <1>2, <1>3, InvariantHolds, PTL DEF Spec

-----------------------------------------------------------------------------
(* A graph before and after one vertex has its edges. *)

\* The graph g while v had no edges.
Before(g, v) == [g EXCEPT !.adj = {e \in @ : v \notin e}]

LEMMA BeforeGraph ==
  ASSUME NEW g, IsGraph(g), NEW v
  PROVE  /\ IsGraph(Before(g, v)) /\ V(Before(g, v)) = V(g)
         /\ \A u, w : HasEdge(Before(g, v), u, w) <=> HasEdge(g, u, w) /\ u # v /\ w # v
<1> DEFINE h == Before(g, v)
<1>1. h.n = g.n /\ DOMAIN h = DOMAIN g /\ h.adj = {e \in g.adj : v \notin e}
  BY DEF Before, IsGraph
<1> HIDE DEF h
<1>2. V(h) = V(g)
  BY <1>1 DEF V
<1>3. IsGraph(h)
  BY <1>1, <1>2 DEF IsGraph
<1>4. \A u, w : HasEdge(h, u, w) <=> HasEdge(g, u, w) /\ u # v /\ w # v
  BY <1>1 DEF HasEdge
<1> QED
  BY <1>2, <1>3, <1>4 DEF h

\* Blocking v or taking its edges away leaves the same components, but that v
\* without edges is one of its own.
LEMMA BeforeComponents ==
  ASSUME NEW g, IsGraph(g), NEW v \in V(g), NEW P \in SUBSET V(g), v \notin P
  PROVE  /\ \A C \in Components(g, P \cup {v}) :
              /\ C \in Components(Before(g, v), P)
              /\ NeighborsOf(Before(g, v), C) = NeighborsOf(g, C) \ {v}
         /\ \A C \in Components(Before(g, v), P) :
              \/ C = {v} /\ NeighborsOf(Before(g, v), C) = {}
              \/ C \in Components(g, P \cup {v})
<1> DEFINE h == Before(g, v)
           Q == P \cup {v}
<1>1. /\ V(h) = V(g)
      /\ \A u, w : HasEdge(h, u, w) <=> HasEdge(g, u, w) /\ u # v /\ w # v
  BY BeforeGraph
<1> HIDE DEF h
<1>2. ASSUME NEW u \in V(g) \ Q
      PROVE  FindComponent(g, Q, u) = FindComponent(h, P, u)
  <2> DEFINE A == FindComponent(g, Q, u)
             B == FindComponent(h, P, u)
  <2>1. u \in V(h) \ P /\ u \in V(g) \ P
    BY <1>1, <1>2
  <2>2. u \in A /\ A \subseteq V(g) \ Q /\ IsClosed(g, Q, A)
    BY <1>2, ComponentClosed
  <2>3. u \in B /\ B \subseteq V(h) \ P /\ IsClosed(h, P, B)
    BY <2>1, ComponentClosed
  <2> HIDE DEF A, B
  <2>4. B \subseteq A
    <3>1. IsClosed(h, P, A) /\ A \in SUBSET (V(h) \ P)
      BY <1>1, <2>2 DEF IsClosed
    <3> QED
      BY <2>1, <2>2, <3>1, ComponentClosed DEF B
  <2>5. A \subseteq B \ {v}
    <3>1. IsClosed(g, Q, B \ {v}) /\ B \ {v} \in SUBSET (V(g) \ Q) /\ u \in B \ {v}
      BY <1>1, <1>2, <2>3 DEF IsClosed
    <3> QED
      BY <1>2, <3>1, ComponentClosed DEF A
  <2>6. A = B
    BY <2>4, <2>5
  <2> QED
    BY <2>6 DEF A, B
<1>3. FindComponent(h, P, v) = {v}
  <2>1. v \in V(h) \ P /\ {v} \in SUBSET (V(h) \ P) /\ v \in {v} /\ IsClosed(h, P, {v})
    BY <1>1 DEF IsClosed
  <2>2. v \in FindComponent(h, P, v) /\ FindComponent(h, P, v) \subseteq {v}
    BY <2>1, ComponentClosed
  <2> QED
    BY <2>2
<1>4. NeighborsOf(h, {v}) = {}
  BY <1>1 DEF NeighborsOf
<1>5. ASSUME NEW C \in Components(g, Q)
      PROVE  C \in Components(h, P) /\ NeighborsOf(h, C) = NeighborsOf(g, C) \ {v}
  <2>1. PICK u \in V(g) \ Q : C = FindComponent(g, Q, u)
    BY DEF Components
  <2>2. C \subseteq V(g) \ Q
    BY ComponentsMember
  <2>3. u \in V(h) \ P /\ C = FindComponent(h, P, u)
    BY <1>1, <1>2, <2>1
  <2>4. NeighborsOf(h, C) = NeighborsOf(g, C) \ {v}
    <3>1. \A a : \A b \in C : HasEdge(h, a, b) <=> HasEdge(g, a, b) /\ a # v
      BY <1>1, <2>2
    <3> QED
      BY <1>1, <3>1 DEF NeighborsOf
  <2> QED
    BY <2>3, <2>4 DEF Components
<1>6. ASSUME NEW C \in Components(h, P)
      PROVE  (C = {v} /\ NeighborsOf(h, C) = {}) \/ C \in Components(g, Q)
  <2>1. PICK u \in V(h) \ P : C = FindComponent(h, P, u)
    BY DEF Components
  <2>2. CASE u = v
    BY <1>3, <1>4, <2>1, <2>2
  <2>3. CASE u # v
    <3>1. u \in V(g) \ Q
      BY <1>1, <2>1, <2>3
    <3> QED
      BY <1>2, <2>1, <3>1 DEF Components
  <2> QED
    BY <2>2, <2>3
<1> QED
  BY <1>5, <1>6 DEF h

\* A component without v was one before, and is one if v is blocked too.
LEMMA BeforeOff ==
  ASSUME NEW g, IsGraph(g), NEW v \in V(g), NEW P \in SUBSET V(g), v \notin P,
         NEW C \in Components(g, P), v \notin C
  PROVE  /\ C \in Components(g, P \cup {v}) /\ C \in Components(Before(g, v), P)
         /\ \A t \in NeighborsOf(g, C) : t \in NeighborsOf(Before(g, v), C)
<1> DEFINE Q == P \cup {v}
<1>1. v \notin NeighborsOf(g, C)
  BY NeighborsBlocked
<1>2. C \in Components(g, Q)
  <2>1. PICK u \in C : u \in V(g) \ P /\ C = FindComponent(g, P, u)
    BY ComponentsMember
  <2>2. C \cap Q = {}
    BY ComponentsMember
  <2>3. u \in V(g) \ Q /\ C \subseteq FindComponent(g, Q, u)
    BY <2>2, ComponentSpared
  <2>4. FindComponent(g, Q, u) \subseteq C
    BY <2>1, <2>3, ComponentGrows
  <2>5. C = FindComponent(g, Q, u)
    BY <2>3, <2>4
  <2> QED
    BY <2>3, <2>5 DEF Components
<1>3. /\ C \in Components(Before(g, v), P)
      /\ NeighborsOf(Before(g, v), C) = NeighborsOf(g, C) \ {v}
  BY <1>2, BeforeComponents
<1>4. \A t \in NeighborsOf(g, C) : t \in NeighborsOf(Before(g, v), C)
  BY <1>1, <1>3
<1> QED
  BY <1>1, <1>2, <1>3, <1>4

\* The components before are parts of those after.
LEMMA BeforeGrows ==
  ASSUME NEW g, IsGraph(g), NEW v \in V(g), NEW P \in SUBSET V(g), v \notin P,
         NEW C \in Components(Before(g, v), P)
  PROVE  \E D \in Components(g, P) :
           C \subseteq D /\ NeighborsOf(Before(g, v), C) \subseteq NeighborsOf(g, D)
<1> DEFINE h == Before(g, v)
<1>1. /\ V(h) = V(g)
      /\ \A u, w : HasEdge(h, u, w) <=> HasEdge(g, u, w) /\ u # v /\ w # v
  BY BeforeGraph
<1> HIDE DEF h
<1>2. PICK u \in C : u \in V(h) \ P /\ C = FindComponent(h, P, u)
  BY ComponentsMember DEF h
<1> DEFINE D == FindComponent(g, P, u)
<1>3. u \in D /\ D \subseteq V(g) \ P /\ IsClosed(g, P, D) /\ D \in Components(g, P)
  BY <1>1, <1>2, ComponentClosed DEF Components
<1> HIDE DEF D
<1>4. IsClosed(h, P, D) /\ D \in SUBSET (V(h) \ P)
  BY <1>1, <1>3 DEF IsClosed
<1>5. C \subseteq D
  BY <1>2, <1>3, <1>4, ComponentClosed
<1>6. NeighborsOf(h, C) \subseteq P
  BY NeighborsBlocked DEF h
<1>7. NeighborsOf(h, C) \subseteq NeighborsOf(g, D)
  BY <1>1, <1>3, <1>5, <1>6 DEF NeighborsOf
<1> QED
  BY <1>3, <1>5, <1>7 DEF h

-----------------------------------------------------------------------------
(* The test by depth-first searches. *)

\* dfs2 reaches all of S from v iff v makes a covered pair with each of them.
LEMMA ExtendsTest ==
  ASSUME NEW g, IsGraph(g), NEW S \in SUBSET V(g), NEW v \in V(g) \ S
  PROVE  Extends(g, S, v) <=> \A w \in S : IsCovered(g, S \cup {v}, v, w)
<1> DEFINE A == FindComponent(g, S, v)
           Q == S \cup {v}
<1>1. v \in A /\ A \subseteq V(g) \ S /\ IsClosed(g, S, A)
  BY ComponentClosed
<1> HIDE DEF A
<1>2. ASSUME NEW w \in S, w \in NeighborsOf(g, A)
      PROVE  IsCovered(g, Q, v, w)
  <2>1. PICK u \in A : HasEdge(g, w, u)
    BY <1>2 DEF NeighborsOf
  <2>2. CASE u = v
    BY <2>1, <2>2, EdgeSymmetric DEF IsCovered
  <2>3. CASE u # v
    <3> DEFINE D == FindComponent(g, Q, u)
    <3>1. u \in V(g) \ Q
      BY <1>1, <2>3
    <3>2. D \in Components(g, Q) /\ u \in D /\ D \subseteq V(g) \ Q /\ IsClosed(g, Q, D)
      BY <3>1, ComponentClosed DEF Components
    <3> HIDE DEF D
    <3>3. w \in NeighborsOf(g, D)
      BY <2>1, <3>2 DEF NeighborsOf
    <3>4. v \in NeighborsOf(g, D)
      <4> SUFFICES ASSUME v \notin NeighborsOf(g, D) PROVE FALSE
        OBVIOUS
      <4>1. \A d \in D : ~HasEdge(g, d, v)
        BY <3>2, EdgeSymmetric DEF NeighborsOf
      <4>2. IsClosed(g, S, D)
        BY <3>2, <4>1 DEF IsClosed
      <4>3. D \in SUBSET (V(g) \ S) /\ u \in V(g) \ S
        BY <3>1, <3>2
      <4>4. FindComponent(g, S, u) \subseteq D
        BY <3>2, <4>2, <4>3, ComponentClosed
      <4>5. FindComponent(g, S, u) = A
        BY ComponentOfMember DEF A
      <4> QED
        BY <1>1, <3>2, <4>4, <4>5
    <3> QED
      BY <3>2, <3>3, <3>4 DEF IsCovered
  <2> QED
    BY <2>2, <2>3
<1>3. ASSUME NEW w \in S, IsCovered(g, Q, v, w)
      PROVE  w \in NeighborsOf(g, A)
  <2>1. w \in V(g) \ A
    BY <1>1
  <2>2. CASE HasEdge(g, v, w)
    BY <1>1, <2>1, <2>2, EdgeSymmetric DEF NeighborsOf
  <2>3. ASSUME NEW D \in Components(g, Q), v \in NeighborsOf(g, D), w \in NeighborsOf(g, D)
        PROVE  w \in NeighborsOf(g, A)
    <3>1. PICK d \in D : HasEdge(g, v, d)
      BY <2>3 DEF NeighborsOf
    <3>2. d \in V(g) \ Q /\ D = FindComponent(g, Q, d)
      BY ComponentsMember
    <3>3. d \in A
      BY <1>1, <3>1, <3>2 DEF IsClosed
    <3>4. FindComponent(g, S, d) = A
      BY <3>3, ComponentOfMember DEF A
    <3>5. D \subseteq A
      BY <3>2, <3>4, ComponentGrows
    <3>6. PICK e \in D : HasEdge(g, w, e)
      BY <2>3 DEF NeighborsOf
    <3> QED
      BY <2>1, <3>5, <3>6 DEF NeighborsOf
  <2> QED
    BY <1>3, <2>2, <2>3 DEF IsCovered
<1>4. Extends(g, S, v) <=> \A w \in S : w \in NeighborsOf(g, A)
  BY DEF Extends, A
<1> QED
  BY <1>2, <1>3, <1>4

\* comb_enumerator's own test agrees with Graph::IsPmc.
LEMMA DfsTest ==
  ASSUME NEW g, IsGraph(g), NEW K \in SUBSET V(g)
  PROVE  IsPmcByDfs(g, K) <=> IsPmc(g, K)
<1>1. ASSUME NEW v \in K
      PROVE  Extends(g, K \ {v}, v) <=> \A w \in K : w # v => IsCovered(g, K, v, w)
  <2>1. v \in V(g) \ (K \ {v}) /\ K \ {v} \in SUBSET V(g) /\ (K \ {v}) \cup {v} = K
    OBVIOUS
  <2>2. Extends(g, K \ {v}, v) <=> \A w \in K \ {v} : IsCovered(g, K, v, w)
    BY <2>1, ExtendsTest
  <2> QED
    BY <2>2
<1>2. HasFullComponent(g, K) <=> ~\A C \in Components(g, K) : NeighborsOf(g, C) # K
  BY DEF HasFullComponent
<1> QED
  BY <1>1, <1>2, PmcTest DEF IsPmcByDfs

-----------------------------------------------------------------------------
(* The update is sound. *)

\* A covered pair stays covered when v gets its edges.
LEMMA StaysCovered ==
  ASSUME NEW g, IsGraph(g), NEW v \in V(g), NEW P \in SUBSET V(g), v \notin P,
         NEW u, NEW w, IsCovered(Before(g, v), P, u, w)
  PROVE  IsCovered(g, P, u, w)
<1>1. CASE HasEdge(Before(g, v), u, w)
  BY <1>1, BeforeGraph DEF IsCovered
<1>2. CASE ~HasEdge(Before(g, v), u, w)
  <2>1. PICK C \in Components(Before(g, v), P) :
          u \in NeighborsOf(Before(g, v), C) /\ w \in NeighborsOf(Before(g, v), C)
    BY <1>2 DEF IsCovered
  <2>2. PICK D \in Components(g, P) : NeighborsOf(Before(g, v), C) \subseteq NeighborsOf(g, D)
    BY BeforeGrows
  <2> QED
    BY <2>1, <2>2 DEF IsCovered
<1> QED
  BY <1>1, <1>2

\* With v blocked, the same pairs were covered before, but for those of v.
LEMMA CoveredWith ==
  ASSUME NEW g, IsGraph(g), NEW v \in V(g), NEW P \in SUBSET V(g), v \notin P,
         NEW u \in P, NEW w \in P
  PROVE  IsCovered(Before(g, v), P, u, w) <=> IsCovered(g, P \cup {v}, u, w)
<1> DEFINE h == Before(g, v)
           Q == P \cup {v}
<1>1. HasEdge(h, u, w) <=> HasEdge(g, u, w)
  BY BeforeGraph
<1>2. ASSUME NEW C \in Components(h, P), u \in NeighborsOf(h, C), w \in NeighborsOf(h, C)
      PROVE  /\ C \in Components(g, Q)
             /\ u \in NeighborsOf(g, C) /\ w \in NeighborsOf(g, C)
  <2>1. C \in Components(g, Q)
    BY <1>2, BeforeComponents
  <2>2. NeighborsOf(h, C) = NeighborsOf(g, C) \ {v}
    BY <2>1, BeforeComponents
  <2> QED
    BY <1>2, <2>1, <2>2
<1>3. ASSUME NEW C \in Components(g, Q), u \in NeighborsOf(g, C), w \in NeighborsOf(g, C)
      PROVE  /\ C \in Components(h, P)
             /\ u \in NeighborsOf(h, C) /\ w \in NeighborsOf(h, C)
  <2>1. C \in Components(h, P) /\ NeighborsOf(h, C) = NeighborsOf(g, C) \ {v}
    BY BeforeComponents
  <2> QED
    BY <1>3, <2>1
<1> HIDE DEF h, Q
<1>4. IsCovered(h, P, u, w) <=> IsCovered(g, Q, u, w)
  BY <1>1, <1>2, <1>3 DEF IsCovered
<1> QED
  BY <1>4 DEF h, Q

\* An old clique that no component sees all of is one still.
LEMMA OldIsPmc ==
  ASSUME NEW g, IsGraph(g), NEW v \in V(g), NEW P \in SUBSET V(g), v \notin P,
         IsPmc(Before(g, v), P), ~HasFullComponent(g, P)
  PROVE  IsPmc(g, P)
<1>1. IsGraph(Before(g, v)) /\ P \in SUBSET V(Before(g, v))
  BY BeforeGraph
<1>2. \A u, w \in P : u # w => IsCovered(g, P, u, w)
  BY <1>1, PmcTest, StaysCovered
<1>3. \A C \in Components(g, P) : NeighborsOf(g, C) # P
  BY DEF HasFullComponent
<1> QED
  BY <1>2, <1>3, PmcTest

\* An old clique with v, if v reaches all of it.
LEMMA OldWithIsPmc ==
  ASSUME NEW g, IsGraph(g), NEW v \in V(g), NEW P \in SUBSET V(g), v \notin P, P # {},
         IsPmc(Before(g, v), P), Extends(g, P, v)
  PROVE  IsPmc(g, P \cup {v})
<1> DEFINE h == Before(g, v)
           Q == P \cup {v}
<1>1. IsGraph(h) /\ P \in SUBSET V(h) /\ Q \in SUBSET V(g)
  BY BeforeGraph
<1>2. /\ \A u, w \in P : u # w => IsCovered(h, P, u, w)
      /\ \A C \in Components(h, P) : NeighborsOf(h, C) # P
  BY <1>1, PmcTest
<1>3. \A u, w \in P : u # w => IsCovered(g, Q, u, w)
  BY <1>2, CoveredWith
<1>4. \A w \in P : IsCovered(g, Q, v, w) /\ IsCovered(g, Q, w, v)
  <2>1. \A w \in P : IsCovered(g, Q, v, w)
    BY ExtendsTest
  <2> QED
    BY <2>1, EdgeSymmetric DEF IsCovered
<1>5. ASSUME NEW C \in Components(g, Q) PROVE NeighborsOf(g, C) # Q
  <2>1. C \in Components(h, P) /\ NeighborsOf(h, C) = NeighborsOf(g, C) \ {v}
    BY BeforeComponents
  <2> HIDE DEF h
  <2> QED
    BY <1>2, <2>1
<1>6. \A u, w \in Q : u # w => IsCovered(g, Q, u, w)
  <2> HIDE DEF h
  <2> QED
    BY <1>3, <1>4
<1> QED
  BY <1>1, <1>5, <1>6, PmcTest

\* A minimal separator with v, if v reaches all of it and no component both.
LEMMA SeparatorWithIsPmc ==
  ASSUME NEW g, IsGraph(g), NEW v \in V(g), NEW S, IsMinimalSeparator(g, S), v \notin S,
         Extends(g, S, v), ~HasFullComponent(g, S \cup {v})
  PROVE  IsPmc(g, S \cup {v})
<1> DEFINE Q == S \cup {v}
<1>1. PICK A \in Components(g, S), B \in Components(g, S) :
        A # B /\ NeighborsOf(g, A) = S /\ NeighborsOf(g, B) = S
  BY DEF IsMinimalSeparator
<1>2. S \in SUBSET V(g)
  BY <1>1 DEF NeighborsOf
<1>3. PICK C \in Components(g, S) : v \notin C /\ NeighborsOf(g, C) = S
  <2>1. v \notin A \/ v \notin B
    BY <1>1, ComponentsApart
  <2> QED
    BY <1>1, <2>1
<1>4. C \in Components(g, Q)
  BY <1>2, <1>3, BeforeOff
<1>5. \A u, w \in S : IsCovered(g, Q, u, w)
  BY <1>3, <1>4 DEF IsCovered
<1>6. \A w \in S : IsCovered(g, Q, v, w) /\ IsCovered(g, Q, w, v)
  <2>1. \A w \in S : IsCovered(g, Q, v, w)
    BY <1>2, ExtendsTest
  <2> QED
    BY <2>1, EdgeSymmetric DEF IsCovered
<1>7. \A D \in Components(g, Q) : NeighborsOf(g, D) # Q
  BY DEF HasFullComponent
<1>8. \A u, w \in Q : u # w => IsCovered(g, Q, u, w)
  BY <1>5, <1>6
<1>9. Q \in SUBSET V(g)
  BY <1>2
<1> HIDE DEF Q
<1>10. IsPmc(g, Q)
  BY <1>7, <1>8, <1>9, PmcTest
<1> QED
  BY <1>10 DEF Q

-----------------------------------------------------------------------------
(* The update is complete. *)

\* Where one component D alone sees two vertices of a clique that have no edge,
\* another separator cuts off what D does not see of the clique.
LEMMA CrossingSeparator ==
  ASSUME NEW g, IsGraph(g), NEW K \in SUBSET V(g), IsPmc(g, K), NEW D \in Components(g, K),
         NEW a \in K \ NeighborsOf(g, D),
         NEW u \in NeighborsOf(g, D), NEW w \in NeighborsOf(g, D), u # w, ~HasEdge(g, u, w),
         \A E \in Components(g, K) : u \in NeighborsOf(g, E) /\ w \in NeighborsOf(g, E) => E = D
  PROVE  \E T : /\ IsMinimalSeparator(g, T)
                /\ T \cap FindComponent(g, NeighborsOf(g, D), a) = K \ NeighborsOf(g, D)
<1> DEFINE S == NeighborsOf(g, D)
           A == FindComponent(g, S, a)
<1>1. S \subseteq K /\ D \in Components(g, S)
  BY NeighborsBlocked, ComponentOfNeighborhood
<1>2. a \in V(g) \ S /\ a \in A /\ A \subseteq V(g) \ S /\ IsClosed(g, S, A) /\ A \in Components(g, S)
  BY ComponentClosed DEF Components
<1>3. A \cap D = {}
  <2>1. a \notin D
    BY ComponentsMember
  <2> QED
    BY <1>1, <1>2, <2>1, ComponentsApart
<1>4. K \ S \subseteq A
  BY RestIsConnected
<1>5. \A e \in A : FindComponent(g, S, e) = A
  BY <1>2, ComponentOfMember
<1> HIDE DEF A
<1> DEFINE W == (A \ K) \cup {u, w}
           Rest == V(g) \ W
           Cu == FindComponent(g, Rest, u)
           N(C) == NeighborsOf(g, C)
<1>6. u \in K /\ w \in K /\ u \in V(g) \ Rest /\ w \in V(g) \ Rest /\ W \subseteq V(g)
  BY <1>1, <1>2
<1>7. u \in Cu /\ Cu \subseteq W /\ IsClosed(g, Rest, Cu) /\ Cu \in Components(g, Rest)
  BY <1>6, ComponentClosed DEF Components
<1>8. w \notin Cu
  <2> DEFINE Z == {u} \cup {z \in A \ K : u \in N(FindComponent(g, K, z))}
  <2>1. ASSUME NEW z \in A \ K
        PROVE  LET E == FindComponent(g, K, z)
               IN  /\ E \in Components(g, K) /\ z \in E /\ IsClosed(g, K, E)
                   /\ E # D
                   /\ \A y \in V(g) \ E : HasEdge(g, z, y) => y \in N(E)
    <3> DEFINE E == FindComponent(g, K, z)
    <3>1. z \in V(g) \ K
      BY <1>2
    <3>2. E \in Components(g, K) /\ z \in E /\ IsClosed(g, K, E)
      BY <3>1, ComponentClosed DEF Components
    <3>3. E # D
      BY <1>3, <3>2
    <3>4. \A y \in V(g) \ E : HasEdge(g, z, y) => y \in N(E)
      BY <3>2, EdgeSymmetric DEF NeighborsOf
    <3> QED
      BY <3>2, <3>3, <3>4
  <2>2. ASSUME NEW z \in Z, NEW y \in W, HasEdge(g, z, y)
        PROVE  y \in Z
    <3>1. CASE z = u
      <4>1. y # w
        BY <2>2, <3>1
      <4>2. ASSUME y \in A \ K PROVE u \in N(FindComponent(g, K, y))
        <5>1. u \in V(g) \ FindComponent(g, K, y)
          BY <1>6, <2>1, <4>2, ComponentsMember
        <5>2. HasEdge(g, y, u)
          BY <2>2, <3>1, EdgeSymmetric
        <5> QED
          BY <2>1, <4>2, <5>1, <5>2
      <4> QED
        BY <4>1, <4>2
    <3>2. CASE z # u
      <4> DEFINE E == FindComponent(g, K, z)
      <4>1. z \in A \ K /\ u \in N(E)
        BY <3>2
      <4>2. /\ E \in Components(g, K) /\ z \in E /\ IsClosed(g, K, E) /\ E # D
            /\ \A t \in V(g) \ E : HasEdge(g, z, t) => t \in N(E)
        BY <2>1, <4>1
      <4>3. E \cap K = {} /\ \A e \in E : E = FindComponent(g, K, e)
        BY <4>2, ComponentsMember
      <4> HIDE DEF E
      <4>4. y # w
        <5> SUFFICES ASSUME y = w PROVE FALSE
          OBVIOUS
        <5>1. w \in N(E)
          BY <1>6, <2>2, <4>2, <4>3
        <5> QED
          BY <4>1, <4>2, <5>1
      <4>5. ASSUME y \in A \ K PROVE u \in N(FindComponent(g, K, y))
        <5>1. y \in V(g) \ K
          BY <1>2, <4>5
        <5>2. y \in E
          BY <2>2, <4>2, <5>1 DEF IsClosed
        <5> QED
          BY <4>1, <4>3, <5>2
      <4> QED
        BY <4>4, <4>5
    <3> QED
      BY <3>1, <3>2
  <2>3. Z \in SUBSET (V(g) \ Rest) /\ V(g) \ Rest = W /\ u \in Z /\ w \notin Z
    BY <1>6
  <2> HIDE DEF Z, W, Rest
  <2>4. IsClosed(g, Rest, Z)
    BY <2>2, <2>3 DEF IsClosed
  <2>5. Cu \subseteq Z
    BY <1>6, <2>3, <2>4, ComponentClosed
  <2> QED
    BY <2>3, <2>5
<1>9. N(Cu) \subseteq Rest /\ Cu \in Components(g, N(Cu)) /\ Cu = FindComponent(g, N(Cu), u)
      /\ Cu = FindComponent(g, Rest, u)
  <2>1. N(Cu) \subseteq Rest
    BY <1>7, NeighborsBlocked
  <2>2. Cu \in Components(g, N(Cu))
    BY <1>7, ComponentOfNeighborhood
  <2> HIDE DEF Cu
  <2>3. Cu = FindComponent(g, N(Cu), u)
    BY <1>7, <2>2, ComponentsMember
  <2> QED
    BY <2>1, <2>2, <2>3 DEF Cu
<1> HIDE DEF Cu
<1> DEFINE B == FindComponent(g, N(Cu), w)
<1>10. w \in V(g) \ N(Cu) /\ u \in V(g) \ N(Cu)
  BY <1>6, <1>9
<1>11. w \in B /\ B \subseteq V(g) \ N(Cu) /\ IsClosed(g, N(Cu), B) /\ B \in Components(g, N(Cu))
  BY <1>10, ComponentClosed DEF Components
<1>12. \A e \in B : FindComponent(g, N(Cu), e) = B
  BY <1>10, ComponentOfMember
<1> HIDE DEF B
<1>13. u \notin B
  BY <1>8, <1>9, <1>11, <1>12
<1>14. N(B) \subseteq N(Cu)
  BY <1>11, NeighborsBlocked
<1>15. IsMinimalSeparator(g, N(B))
  <2>1. u \in V(g) \ B /\ u \notin N(B)
    BY <1>10, <1>13, <1>14
  <2>2. ASSUME NEW t \in N(B)
        PROVE  \E y \in FindComponent(g, N(B), u) : HasEdge(g, y, t)
    <3>1. PICK y \in Cu : HasEdge(g, t, y)
      BY <1>14, <2>2 DEF NeighborsOf
    <3>2. Cu \subseteq FindComponent(g, N(B), u)
      BY <1>9, <1>10, <1>14, ComponentGrows
    <3> QED
      BY <3>1, <3>2, EdgeSymmetric
  <2> QED
    BY <1>11, <2>1, <2>2, OtherSideSees
<1>16. ASSUME NEW k \in K \ S, NEW p \in {u, w}, ~HasEdge(g, p, k)
       PROVE  \E E \in Components(g, K) : E \subseteq W \ K /\ p \in N(E) /\ k \in N(E)
  <2>1. p \in K /\ p \in S /\ p # k
    BY <1>6, <1>16
  <2>2. PICK E \in Components(g, K) : p \in N(E) /\ k \in N(E)
    BY <1>16, <2>1, PmcTest DEF IsCovered
  <2>3. PICK e \in E : HasEdge(g, k, e)
    BY <2>2 DEF NeighborsOf
  <2>4. e \in V(g) \ K /\ E = FindComponent(g, K, e) /\ E \cap K = {}
    BY ComponentsMember
  <2>5. e \in A
    BY <1>1, <1>2, <1>4, <2>3, <2>4 DEF IsClosed
  <2>6. E \subseteq A
    BY <1>1, <1>5, <2>4, <2>5, ComponentGrows
  <2> QED
    BY <2>2, <2>4, <2>6
<1>17. ASSUME NEW k \in K \ S PROVE k \in N(B)
  <2>1. k \in V(g) \ W /\ k # u /\ k # w
    BY <1>6
  <2>2. k \in N(Cu)
    <3>1. k \in V(g) \ Cu
      BY <1>7, <2>1
    <3>2. CASE HasEdge(g, u, k)
      BY <1>7, <3>1, <3>2, EdgeSymmetric DEF NeighborsOf
    <3>3. CASE ~HasEdge(g, u, k)
      <4>1. PICK E \in Components(g, K) : E \subseteq W \ K /\ u \in N(E) /\ k \in N(E)
        BY <1>16, <3>3
      <4>2. PICK e \in E : HasEdge(g, u, e)
        BY <4>1 DEF NeighborsOf
      <4>3. e \in V(g) \ Rest /\ E \cap Rest = {}
        BY <1>6, <4>1
      <4>4. e \in Cu
        BY <1>7, <4>2, <4>3 DEF IsClosed
      <4> HIDE DEF Rest
      <4>5. FindComponent(g, Rest, e) = Cu
        BY <1>6, <1>9, <4>4, ComponentOfMember
      <4>6. E \subseteq Cu
        BY <4>3, <4>5, ComponentSpared
      <4> QED
        BY <3>1, <4>1, <4>6 DEF NeighborsOf
    <3> QED
      BY <3>2, <3>3
  <2>3. k \in V(g) \ B
    BY <1>11, <2>1, <2>2
  <2>4. CASE HasEdge(g, w, k)
    BY <1>11, <2>3, <2>4, EdgeSymmetric DEF NeighborsOf
  <2>5. CASE ~HasEdge(g, w, k)
    <3>1. PICK E \in Components(g, K) : E \subseteq W \ K /\ w \in N(E) /\ k \in N(E)
      BY <1>16, <2>5
    <3>2. PICK e \in E : HasEdge(g, w, e)
      BY <3>1 DEF NeighborsOf
    <3>3. e \in V(g) \ N(Cu) /\ E \cap N(Cu) = {}
      BY <1>6, <1>9, <3>1
    <3>4. e \in B
      BY <1>11, <3>2, <3>3 DEF IsClosed
    <3>5. E \subseteq B
      BY <1>12, <3>3, <3>4, ComponentSpared
    <3> QED
      BY <2>3, <3>1, <3>5 DEF NeighborsOf
  <2> QED
    BY <2>4, <2>5
<1>18. N(B) \cap A = K \ S
  <2>1. ASSUME NEW t \in N(B) \cap A PROVE t \in K \ S
    BY <1>2, <1>9, <1>14, <2>1
  <2> QED
    BY <1>4, <1>17, <2>1
<1> QED
  BY <1>15, <1>18 DEF A

\* A pair that a component without v sees was covered before.
LEMMA CoveredOff ==
  ASSUME NEW g, IsGraph(g), NEW v \in V(g), NEW P \in SUBSET V(g), v \notin P,
         NEW C \in Components(g, P), v \notin C,
         NEW u \in NeighborsOf(g, C), NEW w \in NeighborsOf(g, C)
  PROVE  IsCovered(Before(g, v), P, u, w)
<1>1. /\ C \in Components(Before(g, v), P)
      /\ u \in NeighborsOf(Before(g, v), C) /\ w \in NeighborsOf(Before(g, v), C)
  BY BeforeOff
<1> QED
  BY <1>1 DEF IsCovered

\* A clique without v that was none before is a new separator with what another
\* separator has in one component.
LEMMA NewClique ==
  ASSUME NEW g, IsGraph(g), NEW v \in V(g), NEW K \in SUBSET V(g), v \notin K, K # {},
         IsPmc(g, K), ~IsPmc(Before(g, v), K)
  PROVE  \E S, C, T : /\ IsMinimalSeparator(g, S) /\ ~IsMinimalSeparator(Before(g, v), S)
                      /\ v \notin S /\ C \in Components(g, S)
                      /\ IsMinimalSeparator(g, T) /\ T \cap C # {} /\ K = S \cup (T \cap C)
<1> DEFINE h == Before(g, v)
<1>1. IsGraph(h) /\ K \in SUBSET V(h) /\ V(h) = V(g)
  BY BeforeGraph
<1>2. \A C \in Components(g, K) : NeighborsOf(g, C) # K
  BY NoFullComponent
<1>3. ASSUME NEW C \in Components(h, K) PROVE NeighborsOf(h, C) # K
  <2>1. PICK D \in Components(g, K) : NeighborsOf(h, C) \subseteq NeighborsOf(g, D)
    BY BeforeGrows
  <2>2. NeighborsOf(g, D) \subseteq K
    BY NeighborsBlocked
  <2> HIDE DEF h
  <2> QED
    BY <1>2, <2>1, <2>2
<1>4. PICK u \in K, w \in K : u # w /\ ~IsCovered(h, K, u, w)
  BY <1>1, <1>3, PmcTest
<1>5. ASSUME NEW C \in Components(g, K), u \in NeighborsOf(g, C), w \in NeighborsOf(g, C)
      PROVE  v \in C
  BY <1>4, <1>5, CoveredOff
<1>6. ~HasEdge(g, u, w)
  <2>1. ~HasEdge(h, u, w) /\ u # v /\ w # v
    BY <1>4 DEF IsCovered
  <2> QED
    BY <2>1, BeforeGraph
<1>7. PICK D \in Components(g, K) : u \in NeighborsOf(g, D) /\ w \in NeighborsOf(g, D)
  BY <1>4, <1>6, PmcTest DEF IsCovered
<1> DEFINE S == NeighborsOf(g, D)
<1>8. v \in D /\ S \subseteq K /\ S # K
  BY <1>2, <1>5, <1>7, NeighborsBlocked
<1>9. ASSUME NEW E \in Components(g, K), u \in NeighborsOf(g, E), w \in NeighborsOf(g, E)
      PROVE  E = D
  BY <1>5, <1>8, <1>9, ComponentsApart
<1>10. PICK a \in K \ S :
         LET A == FindComponent(g, S, a)
         IN  A \in Components(g, S) /\ A \cap D = {} /\ NeighborsOf(g, A) = S
  BY OtherSide
<1> DEFINE A == FindComponent(g, S, a)
<1>11. /\ A \in Components(g, S) /\ A \cap D = {} /\ NeighborsOf(g, A) = S
       /\ D \in Components(g, S) /\ D # {} /\ K \ S \subseteq A
  BY <1>10, ComponentOfNeighborhood, ComponentsMember, RestIsConnected
<1>12. IsMinimalSeparator(g, S)
  BY <1>11 DEF IsMinimalSeparator
<1>13. PICK T : IsMinimalSeparator(g, T) /\ T \cap A = K \ S
  BY <1>4, <1>6, <1>7, <1>9, CrossingSeparator
<1> HIDE DEF A, S
<1>14. ASSUME NEW P \in Components(h, S), NeighborsOf(h, P) = S
       PROVE  P = A
  <2>1. A \in Components(h, S)
    BY <1>8, <1>11, BeforeOff
  <2>2. P \cap K # {}
    <3> SUFFICES ASSUME P \cap K = {} PROVE FALSE
      OBVIOUS
    <3>1. PICK p \in P : p \in V(h) \ S /\ P = FindComponent(h, S, p)
      BY ComponentsMember
    <3>2. p \in V(h) \ K /\ P \subseteq FindComponent(h, K, p)
      BY ComponentSpared
    <3>3. FindComponent(h, K, p) \subseteq P
      BY <1>8, <3>1, <3>2, ComponentGrows
    <3>4. P = FindComponent(h, K, p)
      BY <3>2, <3>3
    <3>5. P \in Components(h, K)
      BY <3>2, <3>4 DEF Components
    <3> QED
      BY <1>4, <1>7, <1>14, <3>5 DEF IsCovered, S
  <2>3. PICK p \in P : p \in K /\ p \notin S
    BY <2>2, ComponentsMember
  <2> QED
    BY <1>11, <2>1, <2>3, ComponentsApart
<1>15. ~IsMinimalSeparator(h, S)
  BY <1>14 DEF IsMinimalSeparator
<1>16. v \notin S /\ T \cap A # {} /\ K = S \cup (T \cap A)
  BY <1>8, <1>13
<1> QED
  BY <1>11, <1>12, <1>13, <1>15, <1>16

\* A clique with v is an old one or a minimal separator, and v.
LEMMA CliqueWith ==
  ASSUME NEW g, IsGraph(g), NEW v \in V(g), Neighbors(g, v) # {},
         NEW P \in SUBSET V(g), v \notin P, IsPmc(g, P \cup {v})
  PROVE  /\ P # {} /\ Extends(g, P, v)
         /\ \/ IsPmc(Before(g, v), P) /\ HasFullComponent(g, P)
            \/ IsMinimalSeparator(g, P) /\ ~HasFullComponent(g, P \cup {v})
<1> DEFINE h == Before(g, v)
           Q == P \cup {v}
<1>1. IsGraph(h) /\ P \in SUBSET V(h) /\ Q \in SUBSET V(g)
  BY BeforeGraph
<1>2. /\ \A u, w \in Q : u # w => IsCovered(g, Q, u, w)
      /\ \A C \in Components(g, Q) : NeighborsOf(g, C) # Q
  BY <1>1, PmcTest
<1>3. P # {}
  <2> SUFFICES ASSUME P = {} PROVE FALSE
    OBVIOUS
  <2>1. PICK y \in V(g) : HasEdge(g, y, v)
    BY DEF Neighbors
  <2>2. y # v
    BY <2>1, PairsMember DEF IsGraph, HasEdge
  <2> DEFINE C == FindComponent(g, Q, y)
  <2>3. C \in Components(g, Q) /\ y \in C /\ C \subseteq V(g) \ Q
    BY <2>2, ComponentClosed DEF Components
  <2>4. NeighborsOf(g, C) \subseteq Q
    BY <2>3, NeighborsBlocked
  <2> HIDE DEF C
  <2>5. v \in NeighborsOf(g, C)
    BY <2>1, <2>3, EdgeSymmetric DEF NeighborsOf
  <2> QED
    BY <1>2, <2>3, <2>4, <2>5
<1>4. Extends(g, P, v)
  BY <1>2, ExtendsTest
<1> DEFINE X == FindComponent(g, P, v)
<1>5. X \in Components(g, P) /\ v \in X /\ NeighborsOf(g, X) = P
  <2>1. X \in Components(g, P) /\ v \in X
    BY ComponentClosed DEF Components
  <2>2. NeighborsOf(g, X) \subseteq P
    BY <2>1, NeighborsBlocked
  <2>3. P \subseteq NeighborsOf(g, X)
    BY <1>4 DEF Extends
  <2> QED
    BY <2>1, <2>2, <2>3
<1> HIDE DEF X
<1>6. HasFullComponent(g, P) /\ ~HasFullComponent(g, Q)
  BY <1>2, <1>5 DEF HasFullComponent
<1>7. ASSUME ~IsPmc(h, P) PROVE IsMinimalSeparator(g, P)
  <2>1. \A u, w \in P : u # w => IsCovered(h, P, u, w)
    BY <1>2, CoveredWith
  <2>2. PICK E \in Components(h, P) : NeighborsOf(h, E) = P
    BY <1>1, <1>7, <2>1, PmcTest
  <2>3. E \in Components(g, Q)
    BY <1>3, <2>2, BeforeComponents
  <2>4. NeighborsOf(h, E) = NeighborsOf(g, E) \ {v}
    BY <2>3, BeforeComponents
  <2>5. NeighborsOf(g, E) = P
    <3>1. NeighborsOf(g, E) \subseteq Q /\ NeighborsOf(g, E) # Q
      BY <1>2, <2>3, NeighborsBlocked
    <3> HIDE DEF h
    <3> QED
      BY <2>2, <2>4, <3>1
  <2>6. E \in Components(g, P)
    BY <2>3, <2>5, ComponentOfNeighborhood
  <2>7. E # X
    BY <1>5, <2>3, ComponentsMember
  <2> QED
    BY <1>5, <2>5, <2>6, <2>7 DEF IsMinimalSeparator
<1> QED
  BY <1>3, <1>4, <1>6, <1>7

-----------------------------------------------------------------------------
(* The cliques of Pmcs. *)

PmcsIn(g, S) == {K \in (SUBSET S) \ {{}} : IsPmc(g, K)}

\* pmcs and minseps are those of the graph before the last vertex until
\* OneMoreVertex has taken it into account.
CliquesInv ==
  ub = NoBound =>
    /\ pc = "pmcs" => minseps = {}
    /\ pc \in {"add", "seed", "expand", "update"} =>
         new_graph = [n |-> new_graph.n, adj |-> new_graph.adj]
    /\ pc = "add" => /\ pmcs = PmcsIn(new_graph, added)
                     /\ minseps \subseteq MinimalSeparators(new_graph)
    /\ pc \in {"seed", "expand", "update"} =>
         /\ Neighbors(new_graph, x) # {}
         /\ pmcs = PmcsIn(Before(new_graph, x), added \ {x})
         /\ minseps \subseteq MinimalSeparators(Before(new_graph, x))

\* What OneMoreVertex relies on.
LEMMA UpdateFacts ==
  ASSUME Inv, HasEdges, CliquesInv, pc = "update"
  PROVE  /\ IsGraph(new_graph) /\ x \in V(new_graph) /\ x \in added /\ added \in SUBSET V(new_graph)
         /\ Neighbors(new_graph, x) # {}
         /\ \A P : P \in pmcs <=> P \in SUBSET (added \ {x}) /\ P # {} /\ IsPmc(Before(new_graph, x), P)
         /\ \A S : S \in found <=> IsMinimalSeparator(new_graph, S)
         /\ \A S \in found : S \in SUBSET added
         /\ \A S \in minseps : IsMinimalSeparator(Before(new_graph, x), S)
<1>1. ub = NoBound /\ IsGraph(new_graph) /\ added \in SUBSET V(new_graph) /\ x \in added
  BY DEF Inv, InputInv, PmcsInv, TypeOK
<1>2. /\ Neighbors(new_graph, x) # {}
      /\ pmcs = PmcsIn(Before(new_graph, x), added \ {x})
      /\ minseps \subseteq MinimalSeparators(Before(new_graph, x))
  BY <1>1 DEF CliquesInv
<1>3. found \subseteq SUBSET added
  BY FoundAmongAdded
<1>4. found = MinimalSeparators(new_graph)
  <2>1. new_graph.adj # {}
    BY <1>1 DEF HasEdges
  <2>2. IsSearched(new_graph, found) /\ found \subseteq MinimalSeparators(new_graph)
    BY DEF Inv, FoundInv
  <2> QED
    BY <1>1, <2>1, <2>2, AllSeparatorsFound
<1>5. \A S : S \in found <=> IsMinimalSeparator(new_graph, S)
  BY <1>4, SeparatorVertices DEF MinimalSeparators
<1>6. \A P : P \in pmcs <=> P \in SUBSET (added \ {x}) /\ P # {} /\ IsPmc(Before(new_graph, x), P)
  BY <1>2 DEF PmcsIn
<1>7. \A S \in minseps : IsMinimalSeparator(Before(new_graph, x), S)
  BY <1>2 DEF MinimalSeparators
<1> QED
  BY <1>1, <1>2, <1>3, <1>5, <1>6, <1>7

\* OneMoreVertex invents no clique.
LEMMA UpdateSound ==
  ASSUME Inv, HasEdges, CliquesInv, pc = "update",
         NEW K \in OldPmcs(new_graph) \cup PmcsWithX(new_graph) \cup PmcsFromPairs(new_graph)
  PROVE  K \in PmcsIn(new_graph, added)
<1> DEFINE g == new_graph
<1>1. /\ IsGraph(g) /\ x \in V(g) /\ x \in added /\ added \in SUBSET V(g)
      /\ \A P : P \in pmcs <=> P \in SUBSET (added \ {x}) /\ P # {} /\ IsPmc(Before(g, x), P)
      /\ \A S : S \in found <=> IsMinimalSeparator(g, S)
      /\ \A S \in found : S \in SUBSET added
  BY UpdateFacts
<1> HIDE DEF g
<1>2. ASSUME NEW P \in pmcs, ~HasFullComponent(g, P)
      PROVE  P \in PmcsIn(g, added)
  <2>1. P \in SUBSET V(g) /\ x \notin P /\ IsPmc(Before(g, x), P) /\ P # {} /\ P \in SUBSET added
    BY <1>1
  <2>2. IsPmc(g, P)
    BY <1>1, <1>2, <2>1, OldIsPmc
  <2> QED
    BY <2>1, <2>2 DEF PmcsIn
<1>3. ASSUME NEW P \in pmcs, Extends(g, P, x)
      PROVE  P \cup {x} \in PmcsIn(g, added)
  <2>1. P \in SUBSET V(g) /\ x \notin P /\ IsPmc(Before(g, x), P) /\ P # {} /\ P \in SUBSET added
    BY <1>1
  <2>2. IsPmc(g, P \cup {x})
    BY <1>1, <1>3, <2>1, OldWithIsPmc
  <2>3. P \cup {x} \in SUBSET added /\ P \cup {x} # {}
    BY <1>1, <2>1
  <2> QED
    BY <2>2, <2>3 DEF PmcsIn
<1>4. ASSUME NEW S \in found, x \notin S, Extends(g, S, x), ~HasFullComponent(g, S \cup {x})
      PROVE  S \cup {x} \in PmcsIn(g, added)
  <2>1. IsMinimalSeparator(g, S)
    BY <1>1
  <2>2. IsPmc(g, S \cup {x})
    BY <1>1, <1>4, <2>1, SeparatorWithIsPmc
  <2>3. S \cup {x} \in SUBSET added /\ S \cup {x} # {}
    BY <1>1
  <2> QED
    BY <2>2, <2>3 DEF PmcsIn
<1>5. ASSUME NEW S \in found, NEW C, NEW T \in found, T \cap C # {}, IsPmcByDfs(g, S \cup (T \cap C))
      PROVE  S \cup (T \cap C) \in PmcsIn(g, added)
  <2>1. S \cup (T \cap C) \in SUBSET added /\ S \cup (T \cap C) # {}
    BY <1>1, <1>5
  <2>2. S \cup (T \cap C) \in SUBSET V(g)
    BY <1>1, <2>1
  <2>3. IsPmc(g, S \cup (T \cap C))
    BY <1>1, <1>5, <2>2, DfsTest
  <2> QED
    BY <2>1, <2>3 DEF PmcsIn
<1>6. CASE K \in OldPmcs(g)
  BY <1>2, <1>3, <1>6 DEF OldPmcs, g
<1>7. CASE K \in PmcsWithX(g)
  BY <1>4, <1>7 DEF PmcsWithX, SeparatorsOffX, g
<1>8. CASE K \in PmcsFromPairs(g)
  <2>1. PICK S \in SeparatorsOffX \ minseps :
          \E C \in Components(g, S) : K \in {S \cup (T \cap C) : T \in {U \in found : U \cap C # {}}}
    BY <1>8 DEF PmcsFromPairs
  <2>2. PICK C \in Components(g, S) : K \in {S \cup (T \cap C) : T \in {U \in found : U \cap C # {}}}
    BY <2>1
  <2>3. PICK T \in found : T \cap C # {} /\ K = S \cup (T \cap C)
    BY <2>2
  <2>4. S \in found /\ IsPmcByDfs(g, K)
    BY <1>8 DEF SeparatorsOffX, PmcsFromPairs
  <2> QED
    BY <1>5, <2>3, <2>4 DEF g
<1> QED
  BY <1>6, <1>7, <1>8 DEF g

\* OneMoreVertex loses no clique.
LEMMA UpdateComplete ==
  ASSUME Inv, HasEdges, CliquesInv, pc = "update", NEW K \in PmcsIn(new_graph, added)
  PROVE  K \in OldPmcs(new_graph) \cup PmcsWithX(new_graph) \cup PmcsFromPairs(new_graph)
<1> DEFINE g == new_graph
<1>1. /\ IsGraph(g) /\ x \in V(g) /\ x \in added /\ added \in SUBSET V(g)
      /\ Neighbors(g, x) # {}
      /\ \A P : P \in pmcs <=> P \in SUBSET (added \ {x}) /\ P # {} /\ IsPmc(Before(g, x), P)
      /\ \A S : S \in found <=> IsMinimalSeparator(g, S)
      /\ \A S \in minseps : IsMinimalSeparator(Before(g, x), S)
  BY UpdateFacts
<1>2. K \in SUBSET added /\ K # {} /\ IsPmc(g, K) /\ K \in SUBSET V(g)
  BY <1>1 DEF PmcsIn
<1> HIDE DEF g
<1>3. CASE x \in K
  <2> DEFINE P == K \ {x}
  <2>1. P \cup {x} = K /\ P \in SUBSET V(g) /\ x \notin P /\ P \in SUBSET (added \ {x})
    BY <1>2, <1>3
  <2> HIDE DEF P
  <2>2. IsPmc(g, P \cup {x})
    BY <1>2, <2>1
  <2>3. /\ P # {} /\ Extends(g, P, x)
        /\ \/ IsPmc(Before(g, x), P) /\ HasFullComponent(g, P)
           \/ IsMinimalSeparator(g, P) /\ ~HasFullComponent(g, P \cup {x})
    BY <1>1, <2>1, <2>2, CliqueWith
  <2>4. CASE IsPmc(Before(g, x), P) /\ HasFullComponent(g, P)
    <3>1. P \in pmcs
      BY <1>1, <2>1, <2>3, <2>4
    <3>2. K \in OldPmcs(g)
      BY <2>1, <2>3, <2>4, <3>1 DEF OldPmcs
    <3> QED
      BY <3>2 DEF g
  <2>5. CASE IsMinimalSeparator(g, P) /\ ~HasFullComponent(g, P \cup {x})
    <3>1. P \in SeparatorsOffX
      BY <1>1, <2>1, <2>5 DEF SeparatorsOffX
    <3>2. K \in PmcsWithX(g)
      BY <2>1, <2>3, <2>5, <3>1 DEF PmcsWithX
    <3> QED
      BY <3>2 DEF g
  <2> QED
    BY <2>3, <2>4, <2>5
<1>4. CASE x \notin K /\ IsPmc(Before(g, x), K)
  <2>1. K \in pmcs
    BY <1>1, <1>2, <1>4
  <2>2. ~HasFullComponent(g, K)
    BY <1>2, NoFullComponent DEF HasFullComponent
  <2>3. K \in OldPmcs(g)
    BY <2>1, <2>2 DEF OldPmcs
  <2> QED
    BY <2>3 DEF g
<1>5. CASE x \notin K /\ ~IsPmc(Before(g, x), K)
  <2>1. PICK S, C, T :
          /\ IsMinimalSeparator(g, S) /\ ~IsMinimalSeparator(Before(g, x), S)
          /\ x \notin S /\ C \in Components(g, S)
          /\ IsMinimalSeparator(g, T) /\ T \cap C # {} /\ K = S \cup (T \cap C)
    BY <1>1, <1>2, <1>5, NewClique
  <2>2. S \in SeparatorsOffX \ minseps /\ T \in {U \in found : U \cap C # {}}
    BY <1>1, <2>1 DEF SeparatorsOffX
  <2>3. IsPmcByDfs(g, K)
    BY <1>1, <1>2, DfsTest
  <2>4. K \in {S \cup (U \cap C) : U \in {W \in found : W \cap C # {}}}
    BY <2>1, <2>2
  <2>5. K \in UNION {{S \cup (U \cap D) : U \in {W \in found : W \cap D # {}}} : D \in Components(g, S)}
    BY <2>1, <2>4
  <2>6. K \in PmcsFromPairs(g)
    BY <2>2, <2>3, <2>5 DEF PmcsFromPairs
  <2> QED
    BY <2>6 DEF g
<1> QED
  BY <1>3, <1>4, <1>5

\* The first vertex is the only clique of its graph without edges.
LEMMA StartCliques ==
  ASSUME Inv, CliquesInv, StartPmcs
  PROVE  CliquesInv'
<1> USE DEF Inv
<1>1. pc = "pmcs" /\ ub = NoBound /\ UNCHANGED <<ub, minseps>>
  BY DEF StartPmcs, InputInv
<1>2. PICK v \in V(graphs[1]) : added' = {v} /\ pmcs' = {{v}}
  BY DEF StartPmcs, NextInOrder
<1>3. /\ new_graph' = [n |-> graphs[1].n, adj |-> {}] /\ pc' \in {"add", "done"}
      /\ IsGraph(graphs[1])
  BY <1>1, InputFacts DEF StartPmcs
<1> DEFINE h == [n |-> graphs[1].n, adj |-> {}]
<1>4. IsGraph(h) /\ V(h) = V(graphs[1]) /\ \A u, w : ~HasEdge(h, u, w)
  BY <1>3 DEF IsGraph, V, HasEdge
<1>5. minseps = {}
  BY <1>1 DEF CliquesInv
<1> HIDE DEF h
<1>6. IsPmc(h, {v})
  <2>1. {v} \in SUBSET V(h)
    BY <1>2, <1>4
  <2>2. \A C \in Components(h, {v}) : NeighborsOf(h, C) # {v}
    BY <1>4 DEF NeighborsOf
  <2> QED
    BY <1>4, <2>1, <2>2, PmcTest
<1>7. PmcsIn(h, {v}) = {{v}}
  <2>1. \A K : K \in (SUBSET {v}) \ {{}} <=> K = {v}
    OBVIOUS
  <2> QED
    BY <1>6, <2>1 DEF PmcsIn
<1>8. new_graph' = h /\ h = [n |-> h.n, adj |-> h.adj]
  BY <1>3 DEF h
<1> QED
  BY <1>1, <1>2, <1>3, <1>5, <1>7, <1>8 DEF CliquesInv

\* Before the edges of the vertex that AddVertex adds, the graph is the old one.
LEMMA AddCliques ==
  ASSUME Inv, ConnectedInputs, CliquesInv, AddVertex
  PROVE  CliquesInv'
<1> USE DEF Inv
<1>1. ub = NoBound /\ pc = "add" /\ UNCHANGED <<graphs, ub, pmcs, minseps>> /\ pc' \in {"seed", "done"}
  BY DEF AddVertex, InputInv
<1>2. PICK v \in NextInOrder(graphs[1], added) :
        /\ x' = v /\ added' = added \cup {v}
        /\ new_graph' = [new_graph EXCEPT !.adj =
                            @ \cup {{v, w} : w \in Neighbors(graphs[1], v) \cap added}]
  BY DEF AddVertex
<1>3. graphs[1] \in CombGraphs /\ IsGraph(graphs[1])
  BY <1>1, InputFacts
<1>4. added # {} /\ added \in SUBSET V(graphs[1]) /\ V(new_graph) = V(graphs[1])
      /\ new_graph.adj = {e \in graphs[1].adj : e \subseteq added}
  BY <1>1 DEF PmcsInv, TypeOK, V
<1>5. v \in V(graphs[1]) \ added
  BY DEF NextInOrder
<1>6. PICK w \in added : w \in Neighbors(graphs[1], v)
  <2>1. \A C \in Components(graphs[1], {}) : C = V(graphs[1])
    BY <1>3 DEF ConnectedInputs
  <2> QED
    BY <1>3, <1>4, <2>1, NextIsAdjacent
<1> DEFINE New == {{v, t} : t \in Neighbors(graphs[1], v) \cap added}
           Old == [n |-> new_graph.n, adj |-> new_graph.adj]
<1>7. /\ new_graph = Old /\ pmcs = PmcsIn(new_graph, added)
      /\ minseps \subseteq MinimalSeparators(new_graph)
  BY <1>1 DEF CliquesInv
<1>8. new_graph' = [n |-> new_graph.n, adj |-> new_graph.adj \cup New]
  <2>1. new_graph' = [Old EXCEPT !.adj = @ \cup New]
    BY <1>2, <1>7
  <2> HIDE DEF New
  <2> QED
    BY <2>1
<1>9. Before(new_graph', v) = new_graph
  <2>1. {e \in new_graph.adj \cup New : v \notin e} = new_graph.adj
    <3>1. \A e \in new_graph.adj : v \notin e
      BY <1>4, <1>5
    <3>2. \A e \in New : v \in e
      OBVIOUS
    <3> HIDE DEF New
    <3> QED
      BY <3>1, <3>2
  <2> HIDE DEF New
  <2>2. Before(new_graph', v) = [n |-> new_graph.n, adj |-> {e \in new_graph.adj \cup New : v \notin e}]
    BY <1>8 DEF Before
  <2> QED
    BY <1>7, <2>1, <2>2
<1>10. Neighbors(new_graph', v) # {}
  <2>1. V(new_graph') = V(new_graph) /\ {v, w} \in new_graph'.adj
    BY <1>6, <1>8 DEF V
  <2>2. HasEdge(new_graph', w, v) /\ w \in V(new_graph')
    BY <1>4, <2>1, EdgeSymmetric DEF HasEdge
  <2> QED
    BY <2>2 DEF Neighbors
<1>11. added' \ {v} = added
  BY <1>2, <1>5
<1>12. new_graph' = [n |-> new_graph'.n, adj |-> new_graph'.adj]
  BY <1>8
<1> QED
  BY <1>1, <1>2, <1>7, <1>9, <1>10, <1>11, <1>12 DEF CliquesInv

LEMMA UpdateCliques ==
  ASSUME Inv, HasEdges, CliquesInv, OneMoreVertex
  PROVE  CliquesInv'
<1>1. /\ pc = "update" /\ pc' \in {"add", "done"} /\ UNCHANGED <<ub, new_graph, added>>
      /\ pmcs' = OldPmcs(new_graph) \cup PmcsWithX(new_graph) \cup PmcsFromPairs(new_graph)
      /\ minseps' = found
  BY DEF OneMoreVertex
<1>2. pmcs' = PmcsIn(new_graph, added)
  BY <1>1, UpdateSound, UpdateComplete
<1>3. found \subseteq MinimalSeparators(new_graph)
  BY <1>1 DEF Inv, FoundInv
<1> QED
  BY <1>1, <1>2, <1>3 DEF CliquesInv

LEMMA CliquesInvariant ==
  ASSUME ConnectedInputs
  PROVE  Spec => []CliquesInv
<1>1. Init => CliquesInv
  BY DEF Init, CliquesInv
<1>2. Inv /\ HasEdges /\ CliquesInv /\ [Next]_vars => CliquesInv'
  <2> SUFFICES ASSUME Inv, HasEdges, CliquesInv, [Next]_vars PROVE CliquesInv'
    OBVIOUS
  <2>1. CASE StartPmcs
    BY <2>1, StartCliques
  <2>2. CASE AddVertex
    BY <2>2, AddCliques
  <2>3. CASE OneMoreVertex
    BY <2>3, UpdateCliques
  <2>4. CASE SeedMinSeps \/ ExpandMinSep \/ ReturnMinSeps \/ UNCHANGED vars \/ Finished
    <3>1. /\ UNCHANGED <<ub, new_graph, added, x, pmcs, minseps>>
          /\ \/ pc' = pc
             \/ pc \in {"seed", "expand"} /\ pc' \in {"expand", "update", "count"}
      BY <2>4 DEF SeedMinSeps, ExpandMinSep, ReturnMinSeps, vars, Finished
    <3> QED
      BY <3>1 DEF CliquesInv
  <2>5. CASE CountNext
    BY <2>5 DEF CountNext, CliquesInv, Inv, InputInv
  <2>6. CASE ReturnPmcs \/ ReturnCount
    BY <2>6 DEF ReturnPmcs, ReturnCount, CliquesInv
  <2> QED
    BY <2>1, <2>2, <2>3, <2>4, <2>5, <2>6 DEF Next
<1> QED
  BY <1>1, <1>2, InvariantHolds, HasEdgesInvariant, PTL DEF Spec

\* After every vertex of a connected graph, in any order that maximum
\* cardinality search may give, Pmcs has the sets that Graph::IsPmc accepts, and
\* at the end the maximal cliques of the minimal triangulations.
THEOREM PmcsFound ==
  ASSUME ConnectedInputs
  PROVE  Spec => []PmcsExact
<1>1. Inv /\ CliquesInv => PmcsExact
  <2> SUFFICES ASSUME Inv, CliquesInv, pc = "add"
               PROVE  /\ pmcs = {K \in (SUBSET added) \ {{}} : IsPmc(new_graph, K)}
                      /\ added = V(new_graph) => pmcs = PotentialMaximalCliques(new_graph)
    BY DEF PmcsExact
  <2>1. ub = NoBound /\ IsGraph(new_graph)
    BY DEF Inv, InputInv, TypeOK
  <2>2. new_graph.n >= 1
    BY <2>1, InputFacts DEF Inv, PmcsInv
  <2>3. pmcs = {K \in (SUBSET added) \ {{}} : IsPmc(new_graph, K)}
    BY <2>1 DEF CliquesInv, PmcsIn
  <2>4. PotentialMaximalCliques(new_graph)
          = {K \in (SUBSET V(new_graph)) \ {{}} : IsPmc(new_graph, K)}
    BY <2>1, <2>2, TestIsExact
  <2> QED
    BY <2>3, <2>4
<1> QED
  BY <1>1, InvariantHolds, CliquesInvariant, PTL
=============================================================================

------------------------------ MODULE McsLemmas ------------------------------
(***************************************************************************)
(* Lemmas about McsM and Atoms, as functions of the graph: the search by      *)
(* paths, whose fill is a minimal triangulation; the search by buckets, which  *)
(* reaches the same vertices; and the elimination that cuts off the atoms.     *)
(***************************************************************************)
EXTENDS GraphLemmas, SequenceTheorems

-----------------------------------------------------------------------------
(* Numbers, sequences and sets. *)

\* A vertex before an order.
LEMMA Prepend ==
  ASSUME NEW S, NEW s \in Seq(S), NEW y \in S
  PROVE  /\ <<y>> \o s \in Seq(S) /\ Len(<<y>> \o s) = Len(s) + 1 /\ Len(s) \in Nat
         /\ {(<<y>> \o s)[i] : i \in 1 .. Len(<<y>> \o s)} = {s[i] : i \in 1 .. Len(s)} \cup {y}
<1> DEFINE t == <<y>> \o s
<1>1. <<y>> \in Seq(S) /\ Len(<<y>>) = 1 /\ <<y>>[1] = y
  OBVIOUS
<1>2. /\ t \in Seq(S) /\ Len(t) = 1 + Len(s)
      /\ \A i \in 1 .. 1 + Len(s) : t[i] = IF i <= 1 THEN <<y>>[i] ELSE s[i - 1]
  BY <1>1, ConcatProperties
<1>3. Len(s) \in Nat
  BY LenProperties
<1> HIDE DEF t
<1>4. t[1] = y /\ \A i \in 1 .. Len(s) : t[i + 1] = s[i]
  <2>1. 1 \in 1 .. 1 + Len(s) /\ \A i \in 1 .. Len(s) : i + 1 \in 1 .. 1 + Len(s) /\ ~(i + 1 <= 1) /\ i + 1 - 1 = i
    BY <1>3
  <2> QED
    BY <1>1, <1>2, <2>1
<1>5. {t[i] : i \in 1 .. Len(t)} \subseteq {s[i] : i \in 1 .. Len(s)} \cup {y}
  <2> SUFFICES ASSUME NEW i \in 1 .. Len(t), i # 1
               PROVE  \E j \in 1 .. Len(s) : t[i] = s[j]
    BY <1>4
  <2>1. i - 1 \in 1 .. Len(s) /\ (i - 1) + 1 = i
    BY <1>2, <1>3
  <2>2. t[(i - 1) + 1] = s[i - 1]
    BY <1>4, <2>1
  <2> QED
    BY <2>1, <2>2
<1>6. {s[i] : i \in 1 .. Len(s)} \cup {y} \subseteq {t[i] : i \in 1 .. Len(t)}
  <2>1. 1 \in 1 .. Len(t) /\ \A j \in 1 .. Len(s) : j + 1 \in 1 .. Len(t)
    BY <1>2, <1>3
  <2> QED
    BY <1>4, <2>1
<1>7. Len(t) = Len(s) + 1
  BY <1>2, <1>3
<1>8. {t[i] : i \in 1 .. Len(t)} = {s[i] : i \in 1 .. Len(s)} \cup {y}
  BY <1>5, <1>6
<1>9. t \in Seq(S) /\ Len(s) \in Nat
  BY <1>2, <1>3
<1> QED
  BY <1>7, <1>8, <1>9 DEF t

\* The largest element, as the scans and the running maximum find it.
LEMMA LargestIs ==
  ASSUME NEW n \in Nat, NEW S \in SUBSET (0 .. n), S # {}
  PROVE  MaxOf(S) \in S /\ \A l \in S : l <= MaxOf(S)
<1>1. S \in SUBSET Nat /\ \A l \in S : l <= n
  OBVIOUS
<1>2. \E m \in S : \A l \in S : l <= m
  BY <1>1, GreatestElement
<1> QED
  BY <1>2 DEF MaxOf

-----------------------------------------------------------------------------
(* Linked sets. *)

\* One vertex is linked.
LEMMA LinkedOne ==
  ASSUME NEW g, NEW v
  PROVE  Linked(g, {v})
BY DEF Linked

\* Two linked sets are linked together where one sees the other.
LEMMA LinkedTogether ==
  ASSUME NEW g, NEW A, NEW B, Linked(g, A), Linked(g, B), NEW a \in A, Sees(g, a, B)
  PROVE  Linked(g, A \cup B)
<1>1. SUFFICES ASSUME NEW T \in SUBSET (A \cup B), T # {}, T # A \cup B,
                      \A u \in T : ~Sees(g, u, (A \cup B) \ T)
               PROVE  FALSE
  BY DEF Linked
<1>2. T \cap A = {} \/ A \subseteq T
  <2>1. SUFFICES ASSUME T \cap A # {}, T \cap A # A PROVE FALSE
    OBVIOUS
  <2>2. PICK u \in T \cap A : Sees(g, u, A \ (T \cap A))
    BY <2>1 DEF Linked
  <2> QED
    BY <1>1, <2>2 DEF Sees
<1>3. T \cap B = {} \/ B \subseteq T
  <2>1. SUFFICES ASSUME T \cap B # {}, T \cap B # B PROVE FALSE
    OBVIOUS
  <2>2. PICK u \in T \cap B : Sees(g, u, B \ (T \cap B))
    BY <2>1 DEF Linked
  <2> QED
    BY <1>1, <2>2 DEF Sees
<1>4. PICK b \in B : HasEdge(g, a, b)
  BY DEF Sees
<1>5. CASE A \subseteq T /\ T \cap B = {}
  BY <1>1, <1>4, <1>5 DEF Sees
<1>6. CASE B \subseteq T /\ T \cap A = {}
  <2>1. HasEdge(g, b, a) /\ b \in T /\ a \in (A \cup B) \ T
    BY <1>4, <1>6, EdgeSymmetric
  <2> QED
    BY <1>1, <2>1 DEF Sees
<1> QED
  BY <1>1, <1>2, <1>3, <1>5, <1>6

\* A linked set without one end, as far as the other end sees it.
LEMMA WithoutEnd ==
  ASSUME NEW g, NEW E \in SUBSET V(g), Linked(g, E), NEW v \in E, NEW u, Sees(g, u, E),
         ~HasEdge(g, u, v)
  PROVE  \E D \in SUBSET (E \ {v}) : Linked(g, D) /\ Sees(g, v, D) /\ Sees(g, u, D)
<1> DEFINE Out == {v}
<1>1. PICK e \in E : HasEdge(g, u, e)
  BY DEF Sees
<1>2. e \in E \ Out /\ E \cap Out # {} /\ \A z \in E \cap Out : z = v
  BY <1>1
<1> HIDE DEF Out
<1>3. PICK D \in SUBSET (E \ Out) :
        /\ e \in D /\ Linked(g, D)
        /\ E \cap Out # {} => \E d \in D, z \in E \cap Out : HasEdge(g, d, z)
  BY <1>2, ReachesOut
<1>4. Sees(g, v, D)
  BY <1>2, <1>3, EdgeSymmetric DEF Sees
<1> QED
  BY <1>1, <1>3, <1>4 DEF Sees, Out

\* A linked set is in the component of each of its vertices.
LEMMA LinkedInComponent ==
  ASSUME NEW g, NEW barred, NEW D \in SUBSET (V(g) \ barred), Linked(g, D), NEW d \in D
  PROVE  D \subseteq FindComponent(g, barred, d)
<1> DEFINE C == FindComponent(g, barred, d)
<1>1. d \in C /\ IsClosed(g, barred, C)
  BY ComponentClosed
<1> HIDE DEF C
<1>2. SUFFICES ASSUME ~(D \subseteq C) PROVE FALSE
  BY DEF C
<1>3. D \cap C # {} /\ D \cap C # D
  BY <1>1, <1>2
<1>4. PICK a \in D \cap C : Sees(g, a, D \ (D \cap C))
  BY <1>3 DEF Linked
<1>5. PICK b \in D \ C : HasEdge(g, a, b)
  BY <1>4 DEF Sees
<1> QED
  BY <1>1, <1>4, <1>5 DEF IsClosed

-----------------------------------------------------------------------------
(* The search by paths. *)

\* v reaches u along vertices of S that weigh less than u.
Joined(g, S, w, v, u) ==
  \E E \in SUBSET (S \cup {v}) : /\ v \in E /\ Linked(g, E) /\ Sees(g, u, E)
                                 /\ \A d \in E \ {v} : w[d] < w[u]

\* The vertices that are raised when v is numbered, after those in R.
RaisedBy(g, R, w, v) == {u \in V(g) \ (R \cup {v}) : Joined(g, V(g) \ (R \cup {v}), w, v, u)}

\* v is the next to be numbered.
Numbers(g, R, F, w, v, F2, w2) ==
  /\ v \in V(g) \ R /\ \A u \in V(g) \ R : w[u] <= w[v]
  /\ F2 = F \cup ({{v, u} : u \in RaisedBy(g, R, w, v)} \ g.adj)
  /\ w2 = [u \in V(g) |-> IF u \in RaisedBy(g, R, w, v) THEN w[u] + 1 ELSE w[u]]

\* v and u both see the linked set D.
Around(g, v, u, D) == Linked(g, D) /\ Sees(g, v, D) /\ Sees(g, u, D)

IsJoined(g, F, u, w) == {u, w} \in g.adj \cup F

SearchTyped(g, R, F, w) ==
  /\ R \subseteq V(g) /\ F \subseteq NonEdges(g) /\ w \in [V(g) -> Nat]
  /\ \A e \in F : e \cap R # {}

\* The weights count the neighbours in the filled graph that are numbered.
WeightsCount(g, R, F, w) ==
  \A u \in V(g) \ R : w[u] = Cardinality({y \in R : IsJoined(g, F, y, u)})

\* A vertex that was reached along lighter ones stays heavier than they are.
StaysReached(g, R, F, w) ==
  \A v \in R : \A u \in V(g) \ R : {v, u} \in F =>
    \E D \in SUBSET (V(g) \ R) : Around(g, v, u, D) /\ \A d \in D : w[d] < w[u]

\* What was not raised has a heavier vertex in its way, for good.
StaysBehind(g, R, F, w) ==
  \A v \in R : \A u \in V(g) \ R : ~IsJoined(g, F, v, u) =>
    \A D \in SUBSET (V(g) \ R) : Around(g, v, u, D) /\ u \notin D => \E d \in D : w[d] > w[u]

\* What is left of the graph is surrounded by cliques of the filled one.
SurroundedByCliques(g, R, F) ==
  \A v, u \in R : v # u /\ ~IsJoined(g, F, v, u) =>
    \A D \in SUBSET (V(g) \ R) : ~Around(g, v, u, D)

Searching(g, R, F, w) ==
  /\ SearchTyped(g, R, F, w) /\ WeightsCount(g, R, F, w)
  /\ StaysReached(g, R, F, w) /\ StaysBehind(g, R, F, w) /\ SurroundedByCliques(g, R, F)

\* From a vertex that sees it, a linked set is entered along vertices lighter
\* than its heaviest ones up to one of these.
LEMMA HeaviestReached ==
  ASSUME NEW g, IsGraph(g), NEW w \in [V(g) -> Nat],
         NEW D \in SUBSET V(g), Linked(g, D), NEW s \in V(g) \ D, Sees(g, s, D)
  PROVE  \E p \in D : /\ \A d \in D : w[d] <= w[p]
                      /\ Joined(g, D, w, s, p)
<1> DEFINE W == {w[d] : d \in D}
<1>1. W \in SUBSET Nat /\ W # {}
  BY DEF Linked
<1>2. IsFiniteSet(D)
  BY VerticesFinite DEF IsGraph
<1>3. IsFiniteSet(W)
  <2> DEFINE f == [d \in D |-> w[d]]
  <2>1. f \in Surjection(D, W)
    BY DEF Surjection
  <2> QED
    BY <1>2, <2>1, FS_Surjection
<1>4. PICK M \in W : \A l \in W : l <= M
  BY <1>1, <1>3, FiniteGreatest
<1> DEFINE Top == {d \in D : w[d] = M}
<1>5. \A d \in D : w[d] \in Nat /\ w[d] <= M
  BY <1>4
<1>6. Linked(g, D \cup {s}) /\ s \in (D \cup {s}) \ Top
  BY LinkedWith
<1>7. (D \cup {s}) \cap Top # {}
  BY <1>4
<1>8. PICK E \in SUBSET ((D \cup {s}) \ Top) :
        /\ s \in E /\ Linked(g, E)
        /\ (D \cup {s}) \cap Top # {} => \E e \in E, u \in (D \cup {s}) \cap Top : HasEdge(g, e, u)
  <2>1. D \cup {s} \in SUBSET V(g)
    OBVIOUS
  <2> HIDE DEF Top
  <2> QED
    BY <1>6, <2>1, ReachesOut
<1>9. PICK e \in E, p \in Top : HasEdge(g, e, p)
  BY <1>7, <1>8
<1>10. Sees(g, p, E)
  BY <1>9, EdgeSymmetric DEF Sees
<1>11. \A d \in E \ {s} : w[d] < w[p]
  <2> SUFFICES ASSUME NEW d \in E \ {s} PROVE w[d] < w[p]
    OBVIOUS
  <2>1. d \in D /\ w[d] # M /\ w[p] = M /\ M \in Nat
    BY <1>1, <1>8, <1>9
  <2> QED
    BY <1>5, <2>1
<1>12. p \in D /\ \A d \in D : w[d] <= w[p]
  BY <1>5, <1>9
<1> QED
  BY <1>8, <1>10, <1>11, <1>12 DEF Joined

\* A way to a goes on through a linked set with a in it.
LEMMA JoinedOn ==
  ASSUME NEW g, IsGraph(g), NEW w \in [V(g) -> Nat], NEW S \in SUBSET V(g), NEW v \in V(g),
         NEW a, Joined(g, S, w, v, a),
         NEW B \in SUBSET S, a \in B, Linked(g, B),
         NEW p \in V(g), Sees(g, p, B), \A d \in B : w[d] < w[p]
  PROVE  Joined(g, S, w, v, p)
<1>1. PICK E \in SUBSET (S \cup {v}) : /\ v \in E /\ Linked(g, E) /\ Sees(g, a, E)
                                       /\ \A d \in E \ {v} : w[d] < w[a]
  BY DEF Joined
<1>2. Linked(g, B \cup E)
  BY <1>1, LinkedTogether
<1>3. Sees(g, p, B \cup E)
  BY DEF Sees
<1>4. \A d \in (B \cup E) \ {v} : w[d] < w[p]
  <2> SUFFICES ASSUME NEW d \in (B \cup E) \ {v} PROVE w[d] < w[p]
    OBVIOUS
  <2>1. w[d] \in Nat /\ w[p] \in Nat /\ w[a] \in Nat /\ w[a] < w[p]
    OBVIOUS
  <2>2. CASE d \in B
    BY <2>2
  <2>3. CASE d \in E \ {v}
    BY <1>1, <2>1, <2>3
  <2> QED
    BY <2>2, <2>3
<1>5. B \cup E \in SUBSET (S \cup {v}) /\ v \in B \cup E
  BY <1>1
<1> QED
  BY <1>2, <1>3, <1>4, <1>5 DEF Joined

\* What one step of the search does.
LEMMA StepFacts ==
  ASSUME NEW g, IsGraph(g), NEW R, NEW F, NEW w, Searching(g, R, F, w),
         NEW v, NEW F2, NEW w2, Numbers(g, R, F, w, v, F2, w2)
  PROVE  /\ R \cup {v} \in SUBSET V(g) /\ v \in V(g) \ R /\ w \in [V(g) -> Nat]
         /\ w2 \in [V(g) -> Nat] /\ F \subseteq F2 /\ F2 \subseteq NonEdges(g)
         /\ \A u \in V(g) \ R : w[u] <= w[v]
         /\ \A u \in V(g) \ (R \cup {v}) :
              IF u \in RaisedBy(g, R, w, v)
              THEN IsJoined(g, F2, v, u) /\ w2[u] = w[u] + 1
              ELSE ~IsJoined(g, F2, v, u) /\ w2[u] = w[u]
         /\ \A u \in V(g) \ R : \A y \in R : IsJoined(g, F2, y, u) <=> IsJoined(g, F, y, u)
         /\ \A u \in R : \A y \in R : IsJoined(g, F2, y, u) <=> IsJoined(g, F, y, u)
         /\ \A e \in F2 : e \in F \/ (v \in e /\ e \cap R = {})
<1> DEFINE Up == RaisedBy(g, R, w, v)
           New == {{v, u} : u \in Up} \ g.adj
<1>1. /\ R \subseteq V(g) /\ F \subseteq NonEdges(g) /\ w \in [V(g) -> Nat]
      /\ \A e \in F : e \cap R # {}
  BY DEF Searching, SearchTyped
<1>2. /\ v \in V(g) \ R /\ \A u \in V(g) \ R : w[u] <= w[v]
      /\ F2 = F \cup New
      /\ w2 = [u \in V(g) |-> IF u \in Up THEN w[u] + 1 ELSE w[u]]
  BY DEF Numbers
<1>3. Up \subseteq V(g) \ (R \cup {v})
  BY DEF RaisedBy
<1> HIDE DEF Up
<1>4. w2 \in [V(g) -> Nat] /\ F \subseteq F2
  BY <1>1, <1>2
<1>5. ASSUME NEW e \in New
      PROVE  v \in e /\ e \cap R = {} /\ e \in NonEdges(g)
  <2>1. PICK u \in Up : e = {v, u}
    BY <1>5
  <2>2. u # v /\ u \in V(g) /\ u \notin R
    BY <1>3
  <2>3. e \in Pairs(V(g))
    BY <1>2, <2>1, <2>2, PairsOf
  <2> QED
    BY <1>2, <1>5, <2>1, <2>2, <2>3 DEF NonEdges
<1>6. F2 \subseteq NonEdges(g)
  BY <1>1, <1>2, <1>5
<1>7. \A e \in F2 : e \in F \/ (v \in e /\ e \cap R = {})
  BY <1>2, <1>5
<1>8. ASSUME NEW u \in V(g) \ (R \cup {v})
      PROVE  IF u \in Up THEN IsJoined(g, F2, v, u) /\ w2[u] = w[u] + 1
                         ELSE ~IsJoined(g, F2, v, u) /\ w2[u] = w[u]
  <2>1. CASE u \in Up
    BY <1>2, <2>1 DEF IsJoined
  <2>2. CASE u \notin Up
    <3>1. {v, u} \notin F
      BY <1>1, <1>2
    <3>2. {v, u} \notin New
      <4> SUFFICES ASSUME NEW z \in Up, {v, u} = {v, z} PROVE FALSE
        OBVIOUS
      <4> QED
        BY <2>2
    <3>3. ~HasEdge(g, v, u)
      <4> SUFFICES ASSUME HasEdge(g, v, u) PROVE FALSE
        OBVIOUS
      <4> DEFINE E == {v}
      <4>1. /\ E \in SUBSET ((V(g) \ (R \cup {v})) \cup {v}) /\ v \in E
            /\ \A d \in E \ {v} : w[d] < w[u]
        OBVIOUS
      <4>2. Linked(g, E) /\ Sees(g, u, E)
        BY EdgeSymmetric, LinkedOne DEF Sees
      <4> HIDE DEF E
      <4>3. Joined(g, V(g) \ (R \cup {v}), w, v, u)
        BY <4>1, <4>2 DEF Joined
      <4> QED
        BY <2>2, <4>3 DEF Up, RaisedBy
    <3> QED
      BY <1>2, <2>2, <3>1, <3>2, <3>3 DEF IsJoined, HasEdge
  <2> QED
    BY <2>1, <2>2
<1>9. ASSUME NEW u \in V(g), NEW y \in R
      PROVE  IsJoined(g, F2, y, u) <=> IsJoined(g, F, y, u)
  BY <1>2, <1>5 DEF IsJoined
<1> QED
  BY <1>1, <1>2, <1>4, <1>6, <1>7, <1>8, <1>9 DEF Up

\* The weights still count the numbered neighbours.
LEMMA CountStep ==
  ASSUME NEW g, IsGraph(g), NEW R, NEW F, NEW w, Searching(g, R, F, w),
         NEW v, NEW F2, NEW w2, Numbers(g, R, F, w, v, F2, w2)
  PROVE  WeightsCount(g, R \cup {v}, F2, w2)
<1> SUFFICES ASSUME NEW u \in V(g) \ (R \cup {v})
             PROVE  w2[u] = Cardinality({y \in R \cup {v} : IsJoined(g, F2, y, u)})
  BY DEF WeightsCount
<1> DEFINE Old == {y \in R : IsJoined(g, F, y, u)}
           New == {y \in R \cup {v} : IsJoined(g, F2, y, u)}
<1>1. w[u] = Cardinality(Old)
  BY DEF Searching, WeightsCount
<1>2. Old \in SUBSET V(g) /\ v \notin Old
  BY StepFacts
<1>3. IsFiniteSet(Old) /\ Cardinality(Old) \in Nat
  BY <1>2, VerticesFinite DEF IsGraph
<1>4. CASE u \in RaisedBy(g, R, w, v)
  <2>1. w2[u] = w[u] + 1 /\ IsJoined(g, F2, v, u)
    BY <1>4, StepFacts
  <2>2. New = Old \cup {v}
    BY <2>1, StepFacts
  <2> QED
    BY <1>1, <1>2, <1>3, <2>1, <2>2, FS_AddElement
<1>5. CASE u \notin RaisedBy(g, R, w, v)
  <2>1. w2[u] = w[u] /\ ~IsJoined(g, F2, v, u)
    BY <1>5, StepFacts
  <2>2. New = Old
    BY <2>1, StepFacts
  <2> QED
    BY <1>1, <2>1, <2>2
<1> QED
  BY <1>4, <1>5

\* A linked set lighter than u, which sees it, has no vertex that v raises and
\* not u; so it stays lighter.
LEMMA LighterStays ==
  ASSUME NEW g, IsGraph(g), NEW R, NEW F, NEW w, Searching(g, R, F, w),
         NEW v, NEW F2, NEW w2, Numbers(g, R, F, w, v, F2, w2),
         NEW u \in V(g) \ (R \cup {v}), NEW D \in SUBSET (V(g) \ (R \cup {v})),
         Linked(g, D), Sees(g, u, D), \A d \in D : w[d] < w[u]
  PROVE  \A d \in D : w2[d] < w2[u]
<1> DEFINE Up == RaisedBy(g, R, w, v)
           S == V(g) \ (R \cup {v})
<1>1. /\ w \in [V(g) -> Nat] /\ v \in V(g) /\ S \in SUBSET V(g)
      /\ \A z \in S : w2[z] = IF z \in Up THEN w[z] + 1 ELSE w[z]
  BY StepFacts
<1>2. ASSUME NEW d \in D, d \in Up
      PROVE  u \in Up
  <2>1. Joined(g, S, w, v, d)
    BY <1>2 DEF RaisedBy
  <2> HIDE DEF S
  <2>2. Joined(g, S, w, v, u)
    <3>1. D \in SUBSET S /\ u \in V(g)
      BY DEF S
    <3> QED
      BY <1>1, <1>2, <2>1, <3>1, JoinedOn
  <2> QED
    BY <2>2 DEF RaisedBy, S
<1> SUFFICES ASSUME NEW d \in D PROVE w2[d] < w2[u]
  OBVIOUS
<1>3. w[d] \in Nat /\ w[u] \in Nat /\ w[d] < w[u]
  BY <1>1
<1> HIDE DEF Up
<1> QED
  BY <1>1, <1>2, <1>3

\* What was reached along lighter vertices stays so.
LEMMA ReachedStep ==
  ASSUME NEW g, IsGraph(g), NEW R, NEW F, NEW w, Searching(g, R, F, w),
         NEW v, NEW F2, NEW w2, Numbers(g, R, F, w, v, F2, w2)
  PROVE  StaysReached(g, R \cup {v}, F2, w2)
<1> DEFINE S == V(g) \ (R \cup {v})
<1> SUFFICES ASSUME NEW y \in R \cup {v}, NEW u \in S, {y, u} \in F2
             PROVE  \E D \in SUBSET S : Around(g, y, u, D) /\ \A d \in D : w2[d] < w2[u]
  BY DEF StaysReached
<1>1. /\ w \in [V(g) -> Nat] /\ v \in V(g) \ R /\ R \cup {v} \in SUBSET V(g)
      /\ \A z \in V(g) \ R : w[z] <= w[v]
      /\ F2 \subseteq NonEdges(g)
      /\ \A e \in F2 : e \in F \/ (v \in e /\ e \cap R = {})
  BY StepFacts
<1>2. \E D \in SUBSET S : Around(g, y, u, D) /\ \A d \in D : w[d] < w[u]
  <2>1. CASE y \in R
    <3>1. {y, u} \in F
      BY <1>1, <2>1
    <3>2. PICK D \in SUBSET (V(g) \ R) : Around(g, y, u, D) /\ \A d \in D : w[d] < w[u]
      BY <2>1, <3>1 DEF Searching, StaysReached
    <3>3. v \notin D
      <4>1. w[u] <= w[v] /\ w[u] \in Nat /\ w[v] \in Nat
        BY <1>1
      <4> QED
        BY <3>2, <4>1
    <3> QED
      BY <3>2, <3>3
  <2>2. CASE y = v
    <3>1. IsJoined(g, F2, v, u)
      BY <2>2 DEF IsJoined
    <3>2. u \in RaisedBy(g, R, w, v)
      BY <3>1, StepFacts
    <3>3. PICK E \in SUBSET (S \cup {v}) : /\ v \in E /\ Linked(g, E) /\ Sees(g, u, E)
                                           /\ \A d \in E \ {v} : w[d] < w[u]
      BY <3>2 DEF RaisedBy, Joined
    <3>4. ~HasEdge(g, u, v)
      BY <1>1, <2>2, EdgeSymmetric DEF NonEdges, HasEdge
    <3>5. E \in SUBSET V(g)
      BY <1>1
    <3>6. PICK D \in SUBSET (E \ {v}) : Linked(g, D) /\ Sees(g, v, D) /\ Sees(g, u, D)
      BY <3>3, <3>4, <3>5, WithoutEnd
    <3> QED
      BY <2>2, <3>3, <3>6 DEF Around
  <2> QED
    BY <2>1, <2>2
<1>3. PICK D \in SUBSET S : Around(g, y, u, D) /\ \A d \in D : w[d] < w[u]
  BY <1>2
<1>4. \A d \in D : w2[d] < w2[u]
  BY <1>3, LighterStays DEF Around
<1> QED
  BY <1>3, <1>4

\* What was not raised stays behind a vertex of each set in between.
LEMMA BehindStep ==
  ASSUME NEW g, IsGraph(g), NEW R, NEW F, NEW w, Searching(g, R, F, w),
         NEW v, NEW F2, NEW w2, Numbers(g, R, F, w, v, F2, w2)
  PROVE  StaysBehind(g, R \cup {v}, F2, w2)
<1> DEFINE S == V(g) \ (R \cup {v})
           Up == RaisedBy(g, R, w, v)
<1> SUFFICES ASSUME NEW y \in R \cup {v}, NEW u \in S, ~IsJoined(g, F2, y, u),
                    NEW D \in SUBSET S, Around(g, y, u, D), u \notin D
             PROVE  \E d \in D : w2[d] > w2[u]
  BY DEF StaysBehind
<1>1. /\ w \in [V(g) -> Nat] /\ v \in V(g) \ R /\ S \in SUBSET V(g) /\ R \subseteq V(g)
      /\ \A z \in S : IF z \in Up THEN IsJoined(g, F2, v, z) /\ w2[z] = w[z] + 1
                                  ELSE ~IsJoined(g, F2, v, z) /\ w2[z] = w[z]
  BY StepFacts
<1>2. Linked(g, D) /\ Sees(g, y, D) /\ Sees(g, u, D) /\ D \in SUBSET V(g) /\ D # {}
  BY DEF Around, Linked
<1>3. \A d \in D \cup {u} : w[d] \in Nat /\ d \in S
  BY <1>1
<1>4. CASE y \in R
  <2>1. ~IsJoined(g, F, y, u)
    BY <1>4, StepFacts
  <2>2. PICK d0 \in D : w[d0] > w[u]
    <3>1. D \in SUBSET (V(g) \ R) /\ u \in V(g) \ R
      OBVIOUS
    <3> QED
      BY <1>4, <2>1, <3>1 DEF Searching, StaysBehind
  <2>3. CASE u \notin Up
    <3>1. w2[u] = w[u] /\ (w2[d0] = w[d0] \/ w2[d0] = w[d0] + 1)
      BY <1>1, <2>3
    <3> QED
      BY <1>3, <2>2, <3>1
  <2>4. CASE u \in Up
    <3>1. PICK p \in D : /\ \A d \in D : w[d] <= w[p]
                         /\ Joined(g, D, w, u, p)
      <4>1. u \in V(g) \ D
        OBVIOUS
      <4> QED
        BY <1>1, <1>2, <4>1, HeaviestReached
    <3>2. w[u] < w[p]
      BY <1>3, <2>2, <3>1
    <3>3. PICK E \in SUBSET (D \cup {u}) : /\ u \in E /\ Linked(g, E) /\ Sees(g, p, E)
                                           /\ \A d \in E \ {u} : w[d] < w[p]
      BY <3>1 DEF Joined
    <3>4. \A d \in E : w[d] < w[p]
      BY <3>2, <3>3
    <3>5. Joined(g, S, w, v, u)
      BY <2>4 DEF RaisedBy
    <3>6. Joined(g, S, w, v, p)
      <4>1. E \in SUBSET S /\ p \in V(g)
        OBVIOUS
      <4> HIDE DEF S
      <4> QED
        BY <1>1, <3>3, <3>4, <3>5, <4>1, JoinedOn
    <3>7. p \in Up
      BY <3>6 DEF RaisedBy
    <3> HIDE DEF Up
    <3>8. w2[p] = w[p] + 1 /\ w2[u] = w[u] + 1
      BY <1>1, <2>4, <3>7
    <3> QED
      BY <1>3, <3>2, <3>8
  <2> QED
    BY <2>3, <2>4
<1>5. CASE y = v
  <2>1. u \notin Up
    BY <1>1, <1>5
  <2>2. PICK p \in D : /\ \A d \in D : w[d] <= w[p]
                       /\ Joined(g, D, w, v, p)
    <3>1. v \in V(g) \ D
      BY <1>1
    <3> QED
      BY <1>1, <1>2, <1>5, <3>1, HeaviestReached
  <2>3. p \in Up
    <3>1. Joined(g, S, w, v, p)
      BY <2>2 DEF Joined
    <3> QED
      BY <3>1 DEF RaisedBy
  <2>4. w[u] <= w[p]
    <3> SUFFICES ASSUME ~(w[u] <= w[p]) PROVE FALSE
      OBVIOUS
    <3>1. \A d \in D : w[d] < w[u]
      BY <1>3, <2>2
    <3>2. Linked(g, D \cup {v}) /\ Sees(g, u, D \cup {v})
      BY <1>2, <1>5, LinkedWith DEF Sees
    <3>3. Joined(g, S, w, v, u)
      BY <3>1, <3>2 DEF Joined
    <3> QED
      BY <2>1, <3>3 DEF RaisedBy
  <2> HIDE DEF Up
  <2>5. w2[p] = w[p] + 1 /\ w2[u] = w[u]
    BY <1>1, <2>1, <2>3
  <2> QED
    BY <1>3, <2>4, <2>5
<1> QED
  BY <1>4, <1>5

\* What is left is still surrounded by cliques: a vertex that had a heavier one in
\* its way was not the next.
LEMMA CliquesStep ==
  ASSUME NEW g, IsGraph(g), NEW R, NEW F, NEW w, Searching(g, R, F, w),
         NEW v, NEW F2, NEW w2, Numbers(g, R, F, w, v, F2, w2)
  PROVE  SurroundedByCliques(g, R \cup {v}, F2)
<1> DEFINE S == V(g) \ (R \cup {v})
<1> SUFFICES ASSUME NEW y \in R \cup {v}, NEW z \in R \cup {v}, y # z, ~IsJoined(g, F2, y, z),
                    NEW D \in SUBSET S, Around(g, y, z, D)
             PROVE  FALSE
  BY DEF SurroundedByCliques
<1>1. /\ w \in [V(g) -> Nat] /\ v \in V(g) \ R /\ F \subseteq F2
      /\ \A d \in V(g) \ R : w[d] <= w[v]
  BY StepFacts
<1>2. ~IsJoined(g, F, y, z) /\ ~IsJoined(g, F, z, y) /\ Around(g, z, y, D)
  <2>1. {y, z} = {z, y}
    OBVIOUS
  <2> QED
    BY <1>1, <2>1 DEF IsJoined, Around
<1>3. ASSUME NEW a \in R, ~IsJoined(g, F, a, v), Around(g, a, v, D)
      PROVE  FALSE
  <2>1. D \in SUBSET (V(g) \ R) /\ v \notin D
    OBVIOUS
  <2>2. PICK d \in D : w[d] > w[v]
    BY <1>1, <1>3, <2>1 DEF Searching, StaysBehind
  <2>3. w[d] \in Nat /\ w[v] \in Nat /\ w[d] <= w[v]
    BY <1>1
  <2> QED
    BY <2>2, <2>3
<1>4. CASE y \in R /\ z \in R
  <2>1. D \in SUBSET (V(g) \ R)
    OBVIOUS
  <2> QED
    BY <1>2, <1>4, <2>1 DEF Searching, SurroundedByCliques
<1>5. CASE y = v
  BY <1>2, <1>3, <1>5
<1>6. CASE z = v
  BY <1>2, <1>3, <1>6
<1> QED
  BY <1>4, <1>5, <1>6

\* The step keeps all of it.
LEMMA SearchStep ==
  ASSUME NEW g, IsGraph(g), NEW R, NEW F, NEW w, Searching(g, R, F, w),
         NEW v, NEW F2, NEW w2, Numbers(g, R, F, w, v, F2, w2)
  PROVE  Searching(g, R \cup {v}, F2, w2)
<1>1. SearchTyped(g, R \cup {v}, F2, w2)
  <2>1. \A e \in F2 : e \cap (R \cup {v}) # {}
    BY StepFacts DEF Searching, SearchTyped
  <2> QED
    BY <2>1, StepFacts DEF SearchTyped
<1> QED
  BY <1>1, CountStep, ReachedStep, BehindStep, CliquesStep DEF Searching

\* The start.
LEMMA SearchStarts ==
  ASSUME NEW g, IsGraph(g)
  PROVE  Searching(g, {}, {}, [v \in V(g) |-> 0])
<1>1. \A u \in V(g) : {y \in {} : IsJoined(g, {}, y, u)} = {}
  OBVIOUS
<1>2. WeightsCount(g, {}, {}, [v \in V(g) |-> 0])
  BY <1>1, FS_EmptySet DEF WeightsCount
<1> QED
  BY <1>2 DEF Searching, SearchTyped, StaysReached, StaysBehind, SurroundedByCliques

\* The numbered neighbours of a vertex that is left are a clique.
LEMMA NextIsSimplicial ==
  ASSUME NEW g, IsGraph(g), NEW R, NEW F, NEW w, Searching(g, R, F, w), NEW z \in V(g) \ R,
         NEW a \in R, NEW b \in R, a # b, IsJoined(g, F, a, z), IsJoined(g, F, b, z)
  PROVE  IsJoined(g, F, a, b)
<1>1. ASSUME NEW y \in R, IsJoined(g, F, y, z)
      PROVE  \E D \in SUBSET (V(g) \ R) : z \in D /\ Linked(g, D) /\ Sees(g, y, D)
  <2>1. CASE HasEdge(g, y, z)
    <3>1. Linked(g, {z}) /\ Sees(g, y, {z})
      BY <2>1, LinkedOne DEF Sees
    <3> QED
      BY <3>1
  <2>2. CASE {y, z} \in F
    <3>1. PICK D \in SUBSET (V(g) \ R) : Around(g, y, z, D)
      BY <2>2 DEF Searching, StaysReached
    <3>2. Linked(g, D \cup {z}) /\ Sees(g, y, D \cup {z})
      BY <3>1, LinkedWith DEF Around, Sees
    <3> QED
      BY <3>2
  <2> QED
    BY <1>1, <2>1, <2>2 DEF IsJoined, HasEdge
<1>2. PICK A \in SUBSET (V(g) \ R) : z \in A /\ Linked(g, A) /\ Sees(g, a, A)
  BY <1>1
<1>3. PICK B \in SUBSET (V(g) \ R) : z \in B /\ Linked(g, B) /\ Sees(g, b, B)
  BY <1>1
<1>4. Linked(g, A \cup B)
  <2>1. CASE A = {z}
    BY <1>2, <1>3, <2>1
  <2>2. CASE A # {z}
    <3>1. PICK u \in {z} : Sees(g, u, A \ {z})
      BY <1>2, <2>2 DEF Linked
    <3>2. Sees(g, z, A)
      BY <3>1 DEF Sees
    <3> QED
      BY <1>2, <1>3, <3>2, LinkedTogether
  <2> QED
    BY <2>1, <2>2
<1>5. Around(g, a, b, A \cup B) /\ A \cup B \in SUBSET (V(g) \ R)
  BY <1>2, <1>3, <1>4 DEF Around, Sees
<1> QED
  BY <1>5 DEF Searching, SurroundedByCliques

-----------------------------------------------------------------------------
(* The search adds no more than it must. *)

\* In a chordal graph the part around v that does not see b is surrounded by
\* a clique of neighbours of b, and whatever links the two meets that clique.
LEMMA AwayFrom ==
  ASSUME NEW h, IsGraph(h), IsChordal(h), NEW v \in V(h), NEW b \in V(h), v # b, ~HasEdge(h, v, b)
  PROVE  \E A \in SUBSET V(h) :
           /\ v \in A /\ b \notin A /\ \A a \in A : ~HasEdge(h, a, b)
           /\ \A y \in V(h) \ A : Sees(h, y, A) => HasEdge(h, y, b)
           /\ \A y, z \in V(h) \ A : y # z /\ Sees(h, y, A) /\ Sees(h, z, A) => HasEdge(h, y, z)
           /\ \A E \in SUBSET V(h) : Linked(h, E) /\ Sees(h, v, E) /\ Sees(h, b, E) =>
                \E s \in E \ A : Sees(h, s, A)
<1> DEFINE N == Neighbors(h, b) \cup {b}
           A == FindComponent(h, N, v)
<1>1. v \in V(h) \ N
  BY DEF Neighbors
<1>2. v \in A /\ A \subseteq V(h) \ N /\ IsClosed(h, N, A) /\ A \in Components(h, N)
  BY <1>1, ComponentClosed DEF Components
<1>3. Linked(h, A)
  BY <1>2, ComponentLinked
<1> HIDE DEF A
<1>4. b \notin A /\ \A a \in A : ~HasEdge(h, a, b)
  BY <1>2 DEF Neighbors
<1>5. ASSUME NEW y \in V(h) \ A, Sees(h, y, A)
      PROVE  y # b /\ HasEdge(h, y, b)
  <2>1. PICK a \in A : HasEdge(h, y, a) /\ HasEdge(h, a, y)
    BY <1>5, EdgeSymmetric DEF Sees
  <2>2. y # b
    BY <1>4, <2>1
  <2>3. y \in N
    BY <1>2, <2>1 DEF IsClosed
  <2> QED
    BY <2>2, <2>3 DEF Neighbors
<1>6. ASSUME NEW y \in V(h) \ A, NEW z \in V(h) \ A, y # z, Sees(h, y, A), Sees(h, z, A)
      PROVE  HasEdge(h, y, z)
  <2> DEFINE B == {b}
  <2>1. B \in SUBSET V(h) /\ Linked(h, B) /\ \A a \in A : ~Sees(h, a, B)
    BY <1>4, LinkedOne DEF Sees
  <2>2. Sees(h, y, B) /\ Sees(h, z, B) /\ {y, z} \cap B = {}
    BY <1>5, <1>6 DEF Sees
  <2>3. A \in SUBSET V(h) /\ {y, z} \cap A = {} /\ A \cap B = {}
    BY <1>2, <1>4
  <2> HIDE DEF B
  <2> QED
    BY <1>3, <1>6, <2>1, <2>2, <2>3, BetweenTwoSides
<1>7. ASSUME NEW E \in SUBSET V(h), Linked(h, E), Sees(h, v, E), Sees(h, b, E)
      PROVE  \E s \in E \ A : Sees(h, s, A)
  <2>1. Linked(h, E \cup {v})
    BY <1>7, LinkedWith
  <2>2. PICK e \in E : HasEdge(h, b, e) /\ HasEdge(h, e, b)
    BY <1>7, EdgeSymmetric DEF Sees
  <2>3. (E \cup {v}) \cap A # {} /\ (E \cup {v}) \cap A # E \cup {v}
    BY <1>2, <1>4, <2>2
  <2>4. PICK u \in (E \cup {v}) \cap A : Sees(h, u, (E \cup {v}) \ ((E \cup {v}) \cap A))
    BY <2>1, <2>3 DEF Linked
  <2>5. PICK s \in (E \cup {v}) \ A : HasEdge(h, u, s)
    BY <2>4 DEF Sees
  <2>6. s \in E \ A
    BY <1>2, <2>5
  <2>7. HasEdge(h, s, u)
    BY <2>5, EdgeSymmetric
  <2> QED
    BY <2>6, <2>7 DEF Sees
<1> QED
  BY <1>2, <1>4, <1>5, <1>6, <1>7

CountsIn(h, R, w) ==
  \A u \in V(h) \ R : w[u] = Cardinality({y \in R : HasEdge(h, y, u)})

\* Who has all numbered neighbours of a, and perhaps one more, weighs as much, or
\* more.
LEMMA HasAsMany ==
  ASSUME NEW h, IsGraph(h), NEW R \in SUBSET V(h), NEW w, CountsIn(h, R, w),
         NEW a \in V(h) \ R, NEW s \in V(h) \ R,
         \A y \in R : HasEdge(h, y, a) => HasEdge(h, y, s)
  PROVE  /\ w[a] \in Nat /\ w[s] \in Nat /\ w[a] <= w[s]
         /\ (\E b \in R : HasEdge(h, b, s) /\ ~HasEdge(h, b, a)) => w[a] < w[s]
<1> DEFINE Of(u) == {y \in R : HasEdge(h, y, u)}
<1>1. w[a] = Cardinality(Of(a)) /\ w[s] = Cardinality(Of(s))
  BY DEF CountsIn
<1>2. Of(a) \in SUBSET Of(s) /\ Of(s) \in SUBSET V(h) /\ Of(a) \in SUBSET V(h)
  OBVIOUS
<1>3. (\E b \in R : HasEdge(h, b, s) /\ ~HasEdge(h, b, a)) => Of(a) # Of(s)
  OBVIOUS
<1> HIDE DEF Of
<1>4. /\ IsFiniteSet(Of(s)) /\ Cardinality(Of(s)) \in Nat /\ Cardinality(Of(a)) \in Nat
  BY <1>2, VerticesFinite DEF IsGraph
<1>5. Cardinality(Of(a)) <= Cardinality(Of(s)) /\ (Of(a) # Of(s) => Cardinality(Of(a)) < Cardinality(Of(s)))
  BY <1>2, <1>4, FS_Subset
<1> QED
  BY <1>1, <1>3, <1>4, <1>5

CliquesAround(h, R) ==
  \A a, b \in R : a # b /\ ~HasEdge(h, a, b) =>
    \A D \in SUBSET (V(h) \ R) : ~Around(h, a, b, D)

\* In a chordal graph the vertex with the most numbered neighbours can be numbered,
\* and what is left is still surrounded by cliques.
LEMMA ChordalStep ==
  ASSUME NEW h, IsGraph(h), IsChordal(h), NEW R \in SUBSET V(h), NEW w, CountsIn(h, R, w),
         CliquesAround(h, R), NEW v \in V(h) \ R, \A u \in V(h) \ R : w[u] <= w[v]
  PROVE  CliquesAround(h, R \cup {v})
<1>1. ASSUME NEW b \in R, ~HasEdge(h, v, b),
             NEW D \in SUBSET (V(h) \ (R \cup {v})), Around(h, v, b, D)
      PROVE  FALSE
  <2>1. PICK A \in SUBSET V(h) :
          /\ v \in A /\ b \notin A /\ \A a \in A : ~HasEdge(h, a, b)
          /\ \A y \in V(h) \ A : Sees(h, y, A) => HasEdge(h, y, b)
          /\ \A y, z \in V(h) \ A : y # z /\ Sees(h, y, A) /\ Sees(h, z, A) => HasEdge(h, y, z)
          /\ \A E \in SUBSET V(h) : Linked(h, E) /\ Sees(h, v, E) /\ Sees(h, b, E) =>
               \E s \in E \ A : Sees(h, s, A)
    BY <1>1, AwayFrom
  <2>2. PICK s \in D \ A : Sees(h, s, A)
    BY <1>1, <2>1 DEF Around
  <2>3. s \in V(h) \ R /\ HasEdge(h, s, b) /\ HasEdge(h, b, s)
    BY <2>1, <2>2, EdgeSymmetric
  <2>4. ASSUME NEW y \in R, HasEdge(h, y, v)
        PROVE  HasEdge(h, y, s)
    <3>1. y # b /\ HasEdge(h, v, y)
      BY <1>1, <2>4, EdgeSymmetric
    <3>2. Around(h, y, b, D \cup {v}) /\ D \cup {v} \in SUBSET (V(h) \ R)
      BY <1>1, <2>4, LinkedWith DEF Around, Sees
    <3>3. HasEdge(h, y, b)
      BY <3>1, <3>2 DEF CliquesAround
    <3>4. y \in V(h) \ A /\ Sees(h, y, A) /\ y # s
      BY <2>1, <2>3, <2>4, <3>3 DEF Sees
    <3> QED
      BY <2>1, <2>2, <3>4
  <2>5. ~HasEdge(h, b, v)
    BY <1>1, EdgeSymmetric
  <2>6. w[v] \in Nat /\ w[s] \in Nat /\ w[v] < w[s]
    BY <2>3, <2>4, <2>5, HasAsMany
  <2>7. w[s] <= w[v]
    BY <2>3
  <2> QED
    BY <2>6, <2>7
<1> SUFFICES ASSUME NEW a \in R \cup {v}, NEW b \in R \cup {v}, a # b, ~HasEdge(h, a, b),
                    NEW D \in SUBSET (V(h) \ (R \cup {v})), Around(h, a, b, D)
             PROVE  FALSE
  BY DEF CliquesAround
<1>2. ~HasEdge(h, b, a) /\ Around(h, b, a, D)
  BY EdgeSymmetric DEF Around
<1>3. CASE a \in R /\ b \in R
  <2>1. D \in SUBSET (V(h) \ R)
    OBVIOUS
  <2> QED
    BY <1>3, <2>1 DEF CliquesAround
<1>4. CASE a = v
  BY <1>1, <1>4
<1>5. CASE b = v
  BY <1>1, <1>2, <1>5
<1> QED
  BY <1>3, <1>4, <1>5

\* In a chordal graph the vertex with the most numbered neighbours is adjacent to
\* every one that a linked set joins it to whose vertices have fewer than that.
LEMMA JoinedIsAdjacent ==
  ASSUME NEW h, IsGraph(h), IsChordal(h), NEW R \in SUBSET V(h), NEW w, CountsIn(h, R, w),
         CliquesAround(h, R), NEW v \in V(h) \ R, \A u \in V(h) \ R : w[u] <= w[v],
         NEW u \in V(h) \ (R \cup {v}),
         NEW D \in SUBSET (V(h) \ (R \cup {v})), Around(h, v, u, D), \A d \in D : w[d] < w[u]
  PROVE  HasEdge(h, v, u)
<1> SUFFICES ASSUME ~HasEdge(h, v, u) PROVE FALSE
  OBVIOUS
<1>1. PICK A \in SUBSET V(h) :
        /\ v \in A /\ u \notin A /\ \A a \in A : ~HasEdge(h, a, u)
        /\ \A y \in V(h) \ A : Sees(h, y, A) => HasEdge(h, y, u)
        /\ \A y, z \in V(h) \ A : y # z /\ Sees(h, y, A) /\ Sees(h, z, A) => HasEdge(h, y, z)
        /\ \A E \in SUBSET V(h) : Linked(h, E) /\ Sees(h, v, E) /\ Sees(h, u, E) =>
             \E s \in E \ A : Sees(h, s, A)
  BY AwayFrom
<1>2. PICK s \in D \ A : Sees(h, s, A)
  BY <1>1 DEF Around
<1>3. s \in V(h) \ R /\ w[s] < w[u] /\ w[u] <= w[v]
  BY <1>2
<1>4. \A z \in V(h) \ R : w[z] \in Nat
  BY HasAsMany
<1>5. PICK y \in R : HasEdge(h, y, u) /\ ~HasEdge(h, y, s)
  <2> SUFFICES ASSUME \A y \in R : HasEdge(h, y, u) => HasEdge(h, y, s) PROVE FALSE
    OBVIOUS
  <2>1. w[u] <= w[s]
    BY <1>3, HasAsMany
  <2> QED
    BY <1>3, <1>4, <2>1
<1>6. y \notin A /\ ~Sees(h, y, A)
  <2>1. y \notin A
    BY <1>1, <1>5
  <2>2. y # s
    BY <1>3
  <2> QED
    BY <1>1, <1>2, <1>5, <2>1, <2>2
<1>7. ASSUME NEW z \in R, HasEdge(h, z, v)
      PROVE  HasEdge(h, z, s)
  <2>1. z \notin A
    <3> SUFFICES ASSUME z \in A PROVE FALSE
      OBVIOUS
    <3>1. z # y /\ ~HasEdge(h, y, z)
      BY <1>6 DEF Sees
    <3>2. Linked(h, D \cup {v}) /\ Sees(h, u, D \cup {v})
      BY LinkedWith DEF Around, Sees
    <3>3. Linked(h, D \cup {v} \cup {u})
      BY <3>2, LinkedWith
    <3>4. HasEdge(h, z, v) /\ HasEdge(h, y, u)
      BY <1>5, <1>7
    <3>5. Around(h, y, z, D \cup {v} \cup {u}) /\ D \cup {v} \cup {u} \in SUBSET (V(h) \ R)
      BY <3>3, <3>4 DEF Around, Sees
    <3> QED
      BY <3>1, <3>5 DEF CliquesAround
  <2>2. Sees(h, z, A) /\ z # s
    BY <1>1, <1>3, <1>7 DEF Sees
  <2> QED
    BY <1>1, <1>2, <2>1, <2>2
<1>8. w[v] <= w[s]
  BY <1>3, <1>7, HasAsMany
<1> QED
  BY <1>3, <1>4, <1>8

\* A triangulation with no more than the fill so far at the numbered vertices has
\* all of that fill, and surrounds what is left by cliques.
LeastFill(g, R, F) ==
  \A T \in Triangulations(g) : (\A e \in T : e \cap R # {} => e \in F) =>
    F \subseteq T /\ CliquesAround(Filled(g, T), R)

\* The start.
LEMMA LeastStarts ==
  ASSUME NEW g
  PROVE  LeastFill(g, {}, {})
BY DEF LeastFill, CliquesAround

\* A step keeps it.
LEMMA LeastStep ==
  ASSUME NEW g, IsGraph(g), NEW R, NEW F, NEW w, Searching(g, R, F, w), LeastFill(g, R, F),
         NEW v, NEW F2, NEW w2, Numbers(g, R, F, w, v, F2, w2)
  PROVE  LeastFill(g, R \cup {v}, F2)
<1> SUFFICES ASSUME NEW T \in Triangulations(g), \A e \in T : e \cap (R \cup {v}) # {} => e \in F2
             PROVE  F2 \subseteq T /\ CliquesAround(Filled(g, T), R \cup {v})
  BY DEF LeastFill
<1> DEFINE h == Filled(g, T)
           S == V(g) \ (R \cup {v})
<1>1. /\ R \in SUBSET V(g) /\ v \in V(g) \ R /\ \A z \in V(g) \ R : w[z] <= w[v]
      /\ F2 \subseteq NonEdges(g) /\ \A e \in F2 : e \in F \/ (v \in e /\ e \cap R = {})
  BY StepFacts
<1>2. T \in SUBSET NonEdges(g) /\ IsChordal(h)
  BY DEF Triangulations
<1>3. /\ IsGraph(h) /\ V(h) = V(g)
      /\ \A y, z : HasEdge(h, y, z) <=> {y, z} \in g.adj \/ {y, z} \in T
  BY <1>2, FilledIsGraph, FilledGraph
<1>4. \A e \in T : e \cap R # {} => e \in F
  BY <1>1
<1>5. F \subseteq T /\ CliquesAround(h, R)
  BY <1>4 DEF LeastFill
<1> HIDE DEF h
<1>6. CountsIn(h, R, w)
  <2> SUFFICES ASSUME NEW u \in V(g) \ R
               PROVE  w[u] = Cardinality({y \in R : HasEdge(h, y, u)})
    BY <1>3 DEF CountsIn
  <2>1. \A y \in R : IsJoined(g, F, y, u) <=> HasEdge(h, y, u)
    BY <1>3, <1>4, <1>5 DEF IsJoined
  <2>2. {y \in R : IsJoined(g, F, y, u)} = {y \in R : HasEdge(h, y, u)}
    BY <2>1
  <2>3. w[u] = Cardinality({y \in R : IsJoined(g, F, y, u)})
    BY DEF Searching, WeightsCount
  <2> QED
    BY <2>2, <2>3
<1>7. CliquesAround(h, R \cup {v})
  BY <1>1, <1>2, <1>3, <1>5, <1>6, ChordalStep
<1>8. ASSUME NEW e \in F2
      PROVE  e \in T
  <2>1. CASE e \in F
    BY <1>5, <2>1
  <2>2. CASE e \notin F
    <3>1. PICK u \in RaisedBy(g, R, w, v) : e = {v, u}
      BY <2>2 DEF Numbers
    <3>2. u \in S /\ e \notin g.adj
      BY <1>1, <3>1 DEF RaisedBy, NonEdges
    <3>3. PICK E \in SUBSET (S \cup {v}) : /\ v \in E /\ Linked(g, E) /\ Sees(g, u, E)
                                           /\ \A d \in E \ {v} : w[d] < w[u]
      BY <3>1 DEF RaisedBy, Joined
    <3>4. ~HasEdge(g, u, v) /\ E \in SUBSET V(g)
      BY <1>1, <3>1, <3>2, EdgeSymmetric DEF HasEdge
    <3>5. PICK D \in SUBSET (E \ {v}) : Linked(g, D) /\ Sees(g, v, D) /\ Sees(g, u, D)
      BY <3>3, <3>4, WithoutEnd
    <3>6. D \in SUBSET S /\ \A d \in D : w[d] < w[u]
      BY <3>3
    <3>7. \A y, z : HasEdge(g, y, z) => HasEdge(h, y, z)
      BY <1>3 DEF HasEdge
    <3>8. Around(h, v, u, D)
      BY <3>5, <3>7, LinkedInMore DEF Around, Sees
    <3>9. HasEdge(h, v, u)
      BY <1>1, <1>2, <1>3, <1>5, <1>6, <3>2, <3>6, <3>8, JoinedIsAdjacent
    <3> QED
      BY <1>3, <3>1, <3>2, <3>9
  <2> QED
    BY <2>1, <2>2
<1> QED
  BY <1>7, <1>8 DEF h

\* When all vertices are numbered, in an order that eliminates the filled graph, the
\* fill is a minimal triangulation.
LEMMA AllNumbered ==
  ASSUME NEW g, IsGraph(g), NEW F \in SUBSET NonEdges(g), LeastFill(g, V(g), F),
         NEW ord, Numbering(g, ord), IsPerfect(Filled(g, F), ord)
  PROVE  IsMinimalTriangulation(g, F)
<1> DEFINE h == Filled(g, F)
<1>1. IsGraph(h) /\ V(h) = V(g) /\ h.n = g.n
  BY FilledIsGraph DEF Filled
<1>2. Numbering(h, ord)
  BY <1>1 DEF Numbering
<1> HIDE DEF h
<1>3. IsChordal(h)
  BY <1>1, <1>2, PerfectWidth DEF h
<1>4. ASSUME NEW G \in SUBSET F, IsChordal(Filled(g, G))
      PROVE  G = F
  <2>1. G \in Triangulations(g)
    BY <1>4 DEF Triangulations
  <2>2. F \subseteq G
    BY <2>1 DEF LeastFill
  <2> QED
    BY <2>2
<1> QED
  BY <1>3, <1>4 DEF IsMinimalTriangulation, h

-----------------------------------------------------------------------------
(* The search by buckets. *)

\* v reaches u along vertices of S that weigh at most i, u included.
Near(g, S, w, v, i, u) ==
  \E E \in SUBSET (S \cup {v}) : /\ v \in E /\ u \in E /\ Linked(g, E)
                                 /\ \A d \in E \ {v} : w[d] <= i

\* The marks: v's neighbours are reached, and those of a vertex that is done.
MarksInv(g, S, v, b, marks, queue) ==
  /\ v \in marks /\ marks \subseteq S \cup {v} /\ Neighbors(g, v) \cap S \subseteq marks
  /\ \A i \in V(g) : queue[i] \subseteq marks \cap S /\ (i < b => queue[i] = {})
  /\ \A p \in marks \cap S : (\A i \in V(g) : p \notin queue[i]) => Neighbors(g, p) \cap S \subseteq marks

\* The buckets: a vertex is in that of the least i for which it is near, and all that
\* are near for less than the current bucket have been reached.
NearInv(g, S, w, v, b, marks, queue) ==
  /\ \A j \in V(g) : \A y \in queue[j] :
       Near(g, S, w, v, j, y) /\ \A i \in 0 .. j - 1 : ~Near(g, S, w, v, i, y)
  /\ \A i \in 0 .. b - 1 : \A u \in S : Near(g, S, w, v, i, u) => u \in marks

\* The fill: U is what has been reached along lighter vertices only.
FillInv(g, S, w, v, marks, U) ==
  /\ U \subseteq S
  /\ \A z \in S : z \in U <=> z \in marks /\ ~HasEdge(g, v, z) /\ Joined(g, S, w, v, z)

BucketSearch(g, S, w, v, b, marks, queue, U) ==
  /\ MarksInv(g, S, v, b, marks, queue) /\ NearInv(g, S, w, v, b, marks, queue)
  /\ FillInv(g, S, w, v, marks, U)

\* Up to the current bucket, what v reaches along lighter vertices is marked.
LEMMA JoinedIsMarked ==
  ASSUME NEW g, IsGraph(g), NEW S \in SUBSET V(g), NEW v \in V(g) \ S, NEW w \in [V(g) -> Nat],
         NEW b \in 0 .. g.n, NEW marks, NEW queue,
         MarksInv(g, S, v, b, marks, queue), NearInv(g, S, w, v, b, marks, queue),
         NEW z \in S, w[z] <= b, Joined(g, S, w, v, z)
  PROVE  z \in marks
<1>1. PICK E \in SUBSET (S \cup {v}) : /\ v \in E /\ Linked(g, E) /\ Sees(g, z, E)
                                       /\ \A d \in E \ {v} : w[d] < w[z]
  BY DEF Joined
<1>2. PICK e \in E : HasEdge(g, z, e)
  BY <1>1 DEF Sees
<1>3. CASE e = v
  BY <1>2, <1>3 DEF MarksInv, Neighbors
<1>4. CASE e # v
  <2> DEFINE i == w[z] - 1
  <2>1. w[e] \in Nat /\ w[z] \in Nat /\ w[e] < w[z] /\ e \in S
    BY <1>1, <1>4
  <2>2. i \in 0 .. b - 1 /\ g.n \in Nat
    BY <2>1 DEF IsGraph
  <2>3. Near(g, S, w, v, i, e)
    <3>1. \A d \in E \ {v} : w[d] <= i
      <4> SUFFICES ASSUME NEW d \in E \ {v} PROVE w[d] <= i
        OBVIOUS
      <4>1. w[d] \in Nat /\ w[d] < w[z]
        BY <1>1
      <4> QED
        BY <2>1, <4>1
    <3> HIDE DEF i
    <3> QED
      BY <1>1, <3>1 DEF Near
  <2> HIDE DEF i
  <2>4. e \in marks
    BY <2>1, <2>2, <2>3 DEF NearInv
  <2>5. ASSUME NEW j \in V(g), e \in queue[j]
        PROVE  FALSE
    <3>1. b <= j
      BY <2>2, <2>5 DEF MarksInv, V
    <3>2. i \in 0 .. j - 1
      BY <2>2, <3>1 DEF V
    <3> QED
      BY <2>3, <2>5, <3>2 DEF NearInv
  <2>6. Neighbors(g, e) \cap S \subseteq marks
    BY <2>1, <2>4, <2>5 DEF MarksInv
  <2> QED
    BY <1>2, <2>6 DEF Neighbors
<1> QED
  BY <1>3, <1>4

\* The search begins with the neighbours of v.
LEMMA BucketsBegin ==
  ASSUME NEW g, IsGraph(g), NEW S \in SUBSET V(g), NEW v \in V(g) \ S, NEW w \in [V(g) -> Nat],
         \A u \in S : w[u] \in V(g)
  PROVE  BucketSearch(g, S, w, v, 0, (Neighbors(g, v) \cap S) \cup {v},
                      [i \in V(g) |-> {y \in Neighbors(g, v) \cap S : w[y] = i}], {})
<1> DEFINE start == Neighbors(g, v) \cap S
           queue == [i \in V(g) |-> {y \in start : w[y] = i}]
           marks == start \cup {v}
<1>1. MarksInv(g, S, v, 0, marks, queue)
  <2>1. \A p \in marks \cap S : p \in queue[w[p]]
    OBVIOUS
  <2>2. \A i \in V(g) : ~(i < 0)
    BY DEF V, IsGraph
  <2> QED
    BY <2>1, <2>2 DEF MarksInv
<1>2. NearInv(g, S, w, v, 0, marks, queue)
  <2>1. ASSUME NEW j \in V(g), NEW y \in queue[j]
        PROVE  Near(g, S, w, v, j, y) /\ \A i \in 0 .. j - 1 : ~Near(g, S, w, v, i, y)
    <3>1. y \in start /\ w[y] = j /\ j \in Int /\ j <= j
      BY DEF V
    <3>2. Sees(g, y, {v})
      BY <3>1 DEF Sees, Neighbors
    <3>3. Linked(g, {v} \cup {y})
      BY <3>2, LinkedOne, LinkedWith
    <3>4. Near(g, S, w, v, j, y)
      BY <3>1, <3>3 DEF Near
    <3>5. ASSUME NEW i \in 0 .. j - 1, Near(g, S, w, v, i, y)
          PROVE  FALSE
      <4>1. w[y] <= i
        BY <3>1, <3>5 DEF Near
      <4> QED
        BY <3>1, <4>1
    <3> QED
      BY <3>4, <3>5
  <2>2. 0 .. 0 - 1 = {}
    OBVIOUS
  <2> HIDE DEF queue, marks
  <2> QED
    BY <2>1, <2>2 DEF NearInv
<1>3. FillInv(g, S, w, v, marks, {})
  <2>1. \A z \in S : z \in marks => HasEdge(g, v, z)
    BY EdgeSymmetric DEF Neighbors
  <2> QED
    BY <2>1 DEF FillInv
<1> QED
  BY <1>1, <1>2, <1>3 DEF BucketSearch

\* An empty bucket is passed.
LEMMA BucketsNext ==
  ASSUME NEW g, IsGraph(g), NEW S \in SUBSET V(g), NEW v \in V(g) \ S, NEW w \in [V(g) -> Nat],
         NEW b \in V(g), NEW marks, NEW queue, NEW U,
         BucketSearch(g, S, w, v, b, marks, queue, U), queue[b] = {}
  PROVE  BucketSearch(g, S, w, v, b + 1, marks, queue, U)
<1>1. MarksInv(g, S, v, b, marks, queue) /\ NearInv(g, S, w, v, b, marks, queue)
  BY DEF BucketSearch
<1>2. b \in Nat /\ g.n \in Nat /\ \A i \in V(g) : i < b + 1 => i < b \/ i = b
  BY DEF V, IsGraph
<1>3. MarksInv(g, S, v, b + 1, marks, queue)
  BY <1>1, <1>2 DEF MarksInv
<1>4. ASSUME NEW u \in S, Near(g, S, w, v, b, u)
      PROVE  u \in marks
  <2>1. PICK E \in SUBSET (S \cup {v}) : /\ v \in E /\ u \in E /\ Linked(g, E)
                                         /\ \A d \in E \ {v} : w[d] <= b
    BY <1>4 DEF Near
  <2> SUFFICES ASSUME u \notin marks PROVE FALSE
    OBVIOUS
  <2>2. E \cap marks # {} /\ E \cap marks # E
    BY <1>1, <2>1 DEF MarksInv
  <2>3. PICK a \in E \cap marks : Sees(g, a, E \ (E \cap marks))
    BY <2>1, <2>2 DEF Linked
  <2>4. PICK z \in E \ marks : HasEdge(g, a, z)
    BY <2>3 DEF Sees
  <2>5. z \in S /\ z \in V(g) /\ HasEdge(g, z, a)
    BY <1>1, <2>1, <2>4, EdgeSymmetric DEF MarksInv
  <2>6. a # v
    BY <1>1, <2>4, <2>5 DEF MarksInv, Neighbors
  <2>7. a \in marks \cap S /\ Near(g, S, w, v, b, a)
    BY <2>1, <2>6 DEF Near
  <2>8. ASSUME NEW j \in V(g), a \in queue[j]
        PROVE  FALSE
    <3>1. ~(j < b) /\ j # b
      BY <1>1, <2>8 DEF MarksInv
    <3>2. b \in 0 .. j - 1
      BY <1>2, <3>1 DEF V
    <3> QED
      BY <1>1, <2>7, <2>8, <3>2 DEF NearInv
  <2>9. Neighbors(g, a) \cap S \subseteq marks
    BY <1>1, <2>7, <2>8 DEF MarksInv
  <2> QED
    BY <2>4, <2>5, <2>9 DEF Neighbors
<1>5. NearInv(g, S, w, v, b + 1, marks, queue)
  <2>1. \A i \in 0 .. (b + 1) - 1 : i \in 0 .. b - 1 \/ i = b
    BY <1>2
  <2>2. ASSUME NEW i \in 0 .. (b + 1) - 1, NEW u \in S, Near(g, S, w, v, i, u)
        PROVE  u \in marks
    <3>1. CASE i = b
      BY <1>4, <2>2, <3>1
    <3>2. CASE i \in 0 .. b - 1
      BY <1>1, <2>2, <3>2 DEF NearInv
    <3> QED
      BY <2>1, <3>1, <3>2
  <2>3. \A j \in V(g) : \A y \in queue[j] :
          Near(g, S, w, v, j, y) /\ \A i \in 0 .. j - 1 : ~Near(g, S, w, v, i, y)
    BY <1>1 DEF NearInv
  <2>4. \A i \in 0 .. (b + 1) - 1 : \A u \in S : Near(g, S, w, v, i, u) => u \in marks
    BY <2>2
  <2> QED
    BY <2>3, <2>4 DEF NearInv
<1> QED
  BY <1>3, <1>5 DEF BucketSearch

\* One vertex y of the bucket is done: New are those that it reaches.  Heavy, of larger
\* weight, go on the bucket of their weight, and the others on this one.
Passes(g, S, w, b, marks, queue, y, New, Heavy, queue2) ==
  /\ y \in queue[b]
  /\ New = (Neighbors(g, y) \cap S) \ marks
  /\ Heavy = {z \in New : w[z] > b}
  /\ \A i \in V(g) : \A z : z \in queue2[i] <=>
       \/ i = b /\ (z \in queue[b] \ {y} \/ z \in New \ Heavy)
       \/ i # b /\ z \in queue[i]
       \/ z \in Heavy /\ w[z] = i

\* Those that are heavy get a fill edge.
LEMMA BucketsOn ==
  ASSUME NEW g, IsGraph(g), NEW S \in SUBSET V(g), NEW v \in V(g) \ S, NEW w \in [V(g) -> Nat],
         NEW b \in V(g), NEW marks, NEW queue, NEW U,
         BucketSearch(g, S, w, v, b, marks, queue, U), \A u \in S : w[u] \in V(g),
         NEW y, NEW New, NEW Heavy, NEW queue2,
         Passes(g, S, w, b, marks, queue, y, New, Heavy, queue2)
  PROVE  BucketSearch(g, S, w, v, b, marks \cup New, queue2, U \cup Heavy)
<1> USE DEF Passes
<1> DEFINE marks2 == marks \cup New
<1>1. /\ MarksInv(g, S, v, b, marks, queue) /\ NearInv(g, S, w, v, b, marks, queue)
      /\ FillInv(g, S, w, v, marks, U)
  BY DEF BucketSearch
<1>2. b \in Nat /\ g.n \in Nat /\ b \in 0 .. g.n
  BY DEF V, IsGraph
<1>3. y \in marks \cap S /\ New \subseteq S /\ \A z \in New : HasEdge(g, y, z) /\ HasEdge(g, z, y)
  BY <1>1, EdgeSymmetric DEF MarksInv, Neighbors
<1>4. MarksInv(g, S, v, b, marks2, queue2)
  <2>1. ASSUME NEW i \in V(g)
        PROVE  queue2[i] \subseteq marks2 \cap S /\ (i < b => queue2[i] = {})
    <3>1. queue2[i] \subseteq marks2 \cap S
      BY <1>1, <1>3 DEF MarksInv
    <3>2. ASSUME i < b, NEW z \in queue2[i]
          PROVE  FALSE
      <4>1. i # b /\ queue[i] = {} /\ i \in Int
        BY <1>1, <1>2, <3>2 DEF MarksInv, V
      <4>2. z \in Heavy /\ w[z] = i /\ w[z] > b
        BY <3>2, <4>1
      <4> QED
        BY <1>2, <3>2, <4>1, <4>2
    <3> QED
      BY <3>1, <3>2
  <2>2. ASSUME NEW p \in marks2 \cap S, \A i \in V(g) : p \notin queue2[i]
        PROVE  Neighbors(g, p) \cap S \subseteq marks2
    <3>1. CASE p = y
      <4>1. ASSUME NEW z \in Neighbors(g, y) \cap S
            PROVE  z \in marks \cup New
        BY <4>1
      <4> QED
        BY <3>1, <4>1
    <3>2. CASE p \in New
      <4>1. w[p] \in V(g) /\ w[p] \in Nat
        BY <1>3, <3>2
      <4>2. p \in Heavy \/ p \in New \ Heavy
        BY <3>2
      <4>3. p \in queue2[w[p]] \/ p \in queue2[b]
        BY <4>1, <4>2
      <4> QED
        BY <2>2, <4>1, <4>3
    <3>3. CASE p \notin New /\ p # y
      <4>1. \A i \in V(g) : p \notin queue[i]
        BY <2>2, <3>3
      <4> QED
        BY <1>1, <2>2, <3>3, <4>1 DEF MarksInv
    <3> QED
      BY <3>1, <3>2, <3>3
  <2> QED
    BY <1>1, <1>3, <2>1, <2>2 DEF MarksInv
<1>5. PICK E \in SUBSET (S \cup {v}) : /\ v \in E /\ y \in E /\ Linked(g, E)
                                       /\ \A d \in E \ {v} : w[d] <= b
  BY <1>1 DEF NearInv, Near
<1>6. \A z \in New : Linked(g, E \cup {z}) /\ Sees(g, z, E)
  BY <1>3, <1>5, LinkedWith DEF Sees
<1>7. ASSUME NEW z \in New, NEW j \in Nat, j = IF w[z] > b THEN w[z] ELSE b
      PROVE  Near(g, S, w, v, j, z) /\ \A i \in 0 .. j - 1 : ~Near(g, S, w, v, i, z)
  <2>1. w[z] \in Nat /\ w[z] <= j /\ b <= j
    BY <1>2, <1>3, <1>7
  <2>2. \A d \in (E \cup {z}) \ {v} : w[d] <= j
    <3> SUFFICES ASSUME NEW d \in (E \cup {z}) \ {v} PROVE w[d] <= j
      OBVIOUS
    <3>1. d = z \/ (w[d] \in Nat /\ w[d] <= b)
      BY <1>5
    <3> QED
      BY <1>2, <2>1, <3>1
  <2>3. Near(g, S, w, v, j, z)
    <3> DEFINE D == E \cup {z}
    <3>1. D \in SUBSET (S \cup {v}) /\ v \in D /\ z \in D /\ Linked(g, D)
      BY <1>3, <1>5, <1>6
    <3>2. \A d \in D \ {v} : w[d] <= j
      BY <2>2
    <3> HIDE DEF D
    <3> QED
      BY <3>1, <3>2 DEF Near
  <2>4. ASSUME NEW i \in 0 .. j - 1, Near(g, S, w, v, i, z)
        PROVE  FALSE
    <3>1. w[z] <= i
      BY <1>3, <2>4 DEF Near
    <3>2. j = b /\ i \in 0 .. b - 1
      BY <1>2, <1>7, <2>1, <3>1
    <3> QED
      BY <1>1, <1>3, <2>4, <3>2 DEF NearInv
  <2> QED
    BY <2>3, <2>4
<1>8. NearInv(g, S, w, v, b, marks2, queue2)
  <2>1. ASSUME NEW j \in V(g), NEW z \in queue2[j]
        PROVE  Near(g, S, w, v, j, z) /\ \A i \in 0 .. j - 1 : ~Near(g, S, w, v, i, z)
    <3>1. CASE z \in queue[j]
      BY <1>1, <3>1 DEF NearInv
    <3>2. CASE z \notin queue[j]
      <4>1. z \in New /\ j = IF w[z] > b THEN w[z] ELSE b
        BY <3>2
      <4>2. j \in Nat
        BY DEF V
      <4> QED
        BY <1>7, <4>1, <4>2
    <3> QED
      BY <3>1, <3>2
  <2> QED
    BY <1>1, <2>1 DEF NearInv
<1>9. FillInv(g, S, w, v, marks2, U \cup Heavy)
  <2>1. ASSUME NEW z \in New
        PROVE  ~HasEdge(g, v, z) /\ z \notin U /\ (z \in Heavy <=> Joined(g, S, w, v, z))
    <3>1. ~HasEdge(g, v, z)
      BY <1>1, <1>3, EdgeSymmetric DEF MarksInv, Neighbors
    <3>2. z \notin U
      BY <1>1, <1>3 DEF FillInv
    <3>3. ASSUME z \in Heavy
          PROVE  Joined(g, S, w, v, z)
      <4>1. \A d \in E \ {v} : w[d] < w[z]
        <5> SUFFICES ASSUME NEW d \in E \ {v} PROVE w[d] < w[z]
          OBVIOUS
        <5>1. w[d] \in Nat /\ w[z] \in Nat /\ w[d] <= b /\ w[z] > b
          BY <1>3, <1>5, <3>3
        <5> QED
          BY <1>2, <5>1
      <4> QED
        BY <1>5, <1>6, <4>1 DEF Joined
    <3>4. ASSUME z \notin Heavy, Joined(g, S, w, v, z)
          PROVE  FALSE
      <4>1. w[z] <= b
        BY <1>2, <1>3, <3>4
      <4>2. z \in marks
        BY <1>1, <1>2, <1>3, <3>4, <4>1, JoinedIsMarked
      <4> QED
        BY <4>2
    <3> QED
      BY <3>1, <3>2, <3>3, <3>4
  <2>2. Heavy \subseteq New
    OBVIOUS
  <2>3. \A z \in S : z \in marks => z \notin New
    OBVIOUS
  <2> QED
    BY <1>1, <1>3, <2>1, <2>2, <2>3 DEF FillInv
<1> QED
  BY <1>4, <1>8, <1>9 DEF BucketSearch

\* U and the neighbours of v are what v reaches along lighter vertices of S.
AllReached(g, S, w, v, U) ==
  /\ \A z \in S : Joined(g, S, w, v, z) <=> z \in U \/ HasEdge(g, v, z)
  /\ \A z \in U : ~HasEdge(g, v, z)

\* When the buckets are through, they have found all of it.
LEMMA BucketsEnd ==
  ASSUME NEW g, IsGraph(g), NEW S \in SUBSET V(g), NEW v \in V(g) \ S, NEW w \in [V(g) -> Nat],
         \A z \in S : w[z] \in V(g),
         NEW marks, NEW queue, NEW U, BucketSearch(g, S, w, v, g.n, marks, queue, U)
  PROVE  AllReached(g, S, w, v, U)
<1>1. /\ MarksInv(g, S, v, g.n, marks, queue) /\ NearInv(g, S, w, v, g.n, marks, queue)
      /\ FillInv(g, S, w, v, marks, U)
  BY DEF BucketSearch
<1>2. g.n \in Nat /\ g.n \in 0 .. g.n /\ \A z \in S : w[z] <= g.n
  <2>1. g.n \in Nat
    BY DEF IsGraph
  <2>2. \A z \in S : w[z] \in 0 .. g.n - 1
    BY DEF V
  <2>3. \A l \in 0 .. g.n - 1 : l <= g.n
    BY <2>1
  <2> QED
    BY <2>1, <2>2, <2>3
<1>3. ASSUME NEW z \in S, HasEdge(g, v, z)
      PROVE  Joined(g, S, w, v, z)
  <2>1. Linked(g, {v}) /\ Sees(g, z, {v})
    BY <1>3, EdgeSymmetric, LinkedOne DEF Sees
  <2> QED
    BY <2>1 DEF Joined
<1>4. \A z \in S : Joined(g, S, w, v, z) => z \in marks
  BY <1>1, <1>2, JoinedIsMarked
<1>5. \A z \in S : Joined(g, S, w, v, z) <=> z \in U \/ HasEdge(g, v, z)
  BY <1>1, <1>3, <1>4 DEF FillInv
<1>7. U \subseteq S
  BY <1>1 DEF FillInv
<1>8. \A z \in U : ~HasEdge(g, v, z)
  BY <1>1, <1>7 DEF FillInv
<1> QED
  BY <1>5, <1>8 DEF AllReached

-----------------------------------------------------------------------------
(* Convex sets: those that clique separators cut off. *)

\* Whatever is linked meets R in a linked set: R can be left and entered again
\* at neighbours only.
Convex(g, R) ==
  \A Y \in SUBSET V(g) : Linked(g, Y) /\ Y \cap R # {} => Linked(g, Y \cap R)

\* R stays convex when C is cut off at the clique S.
LEMMA ConvexCut ==
  ASSUME NEW g, NEW R \in SUBSET V(g), Convex(g, R), NEW S, IsClique(g, S),
         NEW C, C \cap S = {}, \A c \in C : \A r \in R : HasEdge(g, c, r) => r \in C \cup S
  PROVE  Convex(g, R \ C)
<1> SUFFICES ASSUME NEW Y \in SUBSET V(g), Linked(g, Y), Y \cap (R \ C) # {}
             PROVE  Linked(g, Y \cap (R \ C))
  BY DEF Convex
<1> DEFINE Z == Y \cap R
           rest == Y \cap (R \ C)
<1>1. Linked(g, Z)
  BY DEF Convex
<1>2. rest \subseteq Z /\ rest # {} /\ \A z \in Z : z \in rest \/ z \in C
  OBVIOUS
<1>3. \A c \in C : \A z \in Z : HasEdge(g, c, z) => z \in C \cup S
  OBVIOUS
<1>4. C \cap rest = {}
  OBVIOUS
<1> HIDE DEF Z, rest
<1>5. ASSUME NEW P \in SUBSET rest, P # {}, P \cap S = {}, \A u \in P : ~Sees(g, u, rest \ P)
      PROVE  P = rest
  <2>1. \A u \in P : ~Sees(g, u, C)
    <3> SUFFICES ASSUME NEW u \in P, NEW c \in C, HasEdge(g, u, c) PROVE FALSE
      BY DEF Sees
    <3>1. HasEdge(g, c, u) /\ u \in Z
      BY <1>2, EdgeSymmetric
    <3> QED
      BY <1>3, <1>4, <1>5, <3>1
  <2>2. \A u \in P : ~Sees(g, u, Z \ P)
    BY <1>2, <1>5, <2>1 DEF Sees
  <2>3. P = Z
    BY <1>1, <1>2, <1>5, <2>2 DEF Linked
  <2> QED
    BY <1>2, <1>5, <2>3
<1>6. ASSUME NEW P \in SUBSET rest, P # {}, P # rest, \A u \in P : ~Sees(g, u, rest \ P)
      PROVE  FALSE
  <2> DEFINE Q == rest \ P
  <2>1. Q \in SUBSET rest /\ Q # {} /\ rest \ Q = P
    BY <1>6
  <2>2. \A u \in Q : ~Sees(g, u, P)
    BY <1>6, EdgeSymmetric DEF Sees
  <2>3. P \cap S # {}
    BY <1>5, <1>6
  <2>4. Q \cap S # {}
    BY <1>5, <1>6, <2>1, <2>2
  <2>5. PICK p \in P \cap S, q \in Q \cap S : TRUE
    BY <2>3, <2>4
  <2>6. p # q /\ HasEdge(g, p, q)
    BY <2>5, CliquePairs
  <2> QED
    BY <1>6, <2>5, <2>6 DEF Sees
<1>7. Linked(g, rest)
  BY <1>2, <1>6 DEF Linked
<1> QED
  BY <1>7 DEF rest

\* What two components of the rest around K have around them contains a set
\* that both, made larger, see all of.
LEMMA MinimalBetween ==
  ASSUME NEW g, NEW K \in SUBSET V(g), NEW A \in Components(g, K), NEW B \in Components(g, K), A # B
  PROVE  \E T \in SUBSET K : \E A2 \in Components(g, T), B2 \in Components(g, T) :
           /\ A2 # B2 /\ A \subseteq A2 /\ B \subseteq B2
           /\ NeighborsOf(g, A2) = T /\ NeighborsOf(g, B2) = T
<1>1. A # {} /\ B # {} /\ A \subseteq V(g) \ K /\ B \subseteq V(g) \ K /\ A \cap B = {}
  BY ComponentsMember
<1>2. PICK a \in A, b \in B : TRUE
  BY <1>1
<1> DEFINE S == NeighborsOf(g, A)
           B1 == FindComponent(g, S, b)
           T == NeighborsOf(g, B1)
           A2 == FindComponent(g, T, a)
<1>3. S \subseteq K /\ A \in Components(g, S)
  BY NeighborsBlocked, ComponentOfNeighborhood
<1>4. b \in V(g) \ S
  BY <1>1, <1>2, <1>3
<1>5. B1 \in Components(g, S) /\ b \in B1
  BY <1>4, ComponentClosed DEF Components
<1>6. A # B1 /\ A \cap B1 = {}
  <2>1. b \notin A
    BY <1>1, <1>2
  <2>2. A # B1
    BY <1>5, <2>1
  <2> HIDE DEF B1
  <2> QED
    BY <1>3, <1>5, <2>2, ComponentsMember
<1>7. B \subseteq B1
  <2>1. B \cap S = {}
    BY <1>1, <1>3
  <2> HIDE DEF S
  <2> QED
    BY <1>2, <2>1, ComponentSpared
<1>8. T \subseteq S /\ B1 \in Components(g, T)
  <2> HIDE DEF S, B1
  <2> QED
    BY <1>5, NeighborsBlocked, ComponentOfNeighborhood
<1>9. A \cap S = {}
  BY <1>1, <1>3
<1>10. a \in V(g) \ T /\ A \subseteq A2
  <2>1. A \cap T = {}
    BY <1>8, <1>9
  <2> HIDE DEF T, S
  <2> QED
    BY <1>2, <1>3, <2>1, ComponentSpared
<1>11. A2 \in Components(g, T) /\ a \in A2
  BY <1>10, ComponentClosed DEF Components
<1>12. A2 # B1
  BY <1>2, <1>6, <1>11
<1>13. NeighborsOf(g, A2) = T
  <2>1. NeighborsOf(g, A2) \subseteq T
    <3> HIDE DEF A2, T
    <3> QED
      BY <1>11, NeighborsBlocked
  <2>2. ASSUME NEW t \in T PROVE t \in NeighborsOf(g, A2)
    <3>1. t \in V(g) /\ \E u \in A : HasEdge(g, t, u)
      <4>1. t \in S
        BY <1>8
      <4> HIDE DEF T, B1, A2
      <4> QED
        BY <4>1 DEF NeighborsOf
    <3>2. t \notin A2
      <4> HIDE DEF A2, T
      <4> QED
        BY <1>11, <2>2, ComponentsMember
    <3> HIDE DEF A2
    <3> QED
      BY <1>10, <3>1, <3>2 DEF NeighborsOf
  <2> QED
    BY <2>1, <2>2
<1>14. T \in SUBSET K
  BY <1>3, <1>8
<1> HIDE DEF S, B1, A2
<1>15. NeighborsOf(g, B1) = T
  OBVIOUS
<1> HIDE DEF T
<1> QED
  BY <1>7, <1>8, <1>10, <1>11, <1>12, <1>13, <1>14, <1>15

\* The set of components has one element at most if no two are different.
LEMMA AtMostOne ==
  ASSUME NEW D, \A a, b \in D : a = b
  PROVE  Cardinality(D) <= 1 /\ IsFiniteSet(D)
<1>1. CASE D = {}
  BY <1>1, FS_EmptySet
<1>2. CASE D # {}
  <2>1. PICK a \in D : D = {a}
    BY <1>2
  <2> QED
    BY <2>1, FS_Singleton
<1> QED
  BY <1>1, <1>2

-----------------------------------------------------------------------------
(* What McsM leaves to Atoms. *)

\* The neighbours in the filled graph that are eliminated after the i-th vertex.
After(g, F, ord, i) == AfterIn(Filled(g, F), ord, i, i)

\* A minimal triangulation, an order that a maximum cardinality search of it may
\* give, and the vertices X with at least as few neighbours after them as the next.
FoundByMcsM(g, F, ord, X) ==
  /\ IsGraph(g) /\ F \in MinimalTriangulations(g) /\ Numbering(g, ord)
  /\ IsPerfect(Filled(g, F), ord) /\ HasMostAfter(Filled(g, F), ord)
  /\ \A i \in 1 .. g.n :
       ord[i] \in X <=> /\ i + 1 \in 1 .. g.n
                        /\ Cardinality(After(g, F, ord, i)) <= Cardinality(After(g, F, ord, i + 1))

\* The filled graph of such a search.
LEMMA FoundFacts ==
  ASSUME NEW g, NEW F, NEW ord, NEW X, FoundByMcsM(g, F, ord, X)
  PROVE  LET h == Filled(g, F)
         IN  /\ IsGraph(g) /\ IsGraph(h) /\ IsChordal(h) /\ V(h) = V(g) /\ h.n = g.n /\ g.n \in Nat
             /\ Numbering(h, ord) /\ Numbering(g, ord) /\ HasMostAfter(h, ord)
             /\ \A u, w : HasEdge(g, u, w) => HasEdge(h, u, w)
<1> DEFINE h == Filled(g, F)
<1>1. IsGraph(g) /\ g.n \in Nat /\ F \in Triangulations(g)
  BY DEF FoundByMcsM, IsGraph, MinimalTriangulations
<1>2. F \in SUBSET NonEdges(g) /\ IsChordal(h)
  BY <1>1 DEF Triangulations
<1>3. IsGraph(h) /\ V(h) = V(g)
  BY <1>1, <1>2, FilledIsGraph
<1>4. h.n = g.n
  BY DEF Filled
<1>5. \A u, w : HasEdge(g, u, w) => HasEdge(h, u, w)
  BY <1>1, FilledGraph DEF HasEdge
<1> HIDE DEF h
<1>6. Numbering(h, ord)
  BY <1>3, <1>4 DEF FoundByMcsM, Numbering
<1> QED
  BY <1>1, <1>2, <1>3, <1>4, <1>5, <1>6 DEF FoundByMcsM, h

\* The neighbours after a vertex, in the filled graph, are a clique there.
LEMMA AfterMember ==
  ASSUME NEW g, NEW F, NEW ord, NEW X, FoundByMcsM(g, F, ord, X), NEW i \in 1 .. g.n
  PROVE  LET h == Filled(g, F)
         IN  /\ \A u : u \in After(g, F, ord, i) <=>
                  \E k \in i + 1 .. g.n : u = ord[k] /\ HasEdge(h, ord[i], u)
             /\ After(g, F, ord, i) \in SUBSET V(g) /\ IsClique(h, After(g, F, ord, i))
             /\ IsFiniteSet(After(g, F, ord, i)) /\ Cardinality(After(g, F, ord, i)) \in Nat
             /\ ord[i] \notin After(g, F, ord, i) /\ ord[i] \in V(g)
<1> DEFINE h == Filled(g, F)
           A == After(g, F, ord, i)
<1>1. V(h) = V(g) /\ g.n \in Nat /\ h.n = g.n /\ Numbering(g, ord)
  BY FoundFacts
<1>2. IsPerfect(h, ord)
  BY DEF FoundByMcsM
<1> HIDE DEF h
<1>3. A = AfterIn(h, ord, i, i)
  BY DEF After, h
<1> HIDE DEF A
<1>4. \A u : u \in A <=> \E k \in i + 1 .. g.n : u = ord[k] /\ HasEdge(h, ord[i], u)
  <2>1. \A k \in i + 1 .. g.n : k \in 1 .. g.n /\ ord[k] \in V(h)
    BY <1>1 DEF Numbering
  <2>2. \A u : HasEdge(h, u, ord[i]) <=> HasEdge(h, ord[i], u)
    BY EdgeSymmetric
  <2> QED
    BY <1>1, <1>3, <2>1, <2>2 DEF AfterIn, Neighbors
<1>5. A \in SUBSET V(g)
  BY <1>1, <1>3 DEF AfterIn, Neighbors
<1>6. IsFiniteSet(A) /\ Cardinality(A) \in Nat
  <2>1. IsFiniteSet(A) /\ Cardinality(A) \in 0 .. g.n
    BY <1>1, <1>5, VerticesFinite
  <2> QED
    BY <1>1, <2>1
<1>7. IsClique(h, A)
  BY <1>1, <1>2, <1>3 DEF IsPerfect
<1>8. ord[i] \notin A
  <2>1. \A k \in i + 1 .. g.n : k \in 1 .. g.n /\ k # i
    BY <1>1
  <2> QED
    BY <1>1, <1>4, <2>1 DEF Numbering
<1>9. ord[i] \in V(g)
  BY <1>1 DEF Numbering
<1> QED
  BY <1>4, <1>5, <1>6, <1>7, <1>8, <1>9 DEF A, h

\* A vertex that sees a linked set with a later vertex is adjacent to a later
\* vertex of that set.
LEMMA LaterAdjacent ==
  ASSUME NEW g, NEW F, NEW ord, NEW X, FoundByMcsM(g, F, ord, X), NEW i \in 1 .. g.n,
         NEW E \in SUBSET V(g), Linked(Filled(g, F), E), ord[i] \notin E,
         Sees(Filled(g, F), ord[i], E), NEW k \in 1 .. g.n, i < k, ord[k] \in E
  PROVE  E \cap After(g, F, ord, i) # {}
<1> DEFINE h == Filled(g, F)
           Out == {ord[j] : j \in {l \in 1 .. g.n : i < l}}
<1>1. /\ IsGraph(h) /\ IsChordal(h) /\ V(h) = V(g) /\ h.n = g.n /\ g.n \in Nat
      /\ Numbering(h, ord) /\ Numbering(g, ord) /\ HasMostAfter(h, ord)
  BY FoundFacts
<1>2. \A u : u \in After(g, F, ord, i) <=>
        \E j \in i + 1 .. g.n : u = ord[j] /\ HasEdge(h, ord[i], u)
  BY AfterMember
<1> HIDE DEF h
<1>3. \A u \in Out : HasEdge(h, ord[i], u) => u \in After(g, F, ord, i)
  <2>1. \A j \in 1 .. g.n : i < j => j \in i + 1 .. g.n
    BY <1>1
  <2> QED
    BY <1>2, <2>1
<1>4. E \cap Out # {}
  OBVIOUS
<1>5. PICK e \in E : HasEdge(h, ord[i], e)
  BY DEF Sees, h
<1>6. CASE e \in Out
  BY <1>3, <1>5, <1>6
<1>7. CASE e \notin Out
  <2>1. Linked(h, E)
    BY DEF h
  <2>2. PICK D \in SUBSET (E \ Out) :
          /\ e \in D /\ Linked(h, D)
          /\ E \cap Out # {} => \E d \in D, u \in E \cap Out : HasEdge(h, d, u)
    <3> HIDE DEF Out
    <3> QED
      BY <1>1, <1>5, <1>7, <2>1, ReachesOut
  <2>3. PICK d \in D, u \in E \cap Out : HasEdge(h, d, u)
    BY <1>4, <2>2
  <2>4. PICK c \in 1 .. g.n : i < c /\ u = ord[c]
    BY <2>3
  <2>5. \A j \in 1 .. g.n : ord[j] \in D => j < i
    <3> SUFFICES ASSUME NEW j \in 1 .. g.n, ord[j] \in D PROVE j < i
      OBVIOUS
    <3>1. ~(i < j)
      BY <2>2
    <3>2. j # i
      BY <2>2
    <3> QED
      BY <1>1, <3>1, <3>2
  <2>6. Sees(h, ord[i], D) /\ Sees(h, ord[c], D) /\ D \in SUBSET V(h)
    BY <1>1, <1>5, <2>2, <2>3, <2>4, EdgeSymmetric DEF Sees
  <2>7. HasEdge(h, ord[i], ord[c])
    <3> HIDE DEF Out
    <3>1. Linked(h, D)
      BY <2>2
    <3>2. \A j \in 1 .. h.n : ord[j] \in D => j < i
      BY <1>1, <2>5
    <3>3. i \in 1 .. h.n /\ c \in 1 .. h.n
      BY <1>1
    <3> QED
      BY <1>1, <2>4, <2>6, <3>1, <3>2, <3>3, NoDetour
  <2> QED
    BY <1>3, <2>3, <2>4, <2>7
<1> QED
  BY <1>6, <1>7

\* The component that the later neighbours of a vertex cut off has the vertices
\* only that come before it.
LEMMA CutIsBefore ==
  ASSUME NEW g, NEW F, NEW ord, NEW X, FoundByMcsM(g, F, ord, X), NEW i \in 1 .. g.n,
         NEW k \in 1 .. g.n, ord[k] \in FindComponent(g, After(g, F, ord, i), ord[i])
  PROVE  k <= i
<1> DEFINE h == Filled(g, F)
           A == After(g, F, ord, i)
           C == FindComponent(g, A, ord[i])
<1>1. /\ V(h) = V(g) /\ g.n \in Nat /\ Numbering(g, ord)
      /\ \A u, w : HasEdge(g, u, w) => HasEdge(h, u, w)
  BY FoundFacts
<1>2. ord[i] \in V(g) \ A /\ \A u : u \in A <=>
        \E j \in i + 1 .. g.n : u = ord[j] /\ HasEdge(h, ord[i], u)
  BY AfterMember
<1> HIDE DEF h, A
<1>3. ord[i] \in C /\ C \subseteq V(g) \ A /\ C \in Components(g, A)
  BY <1>2, ComponentClosed DEF Components
<1>4. ord[k] \in C
  BY DEF A
<1> HIDE DEF C
<1>5. Linked(h, C)
  BY <1>1, <1>3, ComponentLinked, LinkedInMore
<1> SUFFICES ASSUME i < k PROVE FALSE
  BY <1>1
<1> DEFINE u == ord[k]
<1>6. u # ord[i]
  BY <1>1 DEF Numbering
<1>7. ~HasEdge(h, ord[i], u) /\ ~HasEdge(h, u, ord[i])
  <2>1. k \in i + 1 .. g.n
    BY <1>1
  <2> QED
    BY <1>2, <1>3, <1>4, <2>1, EdgeSymmetric
<1>8. Sees(h, u, C)
  <2>1. {u} \in SUBSET C /\ {u} # {} /\ {u} # C
    BY <1>3, <1>4, <1>6
  <2>2. PICK w \in {u} : Sees(h, w, C \ {u})
    BY <1>5, <2>1 DEF Linked
  <2> QED
    BY <2>2 DEF Sees
<1>9. PICK D \in SUBSET (C \ {ord[i]}) : Linked(h, D) /\ Sees(h, ord[i], D) /\ Sees(h, u, D)
  <2>1. C \in SUBSET V(h)
    BY <1>1, <1>3
  <2> HIDE DEF u
  <2> QED
    BY <1>3, <1>5, <1>7, <1>8, <2>1, WithoutEnd
<1> DEFINE E == D \cup {u}
<1>10. Linked(h, E)
  BY <1>9, LinkedWith
<1>11. /\ E \in SUBSET V(g) /\ ord[i] \notin E /\ ord[k] \in E /\ Sees(h, ord[i], E)
       /\ E \cap A = {}
  BY <1>3, <1>4, <1>6, <1>9 DEF Sees
<1> HIDE DEF E, u
<1>12. E \cap A # {}
  BY <1>10, <1>11, LaterAdjacent DEF h, A
<1> QED
  BY <1>11, <1>12

\* The later neighbours that a vertex has after the k-th position, and those of
\* a search that took another vertex there.
LEMMA MostAfter ==
  ASSUME NEW g, NEW F, NEW ord, NEW X, FoundByMcsM(g, F, ord, X),
         NEW i \in 1 .. g.n, NEW k \in i .. g.n, NEW D,
         D \in SUBSET After(g, F, ord, i), \A u \in D : \E l \in k + 1 .. g.n : u = ord[l]
  PROVE  Cardinality(D) <= Cardinality(After(g, F, ord, k)) /\ Cardinality(D) \in Nat
<1> DEFINE h == Filled(g, F)
           B == AfterIn(h, ord, i, k)
<1>1. /\ V(h) = V(g) /\ g.n \in Nat /\ h.n = g.n /\ HasMostAfter(h, ord) /\ IsGraph(h)
  BY FoundFacts
<1>2. \A u : u \in After(g, F, ord, i) <=> \E l \in i + 1 .. g.n : u = ord[l] /\ HasEdge(h, ord[i], u)
  BY AfterMember
<1>3. After(g, F, ord, i) \in SUBSET V(g)
  BY AfterMember
<1>4. After(g, F, ord, k) = AfterIn(h, ord, k, k)
  BY DEF After
<1> HIDE DEF h
<1>5. D \in SUBSET B
  <2> SUFFICES ASSUME NEW u \in D PROVE u \in B
    OBVIOUS
  <2>1. HasEdge(h, u, ord[i]) /\ u \in V(h)
    BY <1>1, <1>2, <1>3, EdgeSymmetric
  <2> QED
    BY <1>1, <2>1 DEF AfterIn, Neighbors
<1>6. B \in SUBSET V(h)
  BY DEF AfterIn, Neighbors
<1> HIDE DEF B
<1>7. IsFiniteSet(B) /\ Cardinality(B) \in Nat
  <2>1. IsFiniteSet(B) /\ Cardinality(B) \in 0 .. h.n
    BY <1>1, <1>6, VerticesFinite
  <2> QED
    BY <1>1, <2>1
<1>8. IsFiniteSet(D) /\ Cardinality(D) <= Cardinality(B) /\ Cardinality(D) \in Nat
  BY <1>5, <1>7, FS_Subset, FS_CardinalityType
<1>9. Cardinality(B) <= Cardinality(AfterIn(h, ord, k, k))
  <2>1. k \in 1 .. h.n /\ i \in 1 .. k
    BY <1>1
  <2> QED
    BY <1>1, <2>1 DEF HasMostAfter, B
<1>10. Cardinality(After(g, F, ord, k)) \in Nat
  <2>1. k \in 1 .. g.n
    BY <1>1
  <2> QED
    BY <2>1, AfterMember
<1> QED
  BY <1>4, <1>7, <1>8, <1>9, <1>10

\* What two vertices of a clique have after the first of them, the second one has too.
LEMMA PassedOn ==
  ASSUME NEW g, NEW F, NEW ord, NEW X, FoundByMcsM(g, F, ord, X),
         NEW i \in 1 .. g.n, NEW j \in i + 1 .. g.n, ord[j] \in After(g, F, ord, i)
  PROVE  /\ \A u \in After(g, F, ord, i) :
              (\E l \in j + 1 .. g.n : u = ord[l]) => u \in After(g, F, ord, j)
         /\ \A u \in After(g, F, ord, i) \ After(g, F, ord, j) :
              u = ord[j] \/ \E l \in i + 1 .. j - 1 : u = ord[l]
<1> DEFINE h == Filled(g, F)
           S == After(g, F, ord, i)
           T == After(g, F, ord, j)
<1>1. g.n \in Nat
  BY FoundFacts
<1>2. j \in 1 .. g.n
  BY <1>1
<1>3. /\ \A u : u \in S <=> \E l \in i + 1 .. g.n : u = ord[l] /\ HasEdge(h, ord[i], u)
      /\ IsClique(h, S)
  BY AfterMember
<1>4. /\ \A u : u \in T <=> \E l \in j + 1 .. g.n : u = ord[l] /\ HasEdge(h, ord[j], u)
  BY <1>2, AfterMember
<1>5. ord[j] \in S
  OBVIOUS
<1>6. Numbering(g, ord)
  BY FoundFacts
<1> HIDE DEF h, S, T
<1>7. ASSUME NEW u \in S, NEW l \in j + 1 .. g.n, u = ord[l] PROVE u \in T
  <2>1. l \in 1 .. g.n /\ l # j
    BY <1>1
  <2>2. u # ord[j]
    BY <1>2, <1>6, <1>7, <2>1 DEF Numbering
  <2>3. HasEdge(h, ord[j], u)
    BY <1>3, <1>5, <2>2, CliquePairs
  <2> QED
    BY <1>4, <1>7, <2>3
<1>8. ASSUME NEW u \in S \ T PROVE u = ord[j] \/ \E l \in i + 1 .. j - 1 : u = ord[l]
  <2>1. PICK l \in i + 1 .. g.n : u = ord[l]
    BY <1>3
  <2>2. l \notin j + 1 .. g.n
    BY <1>7, <1>8, <2>1
  <2>3. l = j \/ l \in i + 1 .. j - 1
    BY <1>1, <2>2
  <2> QED
    BY <2>1, <2>3
<1> QED
  BY <1>7, <1>8 DEF S, T

\* Where the labels stop growing, another vertex than the i-th is adjacent to all
\* that the i-th is adjacent to after it.
LEMMA PointBeside ==
  ASSUME NEW g, NEW F, NEW ord, NEW X, FoundByMcsM(g, F, ord, X),
         NEW i \in 1 .. g.n, ord[i] \in X
  PROVE  \E k \in i + 1 .. g.n :
           /\ ord[k] \notin After(g, F, ord, i)
           /\ \A s \in After(g, F, ord, i) : HasEdge(Filled(g, F), ord[k], s)
<1> DEFINE h == Filled(g, F)
           A(k) == After(g, F, ord, k)
           S == A(i)
<1>1. g.n \in Nat /\ Numbering(g, ord)
  BY FoundFacts
<1>2. i + 1 \in i + 1 .. g.n /\ i + 1 \in 1 .. g.n /\ Cardinality(S) <= Cardinality(A(i + 1))
  <2>1. i + 1 \in 1 .. g.n /\ Cardinality(S) <= Cardinality(A(i + 1))
    BY DEF FoundByMcsM
  <2> QED
    BY <1>1, <2>1
<1>3. \A k \in 1 .. g.n : \A u : u \in A(k) <=> \E l \in k + 1 .. g.n : u = ord[l] /\ HasEdge(h, ord[k], u)
  BY AfterMember
<1>4. \A k \in 1 .. g.n : IsFiniteSet(A(k)) /\ Cardinality(A(k)) \in Nat /\ IsClique(h, A(k))
  BY AfterMember
<1>5. \A k \in i + 1 .. g.n : k \in 1 .. g.n
  BY <1>1
<1> HIDE DEF h, A
<1>6. CASE S = {}
  BY <1>2, <1>6 DEF A, h
<1>7. CASE S # {}
  <2> DEFINE J == {l \in i + 1 .. g.n : ord[l] \in S}
  <2>1. PICK j \in J : \A l \in J : j <= l
    <3>1. J \in SUBSET Nat
      BY <1>1
    <3>2. J # {}
      BY <1>3, <1>7
    <3> HIDE DEF J
    <3> QED
      BY <3>1, <3>2, LeastElement
  <2>2. j \in i + 1 .. g.n /\ j \in 1 .. g.n /\ ord[j] \in S
    BY <1>5, <2>1
  <2>3. \A l \in i + 1 .. j - 1 : ord[l] \notin S
    <3> SUFFICES ASSUME NEW l \in i + 1 .. j - 1, ord[l] \in S PROVE FALSE
      OBVIOUS
    <3>1. l \in i + 1 .. g.n /\ ~(j <= l)
      BY <1>1, <2>2
    <3> QED
      BY <2>1, <3>1
  <2>4. S \ {ord[j]} \subseteq A(j)
    <3>1. \A u \in S \ A(j) : u = ord[j] \/ \E l \in i + 1 .. j - 1 : u = ord[l]
      <4>1. ord[j] \in After(g, F, ord, i)
        BY <2>2 DEF A
      <4> HIDE DEF J, S
      <4> QED
        BY <2>2, <4>1, PassedOn DEF A, S
    <3> QED
      BY <2>3, <3>1
  <2>5. CASE \E u \in A(j) : u \notin S
    <3>1. PICK u \in A(j) : u \notin S
      BY <2>5
    <3>2. PICK l \in j + 1 .. g.n : u = ord[l] /\ HasEdge(h, ord[j], u)
      BY <1>3, <2>2, <3>1
    <3>3. ASSUME NEW s \in S PROVE HasEdge(h, u, s)
      <4>1. CASE s = ord[j]
        BY <3>2, <4>1, EdgeSymmetric
      <4>2. CASE s # ord[j]
        <5>1. s \in A(j) /\ s # u
          BY <2>4, <3>1, <4>2
        <5> QED
          BY <1>4, <2>2, <3>1, <5>1, CliquePairs
      <4> QED
        BY <4>1, <4>2
    <3>4. l \in i + 1 .. g.n
      BY <1>1, <2>2, <3>2
    <3> QED
      BY <3>1, <3>2, <3>3, <3>4 DEF A, h
  <2>6. CASE \A u \in A(j) : u \in S
    <3>1. ord[j] \notin A(j)
      BY <2>2, AfterMember DEF A
    <3>2. A(j) = S \ {ord[j]}
      BY <2>4, <2>6, <3>1
    <3>3. Cardinality(A(j)) = Cardinality(S) - 1 /\ Cardinality(S) \in Nat /\ IsFiniteSet(S)
      <4>1. IsFiniteSet(S) /\ Cardinality(S) \in Nat
        BY <1>4
      <4> HIDE DEF S
      <4> QED
        BY <2>2, <3>2, <4>1, FS_RemoveElement
    <3>4. j # i + 1
      BY <1>2, <3>3
    <3> DEFINE r == j - 1
    <3>5. r \in i + 1 .. j - 1 /\ r \in i + 1 .. g.n /\ r \in 1 .. g.n /\ r + 1 = j /\ r \in Nat
      BY <1>1, <2>2, <3>4
    <3> HIDE DEF r, J
    <3>6. \A u \in S : \E l \in r + 1 .. g.n : u = ord[l]
      <4> SUFFICES ASSUME NEW u \in S PROVE \E l \in r + 1 .. g.n : u = ord[l]
        OBVIOUS
      <4>1. PICK l \in i + 1 .. g.n : u = ord[l]
        BY <1>3
      <4>2. l \notin i + 1 .. j - 1
        BY <2>3, <4>1
      <4>3. l \in r + 1 .. g.n
        BY <1>1, <2>2, <3>5, <4>2
      <4> QED
        BY <4>1, <4>3
    <3>7. Cardinality(S) <= Cardinality(A(r))
      <4>1. S \in SUBSET After(g, F, ord, i) /\ r \in i .. g.n
        BY <1>1, <3>5 DEF A
      <4> HIDE DEF S
      <4> QED
        BY <3>6, <4>1, MostAfter DEF A
    <3>8. ord[j] \in A(r)
      <4> SUFFICES ASSUME ord[j] \notin A(r) PROVE FALSE
        OBVIOUS
      <4>1. \A u \in A(r) : \E l \in j + 1 .. g.n : u = ord[l]
        <5> SUFFICES ASSUME NEW u \in A(r) PROVE \E l \in j + 1 .. g.n : u = ord[l]
          OBVIOUS
        <5>1. PICK l \in r + 1 .. g.n : u = ord[l]
          BY <1>3, <3>5
        <5>2. l # j
          BY <5>1
        <5>3. l \in j + 1 .. g.n
          BY <1>1, <2>2, <3>5, <5>1, <5>2
        <5> QED
          BY <5>1, <5>3
      <4>2. j \in r .. g.n /\ A(r) \in SUBSET After(g, F, ord, r)
        BY <1>1, <2>2, <3>5 DEF A
      <4>3. Cardinality(A(r)) <= Cardinality(A(j))
        BY <3>5, <4>1, <4>2, MostAfter DEF A
      <4>4. Cardinality(A(r)) \in Nat /\ Cardinality(A(j)) \in Nat
        BY <1>4, <2>2, <3>5
      <4> QED
        BY <3>3, <3>7, <4>3, <4>4
    <3>9. \A u \in A(r) : u = ord[j] \/ u \in A(j)
      <4>1. r + 1 .. j - 1 = {} /\ j \in r + 1 .. g.n
        BY <1>1, <2>2, <3>5
      <4>2. \A u \in A(r) \ A(j) : u = ord[j] \/ \E l \in r + 1 .. j - 1 : u = ord[l]
        BY <3>5, <3>8, <4>1, PassedOn DEF A
      <4> QED
        BY <4>1, <4>2
    <3>10. A(r) \in SUBSET S
      BY <2>2, <3>2, <3>9
    <3>11. A(r) = S
      <4>1. Cardinality(A(r)) <= Cardinality(S) /\ (Cardinality(S) = Cardinality(A(r)) => S = A(r))
        <5> HIDE DEF S
        <5> QED
          BY <3>3, <3>10, FS_Subset
      <4>2. Cardinality(A(r)) \in Nat
        BY <1>4, <3>5
      <4> QED
        BY <3>3, <3>7, <4>1, <4>2
    <3>12. ord[r] \notin S
      BY <2>3, <3>5
    <3>13. \A s \in S : HasEdge(h, ord[r], s)
      BY <1>3, <3>5, <3>11
    <3> QED
      BY <3>5, <3>12, <3>13 DEF A, h
  <2> QED
    BY <2>5, <2>6
<1> QED
  BY <1>6, <1>7

\* The last vertex of one side of a minimal separator that is a clique is marked,
\* and what it has after it is in the separator, if the other side ends later.
LEMMA IsPoint ==
  ASSUME NEW g, NEW F, NEW ord, NEW X, FoundByMcsM(g, F, ord, X),
         NEW T \in SUBSET V(g), IsClique(g, T),
         NEW A \in Components(g, T), NEW B \in Components(g, T), A # B, NeighborsOf(g, B) = T,
         NEW a \in 1 .. g.n, NEW b \in 1 .. g.n, a < b, ord[a] \in A, ord[b] \in B,
         \A k \in 1 .. g.n : ord[k] \in A => k <= a
  PROVE  ord[a] \in X /\ After(g, F, ord, a) \subseteq T
<1> DEFINE h == Filled(g, F)
           S == After(g, F, ord, a)
           N == After(g, F, ord, a + 1)
           p == ord[a + 1]
<1>1. /\ IsGraph(g) /\ V(h) = V(g) /\ g.n \in Nat /\ Numbering(g, ord)
      /\ \A u, w : HasEdge(g, u, w) => HasEdge(h, u, w)
  BY FoundFacts
<1>2. F \in MinimalTriangulations(g)
  BY DEF FoundByMcsM
<1>3. a + 1 \in 1 .. g.n /\ a + 1 \in a + 1 .. g.n /\ a + 1 \in a .. g.n
  BY <1>1
<1>4. /\ \A u : u \in S <=> \E l \in a + 1 .. g.n : u = ord[l] /\ HasEdge(h, ord[a], u)
      /\ IsFiniteSet(S) /\ Cardinality(S) \in Nat
  BY AfterMember
<1>5. IsFiniteSet(N) /\ Cardinality(N) \in Nat
  BY <1>3, AfterMember
<1>6. /\ A \subseteq V(g) \ T /\ IsClosed(g, T, A) /\ B \subseteq V(g) \ T /\ A \cap B = {}
  BY ComponentsMember
<1>7. IsClique(h, T)
  BY <1>1, CliquePairs
<1> HIDE DEF h, S, N
<1>8. S \subseteq T
  <2> SUFFICES ASSUME NEW u \in S PROVE u \in T
    OBVIOUS
  <2>1. PICK l \in a + 1 .. g.n : u = ord[l] /\ HasEdge(h, ord[a], u)
    BY <1>4
  <2>2. l \in 1 .. g.n /\ ~(l <= a)
    BY <1>1, <2>1
  <2>3. u \notin A
    BY <2>1, <2>2
  <2>4. u \in T \cup A
    <3>1. A \in SUBSET V(g) /\ A \cap T = {}
      BY <1>6
    <3> QED
      BY <1>1, <1>2, <1>6, <1>7, <2>1, <3>1, NoEdgeAcross DEF h
  <2> QED
    BY <2>3, <2>4
<1>9. Cardinality(S) <= Cardinality(N)
  <2>1. CASE p \notin S
    <3>1. \A u \in S : \E l \in (a + 1) + 1 .. g.n : u = ord[l]
      <4> SUFFICES ASSUME NEW u \in S PROVE \E l \in (a + 1) + 1 .. g.n : u = ord[l]
        OBVIOUS
      <4>1. PICK l \in a + 1 .. g.n : u = ord[l]
        BY <1>4
      <4>2. l # a + 1
        BY <2>1, <4>1
      <4>3. l \in (a + 1) + 1 .. g.n
        BY <1>1, <4>1, <4>2
      <4> QED
        BY <4>1, <4>3
    <3>2. S \in SUBSET After(g, F, ord, a)
      BY DEF S
    <3> QED
      BY <1>3, <3>1, <3>2, MostAfter DEF N
  <2>2. CASE p \in S
    <3> SUFFICES ASSUME ~(Cardinality(S) <= Cardinality(N)) PROVE FALSE
      OBVIOUS
    <3>1. \A u \in S \ N : u = p
      <4>1. a + 1 .. (a + 1) - 1 = {}
        BY <1>1
      <4>2. ord[a + 1] \in After(g, F, ord, a)
        BY <2>2 DEF S
      <4>3. \A u \in S \ N : u = ord[a + 1] \/ \E l \in a + 1 .. (a + 1) - 1 : u = ord[l]
        BY <1>3, <4>2, PassedOn DEF S, N
      <4> QED
        BY <4>1, <4>3
    <3>2. S \ {p} \in SUBSET N /\ Cardinality(S \ {p}) = Cardinality(S) - 1
      <4>1. Cardinality(S \ {p}) = Cardinality(S) - 1
        <5> HIDE DEF p
        <5> QED
          BY <1>4, <2>2, FS_RemoveElement
      <4> QED
        BY <3>1, <4>1
    <3>3. N = S \ {p}
      <4> DEFINE rest == S \ {p}
      <4>1. rest \in SUBSET N /\ Cardinality(rest) = Cardinality(S) - 1
        BY <3>2
      <4> HIDE DEF rest
      <4>2. Cardinality(rest) <= Cardinality(N) /\ (Cardinality(N) = Cardinality(rest) => N = rest)
        BY <1>5, <4>1, FS_Subset
      <4>3. N = rest
        BY <1>4, <1>5, <4>1, <4>2
      <4> QED
        BY <4>3 DEF rest
    <3>4. N \subseteq T /\ p \in T
      BY <1>8, <2>2, <3>3
    <3>5. Sees(h, p, B)
      <4>1. p \in NeighborsOf(g, B)
        BY <3>4
      <4> QED
        BY <1>1, <4>1 DEF NeighborsOf, Sees
    <3>6. Linked(h, B) /\ B \in SUBSET V(g) /\ p \notin B
      BY <1>1, <1>6, <3>4, ComponentLinked, LinkedInMore
    <3>7. a + 1 < b
      <4>1. b # a + 1
        BY <3>6
      <4> QED
        BY <1>1, <4>1
    <3>8. B \cap N # {}
      BY <1>3, <3>5, <3>6, <3>7, LaterAdjacent DEF h, N
    <3> QED
      BY <1>6, <3>4, <3>8
  <2> QED
    BY <2>1, <2>2
<1>10. ord[a] \in X
  BY <1>3, <1>9 DEF FoundByMcsM, S, N
<1> QED
  BY <1>8, <1>10 DEF S

-----------------------------------------------------------------------------
(* Where the separators are: what Atoms cuts off has none left. *)

\* The vertices so far that were marked and whose later neighbours are a clique
\* have been cut off.
AllCut(g, F, ord, X, cut, k) ==
  \A j \in 1 .. g.n :
    j < k /\ ord[j] \in X /\ IsClique(g, After(g, F, ord, j)) =>
      FindComponent(g, After(g, F, ord, j), ord[j]) \subseteq cut

\* The last vertex of a set in the order.
LEMMA LastOf ==
  ASSUME NEW g, g.n \in Nat, NEW ord, Numbering(g, ord), NEW A \in SUBSET V(g), A # {}
  PROVE  \E a \in 1 .. g.n : ord[a] \in A /\ \A k \in 1 .. g.n : ord[k] \in A => k <= a
<1> DEFINE P == {k \in 1 .. g.n : ord[k] \in A}
<1>1. P \in SUBSET Nat /\ P # {} /\ \A l \in P : l <= g.n
  BY DEF Numbering
<1>2. \E a \in P : \A k \in P : k <= a
  <2> HIDE DEF P
  <2> QED
    BY <1>1, GreatestElement
<1> QED
  BY <1>2

\* Two sides of a clique separator T, of which one ends at position a.
SidesOf(g, F, ord, T, A, B, a, b) ==
  /\ A \in Components(g, T) /\ B \in Components(g, T) /\ A # B
  /\ a \in 1 .. g.n /\ b \in 1 .. g.n /\ a < b /\ ord[a] \in A /\ ord[b] \in B
  /\ After(g, F, ord, a) \subseteq T

\* The side that ends first has not been passed, as it would have been cut off.
LEMMA EndsLater ==
  ASSUME NEW g, NEW F, NEW ord, NEW X, FoundByMcsM(g, F, ord, X),
         NEW cut, NEW k, AllCut(g, F, ord, X, cut, k),
         NEW T \in SUBSET V(g), IsClique(g, T),
         NEW A \in Components(g, T), NEW B \in Components(g, T), A # B,
         NeighborsOf(g, B) = T, ~(A \subseteq cut),
         NEW a \in 1 .. g.n, NEW b \in 1 .. g.n, a < b, ord[a] \in A, ord[b] \in B,
         \A l \in 1 .. g.n : ord[l] \in A => l <= a
  PROVE  SidesOf(g, F, ord, T, A, B, a, b) /\ ~(a < k)
<1> DEFINE S == After(g, F, ord, a)
<1>1. ord[a] \in X /\ S \subseteq T
  BY IsPoint
<1>2. IsClique(g, S)
  BY <1>1, CliquePairs
<1>3. A \cap T = {}
  BY ComponentsMember
<1>4. A \subseteq FindComponent(g, S, ord[a])
  <2>1. A \cap S = {}
    BY <1>1, <1>3
  <2> HIDE DEF S
  <2> QED
    BY <2>1, ComponentSpared
<1>5. ASSUME a < k PROVE FALSE
  <2>1. FindComponent(g, S, ord[a]) \subseteq cut
    BY <1>1, <1>2, <1>5 DEF AllCut
  <2> QED
    BY <1>4, <2>1
<1>6. SidesOf(g, F, ord, T, A, B, a, b)
  BY <1>1 DEF SidesOf
<1> QED
  BY <1>5, <1>6

\* A clique separator of what is left has two sides that have not been passed.
LEMMA SidesAreLate ==
  ASSUME NEW g, NEW F, NEW ord, NEW X, FoundByMcsM(g, F, ord, X),
         NEW cut, NEW k, AllCut(g, F, ord, X, cut, k),
         NEW Q \in SUBSET V(g), Q \cap cut = {}, Convex(g, Q),
         NEW K \in SUBSET Q, IsClique(g, K),
         NEW A \in Components(g, (V(g) \ Q) \cup K), NEW B \in Components(g, (V(g) \ Q) \cup K),
         A # B
  PROVE  \E T \in SUBSET K, A2, B2 \in SUBSET V(g), a, b \in 1 .. g.n :
           SidesOf(g, F, ord, T, A2, B2, a, b) /\ ~(a < k) /\ A2 \cap Q # {} /\ B2 \cap Q # {}
<1> DEFINE K2 == (V(g) \ Q) \cup K
<1>1. IsGraph(g) /\ g.n \in Nat /\ Numbering(g, ord)
  BY FoundFacts
<1>2. /\ A # {} /\ B # {} /\ A \subseteq Q \ K /\ B \subseteq Q \ K /\ A \cap B = {}
  <2>1. A # {} /\ B # {} /\ A \subseteq V(g) \ K2 /\ B \subseteq V(g) \ K2 /\ A \cap B = {}
    BY ComponentsMember
  <2> QED
    BY <2>1
<1>3. PICK p \in A, q \in B : TRUE
  BY <1>2
<1> DEFINE A1 == FindComponent(g, K, p)
           B1 == FindComponent(g, K, q)
<1>4. A1 \in Components(g, K) /\ B1 \in Components(g, K) /\ A \subseteq A1 /\ B \subseteq B1
  <2>1. A \cap K = {} /\ B \cap K = {}
    BY <1>2
  <2>2. p \in V(g) \ K /\ A \subseteq A1
    BY <1>3, <2>1, ComponentSpared
  <2>3. q \in V(g) \ K /\ B \subseteq B1
    BY <1>3, <2>1, ComponentSpared
  <2> QED
    BY <2>2, <2>3 DEF Components
<1>5. A1 # B1
  <2> SUFFICES ASSUME A1 = B1 PROVE FALSE
    OBVIOUS
  <2> DEFINE Y == A1 \cap Q
  <2>1. Linked(g, A1) /\ A1 \in SUBSET V(g) /\ A1 \cap K = {} /\ p \in A1 \cap Q /\ q \in A1
    <3>1. A1 \in SUBSET V(g) /\ A1 \cap K = {}
      <4> HIDE DEF A1, B1
      <4> QED
        BY <1>4, ComponentsMember
    <3> QED
      BY <1>2, <1>3, <1>4, <3>1, ComponentLinked
  <2>2. Linked(g, Y) /\ Y \in SUBSET (V(g) \ K2) /\ p \in Y /\ q \in Y
    <3> HIDE DEF A1, B1
    <3> QED
      BY <1>2, <1>3, <2>1 DEF Convex
  <2> HIDE DEF Y
  <2>3. Y \subseteq FindComponent(g, K2, p)
    <3> HIDE DEF K2
    <3> QED
      BY <2>2, LinkedInComponent
  <2>4. A = FindComponent(g, K2, p)
    BY <1>3, ComponentsMember
  <2> QED
    BY <1>2, <1>3, <2>2, <2>3, <2>4
<1> HIDE DEF A1, B1
<1>6. PICK T \in SUBSET K : \E A2 \in Components(g, T), B2 \in Components(g, T) :
           /\ A2 # B2 /\ A1 \subseteq A2 /\ B1 \subseteq B2
           /\ NeighborsOf(g, A2) = T /\ NeighborsOf(g, B2) = T
  <2>1. K \in SUBSET V(g)
    OBVIOUS
  <2> QED
    BY <1>4, <1>5, <2>1, MinimalBetween
<1>7. PICK A2 \in Components(g, T), B2 \in Components(g, T) :
           /\ A2 # B2 /\ A1 \subseteq A2 /\ B1 \subseteq B2
           /\ NeighborsOf(g, A2) = T /\ NeighborsOf(g, B2) = T
  BY <1>6
<1>8. IsClique(g, T) /\ T \in SUBSET V(g)
  BY <1>6, CliquePairs
<1>9. /\ A2 # {} /\ B2 # {} /\ A2 \in SUBSET V(g) /\ B2 \in SUBSET V(g) /\ A2 \cap B2 = {}
  BY <1>7, ComponentsMember
<1>10. /\ A2 \cap Q # {} /\ B2 \cap Q # {} /\ ~(A2 \subseteq cut) /\ ~(B2 \subseteq cut)
  BY <1>2, <1>4, <1>7
<1>11. PICK a \in 1 .. g.n : ord[a] \in A2 /\ \A l \in 1 .. g.n : ord[l] \in A2 => l <= a
  BY <1>1, <1>9, LastOf
<1>12. PICK b \in 1 .. g.n : ord[b] \in B2 /\ \A l \in 1 .. g.n : ord[l] \in B2 => l <= b
  BY <1>1, <1>9, LastOf
<1>13. a # b
  BY <1>9, <1>11, <1>12
<1>14. CASE a < b
  <2>1. SidesOf(g, F, ord, T, A2, B2, a, b) /\ ~(a < k)
    BY <1>7, <1>8, <1>10, <1>11, <1>12, <1>14, EndsLater
  <2> QED
    BY <1>6, <1>9, <1>10, <1>11, <1>12, <2>1
<1>15. CASE b < a
  <2>1. SidesOf(g, F, ord, T, B2, A2, b, a) /\ ~(b < k)
    BY <1>7, <1>8, <1>10, <1>11, <1>12, <1>15, EndsLater
  <2> QED
    BY <1>6, <1>9, <1>10, <1>11, <1>12, <2>1
<1> QED
  BY <1>1, <1>13, <1>14, <1>15

\* What is left in the end has no clique separator.
LEMMA RestIsAtom ==
  ASSUME NEW g, NEW F, NEW ord, NEW X, FoundByMcsM(g, F, ord, X),
         NEW cut, AllCut(g, F, ord, X, cut, g.n + 1),
         NEW Q \in SUBSET V(g), Q \cap cut = {}, Convex(g, Q)
  PROVE  HasNoCliqueSeparator(g, Q)
<1>1. g.n \in Nat
  BY FoundFacts
<1> SUFFICES ASSUME NEW K \in SUBSET Q, IsClique(g, K)
             PROVE  Cardinality(Components(g, (V(g) \ Q) \cup K)) <= 1
  BY DEF HasNoCliqueSeparator
<1> DEFINE D == Components(g, (V(g) \ Q) \cup K)
<1>2. ASSUME NEW A \in D, NEW B \in D, A # B PROVE FALSE
  <2>1. \E a \in 1 .. g.n : ~(a < g.n + 1)
    BY <1>2, SidesAreLate
  <2> QED
    BY <1>1, <2>1
<1> HIDE DEF D
<1>3. Cardinality(D) <= 1
  BY <1>2, AtMostOne
<1> QED
  BY <1>3 DEF D

\* What is cut off, with the clique, has no clique separator.
LEMMA CutIsAtom ==
  ASSUME NEW g, NEW F, NEW ord, NEW X, FoundByMcsM(g, F, ord, X),
         NEW k \in 1 .. g.n, NEW cut, AllCut(g, F, ord, X, cut, k),
         IsClique(g, After(g, F, ord, k)),
         NEW C \in SUBSET FindComponent(g, After(g, F, ord, k), ord[k]),
         NEW Q \in SUBSET V(g), Q = C \cup After(g, F, ord, k),
         Q \cap cut = {}, Convex(g, Q)
  PROVE  HasNoCliqueSeparator(g, Q)
<1> DEFINE S == After(g, F, ord, k)
           D == FindComponent(g, S, ord[k])
<1>1. IsGraph(g) /\ g.n \in Nat /\ Numbering(g, ord)
  BY FoundFacts
<1>2. S \in SUBSET V(g) /\ ord[k] \in V(g) \ S
  BY AfterMember
<1>3. D \subseteq V(g) \ S /\ D \in Components(g, S)
  BY <1>2, ComponentClosed DEF Components
<1>4. \A l \in 1 .. g.n : ord[l] \in D => l <= k
  BY CutIsBefore
<1> HIDE DEF D
<1>5. ASSUME NEW T, NEW B \in Components(g, T), B \cap Q # {}, B \cap S = {},
             NEW l \in 1 .. g.n, ord[l] \in B
      PROVE  l <= k
  <2>1. PICK c \in B : c \in C
    BY <1>5
  <2>2. c \in D
    BY <2>1 DEF D
  <2>3. D = FindComponent(g, S, c)
    <3> HIDE DEF S
    <3> QED
      BY <1>3, <2>2, ComponentsMember
  <2>4. B \subseteq FindComponent(g, S, c)
    <3> HIDE DEF S
    <3> QED
      BY <1>5, <2>1, ComponentSpared
  <2> QED
    BY <1>4, <1>5, <2>3, <2>4
<1> SUFFICES ASSUME NEW K \in SUBSET Q, IsClique(g, K)
             PROVE  Cardinality(Components(g, (V(g) \ Q) \cup K)) <= 1
  BY DEF HasNoCliqueSeparator
<1> DEFINE Parts == Components(g, (V(g) \ Q) \cup K)
<1>6. ASSUME NEW P \in Parts, NEW R \in Parts, P # R PROVE FALSE
  <2>1. PICK T \in SUBSET K, A \in SUBSET V(g), B \in SUBSET V(g), a \in 1 .. g.n, b \in 1 .. g.n :
           SidesOf(g, F, ord, T, A, B, a, b) /\ ~(a < k) /\ A \cap Q # {} /\ B \cap Q # {}
    BY <1>6, SidesAreLate
  <2>2. /\ A \in Components(g, T) /\ B \in Components(g, T) /\ A # B
        /\ a < b /\ ord[a] \in A /\ ord[b] \in B /\ After(g, F, ord, a) \subseteq T
    BY <2>1 DEF SidesOf
  <2>3. ~(b <= k)
    BY <1>1, <2>1, <2>2
  <2>4. B \cap S # {}
    BY <1>5, <2>1, <2>2, <2>3
  <2>5. A \cap S = {}
    <3> SUFFICES ASSUME NEW u \in A \cap S PROVE FALSE
      OBVIOUS
    <3>1. PICK w \in B \cap S : TRUE
      BY <2>4
    <3>2. A \cap B = {} /\ B \subseteq V(g) \ T /\ IsClosed(g, T, A)
      BY <2>2, ComponentsMember
    <3>3. HasEdge(g, u, w)
      <4>1. IsClique(g, S) /\ u # w
        BY <3>1, <3>2
      <4> HIDE DEF S
      <4> QED
        BY <3>1, <4>1, CliquePairs
    <3>4. w \in A
      BY <3>1, <3>2, <3>3 DEF IsClosed
    <3> QED
      BY <3>1, <3>2, <3>4
  <2>6. a = k
    <3>1. a <= k
      BY <1>5, <2>1, <2>2, <2>5
    <3> QED
      BY <1>1, <2>1, <3>1
  <2>7. B \cap T = {}
    BY <2>2, ComponentsMember
  <2> QED
    BY <2>2, <2>4, <2>6, <2>7
<1> HIDE DEF Parts
<1>7. Cardinality(Parts) <= 1
  BY <1>6, AtMostOne
<1> QED
  BY <1>7 DEF Parts

-----------------------------------------------------------------------------
(* The elimination of Atoms, for the order that McsM found. *)

\* C is cut off at the clique S, with the vertex at position k.
CutsOff(g, F, ord, k, cut, C, S) ==
  /\ k \in 1 .. g.n /\ S = After(g, F, ord, k) /\ IsClique(g, S) /\ S \in SUBSET V(g)
  /\ C \in SUBSET V(g) /\ ord[k] \in C /\ C \cap S = {} /\ C \cap cut = {} /\ S \cap cut = {}
  /\ C \subseteq FindComponent(g, S, ord[k]) /\ FindComponent(g, S, ord[k]) \subseteq C \cup cut
  /\ \A l \in 1 .. g.n : (ord[l] \in C => l <= k) /\ (ord[l] \in S => k < l)
  /\ \A c \in C : \A r \in V(g) \ cut : HasEdge(Filled(g, F), c, r) => r \in C \cup S
  /\ Convex(g, (V(g) \ cut) \ C) /\ Convex(g, C \cup S)

\* Nothing at position k or later is cut off, and what is left is convex.
Passed(g, ord, k, cut) ==
  /\ cut \in SUBSET V(g) /\ \A j \in 1 .. g.n : ord[j] \in cut => j < k
  /\ Convex(g, V(g) \ cut)

\* One step: the component that Atoms finds.
LEMMA CutFacts ==
  ASSUME NEW g, NEW F, NEW ord, NEW X, FoundByMcsM(g, F, ord, X),
         NEW k \in 1 .. g.n, NEW cut, Passed(g, ord, k, cut),
         NEW S, S = After(g, F, ord, k), IsClique(g, S),
         NEW C, C = FindComponent(g, (cut \cup S) \ {ord[k]}, ord[k])
  PROVE  CutsOff(g, F, ord, k, cut, C, S)
<1> DEFINE h == Filled(g, F)
           v == ord[k]
           R == V(g) \ cut
           D == FindComponent(g, S, v)
<1>1. /\ IsGraph(g) /\ V(h) = V(g) /\ g.n \in Nat /\ Numbering(g, ord)
      /\ \A u, w : HasEdge(g, u, w) => HasEdge(h, u, w)
  BY FoundFacts
<1>2. S \in SUBSET V(g) /\ v \in V(g) \ S /\ IsClique(h, S)
  BY AfterMember
<1>3. \A l \in 1 .. g.n : ord[l] \in S => k < l
  <2> SUFFICES ASSUME NEW l \in 1 .. g.n, ord[l] \in S PROVE k < l
    OBVIOUS
  <2>1. PICK j \in k + 1 .. g.n : ord[l] = ord[j]
    BY AfterMember
  <2>2. j \in 1 .. g.n /\ k < j
    BY <1>1
  <2> QED
    BY <1>1, <2>1, <2>2 DEF Numbering
<1>4. /\ cut \in SUBSET V(g) /\ \A j \in 1 .. g.n : ord[j] \in cut => j < k
      /\ Convex(g, R)
  BY DEF Passed
<1>5. S \cap cut = {} /\ v \notin cut
  <2> SUFFICES ASSUME NEW u \in cut, u \in S \/ u = v PROVE FALSE
    OBVIOUS
  <2>1. PICK j \in 1 .. g.n : u = ord[j]
    BY <1>1, <1>4 DEF Numbering
  <2> QED
    BY <1>1, <1>3, <1>4, <2>1
<1> HIDE DEF h
<1>6. C = FindComponent(g, cut \cup S, v)
  <2>1. (cut \cup S) \ {v} = cut \cup S
    BY <1>2, <1>5
  <2> QED
    BY <2>1
<1>7. /\ v \in C /\ C \subseteq V(g) \ (cut \cup S) /\ IsClosed(g, cut \cup S, C)
  <2>1. v \in V(g) \ (cut \cup S)
    BY <1>2, <1>5
  <2> QED
    BY <1>6, <2>1, ComponentClosed
<1>8. C \subseteq D
  <2>1. v \in V(g) \ (cut \cup S) /\ S \subseteq cut \cup S
    BY <1>2, <1>5
  <2> QED
    BY <1>6, <2>1, ComponentGrows
<1>9. D \subseteq V(g) \ S /\ v \in D /\ D \in Components(g, S) /\ IsClosed(g, S, D)
  BY <1>2, ComponentClosed DEF Components
<1>10. \A l \in 1 .. g.n : ord[l] \in D => l <= k
  BY CutIsBefore
<1> HIDE DEF D
<1>11. D \subseteq C \cup cut
  <2> DEFINE Y == D \cap R
  <2>1. Linked(g, Y)
    <3>1. Linked(g, D) /\ D \in SUBSET V(g) /\ D \cap R # {}
      BY <1>2, <1>5, <1>9, ComponentLinked
    <3> HIDE DEF R
    <3> QED
      BY <1>4, <3>1 DEF Convex
  <2>2. Y \in SUBSET (V(g) \ (cut \cup S)) /\ v \in Y
    BY <1>2, <1>5, <1>9
  <2>3. Y \subseteq C
    <3> HIDE DEF Y
    <3> QED
      BY <1>6, <2>1, <2>2, LinkedInComponent
  <2> QED
    BY <1>9, <2>3
<1>12. \A c \in C : \A r \in R : HasEdge(g, c, r) => r \in C \cup S
  BY <1>7 DEF IsClosed
<1>13. \A c \in C : \A r \in R : HasEdge(h, c, r) => r \in C \cup S
  <2> SUFFICES ASSUME NEW c \in C, NEW r \in R, HasEdge(h, c, r) PROVE r \in C \cup S
    OBVIOUS
  <2>1. D \in SUBSET V(g) /\ D \cap S = {} /\ c \in D /\ F \in MinimalTriangulations(g)
    BY <1>8, <1>9 DEF FoundByMcsM
  <2>2. r \in S \cup D
    <3> HIDE DEF R
    <3> QED
      BY <1>1, <1>2, <1>9, <2>1, NoEdgeAcross DEF h
  <2> QED
    BY <1>11, <2>2
<1>14. Convex(g, R \ C)
  <2>1. R \in SUBSET V(g) /\ C \cap S = {}
    BY <1>7
  <2> HIDE DEF R
  <2> QED
    BY <1>4, <1>12, <2>1, ConvexCut
<1>15. Convex(g, C \cup S)
  <2> DEFINE E == R \ (C \cup S)
  <2>1. R \in SUBSET V(g) /\ E \cap S = {} /\ R \ E = C \cup S
    BY <1>2, <1>5, <1>7
  <2>2. \A e \in E : \A r \in R : HasEdge(g, e, r) => r \in E \cup S
    <3> SUFFICES ASSUME NEW e \in E, NEW r \in R, HasEdge(g, e, r), r \in C PROVE FALSE
      OBVIOUS
    <3>1. HasEdge(g, r, e)
      BY EdgeSymmetric
    <3> QED
      BY <1>12, <3>1
  <2> HIDE DEF R, E
  <2>3. Convex(g, R \ E)
    BY <1>4, <2>1, <2>2, ConvexCut
  <2> QED
    BY <2>1, <2>3
<1>16. C \cap S = {} /\ C \cap cut = {} /\ C \in SUBSET V(g)
  BY <1>7
<1>17. \A l \in 1 .. g.n : (ord[l] \in C => l <= k) /\ (ord[l] \in S => k < l)
  BY <1>3, <1>8, <1>10
<1> QED
  BY <1>2, <1>5, <1>7, <1>8, <1>11, <1>13, <1>14, <1>15, <1>16, <1>17 DEF CutsOff, D, h

\* What is not in the list of atoms in whole is left.
NoneMissed(g, cut, list) ==
  \A Y \in (SUBSET V(g)) \ {{}} : HasNoCliqueSeparator(g, Y) =>
    Y \cap cut = {} \/ \E i \in 1 .. Len(list) : Y \subseteq list[i]

\* Each atom has a vertex that none after it has, and none contains a later one.
NoneTwice(g, cut, list) ==
  \A i \in 1 .. Len(list) :
    /\ \E c \in list[i] \cap cut : \A j \in i + 1 .. Len(list) : c \notin list[j]
    /\ \A j \in i + 1 .. Len(list) : ~(list[j] \subseteq list[i])

\* A vertex outside the atom that is left and adjacent to what is left of it.
HasBeside(h, cut, A) ==
  \E v \in V(h) \ (cut \cup A) : \A u \in A \ cut : HasEdge(h, u, v)

AtomSearch(g, F, ord, X, k, cut, list) ==
  /\ k \in 1 .. g.n + 1 /\ list \in Seq(SUBSET V(g))
  /\ Passed(g, ord, k, cut) /\ ord[g.n] \notin cut /\ AllCut(g, F, ord, X, cut, k)
  /\ \A i \in 1 .. Len(list) : /\ list[i] # {} /\ HasNoCliqueSeparator(g, list[i])
                               /\ HasBeside(Filled(g, F), cut, list[i])
  /\ NoneMissed(g, cut, list) /\ NoneTwice(g, cut, list)

\* Before the first vertex nothing is cut off.
LEMMA AtomsBegin ==
  ASSUME NEW g, NEW F, NEW ord, NEW X, FoundByMcsM(g, F, ord, X), g.n >= 1
  PROVE  AtomSearch(g, F, ord, X, 1, {}, <<>>)
<1>1. g.n \in Nat
  BY FoundFacts
<1>2. Convex(g, V(g) \ {})
  <2> SUFFICES ASSUME NEW Y \in SUBSET V(g), Linked(g, Y) PROVE Linked(g, Y \cap (V(g) \ {}))
    BY DEF Convex
  <2>1. Y \cap (V(g) \ {}) = Y
    OBVIOUS
  <2> QED
    BY <2>1
<1>3. Passed(g, ord, 1, {})
  BY <1>2 DEF Passed
<1>4. AllCut(g, F, ord, X, {}, 1)
  BY DEF AllCut
<1>5. Len(<<>>) = 0 /\ <<>> \in Seq(SUBSET V(g)) /\ 1 .. 0 = {}
  OBVIOUS
<1>6. NoneMissed(g, {}, <<>>) /\ NoneTwice(g, {}, <<>>)
  BY <1>5 DEF NoneMissed, NoneTwice
<1>7. 1 \in 1 .. g.n + 1
  BY <1>1
<1> QED
  BY <1>3, <1>4, <1>5, <1>6, <1>7 DEF AtomSearch

\* A vertex that is not marked or has no clique after it is passed by.
LEMMA AtomsSkip ==
  ASSUME NEW g, NEW F, NEW ord, NEW X, FoundByMcsM(g, F, ord, X),
         NEW k \in 1 .. g.n, NEW cut, NEW list, AtomSearch(g, F, ord, X, k, cut, list),
         ~(ord[k] \in X /\ IsClique(g, After(g, F, ord, k)))
  PROVE  AtomSearch(g, F, ord, X, k + 1, cut, list)
<1>1. g.n \in Nat
  BY FoundFacts
<1>2. k + 1 \in 1 .. g.n + 1 /\ \A j \in 1 .. g.n : (j < k => j < k + 1) /\ (j < k + 1 => j < k \/ j = k)
  BY <1>1
<1>3. Passed(g, ord, k + 1, cut)
  BY <1>2 DEF AtomSearch, Passed
<1>4. AllCut(g, F, ord, X, cut, k + 1)
  <2>1. AllCut(g, F, ord, X, cut, k)
    BY DEF AtomSearch
  <2> QED
    BY <1>2, <2>1 DEF AllCut
<1> QED
  BY <1>2, <1>3, <1>4 DEF AtomSearch

\* What has no clique separator is on one side of the clique.
LEMMA OnOneSide ==
  ASSUME NEW g, NEW F, NEW ord, g.n \in Nat, NEW k, NEW cut, NEW C, NEW S,
         CutsOff(g, F, ord, k, cut, C, S), \A u, w : HasEdge(g, u, w) => HasEdge(Filled(g, F), u, w),
         NEW Y \in SUBSET V(g), HasNoCliqueSeparator(g, Y), Y \cap cut = {}
  PROVE  Y \cap C = {} \/ Y \subseteq C \cup S
<1> SUFFICES ASSUME NEW a \in Y \cap C, NEW b \in Y, b \notin C \cup S PROVE FALSE
  OBVIOUS
<1> DEFINE K == Y \cap S
           out == (V(g) \ Y) \cup K
           A == FindComponent(g, out, a)
           B == FindComponent(g, out, b)
           E == C \cap Y
<1>1. /\ IsClique(g, S) /\ C \cap S = {} /\ C \in SUBSET V(g)
      /\ \A c \in C : \A r \in V(g) \ cut : HasEdge(Filled(g, F), c, r) => r \in C \cup S
  BY DEF CutsOff
<1>2. IsClique(g, K) /\ K \in SUBSET Y
  BY <1>1, CliquePairs
<1>3. a \in V(g) \ out /\ b \in V(g) \ out
  BY <1>1
<1>4. E \in SUBSET (V(g) \ out) /\ a \in E /\ b \notin E
  BY <1>1
<1>5. IsClosed(g, out, E)
  <2> SUFFICES ASSUME NEW u \in E, NEW w \in V(g) \ out, HasEdge(g, u, w) PROVE w \in E
    BY DEF IsClosed
  <2>1. w \in Y /\ w \notin S /\ w \in V(g) \ cut
    OBVIOUS
  <2>2. w \in C \cup S
    BY <1>1, <2>1
  <2> QED
    BY <2>1, <2>2
<1> HIDE DEF out, E
<1>6. A \subseteq E /\ b \in B /\ A \in Components(g, out) /\ B \in Components(g, out)
  BY <1>3, <1>4, <1>5, ComponentClosed DEF Components
<1>7. A # B
  BY <1>4, <1>6
<1>8. Cardinality(Components(g, out)) >= 2
  <2> HIDE DEF A, B
  <2> QED
    BY <1>6, <1>7, TwoComponents
<1>9. Cardinality(Components(g, out)) <= 1
  BY <1>2 DEF HasNoCliqueSeparator, out
<1>10. Cardinality(Components(g, out)) \in Nat
  <2>1. IsFiniteSet(Components(g, out))
    <3>1. Components(g, out) \subseteq SUBSET V(g)
      <4> SUFFICES ASSUME NEW P \in Components(g, out) PROVE P \in SUBSET V(g)
        OBVIOUS
      <4> QED
        BY ComponentsMember
    <3>2. IsFiniteSet(SUBSET V(g))
      BY VerticesFinite, FS_SUBSET
    <3> QED
      BY <3>1, <3>2, FS_Subset
  <2> QED
    BY <2>1, FS_CardinalityType
<1> QED
  BY <1>8, <1>9, <1>10

\* What was left adjacent beside an atom is so still, or another vertex is.
LEMMA BesideStays ==
  ASSUME NEW g, NEW F, NEW ord, NEW X, FoundByMcsM(g, F, ord, X),
         NEW k \in 1 .. g.n, ord[k] \in X, NEW cut, Passed(g, ord, k, cut),
         NEW C, NEW S, CutsOff(g, F, ord, k, cut, C, S),
         NEW A \in SUBSET V(g), HasBeside(Filled(g, F), cut, A) \/ A = C \cup S
  PROVE  HasBeside(Filled(g, F), cut \cup C, A)
<1> DEFINE h == Filled(g, F)
<1>1. g.n \in Nat /\ V(h) = V(g) /\ Numbering(g, ord)
  BY FoundFacts
<1>2. /\ S = After(g, F, ord, k) /\ C \cap S = {} /\ C \cap cut = {} /\ S \in SUBSET V(g)
      /\ \A l \in 1 .. g.n : (ord[l] \in C => l <= k)
      /\ \A c \in C : \A r \in V(g) \ cut : HasEdge(h, c, r) => r \in C \cup S
  BY DEF CutsOff
<1>3. PICK p \in k + 1 .. g.n : ord[p] \notin S /\ \A s \in S : HasEdge(h, ord[p], s)
  BY <1>2, PointBeside
<1>4. p \in 1 .. g.n /\ k < p /\ ~(p <= k) /\ ~(p < k)
  BY <1>1
<1> DEFINE q == ord[p]
<1>5. q \in V(g) /\ q \notin cut \cup C
  BY <1>1, <1>2, <1>4 DEF Numbering, Passed
<1>6. ASSUME A \ (cut \cup C) \subseteq S PROVE HasBeside(h, cut \cup C, A)
  <2>1. q \in V(h) \ ((cut \cup C) \cup A)
    BY <1>1, <1>3, <1>5, <1>6
  <2>2. \A u \in A \ (cut \cup C) : HasEdge(h, u, q)
    BY <1>3, <1>6, EdgeSymmetric
  <2> HIDE DEF q, h
  <2> QED
    BY <2>1, <2>2 DEF HasBeside
<1>7. CASE A = C \cup S
  BY <1>6, <1>7
<1>8. CASE HasBeside(h, cut, A)
  <2>1. PICK v \in V(h) \ (cut \cup A) : \A u \in A \ cut : HasEdge(h, u, v)
    BY <1>8 DEF HasBeside
  <2>2. CASE v \in C
    <3>1. A \ (cut \cup C) \subseteq S
      <4> SUFFICES ASSUME NEW u \in A \ (cut \cup C) PROVE u \in S
        OBVIOUS
      <4>1. HasEdge(h, v, u)
        BY <2>1, EdgeSymmetric
      <4> HIDE DEF h
      <4> QED
        BY <1>2, <2>2, <4>1
    <3> QED
      BY <1>6, <3>1
  <2>3. CASE v \notin C
    <3>1. v \in V(h) \ ((cut \cup C) \cup A) /\ \A u \in A \ (cut \cup C) : HasEdge(h, u, v)
      BY <2>1, <2>3
    <3> QED
      BY <3>1 DEF HasBeside
  <2> QED
    BY <2>2, <2>3
<1> QED
  BY <1>7, <1>8 DEF h

\* An atom that is cut off is not within one that was cut off before.
LEMMA NotWithin ==
  ASSUME NEW g, NEW F, NEW ord, NEW k, NEW cut, NEW C, NEW S, V(Filled(g, F)) = V(g),
         CutsOff(g, F, ord, k, cut, C, S), NEW A, HasBeside(Filled(g, F), cut, A)
  PROVE  ~(C \cup S \subseteq A)
<1> DEFINE h == Filled(g, F)
<1> SUFFICES ASSUME C \cup S \subseteq A PROVE FALSE
  OBVIOUS
<1>1. PICK v \in V(h) \ (cut \cup A) : \A u \in A \ cut : HasEdge(h, u, v)
  BY DEF HasBeside
<1>2. ord[k] \in C /\ C \cap cut = {}
  BY DEF CutsOff
<1>3. HasEdge(h, ord[k], v)
  BY <1>1, <1>2
<1>4. v \in C \cup S
  BY <1>1, <1>2, <1>3 DEF CutsOff
<1> QED
  BY <1>1, <1>4

\* The component C is cut off at its neighbours S, an atom together with them.
LEMMA AtomsCut ==
  ASSUME NEW g, NEW F, NEW ord, NEW X, FoundByMcsM(g, F, ord, X),
         NEW k \in 1 .. g.n, NEW cut, NEW list, AtomSearch(g, F, ord, X, k, cut, list),
         ord[k] \in X, NEW C, NEW S, CutsOff(g, F, ord, k, cut, C, S)
  PROVE  AtomSearch(g, F, ord, X, k + 1, (cut \cup C) \ S, Append(list, C \cup S))
<1> DEFINE cut2 == cut \cup C
           Q == C \cup S
           list2 == Append(list, Q)
           h == Filled(g, F)
<1>1. g.n \in Nat /\ Numbering(g, ord) /\ V(h) = V(g) /\ \A u, w : HasEdge(g, u, w) => HasEdge(h, u, w)
  BY FoundFacts
<1>2. /\ S = After(g, F, ord, k) /\ IsClique(g, S) /\ S \in SUBSET V(g)
      /\ C \in SUBSET V(g) /\ ord[k] \in C /\ C \cap S = {} /\ C \cap cut = {} /\ S \cap cut = {}
      /\ C \subseteq FindComponent(g, S, ord[k]) /\ FindComponent(g, S, ord[k]) \subseteq C \cup cut
      /\ \A l \in 1 .. g.n : (ord[l] \in C => l <= k) /\ (ord[l] \in S => k < l)
      /\ Convex(g, (V(g) \ cut) \ C) /\ Convex(g, C \cup S)
  BY DEF CutsOff
<1>3. cut2 \ S = cut2
  BY <1>2
<1>4. /\ list \in Seq(SUBSET V(g)) /\ Passed(g, ord, k, cut) /\ ord[g.n] \notin cut
      /\ AllCut(g, F, ord, X, cut, k) /\ NoneMissed(g, cut, list) /\ NoneTwice(g, cut, list)
      /\ \A i \in 1 .. Len(list) : /\ list[i] # {} /\ HasNoCliqueSeparator(g, list[i])
                                   /\ HasBeside(h, cut, list[i])
  BY DEF AtomSearch
<1>5. /\ Len(list) \in Nat /\ Len(list2) = Len(list) + 1 /\ list2 \in Seq(SUBSET V(g))
      /\ \A i \in 1 .. Len(list) : list2[i] = list[i] /\ list[i] \in SUBSET V(g)
      /\ list2[Len(list) + 1] = Q
  <2>1. Q \in SUBSET V(g)
    BY <1>2
  <2> HIDE DEF Q
  <2> QED
    BY <1>4, <2>1, AppendProperties, LenProperties, ElementOfSeq
<1>6. /\ k + 1 \in 1 .. g.n + 1 /\ g.n \in 1 .. g.n
      /\ \A j \in 1 .. g.n : (j < k => j < k + 1) /\ (j <= k => j < k + 1) /\ (j < k + 1 => j < k \/ j = k)
  BY <1>1
<1>7. /\ Len(list) + 1 \in 1 .. Len(list2)
      /\ \A i \in 1 .. Len(list2) : i \in 1 .. Len(list) \/ i = Len(list) + 1
      /\ \A i \in 1 .. Len(list) : i \in 1 .. Len(list2)
  BY <1>5
<1> HIDE DEF h, list2
<1>8. Passed(g, ord, k + 1, cut2)
  <2>1. cut2 \in SUBSET V(g)
    BY <1>2, <1>4 DEF Passed
  <2>2. \A j \in 1 .. g.n : ord[j] \in cut2 => j < k + 1
    BY <1>2, <1>4, <1>6 DEF Passed
  <2>3. V(g) \ cut2 = (V(g) \ cut) \ C
    OBVIOUS
  <2> HIDE DEF cut2
  <2> QED
    BY <1>2, <2>1, <2>2, <2>3 DEF Passed
<1>9. ord[g.n] \notin cut2
  <2>1. k + 1 \in 1 .. g.n
    BY DEF FoundByMcsM
  <2>2. ~(g.n <= k)
    BY <1>1, <2>1
  <2> QED
    BY <1>2, <1>4, <1>6, <2>2
<1>10. AllCut(g, F, ord, X, cut2, k + 1)
  BY <1>2, <1>4, <1>6 DEF AllCut
<1>11. Q # {} /\ HasNoCliqueSeparator(g, Q)
  <2>1. Q \in SUBSET V(g) /\ Q \cap cut = {} /\ Convex(g, Q) /\ ord[k] \in Q
    BY <1>2
  <2>2. C \in SUBSET FindComponent(g, After(g, F, ord, k), ord[k])
    BY <1>2
  <2>3. Q = C \cup After(g, F, ord, k)
    BY <1>2
  <2> HIDE DEF Q
  <2> QED
    BY <1>2, <1>4, <2>1, <2>2, <2>3, CutIsAtom
<1>12. \A A \in SUBSET V(g) : HasBeside(h, cut, A) \/ A = Q => HasBeside(h, cut2, A)
  BY <1>4, BesideStays DEF h
<1>13. ASSUME NEW i \in 1 .. Len(list2)
       PROVE  list2[i] # {} /\ HasNoCliqueSeparator(g, list2[i]) /\ HasBeside(h, cut2, list2[i])
  <2>1. CASE i \in 1 .. Len(list)
    <3> HIDE DEF Q, cut2
    <3> QED
      BY <1>4, <1>5, <1>12, <2>1
  <2>2. CASE i = Len(list) + 1
    <3>1. Q \in SUBSET V(g)
      BY <1>2
    <3> HIDE DEF Q, cut2
    <3> QED
      BY <1>5, <1>11, <1>12, <2>2, <3>1
  <2> QED
    BY <1>7, <2>1, <2>2
<1>14. NoneMissed(g, cut2, list2)
  <2> SUFFICES ASSUME NEW Y \in (SUBSET V(g)) \ {{}}, HasNoCliqueSeparator(g, Y), Y \cap cut2 # {}
               PROVE  \E i \in 1 .. Len(list2) : Y \subseteq list2[i]
    BY DEF NoneMissed
  <2>1. CASE Y \cap cut = {}
    <3>1. Y \cap C = {} \/ Y \subseteq Q
      BY <1>1, <2>1, OnOneSide DEF h
    <3>2. Y \subseteq Q
      BY <2>1, <3>1
    <3> QED
      BY <1>5, <1>7, <3>2
  <2>2. CASE Y \cap cut # {}
    <3>1. PICK i \in 1 .. Len(list) : Y \subseteq list[i]
      BY <1>4, <2>2 DEF NoneMissed
    <3> QED
      BY <1>5, <1>7, <3>1
  <2> QED
    BY <2>1, <2>2
<1>15. NoneTwice(g, cut2, list2)
  <2> SUFFICES ASSUME NEW i \in 1 .. Len(list2)
               PROVE  /\ \E c \in list2[i] \cap cut2 : \A j \in i + 1 .. Len(list2) : c \notin list2[j]
                      /\ \A j \in i + 1 .. Len(list2) : ~(list2[j] \subseteq list2[i])
    BY DEF NoneTwice
  <2>1. CASE i = Len(list) + 1
    <3>1. i + 1 .. Len(list2) = {} /\ list2[i] = Q
      BY <1>5, <2>1
    <3>2. ord[k] \in Q \cap cut2
      BY <1>2
    <3> HIDE DEF Q, cut2
    <3> QED
      BY <3>1, <3>2
  <2>2. CASE i \in 1 .. Len(list)
    <3>1. PICK c \in list[i] \cap cut : \A j \in i + 1 .. Len(list) : c \notin list[j]
      BY <1>4, <2>2 DEF NoneTwice
    <3>2. \A j \in i + 1 .. Len(list) : ~(list[j] \subseteq list[i])
      BY <1>4, <2>2 DEF NoneTwice
    <3>3. \A j \in i + 1 .. Len(list2) : j = Len(list) + 1 \/ (j \in i + 1 .. Len(list) /\ j \in 1 .. Len(list))
      BY <1>5, <2>2
    <3>4. c \notin Q /\ c \in cut2 /\ c \in list2[i]
      BY <1>2, <1>5, <2>2, <3>1
    <3>5. ~(Q \subseteq list2[i])
      <4>1. HasBeside(Filled(g, F), cut, list[i]) /\ V(Filled(g, F)) = V(g)
        BY <1>1, <1>4, <2>2 DEF h
      <4> QED
        BY <1>5, <2>2, <4>1, NotWithin
    <3> HIDE DEF Q, cut2
    <3> QED
      BY <1>5, <2>2, <3>1, <3>2, <3>3, <3>4, <3>5
  <2> QED
    BY <1>7, <2>1, <2>2
<1> HIDE DEF cut2, Q
<1>16. AtomSearch(g, F, ord, X, k + 1, cut2, list2)
  BY <1>5, <1>6, <1>8, <1>9, <1>10, <1>13, <1>14, <1>15 DEF AtomSearch, h
<1> QED
  BY <1>3, <1>16 DEF cut2, Q, list2

\* Components as a number that can be compared.
LEMMA FewComponents ==
  ASSUME NEW g, g.n \in Nat, NEW K, Cardinality(Components(g, K)) <= 1,
         NEW A \in Components(g, K), NEW B \in Components(g, K)
  PROVE  A = B
<1> SUFFICES ASSUME A # B PROVE FALSE
  OBVIOUS
<1>1. Cardinality(Components(g, K)) >= 2
  BY TwoComponents
<1>2. IsFiniteSet(Components(g, K))
  <2>1. Components(g, K) \subseteq SUBSET V(g)
    <3> SUFFICES ASSUME NEW P \in Components(g, K) PROVE P \in SUBSET V(g)
      OBVIOUS
    <3> QED
      BY ComponentsMember
  <2>2. IsFiniteSet(SUBSET V(g))
    BY VerticesFinite, FS_SUBSET
  <2> QED
    BY <2>1, <2>2, FS_Subset
<1>3. Cardinality(Components(g, K)) \in Nat
  BY <1>2, FS_CardinalityType
<1> QED
  BY <1>1, <1>3

\* What is left when all vertices have been passed is one component.
LEMMA RestIsComponent ==
  ASSUME NEW g, NEW F, NEW ord, NEW X, FoundByMcsM(g, F, ord, X), g.n >= 1,
         NEW cut, NEW list, AtomSearch(g, F, ord, X, g.n + 1, cut, list)
  PROVE  LET R == V(g) \ cut
         IN  /\ R # {} /\ cut \in SUBSET V(g) /\ HasNoCliqueSeparator(g, R)
             /\ \A v \in R : FindComponent(g, cut, v) = R
<1> DEFINE R == V(g) \ cut
<1>1. g.n \in Nat /\ Numbering(g, ord)
  BY FoundFacts
<1>2. /\ Passed(g, ord, g.n + 1, cut) /\ ord[g.n] \notin cut /\ AllCut(g, F, ord, X, cut, g.n + 1)
  BY DEF AtomSearch
<1>3. cut \in SUBSET V(g) /\ Convex(g, R)
  BY <1>2 DEF Passed
<1>4. ord[g.n] \in R
  <2>1. g.n \in 1 .. g.n
    BY <1>1
  <2> QED
    BY <1>1, <1>2, <2>1 DEF Numbering
<1>5. HasNoCliqueSeparator(g, R)
  <2>1. R \in SUBSET V(g) /\ R \cap cut = {}
    OBVIOUS
  <2> HIDE DEF R
  <2> QED
    BY <1>2, <1>3, <2>1, RestIsAtom
<1>6. Cardinality(Components(g, cut)) <= 1
  <2>1. {} \in SUBSET R /\ IsClique(g, {}) /\ (V(g) \ R) \cup {} = cut
    BY <1>3, CliquePairs
  <2> HIDE DEF R
  <2>2. Cardinality(Components(g, (V(g) \ R) \cup {})) <= 1
    BY <1>5, <2>1 DEF HasNoCliqueSeparator
  <2> QED
    BY <2>1, <2>2
<1>7. ASSUME NEW v \in R PROVE FindComponent(g, cut, v) = R
  <2>1. FindComponent(g, cut, v) \subseteq R
    BY <1>7, ComponentClosed
  <2>2. ASSUME NEW w \in R PROVE w \in FindComponent(g, cut, v)
    <3>1. FindComponent(g, cut, v) \in Components(g, cut) /\ FindComponent(g, cut, w) \in Components(g, cut)
      BY <1>7, <2>2 DEF Components
    <3>2. FindComponent(g, cut, v) = FindComponent(g, cut, w)
      BY <1>1, <1>6, <3>1, FewComponents
    <3>3. w \in FindComponent(g, cut, w)
      BY <2>2, ComponentClosed
    <3> QED
      BY <3>2, <3>3
  <2> QED
    BY <2>1, <2>2
<1> QED
  BY <1>3, <1>4, <1>5, <1>7

\* The list that is returned.
AreAtoms(g, all) ==
  /\ {all[i] : i \in 1 .. Len(all)} = AtomsOf(g)
  /\ \A i, j \in 1 .. Len(all) : all[i] = all[j] => i = j

\* A list of sets without clique separators that has all of them, none within
\* another, is the list of the atoms.
LEMMA LargestOnes ==
  ASSUME NEW g, NEW all,
         \A i \in 1 .. Len(all) : /\ all[i] \in (SUBSET V(g)) \ {{}}
                                  /\ HasNoCliqueSeparator(g, all[i]),
         \A Y \in (SUBSET V(g)) \ {{}} : HasNoCliqueSeparator(g, Y) =>
           \E i \in 1 .. Len(all) : Y \subseteq all[i],
         \A i, j \in 1 .. Len(all) : all[i] \subseteq all[j] => i = j
  PROVE  AreAtoms(g, all)
<1> DEFINE Whole == {S \in (SUBSET V(g)) \ {{}} : HasNoCliqueSeparator(g, S)}
<1>1. ASSUME NEW i \in 1 .. Len(all) PROVE all[i] \in AtomsOf(g)
  <2>1. all[i] \in Whole
    OBVIOUS
  <2>2. ASSUME NEW T \in Whole, all[i] \subseteq T PROVE all[i] = T
    <3>1. PICK j \in 1 .. Len(all) : T \subseteq all[j]
      OBVIOUS
    <3>2. i = j
      BY <2>2, <3>1
    <3> QED
      BY <2>2, <3>1, <3>2
  <2> QED
    BY <2>1, <2>2 DEF AtomsOf
<1>2. ASSUME NEW S \in AtomsOf(g) PROVE \E i \in 1 .. Len(all) : S = all[i]
  <2>1. S \in Whole /\ \A T \in Whole : S \subseteq T => S = T
    BY DEF AtomsOf
  <2>2. PICK i \in 1 .. Len(all) : S \subseteq all[i]
    BY <2>1
  <2>3. all[i] \in Whole
    OBVIOUS
  <2> QED
    BY <2>1, <2>2, <2>3
<1> QED
  BY <1>1, <1>2 DEF AreAtoms

\* After the last vertex what is left is the last atom.
LEMMA AtomsEnd ==
  ASSUME NEW g, NEW F, NEW ord, NEW X, FoundByMcsM(g, F, ord, X), g.n >= 1,
         NEW cut, NEW list, AtomSearch(g, F, ord, X, g.n + 1, cut, list)
  PROVE  AreAtoms(g, Append(list, V(g) \ cut))
<1> DEFINE R == V(g) \ cut
           all == Append(list, R)
           h == Filled(g, F)
<1>1. g.n \in Nat /\ V(h) = V(g)
  BY FoundFacts
<1>2. R # {} /\ HasNoCliqueSeparator(g, R)
  BY RestIsComponent
<1>3. /\ list \in Seq(SUBSET V(g)) /\ NoneMissed(g, cut, list) /\ NoneTwice(g, cut, list)
      /\ \A i \in 1 .. Len(list) : /\ list[i] # {} /\ HasNoCliqueSeparator(g, list[i])
                                   /\ HasBeside(h, cut, list[i])
  BY DEF AtomSearch
<1>4. /\ Len(list) \in Nat /\ Len(all) = Len(list) + 1
      /\ \A i \in 1 .. Len(list) : all[i] = list[i] /\ list[i] \in SUBSET V(g)
      /\ all[Len(list) + 1] = R
  <2>1. R \in SUBSET V(g)
    OBVIOUS
  <2> HIDE DEF R
  <2> QED
    BY <1>3, <2>1, AppendProperties, LenProperties, ElementOfSeq
<1>5. /\ Len(list) + 1 \in 1 .. Len(all)
      /\ \A i \in 1 .. Len(all) : i \in 1 .. Len(list) \/ i = Len(list) + 1
      /\ \A i \in 1 .. Len(list) : i \in 1 .. Len(all)
  BY <1>4
<1> HIDE DEF all, h
<1>6. ASSUME NEW i \in 1 .. Len(all)
      PROVE  all[i] \in (SUBSET V(g)) \ {{}} /\ HasNoCliqueSeparator(g, all[i])
  <2>1. R \in SUBSET V(g)
    OBVIOUS
  <2> HIDE DEF R
  <2> QED
    BY <1>2, <1>3, <1>4, <1>5, <2>1
<1>7. ASSUME NEW Y \in (SUBSET V(g)) \ {{}}, HasNoCliqueSeparator(g, Y)
      PROVE  \E i \in 1 .. Len(all) : Y \subseteq all[i]
  <2>1. CASE Y \cap cut = {}
    <3>1. Y \subseteq R
      BY <2>1
    <3> HIDE DEF R
    <3> QED
      BY <1>4, <1>5, <3>1
  <2>2. CASE Y \cap cut # {}
    <3>1. PICK i \in 1 .. Len(list) : Y \subseteq list[i]
      BY <1>3, <1>7, <2>2 DEF NoneMissed
    <3> QED
      BY <1>4, <1>5, <3>1
  <2> QED
    BY <2>1, <2>2
<1>8. \A i \in 1 .. Len(list) : ~(list[i] \subseteq R) /\ ~(R \subseteq list[i])
  <2> SUFFICES ASSUME NEW i \in 1 .. Len(list) PROVE ~(list[i] \subseteq R) /\ ~(R \subseteq list[i])
    OBVIOUS
  <2>1. \E c \in list[i] : c \in cut
    BY <1>3 DEF NoneTwice
  <2>2. \E v \in V(h) : v \notin cut /\ v \notin list[i]
    BY <1>3 DEF HasBeside
  <2> QED
    BY <1>1, <2>1, <2>2
<1>9. \A i, j \in 1 .. Len(list) : list[i] \subseteq list[j] => i = j
  <2> SUFFICES ASSUME NEW i \in 1 .. Len(list), NEW j \in 1 .. Len(list), list[i] \subseteq list[j], i # j
               PROVE  FALSE
    OBVIOUS
  <2>1. j \in i + 1 .. Len(list) \/ i \in j + 1 .. Len(list)
    BY <1>4
  <2> QED
    BY <1>3, <2>1 DEF NoneTwice
<1>10. ASSUME NEW i \in 1 .. Len(all), NEW j \in 1 .. Len(all), all[i] \subseteq all[j]
       PROVE  i = j
  <2> HIDE DEF R
  <2> QED
    BY <1>4, <1>5, <1>8, <1>9, <1>10
<1>11. AreAtoms(g, all)
  BY <1>6, <1>7, <1>10, LargestOnes
<1> QED
  BY <1>11 DEF all

-----------------------------------------------------------------------------
(* The functions of Elimination. *)

\* The stages of what is done again and again are what the first and the next are.
LEMMA StagesUnique ==
  ASSUME NEW S, NEW next \in [S -> S], NEW start \in S, NEW n \in Nat,
         NEW f, AreStages(f, S, next, start, n),
         NEW e, e[0] = start, \A k \in 1 .. n : e[k - 1] \in S => e[k] = next[e[k - 1]]
  PROVE  \A k \in 0 .. n : e[k] = f[k]
<1> DEFINE Bad == {k \in 0 .. n : e[k] # f[k]}
<1>1. f \in [0 .. n -> S] /\ f[0] = start /\ \A k \in 1 .. n : f[k] = next[f[k - 1]]
  BY DEF AreStages
<1>2. ASSUME NEW k \in Bad, \A l \in Bad : k <= l PROVE FALSE
  <2>1. k # 0
    BY <1>1
  <2>2. k \in 1 .. n /\ k - 1 \in 0 .. n /\ ~(k <= k - 1)
    BY <2>1
  <2>3. e[k - 1] = f[k - 1]
    BY <1>2, <2>2
  <2> QED
    BY <1>1, <2>2, <2>3
<1>3. Bad \in SUBSET Nat
  OBVIOUS
<1>4. Bad = {}
  <2> HIDE DEF Bad
  <2> QED
    BY <1>2, <1>3, LeastElement
<1> QED
  BY <1>4

\* One more round of Reach.
Grown(g, S, T) == T \cup {w \in S : \E u \in T : HasEdge(g, u, w)}

AreRounds(g, S, v, f) ==
  /\ f \in [0 .. Cardinality(S) -> SUBSET (S \cup {v})] /\ f[0] = {v}
  /\ \A k \in 1 .. Cardinality(S) : f[k] = Grown(g, S, f[k - 1])

\* Reach is the last of as many rounds as S has vertices.
LEMMA ReachStages ==
  ASSUME NEW g, NEW S, IsFiniteSet(S), NEW v
  PROVE  \E f : AreRounds(g, S, v, f) /\ Reach(g, S, v) = f[Cardinality(S)]
<1> DEFINE m == Cardinality(S)
           T == SUBSET (S \cup {v})
           next == [s \in T |-> Grown(g, S, s)]
           Is(f) == f = [k \in 0 .. m |-> IF k = 0 THEN {v}
                                          ELSE CHOOSE t \in {Grown(g, S, s) : s \in {f[k - 1]}} : TRUE]
           after == CHOOSE f : Is(f)
<1>1. m \in Nat
  BY FS_CardinalityType
<1>2. Reach(g, S, v) = after[m]
  BY DEF Reach, Iterate, Grown
<1>3. {v} \in T /\ next \in [T -> T]
  <2> SUFFICES ASSUME NEW s \in T PROVE Grown(g, S, s) \in T
    OBVIOUS
  <2> QED
    BY DEF Grown
<1>4. \A y : (CHOOSE t \in {Grown(g, S, s) : s \in {y}} : TRUE) = Grown(g, S, y)
  OBVIOUS
<1>5. \A s \in T : next[s] = Grown(g, S, s)
  OBVIOUS
<1> HIDE DEF next, m, T
<1>6. PICK f : AreStages(f, T, next, {v}, m)
  BY <1>1, <1>3, StagesExist
<1>7. f \in [0 .. m -> T] /\ f[0] = {v} /\ \A k \in 1 .. m : f[k] = next[f[k - 1]]
  BY <1>6 DEF AreStages
<1>8. /\ \A k \in 1 .. m : k \in 0 .. m /\ k # 0 /\ k - 1 \in 0 .. m
      /\ \A k \in 0 .. m : k # 0 => k \in 1 .. m
      /\ 0 \in 0 .. m /\ m \in 0 .. m
  BY <1>1
<1>9. \A k \in 1 .. m : f[k] = Grown(g, S, f[k - 1])
  BY <1>5, <1>7, <1>8
<1>10. Is(f)
  BY <1>4, <1>7, <1>8, <1>9
<1>11. Is(after)
  BY <1>10
<1> HIDE DEF after
<1>12. after[0] = {v} /\ \A k \in 1 .. m : after[k] = Grown(g, S, after[k - 1])
  BY <1>4, <1>8, <1>11
<1>13. \A k \in 1 .. m : after[k - 1] \in T => after[k] = next[after[k - 1]]
  BY <1>5, <1>12
<1>14. after[m] = f[m]
  BY <1>1, <1>3, <1>6, <1>8, <1>12, <1>13, StagesUnique
<1> QED
  BY <1>2, <1>7, <1>9, <1>14 DEF m, T, AreRounds

\* A linked set from v to y within S.
LinksTo(g, S, v, y) == \E E \in SUBSET (S \cup {v}) : v \in E /\ y \in E /\ Linked(g, E)

\* The rounds of Reach are enough to find all that v is linked to.
LEMMA ReachIs ==
  ASSUME NEW g, NEW S, IsFiniteSet(S), NEW v
  PROVE  \A y : y \in Reach(g, S, v) <=> LinksTo(g, S, v, y)
<1> DEFINE m == Cardinality(S)
           All == S \cup {v}
<1>1. PICK f : /\ f \in [0 .. m -> SUBSET All] /\ f[0] = {v}
               /\ \A k \in 1 .. m : f[k] = Grown(g, S, f[k - 1])
               /\ Reach(g, S, v) = f[m]
  <2>1. PICK f : AreRounds(g, S, v, f) /\ Reach(g, S, v) = f[m]
    BY ReachStages
  <2> QED
    BY <2>1 DEF AreRounds
<1>2. m \in Nat /\ IsFiniteSet(All) /\ Cardinality(All) \in Nat /\ Cardinality(All) <= m + 1
  <2>1. IsFiniteSet(S) /\ m \in Nat
    BY FS_CardinalityType
  <2> QED
    BY <2>1, FS_AddElement, FS_CardinalityType
<1> HIDE DEF m
<1>3. /\ \A k \in 0 .. m : k # 0 => k \in 1 .. m /\ k - 1 \in 0 .. m /\ ~(k <= k - 1)
      /\ 0 \in 0 .. m /\ m \in 0 .. m /\ 0 .. m \in SUBSET Nat
  BY <1>2
<1>4. \A k \in 0 .. m : v \in f[k] /\ f[k] \in SUBSET All
  <2> DEFINE Bad == {k \in 0 .. m : v \notin f[k]}
  <2>1. ASSUME NEW k \in Bad, \A l \in Bad : k <= l PROVE FALSE
    <3>1. k # 0
      BY <1>1
    <3>2. v \in f[k - 1] /\ k \in 1 .. m
      BY <1>3, <2>1, <3>1
    <3> QED
      BY <1>1, <2>1, <3>2 DEF Grown
  <2>2. Bad \in SUBSET Nat
    BY <1>3
  <2>3. Bad = {}
    <3> HIDE DEF Bad
    <3> QED
      BY <2>1, <2>2, LeastElement
  <2>4. \A k \in 0 .. m : f[k] \in SUBSET All
    <3> HIDE DEF All
    <3> QED
      BY <1>1
  <2> QED
    BY <2>3, <2>4
<1>5. \A k \in 0 .. m : \A y \in f[k] : LinksTo(g, S, v, y)
  <2> DEFINE Bad == {k \in 0 .. m : ~(\A y \in f[k] : LinksTo(g, S, v, y))}
  <2>1. ASSUME NEW k \in Bad, \A l \in Bad : k <= l PROVE FALSE
    <3>1. k # 0
      <4>1. LinksTo(g, S, v, v)
        <5>1. Linked(g, {v})
          BY LinkedOne
        <5> QED
          BY <5>1 DEF LinksTo
      <4> QED
        BY <1>1, <4>1
    <3>2. k \in 1 .. m /\ k - 1 \in 0 .. m /\ \A y \in f[k - 1] : LinksTo(g, S, v, y)
      BY <1>3, <2>1, <3>1
    <3>3. ASSUME NEW y \in f[k] PROVE LinksTo(g, S, v, y)
      <4>1. y \in f[k - 1] \/ (y \in S /\ \E u \in f[k - 1] : HasEdge(g, u, y))
        BY <1>1, <3>2, <3>3 DEF Grown
      <4>2. CASE y \in S /\ \E u \in f[k - 1] : HasEdge(g, u, y)
        <5>1. PICK u \in f[k - 1] : HasEdge(g, u, y)
          BY <4>2
        <5>2. PICK E \in SUBSET (S \cup {v}) : v \in E /\ u \in E /\ Linked(g, E)
          BY <3>2, <5>1 DEF LinksTo
        <5>3. Sees(g, y, E)
          BY <5>1, <5>2, EdgeSymmetric DEF Sees
        <5>4. Linked(g, E \cup {y})
          BY <5>2, <5>3, LinkedWith
        <5>5. E \cup {y} \in SUBSET (S \cup {v})
          BY <4>2, <5>2
        <5> QED
          BY <5>2, <5>4, <5>5 DEF LinksTo
      <4> QED
        BY <3>2, <4>1, <4>2
    <3> QED
      BY <2>1, <3>3
  <2>2. Bad \in SUBSET Nat
    BY <1>3
  <2>3. Bad = {}
    <3> HIDE DEF Bad
    <3> QED
      BY <2>1, <2>2, LeastElement
  <2> QED
    BY <2>3
<1>6. \A k \in 0 .. m : Grown(g, S, f[k]) = f[k] \/ Cardinality(f[k]) >= k + 1
  <2> DEFINE Bad == {k \in 0 .. m : ~(Grown(g, S, f[k]) = f[k] \/ Cardinality(f[k]) >= k + 1)}
  <2>1. ASSUME NEW k \in Bad, \A l \in Bad : k <= l PROVE FALSE
    <3>1. k # 0
      <4> SUFFICES ASSUME k = 0 PROVE FALSE
        OBVIOUS
      <4>1. Cardinality({v}) = 1
        BY FS_Singleton
      <4>2. f[k] = {v}
        BY <1>1
      <4>3. Cardinality(f[k]) >= k + 1
        BY <4>1, <4>2
      <4> QED
        BY <2>1, <4>3
    <3>2. /\ k \in 1 .. m /\ k - 1 \in 0 .. m /\ k \in Nat
          /\ Grown(g, S, f[k - 1]) = f[k - 1] \/ Cardinality(f[k - 1]) >= (k - 1) + 1
      <4>1. k \in 1 .. m /\ k - 1 \in 0 .. m /\ ~(k <= k - 1) /\ k \in Nat
        BY <1>3, <3>1
      <4>2. k - 1 \notin Bad
        BY <2>1, <4>1
      <4> QED
        BY <4>1, <4>2
    <3>3. f[k] = Grown(g, S, f[k - 1])
      BY <1>1, <3>2
    <3>4. f[k] # f[k - 1]
      <4> SUFFICES ASSUME f[k] = f[k - 1] PROVE FALSE
        OBVIOUS
      <4>1. Grown(g, S, f[k]) = f[k]
        BY <3>3
      <4> QED
        BY <2>1, <4>1
    <3>5. f[k - 1] \subseteq f[k]
      BY <3>3 DEF Grown
    <3>6. IsFiniteSet(f[k]) /\ Cardinality(f[k]) \in Nat
      <4>1. f[k] \in SUBSET All
        BY <1>4, <3>2
      <4> HIDE DEF All
      <4> QED
        BY <1>2, <4>1, FS_Subset, FS_CardinalityType
    <3>7. /\ Cardinality(f[k - 1]) <= Cardinality(f[k]) /\ IsFiniteSet(f[k - 1])
          /\ Cardinality(f[k]) # Cardinality(f[k - 1])
      BY <3>4, <3>5, <3>6, FS_Subset
    <3>8. Cardinality(f[k - 1]) \in Nat
      BY <3>7, FS_CardinalityType
    <3>9. Cardinality(f[k - 1]) >= (k - 1) + 1
      BY <3>2, <3>3, <3>4
    <3> QED
      BY <2>1, <3>2, <3>6, <3>7, <3>8, <3>9
  <2>2. Bad \in SUBSET Nat
    BY <1>3
  <2>3. Bad = {}
    <3> HIDE DEF Bad
    <3> QED
      BY <2>1, <2>2, LeastElement
  <2> QED
    BY <2>3
<1>7. Grown(g, S, f[m]) = f[m]
  <2> SUFFICES ASSUME Cardinality(f[m]) >= m + 1 PROVE Grown(g, S, f[m]) = f[m]
    BY <1>3, <1>6
  <2>1. f[m] \in SUBSET All
    BY <1>3, <1>4
  <2>2. f[m] = All
    <3> HIDE DEF All
    <3>1. Cardinality(f[m]) <= Cardinality(All) /\ (Cardinality(All) = Cardinality(f[m]) => All = f[m])
          /\ IsFiniteSet(f[m])
      BY <1>2, <2>1, FS_Subset
    <3>2. Cardinality(f[m]) \in Nat
      BY <3>1, FS_CardinalityType
    <3> QED
      BY <1>2, <3>1, <3>2
  <2> QED
    BY <2>2 DEF Grown
<1>8. ASSUME NEW y, LinksTo(g, S, v, y) PROVE y \in f[m]
  <2>1. PICK E \in SUBSET (S \cup {v}) : v \in E /\ y \in E /\ Linked(g, E)
    BY <1>8 DEF LinksTo
  <2> DEFINE A == E \cap f[m]
  <2>2. v \in A
    BY <1>3, <1>4, <2>1
  <2>3. A = E
    <3> SUFFICES ASSUME A # E PROVE FALSE
      OBVIOUS
    <3>1. PICK u \in A : Sees(g, u, E \ A)
      <4>1. A \in SUBSET E /\ A # {} /\ A # E
        BY <2>2
      <4> HIDE DEF A
      <4> QED
        BY <2>1, <4>1 DEF Linked
    <3>2. PICK w \in E \ A : HasEdge(g, u, w)
      BY <3>1 DEF Sees
    <3>3. w \in S
      BY <2>2, <3>2
    <3>4. w \in Grown(g, S, f[m])
      BY <3>1, <3>2, <3>3 DEF Grown
    <3> QED
      BY <1>7, <3>2, <3>4
  <2> QED
    BY <2>1, <2>3
<1> QED
  BY <1>1, <1>3, <1>5, <1>8

\* Reach is Dfs.
LEMMA ReachIsComponent ==
  ASSUME NEW g, g.n \in Nat, NEW barred, NEW v \in V(g) \ barred
  PROVE  Reach(g, V(g) \ barred, v) = FindComponent(g, barred, v)
<1> DEFINE S == V(g) \ barred
           C == FindComponent(g, barred, v)
<1>1. S \in SUBSET V(g) /\ S \cup {v} = S
  OBVIOUS
<1> HIDE DEF S
<1>2. IsFiniteSet(S)
  BY <1>1, VerticesFinite
<1>3. \A y : y \in Reach(g, S, v) <=> LinksTo(g, S, v, y)
  BY <1>2, ReachIs
<1>4. v \in C /\ C \subseteq S /\ C \in Components(g, barred)
  BY ComponentClosed DEF Components, S
<1> HIDE DEF C
<1>5. ASSUME NEW y \in C PROVE LinksTo(g, S, v, y)
  <2>1. Linked(g, C)
    BY <1>4, ComponentLinked
  <2> QED
    BY <1>1, <1>4, <2>1 DEF LinksTo
<1>6. ASSUME NEW y, LinksTo(g, S, v, y) PROVE y \in C
  <2>1. PICK E \in SUBSET S : v \in E /\ y \in E /\ Linked(g, E)
    BY <1>1, <1>6 DEF LinksTo
  <2>2. E \subseteq FindComponent(g, barred, v)
    BY <2>1, LinkedInComponent DEF S
  <2> QED
    BY <2>1, <2>2 DEF C
<1>7. Reach(g, S, v) = C
  BY <1>3, <1>5, <1>6
<1> QED
  BY <1>7 DEF S, C

\* Raised is what a search by paths raises.
LEMMA RaisedIs ==
  ASSUME NEW g, g.n \in Nat, NEW R, NEW w, NEW v
  PROVE  Raised(g, (V(g) \ R) \ {v}, w, v) = RaisedBy(g, R, w, v)
<1> DEFINE left == (V(g) \ R) \ {v}
           Light(z) == {d \in left : w[d] < w[z]}
<1>1. V(g) \ (R \cup {v}) = left /\ left \in SUBSET V(g)
  OBVIOUS
<1>2. \A z \in left : z \in RaisedBy(g, R, w, v) <=> Joined(g, left, w, v, z)
  BY <1>1 DEF RaisedBy
<1>3. RaisedBy(g, R, w, v) \subseteq left /\ Raised(g, left, w, v) \subseteq left
  BY <1>1 DEF RaisedBy, Raised
<1> HIDE DEF left
<1>4. ASSUME NEW z \in left
      PROVE  z \in Raised(g, left, w, v) <=> Joined(g, left, w, v, z)
  <2>1. Light(z) \in SUBSET left
    OBVIOUS
  <2>2. z \in Raised(g, left, w, v) <=> \E y \in Reach(g, Light(z), v) : HasEdge(g, y, z)
    BY <1>4 DEF Raised
  <2> HIDE DEF Light
  <2>3. IsFiniteSet(Light(z))
    BY <1>1, <2>1, VerticesFinite
  <2>4. \A y : y \in Reach(g, Light(z), v) <=> LinksTo(g, Light(z), v, y)
    BY <2>3, ReachIs
  <2>5. ASSUME NEW y, LinksTo(g, Light(z), v, y), HasEdge(g, y, z) PROVE Joined(g, left, w, v, z)
    <3>1. PICK E \in SUBSET (Light(z) \cup {v}) : v \in E /\ y \in E /\ Linked(g, E)
      BY <2>5 DEF LinksTo
    <3>2. Sees(g, z, E)
      BY <2>5, <3>1, EdgeSymmetric DEF Sees
    <3>3. E \in SUBSET (left \cup {v}) /\ \A d \in E \ {v} : w[d] < w[z]
      BY <2>1, <3>1 DEF Light
    <3> QED
      BY <3>1, <3>2, <3>3 DEF Joined
  <2>6. ASSUME Joined(g, left, w, v, z) PROVE \E y : LinksTo(g, Light(z), v, y) /\ HasEdge(g, y, z)
    <3>1. PICK E \in SUBSET (left \cup {v}) : /\ v \in E /\ Linked(g, E) /\ Sees(g, z, E)
                                              /\ \A d \in E \ {v} : w[d] < w[z]
      BY <2>6 DEF Joined
    <3>2. PICK y \in E : HasEdge(g, z, y)
      BY <3>1 DEF Sees
    <3>3. E \in SUBSET (Light(z) \cup {v})
      BY <3>1 DEF Light
    <3>4. LinksTo(g, Light(z), v, y)
      BY <3>1, <3>2, <3>3 DEF LinksTo
    <3> QED
      BY <3>2, <3>4, EdgeSymmetric
  <2> QED
    BY <2>2, <2>4, <2>5, <2>6
<1>5. Raised(g, left, w, v) = RaisedBy(g, R, w, v)
  BY <1>2, <1>3, <1>4
<1> QED
  BY <1>5 DEF left

\* A vertex numbered by the function McsM, and one eliminated by Atoms.
NumberedState(g, s, v, raised) ==
  [left |-> s.left \ {v},
   order |-> <<v>> \o s.order,
   label |-> [u \in V(g) |-> IF u \in raised THEN s.label[u] + 1 ELSE s.label[u]],
   fill |-> s.fill \cup {{v, z} : z \in {u \in raised : ~HasEdge(g, v, u)}},
   prev |-> s.label[v],
   points |-> IF s.label[v] <= s.prev THEN s.points \cup {v} ELSE s.points]
McsMNext(g, s) ==
  LET v == LastOfLargest(s.left, s.label)
  IN  NumberedState(g, s, v, Raised(g, s.left \ {v}, s.label, v))

EliminatedState(g, out, s, v, cand) ==
  LET component == Reach(g, V(g) \ (s.block \cup cand), v)
      rest == [s EXCEPT !.it = @ + 1, !.rm = @ \cup {v}]
  IN  IF v \in out.points /\ IsClique(g, cand)
      THEN [rest EXCEPT !.block = (@ \cup component) \ cand,
                        !.atoms = Append(@, component \cup cand)]
      ELSE rest
AtomsNext(g, out, s) ==
  EliminatedState(g, out, s, out.order[s.it], Neighbors(Filled(g, out.fill), out.order[s.it]) \ s.rm)

\* Both are loops over the vertices; out is what McsM has returned to Atoms.
LoopStart(g, isMcsM) ==
  IF isMcsM THEN [left |-> V(g), order |-> <<>>, label |-> [v \in V(g) |-> 0],
                  fill |-> {}, prev |-> -1, points |-> {}]
            ELSE [it |-> 1, rm |-> {}, block |-> {}, atoms |-> <<>>]
LoopNext(g, out, isMcsM, s) == IF isMcsM THEN McsMNext(g, s) ELSE AtomsNext(g, out, s)
IsLoop(g, out, isMcsM, n, f) ==
  f = [k \in 0 .. n |-> IF k = 0 THEN LoopStart(g, isMcsM)
                        ELSE CHOOSE t \in {LoopNext(g, out, isMcsM, s) : s \in {f[k - 1]}} : TRUE]
Runs(g, out, isMcsM, n, f) ==
  /\ f[0] = LoopStart(g, isMcsM)
  /\ \A k \in 1 .. n : f[k] = LoopNext(g, out, isMcsM, f[k - 1])

\* The definition of such a function gives every stage from the one before.
LEMMA LoopRuns ==
  ASSUME NEW g, NEW out, NEW isMcsM, NEW n \in Nat, NEW f, IsLoop(g, out, isMcsM, n, f)
  PROVE  Runs(g, out, isMcsM, n, f)
<1> DEFINE Step(s) == LoopNext(g, out, isMcsM, s)
           start == LoopStart(g, isMcsM)
<1>1. f = [k \in 0 .. n |-> IF k = 0 THEN start
                            ELSE CHOOSE t \in {Step(s) : s \in {f[k - 1]}} : TRUE]
  BY DEF IsLoop
<1>2. \A s : (CHOOSE t \in {Step(u) : u \in {s}} : TRUE) = Step(s)
  OBVIOUS
<1>3. 0 \in 0 .. n /\ \A k \in 1 .. n : k \in 0 .. n /\ k # 0
  OBVIOUS
<1> HIDE DEF Step, start
<1>4. f[0] = start /\ \A k \in 1 .. n : f[k] = Step(f[k - 1])
  BY <1>1, <1>2, <1>3
<1> QED
  BY <1>4 DEF Runs, Step, start

\* There is such a function.
LEMMA LoopExists ==
  ASSUME NEW g, NEW out, NEW isMcsM, NEW n \in Nat
  PROVE  \E f : IsLoop(g, out, isMcsM, n, f)
<1> DEFINE Step(s) == LoopNext(g, out, isMcsM, s)
           start == LoopStart(g, isMcsM)
           Is(m, f) == f = [k \in 0 .. m |-> IF k = 0 THEN start ELSE Step(f[k - 1])]
           Bad == {m \in Nat : \A f : ~Is(m, f)}
<1>1. ASSUME NEW m \in Bad, \A l \in Bad : m <= l PROVE FALSE
  <2>1. CASE m = 0
    <3>1. Is(m, [k \in 0 .. 0 |-> start])
      <4> HIDE DEF start, Step
      <4> QED
        BY <2>1
    <3> QED
      BY <1>1, <3>1
  <2>2. CASE m # 0
    <3>1. m - 1 \in Nat /\ ~(m <= m - 1) /\ m \in Nat
      BY <2>2
    <3>2. m - 1 \notin Bad
      BY <1>1, <3>1
    <3>3. PICK f : Is(m - 1, f)
      <4> HIDE DEF Is
      <4> QED
        BY <3>1, <3>2
    <3> DEFINE h == [k \in 0 .. m |-> IF k = m THEN Step(f[m - 1]) ELSE f[k]]
               e == [k \in 0 .. m |-> IF k = 0 THEN start ELSE Step(h[k - 1])]
    <3> HIDE DEF start, Step
    <3>4. ASSUME NEW k \in 0 .. m PROVE h[k] = e[k]
      <4>1. k \in 0 .. m - 1 \/ k = m
        BY <3>1
      <4>2. k # 0 => k - 1 \in 0 .. m /\ k - 1 # m
        BY <3>1
      <4>3. CASE k = m
        BY <2>2, <4>2, <4>3
      <4>4. CASE k \in 0 .. m - 1 /\ k # m
        <5>1. h[k] = f[k]
          BY <4>4
        <5>2. f[k] = IF k = 0 THEN start ELSE Step(f[k - 1])
          BY <3>3, <4>4
        <5>3. k # 0 => h[k - 1] = f[k - 1]
          BY <4>2
        <5> QED
          BY <5>1, <5>2, <5>3
      <4> QED
        BY <4>1, <4>3, <4>4
    <3>5. h = e
      BY <3>4
    <3>6. Is(m, h)
      BY <3>5
    <3> QED
      BY <1>1, <3>6
  <2> QED
    BY <2>1, <2>2
<1>2. Bad \in SUBSET Nat
  OBVIOUS
<1>3. Bad = {}
  <2> HIDE DEF Bad
  <2> QED
    BY <1>1, <1>2, LeastElement
<1>4. \E f : Is(n, f)
  <2> HIDE DEF Is
  <2> QED
    BY <1>3
<1>5. PICK f : Is(n, f)
  BY <1>4
<1>6. \A s : (CHOOSE t \in {Step(u) : u \in {s}} : TRUE) = Step(s)
  OBVIOUS
<1> HIDE DEF Step, start
<1>7. f = [k \in 0 .. n |-> IF k = 0 THEN start
                            ELSE CHOOSE t \in {Step(s) : s \in {f[k - 1]}} : TRUE]
  BY <1>5, <1>6
<1> QED
  BY <1>7 DEF IsLoop, Step, start

\* The functions are what comes out of the loops.
LEMMA McsMLoop ==
  ASSUME NEW g, g.n \in Nat, NEW out
  PROVE  \E f : Runs(g, out, TRUE, g.n, f) /\ McsM(g) = f[g.n]
<1> DEFINE Step(s) ==
             CHOOSE t \in UNION {{NumberedState(g, s, v, raised) :
                                   raised \in {Raised(g, s.left \ {v}, s.label, v)}} :
                                  v \in {LastOfLargest(s.left, s.label)}} : TRUE
           start == LoopStart(g, TRUE)
           Is(f) == f = [k \in 0 .. g.n |-> IF k = 0 THEN start
                                            ELSE CHOOSE t \in {Step(s) : s \in {f[k - 1]}} : TRUE]
           after == CHOOSE f : Is(f)
<1>1. McsM(g) = after[g.n]
  BY DEF McsM, Iterate, NumberedState, LoopStart
<1>2. \A s : Step(s) = LoopNext(g, out, TRUE, s)
  BY DEF LoopNext, McsMNext
<1> HIDE DEF Step, start
<1>3. \A f : Is(f) <=> IsLoop(g, out, TRUE, g.n, f)
  BY <1>2 DEF IsLoop, start
<1>4. \E f : Is(f)
  <2> HIDE DEF Is
  <2> QED
    BY <1>3, LoopExists
<1>5. Is(after)
  <2> HIDE DEF Is
  <2> QED
    BY <1>4
<1> HIDE DEF after, Is
<1>6. Runs(g, out, TRUE, g.n, after)
  BY <1>3, <1>5, LoopRuns
<1> QED
  BY <1>1, <1>6

\* And those of Atoms, from what McsM has given it.
LEMMA AtomsLoop ==
  ASSUME NEW g, g.n \in Nat, NEW out
  PROVE  \E f : /\ Runs(g, out, FALSE, g.n, f)
                /\ Atoms(g, out) = Append(f[g.n].atoms, V(g) \ f[g.n].block)
<1> DEFINE Step(s) ==
             CHOOSE t \in UNION {{EliminatedState(g, out, s, v, cand) :
                   cand \in {Neighbors(Filled(g, out.fill), v) \ s.rm}} :
                   v \in {out.order[s.it]}} : TRUE
           start == LoopStart(g, FALSE)
           Is(f) == f = [k \in 0 .. g.n |-> IF k = 0 THEN start
                                            ELSE CHOOSE t \in {Step(s) : s \in {f[k - 1]}} : TRUE]
           after == CHOOSE f : Is(f)
<1>1. Atoms(g, out) = Append(after[g.n].atoms, V(g) \ after[g.n].block)
  BY DEF Atoms, Iterate, EliminatedState, LoopStart
<1>2. \A s : Step(s) = LoopNext(g, out, FALSE, s)
  BY DEF LoopNext, AtomsNext
<1> HIDE DEF Step, start
<1>3. \A f : Is(f) <=> IsLoop(g, out, FALSE, g.n, f)
  BY <1>2 DEF IsLoop, start
<1>4. \E f : Is(f)
  <2> HIDE DEF Is
  <2> QED
    BY <1>3, LoopExists
<1>5. Is(after)
  <2> HIDE DEF Is
  <2> QED
    BY <1>4
<1> HIDE DEF after, Is
<1>6. Runs(g, out, FALSE, g.n, after)
  BY <1>3, <1>5, LoopRuns
<1> QED
  BY <1>1, <1>6

-----------------------------------------------------------------------------

-----------------------------------------------------------------------------
(* Orders with one vertex after the other put in front. *)

\* The positions of an order with a vertex before it.
LEMMA PrependAt ==
  ASSUME NEW S, NEW s \in Seq(S), NEW y \in S
  PROVE  /\ <<y>> \o s \in Seq(S) /\ Len(<<y>> \o s) = Len(s) + 1 /\ Len(s) \in Nat
         /\ (<<y>> \o s)[1] = y
         /\ \A i \in 1 .. Len(s) : (<<y>> \o s)[i + 1] = s[i]
<1> DEFINE t == <<y>> \o s
<1>1. <<y>> \in Seq(S) /\ Len(<<y>>) = 1 /\ <<y>>[1] = y
  OBVIOUS
<1>2. /\ t \in Seq(S) /\ Len(t) = 1 + Len(s)
      /\ \A i \in 1 .. 1 + Len(s) : t[i] = IF i <= 1 THEN <<y>>[i] ELSE s[i - 1]
  BY <1>1, ConcatProperties
<1>3. Len(s) \in Nat
  BY LenProperties
<1> HIDE DEF t
<1>4. 1 \in 1 .. 1 + Len(s) /\ \A i \in 1 .. Len(s) : i + 1 \in 1 .. 1 + Len(s) /\ ~(i + 1 <= 1) /\ i + 1 - 1 = i
  BY <1>3
<1>5. t[1] = y /\ \A i \in 1 .. Len(s) : t[i + 1] = s[i]
  BY <1>1, <1>2, <1>4
<1>6. Len(t) = Len(s) + 1
  BY <1>2, <1>3
<1> QED
  BY <1>2, <1>3, <1>5, <1>6 DEF t

IsDistinct(s) == \A i, j \in 1 .. Len(s) : s[i] = s[j] => i = j

\* The later neighbours of a vertex in the filled graph are neighbours themselves.
EliminatesFrom(g, F, s) ==
  \A i \in 1 .. Len(s) : \A j, k \in i + 1 .. Len(s) :
    j # k /\ IsJoined(g, F, s[i], s[j]) /\ IsJoined(g, F, s[i], s[k]) => IsJoined(g, F, s[j], s[k])

\* The neighbours of y in an order are neighbours of one another.
ComesBefore(g, F, s, y) ==
  /\ \A i \in 1 .. Len(s) : s[i] # y
  /\ \A i, j \in 1 .. Len(s) :
       s[i] # s[j] /\ IsJoined(g, F, y, s[i]) /\ IsJoined(g, F, y, s[j])
         => IsJoined(g, F, s[i], s[j])

\* Such a vertex before an order that the filled graph is eliminated in.
LEMMA EliminatesMore ==
  ASSUME NEW g, NEW F, NEW S, NEW s \in Seq(S), NEW y \in S, NEW t, t = <<y>> \o s,
         EliminatesFrom(g, F, s), IsDistinct(s), ComesBefore(g, F, s, y)
  PROVE  EliminatesFrom(g, F, t) /\ IsDistinct(t)
<1>1. Len(t) = Len(s) + 1 /\ Len(s) \in Nat /\ t[1] = y /\ \A i \in 1 .. Len(s) : t[i + 1] = s[i]
  BY PrependAt
<1>2. ASSUME NEW i \in 1 .. Len(t)
      PROVE  i = 1 \/ (i - 1 \in 1 .. Len(s) /\ t[i] = s[i - 1])
  <2>1. i = 1 \/ (i - 1 \in 1 .. Len(s) /\ (i - 1) + 1 = i)
    BY <1>1
  <2>2. CASE i - 1 \in 1 .. Len(s) /\ (i - 1) + 1 = i
    <3>1. t[(i - 1) + 1] = s[i - 1]
      BY <1>1, <2>2
    <3> QED
      BY <2>2, <3>1
  <2> QED
    BY <2>1, <2>2
<1>3. ASSUME NEW i \in 1 .. Len(t), NEW j \in 1 .. Len(t), t[i] = t[j]
      PROVE  i = j
  <2>1. (i = 1 \/ (i - 1 \in 1 .. Len(s) /\ t[i] = s[i - 1]))
        /\ (j = 1 \/ (j - 1 \in 1 .. Len(s) /\ t[j] = s[j - 1]))
    BY <1>2
  <2>2. CASE i = 1 \/ j = 1
    BY <1>1, <1>3, <2>1, <2>2 DEF ComesBefore
  <2>3. CASE i # 1 /\ j # 1
    <3>1. i - 1 = j - 1
      BY <1>3, <2>1, <2>3 DEF IsDistinct
    <3>2. i \in Int /\ j \in Int
      OBVIOUS
    <3> QED
      BY <3>1, <3>2
  <2> QED
    BY <2>2, <2>3
<1>4. ASSUME NEW i \in 1 .. Len(t), NEW j \in i + 1 .. Len(t), NEW k \in i + 1 .. Len(t), j # k,
             IsJoined(g, F, t[i], t[j]), IsJoined(g, F, t[i], t[k])
      PROVE  IsJoined(g, F, t[j], t[k])
  <2> DEFINE n == Len(t)
  <2>0. n \in Nat /\ i \in 1 .. n /\ j \in i + 1 .. n /\ k \in i + 1 .. n
    BY <1>1
  <2>1. /\ j \in 1 .. n /\ j # 1 /\ k \in 1 .. n /\ k # 1
        /\ j - 1 \in Int /\ k - 1 \in Int /\ j - 1 # k - 1
    <3> HIDE DEF n
    <3> QED
      BY <1>4, <2>0
  <2>2. j - 1 \in 1 .. Len(s) /\ t[j] = s[j - 1] /\ k - 1 \in 1 .. Len(s) /\ t[k] = s[k - 1]
    BY <1>2, <2>1
  <2>3. CASE i = 1
    <3>1. s[j - 1] # s[k - 1]
      BY <2>1, <2>2 DEF IsDistinct
    <3> QED
      BY <1>1, <1>4, <2>2, <2>3, <3>1 DEF ComesBefore
  <2>4. CASE i # 1
    <3>1. i - 1 \in 1 .. Len(s) /\ t[i] = s[i - 1]
      BY <1>2, <2>4
    <3>2. j - 1 \in (i - 1) + 1 .. Len(s) /\ k - 1 \in (i - 1) + 1 .. Len(s)
      BY <1>1, <2>1, <2>2
    <3> QED
      BY <1>4, <2>1, <2>2, <3>1, <3>2 DEF EliminatesFrom
  <2> QED
    BY <2>3, <2>4
<1> QED
  BY <1>3, <1>4 DEF EliminatesFrom, IsDistinct

Members(s) == {s[i] : i \in 1 .. Len(s)}

\* An order and what is left without its first vertex.
LEMMA FirstApart ==
  ASSUME NEW S, NEW s \in Seq(S), Len(s) >= 1, IsDistinct(s)
  PROVE  /\ s = <<s[1]>> \o Tail(s)
         /\ \A z : z \in Members(Tail(s)) <=> z \in Members(s) /\ z # s[1]
<1>1. s # <<>> /\ Len(s) \in Nat /\ s[1] \in S
  BY LenProperties, EmptySeq, ElementOfSeq
<1> DEFINE t == Tail(s)
<1>2. t \in Seq(S) /\ Len(t) = Len(s) - 1 /\ \A i \in 1 .. Len(t) : t[i] = s[i + 1]
  BY <1>1, HeadTailProperties
<1> HIDE DEF t
<1>3. /\ <<s[1]>> \o t \in Seq(S) /\ Len(<<s[1]>> \o t) = Len(t) + 1
      /\ (<<s[1]>> \o t)[1] = s[1]
      /\ \A i \in 1 .. Len(t) : (<<s[1]>> \o t)[i + 1] = t[i]
  BY <1>1, <1>2, PrependAt
<1>4. \A i \in 1 .. Len(s) : i = 1 \/ (i - 1 \in 1 .. Len(t) /\ (i - 1) + 1 = i)
  BY <1>1, <1>2
<1>5. \A i \in 1 .. Len(t) : i + 1 \in 1 .. Len(s) /\ i + 1 # 1
  BY <1>1, <1>2
<1>6. s = <<s[1]>> \o t
  <2> DEFINE r == <<s[1]>> \o t
  <2>1. r \in Seq(S) /\ Len(r) = Len(s)
    BY <1>1, <1>2, <1>3
  <2>2. ASSUME NEW i \in 1 .. Len(s) PROVE s[i] = r[i]
    <3>1. CASE i = 1
      BY <1>3, <3>1
    <3>2. CASE i - 1 \in 1 .. Len(t) /\ (i - 1) + 1 = i
      <4>1. r[(i - 1) + 1] = t[i - 1] /\ t[i - 1] = s[(i - 1) + 1]
        BY <1>2, <1>3, <3>2
      <4> QED
        BY <3>2, <4>1
    <3> QED
      BY <1>4, <3>1, <3>2
  <2> HIDE DEF r
  <2>3. s = r
    BY <2>1, <2>2, SeqEqual
  <2> QED
    BY <2>3 DEF r
<1>7. ASSUME NEW z
      PROVE  (\E i \in 1 .. Len(t) : t[i] = z) <=> (\E i \in 1 .. Len(s) : s[i] = z) /\ z # s[1]
  <2>1. ASSUME NEW i \in 1 .. Len(t), t[i] = z
        PROVE  (\E j \in 1 .. Len(s) : s[j] = z) /\ z # s[1]
    <3>1. i + 1 \in 1 .. Len(s) /\ s[i + 1] = z /\ i + 1 # 1 /\ 1 \in 1 .. Len(s)
      BY <1>1, <1>2, <1>5, <2>1
    <3> QED
      BY <3>1 DEF IsDistinct
  <2>2. ASSUME NEW i \in 1 .. Len(s), s[i] = z, z # s[1]
        PROVE  \E j \in 1 .. Len(t) : t[j] = z
    <3>1. i - 1 \in 1 .. Len(t) /\ (i - 1) + 1 = i
      BY <1>4, <2>2
    <3>2. t[i - 1] = s[(i - 1) + 1]
      BY <1>2, <3>1
    <3> QED
      BY <2>2, <3>1, <3>2
  <2> QED
    BY <2>1, <2>2
<1> HIDE DEF t
<1>8. ASSUME NEW z PROVE z \in Members(t) <=> z \in Members(s) /\ z # s[1]
  <2>1. z \in Members(t) <=> \E i \in 1 .. Len(t) : t[i] = z
    BY DEF Members
  <2>2. z \in Members(s) <=> \E i \in 1 .. Len(s) : s[i] = z
    BY DEF Members
  <2> QED
    BY <1>7, <2>1, <2>2
<1> QED
  BY <1>6, <1>8 DEF t

LEMMA TailOfPrepended ==
  ASSUME NEW S, NEW s \in Seq(S), NEW y \in S
  PROVE  Tail(<<y>> \o s) = s
<1> DEFINE t == <<y>> \o s
           r == Tail(t)
<1>1. /\ t \in Seq(S) /\ Len(t) = Len(s) + 1 /\ Len(s) \in Nat
      /\ \A i \in 1 .. Len(s) : t[i + 1] = s[i]
  BY PrependAt
<1> HIDE DEF t
<1>2. t # <<>>
  BY <1>1, EmptySeq
<1>3. r \in Seq(S) /\ Len(r) = Len(t) - 1 /\ \A i \in 1 .. Len(r) : r[i] = t[i + 1]
  BY <1>1, <1>2, HeadTailProperties
<1> HIDE DEF r
<1>4. Len(r) = Len(s) /\ \A i \in 1 .. Len(s) : r[i] = s[i]
  BY <1>1, <1>3
<1>5. r = s
  BY <1>3, <1>4, SeqEqual
<1> QED
  BY <1>5 DEF r, t

IsRunOfMcsM(g, f) == Runs(g, {}, TRUE, g.n, f) /\ McsM(g) = f[g.n]

IsRunOfAtoms(g, f) ==
  /\ Runs(g, McsM(g), FALSE, g.n, f)
  /\ Atoms(g, McsM(g)) = Append(f[g.n].atoms, V(g) \ f[g.n].block)

\* The vertices before the k-th.
EliminatedBefore(ord, k) == {ord[j] : j \in 1 .. k - 1}

\* The neighbours that are left come after the vertex.
LEMMA CandidateAfter ==
  ASSUME NEW g, NEW F, NEW ord, NEW X, FoundByMcsM(g, F, ord, X), NEW k \in 1 .. g.n,
         NEW R, R = EliminatedBefore(ord, k)
  PROVE  Neighbors(Filled(g, F), ord[k]) \ R = After(g, F, ord, k)
<1> DEFINE h == Filled(g, F)
           S == After(g, F, ord, k)
           N == Neighbors(h, ord[k])
<1>1. /\ IsGraph(h) /\ V(h) = V(g) /\ g.n \in Nat /\ Numbering(g, ord)
  BY FoundFacts
<1>2. \A u : u \in S <=> \E l \in k + 1 .. g.n : u = ord[l] /\ HasEdge(h, ord[k], u)
  BY AfterMember
<1> HIDE DEF h, S
<1>3. \A u : u \in N <=> u \in V(g) /\ HasEdge(h, ord[k], u)
  BY <1>1, EdgeSymmetric DEF Neighbors
<1>4. ord[k] \notin N
  BY <1>1, NoLoops DEF Neighbors
<1> HIDE DEF N
<1>0. \A u : u \in R <=> \E j \in 1 .. k - 1 : u = ord[j]
  BY DEF EliminatedBefore
<1>5. ASSUME NEW u \in N \ R PROVE u \in S
  <2>1. u \in V(g) /\ HasEdge(h, ord[k], u) /\ u # ord[k]
    BY <1>3, <1>4
  <2>2. PICK l \in 1 .. g.n : ord[l] = u
    BY <1>1, <2>1 DEF Numbering
  <2>3. l \notin 1 .. k - 1 /\ l # k
    BY <1>0, <1>5, <2>1, <2>2
  <2>4. l \in k + 1 .. g.n
    BY <1>1, <2>3
  <2> QED
    BY <1>2, <2>1, <2>2, <2>4
<1>6. ASSUME NEW u \in S PROVE u \in N \ R
  <2>1. PICK l \in k + 1 .. g.n : u = ord[l] /\ HasEdge(h, ord[k], u)
    BY <1>2
  <2>2. l \in 1 .. g.n /\ \A j \in 1 .. k - 1 : j \in 1 .. g.n /\ j # l
    BY <1>1
  <2>3. u \in V(g) /\ \A j \in 1 .. k - 1 : ord[j] # u
    BY <1>1, <2>1, <2>2 DEF Numbering
  <2> QED
    BY <1>0, <1>3, <2>1, <2>3
<1> QED
  BY <1>5, <1>6 DEF h, S, N

-----------------------------------------------------------------------------
(* McsM as a function: the stages of its loop. *)

EarlierIn(s, i) == {s[l] : l \in i + 1 .. Len(s)}
Behind(g, F, s, i, u) == Cardinality({y \in EarlierIn(s, i) : IsJoined(g, F, y, u)})

\* No vertex was joined to more of those numbered before when the i-th was numbered;
\* the points are those joined to no more than the one numbered before was.
History(g, F, s, prev, points) ==
  /\ \A i \in 1 .. Len(s) : \A u \in V(g) \ EarlierIn(s, i) :
       Behind(g, F, s, i, u) <= Behind(g, F, s, i, s[i])
  /\ prev = IF Len(s) = 0 THEN -1 ELSE Behind(g, F, s, 1, s[1])
  /\ points \subseteq Members(s)
  /\ \A i \in 1 .. Len(s) :
       s[i] \in points <=>
         i + 1 \in 1 .. Len(s) /\ Behind(g, F, s, i, s[i]) <= Behind(g, F, s, i + 1, s[i + 1])

\* The order so far, R its vertices.
OrderOf(g, R, F, s) ==
  s \in Seq(V(g)) /\ Members(s) = R /\ IsDistinct(s) /\ EliminatesFrom(g, F, s)

\* The order t is s with y put in front of it.
IsFront(y, s, t) ==
  /\ Len(s) \in Nat /\ Len(t) = Len(s) + 1 /\ t[1] = y
  /\ \A i \in 1 .. Len(s) : t[i + 1] = s[i]

LEMMA PutInFront ==
  ASSUME NEW S, NEW s \in Seq(S), NEW y \in S, NEW t, t = <<y>> \o s
  PROVE  IsFront(y, s, t) /\ t \in Seq(S)
  BY PrependAt DEF IsFront

LEMMA MembersOfFront ==
  ASSUME NEW s, NEW y, NEW t, IsFront(y, s, t)
  PROVE  Members(t) = Members(s) \cup {y}
<1>1. \A i \in 1 .. Len(t) : i = 1 \/ (i - 1 \in 1 .. Len(s) /\ (i - 1) + 1 = i)
  BY DEF IsFront
<1>2. \A i \in 1 .. Len(s) : i + 1 \in 1 .. Len(t) /\ t[i + 1] = s[i]
  BY DEF IsFront
<1>3. 1 \in 1 .. Len(t) /\ t[1] = y
  BY DEF IsFront
<1>4. ASSUME NEW i \in 1 .. Len(t) PROVE t[i] \in Members(s) \cup {y}
  <2>1. CASE i = 1
    BY <1>3, <2>1
  <2>2. CASE i - 1 \in 1 .. Len(s) /\ (i - 1) + 1 = i
    <3>1. t[i] = s[i - 1]
      BY <1>2, <2>2
    <3> QED
      BY <2>2, <3>1 DEF Members
  <2> QED
    BY <1>1, <2>1, <2>2
<1>5. \A z \in Members(s) \cup {y} : z \in Members(t)
  BY <1>2, <1>3 DEF Members
<1> QED
  BY <1>4, <1>5 DEF Members

\* What comes before the positions of an order with a vertex put in front of it.
LEMMA EarlierMoved ==
  ASSUME NEW s, NEW y, NEW t, IsFront(y, s, t)
  PROVE  /\ EarlierIn(t, 1) = Members(s)
         /\ \A i \in 1 .. Len(s) : EarlierIn(t, i + 1) = EarlierIn(s, i)
<1>1. Len(t) = Len(s) + 1 /\ Len(s) \in Nat /\ \A i \in 1 .. Len(s) : t[i + 1] = s[i]
  BY DEF IsFront
<1>2. ASSUME NEW j \in 0 .. Len(s)
      PROVE  {t[l] : l \in j + 2 .. Len(t)} = {s[l] : l \in j + 1 .. Len(s)}
  <2>1. ASSUME NEW l \in j + 2 .. Len(t)
        PROVE  l - 1 \in j + 1 .. Len(s) /\ t[l] = s[l - 1]
    <3>1. l - 1 \in j + 1 .. Len(s) /\ l - 1 \in 1 .. Len(s) /\ l = (l - 1) + 1
      BY <1>1
    <3> QED
      BY <1>1, <3>1
  <2>2. ASSUME NEW l \in j + 1 .. Len(s)
        PROVE  l + 1 \in j + 2 .. Len(t) /\ t[l + 1] = s[l]
    <3>1. l + 1 \in j + 2 .. Len(t) /\ l \in 1 .. Len(s)
      BY <1>1
    <3> QED
      BY <1>1, <3>1
  <2>3. ASSUME NEW z
        PROVE  (\E l \in j + 2 .. Len(t) : z = t[l]) <=> (\E l \in j + 1 .. Len(s) : z = s[l])
    BY <2>1, <2>2
  <2> QED
    BY <2>3
<1>3. EarlierIn(t, 1) = Members(s)
  <2>1. 0 \in 0 .. Len(s) /\ 0 + 2 = 1 + 1 /\ 0 + 1 = 1
    BY <1>1
  <2>2. {t[l] : l \in 0 + 2 .. Len(t)} = {s[l] : l \in 0 + 1 .. Len(s)}
    BY <1>2, <2>1
  <2>3. {t[l] : l \in 1 + 1 .. Len(t)} = {s[l] : l \in 1 .. Len(s)}
    BY <2>1, <2>2
  <2> QED
    BY <2>3 DEF EarlierIn, Members
<1>4. ASSUME NEW i \in 1 .. Len(s) PROVE EarlierIn(t, i + 1) = EarlierIn(s, i)
  <2>1. i \in 0 .. Len(s) /\ i + 2 = (i + 1) + 1
    BY <1>1
  <2>2. {t[l] : l \in i + 2 .. Len(t)} = {s[l] : l \in i + 1 .. Len(s)}
    BY <1>2, <2>1
  <2> QED
    BY <2>1, <2>2 DEF EarlierIn
<1> QED
  BY <1>3, <1>4

\* The fill of a vertex that is numbered touches none numbered before.
LEMMA JoinedAsBefore ==
  ASSUME NEW g, IsGraph(g), NEW R, NEW F, NEW w, Searching(g, R, F, w),
         NEW v, NEW F2, NEW w2, Numbers(g, R, F, w, v, F2, w2)
  PROVE  /\ \A y \in R : \A u \in V(g) : IsJoined(g, F2, y, u) <=> IsJoined(g, F, y, u)
         /\ \A y, u \in R \cup {v} : IsJoined(g, F2, y, u) <=> IsJoined(g, F, y, u)
<1>1. /\ v \in V(g) \ R /\ R \cup {v} \in SUBSET V(g) /\ F \subseteq F2 /\ F2 \subseteq NonEdges(g)
      /\ \A u \in V(g) \ R : \A y \in R : IsJoined(g, F2, y, u) <=> IsJoined(g, F, y, u)
      /\ \A u \in R : \A y \in R : IsJoined(g, F2, y, u) <=> IsJoined(g, F, y, u)
  BY StepFacts
<1>2. {v, v} \notin F2
  <2>1. {v, v} \in F2 => {v, v} \in Pairs(V(g))
    BY <1>1 DEF NonEdges
  <2>2. {v, v} \notin Pairs(V(g))
    BY DEF Pairs
  <2> QED
    BY <2>1, <2>2
<1>3. \A y, u : IsJoined(g, F2, y, u) <=> IsJoined(g, F2, u, y)
  <2>1. \A y, u : {y, u} = {u, y}
    OBVIOUS
  <2> QED
    BY <2>1 DEF IsJoined
<1>4. \A y, u : IsJoined(g, F, y, u) <=> IsJoined(g, F, u, y)
  <2>1. \A y, u : {y, u} = {u, y}
    OBVIOUS
  <2> QED
    BY <2>1 DEF IsJoined
<1>5. IsJoined(g, F2, v, v) <=> IsJoined(g, F, v, v)
  BY <1>1, <1>2 DEF IsJoined
<1> QED
  BY <1>1, <1>3, <1>4, <1>5

\* The order with the vertex that is numbered.
LEMMA OrderStep ==
  ASSUME NEW g, IsGraph(g), NEW R, NEW F, NEW w, Searching(g, R, F, w),
         NEW v, NEW F2, NEW w2, Numbers(g, R, F, w, v, F2, w2),
         NEW s, OrderOf(g, R, F, s)
  PROVE  OrderOf(g, R \cup {v}, F2, <<v>> \o s)
<1> DEFINE t == <<v>> \o s
<1>1. v \in V(g) \ R /\ s \in Seq(V(g)) /\ Members(s) = R
  BY StepFacts DEF OrderOf
<1>2. t \in Seq(V(g)) /\ Members(t) = R \cup {v}
  <2> HIDE DEF t
  <2>1. t = <<v>> \o s /\ v \in V(g)
    BY <1>1 DEF t
  <2>2. t \in Seq(V(g)) /\ IsFront(v, s, t)
    BY <1>1, <2>1, PutInFront
  <2> QED
    BY <1>1, <2>2, MembersOfFront
<1>3. \A i \in 1 .. Len(s) : s[i] \in R /\ s[i] # v
  BY <1>1 DEF Members
<1>4. ComesBefore(g, F, s, v)
  <2>1. ASSUME NEW i \in 1 .. Len(s), NEW j \in 1 .. Len(s), s[i] # s[j],
               IsJoined(g, F, v, s[i]), IsJoined(g, F, v, s[j])
        PROVE  IsJoined(g, F, s[i], s[j])
    <3>1. IsJoined(g, F, s[i], v) /\ IsJoined(g, F, s[j], v)
      <4>1. \A a, b : {a, b} = {b, a}
        OBVIOUS
      <4> QED
        BY <2>1, <4>1 DEF IsJoined
    <3> QED
      BY <1>1, <1>3, <2>1, <3>1, NextIsSimplicial
  <2> QED
    BY <1>3, <2>1 DEF ComesBefore
<1> HIDE DEF t
<1>5. EliminatesFrom(g, F, t) /\ IsDistinct(t)
  BY <1>1, <1>4, EliminatesMore DEF OrderOf, t
<1>6. EliminatesFrom(g, F2, t)
  <2>1. \A i, j \in 1 .. Len(t) : IsJoined(g, F2, t[i], t[j]) <=> IsJoined(g, F, t[i], t[j])
    BY <1>2, JoinedAsBefore DEF Members
  <2>2. Len(t) \in Nat
    BY <1>2, LenProperties
  <2>3. \A i \in 1 .. Len(t) : \A j \in i + 1 .. Len(t) : j \in 1 .. Len(t)
    BY <2>2
  <2> QED
    BY <1>5, <2>1, <2>3 DEF EliminatesFrom
<1> QED
  BY <1>2, <1>5, <1>6 DEF OrderOf, t

\* The weight of the vertex numbered next counts, and is the largest.
LEMMA HistoryStep ==
  ASSUME NEW g, IsGraph(g), NEW R, NEW F, NEW w, Searching(g, R, F, w),
         NEW v, NEW F2, NEW w2, Numbers(g, R, F, w, v, F2, w2),
         NEW s, OrderOf(g, R, F, s), NEW prev, NEW points, History(g, F, s, prev, points),
         NEW t, IsFront(v, s, t),
         NEW points2, points2 = IF w[v] <= prev THEN points \cup {v} ELSE points
  PROVE  History(g, F2, t, w[v], points2)
<1> DEFINE E(i) == EarlierIn(t, i)
           J(i, u) == Behind(g, F2, t, i, u)
           I(i, u) == Behind(g, F, s, i, u)
<1>1. /\ v \in V(g) \ R /\ w \in [V(g) -> Nat] /\ \A u \in V(g) \ R : w[u] <= w[v]
      /\ Members(s) = R /\ s \in Seq(V(g)) /\ R \in SUBSET V(g)
  BY StepFacts DEF OrderOf
<1>2. /\ Len(t) = Len(s) + 1 /\ Len(s) \in Nat /\ t[1] = v
      /\ \A i \in 1 .. Len(s) : t[i + 1] = s[i]
  BY DEF IsFront
<1>3. E(1) = R /\ \A i \in 1 .. Len(s) : E(i + 1) = EarlierIn(s, i)
  BY <1>1, EarlierMoved
<1>4. ASSUME NEW i \in 1 .. Len(s) PROVE EarlierIn(s, i) \subseteq R
  <2>1. \A l \in i + 1 .. Len(s) : l \in 1 .. Len(s)
    BY <1>2
  <2> QED
    BY <1>1, <2>1 DEF EarlierIn, Members
<1>5. ASSUME NEW i \in 1 .. Len(s), NEW u \in V(g) PROVE J(i + 1, u) = I(i, u)
  <2>1. {y \in EarlierIn(s, i) : IsJoined(g, F2, y, u)} = {y \in EarlierIn(s, i) : IsJoined(g, F, y, u)}
    BY <1>4, JoinedAsBefore
  <2> QED
    BY <1>3, <2>1 DEF Behind
<1>6. ASSUME NEW u \in V(g) \ R PROVE J(1, u) = w[u]
  <2>1. {y \in R : IsJoined(g, F2, y, u)} = {y \in R : IsJoined(g, F, y, u)}
    BY JoinedAsBefore
  <2>2. w[u] = Cardinality({y \in R : IsJoined(g, F, y, u)})
    BY DEF Searching, WeightsCount
  <2> QED
    BY <1>3, <2>1, <2>2 DEF Behind
<1>7. \A i \in 1 .. Len(t) : i = 1 \/ (i - 1 \in 1 .. Len(s) /\ i = (i - 1) + 1)
  BY <1>2
<1>8. \A i \in 1 .. Len(s) : s[i] \in R /\ s[i] \in V(g) /\ s[i] # v
  BY <1>1 DEF Members
<1>9. w[v] \in Nat /\ v \in V(g)
  BY <1>1
<1>10. points \subseteq R
  BY <1>1 DEF History
<1> HIDE DEF E, J, I
<1>11. \A i \in 1 .. Len(t) : \A u \in V(g) \ E(i) : J(i, u) <= J(i, t[i])
  <2> SUFFICES ASSUME NEW i \in 1 .. Len(t), NEW u \in V(g) \ E(i)
               PROVE  J(i, u) <= J(i, t[i])
    OBVIOUS
  <2>1. CASE i = 1
    BY <1>1, <1>2, <1>3, <1>6, <2>1
  <2>2. CASE i - 1 \in 1 .. Len(s) /\ i = (i - 1) + 1
    <3> DEFINE j == i - 1
    <3>1. j \in 1 .. Len(s) /\ i = j + 1
      BY <2>2
    <3> HIDE DEF j
    <3>2. E(i) = EarlierIn(s, j) /\ t[i] = s[j] /\ \A z \in V(g) : J(i, z) = I(j, z)
      BY <1>2, <1>3, <1>5, <3>1
    <3>3. I(j, u) <= I(j, s[j])
      BY <3>1, <3>2 DEF History, I
    <3> QED
      BY <1>8, <3>1, <3>2, <3>3
  <2> QED
    BY <1>7, <2>1, <2>2
<1>12. w[v] = J(1, t[1])
  BY <1>1, <1>2, <1>6
<1>13. \A i \in 1 .. Len(t) :
         t[i] \in points2 <=> i + 1 \in 1 .. Len(t) /\ J(i, t[i]) <= J(i + 1, t[i + 1])
  <2> SUFFICES ASSUME NEW i \in 1 .. Len(t)
               PROVE  t[i] \in points2 <=> i + 1 \in 1 .. Len(t) /\ J(i, t[i]) <= J(i + 1, t[i + 1])
    OBVIOUS
  <2>1. CASE i = 1
    <3>1. v \in points2 <=> w[v] <= prev
      BY <1>1, <1>10
    <3>2. CASE Len(s) = 0
      <4>1. prev = -1
        BY <3>2 DEF History
      <4> QED
        BY <1>2, <1>9, <2>1, <3>1, <3>2, <4>1
    <3>3. CASE Len(s) # 0
      <4>1. prev = I(1, s[1]) /\ 1 \in 1 .. Len(s)
        BY <1>2, <3>3 DEF History, I
      <4>2. J(1 + 1, t[1 + 1]) = I(1, s[1])
        BY <1>2, <1>5, <1>8, <4>1
      <4>3. 1 + 1 \in 1 .. Len(t)
        BY <1>2, <3>3
      <4> QED
        BY <1>2, <1>12, <2>1, <3>1, <4>1, <4>2, <4>3
    <3> QED
      BY <3>2, <3>3
  <2>2. CASE i - 1 \in 1 .. Len(s) /\ i = (i - 1) + 1
    <3> DEFINE j == i - 1
    <3>1. j \in 1 .. Len(s) /\ i = j + 1
      BY <2>2
    <3> HIDE DEF j
    <3>2. t[i] = s[j] /\ J(i, t[i]) = I(j, s[j])
      BY <1>2, <1>5, <1>8, <3>1
    <3>3. i + 1 \in 1 .. Len(t) <=> j + 1 \in 1 .. Len(s)
      BY <1>2, <3>1
    <3>4. j + 1 \in 1 .. Len(s) => J(i + 1, t[i + 1]) = I(j + 1, s[j + 1])
      <4>1. \A l \in 1 .. Len(s) : J(l + 1, t[l + 1]) = I(l, s[l])
        BY <1>2, <1>5, <1>8
      <4> QED
        BY <3>1, <4>1
    <3>5. s[j] \in points2 <=> s[j] \in points
      BY <1>8, <3>1
    <3>6. s[j] \in points <=> j + 1 \in 1 .. Len(s) /\ I(j, s[j]) <= I(j + 1, s[j + 1])
      BY <3>1 DEF History, I
    <3> QED
      BY <3>2, <3>3, <3>4, <3>5, <3>6
  <2> QED
    BY <1>7, <2>1, <2>2
<1>14. points2 \subseteq Members(t)
  <2>1. Members(t) = R \cup {v}
    BY <1>1, MembersOfFront
  <2> QED
    BY <1>10, <2>1
<1>15. Len(t) # 0
  BY <1>2
<1> QED
  BY <1>11, <1>12, <1>13, <1>14, <1>15 DEF History, E, J

\* The vertex that is numbered next is one of those left with the largest weight.
LEMMA LargestLeft ==
  ASSUME NEW g, g.n \in Nat, NEW left \in SUBSET V(g), left # {}, NEW w \in [V(g) -> Nat]
  PROVE  /\ LastOfLargest(left, w) \in left
         /\ \A u \in left : w[u] <= w[LastOfLargest(left, w)]
<1> DEFINE Top == {v \in left : \A u \in left : w[u] <= w[v]}
           L == {w[v] : v \in left}
<1>1. g.n \in Nat /\ V(g) = 0 .. g.n - 1 /\ IsFiniteSet(left) /\ left \subseteq V(g)
  BY VerticesFinite DEF V
<1>2. L \in SUBSET Nat /\ L # {} /\ IsFiniteSet(L)
  <2> DEFINE f == [v \in left |-> w[v]]
  <2>0. f \in Surjection(left, L)
    BY DEF Surjection
  <2>1. IsFiniteSet(L)
    BY <1>1, <2>0, FS_Surjection
  <2> QED
    BY <1>1, <2>1
<1> HIDE DEF L
<1>3. PICK m \in L : \A l \in L : l <= m
  BY <1>2, FiniteGreatest
<1>4. Top # {}
  BY <1>3 DEF L
<1>5. Top \in SUBSET (0 .. g.n) /\ Top # {}
  BY <1>1, <1>4
<1>6. LastOfLargest(left, w) = MaxOf(Top)
  BY DEF LastOfLargest
<1> HIDE DEF Top
<1>7. MaxOf(Top) \in Top
  BY <1>1, <1>5, LargestIs
<1> QED
  BY <1>6, <1>7 DEF Top

\* A stage of the loop of McsM.
StageOf(g, s) ==
  /\ s.left \in SUBSET V(g)
  /\ Searching(g, V(g) \ s.left, s.fill, s.label) /\ LeastFill(g, V(g) \ s.left, s.fill)
  /\ OrderOf(g, V(g) \ s.left, s.fill, s.order)
  /\ History(g, s.fill, s.order, s.prev, s.points)

LEMMA StageBegins ==
  ASSUME NEW g, IsGraph(g)
  PROVE  StageOf(g, LoopStart(g, TRUE))
<1> DEFINE s == LoopStart(g, TRUE)
<1>1. /\ s.left = V(g) /\ s.order = <<>> /\ s.label = [v \in V(g) |-> 0]
      /\ s.fill = {} /\ s.prev = -1 /\ s.points = {}
  BY DEF LoopStart
<1> HIDE DEF s
<1>2. V(g) \ s.left = {}
  BY <1>1
<1>3. Searching(g, {}, s.fill, s.label) /\ LeastFill(g, {}, s.fill)
  BY <1>1, SearchStarts, LeastStarts
<1>4. Len(s.order) = 0 /\ 1 .. Len(s.order) = {} /\ s.order \in Seq(V(g))
  BY <1>1
<1>5. OrderOf(g, {}, s.fill, s.order)
  BY <1>4 DEF OrderOf, Members, IsDistinct, EliminatesFrom
<1>6. History(g, s.fill, s.order, s.prev, s.points)
  BY <1>1, <1>4 DEF History
<1> QED
  BY <1>1, <1>2, <1>3, <1>5, <1>6 DEF StageOf, s

LEMMA StageGoesOn ==
  ASSUME NEW g, IsGraph(g), NEW s, StageOf(g, s), s.left # {}, NEW t, t = McsMNext(g, s)
  PROVE  /\ StageOf(g, t) /\ \E v \in s.left : t.left = s.left \ {v}
<1> DEFINE R == V(g) \ s.left
           v == LastOfLargest(s.left, s.label)
           raised == RaisedBy(g, R, s.label, v)
<1>1. /\ s.left \in SUBSET V(g) /\ Searching(g, R, s.fill, s.label) /\ LeastFill(g, R, s.fill)
      /\ OrderOf(g, R, s.fill, s.order) /\ History(g, s.fill, s.order, s.prev, s.points)
  BY DEF StageOf
<1>2. g.n \in Nat /\ s.label \in [V(g) -> Nat]
  BY <1>1 DEF IsGraph, Searching, SearchTyped
<1>3. v \in s.left /\ \A u \in s.left : s.label[u] <= s.label[v]
  BY <1>1, <1>2, LargestLeft
<1> HIDE DEF v
<1>4. V(g) \ R = s.left /\ v \in V(g) \ R /\ s.left \ {v} = (V(g) \ R) \ {v}
  BY <1>1, <1>3
<1> HIDE DEF R
<1>5. Raised(g, s.left \ {v}, s.label, v) = raised
  BY <1>2, <1>4, RaisedIs
<1> HIDE DEF raised
<1>6. /\ t.left = s.left \ {v} /\ t.order = <<v>> \o s.order
      /\ t.label = [u \in V(g) |-> IF u \in raised THEN s.label[u] + 1 ELSE s.label[u]]
      /\ t.fill = s.fill \cup {{v, z} : z \in {u \in raised : ~HasEdge(g, v, u)}}
      /\ t.prev = s.label[v]
      /\ t.points = IF s.label[v] <= s.prev THEN s.points \cup {v} ELSE s.points
  <2>1. t = NumberedState(g, s, v, raised)
    BY <1>5 DEF McsMNext, v
  <2> QED
    BY <2>1 DEF NumberedState
<1>7. t.fill = s.fill \cup ({{v, u} : u \in raised} \ g.adj)
  <2>1. \A e : e \in {{v, z} : z \in {u \in raised : ~HasEdge(g, v, u)}} <=>
                 e \in {{v, u} : u \in raised} \ g.adj
    BY DEF HasEdge
  <2> QED
    BY <1>6, <2>1
<1>8. Numbers(g, R, s.fill, s.label, v, t.fill, t.label)
  BY <1>3, <1>4, <1>6, <1>7 DEF Numbers, raised
<1> DEFINE F == s.fill
           w == s.label
           F2 == t.fill
           w2 == t.label
           q == s.order
           r == t.order
           P2 == t.points
           prev == s.prev
           P == s.points
<1>9. V(g) \ t.left = R \cup {v} /\ t.left \in SUBSET V(g)
  BY <1>1, <1>3, <1>6 DEF R
<1>10. /\ Numbers(g, R, F, w, v, F2, w2) /\ Searching(g, R, F, w) /\ LeastFill(g, R, F)
       /\ OrderOf(g, R, F, q) /\ History(g, F, q, prev, P) /\ r = <<v>> \o q
       /\ P2 = IF w[v] <= prev THEN P \cup {v} ELSE P
  BY <1>1, <1>6, <1>8
<1> HIDE DEF F, w, F2, w2, q, r, P2, prev, P
<1>11. Searching(g, R \cup {v}, F2, w2)
  BY <1>10, SearchStep
<1>12. LeastFill(g, R \cup {v}, F2)
  BY <1>10, LeastStep
<1>13. OrderOf(g, R \cup {v}, F2, r)
  BY <1>10, OrderStep
<1>14. IsFront(v, q, r)
  <2>1. q \in Seq(V(g)) /\ v \in V(g)
    BY <1>4, <1>10 DEF OrderOf
  <2> QED
    BY <1>10, <2>1, PutInFront
<1>15. History(g, F2, r, w[v], P2)
  BY <1>10, <1>14, HistoryStep
<1> QED
  BY <1>3, <1>6, <1>9, <1>11, <1>12, <1>13, <1>15 DEF StageOf, F2, w2, r, P2, w

\* A vertex is numbered at every stage.
LEMMA StagesOfRun ==
  ASSUME NEW g, IsGraph(g), NEW f, Runs(g, {}, TRUE, g.n, f)
  PROVE  \A j \in 0 .. g.n : StageOf(g, f[j]) /\ Cardinality(f[j].left) = g.n - j
<1> DEFINE P(j) == StageOf(g, f[j]) /\ Cardinality(f[j].left) = g.n - j
<1>1. g.n \in Nat
  BY DEF IsGraph
<1>2. P(0)
  <2>1. f[0] = LoopStart(g, TRUE)
    BY DEF Runs
  <2>2. StageOf(g, f[0])
    BY <2>1, StageBegins
  <2>3. f[0].left = V(g)
    BY <2>1 DEF LoopStart
  <2> QED
    BY <1>1, <2>2, <2>3, VerticesFinite
<1>3. ASSUME NEW j \in 0 .. g.n - 1, P(j) PROVE P(j + 1)
  <2> DEFINE s == f[j]
             t == f[j + 1]
  <2>1. t = McsMNext(g, s)
    <3>1. j + 1 \in 1 .. g.n /\ (j + 1) - 1 = j
      BY <1>1
    <3> QED
      BY <3>1 DEF Runs, LoopNext
  <2>2. s.left \in SUBSET V(g) /\ Cardinality(s.left) = g.n - j /\ StageOf(g, s)
    BY <1>3 DEF StageOf
  <2> HIDE DEF s, t
  <2>3. s.left # {}
    <3>1. g.n - j # 0
      BY <1>1
    <3> QED
      BY <2>2, <3>1, FS_EmptySet
  <2>4. StageOf(g, t) /\ \E v \in s.left : t.left = s.left \ {v}
    BY <2>1, <2>2, <2>3, StageGoesOn
  <2>5. Cardinality(t.left) = g.n - (j + 1)
    <3>1. PICK v \in s.left : t.left = s.left \ {v}
      BY <2>4
    <3>2. IsFiniteSet(s.left)
      BY <1>1, <2>2, VerticesFinite
    <3>3. Cardinality(t.left) = Cardinality(s.left) - 1
      BY <3>1, <3>2, FS_RemoveElement
    <3> QED
      BY <1>1, <2>2, <3>3
  <2> QED
    BY <2>4, <2>5 DEF t
<1> HIDE DEF P
<1>4. \A j \in 0 .. g.n : P(j)
  <2> SUFFICES ASSUME NEW j \in 0 .. g.n, ~P(j) PROVE FALSE
    OBVIOUS
  <2> DEFINE Bad == {i \in 0 .. g.n : ~P(i)}
  <2>1. Bad \in SUBSET Nat /\ Bad # {}
    BY <1>1
  <2>2. PICK i \in Bad : \A l \in Bad : i <= l
    BY <2>1, LeastElement
  <2>3. i # 0
    BY <1>2, <2>2
  <2>4. i - 1 \in 0 .. g.n - 1 /\ i - 1 \in 0 .. g.n /\ (i - 1) + 1 = i /\ ~(i <= i - 1)
    BY <1>1, <2>2, <2>3
  <2>5. P(i - 1)
    BY <2>2, <2>4
  <2>6. P((i - 1) + 1)
    BY <1>3, <2>4, <2>5
  <2> QED
    BY <2>2, <2>4, <2>6
<1> QED
  BY <1>4 DEF P

\* A sequence without repetitions is as long as it has members.
LEMMA LengthOfDistinct ==
  ASSUME NEW S, NEW s \in Seq(S), IsDistinct(s)
  PROVE  Len(s) = Cardinality(Members(s))
<1>1. Len(s) \in Nat /\ IsFiniteSet(1 .. Len(s)) /\ Cardinality(1 .. Len(s)) = Len(s)
  <2>1. Len(s) \in Nat
    BY LenProperties
  <2>2. IsFiniteSet(1 .. Len(s)) /\ Cardinality(1 .. Len(s)) = IF 1 > Len(s) THEN 0 ELSE Len(s) - 1 + 1
    BY <2>1, FS_Interval
  <2> QED
    BY <2>1, <2>2
<1> DEFINE f == [i \in 1 .. Len(s) |-> s[i]]
<1>2. f \in Surjection(1 .. Len(s), Members(s))
  BY DEF Surjection, Members
<1>3. f \in Injection(1 .. Len(s), Members(s))
  BY <1>2 DEF Injection, IsInjective, IsDistinct, Surjection
<1> QED
  BY <1>1, <1>2, <1>3, FS_Surjection

\* An order of all vertices eliminates the filled graph, and along it every vertex
\* is one that a maximum cardinality search from the end may take.
LEMMA CompleteOrder ==
  ASSUME NEW g, IsGraph(g), NEW F, F \in SUBSET NonEdges(g), LeastFill(g, V(g), F),
         NEW ord, OrderOf(g, V(g), F, ord), Len(ord) = g.n,
         NEW prev, NEW X, History(g, F, ord, prev, X)
  PROVE  FoundByMcsM(g, F, ord, X)
<1> DEFINE h == Filled(g, F)
           A(j, i) == AfterIn(h, ord, j, i)
<1>1. g.n \in Nat /\ IsDistinct(ord) /\ Members(ord) = V(g) /\ EliminatesFrom(g, F, ord)
  BY DEF IsGraph, OrderOf
<1>2. Numbering(g, ord)
  <2>1. \A i \in 1 .. g.n : ord[i] \in V(g)
    BY <1>1 DEF Members
  <2>2. \A i, j \in 1 .. g.n : ord[i] = ord[j] => i = j
    BY <1>1 DEF IsDistinct
  <2>3. \A v \in V(g) : \E i \in 1 .. g.n : ord[i] = v
    BY <1>1 DEF Members
  <2> QED
    BY <2>1, <2>2, <2>3 DEF Numbering
<1>3. IsGraph(h) /\ h.n = g.n /\ V(h) = V(g)
  <2>1. IsGraph(h) /\ V(h) = V(g)
    BY FilledIsGraph
  <2>2. h.n = g.n
    BY DEF Filled
  <2> QED
    BY <2>1, <2>2
<1>4. \A y, z : HasEdge(h, y, z) <=> IsJoined(g, F, y, z)
  BY FilledGraph DEF IsJoined
<1> HIDE DEF h
<1>5. ASSUME NEW j, NEW i \in 1 .. g.n
      PROVE  A(j, i) = {y \in EarlierIn(ord, i) : IsJoined(g, F, y, ord[j])}
  <2>1. \A y : y \in EarlierIn(ord, i) <=> \E l \in i + 1 .. g.n : ord[l] = y
    BY DEF EarlierIn
  <2>2. \A y \in EarlierIn(ord, i) : y \in V(g)
    <3>1. \A l \in i + 1 .. g.n : l \in 1 .. g.n
      BY <1>1
    <3> QED
      BY <1>2, <2>1, <3>1 DEF Numbering
  <2>3. \A y : y \in A(j, i) <=> y \in V(h) /\ HasEdge(h, y, ord[j]) /\ \E l \in i + 1 .. h.n : ord[l] = y
    BY DEF AfterIn, Neighbors
  <2> HIDE DEF A
  <2> QED
    BY <1>3, <1>4, <2>1, <2>2, <2>3
<1>6. \A i \in 1 .. g.n : \A j : Cardinality(A(j, i)) = Behind(g, F, ord, i, ord[j])
  BY <1>5 DEF Behind
<1>7. IsPerfect(h, ord)
  <2> SUFFICES ASSUME NEW i \in 1 .. g.n, NEW u \in A(i, i), NEW z \in A(i, i), u # z
               PROVE  HasEdge(h, u, z)
    BY <1>3, CliquePairs DEF IsPerfect
  <2>1. /\ u \in EarlierIn(ord, i) /\ IsJoined(g, F, u, ord[i])
        /\ z \in EarlierIn(ord, i) /\ IsJoined(g, F, z, ord[i])
    BY <1>5
  <2>2. PICK j \in i + 1 .. Len(ord), l \in i + 1 .. Len(ord) : u = ord[j] /\ z = ord[l]
    BY <2>1 DEF EarlierIn
  <2>3. IsJoined(g, F, ord[i], ord[j]) /\ IsJoined(g, F, ord[i], ord[l]) /\ j # l
    BY <1>4, <2>1, <2>2, EdgeSymmetric
  <2>4. IsJoined(g, F, u, z)
    BY <1>1, <2>2, <2>3 DEF EliminatesFrom
  <2> QED
    BY <1>4, <2>4
<1>8. HasMostAfter(h, ord)
  <2> SUFFICES ASSUME NEW i \in 1 .. g.n, NEW j \in 1 .. i
               PROVE  Cardinality(A(j, i)) <= Cardinality(A(i, i))
    BY <1>3 DEF HasMostAfter
  <2>1. j \in 1 .. g.n /\ \A l \in i + 1 .. g.n : l # j /\ l \in 1 .. g.n
    BY <1>1
  <2>2. ord[j] \in V(g) \ EarlierIn(ord, i)
    BY <1>1, <1>2, <2>1 DEF EarlierIn, IsDistinct, Numbering
  <2>3. Behind(g, F, ord, i, ord[j]) <= Behind(g, F, ord, i, ord[i])
    BY <2>2 DEF History
  <2> HIDE DEF A
  <2> QED
    BY <1>6, <2>3
<1>9. ASSUME NEW i \in 1 .. g.n
      PROVE  ord[i] \in X <=>
               i + 1 \in 1 .. g.n /\ Cardinality(A(i, i)) <= Cardinality(A(i + 1, i + 1))
  <2>1. ord[i] \in X <=>
          i + 1 \in 1 .. g.n /\ Behind(g, F, ord, i, ord[i]) <= Behind(g, F, ord, i + 1, ord[i + 1])
    BY DEF History
  <2> HIDE DEF A
  <2> QED
    BY <1>6, <2>1
<1>10. F \in MinimalTriangulations(g)
  <2>1. IsMinimalTriangulation(g, F)
    BY <1>2, <1>7, AllNumbered DEF h
  <2>2. F \in Triangulations(g)
    BY <2>1 DEF IsMinimalTriangulation, Triangulations
  <2>3. \A G \in Triangulations(g) : G \subseteq F => G = F
    BY <2>1 DEF IsMinimalTriangulation, Triangulations
  <2> QED
    BY <2>2, <2>3 DEF MinimalTriangulations
<1> QED
  BY <1>2, <1>7, <1>8, <1>9, <1>10 DEF FoundByMcsM, After, h

\* What McsM finds is what Atoms needs: a minimal triangulation, an order that
\* eliminates it, and the points at which the weights stop growing.
THEOREM McsMFinds ==
  ASSUME NEW g, IsGraph(g)
  PROVE  FoundByMcsM(g, McsM(g).fill, McsM(g).order, McsM(g).points)
<1>1. g.n \in Nat /\ g.n \in 0 .. g.n
  BY DEF IsGraph
<1>2. PICK f : Runs(g, {}, TRUE, g.n, f) /\ McsM(g) = f[g.n]
  BY <1>1, McsMLoop
<1> DEFINE s == McsM(g)
<1>3. StageOf(g, s) /\ Cardinality(s.left) = g.n - g.n
  BY <1>1, <1>2, StagesOfRun
<1> HIDE DEF s
<1>4. s.left = {}
  <2>1. s.left \in SUBSET V(g)
    BY <1>3 DEF StageOf
  <2>2. IsFiniteSet(s.left)
    BY <1>1, <2>1, VerticesFinite
  <2>3. Cardinality(s.left) = 0
    BY <1>1, <1>3
  <2> QED
    BY <2>2, <2>3, FS_EmptySet
<1>5. V(g) \ s.left = V(g)
  BY <1>4
<1>6. /\ Searching(g, V(g), s.fill, s.label) /\ LeastFill(g, V(g), s.fill)
      /\ OrderOf(g, V(g), s.fill, s.order) /\ History(g, s.fill, s.order, s.prev, s.points)
  BY <1>3, <1>5 DEF StageOf
<1>7. s.fill \in SUBSET NonEdges(g)
  BY <1>6 DEF Searching, SearchTyped
<1>8. Len(s.order) = g.n
  BY <1>1, <1>6, LengthOfDistinct, VerticesFinite DEF OrderOf
<1> QED
  BY <1>6, <1>7, <1>8, CompleteOrder DEF s

-----------------------------------------------------------------------------
(* Atoms as a function. *)

\* A stage of its loop, out what McsM has found.
AtomStage(g, out, s) ==
  /\ s = [it |-> s.it, rm |-> s.rm, block |-> s.block, atoms |-> s.atoms]
  /\ s.rm = EliminatedBefore(out.order, s.it)
  /\ AtomSearch(g, out.fill, out.order, out.points, s.it, s.block, s.atoms)

LEMMA AtomStageGoesOn ==
  ASSUME NEW g, NEW out, FoundByMcsM(g, out.fill, out.order, out.points),
         NEW s, AtomStage(g, out, s), s.it \in 1 .. g.n,
         NEW t, t = AtomsNext(g, out, s)
  PROVE  AtomStage(g, out, t) /\ t.it = s.it + 1
<1> DEFINE F == out.fill
           ord == out.order
           X == out.points
           i == s.it
           cut == s.block
           list == s.atoms
           v == ord[i]
           cand == Neighbors(Filled(g, F), v) \ s.rm
           component == Reach(g, V(g) \ (cut \cup cand), v)
           cuts == v \in X /\ IsClique(g, cand)
<1>1. /\ FoundByMcsM(g, F, ord, X) /\ s.rm = EliminatedBefore(ord, i) /\ i \in 1 .. g.n
      /\ AtomSearch(g, F, ord, X, i, cut, list)
      /\ s = [it |-> i, rm |-> s.rm, block |-> cut, atoms |-> list]
  BY DEF AtomStage
<1>2. /\ t = [it |-> i + 1, rm |-> s.rm \cup {v}, block |-> t.block, atoms |-> t.atoms]
      /\ cuts => t.atoms = Append(list, component \cup cand) /\ t.block = (cut \cup component) \ cand
      /\ ~cuts => t.atoms = list /\ t.block = cut
  <2>1. t = EliminatedState(g, out, s, v, cand)
    BY DEF AtomsNext
  <2> HIDE DEF cand, component, v
  <2>2. EliminatedState(g, out, s, v, cand) =
          LET rest == [s EXCEPT !.it = @ + 1, !.rm = @ \cup {v}]
          IN  IF cuts THEN [rest EXCEPT !.block = (@ \cup component) \ cand,
                                        !.atoms = Append(@, component \cup cand)]
                      ELSE rest
    BY DEF EliminatedState, component
  <2> HIDE DEF cuts
  <2>3. CASE cuts
    BY <1>1, <2>1, <2>2, <2>3
  <2>4. CASE ~cuts
    BY <1>1, <2>1, <2>2, <2>4
  <2> QED
    BY <2>3, <2>4
<1>3. g.n \in Nat
  BY <1>1 DEF FoundByMcsM, IsGraph
<1> HIDE DEF F, ord, X, i, cut, list
<1>4. cand = After(g, F, ord, i)
  BY <1>1, CandidateAfter
<1>5. v \in V(g) /\ v \notin cand /\ v \notin cut /\ cut \in SUBSET V(g)
  BY <1>1, <1>4, AfterMember DEF AtomSearch, Passed
<1>6. s.rm \cup {v} = EliminatedBefore(ord, i + 1)
  <2>1. \A j : j \in 1 .. (i + 1) - 1 <=> j \in 1 .. i - 1 \/ j = i
    BY <1>1, <1>3
  <2> QED
    BY <1>1, <2>1 DEF EliminatedBefore
<1>7. component = FindComponent(g, (cut \cup cand) \ {v}, v)
  <2>1. (cut \cup cand) \ {v} = cut \cup cand /\ v \in V(g) \ (cut \cup cand)
    BY <1>5
  <2> QED
    BY <1>3, <2>1, ReachIsComponent
<1> HIDE DEF cand, component
<1>8. AtomSearch(g, F, ord, X, i + 1, t.block, t.atoms)
  <2>1. CASE cuts
    <3>1. CutsOff(g, F, ord, i, cut, component, cand)
      <4>1. Passed(g, ord, i, cut) /\ IsClique(g, cand)
        BY <1>1, <2>1 DEF AtomSearch
      <4> QED
        BY <1>1, <1>4, <1>7, <4>1, CutFacts DEF v
    <3>2. AtomSearch(g, F, ord, X, i + 1, (cut \cup component) \ cand, Append(list, component \cup cand))
      BY <1>1, <2>1, <3>1, AtomsCut DEF v
    <3> QED
      BY <1>2, <2>1, <3>2
  <2>2. CASE ~cuts
    BY <1>1, <1>2, <1>4, <2>2, AtomsSkip DEF v
  <2> QED
    BY <2>1, <2>2
<1>9. t.it = i + 1 /\ t.rm = s.rm \cup {v}
  BY <1>2
<1>10. t = [it |-> t.it, rm |-> t.rm, block |-> t.block, atoms |-> t.atoms]
  BY <1>2
<1> QED
  BY <1>6, <1>8, <1>9, <1>10 DEF AtomStage, F, ord, X, i

\* For every graph with a vertex: Atoms, after McsM, returns each atom once.
THEOREM AtomsFound ==
  ASSUME NEW g, IsGraph(g), g.n >= 1
  PROVE  AreAtoms(g, Atoms(g, McsM(g))) /\ Atoms(g, McsM(g)) \in Seq(SUBSET V(g))
<1> DEFINE out == McsM(g)
<1>1. FoundByMcsM(g, out.fill, out.order, out.points)
  BY McsMFinds
<1>2. g.n \in Nat
  BY DEF IsGraph
<1> HIDE DEF out
<1>3. PICK f : /\ Runs(g, out, FALSE, g.n, f)
               /\ Atoms(g, out) = Append(f[g.n].atoms, V(g) \ f[g.n].block)
  BY <1>2, AtomsLoop
<1> DEFINE P(j) == AtomStage(g, out, f[j]) /\ f[j].it = j + 1
<1>4. P(0)
  <2>1. f[0] = [it |-> 1, rm |-> {}, block |-> {}, atoms |-> <<>>]
    BY <1>3 DEF Runs, LoopStart
  <2>2. AtomSearch(g, out.fill, out.order, out.points, 1, {}, <<>>)
    BY <1>1, AtomsBegin
  <2>3. EliminatedBefore(out.order, 1) = {}
    BY DEF EliminatedBefore
  <2> QED
    BY <2>1, <2>2, <2>3 DEF AtomStage
<1>5. ASSUME NEW j \in 0 .. g.n - 1, P(j) PROVE P(j + 1)
  <2>1. j + 1 \in 1 .. g.n /\ (j + 1) - 1 = j
    BY <1>2
  <2>2. f[j + 1] = AtomsNext(g, out, f[j])
    BY <1>3, <2>1 DEF Runs, LoopNext
  <2>3. AtomStage(g, out, f[j]) /\ f[j].it \in 1 .. g.n
    BY <1>5, <2>1
  <2> DEFINE s == f[j]
             t == f[j + 1]
  <2>4. t = AtomsNext(g, out, s) /\ AtomStage(g, out, s) /\ s.it \in 1 .. g.n
    BY <2>2, <2>3
  <2> HIDE DEF s, t
  <2>5. AtomStage(g, out, t) /\ t.it = s.it + 1
    BY <1>1, <2>4, AtomStageGoesOn
  <2> QED
    BY <1>5, <2>5 DEF s, t
<1> HIDE DEF P
<1>6. P(g.n)
  <2> SUFFICES ASSUME ~P(g.n) PROVE FALSE
    OBVIOUS
  <2> DEFINE Bad == {i \in 0 .. g.n : ~P(i)}
  <2>1. Bad \in SUBSET Nat /\ Bad # {}
    BY <1>2
  <2>2. PICK i \in Bad : \A l \in Bad : i <= l
    BY <2>1, LeastElement
  <2>3. i # 0
    BY <1>4, <2>2
  <2>4. i - 1 \in 0 .. g.n - 1 /\ i - 1 \in 0 .. g.n /\ (i - 1) + 1 = i /\ ~(i <= i - 1)
    BY <1>2, <2>2, <2>3
  <2>5. P(i - 1)
    BY <2>2, <2>4
  <2>6. P((i - 1) + 1)
    BY <1>5, <2>4, <2>5
  <2> QED
    BY <2>2, <2>4, <2>6
<1>7. AtomSearch(g, out.fill, out.order, out.points, g.n + 1, f[g.n].block, f[g.n].atoms)
  BY <1>6 DEF P, AtomStage
<1>8. AreAtoms(g, Append(f[g.n].atoms, V(g) \ f[g.n].block))
  BY <1>1, <1>7, AtomsEnd
<1>9. Append(f[g.n].atoms, V(g) \ f[g.n].block) \in Seq(SUBSET V(g))
  <2>1. f[g.n].atoms \in Seq(SUBSET V(g)) /\ V(g) \ f[g.n].block \in SUBSET V(g)
    BY <1>7 DEF AtomSearch
  <2> QED
    BY <2>1
<1> QED
  BY <1>3, <1>8, <1>9 DEF out
=============================================================================

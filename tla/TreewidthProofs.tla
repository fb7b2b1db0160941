--------------------------- MODULE TreewidthProofs ---------------------------
(***************************************************************************)
(* Proofs about TreewidthSolver, for all graphs, with and without             *)
(* preprocessing, and all drivers: the types; that the fill is recorded once,  *)
(* and explains every edge of the graphs that are open (FillRecorded); and     *)
(* that the rules make progress (StartsOverSimpler).  The invariant they       *)
(* need is TInv.  It says that the graphs still open, mapped back, are parts   *)
(* of the original graph and the fill that lie apart: two of them share no     *)
(* pair of vertices but common edges, and each has the edges that there are    *)
(* between its vertices.                                                       *)
(***************************************************************************)
EXTENDS TreewidthSolver, McsLemmas

-----------------------------------------------------------------------------
(* Numbering a set of numbers in order. *)

\* How many elements of S are less.
RankIn(S, v) == Cardinality({u \in S : u < v})

\* The ranks are as the elements are, and every number less than that of the elements is one.
LEMMA RankFacts ==
  ASSUME NEW S \in SUBSET Nat, IsFiniteSet(S)
  PROVE  /\ Cardinality(S) \in Nat
         /\ \A v \in S : RankIn(S, v) \in 0 .. Cardinality(S) - 1
         /\ \A u, v \in S : u < v <=> RankIn(S, u) < RankIn(S, v)
         /\ \A u, v \in S : RankIn(S, u) = RankIn(S, v) => u = v
         /\ \A j \in 0 .. Cardinality(S) - 1 : \E v \in S : RankIn(S, v) = j
<1> DEFINE n == Cardinality(S)
<1>1. n \in Nat
  BY FS_CardinalityType
<1>2. ASSUME NEW v \in S PROVE RankIn(S, v) \in 0 .. n - 1
  <2> DEFINE L == {u \in S : u < v}
  <2>1. L \in SUBSET S /\ L # S
    OBVIOUS
  <2>2. IsFiniteSet(L) /\ Cardinality(L) <= n /\ Cardinality(L) # n /\ Cardinality(L) \in Nat
    BY <2>1, FS_Subset, FS_CardinalityType
  <2> QED
    BY <1>1, <2>2 DEF RankIn
<1>3. ASSUME NEW u \in S, NEW v \in S, u < v PROVE RankIn(S, u) < RankIn(S, v)
  <2> DEFINE K == {w \in S : w < u}
             L == {w \in S : w < v}
  <2>1. K \in SUBSET L /\ L \in SUBSET S /\ u \in L /\ u \notin K
    <3>1. u \in Nat /\ v \in Nat /\ \A w \in S : w \in Nat
      OBVIOUS
    <3>2. \A w \in S : w < u => w < v
      BY <1>3, <3>1
    <3>3. ~(u < u)
      BY <3>1
    <3> QED
      BY <1>3, <3>2, <3>3
  <2>2. IsFiniteSet(L)
    BY <2>1, FS_Subset
  <2> HIDE DEF K, L
  <2>3. Cardinality(K) <= Cardinality(L) /\ Cardinality(K) # Cardinality(L)
    BY <2>1, <2>2, FS_Subset
  <2>4. Cardinality(K) = RankIn(S, u) /\ Cardinality(L) = RankIn(S, v)
    BY DEF K, L, RankIn
  <2> QED
    BY <1>1, <1>2, <2>3, <2>4
<1>4. \A u, v \in S : u < v <=> RankIn(S, u) < RankIn(S, v)
  <2> SUFFICES ASSUME NEW u \in S, NEW v \in S, RankIn(S, u) < RankIn(S, v) PROVE u < v
    BY <1>3
  <2>1. u # v /\ RankIn(S, u) \in Nat /\ RankIn(S, v) \in Nat
    BY <1>1, <1>2
  <2>2. ~(v < u)
    BY <1>3, <2>1
  <2> QED
    BY <2>1, <2>2
<1>5. \A u, v \in S : RankIn(S, u) = RankIn(S, v) => u = v
  <2> SUFFICES ASSUME NEW u \in S, NEW v \in S, RankIn(S, u) = RankIn(S, v) PROVE u = v
    OBVIOUS
  <2>1. RankIn(S, u) \in Nat /\ RankIn(S, v) \in Nat
    BY <1>1, <1>2
  <2>2. ~(v < u) /\ ~(u < v)
    BY <1>3, <2>1
  <2> QED
    BY <2>2
<1>6. \A j \in 0 .. n - 1 : \E v \in S : RankIn(S, v) = j
  <2> DEFINE f == [v \in S |-> RankIn(S, v)]
             T == 0 .. n - 1
  <2>1. f \in Injection(S, T)
    BY <1>2, <1>5 DEF Injection, IsInjective
  <2>2. IsFiniteSet(T) /\ Cardinality(T) = n
    <3>1. 0 \in Int /\ n - 1 \in Int /\ (0 > n - 1 => n = 0) /\ (n - 1) - 0 + 1 = n
      BY <1>1
    <3> HIDE DEF n
    <3> QED
      BY <3>1, FS_Interval
  <2> HIDE DEF T
  <2>3. f \in Surjection(S, T)
    BY <2>1, <2>2, FS_Injection
  <2>4. \A j \in T : \E v \in S : f[v] = j
    BY <2>3 DEF Surjection
  <2> QED
    BY <2>4 DEF T
<1> QED
  BY <1>1, <1>2, <1>4, <1>5, <1>6

\* Ascending lists each element once, in order, at the place that its rank says.
LEMMA AscendingFacts ==
  ASSUME NEW S \in SUBSET Nat, IsFiniteSet(S)
  PROVE  LET s == Ascending(S)
         IN  /\ s \in Seq(S) /\ Len(s) = Cardinality(S) /\ DOMAIN s = 1 .. Cardinality(S)
             /\ Cardinality(S) \in Nat
             /\ \A v \in S : RankIn(S, v) + 1 \in 1 .. Cardinality(S) /\ s[RankIn(S, v) + 1] = v
             /\ \A j \in 1 .. Cardinality(S) : s[j] \in S /\ RankIn(S, s[j]) = j - 1
             /\ \A i, j \in 1 .. Cardinality(S) : i < j => s[i] < s[j]
<1> DEFINE n == Cardinality(S)
           s == Ascending(S)
<1>1. n \in Nat
  BY RankFacts
<1>2. ASSUME NEW j \in 1 .. n PROVE s[j] \in S /\ RankIn(S, s[j]) = j - 1
  <2>1. j - 1 \in 0 .. n - 1
    BY <1>1
  <2>2. \E v \in S : RankIn(S, v) = j - 1
    BY <2>1, RankFacts
  <2>3. s[j] = CHOOSE v \in S : RankIn(S, v) = j - 1
    BY DEF Ascending, RankIn
  <2> QED
    BY <2>2, <2>3
<1> DEFINE C(j) == CHOOSE v \in S : RankIn(S, v) = j - 1
<1>3. s = [j \in 1 .. n |-> C(j)]
  BY DEF Ascending, RankIn
<1>4. s \in [1 .. n -> S]
  <2>1. \A j \in 1 .. n : C(j) \in S
    <3> HIDE DEF C, s
    <3>1. \A j \in 1 .. n : s[j] = C(j)
      BY <1>3
    <3> QED
      BY <1>2, <3>1
  <2> HIDE DEF C, s
  <2> QED
    BY <1>3, <2>1
<1> HIDE DEF s
<1>5. s \in Seq(S) /\ Len(s) = n /\ DOMAIN s = 1 .. n
  BY <1>1, <1>4
<1>6. ASSUME NEW v \in S PROVE RankIn(S, v) + 1 \in 1 .. n /\ s[RankIn(S, v) + 1] = v
  <2>1. RankIn(S, v) \in 0 .. n - 1
    BY RankFacts
  <2>2. RankIn(S, v) + 1 \in 1 .. n /\ (RankIn(S, v) + 1) - 1 = RankIn(S, v)
    BY <1>1, <2>1
  <2>3. s[RankIn(S, v) + 1] \in S /\ RankIn(S, s[RankIn(S, v) + 1]) = RankIn(S, v)
    BY <1>2, <2>2
  <2> DEFINE w == s[RankIn(S, v) + 1]
  <2>4. w \in S /\ RankIn(S, w) = RankIn(S, v)
    BY <2>3
  <2> HIDE DEF w
  <2>5. w = v
    BY <2>4, RankFacts
  <2> QED
    BY <2>2, <2>5 DEF w
<1>7. ASSUME NEW i \in 1 .. n, NEW j \in 1 .. n, i < j PROVE s[i] < s[j]
  <2>1. s[i] \in S /\ s[j] \in S /\ RankIn(S, s[i]) < RankIn(S, s[j])
    BY <1>1, <1>2, <1>7
  <2> QED
    BY <2>1, RankFacts
<1> QED
  BY <1>1, <1>2, <1>5, <1>6, <1>7 DEF s

-----------------------------------------------------------------------------
(* Sets of edges that lie apart. *)

\* A pair of S is a pair with its elements in S.
LEMMA PairsWithin ==
  ASSUME NEW S, NEW T, NEW e
  PROVE  /\ S \subseteq T /\ e \in Pairs(S) => e \in Pairs(T)
         /\ e \in Pairs(S) /\ e \subseteq T => e \in Pairs(T)
         /\ e \in Pairs(S) => e \subseteq S
         /\ e \in Pairs(S) /\ e \in Pairs(T) => e \in Pairs(S \cap T)
<1>1. e \in Pairs(S) => e \subseteq S
  BY PairsMember
<1>2. e \in Pairs(T) => e \subseteq T
  BY PairsMember
<1>3. e \in Pairs(S) /\ e \subseteq T => e \in Pairs(T) /\ e \in Pairs(S \cap T)
  <2> SUFFICES ASSUME e \in Pairs(S), e \subseteq T PROVE e \in Pairs(T) /\ e \in Pairs(S \cap T)
    OBVIOUS
  <2>1. PICK u \in S, w \in S : u # w /\ e = {u, w}
    BY PairsMember
  <2>2. u \in T /\ w \in T /\ u \in S \cap T /\ w \in S \cap T
    BY <2>1
  <2> QED
    BY <2>1, <2>2, PairsMember
<1> QED
  BY <1>1, <1>2, <1>3

\* A pair with both ends at edges of P and at edges of Q is an edge of both.
Apart(P, Q) == \A e \in Pairs((UNION P) \cap (UNION Q)) : e \in P /\ e \in Q

\* P1 has all edges of P between its vertices, and no vertex more.
Within(P1, P) ==
  /\ UNION P1 \subseteq UNION P
  /\ \A e \in P : e \in Pairs(UNION P1) => e \in P1

\* Parts of a graph with the edges B: they lie apart, and each has all edges of B
\* between its vertices.
Laid(G, B) ==
  /\ \A p, q \in DOMAIN G : p # q => Apart(G[p], G[q])
  /\ \A p \in DOMAIN G : \A e \in B : e \in Pairs(UNION G[p]) => e \in G[p]

\* What lies within parts that lie apart lies apart.
LEMMA WithinApart ==
  ASSUME NEW P, NEW Q, Apart(P, Q), NEW P1, NEW Q1, Within(P1, P), Within(Q1, Q)
  PROVE  Apart(P1, Q1)
<1> SUFFICES ASSUME NEW e \in Pairs((UNION P1) \cap (UNION Q1)) PROVE e \in P1 /\ e \in Q1
  BY DEF Apart
<1>1. e \in Pairs((UNION P) \cap (UNION Q)) /\ e \in Pairs(UNION P1) /\ e \in Pairs(UNION Q1)
  <2>1. /\ (UNION P1) \cap (UNION Q1) \subseteq (UNION P) \cap (UNION Q)
        /\ (UNION P1) \cap (UNION Q1) \subseteq UNION P1
        /\ (UNION P1) \cap (UNION Q1) \subseteq UNION Q1
    BY DEF Within
  <2> QED
    BY <2>1, PairsWithin
<1> QED
  BY <1>1 DEF Apart, Within

\* A part is within itself.
LEMMA WithinItself ==
  ASSUME NEW P
  PROVE  Within(P, P)
BY DEF Within

\* A new edge between vertices of one part does not lie between those of another.
LEMMA NewEdgeElsewhere ==
  ASSUME NEW P, NEW Q, Apart(P, Q), NEW e \in Pairs(UNION P), e \notin P
  PROVE  e \notin Pairs(UNION Q)
BY PairsWithin DEF Apart

\* Each part of G1 is within the part of G that m tells, and those of one part lie apart.
ComesFrom(G, G1, m) ==
  /\ \A p \in DOMAIN G1 : m[p] \in DOMAIN G /\ Within(G1[p], G[m[p]])
  /\ \A p, q \in DOMAIN G1 : p # q /\ m[p] = m[q] => Apart(G1[p], G1[q])

\* The edges N are new in a part of G, and what comes from it and has the ends has them.
LiesIn(G, G1, m, N) ==
  \A e \in N : \E p0 \in DOMAIN G :
    /\ e \in Pairs(UNION G[p0]) /\ e \notin G[p0]
    /\ \A p \in DOMAIN G1 : m[p] = p0 /\ e \in Pairs(UNION G1[p]) => e \in G1[p]

\* The parts stay so when each is replaced by parts within it, which again lie
\* apart, and when edges N are added, each in one of the parts.
LEMMA LaidStep ==
  ASSUME NEW G, NEW B, Laid(G, B), NEW G1, NEW m, ComesFrom(G, G1, m), NEW N, LiesIn(G, G1, m, N)
  PROVE  Laid(G1, B \cup N)
<1>0. /\ \A p \in DOMAIN G1 : m[p] \in DOMAIN G /\ Within(G1[p], G[m[p]])
      /\ \A p, q \in DOMAIN G1 : p # q /\ m[p] = m[q] => Apart(G1[p], G1[q])
  BY DEF ComesFrom
<1>1. ASSUME NEW p \in DOMAIN G1, NEW q \in DOMAIN G1, p # q PROVE Apart(G1[p], G1[q])
  <2>1. CASE m[p] = m[q]
    BY <1>0, <1>1, <2>1
  <2>2. CASE m[p] # m[q]
    <3>1. /\ m[p] \in DOMAIN G /\ m[q] \in DOMAIN G
          /\ Within(G1[p], G[m[p]]) /\ Within(G1[q], G[m[q]])
      BY <1>0
    <3>2. Apart(G[m[p]], G[m[q]])
      BY <2>2, <3>1 DEF Laid
    <3> QED
      BY <3>1, <3>2, WithinApart
  <2> QED
    BY <2>1, <2>2
<1>2. ASSUME NEW p \in DOMAIN G1, NEW e \in B, e \in Pairs(UNION G1[p]) PROVE e \in G1[p]
  <2>1. m[p] \in DOMAIN G /\ Within(G1[p], G[m[p]])
    BY <1>0
  <2>2. e \in Pairs(UNION G[m[p]])
    BY <1>2, <2>1, PairsWithin DEF Within
  <2> QED
    BY <1>2, <2>1, <2>2 DEF Laid, Within
<1>3. ASSUME NEW p \in DOMAIN G1, NEW e \in N, e \in Pairs(UNION G1[p]) PROVE e \in G1[p]
  <2>1. PICK p0 \in DOMAIN G :
          /\ e \in Pairs(UNION G[p0]) /\ e \notin G[p0]
          /\ \A q \in DOMAIN G1 : m[q] = p0 /\ e \in Pairs(UNION G1[q]) => e \in G1[q]
    BY DEF LiesIn
  <2>2. CASE m[p] = p0
    BY <1>3, <2>1, <2>2
  <2>3. CASE m[p] # p0
    <3>1. m[p] \in DOMAIN G /\ Within(G1[p], G[m[p]])
      BY <1>0
    <3>2. e \in Pairs(UNION G[m[p]])
      BY <1>3, <3>1, PairsWithin DEF Within
    <3>3. Apart(G[p0], G[m[p]])
      BY <2>3, <3>1 DEF Laid
    <3> QED
      BY <2>1, <3>2, <3>3, NewEdgeElsewhere
  <2> QED
    BY <2>2, <2>3
<1> QED
  BY <1>1, <1>2, <1>3 DEF Laid

-----------------------------------------------------------------------------
(* Renumbered graphs and what they are in the original numbers. *)

\* The graphs whose vertices stand for some of n ones, in the same order.
MappedGraphs(n) ==
  {g \in [n : Nat, adj : SUBSET (SUBSET Nat), vmap : UNION {[0 .. l - 1 -> 0 .. n - 1] : l \in Nat}] :
     /\ IsGraph(g) /\ g.vmap \in [V(g) -> 0 .. n - 1]
     /\ \A u, v \in V(g) : u < v => g.vmap[u] < g.vmap[v]}

\* Edges of g in the original numbers.
Back(g, F) == {MapBackEdge(g, e) : e \in F}
Part(g) == Back(g, g.adj)

\* What the members of MappedGraphs are.
LEMMA MappedFacts ==
  ASSUME NEW n \in Nat, NEW g \in MappedGraphs(n)
  PROVE  /\ IsGraph(g) /\ g.n \in Nat /\ g.adj \subseteq Pairs(V(g)) /\ g.n <= n
         /\ g.vmap \in [V(g) -> 0 .. n - 1]
         /\ \A u, v \in V(g) : u < v => g.vmap[u] < g.vmap[v]
         /\ \A u, v \in V(g) : g.vmap[u] = g.vmap[v] => u = v
         /\ g = [n |-> g.n, adj |-> g.adj, vmap |-> g.vmap]
<1>1. /\ IsGraph(g) /\ g.vmap \in [V(g) -> 0 .. n - 1]
      /\ \A u, v \in V(g) : u < v => g.vmap[u] < g.vmap[v]
  BY DEF MappedGraphs
<1>2. g.n \in Nat /\ g.adj \subseteq Pairs(V(g))
  BY <1>1 DEF IsGraph
<1>3. ASSUME NEW u \in V(g), NEW v \in V(g), g.vmap[u] = g.vmap[v] PROVE u = v
  <2>1. g.vmap[u] \in Int /\ ~(g.vmap[u] < g.vmap[v]) /\ ~(g.vmap[v] < g.vmap[u])
    <3>1. g.vmap[u] \in 0 .. n - 1
      BY <1>1
    <3> QED
      BY <1>3, <3>1
  <2>2. u \in Int /\ v \in Int
    BY DEF V
  <2> QED
    BY <1>1, <2>1, <2>2
<1>4. g.n <= n
  <2> DEFINE T == 0 .. n - 1
  <2>1. g.vmap \in Injection(V(g), T)
    BY <1>1, <1>3 DEF Injection, IsInjective
  <2>2. IsFiniteSet(T) /\ Cardinality(T) = n
    <3>1. 0 \in Int /\ n - 1 \in Int /\ (0 > n - 1 => n = 0) /\ (n - 1) - 0 + 1 = n
      OBVIOUS
    <3> QED
      BY <3>1, FS_Interval
  <2> HIDE DEF T
  <2>3. Cardinality(V(g)) <= Cardinality(T)
    BY <2>1, <2>2, FS_Injection
  <2>4. Cardinality(V(g)) = g.n
    BY <1>2, VerticesFinite
  <2> QED
    BY <2>2, <2>3, <2>4
<1>5. g = [n |-> g.n, adj |-> g.adj, vmap |-> g.vmap]
  BY DEF MappedGraphs
<1> QED
  BY <1>1, <1>2, <1>3, <1>4, <1>5

\* A graph with increasing numbers is one of them.
LEMMA MakeMapped ==
  ASSUME NEW n \in Nat, NEW N \in Nat, NEW A \in SUBSET Pairs(0 .. N - 1),
         NEW f \in [0 .. N - 1 -> 0 .. n - 1],
         \A u, v \in 0 .. N - 1 : u < v => f[u] < f[v]
  PROVE  [n |-> N, adj |-> A, vmap |-> f] \in MappedGraphs(n)
<1> DEFINE g == [n |-> N, adj |-> A, vmap |-> f]
<1>1. V(g) = 0 .. N - 1 /\ g.n = N /\ g.adj = A /\ g.vmap = f
  BY DEF V
<1>2. IsGraph(g)
  BY <1>1 DEF IsGraph
<1>3. A \in SUBSET (SUBSET Nat)
  <2>1. ASSUME NEW e \in A PROVE e \subseteq Nat
    <3>1. e \in Pairs(0 .. N - 1)
      OBVIOUS
    <3>2. e \subseteq 0 .. N - 1
      BY <3>1, PairsWithin
    <3> QED
      BY <3>2
  <2> QED
    BY <2>1
<1>4. f \in UNION {[0 .. l - 1 -> 0 .. n - 1] : l \in Nat}
  OBVIOUS
<1>5. g \in [n : Nat, adj : SUBSET (SUBSET Nat), vmap : UNION {[0 .. l - 1 -> 0 .. n - 1] : l \in Nat}]
  BY <1>3, <1>4
<1> HIDE DEF g
<1>6. g \in MappedGraphs(n)
  BY <1>1, <1>2, <1>5 DEF MappedGraphs
<1> QED
  BY <1>6 DEF g

\* A graph whose edges are changed stands for the same vertices.
LEMMA ChangedEdges ==
  ASSUME NEW n \in Nat, NEW g \in MappedGraphs(n), NEW A \in SUBSET Pairs(V(g)),
         NEW h, h = [g EXCEPT !.adj = A]
  PROVE  /\ h \in MappedGraphs(n) /\ h.n = g.n /\ V(h) = V(g) /\ h.adj = A /\ h.vmap = g.vmap
         /\ \A e : MapBackEdge(h, e) = MapBackEdge(g, e)
<1>1. /\ g = [n |-> g.n, adj |-> g.adj, vmap |-> g.vmap] /\ g.n \in Nat
      /\ g.vmap \in [V(g) -> 0 .. n - 1] /\ \A u, v \in V(g) : u < v => g.vmap[u] < g.vmap[v]
  BY MappedFacts
<1>2. h = [n |-> g.n, adj |-> A, vmap |-> g.vmap]
  BY <1>1
<1>3. h \in MappedGraphs(n)
  BY <1>1, <1>2, MakeMapped DEF V
<1>4. h.n = g.n /\ h.adj = A /\ h.vmap = g.vmap
  BY <1>2
<1> QED
  BY <1>3, <1>4 DEF V, MapBackEdge

\* An edge is mapped back at both ends.
LEMMA MapBackEnds ==
  ASSUME NEW g, NEW u, NEW v
  PROVE  MapBackEdge(g, {u, v}) = {g.vmap[u], g.vmap[v]}
BY DEF MapBackEdge

\* Mapping back takes a pair to a pair, and no two pairs to the same one.
LEMMA MappedPair ==
  ASSUME NEW n \in Nat, NEW g \in MappedGraphs(n)
  PROVE  /\ \A e \in Pairs(V(g)) : MapBackEdge(g, e) \in Pairs(0 .. n - 1)
         /\ \A e, f \in Pairs(V(g)) : MapBackEdge(g, e) = MapBackEdge(g, f) => e = f
<1>2. ASSUME NEW e \in Pairs(V(g)) PROVE MapBackEdge(g, e) \in Pairs(0 .. n - 1)
  <2>1. PICK u \in V(g), v \in V(g) : u # v /\ e = {u, v}
    BY PairsMember
  <2>2. g.vmap[u] \in 0 .. n - 1 /\ g.vmap[v] \in 0 .. n - 1 /\ g.vmap[u] # g.vmap[v]
    BY <2>1, MappedFacts
  <2>3. MapBackEdge(g, e) = {g.vmap[u], g.vmap[v]}
    BY <2>1, MapBackEnds
  <2> QED
    BY <2>2, <2>3, PairsMember
<1>3. ASSUME NEW e \in Pairs(V(g)), NEW f \in Pairs(V(g)), MapBackEdge(g, e) = MapBackEdge(g, f)
      PROVE  e = f
  <2>1. PICK u \in V(g), v \in V(g) : u # v /\ e = {u, v}
    BY PairsMember
  <2>2. PICK y \in V(g), z \in V(g) : y # z /\ f = {y, z}
    BY PairsMember
  <2>3. {g.vmap[u], g.vmap[v]} = {g.vmap[y], g.vmap[z]}
    <3>1. MapBackEdge(g, e) = {g.vmap[u], g.vmap[v]}
      BY <2>1, MapBackEnds
    <3>2. MapBackEdge(g, f) = {g.vmap[y], g.vmap[z]}
      BY <2>2, MapBackEnds
    <3> QED
      BY <1>3, <3>1, <3>2
  <2>4. (g.vmap[u] = g.vmap[y] \/ g.vmap[u] = g.vmap[z]) /\ (g.vmap[v] = g.vmap[y] \/ g.vmap[v] = g.vmap[z])
    BY <2>3
  <2>5. (u = y \/ u = z) /\ (v = y \/ v = z)
    BY <2>4, MappedFacts
  <2> QED
    BY <2>1, <2>2, <2>5
<1> QED
  BY <1>2, <1>3

\* The vertices of a part are those that have an edge.
LEMMA PartFacts ==
  ASSUME NEW n \in Nat, NEW g \in MappedGraphs(n)
  PROVE  /\ UNION Part(g) = {g.vmap[v] : v \in Active(g)}
         /\ \A e \in Pairs(V(g)) : MapBackEdge(g, e) \in Part(g) <=> e \in g.adj
         /\ \A e \in Pairs(Active(g)) : MapBackEdge(g, e) \in Pairs(UNION Part(g))
         /\ \A c \in Pairs(UNION Part(g)) : \E e \in Pairs(Active(g)) : c = MapBackEdge(g, e)
         /\ Part(g) \subseteq Pairs(0 .. n - 1) /\ Active(g) \subseteq V(g)
<1>1. Active(g) \subseteq V(g) /\ g.adj \subseteq Pairs(V(g))
  BY MappedFacts DEF Active
<1>2. Part(g) \subseteq Pairs(0 .. n - 1)
  BY <1>1, MappedPair DEF Part, Back
<1>3. \A e \in Pairs(V(g)) : MapBackEdge(g, e) \in Part(g) <=> e \in g.adj
  BY <1>1, MappedPair DEF Part, Back
<1>4. ASSUME NEW y PROVE y \in UNION Part(g) <=> \E v \in Active(g) : y = g.vmap[v]
  <2>1. ASSUME NEW c \in Part(g), y \in c PROVE \E v \in Active(g) : y = g.vmap[v]
    <3>1. PICK e \in g.adj : c = MapBackEdge(g, e)
      BY DEF Part, Back
    <3>2. PICK u \in V(g), v \in V(g) : u # v /\ e = {u, v}
      BY <1>1, PairsMember
    <3>3. HasEdge(g, u, v) /\ HasEdge(g, v, u)
      BY <3>1, <3>2, EdgeSymmetric DEF HasEdge
    <3>4. u \in Active(g) /\ v \in Active(g)
      BY <3>2, <3>3 DEF Active, Neighbors
    <3>5. y = g.vmap[u] \/ y = g.vmap[v]
      <4>1. c = {g.vmap[u], g.vmap[v]}
        BY <3>1, <3>2, MapBackEnds
      <4> QED
        BY <2>1, <4>1
    <3> QED
      BY <3>4, <3>5
  <2>2. ASSUME NEW v \in Active(g), y = g.vmap[v] PROVE y \in UNION Part(g)
    <3>1. PICK u \in V(g) : HasEdge(g, u, v)
      BY DEF Active, Neighbors
    <3>2. MapBackEdge(g, {u, v}) \in Part(g) /\ MapBackEdge(g, {u, v}) = {g.vmap[u], g.vmap[v]}
      BY <3>1, MapBackEnds DEF Part, Back, HasEdge
    <3> QED
      BY <2>2, <3>2
  <2> QED
    BY <2>1, <2>2
<1>5. UNION Part(g) = {g.vmap[v] : v \in Active(g)}
  BY <1>4
<1>6. ASSUME NEW e \in Pairs(Active(g)) PROVE MapBackEdge(g, e) \in Pairs(UNION Part(g))
  <2>1. PICK u \in Active(g), v \in Active(g) : u # v /\ e = {u, v}
    BY PairsMember
  <2>2. g.vmap[u] \in UNION Part(g) /\ g.vmap[v] \in UNION Part(g)
    BY <1>5
  <2>3. g.vmap[u] # g.vmap[v]
    BY <1>1, <2>1, MappedFacts
  <2>4. MapBackEdge(g, e) = {g.vmap[u], g.vmap[v]}
    BY <2>1, MapBackEnds
  <2> QED
    BY <2>2, <2>3, <2>4, PairsMember
<1>7. ASSUME NEW c \in Pairs(UNION Part(g)) PROVE \E e \in Pairs(Active(g)) : c = MapBackEdge(g, e)
  <2>1. PICK y \in UNION Part(g), z \in UNION Part(g) : y # z /\ c = {y, z}
    BY PairsMember
  <2>2. PICK u \in Active(g) : y = g.vmap[u]
    BY <1>4
  <2>3. PICK v \in Active(g) : z = g.vmap[v]
    BY <1>4
  <2>4. u # v
    BY <2>1, <2>2, <2>3
  <2>5. {u, v} \in Pairs(Active(g))
    BY <2>4, PairsMember
  <2> QED
    BY <2>1, <2>2, <2>3, <2>5, MapBackEnds
<1> QED
  BY <1>1, <1>2, <1>3, <1>5, <1>6, <1>7

-----------------------------------------------------------------------------
(* The graph of an atom. *)

EdgesInside(g, S) == {e \in g.adj : e \subseteq S}

Ranked(vs, E) == {{RankIn(vs, v) : v \in e} : e \in E}
NumbersOf(g, vs, N) == [v \in 0 .. N - 1 |-> g.vmap[Ascending(vs)[v + 1]]]

\* The graph of an atom, by the ranks of its vertices.
LEMMA AtomGraphIs ==
  ASSUME NEW g, NEW S, NEW E, E = EdgesInside(g, S), NEW vs, vs = UNION E,
         NEW N \in Nat, N = Cardinality(vs)
  PROVE  AtomGraph(g, S) = [n |-> N, adj |-> Ranked(vs, E), vmap |-> NumbersOf(g, vs, N)]
<1> DEFINE A == {{RankIn(vs, v) : v \in e} : e \in E}
           m == [i \in 0 .. N - 1 |-> Ascending(vs)[i + 1]]
           atom == [n |-> N, adj |-> A, vmap |-> m]
           f == [v \in 0 .. N - 1 |-> g.vmap[m[v]]]
           f2 == [v \in 0 .. N - 1 |-> g.vmap[Ascending(vs)[v + 1]]]
<1>1. GraphOf(E) = atom
  BY DEF GraphOf, RankIn
<1>2. AtomGraph(g, S) = [atom EXCEPT !.vmap = [v \in 0 .. atom.n - 1 |-> g.vmap[atom.vmap[v]]]]
  BY <1>1 DEF AtomGraph, EdgesInside
<1>3. atom.n = N /\ atom.vmap = m
  OBVIOUS
<1>4. f = f2
  <2>1. \A v \in 0 .. N - 1 : f[v] = f2[v]
    OBVIOUS
  <2> QED
    BY <2>1
<1>5. AtomGraph(g, S) = [atom EXCEPT !.vmap = f]
  <2> HIDE DEF atom
  <2>1. AtomGraph(g, S) = [atom EXCEPT !.vmap = [v \in 0 .. N - 1 |-> g.vmap[m[v]]]]
    BY <1>2, <1>3
  <2> QED
    BY <2>1
<1> HIDE DEF f, f2, m, A
<1>6. AtomGraph(g, S) = [n |-> N, adj |-> A, vmap |-> f2]
  BY <1>4, <1>5
<1> QED
  BY <1>6 DEF A, f2, Ranked, NumbersOf

\* The ends of the edges inside a set are in it.
LEMMA EndsInside ==
  ASSUME NEW n \in Nat, NEW g \in MappedGraphs(n), NEW S \in SUBSET V(g),
         NEW vs, vs = UNION EdgesInside(g, S)
  PROVE  /\ vs \in SUBSET S /\ vs \in SUBSET V(g) /\ vs \in SUBSET Nat /\ IsFiniteSet(vs)
         /\ Cardinality(vs) \in Nat /\ Cardinality(vs) <= Cardinality(S)
         /\ \A e \in EdgesInside(g, S) : \E u, w \in vs : u # w /\ e = {u, w} /\ e \in g.adj
<1>1. g.n \in Nat /\ g.adj \subseteq Pairs(V(g))
  BY MappedFacts
<1>2. vs \in SUBSET S /\ S \in SUBSET V(g)
  BY DEF EdgesInside
<1>3. IsFiniteSet(vs) /\ IsFiniteSet(S) /\ Cardinality(vs) \in 0 .. g.n
  BY <1>1, <1>2, VerticesFinite
<1>4. Cardinality(vs) <= Cardinality(S)
  BY <1>2, <1>3, FS_Subset
<1>5. V(g) \in SUBSET Nat
  BY <1>1 DEF V
<1>6. ASSUME NEW e \in EdgesInside(g, S) PROVE \E u, w \in vs : u # w /\ e = {u, w} /\ e \in g.adj
  <2>1. e \in g.adj /\ e \in Pairs(V(g))
    BY <1>1 DEF EdgesInside
  <2>2. PICK u \in V(g), w \in V(g) : u # w /\ e = {u, w}
    BY <2>1, PairsMember
  <2> QED
    BY <2>1, <2>2
<1> QED
  BY <1>1, <1>2, <1>3, <1>4, <1>5, <1>6

\* An atom's graph stands for the atom's edges, and has no vertex without one.
LEMMA AtomGraphFacts ==
  ASSUME NEW n \in Nat, NEW g \in MappedGraphs(n), NEW S \in SUBSET V(g), NEW h, h = AtomGraph(g, S)
  PROVE  /\ h \in MappedGraphs(n) /\ Part(h) = Back(g, EdgesInside(g, S))
         /\ Active(h) = V(h) /\ h.n \in Nat /\ h.n <= Cardinality(S)
<1> DEFINE vs == UNION EdgesInside(g, S)
           N == Cardinality(vs)
           R(v) == RankIn(vs, v)
           A == {{R(v) : v \in e} : e \in EdgesInside(g, S)}
           f == [v \in 0 .. N - 1 |-> g.vmap[Ascending(vs)[v + 1]]]
<1>1. /\ vs \in SUBSET S /\ vs \in SUBSET V(g) /\ vs \in SUBSET Nat /\ IsFiniteSet(vs)
      /\ N \in Nat /\ N <= Cardinality(S)
      /\ \A e \in EdgesInside(g, S) : \E u, w \in vs : u # w /\ e = {u, w} /\ e \in g.adj
  BY EndsInside
<1>2. h = [n |-> N, adj |-> A, vmap |-> f]
  <2> DEFINE E == EdgesInside(g, S)
  <2>1. E = EdgesInside(g, S) /\ vs = UNION E /\ N \in Nat /\ N = Cardinality(vs)
    BY <1>1
  <2> HIDE DEF E, vs, N
  <2>2. AtomGraph(g, S) = [n |-> N, adj |-> Ranked(vs, E), vmap |-> NumbersOf(g, vs, N)]
    BY <2>1, AtomGraphIs
  <2> QED
    BY <2>2 DEF E, Ranked, NumbersOf
<1> HIDE DEF vs
<1>3. /\ \A v \in vs : R(v) \in 0 .. N - 1 /\ Ascending(vs)[R(v) + 1] = v
      /\ \A u, v \in vs : R(u) = R(v) => u = v
      /\ \A j \in 0 .. N - 1 : /\ j + 1 \in 1 .. N /\ Ascending(vs)[j + 1] \in vs
                               /\ R(Ascending(vs)[j + 1]) = j
      /\ \A i, j \in 0 .. N - 1 : i < j => Ascending(vs)[i + 1] < Ascending(vs)[j + 1]
  <2>1. \A v \in vs : R(v) \in 0 .. N - 1 /\ Ascending(vs)[R(v) + 1] = v
    BY <1>1, RankFacts, AscendingFacts
  <2>2. \A u, v \in vs : R(u) = R(v) => u = v
    BY <1>1, RankFacts
  <2>3. ASSUME NEW j \in 0 .. N - 1
        PROVE  /\ j + 1 \in 1 .. N /\ Ascending(vs)[j + 1] \in vs /\ R(Ascending(vs)[j + 1]) = j
    <3>1. j + 1 \in 1 .. N /\ (j + 1) - 1 = j
      BY <1>1
    <3> QED
      BY <1>1, <3>1, AscendingFacts
  <2>4. ASSUME NEW i \in 0 .. N - 1, NEW j \in 0 .. N - 1, i < j
        PROVE  Ascending(vs)[i + 1] < Ascending(vs)[j + 1]
    <3>1. i + 1 \in 1 .. N /\ j + 1 \in 1 .. N /\ i + 1 < j + 1
      BY <1>1, <2>4
    <3> QED
      BY <1>1, <3>1, AscendingFacts
  <2> QED
    BY <2>1, <2>2, <2>3, <2>4
<1>4. \A v \in vs : f[R(v)] = g.vmap[v]
  <2> HIDE DEF N, R
  <2> QED
    BY <1>3
<1>5. ASSUME NEW u, NEW w PROVE {R(v) : v \in {u, w}} = {R(u), R(w)}
  OBVIOUS
<1> HIDE DEF R
<1>6. A \in SUBSET Pairs(0 .. N - 1)
  <2> SUFFICES ASSUME NEW e \in EdgesInside(g, S) PROVE {R(v) : v \in e} \in Pairs(0 .. N - 1)
    OBVIOUS
  <2>1. PICK u \in vs, w \in vs : u # w /\ e = {u, w}
    BY <1>1
  <2>2. R(u) \in 0 .. N - 1 /\ R(w) \in 0 .. N - 1 /\ R(u) # R(w)
    BY <1>3, <2>1
  <2>3. {R(v) : v \in e} = {R(u), R(w)}
    BY <1>5, <2>1
  <2> QED
    BY <2>2, <2>3, PairsMember
<1>7. f \in [0 .. N - 1 -> 0 .. n - 1] /\ \A i, j \in 0 .. N - 1 : i < j => f[i] < f[j]
  <2>1. ASSUME NEW j \in 0 .. N - 1 PROVE f[j] \in 0 .. n - 1
    <3>1. Ascending(vs)[j + 1] \in V(g) /\ f[j] = g.vmap[Ascending(vs)[j + 1]]
      BY <1>1, <1>3
    <3> QED
      BY <3>1, MappedFacts
  <2>2. ASSUME NEW i \in 0 .. N - 1, NEW j \in 0 .. N - 1, i < j PROVE f[i] < f[j]
    <3>1. /\ Ascending(vs)[j + 1] \in V(g) /\ f[j] = g.vmap[Ascending(vs)[j + 1]]
          /\ Ascending(vs)[i + 1] \in V(g) /\ f[i] = g.vmap[Ascending(vs)[i + 1]]
          /\ Ascending(vs)[i + 1] < Ascending(vs)[j + 1]
      BY <1>1, <1>3, <2>2
    <3> QED
      BY <3>1, MappedFacts
  <2>3. DOMAIN f = 0 .. N - 1 /\ f = [j \in 0 .. N - 1 |-> f[j]]
    OBVIOUS
  <2> HIDE DEF f
  <2> QED
    BY <2>1, <2>2, <2>3
<1> HIDE DEF A, f, N
<1>8. h \in MappedGraphs(n)
  BY <1>1, <1>2, <1>6, <1>7, MakeMapped
<1>9. h.n = N /\ h.adj = A /\ h.vmap = f /\ V(h) = 0 .. N - 1
  BY <1>2 DEF V
<1>10. ASSUME NEW u \in vs, NEW w \in vs PROVE MapBackEdge(h, {R(u), R(w)}) = MapBackEdge(g, {u, w})
  <2>1. MapBackEdge(h, {R(u), R(w)}) = {f[R(u)], f[R(w)]}
    BY <1>9, MapBackEnds
  <2>2. MapBackEdge(g, {u, w}) = {g.vmap[u], g.vmap[w]}
    BY MapBackEnds
  <2> QED
    BY <1>4, <2>1, <2>2
<1>11. Part(h) = Back(g, EdgesInside(g, S))
  <2> DEFINE M(e) == {R(v) : v \in e}
  <2>1. ASSUME NEW e \in EdgesInside(g, S)
        PROVE  /\ M(e) \in A
               /\ MapBackEdge(h, M(e)) = MapBackEdge(g, e)
    <3>1. PICK u \in vs, w \in vs : e = {u, w}
      BY <1>1
    <3>2. M(e) = {R(u), R(w)}
      BY <1>5, <3>1
    <3> QED
      BY <1>10, <3>1, <3>2 DEF A
  <2>2. \A a \in A : \E e \in EdgesInside(g, S) : a = M(e)
    BY DEF A
  <2> HIDE DEF M
  <2>3. ASSUME NEW c PROVE c \in Part(h) <=> c \in Back(g, EdgesInside(g, S))
    <3>1. c \in Part(h) <=> \E a \in A : c = MapBackEdge(h, a)
      BY <1>9 DEF Part, Back
    <3>2. c \in Back(g, EdgesInside(g, S)) <=> \E e \in EdgesInside(g, S) : c = MapBackEdge(g, e)
      BY DEF Back
    <3> QED
      BY <2>1, <2>2, <3>1, <3>2
  <2> QED
    BY <2>3
<1>12. Active(h) = V(h)
  <2> SUFFICES ASSUME NEW j \in 0 .. N - 1 PROVE \E i \in V(h) : HasEdge(h, i, j)
    BY <1>9 DEF Active, Neighbors
  <2> DEFINE v == Ascending(vs)[j + 1]
  <2>1. v \in vs /\ R(v) = j
    BY <1>3
  <2> HIDE DEF v
  <2>2. PICK e \in EdgesInside(g, S) : v \in e
    BY <2>1 DEF vs
  <2>3. PICK u \in vs, w \in vs : e = {u, w}
    BY <1>1
  <2>4. \E x \in vs : e = {x, v}
    BY <2>2, <2>3
  <2>5. PICK x \in vs : e = {x, v}
    BY <2>4
  <2>6. {R(y) : y \in e} = {R(x), j} /\ {R(y) : y \in e} \in A
    BY <1>5, <2>1, <2>5 DEF A
  <2>7. R(x) \in V(h)
    BY <1>3, <1>9
  <2> QED
    BY <1>9, <2>6, <2>7 DEF HasEdge
<1> QED
  BY <1>1, <1>8, <1>9, <1>11, <1>12

\* If the atom is the whole graph, then the graph is kept as it is.
LEMMA WholeAtom ==
  ASSUME NEW n \in Nat, NEW g \in MappedGraphs(n), Active(g) = V(g)
  PROVE  AtomGraph(g, V(g)) = g
<1> DEFINE vs == UNION EdgesInside(g, V(g))
<1>1. g.n \in Nat /\ g.adj \subseteq Pairs(V(g)) /\ g.vmap \in [V(g) -> 0 .. n - 1]
      /\ g = [n |-> g.n, adj |-> g.adj, vmap |-> g.vmap]
  BY MappedFacts
<1>2. EdgesInside(g, V(g)) = g.adj
  BY <1>1, PairsWithin DEF EdgesInside
<1>3. vs = V(g)
  <2>1. ASSUME NEW v \in V(g) PROVE v \in vs
    <3>1. v \in Active(g)
      OBVIOUS
    <3>2. PICK u \in V(g) : {u, v} \in g.adj
      BY <3>1 DEF Active, Neighbors, HasEdge
    <3> QED
      BY <1>2, <3>2
  <2>2. vs \in SUBSET V(g)
    <3>1. V(g) \in SUBSET V(g) /\ vs = UNION EdgesInside(g, V(g))
      OBVIOUS
    <3> HIDE DEF vs
    <3> QED
      BY <3>1, EndsInside
  <2> QED
    BY <2>1, <2>2
<1> HIDE DEF vs
<1>4. vs \in SUBSET Nat /\ IsFiniteSet(vs) /\ Cardinality(vs) = g.n /\ V(g) = 0 .. g.n - 1
  BY <1>1, <1>3, VerticesFinite DEF V
<1>5. ASSUME NEW v \in V(g) PROVE RankIn(vs, v) = v
  <2>1. v \in Nat /\ v <= g.n - 1
    BY <1>1, <1>4
  <2>2. {u \in vs : u < v} = 0 .. v - 1
    BY <1>1, <1>3, <1>4, <2>1
  <2>3. 0 \in Int /\ v - 1 \in Int /\ (0 > v - 1 => v = 0) /\ (v - 1) - 0 + 1 = v
    BY <2>1
  <2>4. Cardinality(0 .. v - 1) = v
    BY <2>1, <2>3, FS_Interval
  <2> QED
    BY <2>2, <2>4 DEF RankIn
<1>6. ASSUME NEW e \in g.adj PROVE {RankIn(vs, v) : v \in e} = e
  <2>1. e \subseteq V(g)
    BY <1>1, PairsWithin
  <2> QED
    BY <1>5, <2>1
<1>7. {{RankIn(vs, v) : v \in e} : e \in g.adj} = g.adj
  BY <1>6
<1>8. ASSUME NEW v \in 0 .. g.n - 1 PROVE g.vmap[Ascending(vs)[v + 1]] = g.vmap[v]
  <2>1. Ascending(vs)[RankIn(vs, v) + 1] = v
    BY <1>3, <1>4, AscendingFacts
  <2>2. RankIn(vs, v) = v
    BY <1>4, <1>5
  <2> QED
    BY <2>1, <2>2
<1> DEFINE f == [v \in 0 .. g.n - 1 |-> g.vmap[Ascending(vs)[v + 1]]]
<1>9. f = g.vmap
  <2>1. \A v \in 0 .. g.n - 1 : f[v] = g.vmap[v]
    BY <1>8
  <2>2. DOMAIN f = 0 .. g.n - 1 /\ f = [v \in 0 .. g.n - 1 |-> f[v]]
    OBVIOUS
  <2>3. g.vmap = [v \in 0 .. g.n - 1 |-> g.vmap[v]]
    BY <1>1, <1>4
  <2> HIDE DEF f
  <2> QED
    BY <2>1, <2>2, <2>3
<1>10. AtomGraph(g, V(g)) = [n |-> g.n, adj |-> Ranked(vs, g.adj), vmap |-> NumbersOf(g, vs, g.n)]
  <2>1. vs = UNION g.adj /\ g.adj = EdgesInside(g, V(g)) /\ g.n \in Nat /\ g.n = Cardinality(vs)
    BY <1>1, <1>2, <1>4 DEF vs
  <2> QED
    BY <2>1, AtomGraphIs
<1>11. Ranked(vs, g.adj) = g.adj /\ NumbersOf(g, vs, g.n) = g.vmap
  BY <1>7, <1>9 DEF Ranked, NumbersOf
<1> QED
  BY <1>1, <1>10, <1>11

-----------------------------------------------------------------------------
(* Atoms and minimal triangulations. *)

\* A minimal triangulation leaves vertices without an edge alone.
LEMMA FillIsActive ==
  ASSUME NEW g, IsGraph(g), NEW F \in MinimalTriangulations(g), NEW e \in F
  PROVE  e \in NonEdges(g) /\ e \in Pairs(Active(g))
<1>1. e \in NonEdges(g)
  BY DEF MinimalTriangulations, Triangulations
<1>2. PICK u \in V(g), w \in V(g) : u # w /\ e = {u, w}
  BY <1>1, PairsMember DEF NonEdges
<1>3. ASSUME NEW v \in V(g), NEW z \in V(g), v # z, {v, z} \in F PROVE v \in Active(g)
  <2> SUFFICES ASSUME Neighbors(g, v) = {} PROVE FALSE
    BY DEF Active
  <2>1. IsClosed(g, {}, {v})
    <3>1. \A y \in V(g) : ~HasEdge(g, v, y)
      BY EdgeSymmetric DEF Neighbors
    <3> QED
      BY <3>1 DEF IsClosed
  <2>2. {} \in SUBSET V(g) /\ IsClique(Filled(g, F), {}) /\ {v} \in SUBSET V(g) /\ {v} \cap {} = {}
    BY CliquePairs
  <2>3. HasEdge(Filled(g, F), v, z)
    BY <1>3, FilledGraph
  <2>4. z \in {} \cup {v}
    BY <2>1, <2>2, <2>3, NoEdgeAcross
  <2> QED
    BY <1>3, <2>4
<1>4. {w, u} = {u, w}
  OBVIOUS
<1>5. u \in Active(g) /\ w \in Active(g)
  BY <1>2, <1>3, <1>4
<1> QED
  BY <1>1, <1>2, <1>5, PairsMember

\* Two atoms meet in a clique, or both together would have no clique separator.
LEMMA AtomsMeetInClique ==
  ASSUME NEW g, IsGraph(g), NEW A \in AtomsOf(g), NEW B \in AtomsOf(g), A # B
  PROVE  IsClique(g, A \cap B)
<1> SUFFICES ASSUME ~IsClique(g, A \cap B) PROVE FALSE
  OBVIOUS
<1> DEFINE U == A \cup B
<1>1. /\ A \in SUBSET V(g) /\ B \in SUBSET V(g) /\ A # {}
      /\ HasNoCliqueSeparator(g, A) /\ HasNoCliqueSeparator(g, B)
  BY DEF AtomsOf
<1>2. PICK u \in A \cap B, w \in A \cap B : u # w /\ ~HasEdge(g, u, w)
  BY CliquePairs
<1>3. ASSUME NEW T \in {A, B}, NEW K \in SUBSET U, IsClique(g, K),
             NEW z \in (A \cap B) \ K, NEW c \in T \ K
      PROVE  z \in FindComponent(g, (V(g) \ U) \cup K, c)
  <2> DEFINE bl == (V(g) \ T) \cup (K \cap T)
             all == (V(g) \ U) \cup K
  <2>1. T \in SUBSET V(g) /\ HasNoCliqueSeparator(g, T) /\ z \in T /\ T \subseteq U
    BY <1>1
  <2>2. K \cap T \in SUBSET T /\ IsClique(g, K \cap T)
    BY <1>3, CliquePairs
  <2>3. Cardinality(Components(g, bl)) <= 1
    BY <2>1, <2>2 DEF HasNoCliqueSeparator
  <2>4. z \in V(g) \ bl /\ c \in V(g) \ bl /\ all \subseteq bl
    <3>1. U \subseteq V(g)
      BY <1>1
    <3> QED
      BY <2>1, <3>1
  <2> HIDE DEF bl, all, U
  <2>5. FindComponent(g, bl, z) = FindComponent(g, bl, c)
    <3>1. FindComponent(g, bl, z) \in Components(g, bl) /\ FindComponent(g, bl, c) \in Components(g, bl)
      BY <2>4 DEF Components
    <3>2. g.n \in Nat
      BY DEF IsGraph
    <3> QED
      BY <2>3, <3>1, <3>2, FewComponents
  <2>6. z \in FindComponent(g, bl, z)
    BY <2>4, ComponentClosed
  <2>7. FindComponent(g, bl, c) \subseteq FindComponent(g, all, c)
    BY <2>4, ComponentGrows
  <2> QED
    BY <2>5, <2>6, <2>7 DEF all
<1>4. HasNoCliqueSeparator(g, U)
  <2> SUFFICES ASSUME NEW K \in SUBSET U, IsClique(g, K)
               PROVE  Cardinality(Components(g, (V(g) \ U) \cup K)) <= 1
    BY DEF HasNoCliqueSeparator
  <2> DEFINE all == (V(g) \ U) \cup K
  <2>1. PICK z : z \in (A \cap B) \ K
    <3>1. ~(u \in K /\ w \in K)
      BY <1>2, CliquePairs
    <3> QED
      BY <1>2, <3>1
  <2>2. ASSUME NEW C \in Components(g, all) PROVE z \in C
    <3>1. PICK c : c \in C /\ C = FindComponent(g, all, c) /\ c \in V(g) \ all
      BY ComponentsMember
    <3>2. (c \in A \/ c \in B) /\ c \notin K
      BY <3>1
    <3> QED
      BY <1>3, <2>1, <3>1, <3>2
  <2>3. \A C, D \in Components(g, all) : C = D
    <3> SUFFICES ASSUME NEW C \in Components(g, all), NEW D \in Components(g, all) PROVE C = D
      OBVIOUS
    <3>1. z \in C /\ z \in D
      BY <2>2
    <3> QED
      BY <3>1, ComponentsMember
  <2> QED
    BY <2>3, AtMostOne
<1>5. U \in (SUBSET V(g)) \ {{}} /\ A \subseteq U /\ B \subseteq U
  BY <1>1
<1>6. A = U /\ B = U
  BY <1>4, <1>5 DEF AtomsOf
<1> QED
  BY <1>6

\* Every set without a clique separator is in an atom.
LEMMA InSomeAtom ==
  ASSUME NEW g, IsGraph(g), NEW S \in (SUBSET V(g)) \ {{}}, HasNoCliqueSeparator(g, S)
  PROVE  \E A \in AtomsOf(g) : S \subseteq A
<1> DEFINE Cand == {T \in (SUBSET V(g)) \ {{}} : HasNoCliqueSeparator(g, T)}
           Rest == {R \in SUBSET V(g) : \E T \in Cand : S \subseteq T /\ R = V(g) \ T}
<1>1. g.n \in Nat
  BY DEF IsGraph
<1>2. PICK R \in Rest : \A Q \in Rest : Cardinality(R) <= Cardinality(Q)
  <2>1. V(g) \ S \in Rest
    OBVIOUS
  <2>2. Rest \in SUBSET (SUBSET V(g)) /\ Rest # {}
    BY <2>1
  <2> HIDE DEF Rest
  <2> QED
    BY <1>1, <2>2, SmallestSet
<1>3. PICK A \in Cand : S \subseteq A /\ R = V(g) \ A
  OBVIOUS
<1>4. ASSUME NEW T \in Cand, A \subseteq T PROVE A = T
  <2>1. V(g) \ T \in Rest /\ V(g) \ T \in SUBSET R /\ R \in SUBSET V(g)
    BY <1>3, <1>4
  <2>2. Cardinality(R) <= Cardinality(V(g) \ T)
    BY <1>2, <2>1
  <2>3. IsFiniteSet(R) /\ Cardinality(R) \in Nat /\ Cardinality(V(g) \ T) \in Nat
    BY <1>1, <2>1, VerticesFinite
  <2>4. R = V(g) \ T
    <3>1. Cardinality(V(g) \ T) <= Cardinality(R)
      BY <2>1, <2>3, FS_Subset
    <3>2. Cardinality(R) = Cardinality(V(g) \ T)
      BY <2>2, <2>3, <3>1
    <3> QED
      BY <2>1, <2>3, <3>2, FS_Subset
  <2> QED
    BY <1>3, <1>4, <2>4
<1>5. A \in AtomsOf(g)
  BY <1>3, <1>4 DEF AtomsOf
<1> QED
  BY <1>3, <1>5

\* A graph with one atom is that atom.
LEMMA SingleAtom ==
  ASSUME NEW g, IsGraph(g), NEW S, AtomsOf(g) = {S}
  PROVE  S = V(g) /\ HasNoCliqueSeparator(g, V(g))
<1>1. ASSUME NEW v \in V(g) PROVE v \in S
  <2>1. HasNoCliqueSeparator(g, {v})
    <3> SUFFICES ASSUME NEW K \in SUBSET {v}
                 PROVE  Cardinality(Components(g, (V(g) \ {v}) \cup K)) <= 1
      BY DEF HasNoCliqueSeparator
    <3> DEFINE bl == (V(g) \ {v}) \cup K
    <3>1. ASSUME NEW C \in Components(g, bl) PROVE C = FindComponent(g, bl, v)
      BY <3>1, ComponentsMember
    <3> QED
      BY <3>1, AtMostOne
  <2> QED
    BY <2>1, InSomeAtom
<1>2. S \in SUBSET V(g) /\ HasNoCliqueSeparator(g, S)
  BY DEF AtomsOf
<1> QED
  BY <1>1, <1>2

\* No vertex of a graph without clique separators has a clique around it, unless
\* the graph is complete.
LEMMA NoneSimplicial ==
  ASSUME NEW g, IsGraph(g), HasNoCliqueSeparator(g, V(g)), NonEdges(g) # {}, NEW v \in V(g)
  PROVE  ~IsClique(g, Neighbors(g, v)) /\ v \in Active(g)
<1> DEFINE K == Neighbors(g, v)
<1>1. ~IsClique(g, K)
  <2> SUFFICES ASSUME IsClique(g, K) PROVE FALSE
    OBVIOUS
  <2>1. K \in SUBSET V(g) /\ v \notin K /\ (V(g) \ V(g)) \cup K = K /\ g.n \in Nat
    BY NoLoops DEF Neighbors, IsGraph
  <2>2. Cardinality(Components(g, K)) <= 1
    BY <2>1 DEF HasNoCliqueSeparator
  <2>3. FindComponent(g, K, v) \subseteq {v}
    <3>1. {v} \in SUBSET (V(g) \ K)
      BY <2>1
    <3>2. \A y \in V(g) \ K : ~HasEdge(g, v, y)
      BY EdgeSymmetric DEF Neighbors
    <3>3. IsClosed(g, K, {v})
      BY <3>2 DEF IsClosed
    <3> QED
      BY <3>1, <3>3, ComponentClosed
  <2>4. ASSUME NEW w \in V(g) PROVE w = v \/ w \in K
    <3> SUFFICES ASSUME w \notin K PROVE w = v
      OBVIOUS
    <3>1. FindComponent(g, K, v) \in Components(g, K) /\ FindComponent(g, K, w) \in Components(g, K)
      BY <2>1 DEF Components
    <3> HIDE DEF K
    <3>2. FindComponent(g, K, w) = FindComponent(g, K, v)
      BY <2>1, <2>2, <3>1, FewComponents
    <3>3. w \in FindComponent(g, K, w)
      BY ComponentClosed
    <3> QED
      BY <2>3, <3>2, <3>3
  <2>5. ASSUME NEW e \in Pairs(V(g)) PROVE e \in g.adj
    <3>1. PICK u \in V(g), w \in V(g) : u # w /\ e = {u, w}
      BY PairsMember
    <3>2. \A y \in K : HasEdge(g, v, y) /\ HasEdge(g, y, v)
      BY EdgeSymmetric DEF Neighbors
    <3>3. u = v \/ w = v \/ (u \in K /\ w \in K)
      BY <2>4
    <3>4. HasEdge(g, u, w)
      BY <2>4, <3>1, <3>2, <3>3, CliquePairs
    <3> QED
      BY <3>1, <3>4 DEF HasEdge
  <2> QED
    BY <2>5 DEF NonEdges
<1>2. K # {}
  BY <1>1, CliquePairs
<1> QED
  BY <1>1, <1>2 DEF Active

-----------------------------------------------------------------------------
(* The parts that the rules leave. *)

LEMMA InsideEnds ==
  ASSUME NEW n \in Nat, NEW g \in MappedGraphs(n), NEW S \in SUBSET V(g),
         NEW P, P = Back(g, EdgesInside(g, S))
  PROVE  /\ P \subseteq Part(g)
         /\ \A e \in Pairs(UNION P) :
              \E u, w \in S : u # w /\ e = MapBackEdge(g, {u, w}) /\ {u, w} \in Pairs(Active(g))
<1>1. P \subseteq Part(g)
  BY DEF Part, Back, EdgesInside
<1>2. g.adj \subseteq Pairs(V(g))
  BY MappedFacts
<1>3. ASSUME NEW u \in V(g), g.vmap[u] \in UNION P PROVE u \in S
  <2>1. PICK e \in EdgesInside(g, S) : g.vmap[u] \in MapBackEdge(g, e)
    BY <1>3 DEF Back
  <2>2. PICK v \in e : g.vmap[u] = g.vmap[v]
    BY <2>1 DEF MapBackEdge
  <2>3. v \in S
    BY <2>2 DEF EdgesInside
  <2> QED
    BY <2>2, <2>3, MappedFacts
<1>4. ASSUME NEW e \in Pairs(UNION P)
      PROVE  \E u, w \in S : u # w /\ e = MapBackEdge(g, {u, w}) /\ {u, w} \in Pairs(Active(g))
  <2>1. e \in Pairs(UNION Part(g)) /\ e \subseteq UNION P
    <3>1. UNION P \subseteq UNION Part(g)
      BY <1>1
    <3> QED
      BY <3>1, PairsWithin
  <2>2. PICK c \in Pairs(Active(g)) : e = MapBackEdge(g, c)
    BY <2>1, PartFacts
  <2>3. PICK u \in Active(g), w \in Active(g) : u # w /\ c = {u, w}
    BY PairsMember
  <2>4. e = {g.vmap[u], g.vmap[w]}
    BY <2>2, <2>3, MapBackEnds
  <2>5. u \in V(g) /\ w \in V(g)
    BY DEF Active
  <2>6. u \in S /\ w \in S
    BY <1>3, <2>1, <2>4, <2>5
  <2> QED
    BY <2>2, <2>3, <2>6
<1> QED
  BY <1>1, <1>4

\* The part of an atom is within that of its graph.
LEMMA AtomPart ==
  ASSUME NEW n \in Nat, NEW g \in MappedGraphs(n), NEW S \in SUBSET V(g), NEW h, h = AtomGraph(g, S)
  PROVE  Within(Part(h), Part(g)) /\ Part(h) \subseteq Part(g)
<1>1. Part(h) = Back(g, EdgesInside(g, S))
  BY AtomGraphFacts
<1>2. Part(h) \subseteq Part(g)
  BY <1>1, InsideEnds
<1>3. ASSUME NEW e \in Part(g), e \in Pairs(UNION Part(h)) PROVE e \in Part(h)
  <2>1. PICK u \in S, w \in S : u # w /\ e = MapBackEdge(g, {u, w}) /\ {u, w} \in Pairs(Active(g))
    BY <1>1, <1>3, InsideEnds
  <2>2. {u, w} \in Pairs(V(g))
    BY <2>1, PairsMember
  <2>3. {u, w} \in g.adj
    BY <2>1, <2>2, PartFacts
  <2>4. {u, w} \in EdgesInside(g, S)
    BY <2>3 DEF EdgesInside
  <2> QED
    BY <1>1, <2>1, <2>4 DEF Back
<1> QED
  BY <1>2, <1>3 DEF Within

\* The parts of two atoms lie apart.
LEMMA AtomsApart ==
  ASSUME NEW n \in Nat, NEW g \in MappedGraphs(n), NEW A \in AtomsOf(g), NEW B \in AtomsOf(g), A # B
  PROVE  Apart(Part(AtomGraph(g, A)), Part(AtomGraph(g, B)))
<1> DEFINE P == Part(AtomGraph(g, A))
           Q == Part(AtomGraph(g, B))
<1>1. A \in SUBSET V(g) /\ B \in SUBSET V(g)
  BY DEF AtomsOf
<1>2. P = Back(g, EdgesInside(g, A)) /\ Q = Back(g, EdgesInside(g, B))
  BY <1>1, AtomGraphFacts
<1> HIDE DEF P, Q
<1> SUFFICES ASSUME NEW e \in Pairs((UNION P) \cap (UNION Q)) PROVE e \in P /\ e \in Q
  BY DEF Apart, P, Q
<1>3. e \in Pairs(UNION P) /\ e \in Pairs(UNION Q)
  <2>1. (UNION P) \cap (UNION Q) \subseteq UNION P /\ (UNION P) \cap (UNION Q) \subseteq UNION Q
    OBVIOUS
  <2> QED
    BY <2>1, PairsWithin
<1>4. PICK u \in A, w \in A : u # w /\ e = MapBackEdge(g, {u, w}) /\ {u, w} \in Pairs(Active(g))
  BY <1>1, <1>2, <1>3, InsideEnds
<1>5. PICK y \in B, z \in B : y # z /\ e = MapBackEdge(g, {y, z}) /\ {y, z} \in Pairs(Active(g))
  BY <1>1, <1>2, <1>3, InsideEnds
<1>6. {u, w} = {y, z}
  <2>1. {u, w} \in Pairs(V(g)) /\ {y, z} \in Pairs(V(g))
    BY <1>1, <1>4, <1>5, PairsMember
  <2> QED
    BY <1>4, <1>5, <2>1, MappedPair
<1>7. IsClique(g, A \cap B)
  BY AtomsMeetInClique, MappedFacts
<1>8. {u, w} \in g.adj
  <2>1. u \in A \cap B /\ w \in A \cap B
    BY <1>6
  <2> QED
    BY <1>4, <1>7, <2>1, CliquePairs DEF HasEdge
<1>9. {u, w} \in EdgesInside(g, A) /\ {u, w} \in EdgesInside(g, B)
  BY <1>6, <1>8 DEF EdgesInside
<1> QED
  BY <1>2, <1>4, <1>9 DEF Back

\* h is g with other edges, the new ones between vertices that had edges, and
\* those of g that are gone at vertices that have no edge any more.
IsReworked(g, h) ==
  /\ h = [g EXCEPT !.adj = h.adj] /\ h.adj \subseteq Pairs(V(g))
  /\ h.adj \ g.adj \subseteq Pairs(Active(g))
  /\ \A e \in g.adj : e \subseteq Active(h) => e \in h.adj

\* Its part has the new edges D, whose ends it had, and is otherwise within the old one.
ExtendsBy(g, h, D) ==
  /\ Within(Part(h), Part(g)) /\ Part(h) \subseteq Part(g) \cup D
  /\ \A c \in D : c \in Pairs(UNION Part(g)) /\ c \notin Part(g) /\ c \in Part(h)

\* The part of a reworked graph.
LEMMA ReworkedPart ==
  ASSUME NEW n \in Nat, NEW g \in MappedGraphs(n), NEW h, IsReworked(g, h),
         NEW D, D = Back(g, h.adj \ g.adj)
  PROVE  /\ h \in MappedGraphs(n) /\ h.n = g.n /\ V(h) = V(g) /\ Active(h) \subseteq Active(g)
         /\ h.vmap = g.vmap /\ ExtendsBy(g, h, D)
<1> DEFINE N == h.adj \ g.adj
<1>1. /\ h \in MappedGraphs(n) /\ h.n = g.n /\ V(h) = V(g) /\ h.vmap = g.vmap
      /\ \A e : MapBackEdge(h, e) = MapBackEdge(g, e)
  <2> DEFINE A == h.adj
  <2>1. A \in SUBSET Pairs(V(g)) /\ h = [g EXCEPT !.adj = A]
    BY DEF IsReworked
  <2> HIDE DEF A
  <2> QED
    BY <2>1, ChangedEdges
<1>2. g.adj \subseteq Pairs(V(g)) /\ h.adj \subseteq Pairs(V(g)) /\ N \subseteq Pairs(Active(g))
  BY MappedFacts DEF IsReworked
<1>3. ASSUME NEW v \in Active(h) PROVE v \in Active(g)
  <2>1. PICK u \in V(g) : {u, v} \in h.adj
    BY <1>1 DEF Active, Neighbors, HasEdge
  <2>2. v \in V(g)
    BY <1>1 DEF Active
  <2>3. CASE {u, v} \in g.adj
    BY <2>2, <2>3 DEF Active, Neighbors, HasEdge
  <2>4. CASE {u, v} \notin g.adj
    <3>1. {u, v} \in Pairs(Active(g))
      BY <1>2, <2>1, <2>4
    <3> QED
      BY <3>1, PairsWithin
  <2> QED
    BY <2>3, <2>4
<1>4. Part(h) \subseteq Part(g) \cup Back(g, N)
  <2> SUFFICES ASSUME NEW e \in h.adj PROVE MapBackEdge(g, e) \in Part(g) \cup Back(g, N)
    BY <1>1 DEF Part, Back
  <2> QED
    BY DEF Part, Back
<1>5. ASSUME NEW c \in Back(g, N)
      PROVE  c \in Pairs(UNION Part(g)) /\ c \notin Part(g) /\ c \in Part(h)
  <2>1. PICK e \in N : c = MapBackEdge(g, e)
    BY DEF Back
  <2>2. e \in Pairs(Active(g)) /\ e \in Pairs(V(g)) /\ e \notin g.adj /\ e \in h.adj
    BY <1>2
  <2>3. c \in Part(h)
    BY <1>1, <2>1, <2>2 DEF Part, Back
  <2> QED
    BY <2>1, <2>2, <2>3, PartFacts
<1>6. UNION Part(h) \subseteq UNION Part(g)
  <2>1. UNION Part(h) = {h.vmap[v] : v \in Active(h)} /\ UNION Part(g) = {g.vmap[v] : v \in Active(g)}
    BY <1>1, PartFacts
  <2> QED
    BY <1>1, <1>3, <2>1
<1>7. ASSUME NEW c \in Part(g), c \in Pairs(UNION Part(h)) PROVE c \in Part(h)
  <2>1. PICK e \in Pairs(Active(h)) : c = MapBackEdge(h, e)
    BY <1>1, <1>7, PartFacts
  <2>2. e \subseteq Active(h) /\ Active(h) \subseteq V(g) /\ e \in Pairs(V(g))
    <3>1. Active(h) \subseteq V(g)
      BY <1>1 DEF Active
    <3> QED
      BY <3>1, PairsWithin
  <2>3. e \in g.adj
    BY <1>1, <1>7, <2>1, <2>2, PartFacts
  <2>4. e \in h.adj
    BY <2>2, <2>3 DEF IsReworked
  <2> QED
    BY <2>1, <2>4 DEF Part, Back
<1> QED
  BY <1>1, <1>3, <1>4, <1>5, <1>6, <1>7 DEF Within, ExtendsBy

\* Eliminating a vertex.
LEMMA EliminationStep ==
  ASSUME NEW n \in Nat, NEW g \in MappedGraphs(n), NEW x \in V(g), NEW h, h = AfterElimination(g, x)
  PROVE  /\ IsReworked(g, h) /\ h.adj \ g.adj = Pairs(Neighbors(g, x)) \ g.adj
         /\ x \notin Active(h) /\ (x \notin Active(g) => h = g)
<1> DEFINE A == (g.adj \ EdgesAt(g, x)) \cup Pairs(Neighbors(g, x))
<1>1. IsGraph(g) /\ g.adj \subseteq Pairs(V(g)) /\ g = [n |-> g.n, adj |-> g.adj, vmap |-> g.vmap]
  BY MappedFacts
<1>2. h = [g EXCEPT !.adj = A] /\ h.adj = A
  BY <1>1 DEF AfterElimination, WithoutEdges
<1>3. V(h) = V(g)
  BY <1>1, <1>2 DEF V
<1>4. Neighbors(g, x) \subseteq Active(g) /\ x \notin Neighbors(g, x) /\ Active(g) \subseteq V(g)
  <2>1. ASSUME NEW u \in Neighbors(g, x) PROVE u \in Active(g)
    <3>1. HasEdge(g, x, u) /\ u \in V(g)
      BY EdgeSymmetric DEF Neighbors
    <3> QED
      BY <3>1 DEF Active, Neighbors
  <2> QED
    BY <1>1, <2>1, NoLoops DEF Neighbors, Active
<1>5. Pairs(Neighbors(g, x)) \subseteq Pairs(Active(g)) /\ Pairs(Active(g)) \subseteq Pairs(V(g))
  BY <1>4, PairsWithin
<1>6. x \notin Active(h)
  <2> SUFFICES ASSUME NEW u \in V(h), {u, x} \in A PROVE FALSE
    BY <1>2 DEF Active, Neighbors, HasEdge
  <2>1. {u, x} \in Pairs(Neighbors(g, x))
    BY DEF EdgesAt
  <2> QED
    BY <1>4, <2>1, PairsWithin
<1>7. ASSUME NEW e \in g.adj, e \subseteq Active(h) PROVE e \in A
  BY <1>6, <1>7 DEF EdgesAt
<1>8. IsReworked(g, h)
  <2>1. A \subseteq Pairs(V(g)) /\ A \ g.adj \subseteq Pairs(Active(g))
    BY <1>1, <1>5
  <2> HIDE DEF A
  <2> QED
    BY <1>2, <1>7, <2>1 DEF IsReworked
<1>9. ASSUME x \notin Active(g) PROVE h = g
  <2>1. Neighbors(g, x) = {}
    BY <1>9 DEF Active
  <2>2. Pairs(Neighbors(g, x)) = {}
    BY <2>1, PairsMember
  <2>3. EdgesAt(g, x) = {}
    <3> SUFFICES ASSUME NEW e \in g.adj, x \in e PROVE FALSE
      BY DEF EdgesAt
    <3>1. PICK u \in V(g), w \in V(g) : u # w /\ e = {u, w}
      BY <1>1, PairsMember
    <3>2. e = {u, x} \/ e = {w, x}
      BY <3>1
    <3> QED
      BY <2>1, <3>2 DEF Neighbors, HasEdge
  <2>4. A = g.adj
    BY <2>2, <2>3
  <2> QED
    BY <1>1, <1>2, <2>4
<1>10. A \ g.adj = Pairs(Neighbors(g, x)) \ g.adj
  OBVIOUS
<1> QED
  BY <1>2, <1>6, <1>8, <1>9, <1>10

\* Adding edges between neighbours of a vertex.
LEMMA AddingStep ==
  ASSUME NEW n \in Nat, NEW g \in MappedGraphs(n), NEW N \in SUBSET NonEdges(g),
         N \subseteq Pairs(Active(g)), NEW h, h = Filled(g, N)
  PROVE  /\ IsReworked(g, h) /\ h.adj \ g.adj = N /\ Active(h) = Active(g)
         /\ (N = {} => h = g)
<1>1. IsGraph(g) /\ g.adj \subseteq Pairs(V(g)) /\ g = [n |-> g.n, adj |-> g.adj, vmap |-> g.vmap]
  BY MappedFacts
<1>2. h = [g EXCEPT !.adj = g.adj \cup N] /\ h.adj = g.adj \cup N
  BY <1>1 DEF Filled
<1>3. N \subseteq Pairs(V(g)) /\ h.adj \ g.adj = N
  BY <1>2 DEF NonEdges
<1>4. IsReworked(g, h)
  BY <1>1, <1>2, <1>3 DEF IsReworked
<1>5. Active(h) \subseteq Active(g) /\ V(h) = V(g)
  BY <1>3, <1>4, ReworkedPart
<1>6. Active(g) \subseteq Active(h)
  BY <1>2, <1>5 DEF Active, Neighbors, HasEdge
<1>7. N = {} => h = g
  BY <1>1, <1>2
<1> QED
  BY <1>3, <1>4, <1>5, <1>6, <1>7

-----------------------------------------------------------------------------
(* Bags with each element once. *)

OneEach(bag) == bag = [e \in DOMAIN bag |-> 1]

\* What is new to a bag is added to it once.
LEMMA AddedOnce ==
  ASSUME NEW bag, OneEach(bag), NEW D, D \cap DOMAIN bag = {}
  PROVE  /\ OneEach(bag (+) SetToBag(D)) /\ DOMAIN (bag (+) SetToBag(D)) = DOMAIN bag \cup D
<1> DEFINE U == (DOMAIN bag) \cup D
           sum == bag (+) SetToBag(D)
           once == SetToBag(D)
           C(e) == (IF e \in DOMAIN bag THEN bag[e] ELSE 0) + (IF e \in DOMAIN once THEN once[e] ELSE 0)
<1>1. DOMAIN once = D /\ \A e \in D : once[e] = 1
  BY DEF SetToBag
<1>2. sum = [e \in U |-> C(e)]
  BY <1>1 DEF (+)
<1> HIDE DEF once
<1>3. ASSUME NEW e \in U PROVE C(e) = 1
  <2>1. e \in DOMAIN bag => bag[e] = 1
    BY DEF OneEach
  <2> QED
    BY <1>1, <2>1
<1> HIDE DEF C, U
<1>4. DOMAIN sum = U /\ \A e \in U : sum[e] = 1
  BY <1>2, <1>3
<1>5. sum = [e \in DOMAIN sum |-> 1]
  <2>1. sum = [e \in U |-> sum[e]]
    BY <1>2
  <2> HIDE DEF sum
  <2> QED
    BY <1>4, <2>1
<1> HIDE DEF sum
<1> QED
  BY <1>4, <1>5 DEF OneEach, sum, U

\* Such a bag is one.
LEMMA OneEachMakes ==
  ASSUME NEW bag, OneEach(bag)
  PROVE  /\ IsABag(bag) /\ BagToSet(bag) = DOMAIN bag /\ \A e \in DOMAIN bag : bag[e] = 1
<1>1. \A e \in DOMAIN bag : bag[e] = 1
  BY DEF OneEach
<1>2. bag \in [DOMAIN bag -> {n \in Nat : n > 0}]
  BY <1>1 DEF OneEach
<1> QED
  BY <1>1, <1>2 DEF IsABag, BagToSet


\* The fill of several instances, mapped back.
BackOf(ins, fill, i) == Back(ins[i].graph, fill[i])

\* It is in the bag once if the instances lie apart.
LEMMA FillAddedOnce ==
  ASSUME NEW bag, OneEach(bag), NEW I, NEW fill,
         \A i \in I : BackOf(instances, fill, i) \cap DOMAIN bag = {},
         \A i, j \in I : i # j => BackOf(instances, fill, i) \cap BackOf(instances, fill, j) = {}
  PROVE  /\ OneEach(WithFill(bag, I, fill))
         /\ DOMAIN WithFill(bag, I, fill) = DOMAIN bag \cup UNION {BackOf(instances, fill, i) : i \in I}
<1> DEFINE B(i) == BackOf(instances, fill, i)
           W == UNION {B(i) : i \in I}
           M == [e \in W |-> Cardinality({i \in I : e \in B(i)})]
<1>1. ASSUME NEW i PROVE BagToSet(MapBack(instances[i].graph, fill[i])) = B(i)
  BY DEF BackOf, Back, MapBack, BagToSet, SetToBag
<1>2. WithFill(bag, I, fill) = bag (+) M
  BY <1>1 DEF WithFill
<1> HIDE DEF B
<1>3. ASSUME NEW e \in W PROVE Cardinality({i \in I : e \in B(i)}) = 1
  <2>1. PICK j \in I : e \in B(j)
    OBVIOUS
  <2>2. \A i \in I : e \in B(i) => i = j
    BY <2>1 DEF B
  <2>3. {i \in I : e \in B(i)} = {j}
    BY <2>1, <2>2
  <2> QED
    BY <2>3, FS_Singleton
<1>4. M = SetToBag(W)
  BY <1>3 DEF SetToBag
<1>5. W \cap DOMAIN bag = {}
  BY DEF B
<1> HIDE DEF W, M
<1>6. OneEach(bag (+) SetToBag(W)) /\ DOMAIN (bag (+) SetToBag(W)) = DOMAIN bag \cup W
  BY <1>5, AddedOnce
<1> QED
  BY <1>2, <1>4, <1>6 DEF W, B

-----------------------------------------------------------------------------
(* Bounds. *)

\* The width along an elimination is less than the number of vertices.
LEMMA WidthInRange ==
  ASSUME NEW g, IsGraph(g)
  PROVE  ChordalWidth(g) \in 0 .. g.n
<1>1. g.n \in Nat
  BY DEF IsGraph
<1>2. PICK f : AreEliminationStages(g, f) /\ SimplicialElimination(g) = f[g.n]
  BY EliminationStages
<1> DEFINE Bad == {j \in 0 .. g.n : ~(f[j].width \in 0 .. g.n)}
<1>3. Bad = {}
  <2> SUFFICES ASSUME Bad # {} PROVE FALSE
    OBVIOUS
  <2>1. PICK j \in Bad : \A l \in Bad : j <= l
    <3>1. Bad \in SUBSET Nat
      OBVIOUS
    <3> HIDE DEF Bad
    <3> QED
      BY <3>1, LeastElement
  <2>2. f[0].width = 0
    BY <1>2 DEF AreEliminationStages
  <2>3. j # 0 /\ j \in 0 .. g.n
    BY <1>1, <2>2
  <2>4. /\ j \in 1 .. g.n /\ j - 1 \in 0 .. g.n /\ ~(j <= j - 1)
        /\ f[j].width \in Nat /\ f[j - 1].width \in Nat
        /\ \/ f[j] = f[j - 1]
           \/ \E v : Removes(g, f[j - 1], f[j], v)
    BY <1>2, <2>3, StageFacts
  <2>5. f[j - 1].width \in 0 .. g.n
    BY <2>1, <2>4
  <2>6. ASSUME NEW v, Removes(g, f[j - 1], f[j], v) PROVE f[j].width \in 0 .. g.n
    <3> DEFINE A == Neighbors(g, v) \cap f[j - 1].left
    <3>1. f[j].width = f[j - 1].width \/ f[j].width = Cardinality(A)
      BY <2>6 DEF Removes
    <3>2. A \in SUBSET V(g)
      BY DEF Neighbors
    <3>3. Cardinality(A) \in 0 .. g.n
      BY <1>1, <3>2, VerticesFinite
    <3> QED
      BY <2>5, <3>1, <3>3
  <2>7. f[j].width \in 0 .. g.n
    BY <2>4, <2>5, <2>6
  <2> QED
    BY <2>1, <2>7
<1>4. f[g.n].width \in 0 .. g.n
  BY <1>1, <1>3
<1> QED
  BY <1>2, <1>4 DEF ChordalWidth

\* The least number of a set is in it.
LEMMA LeastIs ==
  ASSUME NEW S \in SUBSET Nat, S # {}
  PROVE  MinOf(S) \in S
<1>1. \E m \in S : \A l \in S : m <= l
  BY LeastElement
<1> QED
  BY <1>1 DEF MinOf

\* The least degree is one.
LEMMA DegreeInRange ==
  ASSUME NEW g, IsGraph(g), g.n >= 1
  PROVE  MinDegree(g) \in 0 .. g.n
<1>1. g.n \in Nat
  BY DEF IsGraph
<1> DEFINE S == {g.n - 1} \cup {Degree(g, v) : v \in V(g)}
<1>2. S \in SUBSET (0 .. g.n) /\ S # {}
  <2>1. ASSUME NEW v \in V(g) PROVE Degree(g, v) \in 0 .. g.n
    <3>1. Neighbors(g, v) \in SUBSET V(g)
      BY DEF Neighbors
    <3> QED
      BY <1>1, <3>1, VerticesFinite DEF Degree
  <2>2. g.n - 1 \in 0 .. g.n
    BY <1>1
  <2> QED
    BY <2>1, <2>2
<1>3. S \in SUBSET Nat
  BY <1>1, <1>2
<1> HIDE DEF S
<1>4. MinOf(S) \in S
  BY <1>2, <1>3, LeastIs
<1> QED
  BY <1>2, <1>4 DEF MinDegree, S

\* The cliques that a round returns are sets of vertices.
LEMMA CliquesAreSets ==
  ASSUME NEW g, NEW s, NEW X
  PROVE  /\ X \in PmcsWithSize(g, s) => X \subseteq V(g)
         /\ X \in TreewidthPmcs(g, s) => X \subseteq V(g)
BY DEF PmcsWithSize, TreewidthPmcs

\* What BtAlgorithm adds are pairs of vertices that are not edges yet.
LEMMA SolutionFits ==
  ASSUME NEW g, NEW P, \A X \in P : X \subseteq V(g), NEW sol \in BtSolve(g, P)
  PROVE  sol.fill \in SUBSET NonEdges(g)
<1> DEFINE Fills == SUBSET ((UNION {Pairs(X) : X \in P}) \ g.adj)
           All == {[fill |-> F, by |-> SimplicialElimination(Filled(g, F))] : F \in Fills}
<1>1. \E t \in All : sol.fill = t.fill
  BY DEF BtSolve
<1>2. PICK F \in Fills : sol.fill = F
  BY <1>1
<1>3. ASSUME NEW X \in P, NEW e \in Pairs(X) PROVE e \in Pairs(V(g))
  BY PairsWithin
<1> QED
  BY <1>2, <1>3 DEF NonEdges

-----------------------------------------------------------------------------
(* The invariant. *)

\* The parts at hand: the graphs W that are not done, then the instances I.
LayoutOf(W, I) ==
  [j \in 1 .. Len(W) + Len(I) |-> Part(IF j <= Len(W) THEN W[j] ELSE I[j - Len(W)].graph)]

\* The edges of the parts are among R, but for what the reduced graph has of H.
Explained(P, I, C, R, H) ==
  /\ \A i \in DOMAIN P : Part(P[i]) \subseteq R
  /\ \A i \in DOMAIN I : Part(I[i].graph) \subseteq R
  /\ \A i \in DOMAIN C : Part(C[i]) \subseteq R \cup H

Instances(n) == [graph : MappedGraphs(n), upper_bound : Int, fill : SUBSET (SUBSET Nat)]

\* The graph in Preprocess2, if there is one.
Reduced == IF pc = "degree2" THEN <<instance.graph>> ELSE <<>>

\* The edges of the original graph that are accounted for, and the fill of
\* GreedyDegree2, which is not yet.
Recorded == orig_graph.adj \cup BagToSet(fill_edges)
Held == IF pc = "degree2" THEN Back(instance.graph, fill_d2) ELSE {}

GraphsInv ==
  /\ \E i \in Inputs : orig_graph = WithMap(i[1]) /\ pp = i[2]
  /\ pending \in Seq(MappedGraphs(orig_graph.n))
  /\ instances \in Seq(Instances(orig_graph.n))
  /\ pc = "degree2" => instance \in Instances(orig_graph.n)
  /\ d2 \in Seq(V(instance.graph)) /\ fill_d2 \subseteq Pairs(V(instance.graph))

PhaseInv ==
  /\ pc \in {"preprocess", "preprocess1", "degree2", "solve", "map_back", "done"}
  /\ pc = "preprocess" => pending = <<>> /\ instances = <<>> /\ fill_edges = EmptyBag
  /\ pc \in {"solve", "map_back", "done"} => pending = <<>>
  /\ pc \notin {"solve", "map_back", "done"} =>
       solved = 0 /\ k = 0 /\ apmcs = {} /\ solutions = <<>>
  /\ pc = "map_back" => solved = Len(instances)
  /\ ~pp => pending = <<>> /\ pc # "degree2"

BagInv == OneEach(fill_edges) /\ DOMAIN fill_edges \subseteq NonEdges(orig_graph)

\* The parts lie apart, and their edges are those of the original graph and the fill.
LayoutInv ==
  /\ Held \cap Recorded = {}
  /\ pc # "done" =>
       /\ Laid(LayoutOf(Reduced \o pending, instances), Recorded \cup Held)
       /\ Explained(pending, instances, Reduced, Recorded, Held)

\* A reduced graph has lost a vertex, or is as Preprocess1 left it.
ReducedInv ==
  pc = "degree2" =>
    LET g == instance.graph
    IN  IF fill_d2 # {} THEN Active(g) # V(g)
        ELSE /\ Active(g) = V(g) /\ instance.fill \subseteq NonEdges(g)
             /\ \A v \in V(g) : ~IsClique(g, Neighbors(g, v))

\* The only instance is the graph itself, which is not preprocessed.
AsRead ==
  /\ ~pp /\ fill_edges = EmptyBag /\ Len(instances) <= 1
  /\ \A i \in 1 .. Len(instances) : instances[i].graph = orig_graph /\ instances[i].fill = {}

InstancesInv ==
  pc # "done" =>
    /\ \A i \in 1 .. Len(instances) : instances[i].fill \subseteq NonEdges(instances[i].graph)
    /\ AsRead \/ \A i \in 1 .. Len(instances) :
                   Active(instances[i].graph) = V(instances[i].graph)

SolutionsInv ==
  /\ solutions \in Seq(SUBSET (SUBSET Nat))
  /\ solved \in 0 .. Len(instances) /\ Len(solutions) <= solved
  /\ Len(solutions) = solved =>
       \A i \in 1 .. Len(solutions) : solutions[i] \subseteq NonEdges(instances[i].graph)
  /\ Solving => \A X \in apmcs : X \subseteq V(Current)

BoundsInv ==
  /\ lower_bound \in 0 .. orig_graph.n /\ treewidth \in -1 .. orig_graph.n
  /\ k \in 0 .. orig_graph.n
  /\ aborted \in BOOLEAN /\ method \in Methods \cup {""} /\ clingo_failed \in BOOLEAN

TInv == /\ GraphsInv /\ PhaseInv /\ BagInv /\ LayoutInv /\ ReducedInv
        /\ InstancesInv /\ SolutionsInv /\ BoundsInv

-----------------------------------------------------------------------------
(* Facts about the invariant's parts. *)

\* The graph that was read is one of its own size, with its vertices' own numbers.
LEMMA OriginalFacts ==
  ASSUME GraphsInv
  PROVE  /\ orig_graph.n \in Nat /\ orig_graph.n # 1 /\ orig_graph \in MappedGraphs(orig_graph.n)
         /\ V(orig_graph) = 0 .. orig_graph.n - 1 /\ Part(orig_graph) = orig_graph.adj
         /\ orig_graph.adj \subseteq Pairs(V(orig_graph)) /\ pp \in BOOLEAN
<1>1. PICK i \in Inputs : orig_graph = WithMap(i[1]) /\ pp = i[2]
  BY DEF GraphsInv
<1> DEFINE g == i[1]
<1>2. IsGraph(g) /\ g.n # 1 /\ pp \in BOOLEAN
  BY <1>1, InputsAssumption
<1> HIDE DEF g
<1>3. orig_graph = [n |-> g.n, adj |-> g.adj, vmap |-> Identity(g.n)]
  BY <1>1 DEF WithMap, g
<1>4. g.n \in Nat /\ g.adj \in SUBSET Pairs(0 .. g.n - 1) /\ V(orig_graph) = 0 .. g.n - 1
  BY <1>2, <1>3 DEF IsGraph, V
<1>5. /\ Identity(g.n) \in [0 .. g.n - 1 -> 0 .. g.n - 1]
      /\ \A v \in 0 .. g.n - 1 : Identity(g.n)[v] = v
  BY DEF Identity
<1>6. orig_graph \in MappedGraphs(g.n)
  BY <1>3, <1>4, <1>5, MakeMapped
<1>7. ASSUME NEW e \in orig_graph.adj PROVE MapBackEdge(orig_graph, e) = e
  <2>1. e \in Pairs(0 .. g.n - 1)
    BY <1>3, <1>4
  <2>2. e \subseteq 0 .. g.n - 1
    BY <2>1, PairsWithin
  <2>3. \A v \in e : orig_graph.vmap[v] = v
    BY <1>3, <1>5, <2>2
  <2> QED
    BY <2>3 DEF MapBackEdge
<1>8. Part(orig_graph) = orig_graph.adj
  BY <1>7 DEF Part, Back
<1> QED
  BY <1>2, <1>3, <1>4, <1>6, <1>8

\* The graphs at hand are renumbered parts of the original one.
LEMMA GraphsFacts ==
  ASSUME GraphsInv
  PROVE  LET n == orig_graph.n
         IN  /\ \A i \in DOMAIN pending : pending[i] \in MappedGraphs(n)
             /\ \A i \in DOMAIN instances : instances[i].graph \in MappedGraphs(n)
             /\ pc = "degree2" => instance.graph \in MappedGraphs(n) /\ instance.upper_bound \in Int
                                  /\ instance.fill \in SUBSET (SUBSET Nat)
             /\ Len(pending) \in Nat /\ DOMAIN pending = 1 .. Len(pending)
             /\ Len(instances) \in Nat /\ DOMAIN instances = 1 .. Len(instances)
<1> DEFINE n == orig_graph.n
<1>1. pending \in Seq(MappedGraphs(n)) /\ instances \in Seq(Instances(n))
  BY DEF GraphsInv
<1>2. /\ Len(pending) \in Nat /\ DOMAIN pending = 1 .. Len(pending)
      /\ Len(instances) \in Nat /\ DOMAIN instances = 1 .. Len(instances)
      /\ \A i \in DOMAIN pending : pending[i] \in MappedGraphs(n)
      /\ \A i \in DOMAIN instances : instances[i] \in Instances(n)
  BY <1>1
<1>3. \A r \in Instances(n) : r.graph \in MappedGraphs(n) /\ r.upper_bound \in Int
                              /\ r.fill \in SUBSET (SUBSET Nat)
  BY DEF Instances
<1>4. pc = "degree2" => instance \in Instances(n)
  BY DEF GraphsInv
<1> QED
  BY <1>2, <1>3, <1>4

\* Fill for the graph at a place is new to all that is recorded.
LEMMA NewFill ==
  ASSUME GraphsInv, NEW G, NEW B, Laid(G, B),
         orig_graph.adj \subseteq B,
         NEW p \in DOMAIN G, NEW g \in MappedGraphs(orig_graph.n), G[p] = Part(g),
         NEW F \in SUBSET NonEdges(g), F \subseteq Pairs(Active(g)), NEW c \in Back(g, F)
  PROVE  /\ c \in Pairs(UNION G[p]) /\ c \notin G[p] /\ c \notin B /\ c \in NonEdges(orig_graph)
<1>1. orig_graph.n \in Nat
  BY OriginalFacts
<1>2. PICK e \in F : c = MapBackEdge(g, e)
  BY DEF Back
<1>3. e \in Pairs(Active(g)) /\ e \in Pairs(V(g)) /\ e \notin g.adj
  BY DEF NonEdges
<1>4. c \in Pairs(UNION G[p]) /\ c \notin G[p]
  BY <1>1, <1>2, <1>3, PartFacts
<1>5. c \notin B
  BY <1>4 DEF Laid
<1>6. c \in Pairs(V(orig_graph))
  BY <1>1, <1>2, <1>3, MappedPair, OriginalFacts
<1> QED
  BY <1>4, <1>5, <1>6 DEF NonEdges

\* New fill is recorded.
LEMMA FillIsRecorded ==
  ASSUME BagInv, NEW D \in SUBSET NonEdges(orig_graph), D \cap Recorded = {},
         fill_edges' = fill_edges (+) SetToBag(D), orig_graph' = orig_graph
  PROVE  BagInv' /\ Recorded' = Recorded \cup D
<1>1. D \cap DOMAIN fill_edges = {}
  BY DEF Recorded, BagToSet
<1>2. OneEach(fill_edges') /\ DOMAIN (fill_edges') = DOMAIN fill_edges \cup D
  BY <1>1, AddedOnce DEF BagInv
<1> QED
  BY <1>2 DEF BagInv, Recorded, BagToSet

-----------------------------------------------------------------------------
(* Layouts before and after a step. *)

\* G are the parts of w graphs and of l instances.
IsLayout(G, W, w, I, l) ==
  /\ DOMAIN G = 1 .. w + l
  /\ \A j \in 1 .. w : j \in DOMAIN G /\ G[j] = Part(W[j])
  /\ \A j \in 1 .. l : w + j \in DOMAIN G /\ G[w + j] = Part(I[j].graph)

\* The parts of a layout, one after the other.
LEMMA LayoutFacts ==
  ASSUME NEW W, NEW I, NEW w \in Nat, w = Len(W), NEW l \in Nat, l = Len(I),
         NEW G, G = LayoutOf(W, I)
  PROVE  IsLayout(G, W, w, I, l)
<1> DEFINE At(j) == Part(IF j <= w THEN W[j] ELSE I[j - w].graph)
<1>1. DOMAIN G = 1 .. w + l /\ \A j \in 1 .. w + l : G[j] = At(j)
  BY DEF LayoutOf
<1>2. ASSUME NEW j \in 1 .. w PROVE j \in DOMAIN G /\ G[j] = Part(W[j])
  <2>1. j \in 1 .. w + l /\ j <= w
    OBVIOUS
  <2> QED
    BY <1>1, <2>1
<1>3. ASSUME NEW j \in 1 .. l
      PROVE  w + j \in DOMAIN G /\ G[w + j] = Part(I[j].graph)
  <2>1. w + j \in 1 .. w + l /\ ~(w + j <= w) /\ (w + j) - w = j
    OBVIOUS
  <2>2. At(w + j) = Part(I[j].graph)
    BY <2>1
  <2> HIDE DEF At
  <2> QED
    BY <1>1, <2>1, <2>2
<1> QED
  BY <1>1, <1>2, <1>3 DEF IsLayout

\* The tail of a sequence.
LEMMA TailFacts ==
  ASSUME NEW S, NEW P \in Seq(S), P # <<>>
  PROVE  /\ Tail(P) \in Seq(S) /\ Len(Tail(P)) = Len(P) - 1 /\ Len(P) \in Nat /\ Len(P) >= 1
         /\ \A i \in 1 .. Len(P) - 1 : i + 1 \in 1 .. Len(P) /\ Tail(P)[i] = P[i + 1]
         /\ 1 \in 1 .. Len(P) /\ Head(P) = P[1] /\ P[1] \in S /\ DOMAIN P = 1 .. Len(P)
         /\ <<P[1]>> \o Tail(P) = P
  OBVIOUS

\* Two sequences joined.
LEMMA JoinFacts ==
  ASSUME NEW S, NEW A \in Seq(S), NEW T \in Seq(S)
  PROVE  /\ A \o T \in Seq(S) /\ Len(A \o T) = Len(A) + Len(T) /\ Len(A) \in Nat /\ Len(T) \in Nat
         /\ \A i \in 1 .. Len(A) : (A \o T)[i] = A[i]
         /\ \A i \in 1 .. Len(T) : (A \o T)[Len(A) + i] = T[i]
         /\ DOMAIN A = 1 .. Len(A) /\ DOMAIN T = 1 .. Len(T)
  OBVIOUS

\* The first graph is replaced by parts of it that lie apart, N is new in it and in
\* those that have the ends.
LEMMA ReplaceFirst ==
  ASSUME NEW S, NEW W \in Seq(S), W # <<>>, NEW I, Len(I) \in Nat, NEW B, Laid(LayoutOf(W, I), B),
         NEW A \in Seq(S), \A i \in 1 .. Len(A) : Within(Part(A[i]), Part(W[1])),
         \A i, j \in 1 .. Len(A) : i # j => Apart(Part(A[i]), Part(A[j])),
         NEW N, \A e \in N : /\ e \in Pairs(UNION Part(W[1])) /\ e \notin Part(W[1])
                             /\ \A i \in 1 .. Len(A) : e \in Part(A[i]),
         NEW W1, W1 = A \o Tail(W)
  PROVE  Laid(LayoutOf(W1, I), B \cup N)
<1> DEFINE a == Len(A)
           w == Len(W)
           G == LayoutOf(W, I)
           G1 == LayoutOf(W1, I)
           m == [j \in DOMAIN G1 |-> IF j <= a THEN 1 ELSE (j - a) + 1]
<1>1. /\ Tail(W) \in Seq(S) /\ Len(Tail(W)) = w - 1 /\ w \in Nat /\ w >= 1
      /\ \A i \in 1 .. w - 1 : i + 1 \in 1 .. w /\ Tail(W)[i] = W[i + 1]
  BY TailFacts
<1>2. /\ Len(W1) = a + (w - 1) /\ a \in Nat
      /\ \A i \in 1 .. a : W1[i] = A[i]
      /\ \A i \in 1 .. w - 1 : W1[a + i] = W[i + 1]
  BY <1>1, JoinFacts
<1> HIDE DEF a, w
<1>3. Len(W1) \in Nat /\ Len(W) = w /\ Len(A) = a /\ a + (w - 1) \in Nat
  BY <1>1, <1>2 DEF w, a
<1>0. G = LayoutOf(W, I) /\ G1 = LayoutOf(W1, I)
  OBVIOUS
<1>11. Laid(G, B)
  OBVIOUS
<1> HIDE DEF G, G1
<1>4. /\ \A j \in 1 .. w : j \in DOMAIN G /\ G[j] = Part(W[j])
      /\ \A j \in 1 .. Len(I) : w + j \in DOMAIN G /\ G[w + j] = Part(I[j].graph)
  <2>1. w \in Nat /\ w = Len(W) /\ Len(I) \in Nat /\ G = LayoutOf(W, I)
    BY <1>0, <1>1, <1>3
  <2>2. IsLayout(G, W, w, I, Len(I))
    BY <2>1, LayoutFacts
  <2> QED
    BY <2>2 DEF IsLayout
<1>5. /\ DOMAIN G1 = 1 .. (a + (w - 1)) + Len(I)
      /\ \A j \in 1 .. a + (w - 1) : G1[j] = Part(W1[j])
      /\ \A j \in 1 .. Len(I) : G1[(a + (w - 1)) + j] = Part(I[j].graph)
  <2> DEFINE b == a + (w - 1)
  <2>1. b \in Nat /\ b = Len(W1) /\ Len(I) \in Nat /\ G1 = LayoutOf(W1, I)
    BY <1>0, <1>2, <1>3
  <2> HIDE DEF b
  <2>2. IsLayout(G1, W1, b, I, Len(I))
    BY <2>1, LayoutFacts
  <2> QED
    BY <2>2 DEF IsLayout, b
<1>13. ASSUME NEW j \in DOMAIN G1
       PROVE  j \in Int /\ 1 <= j /\ j <= (a + (w - 1)) + Len(I) /\ m[j] = (IF j <= a THEN 1 ELSE (j - a) + 1)
  BY <1>3, <1>5
<1> HIDE DEF m
<1>6. 1 \in DOMAIN G /\ G[1] = Part(W[1])
  BY <1>1, <1>4
<1>7. ASSUME NEW j \in DOMAIN G1, j <= a
      PROVE  m[j] = 1 /\ j \in 1 .. a /\ G1[j] = Part(A[j])
  <2>1. j \in 1 .. a
    BY <1>2, <1>7, <1>13
  <2>2. j \in 1 .. a + (w - 1)
    BY <1>1, <1>2, <2>1
  <2> QED
    BY <1>2, <1>5, <1>7, <1>13, <2>1, <2>2
<1>8. ASSUME NEW j \in DOMAIN G1, ~(j <= a)
      PROVE  m[j] = (j - a) + 1 /\ m[j] # 1 /\ j \in Nat /\ m[j] \in DOMAIN G /\ G1[j] = G[m[j]]
  <2>0. /\ j \in Int /\ 1 <= j /\ j <= (a + (w - 1)) + Len(I) /\ ~(j <= a) /\ m[j] = (j - a) + 1
        /\ a \in Nat /\ w \in Nat /\ w >= 1 /\ Len(I) \in Nat
    BY <1>1, <1>2, <1>8, <1>13
  <2>1. m[j] = (j - a) + 1 /\ j \in Nat /\ m[j] # 1
    BY <2>0
  <2>2. CASE j <= a + (w - 1)
    <3>1. j - a \in 1 .. w - 1
      BY <2>0, <2>2
    <3>4. (j - a) + 1 \in 1 .. w
      BY <2>0, <2>2
    <3>5. a + (j - a) = j /\ j \in 1 .. a + (w - 1)
      BY <2>0, <2>2
    <3>6. W1[a + (j - a)] = W[(j - a) + 1]
      BY <1>2, <3>1
    <3>2. G1[j] = Part(W1[j]) /\ W1[j] = W[(j - a) + 1]
      BY <1>5, <3>5, <3>6
    <3> QED
      BY <1>4, <2>1, <3>4, <3>2
  <2>3. CASE ~(j <= a + (w - 1))
    <3> DEFINE l == j - (a + (w - 1))
    <3>1. l \in 1 .. Len(I)
      BY <2>0, <2>3
    <3>3. (a + (w - 1)) + l = j /\ w + l = (j - a) + 1
      BY <2>0
    <3> HIDE DEF l
    <3>4. G1[(a + (w - 1)) + l] = Part(I[l].graph)
      BY <1>5, <3>1
    <3>2. G1[j] = Part(I[l].graph) /\ G[w + l] = Part(I[l].graph) /\ w + l \in DOMAIN G
      BY <1>4, <3>1, <3>3, <3>4
    <3> QED
      BY <2>1, <3>3, <3>2
  <2> QED
    BY <2>2, <2>3
<1>9. ComesFrom(G, G1, m)
  <2>1. ASSUME NEW j \in DOMAIN G1 PROVE m[j] \in DOMAIN G /\ Within(G1[j], G[m[j]])
    <3>1. CASE j <= a
      <4>1. Within(Part(A[j]), Part(W[1]))
        BY <1>3, <1>7, <3>1
      <4> QED
        BY <1>6, <1>7, <3>1, <4>1
    <3>2. CASE ~(j <= a)
      BY <1>8, <3>2, WithinItself
    <3> QED
      BY <3>1, <3>2
  <2>2. ASSUME NEW i \in DOMAIN G1, NEW j \in DOMAIN G1, i # j, m[i] = m[j]
        PROVE  Apart(G1[i], G1[j])
    <3>1. CASE i <= a
      <4>1. j <= a
        BY <1>7, <1>8, <2>2, <3>1
      <4> QED
        BY <1>3, <1>7, <2>2, <3>1, <4>1
    <3>2. CASE ~(i <= a)
      <4>1. ~(j <= a)
        BY <1>7, <1>8, <2>2, <3>2
      <4>2. (i - a) + 1 = (j - a) + 1 /\ i \in Nat /\ j \in Nat
        BY <1>8, <2>2, <3>2, <4>1
      <4>3. i = j
        BY <1>2, <4>2
      <4> QED
        BY <2>2, <4>3
    <3> QED
      BY <3>1, <3>2
  <2> QED
    BY <2>1, <2>2 DEF ComesFrom
<1>10. LiesIn(G, G1, m, N)
  <2> SUFFICES ASSUME NEW e \in N
               PROVE  /\ e \in Pairs(UNION G[1]) /\ e \notin G[1]
                      /\ \A j \in DOMAIN G1 : m[j] = 1 /\ e \in Pairs(UNION G1[j]) => e \in G1[j]
    BY <1>6 DEF LiesIn
  <2>1. e \in Pairs(UNION G[1]) /\ e \notin G[1]
    BY <1>6
  <2>2. ASSUME NEW j \in DOMAIN G1, m[j] = 1 PROVE e \in G1[j]
    <3>1. j <= a
      BY <1>8, <2>2
    <3>2. j \in 1 .. Len(A) /\ G1[j] = Part(A[j])
      BY <1>3, <1>7, <3>1
    <3> QED
      BY <3>2
  <2> QED
    BY <2>1, <2>2
<1> QED
  BY <1>0, <1>9, <1>10, <1>11, LaidStep

\* The first graph becomes the last instance.
LEMMA FirstToLast ==
  ASSUME NEW S, NEW W \in Seq(S), W # <<>>, NEW R, NEW I \in Seq(R), NEW B, Laid(LayoutOf(W, I), B),
         NEW r \in R, r.graph = W[1], NEW W1, W1 = Tail(W), NEW I1, I1 = Append(I, r)
  PROVE  Laid(LayoutOf(W1, I1), B)
<1> DEFINE w == Len(W)
           l == Len(I)
           G == LayoutOf(W, I)
           G1 == LayoutOf(W1, I1)
           m == [j \in DOMAIN G1 |-> IF j < w + l THEN j + 1 ELSE 1]
<1>1. /\ Len(W1) = w - 1 /\ w \in Nat /\ w >= 1
      /\ \A i \in 1 .. w - 1 : i + 1 \in 1 .. w /\ W1[i] = W[i + 1]
  BY TailFacts
<1>2. Len(I1) = l + 1 /\ l \in Nat /\ I1[l + 1] = r /\ \A i \in 1 .. l : I1[i] = I[i]
  OBVIOUS
<1> HIDE DEF w, l
<1>3. Len(W1) \in Nat /\ Len(W) = w /\ Len(I) = l /\ Len(I1) \in Nat /\ w - 1 \in Nat /\ l + 1 \in Nat
  BY <1>1, <1>2 DEF w, l
<1>0. G = LayoutOf(W, I) /\ G1 = LayoutOf(W1, I1)
  OBVIOUS
<1>11. Laid(G, B)
  OBVIOUS
<1> HIDE DEF G, G1
<1>4. /\ \A j \in 1 .. w : j \in DOMAIN G /\ G[j] = Part(W[j])
      /\ \A j \in 1 .. l : w + j \in DOMAIN G /\ G[w + j] = Part(I[j].graph)
  <2>1. w \in Nat /\ w = Len(W) /\ l \in Nat /\ l = Len(I) /\ G = LayoutOf(W, I)
    BY <1>0, <1>1, <1>2, <1>3
  <2>2. IsLayout(G, W, w, I, l)
    BY <2>1, LayoutFacts
  <2> QED
    BY <2>2 DEF IsLayout
<1>5. /\ DOMAIN G1 = 1 .. (w - 1) + (l + 1)
      /\ \A j \in 1 .. w - 1 : G1[j] = Part(W1[j])
      /\ \A j \in 1 .. l + 1 : G1[(w - 1) + j] = Part(I1[j].graph)
  <2> DEFINE b == w - 1
             c == l + 1
  <2>1. b \in Nat /\ b = Len(W1) /\ c \in Nat /\ c = Len(I1) /\ G1 = LayoutOf(W1, I1)
    BY <1>0, <1>1, <1>2, <1>3
  <2> HIDE DEF b, c
  <2>2. IsLayout(G1, W1, b, I1, c)
    BY <2>1, LayoutFacts
  <2> QED
    BY <2>2 DEF IsLayout, b, c
<1>13. ASSUME NEW j \in DOMAIN G1
       PROVE  /\ j \in Int /\ 1 <= j /\ j <= (w - 1) + (l + 1) /\ m[j] = (IF j < w + l THEN j + 1 ELSE 1)
              /\ w \in Nat /\ l \in Nat /\ w >= 1
  BY <1>1, <1>2, <1>3, <1>5
<1> HIDE DEF m
<1>6. ASSUME NEW j \in DOMAIN G1, j < w + l
      PROVE  m[j] = j + 1 /\ j \in Nat /\ j + 1 # 1 /\ m[j] \in DOMAIN G /\ G1[j] = G[m[j]]
  <2>0. /\ j \in Int /\ 1 <= j /\ m[j] = j + 1 /\ w \in Nat /\ l \in Nat /\ w >= 1
    BY <1>6, <1>13
  <2>1. m[j] = j + 1 /\ j \in Nat /\ j >= 1 /\ j + 1 # 1
    BY <2>0
  <2>2. CASE j <= w - 1
    <3>1. j \in 1 .. w - 1
      BY <2>0, <2>2
    <3>2. j + 1 \in 1 .. w /\ W1[j] = W[j + 1]
      BY <1>1, <3>1
    <3> QED
      BY <1>4, <1>5, <2>1, <3>1, <3>2
  <2>3. CASE ~(j <= w - 1)
    <3> DEFINE x == j - (w - 1)
    <3>1. x \in 1 .. l
      BY <1>6, <2>0, <2>3
    <3>4. x \in 1 .. l + 1 /\ (w - 1) + x = j /\ w + x = j + 1
      BY <2>0, <3>1
    <3> HIDE DEF x
    <3>2. G1[j] = Part(I1[x].graph) /\ I1[x] = I[x]
      BY <1>2, <1>5, <3>1, <3>4
    <3>3. G[j + 1] = Part(I[x].graph) /\ j + 1 \in DOMAIN G
      BY <1>4, <3>1, <3>4
    <3> QED
      BY <2>1, <3>2, <3>3
  <2> QED
    BY <2>2, <2>3
<1>7. ASSUME NEW j \in DOMAIN G1, ~(j < w + l)
      PROVE  j = w + l /\ m[j] = 1 /\ m[j] \in DOMAIN G /\ G1[j] = G[m[j]]
  <2>0. /\ j \in Int /\ j <= (w - 1) + (l + 1) /\ m[j] = 1 /\ w \in Nat /\ l \in Nat /\ w >= 1
    BY <1>7, <1>13
  <2>5. j \in Int /\ w \in Int /\ l \in Int /\ j <= (w - 1) + (l + 1)
    BY <2>0
  <2>4. j = w + l
    BY ONLY <1>7, <2>5, SMT
  <2>1. j = w + l /\ 1 \in 1 .. w
    BY <2>0, <2>4
  <2>2. l + 1 \in 1 .. l + 1 /\ (w - 1) + (l + 1) = w + l
    BY <2>0
  <2>3. G1[j] = Part(r.graph)
    BY <1>2, <1>5, <2>1, <2>2
  <2> QED
    BY <1>4, <2>0, <2>1, <2>3
<1>8. ASSUME NEW i \in DOMAIN G1, NEW j \in DOMAIN G1, m[i] = m[j] PROVE i = j
  <2>1. CASE i < w + l
    <3>1. j < w + l
      BY <1>6, <1>7, <1>8, <2>1
    <3>2. i + 1 = j + 1 /\ i \in Nat /\ j \in Nat
      BY <1>6, <1>8, <2>1, <3>1
    <3> QED
      BY <3>2
  <2>2. CASE ~(i < w + l)
    <3>1. ~(j < w + l)
      BY <1>6, <1>7, <1>8, <2>2
    <3>2. i = w + l /\ j = w + l
      BY <1>7, <2>2, <3>1
    <3> QED
      BY <3>2
  <2> QED
    BY <2>1, <2>2
<1>9. ComesFrom(G, G1, m)
  <2>1. \A j \in DOMAIN G1 : m[j] \in DOMAIN G /\ G1[j] = G[m[j]]
    BY <1>6, <1>7
  <2> QED
    BY <1>8, <2>1, WithinItself DEF ComesFrom
<1>10. LiesIn(G, G1, m, {})
  BY DEF LiesIn
<1>12. Laid(G1, B \cup {})
  BY <1>9, <1>10, <1>11, LaidStep
<1> QED
  BY <1>0, <1>12

\* Some instances are left, and N is new in those that are not.
Selects(left, l, m) ==
  /\ \A j \in 1 .. l : left[j] \in 1 .. m
  /\ \A i, j \in 1 .. l : left[i] = left[j] => i = j

Selected(I1, I, left, l) == Len(I1) = l /\ \A j \in 1 .. l : I1[j] = I[left[j]]

NewInOthers(N, I, left, l) ==
  \A e \in N : \E i \in 1 .. Len(I) :
    /\ e \in Pairs(UNION Part(I[i].graph)) /\ e \notin Part(I[i].graph)
    /\ \A j \in 1 .. l : left[j] # i

\* Some of the instances are left, and what is new is in the others.
LEMMA SomeAreLeft ==
  ASSUME NEW I, Len(I) \in Nat, NEW B, Laid(LayoutOf(<<>>, I), B),
         NEW left, NEW l \in Nat, Selects(left, l, Len(I)), NEW I1, Selected(I1, I, left, l),
         NEW N, NewInOthers(N, I, left, l)
  PROVE  Laid(LayoutOf(<<>>, I1), B \cup N)
<1>8. /\ \A j \in 1 .. l : left[j] \in 1 .. Len(I)
      /\ \A i, j \in 1 .. l : left[i] = left[j] => i = j
      /\ Len(I1) = l /\ \A j \in 1 .. l : I1[j] = I[left[j]]
  BY DEF Selects, Selected
<1> DEFINE W == <<>>
           G == LayoutOf(W, I)
           G1 == LayoutOf(W, I1)
           m == [j \in DOMAIN G1 |-> left[j]]
<1>1. Len(W) = 0 /\ Laid(G, B)
  OBVIOUS
<1>0. G = LayoutOf(W, I) /\ G1 = LayoutOf(W, I1)
  OBVIOUS
<1>7. W = <<>>
  OBVIOUS
<1> HIDE DEF W, G, G1
<1>2. DOMAIN G = 1 .. Len(I) /\ \A j \in 1 .. Len(I) : G[j] = Part(I[j].graph)
  <2>1. /\ DOMAIN G = 1 .. 0 + Len(I)
        /\ \A j \in 1 .. Len(I) : G[0 + j] = Part(I[j].graph)
    BY <1>0, <1>1, <1>8, LayoutFacts DEF IsLayout
  <2> QED
    BY <2>1
<1>3. DOMAIN G1 = 1 .. l /\ \A j \in 1 .. l : G1[j] = Part(I1[j].graph)
  <2>1. /\ DOMAIN G1 = 1 .. 0 + l
        /\ \A j \in 1 .. l : G1[0 + j] = Part(I1[j].graph)
    BY <1>0, <1>1, <1>8, LayoutFacts DEF IsLayout
  <2> QED
    BY <2>1
<1>4. \A j \in DOMAIN G1 : m[j] = left[j] /\ m[j] \in DOMAIN G /\ G1[j] = G[m[j]]
  BY <1>2, <1>3, <1>8
<1> HIDE DEF m
<1>5. ComesFrom(G, G1, m)
  BY <1>3, <1>4, <1>8, WithinItself DEF ComesFrom
<1>6. LiesIn(G, G1, m, N)
  <2> SUFFICES ASSUME NEW e \in N
               PROVE  \E i \in DOMAIN G :
                        /\ e \in Pairs(UNION G[i]) /\ e \notin G[i]
                        /\ \A j \in DOMAIN G1 : m[j] = i /\ e \in Pairs(UNION G1[j]) => e \in G1[j]
    BY DEF LiesIn
  <2>1. PICK i \in 1 .. Len(I) : /\ e \in Pairs(UNION Part(I[i].graph)) /\ e \notin Part(I[i].graph)
                                 /\ \A j \in 1 .. l : left[j] # i
    BY DEF NewInOthers
  <2>2. i \in DOMAIN G /\ G[i] = Part(I[i].graph) /\ \A j \in DOMAIN G1 : m[j] # i
    BY <1>2, <1>3, <1>4, <2>1
  <2> QED
    BY <2>1, <2>2
<1> QED
  BY <1>0, <1>7, <1>1, <1>5, <1>6, LaidStep

-----------------------------------------------------------------------------
(* What the steps of Preprocess1 and Preprocess2 begin with. *)

\* At a call of Preprocess1.
LEMMA AtCall ==
  ASSUME TInv, pc = "preprocess1", pending # <<>>, NEW n, n = orig_graph.n, NEW g, g = Head(pending)
  PROVE  /\ n \in Nat /\ g \in MappedGraphs(n) /\ IsGraph(g) /\ Part(g) \subseteq Recorded /\ pp
         /\ Laid(LayoutOf(pending, instances), Recorded)
         /\ pending \in Seq(MappedGraphs(n)) /\ g = pending[1] /\ Len(instances) \in Nat
         /\ Explained(Tail(pending), instances, <<>>, Recorded, {})
<1>1. n \in Nat
  BY OriginalFacts DEF TInv
<1>2. pending \in Seq(MappedGraphs(n)) /\ Len(instances) \in Nat
  BY GraphsFacts DEF TInv, GraphsInv
<1>3. Reduced = <<>> /\ Held = {} /\ pc # "done"
  BY DEF Reduced, Held
<1>4. /\ g = pending[1] /\ g \in MappedGraphs(n) /\ 1 \in DOMAIN pending
      /\ \A i \in DOMAIN Tail(pending) : i + 1 \in DOMAIN pending /\ Tail(pending)[i] = pending[i + 1]
  BY <1>2
<1>5. Reduced \o pending = pending
  BY <1>2, <1>3
<1>6. /\ Laid(LayoutOf(pending, instances), Recorded)
      /\ Explained(pending, instances, <<>>, Recorded, {})
  <2>1. /\ Laid(LayoutOf(Reduced \o pending, instances), Recorded \cup Held)
        /\ Explained(pending, instances, Reduced, Recorded, Held)
    BY <1>3 DEF TInv, LayoutInv
  <2>2. Recorded \cup Held = Recorded
    BY <1>3
  <2> QED
    BY <1>3, <1>5, <2>1, <2>2
<1>7. Part(g) \subseteq Recorded /\ Explained(Tail(pending), instances, <<>>, Recorded, {})
  BY <1>4, <1>6 DEF Explained
<1>8. pp
  <2>1. pp \in BOOLEAN
    BY OriginalFacts DEF TInv
  <2> QED
    BY <2>1 DEF TInv, PhaseInv
<1>9. IsGraph(g)
  BY <1>1, <1>4, MappedFacts
<1> QED
  BY <1>1, <1>2, <1>4, <1>6, <1>7, <1>8, <1>9

\* In Preprocess2.
LEMMA InReduction ==
  ASSUME TInv, pc = "degree2", NEW n, n = orig_graph.n, NEW g, g = instance.graph,
         NEW W, W = <<g>> \o pending
  PROVE  /\ n \in Nat /\ g \in MappedGraphs(n) /\ IsGraph(g) /\ pp
         /\ Held = Back(g, fill_d2) /\ Held \cap Recorded = {} /\ Part(g) \subseteq Recorded \cup Held
         /\ Laid(LayoutOf(W, instances), Recorded \cup Held)
         /\ W \in Seq(MappedGraphs(n)) /\ W # <<>> /\ W[1] = g /\ Tail(W) = pending
         /\ pending \in Seq(MappedGraphs(n)) /\ Len(instances) \in Nat
         /\ Explained(pending, instances, <<>>, Recorded, {})
<1>1. n \in Nat
  BY OriginalFacts DEF TInv
<1>2. pending \in Seq(MappedGraphs(n)) /\ Len(instances) \in Nat /\ g \in MappedGraphs(n)
  BY GraphsFacts DEF TInv, GraphsInv
<1>3. Reduced = <<g>> /\ Held = Back(g, fill_d2) /\ pc # "done"
  BY DEF Reduced, Held
<1>4. W \in Seq(MappedGraphs(n)) /\ W # <<>> /\ W[1] = g /\ Tail(W) = pending
  BY <1>2
<1>6. /\ Laid(LayoutOf(W, instances), Recorded \cup Held) /\ Held \cap Recorded = {}
      /\ Explained(pending, instances, <<g>>, Recorded, Held)
  BY <1>3 DEF TInv, LayoutInv
<1>7. Part(g) \subseteq Recorded \cup Held /\ Explained(pending, instances, <<>>, Recorded, {})
  BY <1>6 DEF Explained
<1>8. pp
  <2>1. pp \in BOOLEAN
    BY OriginalFacts DEF TInv
  <2> QED
    BY <2>1 DEF TInv, PhaseInv
<1>9. IsGraph(g)
  BY <1>1, <1>2, MappedFacts
<1> QED
  BY <1>1, <1>2, <1>3, <1>4, <1>6, <1>7, <1>8, <1>9

\* More is recorded, and the parts explained by it stay so.
LEMMA ExplainedByMore ==
  ASSUME NEW P, NEW I, NEW R, Explained(P, I, <<>>, R, {}), NEW R1, R \subseteq R1
  PROVE  Explained(P, I, <<>>, R1, {})
BY DEF Explained

\* One more graph that is explained.
LEMMA ExplainedWithFirst ==
  ASSUME NEW S, NEW P \in Seq(S), NEW A \in Seq(S), NEW I, NEW R, Explained(P, I, <<>>, R, {}),
         \A i \in 1 .. Len(A) : Part(A[i]) \subseteq R, NEW P1, P1 = A \o P
  PROVE  Explained(P1, I, <<>>, R, {})
<1>1. ASSUME NEW i \in DOMAIN P1 PROVE Part(P1[i]) \subseteq R
  <2>1. \/ i \in 1 .. Len(A) /\ P1[i] = A[i]
        \/ i - Len(A) \in DOMAIN P /\ P1[i] = P[i - Len(A)]
    OBVIOUS
  <2> QED
    BY <2>1 DEF Explained
<1> QED
  BY <1>1 DEF Explained

\* The greatest number of a bounded set is in it.
LEMMA MaxIs ==
  ASSUME NEW S \in SUBSET Nat, S # {}, NEW n \in Nat, \A x \in S : x <= n
  PROVE  MaxOf(S) \in S
<1>1. \E m \in S : \A l \in S : l <= m
  BY GreatestElement
<1> QED
  BY <1>1 DEF MaxOf

\* What MCS-M fills.
LEMMA FillOfMcsM ==
  ASSUME NEW g, IsGraph(g), NEW F, F = McsM(g).fill
  PROVE  /\ F \in MinimalTriangulations(g) /\ F \in SUBSET NonEdges(g) /\ F \subseteq Pairs(Active(g))
         /\ IsGraph(Filled(g, F)) /\ Filled(g, F).n = g.n
<1>1. F \in MinimalTriangulations(g)
  BY McsMFinds DEF FoundByMcsM
<1>2. F \in SUBSET NonEdges(g) /\ F \subseteq Pairs(Active(g))
  BY <1>1, FillIsActive
<1>3. IsGraph(Filled(g, F))
  BY <1>2, FilledIsGraph
<1>4. Filled(g, F).n = g.n
  BY DEF Filled
<1> QED
  BY <1>1, <1>2, <1>3, <1>4

\* A fill of more than an edge needs a vertex.
LEMMA NotSolved ==
  ASSUME NEW g, IsGraph(g), NEW F \in SUBSET NonEdges(g), ~SolvedByFill(F)
  PROVE  g.n \in Nat /\ g.n >= 1 /\ NonEdges(g) # {}
<1>1. g.n \in Nat
  BY DEF IsGraph
<1>2. F # {}
  BY FS_EmptySet DEF SolvedByFill
<1>3. NonEdges(g) # {}
  BY <1>2
<1>4. PICK u \in V(g) : TRUE
  BY <1>3, PairsMember DEF NonEdges
<1> QED
  BY <1>1, <1>3, <1>4 DEF V

-----------------------------------------------------------------------------
(* The steps that end at a call of Preprocess1. *)

\* What the steps of the preprocessor have to do with.
PartsInv == /\ GraphsInv /\ PhaseInv /\ BagInv /\ LayoutInv /\ ReducedInv /\ InstancesInv
            /\ lower_bound \in 0 .. orig_graph.n /\ aborted \in BOOLEAN

AllReduced(I) ==
  \A i \in 1 .. Len(I) : /\ I[i].fill \subseteq NonEdges(I[i].graph)
                         /\ Active(I[i].graph) = V(I[i].graph)

\* With preprocessing, all instances are reduced.
LEMMA InstancesReduced ==
  ASSUME TInv, pp, pc # "done"
  PROVE  AllReduced(instances)
BY DEF TInv, InstancesInv, AsRead, AllReduced

\* The variables that no such step changes.
Kept == UNCHANGED <<orig_graph, pp, instance, d2, fill_d2, solutions, solved, k, apmcs>>

\* Such a step keeps the invariant if its parts at hand lie apart and are explained.
LEMMA NextCall ==
  ASSUME TInv, pc \in {"preprocess1", "degree2"}, pp, pc' = "preprocess1", Kept,
         NEW n, n = orig_graph.n,
         pending' \in Seq(MappedGraphs(n)), instances' \in Seq(Instances(n)), AllReduced(instances'),
         NEW R, Recorded' = R, BagInv',
         Laid(LayoutOf(pending', instances'), R), Explained(pending', instances', <<>>, R, {}),
         lower_bound' \in 0 .. n, aborted' \in BOOLEAN
  PROVE  PartsInv'
<1>1. orig_graph' = orig_graph /\ pp' = pp
  BY DEF Kept
<1>2. GraphsInv'
  BY <1>1 DEF TInv, GraphsInv, Kept
<1>3. PhaseInv'
  BY <1>1 DEF TInv, PhaseInv, Kept
<1>4. LayoutInv'
  <2>1. Reduced' = <<>> /\ Held' = {}
    BY DEF Reduced, Held
  <2>2. <<>> \o pending' = pending'
    OBVIOUS
  <2>3. R \cup {} = R
    OBVIOUS
  <2> QED
    BY <2>1, <2>2, <2>3 DEF LayoutInv
<1>5. ReducedInv'
  BY DEF ReducedInv
<1>6. InstancesInv'
  BY DEF InstancesInv, AllReduced
<1> QED
  BY <1>1, <1>2, <1>3, <1>4, <1>5, <1>6 DEF PartsInv

\* The larger one of the lower bound and a number in its range.
LEMMA LowerBound ==
  ASSUME TInv, NEW w \in 0 .. orig_graph.n
  PROVE  MaxOf({lower_bound, w}) \in 0 .. orig_graph.n
<1>1. orig_graph.n \in Nat
  BY OriginalFacts DEF TInv
<1>2. lower_bound \in 0 .. orig_graph.n
  BY DEF TInv, BoundsInv
<1> DEFINE S == {lower_bound, w}
           n == orig_graph.n
<1>3. S \in SUBSET Nat /\ S # {} /\ n \in Nat /\ \A x \in S : x <= n
  BY <1>1, <1>2
<1>4. S \subseteq 0 .. n
  BY <1>2
<1> HIDE DEF S, n
<1>5. MaxOf(S) \in S
  BY <1>3, MaxIs
<1> QED
  BY <1>4, <1>5 DEF S, n

\* The graph is replaced, and nothing is recorded.
LEMMA NothingRecorded ==
  ASSUME BagInv, UNCHANGED <<orig_graph, fill_edges>>
  PROVE  BagInv' /\ Recorded' = Recorded
BY DEF BagInv, Recorded

\* A graph whose minimal triangulation is the best: its fill is recorded.
LEMMA TakeKeeps ==
  ASSUME TInv, TakeTriangulation, UNCHANGED <<solved, k, apmcs>>
  PROVE  PartsInv'
<1> DEFINE n == orig_graph.n
           g == Head(pending)
           F == McsM(g).fill
           D == Back(g, F)
           G == LayoutOf(pending, instances)
<1>0. n = orig_graph.n /\ g = Head(pending) /\ pc = "preprocess1" /\ pending # <<>> /\ F = McsM(g).fill
  BY DEF TakeTriangulation
<1>1. /\ lower_bound' = MaxOf({lower_bound, ChordalWidth(Filled(g, F))})
      /\ fill_edges' = fill_edges (+) MapBack(g, F)
      /\ pending' = Tail(pending) /\ pc' = "preprocess1" /\ UNCHANGED <<instances, aborted>> /\ Kept
  BY DEF TakeTriangulation, Kept
<1>2. MapBack(g, F) = SetToBag(D)
  BY DEF MapBack, Back
<1>12. D = Back(g, F) /\ G = LayoutOf(pending, instances)
  OBVIOUS
<1> HIDE DEF n, g, F, D, G
<1>3. /\ n \in Nat /\ g \in MappedGraphs(n) /\ IsGraph(g) /\ Part(g) \subseteq Recorded /\ pp
      /\ Laid(LayoutOf(pending, instances), Recorded)
      /\ pending \in Seq(MappedGraphs(n)) /\ g = pending[1] /\ Len(instances) \in Nat
      /\ Explained(Tail(pending), instances, <<>>, Recorded, {})
  BY <1>0, AtCall
<1>4. /\ F \in SUBSET NonEdges(g) /\ F \subseteq Pairs(Active(g))
      /\ IsGraph(Filled(g, F)) /\ Filled(g, F).n = g.n
  BY <1>0, <1>3, FillOfMcsM
<1>5. 1 \in DOMAIN G /\ G[1] = Part(g)
  <2>1. IsLayout(G, pending, Len(pending), instances, Len(instances)) /\ Len(pending) \in Nat /\ Len(pending) >= 1
    <3>1. Len(pending) \in Nat /\ Len(pending) >= 1
      BY <1>0, <1>3
    <3> QED
      BY <1>3, <1>12, <3>1, LayoutFacts
  <2> QED
    BY <1>3, <2>1 DEF IsLayout
<1>6. \A c \in D : /\ c \in Pairs(UNION G[1]) /\ c \notin G[1] /\ c \notin Recorded
                   /\ c \in NonEdges(orig_graph)
  <2>1. GraphsInv /\ orig_graph.adj \subseteq Recorded /\ Laid(G, Recorded) /\ g \in MappedGraphs(orig_graph.n)
    BY <1>0, <1>3, <1>12 DEF TInv, Recorded
  <2> QED
    BY <1>4, <1>5, <1>12, <2>1, NewFill
<1>7. BagInv' /\ Recorded' = Recorded \cup D
  <2>1. D \in SUBSET NonEdges(orig_graph) /\ D \cap Recorded = {}
    BY <1>6
  <2> QED
    BY <1>1, <1>2, <2>1, FillIsRecorded DEF TInv, Kept
<1>8. Laid(LayoutOf(pending', instances'), Recorded \cup D)
  <2> DEFINE A == <<>>
             W1 == A \o Tail(pending)
  <2>1. /\ A \in Seq(MappedGraphs(n)) /\ Len(A) = 0
        /\ \A i \in 1 .. Len(A) : Within(Part(A[i]), Part(pending[1]))
        /\ \A i, j \in 1 .. Len(A) : i # j => Apart(Part(A[i]), Part(A[j]))
        /\ \A i \in 1 .. Len(A) : FALSE
    OBVIOUS
  <2>2. W1 = A \o Tail(pending) /\ W1 = pending'
    BY <1>0, <1>1, <1>3
  <2> HIDE DEF A, W1
  <2>3. \A e \in D : /\ e \in Pairs(UNION Part(pending[1])) /\ e \notin Part(pending[1])
                     /\ \A i \in 1 .. Len(A) : e \in Part(A[i])
    <3>1. G[1] = Part(pending[1])
      BY <1>3, <1>5
    <3> QED
      BY <1>6, <2>1, <3>1
  <2>4. Laid(LayoutOf(W1, instances), Recorded \cup D)
    BY <1>0, <1>3, <2>1, <2>2, <2>3, ReplaceFirst
  <2> QED
    BY <1>1, <2>2, <2>4
<1>9. Explained(pending', instances', <<>>, Recorded \cup D, {})
  BY <1>1, <1>3, ExplainedByMore
<1>10. lower_bound' \in 0 .. n
  <2>1. ChordalWidth(Filled(g, F)) \in 0 .. g.n
    BY <1>4, WidthInRange
  <2>2. g.n \in Nat /\ g.n <= n
    BY <1>3, MappedFacts
  <2>3. ChordalWidth(Filled(g, F)) \in 0 .. orig_graph.n
    BY <1>0, <1>3, <2>1, <2>2
  <2> QED
    BY <1>0, <1>1, <2>3, LowerBound
<1>11. /\ pending' \in Seq(MappedGraphs(n)) /\ instances' \in Seq(Instances(n)) /\ AllReduced(instances')
       /\ aborted' \in BOOLEAN
  <2>1. Tail(pending) \in Seq(MappedGraphs(n))
    BY <1>0, <1>3
  <2>2. instances \in Seq(Instances(n)) /\ aborted \in BOOLEAN
    BY <1>0 DEF TInv, GraphsInv, BoundsInv
  <2>3. AllReduced(instances)
    BY <1>0, <1>3, InstancesReduced
  <2> QED
    BY <1>1, <2>1, <2>2, <2>3
<1> QED
  BY <1>0, <1>1, <1>3, <1>7, <1>8, <1>9, <1>10, <1>11, NextCall

\* A graph that is split: its atoms lie apart, within its part.
LEMMA SplitKeeps ==
  ASSUME TInv, SplitIntoAtoms, UNCHANGED <<solved, k, apmcs>>
  PROVE  PartsInv'
<1> DEFINE n == orig_graph.n
           g == Head(pending)
           F == McsM(g).fill
           all == Atoms(g, McsM(g))
           A == [i \in 1 .. Len(all) |-> AtomGraph(g, all[i])]
<1>0. /\ n = orig_graph.n /\ g = Head(pending) /\ pc = "preprocess1" /\ pending # <<>> /\ F = McsM(g).fill
      /\ ~SolvedByFill(F) /\ all = Atoms(g, McsM(g))
  BY DEF SplitIntoAtoms
<1>1. /\ pending' = A \o Tail(pending) /\ pc' = "preprocess1" /\ Kept
      /\ UNCHANGED <<instances, aborted, lower_bound, orig_graph, fill_edges>>
  BY DEF SplitIntoAtoms, Kept
<1> HIDE DEF n, g, F, all
<1>3. /\ n \in Nat /\ g \in MappedGraphs(n) /\ IsGraph(g) /\ Part(g) \subseteq Recorded /\ pp
      /\ Laid(LayoutOf(pending, instances), Recorded)
      /\ pending \in Seq(MappedGraphs(n)) /\ g = pending[1] /\ Len(instances) \in Nat
      /\ Explained(Tail(pending), instances, <<>>, Recorded, {})
  BY <1>0, AtCall
<1>4. g.n >= 1
  <2>1. F \in SUBSET NonEdges(g)
    BY <1>0, <1>3, FillOfMcsM
  <2> QED
    BY <1>0, <1>3, <2>1, NotSolved
<1>5. AreAtoms(g, all) /\ all \in Seq(SUBSET V(g))
  BY <1>0, <1>3, <1>4, AtomsFound
<1>6. /\ Len(all) \in Nat /\ \A i \in 1 .. Len(all) : all[i] \in SUBSET V(g) /\ all[i] \in AtomsOf(g)
      /\ \A i, j \in 1 .. Len(all) : i # j => all[i] # all[j]
  BY <1>5 DEF AreAtoms
<1>7. Len(A) = Len(all) /\ \A i \in 1 .. Len(all) : A[i] = AtomGraph(g, all[i])
  BY <1>6
<1>8. A \in Seq(MappedGraphs(n))
  <2>1. ASSUME NEW i \in 1 .. Len(all) PROVE AtomGraph(g, all[i]) \in MappedGraphs(n)
    BY <1>3, <1>6, AtomGraphFacts
  <2> QED
    BY <1>6, <2>1
<1> HIDE DEF A
<1>9. ASSUME NEW i \in 1 .. Len(A)
      PROVE  Within(Part(A[i]), Part(pending[1])) /\ Part(A[i]) \subseteq Part(g)
  <2>1. A[i] = AtomGraph(g, all[i]) /\ all[i] \in SUBSET V(g)
    BY <1>6, <1>7
  <2> QED
    BY <1>3, <2>1, AtomPart
<1>10. ASSUME NEW i \in 1 .. Len(A), NEW j \in 1 .. Len(A), i # j PROVE Apart(Part(A[i]), Part(A[j]))
  <2>1. /\ A[i] = AtomGraph(g, all[i]) /\ all[i] \in AtomsOf(g)
        /\ A[j] = AtomGraph(g, all[j]) /\ all[j] \in AtomsOf(g) /\ all[i] # all[j]
    BY <1>6, <1>7, <1>10
  <2>2. Apart(Part(AtomGraph(g, all[i])), Part(AtomGraph(g, all[j])))
    BY <1>3, <2>1, AtomsApart
  <2> QED
    BY <2>1, <2>2
<1>11. Laid(LayoutOf(pending', instances'), Recorded)
  <2> DEFINE N == {}
  <2>1. N = {} /\ Recorded \cup N = Recorded
    OBVIOUS
  <2> HIDE DEF N
  <2>2. Laid(LayoutOf(pending', instances), Recorded \cup N)
    BY <1>0, <1>1, <1>3, <1>8, <1>9, <1>10, <2>1, ReplaceFirst
  <2> QED
    BY <1>1, <2>1, <2>2
<1>12. Explained(pending', instances', <<>>, Recorded, {})
  <2>1. Tail(pending) \in Seq(MappedGraphs(n))
    BY <1>0, <1>3
  <2>2. \A i \in 1 .. Len(A) : Part(A[i]) \subseteq Recorded
    BY <1>3, <1>9
  <2> QED
    BY <1>1, <1>3, <1>8, <2>1, <2>2, ExplainedWithFirst
<1>13. BagInv' /\ Recorded' = Recorded
  BY <1>1, NothingRecorded DEF TInv
<1>14. /\ pending' \in Seq(MappedGraphs(n)) /\ instances' \in Seq(Instances(n)) /\ AllReduced(instances')
       /\ aborted' \in BOOLEAN /\ lower_bound' \in 0 .. n
  <2>1. Tail(pending) \in Seq(MappedGraphs(n))
    BY <1>0, <1>3
  <2>2. instances \in Seq(Instances(n)) /\ aborted \in BOOLEAN /\ lower_bound \in 0 .. n
    BY <1>0 DEF TInv, GraphsInv, BoundsInv
  <2>3. AllReduced(instances)
    BY <1>0, <1>3, InstancesReduced
  <2> QED
    BY <1>1, <1>8, <2>1, <2>2, <2>3
<1> QED
  BY <1>0, <1>1, <1>3, <1>11, <1>12, <1>13, <1>14, NextCall

-----------------------------------------------------------------------------
(* The steps within Preprocess2. *)

LEMMA NextReduction ==
  ASSUME TInv, pc \in {"preprocess1", "degree2"}, pp, pc' = "degree2",
         UNCHANGED <<orig_graph, pp, fill_edges, instances, solutions, solved, k, apmcs>>,
         NEW n, n = orig_graph.n, NEW h, h = instance'.graph,
         pending' \in Seq(MappedGraphs(n)), instance' \in Instances(n),
         d2' \in Seq(V(h)), fill_d2' \subseteq Pairs(V(h)), ReducedInv',
         NEW H, Back(h, fill_d2') = H, H \cap Recorded = {}, Part(h) \subseteq Recorded \cup H,
         NEW W, W = <<h>> \o pending', Laid(LayoutOf(W, instances), Recorded \cup H),
         Explained(pending', instances, <<>>, Recorded, {}),
         lower_bound' \in 0 .. n, aborted' \in BOOLEAN
  PROVE  PartsInv'
<1>1. orig_graph' = orig_graph /\ pp' = pp /\ instances' = instances
  OBVIOUS
<1>2. GraphsInv'
  BY <1>1 DEF TInv, GraphsInv
<1>3. PhaseInv'
  BY <1>1 DEF TInv, PhaseInv
<1>4. BagInv' /\ Recorded' = Recorded
  BY NothingRecorded DEF TInv
<1>5. LayoutInv'
  <2>1. Reduced' = <<h>> /\ Held' = H
    BY DEF Reduced, Held
  <2>2. Explained(pending', instances', <<h>>, Recorded, H)
    BY <1>1 DEF Explained
  <2>3. Reduced' \o pending' = W
    BY <2>1
  <2> QED
    BY <1>1, <1>4, <2>1, <2>2, <2>3 DEF LayoutInv
<1>6. InstancesInv'
  <2>1. AllReduced(instances)
    BY InstancesReduced
  <2> QED
    BY <1>1, <2>1 DEF InstancesInv, AllReduced
<1> QED
  BY <1>1, <1>2, <1>3, <1>4, <1>5, <1>6 DEF PartsInv

\* An atom is the graph itself.
LEMMA AtomIsGraph ==
  ASSUME NEW n \in Nat, NEW g \in MappedGraphs(n), NEW F, F = McsM(g).fill, ~SolvedByFill(F),
         NEW all, all = Atoms(g, McsM(g)), Len(all) = 1
  PROVE  /\ AtomGraph(g, all[1]) = g /\ Active(g) = V(g)
         /\ \A v \in V(g) : ~IsClique(g, Neighbors(g, v))
<1>1. IsGraph(g)
  BY MappedFacts
<1>2. F \in SUBSET NonEdges(g)
  BY <1>1, FillOfMcsM
<1>3. g.n >= 1 /\ NonEdges(g) # {}
  BY <1>1, <1>2, NotSolved
<1>4. AreAtoms(g, all)
  BY <1>1, <1>3, AtomsFound
<1>5. AtomsOf(g) = {all[1]}
  BY <1>4 DEF AreAtoms
<1>6. all[1] = V(g) /\ HasNoCliqueSeparator(g, V(g))
  BY <1>1, <1>5, SingleAtom
<1>7. \A v \in V(g) : ~IsClique(g, Neighbors(g, v)) /\ v \in Active(g)
  BY <1>1, <1>3, <1>6, NoneSimplicial
<1>8. Active(g) = V(g)
  BY <1>7 DEF Active
<1>9. AtomGraph(g, V(g)) = g
  BY <1>8, WholeAtom
<1> QED
  BY <1>6, <1>7, <1>8, <1>9

\* The queue has vertices of the graph.
LEMMA QueueFits ==
  ASSUME NEW g, IsGraph(g)
  PROVE  DegreeTwo(g) \in Seq(V(g))
<1> DEFINE S == {v \in V(g) : Degree(g, v) = 2}
<1>1. S \in SUBSET V(g) /\ S \in SUBSET Nat
  BY DEF V, IsGraph
<1> HIDE DEF S
<1>2. IsFiniteSet(S)
  BY <1>1, VerticesFinite DEF IsGraph
<1>3. Ascending(S) \in Seq(S)
  BY <1>1, <1>2, AscendingFacts
<1> QED
  BY <1>1, <1>3 DEF DegreeTwo, S

\* Sets of pairs of vertices.
LEMMA FillType ==
  ASSUME NEW g, IsGraph(g), NEW F \in SUBSET NonEdges(g)
  PROVE  F \in SUBSET (SUBSET Nat) /\ F \subseteq Pairs(V(g))
<1>1. \A e \in Pairs(V(g)) : e \subseteq V(g)
  BY PairsWithin
<1>2. V(g) \subseteq Nat
  BY DEF IsGraph, V
<1> QED
  BY <1>1, <1>2 DEF NonEdges

\* An atom that is kept is the graph itself, and has no simplicial vertex.
LEMMA KeepKeeps ==
  ASSUME TInv, KeepAtom, UNCHANGED <<solved, k, apmcs>>
  PROVE  PartsInv'
<1> DEFINE n == orig_graph.n
           g == Head(pending)
           F == McsM(g).fill
           all == Atoms(g, McsM(g))
           atom == AtomGraph(g, all[1])
<1>0. /\ n = orig_graph.n /\ g = Head(pending) /\ pc = "preprocess1" /\ pending # <<>> /\ F = McsM(g).fill
      /\ ~SolvedByFill(F) /\ all = Atoms(g, McsM(g)) /\ Len(all) = 1
  BY DEF KeepAtom
<1>1. /\ lower_bound' = MaxOf({lower_bound, MinDegree(atom)})
      /\ instance' = [graph |-> atom, upper_bound |-> ChordalWidth(Filled(g, F)), fill |-> F]
      /\ d2' = DegreeTwo(atom) /\ aborted' = (aborted \/ MinDegree(atom) < 2)
      /\ fill_d2' = {} /\ pc' = "degree2" /\ pending' = Tail(pending)
      /\ UNCHANGED <<orig_graph, pp, fill_edges, instances, solutions, solved, k, apmcs>>
  BY DEF KeepAtom
<1>2. atom = AtomGraph(g, all[1])
  OBVIOUS
<1> HIDE DEF n, g, F, all, atom
<1>3. /\ n \in Nat /\ g \in MappedGraphs(n) /\ IsGraph(g) /\ Part(g) \subseteq Recorded /\ pp
      /\ Laid(LayoutOf(pending, instances), Recorded)
      /\ pending \in Seq(MappedGraphs(n)) /\ g = pending[1] /\ Len(instances) \in Nat
      /\ Explained(Tail(pending), instances, <<>>, Recorded, {})
  BY <1>0, AtCall
<1>4. atom = g /\ Active(g) = V(g) /\ \A v \in V(g) : ~IsClique(g, Neighbors(g, v))
  BY <1>0, <1>2, <1>3, AtomIsGraph
<1>5. /\ F \in SUBSET NonEdges(g) /\ IsGraph(Filled(g, F)) /\ Filled(g, F).n = g.n
  BY <1>0, <1>3, FillOfMcsM
<1>6. instance' \in Instances(n) /\ instance'.graph = g /\ instance'.fill = F
  <2>1. F \in SUBSET (SUBSET Nat)
    BY <1>3, <1>5, FillType
  <2>2. ChordalWidth(Filled(g, F)) \in Int
    <3>1. g.n \in Nat
      BY <1>3 DEF IsGraph
    <3>2. ChordalWidth(Filled(g, F)) \in 0 .. g.n
      BY <1>5, WidthInRange
    <3> QED
      BY <3>1, <3>2
  <2> QED
    BY <1>1, <1>3, <1>4, <2>1, <2>2 DEF Instances
<1>7. ReducedInv'
  BY <1>1, <1>4, <1>5, <1>6 DEF ReducedInv
<1>8. d2' \in Seq(V(g)) /\ fill_d2' \subseteq Pairs(V(g))
  BY <1>1, <1>3, <1>4, QueueFits
<1>9. Back(g, fill_d2') = {}
  BY <1>1 DEF Back
<1>10. <<g>> \o pending' = pending /\ pending' \in Seq(MappedGraphs(n))
  BY <1>0, <1>1, <1>3, TailFacts
<1>11. lower_bound' \in 0 .. n
  <2>1. F \in SUBSET NonEdges(g)
    BY <1>5
  <2>2. g.n \in Nat /\ g.n >= 1
    BY <1>0, <1>3, <2>1, NotSolved
  <2>3. MinDegree(g) \in 0 .. g.n
    BY <1>3, <2>2, DegreeInRange
  <2>4. g.n <= n
    BY <1>3, MappedFacts
  <2>5. MinDegree(g) \in 0 .. orig_graph.n
    BY <1>0, <1>3, <2>2, <2>3, <2>4
  <2> QED
    BY <1>0, <1>1, <1>4, <2>5, LowerBound
<1>12. aborted' \in BOOLEAN
  BY <1>1 DEF TInv, BoundsInv
<1>13. Laid(LayoutOf(pending, instances), Recorded \cup {}) /\ Part(g) \subseteq Recorded \cup {}
       /\ {} \cap Recorded = {}
  BY <1>3
<1>14. /\ instance' \in Instances(n) /\ g = instance'.graph /\ pending = <<g>> \o pending'
       /\ Explained(pending', instances, <<>>, Recorded, {})
  BY <1>1, <1>3, <1>6, <1>10
<1> QED
  BY <1>0, <1>1, <1>3, <1>7, <1>8, <1>9, <1>10, <1>11, <1>12, <1>13, <1>14, NextReduction

\* The queue after a vertex is taken from it.
LEMMA QueueGoesOn ==
  ASSUME NEW S, NEW q \in Seq(S), q # <<>>, NEW low \in SUBSET S, IsFiniteSet(low), NEW order \in SetToSeqs(low),
         NEW b, NEW q1, q1 = Pop(q) \o (IF b THEN order ELSE <<>>)
  PROVE  q1 \in Seq(S)
<1>1. Pop(q) \in Seq(S)
  BY DEF Pop
<1>2. order \in [1 .. Cardinality(low) -> low]
  BY DEF SetToSeqs
<1>3. order \in Seq(S)
  BY <1>2, FS_CardinalityType
<1> QED
  BY <1>1, <1>3

\* A vertex that is eliminated: its new edges are held until the graph starts over.
LEMMA EliminateKeeps ==
  ASSUME TInv, EliminateDegree2, UNCHANGED <<solved, k, apmcs>>
  PROVE  PartsInv'
<1> DEFINE n == orig_graph.n
           g == instance.graph
           x == Head(d2)
           h == AfterElimination(g, x)
           N == h.adj \ g.adj
           D == Back(g, N)
           W == <<g>> \o pending
           W1 == <<h>> \o pending
           low == {v \in Neighbors(g, x) : Degree(h, v) <= 2}
           H == Held \cup D
<1>0. /\ n = orig_graph.n /\ g = instance.graph /\ pc = "degree2" /\ d2 # <<>> /\ N = h.adj \ g.adj
      /\ h = AfterElimination(g, x) /\ W = <<g>> \o pending /\ W1 = <<h>> \o pending /\ D = Back(g, N)
      /\ H = Held \cup D
  BY DEF EliminateDegree2
<1>1. /\ instance' = [instance EXCEPT !.graph = h] /\ fill_d2' = fill_d2 \cup N
      /\ \E order \in SetToSeqs(low) :
           d2' = Pop(d2) \o (IF Degree(g, x) = 2 THEN order ELSE <<>>)
      /\ aborted' = (aborted \/ Degree(g, x) > 2)
      /\ pc' = "degree2" /\ pending' = pending /\ lower_bound' = lower_bound
      /\ UNCHANGED <<orig_graph, pp, fill_edges, instances, solutions, solved, k, apmcs>>
  BY DEF EliminateDegree2
<1>2. low \in SUBSET V(g)
  BY DEF Neighbors
<1>3. x \in V(g) /\ d2 \in Seq(V(g)) /\ fill_d2 \subseteq Pairs(V(g))
  <2>1. d2 \in Seq(V(g)) /\ fill_d2 \subseteq Pairs(V(g))
    BY DEF TInv, GraphsInv
  <2> QED
    BY <1>0, <2>1
<1> HIDE DEF n, g, x, h, N, D, W, W1, low, H
<1>4. /\ n \in Nat /\ g \in MappedGraphs(n) /\ IsGraph(g) /\ pp
      /\ Held = Back(g, fill_d2) /\ Held \cap Recorded = {} /\ Part(g) \subseteq Recorded \cup Held
      /\ Laid(LayoutOf(W, instances), Recorded \cup Held)
      /\ W \in Seq(MappedGraphs(n)) /\ W # <<>> /\ W[1] = g /\ Tail(W) = pending
      /\ pending \in Seq(MappedGraphs(n)) /\ Len(instances) \in Nat
      /\ Explained(pending, instances, <<>>, Recorded, {})
  BY <1>0, InReduction
<1>5. IsReworked(g, h) /\ N = Pairs(Neighbors(g, x)) \ g.adj /\ x \notin Active(h)
  BY <1>0, <1>3, <1>4, EliminationStep
<1>6. /\ h \in MappedGraphs(n) /\ h.n = g.n /\ V(h) = V(g)
      /\ \A e : MapBackEdge(h, e) = MapBackEdge(g, e)
      /\ Within(Part(h), Part(g)) /\ Part(h) \subseteq Part(g) \cup D
      /\ \A c \in D : c \in Pairs(UNION Part(g)) /\ c \notin Part(g) /\ c \in Part(h)
  <2>1. n \in Nat /\ g \in MappedGraphs(n) /\ IsReworked(g, h) /\ N = h.adj \ g.adj
    BY <1>0, <1>4, <1>5
  <2>2. D = Back(g, h.adj \ g.adj)
    BY <1>0
  <2>3. /\ h \in MappedGraphs(n) /\ h.n = g.n /\ V(h) = V(g) /\ h.vmap = g.vmap /\ ExtendsBy(g, h, D)
    BY <2>1, <2>2, ReworkedPart
  <2> QED
    BY <2>3 DEF ExtendsBy, MapBackEdge
<1>7. Back(h, fill_d2') = H
  <2>1. Back(h, fill_d2') = Back(g, fill_d2')
    BY <1>6 DEF Back
  <2>2. Back(g, fill_d2 \cup N) = Back(g, fill_d2) \cup Back(g, N)
    BY DEF Back
  <2> QED
    BY <1>0, <1>1, <1>4, <2>1, <2>2
<1>8. H \cap Recorded = {}
  <2>1. 1 \in DOMAIN LayoutOf(W, instances) /\ LayoutOf(W, instances)[1] = Part(g)
    <3> DEFINE G == LayoutOf(W, instances)
    <3>1. Len(W) \in Nat /\ Len(W) >= 1 /\ G = LayoutOf(W, instances)
      BY <1>4
    <3> HIDE DEF G
    <3>2. IsLayout(G, W, Len(W), instances, Len(instances))
      BY <1>4, <3>1, LayoutFacts
    <3> QED
      BY <1>4, <3>1, <3>2 DEF IsLayout
  <2>2. \A c \in D : c \notin Recorded
    BY <1>4, <1>6, <2>1 DEF Laid
  <2> QED
    BY <1>0, <1>4, <2>2
<1>9. Laid(LayoutOf(W1, instances), Recorded \cup H)
  <2> DEFINE A == <<h>>
  <2>1. /\ A \in Seq(MappedGraphs(n)) /\ Len(A) = 1 /\ A[1] = h
        /\ \A i, j \in 1 .. Len(A) : i = j
        /\ W1 = A \o Tail(W)
    BY <1>0, <1>4, <1>6
  <2> HIDE DEF A
  <2>2. \A i \in 1 .. Len(A) : A[i] = h
    BY <2>1
  <2>3. \A i \in 1 .. Len(A) : Within(Part(A[i]), Part(W[1]))
    BY <1>4, <1>6, <2>2
  <2>4. \A e \in D : /\ e \in Pairs(UNION Part(W[1])) /\ e \notin Part(W[1])
                     /\ \A i \in 1 .. Len(A) : e \in Part(A[i])
    BY <1>4, <1>6, <2>2
  <2>5. \A i, j \in 1 .. Len(A) : i # j => Apart(Part(A[i]), Part(A[j]))
    BY <2>1
  <2>6. Laid(LayoutOf(W1, instances), (Recorded \cup Held) \cup D)
    BY <1>4, <2>1, <2>3, <2>4, <2>5, ReplaceFirst
  <2>7. (Recorded \cup Held) \cup D = Recorded \cup H
    BY <1>0
  <2> QED
    BY <2>6, <2>7
<1>10. Part(h) \subseteq Recorded \cup H
  BY <1>0, <1>4, <1>6
<1>11. instance' \in Instances(n) /\ h = instance'.graph /\ instance'.fill = instance.fill
  <2>1. instance \in Instances(n)
    BY <1>0 DEF TInv, GraphsInv
  <2> QED
    BY <1>1, <1>6, <2>1 DEF Instances
<1>12. d2' \in Seq(V(h))
  <2>1. IsFiniteSet(low)
    BY <1>2, <1>4, VerticesFinite DEF IsGraph
  <2> QED
    BY <1>0, <1>1, <1>2, <1>3, <1>6, <2>1, QueueGoesOn
<1>13. fill_d2' \subseteq Pairs(V(h))
  <2>1. h.adj \subseteq Pairs(V(g))
    BY <1>5 DEF IsReworked
  <2> QED
    BY <1>0, <1>1, <1>3, <1>6, <2>1
<1>14. ReducedInv'
  <2>1. Active(h) # V(h)
    BY <1>3, <1>5, <1>6
  <2>2. fill_d2' # {}
    <3>1. CASE fill_d2 # {}
      BY <1>1, <3>1
    <3>2. CASE fill_d2 = {}
      <4>1. ~IsClique(g, Neighbors(g, x))
        BY <1>0, <1>3, <3>2 DEF TInv, ReducedInv
      <4> QED
        BY <1>1, <1>5, <4>1 DEF IsClique
    <3> QED
      BY <3>1, <3>2
  <2> QED
    BY <1>11, <2>1, <2>2 DEF ReducedInv
<1>15. lower_bound' \in 0 .. n /\ aborted' \in BOOLEAN
  BY <1>0, <1>1 DEF TInv, BoundsInv
<1>16. /\ W1 = <<h>> \o pending' /\ pending' \in Seq(MappedGraphs(n))
       /\ Explained(pending', instances, <<>>, Recorded, {})
  BY <1>0, <1>1, <1>4
<1> QED
  BY <1>0, <1>1, <1>4, <1>7, <1>8, <1>9, <1>10, <1>11, <1>12, <1>13, <1>14, <1>15, <1>16, NextReduction

\* What was held is recorded.
LEMMA RestartKeeps ==
  ASSUME TInv, RestartFilled, UNCHANGED <<solved, k, apmcs>>
  PROVE  PartsInv'
<1> DEFINE n == orig_graph.n
           g == instance.graph
           W == <<g>> \o pending
<1>0. n = orig_graph.n /\ g = instance.graph /\ pc = "degree2" /\ W = <<g>> \o pending
  BY DEF RestartFilled
<1>1. /\ fill_edges' = fill_edges (+) MapBack(g, fill_d2) /\ pending' = W /\ pc' = "preprocess1"
      /\ UNCHANGED <<instances, aborted, lower_bound, orig_graph>> /\ Kept
  BY DEF RestartFilled, Kept
<1>2. fill_d2 \subseteq Pairs(V(g))
  BY DEF TInv, GraphsInv
<1> HIDE DEF n, g, W
<1>4. /\ n \in Nat /\ g \in MappedGraphs(n) /\ IsGraph(g) /\ pp
      /\ Held = Back(g, fill_d2) /\ Held \cap Recorded = {} /\ Part(g) \subseteq Recorded \cup Held
      /\ Laid(LayoutOf(W, instances), Recorded \cup Held)
      /\ W \in Seq(MappedGraphs(n)) /\ W # <<>> /\ W[1] = g /\ Tail(W) = pending
      /\ pending \in Seq(MappedGraphs(n)) /\ Len(instances) \in Nat
      /\ Explained(pending, instances, <<>>, Recorded, {})
  BY <1>0, InReduction
<1>5. Held \in SUBSET NonEdges(orig_graph)
  <2> SUFFICES ASSUME NEW c \in Held PROVE c \in NonEdges(orig_graph)
    OBVIOUS
  <2>1. PICK e \in fill_d2 : c = MapBackEdge(g, e)
    BY <1>4 DEF Back
  <2>2. c \in Pairs(V(orig_graph))
    BY <1>0, <1>2, <1>4, <2>1, MappedPair, OriginalFacts DEF TInv
  <2>3. c \notin orig_graph.adj
    BY <1>4 DEF Recorded
  <2> QED
    BY <2>2, <2>3 DEF NonEdges
<1>6. BagInv' /\ Recorded' = Recorded \cup Held
  <2>1. MapBack(g, fill_d2) = SetToBag(Held)
    BY <1>4 DEF MapBack, Back
  <2> QED
    BY <1>1, <1>4, <1>5, <2>1, FillIsRecorded DEF TInv
<1>7. Explained(pending', instances', <<>>, Recorded \cup Held, {})
  <2>1. Explained(pending, instances, <<>>, Recorded \cup Held, {})
    BY <1>4, ExplainedByMore
  <2> DEFINE A == <<g>>
  <2>2. A \in Seq(MappedGraphs(n)) /\ W = A \o pending /\ \A i \in 1 .. Len(A) : A[i] = g
    BY <1>0, <1>4
  <2> HIDE DEF A
  <2>3. \A i \in 1 .. Len(A) : Part(A[i]) \subseteq Recorded \cup Held
    BY <1>4, <2>2
  <2>4. Explained(W, instances, <<>>, Recorded \cup Held, {})
    BY <1>4, <2>1, <2>2, <2>3, ExplainedWithFirst
  <2> QED
    BY <1>1, <2>4
<1>8. /\ pending' \in Seq(MappedGraphs(n)) /\ instances' \in Seq(Instances(n)) /\ AllReduced(instances')
      /\ aborted' \in BOOLEAN /\ lower_bound' \in 0 .. n
  <2>2. instances \in Seq(Instances(n)) /\ aborted \in BOOLEAN /\ lower_bound \in 0 .. n
    BY <1>0 DEF TInv, GraphsInv, BoundsInv
  <2>3. AllReduced(instances)
    BY <1>0, <1>4, InstancesReduced
  <2> QED
    BY <1>1, <1>4, <2>2, <2>3
<1>9. Laid(LayoutOf(pending', instances'), Recorded \cup Held)
  BY <1>1, <1>4
<1> QED
  BY <1>0, <1>1, <1>4, <1>6, <1>7, <1>8, <1>9, NextCall

\* One graph takes the place of the first, with new edges of the original graph.
WithFirst(W, h, W1) == W1 = <<h>> \o Tail(W)

\* A reworked graph in place of the first.
LEMMA ReworkedFirst ==
  ASSUME NEW n \in Nat, NEW W \in Seq(MappedGraphs(n)), W # <<>>, NEW g, g = W[1],
         NEW I, Len(I) \in Nat, NEW B, Laid(LayoutOf(W, I), B),
         NEW h \in MappedGraphs(n), NEW D, ExtendsBy(g, h, D), NEW W1, WithFirst(W, h, W1)
  PROVE  Laid(LayoutOf(W1, I), B \cup D) /\ D \cap B = {}
<1> DEFINE A == <<h>>
           G == LayoutOf(W, I)
<1>1. A \in Seq(MappedGraphs(n)) /\ Len(A) = 1 /\ \A i \in 1 .. Len(A) : i = 1 /\ A[i] = h
  OBVIOUS
<1>2. W1 = A \o Tail(W) /\ G = LayoutOf(W, I)
  BY DEF WithFirst
<1> HIDE DEF A, G
<1>3. \A i \in 1 .. Len(A) : Within(Part(A[i]), Part(W[1]))
  BY <1>1 DEF ExtendsBy
<1>4. \A e \in D : /\ e \in Pairs(UNION Part(W[1])) /\ e \notin Part(W[1])
                   /\ \A i \in 1 .. Len(A) : e \in Part(A[i])
  BY <1>1 DEF ExtendsBy
<1>5. \A i, j \in 1 .. Len(A) : i # j => Apart(Part(A[i]), Part(A[j]))
  BY <1>1
<1>6. Laid(LayoutOf(W1, I), B \cup D)
  BY <1>1, <1>2, <1>3, <1>4, <1>5, ReplaceFirst
<1>7. 1 \in DOMAIN G /\ G[1] = Part(g)
  <2>1. Len(W) \in Nat /\ Len(W) >= 1
    OBVIOUS
  <2>2. IsLayout(G, W, Len(W), I, Len(I))
    BY <1>2, <2>1, LayoutFacts
  <2> QED
    BY <2>1, <2>2 DEF IsLayout
<1>8. D \cap B = {}
  BY <1>2, <1>7 DEF Laid, ExtendsBy
<1> QED
  BY <1>6, <1>8

\* Edges of a part are edges of the numbers of the original graph.
LEMMA BackInOriginal ==
  ASSUME GraphsInv, NEW g \in MappedGraphs(orig_graph.n), NEW F \in SUBSET Pairs(V(g)),
         NEW D, D = Back(g, F), D \cap orig_graph.adj = {}
  PROVE  D \in SUBSET NonEdges(orig_graph)
<1> SUFFICES ASSUME NEW c \in D PROVE c \in NonEdges(orig_graph)
  OBVIOUS
<1>1. PICK e \in F : c = MapBackEdge(g, e)
  BY DEF Back
<1>2. orig_graph.n \in Nat /\ V(orig_graph) = 0 .. orig_graph.n - 1
  BY OriginalFacts
<1>3. c \in Pairs(V(orig_graph))
  BY <1>1, <1>2, MappedPair
<1> QED
  BY <1>3 DEF NonEdges

\* The edge that NeighborClique has found is recorded.
LEMMA AddKeeps ==
  ASSUME TInv, AddMissingEdge, UNCHANGED <<solved, k, apmcs>>
  PROVE  PartsInv'
<1> DEFINE n == orig_graph.n
           g == instance.graph
           x == MinOf(AlmostCliques(g))
           N == MissingAt(g, x)
           h == Filled(g, N)
           D == Back(g, N)
           W == <<g>> \o pending
           W1 == <<h>> \o pending
<1>0. /\ n = orig_graph.n /\ g = instance.graph /\ pc = "degree2" /\ N = MissingAt(g, x)
      /\ h = Filled(g, N) /\ W = <<g>> \o pending /\ W1 = <<h>> \o pending /\ D = Back(g, N)
      /\ fill_d2 = {} /\ x = MinOf(AlmostCliques(g)) /\ AlmostCliques(g) # {}
  BY DEF AddMissingEdge
<1>1. /\ fill_edges' = fill_edges (+) MapBack(g, N) /\ pending' = W1 /\ pc' = "preprocess1"
      /\ aborted' \in BOOLEAN
      /\ UNCHANGED <<instances, lower_bound, orig_graph>> /\ Kept
  BY DEF AddMissingEdge, WithMissing, Kept
<1> HIDE DEF n, g, x, N, h, D, W, W1
<1>4. /\ n \in Nat /\ g \in MappedGraphs(n) /\ IsGraph(g) /\ pp
      /\ Held = Back(g, fill_d2) /\ Held \cap Recorded = {} /\ Part(g) \subseteq Recorded \cup Held
      /\ Laid(LayoutOf(W, instances), Recorded \cup Held)
      /\ W \in Seq(MappedGraphs(n)) /\ W # <<>> /\ W[1] = g /\ Tail(W) = pending
      /\ pending \in Seq(MappedGraphs(n)) /\ Len(instances) \in Nat
      /\ Explained(pending, instances, <<>>, Recorded, {})
  BY <1>0, InReduction
<1>2. Held = {} /\ Recorded \cup Held = Recorded
  <2>1. Held = {}
    BY <1>0, <1>4 DEF Back
  <2> QED
    BY <2>1
<1>3. Active(g) = V(g)
  BY <1>0 DEF TInv, ReducedInv
<1>5. N \in SUBSET NonEdges(g) /\ N \subseteq Pairs(Active(g)) /\ N \in SUBSET Pairs(V(g))
  <2>1. \A e \in Pairs(Neighbors(g, x)) : e \in Pairs(V(g))
    BY PairsWithin DEF Neighbors
  <2> QED
    BY <1>0, <1>3, <2>1 DEF MissingAt, NonEdges
<1>14. n \in Nat /\ g \in MappedGraphs(n)
  BY <1>4
<1>6. IsReworked(g, h) /\ h.adj \ g.adj = N
  <2>1. h = Filled(g, N)
    BY <1>0
  <2> QED
    BY <1>5, <1>14, <2>1, AddingStep
<1>7. h \in MappedGraphs(n) /\ ExtendsBy(g, h, D)
  <2>1. D = Back(g, h.adj \ g.adj)
    BY <1>0, <1>6
  <2> QED
    BY <1>6, <1>14, <2>1, ReworkedPart
<1>8. Laid(LayoutOf(W1, instances), Recorded \cup D) /\ D \cap Recorded = {}
  <2>1. Laid(LayoutOf(W, instances), Recorded) /\ g = W[1] /\ WithFirst(W, h, W1)
    BY <1>0, <1>2, <1>4 DEF WithFirst
  <2>2. W \in Seq(MappedGraphs(n)) /\ W # <<>> /\ Len(instances) \in Nat
    BY <1>4
  <2> QED
    BY <1>7, <1>14, <2>1, <2>2, ReworkedFirst
<1>9. D \in SUBSET NonEdges(orig_graph)
  BY <1>0, <1>4, <1>5, <1>8, BackInOriginal DEF TInv, Recorded
<1>10. BagInv' /\ Recorded' = Recorded \cup D
  <2>1. MapBack(g, N) = SetToBag(D)
    BY <1>0 DEF MapBack, Back
  <2> QED
    BY <1>1, <1>8, <1>9, <2>1, FillIsRecorded DEF TInv
<1>11. Explained(pending', instances', <<>>, Recorded \cup D, {})
  <2>1. Explained(pending, instances, <<>>, Recorded \cup D, {})
    BY <1>4, ExplainedByMore
  <2> DEFINE A == <<h>>
  <2>2. A \in Seq(MappedGraphs(n)) /\ W1 = A \o pending /\ \A i \in 1 .. Len(A) : A[i] = h
    BY <1>0, <1>7
  <2> HIDE DEF A
  <2>3. \A i \in 1 .. Len(A) : Part(A[i]) \subseteq Recorded \cup D
    BY <1>2, <1>4, <1>7, <2>2 DEF ExtendsBy
  <2>4. Explained(W1, instances, <<>>, Recorded \cup D, {})
    BY <1>4, <2>1, <2>2, <2>3, ExplainedWithFirst
  <2> QED
    BY <1>1, <2>4
<1>12. /\ pending' \in Seq(MappedGraphs(n)) /\ instances' \in Seq(Instances(n)) /\ AllReduced(instances')
       /\ lower_bound' \in 0 .. n
  <2>1. W1 \in Seq(MappedGraphs(n))
    BY <1>0, <1>4, <1>7
  <2>2. instances \in Seq(Instances(n)) /\ lower_bound \in 0 .. n
    BY <1>0 DEF TInv, GraphsInv, BoundsInv
  <2>3. AllReduced(instances)
    BY <1>0, <1>4, InstancesReduced
  <2> QED
    BY <1>1, <2>1, <2>2, <2>3
<1>13. Laid(LayoutOf(pending', instances'), Recorded \cup D)
  BY <1>1, <1>8
<1> QED
  BY <1>0, <1>1, <1>4, <1>10, <1>11, <1>12, <1>13, NextCall

\* The reduced graph becomes an instance.
LEMMA InstanceKeeps ==
  ASSUME TInv, KeepInstance, UNCHANGED <<solved, k, apmcs>>
  PROVE  PartsInv'
<1> DEFINE n == orig_graph.n
           g == instance.graph
           W == <<g>> \o pending
<1>0. /\ n = orig_graph.n /\ g = instance.graph /\ pc = "degree2" /\ W = <<g>> \o pending
      /\ fill_d2 = {}
  BY DEF KeepInstance
<1>1. /\ instances' = Append(instances, instance) /\ pending' = pending /\ pc' = "preprocess1"
      /\ aborted' \in BOOLEAN
      /\ UNCHANGED <<lower_bound, orig_graph, fill_edges>> /\ Kept
  BY DEF KeepInstance, Kept
<1> HIDE DEF n, g, W
<1>4. /\ n \in Nat /\ g \in MappedGraphs(n) /\ IsGraph(g) /\ pp
      /\ Held = Back(g, fill_d2) /\ Held \cap Recorded = {} /\ Part(g) \subseteq Recorded \cup Held
      /\ Laid(LayoutOf(W, instances), Recorded \cup Held)
      /\ W \in Seq(MappedGraphs(n)) /\ W # <<>> /\ W[1] = g /\ Tail(W) = pending
      /\ pending \in Seq(MappedGraphs(n)) /\ Len(instances) \in Nat
      /\ Explained(pending, instances, <<>>, Recorded, {})
  BY <1>0, InReduction
<1>2. Held = {} /\ Recorded \cup Held = Recorded
  <2>1. Held = {}
    BY <1>0, <1>4 DEF Back
  <2> QED
    BY <2>1
<1>3. Active(g) = V(g) /\ instance.fill \subseteq NonEdges(g)
  BY <1>0 DEF TInv, ReducedInv
<1>5. instances \in Seq(Instances(n)) /\ lower_bound \in 0 .. n /\ instance \in Instances(n)
  BY <1>0 DEF TInv, GraphsInv, BoundsInv
<1>6. /\ Len(instances') = Len(instances) + 1 /\ instances' \in Seq(Instances(n))
      /\ \A i \in 1 .. Len(instances') :
           \/ i \in 1 .. Len(instances) /\ instances'[i] = instances[i]
           \/ instances'[i] = instance
  BY <1>1, <1>5
<1>7. AllReduced(instances')
  <2>1. AllReduced(instances)
    BY <1>0, <1>4, InstancesReduced
  <2> QED
    BY <1>0, <1>3, <1>6, <2>1 DEF AllReduced
<1>8. Laid(LayoutOf(pending', instances'), Recorded)
  <2>1. Laid(LayoutOf(W, instances), Recorded) /\ instance.graph = W[1] /\ pending' = Tail(W)
    BY <1>0, <1>1, <1>2, <1>4
  <2> QED
    BY <1>1, <1>4, <1>5, <2>1, FirstToLast
<1>9. Explained(pending', instances', <<>>, Recorded, {})
  <2>1. DOMAIN instances = 1 .. Len(instances) /\ DOMAIN instances' = 1 .. Len(instances')
    BY <1>5, <1>6
  <2>2. Part(g) \subseteq Recorded
    BY <1>2, <1>4
  <2> QED
    BY <1>0, <1>1, <1>4, <1>6, <2>1, <2>2 DEF Explained
<1>10. BagInv' /\ Recorded' = Recorded
  BY <1>1, NothingRecorded DEF TInv
<1>11. pending' \in Seq(MappedGraphs(n)) /\ lower_bound' \in 0 .. n
  BY <1>1, <1>4, <1>5
<1> QED
  BY <1>0, <1>1, <1>4, <1>6, <1>7, <1>8, <1>9, <1>10, <1>11, NextCall

-----------------------------------------------------------------------------
(* The first and the last step of Preprocess, and MapBack. *)

\* The graph that was read is the only part.
OnlyOriginal(W, I) == \/ Len(W) = 1 /\ W[1] = orig_graph /\ Len(I) = 0
                      \/ Len(W) = 0 /\ Len(I) = 1 /\ I[1].graph = orig_graph

\* One part alone lies apart from all others.
LEMMA OneLaid ==
  ASSUME GraphsInv, NEW W, NEW I, OnlyOriginal(W, I)
  PROVE  Laid(LayoutOf(W, I), orig_graph.adj)
<1> DEFINE G == LayoutOf(W, I)
           w == Len(W)
           l == Len(I)
<1>1. /\ G = LayoutOf(W, I) /\ w = Len(W) /\ l = Len(I) /\ w \in Nat /\ l \in Nat
      /\ \/ w = 1 /\ W[1] = orig_graph /\ l = 0
         \/ w = 0 /\ l = 1 /\ I[1].graph = orig_graph
  BY DEF OnlyOriginal
<1> HIDE DEF G, w, l
<1>2. IsLayout(G, W, w, I, l)
  BY <1>1, LayoutFacts
<1>3. DOMAIN G = 1 .. 1 /\ \A j \in DOMAIN G : j = 1
  <2>2. (w = 1 /\ l = 0) \/ (w = 0 /\ l = 1)
    BY <1>1
  <2>1. w + l = 1
    BY <2>2
  <2> QED
    BY <1>2, <2>1 DEF IsLayout
<1>4. G[1] = orig_graph.adj
  <2>1. Part(orig_graph) = orig_graph.adj
    BY OriginalFacts
  <2>2. CASE w = 1
    <3>1. 1 \in 1 .. w /\ W[1] = orig_graph
      BY <1>1, <2>2
    <3> QED
      BY <1>2, <2>1, <2>2, <3>1 DEF IsLayout
  <2>3. CASE w # 1
    <3>1. w = 0 /\ l = 1 /\ 1 \in 1 .. l /\ w + 1 = 1 /\ I[1].graph = orig_graph
      BY <1>1, <2>3
    <3> QED
      BY <1>2, <2>1, <3>1 DEF IsLayout
  <2> QED
    BY <2>2, <2>3
<1>5. Laid(G, orig_graph.adj)
  BY <1>3, <1>4 DEF Laid
<1> QED
  BY <1>1, <1>5

\* The call of Preprocess.
LEMMA PreprocessKeeps ==
  ASSUME TInv, Preprocess, UNCHANGED <<solved, k, apmcs>>
  PROVE  PartsInv'
<1> DEFINE n == orig_graph.n
           read == [graph |-> orig_graph, upper_bound |-> Infinity, fill |-> {}]
<1>0. /\ pc = "preprocess" /\ pc' = "preprocess1" /\ pending = <<>> /\ instances = <<>>
      /\ fill_edges = EmptyBag /\ n = orig_graph.n
      /\ \/ pp /\ pending' = <<orig_graph>> /\ instances' = <<>>
         \/ ~pp /\ pending' = <<>> /\ instances' = <<read>>
  BY DEF Preprocess, TInv, PhaseInv
<1>1. /\ UNCHANGED <<orig_graph, pp, instance, d2, fill_d2, lower_bound, fill_edges, solutions, aborted>>
      /\ UNCHANGED <<solved, k, apmcs>>
  BY DEF Preprocess
<1>2. /\ n \in Nat /\ orig_graph \in MappedGraphs(n) /\ Part(orig_graph) = orig_graph.adj /\ GraphsInv
  BY OriginalFacts DEF TInv
<1>3. read \in Instances(n) /\ read.graph = orig_graph /\ read.fill = {}
  BY <1>2 DEF Instances, Infinity
<1> HIDE DEF n, read
<1>4. pending' \in Seq(MappedGraphs(n)) /\ instances' \in Seq(Instances(n))
  <2>1. <<>> \in Seq(MappedGraphs(n)) /\ <<>> \in Seq(Instances(n))
    OBVIOUS
  <2>2. <<orig_graph>> \in Seq(MappedGraphs(n))
    BY <1>2
  <2>3. <<read>> \in Seq(Instances(n))
    BY <1>3
  <2> QED
    BY <1>0, <2>1, <2>2, <2>3
<1>5. GraphsInv'
  BY <1>0, <1>1, <1>4 DEF TInv, GraphsInv
<1>6. PhaseInv'
  BY <1>0, <1>1 DEF TInv, PhaseInv
<1>7. BagInv' /\ Recorded' = Recorded
  BY <1>1, NothingRecorded DEF TInv
<1>8. Recorded = orig_graph.adj
  BY <1>0 DEF Recorded, EmptyBag, SetToBag, BagToSet
<1>9. LayoutInv'
  <2>1. Reduced' = <<>> /\ Held' = {} /\ <<>> \o pending' = pending'
    BY <1>0 DEF Reduced, Held
  <2>2. Laid(LayoutOf(pending', instances'), orig_graph.adj)
    <3>1. CASE pp
      <4> DEFINE W == <<orig_graph>>
                 I == <<>>
      <4>1. Len(W) = 1 /\ Len(I) = 0 /\ W[1] = orig_graph /\ pending' = W /\ instances' = I
        BY <1>0, <3>1
      <4> HIDE DEF W, I
      <4>2. GraphsInv /\ OnlyOriginal(W, I)
        BY <1>2, <4>1 DEF OnlyOriginal
      <4>3. Laid(LayoutOf(W, I), orig_graph.adj)
        BY <4>2, OneLaid
      <4> QED
        BY <4>1, <4>3
    <3>2. CASE ~pp
      <4> DEFINE W == <<>>
                 I == <<read>>
      <4>1. Len(W) = 0 /\ Len(I) = 1 /\ I[1].graph = orig_graph /\ pending' = W /\ instances' = I
        BY <1>0, <1>3, <3>2
      <4> HIDE DEF W, I
      <4>2. GraphsInv /\ OnlyOriginal(W, I)
        BY <1>2, <4>1 DEF OnlyOriginal
      <4>3. Laid(LayoutOf(W, I), orig_graph.adj)
        BY <4>2, OneLaid
      <4> QED
        BY <4>1, <4>3
    <3> QED
      BY <3>1, <3>2
  <2>3. Explained(pending', instances', <<>>, orig_graph.adj, {})
    BY <1>0, <1>2, <1>3 DEF Explained
  <2>4. orig_graph.adj \cup {} = orig_graph.adj
    OBVIOUS
  <2> QED
    BY <1>0, <1>7, <1>8, <2>1, <2>2, <2>3, <2>4 DEF LayoutInv
<1>10. ReducedInv'
  BY <1>0 DEF ReducedInv
<1>11. InstancesInv'
  <2>1. CASE pp
    BY <1>0, <2>1 DEF InstancesInv
  <2>2. CASE ~pp
    <3>1. Len(instances') = 1 /\ \A i \in 1 .. Len(instances') : instances'[i] = read
      BY <1>0, <2>2
    <3>2. AsRead'
      BY <1>0, <1>1, <1>3, <2>2, <3>1 DEF AsRead
    <3> QED
      BY <1>0, <1>3, <3>1, <3>2 DEF InstancesInv
  <2> QED
    BY <2>1, <2>2
<1> QED
  BY <1>1, <1>5, <1>6, <1>7, <1>9, <1>10, <1>11 DEF PartsInv, TInv, BoundsInv

\* When no graph is left, the instances lie apart.
LEMMA InstancesApart ==
  ASSUME TInv, pending = <<>>, pc \in {"preprocess1", "solve", "map_back"},
         NEW G, G = LayoutOf(<<>>, instances), NEW n, n = orig_graph.n
  PROVE  /\ Laid(G, Recorded) /\ n \in Nat /\ Len(instances) \in Nat /\ DOMAIN instances = 1 .. Len(instances)
         /\ DOMAIN G = 1 .. Len(instances)
         /\ \A i \in 1 .. Len(instances) :
              G[i] = Part(instances[i].graph) /\ instances[i].graph \in MappedGraphs(n)
         /\ Explained(<<>>, instances, <<>>, Recorded, {})
<1>1. /\ n \in Nat /\ Len(instances) \in Nat /\ DOMAIN instances = 1 .. Len(instances)
      /\ \A i \in 1 .. Len(instances) : instances[i].graph \in MappedGraphs(n)
  BY OriginalFacts, GraphsFacts DEF TInv
<1>2. Reduced = <<>> /\ Held = {} /\ pc # "done"
  BY DEF Reduced, Held
<1>3. Reduced \o pending = <<>> /\ Recorded \cup Held = Recorded
  BY <1>2
<1>4. Laid(G, Recorded) /\ Explained(<<>>, instances, <<>>, Recorded, {})
  BY <1>2, <1>3 DEF TInv, LayoutInv
<1> DEFINE W == <<>>
<1>5. Len(W) = 0 /\ G = LayoutOf(W, instances)
  OBVIOUS
<1> HIDE DEF W
<1>6. IsLayout(G, W, 0, instances, Len(instances))
  BY <1>1, <1>5, LayoutFacts
<1>7. DOMAIN G = 1 .. Len(instances) /\ \A i \in 1 .. Len(instances) : G[i] = Part(instances[i].graph)
  BY <1>1, <1>6 DEF IsLayout
<1> QED
  BY <1>1, <1>4, <1>7

\* Fill of some of the instances, which all of it is new.
FillFor(I, fill) ==
  I \subseteq 1 .. Len(instances) /\ \A i \in I : fill[i] \in SUBSET NonEdges(instances[i].graph)

AllBack(I, fill) == UNION {BackOf(instances, fill, i) : i \in I}

IsNewFill(I, fill) ==
  \A i \in I : \A c \in BackOf(instances, fill, i) :
    c \in Pairs(UNION Part(instances[i].graph)) /\ c \notin Part(instances[i].graph)

\* The fill of instances, mapped back, is new to the bag and to the graph.
LEMMA FillOfInstances ==
  ASSUME TInv, pending = <<>>, pc \in {"preprocess1", "map_back"},
         NEW I, NEW fill, FillFor(I, fill), NEW N, N = AllBack(I, fill),
         NEW b, b = WithFill(fill_edges, I, fill)
  PROVE  /\ OneEach(b) /\ DOMAIN b = DOMAIN fill_edges \cup N
         /\ N \in SUBSET NonEdges(orig_graph) /\ (AsRead \/ IsNewFill(I, fill))
<1> DEFINE n == orig_graph.n
           G == LayoutOf(<<>>, instances)
           B(i) == BackOf(instances, fill, i)
<1>0. /\ n = orig_graph.n /\ G = LayoutOf(<<>>, instances) /\ GraphsInv
      /\ N = UNION {BackOf(instances, fill, i) : i \in I}
  BY DEF TInv, AllBack
<1>1. \A i : B(i) = Back(instances[i].graph, fill[i]) /\ B(i) = BackOf(instances, fill, i)
  BY DEF BackOf
<1> HIDE DEF n, G, B
<1>2. /\ Laid(G, Recorded) /\ n \in Nat /\ Len(instances) \in Nat
      /\ DOMAIN G = 1 .. Len(instances)
      /\ \A i \in 1 .. Len(instances) :
           G[i] = Part(instances[i].graph) /\ instances[i].graph \in MappedGraphs(n)
  BY <1>0, InstancesApart
<1>3. ASSUME NEW i \in I
      PROVE  /\ i \in 1 .. Len(instances) /\ instances[i].graph \in MappedGraphs(n)
             /\ fill[i] \in SUBSET NonEdges(instances[i].graph)
             /\ fill[i] \in SUBSET Pairs(V(instances[i].graph))
  BY <1>2 DEF NonEdges, FillFor
<1>4. CASE AsRead
  <2>1. DOMAIN fill_edges = {}
    BY <1>4 DEF AsRead, EmptyBag, SetToBag
  <2>2. \A i, j \in I : i = j
    BY <1>2, <1>3, <1>4 DEF AsRead
  <2>3. ASSUME NEW i \in I PROVE B(i) \in SUBSET NonEdges(orig_graph)
    <3> DEFINE g == instances[i].graph
               F == fill[i]
    <3>1. g = orig_graph /\ g.adj = Part(g) /\ B(i) = Back(g, F) /\ F \in SUBSET Pairs(V(g))
          /\ F \in SUBSET NonEdges(g) /\ g \in MappedGraphs(orig_graph.n)
      BY <1>0, <1>1, <1>3, <1>4, OriginalFacts DEF AsRead
    <3> HIDE DEF g, F
    <3>2. B(i) \cap orig_graph.adj = {}
      <4> SUFFICES ASSUME NEW e \in F PROVE MapBackEdge(g, e) \notin g.adj
        BY <3>1 DEF Back
      <4>1. e \in Pairs(V(g)) /\ e \notin g.adj
        BY <3>1 DEF NonEdges
      <4> QED
        BY <1>0, <1>2, <3>1, <4>1, PartFacts
    <3> QED
      BY <1>0, <3>1, <3>2, BackInOriginal
  <2>4. N \in SUBSET NonEdges(orig_graph)
    BY <1>0, <1>1, <2>3
  <2>5. OneEach(fill_edges)
    BY DEF TInv, BagInv
  <2>6. /\ \A i \in I : BackOf(instances, fill, i) \cap DOMAIN fill_edges = {}
        /\ \A i, j \in I : i # j => BackOf(instances, fill, i) \cap BackOf(instances, fill, j) = {}
    BY <2>1, <2>2
  <2> QED
    BY <1>0, <1>4, <2>4, <2>5, <2>6, FillAddedOnce
<1>5. CASE ~AsRead
  <2>1. ASSUME NEW i \in I
        PROVE  \A c \in B(i) : /\ c \in Pairs(UNION G[i]) /\ c \notin G[i] /\ c \notin Recorded
                               /\ c \in NonEdges(orig_graph)
    <3> DEFINE g == instances[i].graph
               F == fill[i]
    <3>1. /\ i \in DOMAIN G /\ g \in MappedGraphs(orig_graph.n) /\ G[i] = Part(g) /\ B(i) = Back(g, F)
          /\ F \in SUBSET NonEdges(g) /\ F \in SUBSET Pairs(V(g))
      BY <1>0, <1>1, <1>2, <1>3
    <3>2. Active(g) = V(g)
      BY <1>3, <1>5 DEF TInv, InstancesInv
    <3>3. orig_graph.adj \subseteq Recorded
      BY DEF Recorded
    <3> HIDE DEF g, F
    <3>4. F \subseteq Pairs(Active(g))
      BY <3>1, <3>2
    <3> SUFFICES ASSUME NEW c \in B(i)
                 PROVE  /\ c \in Pairs(UNION G[i]) /\ c \notin G[i] /\ c \notin Recorded
                        /\ c \in NonEdges(orig_graph)
      OBVIOUS
    <3>5. c \in Back(g, F) /\ Laid(G, Recorded)
      BY <1>2, <3>1
    <3>6. GraphsInv
      BY <1>0
    <3> QED
      BY <3>1, <3>3, <3>4, <3>5, <3>6, NewFill
  <2>2. ASSUME NEW i \in I, NEW j \in I, i # j PROVE B(i) \cap B(j) = {}
    <3>1. Apart(G[i], G[j])
      BY <1>2, <1>3, <2>2 DEF Laid
    <3> SUFFICES ASSUME NEW c \in B(i), c \in B(j) PROVE FALSE
      OBVIOUS
    <3>2. c \in Pairs(UNION G[i]) /\ c \notin G[i] /\ c \in Pairs(UNION G[j])
      BY <2>1
    <3> QED
      BY <3>1, <3>2, NewEdgeElsewhere
  <2>3. OneEach(fill_edges)
    BY DEF TInv, BagInv
  <2>4. /\ \A i \in I : BackOf(instances, fill, i) \cap DOMAIN fill_edges = {}
        /\ \A i, j \in I : i # j => BackOf(instances, fill, i) \cap BackOf(instances, fill, j) = {}
    BY <1>1, <2>1, <2>2 DEF Recorded, BagToSet
  <2>5. N \in SUBSET NonEdges(orig_graph)
    BY <1>0, <1>1, <2>1
  <2>6. IsNewFill(I, fill)
    BY <1>1, <1>2, <1>3, <2>1 DEF IsNewFill
  <2>7. OneEach(b) /\ DOMAIN b = DOMAIN fill_edges \cup N
    BY <1>0, <2>3, <2>4, FillAddedOnce
  <2> QED
    BY <2>5, <2>6, <2>7
<1> QED
  BY <1>4, <1>5

\* A bag of nothing is the empty one.
LEMMA EmptyOnce ==
  ASSUME NEW bag, OneEach(bag), DOMAIN bag = {}
  PROVE  bag = EmptyBag
BY DEF OneEach, EmptyBag, SetToBag

\* The instances that are left, in their order.
NoneOf(settled, left, l) == \A j \in 1 .. l : left[j] \notin settled

\* They are selected, each once, and none is settled.
LEMMA LeftOnes ==
  ASSUME NEW N \in Nat, NEW settled, NEW S, S = (1 .. N) \ settled,
         NEW left, left = Ascending(S), NEW l, l = Cardinality(S)
  PROVE  /\ l \in Nat /\ DOMAIN left = 1 .. l /\ Selects(left, l, N)
         /\ NoneOf(settled, left, l) /\ (N <= 1 => l <= 1)
<1>1. S \in SUBSET Nat /\ IsFiniteSet(S) /\ left = Ascending(S) /\ l = Cardinality(S)
  <2>1. IsFiniteSet(1 .. N)
    <3>1. 1 \in Int /\ N \in Int
      OBVIOUS
    <3> QED
      BY <3>1, FS_Interval
  <2>2. S \in SUBSET (1 .. N) /\ S \in SUBSET Nat
    OBVIOUS
  <2>3. IsFiniteSet(S)
    BY <2>1, <2>2, FS_Subset
  <2> QED
    BY <2>2, <2>3
<1>2. \A v \in S : v \in 1 .. N /\ v \notin settled
  OBVIOUS
<1>3. /\ DOMAIN left = 1 .. l /\ l \in Nat
      /\ \A j \in 1 .. l : left[j] \in S
      /\ \A i, j \in 1 .. l : i < j => left[i] < left[j]
  BY <1>1, AscendingFacts
<1>4. \A j \in 1 .. l : left[j] \in 1 .. N /\ left[j] \notin settled
  BY <1>2, <1>3
<1>5. ASSUME NEW i \in 1 .. l, NEW j \in 1 .. l, left[i] = left[j] PROVE i = j
  <2>1. left[i] \in Int /\ left[j] \in Int
    BY <1>4
  <2>3. (i < j => left[i] < left[j]) /\ (j < i => left[j] < left[i])
    BY <1>3
  <2>4. ~(left[i] < left[j]) /\ ~(left[j] < left[i])
    BY <1>5, <2>1
  <2>2. ~(i < j) /\ ~(j < i)
    BY <2>3, <2>4
  <2> QED
    BY <1>3, <2>2
<1>6. ASSUME N <= 1 PROVE l <= 1
  <2> SUFFICES ASSUME l >= 2 PROVE FALSE
    BY <1>3
  <2>1. 1 \in 1 .. l /\ 2 \in 1 .. l /\ 1 < 2
    BY <1>3
  <2>2. left[1] < left[2] /\ left[1] \in 1 .. N /\ left[2] \in 1 .. N
    BY <1>3, <1>4, <2>1
  <2> QED
    BY <1>6, <2>2
<1> QED
  BY <1>3, <1>4, <1>5, <1>6 DEF Selects, NoneOf

\* The fill of the settled instances is recorded, and the others are left.
LEMMA FilterKeeps ==
  ASSUME TInv, FilterInstances, UNCHANGED <<solved, k, apmcs>>
  PROVE  PartsInv'
<1> DEFINE n == orig_graph.n
           m == Len(instances)
           settled == {i \in DOMAIN instances : SettledByBound(instances[i])}
           S == DOMAIN instances \ settled
           left == Ascending(S)
           l == Cardinality(S)
           fill == [i \in settled |-> instances[i].fill]
           N == AllBack(settled, fill)
           G == LayoutOf(<<>>, instances)
<1>0. /\ n = orig_graph.n /\ pc = "preprocess1" /\ pending = <<>> /\ m = Len(instances)
      /\ settled \subseteq DOMAIN instances /\ S = DOMAIN instances \ settled
      /\ left = Ascending(S) /\ l = Cardinality(S)
      /\ (\A i \in settled : fill[i] = instances[i].fill)
      /\ N = AllBack(settled, fill) /\ G = LayoutOf(<<>>, instances)
  BY DEF FilterInstances
<1>1. /\ fill_edges' = WithFill(fill_edges, settled, fill)
      /\ instances' = [j \in DOMAIN left |-> instances[left[j]]]
      /\ pc' = "solve" /\ pending' = <<>>
      /\ UNCHANGED <<orig_graph, pp, instance, d2, fill_d2, lower_bound, solutions, aborted>>
      /\ UNCHANGED <<solved, k, apmcs>>
  BY DEF FilterInstances
<1> HIDE DEF n, m, settled, S, left, l, fill, N, G
<1>2. /\ Laid(G, Recorded) /\ n \in Nat /\ m \in Nat /\ DOMAIN instances = 1 .. m
      /\ Explained(<<>>, instances, <<>>, Recorded, {})
  BY <1>0, InstancesApart
<1>3. /\ l \in Nat /\ DOMAIN left = 1 .. l
      /\ \A j \in 1 .. l : left[j] \in 1 .. m /\ left[j] \notin settled
      /\ \A i, j \in 1 .. l : left[i] = left[j] => i = j
      /\ Selects(left, l, m) /\ (m <= 1 => l <= 1)
  <2>1. S = (1 .. m) \ settled /\ left = Ascending(S) /\ l = Cardinality(S) /\ m \in Nat
    BY <1>0, <1>2
  <2>2. /\ l \in Nat /\ DOMAIN left = 1 .. l /\ Selects(left, l, m)
        /\ NoneOf(settled, left, l) /\ (m <= 1 => l <= 1)
    BY <2>1, LeftOnes
  <2> QED
    BY <2>2 DEF Selects, NoneOf
<1>4. /\ instances' = [j \in 1 .. l |-> instances[left[j]]] /\ Len(instances') = l
      /\ \A j \in 1 .. l : instances'[j] = instances[left[j]]
  BY <1>1, <1>3
<1>5. instances \in Seq(Instances(n)) /\ \A i \in 1 .. m : instances[i] \in Instances(n)
  <2>1. instances \in Seq(Instances(n))
    BY <1>0 DEF TInv, GraphsInv
  <2> QED
    BY <1>0, <2>1
<1>6. instances' \in Seq(Instances(n))
  <2>1. \A j \in 1 .. l : instances[left[j]] \in Instances(n)
    BY <1>3, <1>5
  <2> QED
    BY <1>3, <1>4, <2>1
<1>7. GraphsInv'
  BY <1>0, <1>1, <1>6 DEF TInv, GraphsInv
<1>8. PhaseInv'
  BY <1>0, <1>1 DEF TInv, PhaseInv
<1>9. FillFor(settled, fill)
  BY <1>0, <1>2 DEF TInv, InstancesInv, FillFor
<1>10. /\ OneEach(fill_edges') /\ DOMAIN fill_edges' = DOMAIN fill_edges \cup N
       /\ N \in SUBSET NonEdges(orig_graph) /\ (AsRead \/ IsNewFill(settled, fill))
  <2> DEFINE b == fill_edges'
  <2>1. b = WithFill(fill_edges, settled, fill) /\ N = AllBack(settled, fill)
    BY <1>0, <1>1
  <2> HIDE DEF b
  <2>2. /\ OneEach(b) /\ DOMAIN b = DOMAIN fill_edges \cup N
        /\ N \in SUBSET NonEdges(orig_graph) /\ (AsRead \/ IsNewFill(settled, fill))
    BY <1>0, <1>9, <2>1, FillOfInstances
  <2> QED
    BY <2>2 DEF b
<1>11. BagInv' /\ Recorded' = Recorded \cup N
  BY <1>1, <1>10 DEF TInv, BagInv, Recorded, BagToSet
<1>12. AsRead => N = {}
  <2> SUFFICES ASSUME AsRead, NEW i \in settled PROVE BackOf(instances, fill, i) = {}
    BY <1>0 DEF AllBack
  <2>1. fill[i] = {}
    BY <1>0, <1>2 DEF AsRead
  <2> QED
    BY <2>1 DEF BackOf, Back
<1>13. NewInOthers(N, instances, left, l)
  <2> SUFFICES ASSUME NEW e \in N
               PROVE  \E i \in 1 .. Len(instances) :
                        /\ e \in Pairs(UNION Part(instances[i].graph)) /\ e \notin Part(instances[i].graph)
                        /\ \A j \in 1 .. l : left[j] # i
    BY DEF NewInOthers
  <2>1. PICK i \in settled : e \in BackOf(instances, fill, i)
    BY <1>0 DEF AllBack
  <2>2. e \in Pairs(UNION Part(instances[i].graph)) /\ e \notin Part(instances[i].graph)
    BY <1>10, <1>12, <2>1 DEF IsNewFill
  <2>3. i \in 1 .. Len(instances) /\ \A j \in 1 .. l : left[j] # i
    BY <1>0, <1>2, <1>3
  <2> QED
    BY <2>2, <2>3
<1>14. Laid(LayoutOf(<<>>, instances'), Recorded \cup N)
  <2> DEFINE I1 == instances'
  <2>1. Selected(I1, instances, left, l)
    BY <1>4 DEF Selected
  <2>2. Laid(LayoutOf(<<>>, instances), Recorded) /\ Len(instances) \in Nat
    BY <1>0, <1>2
  <2>3. Selects(left, l, Len(instances)) /\ l \in Nat
    BY <1>0, <1>3
  <2> HIDE DEF I1
  <2>4. Laid(LayoutOf(<<>>, I1), Recorded \cup N)
    BY <1>13, <2>1, <2>2, <2>3, SomeAreLeft
  <2> QED
    BY <2>4 DEF I1
<1>15. LayoutInv'
  <2>1. Reduced' = <<>> /\ Held' = {} /\ <<>> \o pending' = <<>>
    BY <1>1 DEF Reduced, Held
  <2>2. Explained(<<>>, instances', <<>>, Recorded \cup N, {})
    <3>1. ASSUME NEW i \in DOMAIN instances' PROVE Part(instances'[i].graph) \subseteq Recorded \cup N
      <4>1. i \in 1 .. l /\ left[i] \in DOMAIN instances /\ instances'[i] = instances[left[i]]
        BY <1>2, <1>3, <1>4
      <4> QED
        BY <1>2, <4>1 DEF Explained
    <3> QED
      BY <3>1 DEF Explained
  <2>3. (Recorded \cup N) \cup {} = Recorded \cup N
    OBVIOUS
  <2> QED
    BY <1>1, <1>11, <1>14, <2>1, <2>2, <2>3 DEF LayoutInv
<1>16. ReducedInv'
  BY <1>1 DEF ReducedInv
<1>17. InstancesInv'
  <2>1. ASSUME NEW j \in 1 .. Len(instances')
        PROVE  /\ instances'[j].fill \subseteq NonEdges(instances'[j].graph)
               /\ ~AsRead => Active(instances'[j].graph) = V(instances'[j].graph)
               /\ AsRead => instances'[j].graph = orig_graph /\ instances'[j].fill = {}
    <3>1. j \in 1 .. l /\ left[j] \in 1 .. Len(instances) /\ instances'[j] = instances[left[j]]
      BY <1>0, <1>3, <1>4
    <3> QED
      BY <1>0, <3>1 DEF TInv, InstancesInv, AsRead
  <2>2. CASE AsRead
    <3>1. fill_edges' = EmptyBag
      <4>1. DOMAIN fill_edges' = {}
        BY <1>10, <1>12, <2>2 DEF AsRead, EmptyBag, SetToBag
      <4> QED
        BY <1>10, <4>1, EmptyOnce
    <3>2. AsRead'
      <4>1. Len(instances') <= 1
        BY <1>0, <1>3, <1>4, <2>2 DEF AsRead
      <4> QED
        BY <1>1, <2>1, <2>2, <3>1, <4>1 DEF AsRead
    <3> QED
      BY <2>1, <3>2 DEF InstancesInv
  <2>3. CASE ~AsRead
    BY <2>1, <2>3 DEF InstancesInv
  <2> QED
    BY <2>2, <2>3
<1> QED
  BY <1>1, <1>7, <1>8, <1>11, <1>15, <1>16, <1>17 DEF PartsInv, TInv, BoundsInv

\* The fill of all solutions is recorded.
LEMMA MapBackKeeps ==
  ASSUME TInv, MapBackSolutions, UNCHANGED driver
  PROVE  TInv'
<1> DEFINE n == orig_graph.n
           I == 1 .. Len(solutions)
           width(i) == ChordalWidth(Filled(instances[i].graph, solutions[i]))
           widths == {lower_bound} \cup {width(i) : i \in I}
           N == AllBack(I, solutions)
<1>0. n = orig_graph.n /\ pc = "map_back" /\ pc' = "done" /\ pending = <<>> /\ N = AllBack(I, solutions)
  BY DEF MapBackSolutions, TInv, PhaseInv
<1>1. /\ fill_edges' = WithFill(fill_edges, I, solutions) /\ treewidth' = MaxOf(widths)
      /\ aborted' \in BOOLEAN /\ Len(solutions) = Len(instances)
      /\ UNCHANGED <<orig_graph, pp, pending, instance, d2, fill_d2, lower_bound, instances, solutions>>
      /\ UNCHANGED <<method, solved, k, apmcs, clingo_failed>>
  BY DEF MapBackSolutions, driver
<1>2. /\ n \in Nat /\ Len(instances) \in Nat
      /\ \A i \in 1 .. Len(instances) : instances[i].graph \in MappedGraphs(n)
  BY OriginalFacts, GraphsFacts DEF TInv
<1>3. \A i \in I : i \in 1 .. Len(instances) /\ solutions[i] \in SUBSET NonEdges(instances[i].graph)
  <2>1. solved = Len(instances)
    BY <1>0 DEF TInv, PhaseInv
  <2> QED
    BY <1>1, <2>1 DEF TInv, SolutionsInv
<1>4. widths \in SUBSET (0 .. n)
  <2>1. lower_bound \in 0 .. n
    BY DEF TInv, BoundsInv
  <2>2. ASSUME NEW i \in I PROVE width(i) \in 0 .. n
    <3> DEFINE g == instances[i].graph
               h == Filled(g, solutions[i])
    <3>1. g \in MappedGraphs(n) /\ solutions[i] \in SUBSET NonEdges(g)
      BY <1>2, <1>3
    <3>2. h.n = g.n /\ width(i) = ChordalWidth(h)
      BY DEF Filled
    <3>3. h = Filled(g, solutions[i])
      OBVIOUS
    <3> HIDE DEF g, h, n, width
    <3>4. IsGraph(g) /\ g.n \in Nat /\ g.n <= n
      BY <1>2, <3>1, MappedFacts
    <3>5. IsGraph(h)
      BY <3>1, <3>3, <3>4, FilledIsGraph
    <3>6. ChordalWidth(h) \in 0 .. h.n
      BY <3>5, WidthInRange
    <3> QED
      BY <1>2, <3>2, <3>4, <3>6
  <2> QED
    BY <2>1, <2>2
<1>5. FillFor(I, solutions)
  BY <1>3 DEF FillFor
<1>6. lower_bound \in widths
  OBVIOUS
<1> HIDE DEF n, I, width, widths, N
<1>7. MaxOf(widths) \in 0 .. n
  <2>1. widths \in SUBSET Nat /\ widths # {} /\ \A w \in widths : w <= n
    BY <1>2, <1>4, <1>6
  <2>2. MaxOf(widths) \in widths
    BY <1>2, <2>1, MaxIs
  <2> QED
    BY <1>4, <2>2
<1>8. BagInv'
  <2> DEFINE b == fill_edges'
  <2>1. b = WithFill(fill_edges, I, solutions)
    BY <1>1
  <2> HIDE DEF b
  <2>3. pc \in {"preprocess1", "map_back"} /\ N = AllBack(I, solutions) /\ FillFor(I, solutions)
    BY <1>0, <1>5
  <2>2. OneEach(b) /\ DOMAIN b = DOMAIN fill_edges \cup N /\ N \in SUBSET NonEdges(orig_graph)
    BY <1>0, <2>1, <2>3, FillOfInstances
  <2> QED
    BY <1>1, <2>2 DEF TInv, BagInv, b
<1>9. GraphsInv'
  BY <1>0, <1>1 DEF TInv, GraphsInv
<1>10. PhaseInv'
  BY <1>0, <1>1 DEF TInv, PhaseInv
<1>11. LayoutInv' /\ ReducedInv' /\ InstancesInv'
  BY <1>0 DEF LayoutInv, Held, ReducedInv, InstancesInv
<1>12. SolutionsInv'
  BY <1>0, <1>1 DEF TInv, SolutionsInv, Solving
<1>13. BoundsInv'
  <2>1. treewidth' \in -1 .. n
    BY <1>1, <1>2, <1>7
  <2> QED
    BY <1>0, <1>1, <2>1 DEF TInv, BoundsInv
<1> QED
  BY <1>8, <1>9, <1>10, <1>11, <1>12, <1>13 DEF TInv

-----------------------------------------------------------------------------
(* The drivers. *)

LEMMA CallPreprocessKeeps ==
  ASSUME TInv, CallPreprocess
  PROVE  TInv'
<1>1. PreprocessStep /\ UNCHANGED <<solved, k, apmcs, clingo_failed>>
      /\ (method' \in Methods \/ method' = method)
  BY DEF CallPreprocess
<1>2. PartsInv'
  BY <1>1, PreprocessKeeps, TakeKeeps, SplitKeeps, KeepKeeps, EliminateKeeps, RestartKeeps, AddKeeps,
     InstanceKeeps, FilterKeeps DEF PreprocessStep
<1>3. /\ pc \in {"preprocess", "preprocess1", "degree2"} /\ UNCHANGED <<orig_graph, solutions, treewidth>>
  BY <1>1 DEF PreprocessStep, Preprocess, TakeTriangulation, SplitIntoAtoms, KeepAtom, EliminateDegree2,
     RestartFilled, AddMissingEdge, KeepInstance, FilterInstances
<1>4. solved' = 0 /\ k' = 0 /\ apmcs' = {} /\ solutions' = <<>>
  BY <1>1, <1>3 DEF TInv, PhaseInv
<1>5. SolutionsInv'
  <2>1. Len(instances') \in Nat
    BY <1>2 DEF PartsInv, GraphsInv
  <2>2. Len(solutions') = 0 /\ <<>> \in Seq(SUBSET (SUBSET Nat))
    BY <1>4
  <2> QED
    BY <1>4, <2>1, <2>2 DEF SolutionsInv
<1>6. BoundsInv'
  <2>1. orig_graph.n \in Nat
    BY OriginalFacts DEF TInv
  <2>2. lower_bound' \in 0 .. orig_graph'.n /\ aborted' \in BOOLEAN
    BY <1>2 DEF PartsInv
  <2> QED
    BY <1>1, <1>3, <1>4, <2>1, <2>2 DEF TInv, BoundsInv
<1> QED
  BY <1>2, <1>5, <1>6 DEF TInv, PartsInv

\* The preprocessor's state is left alone.
LEMMA SolvingKeeps ==
  ASSUME TInv, pc = "solve", UNCHANGED unsolved, pc' \in {"solve", "map_back", "done"},
         pc' = "map_back" => solved' = Len(instances), SolutionsInv',
         k' \in 0 .. orig_graph.n, aborted' \in BOOLEAN, method' \in Methods \cup {""},
         clingo_failed' \in BOOLEAN
  PROVE  TInv'
<1>1. UNCHANGED <<orig_graph, pp, pending, instance, d2, fill_d2, lower_bound, fill_edges, instances, treewidth>>
  BY DEF unsolved
<1>2. GraphsInv' /\ PhaseInv' /\ BagInv'
  BY <1>1 DEF TInv, GraphsInv, PhaseInv, BagInv
<1>3. LayoutInv'
  <2>1. Reduced' = <<>> /\ Held' = {} /\ Reduced = <<>> /\ Held = {} /\ Recorded' = Recorded
    BY <1>1 DEF Reduced, Held, Recorded
  <2>2. /\ Laid(LayoutOf(Reduced \o pending, instances), Recorded \cup Held)
        /\ Explained(pending, instances, Reduced, Recorded, Held)
    BY DEF TInv, LayoutInv
  <2> QED
    BY <1>1, <2>1, <2>2 DEF LayoutInv
<1>4. ReducedInv' /\ InstancesInv'
  BY <1>1 DEF TInv, ReducedInv, InstancesInv, AsRead
<1>5. BoundsInv'
  BY <1>1 DEF TInv, BoundsInv
<1> QED
  BY <1>2, <1>3, <1>4, <1>5 DEF TInv

\* The instance at hand.
LEMMA AtInstance ==
  ASSUME TInv, Solving, NEW g, g = Current
  PROVE  /\ IsGraph(g) /\ g.n \in Nat /\ g.n <= orig_graph.n /\ orig_graph.n \in Nat
         /\ Len(instances) \in Nat /\ solved \in Nat /\ solved < Len(instances)
<1>1. /\ Len(instances) \in Nat /\ orig_graph.n \in Nat
      /\ \A i \in 1 .. Len(instances) : instances[i].graph \in MappedGraphs(orig_graph.n)
  BY OriginalFacts, GraphsFacts DEF TInv
<1>2. solved \in Nat /\ solved < Len(instances)
  BY <1>1 DEF TInv, SolutionsInv, Solving
<1>3. g \in MappedGraphs(orig_graph.n)
  BY <1>1, <1>2 DEF Current
<1> QED
  BY <1>1, <1>2, <1>3, MappedFacts

\* The loop goes on to the next instance, with a solution or without.
LEMMA NextIsSolved ==
  ASSUME TInv, Solving, NextInstance, UNCHANGED <<instances, pc>>,
         \/ \E F \in SUBSET NonEdges(Current) : solutions' = Append(solutions, F)
         \/ solutions' = solutions
  PROVE  SolutionsInv'
<1> DEFINE g == Current
           m == Len(instances)
<1>0. g = Current /\ m = Len(instances)
  OBVIOUS
<1> HIDE DEF g
<1>1. IsGraph(g) /\ m \in Nat /\ solved \in Nat /\ solved < m
  BY <1>0, AtInstance
<1>2. solved' = solved + 1 /\ apmcs' = {} /\ solved' \in 0 .. m /\ solved' \in 1 .. m
  BY <1>1 DEF NextInstance
<1>3. /\ solutions \in Seq(SUBSET (SUBSET Nat)) /\ Len(solutions) <= solved /\ Len(solutions) \in Nat
      /\ Len(solutions) = solved =>
           \A i \in 1 .. Len(solutions) : solutions[i] \subseteq NonEdges(instances[i].graph)
  BY DEF TInv, SolutionsInv
<1>4. CASE \E F \in SUBSET NonEdges(Current) : solutions' = Append(solutions, F)
  <2>1. PICK F \in SUBSET NonEdges(g) : solutions' = Append(solutions, F)
    BY <1>0, <1>4
  <2>2. F \in SUBSET (SUBSET Nat)
    BY <1>1, FillType
  <2>3. /\ solutions' \in Seq(SUBSET (SUBSET Nat)) /\ Len(solutions') = Len(solutions) + 1
        /\ \A i \in 1 .. Len(solutions') :
             \/ i \in 1 .. Len(solutions) /\ solutions'[i] = solutions[i]
             \/ i = Len(solutions) + 1 /\ solutions'[i] = F
    BY <1>3, <2>1, <2>2
  <2>4. Len(solutions') <= solved' /\ (Len(solutions') = solved' => Len(solutions) = solved)
    BY <1>1, <1>2, <1>3, <2>3
  <2>5. instances[solved + 1].graph = g
    BY <1>0 DEF Current
  <2>6. ASSUME Len(solutions') = solved', NEW i \in 1 .. Len(solutions')
        PROVE  solutions'[i] \subseteq NonEdges(instances'[i].graph)
    <3>1. Len(solutions) = solved
      BY <2>4, <2>6
    <3> QED
      BY <1>3, <2>1, <2>3, <2>5, <3>1
  <2> QED
    BY <1>2, <2>3, <2>4, <2>6 DEF SolutionsInv
<1>5. CASE solutions' = solutions
  <2>1. Len(solutions') <= solved' /\ Len(solutions') # solved'
    BY <1>1, <1>2, <1>3, <1>5
  <2> QED
    BY <1>2, <1>3, <1>5, <2>1 DEF SolutionsInv
<1> QED
  BY <1>4, <1>5

\* A round collects cliques, or the instance has its solution.
LEMMA RoundKeeps ==
  ASSUME TInv, Round
  PROVE  TInv'
<1> DEFINE g == Current
<1>0. /\ Solving /\ k < g.n /\ UNCHANGED unsolved /\ UNCHANGED <<pc, method>> /\ g = Current /\ pc = "solve"
      /\ UNCHANGED instances
  BY DEF Round, unsolved, Solving
<1>1. PICK out \in RoundOutcomes(g, k + 1) : \E P \in {Collected(out[1])} : \E sols \in {BtSolve(g, P)} :
        /\ clingo_failed' = (clingo_failed \/ out[2])
        /\ IF sols = {}
           THEN k' = k + 1 /\ apmcs' = P /\ UNCHANGED <<solved, solutions, aborted>>
           ELSE \E sol \in sols :
                  /\ solutions' = Append(solutions, sol.fill)
                  /\ aborted' = (aborted \/ sol.width # k)
                  /\ NextInstance
  BY DEF Round
<1> DEFINE P == apmcs \cup out[1]
<1>2. /\ clingo_failed' = (clingo_failed \/ out[2])
      /\ \/ k' = k + 1 /\ apmcs' = P /\ UNCHANGED <<solved, solutions, aborted>>
         \/ \E sol \in BtSolve(g, P) : /\ solutions' = Append(solutions, sol.fill)
                                       /\ aborted' = (aborted \/ sol.width # k)
                                       /\ NextInstance
  BY <1>1 DEF Collected
<1>3. out[2] \in BOOLEAN /\ \A X \in out[1] : X \subseteq V(g)
  <2>1. /\ \A X \in TreewidthPmcs(g, k + 1) : X \subseteq V(g)
        /\ \A X \in PmcsWithSize(g, k + 1) : X \subseteq V(g)
    BY CliquesAreSets
  <2> HIDE DEF g
  <2>2. \/ out = <<TreewidthPmcs(g, k + 1), FALSE>> \/ out = <<{}, TRUE>>
        \/ out = <<PmcsWithSize(g, k + 1), FALSE>>
    BY <1>1 DEF RoundOutcomes
  <2>3. CASE out = <<TreewidthPmcs(g, k + 1), FALSE>>
    <3>1. out[1] = TreewidthPmcs(g, k + 1) /\ out[2] = FALSE
      BY <2>3
    <3> QED
      BY <2>1, <3>1
  <2>4. CASE out = <<{}, TRUE>>
    <3>1. out[1] = {} /\ out[2] = TRUE
      BY <2>4
    <3> QED
      BY <3>1
  <2>5. CASE out = <<PmcsWithSize(g, k + 1), FALSE>>
    <3>1. out[1] = PmcsWithSize(g, k + 1) /\ out[2] = FALSE
      BY <2>5
    <3> QED
      BY <2>1, <3>1
  <2> QED
    BY <2>2, <2>3, <2>4, <2>5
<1>4. \A X \in P : X \subseteq V(g)
  BY <1>0, <1>3 DEF TInv, SolutionsInv
<1>5. k \in 0 .. orig_graph.n /\ aborted \in BOOLEAN /\ method \in Methods \cup {""}
      /\ clingo_failed \in BOOLEAN
  BY DEF TInv, BoundsInv
<1> HIDE DEF g, P
<1>6. IsGraph(g) /\ g.n \in Nat /\ g.n <= orig_graph.n /\ orig_graph.n \in Nat
  BY <1>0, AtInstance
<1>7. clingo_failed' \in BOOLEAN /\ method' \in Methods \cup {""} /\ pc' = "solve"
  BY <1>0, <1>2, <1>3, <1>5
<1>8. CASE k' = k + 1 /\ apmcs' = P /\ UNCHANGED <<solved, solutions, aborted>>
  <2>4. k < g.n /\ k \in 0 .. orig_graph.n /\ g.n \in Nat /\ g.n <= orig_graph.n /\ orig_graph.n \in Nat
        /\ k' = k + 1
    BY <1>0, <1>5, <1>6, <1>8
  <2>1. k' \in 0 .. orig_graph.n
    BY ONLY <2>4, SMT
  <2>2. Current' = g
    BY <1>0, <1>8 DEF Current
  <2>3. SolutionsInv'
    BY <1>0, <1>4, <1>8, <2>2 DEF TInv, SolutionsInv
  <2> QED
    BY <1>0, <1>5, <1>7, <1>8, <2>1, <2>3, SolvingKeeps
<1>9. ASSUME NEW sol \in BtSolve(g, P), solutions' = Append(solutions, sol.fill),
             aborted' = (aborted \/ sol.width # k), NextInstance
      PROVE  TInv'
  <2>1. sol.fill \in SUBSET NonEdges(Current)
    BY <1>0, <1>4, SolutionFits
  <2>2. SolutionsInv'
    BY <1>0, <1>9, <2>1, NextIsSolved
  <2>3. k' = 0 /\ orig_graph.n \in Nat
    BY <1>6, <1>9 DEF NextInstance
  <2>4. k' \in 0 .. orig_graph.n
    BY ONLY <2>3, SMT
  <2>5. aborted' \in BOOLEAN
    BY <1>5, <1>9, Zenon
  <2> QED
    BY <1>0, <1>7, <2>2, <2>4, <2>5, SolvingKeeps
<1> QED
  BY <1>2, <1>8, <1>9

\* TreewidthComb's solution of an instance.
LEMMA SolveCombKeeps ==
  ASSUME TInv, SolveComb
  PROVE  TInv'
<1> DEFINE g == Current
           P == UNION {PmcsWithSize(g, s) : s \in 1 .. g.n}
<1>0. /\ Solving /\ UNCHANGED unsolved /\ UNCHANGED <<pc, aborted, method, clingo_failed>> /\ g = Current
      /\ pc = "solve" /\ UNCHANGED instances /\ NextInstance
      /\ \/ solutions' = Append(solutions, {})
         \/ \E sol \in BtSolve(g, P) : solutions' = Append(solutions, sol.fill)
  BY DEF SolveComb, unsolved, Solving
<1>1. \A X \in P : X \subseteq V(g)
  BY CliquesAreSets
<1> HIDE DEF g, P
<1>2. \E F \in SUBSET NonEdges(Current) : solutions' = Append(solutions, F)
  <2>1. \A sol \in BtSolve(g, P) : sol.fill \in SUBSET NonEdges(Current)
    BY <1>0, <1>1, SolutionFits
  <2>2. {} \in SUBSET NonEdges(Current)
    OBVIOUS
  <2> QED
    BY <1>0, <2>1, <2>2
<1>3. SolutionsInv'
  BY <1>0, <1>2, NextIsSolved
<1>4. k' \in 0 .. orig_graph.n
  <2>1. k' = 0 /\ orig_graph.n \in Nat
    BY <1>0, OriginalFacts DEF NextInstance, TInv
  <2> QED
    BY ONLY <2>1, SMT
<1>5. aborted \in BOOLEAN /\ method \in Methods \cup {""} /\ clingo_failed \in BOOLEAN
  BY DEF TInv, BoundsInv
<1> QED
  BY <1>0, <1>3, <1>4, <1>5, SolvingKeeps

\* An assertion ends the program.
LEMMA AbortKeeps ==
  ASSUME TInv, CardinalityAborts \/ CombAborts
  PROVE  TInv'
<1>1. /\ Solving /\ pc = "solve" /\ aborted' = TRUE /\ pc' = "done" /\ UNCHANGED unsolved
      /\ UNCHANGED <<solutions, driver>>
  BY DEF CardinalityAborts, CombAborts, Abort, Solving
<1>2. UNCHANGED <<solutions, instances, method, solved, k, apmcs, clingo_failed>>
  BY <1>1 DEF driver, unsolved
<1>3. SolutionsInv'
  BY <1>1, <1>2 DEF TInv, SolutionsInv, Solving
<1>4. k' \in 0 .. orig_graph.n /\ method' \in Methods \cup {""} /\ clingo_failed' \in BOOLEAN
  BY <1>2 DEF TInv, BoundsInv
<1> QED
  BY <1>1, <1>3, <1>4, SolvingKeeps

\* An instance without a solution.
LEMMA RunOutKeeps ==
  ASSUME TInv, RunOut
  PROVE  TInv'
<1>1. /\ Solving /\ pc = "solve" /\ UNCHANGED unsolved /\ NextInstance
      /\ UNCHANGED <<pc, solutions, aborted, method, clingo_failed>> /\ UNCHANGED instances
  BY DEF RunOut, Solving, unsolved
<1>2. SolutionsInv'
  BY <1>1, NextIsSolved
<1>3. k' \in 0 .. orig_graph.n
  <2>1. k' = 0 /\ orig_graph.n \in Nat
    BY <1>1, OriginalFacts DEF NextInstance, TInv
  <2> QED
    BY ONLY <2>1, SMT
<1>4. aborted' \in BOOLEAN /\ method' \in Methods \cup {""} /\ clingo_failed' \in BOOLEAN
  BY <1>1 DEF TInv, BoundsInv
<1> QED
  BY <1>1, <1>2, <1>3, <1>4, SolvingKeeps

\* All instances have been passed.
LEMMA CallMapBackKeeps ==
  ASSUME TInv, CallMapBack
  PROVE  TInv'
<1>1. /\ pc = "solve" /\ solved = Len(instances) /\ pc' = "map_back" /\ UNCHANGED unsolved
      /\ UNCHANGED <<solutions, aborted, driver>>
  BY DEF CallMapBack
<1>2. UNCHANGED <<solutions, instances, method, solved, k, apmcs, clingo_failed, aborted>>
  BY <1>1 DEF driver, unsolved
<1>3. SolutionsInv'
  BY <1>1, <1>2 DEF TInv, SolutionsInv, Solving
<1>4. /\ k' \in 0 .. orig_graph.n /\ method' \in Methods \cup {""} /\ clingo_failed' \in BOOLEAN
      /\ aborted' \in BOOLEAN /\ solved' = Len(instances)
  BY <1>1, <1>2 DEF TInv, BoundsInv
<1> QED
  BY <1>1, <1>3, <1>4, SolvingKeeps

\* MapBack's first assertion.
LEMMA MapBackAbortsKeeps ==
  ASSUME TInv, MapBackAborts, UNCHANGED driver
  PROVE  TInv'
<1>1. /\ pc = "map_back" /\ pc' = "done" /\ aborted' = TRUE
      /\ UNCHANGED <<orig_graph, pp, pending, instance, d2, fill_d2, lower_bound, fill_edges,
                     instances, solutions, treewidth>>
      /\ UNCHANGED <<method, solved, k, apmcs, clingo_failed>>
  BY DEF MapBackAborts, driver
<1>2. GraphsInv' /\ PhaseInv' /\ BagInv'
  BY <1>1 DEF TInv, GraphsInv, PhaseInv, BagInv
<1>3. LayoutInv' /\ ReducedInv' /\ InstancesInv'
  BY <1>1 DEF LayoutInv, Held, ReducedInv, InstancesInv
<1>4. SolutionsInv'
  BY <1>1 DEF TInv, SolutionsInv, Solving
<1>5. BoundsInv'
  BY <1>1 DEF TInv, BoundsInv
<1> QED
  BY <1>2, <1>3, <1>4, <1>5 DEF TInv

\* A step that changes nothing.
LEMMA StutterKeeps ==
  ASSUME TInv, UNCHANGED tvars
  PROVE  TInv'
<1>1. /\ UNCHANGED <<orig_graph, pp, pending, instance, d2, fill_d2, lower_bound, fill_edges,
                     instances, solutions, treewidth, pc, aborted>>
      /\ UNCHANGED <<method, solved, k, apmcs, clingo_failed>>
  BY DEF tvars, vars, driver
<1>2. GraphsInv' /\ PhaseInv' /\ BagInv'
  BY <1>1 DEF TInv, GraphsInv, PhaseInv, BagInv
<1>3. LayoutInv'
  <2>1. Reduced' = Reduced /\ Held' = Held /\ Recorded' = Recorded
    BY <1>1 DEF Reduced, Held, Recorded
  <2>2. /\ Held \cap Recorded = {}
        /\ pc # "done" =>
             /\ Laid(LayoutOf(Reduced \o pending, instances), Recorded \cup Held)
             /\ Explained(pending, instances, Reduced, Recorded, Held)
    BY DEF TInv, LayoutInv
  <2> QED
    BY <1>1, <2>1, <2>2 DEF LayoutInv
<1>4. ReducedInv' /\ InstancesInv'
  BY <1>1 DEF TInv, ReducedInv, InstancesInv, AsRead
<1>5. SolutionsInv'
  BY <1>1 DEF TInv, SolutionsInv, Solving, Current
<1>6. BoundsInv'
  BY <1>1 DEF TInv, BoundsInv
<1> QED
  BY <1>2, <1>3, <1>4, <1>5, <1>6 DEF TInv

\* Every step keeps the invariant.
LEMMA StepKeeps ==
  ASSUME TInv, [TNext]_tvars
  PROVE  TInv'
<1>1. ASSUME MapBackAll PROVE TInv'
  BY <1>1, MapBackKeeps, MapBackAbortsKeeps DEF MapBackAll, MapBackStep
<1>2. ASSUME Finished PROVE TInv'
  BY <1>2, StutterKeeps DEF Finished
<1> QED
  BY <1>1, <1>2, CallPreprocessKeeps, AbortKeeps, RoundKeeps, RunOutKeeps, SolveCombKeeps,
     CallMapBackKeeps, StutterKeeps DEF TNext

\* The invariant holds at first.
LEMMA InitHolds ==
  ASSUME TInit
  PROVE  TInv
<1>1. (\E i \in Inputs : orig_graph = WithMap(i[1]) /\ pp = i[2]) /\ pc = "preprocess"
  BY DEF TInit, Init
<1>2. /\ pending = <<>> /\ instances = <<>> /\ solutions = <<>> /\ d2 = <<>> /\ fill_d2 = {}
      /\ solved = 0 /\ k = 0 /\ apmcs = {}
  BY DEF TInit, Init
<1>3. /\ lower_bound = 0 /\ fill_edges = EmptyBag /\ aborted = FALSE /\ treewidth = -1
      /\ method = "" /\ clingo_failed = FALSE
  BY DEF TInit, Init
<1>4. Len(<<>>) = 0 /\ DOMAIN <<>> = {} /\ 1 .. 0 = {} /\ \A S : <<>> \in Seq(S)
  OBVIOUS
<1>5. GraphsInv
  BY <1>1, <1>2, <1>4 DEF GraphsInv
<1>6. orig_graph.n \in Nat
  BY <1>5, OriginalFacts
<1>7. DOMAIN fill_edges = {}
  BY <1>3 DEF EmptyBag, SetToBag
<1>8. PhaseInv
  BY <1>1, <1>2, <1>3 DEF PhaseInv
<1>9. BagInv
  BY <1>7 DEF BagInv, OneEach
<1>10. LayoutInv
  <2>1. Reduced = <<>> /\ Held = {} /\ Reduced \o pending = <<>>
    BY <1>1, <1>2 DEF Reduced, Held
  <2> DEFINE G == LayoutOf(<<>>, <<>>)
  <2>2. DOMAIN G = {}
    BY <1>4 DEF LayoutOf
  <2> HIDE DEF G
  <2>3. Laid(G, Recorded \cup Held)
    BY <2>2 DEF Laid
  <2>4. Explained(<<>>, <<>>, <<>>, Recorded, Held)
    BY <1>4 DEF Explained
  <2> QED
    BY <1>2, <2>1, <2>3, <2>4 DEF LayoutInv, G
<1>11. ReducedInv
  BY <1>1 DEF ReducedInv
<1>12. InstancesInv
  <2>1. 1 .. Len(instances) = {}
    BY <1>2, <1>4
  <2> QED
    BY <2>1 DEF InstancesInv
<1>13. SolutionsInv
  <2>1. Len(solutions) = 0 /\ Len(instances) = 0 /\ solutions \in Seq(SUBSET (SUBSET Nat))
    BY <1>2, <1>4
  <2> QED
    BY <1>1, <1>2, <2>1 DEF SolutionsInv, Solving
<1>14. BoundsInv
  <2>1. 0 \in 0 .. orig_graph.n /\ -1 \in -1 .. orig_graph.n
    BY <1>6
  <2> QED
    BY <1>2, <1>3, <2>1 DEF BoundsInv
<1> QED
  BY <1>5, <1>8, <1>9, <1>10, <1>11, <1>12, <1>13, <1>14 DEF TInv

\* The invariant is one.
LEMMA TInvariant == TSpec => []TInv
<1>1. TInit => TInv
  BY InitHolds
<1>2. TInv /\ [TNext]_tvars => TInv'
  BY StepKeeps
<1> QED
  BY <1>1, <1>2, PTL DEF TSpec

\* It implies the type invariant.
LEMMA TypeFollows ==
  ASSUME TInv
  PROVE  TypeOK
<1> DEFINE n == orig_graph.n
<1>1. n \in Nat /\ V(orig_graph) = 0 .. n - 1
  BY OriginalFacts DEF TInv
<1>2. ASSUME NEW g \in MappedGraphs(n) PROVE IsMappedGraph(g)
  <2>1. /\ IsGraph(g) /\ g.vmap \in [V(g) -> 0 .. n - 1]
        /\ \A u, v \in V(g) : u < v => g.vmap[u] < g.vmap[v]
    BY <1>1, MappedFacts
  <2> QED
    BY <1>1, <2>1 DEF IsMappedGraph
<1> HIDE DEF n
<1>3. /\ \A i \in 1 .. Len(pending) : IsMappedGraph(pending[i])
      /\ \A i \in 1 .. Len(instances) : IsMappedGraph(instances[i].graph)
  <2>1. /\ \A i \in DOMAIN pending : pending[i] \in MappedGraphs(n)
        /\ \A i \in DOMAIN instances : instances[i].graph \in MappedGraphs(n)
        /\ DOMAIN pending = 1 .. Len(pending) /\ DOMAIN instances = 1 .. Len(instances)
    BY GraphsFacts DEF TInv, GraphsInv, n
  <2> QED
    BY <1>2, <2>1
<1>4. IsABag(fill_edges) /\ BagToSet(fill_edges) \subseteq Pairs(V(orig_graph))
  <2>1. OneEach(fill_edges) /\ DOMAIN fill_edges \subseteq NonEdges(orig_graph)
    BY DEF TInv, BagInv
  <2>2. IsABag(fill_edges) /\ BagToSet(fill_edges) = DOMAIN fill_edges
    BY <2>1, OneEachMakes
  <2> QED
    BY <2>1, <2>2 DEF NonEdges
<1>5. /\ \E i \in Inputs : orig_graph = WithMap(i[1]) /\ pp = i[2]
      /\ d2 \in Seq(V(instance.graph)) /\ fill_d2 \subseteq Pairs(V(instance.graph))
  BY DEF TInv, GraphsInv
<1>6. pc \in {"preprocess", "preprocess1", "degree2", "solve", "map_back", "done"}
  BY DEF TInv, PhaseInv
<1>7. /\ lower_bound \in 0 .. orig_graph.n /\ aborted \in BOOLEAN /\ treewidth \in -1 .. orig_graph.n
      /\ method \in Methods \cup {""} /\ clingo_failed \in BOOLEAN /\ k \in 0 .. orig_graph.n
  BY DEF TInv, BoundsInv
<1>8. /\ Len(solutions) <= solved /\ solved \in 0 .. Len(instances)
      /\ Solving => \A X \in apmcs : X \subseteq V(Current)
  BY DEF TInv, SolutionsInv
<1> QED
  BY <1>3, <1>4, <1>5, <1>6, <1>7, <1>8 DEF TypeOK

\* The type invariant, for all graphs and all drivers: the renumbered graphs keep
\* their vertices in order and within the numbers of the graph that was read, the
\* queue of GreedyDegree2 has vertices of its graph, every bound is one, and the
\* cliques of a round are sets of vertices of the instance at hand.
THEOREM TypeCorrect == TSpec => []TypeOK
BY TInvariant, TypeFollows, PTL

\* What an open graph is.
LEMMA OpenGraphs ==
  ASSUME TInv, NEW g \in Open
  PROVE  \/ pc = "preprocess" /\ g = orig_graph
         \/ pc = "degree2" /\ g = instance.graph
         \/ \E i \in DOMAIN pending : g = pending[i]
         \/ \E i \in DOMAIN instances : g = instances[i].graph
<1>1. DOMAIN pending = 1 .. Len(pending) /\ DOMAIN instances = 1 .. Len(instances)
  BY GraphsFacts DEF TInv, GraphsInv
<1> QED
  BY <1>1 DEF Open, ToSet

\* It implies FillRecorded.
LEMMA FillFollows ==
  ASSUME TInv
  PROVE  FillRecorded
<1>1. BagToSet(fill_edges) = DOMAIN fill_edges /\ \A e \in DOMAIN fill_edges : fill_edges[e] = 1
  BY OneEachMakes DEF TInv, BagInv
<1>2. IsFillOf(fill_edges, orig_graph)
  BY <1>1 DEF IsFillOf, TInv, BagInv
<1>3. ASSUME pc # "done", NEW g \in Open, NEW e \in g.adj
      PROVE  \/ MapBackEdge(g, e) \in orig_graph.adj \cup BagToSet(fill_edges)
             \/ pc = "degree2" /\ g = instance.graph /\ e \in fill_d2
  <2>0. Explained(pending, instances, Reduced, Recorded, Held)
    BY <1>3 DEF TInv, LayoutInv
  <2>1. MapBackEdge(g, e) \in Part(g)
    BY DEF Part, Back
  <2>2. CASE Part(g) \subseteq Recorded
    BY <2>1, <2>2 DEF Recorded
  <2>3. CASE pc = "preprocess" /\ g = orig_graph
    <3>1. Part(orig_graph) = orig_graph.adj
      BY OriginalFacts DEF TInv
    <3> QED
      BY <2>1, <2>3, <3>1
  <2>4. CASE pc = "degree2" /\ g = instance.graph
    <3>1. Reduced = <<g>> /\ Held = Back(g, fill_d2)
      BY <2>4 DEF Reduced, Held
    <3>2. Part(g) \subseteq Recorded \cup Held
      BY <2>0, <3>1 DEF Explained
    <3>3. CASE MapBackEdge(g, e) \in Recorded
      BY <3>3 DEF Recorded
    <3>4. CASE MapBackEdge(g, e) \in Held
      <4>1. PICK f \in fill_d2 : MapBackEdge(g, e) = MapBackEdge(g, f)
        BY <3>1, <3>4 DEF Back
      <4>2. f \in Pairs(V(g)) /\ e \in Pairs(V(g)) /\ \A u, v \in V(g) : g.vmap[u] = g.vmap[v] => u = v
        <5>1. orig_graph.n \in Nat /\ g \in MappedGraphs(orig_graph.n)
          BY <2>4, OriginalFacts, GraphsFacts DEF TInv
        <5>2. g.adj \subseteq Pairs(V(g)) /\ \A u, v \in V(g) : g.vmap[u] = g.vmap[v] => u = v
          BY <5>1, MappedFacts
        <5> QED
          BY <2>4, <5>2 DEF TInv, GraphsInv
      <4>3. e = f
        BY <4>1, <4>2 DEF MapBackEdge, Pairs
      <4> QED
        BY <2>4, <4>3
    <3> QED
      BY <2>1, <3>2, <3>3, <3>4
  <2>5. CASE \E i \in DOMAIN pending : g = pending[i]
    BY <2>0, <2>2, <2>5 DEF Explained
  <2>6. CASE \E i \in DOMAIN instances : g = instances[i].graph
    BY <2>0, <2>2, <2>6 DEF Explained
  <2> QED
    BY <2>3, <2>4, <2>5, <2>6, OpenGraphs
<1> QED
  BY <1>2, <1>3 DEF FillRecorded

\* FillRecorded, for all graphs: whatever MCS-M's triangulations, GreedyDegree2,
\* NeighborClique, the settled instances and the solutions add to fill_edges
\* through the renumbered parts is new to the graph that was read and recorded
\* once (MapBack's assertion), and it explains every edge of an open graph.
THEOREM FillIsRecordedOnce == TSpec => []FillRecorded
BY TInvariant, FillFollows, PTL

-----------------------------------------------------------------------------
(* The rules make progress. *)

\* The vertices and pairs of a graph can be counted.
LEMMA CountsAreFinite ==
  ASSUME NEW g, IsGraph(g)
  PROVE  /\ g.n \in Nat /\ IsFiniteSet(V(g)) /\ Cardinality(V(g)) = g.n
         /\ IsFiniteSet(Active(g)) /\ Active(g) \in SUBSET V(g) /\ IsFiniteSet(NonEdges(g))
<1>1. g.n \in Nat
  BY DEF IsGraph
<1>2. IsFiniteSet(V(g)) /\ Cardinality(V(g)) = g.n
  <2>1. V(g) \in SUBSET V(g)
    OBVIOUS
  <2> QED
    BY <1>1, <2>1, VerticesFinite
<1>3. Active(g) \in SUBSET V(g)
  BY DEF Active
<1>4. IsFiniteSet(SUBSET V(g))
  BY <1>2, FS_SUBSET
<1>5. NonEdges(g) \in SUBSET (SUBSET V(g))
  BY PairsWithin DEF NonEdges
<1>6. IsFiniteSet(Active(g))
  BY <1>2, <1>3, FS_Subset
<1>7. IsFiniteSet(NonEdges(g))
  BY <1>4, <1>5, FS_Subset
<1> QED
  BY <1>1, <1>2, <1>3, <1>6, <1>7

\* A proper subset has fewer members.
LEMMA FewerMembers ==
  ASSUME NEW S, IsFiniteSet(S), NEW T \in SUBSET S, T # S
  PROVE  Cardinality(T) < Cardinality(S)
<1>1. Cardinality(T) <= Cardinality(S) /\ Cardinality(T) # Cardinality(S) /\ IsFiniteSet(T)
  BY FS_Subset
<1>2. Cardinality(T) \in Nat /\ Cardinality(S) \in Nat
  BY <1>1, FS_CardinalityType
<1> QED
  BY <1>1, <1>2

\* None of several atoms is the graph.
LEMMA AtomIsProper ==
  ASSUME NEW g, NEW all, AreAtoms(g, all), Len(all) \in Nat, Len(all) > 1, NEW i \in 1 .. Len(all)
  PROVE  all[i] # V(g)
<1> SUFFICES ASSUME all[i] = V(g) PROVE FALSE
  OBVIOUS
<1>1. PICK j \in 1 .. Len(all) : j # i
  <2>1. 1 \in 1 .. Len(all) /\ 2 \in 1 .. Len(all)
    OBVIOUS
  <2> QED
    BY <2>1
<1>2. all[j] # all[i] /\ all[i] \in AtomsOf(g) /\ all[j] \in AtomsOf(g)
  BY <1>1 DEF AreAtoms
<1>3. all[j] \subseteq V(g)
  BY <1>2 DEF AtomsOf
<1> QED
  BY <1>2, <1>3 DEF AtomsOf

\* An atom that is not all of the graph has fewer vertices.
LEMMA AtomIsSimpler ==
  ASSUME NEW n \in Nat, NEW g \in MappedGraphs(n), NEW S \in SUBSET V(g), S # V(g),
         NEW h, h = AtomGraph(g, S)
  PROVE  Simpler(h, g)
<1>1. IsGraph(g)
  BY MappedFacts
<1>2. h.n \in Nat /\ h.n <= Cardinality(S)
  BY AtomGraphFacts
<1>3. g.n \in Nat /\ IsFiniteSet(V(g)) /\ Cardinality(V(g)) = g.n
  BY <1>1, CountsAreFinite
<1>4. Cardinality(S) < g.n
  BY <1>3, FewerMembers
<1>5. Cardinality(S) \in Nat
  BY <1>3, FS_Subset, FS_CardinalityType
<1> QED
  BY <1>2, <1>3, <1>4, <1>5 DEF Simpler

\* A reworked graph has no vertex with an edge that had none.
LEMMA ReworkedActive ==
  ASSUME NEW g, NEW h, IsReworked(g, h)
  PROVE  h.n = g.n /\ V(h) = V(g) /\ Active(h) \subseteq Active(g)
<1>1. h.n = g.n
  <2>1. h = [g EXCEPT !.adj = h.adj]
    BY DEF IsReworked
  <2>2. [g EXCEPT !.adj = h.adj].n = g.n
    OBVIOUS
  <2> QED
    BY <2>1, <2>2
<1>2. V(h) = V(g)
  BY <1>1 DEF V
<1>3. ASSUME NEW v \in Active(h) PROVE v \in Active(g)
  <2>1. PICK u \in V(g) : {u, v} \in h.adj /\ v \in V(g)
    BY <1>2 DEF Active, Neighbors, HasEdge
  <2>2. CASE {u, v} \in g.adj
    BY <2>1, <2>2 DEF Active, Neighbors, HasEdge
  <2>3. CASE {u, v} \notin g.adj
    <3>1. {u, v} \in Pairs(Active(g))
      BY <2>1, <2>3 DEF IsReworked
    <3>2. {u, v} \subseteq Active(g)
      BY <3>1, PairsWithin
    <3> QED
      BY <3>2
  <2> QED
    BY <2>2, <2>3
<1> QED
  BY <1>1, <1>2, <1>3

\* A vertex that is eliminated has lost its edges, or it had none.
LEMMA EliminatedIsSimpler ==
  ASSUME NEW n \in Nat, NEW g \in MappedGraphs(n), NEW x \in V(g), NEW h, h = AfterElimination(g, x)
  PROVE  h = g \/ Simpler(h, g)
<1>1. IsReworked(g, h) /\ x \notin Active(h) /\ (x \notin Active(g) => h = g)
  BY EliminationStep
<1>2. IsGraph(g)
  BY MappedFacts
<1>3. h.n = g.n /\ Active(h) \subseteq Active(g)
  BY <1>1, ReworkedActive
<1>4. CASE x \in Active(g)
  <2>1. IsFiniteSet(Active(g)) /\ Active(h) \in SUBSET Active(g) /\ Active(h) # Active(g)
    BY <1>1, <1>2, <1>3, <1>4, CountsAreFinite
  <2>2. Cardinality(Active(h)) < Cardinality(Active(g))
    BY <2>1, FewerMembers
  <2> QED
    BY <1>3, <2>2 DEF Simpler
<1> QED
  BY <1>1, <1>4

\* The edge that NeighborClique has found.
LEMMA MissingIsSimpler ==
  ASSUME NEW n \in Nat, NEW g \in MappedGraphs(n), Active(g) = V(g),
         \A v \in V(g) : ~IsClique(g, Neighbors(g, v)), AlmostCliques(g) # {},
         NEW x, x = MinOf(AlmostCliques(g)), NEW N, N = MissingAt(g, x), NEW h, h = Filled(g, N)
  PROVE  Simpler(h, g)
<1>1. IsGraph(g) /\ V(g) \subseteq Nat /\ g.adj \subseteq Pairs(V(g))
  <2>1. IsGraph(g)
    BY MappedFacts
  <2> QED
    BY <2>1 DEF IsGraph, V
<1>2. x \in V(g)
  <2> DEFINE S == AlmostCliques(g)
  <2>1. S \in SUBSET Nat /\ S # {} /\ S \subseteq V(g)
    BY <1>1 DEF AlmostCliques
  <2>2. x = MinOf(S)
    OBVIOUS
  <2> HIDE DEF S
  <2>3. x \in S
    BY <2>1, <2>2, LeastIs
  <2> QED
    BY <2>1, <2>3
<1>3. N \in SUBSET NonEdges(g)
  <2>1. \A e \in Pairs(Neighbors(g, x)) : e \in Pairs(V(g))
    BY PairsWithin DEF Neighbors
  <2> QED
    BY <2>1 DEF MissingAt, NonEdges
<1>4. N # {}
  BY <1>2 DEF MissingAt, IsClique
<1>5. h.n = g.n /\ h.adj = g.adj \cup N /\ V(h) = V(g)
  <2>1. "adj" \in DOMAIN g
    BY <1>1 DEF IsGraph
  <2>2. h.n = g.n /\ h.adj = g.adj \cup N
    BY <2>1 DEF Filled
  <2> QED
    BY <2>2 DEF V
<1>6. Active(h) = Active(g)
  <2>1. \A v \in V(g) : Neighbors(g, v) \subseteq Neighbors(h, v)
    BY <1>5 DEF Neighbors, HasEdge
  <2>2. Active(g) \subseteq Active(h) /\ Active(h) \subseteq V(g)
    BY <1>5, <2>1 DEF Active
  <2> QED
    BY <2>2
<1>7. NonEdges(h) \in SUBSET NonEdges(g) /\ NonEdges(h) # NonEdges(g)
  BY <1>3, <1>4, <1>5 DEF NonEdges
<1>8. IsFiniteSet(NonEdges(g))
  BY <1>1, CountsAreFinite
<1>9. Cardinality(NonEdges(h)) < Cardinality(NonEdges(g))
  BY <1>7, <1>8, FewerMembers
<1> QED
  BY <1>5, <1>6, <1>9 DEF Simpler

\* What the graphs that are open are, and what they are after a step.
LEMMA AreOpen ==
  /\ \A i \in DOMAIN pending : pending[i] \in Open
  /\ \A i \in 1 .. Len(instances) : instances[i].graph \in Open
  /\ pc = "degree2" => instance.graph \in Open
  /\ pc = "preprocess" => orig_graph \in Open
BY DEF Open, ToSet

\* What the graphs that are open after a step are.
LEMMA OpenNext ==
  ASSUME NEW h \in Open'
  PROVE  \/ pc' = "preprocess" /\ h = orig_graph'
         \/ pc' = "degree2" /\ h = instance'.graph
         \/ \E i \in DOMAIN pending' : h = pending'[i]
         \/ \E i \in 1 .. Len(instances') : h = instances'[i].graph
BY DEF Open, ToSet

\* Every graph that a step opens is made from one that was open, and simpler.
Opens(h) == h \in Open \/ \E g \in Open : Simpler(h, g)
AllOpened == \A h \in Open' : Opens(h)

\* Nothing opens by steps that leave the graphs.
LEMMA NothingOpens ==
  ASSUME pc' \notin {"preprocess", "degree2"},
         \A i \in DOMAIN pending' : Opens(pending'[i]),
         \A i \in 1 .. Len(instances') : Opens(instances'[i].graph)
  PROVE  AllOpened
BY OpenNext DEF AllOpened

\* The same graphs are open.
LEMMA SameOpen ==
  ASSUME UNCHANGED <<pending, instances>>
  PROVE  /\ \A i \in DOMAIN pending' : Opens(pending'[i])
         /\ \A i \in 1 .. Len(instances') : Opens(instances'[i].graph)
BY AreOpen DEF Opens

\* The graphs after the first.
LEMMA TailOpens ==
  ASSUME TInv, pending # <<>>
  PROVE  \A i \in DOMAIN Tail(pending) : Opens(Tail(pending)[i])
<1>1. pending \in Seq(MappedGraphs(orig_graph.n))
  BY DEF TInv, GraphsInv
<1>2. \A i \in DOMAIN Tail(pending) : i + 1 \in DOMAIN pending /\ Tail(pending)[i] = pending[i + 1]
  BY <1>1
<1> QED
  BY <1>2, AreOpen DEF Opens

\* One graph more at the head.
LEMMA FirstOpens ==
  ASSUME NEW S, pending \in Seq(S), NEW A \in Seq(S), \A i \in 1 .. Len(A) : Opens(A[i]),
         NEW P \in Seq(S), \A i \in DOMAIN P : Opens(P[i]), pending' = A \o P
  PROVE  \A i \in DOMAIN pending' : Opens(pending'[i])
<1> SUFFICES ASSUME NEW i \in DOMAIN pending' PROVE Opens(pending'[i])
  OBVIOUS
<1>1. \/ i \in 1 .. Len(A) /\ pending'[i] = A[i]
      \/ i - Len(A) \in DOMAIN P /\ pending'[i] = P[i - Len(A)]
  OBVIOUS
<1> QED
  BY <1>1

\* The three parts of StartsOverSimpler.
StepIsSimpler ==
  /\ \A h \in Open' \ Open : \E g \in Open : Simpler(h, g)
  /\ pc = "preprocess1" /\ pc' = "degree2" =>
       Active(instance'.graph) = V(instance'.graph)
  /\ pc = "degree2" /\ Len(pending') > Len(pending) =>
       \/ Active(Head(pending')) # V(Head(pending'))
       \/ Simpler(Head(pending'), instance.graph)

\* Steps that neither begin nor end Preprocess2 have nothing else to show.
LEMMA PlainStep ==
  ASSUME AllOpened, pc = "preprocess1" => pc' # "degree2", pc # "degree2" \/ UNCHANGED pending,
         Len(pending) \in Nat
  PROVE  StepIsSimpler
BY DEF AllOpened, Opens, StepIsSimpler

\* Nothing opens at the call of Preprocess.
LEMMA PreprocessSimpler ==
  ASSUME TInv, Preprocess
  PROVE  StepIsSimpler
<1>1. /\ pc = "preprocess" /\ pc' = "preprocess1" /\ pending = <<>> /\ instances = <<>>
      /\ \/ pending' = <<orig_graph>> /\ instances' = instances
         \/ instances' = <<[graph |-> orig_graph, upper_bound |-> Infinity, fill |-> {}]>> /\ pending' = pending
  BY DEF Preprocess, TInv, PhaseInv
<1>2. Opens(orig_graph)
  BY <1>1, AreOpen DEF Opens
<1>3. ASSUME pending' = <<orig_graph>>, instances' = instances
      PROVE  AllOpened
  <2>1. (\A i \in DOMAIN pending' : pending'[i] = orig_graph) /\ 1 .. Len(instances') = {}
    BY <1>1, <1>3
  <2> QED
    BY <1>1, <1>2, <2>1, NothingOpens
<1>4. ASSUME instances' = <<[graph |-> orig_graph, upper_bound |-> Infinity, fill |-> {}]>>,
             pending' = pending
      PROVE  AllOpened
  <2>1. DOMAIN pending' = {} /\ \A i \in 1 .. Len(instances') : instances'[i].graph = orig_graph
    BY <1>1, <1>4
  <2> QED
    BY <1>1, <1>2, <2>1, NothingOpens
<1>5. AllOpened
  BY <1>1, <1>3, <1>4
<1>6. Len(pending) \in Nat
  BY GraphsFacts DEF TInv
<1> QED
  BY <1>1, <1>5, <1>6, PlainStep

\* A graph is done.
LEMMA TakeSimpler ==
  ASSUME TInv, TakeTriangulation
  PROVE  StepIsSimpler
<1>1. /\ pc = "preprocess1" /\ pc' = "preprocess1" /\ pending # <<>> /\ pending' = Tail(pending)
      /\ instances' = instances
  BY DEF TakeTriangulation
<1>2. \A i \in DOMAIN pending' : Opens(pending'[i])
  BY <1>1, TailOpens
<1>3. \A i \in 1 .. Len(instances') : Opens(instances'[i].graph)
  BY <1>1, AreOpen DEF Opens
<1>4. AllOpened
  BY <1>1, <1>2, <1>3, NothingOpens
<1> QED
  BY <1>1, <1>4, GraphsFacts, PlainStep DEF TInv

\* Every atom of several is simpler.
LEMMA SplitSimpler ==
  ASSUME TInv, SplitIntoAtoms
  PROVE  StepIsSimpler
<1> DEFINE n == orig_graph.n
           g == Head(pending)
           F == McsM(g).fill
           all == Atoms(g, McsM(g))
           A == [i \in 1 .. Len(all) |-> AtomGraph(g, all[i])]
<1>0. /\ n = orig_graph.n /\ g = Head(pending) /\ pc = "preprocess1" /\ pending # <<>> /\ F = McsM(g).fill
      /\ ~SolvedByFill(F) /\ all = Atoms(g, McsM(g)) /\ Len(all) > 1
  BY DEF SplitIntoAtoms
<1>1. pending' = A \o Tail(pending) /\ pc' = "preprocess1" /\ instances' = instances
  BY DEF SplitIntoAtoms
<1> HIDE DEF n, g, F, all
<1>2. /\ n \in Nat /\ g \in MappedGraphs(n) /\ IsGraph(g)
      /\ pending \in Seq(MappedGraphs(n)) /\ g = pending[1]
  BY <1>0, AtCall
<1>3. g.n >= 1
  <2>1. F \in SUBSET NonEdges(g)
    BY <1>0, <1>2, FillOfMcsM
  <2> QED
    BY <1>0, <1>2, <2>1, NotSolved
<1>4. AreAtoms(g, all) /\ all \in Seq(SUBSET V(g))
  BY <1>0, <1>2, <1>3, AtomsFound
<1>5. Len(all) \in Nat /\ \A i \in 1 .. Len(all) : all[i] \in SUBSET V(g) /\ all[i] # V(g)
  <2>1. Len(all) \in Nat /\ \A i \in 1 .. Len(all) : all[i] \in SUBSET V(g)
    BY <1>4
  <2> QED
    BY <1>0, <1>4, <2>1, AtomIsProper
<1>6. Len(A) = Len(all) /\ \A i \in 1 .. Len(all) : A[i] = AtomGraph(g, all[i])
  BY <1>5
<1>7. A \in Seq(MappedGraphs(n))
  <2>1. ASSUME NEW i \in 1 .. Len(all) PROVE AtomGraph(g, all[i]) \in MappedGraphs(n)
    BY <1>2, <1>5, AtomGraphFacts
  <2> QED
    BY <1>5, <2>1
<1> HIDE DEF A
<1>8. g \in Open
  <2>1. 1 \in DOMAIN pending
    BY <1>0, <1>2
  <2> QED
    BY <1>2, <2>1, AreOpen
<1>9. ASSUME NEW i \in 1 .. Len(A) PROVE Opens(A[i])
  <2>1. all[i] \in SUBSET V(g) /\ all[i] # V(g) /\ A[i] = AtomGraph(g, all[i])
    BY <1>5, <1>6
  <2>2. Simpler(A[i], g)
    BY <1>2, <2>1, AtomIsSimpler
  <2> QED
    BY <1>8, <2>2 DEF Opens
<1>10. \A i \in DOMAIN pending' : Opens(pending'[i])
  <2>1. Tail(pending) \in Seq(MappedGraphs(n)) /\ \A i \in DOMAIN Tail(pending) : Opens(Tail(pending)[i])
    BY <1>0, <1>2, TailOpens
  <2> QED
    BY <1>1, <1>2, <1>7, <1>9, <2>1, FirstOpens
<1>11. \A i \in 1 .. Len(instances') : Opens(instances'[i].graph)
  BY <1>1, AreOpen DEF Opens
<1>12. AllOpened
  BY <1>1, <1>10, <1>11, NothingOpens
<1> QED
  BY <1>0, <1>1, <1>2, <1>12, PlainStep

\* The only atom is the graph itself.
LEMMA KeepSimpler ==
  ASSUME TInv, KeepAtom
  PROVE  StepIsSimpler
<1> DEFINE n == orig_graph.n
           g == Head(pending)
           F == McsM(g).fill
           all == Atoms(g, McsM(g))
<1>0. /\ n = orig_graph.n /\ g = Head(pending) /\ pc = "preprocess1" /\ pending # <<>> /\ F = McsM(g).fill
      /\ ~SolvedByFill(F) /\ all = Atoms(g, McsM(g)) /\ Len(all) = 1
  BY DEF KeepAtom
<1>1. /\ instance'.graph = AtomGraph(g, all[1]) /\ pc' = "degree2" /\ pending' = Tail(pending)
      /\ instances' = instances
  BY DEF KeepAtom
<1> HIDE DEF n, g, F, all
<1>2. n \in Nat /\ g \in MappedGraphs(n) /\ pending \in Seq(MappedGraphs(n)) /\ g = pending[1]
  BY <1>0, AtCall
<1>3. instance'.graph = g /\ Active(g) = V(g)
  BY <1>0, <1>1, <1>2, AtomIsGraph
<1>4. Opens(g)
  <2>1. 1 \in DOMAIN pending
    BY <1>0, <1>2
  <2> QED
    BY <1>2, <2>1, AreOpen DEF Opens
<1>5. \A i \in DOMAIN pending' : Opens(pending'[i])
  BY <1>0, <1>1, TailOpens
<1>6. \A i \in 1 .. Len(instances') : Opens(instances'[i].graph)
  BY <1>1, AreOpen DEF Opens
<1>7. AllOpened
  BY <1>1, <1>3, <1>4, <1>5, <1>6, OpenNext DEF AllOpened
<1> QED
  BY <1>0, <1>3, <1>7 DEF AllOpened, Opens, StepIsSimpler

\* The graph without the vertex is simpler.
LEMMA EliminateSimpler ==
  ASSUME TInv, EliminateDegree2
  PROVE  StepIsSimpler
<1> DEFINE n == orig_graph.n
           g == instance.graph
           x == Head(d2)
           h == AfterElimination(g, x)
<1>0. n = orig_graph.n /\ g = instance.graph /\ pc = "degree2" /\ d2 # <<>> /\ h = AfterElimination(g, x)
  BY DEF EliminateDegree2
<1>1. instance' = [instance EXCEPT !.graph = h] /\ pc' = "degree2" /\ UNCHANGED <<pending, instances>>
  BY DEF EliminateDegree2
<1>2. x \in V(g)
  <2>1. d2 \in Seq(V(g))
    BY DEF TInv, GraphsInv
  <2> QED
    BY <1>0, <2>1
<1> HIDE DEF n, g, x, h
<1>3. n \in Nat /\ g \in MappedGraphs(n) /\ instance \in Instances(n)
  BY <1>0, OriginalFacts, GraphsFacts DEF TInv, GraphsInv
<1>4. instance'.graph = h
  BY <1>1, <1>3 DEF Instances
<1>5. h = g \/ Simpler(h, g)
  BY <1>0, <1>2, <1>3, EliminatedIsSimpler
<1>6. Opens(h)
  BY <1>0, <1>5, AreOpen DEF Opens
<1>7. AllOpened
  BY <1>1, <1>4, <1>6, SameOpen, OpenNext DEF AllOpened
<1>8. Len(pending) \in Nat
  BY GraphsFacts DEF TInv
<1> QED
  BY <1>0, <1>1, <1>7, <1>8, PlainStep

\* The reduced graph, once more at the head.
LEMMA ReducedOpens ==
  ASSUME TInv, pc = "degree2", NEW h \in MappedGraphs(orig_graph.n), Opens(h),
         pending' = <<h>> \o pending, instances' = instances, pc' = "preprocess1",
         \/ Active(h) # V(h)
         \/ Simpler(h, instance.graph)
  PROVE  StepIsSimpler
<1> DEFINE S == MappedGraphs(orig_graph.n)
           A == <<h>>
<1>1. A \in Seq(S) /\ Len(A) = 1 /\ A[1] = h /\ pending' = A \o pending
  OBVIOUS
<1>2. pending \in Seq(S)
  BY DEF TInv, GraphsInv
<1>3. \A i \in DOMAIN pending : Opens(pending[i])
  BY AreOpen DEF Opens
<1>4. Head(pending') = h
  BY <1>1, <1>2
<1> HIDE DEF A, S
<1>5. \A i \in 1 .. Len(A) : Opens(A[i])
  BY <1>1
<1>6. \A i \in DOMAIN pending' : Opens(pending'[i])
  BY <1>1, <1>2, <1>3, <1>5, FirstOpens
<1>7. \A i \in 1 .. Len(instances') : Opens(instances'[i].graph)
  BY AreOpen DEF Opens
<1>8. AllOpened
  BY <1>6, <1>7, NothingOpens
<1> QED
  BY <1>4, <1>8 DEF AllOpened, Opens, StepIsSimpler

\* A reduced graph starts over without a vertex.
LEMMA RestartSimpler ==
  ASSUME TInv, RestartFilled
  PROVE  StepIsSimpler
<1> DEFINE g == instance.graph
<1>1. /\ pc = "degree2" /\ fill_d2 # {} /\ pending' = <<g>> \o pending /\ instances' = instances
      /\ pc' = "preprocess1" /\ g = instance.graph
  BY DEF RestartFilled
<1> HIDE DEF g
<1>2. g \in MappedGraphs(orig_graph.n)
  BY <1>1, GraphsFacts DEF TInv
<1>3. Active(g) # V(g)
  BY <1>1 DEF TInv, ReducedInv
<1>4. Opens(g)
  BY <1>1, AreOpen DEF Opens
<1> QED
  BY <1>1, <1>2, <1>3, <1>4, ReducedOpens

\* A graph starts over with an edge more.
LEMMA AddSimpler ==
  ASSUME TInv, AddMissingEdge
  PROVE  StepIsSimpler
<1> DEFINE n == orig_graph.n
           g == instance.graph
           x == MinOf(AlmostCliques(g))
           N == MissingAt(g, x)
           h == Filled(g, N)
<1>0. /\ n = orig_graph.n /\ g = instance.graph /\ pc = "degree2" /\ N = MissingAt(g, x)
      /\ h = Filled(g, N) /\ fill_d2 = {} /\ x = MinOf(AlmostCliques(g)) /\ AlmostCliques(g) # {}
  BY DEF AddMissingEdge
<1>1. pending' = <<h>> \o pending /\ pc' = "preprocess1" /\ instances' = instances
  BY DEF AddMissingEdge, WithMissing
<1> HIDE DEF n, g, x, N, h
<1>2. n \in Nat /\ g \in MappedGraphs(n)
  BY <1>0, OriginalFacts, GraphsFacts DEF TInv
<1>3. Active(g) = V(g) /\ \A v \in V(g) : ~IsClique(g, Neighbors(g, v))
  BY <1>0 DEF TInv, ReducedInv
<1>4. Simpler(h, g)
  BY <1>0, <1>2, <1>3, MissingIsSimpler
<1>5. N \in SUBSET NonEdges(g) /\ N \subseteq Pairs(Active(g))
  <2>1. \A e \in Pairs(Neighbors(g, x)) : e \in Pairs(V(g))
    BY PairsWithin DEF Neighbors
  <2> QED
    BY <1>0, <1>3, <2>1 DEF MissingAt, NonEdges
<1>6. IsReworked(g, h)
  BY <1>0, <1>2, <1>5, AddingStep
<1>7. h \in MappedGraphs(n)
  <2> DEFINE D == Back(g, h.adj \ g.adj)
  <2>1. D = Back(g, h.adj \ g.adj)
    OBVIOUS
  <2> HIDE DEF D
  <2> QED
    BY <1>2, <1>6, <2>1, ReworkedPart
<1>8. Opens(h)
  BY <1>0, <1>4, AreOpen DEF Opens
<1> QED
  BY <1>0, <1>1, <1>4, <1>7, <1>8, ReducedOpens

\* The graph becomes an instance.
LEMMA InstanceSimpler ==
  ASSUME TInv, KeepInstance
  PROVE  StepIsSimpler
<1>1. /\ pc = "degree2" /\ pc' = "preprocess1" /\ pending' = pending
      /\ instances' = Append(instances, instance)
  BY DEF KeepInstance
<1>2. instances \in Seq(Instances(orig_graph.n)) /\ instance \in Instances(orig_graph.n)
  BY <1>1 DEF TInv, GraphsInv
<1>3. \A i \in 1 .. Len(instances') :
        \/ i \in 1 .. Len(instances) /\ instances'[i] = instances[i]
        \/ instances'[i] = instance
  BY <1>1, <1>2
<1>4. \A i \in 1 .. Len(instances') : Opens(instances'[i].graph)
  BY <1>1, <1>3, AreOpen DEF Opens
<1>5. \A i \in DOMAIN pending' : Opens(pending'[i])
  BY <1>1, AreOpen DEF Opens
<1>6. AllOpened
  BY <1>1, <1>4, <1>5, NothingOpens
<1>7. Len(pending) \in Nat
  BY GraphsFacts DEF TInv
<1> QED
  BY <1>1, <1>6, <1>7, PlainStep

\* Some instances are left.
LEMMA FilterSimpler ==
  ASSUME TInv, FilterInstances
  PROVE  StepIsSimpler
<1> DEFINE m == Len(instances)
           settled == {i \in DOMAIN instances : SettledByBound(instances[i])}
           S == (1 .. m) \ settled
           left == Ascending(S)
           l == Cardinality(S)
<1>1. m \in Nat /\ DOMAIN instances = 1 .. m /\ Len(pending) \in Nat
  BY GraphsFacts DEF TInv
<1>2. /\ pc = "preprocess1" /\ pc' = "solve" /\ pending' = pending
      /\ instances' = [j \in DOMAIN left |-> instances[left[j]]]
  BY <1>1 DEF FilterInstances
<1>3. S = (1 .. m) \ settled /\ left = Ascending(S) /\ l = Cardinality(S) /\ m = Len(instances)
  OBVIOUS
<1> HIDE DEF m, settled, S, left, l
<1>4. l \in Nat /\ DOMAIN left = 1 .. l /\ Selects(left, l, m)
  <2>1. m \in Nat /\ S = (1 .. m) \ settled /\ left = Ascending(S) /\ l = Cardinality(S)
    BY <1>1, <1>3
  <2>2. /\ l \in Nat /\ DOMAIN left = 1 .. l /\ Selects(left, l, m)
        /\ NoneOf(settled, left, l) /\ (m <= 1 => l <= 1)
    BY <2>1, LeftOnes
  <2> QED
    BY <2>2
<1>5. Len(instances') = l /\ \A i \in 1 .. l : instances'[i] = instances[left[i]]
  BY <1>2, <1>4
<1>6. \A i \in 1 .. Len(instances') : Opens(instances'[i].graph)
  <2> SUFFICES ASSUME NEW i \in 1 .. l PROVE Opens(instances'[i].graph)
    BY <1>5
  <2>1. left[i] \in 1 .. Len(instances)
    BY <1>3, <1>4 DEF Selects
  <2>2. instances'[i] = instances[left[i]]
    BY <1>5
  <2> QED
    BY <2>1, <2>2, AreOpen DEF Opens
<1>7. \A i \in DOMAIN pending' : Opens(pending'[i])
  BY <1>2, AreOpen DEF Opens
<1>8. AllOpened
  BY <1>2, <1>6, <1>7, NothingOpens
<1> QED
  BY <1>1, <1>2, <1>8, PlainStep

\* The solving and the end leave the graphs.
LEMMA RestSimpler ==
  ASSUME TInv, CardinalityAborts \/ Round \/ RunOut \/ CombAborts \/ SolveComb \/ CallMapBack \/ MapBackAll
  PROVE  StepIsSimpler
<1>1. /\ UNCHANGED <<pending, instances>> /\ pc \in {"solve", "map_back"}
      /\ pc' \notin {"preprocess", "degree2"}
  BY DEF CardinalityAborts, Round, RunOut, CombAborts, SolveComb, CallMapBack, MapBackAll, MapBackStep,
         MapBackSolutions, MapBackAborts, Abort, Solving, unsolved
<1>2. AllOpened
  BY <1>1, SameOpen, NothingOpens
<1>3. Len(pending) \in Nat
  BY GraphsFacts DEF TInv
<1> QED
  BY <1>1, <1>2, <1>3, PlainStep

\* A step that changes nothing opens nothing.
LEMMA StutterSimpler ==
  ASSUME TInv, UNCHANGED tvars
  PROVE  StepIsSimpler
<1>1. UNCHANGED <<orig_graph, pc, pending, instances, instance>>
  BY DEF tvars, vars
<1>2. Open' = Open
  BY <1>1 DEF Open
<1>3. Len(pending) \in Nat
  BY GraphsFacts DEF TInv
<1> QED
  BY <1>1, <1>2, <1>3 DEF StepIsSimpler

\* All three parts hold of every step.
LEMMA StepsAreSimpler ==
  ASSUME TInv, [TNext]_tvars
  PROVE  StepIsSimpler
<1>1. CASE CallPreprocess
  <2>1. PreprocessStep
    BY <1>1 DEF CallPreprocess
  <2> QED
    BY <2>1, PreprocessSimpler, TakeSimpler, SplitSimpler, KeepSimpler, EliminateSimpler, RestartSimpler,
       AddSimpler, InstanceSimpler, FilterSimpler DEF PreprocessStep
<1>2. CASE Finished
  BY <1>2, StutterSimpler DEF Finished
<1> QED
  BY <1>1, <1>2, RestSimpler, StutterSimpler DEF TNext

\* StartsOverSimpler, for all graphs: every graph that a step opens is simpler than
\* one that was open, an atom that Preprocess2 is given has no isolated vertex, and
\* a graph that starts over has lost a vertex or has an edge more.
THEOREM RulesMakeProgress == TSpec => StartsOverSimpler
<1>1. TInv /\ [TNext]_tvars => [StepIsSimpler]_tvars
  BY StepsAreSimpler
<1>2. [][TNext]_tvars /\ []TInv => [][StepIsSimpler]_tvars
  BY <1>1, PTL
<1> QED
  BY <1>2, TInvariant, PTL DEF TSpec, StartsOverSimpler, StepIsSimpler
=============================================================================

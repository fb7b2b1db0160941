----------------------------- MODULE BtProofs -----------------------------
(***************************************************************************)
(* Proofs about BtAlgorithm, for all graphs and all sets of potential        *)
(* maximal cliques: the assertions of Solve hold, the order of the triplets   *)
(* makes an entry of the table final before it is read, and the result is     *)
(* the best one.  What Solve builds is a minimal triangulation whose maximal  *)
(* cliques were all given; and the table's entry for the root is at most the  *)
(* width of any other such triangulation, because that triangulation's own    *)
(* cliques are blocks that the loop has passed.                             *)
(***************************************************************************)
EXTENDS BtAlgorithm, GraphLemmas

-----------------------------------------------------------------------------
(* Blocks. *)

\* X is the top clique of the block of the component D across S.
IsBlock(g, X, S, D) ==
  /\ S \subseteq X /\ X \subseteq S \cup D /\ S \cap D = {}
  /\ D \subseteq V(g) /\ IsClosed(g, S, D)

\* A block below another one has fewer vertices, its separator's included.
LEMMA ChildIsSmaller ==
  ASSUME NEW g, IsGraph(g), NEW X, X \subseteq V(g), IsPmc(g, X), NEW S, NEW D,
         IsBlock(g, X, S, D), NEW v \in D \ X
  PROVE  LET C == FindComponent(g, X, v)
         IN  Cardinality(NeighborsOf(g, C)) + Cardinality(C) < Cardinality(S) + Cardinality(D)
<1> DEFINE C == FindComponent(g, X, v)
           N == NeighborsOf(g, C)
<1>1. v \in V(g) \ X /\ C \in Components(g, X)
  BY DEF IsBlock, Components
<1>2. C \subseteq V(g) \ X /\ N \subseteq X
  BY <1>1, ComponentClosed, NeighborsBlocked
<1>3. C \subseteq D
  <2>1. D \ X \in SUBSET (V(g) \ X) /\ IsClosed(g, X, D \ X) /\ v \in D \ X
    BY DEF IsBlock, IsClosed
  <2> QED
    BY <1>1, <2>1, ComponentClosed
<1>4. PICK a \in X : a \notin N
  BY <1>1, <1>2, NoFullComponent
<1> HIDE DEF C, N
<1>5. N \cup C \subseteq (S \cup D) \ {a} /\ a \in S \cup D /\ N \cap C = {}
  BY <1>2, <1>3, <1>4 DEF IsBlock
<1>6. /\ IsFiniteSet(N) /\ IsFiniteSet(C) /\ IsFiniteSet(S) /\ IsFiniteSet(D)
      /\ Cardinality(N) \in Nat /\ Cardinality(C) \in Nat
      /\ Cardinality(S) \in Nat /\ Cardinality(D) \in Nat
  <2>1. N \in SUBSET V(g) /\ C \in SUBSET V(g) /\ S \in SUBSET V(g) /\ D \in SUBSET V(g) /\ g.n \in Nat
    BY <1>2 DEF IsBlock, IsGraph
  <2> QED
    BY <2>1, VerticesFinite
<1>7. /\ IsFiniteSet(S \cup D) /\ Cardinality(S \cup D) = Cardinality(S) + Cardinality(D)
      /\ IsFiniteSet(N \cup C) /\ Cardinality(N \cup C) = Cardinality(N) + Cardinality(C)
  <2>1. S \cap D = {}
    BY DEF IsBlock
  <2> QED
    BY <2>1, <1>5, <1>6, DisjointUnion
<1>8. Cardinality(N \cup C) <= Cardinality(S \cup D) - 1
  <2>1. IsFiniteSet((S \cup D) \ {a}) /\ Cardinality((S \cup D) \ {a}) = Cardinality(S \cup D) - 1
    BY <1>5, <1>7, FS_RemoveElement
  <2> QED
    BY <2>1, <1>5, FS_Subset
<1> QED
  BY <1>6, <1>7, <1>8 DEF C, N

-----------------------------------------------------------------------------
(* The triplets. *)

\* Every triplet that Solve builds is a block of its clique.
LEMMA TripletIsBlock ==
  ASSUME IsGraph(graph), NEW X, X \subseteq V(graph), IsPmc(graph, X), NEW t \in TripletsOf(X)
  PROVE  t = <<X, t[2], t[3]>> /\ IsBlock(graph, X, t[2], t[3])
<1>1. ASSUME NEW C \in Components(graph, X), t \in BlocksAcross(X, NeighborsOf(graph, C))
      PROVE  t = <<X, t[2], t[3]>> /\ IsBlock(graph, X, t[2], t[3])
  <2> DEFINE S == NeighborsOf(graph, C)
  <2>1. PICK v \in X \ S : t = <<X, S, FindComponent(graph, S, v)>>
    BY <1>1 DEF BlocksAcross
  <2>2. S \subseteq X /\ S \subseteq V(graph) /\ v \in V(graph) \ S
    BY NeighborsBlocked
  <2>3. X \subseteq S \cup FindComponent(graph, S, v)
    BY RestIsConnected
  <2> HIDE DEF S
  <2> QED
    BY <2>1, <2>2, <2>3, ComponentClosed DEF IsBlock
<1>2. CASE t = <<X, RootState[1], RootState[2]>>
  BY <1>2 DEF RootState, IsBlock, IsClosed
<1> QED
  BY <1>1, <1>2 DEF TripletsOf

\* What the children of a triplet are.
LEMMA ChildrenOfBlock ==
  ASSUME IsGraph(graph), NEW X, X \subseteq V(graph), IsPmc(graph, X), NEW S, NEW D,
         IsBlock(graph, X, S, D), NEW s \in ChildStates(X, D)
  PROVE  /\ s = <<s[1], s[2]>>
         /\ Cardinality(s[1]) + Cardinality(s[2]) < Cardinality(S) + Cardinality(D)
<1>1. PICK v \in D \ X : s = <<NeighborsOf(graph, FindComponent(graph, X, v)),
                              FindComponent(graph, X, v)>>
  BY DEF ChildStates
<1> QED
  BY <1>1, ChildIsSmaller

-----------------------------------------------------------------------------
(* The inductive invariant. *)

CliquesArePmcs == \A X \in pmcs : X \subseteq V(graph) /\ IsPmc(graph, X)

TripletsAreBlocks ==
  /\ pc = "triplets" => triplets = {} /\ todo = {} /\ DOMAIN dp = {} /\ reconstruct = {}
  /\ \A t \in triplets : t[1] \in pmcs /\ t \in TripletsOf(t[1])

\* No triplet that the loop has passed is larger than one it will come to.
PassedInOrder == \A t \in triplets \ todo, u \in todo : SizeOf(t) <= SizeOf(u)

\* The blocks below an entry have entries.
EntriesHaveChildren == \A s \in DOMAIN dp : ChildStates(opt_choice[s], s[2]) \subseteq DOMAIN dp

QueuedHaveEntries ==
  /\ reconstruct \subseteq DOMAIN dp
  /\ pc = "reconstruct" => RootState \in DOMAIN dp

BtInv == /\ TypeOK
         /\ CliquesArePmcs
         /\ TripletsAreBlocks
         /\ PassedInOrder
         /\ EntriesHaveChildren
         /\ QueuedHaveEntries

LEMMA GraphIsGiven ==
  ASSUME TypeOK
  PROVE  IsGraph(graph) /\ graph.n \in Nat /\ graph.n >= 1
  BY GraphsAssumption DEF TypeOK, IsGraph

\* A potential maximal clique has a vertex, and its cost is a width.
LEMMA CliqueCostBounds ==
  ASSUME TypeOK, CliquesArePmcs, NEW X \in pmcs
  PROVE  CliqueCost(X) \in 0 .. graph.n - 1
<1>1. graph.n \in Nat /\ graph.n >= 1 /\ 0 \in V(graph)
  BY GraphIsGiven DEF V
<1>2. X \in SUBSET V(graph) /\ X # {}
  BY <1>1 DEF CliquesArePmcs, IsPmc, IsPmcIn
<1>3. IsFiniteSet(X) /\ Cardinality(X) \in 0 .. graph.n /\ Cardinality(X) # 0
  BY <1>1, <1>2, VerticesFinite, FS_EmptySet
<1> QED
  BY <1>1, <1>3 DEF CliqueCost

\* The cost of a triplet is the largest of finitely many widths.
LEMMA CostBounds ==
  ASSUME TypeOK, CliquesArePmcs, TripletsAreBlocks, NEW t \in todo,
         ChildStates(t[1], t[3]) \subseteq DOMAIN dp
  PROVE  /\ CostOf(t) \in 0 .. graph.n - 1
         /\ CliqueCost(t[1]) <= CostOf(t)
         /\ \A s \in ChildStates(t[1], t[3]) : dp[s] <= CostOf(t)
         /\ \/ CostOf(t) = CliqueCost(t[1])
            \/ \E s \in ChildStates(t[1], t[3]) : CostOf(t) = dp[s]
<1> DEFINE Costs == {dp[s] : s \in ChildStates(t[1], t[3])} \cup {CliqueCost(t[1])}
<1>1. t[1] \in pmcs
  BY DEF TypeOK, TripletsAreBlocks
<1>2. graph.n \in Nat /\ graph.n >= 1 /\ graph.n - 1 \in Nat
  BY GraphIsGiven
<1>3. \A c \in Costs : c \in 0 .. graph.n - 1
  BY <1>1, CliqueCostBounds DEF TypeOK
<1>4. Costs # {}
  OBVIOUS
<1>5. CostOf(t) = CHOOSE m \in Costs : \A y \in Costs : MergeCost(m, y) = m
  BY DEF CostOf
<1> HIDE DEF Costs
<1>6. Costs \in SUBSET Nat /\ \A c \in Costs : c <= graph.n - 1
  BY <1>2, <1>3
<1>7. PICK m \in Costs : \A y \in Costs : y <= m
  BY <1>2, <1>4, <1>6, GreatestElement
<1>8. \A y \in Costs : MergeCost(m, y) = m
  BY <1>6, <1>7 DEF MergeCost
<1>9. CostOf(t) \in Costs /\ \A y \in Costs : MergeCost(CostOf(t), y) = CostOf(t)
  BY <1>5, <1>8
<1>10. \A y \in Costs : y <= CostOf(t)
  BY <1>6, <1>9 DEF MergeCost
<1> QED
  BY <1>3, <1>9, <1>10 DEF Costs

LEMMA BtInit == Init => BtInv
<1> SUFFICES ASSUME Init PROVE BtInv
  OBVIOUS
<1>1. IsGraph(graph) /\ graph.n \in Nat /\ graph.n >= 1
  BY GraphsAssumption DEF Init, IsGraph
<1>2. CliquesArePmcs
  BY InputsAssumption DEF Init, CliquesArePmcs
<1>3. TypeOK
  <2>1. pmcs \subseteq SUBSET V(graph)
    BY <1>2 DEF CliquesArePmcs
  <2> QED
    BY <1>1, <2>1 DEF Init, TypeOK
<1> QED
  BY <1>2, <1>3 DEF Init, BtInv, TripletsAreBlocks, PassedInOrder, EntriesHaveChildren, QueuedHaveEntries

LEMMA BuildStep ==
  ASSUME BtInv, BuildTriplets
  PROVE  BtInv'
<1> USE DEF BtInv
<1>1. UNCHANGED <<graph, pmcs, dp, opt_choice, reconstruct, fill, pushed, width>> /\ pc' = "dp"
  BY DEF BuildTriplets, inputs, tables, result
<1>2. triplets' = UNION {TripletsOf(pmc) : pmc \in pmcs} /\ todo' = triplets'
  BY DEF BuildTriplets
<1>3. DOMAIN dp = {} /\ reconstruct = {}
  BY DEF BuildTriplets, TripletsAreBlocks
<1>4. IsGraph(graph)
  BY GraphIsGiven
<1>5. ASSUME NEW t \in triplets'
      PROVE  /\ t[1] \in pmcs /\ t \in TripletsOf(t[1])
             /\ t \in pmcs \X (SUBSET V(graph)) \X (SUBSET V(graph))
  <2>1. PICK X \in pmcs : t \in TripletsOf(X)
    BY <1>2
  <2>2. X \subseteq V(graph) /\ IsPmc(graph, X)
    BY DEF CliquesArePmcs
  <2>3. t = <<X, t[2], t[3]>> /\ IsBlock(graph, X, t[2], t[3])
    BY <1>4, <2>1, <2>2, TripletIsBlock
  <2> QED
    BY <2>1, <2>2, <2>3 DEF IsBlock
<1>6. TypeOK'
  BY <1>1, <1>2, <1>3, <1>5 DEF TypeOK
<1>7. \A X : TripletsOf(X)' = TripletsOf(X)
  BY <1>1 DEF TripletsOf, BlocksAcross, RootState
<1> QED
  BY <1>1, <1>2, <1>3, <1>5, <1>6, <1>7
  DEF CliquesArePmcs, TripletsAreBlocks, PassedInOrder, EntriesHaveChildren, QueuedHaveEntries

\* What depends on the graph alone does not change once there are triplets.
LEMMA SameBlocks ==
  ASSUME UNCHANGED graph
  PROVE  /\ \A X : TripletsOf(X)' = TripletsOf(X)
         /\ \A X, D : ChildStates(X, D)' = ChildStates(X, D)
         /\ RootState' = RootState
  BY DEF TripletsOf, BlocksAcross, RootState, ChildStates

\* The entry of a triplet is not one that a triplet of at most its size reads.
LEMMA NotReadBefore ==
  ASSUME TypeOK, CliquesArePmcs, TripletsAreBlocks,
         NEW u \in triplets, NEW t \in triplets, SizeOf(t) <= SizeOf(u)
  PROVE  <<u[2], u[3]>> \notin ChildStates(t[1], t[3])
<1> SUFFICES ASSUME <<u[2], u[3]>> \in ChildStates(t[1], t[3]) PROVE FALSE
  OBVIOUS
<1>1. t[1] \in pmcs /\ t \in TripletsOf(t[1])
  BY DEF TripletsAreBlocks
<1>2. t[1] \subseteq V(graph) /\ IsPmc(graph, t[1]) /\ IsGraph(graph) /\ graph.n \in Nat
  BY <1>1, GraphIsGiven DEF CliquesArePmcs
<1>3. IsBlock(graph, t[1], t[2], t[3])
  BY <1>1, <1>2, TripletIsBlock
<1>4. SizeOf(u) < SizeOf(t)
  BY <1>2, <1>3, ChildrenOfBlock DEF SizeOf
<1>5. SizeOf(t) \in Int /\ SizeOf(u) \in Int
  <2>1. /\ t[2] \in SUBSET V(graph) /\ t[3] \in SUBSET V(graph)
        /\ u[2] \in SUBSET V(graph) /\ u[3] \in SUBSET V(graph)
    BY DEF TypeOK
  <2> QED
    BY <2>1, <1>2, VerticesFinite DEF SizeOf
<1> QED
  BY <1>4, <1>5

LEMMA ProcessStep ==
  ASSUME BtInv, NEW t \in todo, ProcessTriplet(t)
  PROVE  BtInv'
<1> USE DEF BtInv
<1>1. /\ UNCHANGED <<graph, pmcs, pc, triplets, reconstruct, fill, pushed, width>>
      /\ pc = "dp" /\ todo' = todo \ {t} /\ \A u \in todo : SizeOf(t) <= SizeOf(u)
  BY DEF ProcessTriplet, inputs, result
<1>2. /\ \A X : TripletsOf(X)' = TripletsOf(X)
      /\ \A X, D : ChildStates(X, D)' = ChildStates(X, D)
      /\ RootState' = RootState
  BY <1>1, SameBlocks
<1> DEFINE state == <<t[2], t[3]>>
<1>3. t \in triplets /\ t[1] \in pmcs /\ state \in {<<u[2], u[3]>> : u \in triplets}
  BY DEF TypeOK, TripletsAreBlocks
<1>4. /\ DOMAIN dp \subseteq DOMAIN dp' /\ DOMAIN opt_choice' = DOMAIN dp'
      /\ \A s \in DOMAIN dp' :
           \/ s \in DOMAIN dp /\ dp'[s] = dp[s] /\ opt_choice'[s] = opt_choice[s]
           \/ /\ s = state /\ dp'[s] \in 0 .. graph.n - 1 /\ opt_choice'[s] = t[1]
              /\ ChildStates(t[1], t[3]) \subseteq DOMAIN dp
  <2>1. CASE UNCHANGED tables
    BY <2>1 DEF tables, TypeOK
  <2>2. CASE /\ ChildStates(t[1], t[3]) \subseteq DOMAIN dp
             /\ dp' = Update(dp, state, CostOf(t))
             /\ opt_choice' = Update(opt_choice, state, t[1])
    <3>1. CostOf(t) \in 0 .. graph.n - 1
      BY <2>2, CostBounds
    <3> HIDE DEF state
    <3> QED
      BY <2>2, <3>1 DEF Update, TypeOK
  <2> QED
    BY <2>1, <2>2 DEF ProcessTriplet, Keeps, ChildMissing
<1>5. TypeOK'
  <2>1. /\ DOMAIN dp' \subseteq {<<u[2], u[3]>> : u \in triplets}
        /\ \A s \in DOMAIN dp' : dp'[s] \in 0 .. (graph.n - 1) /\ opt_choice'[s] \in pmcs
    BY <1>3, <1>4 DEF TypeOK
  <2> QED
    BY <1>1, <1>4, <2>1 DEF TypeOK
<1>6. PassedInOrder'
  BY <1>1 DEF PassedInOrder, SizeOf
<1>7. EntriesHaveChildren'
  <2> SUFFICES ASSUME NEW s \in DOMAIN dp'
               PROVE  ChildStates(opt_choice'[s], s[2]) \subseteq DOMAIN dp'
    BY <1>2 DEF EntriesHaveChildren
  <2> QED
    BY <1>4 DEF EntriesHaveChildren
<1>8. CliquesArePmcs' /\ TripletsAreBlocks' /\ QueuedHaveEntries'
  BY <1>1, <1>2, <1>4 DEF CliquesArePmcs, TripletsAreBlocks, QueuedHaveEntries
<1> QED
  BY <1>5, <1>6, <1>7, <1>8

LEMMA ReconstructStep ==
  ASSUME BtInv, NEW s \in reconstruct, ReconstructState(s)
  PROVE  BtInv'
<1> USE DEF BtInv
<1>1. /\ UNCHANGED <<graph, pmcs, pc, triplets, todo, dp, opt_choice, width>>
      /\ pc = "reconstruct"
      /\ fill' = fill \cup FillOf(s) /\ pushed' = pushed + Cardinality(FillOf(s))
      /\ reconstruct' = (reconstruct \ {s}) \cup ChildStates(opt_choice[s], s[2])
  BY DEF ReconstructState, inputs, tables
<1>2. /\ \A X : TripletsOf(X)' = TripletsOf(X)
      /\ \A X, D : ChildStates(X, D)' = ChildStates(X, D)
      /\ RootState' = RootState
  BY <1>1, SameBlocks
<1>3. s \in DOMAIN dp /\ opt_choice[s] \in pmcs /\ opt_choice[s] \subseteq V(graph)
  BY DEF QueuedHaveEntries, TypeOK, CliquesArePmcs
<1>4. FillOf(s) \subseteq Pairs(V(graph))
  BY <1>3, PairsMember DEF FillOf
<1>5. Cardinality(FillOf(s)) \in Nat
  <2>1. IsFiniteSet(SUBSET V(graph)) /\ FillOf(s) \subseteq SUBSET V(graph)
    BY <1>4, PairsMember, GraphIsGiven, VerticesFinite, FS_SUBSET
  <2> QED
    BY <2>1, FS_Subset, FS_CardinalityType
<1>6. TypeOK'
  BY <1>1, <1>4, <1>5 DEF TypeOK
<1> QED
  BY <1>1, <1>2, <1>3, <1>6
  DEF CliquesArePmcs, TripletsAreBlocks, PassedInOrder, SizeOf, EntriesHaveChildren, QueuedHaveEntries

LEMMA BtNext == BtInv /\ [Next]_vars => BtInv'
<1> SUFFICES ASSUME BtInv, [Next]_vars PROVE BtInv'
  OBVIOUS
<1> USE DEF BtInv, inputs, tables, result
<1>1. CASE BuildTriplets
  BY <1>1, BuildStep
<1>2. ASSUME NEW t \in todo, ProcessTriplet(t) PROVE BtInv'
  BY <1>2, ProcessStep
<1>3. ASSUME NEW s \in reconstruct, ReconstructState(s) PROVE BtInv'
  BY <1>3, ReconstructStep
<1>4. CASE NoSolution \/ StartReconstruct \/ ReturnSolution \/ Returned \/ UNCHANGED vars
  <2>1. UNCHANGED <<graph, pmcs, triplets, todo, dp, opt_choice, fill, pushed>>
    BY <1>4 DEF NoSolution, StartReconstruct, ReturnSolution, Returned, vars
  <2>2. /\ \A X : TripletsOf(X)' = TripletsOf(X)
        /\ \A X, D : ChildStates(X, D)' = ChildStates(X, D)
        /\ RootState' = RootState
    BY <2>1, SameBlocks
  <2>3. /\ pc' \in {"triplets", "dp", "reconstruct", "done"}
        /\ pc' = "triplets" => pc = "triplets" /\ UNCHANGED reconstruct
        /\ width' \in -1 .. (graph.n - 1)
        /\ QueuedHaveEntries'
    BY <1>4, <2>1, <2>2
    DEF NoSolution, StartReconstruct, ReturnSolution, Returned, vars, TypeOK, QueuedHaveEntries
  <2>4. TypeOK'
    BY <2>1, <2>3 DEF TypeOK
  <2> QED
    BY <2>1, <2>2, <2>3, <2>4
    DEF CliquesArePmcs, TripletsAreBlocks, PassedInOrder, SizeOf, EntriesHaveChildren
<1> QED
  BY <1>1, <1>2, <1>3, <1>4 DEF Next

LEMMA BtInvariant == Spec => []BtInv
  BY BtInit, BtNext, PTL DEF Spec

-----------------------------------------------------------------------------
(* What the table holds. *)

\* An entry is the cost of the clique chosen for it: the larger of the clique's own
\* and of the entries below it, as they are now.
EntryExact(s) ==
  /\ s = <<s[1], s[2]>> /\ <<opt_choice[s], s[1], s[2]>> \in triplets \ todo
  /\ CliqueCost(opt_choice[s]) <= dp[s]
  /\ \A c \in ChildStates(opt_choice[s], s[2]) : dp[c] <= dp[s]
  /\ \/ dp[s] = CliqueCost(opt_choice[s])
     \/ \E c \in ChildStates(opt_choice[s], s[2]) : dp[s] = dp[c]

EntriesExact == \A s \in DOMAIN dp : EntryExact(s)

LEMMA ProcessKeepsExact ==
  ASSUME BtInv, EntriesExact, NEW t \in todo, ProcessTriplet(t)
  PROVE  EntriesExact'
<1> USE DEF BtInv
<1>1. /\ UNCHANGED <<graph, pmcs, triplets>>
      /\ todo' = todo \ {t} /\ \A u \in todo : SizeOf(t) <= SizeOf(u)
  BY DEF ProcessTriplet, inputs
<1>2. \A X, D : ChildStates(X, D)' = ChildStates(X, D)
  BY <1>1, SameBlocks
<1> DEFINE state == <<t[2], t[3]>>
<1>3. t \in triplets /\ t = <<t[1], t[2], t[3]>>
  BY DEF TypeOK
<1>4. CASE UNCHANGED tables
  BY <1>1, <1>2, <1>4 DEF EntriesExact, EntryExact, tables, CliqueCost
<1>5. CASE /\ ChildStates(t[1], t[3]) \subseteq DOMAIN dp
           /\ dp' = Update(dp, state, CostOf(t))
           /\ opt_choice' = Update(opt_choice, state, t[1])
  <2>1. /\ dp'[state] = CostOf(t) /\ opt_choice'[state] = t[1]
        /\ DOMAIN dp' = DOMAIN dp \cup {state}
        /\ \A s \in DOMAIN dp : s # state => dp'[s] = dp[s] /\ opt_choice'[s] = opt_choice[s]
    BY <1>5 DEF Update, TypeOK
  <2>2. /\ CliqueCost(t[1]) <= CostOf(t)
        /\ \A s \in ChildStates(t[1], t[3]) : dp[s] <= CostOf(t)
        /\ \/ CostOf(t) = CliqueCost(t[1])
           \/ \E s \in ChildStates(t[1], t[3]) : CostOf(t) = dp[s]
    BY <1>5, CostBounds
  <2>3. \A u \in triplets : SizeOf(u) <= SizeOf(t) => state \notin ChildStates(u[1], u[3])
    BY <1>3, NotReadBefore
  <2>4. SizeOf(t) <= SizeOf(t)
    BY <1>1
  <2>5. state[1] = t[2] /\ state[2] = t[3] /\ state = <<state[1], state[2]>>
    OBVIOUS
  <2> HIDE DEF state
  <2>6. ASSUME NEW s \in DOMAIN dp', s # state
        PROVE  EntryExact(s)'
    <3>1. s \in DOMAIN dp /\ EntryExact(s)
      BY <2>1, <2>6 DEF EntriesExact
    <3> DEFINE u == <<opt_choice[s], s[1], s[2]>>
    <3>2. u \in triplets \ todo /\ SizeOf(u) <= SizeOf(t) /\ u[1] = opt_choice[s] /\ u[3] = s[2]
      BY <3>1 DEF EntryExact, PassedInOrder
    <3>3. state \notin ChildStates(opt_choice[s], s[2])
      BY <2>3, <3>2
    <3>4. \A c \in ChildStates(opt_choice[s], s[2]) : dp'[c] = dp[c]
      BY <2>1, <3>1, <3>3 DEF EntriesHaveChildren
    <3> QED
      BY <1>1, <1>2, <2>1, <2>6, <3>1, <3>2, <3>4 DEF EntryExact, CliqueCost
  <2>7. EntryExact(state)'
    <3>1. state \notin ChildStates(t[1], t[3])
      BY <1>3, <2>3, <2>4
    <3>2. \A c \in ChildStates(t[1], t[3]) : dp'[c] = dp[c]
      BY <1>5, <2>1, <3>1
    <3>3. <<t[1], t[2], t[3]>> \in triplets \ todo'
      BY <1>1, <1>3
    <3>4. state' = state
      BY DEF state
    <3> QED
      BY <1>1, <1>2, <2>1, <2>2, <2>5, <3>2, <3>3, <3>4 DEF EntryExact, CliqueCost
  <2> QED
    BY <2>1, <2>6, <2>7 DEF EntriesExact
<1> QED
  BY <1>4, <1>5 DEF ProcessTriplet, Keeps, ChildMissing

LEMMA EntriesExactInvariant == Spec => []EntriesExact
<1>1. Init => EntriesExact
  BY DEF Init, EntriesExact
<1>2. BtInv /\ EntriesExact /\ [Next]_vars => EntriesExact'
  <2> SUFFICES ASSUME BtInv, EntriesExact, [Next]_vars PROVE EntriesExact'
    OBVIOUS
  <2> USE DEF inputs, tables, result
  <2>1. CASE BuildTriplets
    BY <2>1 DEF BuildTriplets, BtInv, TripletsAreBlocks, EntriesExact
  <2>2. ASSUME NEW t \in todo, ProcessTriplet(t) PROVE EntriesExact'
    BY <2>2, ProcessKeepsExact
  <2>3. CASE UNCHANGED <<graph, triplets, todo, dp, opt_choice>>
    <3>1. \A X, D : ChildStates(X, D)' = ChildStates(X, D)
      BY <2>3, SameBlocks
    <3> QED
      BY <2>3, <3>1 DEF EntriesExact, EntryExact, CliqueCost
  <2> QED
    BY <2>1, <2>2, <2>3 DEF Next, NoSolution, StartReconstruct, ReconstructState,
                           ReturnSolution, Returned, vars
<1> QED
  BY <1>1, <1>2, BtInvariant, PTL DEF Spec

-----------------------------------------------------------------------------
(* What the reconstruction has built. *)

\* The blocks below a block: what its top clique leaves of it, in parts.
LEMMA ChildrenCover ==
  ASSUME IsGraph(graph), NEW X, X \subseteq V(graph), NEW S, NEW D, IsBlock(graph, X, S, D)
  PROVE  /\ \A c \in ChildStates(X, D) :
              /\ c[1] = NeighborsOf(graph, c[2]) /\ c[1] \subseteq X
              /\ c[2] \subseteq D \ X
         /\ \A v \in D \ X : \E c \in ChildStates(X, D) : v \in c[2]
         /\ \A c, d \in ChildStates(X, D) : c # d => c[2] \cap d[2] = {}
<1>1. ASSUME NEW v \in D \ X
      PROVE  /\ v \in FindComponent(graph, X, v)
             /\ FindComponent(graph, X, v) \in Components(graph, X)
             /\ FindComponent(graph, X, v) \subseteq D \ X
             /\ NeighborsOf(graph, FindComponent(graph, X, v)) \subseteq X
  <2>1. v \in V(graph) \ X
    BY DEF IsBlock
  <2>2. D \ X \in SUBSET (V(graph) \ X) /\ IsClosed(graph, X, D \ X)
    BY DEF IsBlock, IsClosed
  <2>3. FindComponent(graph, X, v) \in Components(graph, X)
    BY <2>1 DEF Components
  <2> QED
    BY <2>1, <2>2, <2>3, ComponentClosed, NeighborsBlocked
<1>2. \A c \in ChildStates(X, D) :
        \E v \in D \ X : c = <<NeighborsOf(graph, FindComponent(graph, X, v)), FindComponent(graph, X, v)>>
  BY DEF ChildStates
<1>3. ASSUME NEW c \in ChildStates(X, D), NEW d \in ChildStates(X, D), NEW w \in c[2] \cap d[2]
      PROVE  c = d
  <2>1. PICK u \in D \ X : c = <<NeighborsOf(graph, FindComponent(graph, X, u)), FindComponent(graph, X, u)>>
    BY <1>2
  <2>2. PICK v \in D \ X : d = <<NeighborsOf(graph, FindComponent(graph, X, v)), FindComponent(graph, X, v)>>
    BY <1>2
  <2>3. FindComponent(graph, X, u) = FindComponent(graph, X, v)
    <3>1. u \in V(graph) \ X /\ v \in V(graph) \ X
      BY DEF IsBlock
    <3>2. w \in FindComponent(graph, X, u) /\ w \in FindComponent(graph, X, v)
      BY <2>1, <2>2
    <3> QED
      BY <3>1, <3>2, ComponentOfMember
  <2> QED
    BY <2>1, <2>2, <2>3
<1>4. ASSUME NEW v \in D \ X PROVE \E c \in ChildStates(X, D) : v \in c[2]
  <2>1. <<NeighborsOf(graph, FindComponent(graph, X, v)), FindComponent(graph, X, v)>> \in ChildStates(X, D)
    BY DEF ChildStates
  <2> QED
    BY <2>1, <1>1
<1> QED
  BY <1>1, <1>2, <1>3, <1>4

\* The edges of the graph and of the fill so far; the vertices that no queued block
\* is still to decide about; and the cliques.
Edges == graph.adj \cup fill
Decided == {v \in V(graph) : \A s \in reconstruct : v \notin s[2]}
Joined(K) == \A u, w \in K : u # w => {u, w} \in Edges

QueueApart ==
  /\ \A s \in reconstruct : s[1] = NeighborsOf(graph, s[2])
  /\ \A s, r \in reconstruct : s # r => s[2] \cap r[2] = {} /\ s[1] \cap r[2] = {}

FillApart ==
  /\ fill \subseteq NonEdges(graph) /\ pushed = Cardinality(fill)
  /\ \A s \in reconstruct, e \in fill : e \cap s[2] = {}
  /\ \A s \in reconstruct : Joined(s[1])

DecidedChordal ==
  \A T \in SUBSET Decided : T # {} => \E v \in T : Joined({u \in T : {u, v} \in Edges})

CliquesBounded ==
  /\ \A s \in reconstruct : dp[s] <= dp[RootState]
  /\ \A K \in SUBSET Decided : Joined(K) => Cardinality(K) <= dp[RootState] + 1

BoundReached ==
  \/ \E s \in reconstruct : dp[s] = dp[RootState]
  \/ \E K \in SUBSET Decided : Joined(K) /\ Cardinality(K) = dp[RootState] + 1

\* Every clique among the decided vertices is part of one that was given.
CliquesChosen ==
  \A K \in SUBSET Decided : K # {} /\ Joined(K) => \E X \in pmcs : K \subseteq X /\ Joined(X)

\* The component C is shut off: its neighbours are decided, and no fill edge leads
\* or will lead from it to other vertices.
ShutOff(C) ==
  /\ NeighborsOf(graph, C) \subseteq Decided
  /\ \A e \in fill : e \cap C # {} => e \subseteq C \cup NeighborsOf(graph, C)
  /\ \A s \in reconstruct : s[2] \subseteq C \/ s[2] \cap C = {}

\* Each fill edge joins two vertices that such a component outside a clique sees.
FillNeeded ==
  \A e \in fill : \E X \in pmcs : \E C \in Components(graph, X) :
    e \subseteq NeighborsOf(graph, C) /\ ShutOff(C)

\* What holds from the root's being queued to the return of a triangulation.
BuildInv == /\ QueueApart /\ FillApart /\ DecidedChordal
            /\ CliquesBounded /\ BoundReached
            /\ CliquesChosen /\ FillNeeded

\* The turn of a queued block, whose top clique is X.
LEMMA TurnFacts ==
  ASSUME BtInv, EntriesExact, QueueApart, FillApart,
         NEW s \in reconstruct, ReconstructState(s)
  PROVE  /\ UNCHANGED <<graph, pmcs, dp>> /\ fill' = fill \cup FillOf(s)
         /\ pushed' = pushed + Cardinality(FillOf(s))
         /\ reconstruct' = (reconstruct \ {s}) \cup ChildStates(opt_choice[s], s[2])
         /\ IsGraph(graph) /\ s \in DOMAIN dp
         /\ opt_choice[s] \in pmcs /\ IsPmc(graph, opt_choice[s])
         /\ opt_choice[s] \subseteq V(graph) /\ IsBlock(graph, opt_choice[s], s[1], s[2])
         /\ \A u, w \in opt_choice[s] : u # w => {u, w} \in Edges'
         /\ \A e \in FillOf(s) : e \subseteq opt_choice[s] /\ e \cap s[2] # {} /\ e \in NonEdges(graph)
<1> DEFINE X == opt_choice[s]
<1>1. /\ UNCHANGED <<graph, pmcs, dp>> /\ fill' = fill \cup FillOf(s)
      /\ pushed' = pushed + Cardinality(FillOf(s))
      /\ reconstruct' = (reconstruct \ {s}) \cup ChildStates(X, s[2])
  BY DEF ReconstructState, inputs, tables
<1>2. IsGraph(graph) /\ s \in DOMAIN dp /\ X \in pmcs
  BY GraphIsGiven DEF BtInv, QueuedHaveEntries, TypeOK
<1>3. X \subseteq V(graph) /\ IsPmc(graph, X)
  BY <1>2 DEF BtInv, CliquesArePmcs
<1>4. IsBlock(graph, X, s[1], s[2])
  <2>1. <<X, s[1], s[2]>> \in triplets
    BY <1>2 DEF EntriesExact, EntryExact
  <2>2. <<X, s[1], s[2]>>[1] = X
    OBVIOUS
  <2> HIDE DEF X
  <2>3. <<X, s[1], s[2]>> \in TripletsOf(X)
    BY <2>1, <2>2 DEF BtInv, TripletsAreBlocks
  <2>4. IsBlock(graph, X, <<X, s[1], s[2]>>[2], <<X, s[1], s[2]>>[3])
    BY <1>2, <1>3, <2>3, TripletIsBlock
  <2> QED
    BY <2>4
<1>5. ASSUME NEW e \in FillOf(s)
      PROVE  e \subseteq X /\ e \cap s[2] # {} /\ e \in NonEdges(graph)
  <2>1. e \in Pairs(X) /\ e \notin graph.adj /\ ~(e \subseteq s[1])
    BY DEF FillOf
  <2>2. e \subseteq X /\ e \in Pairs(V(graph))
    BY <1>3, <2>1, PairsMember
  <2> QED
    BY <1>4, <2>1, <2>2 DEF IsBlock, NonEdges
<1>6. ASSUME NEW u \in X, NEW w \in X, u # w
      PROVE  {u, w} \in Edges'
  <2>1. {u, w} \in Pairs(X)
    BY <1>6, PairsOf
  <2>2. CASE {u, w} \subseteq s[1]
    BY <1>1, <1>6, <2>2 DEF FillApart, Joined, Edges
  <2>3. CASE ~({u, w} \subseteq s[1]) /\ {u, w} \notin graph.adj
    BY <1>1, <2>1, <2>3 DEF FillOf, Edges
  <2> QED
    BY <1>1, <2>2, <2>3 DEF Edges
<1> QED
  BY <1>1, <1>2, <1>3, <1>4, <1>5, <1>6

\* What becomes decided, and which edges the turn adds.
LEMMA TurnDecides ==
  ASSUME BtInv, EntriesExact, QueueApart, FillApart,
         NEW s \in reconstruct, ReconstructState(s)
  PROVE  /\ Decided \subseteq Decided' /\ Decided \cap s[2] = {} /\ Edges \subseteq Edges'
         /\ \A v \in Decided' : v \in Decided \/ v \in opt_choice[s] \cap s[2]
         /\ \A v \in opt_choice[s] : v \in Decided'
         /\ \A v \in opt_choice[s] \cap s[2], u \in Decided' :
              {u, v} \in Edges' => u \in opt_choice[s]
         /\ \A u, w \in Decided : {u, w} \in Edges' => {u, w} \in Edges
<1> DEFINE X == opt_choice[s]
           S == s[1]
           D == s[2]
<1>1. /\ UNCHANGED <<graph, dp>> /\ fill' = fill \cup FillOf(s)
      /\ reconstruct' = (reconstruct \ {s}) \cup ChildStates(X, D)
      /\ IsGraph(graph) /\ X \subseteq V(graph) /\ IsBlock(graph, X, S, D)
      /\ \A e \in FillOf(s) : e \subseteq X /\ e \cap D # {}
  BY TurnFacts
<1>2. /\ \A c \in ChildStates(X, D) : c[1] \subseteq X /\ c[2] \subseteq D \ X
      /\ \A v \in D \ X : \E c \in ChildStates(X, D) : v \in c[2]
  BY <1>1, ChildrenCover
<1>3. V(graph)' = V(graph) /\ Edges \subseteq Edges'
  BY <1>1 DEF Edges
<1>4. \A r \in reconstruct : r # s => D \cap r[2] = {} /\ S \cap r[2] = {}
  BY DEF QueueApart
<1>5. S \subseteq X /\ X \subseteq S \cup D /\ IsClosed(graph, S, D) /\ D \subseteq V(graph)
  BY <1>1 DEF IsBlock
<1> HIDE DEF X, S
<1>6. Decided \subseteq Decided' /\ Decided \cap D = {}
  BY <1>1, <1>2, <1>3 DEF Decided
<1>7. \A v \in Decided' : v \in Decided \/ v \in X \cap D
  BY <1>1, <1>2, <1>3 DEF Decided
<1>8. \A v \in X : v \in Decided'
  BY <1>1, <1>2, <1>3, <1>4, <1>5 DEF Decided
<1>9. ASSUME NEW v \in X \cap D, NEW u \in Decided', {u, v} \in Edges'
      PROVE  u \in X
  <2>1. CASE {u, v} \in graph.adj
    <3>1. u \in V(graph) /\ HasEdge(graph, v, u)
      BY <1>3, <2>1 DEF HasEdge, Decided
    <3>2. u \in S \/ u \in D
      BY <1>5, <3>1 DEF IsClosed
    <3> QED
      BY <1>5, <1>6, <1>7, <3>2
  <2>2. CASE {u, v} \in FillOf(s)
    BY <1>1, <2>2
  <2>3. CASE {u, v} \in fill
    BY <2>3 DEF FillApart
  <2> QED
    BY <1>1, <1>9, <2>1, <2>2, <2>3 DEF Edges
<1>10. ASSUME NEW u \in Decided, NEW w \in Decided, {u, w} \in Edges'
       PROVE  {u, w} \in Edges
  BY <1>1, <1>6, <1>10 DEF Edges
<1> QED
  BY <1>3, <1>6, <1>7, <1>8, <1>9, <1>10 DEF X, S

LEMMA TurnKeepsApart ==
  ASSUME BtInv, EntriesExact, QueueApart, FillApart,
         NEW s \in reconstruct, ReconstructState(s)
  PROVE  QueueApart' /\ FillApart'
<1> DEFINE X == opt_choice[s]
           S == s[1]
           D == s[2]
           Children == ChildStates(X, D)
<1>1. /\ UNCHANGED graph /\ fill' = fill \cup FillOf(s)
      /\ pushed' = pushed + Cardinality(FillOf(s))
      /\ reconstruct' = (reconstruct \ {s}) \cup Children
      /\ IsGraph(graph) /\ X \subseteq V(graph) /\ IsBlock(graph, X, S, D)
      /\ \A u, w \in X : u # w => {u, w} \in Edges'
      /\ \A e \in FillOf(s) : e \subseteq X /\ e \cap D # {} /\ e \in NonEdges(graph)
  BY TurnFacts
<1>2. /\ \A c \in Children : c[1] = NeighborsOf(graph, c[2]) /\ c[1] \subseteq X /\ c[2] \subseteq D \ X
      /\ \A c, d \in Children : c # d => c[2] \cap d[2] = {}
  <2> HIDE DEF X, S, D
  <2>1. /\ \A c \in ChildStates(X, D) :
             c[1] = NeighborsOf(graph, c[2]) /\ c[1] \subseteq X /\ c[2] \subseteq D \ X
        /\ \A c, d \in ChildStates(X, D) : c # d => c[2] \cap d[2] = {}
    <3> HIDE DEF Children
    <3> QED
      BY <1>1, ChildrenCover
  <2> QED
    BY <2>1
<1>3. \A r \in reconstruct : r # s =>
        D \cap r[2] = {} /\ S \cap r[2] = {} /\ r[1] \cap D = {} /\ r[2] \cap D = {}
  BY DEF QueueApart
<1>4. S \subseteq X /\ X \subseteq S \cup D
  BY <1>1 DEF IsBlock
<1> HIDE DEF X, S, D, Children
<1>5. QueueApart'
  <2>1. ASSUME NEW r \in reconstruct'
        PROVE  r[1] = NeighborsOf(graph, r[2])
    BY <1>1, <1>2 DEF QueueApart
  <2>2. ASSUME NEW r \in reconstruct', NEW q \in reconstruct', r # q
        PROVE  r[2] \cap q[2] = {} /\ r[1] \cap q[2] = {}
    <3>1. CASE r \in Children /\ q \in Children
      BY <1>2, <2>2, <3>1
    <3>2. CASE r \in reconstruct \ {s} /\ q \in Children
      BY <1>2, <1>3, <3>2
    <3>3. CASE r \in Children /\ q \in reconstruct \ {s}
      BY <1>2, <1>3, <1>4, <3>3
    <3>4. CASE r \in reconstruct \ {s} /\ q \in reconstruct \ {s}
      BY <2>2, <3>4 DEF QueueApart
    <3> QED
      BY <1>1, <3>1, <3>2, <3>3, <3>4
  <2>3. \A C : NeighborsOf(graph, C)' = NeighborsOf(graph, C)
    BY <1>1
  <2> QED
    BY <1>1, <2>1, <2>2 DEF QueueApart
<1>6. fill' \subseteq NonEdges(graph)' /\ pushed' = Cardinality(fill')
  <2>1. fill \subseteq NonEdges(graph) /\ FillOf(s) \subseteq NonEdges(graph)
    BY <1>1 DEF FillApart
  <2>2. fill \cap FillOf(s) = {}
    BY <1>1 DEF FillApart, D
  <2>3. IsFiniteSet(fill) /\ IsFiniteSet(FillOf(s))
    <3>1. IsFiniteSet(SUBSET V(graph))
      BY <1>1, VerticesFinite, FS_SUBSET DEF IsGraph
    <3>2. fill \in SUBSET (SUBSET V(graph)) /\ FillOf(s) \in SUBSET (SUBSET V(graph))
      BY <2>1, PairsMember DEF NonEdges
    <3> QED
      BY <3>1, <3>2, FS_Subset
  <2>4. Cardinality(fill \cup FillOf(s)) = Cardinality(fill) + Cardinality(FillOf(s))
    BY <2>2, <2>3, DisjointUnion
  <2> QED
    BY <1>1, <2>1, <2>4 DEF FillApart
<1>7. ASSUME NEW r \in reconstruct', NEW e \in fill'
      PROVE  e \cap r[2] = {}
  <2>1. CASE e \in fill
    BY <1>1, <1>2, <2>1 DEF FillApart, D
  <2>2. CASE e \in FillOf(s)
    BY <1>1, <1>2, <1>3, <1>4, <2>2
  <2> QED
    BY <1>1, <2>1, <2>2
<1>8. ASSUME NEW r \in reconstruct' PROVE Joined(r[1])'
  <2>1. CASE r \in reconstruct
    BY <1>1, <2>1 DEF FillApart, Joined, Edges
  <2>2. CASE r \in Children
    BY <1>1, <1>2, <2>2 DEF Joined
  <2> QED
    BY <1>1, <2>1, <2>2
<1> QED
  BY <1>5, <1>6, <1>7, <1>8 DEF FillApart

LEMMA TurnKeepsChordal ==
  ASSUME BtInv, EntriesExact, QueueApart, FillApart, DecidedChordal,
         NEW s \in reconstruct, ReconstructState(s)
  PROVE  DecidedChordal'
<1> DEFINE X == opt_choice[s]
<1>1. \A u, w \in X : u # w => {u, w} \in Edges'
  BY TurnFacts
<1>2. /\ \A v \in Decided' : v \in Decided \/ v \in X \cap s[2]
      /\ \A v \in X \cap s[2], u \in Decided' : {u, v} \in Edges' => u \in X
      /\ \A u, w \in Decided : {u, w} \in Edges' => {u, w} \in Edges
      /\ Edges \subseteq Edges'
  BY TurnDecides
<1> HIDE DEF X
<1> SUFFICES ASSUME NEW T \in SUBSET Decided', T # {}
             PROVE  \E v \in T : \A u, w \in {z \in T : {z, v} \in Edges'} :
                                   u # w => {u, w} \in Edges'
  BY DEF DecidedChordal, Joined
<1>3. ASSUME NEW v \in T, v \in X \cap s[2]
      PROVE  \A u, w \in {z \in T : {z, v} \in Edges'} : u # w => {u, w} \in Edges'
  BY <1>1, <1>2, <1>3
<1>4. CASE \A v \in T : v \in Decided
  <2>1. PICK v \in T : Joined({z \in T : {z, v} \in Edges})
    BY <1>4 DEF DecidedChordal
  <2>2. ASSUME NEW u \in T, NEW w \in T, u # w, {u, v} \in Edges', {w, v} \in Edges'
        PROVE  {u, w} \in Edges'
    <3>1. {u, v} \in Edges /\ {w, v} \in Edges
      BY <1>2, <1>4, <2>2
    <3> QED
      BY <1>2, <2>1, <2>2, <3>1 DEF Joined
  <2> QED
    BY <2>2
<1> QED
  BY <1>2, <1>3, <1>4

LEMMA TurnKeepsBound ==
  ASSUME BtInv, BtInv', EntriesExact, QueueApart, FillApart, CliquesBounded,
         NEW s \in reconstruct, ReconstructState(s)
  PROVE  CliquesBounded'
<1> DEFINE X == opt_choice[s]
<1>1. /\ UNCHANGED <<graph, dp>>
      /\ reconstruct' = (reconstruct \ {s}) \cup ChildStates(X, s[2])
      /\ IsGraph(graph) /\ X \in SUBSET V(graph) /\ s \in DOMAIN dp
  BY TurnFacts
<1>2. /\ \A v \in Decided' : v \in Decided \/ v \in X \cap s[2]
      /\ \A v \in X \cap s[2], u \in Decided' : {u, v} \in Edges' => u \in X
      /\ \A u, w \in Decided : {u, w} \in Edges' => {u, w} \in Edges
  BY TurnDecides
<1>3. RootState' = RootState
  BY <1>1, SameBlocks
<1>4. dp[s] <= dp[RootState]
  BY DEF CliquesBounded
<1>5. CliqueCost(X) <= dp[s] /\ \A c \in ChildStates(X, s[2]) : dp[c] <= dp[s]
  BY <1>1 DEF EntriesExact, EntryExact
<1>6. /\ RootState \in DOMAIN dp /\ dp[RootState] \in Int /\ dp[s] \in Int
      /\ \A c \in ChildStates(X, s[2]) : dp[c] \in Int
  <2>1. RootState \in DOMAIN dp /\ ChildStates(X, s[2]) \subseteq DOMAIN dp
    BY <1>1 DEF BtInv, QueuedHaveEntries, EntriesHaveChildren, ReconstructState
  <2>2. \A r \in DOMAIN dp : dp[r] \in 0 .. (graph.n - 1)
    BY DEF BtInv, TypeOK
  <2> QED
    BY <1>1, <2>1, <2>2 DEF IsGraph
<1>7. IsFiniteSet(X) /\ Cardinality(X) \in Nat
  BY <1>1, VerticesFinite DEF IsGraph
<1>8. Cardinality(X) <= dp[RootState] + 1
  BY <1>4, <1>5, <1>6, <1>7 DEF CliqueCost
<1>9. \A r \in reconstruct' : dp[r] <= dp[RootState]
  <2> SUFFICES ASSUME NEW c \in ChildStates(X, s[2]) PROVE dp[c] <= dp[RootState]
    BY <1>1 DEF CliquesBounded
  <2> QED
    BY <1>4, <1>5, <1>6
<1> HIDE DEF X
<1>10. ASSUME NEW K \in SUBSET Decided', \A u, w \in K : u # w => {u, w} \in Edges'
       PROVE  Cardinality(K) <= dp[RootState] + 1
  <2>1. CASE \E v \in K : v \in X \cap s[2]
    <3>1. K \in SUBSET X
      BY <1>2, <1>10, <2>1
    <3>2. Cardinality(K) <= Cardinality(X) /\ Cardinality(K) \in Nat
      BY <1>7, <3>1, FS_Subset, FS_CardinalityType
    <3> QED
      BY <1>6, <1>7, <1>8, <3>2
  <2>2. CASE \A v \in K : v \in Decided
    BY <1>2, <1>10, <2>2 DEF CliquesBounded, Joined
  <2> QED
    BY <1>2, <2>1, <2>2
<1> QED
  BY <1>1, <1>3, <1>9, <1>10 DEF CliquesBounded, Joined

LEMMA TurnKeepsReached ==
  ASSUME BtInv, EntriesExact, QueueApart, FillApart, BoundReached,
         NEW s \in reconstruct, ReconstructState(s)
  PROVE  BoundReached'
<1> DEFINE X == opt_choice[s]
<1>1. /\ UNCHANGED <<graph, dp>>
      /\ reconstruct' = (reconstruct \ {s}) \cup ChildStates(X, s[2])
      /\ IsGraph(graph) /\ X \in SUBSET V(graph) /\ s \in DOMAIN dp
      /\ \A u, w \in X : u # w => {u, w} \in Edges'
  BY TurnFacts
<1>2. Decided \subseteq Decided' /\ Edges \subseteq Edges' /\ X \subseteq Decided'
  BY TurnDecides
<1>3. RootState' = RootState
  BY <1>1, SameBlocks
<1>4. dp[s] = CliqueCost(X) \/ \E c \in ChildStates(X, s[2]) : dp[s] = dp[c]
  BY <1>1 DEF EntriesExact, EntryExact
<1>5. Cardinality(X) = CliqueCost(X) + 1
  <2>1. Cardinality(X) \in Nat
    BY <1>1, VerticesFinite DEF IsGraph
  <2> QED
    BY <2>1 DEF CliqueCost
<1> HIDE DEF X
<1>6. CASE \E r \in reconstruct' : dp[r] = dp[RootState]
  BY <1>1, <1>3, <1>6 DEF BoundReached
<1>7. CASE dp[s] = dp[RootState] /\ dp[s] = CliqueCost(X)
  <2>1. PICK K : K = X
    OBVIOUS
  <2>2. Joined(K)' /\ K \in SUBSET Decided' /\ Cardinality(K) = dp[RootState] + 1
    BY <1>1, <1>2, <1>5, <1>7, <2>1 DEF Joined
  <2> QED
    BY <1>1, <1>3, <2>2 DEF BoundReached
<1>8. CASE \E K \in SUBSET Decided : Joined(K) /\ Cardinality(K) = dp[RootState] + 1
  BY <1>1, <1>2, <1>3, <1>8 DEF BoundReached, Joined
<1> QED
  BY <1>1, <1>4, <1>6, <1>7, <1>8 DEF BoundReached

LEMMA TurnKeepsChosen ==
  ASSUME BtInv, EntriesExact, QueueApart, FillApart, CliquesChosen,
         NEW s \in reconstruct, ReconstructState(s)
  PROVE  CliquesChosen'
<1> DEFINE X == opt_choice[s]
<1>1. UNCHANGED pmcs /\ X \in pmcs /\ \A u, w \in X : u # w => {u, w} \in Edges'
  BY TurnFacts
<1>2. /\ \A v \in Decided' : v \in Decided \/ v \in X \cap s[2]
      /\ \A v \in X \cap s[2], u \in Decided' : {u, v} \in Edges' => u \in X
      /\ \A u, w \in Decided : {u, w} \in Edges' => {u, w} \in Edges
      /\ Edges \subseteq Edges'
  BY TurnDecides
<1> HIDE DEF X
<1> SUFFICES ASSUME NEW K \in SUBSET Decided', K # {}, \A u, w \in K : u # w => {u, w} \in Edges'
             PROVE  \E Y \in pmcs : K \subseteq Y /\ \A u, w \in Y : u # w => {u, w} \in Edges'
  BY <1>1 DEF CliquesChosen, Joined
<1>3. CASE \E v \in K : v \in X \cap s[2]
  BY <1>1, <1>2, <1>3
<1>4. CASE \A v \in K : v \in Decided
  <2>1. PICK Y \in pmcs : K \subseteq Y /\ Joined(Y)
    BY <1>2, <1>4 DEF CliquesChosen, Joined
  <2> QED
    BY <1>2, <2>1 DEF Joined
<1> QED
  BY <1>2, <1>3, <1>4

LEMMA TurnKeepsNeeded ==
  ASSUME BtInv, EntriesExact, QueueApart, FillApart, FillNeeded,
         NEW s \in reconstruct, ReconstructState(s)
  PROVE  FillNeeded'
<1> DEFINE X == opt_choice[s]
           S == s[1]
           D == s[2]
           Children == ChildStates(X, D)
           N(C) == NeighborsOf(graph, C)
<1>1. /\ UNCHANGED <<graph, pmcs>> /\ fill' = fill \cup FillOf(s)
      /\ reconstruct' = (reconstruct \ {s}) \cup Children
      /\ IsGraph(graph) /\ X \in pmcs /\ X \subseteq V(graph) /\ IsPmc(graph, X)
      /\ IsBlock(graph, X, S, D)
      /\ \A e \in FillOf(s) : e \subseteq X /\ e \cap D # {} /\ e \in NonEdges(graph)
  BY TurnFacts
<1>2. /\ Decided \subseteq Decided' /\ Decided \cap D = {}
      /\ \A v \in X : v \in Decided'
  BY TurnDecides
<1>3. /\ \A c \in Children : c[2] \subseteq D \ X
      /\ \A c, d \in Children : c # d => c[2] \cap d[2] = {}
  <2> HIDE DEF X, S, D
  <2>1. /\ \A c \in ChildStates(X, D) : c[2] \subseteq D \ X
        /\ \A c, d \in ChildStates(X, D) : c # d => c[2] \cap d[2] = {}
    <3> HIDE DEF Children
    <3> QED
      BY <1>1, ChildrenCover
  <2> QED
    BY <2>1
<1>4. S = N(D) /\ \A r \in reconstruct : r # s => D \cap r[2] = {}
  BY DEF QueueApart
<1>5. S \subseteq X /\ X \subseteq S \cup D /\ D \subseteq V(graph) /\ IsClosed(graph, S, D)
  BY <1>1 DEF IsBlock
<1>6. \A e \in fill : e \cap D = {}
  BY DEF FillApart
<1> HIDE DEF X, S, D, Children
<1>7. ASSUME NEW C, C \subseteq V(graph), ShutOff(C)
      PROVE  ShutOff(C)'
  <2>1. ASSUME NEW e \in FillOf(s), e \cap C # {}
        PROVE  e \subseteq C \cup N(C)
    <3>1. CASE D \subseteq C
      <4>1. S \subseteq C \cup N(C)
        BY <1>4, <3>1 DEF NeighborsOf
      <4> QED
        BY <1>1, <1>5, <3>1, <4>1
    <3>2. CASE D \cap C = {}
      <4>1. PICK x \in S \cap C : TRUE
        BY <1>1, <1>5, <2>1, <3>2
      <4>2. PICK d \in D : HasEdge(graph, d, x)
        BY <1>4, <4>1 DEF NeighborsOf, HasEdge
      <4>3. d \in N(C)
        BY <1>5, <3>2, <4>1, <4>2 DEF NeighborsOf
      <4> QED
        BY <1>2, <1>7, <4>3 DEF ShutOff
    <3> QED
      BY <1>7, <3>1, <3>2 DEF ShutOff, D
  <2>2. \A e \in fill' : e \cap C # {} => e \subseteq C \cup N(C)
    BY <1>1, <1>7, <2>1 DEF ShutOff
  <2>3. \A r \in reconstruct' : r[2] \subseteq C \/ r[2] \cap C = {}
    <3> SUFFICES ASSUME NEW r \in Children PROVE r[2] \subseteq C \/ r[2] \cap C = {}
      BY <1>1, <1>7 DEF ShutOff
    <3>1. D \subseteq C \/ D \cap C = {}
      BY <1>7 DEF ShutOff, D
    <3> QED
      BY <1>3, <3>1
  <2>4. N(C)' = N(C) /\ N(C) \subseteq Decided'
    BY <1>1, <1>2, <1>7 DEF ShutOff
  <2> QED
    BY <2>2, <2>3, <2>4 DEF ShutOff
<1>8. ASSUME NEW e \in FillOf(s)
      PROVE  \E C \in Components(graph, X) : e \subseteq N(C) /\ ShutOff(C)'
  <2>1. e \in Pairs(X) /\ e \notin graph.adj
    BY DEF FillOf, X
  <2>2. e \in ConnectedMatrix(graph, X)
    BY <1>1, <2>1 DEF IsPmc, IsPmcIn
  <2>3. PICK C \in Components(graph, X) : e \in Pairs(C \cup N(C))
    BY <2>1, <2>2, ConnectedMember
  <2>4. C \subseteq V(graph) \ X /\ N(C) \subseteq X
    BY ComponentsMember, NeighborsBlocked
  <2>5. e \subseteq N(C)
    BY <2>1, <2>3, <2>4, PairsMember
  <2>6. PICK d \in e \cap D : TRUE
    BY <1>1
  <2>7. PICK c \in C : HasEdge(graph, d, c)
    BY <2>5, <2>6 DEF NeighborsOf
  <2>8. c \in D \ X
    BY <1>5, <2>4, <2>6, <2>7 DEF IsClosed
  <2>9. C = FindComponent(graph, X, c)
    BY ComponentsMember
  <2>10. PICK b \in Children : b[2] = C
    <3>1. <<N(C), C>> \in Children
      BY <2>8, <2>9 DEF Children, ChildStates, D
    <3> QED
      BY <3>1
  <2>11. \A f \in fill' : f \cap C = {}
    BY <1>1, <1>3, <1>6, <2>4, <2>10
  <2>12. ASSUME NEW r \in reconstruct'
         PROVE  r[2] \subseteq C \/ r[2] \cap C = {}
    BY <1>1, <1>3, <1>4, <2>10
  <2>13. N(C)' = N(C) /\ N(C) \subseteq Decided'
    BY <1>1, <1>2, <2>4
  <2>14. ShutOff(C)'
    BY <2>11, <2>12, <2>13 DEF ShutOff
  <2> QED
    BY <2>5, <2>14
<1>9. ASSUME NEW e \in fill'
      PROVE  \E Y \in pmcs : \E C \in Components(graph, Y) : e \subseteq N(C) /\ ShutOff(C)'
  <2>1. CASE e \in fill
    <3>1. PICK Y \in pmcs : \E C \in Components(graph, Y) : e \subseteq N(C) /\ ShutOff(C)
      BY <2>1 DEF FillNeeded
    <3>2. PICK C \in Components(graph, Y) : e \subseteq N(C) /\ ShutOff(C)
      BY <3>1
    <3>3. C \subseteq V(graph)
      BY ComponentsMember
    <3> QED
      BY <1>7, <3>2, <3>3
  <2>2. CASE e \in FillOf(s)
    BY <1>1, <1>8, <2>2
  <2> QED
    BY <1>1, <2>1, <2>2
<1>10. /\ \A C : N(C)' = N(C)
       /\ \A Y : Components(graph, Y)' = Components(graph, Y)
  BY <1>1
<1> QED
  BY <1>1, <1>9, <1>10 DEF FillNeeded

\* The three phases.
PhaseInv ==
  /\ pc \in {"triplets", "dp"} => fill = {} /\ pushed = 0 /\ reconstruct = {}
  /\ pc # "done" => width = -1
  /\ pc = "reconstruct" => BuildInv
  /\ pc \in {"reconstruct", "done"} => todo = {}
  /\ pc = "done" /\ width = -1 => RootState \notin DOMAIN dp
  /\ pc = "done" /\ width # -1 =>
       BuildInv /\ reconstruct = {} /\ width = dp[RootState] /\ RootState \in DOMAIN dp

\* With nothing but the root queued nothing is decided.
LEMMA StartBuilds ==
  ASSUME BtInv, PhaseInv, StartReconstruct
  PROVE  BuildInv'
<1>1. /\ UNCHANGED <<graph, dp, fill, pushed>> /\ fill = {} /\ pushed = 0
      /\ reconstruct' = {RootState}
  BY DEF StartReconstruct, PhaseInv, inputs, tables, result
<1>2. RootState' = RootState /\ RootState[1] = {} /\ RootState[2] = V(graph) /\ V(graph)' = V(graph)
  BY <1>1, SameBlocks DEF RootState
<1>3. Decided' = {}
  BY <1>1, <1>2 DEF Decided
<1>4. QueueApart'
  BY <1>1, <1>2 DEF QueueApart, NeighborsOf
<1>5. FillApart'
  <2>1. pushed' = Cardinality(fill')
    BY <1>1, FS_EmptySet
  <2> QED
    BY <1>1, <1>2, <2>1 DEF FillApart, Joined
<1>6. DecidedChordal'
  BY <1>3 DEF DecidedChordal
<1>7. CliquesBounded' /\ BoundReached'
  <2>1. dp[RootState] \in 0 .. (graph.n - 1) /\ graph.n \in Nat
    BY GraphIsGiven DEF BtInv, TypeOK, StartReconstruct
  <2>2. dp[RootState] <= dp[RootState] /\ 0 <= dp[RootState] + 1
    BY <2>1
  <2>3. \A K \in SUBSET Decided' : Cardinality(K) = 0
    BY <1>3, FS_EmptySet
  <2> QED
    BY <1>1, <1>2, <2>2, <2>3 DEF CliquesBounded, BoundReached
<1>8. CliquesChosen' /\ FillNeeded'
  BY <1>1, <1>3 DEF CliquesChosen, FillNeeded
<1> QED
  BY <1>4, <1>5, <1>6, <1>7, <1>8 DEF BuildInv

LEMMA SameBuild ==
  ASSUME UNCHANGED <<graph, pmcs, dp, fill, pushed, reconstruct>>, BuildInv
  PROVE  BuildInv'
<1>1. RootState' = RootState /\ Decided' = Decided /\ Edges' = Edges
  BY SameBlocks DEF Decided, Edges
<1>2. QueueApart' /\ FillApart'
  BY <1>1 DEF BuildInv, QueueApart, FillApart, Joined
<1>7. \A K : Joined(K)' <=> Joined(K)
  BY <1>1 DEF Joined
<1>3. DecidedChordal'
  <2>1. ASSUME NEW T \in SUBSET Decided', T # {}
        PROVE  \E v \in T : Joined({u \in T : {u, v} \in Edges})'
    <3>1. PICK v \in T : Joined({u \in T : {u, v} \in Edges})
      BY <1>1, <2>1 DEF BuildInv, DecidedChordal
    <3> DEFINE K == {u \in T : {u, v} \in Edges}
    <3>2. \A u, w \in K : u # w => {u, w} \in Edges'
      BY <1>1, <3>1 DEF Joined
    <3>3. {u \in T : {u, v} \in Edges'} = K
      BY <1>1
    <3> QED
      BY <3>2, <3>3 DEF Joined
  <2> QED
    BY <2>1 DEF DecidedChordal
<1>4. CliquesBounded' /\ BoundReached'
  BY <1>1 DEF BuildInv, CliquesBounded, BoundReached, Joined
<1>5. CliquesChosen'
  BY <1>1, <1>7 DEF BuildInv, CliquesChosen
<1>6. FillNeeded'
  <2>1. /\ \A C : ShutOff(C) => ShutOff(C)'
        /\ \A Y : Components(graph, Y)' = Components(graph, Y)
    BY <1>1 DEF ShutOff
  <2> QED
    BY <2>1 DEF BuildInv, FillNeeded
<1> QED
  BY <1>2, <1>3, <1>4, <1>5, <1>6 DEF BuildInv

LEMMA PhaseInvariant == Spec => []PhaseInv
<1>1. Init => PhaseInv
  BY DEF Init, PhaseInv
<1>2. BtInv /\ BtInv' /\ EntriesExact /\ PhaseInv /\ [Next]_vars => PhaseInv'
  <2> SUFFICES ASSUME BtInv, BtInv', EntriesExact, PhaseInv, [Next]_vars PROVE PhaseInv'
    OBVIOUS
  <2> USE DEF inputs, tables, result
  <2>1. CASE BuildTriplets
    BY <2>1 DEF BuildTriplets, PhaseInv
  <2>2. ASSUME NEW t \in todo, ProcessTriplet(t) PROVE PhaseInv'
    BY <2>2 DEF ProcessTriplet, PhaseInv
  <2>3. CASE NoSolution
    <3>1. RootState' = RootState
      BY <2>3, SameBlocks DEF NoSolution
    <3> QED
      BY <2>3, <3>1 DEF NoSolution, PhaseInv
  <2>4. CASE StartReconstruct
    BY <2>4, StartBuilds DEF StartReconstruct, PhaseInv
  <2>5. ASSUME NEW s \in reconstruct, ReconstructState(s) PROVE PhaseInv'
    <3>1. pc = "reconstruct" /\ pc' = "reconstruct" /\ UNCHANGED <<width, todo>>
      BY <2>5 DEF ReconstructState
    <3>2. BuildInv
      BY <3>1 DEF PhaseInv
    <3>3. BuildInv'
      BY <2>5, <3>2, TurnKeepsApart, TurnKeepsChordal, TurnKeepsBound, TurnKeepsReached,
                           TurnKeepsChosen, TurnKeepsNeeded DEF BuildInv
    <3> QED
      BY <3>1, <3>3 DEF PhaseInv
  <2>6. CASE ReturnSolution
    <3>1. pc = "reconstruct" /\ pc' = "done" /\ reconstruct = {}
          /\ UNCHANGED <<graph, pmcs, todo, dp, fill, pushed, reconstruct>> /\ width' = dp[RootState]
      BY <2>6 DEF ReturnSolution
    <3>2. BuildInv' /\ RootState' = RootState
      BY <3>1, SameBuild, SameBlocks DEF PhaseInv
    <3>3. RootState \in DOMAIN dp /\ dp[RootState] # -1
      BY <3>1, GraphIsGiven DEF BtInv, TypeOK, QueuedHaveEntries
    <3> QED
      BY <3>1, <3>2, <3>3 DEF PhaseInv
  <2>7. CASE Returned \/ UNCHANGED vars
    <3>1. UNCHANGED vars
      BY <2>7 DEF Returned
    <3>2. UNCHANGED <<graph, pmcs, todo, dp, fill, pushed, reconstruct, pc, width>> /\ RootState' = RootState
      BY <3>1, SameBlocks DEF vars
    <3>3. BuildInv => BuildInv'
      BY <3>2, SameBuild
    <3> QED
      BY <3>2, <3>3 DEF PhaseInv
  <2> QED
    BY <2>1, <2>2, <2>3, <2>4, <2>5, <2>6, <2>7 DEF Next
<1> QED
  BY <1>1, <1>2, BtInvariant, EntriesExactInvariant, PTL DEF Spec

\* When the queue is empty the filled graph is chordal and its largest clique has
\* one vertex more than the entry of the root.
LEMMA BuiltWhole ==
  ASSUME BtInv, BuildInv, reconstruct = {}, RootState \in DOMAIN dp
  PROVE  LET H == Filled(graph, fill)
         IN  /\ Decided = V(graph) /\ fill \subseteq NonEdges(graph)
             /\ \A K : IsClique(H, K) <=> Joined(K)
             /\ IsChordal(H)
             /\ WidthOf(graph, fill) = dp[RootState]
<1> DEFINE H == Filled(graph, fill)
<1> DEFINE k == dp[RootState]
<1>1. k \in Nat
  BY GraphIsGiven DEF BtInv, TypeOK
<1>2. IsGraph(graph) /\ Decided = V(graph)
  BY GraphIsGiven DEF BtInv, Decided
<1>3. /\ V(H) = V(graph) /\ H.adj = Edges
      /\ \A u, w : HasEdge(H, u, w) <=> {u, w} \in Edges
  BY <1>2, FilledGraph DEF Edges
<1> HIDE DEF H
<1>4. \A K : IsClique(H, K) <=> Joined(K)
  BY <1>3, PairsMember DEF IsClique, Joined
<1>5. IsChordal(H)
  <2> SUFFICES ASSUME NEW T \in (SUBSET V(graph)) \ {{}}
               PROVE  \E v \in T : Joined(Neighbors(H, v) \cap T)
    BY <1>3, <1>4 DEF IsChordal
  <2>1. PICK v \in T : Joined({u \in T : {u, v} \in Edges})
    BY <1>1, <1>2 DEF BuildInv, DecidedChordal
  <2>2. \A u \in Neighbors(H, v) \cap T : u \in {z \in T : {z, v} \in Edges}
    BY <1>3 DEF Neighbors, HasEdge
  <2> QED
    BY <2>1, <2>2 DEF Joined
<1> DEFINE Sizes == {Cardinality(K) : K \in MaximalCliques(H)}
<1>6. \A S \in Sizes : S \in Nat /\ S <= k + 1
  <2> SUFFICES ASSUME NEW K \in MaximalCliques(H)
               PROVE  Cardinality(K) \in Nat /\ Cardinality(K) <= k + 1
    OBVIOUS
  <2>1. K \in SUBSET V(graph) /\ Joined(K)
    BY <1>3, <1>4 DEF MaximalCliques
  <2> QED
    BY <1>1, <1>2, <2>1, VerticesFinite DEF BuildInv, CliquesBounded, IsGraph
<1>7. k + 1 \in Sizes
  <2>1. PICK K \in SUBSET V(graph) : Joined(K) /\ Cardinality(K) = k + 1
    BY <1>1, <1>2 DEF BuildInv, BoundReached
  <2>2. ASSUME NEW T \in SUBSET V(graph), Joined(T), K \subseteq T
        PROVE  K = T
    <3>1. Cardinality(T) <= k + 1
      BY <1>1, <1>2, <2>2 DEF BuildInv, CliquesBounded
    <3>2. IsFiniteSet(T) /\ Cardinality(T) \in Nat
      BY <1>2, VerticesFinite DEF IsGraph
    <3>3. Cardinality(K) <= Cardinality(T) /\ (Cardinality(T) = Cardinality(K) => T = K)
      BY <2>2, <3>2, FS_Subset
    <3> QED
      BY <1>1, <2>1, <3>1, <3>2, <3>3
  <2>3. K \in MaximalCliques(H)
    BY <1>3, <1>4, <2>1, <2>2 DEF MaximalCliques
  <2> QED
    BY <2>1, <2>3
<1>8. WidthOf(graph, fill) = k
  <2> DEFINE largest == CHOOSE s \in Sizes : \A r \in Sizes : r <= s
  <2>1. WidthOf(graph, fill) = largest - 1
    BY DEF WidthOf, H
  <2> HIDE DEF Sizes
  <2>2. largest = k + 1
    <3>1. \A s \in Sizes : (\A r \in Sizes : r <= s) => s = k + 1
      BY <1>1, <1>6, <1>7
    <3> QED
      BY <1>6, <1>7, <3>1
  <2> HIDE DEF largest
  <2> QED
    BY <1>1, <2>1, <2>2
<1> QED
  BY <1>2, <1>4, <1>5, <1>8 DEF BuildInv, FillApart, H

-----------------------------------------------------------------------------
(* Theorems. *)

\* No assertion of BtAlgorithm::Solve fails: the neighbourhood of a component
\* outside a clique leaves out one of its vertices, what it leaves out lies in one
\* component, and a state taken from the queue has a choice.
THEOREM AssertionsOfSolve == Spec => []SolveAssertions
<1>1. BtInv => SolveAssertions
  <2> SUFFICES ASSUME BtInv PROVE SolveAssertions
    OBVIOUS
  <2> USE DEF BtInv
  <2>1. ASSUME NEW X \in pmcs, NEW C \in Components(graph, X)
        PROVE  /\ Cardinality(NeighborsOf(graph, C)) < Cardinality(X)
               /\ Cardinality({FindComponent(graph, NeighborsOf(graph, C), v) :
                                 v \in X \ NeighborsOf(graph, C)}) = 1
    <3> DEFINE S == NeighborsOf(graph, C)
               A(v) == FindComponent(graph, S, v)
    <3>1. X \in SUBSET V(graph) /\ IsPmc(graph, X) /\ graph.n \in Nat
      BY GraphIsGiven DEF CliquesArePmcs
    <3>2. S \subseteq X /\ S # X
      BY <3>1, NoFullComponent, NeighborsBlocked
    <3>3. IsFiniteSet(X) /\ Cardinality(X) \in Nat
      BY <3>1, VerticesFinite
    <3>4. Cardinality(S) < Cardinality(X)
      <4>1. Cardinality(S) \in Nat /\ Cardinality(S) <= Cardinality(X)
                /\ Cardinality(S) # Cardinality(X)
        BY <3>2, <3>3, FS_Subset, FS_CardinalityType
      <4> QED
        BY <3>3, <4>1
    <3>5. PICK u \in X : u \notin S
      BY <3>2
    <3>6. ASSUME NEW w \in X \ S PROVE A(w) = A(u)
      <4>1. w \in A(u) /\ u \in V(graph) \ S
        BY <3>1, <3>5, RestIsConnected
      <4> QED
        BY <4>1, ComponentOfMember
    <3> HIDE DEF S, A
    <3>7. {A(v) : v \in X \ S} = {A(u)}
      BY <3>5, <3>6
    <3>8. Cardinality({A(v) : v \in X \ S}) = 1
      BY <3>7, FS_Singleton
    <3> QED
      BY <3>4, <3>8 DEF S, A
  <2> QED
    BY <2>1 DEF SolveAssertions, QueuedHaveEntries
<1> QED
  BY <1>1, BtInvariant, PTL

\* The loop over the sorted triplets never makes or lowers an entry that it has
\* read before, whatever the order of triplets of equal size: a child block is
\* smaller than each block it is read for.
THEOREM EntriesFinal == Spec => EntriesFinalWhenRead
<1> DEFINE Reads == \A s \in {<<t[2], t[3]>> : t \in triplets} :
                      (s \in DOMAIN dp' /\ (s \in DOMAIN dp => dp'[s] # dp[s])) =>
                         \A t \in triplets \ todo : s \notin ChildStates(t[1], t[3])
<1>1. BtInv /\ [Next]_vars => Reads \/ UNCHANGED vars
  <2> SUFFICES ASSUME BtInv, Next PROVE Reads
    OBVIOUS
  <2> USE DEF BtInv
  <2>1. ASSUME NEW u \in todo, ProcessTriplet(u),
               NEW s, s \in DOMAIN dp', s \in DOMAIN dp => dp'[s] # dp[s],
               NEW t \in triplets \ todo, s \in ChildStates(t[1], t[3])
        PROVE  FALSE
    <3>1. s = <<u[2], u[3]>>
      BY <2>1 DEF ProcessTriplet, ChildMissing, Keeps, Update, tables
    <3>2. t \in triplets /\ u \in triplets /\ SizeOf(t) <= SizeOf(u)
      BY DEF PassedInOrder, TypeOK
    <3>3. <<u[2], u[3]>> \notin ChildStates(t[1], t[3])
      BY <3>2, NotReadBefore
    <3> QED
      BY <2>1, <3>1, <3>3
  <2>2. CASE UNCHANGED dp
    BY <2>2
  <2> QED
    BY <2>1, <2>2 DEF Next, BuildTriplets, NoSolution, StartReconstruct, ReconstructState,
                      ReturnSolution, Returned, vars, tables
<1>2. BtInv /\ [Next]_vars => [Reads]_vars
  BY <1>1
<1> QED
  BY <1>2, BtInvariant, PTL DEF Spec, EntriesFinalWhenRead

\* What Solve returns is right, for every graph and every set of its potential
\* maximal cliques: the fill is a set of non-edges, pushed once each, the filled
\* graph is chordal, and its largest clique has just one vertex more than the
\* width returned.
THEOREM TriangulationReturned == Spec => []FillTriangulates
<1>1. BtInv /\ PhaseInv => FillTriangulates
  <2> SUFFICES ASSUME BtInv, PhaseInv, pc = "done", width >= 0 PROVE FillTriangulates
    BY DEF FillTriangulates
  <2>1. BuildInv /\ reconstruct = {} /\ width = dp[RootState] /\ RootState \in DOMAIN dp
    BY DEF PhaseInv
  <2> QED
    BY <2>1, BuiltWhole DEF FillTriangulates, BuildInv, FillApart
<1> QED
  BY <1>1, BtInvariant, PhaseInvariant, PTL

-----------------------------------------------------------------------------
(* What is returned is one of the results to choose from. *)

\* No proper part of the fill triangulates: a fill edge left out would have a
\* linked set of vertices on each side that both of its ends see.
LEMMA FillIsMinimal ==
  ASSUME BtInv, BuildInv, reconstruct = {}, RootState \in DOMAIN dp,
         NEW G \in SUBSET fill, IsChordal(Filled(graph, G))
  PROVE  G = fill
<1> SUFFICES ASSUME NEW e \in fill \ G PROVE FALSE
  OBVIOUS
<1> DEFINE H == Filled(graph, G)
           N(C) == NeighborsOf(graph, C)
<1>1. IsGraph(graph) /\ fill \subseteq NonEdges(graph)
  BY GraphIsGiven DEF BtInv, BuildInv, FillApart
<1>2. /\ V(H) = V(graph) /\ IsGraph(H)
      /\ \A u, w : HasEdge(H, u, w) <=> {u, w} \in graph.adj \/ {u, w} \in G
  <2>1. V(H) = V(graph) /\ H.adj = graph.adj \cup G
    BY <1>1, FilledGraph
  <2>2. H.n = graph.n /\ {"n", "adj"} \subseteq DOMAIN H
    BY <1>1 DEF Filled, IsGraph
  <2> QED
    BY <1>1, <2>1, <2>2 DEF HasEdge, IsGraph, NonEdges
<1>3. PICK X \in pmcs : \E C \in Components(graph, X) : e \subseteq N(C) /\ ShutOff(C)
  BY DEF BuildInv, FillNeeded
<1>4. PICK C \in Components(graph, X) : e \subseteq N(C) /\ ShutOff(C)
  BY <1>3
<1>5. X \subseteq V(graph) /\ IsPmc(graph, X)
  BY DEF BtInv, CliquesArePmcs
<1>6. PICK a \in X \ N(C) :
        LET A == FindComponent(graph, N(C), a)
        IN  /\ A \in Components(graph, N(C)) /\ A \cap C = {}
            /\ \A u \in N(C) : Sees(graph, u, A) /\ Sees(graph, u, C)
  BY <1>5, OtherSide
<1> DEFINE A == FindComponent(graph, N(C), a)
<1>7. /\ A \in Components(graph, N(C)) /\ A \cap C = {}
      /\ \A u \in N(C) : Sees(graph, u, A) /\ Sees(graph, u, C)
  BY <1>6
<1> HIDE DEF A
<1>8. A \subseteq V(graph) \ N(C) /\ C \subseteq V(graph)
  BY <1>7, ComponentsMember
<1>9. PICK u \in V(graph), w \in V(graph) : u # w /\ e = {u, w}
  BY <1>1, PairsMember DEF NonEdges
<1>10. u \in N(C) /\ w \in N(C)
  BY <1>4, <1>9
<1>11. {u, w} \cap A = {} /\ {u, w} \cap C = {}
  BY <1>8, <1>10 DEF NeighborsOf
<1>12. \A x, y : HasEdge(graph, x, y) => HasEdge(H, x, y)
  BY <1>2 DEF HasEdge
<1>13. Linked(H, A) /\ Linked(H, C)
  <2>1. Linked(graph, A) /\ Linked(graph, C)
    BY <1>7, ComponentLinked
  <2> QED
    BY <1>12, <2>1, LinkedInMore
<1>14. /\ Sees(H, u, A) /\ Sees(H, w, A)
       /\ Sees(H, u, C) /\ Sees(H, w, C)
  BY <1>7, <1>10, <1>12 DEF Sees
<1>15. ASSUME NEW x \in A, NEW y \in C, HasEdge(H, x, y)
       PROVE  FALSE
  <2>1. x \in V(graph) /\ x \notin C /\ x \notin N(C)
    BY <1>7, <1>8
  <2>2. CASE {x, y} \in graph.adj
    BY <2>1, <2>2 DEF NeighborsOf, HasEdge
  <2>3. CASE {x, y} \in G
    BY <1>4, <2>1, <2>3 DEF ShutOff
  <2> QED
    BY <1>2, <1>15, <2>2, <2>3
<1>16. \A x \in A : ~Sees(H, x, C)
  BY <1>15 DEF Sees
<1>17. HasEdge(H, u, w)
  <2>1. /\ u \in V(H) /\ w \in V(H) /\ A \in SUBSET V(H) /\ C \in SUBSET V(H) /\ IsChordal(H)
    BY <1>2, <1>8
  <2> HIDE DEF H
  <2> QED
    BY <1>2, <1>7, <1>9, <1>11, <1>13, <1>14, <1>16, <2>1, BetweenTwoSides
<1> QED
  BY <1>1, <1>2, <1>9, <1>17 DEF NonEdges

\* So the fill is a minimal triangulation, and its cliques were all given.
LEMMA ReturnedIsCandidate ==
  ASSUME BtInv, BuildInv, reconstruct = {}, RootState \in DOMAIN dp
  PROVE  /\ fill \in MinimalTriangulations(graph)
         /\ MaximalCliques(Filled(graph, fill)) \subseteq pmcs
<1> DEFINE H == Filled(graph, fill)
<1>1. /\ Decided = V(graph) /\ fill \subseteq NonEdges(graph)
      /\ \A K : IsClique(H, K) <=> Joined(K)
      /\ IsChordal(H)
  BY BuiltWhole
<1>2. IsGraph(graph) /\ graph.n >= 1 /\ V(H) = V(graph)
  BY GraphIsGiven, FilledGraph DEF BtInv
<1>3. fill \in MinimalTriangulations(graph)
  BY <1>1, FillIsMinimal DEF MinimalTriangulations, Triangulations
<1>4. ASSUME NEW K \in MaximalCliques(H)
      PROVE  K \in pmcs
  <2> HIDE DEF H
  <2>1. K \in SUBSET V(graph) /\ Joined(K)
        /\ \A T \in SUBSET V(graph) : Joined(T) /\ K \subseteq T => K = T
    BY <1>1, <1>2 DEF MaximalCliques
  <2>2. K # {}
    <3>1. 0 \in V(graph) /\ Joined({0})
      BY <1>2 DEF V, Joined, IsGraph
    <3> QED
      BY <2>1, <3>1
  <2>3. PICK X \in pmcs : K \subseteq X /\ Joined(X)
    BY <1>1, <2>1, <2>2 DEF BuildInv, CliquesChosen
  <2>4. X \in SUBSET V(graph)
    BY DEF BtInv, CliquesArePmcs
  <2> QED
    BY <2>1, <2>3, <2>4
<1> QED
  BY <1>3, <1>4

-----------------------------------------------------------------------------
(* What the loop has taken into account. *)

\* A triplet that was passed when its children had entries left an entry for its
\* block that is no worse than its own cost, as the entries are now.
Considered(t) ==
  LET state == <<t[2], t[3]>>
  IN  ChildStates(t[1], t[3]) \subseteq DOMAIN dp =>
        /\ state \in DOMAIN dp
        /\ \/ dp[state] <= CliqueCost(t[1])
           \/ \E c \in ChildStates(t[1], t[3]) : dp[state] <= dp[c]

AllConsidered ==
  /\ pc # "triplets" => \A X \in pmcs : TripletsOf(X) \subseteq triplets
  /\ \A t \in triplets \ todo : Considered(t)

LEMMA ProcessConsiders ==
  ASSUME BtInv, AllConsidered, NEW t \in todo, ProcessTriplet(t), BtInv'
  PROVE  AllConsidered'
<1> USE DEF BtInv
<1>1. /\ UNCHANGED <<graph, pmcs, pc, triplets>>
      /\ todo' = todo \ {t} /\ \A u \in todo : SizeOf(t) <= SizeOf(u)
  BY DEF ProcessTriplet, inputs
<1>2. /\ \A X, D : ChildStates(X, D)' = ChildStates(X, D)
      /\ \A X : TripletsOf(X)' = TripletsOf(X)
  BY <1>1, SameBlocks
<1> DEFINE state == <<t[2], t[3]>>
<1>3. t \in triplets /\ SizeOf(t) <= SizeOf(t)
  BY <1>1 DEF TypeOK
<1>4. \A s \in DOMAIN dp : dp[s] \in Int
  BY GraphIsGiven DEF TypeOK
<1>5. \A u \in triplets : SizeOf(u) <= SizeOf(t) => state \notin ChildStates(u[1], u[3])
  BY <1>3, NotReadBefore
<1>6. /\ DOMAIN dp \subseteq DOMAIN dp' /\ DOMAIN dp' \subseteq DOMAIN dp \cup {state}
      /\ \A s \in DOMAIN dp : dp'[s] <= dp[s] /\ (s # state => dp'[s] = dp[s])
      /\ ChildStates(t[1], t[3]) \subseteq DOMAIN dp =>
            state \in DOMAIN dp' /\ dp'[state] <= CostOf(t)
  <2> HIDE DEF state
  <2>1. CASE ChildMissing(t)
    BY <1>4, <2>1 DEF ChildMissing, tables
  <2>2. CASE ChildStates(t[1], t[3]) \subseteq DOMAIN dp
    <3>1. CostOf(t) \in Int
      BY <2>2, CostBounds, GraphIsGiven
    <3>2. CASE state \in DOMAIN dp /\ ~(CostOf(t) < dp[state]) /\ UNCHANGED tables
      BY <1>4, <3>1, <3>2 DEF tables
    <3>3. CASE (state \notin DOMAIN dp \/ CostOf(t) < dp[state]) /\ dp' = Update(dp, state, CostOf(t))
      BY <1>4, <3>1, <3>3 DEF Update
    <3> QED
      BY <2>2, <3>2, <3>3 DEF ProcessTriplet, ChildMissing, Keeps, state
  <2> QED
    BY <2>1, <2>2 DEF ProcessTriplet, Keeps
<1>7. ASSUME NEW u \in triplets, SizeOf(u) <= SizeOf(t), ChildStates(u[1], u[3]) \subseteq DOMAIN dp'
      PROVE  /\ ChildStates(u[1], u[3]) \subseteq DOMAIN dp
             /\ \A c \in ChildStates(u[1], u[3]) : dp'[c] = dp[c]
  <2> HIDE DEF state
  <2> QED
    BY <1>5, <1>6, <1>7
<1>8. ASSUME NEW u \in triplets \ todo, ChildStates(u[1], u[3]) \subseteq DOMAIN dp'
      PROVE  LET own == <<u[2], u[3]>>
             IN  /\ own \in DOMAIN dp'
                 /\ \/ dp'[own] <= CliqueCost(u[1])
                    \/ \E c \in ChildStates(u[1], u[3]) : dp'[own] <= dp'[c]
  <2> DEFINE own == <<u[2], u[3]>>
  <2>1. SizeOf(u) <= SizeOf(t)
    BY DEF PassedInOrder
  <2>2. /\ ChildStates(u[1], u[3]) \subseteq DOMAIN dp
        /\ \A c \in ChildStates(u[1], u[3]) : dp'[c] = dp[c]
    BY <1>7, <1>8, <2>1
  <2>3. /\ own \in DOMAIN dp
        /\ \/ dp[own] <= CliqueCost(u[1])
           \/ \E c \in ChildStates(u[1], u[3]) : dp[own] <= dp[c]
    BY <2>2 DEF AllConsidered, Considered
  <2> HIDE DEF own, state
  <2>4. own \in DOMAIN dp' /\ dp'[own] <= dp[own] /\ dp'[own] \in Int /\ dp[own] \in Int
    <3>1. dp'[own] \in Int
      BY <1>1, <1>6, <2>3, GraphIsGiven DEF TypeOK
    <3> QED
      BY <1>4, <1>6, <2>3, <3>1
  <2>5. CliqueCost(u[1]) \in Int
    BY CliqueCostBounds, GraphIsGiven DEF TripletsAreBlocks
  <2>6. CASE dp[own] <= CliqueCost(u[1])
    BY <2>4, <2>5, <2>6 DEF own
  <2>7. CASE \E c \in ChildStates(u[1], u[3]) : dp[own] <= dp[c]
    <3>1. PICK c \in ChildStates(u[1], u[3]) : dp[own] <= dp[c]
      BY <2>7
    <3>2. dp'[c] = dp[c] /\ dp[c] \in Int
      BY <1>4, <2>2
    <3> QED
      BY <2>4, <3>1, <3>2 DEF own
  <2> QED
    BY <2>3, <2>6, <2>7
<1>9. ASSUME ChildStates(t[1], t[3]) \subseteq DOMAIN dp'
      PROVE  /\ state \in DOMAIN dp'
             /\ \/ dp'[state] <= CliqueCost(t[1])
                \/ \E c \in ChildStates(t[1], t[3]) : dp'[state] <= dp'[c]
  <2>1. /\ ChildStates(t[1], t[3]) \subseteq DOMAIN dp
        /\ \A c \in ChildStates(t[1], t[3]) : dp'[c] = dp[c]
    BY <1>3, <1>7, <1>9
  <2>2. state \in DOMAIN dp' /\ dp'[state] <= CostOf(t)
    BY <1>6, <2>1
  <2>3. \/ CostOf(t) = CliqueCost(t[1])
        \/ \E s \in ChildStates(t[1], t[3]) : CostOf(t) = dp[s]
    BY <2>1, CostBounds
  <2> HIDE DEF state
  <2> QED
    BY <2>1, <2>2, <2>3
<1>10. ASSUME NEW u \in triplets' \ todo' PROVE Considered(u)'
  <2>1. u = t \/ u \in triplets \ todo
    BY <1>1
  <2>2. CliqueCost(u[1])' = CliqueCost(u[1])
    BY DEF CliqueCost
  <2> QED
    BY <1>2, <1>8, <1>9, <2>1, <2>2 DEF Considered
<1> QED
  BY <1>1, <1>2, <1>10 DEF AllConsidered

LEMMA AllConsideredInvariant == Spec => []AllConsidered
<1>1. Init => AllConsidered
  BY DEF Init, AllConsidered
<1>2. BtInv /\ BtInv' /\ AllConsidered /\ [Next]_vars => AllConsidered'
  <2> SUFFICES ASSUME BtInv, BtInv', AllConsidered, [Next]_vars PROVE AllConsidered'
    OBVIOUS
  <2> USE DEF inputs, tables, result
  <2>1. CASE BuildTriplets
    <3>1. /\ UNCHANGED <<graph, pmcs>> /\ triplets' \ todo' = {}
          /\ triplets' = UNION {TripletsOf(X) : X \in pmcs}
      BY <2>1 DEF BuildTriplets
    <3>2. \A X : TripletsOf(X)' = TripletsOf(X)
      BY <3>1, SameBlocks
    <3> QED
      BY <3>1, <3>2 DEF AllConsidered
  <2>2. ASSUME NEW t \in todo, ProcessTriplet(t) PROVE AllConsidered'
    BY <2>2, ProcessConsiders
  <2>3. CASE /\ UNCHANGED <<graph, pmcs, triplets, todo, dp, opt_choice>>
             /\ pc' # "triplets" => pc # "triplets"
    <3>1. /\ \A X, D : ChildStates(X, D)' = ChildStates(X, D)
          /\ \A X : TripletsOf(X)' = TripletsOf(X)
      BY <2>3, SameBlocks
    <3> QED
      BY <2>3, <3>1 DEF AllConsidered, Considered, CliqueCost
  <2> QED
    BY <2>1, <2>2, <2>3 DEF Next, NoSolution, StartReconstruct, ReconstructState,
                           ReturnSolution, Returned, vars
<1> QED
  BY <1>1, <1>2, BtInvariant, PTL DEF Spec

-----------------------------------------------------------------------------
(* Any other triangulation is made of blocks in the table. *)

\* A block of the triangulation F: the whole graph, or a component across a
\* clique separator of it that sees the separator, which another one sees, too.
BlockOf(F, s) ==
  \/ s = RootState
  \/ /\ s = <<NeighborsOf(graph, s[2]), s[2]>>
     /\ s[2] \in Components(graph, s[1])
     /\ IsClique(Filled(graph, F), s[1])
     /\ \E A \in Components(graph, s[1]) : A \cap s[2] = {} /\ NeighborsOf(graph, A) = s[1]

\* Such a block has a maximal clique of the triangulation on top, and Solve a
\* triplet for the two.
LEMMA BlockHasTop ==
  ASSUME IsGraph(graph), NEW F \in MinimalTriangulations(graph), NEW s, BlockOf(F, s)
  PROVE  \E X \in MaximalCliques(Filled(graph, F)) :
           IsBlock(graph, X, s[1], s[2]) /\ <<X, s[1], s[2]>> \in TripletsOf(X)
<1> DEFINE H == Filled(graph, F)
           S == s[1]
           D == s[2]
<1>1. /\ V(H) = V(graph) /\ H.n = graph.n /\ graph.n \in Nat /\ IsGraph(H)
      /\ \A u, w : HasEdge(graph, u, w) => HasEdge(H, u, w)
  <2>1. V(H) = V(graph) /\ H.adj = graph.adj \cup F /\ H.n = graph.n /\ {"n", "adj"} \subseteq DOMAIN H
    BY FilledGraph DEF Filled, IsGraph
  <2>2. F \subseteq Pairs(V(graph))
    BY DEF MinimalTriangulations, Triangulations, NonEdges
  <2> HIDE DEF H
  <2> QED
    BY <2>1, <2>2 DEF IsGraph, HasEdge
<1>2. IsChordal(H)
  BY DEF MinimalTriangulations, Triangulations
<1>3. CASE s = RootState
  <2>1. {} \in SUBSET V(H) /\ IsClique(H, {})
    BY PairsMember DEF IsClique
  <2>2. PICK X \in MaximalCliques(H) : TRUE
    <3> HIDE DEF H
    <3> QED
      BY <1>1, <2>1, MaximalCliqueAround
  <2>3. X \subseteq V(graph)
    BY <1>1, <2>2 DEF MaximalCliques
  <2>4. S = {} /\ D = V(graph)
    BY <1>3 DEF RootState
  <2>5. IsBlock(graph, X, S, D)
    BY <2>3, <2>4 DEF IsBlock, IsClosed
  <2>6. <<X, S, D>> \in TripletsOf(X)
    BY <1>3 DEF TripletsOf
  <2> QED
    BY <2>2, <2>5, <2>6
<1>4. CASE s # RootState
  <2>1. /\ S = NeighborsOf(graph, D) /\ D \in Components(graph, S) /\ IsClique(H, S)
        /\ \E A \in Components(graph, S) : A \cap D = {} /\ NeighborsOf(graph, A) = S
    BY <1>4 DEF BlockOf
  <2>2. PICK A \in Components(graph, S) : A \cap D = {} /\ NeighborsOf(graph, A) = S
    BY <2>1
  <2> HIDE DEF S, D
  <2>3. /\ S \subseteq V(graph) /\ D # {} /\ D \subseteq V(graph) \ S /\ IsClosed(graph, S, D)
        /\ \A d \in D : D = FindComponent(graph, S, d)
        /\ A # {} /\ A \subseteq V(graph) \ S /\ IsClosed(graph, S, A)
        /\ \A a \in A : A = FindComponent(graph, S, a)
    BY <2>1, <2>2, ComponentsMember DEF NeighborsOf
  <2>4. PICK d \in D : \A u \in S : HasEdge(H, u, d)
    <3>1. Linked(H, D)
      BY <1>1, <2>1, ComponentLinked, LinkedInMore
    <3>2. \A u \in S : Sees(H, u, D)
      BY <1>1, <2>1 DEF Sees, NeighborsOf
    <3>3. S \in SUBSET V(H) /\ D \in SUBSET V(H) /\ D \cap S = {} /\ IsClique(H, S)
      BY <1>1, <2>1, <2>3
    <3> HIDE DEF H
    <3> QED
      BY <1>1, <1>2, <3>1, <3>2, <3>3, CommonNeighbor
  <2>5. PICK X \in MaximalCliques(H) : S \cup {d} \subseteq X
    <3>1. S \cup {d} \in SUBSET V(H)
      BY <1>1, <2>3
    <3> HIDE DEF H
    <3>2. \A u, w \in S : u # w => HasEdge(H, u, w)
      BY <2>1, CliquePairs
    <3>3. \A u \in S : HasEdge(H, u, d) /\ HasEdge(H, d, u)
      <4>1. \A u, w : HasEdge(H, u, w) => HasEdge(H, w, u)
        BY DEF HasEdge
      <4> QED
        BY <2>4, <4>1
    <3>4. \A u, w \in S \cup {d} : u # w => HasEdge(H, u, w)
      BY <3>2, <3>3
    <3>5. IsClique(H, S \cup {d})
      BY <3>4, CliquePairs
    <3> QED
      BY <1>1, <3>1, <3>5, MaximalCliqueAround
  <2>6. X \subseteq V(graph) /\ IsClique(H, X)
    BY <1>1, <2>5 DEF MaximalCliques
  <2>7. ASSUME NEW x \in X PROVE x \in S \cup D
    <3>1. x # d => HasEdge(H, d, x)
      <4> HIDE DEF H
      <4> QED
        BY <2>5, <2>6, CliquePairs
    <3>2. S \in SUBSET V(graph) /\ D \in SUBSET V(graph) /\ D \cap S = {}
      BY <2>3
    <3> QED
      BY <2>1, <2>3, <3>1, <3>2, NoEdgeAcross
  <2>8. IsBlock(graph, X, S, D)
    BY <2>3, <2>5, <2>7 DEF IsBlock
  <2>9. A \in Components(graph, X)
    <3>1. A \cap X = {} /\ S \subseteq X
      BY <2>2, <2>3, <2>5, <2>7
    <3>2. PICK a \in A : a \in V(graph) \ X
      BY <2>3, <3>1
    <3> DEFINE B == FindComponent(graph, X, a)
    <3>3. A \in SUBSET (V(graph) \ X) /\ IsClosed(graph, X, A)
      BY <2>3, <3>1 DEF IsClosed
    <3>4. a \in B /\ B \subseteq A /\ IsClosed(graph, X, B)
      BY <3>2, <3>3, ComponentClosed
    <3>5. IsClosed(graph, S, B)
      BY <2>3, <3>1, <3>4 DEF IsClosed
    <3>6. FindComponent(graph, S, a) \subseteq B
      BY <2>3, <3>2, <3>4, <3>5, ComponentClosed
    <3>7. A = B
      BY <2>3, <3>4, <3>6
    <3> QED
      BY <3>2, <3>7 DEF Components
  <2>10. <<X, S, D>> \in TripletsOf(X)
    <3>1. d \in X \ S /\ D = FindComponent(graph, S, d)
      BY <2>3, <2>5
    <3>2. <<X, S, D>> \in BlocksAcross(X, S)
      BY <3>1 DEF BlocksAcross
    <3>3. S = NeighborsOf(graph, A)
      BY <2>2
    <3> QED
      BY <2>9, <3>2, <3>3 DEF TripletsOf
  <2> QED
    BY <2>5, <2>8, <2>10 DEF S, D
<1> QED
  BY <1>3, <1>4

\* The children of a block of the triangulation are blocks of it.
LEMMA ChildIsBlockOf ==
  ASSUME IsGraph(graph), NEW F, NEW X \in MaximalCliques(Filled(graph, F)), IsPmc(graph, X),
         NEW S, NEW D, IsBlock(graph, X, S, D), NEW c \in ChildStates(X, D)
  PROVE  BlockOf(F, c)
<1> DEFINE H == Filled(graph, F)
<1>1. X \subseteq V(graph) /\ IsClique(H, X)
  BY FilledGraph DEF MaximalCliques
<1>2. PICK v \in D \ X : c = <<NeighborsOf(graph, FindComponent(graph, X, v)),
                              FindComponent(graph, X, v)>>
  BY DEF ChildStates
<1>3. c[2] \in Components(graph, X) /\ c = <<NeighborsOf(graph, c[2]), c[2]>>
  BY <1>2 DEF Components, IsBlock
<1>4. PICK a \in X \ NeighborsOf(graph, c[2]) :
        LET A == FindComponent(graph, NeighborsOf(graph, c[2]), a)
        IN  /\ A \in Components(graph, NeighborsOf(graph, c[2])) /\ A \cap c[2] = {}
            /\ NeighborsOf(graph, A) = NeighborsOf(graph, c[2])
  BY <1>1, <1>3, OtherSide
<1>5. c[2] \in Components(graph, NeighborsOf(graph, c[2]))
  BY <1>1, <1>3, OtherSide
<1>6. c[1] = NeighborsOf(graph, c[2])
  BY <1>3
<1>7. IsClique(H, c[1])
  <2>1. c[1] \subseteq X
    BY <1>3, <1>6, NeighborsBlocked
  <2> HIDE DEF H
  <2> QED
    BY <1>1, <2>1, CliquePairs
<1> QED
  BY <1>3, <1>4, <1>5, <1>6, <1>7 DEF BlockOf

LEMMA ChildIsWithin ==
  ASSUME IsGraph(graph), NEW X, X \subseteq V(graph), NEW S, NEW D, IsBlock(graph, X, S, D),
         NEW c \in ChildStates(X, D)
  PROVE  c[1] \subseteq X /\ c[2] \subseteq D \ X
  BY ChildrenCover

\* When the loop is through, the table has an entry for each block of a
\* triangulation whose cliques were given, no greater than its width.
LEMMA EntriesBounded ==
  ASSUME BtInv, AllConsidered, pc # "triplets", todo = {},
         NEW F \in MinimalTriangulations(graph),
         MaximalCliques(Filled(graph, F)) \subseteq pmcs
  PROVE  RootState \in DOMAIN dp /\ dp[RootState] <= WidthOf(graph, F)
<1> DEFINE k == WidthOf(graph, F)
           Fits(s) == s \in DOMAIN dp /\ dp[s] <= k
           Size(s) == Cardinality(s[1]) + Cardinality(s[2])
           Bad == {s \in (SUBSET V(graph)) \X (SUBSET V(graph)) : BlockOf(F, s) /\ ~Fits(s)}
           Sizes == {Size(s) : s \in Bad}
<1> USE DEF BtInv
<1>1. IsGraph(graph) /\ graph.n \in Nat
  BY GraphIsGiven
<1>2. k \in Int /\ \A X \in MaximalCliques(Filled(graph, F)) : Cardinality(X) - 1 <= k
  BY <1>1, WidthBounds
<1>3. \A s \in (SUBSET V(graph)) \X (SUBSET V(graph)) : Size(s) \in Nat
  <2> SUFFICES ASSUME NEW S \in SUBSET V(graph), NEW D \in SUBSET V(graph)
               PROVE  Cardinality(S) + Cardinality(D) \in Nat
    OBVIOUS
  <2> QED
    BY <1>1, VerticesFinite
<1>4. ASSUME NEW s \in Bad, \A r \in Bad : Size(s) <= Size(r)
      PROVE  FALSE
  <2>1. s = <<s[1], s[2]>> /\ BlockOf(F, s) /\ ~Fits(s)
    BY <1>4
  <2>2. PICK X \in MaximalCliques(Filled(graph, F)) :
          IsBlock(graph, X, s[1], s[2]) /\ <<X, s[1], s[2]>> \in TripletsOf(X)
    BY <1>1, <2>1, BlockHasTop
  <2>3. X \in pmcs /\ X \subseteq V(graph) /\ IsPmc(graph, X)
    BY <2>2 DEF CliquesArePmcs
  <2> DEFINE t == <<X, s[1], s[2]>>
  <2>4. t \in triplets /\ Considered(t)
    BY <2>2, <2>3 DEF AllConsidered
  <2>5. ASSUME NEW c \in ChildStates(X, s[2])
        PROVE  Fits(c)
    <3>1. BlockOf(F, c)
      BY <1>1, <2>2, <2>3, <2>5, ChildIsBlockOf
    <3>2. c = <<c[1], c[2]>> /\ Size(c) < Size(s)
      BY <1>1, <2>2, <2>3, <2>5, ChildrenOfBlock
    <3>3. c \in (SUBSET V(graph)) \X (SUBSET V(graph))
      <4>1. c[1] \subseteq X /\ c[2] \subseteq s[2] /\ s[2] \subseteq V(graph)
        <5>1. s[2] \subseteq V(graph)
          BY <2>2 DEF IsBlock
        <5>2. c[1] \subseteq X /\ c[2] \subseteq s[2] \ X
          <6>1. IsGraph(graph) /\ X \subseteq V(graph) /\ IsBlock(graph, X, s[1], s[2])
            BY <1>1, <2>2, <2>3
          <6>2. c \in ChildStates(X, s[2])
            BY <2>5
          <6> HIDE DEF Bad, Sizes, Fits, Size, k, t, BtInv
          <6> QED
            BY <6>1, <6>2, ChildIsWithin
        <5> QED
          BY <5>1, <5>2
      <4> QED
        BY <2>3, <3>2, <4>1
    <3>4. c \notin Bad
      <4>1. Size(c) \in Nat /\ Size(s) \in Nat
        BY <1>3, <1>4, <3>3
      <4> HIDE DEF Size, Bad
      <4> QED
        BY <1>4, <3>2, <4>1
    <3> QED
      BY <3>1, <3>3, <3>4
  <2>6. /\ s \in DOMAIN dp
        /\ \/ dp[s] <= CliqueCost(X)
           \/ \E c \in ChildStates(X, s[2]) : dp[s] <= dp[c]
    <3>1. t[1] = X /\ t[2] = s[1] /\ t[3] = s[2]
      OBVIOUS
    <3>2. \A c \in ChildStates(X, s[2]) : c \in DOMAIN dp
      BY <2>5
    <3> HIDE DEF t
    <3> QED
      BY <2>1, <2>4, <3>1, <3>2 DEF Considered
  <2>7. CliqueCost(X) <= k /\ CliqueCost(X) \in Int
    BY <1>2, <2>2, <2>3, CliqueCostBounds, <1>1 DEF CliqueCost
  <2>8. \A r \in DOMAIN dp : dp[r] \in Int
    BY <1>1 DEF TypeOK
  <2> HIDE DEF k
  <2>9. dp[s] <= k
    BY <1>2, <2>5, <2>6, <2>7, <2>8
  <2> QED
    BY <2>1, <2>6, <2>9
<1>5. Bad = {}
  <2> SUFFICES ASSUME Bad # {} PROVE FALSE
    OBVIOUS
  <2>1. Bad \subseteq (SUBSET V(graph)) \X (SUBSET V(graph))
    OBVIOUS
  <2> HIDE DEF Bad, Size
  <2>2. Sizes \in SUBSET Nat /\ Sizes # {}
    BY <1>3, <2>1
  <2> HIDE DEF Sizes
  <2>3. PICK m \in Sizes : \A l \in Sizes : m <= l
    BY <2>2, LeastElement
  <2> QED
    BY <1>4, <2>3 DEF Sizes
<1>6. RootState \in (SUBSET V(graph)) \X (SUBSET V(graph)) /\ BlockOf(F, RootState)
  BY DEF RootState, BlockOf
<1> QED
  BY <1>5, <1>6

-----------------------------------------------------------------------------
(* The theorem. *)

\* For every graph and every set of its potential maximal cliques, Solve returns
\* the least width of a minimal triangulation whose maximal cliques are all in
\* the set, and -1 iff there is no such triangulation.
THEOREM BestReturned == Spec => []ResultIsBest
<1>1. BtInv /\ PhaseInv /\ AllConsidered => ResultIsBest
  <2> SUFFICES ASSUME BtInv, PhaseInv, AllConsidered, pc = "done"
               PROVE  width = WidthFrom(graph, pmcs)
    BY DEF ResultIsBest
  <2> DEFINE Built == {G \in MinimalTriangulations(graph) :
                         MaximalCliques(Filled(graph, G)) \subseteq pmcs}
             W == {WidthOf(graph, F) : F \in Built}
  <2>1. WidthFrom(graph, pmcs) = IF W = {} THEN -1 ELSE CHOOSE w \in W : \A x \in W : w <= x
    BY DEF WidthFrom
  <2>2. todo = {} /\ pc # "triplets"
    BY DEF PhaseInv
  <2>3. \A w \in W : RootState \in DOMAIN dp /\ dp[RootState] <= w /\ w \in Int
    BY <2>2, EntriesBounded, WidthBounds, GraphIsGiven DEF BtInv
  <2>4. CASE width = -1
    <3>1. RootState \notin DOMAIN dp
      BY <2>4 DEF PhaseInv
    <3> QED
      BY <2>1, <2>3, <2>4, <3>1
  <2>5. CASE width # -1
    <3>1. BuildInv /\ reconstruct = {} /\ width = dp[RootState] /\ RootState \in DOMAIN dp
      BY <2>5 DEF PhaseInv
    <3>2. fill \in Built /\ WidthOf(graph, fill) = width
      BY <3>1, ReturnedIsCandidate, BuiltWhole
    <3>3. width \in W
      BY <3>2
    <3> HIDE DEF W
    <3>4. \A x \in W : width <= x /\ x \in Int
      BY <2>3, <3>1
    <3> DEFINE least == CHOOSE w \in W : \A x \in W : w <= x
    <3>5. least \in W /\ \A x \in W : least <= x
      BY <3>3, <3>4
    <3> HIDE DEF least
    <3>6. least = width
      BY <3>3, <3>4, <3>5
    <3> QED
      BY <2>1, <3>3, <3>6 DEF least
  <2> QED
    BY <2>4, <2>5
<1> QED
  BY <1>1, BtInvariant, PhaseInvariant, AllConsideredInvariant, PTL

\* Given at least every potential maximal clique of its graph, as the
\* enumerators hand them to it, Solve returns the treewidth.
THEOREM TreewidthReturned ==
  Spec => [](pc = "done" /\ PotentialMaximalCliques(graph) \subseteq pmcs
               => width = Treewidth(graph))
<1>1. ASSUME PotentialMaximalCliques(graph) \subseteq pmcs
      PROVE  WidthFrom(graph, pmcs) = Treewidth(graph)
  <2>1. ASSUME NEW G \in MinimalTriangulations(graph)
        PROVE  /\ MaximalCliques(Filled(graph, G)) \subseteq pmcs
               /\ MaximalCliques(Filled(graph, G)) \subseteq SUBSET V(graph)
    <3>1. MaximalCliques(Filled(graph, G)) \subseteq PotentialMaximalCliques(graph)
      BY DEF PotentialMaximalCliques
    <3>2. V(Filled(graph, G)) = V(graph)
      BY DEF Filled, V
    <3> QED
      BY <1>1, <3>1, <3>2 DEF MaximalCliques
  <2> DEFINE Built(P) == {G \in MinimalTriangulations(graph) :
                            MaximalCliques(Filled(graph, G)) \subseteq P}
  <2>2. Built(pmcs) = Built(SUBSET V(graph))
    BY <2>1
  <2> DEFINE W(P) == {WidthOf(graph, F) : F \in Built(P)}
             Least(X) == IF X = {} THEN -1 ELSE CHOOSE w \in X : \A x \in X : w <= x
  <2>3. /\ WidthFrom(graph, pmcs) = Least(W(pmcs))
        /\ Treewidth(graph) = Least(W(SUBSET V(graph)))
    BY DEF WidthFrom, Treewidth
  <2>4. W(pmcs) = W(SUBSET V(graph))
    <3> HIDE DEF Built
    <3> QED
      BY <2>2
  <2> HIDE DEF W, Least
  <2> QED
    BY <2>3, <2>4
<1>2. ResultIsBest => (pc = "done" /\ PotentialMaximalCliques(graph) \subseteq pmcs
                         => width = Treewidth(graph))
  BY <1>1 DEF ResultIsBest
<1> QED
  BY <1>2, BestReturned, PTL
=============================================================================

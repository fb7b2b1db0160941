------------------------- MODULE EnumeratorProofs -------------------------
(***************************************************************************)
(* Proofs about Enumerator, for every set of graphs.                        *)
(***************************************************************************)
EXTENDS Enumerator, GraphLemmas, FiniteSetTheorems

-----------------------------------------------------------------------------
(* The encoding. *)

\* The tables hold what Graph::ConnectedMatrix and Graph::IsPmc answer.
LEMMA Tables ==
  ASSUME NEW g \in Graphs, NEW S \in SUBSET V(g)
  PROVE  /\ Connected[g][S] = ConnectedMatrix(g, S)
         /\ S \in Pmcs[g] <=> IsPmcIn(g, S, ConnectedMatrix(g, S))
  BY DEF Connected, Pmcs

\* In every model of the basic encoding the truly connected pairs are marked.
LEMMA ModelCoversConnected ==
  ASSUME NEW g \in Graphs, NEW X, NEW C, BasicEncoding(g, X, C)
  PROVE  ConnectedMatrix(g, X) \subseteq C
<1> SUFFICES ASSUME NEW A \in Components(g, X),
                    NEW i \in A \cup NeighborsOf(g, A),
                    NEW j \in A \cup NeighborsOf(g, A), i # j
             PROVE  {i, j} \in C
  <2>1. g.adj \subseteq C
    BY DEF BasicEncoding
  <2>2. \A A \in Components(g, X) : Pairs(A \cup NeighborsOf(g, A)) \subseteq C
    BY PairsMember
  <2> QED
    BY <2>1, <2>2 DEF ConnectedMatrix
<1>1. A \subseteq V(g) \ X /\ A # {} /\ IsClosed(g, X, A) /\ NeighborsOf(g, A) \subseteq V(g)
  BY ComponentsMember DEF NeighborsOf
\* The vertices of A that i is marked to reach are closed, hence all of A.
<1> DEFINE R == {w \in V(g) \ X : w = i \/ {i, w} \in C}
<1>2. ASSUME NEW u \in R, NEW w \in V(g), HasEdge(g, u, w), w # i
      PROVE  {i, w} \in C
  <2>1. w \in Neighbors(g, u) \ {i}
    BY <1>2 DEF Neighbors, HasEdge
  <2>2. CASE u = i
    BY <1>2, <2>2 DEF BasicEncoding, HasEdge
  <2>3. CASE u # i
    BY <1>1, <2>1, <2>3 DEF BasicEncoding
  <2> QED
    BY <2>2, <2>3
<1>3. IsClosed(g, X, R)
  BY <1>2 DEF IsClosed
<1>4. PICK u \in A : u \in R
  <2>1. CASE i \in A
    BY <1>1, <2>1
  <2>2. CASE i \in NeighborsOf(g, A)
    <3>1. PICK u \in A : HasEdge(g, i, u)
      BY <2>2 DEF NeighborsOf
    <3> QED
      BY <1>1, <3>1 DEF BasicEncoding, HasEdge
  <2> QED
    BY <2>1, <2>2
<1>5. A \subseteq R
  <2>1. u \in V(g) \ X /\ A = FindComponent(g, X, u)
    BY <1>1, ComponentsMember
  <2>2. R \in SUBSET (V(g) \ X)
    OBVIOUS
  <2> HIDE DEF R
  <2> QED
    BY <1>3, <1>4, <2>1, <2>2, ComponentClosed
<1>6. CASE j \in A
  BY <1>5, <1>6
<1>7. CASE j \in NeighborsOf(g, A)
  <2>1. PICK w \in A : HasEdge(g, j, w)
    BY <1>7 DEF NeighborsOf
  <2> QED
    BY <1>1, <1>2, <1>5, <2>1 DEF HasEdge
<1> QED
  BY <1>6, <1>7

\* The true connectivity around a potential maximal clique is a model of the
\* encoding (of the basic part: encoding 4 is left to the runs).
LEMMA PmcIsModel ==
  ASSUME NEW g \in Graphs, NEW enc \in Encodings, enc # 4, NEW X \in Pmcs[g]
  PROVE  [x |-> X, c |-> Connected[g][X]] \in EncodingModels[g][enc]
<1> DEFINE C == ConnectedMatrix(g, X)
<1>1. X \in SUBSET V(g) /\ Connected[g][X] = C /\ IsPmcIn(g, X, C)
  BY Tables DEF Pmcs
<1>2. IsGraph(g)
  BY GraphsAssumption
<1>3. C \subseteq Pairs(V(g)) /\ g.adj \subseteq C
  BY <1>2, ConnectedPairs DEF ConnectedMatrix
<1>4. ASSUME NEW i \in V(g), NEW ii \in V(g) \ ({i} \cup X),
             NEW iii \in Neighbors(g, ii) \ {i}, {i, ii} \in C
      PROVE  {i, iii} \in C
  <2>1. PICK A \in Components(g, X) : ii \in A /\ i \in A \cup NeighborsOf(g, A)
    <3> DEFINE A == FindComponent(g, X, ii)
    <3>1. A \in Components(g, X) /\ ii \in A
      BY ComponentClosed DEF Components
    <3>2. CASE {i, ii} \in g.adj
      BY <3>1, <3>2 DEF NeighborsOf, HasEdge
    <3>3. CASE \E B \in Components(g, X) : {i, ii} \in Pairs(B \cup NeighborsOf(g, B))
      <4>1. PICK B \in Components(g, X) : {i, ii} \in Pairs(B \cup NeighborsOf(g, B))
        BY <3>3
      <4>2. i \in B \cup NeighborsOf(g, B) /\ ii \in B \cup NeighborsOf(g, B)
        BY <4>1, PairsOf
      <4>3. ii \in B
        BY <4>2, NeighborsBlocked
      <4> QED
        BY <4>2, <4>3
    <3> HIDE DEF A
    <3> QED
      BY <1>4, <3>2, <3>3, ConnectedMember
  <2>2. iii \in A \cup NeighborsOf(g, A)
    BY <2>1 DEF Neighbors, NeighborsOf, HasEdge
  <2> QED
    BY <2>1, <2>2, ConnectedIntro
<1>5. BasicEncoding(g, X, C)
  BY <1>1, <1>3, <1>4 DEF BasicEncoding, IsPmcIn
<1>6. C \in {g.adj \cup F : F \in SUBSET (Pairs(V(g)) \ g.adj)}
  <2>1. C = g.adj \cup (C \ g.adj) /\ C \ g.adj \in SUBSET (Pairs(V(g)) \ g.adj)
    BY <1>3
  <2> HIDE DEF C
  <2> QED
    BY <2>1
<1> HIDE DEF C
<1> QED
  BY <1>1, <1>5, <1>6 DEF EncodingModels

\* A model that is no potential maximal clique marks a pair that its own
\* vertices separate: the first assertion of BlockBadSolution.
LEMMA BadModelIsBadSep ==
  ASSUME NEW g \in Graphs, NEW X \in SUBSET V(g), NEW C,
         BasicEncoding(g, X, C), X \notin Pmcs[g]
  PROVE  ~(C \subseteq Connected[g][X])
<1> SUFFICES ASSUME C \subseteq ConnectedMatrix(g, X) PROVE FALSE
  BY Tables
<1>1. C = ConnectedMatrix(g, X)
  BY ModelCoversConnected
<1>2. IsPmcIn(g, X, C)
  BY DEF BasicEncoding, IsPmcIn
<1> QED
  BY <1>1, <1>2, Tables

-----------------------------------------------------------------------------
(* The clauses that block a separator. *)

\* The pairs that BlockBadSolution looks at are those across two components of
\* the graph without the separator.
LEMMA CrossSetsMember ==
  ASSUME NEW S, NEW e
  PROVE  e \in UNION CrossSets(S) <=>
           \E A \in Components(graph, S), B \in Components(graph, S) :
             A # B /\ \E u \in A, w \in B : e = {u, w}
<1> DEFINE Cs == Components(graph, S)
<1>1. \A Z : Z \in CrossSets(S) <=> \E A \in Cs, B \in Cs : A # B /\ Z = CrossPairs(A, B)
  BY DEF CrossSets
<1>2. \A A, B : e \in CrossPairs(A, B) <=> \E u \in A, w \in B : e = {u, w}
  BY DEF CrossPairs
<1> QED
  BY <1>1, <1>2

\* Whatever the encoding, the clauses are for pairs of different components.
LEMMA ChoicesCross ==
  ASSUME NEW enc \in 0 .. 5, NEW S, NEW C, NEW P \in PairChoices(enc, S, C)
  PROVE  P \subseteq UNION CrossSets(S)
<1> DEFINE Broken == {Z \in CrossSets(S) : Z \cap C # {}}
<1>1. UNION Broken \subseteq UNION CrossSets(S)
  OBVIOUS
<1>2. CASE enc \in {0, 5}
  BY <1>2 DEF PairChoices
<1>3. CASE enc = 1
  <2>1. P = (UNION Broken) \cap C
    BY <1>3 DEF PairChoices
  <2> QED
    BY <1>1, <2>1
<1>4. CASE enc = 2
  <2>1. P \subseteq (UNION Broken) \cap C
    BY <1>4 DEF PairChoices
  <2> QED
    BY <1>1, <2>1
<1>5. CASE enc = 3
  <2>1. P = UNION Broken
    BY <1>5 DEF PairChoices
  <2> QED
    BY <1>1, <2>1
<1>6. CASE enc = 4
  BY <1>6 DEF PairChoices
<1> QED
  BY <1>2, <1>3, <1>4, <1>5, <1>6

\* Such a pair is a pair of vertices that S separates.
LEMMA CrossSeparated ==
  ASSUME graph \in Graphs, NEW S \in SUBSET V(graph), NEW e \in UNION CrossSets(S)
  PROVE  /\ e \in Pairs(V(graph))
         /\ e \notin Connected[graph][S]
<1>1. PICK A \in Components(graph, S), B \in Components(graph, S) :
        A # B /\ \E u \in A, w \in B : e = {u, w}
  BY CrossSetsMember
<1>2. PICK u \in A, w \in B : e = {u, w}
  BY <1>1
<1>3. u # w /\ {u, w} \notin ConnectedMatrix(graph, S)
  BY <1>1, CrossNotConnected
<1>4. u \in V(graph) /\ w \in V(graph)
  BY ComponentsMember
<1> QED
  BY <1>2, <1>3, <1>4, PairsOf, Tables

\* A connected pair that a minimal bad set S separates lies in two components
\* of the rest: it has no end in S.
LEMMA BrokenPairCrosses ==
  ASSUME graph \in Graphs, NEW S \in SUBSET V(graph), NEW C \in SUBSET Pairs(V(graph)),
         \A v \in S : ~IsBadSep(S \ {v}, C),
         NEW e \in C, e \notin Connected[graph][S]
  PROVE  e \in UNION CrossSets(S)
<1>1. PICK a \in V(graph), b \in V(graph) : a # b /\ e = {a, b}
  BY PairsMember
<1>2. e \notin ConnectedMatrix(graph, S)
  BY Tables
<1>3. ASSUME NEW u \in S, NEW w, u # w, e = {u, w} PROVE FALSE
  <2>1. e \in ConnectedMatrix(graph, S \ {u})
    BY <1>3, Tables DEF IsBadSep
  <2> QED
    BY <1>2, <1>3, <2>1, ConnectedAtSeparator
<1>4. a \notin S /\ b \notin S
  BY <1>1, <1>3
<1> DEFINE A == FindComponent(graph, S, a)
           B == FindComponent(graph, S, b)
<1>5. A \in Components(graph, S) /\ B \in Components(graph, S) /\ a \in A /\ b \in B
  BY <1>4, ComponentClosed DEF Components
<1>6. A # B
  BY <1>1, <1>2, <1>5, ConnectedIntro
<1> HIDE DEF A, B
<1> QED
  BY <1>1, <1>5, <1>6, CrossSetsMember

\* Every encoding that blocks at all chooses a pair that is connected in the
\* model, if there is one across two components.
LEMMA ChoicesHit ==
  ASSUME NEW enc \in 0 .. 5, enc # 4, NEW S, NEW C, NEW P \in PairChoices(enc, S, C),
         NEW e \in C, e \in UNION CrossSets(S)
  PROVE  P \cap C # {}
<1> DEFINE Broken == {Z \in CrossSets(S) : Z \cap C # {}}
<1>1. PICK Z \in Broken : e \in Z
  OBVIOUS
<1>2. CASE enc \in {0, 5}
  BY <1>2 DEF PairChoices
<1>3. CASE enc = 1
  <2>1. P = (UNION Broken) \cap C
    BY <1>3 DEF PairChoices
  <2> QED
    BY <1>1, <2>1
<1>4. CASE enc = 2
  <2>1. P \subseteq C /\ Cardinality(P \cap Z) = 1
    BY <1>4, <1>1 DEF PairChoices
  <2>2. P \cap Z # {}
    BY <2>1, FS_EmptySet
  <2> QED
    BY <2>1, <2>2
<1>5. CASE enc = 3
  <2>1. P = UNION Broken
    BY <1>5 DEF PairChoices
  <2> QED
    BY <1>1, <2>1
<1> QED
  BY <1>2, <1>3, <1>4, <1>5

-----------------------------------------------------------------------------
(* Type correctness. *)

\* A model that Solve returns is a set of vertices and a set of pairs, and
\* satisfies all that the solver has been given.
LEMMA ModelType ==
  ASSUME graph \in Graphs, minsep_encoding \in Encodings, NEW m \in SolverModels
  PROVE  /\ m.x \in SUBSET V(graph)
         /\ m.c \in SUBSET Pairs(V(graph))
         /\ m = [x |-> m.x, c |-> m.c]
         /\ BasicEncoding(graph, m.x, m.c)
         /\ Satisfies(m, pair_clauses)
         /\ m.x \notin blocked
         /\ SizeAssumed(m.x)
<1>1. /\ m \in [x : SUBSET V(graph),
                c : {graph.adj \cup F : F \in SUBSET (Pairs(V(graph)) \ graph.adj)}]
      /\ BasicEncoding(graph, m.x, m.c)
  BY DEF SolverModels, EncodingModels
<1>2. graph.adj \subseteq Pairs(V(graph))
  BY GraphsAssumption DEF IsGraph
<1> QED
  BY <1>1, <1>2 DEF SolverModels

\* The variables that preprocessing may remove are of a separator or of a pair.
LEMMA UnfrozenType ==
  ASSUME TypeOK
  PROVE  UnfrozenVars \in
           SUBSET (({"c", "minsep"} \X (SUBSET V(graph))) \cup ({"edge"} \X Nat))
<1>1. \A e \in Pairs(V(graph)) : e \in SUBSET V(graph)
  BY PairsMember
<1>2. \A S \in minsep_vars : S \in SUBSET V(graph)
  BY DEF TypeOK
<1>3. ASSUME IsHyper(graph) PROVE \A i \in DOMAIN graph.edges : i \in Nat
  <2>1. graph.edges \in Seq(SUBSET V(graph))
    BY <1>3, HypergraphsAssumption DEF TypeOK
  <2> QED
    BY <2>1
<1> QED
  BY <1>1, <1>2, <1>3 DEF UnfrozenVars

\* Type correctness: the constructor's state and every step of GetPmc,
\* BlockBadSolution and AllPmcs keep each field in its domain.
THEOREM TypeCorrect == Spec => []TypeOK
<1>1. Init => TypeOK
  <2>1. \A g \in Graphs : g.n \in Nat
    BY GraphsAssumption DEF IsGraph
  <2> QED
    BY <2>1 DEF Init, TypeOK
<1>2. TypeOK /\ [Next]_vars => TypeOK'
  <2> SUFFICES ASSUME TypeOK, [Next]_vars PROVE TypeOK'
    OBVIOUS
  <2>0. graph.n \in Nat
    BY GraphsAssumption DEF TypeOK, IsGraph
  <2>1. CASE AllPmcs
    BY <2>0, <2>1 DEF TypeOK, AllPmcs, params, model, loop, clauses
  <2>2. CASE AllPmcsAborts
    BY <2>2 DEF TypeOK, AllPmcsAborts, params, model, loop, clauses, results
  <2>3. CASE SolveSat
    <3>1. eliminable' \in
            SUBSET (({"c", "minsep"} \X (SUBSET V(graph))) \cup ({"edge"} \X Nat))
      BY <2>3, UnfrozenType DEF SolveSat, Simplify, TypeOK
    <3>2. x' \in SUBSET V(graph) /\ c' \in SUBSET Pairs(V(graph))
      BY <2>3, ModelType DEF SolveSat, TypeOK
    <3> QED
      BY <2>3, <3>1, <3>2 DEF TypeOK, SolveSat, params, loop, clauses, results
  <2>4. CASE SolveUnsat
    <3>1. eliminable' \in
            SUBSET (({"c", "minsep"} \X (SUBSET V(graph))) \cup ({"edge"} \X Nat))
      BY <2>4, UnfrozenType DEF SolveUnsat, Simplify, TypeOK
    <3> QED
      BY <2>4, <3>1 DEF TypeOK, SolveUnsat, params, loop, clauses, results
  <2>5. CASE FoundPmc
    <3>1. blocked' \in SUBSET SUBSET V(graph) /\ pmcs' \in SUBSET blocked'
      BY <2>5 DEF TypeOK, FoundPmc
    <3>2. pmcs_found' \in Nat
      BY <2>5 DEF TypeOK, FoundPmc
    <3> QED
      BY <2>5, <3>1, <3>2 DEF TypeOK, FoundPmc, params, model, loop
  <2>6. CASE FoundBad
    BY <2>6 DEF TypeOK, FoundBad, params, model, clauses, results
  <2>7. ASSUME NEW v \in V(graph), Shrink(v) PROVE TypeOK'
    <3>1. minsep' \in SUBSET V(graph) /\ kept' \in SUBSET minsep'
      BY <2>7 DEF TypeOK, Shrink
    <3> QED
      BY <2>7, <3>1 DEF TypeOK, Shrink, params, model, clauses, results
  <2>8. CASE BlockSeparator
    <3>1. PICK P \in PairChoices(minsep_encoding, minsep, c) :
            pair_clauses' = pair_clauses \cup {<<minsep, p>> : p \in P}
      BY <2>8 DEF BlockSeparator
    <3>2. P \subseteq Pairs(V(graph))
      <4>1. minsep_encoding \in 0 .. 5
        BY EncodingsAssumption DEF TypeOK
      <4> QED
        BY <4>1, ChoicesCross, CrossSeparated DEF TypeOK
    <3>3. pair_clauses' \in SUBSET ((SUBSET V(graph)) \X Pairs(V(graph)))
      BY <3>1, <3>2 DEF TypeOK
    <3> QED
      BY <2>8, <3>3 DEF TypeOK, BlockSeparator, params, model, results
  <2>9. CASE Stop
    BY <2>9 DEF TypeOK, Stop, params, model, loop, clauses, results
  <2>10. CASE UNCHANGED vars
    BY <2>10 DEF TypeOK, vars, params, model, loop, clauses, results
  <2> QED
    BY <2>1, <2>2, <2>3, <2>4, <2>5, <2>6, <2>7, <2>8, <2>9, <2>10
    DEF Next, Step, Ended
<1> QED
  BY <1>1, <1>2, PTL DEF Spec

-----------------------------------------------------------------------------
(* The clauses, the model and the shrinking loop. *)

CoreInv == ClauseInv /\ ModelInv /\ LoopInv

\* Separators only get worse when they lose vertices.
LEMMA BadSepMonotone ==
  ASSUME graph \in Graphs, NEW S, NEW X \in SUBSET V(graph), S \subseteq X,
         NEW C, IsBadSep(S, C)
  PROVE  IsBadSep(X, C)
<1>1. S \in SUBSET V(graph)
  OBVIOUS
<1>2. Connected[graph][X] \subseteq Connected[graph][S]
  BY <1>1, Tables, ConnectedAntitone
<1> QED
  BY <1>2 DEF IsBadSep

\* What holds of the state only through graph, k, the encodings, the clauses
\* and the model holds on if these do not change.
LEMMA SolverModelsStable ==
  ASSUME UNCHANGED <<params, k, clauses>>
  PROVE  SolverModels' = SolverModels
  BY DEF SolverModels, SizeAssumed, Satisfies, params, clauses

\* A new enumerator has no clauses to be sound about.
LEMMA CoreInit == Init => CoreInv
  BY DEF Init, CoreInv, ClauseInv, ModelInv, LoopInv

\* Each step of GetPmc and BlockBadSolution keeps the clauses sound, the model
\* at hand one of the solver's, and what the shrinking loop has achieved.
LEMMA CoreStep == TypeOK /\ CoreInv /\ [Next]_vars => CoreInv'
<1> SUFFICES ASSUME TypeOK, CoreInv, [Next]_vars PROVE CoreInv'
  OBVIOUS
<1> USE DEF CoreInv
<1>1. CASE AllPmcs
  BY <1>1 DEF AllPmcs, ClauseInv, ModelInv, LoopInv, params, clauses
<1>2. CASE AllPmcsAborts
  BY <1>2 DEF AllPmcsAborts, ClauseInv, ModelInv, LoopInv, params, clauses
<1>3. CASE SolveSat
  <2>1. ClauseInv'
    BY <1>3 DEF SolveSat, ClauseInv, params, clauses
  <2>2. SolverModels' = SolverModels
    BY <1>3, SolverModelsStable DEF SolveSat
  <2>3. [x |-> x, c |-> c]' \in SolverModels
    BY <1>3, ModelType DEF SolveSat, TypeOK
  <2>4. ModelInv' /\ LoopInv'
    BY <1>3, <2>2, <2>3 DEF SolveSat, ModelInv, LoopInv
  <2> QED
    BY <2>1, <2>4
<1>4. CASE SolveUnsat
  BY <1>4 DEF SolveUnsat, ClauseInv, ModelInv, LoopInv, params, clauses
<1>5. CASE FoundPmc
  BY <1>5 DEF FoundPmc, ClauseInv, ModelInv, LoopInv, params
<1>6. CASE FoundBad
  <2>1. ClauseInv'
    BY <1>6 DEF FoundBad, ClauseInv, params, clauses
  <2>2. SolverModels' = SolverModels
    BY <1>6, SolverModelsStable DEF FoundBad
  <2>3. ModelInv'
    BY <1>6, <2>2 DEF FoundBad, ModelInv, model
  <2>4. [x |-> x, c |-> c] \in SolverModels
    BY <1>6 DEF FoundBad, ModelInv
  <2>5. BasicEncoding(graph, x, c)
    BY <2>4, ModelType DEF TypeOK
  <2>6. IsBadSep(x, c)
    BY <1>6, <2>5, BadModelIsBadSep DEF FoundBad, IsBadSep, TypeOK
  <2>7. LoopInv'
    BY <1>6, <2>6 DEF FoundBad, LoopInv, IsBadSep, params, model
  <2> QED
    BY <2>1, <2>3, <2>7
<1>7. ASSUME NEW v \in V(graph), Shrink(v) PROVE CoreInv'
  <2>1. ClauseInv'
    BY <1>7 DEF Shrink, ClauseInv, params, clauses
  <2>2. SolverModels' = SolverModels
    BY <1>7, SolverModelsStable DEF Shrink
  <2>3. ModelInv'
    BY <1>7, <2>2 DEF Shrink, ModelInv, model
  <2>4. CASE IsBadSep(minsep \ {v}, c)
    <3>1. ASSUME NEW w \in kept PROVE ~IsBadSep((minsep \ {v}) \ {w}, c)
      <4>1. ~IsBadSep(minsep \ {w}, c)
        BY <1>7 DEF Shrink, LoopInv
      <4>2. minsep \ {w} \in SUBSET V(graph)
        BY DEF TypeOK
      <4> QED
        BY <4>1, <4>2, BadSepMonotone DEF TypeOK
    <3> QED
      BY <1>7, <2>1, <2>3, <2>4, <3>1
      DEF Shrink, LoopInv, IsBadSep, params, model
  <2>5. CASE ~IsBadSep(minsep \ {v}, c)
    BY <1>7, <2>1, <2>3, <2>5 DEF Shrink, LoopInv, IsBadSep, params, model
  <2> QED
    BY <2>4, <2>5
<1>8. CASE BlockSeparator
  <2>1. PICK P \in PairChoices(minsep_encoding, minsep, c) :
          pair_clauses' = pair_clauses \cup {<<minsep, p>> : p \in P}
    BY <1>8 DEF BlockSeparator
  <2>2. \A p \in P : p \notin Connected[graph][minsep]
    <3>1. minsep_encoding \in 0 .. 5
      BY EncodingsAssumption DEF TypeOK
    <3> QED
      BY <3>1, ChoicesCross, CrossSeparated DEF TypeOK
  <2>3. graph' = graph /\ minsep \in SUBSET V(graph)
    BY <1>8 DEF BlockSeparator, TypeOK, params
  <2>4. ClauseInv'
    BY <2>1, <2>2, <2>3 DEF ClauseInv
  <2> QED
    BY <1>8, <2>4 DEF BlockSeparator, ModelInv, LoopInv
<1>9. CASE Stop
  BY <1>9 DEF Stop, ClauseInv, ModelInv, LoopInv, params, clauses
<1>10. CASE UNCHANGED vars
  <2>1. SolverModels' = SolverModels
    BY <1>10, SolverModelsStable DEF vars
  <2> QED
    BY <1>10, <2>1 DEF vars, ClauseInv, ModelInv, LoopInv, IsBadSep, params,
                       model, loop, clauses
<1> QED
  BY <1>1, <1>2, <1>3, <1>4, <1>5, <1>6, <1>7, <1>8, <1>9, <1>10
  DEF Next, Step, Ended

\* The clauses, the model and the loop are right at every moment of every run.
THEOREM CoreCorrect == Spec => []CoreInv
  BY CoreInit, CoreStep, TypeCorrect, PTL DEF Spec

\* Sound clauses: a separated pair is not connected around any set of vertices
\* that contains the separator.
LEMMA SoundForPmcs ==
  ASSUME graph \in Graphs, ClauseInv, NEW X \in Pmcs[graph]
  PROVE  Satisfies([x |-> X, c |-> Connected[graph][X]], pair_clauses)
<1> SUFFICES ASSUME NEW cl \in pair_clauses, cl[1] \subseteq X
             PROVE  cl[2] \notin Connected[graph][X]
  BY DEF Satisfies
<1>1. X \in SUBSET V(graph)
  BY DEF Pmcs
<1>2. cl[1] \in SUBSET V(graph) /\ cl[2] \notin Connected[graph][cl[1]]
  BY DEF ClauseInv
<1> QED
  BY <1>1, <1>2, Tables, ConnectedAntitone

\* The clauses added for bad models never exclude a potential maximal clique,
\* whatever the graph, the encoding and the models the solver returns.
THEOREM NoPmcIsLost == Spec => []NoPmcLost
<1>1. TypeOK /\ CoreInv => NoPmcLost
  BY SoundForPmcs DEF NoPmcLost, CoreInv, TypeOK
<1> QED
  BY <1>1, TypeCorrect, CoreCorrect, PTL

\* BlockBadSolution always excludes the model it was called for: the shrunk
\* separator lies inside the model, and a pair that it separates in the model is
\* among the pairs that every encoding chooses.  This is what makes the search
\* end.
THEOREM BadModelIsExcluded == Spec => BadModelExcluded
<1>1. TypeOK /\ CoreInv /\ BlockSeparator =>
        ~Satisfies([x |-> x, c |-> c], pair_clauses')
  <2> SUFFICES ASSUME TypeOK, CoreInv, BlockSeparator
               PROVE  ~Satisfies([x |-> x, c |-> c], pair_clauses')
    OBVIOUS
  <2>1. PICK P \in PairChoices(minsep_encoding, minsep, c) :
          pair_clauses' = pair_clauses \cup {<<minsep, p>> : p \in P}
    BY DEF BlockSeparator
  <2>2. /\ IsBadSep(minsep, c)
        /\ minsep \subseteq x
        /\ \A v \in minsep : ~IsBadSep(minsep \ {v}, c)
    BY DEF CoreInv, LoopInv, BlockSeparator
  <2>3. PICK e \in c : e \notin Connected[graph][minsep]
    BY <2>2 DEF IsBadSep
  <2>4. e \in UNION CrossSets(minsep)
    BY <2>2, <2>3, BrokenPairCrosses DEF TypeOK
  <2>5. minsep_encoding \in 0 .. 5 /\ minsep_encoding # 4
    BY <2>1, EncodingsAssumption DEF TypeOK, PairChoices
  <2>6. PICK p \in P : p \in c
    BY <2>3, <2>4, <2>5, ChoicesHit
  <2>7. <<minsep, p>> \in pair_clauses'
    BY <2>1
  <2> QED
    BY <2>2, <2>6, <2>7 DEF Satisfies
<1>2. TypeOK /\ CoreInv /\ [Next]_vars =>
        [BlockSeparator => ~Satisfies([x |-> x, c |-> c], pair_clauses')]_vars
  BY <1>1
<1> QED
  BY <1>2, TypeCorrect, CoreCorrect, PTL DEF Spec, BadModelExcluded

-----------------------------------------------------------------------------
(* The rounds. *)

\* A graph has finitely many vertices.
LEMMA GivenVerticesFinite ==
  ASSUME NEW g \in Graphs
  PROVE  IsFiniteSet(V(g))
<1>1. 0 \in Int /\ g.n - 1 \in Int
  BY GraphsAssumption DEF IsGraph
<1> QED
  BY <1>1, FS_Interval DEF V

\* A potential maximal clique has at least one vertex, as IsPmc rejects the
\* empty set.
LEMMA PmcSize ==
  ASSUME NEW g \in Graphs, NEW X \in Pmcs[g]
  PROVE  Cardinality(X) \in Nat \ {0}
<1>1. X \subseteq V(g) /\ IsPmcIn(g, X, Connected[g][X])
  BY DEF Pmcs
<1>2. g.n \in Nat /\ g.n >= 1
  BY GraphsAssumption DEF IsGraph
<1>3. IsFiniteSet(X)
  BY <1>1, GivenVerticesFinite, FS_Subset
<1>4. 0 \in V(g)
  BY <1>2 DEF V
<1>5. X # {}
  BY <1>1, <1>4 DEF IsPmcIn
<1> QED
  BY <1>3, <1>5, FS_CardinalityType, FS_EmptySet

\* A clique takes an input at least and all inputs at most, as it has a vertex,
\* which an edge has to cover in a hypergraph.
LEMMA PmcCounts ==
  ASSUME NEW g \in Graphs, NEW X \in Pmcs[g], NEW count \in InputCounts[g][X]
  PROVE  /\ count \in Nat \ {0}
         /\ NumInputs(g) \in Nat /\ count <= NumInputs(g)
<1>1. X \in SUBSET V(g)
  BY DEF Pmcs
<1>2. CASE IsHyper(g)
  <2>1. PICK S \in SUBSET (DOMAIN g.edges) : Covers(g, S, X) /\ count = Cardinality(S)
    BY <1>1, <1>2 DEF InputCounts
  <2>2. Len(g.edges) \in Nat /\ DOMAIN g.edges = 1 .. Len(g.edges)
    BY <1>2, HypergraphsAssumption
  <2>3. IsFiniteSet(1 .. Len(g.edges)) /\ Cardinality(1 .. Len(g.edges)) = Len(g.edges)
    BY <2>2, FS_Interval
  <2>4. IsFiniteSet(S) /\ count <= Len(g.edges)
    BY <2>1, <2>2, <2>3, FS_Subset
  <2>5. S # {}
    <3>1. X # {}
      BY <1>1, PmcSize, FS_EmptySet
    <3> QED
      BY <2>1, <3>1 DEF Covers
  <2> QED
    BY <1>2, <2>1, <2>2, <2>4, <2>5, FS_CardinalityType, FS_EmptySet DEF NumInputs
<1>3. CASE ~IsHyper(g)
  <2>1. count = Cardinality(X)
    BY <1>1, <1>3 DEF InputCounts
  <2>2. g.n \in Nat /\ g.n >= 1
    BY GraphsAssumption DEF IsGraph
  <2>3. Cardinality(V(g)) = g.n
    BY <2>2, FS_Interval DEF V
  <2>4. Cardinality(X) <= g.n
    BY <1>1, <2>3, GivenVerticesFinite, FS_Subset
  <2> QED
    BY <1>3, <2>1, <2>2, <2>4, PmcSize DEF NumInputs
<1> QED
  BY <1>2, <1>3

\* Any set of cliques of a graph is finite, so pmcs_found can count it.
LEMMA BlockedFinite ==
  ASSUME graph \in Graphs, NEW S, S \subseteq Pmcs[graph]
  PROVE  IsFiniteSet(S)
<1>1. IsFiniteSet(SUBSET V(graph))
  BY GivenVerticesFinite, FS_SUBSET
<1>2. S \subseteq SUBSET V(graph)
  BY DEF Pmcs
<1> QED
  BY <1>1, <1>2, FS_Subset

\* When Solve answers UNSAT in round k, no clique of size k is left: one would
\* take exactly k inputs, of which there are as many.
LEMMA UnsatComplete ==
  ASSUME TypeOK, CoreInv, RoundInv, 4 \notin Encodings,
         pc = "solve", SolverModels = {}
  PROVE  OfSizeAtMost(k) \subseteq blocked
<1> SUFFICES ASSUME NEW X \in Pmcs[graph], NEW count \in InputCounts[graph][X],
                    count <= k, X \notin blocked
             PROVE  FALSE
  BY DEF OfSizeAtMost
<1> DEFINE m == [x |-> X, c |-> Connected[graph][X]]
<1>1. /\ count \in Nat /\ k \in Int
      /\ NumInputs(graph) \in Nat /\ count <= NumInputs(graph)
  BY PmcCounts DEF TypeOK
<1>2. ~(count <= k - 1)
  BY DEF RoundInv, Completed, OfSizeAtMost
<1>3. SizeAssumed(X)
  BY <1>1, <1>2 DEF SizeAssumed, Min2
<1>4. m \in EncodingModels[graph][minsep_encoding]
  BY PmcIsModel DEF TypeOK
<1>5. Satisfies(m, pair_clauses)
  BY SoundForPmcs DEF TypeOK, CoreInv
<1>6. m \in SolverModels
  BY <1>3, <1>4, <1>5 DEF SolverModels
<1> QED
  BY <1>6

\* A clique that a round finds is new and of size k: a smaller one, which the
\* assumptions may let through, would have been found in an earlier round.
LEMMA FoundIsNew ==
  ASSUME TypeOK, CoreInv, RoundInv, FoundPmc
  PROVE  x \notin blocked /\ x \in OfSizeAtMost(k) \ OfSizeAtMost(k - 1)
<1>1. [x |-> x, c |-> c] \in SolverModels
  BY DEF FoundPmc, CoreInv, ModelInv
<1>2. x \notin blocked /\ SizeAssumed(x) /\ x \in Pmcs[graph]
  BY <1>1, ModelType DEF FoundPmc, TypeOK
<1>3. PICK count \in InputCounts[graph][x] : count <= k
  <2>1. PICK count \in InputCounts[graph][x] :
          IF card_encoding = 0 THEN count = Min2(k, NumInputs(graph)) ELSE count <= k
    BY <1>2 DEF SizeAssumed
  <2>2. count \in Nat /\ NumInputs(graph) \in Nat /\ k \in Int
    BY <1>2, PmcCounts DEF TypeOK
  <2> QED
    BY <2>1, <2>2 DEF Min2
<1>4. x \in OfSizeAtMost(k)
  BY <1>2, <1>3 DEF OfSizeAtMost
<1> QED
  BY <1>2, <1>4 DEF RoundInv, Completed, FoundPmc

\* Before the first round no clique has been found, and none has size zero.
LEMMA RoundInit == Init => RoundInv
<1> SUFFICES ASSUME Init PROVE RoundInv
  OBVIOUS
<1>1. OfSizeAtMost(0) = {}
  BY PmcCounts DEF OfSizeAtMost, Init
<1> QED
  BY <1>1, FS_EmptySet DEF Init, RoundInv, Completed

\* Each step keeps the count of the rounds: a model that is a clique is new and
\* has size k, and the solver answers UNSAT only when no clique of size k is left.
LEMMA RoundStep ==
  ASSUME 4 \notin Encodings
  PROVE  TypeOK /\ CoreInv /\ RoundInv /\ [Next]_vars => RoundInv'
<1> SUFFICES ASSUME TypeOK, CoreInv, RoundInv, [Next]_vars PROVE RoundInv'
  OBVIOUS
<1>0. k \in Int /\ \A X \in Pmcs[graph] : \A count \in InputCounts[graph][X] : count \in Int
  BY PmcCounts DEF TypeOK
<1>1. CASE AllPmcs
  <2>1. /\ graph' = graph /\ k' = k + 1 /\ (k + 1) - 1 = k
        /\ Completed' = k /\ Completed = k
    BY <1>0, <1>1 DEF AllPmcs, Completed, params
  <2>2. OfSizeAtMost(k) \subseteq OfSizeAtMost(k + 1)
    BY <1>0 DEF OfSizeAtMost
  <2>3. blocked' = blocked /\ pmcs' = {} /\ pmcs_found' = pmcs_found
    BY <1>1 DEF AllPmcs, clauses
  <2>4. /\ OfSizeAtMost(k)' = OfSizeAtMost(k + 1)
        /\ OfSizeAtMost(k - 1)' = OfSizeAtMost(k)
        /\ OfSizeAtMost(Completed)' = OfSizeAtMost(k)
    BY <2>1 DEF OfSizeAtMost
  <2> QED
    BY <2>1, <2>2, <2>3, <2>4 DEF RoundInv
<1>2. CASE SolveUnsat
  <2>1. OfSizeAtMost(k) \subseteq blocked
    BY <1>2, UnsatComplete DEF SolveUnsat
  <2> QED
    BY <1>2, <2>1
    DEF SolveUnsat, RoundInv, Completed, OfSizeAtMost, params, clauses, results
<1>3. CASE FoundPmc
  <2>2. x \notin blocked /\ x \in Pmcs[graph]
    BY <1>3, FoundIsNew DEF FoundPmc
  <2>3. x \in OfSizeAtMost(k) \ OfSizeAtMost(k - 1)
    BY <1>3, FoundIsNew
  <2>4. pmcs_found' = Cardinality(blocked')
    <3>1. IsFiniteSet(blocked)
      BY BlockedFinite DEF TypeOK, RoundInv, OfSizeAtMost
    <3> QED
      BY <1>3, <2>2, <3>1, FS_AddElement DEF FoundPmc, RoundInv
  <2>5. graph' = graph /\ k' = k /\ Completed' = Completed
    BY <1>3 DEF FoundPmc, Completed, params
  <2>6. \A s : OfSizeAtMost(s)' = OfSizeAtMost(s)
    BY <2>5 DEF OfSizeAtMost
  <2>7. /\ OfSizeAtMost(k)' = OfSizeAtMost(k)
        /\ OfSizeAtMost(k - 1)' = OfSizeAtMost(k - 1)
        /\ OfSizeAtMost(Completed)' = OfSizeAtMost(Completed)
    BY <2>5, <2>6
  <2>8. blocked' = blocked \cup {x} /\ pmcs' = pmcs \cup {x}
    BY <1>3 DEF FoundPmc
  <2> QED
    BY <2>3, <2>4, <2>7, <2>8 DEF RoundInv
<1>4. CASE UNCHANGED <<graph, k, blocked, results>> /\ Completed' = Completed
  BY <1>4 DEF RoundInv, OfSizeAtMost, results
<1>5. CASE AllPmcsAborts \/ Stop \/ UNCHANGED vars
  BY <1>4, <1>5 DEF AllPmcsAborts, Stop, Completed, vars, params, clauses, results
<1>6. CASE SolveSat \/ FoundBad \/ BlockSeparator \/ \E v \in V(graph) : Shrink(v)
  BY <1>4, <1>6 DEF SolveSat, FoundBad, BlockSeparator, Shrink, Completed,
                    params, clauses, results
<1> QED
  BY <1>1, <1>2, <1>3, <1>5, <1>6 DEF Next, Step, Ended

\* What the completed rounds have found is exact at every moment of every run.
THEOREM RoundsCorrect ==
  ASSUME 4 \notin Encodings
  PROVE  Spec => []RoundInv
<1>1. TypeOK /\ CoreInv /\ RoundInv /\ [Next]_vars => RoundInv'
  BY RoundStep
<1> QED
  BY <1>1, RoundInit, TypeCorrect, CoreCorrect, PTL DEF Spec

\* The invariant of the search, part by part.
THEOREM SearchCorrect ==
  ASSUME 4 \notin Encodings
  PROVE  Spec => []SearchInvariant
<1>1. CoreInv /\ RoundInv => SearchInvariant
  BY DEF SearchInvariant, CoreInv
<1>2. Spec => []RoundInv
  BY RoundsCorrect
<1> QED
  BY <1>1, <1>2, CoreCorrect, PTL

\* Every round is exact, for every graph: when AllPmcs(k) returns, the cliques of
\* size k have all been found, once each, and nothing else.
THEOREM RoundsAreExact ==
  ASSUME 4 \notin Encodings
  PROVE  Spec => []RoundExact
<1>1. TypeOK /\ RoundInv => RoundExact
  <2> SUFFICES ASSUME TypeOK, RoundInv, pc = "idle" PROVE RoundExact
    BY DEF RoundExact
  <2>1. blocked = OfSizeAtMost(k)
    BY DEF RoundInv, Completed
  <2> QED
    BY <2>1 DEF RoundExact, RoundInv
<1>2. Spec => []RoundInv
  BY RoundsCorrect
<1> QED
  BY <1>1, <1>2, TypeCorrect, PTL

-----------------------------------------------------------------------------
(* The abstract enumeration. *)

\* The enumerator implements PmcEnumeration: between two steps of the abstract
\* machine it only solves, shrinks separators and adds clauses.
THEOREM Refinement ==
  ASSUME 4 \notin Encodings
  PROVE  Spec => ImplementsPmcEnumeration
<1>1. Init => Abstract!Init
  BY DEF Init, Abstract!Init, Phase
<1>2. TypeOK /\ CoreInv /\ RoundInv /\ [Next]_vars => [Abstract!Next]_(Abstract!vars)
  <2> SUFFICES ASSUME TypeOK, CoreInv, RoundInv, [Next]_vars
               PROVE  Abstract!Next \/ UNCHANGED Abstract!vars
    OBVIOUS
  <2>1. CASE AllPmcs
    <3>1. Abstract!Begin
      BY <2>1 DEF AllPmcs, Abstract!Begin, Phase, params, clauses
    <3> QED
      BY <3>1 DEF Abstract!Next
  <2>2. CASE AllPmcsAborts \/ Stop
    <3>1. Abstract!Finish
      BY <2>2 DEF AllPmcsAborts, Stop, Abstract!Finish, Phase, params, clauses
    <3> QED
      BY <3>1 DEF Abstract!Next
  <2>3. CASE FoundPmc
    <3>1. /\ x \notin blocked /\ x \in Pmcs[graph]
          /\ x \in OfSizeAtMost(k) \ OfSizeAtMost(k - 1)
      BY <2>3, FoundIsNew DEF FoundPmc
    <3>2. x \in PmcsOfSize[graph][k]
      <4>1. k \in 0 .. graph.n /\ \A count \in InputCounts[graph][x] : count \in Nat
        BY <3>1, PmcCounts DEF TypeOK
      <4>2. \A count \in InputCounts[graph][x] : k <= count
        BY <3>1, <4>1 DEF OfSizeAtMost
      <4>3. k \in InputCounts[graph][x]
        BY <3>1, <4>1, <4>2 DEF OfSizeAtMost
      <4> QED
        BY <3>1, <4>1, <4>2, <4>3 DEF PmcsOfSize, TypeOK
    <3>3. Abstract!Find(x)
      BY <2>3, <3>1, <3>2 DEF FoundPmc, Abstract!Find, Phase, params
    <3> QED
      BY <3>2, <3>3 DEF Abstract!Next
  <2>4. CASE SolveUnsat
    <3>1. OfSizeAtMost(k) \subseteq blocked /\ k \in Int
      BY <2>4, UnsatComplete DEF SolveUnsat, TypeOK
    <3>2. PmcsOfSize[graph][k] \subseteq blocked
      BY <3>1 DEF PmcsOfSize, OfSizeAtMost, TypeOK
    <3>3. Abstract!End
      BY <2>4, <3>2 DEF SolveUnsat, Abstract!End, Phase, params, clauses
    <3> QED
      BY <3>3 DEF Abstract!Next
  <2>5. CASE SolveSat \/ FoundBad \/ BlockSeparator \/ \E v \in V(graph) : Shrink(v)
    BY <2>5 DEF SolveSat, FoundBad, BlockSeparator, Shrink, Phase,
                Abstract!vars, params, clauses
  <2>6. CASE UNCHANGED vars
    BY <2>6 DEF vars, Abstract!vars, Phase, params, clauses
  <2> QED
    BY <2>1, <2>2, <2>3, <2>4, <2>5, <2>6 DEF Next, Step, Ended
<1>3. Spec => []RoundInv
  BY RoundsCorrect
<1> QED
  BY <1>1, <1>2, <1>3, TypeCorrect, CoreCorrect, PTL
  DEF Spec, ImplementsPmcEnumeration, Abstract!Spec

-----------------------------------------------------------------------------
(* The separators. *)

\* A minimal bad set is a minimal separator: dropping a vertex v reconnects the
\* broken pair, so v is a neighbour of the component of each of its ends.
LEMMA MinimalBadIsMinsep ==
  ASSUME graph \in Graphs, NEW S \in SUBSET V(graph), NEW C \in SUBSET Pairs(V(graph)),
         IsBadSep(S, C), \A v \in S : ~IsBadSep(S \ {v}, C)
  PROVE  \E A, B \in Components(graph, S) : /\ A # B
                                            /\ NeighborsOf(graph, A) = S
                                            /\ NeighborsOf(graph, B) = S
<1>1. PICK e \in C : e \notin Connected[graph][S]
  BY DEF IsBadSep
<1>2. e \in UNION CrossSets(S)
  BY <1>1, BrokenPairCrosses
<1>3. PICK A \in Components(graph, S), B \in Components(graph, S) :
        A # B /\ \E a \in A, b \in B : e = {a, b}
  BY <1>2, CrossSetsMember
<1>4. ASSUME NEW D \in Components(graph, S), NEW a \in D, NEW b \in V(graph) \ (S \cup D),
             e = {a, b}, NEW v \in S
      PROVE  v \in NeighborsOf(graph, D)
  <2> SUFFICES ASSUME v \notin NeighborsOf(graph, D) PROVE FALSE
    OBVIOUS
  <2> DEFINE R == S \ {v}
  <2>1. e \in ConnectedMatrix(graph, R)
    <3>1. R \in SUBSET V(graph) /\ e \in Connected[graph][R]
      BY <1>1 DEF IsBadSep
    <3> HIDE DEF R
    <3> QED
      BY <3>1, Tables
  <2>2. D \subseteq V(graph) \ S /\ IsClosed(graph, S, D)
    BY ComponentsMember
  <2>3. \A u \in D : ~HasEdge(graph, u, v)
    <3>1. v \in V(graph) \ D
      BY <2>2
    <3> QED
      BY <3>1 DEF NeighborsOf, HasEdge
  <2>4. IsClosed(graph, R, D)
    BY <2>2, <2>3 DEF IsClosed
  <2>5. a # b /\ ~HasEdge(graph, a, b)
    BY <1>4, <2>2 DEF IsClosed
  <2>6. PICK E \in Components(graph, R) : e \in Pairs(E \cup NeighborsOf(graph, E))
    BY <2>1, <2>5, <1>4, ConnectedMember DEF HasEdge
  <2>7. a \in E \cup NeighborsOf(graph, E) /\ b \in E \cup NeighborsOf(graph, E)
    BY <1>4, <2>5, <2>6, PairsOf
  <2>8. a \notin R /\ b \notin R
    BY <2>2
  <2> HIDE DEF R
  <2>9. a \in E /\ b \in E
    BY <2>7, <2>8, NeighborsBlocked
  <2>10. E = FindComponent(graph, R, a) /\ a \in V(graph) \ R
    BY <2>9, ComponentsMember
  <2>11. D \in SUBSET (V(graph) \ R)
    BY <2>2 DEF R
  <2>12. E \subseteq D
    BY <2>4, <2>10, <2>11, ComponentClosed
  <2> QED
    BY <2>9, <2>12
<1>5. \A a \in A, b \in B : a \in V(graph) \ (S \cup B) /\ b \in V(graph) \ (S \cup A)
  BY <1>3, ComponentsMember
<1>6. PICK a \in A, b \in B : e = {a, b}
  BY <1>3
<1>7. S \subseteq NeighborsOf(graph, A)
  BY <1>4, <1>5, <1>6
<1>8. S \subseteq NeighborsOf(graph, B)
  <2>1. e = {b, a}
    BY <1>6
  <2> QED
    BY <1>4, <1>5, <2>1
<1>9. NeighborsOf(graph, A) \subseteq S /\ NeighborsOf(graph, B) \subseteq S
  BY NeighborsBlocked
<1> QED
  BY <1>3, <1>7, <1>8, <1>9

\* Every key of minsep_vars_ is a minimal separator of the graph.
THEOREM MinsepsMinimal == Spec => []MinsepsAreMinimal
<1>1. Init => MinsepsAreMinimal
  BY DEF Init, MinsepsAreMinimal
<1>2. TypeOK /\ CoreInv /\ MinsepsAreMinimal /\ [Next]_vars => MinsepsAreMinimal'
  <2> SUFFICES ASSUME TypeOK, CoreInv, MinsepsAreMinimal, [Next]_vars
               PROVE  MinsepsAreMinimal'
    OBVIOUS
  <2>1. CASE BlockSeparator
    <3>1. \E A, B \in Components(graph, minsep) : /\ A # B
                                                  /\ NeighborsOf(graph, A) = minsep
                                                  /\ NeighborsOf(graph, B) = minsep
      BY <2>1, MinimalBadIsMinsep DEF BlockSeparator, TypeOK, CoreInv, LoopInv
    <3>2. graph' = graph /\ minsep_vars' = minsep_vars \cup {minsep}
      BY <2>1 DEF BlockSeparator, params
    <3> QED
      BY <3>1, <3>2 DEF MinsepsAreMinimal
  <2>2. CASE UNCHANGED <<graph, minsep_vars>>
    BY <2>2 DEF MinsepsAreMinimal
  <2> QED
    BY <2>1, <2>2 DEF Next, Step, Ended, AllPmcs, AllPmcsAborts, SolveSat, SolveUnsat,
                      FoundPmc, FoundBad, Shrink, Stop, vars, params, clauses
<1> QED
  BY <1>1, <1>2, TypeCorrect, CoreCorrect, PTL DEF Spec

\* With encodings 0 and 5 a known separator has clauses for all its pairs; only
\* their separator variables can have been removed by preprocessing.
VarsInv ==
  /\ \A S \in minsep_vars : minsep_encoding \in {0, 5} =>
       \A p \in UNION CrossSets(S) : <<S, p>> \in pair_clauses
  /\ \A S : <<"minsep", S>> \in eliminable => minsep_encoding \in {0, 5} /\ S \in minsep_vars

\* With encodings 0 and 5 no separator is found twice.
LEMMA NeverFoundAgain ==
  ASSUME TypeOK, CoreInv, VarsInv, BlockSeparator, minsep_encoding \in {0, 5}
  PROVE  minsep \notin minsep_vars
<1> SUFFICES ASSUME minsep \in minsep_vars PROVE FALSE
  OBVIOUS
<1>1. /\ IsBadSep(minsep, c)
      /\ minsep \subseteq x
      /\ \A v \in minsep : ~IsBadSep(minsep \ {v}, c)
      /\ [x |-> x, c |-> c] \in SolverModels
  BY DEF CoreInv, LoopInv, ModelInv, BlockSeparator
<1>2. PICK e \in c : e \notin Connected[graph][minsep]
  BY <1>1 DEF IsBadSep
<1>3. e \in UNION CrossSets(minsep)
  BY <1>1, <1>2, BrokenPairCrosses DEF TypeOK
<1>4. <<minsep, e>> \in pair_clauses
  BY <1>3 DEF VarsInv
<1>5. Satisfies([x |-> x, c |-> c], pair_clauses)
  BY <1>1, ModelType DEF TypeOK
<1> QED
  BY <1>1, <1>2, <1>4, <1>5 DEF Satisfies

\* Each step keeps the separator variables that may be found again from being
\* removed.
LEMMA VarsStep == TypeOK /\ CoreInv /\ VarsInv /\ [Next]_vars => VarsInv'
<1> SUFFICES ASSUME TypeOK, CoreInv, VarsInv, [Next]_vars PROVE VarsInv'
  OBVIOUS
<1>1. CASE SolveSat \/ SolveUnsat
  <2>1. eliminable' \subseteq eliminable \cup UnfrozenVars
    BY <1>1 DEF SolveSat, SolveUnsat, Simplify
  <2>2. \A S : <<"minsep", S>> \in UnfrozenVars =>
                 minsep_encoding \in {0, 5} /\ S \in minsep_vars
    BY DEF UnfrozenVars
  <2>3. UNCHANGED <<params, clauses>>
    BY <1>1 DEF SolveSat, SolveUnsat
  <2> QED
    BY <2>1, <2>2, <2>3 DEF VarsInv, CrossSets, params, clauses
<1>2. CASE BlockSeparator
  <2>1. PICK P \in PairChoices(minsep_encoding, minsep, c) :
          pair_clauses' = pair_clauses \cup {<<minsep, p>> : p \in P}
    BY <1>2 DEF BlockSeparator
  <2>2. minsep_encoding \in {0, 5} => P = UNION CrossSets(minsep)
    BY <2>1 DEF PairChoices
  <2>3. UNCHANGED <<params, eliminable>> /\ minsep_vars' = minsep_vars \cup {minsep}
    BY <1>2 DEF BlockSeparator
  <2>4. \A S : CrossSets(S)' = CrossSets(S)
    BY <2>3 DEF CrossSets, params
  <2> QED
    BY <2>1, <2>2, <2>3, <2>4 DEF VarsInv, params
<1>3. CASE UNCHANGED <<params, minsep_vars, pair_clauses, eliminable>>
  BY <1>3 DEF VarsInv, CrossSets, params
<1> QED
  BY <1>1, <1>2, <1>3 DEF Next, Step, Ended, AllPmcs, AllPmcsAborts,
                          FoundPmc, FoundBad, Shrink, Stop, vars, clauses

\* No separator variable is used after preprocessing may have removed it, with
\* any encoding and whenever the solver simplifies.
THEOREM MinsepVarsLive == Spec => ReusedMinsepVarsLive
<1>1. Init => VarsInv
  BY DEF Init, VarsInv
<1>2. TypeOK /\ CoreInv /\ VarsInv /\ [Next]_vars =>
        [BlockSeparator => <<"minsep", minsep>> \notin eliminable]_vars
  BY NeverFoundAgain DEF VarsInv
<1> QED
  BY <1>1, <1>2, VarsStep, TypeCorrect, CoreCorrect, PTL DEF Spec, ReusedMinsepVarsLive

-----------------------------------------------------------------------------
(* The assertions of BlockBadSolution. *)

\* With every encoding but 4 the assertions of BlockBadSolution hold: a model
\* that is no clique is bad, and the shrunk set leaves two components.
THEOREM AssertionsHold ==
  ASSUME 4 \notin Encodings
  PROVE  Spec => []BlockAssertions
<1>1. TypeOK /\ CoreInv => BlockAssertions
  <2> SUFFICES ASSUME TypeOK, CoreInv PROVE BlockAssertions
    OBVIOUS
  <2>1. ASSUME pc = "classify", x \notin Pmcs[graph] PROVE IsBadSep(x, c)
    <3>1. [x |-> x, c |-> c] \in SolverModels
      BY <2>1 DEF CoreInv, ModelInv
    <3>2. BasicEncoding(graph, x, c)
      BY <3>1, ModelType DEF TypeOK
    <3> QED
      BY <2>1, <3>2, BadModelIsBadSep DEF IsBadSep, TypeOK
  <2>2. ASSUME pc = "minimize", kept = minsep
        PROVE  Cardinality(Components(graph, minsep)) >= 2
    <3>1. PICK A, B \in Components(graph, minsep) : A # B
      BY <2>2, MinimalBadIsMinsep DEF TypeOK, CoreInv, LoopInv
    <3>2. graph.n \in Nat
      BY GraphsAssumption DEF TypeOK, IsGraph
    <3> QED
      BY <3>1, <3>2, TwoComponents
  <2> QED
    BY <2>1, <2>2 DEF BlockAssertions, TypeOK
<1> QED
  BY <1>1, TypeCorrect, CoreCorrect, PTL
=============================================================================

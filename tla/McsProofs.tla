------------------------------ MODULE McsProofs ------------------------------
(***************************************************************************)
(* Proofs about Mcs, for all graphs and all sequences of calls: the buckets   *)
(* are right behind their stale entries and what earlier calls have left      *)
(* (BucketsExact), and the loop over them is a maximum cardinality search;    *)
(* McsM's search by buckets, which changes the labels that it compares,       *)
(* numbers and fills as the search by paths does (IsMcsM), and its fill is a  *)
(* minimal triangulation (FillIsMinimal); Atoms returns the atoms (AtomsExact).*)
(***************************************************************************)
EXTENDS Mcs, McsLemmas

-----------------------------------------------------------------------------
(* The graphs that are given. *)

\* The graphs that are given, their sets of vertices and the buckets.
LEMMA GivenGraph ==
  ASSUME NEW g, IsGiven(g)
  PROVE  /\ IsGraph(g) /\ g.n \in Nat /\ g.n >= 1 /\ 0 \in V(g) /\ MaxVertices \in Nat
         /\ V(g) = 0 .. g.n - 1 /\ V(g) \subseteq AllBuckets
         /\ \A S \in SUBSET V(g) : IsFiniteSet(S) /\ Cardinality(S) \in 0 .. g.n
         /\ \A S \in SUBSET V(g) : \A v \in V(g) \ S : Cardinality(S) \in V(g)
         /\ \A S \in SUBSET V(g) : Cardinality(S) = g.n => S = V(g)
         /\ Cardinality(V(g)) = g.n
<1>1. IsGraph(g) /\ g.n \in Nat /\ g.n >= 1 /\ g.n <= MaxVertices /\ MaxVertices \in Nat
  BY GivenAssumption DEF IsGiven
<1>2. V(g) = 0 .. g.n - 1 /\ 0 \in V(g) /\ V(g) \subseteq AllBuckets
  BY <1>1 DEF V, AllBuckets
<1>3. /\ IsFiniteSet(V(g)) /\ Cardinality(V(g)) = g.n
      /\ \A S \in SUBSET V(g) : IsFiniteSet(S) /\ Cardinality(S) \in 0 .. g.n
  BY <1>1, VerticesFinite
<1>4. ASSUME NEW S \in SUBSET V(g), Cardinality(S) = g.n PROVE S = V(g)
  BY <1>3, <1>4, FS_Subset
<1>5. ASSUME NEW S \in SUBSET V(g), NEW v \in V(g) \ S PROVE Cardinality(S) \in V(g)
  BY <1>1, <1>2, <1>3, <1>4
<1> QED
  BY <1>1, <1>2, <1>3, <1>4, <1>5

\* One more vertex.
LEMMA OneMore ==
  ASSUME NEW g, IsGiven(g), NEW S \in SUBSET V(g), NEW y \in V(g) \ S
  PROVE  /\ Cardinality(S \cup {y}) = Cardinality(S) + 1
         /\ \A N \in SUBSET V(g) :
              Cardinality(N \cap (S \cup {y})) =
                IF y \in N THEN Cardinality(N \cap S) + 1 ELSE Cardinality(N \cap S)
<1>1. \A T \in SUBSET V(g) : IsFiniteSet(T)
  BY GivenGraph
<1>2. ASSUME NEW T \in SUBSET V(g), y \notin T
      PROVE  Cardinality(T \cup {y}) = Cardinality(T) + 1
  BY <1>1, <1>2, FS_AddElement
<1>3. ASSUME NEW N \in SUBSET V(g), y \in N
      PROVE  Cardinality(N \cap (S \cup {y})) = Cardinality(N \cap S) + 1
  <2>1. N \cap (S \cup {y}) = (N \cap S) \cup {y} /\ N \cap S \in SUBSET V(g) /\ y \notin N \cap S
    BY <1>3
  <2> QED
    BY <1>2, <2>1
<1>4. ASSUME NEW N \in SUBSET V(g), y \notin N
      PROVE  N \cap (S \cup {y}) = N \cap S
  BY <1>4
<1> QED
  BY <1>2, <1>3, <1>4

-----------------------------------------------------------------------------
(* The inductive invariant. *)

GivenGraphs == McsMGraphs \cup UNION {{given[i] : i \in DOMAIN given} : given \in TreewidthCalls}

Ordered == {order[i] : i \in 1 .. Len(order)}

InputInv ==
  /\ graph \in GivenGraphs /\ calls \in Seq(GivenGraphs)
  /\ \/ function = "Treewidth" /\ pc \in {"enter", "mcs", "done"}
     \/ function = "Atoms" /\ pc \in {"select", "reach", "atoms", "rest", "done"} /\ calls = <<>>

\* The calls of Treewidth leave the variables of the other functions alone.
Untouched ==
  function = "Treewidth" =>
    /\ rc = {} /\ bucket = 0 /\ x = 0 /\ fill = {} /\ prev_label = -1 /\ maximal_points = {}
    /\ block = {} /\ atoms = <<>> /\ found = 0
    /\ pc # "mcs" => it \in {-1, 1}

\* The buckets of Mcs, for the present graph only.
McsInv ==
  /\ pc = "mcs" =>
       /\ graph.adj # {} /\ it \in -1 .. graph.n - 1
       /\ max_label \in V(graph)
       /\ rm = Ordered /\ Len(order) = graph.n - 1 - it /\ Cardinality(rm) = Len(order)
       /\ \A v \in V(graph) \ rm : /\ label[v] = Cardinality(Neighbors(graph, v) \cap rm)
                                   /\ v \in labels[label[v]] /\ label[v] <= max_label
       /\ \A l \in V(graph) : \A v \in labels[l] : v \in V(graph) /\ l <= label[v]
  /\ pc = "done" /\ function = "Treewidth" /\ graph.adj # {} => Ordered = V(graph)

\* A search of McsM raises a label once: the label of a vertex that it has not
\* come to is less than the number of searches.
McsMInv ==
  function = "Atoms" =>
    /\ pc \in {"select", "reach", "atoms"} =>
         found = 0 /\ it \in 1 .. graph.n + 1
    /\ pc \in {"select", "reach"} => Len(order) = Cardinality(rm)
    /\ pc = "select" => \A v \in V(graph) \ rm : label[v] <= Cardinality(rm)
    /\ pc = "reach" =>
         /\ x \in rm /\ Neighbors(graph, x) \ rm \subseteq rc
         /\ \A v \in V(graph) \ rm :
              /\ label[v] <= Cardinality(rm)
              /\ (v \notin rc \/ v \in Neighbors(graph, x)) => label[v] <= Cardinality(rm) - 1
    /\ pc = "atoms" => Len(order) = graph.n
    /\ pc = "rest" => found <= Cardinality(block)

Inv == TypeOK /\ InputInv /\ Untouched /\ McsInv /\ McsMInv

LEMMA GivenOnes ==
  /\ \A g \in GivenGraphs : IsGiven(g)
  /\ \A given \in TreewidthCalls : given # <<>> /\ given \in Seq(GivenGraphs)
<1>1. ASSUME NEW g \in GivenGraphs PROVE IsGiven(g)
  <2>1. CASE g \in McsMGraphs
    BY <2>1, GivenAssumption
  <2>2. CASE \E given \in TreewidthCalls : g \in {given[i] : i \in DOMAIN given}
    BY <2>2, GivenAssumption
  <2> QED
    BY <2>1, <2>2 DEF GivenGraphs
<1>2. ASSUME NEW given \in TreewidthCalls PROVE given # <<>> /\ given \in Seq(GivenGraphs)
  <2>1. {given[i] : i \in DOMAIN given} \subseteq GivenGraphs
    BY DEF GivenGraphs
  <2>2. given # <<>> /\ given \in Seq({given[i] : i \in DOMAIN given})
    BY GivenAssumption
  <2> QED
    BY <2>1, <2>2, SeqMonotonic
<1> QED
  BY <1>1, <1>2

LEMMA CallsGiven ==
  ASSUME NEW s \in Seq(GivenGraphs)
  PROVE  \A i \in DOMAIN s : IsGiven(s[i])
  BY GivenOnes, LenProperties, ElementOfSeq

LEMMA InitInv == Init => Inv
<1> SUFFICES ASSUME Init PROVE Inv
  OBVIOUS
<1>1. graph \in GivenGraphs /\ calls \in Seq(GivenGraphs) /\ IsGiven(graph)
  <2>1. CASE \E given \in TreewidthCalls : graph = Head(given) /\ calls = Tail(given)
    BY <2>1, GivenOnes, HeadTailProperties
  <2>2. CASE graph \in McsMGraphs /\ calls = <<>>
    BY <2>2, GivenOnes, EmptySeq DEF GivenGraphs
  <2> QED
    BY <2>1, <2>2 DEF Init
<1>2. \A i \in DOMAIN calls : IsGiven(calls[i])
  BY <1>1, CallsGiven
<1>3. /\ graph.n \in Nat /\ graph.n >= 1 /\ 0 \in V(graph) /\ MaxVertices \in Nat
      /\ V(graph) = 0 .. graph.n - 1 /\ V(graph) \subseteq AllBuckets
  BY <1>1, GivenGraph
<1>4. Cardinality({}) = 0 /\ Len(<<>>) = 0
  BY FS_EmptySet
<1>5. order \in Seq(V(graph)) /\ atoms \in Seq(SUBSET V(graph))
  BY EmptySeq DEF Init
<1>6. TypeOK
  BY <1>1, <1>2, <1>3, <1>5 DEF Init, TypeOK
<1> QED
  BY <1>1, <1>3, <1>4, <1>6 DEF Init, Inv, InputInv, Untouched, McsInv, McsMInv

LEMMA GraphFacts ==
  ASSUME Inv
  PROVE  /\ IsGiven(graph) /\ IsGraph(graph) /\ graph.n \in Nat /\ graph.n >= 1 /\ 0 \in V(graph)
         /\ MaxVertices \in Nat /\ V(graph) = 0 .. graph.n - 1 /\ V(graph) \subseteq AllBuckets
         /\ \A S \in SUBSET V(graph) : IsFiniteSet(S) /\ Cardinality(S) \in 0 .. graph.n
         /\ \A S \in SUBSET V(graph) : \A v \in V(graph) \ S : Cardinality(S) \in V(graph)
         /\ \A S \in SUBSET V(graph) : Cardinality(S) = graph.n => S = V(graph)
         /\ Cardinality(V(graph)) = graph.n
         /\ \A v : Neighbors(graph, v) \in SUBSET V(graph) /\ v \notin Neighbors(graph, v)
<1>1. IsGiven(graph)
  BY DEF Inv, TypeOK
<1>2. ASSUME NEW v PROVE Neighbors(graph, v) \in SUBSET V(graph) /\ v \notin Neighbors(graph, v)
  <2>1. {v, v} \notin graph.adj
    <3>1. \A e \in graph.adj : \E a \in V(graph), b \in V(graph) : a # b /\ e = {a, b}
      BY <1>1, PairsMember DEF IsGiven, IsGraph
    <3> QED
      BY <3>1
  <2> QED
    BY <2>1 DEF Neighbors, HasEdge
<1> QED
  BY <1>1, <1>2, GivenGraph

\* One more vertex of the graph.
LEMMA OneMoreNumbered ==
  ASSUME Inv, NEW y \in V(graph) \ rm
  PROVE  /\ Cardinality(rm \cup {y}) = Cardinality(rm) + 1
         /\ \A v : Cardinality(Neighbors(graph, v) \cap (rm \cup {y})) =
                   IF y \in Neighbors(graph, v) THEN Cardinality(Neighbors(graph, v) \cap rm) + 1
                                                ELSE Cardinality(Neighbors(graph, v) \cap rm)
<1>1. IsGiven(graph) /\ rm \in SUBSET V(graph)
  BY DEF Inv, TypeOK
<1>2. /\ Cardinality(rm \cup {y}) = Cardinality(rm) + 1
      /\ \A N \in SUBSET V(graph) :
           Cardinality(N \cap (rm \cup {y})) =
             IF y \in N THEN Cardinality(N \cap rm) + 1 ELSE Cardinality(N \cap rm)
  BY <1>1, OneMore
<1>3. \A v : Neighbors(graph, v) \in SUBSET V(graph)
  BY DEF Neighbors
<1> QED
  BY <1>2, <1>3

-----------------------------------------------------------------------------
(* Mcs and Treewidth. *)

LEMMA EnterStep ==
  ASSUME Inv, Enter
  PROVE  Inv'
<1> USE DEF Inv
<1>1. /\ UNCHANGED <<input, searchVars, atomVars>> /\ pc = "enter" /\ function = "Treewidth"
      /\ UNCHANGED <<function, graph, calls, rc, reach, bucket, x, fill, prev_label,
                     maximal_points, block, atoms, found>>
  BY DEF Enter, InputInv, input, searchVars, atomVars
<1>2. /\ graph.n \in Nat /\ graph.n >= 1 /\ 0 \in V(graph) /\ V(graph) = 0 .. graph.n - 1
      /\ V(graph) \subseteq AllBuckets
  BY GraphFacts
<1>3. CASE graph.adj = {}
  <2>1. /\ treewidth' = 0 /\ pc' = "done" /\ UNCHANGED <<label, rm, order, it, labels, max_label>>
    BY <1>3 DEF Enter
  <2>2. TypeOK'
    BY <1>1, <1>2, <2>1 DEF TypeOK
  <2> QED
    BY <1>1, <1>3, <2>1, <2>2 DEF InputInv, Untouched, McsInv, McsMInv
<1>4. CASE graph.adj # {}
  <2>1. /\ pc' = "mcs" /\ label' = [v \in V(graph) |-> 0] /\ rm' = {} /\ order' = <<>>
        /\ labels' = Cleared /\ max_label' = 0 /\ it' = graph.n - 1 /\ UNCHANGED treewidth
    BY <1>4 DEF Enter
  <2>2. labels' \in [AllBuckets -> SUBSET AllBuckets]
    <3>1. \A l \in AllBuckets : Cleared[l] \in SUBSET AllBuckets
      BY <1>2 DEF Cleared, TypeOK
    <3> QED
      BY <2>1, <3>1 DEF Cleared
  <2>3. order' \in Seq(V(graph)) /\ Len(order') = 0 /\ Ordered' = {} /\ Cardinality(rm') = 0
    BY <2>1, EmptySeq, FS_EmptySet DEF Ordered
  <2>4. TypeOK'
    <3>1. /\ label' \in [V(graph) -> V(graph)] /\ rm' \subseteq V(graph)
          /\ max_label' \in AllBuckets /\ it' \in -1 .. graph.n + 1
      BY <1>2, <2>1
    <3> QED
      BY <1>1, <2>1, <2>2, <2>3, <3>1 DEF TypeOK
  <2>5. labels'[0] = V(graph) /\ \A l \in V(graph) \ {0} : labels'[l] = {}
    <3>1. \A l \in V(graph) : l \in AllBuckets
      BY <1>2
    <3> QED
      BY <1>2, <2>1, <3>1 DEF Cleared
  <2>6. \A v \in V(graph) : label'[v] = 0 /\ Cardinality(Neighbors(graph, v) \cap rm') = 0
    BY <2>1, FS_EmptySet
  <2>7. McsInv'
    <3>1. it' \in -1 .. graph.n - 1 /\ 0 = graph.n - 1 - it'
      BY <1>2, <2>1
    <3>2. ASSUME NEW l \in V(graph), NEW v \in labels'[l]
          PROVE  v \in V(graph) /\ l <= label'[v]
      <4>1. l = 0 /\ v \in V(graph)
        BY <2>5
      <4>2. label'[v] = 0
        BY <2>1, <4>1
      <4>3. 0 <= 0
        OBVIOUS
      <4> QED
        BY <4>1, <4>2, <4>3
    <3> QED
      BY <1>1, <1>2, <1>4, <2>1, <2>3, <2>5, <2>6, <3>1, <3>2 DEF McsInv
  <2> QED
    BY <1>1, <2>1, <2>4, <2>7 DEF InputInv, Untouched, McsMInv
<1> QED
  BY <1>3, <1>4

\* The running maximum never goes below the labels that are left.
LEMMA LowerStep ==
  ASSUME Inv, LowerMaxLabel
  PROVE  Inv'
<1> USE DEF Inv
<1>1. /\ pc = "mcs" /\ it >= 0 /\ labels[max_label] = {} /\ max_label' = max_label - 1
      /\ UNCHANGED <<function, graph, calls, pc, label, rm, labels, it, order, treewidth,
                     rc, reach, bucket, x, fill, prev_label, maximal_points, block, atoms, found>>
  BY DEF LowerMaxLabel, input, searchVars, atomVars
<1>2. /\ graph.n \in Nat /\ V(graph) = 0 .. graph.n - 1 /\ V(graph) \subseteq AllBuckets
      /\ Cardinality(V(graph)) = graph.n
  BY GraphFacts
<1>3. \A v \in V(graph) \ rm : label[v] \in V(graph) /\ label[v] <= max_label - 1
  <2> SUFFICES ASSUME NEW v \in V(graph) \ rm PROVE label[v] \in V(graph) /\ label[v] <= max_label - 1
    OBVIOUS
  <2>1. label[v] \in V(graph) /\ label[v] # max_label /\ label[v] <= max_label /\ max_label \in V(graph)
    BY <1>1 DEF McsInv, TypeOK
  <2> QED
    BY <1>2, <2>1
<1>4. PICK v \in V(graph) : v \notin rm
  <2>1. Cardinality(rm) # graph.n
    BY <1>1, <1>2 DEF McsInv
  <2> QED
    BY <1>2, <2>1 DEF TypeOK
<1>5. max_label' \in V(graph)
  <2>1. label[v] \in V(graph) /\ label[v] <= max_label - 1 /\ max_label \in V(graph)
    BY <1>1, <1>3, <1>4 DEF McsInv
  <2> QED
    BY <1>1, <1>2, <2>1
<1>6. TypeOK'
  BY <1>1, <1>2, <1>5 DEF TypeOK
<1>7. McsInv'
  <2>1. Ordered' = Ordered
    BY <1>1 DEF Ordered
  <2>2. \A u \in V(graph) \ rm : label[u] <= max_label'
    BY <1>1, <1>3
  <2> QED
    BY <1>1, <1>5, <2>1, <2>2 DEF McsInv
<1> QED
  BY <1>1, <1>6, <1>7 DEF InputInv, Untouched, McsMInv

LEMMA SkipStep ==
  ASSUME Inv, SkipRemoved
  PROVE  Inv'
<1> USE DEF Inv
<1>1. /\ pc = "mcs"
      /\ UNCHANGED <<function, graph, calls, pc, label, rm, max_label, it, order, treewidth,
                     rc, reach, bucket, x, fill, prev_label, maximal_points, block, atoms, found>>
  BY DEF SkipRemoved, input, searchVars, atomVars
<1>2. PICK y \in labels[max_label] \cap rm : labels' = [labels EXCEPT ![max_label] = @ \ {y}]
  BY DEF SkipRemoved
<1>3. /\ labels' \in [AllBuckets -> SUBSET AllBuckets]
      /\ \A l \in AllBuckets : labels'[l] = IF l = max_label THEN labels[l] \ {y} ELSE labels[l]
  BY <1>2 DEF TypeOK
<1>4. V(graph) \subseteq AllBuckets
  BY GraphFacts
<1>5. TypeOK'
  BY <1>1, <1>3 DEF TypeOK
<1>6. McsInv'
  <2>1. \A v \in V(graph) \ rm : v \in labels'[label[v]]
    <3>1. \A v \in V(graph) \ rm : label[v] \in AllBuckets /\ v \in labels[label[v]] /\ v # y
      BY <1>1, <1>2, <1>4 DEF McsInv, TypeOK
    <3> QED
      BY <1>3, <3>1
  <2>2. \A l \in V(graph) : labels'[l] \subseteq labels[l]
    BY <1>3, <1>4
  <2> QED
    BY <1>1, <2>1, <2>2 DEF McsInv, Ordered
<1> QED
  BY <1>1, <1>5, <1>6 DEF InputInv, Untouched, McsMInv

\* What Number does to labels, order and buckets.
LEMMA NumberFacts ==
  ASSUME Inv, Number
  PROVE  \E y \in V(graph) \ rm :
           LET later == Neighbors(graph, y) \ rm
           IN  /\ y \in labels[max_label] /\ order' = <<y>> \o order /\ rm' = rm \cup {y}
               /\ label' \in [V(graph) -> V(graph)]
               /\ \A v \in V(graph) :
                    label'[v] = IF v \in later THEN label[v] + 1 ELSE label[v]
               /\ \A v \in V(graph) \ rm' :
                    label'[v] = Cardinality(Neighbors(graph, v) \cap rm')
               /\ labels' \in [AllBuckets -> SUBSET AllBuckets]
               /\ \A l \in AllBuckets :
                    labels'[l] = (IF l = max_label THEN labels[l] \ {y} ELSE labels[l])
                                   \cup {v \in later : label'[v] = l}
               /\ max_label' \in V(graph) /\ max_label <= max_label'
               /\ \A v \in later : label'[v] <= max_label'
<1> USE DEF Inv
<1>1. PICK y \in labels[max_label] \ rm :
        LET later == Neighbors(graph, y) \ rm
        IN  /\ order' = <<y>> \o order
            /\ label' = [v \in V(graph) |-> IF v \in later THEN label[v] + 1 ELSE label[v]]
            /\ labels' = [l \in AllBuckets |->
                (IF l = max_label THEN labels[l] \ {y} ELSE labels[l])
                  \cup {v \in later : label'[v] = l}]
            /\ max_label' = MaxOf({max_label} \cup {label'[v] : v \in later})
            /\ rm' = rm \cup {y}
  BY DEF Number
<1> DEFINE later == Neighbors(graph, y) \ rm
<1>2. pc = "mcs" /\ it >= 0 /\ UNCHANGED graph
  BY DEF Number, input
<1>3. /\ IsGiven(graph) /\ graph.n \in Nat /\ graph.n >= 1 /\ V(graph) = 0 .. graph.n - 1
      /\ V(graph) \subseteq AllBuckets /\ \A v : Neighbors(graph, v) \in SUBSET V(graph)
      /\ \A S \in SUBSET V(graph) : \A v \in V(graph) \ S : Cardinality(S) \in V(graph)
  BY GraphFacts
<1>4. y \in V(graph) \ rm /\ y \in labels[max_label] /\ max_label \in V(graph) /\ rm \in SUBSET V(graph)
  BY <1>1, <1>2 DEF McsInv, TypeOK
<1>5. \A v \in V(graph) : label'[v] = IF v \in later THEN label[v] + 1 ELSE label[v]
  BY <1>1
<1>6. ASSUME NEW v \in V(graph) \ rm, v # y
      PROVE  label'[v] = Cardinality(Neighbors(graph, v) \cap rm')
  <2>1. label[v] = Cardinality(Neighbors(graph, v) \cap rm)
    BY <1>2 DEF McsInv
  <2>2. Cardinality(Neighbors(graph, v) \cap (rm \cup {y})) =
          IF y \in Neighbors(graph, v) THEN Cardinality(Neighbors(graph, v) \cap rm) + 1
                                       ELSE Cardinality(Neighbors(graph, v) \cap rm)
    BY <1>4, OneMoreNumbered
  <2>3. v \in later <=> y \in Neighbors(graph, v)
    <3>1. {v, y} = {y, v}
      OBVIOUS
    <3> QED
      BY <1>4, <3>1 DEF Neighbors, HasEdge
  <2> QED
    BY <1>1, <1>5, <2>1, <2>2, <2>3
<1>7. \A v \in V(graph) : label[v] \in V(graph)
  BY DEF TypeOK
<1>8. y \notin later
  BY GraphFacts
<1>9. ASSUME NEW v \in V(graph) PROVE label'[v] \in V(graph)
  <2>1. CASE v \in later
    <3>1. Neighbors(graph, v) \cap rm' \in SUBSET V(graph) /\ v \notin Neighbors(graph, v) \cap rm'
      BY <1>1, <1>3, <1>8, <2>1
    <3>2. Cardinality(Neighbors(graph, v) \cap rm') \in V(graph)
      BY <1>3, <3>1
    <3> QED
      BY <1>6, <1>8, <2>1, <3>2
  <2>2. CASE v \notin later
    BY <1>5, <1>7, <2>2
  <2> QED
    BY <2>1, <2>2
<1>10. label' \in [V(graph) -> V(graph)]
  BY <1>1, <1>9
<1>11. /\ max_label' \in V(graph) /\ max_label <= max_label'
       /\ \A v \in later : label'[v] <= max_label'
  <2> DEFINE S == {max_label} \cup {label'[v] : v \in later}
  <2>1. S \in SUBSET (0 .. graph.n - 1) /\ S # {} /\ graph.n - 1 \in Nat
    BY <1>3, <1>4, <1>9
  <2>2. max_label' = MaxOf(S) /\ max_label \in S /\ \A v \in later : label'[v] \in S
    BY <1>1
  <2> HIDE DEF S
  <2>3. MaxOf(S) \in S /\ \A l \in S : l <= MaxOf(S)
    BY <2>1, LargestIs
  <2> QED
    BY <1>3, <2>1, <2>2, <2>3
<1>12. /\ labels' \in [AllBuckets -> SUBSET AllBuckets]
       /\ \A l \in AllBuckets :
            labels'[l] = (IF l = max_label THEN labels[l] \ {y} ELSE labels[l])
                           \cup {v \in later : label'[v] = l}
  BY <1>1, <1>3 DEF TypeOK
<1> QED
  BY <1>1, <1>4, <1>5, <1>6, <1>10, <1>11, <1>12

LEMMA NumberStep ==
  ASSUME Inv, Number
  PROVE  Inv'
<1> USE DEF Inv
<1>1. /\ pc = "mcs" /\ it >= 0 /\ it' = it - 1
      /\ UNCHANGED <<function, graph, calls, pc, treewidth,
                     rc, reach, bucket, x, fill, prev_label, maximal_points, block, atoms, found>>
  BY DEF Number, input, searchVars, atomVars
<1>2. PICK y \in V(graph) \ rm :
           LET later == Neighbors(graph, y) \ rm
           IN  /\ y \in labels[max_label] /\ order' = <<y>> \o order /\ rm' = rm \cup {y}
               /\ label' \in [V(graph) -> V(graph)]
               /\ \A v \in V(graph) :
                    label'[v] = IF v \in later THEN label[v] + 1 ELSE label[v]
               /\ \A v \in V(graph) \ rm' :
                    label'[v] = Cardinality(Neighbors(graph, v) \cap rm')
               /\ labels' \in [AllBuckets -> SUBSET AllBuckets]
               /\ \A l \in AllBuckets :
                    labels'[l] = (IF l = max_label THEN labels[l] \ {y} ELSE labels[l])
                                   \cup {v \in later : label'[v] = l}
               /\ max_label' \in V(graph) /\ max_label <= max_label'
               /\ \A v \in later : label'[v] <= max_label'
  BY NumberFacts
<1> DEFINE later == Neighbors(graph, y) \ rm
<1>3. /\ IsGiven(graph) /\ graph.n \in Nat /\ graph.n >= 1 /\ V(graph) = 0 .. graph.n - 1
      /\ V(graph) \subseteq AllBuckets
  BY GraphFacts
<1>4. /\ rm = Ordered /\ Len(order) = graph.n - 1 - it /\ Cardinality(rm) = Len(order)
      /\ it \in -1 .. graph.n - 1 /\ max_label \in V(graph) /\ graph.adj # {}
      /\ rm \in SUBSET V(graph) /\ order \in Seq(V(graph))
      /\ \A v \in V(graph) : label[v] \in V(graph)
  BY <1>1 DEF McsInv, TypeOK
<1>5. /\ order' \in Seq(V(graph)) /\ Len(order') = Len(order) + 1
      /\ Ordered' = Ordered \cup {y}
  BY <1>2, <1>4, Prepend DEF Ordered
<1>6. Cardinality(rm') = Cardinality(rm) + 1
  BY <1>2, OneMoreNumbered
<1> HIDE DEF later
<1>11. it' \in -1 .. graph.n - 1
  <2>1. it \in Int /\ it <= graph.n - 1 /\ it - 1 >= -1
    BY <1>1, <1>3, <1>4
  <2> QED
    BY <1>1, <1>3, <2>1
<1>7. TypeOK'
  <2>1. max_label' \in AllBuckets /\ rm' \subseteq V(graph)
    BY <1>2, <1>3, <1>4
  <2>2. it' \in -1 .. graph.n + 1
    BY <1>3, <1>11
  <2> QED
    BY <1>1, <1>2, <1>5, <2>1, <2>2 DEF TypeOK
<1>8. ASSUME NEW v \in V(graph) \ rm'
      PROVE  v \in labels'[label'[v]] /\ label'[v] <= max_label'
  <2>1. /\ label'[v] \in AllBuckets /\ v # y
        /\ v \in labels[label[v]] /\ label[v] <= max_label /\ label[v] \in AllBuckets
    BY <1>1, <1>2, <1>3, <1>4 DEF McsInv
  <2>2. CASE v \in later
    BY <1>2, <2>1, <2>2 DEF later
  <2>3. CASE v \notin later
    <3>1. label'[v] = label[v] /\ v \in labels'[label[v]]
      BY <1>2, <2>1, <2>3 DEF later
    <3>2. label[v] \in Int /\ max_label \in Int /\ max_label' \in Int /\ max_label <= max_label'
      <4>1. label[v] \in V(graph) /\ max_label \in V(graph)
        BY <1>4
      <4>2. max_label' \in V(graph) /\ max_label <= max_label'
        BY <1>2
      <4> QED
        BY <1>3, <4>1, <4>2
    <3> QED
      BY <2>1, <3>1, <3>2
  <2> QED
    BY <2>2, <2>3
<1>9. ASSUME NEW l \in V(graph), NEW v \in labels'[l]
      PROVE  v \in V(graph) /\ l <= label'[v]
  <2>1. v \in labels[l] \/ (v \in later /\ label'[v] = l)
    BY <1>2, <1>3 DEF later
  <2>2. CASE v \in later /\ label'[v] = l
    BY <1>3, <2>2 DEF later, Neighbors
  <2>3. CASE v \in labels[l]
    <3>1. v \in V(graph) /\ l <= label[v]
      BY <1>1, <2>3 DEF McsInv
    <3>2. label'[v] = label[v] \/ label'[v] = label[v] + 1
      BY <1>2, <3>1
    <3>3. label[v] \in Nat /\ l \in Nat
      BY <1>3, <1>4, <3>1
    <3> QED
      BY <3>1, <3>2, <3>3
  <2> QED
    BY <2>1, <2>2, <2>3
<1>10. McsInv'
  <2>1. Len(order') = graph.n - 1 - it'
    <3>1. it \in Int /\ Len(order) = graph.n - 1 - it /\ Len(order') = Len(order) + 1 /\ it' = it - 1
      BY <1>1, <1>4, <1>5
    <3> QED
      BY <1>3, <3>1
  <2>2. rm' = Ordered' /\ Cardinality(rm') = Len(order')
    BY <1>2, <1>4, <1>5, <1>6
  <2> QED
    BY <1>1, <1>2, <1>4, <1>8, <1>9, <1>11, <2>1, <2>2 DEF McsInv
<1> QED
  BY <1>1, <1>7, <1>10 DEF InputInv, Untouched, McsMInv

\* The width along an order is that of a clique of the graph.
LEMMA MeasureStep ==
  ASSUME Inv, MeasureWidth
  PROVE  Inv'
<1> USE DEF Inv
<1>1. /\ pc = "mcs" /\ it = -1 /\ pc' = "done" /\ function = "Treewidth"
      /\ treewidth' = IF \A i \in 1 .. graph.n : IsClique(graph, Later(i)) THEN WidthAlong ELSE -2
      /\ UNCHANGED <<function, graph, calls, label, rm, labels, max_label, it, order,
                     rc, reach, bucket, x, fill, prev_label, maximal_points, block, atoms, found>>
  BY DEF MeasureWidth, InputInv, input, searchVars, atomVars
<1>2. /\ graph.n \in Nat /\ graph.n >= 1
      /\ \A S \in SUBSET V(graph) : IsFiniteSet(S) /\ Cardinality(S) \in 0 .. graph.n
      /\ \A S \in SUBSET V(graph) : Cardinality(S) = graph.n => S = V(graph)
      /\ \A v : Neighbors(graph, v) \in SUBSET V(graph) /\ v \notin Neighbors(graph, v)
  BY GraphFacts
<1>3. Ordered = V(graph) /\ Len(order) = graph.n /\ order \in Seq(V(graph)) /\ graph.adj # {}
  BY <1>1, <1>2 DEF McsInv, TypeOK
<1>4. WidthAlong \in 0 .. graph.n - 1
  <2> DEFINE S == {0} \cup {Cardinality(Later(i)) : i \in 1 .. graph.n}
  <2>1. ASSUME NEW i \in 1 .. graph.n PROVE Cardinality(Later(i)) \in 0 .. graph.n - 1
    <3>1. Later(i) \in SUBSET V(graph) /\ order[i] \notin Later(i)
      BY <1>2 DEF Later
    <3>2. order[i] \in V(graph)
      BY <1>3, ElementOfSeq
    <3> QED
      BY <1>2, <3>1, <3>2
  <2>2. S \in SUBSET (0 .. graph.n - 1) /\ S # {} /\ graph.n - 1 \in Nat
    BY <1>2, <2>1
  <2>3. WidthAlong = MaxOf(S)
    BY DEF WidthAlong
  <2> HIDE DEF S
  <2> QED
    BY <2>2, <2>3, LargestIs
<1>5. TypeOK'
  <2>1. treewidth' \in -2 .. graph.n - 1
    BY <1>1, <1>2, <1>4
  <2> QED
    BY <1>1, <2>1 DEF TypeOK
<1>6. McsInv'
  BY <1>1, <1>3 DEF McsInv, Ordered
<1> QED
  BY <1>1, <1>5, <1>6 DEF InputInv, Untouched, McsMInv

LEMMA CallAgainStep ==
  ASSUME Inv, CallAgain
  PROVE  Inv'
<1> USE DEF Inv
<1>1. /\ pc = "done" /\ pc' = "enter" /\ calls # <<>> /\ function = "Treewidth"
      /\ graph' = Head(calls) /\ calls' = Tail(calls) /\ treewidth' = -1
      /\ order' = <<>> /\ rm' = {} /\ label' = [v \in V(graph') |-> 0]
      /\ reach' = [i \in V(graph') |-> {}]
      /\ UNCHANGED <<function, labels, max_label, it, rc, bucket, x, fill, prev_label,
                     maximal_points, block, atoms, found>>
  BY DEF CallAgain, Ends, InputInv, atomVars
<1>2. graph' \in GivenGraphs /\ calls' \in Seq(GivenGraphs)
  BY <1>1, HeadTailProperties DEF InputInv
<1>3. IsGiven(graph') /\ \A i \in DOMAIN calls' : IsGiven(calls'[i])
  BY <1>2, GivenOnes, CallsGiven
<1>4. graph'.n \in Nat /\ graph'.n >= 1 /\ 0 \in V(graph')
  BY <1>3, GivenGraph
<1>5. TypeOK'
  <2>1. order' \in Seq(V(graph')) /\ label' \in [V(graph') -> V(graph')]
        /\ reach' \in [V(graph') -> SUBSET V(graph')]
    BY <1>1, <1>4, EmptySeq
  <2>2. /\ it \in -1 .. graph'.n + 1 /\ treewidth' \in -2 .. graph'.n - 1
        /\ bucket \in 0 .. graph'.n /\ x \in V(graph') /\ prev_label \in -1 .. graph'.n - 1
        /\ found \in 0 .. graph'.n
    BY <1>1, <1>4 DEF Untouched
  <2>3. atoms \in Seq(SUBSET V(graph')) /\ rc \subseteq V(graph') /\ block \subseteq V(graph')
        /\ fill \subseteq NonEdges(graph') /\ maximal_points \subseteq V(graph')
    BY <1>1, EmptySeq DEF Untouched
  <2> QED
    BY <1>1, <1>3, <2>1, <2>2, <2>3 DEF TypeOK
<1> QED
  BY <1>1, <1>2, <1>5 DEF InputInv, Untouched, McsInv, McsMInv

-----------------------------------------------------------------------------
(* McsM and Atoms. *)

\* The scan finds a vertex that is not numbered, one with the largest label.
LEMMA ScanFinds ==
  ASSUME Inv, rm # V(graph)
  PROVE  /\ MaxLabelVertex \in V(graph) \ rm
         /\ \A u \in V(graph) \ rm : label[u] <= label[MaxLabelVertex]
<1> DEFINE Left == V(graph) \ rm
           Top == {v \in Left : \A u \in Left : label[u] <= label[v]}
           L == {label[v] : v \in Left}
<1>1. /\ graph.n \in Nat /\ graph.n >= 1 /\ V(graph) = 0 .. graph.n - 1 /\ graph.n - 1 \in Nat
      /\ \A v \in V(graph) : label[v] \in V(graph)
  BY GraphFacts DEF Inv, TypeOK
<1>2. Left # {} /\ Left \subseteq V(graph)
  BY DEF Inv, TypeOK
<1>3. L \in SUBSET (0 .. graph.n - 1) /\ L # {}
  BY <1>1, <1>2
<1> HIDE DEF L
<1>4. MaxOf(L) \in L /\ \A l \in L : l <= MaxOf(L)
  BY <1>1, <1>3, LargestIs
<1>5. Top # {}
  BY <1>4 DEF L
<1>6. Top \in SUBSET (0 .. graph.n - 1)
  BY <1>1
<1>7. MaxLabelVertex = MaxOf(Top)
  BY DEF MaxLabelVertex, MaxOf
<1> HIDE DEF Top
<1>8. MaxOf(Top) \in Top
  BY <1>1, <1>5, <1>6, LargestIs
<1> QED
  BY <1>7, <1>8 DEF Top

LEMMA SelectStep ==
  ASSUME Inv, Select
  PROVE  Inv'
<1> USE DEF Inv
<1>1. /\ pc = "select" /\ pc' = "reach" /\ rm # V(graph) /\ function = "Atoms"
      /\ x' = MaxLabelVertex /\ order' = <<x'>> \o order /\ prev_label' = label[x']
      /\ rm' = rm \cup {x'} /\ rc' = StartMarks(x', Neighbors(graph, x') \ rm')
      /\ reach' = [i \in V(graph) |-> {y \in Neighbors(graph, x') \ rm' : label[y] = i}]
      /\ maximal_points' \subseteq maximal_points \cup {x'} /\ bucket' = 0
      /\ UNCHANGED <<function, graph, calls, label, fill, it, labels, max_label, treewidth,
                     block, atoms, found>>
  BY DEF Select, InputInv, input, mcsVars, atomVars
<1>2. x' \in V(graph) \ rm
  BY <1>1, ScanFinds
<1>3. /\ graph.n \in Nat /\ graph.n >= 1 /\ V(graph) = 0 .. graph.n - 1
      /\ \A v : Neighbors(graph, v) \in SUBSET V(graph) /\ v \notin Neighbors(graph, v)
  BY GraphFacts
<1>4. /\ rm \in SUBSET V(graph) /\ order \in Seq(V(graph))
      /\ \A v \in V(graph) : label[v] \in V(graph)
      /\ Cardinality(rm) \in Nat /\ Len(order) = Cardinality(rm)
      /\ \A v \in V(graph) \ rm : label[v] <= Cardinality(rm)
  BY <1>1, GraphFacts DEF TypeOK, McsMInv
<1>5. Cardinality(rm') = Cardinality(rm) + 1
  BY <1>1, <1>2, OneMoreNumbered
<1>6. order' \in Seq(V(graph)) /\ Len(order') = Len(order) + 1
  BY <1>1, <1>2, <1>4, Prepend
<1>7. TypeOK'
  <2>1. rm' \subseteq V(graph) /\ rc' \subseteq V(graph) /\ maximal_points' \subseteq V(graph)
        /\ x' \in V(graph)
    BY <1>1, <1>2, <1>3 DEF TypeOK, StartMarks
  <2>2. reach' \in [V(graph) -> SUBSET V(graph)]
    BY <1>1, <1>3
  <2>3. bucket' \in 0 .. graph.n /\ prev_label' \in -1 .. graph.n - 1
    BY <1>1, <1>2, <1>3, <1>4
  <2> QED
    BY <1>1, <1>6, <2>1, <2>2, <2>3 DEF TypeOK
<1>8. McsMInv'
  <2>1. Neighbors(graph, x') \ rm' \subseteq rc' /\ x' \in rm'
    BY <1>1 DEF StartMarks
  <2>2. \A v \in V(graph) \ rm' : label[v] <= Cardinality(rm') /\ label[v] <= Cardinality(rm') - 1
    <3> SUFFICES ASSUME NEW v \in V(graph) \ rm'
                 PROVE  label[v] <= Cardinality(rm') /\ label[v] <= Cardinality(rm') - 1
      OBVIOUS
    <3>1. label[v] \in Int /\ label[v] <= Cardinality(rm)
      BY <1>1, <1>3, <1>4
    <3> QED
      BY <1>4, <1>5, <3>1
  <2>3. found = 0 /\ it \in 1 .. graph.n + 1 /\ Len(order') = Cardinality(rm')
    BY <1>1, <1>4, <1>5, <1>6 DEF McsMInv
  <2> QED
    BY <1>1, <2>1, <2>2, <2>3 DEF McsMInv
<1> QED
  BY <1>1, <1>7, <1>8 DEF InputInv, Untouched, McsInv

LEMMA ReachStep ==
  ASSUME Inv, ReachNeighbors
  PROVE  Inv'
<1> USE DEF Inv
<1>1. /\ pc = "reach" /\ bucket < graph.n /\ function = "Atoms"
      /\ UNCHANGED <<function, graph, calls, pc, rm, bucket, x, order, prev_label, maximal_points,
                     it, labels, max_label, treewidth, block, atoms, found>>
  BY DEF ReachNeighbors, InputInv, input, mcsVars, atomVars
<1>2. PICK y \in reach[bucket] :
        LET New == (Neighbors(graph, y) \ rm) \ rc
            FillEnds == {z \in New : Higher(z)}
        IN  /\ rc' = rc \cup New
            /\ reach' = [i \in V(graph) |->
                  (IF i = bucket THEN (reach[i] \ {y}) \cup (New \ FillEnds) ELSE reach[i])
                    \cup {z \in FillEnds : label[z] = i}]
            /\ label' = [v \in V(graph) |-> IF v \in FillEnds THEN label[v] + 1 ELSE label[v]]
            /\ fill' = fill \cup {{x, z} : z \in FillEnds}
  BY DEF ReachNeighbors
<1> DEFINE New == (Neighbors(graph, y) \ rm) \ rc
           FillEnds == {z \in New : Higher(z)}
<1>3. /\ graph.n \in Nat /\ V(graph) = 0 .. graph.n - 1
      /\ \A v : Neighbors(graph, v) \in SUBSET V(graph)
      /\ \A S \in SUBSET V(graph) : \A v \in V(graph) \ S : Cardinality(S) \in V(graph)
  BY GraphFacts
<1>4. /\ \A v \in V(graph) : label[v] \in V(graph)
      /\ rm \in SUBSET V(graph) /\ rc \subseteq V(graph) /\ x \in V(graph) /\ fill \subseteq NonEdges(graph)
      /\ x \in rm /\ Neighbors(graph, x) \ rm \subseteq rc
      /\ reach \in [V(graph) -> SUBSET V(graph)]
  BY <1>1 DEF TypeOK, McsMInv
<1>5. ASSUME NEW v \in V(graph) \ rm
      PROVE  /\ label[v] <= Cardinality(rm) /\ Cardinality(rm) \in V(graph)
             /\ (v \notin rc \/ v \in Neighbors(graph, x)) => label[v] <= Cardinality(rm) - 1
  BY <1>1, <1>3, <1>4 DEF McsMInv
<1>6. FillEnds \subseteq New /\ New \subseteq (V(graph) \ rm) \ rc
  BY <1>3
<1>7. /\ rc' = rc \cup New /\ fill' = fill \cup {{x, z} : z \in FillEnds}
      /\ label' = [v \in V(graph) |-> IF v \in FillEnds THEN label[v] + 1 ELSE label[v]]
  BY <1>2
<1>8. reach' \in [V(graph) -> SUBSET V(graph)]
  <2>1. reach' = [i \in V(graph) |->
                  (IF i = bucket THEN (reach[i] \ {y}) \cup (New \ FillEnds) ELSE reach[i])
                    \cup {z \in FillEnds : label[z] = i}]
    BY <1>2
  <2> HIDE DEF New, FillEnds
  <2> QED
    BY <1>4, <1>6, <2>1
<1> HIDE DEF New, FillEnds
<1>9. ASSUME NEW v \in FillEnds PROVE label[v] + 1 \in V(graph) /\ label[v] + 1 <= Cardinality(rm)
  <2>1. v \in V(graph) \ rm /\ v \notin rc
    BY <1>6
  <2>2. label[v] <= Cardinality(rm) - 1 /\ Cardinality(rm) \in V(graph) /\ label[v] \in V(graph)
    BY <1>4, <1>5, <2>1
  <2> QED
    BY <1>3, <2>2
<1>10. TypeOK'
  <2>1. label' \in [V(graph) -> V(graph)]
    BY <1>4, <1>7, <1>9
  <2>2. \A z \in FillEnds : {x, z} \in NonEdges(graph)
    <3> SUFFICES ASSUME NEW z \in FillEnds PROVE {x, z} \in NonEdges(graph)
      OBVIOUS
    <3>1. z \in V(graph) \ rm /\ z \notin rc /\ z # x
      BY <1>4, <1>6
    <3>2. {x, z} \notin graph.adj
      <4>1. z \notin Neighbors(graph, x)
        BY <1>4, <3>1
      <4>2. {z, x} = {x, z}
        OBVIOUS
      <4> QED
        BY <3>1, <4>1, <4>2 DEF Neighbors, HasEdge
    <3> QED
      BY <1>4, <3>1, <3>2, PairsOf DEF NonEdges
  <2>3. fill' \subseteq NonEdges(graph) /\ rc' \subseteq V(graph)
    BY <1>4, <1>6, <1>7, <2>2
  <2> QED
    BY <1>1, <1>8, <2>1, <2>3 DEF TypeOK
<1>11. McsMInv'
  <2>1. ASSUME NEW v \in V(graph) \ rm
        PROVE  /\ label'[v] <= Cardinality(rm)
               /\ (v \notin rc' \/ v \in Neighbors(graph, x)) => label'[v] <= Cardinality(rm) - 1
    <3>1. CASE v \in FillEnds
      <4>1. label'[v] = label[v] + 1 /\ v \in rc' /\ v \notin Neighbors(graph, x)
        BY <1>4, <1>6, <1>7, <3>1
      <4> QED
        BY <1>9, <3>1, <4>1
    <3>2. CASE v \notin FillEnds
      <4>1. label'[v] = label[v] /\ (v \notin rc' => v \notin rc)
        BY <1>7, <3>2
      <4> QED
        BY <1>5, <4>1
    <3> QED
      BY <3>1, <3>2
  <2>2. Neighbors(graph, x) \ rm \subseteq rc'
    BY <1>4, <1>7
  <2> QED
    BY <1>1, <2>1, <2>2 DEF McsMInv
<1> QED
  BY <1>1, <1>10, <1>11 DEF InputInv, Untouched, McsInv

LEMMA RaiseStep ==
  ASSUME Inv, RaiseNeighbors
  PROVE  Inv'
<1> USE DEF Inv
<1>1. /\ pc = "reach" /\ function = "Atoms"
      /\ label' = [v \in V(graph) |->
           IF v \in Neighbors(graph, x) \ rm THEN label[v] + 1 ELSE label[v]]
      /\ UNCHANGED <<function, graph, calls, rc, reach, bucket, x, fill, prev_label, maximal_points,
                     order, it, labels, max_label, treewidth, block, atoms, found>>
      /\ \/ rm = V(graph) /\ pc' = "atoms" /\ rm' = {}
         \/ rm # V(graph) /\ pc' = "select" /\ UNCHANGED rm
  BY DEF RaiseNeighbors, InputInv, input, searchVars, mcsVars, atomVars
<1>2. /\ graph.n \in Nat /\ V(graph) = 0 .. graph.n - 1 /\ Cardinality(V(graph)) = graph.n
      /\ \A S \in SUBSET V(graph) : \A v \in V(graph) \ S : Cardinality(S) \in V(graph)
  BY GraphFacts
<1>3. ASSUME NEW v \in V(graph) PROVE /\ label'[v] \in V(graph)
                                      /\ v \notin rm => label'[v] <= Cardinality(rm)
  <2>1. label[v] \in V(graph) /\ rm \in SUBSET V(graph)
    BY DEF TypeOK
  <2>2. CASE v \in Neighbors(graph, x) \ rm
    <3>1. label[v] <= Cardinality(rm) - 1 /\ label'[v] = label[v] + 1
      BY <1>1, <2>2 DEF McsMInv
    <3>2. Cardinality(rm) \in V(graph)
      BY <1>2, <2>1, <2>2
    <3> QED
      BY <1>2, <2>1, <3>1, <3>2
  <2>3. CASE v \notin Neighbors(graph, x) \ rm
    <3>1. label'[v] = label[v] /\ (v \notin rm => label[v] <= Cardinality(rm))
      BY <1>1, <2>3 DEF McsMInv
    <3> QED
      BY <2>1, <3>1
  <2> QED
    BY <2>2, <2>3
<1>4. TypeOK'
  <2>1. label' \in [V(graph) -> V(graph)] /\ rm' \subseteq V(graph)
    BY <1>1, <1>3 DEF TypeOK
  <2> QED
    BY <1>1, <2>1 DEF TypeOK
<1>5. McsMInv'
  BY <1>1, <1>2, <1>3 DEF McsMInv
<1> QED
  BY <1>1, <1>4, <1>5 DEF InputInv, Untouched, McsInv

LEMMA AtomAtStep ==
  ASSUME Inv, AtomAt
  PROVE  Inv'
<1> USE DEF Inv
<1>1. /\ pc = "atoms" /\ it <= graph.n /\ function = "Atoms"
      /\ rm' = rm \cup {order[it]} /\ it' = it + 1
      /\ UNCHANGED <<function, graph, calls, pc, label, rc, reach, bucket, x, fill, prev_label,
                     maximal_points, order, labels, max_label, treewidth, found>>
  BY DEF AtomAt, InputInv, input, searchVars, mcsVars
<1>2. graph.n \in Nat /\ it \in 1 .. graph.n + 1 /\ Len(order) = graph.n
      /\ order \in Seq(V(graph)) /\ atoms \in Seq(SUBSET V(graph)) /\ block \subseteq V(graph)
  BY <1>1, GraphFacts DEF TypeOK, McsMInv
<1>3. it' \in 1 .. graph.n + 1 /\ it' \in -1 .. graph.n + 1 /\ it \in 1 .. Len(order)
  BY <1>1, <1>2
<1>4. order[it] \in V(graph)
  BY <1>2, <1>3, ElementOfSeq
<1> DEFINE v == order[it]
           cand == CandClique(v)
           component == FindComponent(graph, (block \cup cand) \ {v}, v)
<1>5. component \subseteq V(graph) /\ cand \subseteq V(graph)
  BY DEF FindComponent, CandClique, Neighbors, Filling, V
<1>6. atoms' \in Seq(SUBSET V(graph)) /\ block' \subseteq V(graph)
  <2>1. CASE atoms' = Append(atoms, component \cup cand) /\ block' = (block \cup component) \ cand
    <3>1. component \cup cand \in SUBSET V(graph)
      BY <1>5
    <3> HIDE DEF component, cand
    <3> QED
      BY <1>2, <1>5, <2>1, <3>1, AppendProperties
  <2>2. CASE UNCHANGED <<atoms, block>>
    BY <1>2, <2>2
  <2> QED
    BY <2>1, <2>2 DEF AtomAt
<1>7. TypeOK'
  <2>1. rm' \subseteq V(graph)
    BY <1>1, <1>4 DEF TypeOK
  <2> QED
    BY <1>1, <1>3, <1>6, <2>1 DEF TypeOK
<1>8. McsMInv'
  BY <1>1, <1>2, <1>3 DEF McsMInv
<1> QED
  BY <1>1, <1>7, <1>8 DEF InputInv, Untouched, McsInv

LEMMA AtomOfRestStep ==
  ASSUME Inv, AtomOfRest
  PROVE  Inv'
<1> USE DEF Inv
<1> DEFINE v == CHOOSE u \in V(graph) \ block : \A w \in V(graph) \ block : u <= w
           component == FindComponent(graph, block, v)
<1>1. /\ pc = "rest" /\ function = "Atoms" /\ block # V(graph)
      /\ atoms' = Append(atoms, component) /\ block' = block \cup component /\ found' = found + 1
      /\ UNCHANGED <<function, graph, calls, pc, label, rm, order, it, rc, reach, bucket, x, fill,
                     prev_label, maximal_points, labels, max_label, treewidth>>
  BY DEF AtomOfRest, InputInv, input, searchVars, mcsVars
<1>2. /\ graph.n \in Nat /\ V(graph) = 0 .. graph.n - 1
      /\ \A S \in SUBSET V(graph) : IsFiniteSet(S) /\ Cardinality(S) \in 0 .. graph.n
      /\ block \in SUBSET V(graph) /\ atoms \in Seq(SUBSET V(graph))
  BY GraphFacts DEF TypeOK
<1>3. v \in V(graph) \ block
  <2> HIDE DEF v, component
  <2>3. \A w \in V(graph) : w \in Nat
    BY <1>2
  <2>4. block \subseteq V(graph) /\ block # V(graph)
    BY <1>1, <1>2
  <2>1. V(graph) \ block \in SUBSET Nat /\ V(graph) \ block # {}
    BY <2>3, <2>4
  <2>2. \E m \in V(graph) \ block : \A l \in V(graph) \ block : m <= l
    BY <2>1, LeastElement
  <2> QED
    BY <2>2 DEF v
<1> HIDE DEF v
<1>4. v \in component /\ component \subseteq V(graph)
  BY <1>3, ComponentClosed
<1> HIDE DEF component
<1>5. /\ block' \in SUBSET V(graph) /\ found' <= Cardinality(block')
      /\ found' \in 0 .. graph.n
  <2>1. block \subseteq block' \ {v} /\ block' \in SUBSET V(graph) /\ v \in block'
    BY <1>1, <1>2, <1>3, <1>4
  <2>2. /\ IsFiniteSet(block') /\ Cardinality(block') \in 0 .. graph.n
        /\ Cardinality(block' \ {v}) = Cardinality(block') - 1 /\ IsFiniteSet(block' \ {v})
    BY <1>2, <2>1, FS_RemoveElement
  <2>3. Cardinality(block) <= Cardinality(block' \ {v}) /\ Cardinality(block) \in Nat
    BY <1>2, <2>1, <2>2, FS_Subset
  <2>4. found <= Cardinality(block) /\ found \in Nat
    BY <1>1 DEF McsMInv, TypeOK
  <2> QED
    BY <1>1, <1>2, <2>1, <2>2, <2>3, <2>4
<1>6. atoms' \in Seq(SUBSET V(graph))
  BY <1>1, <1>2, <1>4, AppendProperties
<1>7. TypeOK'
  BY <1>1, <1>5, <1>6 DEF TypeOK
<1> QED
  BY <1>1, <1>5, <1>7 DEF InputInv, Untouched, McsInv, McsMInv

LEMMA OtherStep ==
  ASSUME Inv, NextBucket \/ EndElimination \/ ReturnAtoms \/ UNCHANGED vars
  PROVE  Inv'
<1> USE DEF Inv
<1>1. UNCHANGED <<function, graph, calls, label, rm, rc, reach, x, fill, prev_label, maximal_points,
                  order, it, labels, max_label, treewidth, block, atoms, found>>
  BY DEF NextBucket, EndElimination, ReturnAtoms, vars, input, searchVars, mcsVars, atomVars
<1>2. \/ /\ pc = "reach" /\ pc' = "reach" /\ function = "Atoms"
         /\ bucket < graph.n /\ bucket' = bucket + 1
      \/ UNCHANGED bucket /\ pc = "atoms" /\ pc' = "rest" /\ function = "Atoms"
      \/ UNCHANGED bucket /\ pc = "rest" /\ pc' = "done" /\ function = "Atoms"
      \/ UNCHANGED <<bucket, pc>>
  BY DEF NextBucket, EndElimination, ReturnAtoms, vars, input, searchVars, mcsVars, atomVars, InputInv
<1>3. Ordered' = Ordered
  BY <1>1 DEF Ordered
<1>4. bucket' \in 0 .. graph.n /\ 0 <= Cardinality(block) /\ graph.n \in Nat
  <2>1. graph.n \in Nat /\ Cardinality(block) \in 0 .. graph.n
    BY GraphFacts DEF TypeOK
  <2>2. bucket \in 0 .. graph.n /\ (bucket' = bucket \/ (bucket < graph.n /\ bucket' = bucket + 1))
    BY <1>2 DEF TypeOK
  <2> QED
    BY <2>1, <2>2
<1>5. TypeOK'
  <2>1. pc' \in {"enter", "mcs", "select", "reach", "atoms", "rest", "done"}
    BY <1>2 DEF TypeOK
  <2> QED
    BY <1>1, <1>4, <2>1 DEF TypeOK
<1>6. McsMInv'
  BY <1>1, <1>2, <1>4 DEF McsMInv
<1> QED
  BY <1>1, <1>2, <1>3, <1>5, <1>6 DEF InputInv, Untouched, McsInv

LEMMA InvariantHolds == Spec => []Inv
<1>1. Inv /\ [Next]_vars => Inv'
  <2> SUFFICES ASSUME Inv, [Next]_vars PROVE Inv'
    OBVIOUS
  <2> QED
    BY EnterStep, LowerStep, SkipStep, NumberStep, MeasureStep, CallAgainStep, SelectStep, ReachStep,
       RaiseStep, AtomAtStep, AtomOfRestStep, OtherStep DEF Next, Finished
<1> QED
  BY <1>1, InitInv, PTL DEF Spec

-----------------------------------------------------------------------------
(* Theorems. *)

\* For every graph and every sequence of calls: behind the stale entries, those
\* of earlier calls included, each vertex that is not numbered is in the bucket
\* of its label, which counts its numbered neighbours, and the running maximum is
\* never below a label.
THEOREM BucketsRight == Spec => []BucketsExact
<1>1. Inv => BucketsExact
  BY DEF Inv, McsInv, Ordered, BucketsExact
<1> QED
  BY <1>1, InvariantHolds, PTL

-----------------------------------------------------------------------------
(* The refinement of maximum cardinality search. *)

\* What the search of the abstract specification has ordered: nothing between
\* the calls, for a graph without edges, and while Atoms runs.
SearchOrder == IF pc = "mcs" \/ (pc = "done" /\ graph.adj # {} /\ function = "Treewidth")
               THEN order ELSE <<>>

\* The operators of the abstract specification are those of the code's.
LEMMA SearchOperators ==
  /\ \A g : Search!V(g) = V(g)
  /\ \A g, v : Search!Neighbors(g, v) = Neighbors(g, v)
  /\ \A S : Search!Cardinality(S) = Cardinality(S)
<1>1. \A g : Search!V(g) = V(g)
  BY DEF Search!V, V
<1>2. \A g, v : Search!Neighbors(g, v) = Neighbors(g, v)
  BY <1>1 DEF Search!Neighbors, Neighbors, Search!HasEdge, HasEdge
<1>3. ASSUME NEW S PROVE Search!Cardinality(S) = Cardinality(S)
  BY DEF Search!Cardinality, Cardinality
<1> QED
  BY <1>1, <1>2, <1>3

\* The vertex of the highest bucket has the most numbered neighbours.
LEMMA NumberTakesMost ==
  ASSUME Inv, Number
  PROVE  \E y \in V(graph) \ Ordered :
           /\ order' = <<y>> \o order
           /\ \A u \in V(graph) \ Ordered :
                Cardinality(Neighbors(graph, u) \cap Ordered) <=
                  Cardinality(Neighbors(graph, y) \cap Ordered)
<1> USE DEF Inv
<1>1. PICK y \in V(graph) \ rm : y \in labels[max_label] /\ order' = <<y>> \o order
  BY NumberFacts
<1>2. pc = "mcs"
  BY DEF Number
<1>3. /\ rm = Ordered /\ max_label \in V(graph) /\ max_label <= label[y]
      /\ \A u \in V(graph) \ rm : /\ label[u] = Cardinality(Neighbors(graph, u) \cap rm)
                                  /\ label[u] <= max_label
  BY <1>1, <1>2 DEF McsInv
<1>4. \A u \in V(graph) : label[u] \in Int
  BY GraphFacts DEF TypeOK
<1>5. max_label \in Int
  BY <1>3, GraphFacts
<1>6. ASSUME NEW u \in V(graph) \ rm PROVE label[u] <= label[y]
  <2>1. label[u] \in Int /\ label[y] \in Int /\ label[u] <= max_label
    BY <1>1, <1>3, <1>4
  <2> QED
    BY <1>3, <1>5, <2>1
<1>7. \A u \in V(graph) \ Ordered :
        Cardinality(Neighbors(graph, u) \cap Ordered) <= Cardinality(Neighbors(graph, y) \cap Ordered)
  BY <1>1, <1>3, <1>6
<1> QED
  BY <1>1, <1>3, <1>7

LEMMA NumberSimulates ==
  ASSUME Inv, Number
  PROVE  \E v \in V(graph) : Search!NumberVertex(v)
<1>1. PICK y \in V(graph) \ Ordered :
        /\ order' = <<y>> \o order
        /\ \A u \in V(graph) \ Ordered :
             Cardinality(Neighbors(graph, u) \cap Ordered) <=
               Cardinality(Neighbors(graph, y) \cap Ordered)
  BY NumberTakesMost
<1>2. pc = "mcs" /\ pc' = "mcs" /\ UNCHANGED graph
  BY DEF Number, input
<1>3. Search!Numbered = Ordered
  BY <1>2 DEF Search!Numbered, Ordered
<1>4. Search!NumberVertex(y)
  BY <1>1, <1>2, <1>3, SearchOperators DEF Search!NumberVertex, Search!NumberedNeighbors
<1> QED
  BY <1>1, <1>4

\* The next call begins when every vertex is ordered, or has none to order.
LEMMA CallAgainSimulates ==
  ASSUME Inv, CallAgain
  PROVE  Search!NextGraph
<1> USE DEF Inv
<1>1. pc = "done" /\ calls # <<>> /\ graph' = Head(calls) /\ pc' = "enter"
  BY DEF CallAgain, Ends
<1>2. function = "Treewidth" /\ calls \in Seq(GivenGraphs)
  BY <1>1 DEF InputInv
<1>3. graph' \in GivenGraphs
  BY <1>1, <1>2, HeadTailProperties
<1>4. CASE graph.adj # {}
  <2>1. Ordered = V(graph)
    BY <1>1, <1>2, <1>4 DEF McsInv
  <2>2. Search!Numbered = Ordered
    BY <1>1, <1>2, <1>4 DEF Search!Numbered, Ordered
  <2> QED
    BY <1>1, <1>3, <2>1, <2>2, SearchOperators DEF Search!NextGraph, GivenGraphs
<1>5. CASE graph.adj = {}
  BY <1>1, <1>3, <1>5 DEF Search!NextGraph, GivenGraphs
<1> QED
  BY <1>4, <1>5

\* Every other step does nothing that the abstract search would see.
LEMMA StepSimulates ==
  ASSUME Inv, [Next]_vars
  PROVE  [Search!Next]_<<graph, SearchOrder>>
<1> USE DEF Inv
<1>1. CASE Enter
  <2>1. pc = "enter" /\ UNCHANGED graph /\ function = "Treewidth"
    BY <1>1 DEF Enter, input, InputInv
  <2>2. (graph.adj = {} /\ pc' = "done") \/ (pc' = "mcs" /\ order' = <<>>)
    BY <1>1 DEF Enter
  <2> QED
    BY <2>1, <2>2 DEF SearchOrder
<1>2. CASE LowerMaxLabel \/ SkipRemoved
  BY <1>2 DEF LowerMaxLabel, SkipRemoved, input, SearchOrder
<1>3. CASE Number
  BY <1>3, NumberSimulates, SearchOperators DEF Search!Next
<1>4. CASE MeasureWidth
  <2>1. pc = "mcs" /\ pc' = "done" /\ UNCHANGED <<graph, function, order>>
    BY <1>4 DEF MeasureWidth, input
  <2>2. function = "Treewidth" /\ graph.adj # {}
    BY <2>1 DEF InputInv, McsInv
  <2> QED
    BY <2>1, <2>2 DEF SearchOrder
<1>5. CASE CallAgain
  BY <1>5, CallAgainSimulates DEF Search!Next
<1>6. CASE \/ Select \/ ReachNeighbors \/ NextBucket \/ RaiseNeighbors
           \/ AtomAt \/ EndElimination \/ AtomOfRest \/ ReturnAtoms
  <2>1. UNCHANGED <<graph, function>> /\ pc # "enter" /\ pc # "mcs" /\ pc # "done" /\ pc' # "mcs"
    BY <1>6 DEF Select, ReachNeighbors, NextBucket, RaiseNeighbors, AtomAt, EndElimination, AtomOfRest,
                ReturnAtoms, input
  <2>2. function = "Atoms"
    BY <2>1 DEF InputInv
  <2> QED
    BY <2>1, <2>2 DEF SearchOrder
<1>7. CASE UNCHANGED vars
  BY <1>7 DEF vars, input, SearchOrder
<1> QED
  BY <1>1, <1>2, <1>3, <1>4, <1>5, <1>6, <1>7 DEF Next, Finished

\* For every graph and every sequence of calls: the loop over buckets, with its
\* stale entries and what earlier calls left in them, orders the vertices as a
\* maximum cardinality search may.
THEOREM SearchRefined == Spec => Search!Spec
<1>1. Init => Search!Init
  <2> SUFFICES ASSUME Init PROVE Search!Init
    OBVIOUS
  <2>1. graph \in GivenGraphs
    BY InitInv DEF Inv, InputInv
  <2> QED
    BY <2>1 DEF Init, Search!Init, GivenGraphs
<1>2. Inv /\ [Next]_vars => [Search!Next]_<<graph, SearchOrder>>
  BY StepSimulates
<1> QED
  BY <1>1, <1>2, InvariantHolds, PTL DEF Spec, Search!Spec, SearchOrder

-----------------------------------------------------------------------------
(* What Treewidth returns. *)

\* The vertices that were numbered before the i-th of the order.
Earlier(i) == {order[l] : l \in i + 1 .. Len(order)}

\* When a vertex was numbered, no other had more numbered neighbours.
OrderInv ==
  pc = "mcs" \/ (pc = "done" /\ function = "Treewidth" /\ graph.adj # {}) =>
    \A i \in 1 .. Len(order) :
      /\ order[i] \notin Earlier(i)
      /\ \A u \in V(graph) \ Earlier(i) :
           Cardinality(Neighbors(graph, u) \cap Earlier(i)) <=
             Cardinality(Neighbors(graph, order[i]) \cap Earlier(i))

ResultInv ==
  /\ pc \in {"enter", "mcs"} \/ function = "Atoms" => treewidth = -1
  /\ treewidth # -1 => treewidth = IF IsChordal(graph) THEN WidthOf(graph, {}) ELSE -2

LEMMA EarlierShifted ==
  ASSUME NEW S, order \in Seq(S), NEW y \in S, order' = <<y>> \o order
  PROVE  /\ Earlier(1)' = Ordered
         /\ \A i \in 1 .. Len(order) : Earlier(i + 1)' = Earlier(i)
<1>1. /\ Len(order') = Len(order) + 1 /\ Len(order) \in Nat
      /\ \A i \in 1 .. Len(order) : order'[i + 1] = order[i]
  BY PrependAt
<1>2. ASSUME NEW k \in 0 .. Len(order)
      PROVE  {order'[l] : l \in k + 2 .. Len(order')} = {order[l] : l \in k + 1 .. Len(order)}
  <2>1. ASSUME NEW l \in k + 2 .. Len(order')
        PROVE  l - 1 \in k + 1 .. Len(order) /\ order'[l] = order[l - 1]
    <3>1. l - 1 \in k + 1 .. Len(order) /\ l - 1 \in 1 .. Len(order) /\ l = (l - 1) + 1
      BY <1>1
    <3> QED
      BY <1>1, <3>1
  <2>2. ASSUME NEW l \in k + 1 .. Len(order)
        PROVE  l + 1 \in k + 2 .. Len(order') /\ order'[l + 1] = order[l]
    <3>1. l + 1 \in k + 2 .. Len(order') /\ l \in 1 .. Len(order)
      BY <1>1
    <3> QED
      BY <1>1, <3>1
  <2> QED
    BY <2>1, <2>2
<1>3. Earlier(1)' = Ordered
  <2>1. 0 \in 0 .. Len(order) /\ 0 + 2 = 1 + 1 /\ 0 + 1 = 1
    BY <1>1
  <2>2. {order'[l] : l \in 0 + 2 .. Len(order')} = {order[l] : l \in 0 + 1 .. Len(order)}
    BY <1>2, <2>1
  <2>3. {order'[l] : l \in 1 + 1 .. Len(order')} = {order[l] : l \in 1 .. Len(order)}
    BY <2>1, <2>2
  <2> QED
    BY <2>3 DEF Earlier, Ordered
<1>4. ASSUME NEW i \in 1 .. Len(order) PROVE Earlier(i + 1)' = Earlier(i)
  <2>1. i \in 0 .. Len(order) /\ i + 2 = (i + 1) + 1
    BY <1>1
  <2>2. {order'[l] : l \in i + 2 .. Len(order')} = {order[l] : l \in i + 1 .. Len(order)}
    BY <1>2, <2>1
  <2> QED
    BY <2>1, <2>2 DEF Earlier
<1> QED
  BY <1>3, <1>4

LEMMA NumberKeepsOrder ==
  ASSUME Inv, OrderInv, Number
  PROVE  OrderInv'
<1> USE DEF Inv
<1>1. PICK y \in V(graph) \ Ordered :
        /\ order' = <<y>> \o order
        /\ \A u \in V(graph) \ Ordered :
             Cardinality(Neighbors(graph, u) \cap Ordered) <=
               Cardinality(Neighbors(graph, y) \cap Ordered)
  BY NumberTakesMost
<1>2. pc = "mcs" /\ pc' = "mcs" /\ UNCHANGED graph
  BY DEF Number, input
<1>5. order \in Seq(V(graph))
  BY DEF TypeOK
<1>6. /\ Len(order') = Len(order) + 1 /\ Len(order) \in Nat /\ order'[1] = y
      /\ \A i \in 1 .. Len(order) : order'[i + 1] = order[i]
  BY <1>1, <1>5, PrependAt
<1>7. Earlier(1)' = Ordered /\ \A i \in 1 .. Len(order) : Earlier(i + 1)' = Earlier(i)
  BY <1>1, <1>5, EarlierShifted
<1>8. \A i \in 1 .. Len(order) :
        /\ order[i] \notin Earlier(i)
        /\ \A u \in V(graph) \ Earlier(i) :
             Cardinality(Neighbors(graph, u) \cap Earlier(i)) <=
               Cardinality(Neighbors(graph, order[i]) \cap Earlier(i))
  BY <1>2 DEF OrderInv
<1> DEFINE Most(i) == /\ order[i] \notin Earlier(i)
                      /\ \A u \in V(graph) \ Earlier(i) :
                           Cardinality(Neighbors(graph, u) \cap Earlier(i)) <=
                             Cardinality(Neighbors(graph, order[i]) \cap Earlier(i))
<1>9. Most(1)'
  BY <1>1, <1>2, <1>6, <1>7
<1>10. ASSUME NEW i \in 1 .. Len(order) PROVE Most(i + 1)'
  <2>1. Earlier(i + 1)' = Earlier(i) /\ order'[i + 1] = order[i]
    BY <1>6, <1>7
  <2>2. Most(i)
    BY <1>8
  <2> QED
    BY <1>2, <2>1, <2>2
<1>11. ASSUME NEW i \in 1 .. Len(order') PROVE Most(i)'
  <2>1. i = 1 \/ (i - 1 \in 1 .. Len(order) /\ (i - 1) + 1 = i)
    BY <1>6
  <2>2. CASE i = 1
    BY <1>9, <2>2
  <2>3. CASE i - 1 \in 1 .. Len(order) /\ (i - 1) + 1 = i
    <3>1. Most((i - 1) + 1)'
      BY <1>10, <2>3
    <3> QED
      BY <2>3, <3>1
  <2> QED
    BY <2>1, <2>2, <2>3
<1> QED
  BY <1>11 DEF OrderInv

LEMMA OrderInvariant == Spec => []OrderInv
<1>1. Init => OrderInv
  BY DEF Init, OrderInv
<1>2. Inv /\ OrderInv /\ [Next]_vars => OrderInv'
  <2> SUFFICES ASSUME Inv, OrderInv, [Next]_vars PROVE OrderInv'
    OBVIOUS
  <2> USE DEF Inv
  <2>1. CASE Number
    BY <2>1, NumberKeepsOrder
  <2>2. CASE Enter
    <3>1. CASE graph.adj # {}
      <4>1. order' = <<>> /\ Len(<<>>) = 0
        BY <2>2, <3>1 DEF Enter
      <4>2. 1 .. Len(order') = {}
        BY <4>1
      <4> QED
        BY <4>2 DEF OrderInv
    <3>2. CASE graph.adj = {}
      <4>1. pc' = "done" /\ UNCHANGED graph
        BY <2>2, <3>2 DEF Enter, input
      <4> QED
        BY <3>2, <4>1 DEF OrderInv
    <3> QED
      BY <3>1, <3>2
  <2>3. CASE LowerMaxLabel \/ SkipRemoved \/ MeasureWidth \/ UNCHANGED vars
    <3>1. UNCHANGED <<graph, order, function>> /\ (pc = "mcs" \/ UNCHANGED pc)
      BY <2>3 DEF LowerMaxLabel, SkipRemoved, MeasureWidth, vars, input
    <3>2. \A i : Earlier(i)' = Earlier(i)
      BY <3>1 DEF Earlier
    <3>3. (pc = "mcs" \/ (pc = "done" /\ function = "Treewidth" /\ graph.adj # {}))'
          => pc = "mcs" \/ (pc = "done" /\ function = "Treewidth" /\ graph.adj # {})
      BY <3>1
    <3> QED
      BY <3>1, <3>2, <3>3 DEF OrderInv
  <2>4. CASE CallAgain
    BY <2>4 DEF CallAgain, OrderInv
  <2>5. CASE \/ Select \/ ReachNeighbors \/ NextBucket \/ RaiseNeighbors
             \/ AtomAt \/ EndElimination \/ AtomOfRest \/ ReturnAtoms
    <3>1. UNCHANGED function /\ pc # "enter" /\ pc # "mcs" /\ pc # "done" /\ pc' # "mcs"
      BY <2>5 DEF Select, ReachNeighbors, NextBucket, RaiseNeighbors, AtomAt, EndElimination,
                  AtomOfRest, ReturnAtoms, input
    <3>2. function = "Atoms"
      BY <3>1 DEF InputInv
    <3> QED
      BY <3>1, <3>2 DEF OrderInv
  <2> QED
    BY <2>1, <2>2, <2>3, <2>4, <2>5 DEF Next, Finished
<1> QED
  BY <1>1, <1>2, InvariantHolds, PTL DEF Spec

\* When all vertices are numbered, the order is that of a maximum cardinality
\* search of all of the graph.
LEMMA OrderComplete ==
  ASSUME Inv, OrderInv, MeasureWidth
  PROVE  /\ Len(order) = graph.n /\ Numbering(graph, order) /\ HasMostAfter(graph, order)
         /\ \A i \in 1 .. graph.n : Later(i) = AfterIn(graph, order, i, i)
<1> USE DEF Inv
<1>1. pc = "mcs" /\ it = -1
  BY DEF MeasureWidth
<1>2. /\ graph.n \in Nat /\ \A S \in SUBSET V(graph) : Cardinality(S) = graph.n => S = V(graph)
  BY GraphFacts
<1>3. Len(order) = graph.n /\ Ordered = V(graph)
  <2>1. rm = Ordered /\ Len(order) = graph.n - 1 - (-1) /\ Cardinality(rm) = Len(order)
    BY <1>1 DEF McsInv
  <2>2. Len(order) = graph.n
    BY <1>2, <2>1
  <2> QED
    BY <1>2, <2>1, <2>2 DEF TypeOK
<1>4. \A i \in 1 .. graph.n :
        /\ order[i] \notin Earlier(i)
        /\ \A u \in V(graph) \ Earlier(i) :
             Cardinality(Neighbors(graph, u) \cap Earlier(i)) <=
               Cardinality(Neighbors(graph, order[i]) \cap Earlier(i))
  BY <1>1, <1>3 DEF OrderInv
<1>5. ASSUME NEW i \in 1 .. graph.n, NEW j \in 1 .. graph.n, i < j
      PROVE  order[i] # order[j]
  <2>1. j \in i + 1 .. Len(order)
    BY <1>2, <1>3, <1>5
  <2>2. order[j] \in Earlier(i)
    BY <2>1 DEF Earlier
  <2> QED
    BY <1>4, <2>2
<1>6. ASSUME NEW i \in 1 .. graph.n, NEW j \in 1 .. graph.n, order[i] = order[j]
      PROVE  i = j
  <2>1. i < j \/ j < i \/ i = j
    BY <1>2
  <2> QED
    BY <1>5, <1>6, <2>1
<1>7. \A i \in 1 .. graph.n : order[i] \in V(graph)
  BY <1>3 DEF Ordered
<1>8. Numbering(graph, order)
  BY <1>3, <1>6, <1>7 DEF Numbering, Ordered
<1>9. \A i, j : AfterIn(graph, order, j, i) = Neighbors(graph, order[j]) \cap Earlier(i)
  BY <1>3 DEF AfterIn, Earlier
<1>10. ASSUME NEW i \in 1 .. graph.n, NEW j \in 1 .. i
       PROVE  Cardinality(AfterIn(graph, order, j, i)) <= Cardinality(AfterIn(graph, order, i, i))
  <2>1. j \in 1 .. graph.n /\ \A l \in i + 1 .. Len(order) : l \in 1 .. graph.n /\ j # l
    BY <1>2, <1>3
  <2>2. order[j] \notin Earlier(i)
    BY <1>6, <2>1 DEF Earlier
  <2> QED
    BY <1>4, <1>7, <1>9, <2>1, <2>2
<1>11. HasMostAfter(graph, order)
  BY <1>10 DEF HasMostAfter
<1>12. \A i \in 1 .. graph.n : Later(i) = AfterIn(graph, order, i, i)
  BY DEF Later, AfterIn
<1> QED
  BY <1>3, <1>8, <1>11, <1>12

LEMMA MeasureExact ==
  ASSUME Inv, OrderInv, MeasureWidth
  PROVE  treewidth' = IF IsChordal(graph) THEN WidthOf(graph, {}) ELSE -2
<1>1. /\ Numbering(graph, order) /\ HasMostAfter(graph, order)
      /\ \A i \in 1 .. graph.n : Later(i) = AfterIn(graph, order, i, i)
  BY OrderComplete
<1>2. IsGraph(graph) /\ graph.n \in Nat /\ graph.n >= 1
  BY GraphFacts
<1>3. (\A i \in 1 .. graph.n : IsClique(graph, Later(i))) <=> IsPerfect(graph, order)
  BY <1>1 DEF IsPerfect
<1>4. treewidth' = IF IsPerfect(graph, order) THEN WidthAlong ELSE -2
  BY <1>3 DEF MeasureWidth
<1>5. IsPerfect(graph, order) <=> IsChordal(graph)
  BY <1>1, <1>2, SearchIsPerfect, PerfectWidth
<1>6. ASSUME IsPerfect(graph, order) PROVE WidthAlong = WidthOf(graph, {})
  <2> DEFINE S == {0} \cup {Cardinality(Later(i)) : i \in 1 .. graph.n}
  <2>1. \A i \in 1 .. graph.n : Cardinality(Later(i)) \in 0 .. graph.n
    <3>1. \A i \in 1 .. graph.n : Later(i) \in SUBSET V(graph)
      BY DEF Later, Neighbors
    <3> QED
      BY <1>2, <3>1, VerticesFinite
  <2>2. S \in SUBSET (0 .. graph.n) /\ S # {}
    BY <1>2, <2>1
  <2>3. \A i \in 1 .. graph.n : Cardinality(Later(i)) \in S
    OBVIOUS
  <2>4. Cardinality(Later(graph.n)) = 0 /\ graph.n \in 1 .. graph.n
    <3>1. graph.n + 1 .. graph.n = {}
      BY <1>2
    <3>2. Later(graph.n) = {}
      BY <3>1 DEF Later
    <3> QED
      BY <1>2, <3>2, FS_EmptySet
  <2>5. \A s \in S : \E i \in 1 .. graph.n : Cardinality(Later(i)) = s
    BY <2>4
  <2>6. WidthAlong = MaxOf(S)
    BY DEF WidthAlong
  <2> HIDE DEF S
  <2> DEFINE w == MaxOf(S)
  <2>7. w \in S /\ \A l \in S : l <= w
    BY <1>2, <2>2, LargestIs
  <2> HIDE DEF w
  <2>8. /\ w \in Nat
        /\ \E i \in 1 .. graph.n : Cardinality(AfterIn(graph, order, i, i)) = w
        /\ \A i \in 1 .. graph.n : Cardinality(AfterIn(graph, order, i, i)) <= w
    <3>1. w \in Nat
      BY <1>2, <2>2, <2>7
    <3>2. PICK i \in 1 .. graph.n : Cardinality(Later(i)) = w
      BY <2>5, <2>7
    <3>3. Cardinality(AfterIn(graph, order, i, i)) = w
      BY <1>1, <3>2
    <3>4. ASSUME NEW j \in 1 .. graph.n
          PROVE  Cardinality(AfterIn(graph, order, j, j)) <= w
      <4>1. Cardinality(Later(j)) <= w
        BY <2>3, <2>7
      <4> QED
        BY <1>1, <4>1
    <3> QED
      BY <3>1, <3>3, <3>4
  <2>9. WidthOf(graph, {}) = w
    BY <1>1, <1>2, <1>6, <2>8, PerfectWidth
  <2> QED
    BY <2>6, <2>9 DEF w
<1> QED
  BY <1>4, <1>5, <1>6

\* A graph without an edge has the width that Treewidth returns for it.
LEMMA NoEdges ==
  ASSUME NEW g, IsGraph(g), g.n >= 1, g.adj = {}
  PROVE  IsChordal(g) /\ WidthOf(g, {}) = 0
<1>1. \A u, w : ~HasEdge(g, u, w)
  BY DEF HasEdge
<1>2. IsChordal(g)
  <2>1. \A T, v : IsClique(g, Neighbors(g, v) \cap T)
    BY <1>1, CliquePairs DEF Neighbors
  <2> QED
    BY <2>1 DEF IsChordal
<1>3. \E K \in SUBSET V(g) : IsClique(g, K) /\ Cardinality(K) = 0 + 1
  <2>1. {0} \in SUBSET V(g)
    BY DEF V, IsGraph
  <2>2. IsClique(g, {0})
    BY CliquePairs
  <2> QED
    BY <2>1, <2>2, FS_Singleton
<1>4. ASSUME NEW K \in SUBSET V(g), IsClique(g, K) PROVE Cardinality(K) <= 0 + 1
  <2>1. \A u, w \in K : u = w
    BY <1>1, <1>4, CliquePairs
  <2>2. CASE K = {}
    BY <2>2, FS_EmptySet
  <2>3. CASE K # {}
    <3>1. PICK u \in K : K = {u}
      BY <2>1, <2>3
    <3>2. Cardinality({u}) = 1
      BY FS_Singleton
    <3>3. 1 <= 0 + 1
      OBVIOUS
    <3> QED
      BY <3>1, <3>2, <3>3
  <2> QED
    BY <2>2, <2>3
<1> QED
  BY <1>2, <1>3, <1>4, WidthIs

LEMMA ResultInvariant == Spec => []ResultInv
<1>1. Init => ResultInv
  BY DEF Init, ResultInv
<1>2. Inv /\ OrderInv /\ ResultInv /\ [Next]_vars => ResultInv'
  <2> SUFFICES ASSUME Inv, OrderInv, ResultInv, [Next]_vars PROVE ResultInv'
    OBVIOUS
  <2> USE DEF Inv
  <2>1. CASE Enter
    <3>1. function = "Treewidth" /\ pc = "enter" /\ treewidth = -1 /\ UNCHANGED <<graph, function>>
      BY <2>1 DEF Enter, input, InputInv, ResultInv
    <3>2. CASE graph.adj = {}
      <4>1. treewidth' = 0 /\ pc' = "done"
        BY <2>1, <3>2 DEF Enter
      <4>2. IsChordal(graph) /\ WidthOf(graph, {}) = 0
        BY <3>2, GraphFacts, NoEdges
      <4> QED
        BY <3>1, <4>1, <4>2 DEF ResultInv
    <3>3. CASE graph.adj # {}
      <4>1. treewidth' = -1
        BY <2>1, <3>1, <3>3 DEF Enter
      <4> QED
        BY <3>1, <4>1 DEF ResultInv
    <3> QED
      BY <3>2, <3>3
  <2>2. CASE MeasureWidth
    <3>1. function = "Treewidth" /\ pc' = "done" /\ UNCHANGED <<graph, function>>
      BY <2>2 DEF MeasureWidth, input, InputInv
    <3>2. treewidth' = IF IsChordal(graph) THEN WidthOf(graph, {}) ELSE -2
      BY <2>2, MeasureExact
    <3> QED
      BY <3>1, <3>2 DEF ResultInv
  <2>3. CASE CallAgain
    <3>1. treewidth' = -1
      BY <2>3 DEF CallAgain
    <3> QED
      BY <3>1 DEF ResultInv
  <2>4. CASE LowerMaxLabel \/ SkipRemoved \/ Number \/ UNCHANGED vars
    <3>1. UNCHANGED <<graph, function, pc, treewidth>>
      BY <2>4 DEF LowerMaxLabel, SkipRemoved, Number, vars, input, mcsVars
    <3> QED
      BY <3>1 DEF ResultInv
  <2>5. CASE \/ Select \/ ReachNeighbors \/ NextBucket \/ RaiseNeighbors
             \/ AtomAt \/ EndElimination \/ AtomOfRest \/ ReturnAtoms
    <3>1. UNCHANGED treewidth /\ pc # "enter" /\ pc # "mcs" /\ pc # "done"
      BY <2>5 DEF Select, ReachNeighbors, NextBucket, RaiseNeighbors, AtomAt, EndElimination,
                  AtomOfRest, ReturnAtoms, mcsVars
    <3>2. function = "Atoms"
      BY <3>1 DEF InputInv
    <3>3. treewidth' = -1
      BY <3>1, <3>2 DEF ResultInv
    <3> QED
      BY <3>3 DEF ResultInv
  <2> QED
    BY <2>1, <2>2, <2>3, <2>4, <2>5 DEF Next, Finished
<1> QED
  BY <1>1, <1>2, InvariantHolds, OrderInvariant, PTL DEF Spec

\* Treewidth returns the width of every chordal graph and aborts on the others
\* only, and so does the elimination of simplicial vertices, for every sequence
\* of calls on graphs of every size.
THEOREM WidthReturned == Spec => []TreewidthExact
<1>1. Inv /\ ResultInv => TreewidthExact
  <2> SUFFICES ASSUME Inv, ResultInv, treewidth # -1 PROVE TreewidthExact
    BY DEF TreewidthExact
  <2>1. IsGraph(graph) /\ graph.n >= 1
    BY GraphFacts DEF Inv
  <2>2. treewidth = IF IsChordal(graph) THEN WidthOf(graph, {}) ELSE -2
    BY DEF ResultInv
  <2>3. /\ HasPerfectElimination(graph) <=> IsChordal(graph)
        /\ IsChordal(graph) => /\ ChordalWidth(graph) = WidthOf(graph, {})
                               /\ ChordalWidth(graph) \in Nat
    BY <2>1, EliminationExact
  <2>4. IsChordal(graph) => treewidth = ChordalWidth(graph) /\ treewidth # -2
    BY <2>2, <2>3
  <2>5. ~IsChordal(graph) => treewidth = -2
    BY <2>2
  <2> QED
    BY <2>2, <2>3, <2>4, <2>5 DEF TreewidthExact
<1> QED
  BY <1>1, InvariantHolds, ResultInvariant, PTL
-----------------------------------------------------------------------------
(* The invariant of McsM. *)

\* A search numbers x when it ends: until then its fill and what it has raised do
\* not count.
OldRm == IF pc = "reach" THEN rm \ {x} ELSE rm
OldFill == fill \ FillOfSearch
Weight == [v \in V(graph) |-> IF {x, v} \in FillOfSearch THEN label[v] - 1 ELSE label[v]]
EndsOfFill == {z \in V(graph) \ rm : {x, z} \in fill}

OrderPart ==
  /\ IsDistinct(order) /\ EliminatesFrom(graph, fill, order)
  /\ pc \in {"select", "reach"} => rm = Ordered

SearchPart ==
  /\ pc \in {"select", "reach"} =>
       Searching(graph, OldRm, OldFill, Weight) /\ LeastFill(graph, OldRm, OldFill)
  /\ pc \in {"atoms", "rest", "done"} =>
       Len(order) = graph.n /\ Ordered = V(graph) /\ LeastFill(graph, V(graph), fill)

BucketPart ==
  pc = "reach" =>
    /\ x \in rm /\ \A u \in V(graph) \ OldRm : Weight[u] <= Weight[x]
    /\ Len(order) >= 1 /\ order[1] = x
    /\ BucketSearch(graph, V(graph) \ rm, Weight, x, bucket, rc, reach, EndsOfFill)

PathInv == function = "Atoms" => OrderPart /\ SearchPart /\ BucketPart

-----------------------------------------------------------------------------
(* The steps of McsM. *)

LEMMA PartsMeet ==
  ASSUME Inv, pc = "reach", x \in rm, NEW v \in V(graph)
  PROVE  {x, v} \in FillOfSearch <=> v \in EndsOfFill
<1>1. {x, v} \ rm # {} <=> v \notin rm
  OBVIOUS
<1> QED
  BY <1>1 DEF FillOfSearch, EndsOfFill

\* The fill of the search that is under way.
LEMMA FillParts ==
  ASSUME Inv, pc = "reach", x \in rm
  PROVE  /\ FillOfSearch = {{x, z} : z \in EndsOfFill}
         /\ \A v \in V(graph) :
              Weight[v] = IF v \in EndsOfFill THEN label[v] - 1 ELSE label[v]
<1>1. \A v \in V(graph) : {x, v} \in FillOfSearch <=> v \in EndsOfFill
  BY PartsMeet
<1>2. ASSUME NEW e \in FillOfSearch
      PROVE  \E z \in EndsOfFill : e = {x, z}
  <2>1. e \in fill /\ e \in Pairs(V(graph)) /\ x \in e /\ e \ rm # {}
    BY <1>2 DEF FillOfSearch, Inv, TypeOK, NonEdges
  <2>2. PICK a \in V(graph), b \in V(graph) : a # b /\ e = {a, b}
    BY <2>1, PairsMember
  <2>3. PICK z \in V(graph) : e = {x, z}
    BY <2>1, <2>2
  <2> QED
    BY <1>1, <1>2, <2>3
<1>3. \A z \in EndsOfFill : z \in V(graph)
  BY DEF EndsOfFill
<1>4. \A e : e \in FillOfSearch <=> \E z \in EndsOfFill : e = {x, z}
  BY <1>1, <1>2, <1>3
<1>5. \A v \in V(graph) : Weight[v] = IF v \in EndsOfFill THEN label[v] - 1 ELSE label[v]
  BY <1>1 DEF Weight
<1>6. FillOfSearch = {{x, z} : z \in EndsOfFill}
  BY <1>4
<1> QED
  BY <1>5, <1>6

\* When no search is under way, all fill counts.
LEMMA NoSearch ==
  ASSUME pc # "reach", label \in [V(graph) -> Nat]
  PROVE  OldRm = rm /\ OldFill = fill /\ Weight = label
<1>1. FillOfSearch = {}
  BY DEF FillOfSearch
<1>2. Weight = [v \in V(graph) |-> label[v]]
  BY <1>1 DEF Weight
<1> QED
  BY <1>1, <1>2 DEF OldRm, OldFill

LEMMA LabelsAreNumbers ==
  ASSUME Inv
  PROVE  label \in [V(graph) -> Nat] /\ V(graph) \subseteq Nat
<1>1. V(graph) \subseteq Nat
  BY DEF V
<1> QED
  BY <1>1 DEF Inv, TypeOK

\* The start.
LEMMA InitPath == Init => PathInv
<1> SUFFICES ASSUME Init, function = "Atoms" PROVE OrderPart /\ SearchPart /\ BucketPart
  BY DEF PathInv
<1> USE DEF Init
<1>1. Inv /\ pc = "select"
  BY InitInv
<1>2. IsGraph(graph)
  BY <1>1, GraphFacts
<1>3. OldRm = rm /\ OldFill = fill /\ Weight = label
  BY <1>1, NoSearch, LabelsAreNumbers
<1>4. 1 .. Len(order) = {} /\ Ordered = {}
  BY DEF Ordered
<1>5. OrderPart
  BY <1>4 DEF OrderPart, IsDistinct, EliminatesFrom
<1>6. Searching(graph, {}, {}, [v \in V(graph) |-> 0]) /\ LeastFill(graph, {}, {})
  BY <1>2, SearchStarts, LeastStarts
<1>7. SearchPart
  BY <1>1, <1>3, <1>6 DEF SearchPart
<1> QED
  BY <1>1, <1>5, <1>7 DEF BucketPart

\* A step that leaves order and fill alone.
LEMMA OrderStays ==
  ASSUME OrderPart, UNCHANGED <<graph, order, fill>>,
         pc' \in {"select", "reach"} => pc \in {"select", "reach"} /\ UNCHANGED rm
  PROVE  OrderPart'
<1>1. Ordered' = Ordered
  BY DEF Ordered
<1> QED
  BY <1>1 DEF OrderPart

LEMMA NextBucketPath ==
  ASSUME Inv, PathInv, NextBucket
  PROVE  PathInv'
<1> SUFFICES ASSUME function' = "Atoms" PROVE OrderPart' /\ SearchPart' /\ BucketPart'
  BY DEF PathInv
<1>1. /\ pc = "reach" /\ bucket < graph.n /\ reach[bucket] = {} /\ bucket' = bucket + 1
      /\ UNCHANGED <<function, graph, pc, label, rm, rc, reach, x, fill, order>>
  BY DEF NextBucket, input
<1>2. OrderPart /\ SearchPart /\ BucketPart
  BY <1>1 DEF PathInv
<1>3. UNCHANGED <<OldRm, OldFill, Weight, EndsOfFill>>
  BY <1>1 DEF OldRm, OldFill, Weight, EndsOfFill, FillOfSearch
<1>4. IsGraph(graph) /\ bucket \in V(graph) /\ x \in rm /\ rm \in SUBSET V(graph)
  <2>1. IsGraph(graph) /\ x \in rm
    BY <1>1, <1>2, GraphFacts DEF BucketPart
  <2>2. TypeOK
    BY DEF Inv
  <2>3. bucket \in Nat /\ rm \in SUBSET V(graph) /\ graph.n \in Nat
    BY <2>1, <2>2 DEF TypeOK, IsGraph
  <2> QED
    BY <1>1, <2>1, <2>3 DEF V
<1>5. Weight \in [V(graph) -> Nat]
  BY <1>1, <1>2 DEF SearchPart, Searching, SearchTyped
<1>6. BucketSearch(graph, V(graph) \ rm, Weight, x, bucket, rc, reach, EndsOfFill)
  BY <1>1, <1>2 DEF BucketPart
<1>7. BucketSearch(graph, V(graph) \ rm, Weight, x, bucket + 1, rc, reach, EndsOfFill)
  <2> DEFINE S == V(graph) \ rm
  <2>1. S \in SUBSET V(graph) /\ x \in V(graph) \ S
    BY <1>4
  <2>2. BucketSearch(graph, S, Weight, x, bucket, rc, reach, EndsOfFill)
    BY <1>6
  <2> HIDE DEF S
  <2>3. BucketSearch(graph, S, Weight, x, bucket + 1, rc, reach, EndsOfFill)
    BY <1>1, <1>4, <1>5, <2>1, <2>2, BucketsNext
  <2> QED
    BY <2>3 DEF S
<1>8. OrderPart'
  BY <1>1, <1>2, OrderStays
<1>9. SearchPart'
  BY <1>1, <1>2, <1>3 DEF SearchPart
<1>10. BucketPart'
  BY <1>1, <1>2, <1>3, <1>7 DEF BucketPart
<1> QED
  BY <1>8, <1>9, <1>10

\* The vertex y is done: New are those that it reaches, Heavy those it fills.
Reaches(y, New, Heavy) ==
  /\ Passes(graph, V(graph) \ rm, Weight, bucket, rc, reach, y, New, Heavy, reach')
  /\ rc' = rc \cup New /\ EndsOfFill' = EndsOfFill \cup Heavy
  /\ fill' = fill \cup {{x, z} : z \in Heavy}

\* What one vertex of the bucket adds: fill edges that the search did not have, and
\* as much to the labels, so that what it searches stays as it is.
LEMMA ReachFacts ==
  ASSUME Inv, PathInv, ReachNeighbors
  PROVE  /\ UNCHANGED <<OldRm, OldFill, Weight>>
         /\ \E y, New, Heavy : Reaches(y, New, Heavy)
<1>1. /\ pc = "reach" /\ bucket < graph.n /\ function = "Atoms"
      /\ UNCHANGED <<function, graph, pc, rm, bucket, x, order>>
  BY DEF ReachNeighbors, Inv, InputInv, input
<1>2. PICK y \in reach[bucket] :
        LET New == (Neighbors(graph, y) \ rm) \ rc
            Ends2 == {z \in New : Higher(z)}
        IN  /\ rc' = rc \cup New
            /\ reach' = [i \in V(graph) |->
                  (IF i = bucket THEN (reach[i] \ {y}) \cup (New \ Ends2) ELSE reach[i])
                    \cup {z \in Ends2 : label[z] = i}]
            /\ label' = [v \in V(graph) |-> IF v \in Ends2 THEN label[v] + 1 ELSE label[v]]
            /\ fill' = fill \cup {{x, z} : z \in Ends2}
  BY DEF ReachNeighbors
<1> DEFINE New == (Neighbors(graph, y) \ rm) \ rc
           Heavy == {z \in New : Higher(z)}
<1>3. x \in rm /\ rm \in SUBSET V(graph) /\ \A v \in V(graph) : label[v] \in Nat
  BY <1>1, LabelsAreNumbers DEF PathInv, BucketPart, Inv, TypeOK
<1>4. EndsOfFill \subseteq rc
  BY <1>1 DEF PathInv, BucketPart, BucketSearch, FillInv
<1>5. /\ \A v \in V(graph) : {x, v} \in FillOfSearch <=> v \in EndsOfFill
      /\ \A v \in V(graph) : Weight[v] = IF v \in EndsOfFill THEN label[v] - 1 ELSE label[v]
  BY <1>1, <1>3, PartsMeet, FillParts
<1>6. New = (Neighbors(graph, y) \cap (V(graph) \ rm)) \ rc /\ New \subseteq V(graph) \ rm
  BY DEF Neighbors
<1>7. \A z \in New : z \notin EndsOfFill /\ Weight[z] = label[z]
  BY <1>4, <1>5, <1>6
<1>8. Heavy = {z \in New : Weight[z] > bucket}
  BY <1>7 DEF Higher
<1>9. /\ rc' = rc \cup New /\ fill' = fill \cup {{x, z} : z \in Heavy}
      /\ reach' = [i \in V(graph) |->
            (IF i = bucket THEN (reach[i] \ {y}) \cup (New \ Heavy) ELSE reach[i])
              \cup {z \in Heavy : label[z] = i}]
      /\ label' = [v \in V(graph) |-> IF v \in Heavy THEN label[v] + 1 ELSE label[v]]
  BY <1>2
<1>10. Heavy \subseteq New
  OBVIOUS
<1> HIDE DEF New, Heavy
<1>11. \A i \in V(graph) : \A z : z \in reach'[i] <=>
         \/ i = bucket /\ (z \in reach[bucket] \ {y} \/ z \in New \ Heavy)
         \/ i # bucket /\ z \in reach[i]
         \/ z \in Heavy /\ Weight[z] = i
  <2> SUFFICES ASSUME NEW i \in V(graph), NEW z
               PROVE  z \in reach'[i] <=>
                        \/ i = bucket /\ (z \in reach[bucket] \ {y} \/ z \in New \ Heavy)
                        \/ i # bucket /\ z \in reach[i]
                        \/ z \in Heavy /\ Weight[z] = i
    OBVIOUS
  <2>1. z \in Heavy => Weight[z] = label[z]
    BY <1>7, <1>10
  <2>2. reach'[i] = (IF i = bucket THEN (reach[i] \ {y}) \cup (New \ Heavy) ELSE reach[i])
                      \cup {u \in Heavy : label[u] = i}
    BY <1>9
  <2> QED
    BY <2>1, <2>2
<1>12. \A a, b : {x, a} = {x, b} => a = b
  OBVIOUS
<1>13. EndsOfFill' = EndsOfFill \cup Heavy
  <2>1. \A z \in V(graph) \ rm : {x, z} \in fill' <=> {x, z} \in fill \/ z \in Heavy
    BY <1>9, <1>12
  <2> QED
    BY <1>1, <1>6, <1>10, <2>1 DEF EndsOfFill
<1>14. \A z \in Heavy : {x, z} \ rm # {} /\ x \in {x, z}
  BY <1>6, <1>10
<1>15. OldFill' = OldFill
  <2>1. \A e : e \in FillOfSearch' <=> e \in fill' /\ e \ rm # {} /\ x \in e
    BY <1>1 DEF FillOfSearch
  <2>2. \A e : e \in FillOfSearch <=> e \in fill /\ e \ rm # {} /\ x \in e
    BY <1>1 DEF FillOfSearch
  <2>3. \A e : e \in fill' <=> e \in fill \/ \E z \in Heavy : e = {x, z}
    BY <1>9
  <2>4. \A e : e \in OldFill' <=> e \in OldFill
    BY <1>14, <2>1, <2>2, <2>3 DEF OldFill
  <2> QED
    BY <2>4
<1>16. Weight' = Weight
  <2>1. \A v \in V(graph) : {x, v} \in FillOfSearch' <=> v \in EndsOfFill \/ v \in Heavy
    <3> SUFFICES ASSUME NEW v \in V(graph)
                 PROVE  {x, v} \in FillOfSearch' <=> v \in EndsOfFill \/ v \in Heavy
      OBVIOUS
    <3>1. {x, v} \in FillOfSearch' <=> {x, v} \in fill' /\ {x, v} \ rm # {}
      BY <1>1 DEF FillOfSearch
    <3>2. {x, v} \ rm # {} <=> v \notin rm
      BY <1>3
    <3>3. v \notin rm => ({x, v} \in fill' <=> v \in EndsOfFill \cup Heavy)
      BY <1>1, <1>13 DEF EndsOfFill
    <3>4. v \in EndsOfFill \cup Heavy => v \notin rm
      BY <1>6, <1>10 DEF EndsOfFill
    <3> QED
      BY <3>1, <3>2, <3>3, <3>4
  <2>2. ASSUME NEW v \in V(graph)
        PROVE  (IF {x, v} \in FillOfSearch' THEN label'[v] - 1 ELSE label'[v]) = Weight[v]
    <3>1. label[v] \in Nat /\ label'[v] = IF v \in Heavy THEN label[v] + 1 ELSE label[v]
      BY <1>3, <1>9
    <3>2. v \in Heavy => v \notin EndsOfFill
      BY <1>7, <1>10
    <3> QED
      BY <1>5, <2>1, <2>2, <3>1, <3>2
  <2> DEFINE f == [v \in V(graph) |-> IF {x, v} \in FillOfSearch' THEN label'[v] - 1 ELSE label'[v]]
             e == [v \in V(graph) |-> IF {x, v} \in FillOfSearch THEN label[v] - 1 ELSE label[v]]
  <2>3. Weight' = f /\ Weight = e
    BY <1>1 DEF Weight
  <2>4. \A v \in V(graph) : f[v] = e[v]
    BY <2>2, <2>3
  <2>5. f = e
    BY <2>4
  <2> QED
    BY <2>3, <2>5
<1>17. OldRm' = OldRm
  BY <1>1 DEF OldRm
<1>18. Reaches(y, New, Heavy)
  <2>1. New = (Neighbors(graph, y) \cap (V(graph) \ rm)) \ rc
    BY <1>6
  <2> QED
    BY <1>2, <1>8, <1>9, <1>11, <1>13, <2>1 DEF Reaches, Passes
<1> QED
  BY <1>15, <1>16, <1>17, <1>18

LEMMA ReachPath ==
  ASSUME Inv, PathInv, ReachNeighbors
  PROVE  PathInv'
<1> SUFFICES ASSUME function' = "Atoms" PROVE OrderPart' /\ SearchPart' /\ BucketPart'
  BY DEF PathInv
<1>1. /\ pc = "reach" /\ bucket < graph.n
      /\ UNCHANGED <<function, graph, pc, rm, bucket, x, order>>
  BY DEF ReachNeighbors, input
<1>2. OrderPart /\ SearchPart /\ BucketPart
  BY <1>1 DEF PathInv
<1> DEFINE S == V(graph) \ rm
<1>3. UNCHANGED <<OldRm, OldFill, Weight>>
  BY ReachFacts
<1>5. PICK y, New, Heavy : Reaches(y, New, Heavy)
  BY ReachFacts
<1>6. IsGraph(graph) /\ bucket \in V(graph) /\ x \in rm /\ rm \in SUBSET V(graph)
  <2>1. bucket \in 0 .. graph.n /\ rm \in SUBSET V(graph)
    BY DEF Inv, TypeOK
  <2>2. x \in rm
    BY <1>1, <1>2 DEF BucketPart
  <2> QED
    BY <1>1, <2>1, <2>2, GraphFacts
<1>7. Weight \in [V(graph) -> Nat]
  BY <1>1, <1>2 DEF SearchPart, Searching, SearchTyped
<1>8. \A u \in S : Weight[u] \in V(graph)
  <2> SUFFICES ASSUME NEW u \in S PROVE Weight[u] \in V(graph)
    OBVIOUS
  <2>1. label[u] \in V(graph) /\ Weight[u] \in Nat
    BY <1>7 DEF Inv, TypeOK
  <2>2. Weight[u] = label[u] \/ Weight[u] = label[u] - 1
    BY DEF Weight
  <2> QED
    BY <2>1, <2>2, GraphFacts
<1>9. S \in SUBSET V(graph) /\ x \in V(graph) \ S
  BY <1>6
<1>10. BucketSearch(graph, S, Weight, x, bucket, rc, reach, EndsOfFill)
  BY <1>1, <1>2 DEF BucketPart
<1>11. BucketSearch(graph, S, Weight, x, bucket, rc', reach', EndsOfFill')
  <2> DEFINE after == reach'
  <2>1. Passes(graph, S, Weight, bucket, rc, reach, y, New, Heavy, after)
    BY <1>5 DEF Reaches
  <2>4. rc' = rc \cup New /\ EndsOfFill' = EndsOfFill \cup Heavy
    BY <1>5 DEF Reaches
  <2> HIDE DEF S, after
  <2>5. BucketSearch(graph, S, Weight, x, bucket, rc \cup New, after, EndsOfFill \cup Heavy)
    BY <1>6, <1>7, <1>8, <1>9, <1>10, <2>1, BucketsOn
  <2> QED
    BY <2>4, <2>5 DEF after
<1>12. BucketPart'
  BY <1>1, <1>2, <1>3, <1>11 DEF BucketPart
<1>13. SearchPart'
  BY <1>1, <1>2, <1>3 DEF SearchPart
<1>14. OrderPart'
  <2>1. Ordered' = Ordered /\ rm = Ordered
    BY <1>1, <1>2 DEF Ordered, OrderPart
  <2>2. Heavy \cap rm = {} /\ fill' = fill \cup {{x, z} : z \in Heavy}
    BY <1>5 DEF Reaches, Passes
  <2>3. \A a \in rm, b \in rm : IsJoined(graph, fill', a, b) <=> IsJoined(graph, fill, a, b)
    <3> SUFFICES ASSUME NEW a \in rm, NEW b \in rm, NEW z \in Heavy PROVE {a, b} # {x, z}
      BY <2>2 DEF IsJoined
    <3> QED
      BY <2>2
  <2>4. \A i \in 1 .. Len(order) : order[i] \in rm
    BY <2>1 DEF Ordered
  <2>5. EliminatesFrom(graph, fill', order)
    <3> SUFFICES ASSUME NEW i \in 1 .. Len(order),
                        NEW j \in i + 1 .. Len(order), NEW k \in i + 1 .. Len(order), j # k,
                        IsJoined(graph, fill', order[i], order[j]),
                        IsJoined(graph, fill', order[i], order[k])
                 PROVE  IsJoined(graph, fill', order[j], order[k])
      BY DEF EliminatesFrom
    <3>1. j \in 1 .. Len(order) /\ k \in 1 .. Len(order)
      <4>1. order \in Seq(V(graph))
        BY DEF Inv, TypeOK
      <4>2. Len(order) \in Nat
        BY <4>1, LenProperties
      <4> QED
        BY <4>2
    <3>2. order[i] \in rm /\ order[j] \in rm /\ order[k] \in rm
      BY <2>4, <3>1
    <3>3. IsJoined(graph, fill, order[i], order[j]) /\ IsJoined(graph, fill, order[i], order[k])
      BY <2>3, <3>2
    <3>4. IsJoined(graph, fill, order[j], order[k])
      BY <1>2, <3>3 DEF OrderPart, EliminatesFrom
    <3> QED
      BY <2>3, <3>2, <3>4
  <2> QED
    BY <1>1, <1>2, <2>1, <2>5 DEF OrderPart
<1> QED
  BY <1>12, <1>13, <1>14

\* When the search ends, x has been numbered as the search by paths does it.
LEMMA RaiseFacts ==
  ASSUME Inv, PathInv, RaiseNeighbors
  PROVE  /\ Numbers(graph, OldRm, OldFill, Weight, x, fill, label')
         /\ OldRm \cup {x} = rm
<1>1. /\ pc = "reach" /\ bucket = graph.n /\ function = "Atoms"
      /\ label' = [v \in V(graph) |->
            IF v \in Neighbors(graph, x) \ rm THEN label[v] + 1 ELSE label[v]]
  BY DEF RaiseNeighbors, Inv, InputInv
<1>2. /\ x \in rm /\ \A u \in V(graph) \ OldRm : Weight[u] <= Weight[x]
      /\ BucketSearch(graph, V(graph) \ rm, Weight, x, graph.n, rc, reach, EndsOfFill)
  BY <1>1 DEF PathInv, BucketPart
<1>3. OldRm = rm \ {x} /\ OldRm \cup {x} = rm /\ rm \in SUBSET V(graph) /\ x \in V(graph) \ OldRm
  BY <1>1, <1>2 DEF OldRm, Inv, TypeOK
<1>4. IsGraph(graph) /\ graph.n \in Nat /\ V(graph) = 0 .. graph.n - 1
  BY GraphFacts
<1>5. Weight \in [V(graph) -> Nat]
  BY <1>1 DEF PathInv, SearchPart, Searching, SearchTyped
<1>6. /\ FillOfSearch = {{x, z} : z \in EndsOfFill}
      /\ \A v \in V(graph) : Weight[v] = IF v \in EndsOfFill THEN label[v] - 1 ELSE label[v]
  BY <1>1, <1>2, FillParts
<1>7. \A v \in V(graph) : label[v] \in V(graph) /\ label[v] \in Nat
  <2>1. \A v \in V(graph) : label[v] \in V(graph)
    BY DEF Inv, TypeOK
  <2> QED
    BY <1>4, <2>1
<1>8. ASSUME NEW z \in V(graph) PROVE Weight[z] \in V(graph)
  <2>1. label[z] \in V(graph) /\ Weight[z] \in Nat
    BY <1>5, <1>7
  <2>2. Weight[z] = label[z] \/ Weight[z] = label[z] - 1
    BY <1>6
  <2> QED
    BY <1>4, <2>1, <2>2
<1> DEFINE raised == RaisedBy(graph, OldRm, Weight, x)
           start == Neighbors(graph, x) \ rm
<1>9. /\ \A z : z \in raised <=> z \in EndsOfFill \/ z \in start
      /\ \A z \in EndsOfFill : ~HasEdge(graph, x, z)
  <2> DEFINE S == V(graph) \ rm
  <2>1. S = V(graph) \ (OldRm \cup {x}) /\ S \in SUBSET V(graph) /\ x \in V(graph) \ S
    BY <1>3
  <2>2. BucketSearch(graph, S, Weight, x, graph.n, rc, reach, EndsOfFill)
    BY <1>2
  <2>3. \A z : z \in start <=> z \in S /\ HasEdge(graph, x, z)
    BY EdgeSymmetric DEF Neighbors
  <2>4. \A z \in S : Weight[z] \in V(graph)
    BY <1>8
  <2>5. \A z : z \in raised <=> z \in S /\ Joined(graph, S, Weight, x, z)
    BY <2>1 DEF RaisedBy
  <2>6. EndsOfFill \subseteq S
    BY DEF EndsOfFill
  <2> HIDE DEF S, raised, start
  <2>7. AllReached(graph, S, Weight, x, EndsOfFill)
    BY <1>4, <1>5, <2>1, <2>2, <2>4, BucketsEnd
  <2> QED
    BY <2>3, <2>5, <2>6, <2>7 DEF AllReached
<1> HIDE DEF raised
<1>10. \A z \in start : {x, z} \in graph.adj
  BY EdgeSymmetric DEF Neighbors, HasEdge
<1>11. \A z \in EndsOfFill : {x, z} \notin graph.adj /\ z \notin start
  BY <1>9, EdgeSymmetric DEF Neighbors, HasEdge
<1> HIDE DEF start
<1>12. fill = OldFill \cup ({{x, u} : u \in raised} \ graph.adj)
  <2>1. \A e : e \in FillOfSearch <=> e \in {{x, u} : u \in raised} \ graph.adj
    BY <1>6, <1>9, <1>10, <1>11
  <2>2. FillOfSearch \subseteq fill
    BY DEF FillOfSearch
  <2> QED
    BY <2>1, <2>2 DEF OldFill
<1>13. label' = [u \in V(graph) |-> IF u \in raised THEN Weight[u] + 1 ELSE Weight[u]]
  <2>1. ASSUME NEW u \in V(graph)
        PROVE  (IF u \in start THEN label[u] + 1 ELSE label[u]) =
                 IF u \in raised THEN Weight[u] + 1 ELSE Weight[u]
    <3>1. label[u] \in Nat /\ (u \in raised <=> u \in EndsOfFill \/ u \in start)
      BY <1>7, <1>9
    <3>2. Weight[u] = IF u \in EndsOfFill THEN label[u] - 1 ELSE label[u]
      BY <1>6
    <3>3. u \in EndsOfFill => u \notin start
      BY <1>11
    <3> QED
      BY <3>1, <3>2, <3>3
  <2>2. label' = [u \in V(graph) |-> IF u \in start THEN label[u] + 1 ELSE label[u]]
    BY <1>1 DEF start
  <2> QED
    BY <2>1, <2>2
<1> QED
  BY <1>2, <1>3, <1>12, <1>13 DEF Numbers, raised

LEMMA RaisePath ==
  ASSUME Inv, PathInv, RaiseNeighbors, Inv'
  PROVE  PathInv'
<1> SUFFICES ASSUME function' = "Atoms" PROVE OrderPart' /\ SearchPart' /\ BucketPart'
  BY DEF PathInv
<1>1. /\ pc = "reach" /\ UNCHANGED <<function, graph, order, fill, x>>
      /\ IF rm = V(graph) THEN pc' = "atoms" /\ rm' = {} ELSE pc' = "select" /\ rm' = rm
  BY DEF RaiseNeighbors, input, searchVars
<1>2. OrderPart /\ SearchPart /\ BucketPart
  BY <1>1 DEF PathInv
<1>3. Numbers(graph, OldRm, OldFill, Weight, x, fill, label') /\ OldRm \cup {x} = rm
  BY RaiseFacts
<1>4. Searching(graph, OldRm, OldFill, Weight) /\ LeastFill(graph, OldRm, OldFill)
  BY <1>1, <1>2 DEF SearchPart
<1>5. Searching(graph, rm, fill, label')
  <2>1. Searching(graph, OldRm \cup {x}, fill, label')
    BY <1>3, <1>4, GraphFacts, SearchStep
  <2> QED
    BY <1>3, <2>1
<1>6. LeastFill(graph, rm, fill)
  <2>1. LeastFill(graph, OldRm \cup {x}, fill)
    BY <1>3, <1>4, GraphFacts, LeastStep
  <2> QED
    BY <1>3, <2>1
<1>7. OrderPart'
  <2>1. pc' \in {"select", "reach"} => pc \in {"select", "reach"} /\ UNCHANGED rm
    BY <1>1
  <2> QED
    BY <1>1, <1>2, <2>1, OrderStays
<1>8. SearchPart'
  <2>1. CASE rm = V(graph)
    <3>1. Len(order) = graph.n
      BY <1>1, <2>1 DEF Inv, McsMInv
    <3>2. Ordered' = Ordered /\ Ordered = V(graph)
      BY <1>1, <1>2, <2>1 DEF Ordered, OrderPart
    <3> QED
      BY <1>1, <1>6, <2>1, <3>1, <3>2 DEF SearchPart
  <2>2. CASE rm # V(graph)
    <3>1. pc' = "select" /\ rm' = rm
      BY <1>1, <2>2
    <3>2. OldRm' = rm' /\ OldFill' = fill' /\ Weight' = label'
      <4>1. FillOfSearch' = {}
        BY <3>1 DEF FillOfSearch
      <4>2. (label \in [V(graph) -> Nat])'
        <5>1. label' \in [V(graph)' -> V(graph)']
          BY DEF Inv, TypeOK
        <5>2. V(graph)' \subseteq Nat
          BY DEF V
        <5> QED
          BY <5>1, <5>2
      <4>3. Weight' = [v \in V(graph)' |-> label'[v]]
        BY <4>1 DEF Weight
      <4> QED
        BY <3>1, <4>1, <4>2, <4>3 DEF OldRm, OldFill
    <3> QED
      BY <1>1, <1>5, <1>6, <3>1, <3>2 DEF SearchPart
  <2> QED
    BY <2>1, <2>2
<1>9. BucketPart'
  BY <1>1 DEF BucketPart
<1> QED
  BY <1>7, <1>8, <1>9

\* A search that begins has no fill yet: nothing is searched differently.
LEMMA SelectFacts ==
  ASSUME Inv, PathInv, Select
  PROVE  /\ EndsOfFill' = {} /\ FillOfSearch' = {}
         /\ OldRm' = rm /\ OldFill' = fill /\ Weight' = label
<1>1. /\ pc = "select" /\ pc' = "reach" /\ rm # V(graph) /\ function = "Atoms"
      /\ x' = MaxLabelVertex /\ rm' = rm \cup {x'} /\ UNCHANGED <<graph, label, fill>>
  BY DEF Select, input, Inv, InputInv
<1>2. SearchPart
  BY <1>1 DEF PathInv
<1> DEFINE y == MaxLabelVertex
<1>3. y \in V(graph) \ rm
  BY <1>1, ScanFinds
<1> HIDE DEF y
<1>4. x' = y
  BY <1>1 DEF y
<1>5. label \in [V(graph) -> Nat]
  BY LabelsAreNumbers
<1>6. Searching(graph, rm, fill, label)
  BY <1>1, <1>2, <1>5, NoSearch DEF SearchPart
<1>7. \A e \in fill : e \cap rm # {}
  BY <1>6 DEF Searching, SearchTyped
<1>8. \A z \in V(graph) \ rm : {y, z} \notin fill
  BY <1>3, <1>7
<1>9. EndsOfFill' = {}
  BY <1>1, <1>4, <1>8 DEF EndsOfFill
<1>10. FillOfSearch' = {}
  <2>1. ASSUME NEW e \in fill, y \in e PROVE e \subseteq rm'
    <3>1. PICK r \in rm : r \in e
      BY <1>7, <2>1
    <3>2. e \in Pairs(V(graph))
      BY <2>1 DEF Inv, TypeOK, NonEdges
    <3>3. PICK a \in V(graph), b \in V(graph) : e = {a, b}
      BY <3>2, PairsMember
    <3> QED
      BY <1>1, <1>3, <1>4, <2>1, <3>1, <3>3
  <2>2. FillOfSearch' = {e \in fill : e \ rm' # {} /\ y \in e}
    BY <1>1, <1>4 DEF FillOfSearch
  <2> QED
    BY <2>1, <2>2
<1>11. OldRm' = rm /\ OldFill' = fill /\ Weight' = label
  <2>1. Weight' = [v \in V(graph) |-> label[v]]
    BY <1>1, <1>10 DEF Weight
  <2> QED
    BY <1>1, <1>3, <1>4, <1>5, <1>10, <2>1 DEF OldRm, OldFill
<1> QED
  BY <1>9, <1>10, <1>11

LEMMA SelectPath ==
  ASSUME Inv, PathInv, Select
  PROVE  PathInv'
<1> SUFFICES ASSUME function' = "Atoms" PROVE OrderPart' /\ SearchPart' /\ BucketPart'
  BY DEF PathInv
<1>1. /\ pc = "select" /\ pc' = "reach" /\ rm # V(graph)
      /\ x' = MaxLabelVertex /\ order' = <<x'>> \o order /\ rm' = rm \cup {x'}
      /\ rc' = StartMarks(x', Neighbors(graph, x') \ rm')
      /\ reach' = [i \in V(graph) |-> {y \in Neighbors(graph, x') \ rm' : label[y] = i}]
      /\ bucket' = 0 /\ UNCHANGED <<function, graph, label, fill>>
  BY DEF Select, input
<1>2. OrderPart /\ SearchPart
  BY <1>1 DEF PathInv
<1> DEFINE y == MaxLabelVertex
<1>3. y \in V(graph) \ rm /\ \A u \in V(graph) \ rm : label[u] <= label[y]
  BY <1>1, ScanFinds
<1> HIDE DEF y
<1>4. x' = y
  BY <1>1 DEF y
<1>5. IsGraph(graph) /\ rm \in SUBSET V(graph) /\ label \in [V(graph) -> Nat]
      /\ order \in Seq(V(graph)) /\ \A u \in V(graph) : label[u] \in V(graph)
  <2>1. IsGraph(graph) /\ label \in [V(graph) -> Nat]
    BY GraphFacts, LabelsAreNumbers
  <2> QED
    BY <2>1 DEF Inv, TypeOK
<1>6. Searching(graph, rm, fill, label) /\ LeastFill(graph, rm, fill)
  BY <1>1, <1>2, <1>5, NoSearch DEF SearchPart
<1>9. EndsOfFill' = {} /\ OldRm' = rm /\ OldFill' = fill /\ Weight' = label
  BY SelectFacts
<1>12. SearchPart'
  BY <1>1, <1>6, <1>9 DEF SearchPart
<1>13. BucketPart'
  <2> DEFINE S == V(graph) \ rm'
             start == Neighbors(graph, y) \cap S
             queue == [i \in V(graph) |-> {z \in start : label[z] = i}]
  <2>1. S \in SUBSET V(graph) /\ y \in V(graph) \ S /\ \A u \in S : label[u] \in V(graph)
    BY <1>1, <1>3, <1>4, <1>5
  <2>2. rc' = start \cup {y} /\ reach' = queue
    <3>1. start = Neighbors(graph, x') \ rm'
      BY <1>4 DEF Neighbors
    <3> HIDE DEF start
    <3> QED
      BY <1>1, <1>4, <3>1 DEF StartMarks
  <2>3. BucketSearch(graph, S, label, y, 0, start \cup {y}, queue, {})
    <3> HIDE DEF S
    <3> QED
      BY <1>5, <2>1, BucketsBegin
  <2>4. Len(order') >= 1 /\ order'[1] = y
    <3>1. Len(order') = Len(order) + 1 /\ Len(order) \in Nat /\ order'[1] = y
      BY <1>1, <1>3, <1>4, <1>5, PrependAt
    <3> QED
      BY <3>1
  <2>5. x' \in rm' /\ \A u \in V(graph) \ rm : label[u] <= label[x']
    BY <1>1, <1>3, <1>4
  <2>6. BucketSearch(graph, V(graph) \ rm', label, x', bucket', rc', reach', EndsOfFill')
    <3> HIDE DEF start, queue
    <3> QED
      BY <1>1, <1>4, <1>9, <2>2, <2>3
  <2> HIDE DEF S, start, queue
  <2> QED
    BY <1>1, <1>4, <1>9, <2>4, <2>5, <2>6 DEF BucketPart
<1>14. OrderPart'
  <2>1. rm = Ordered
    BY <1>1, <1>2 DEF OrderPart
  <2>2. rm' = Ordered'
    <3>1. y \in V(graph) /\ order \in Seq(V(graph)) /\ order' = <<y>> \o order
      BY <1>1, <1>3, <1>4, <1>5
    <3>2. Ordered' = Ordered \cup {y}
      BY <3>1, Prepend DEF Ordered
    <3> QED
      BY <1>1, <1>4, <2>1, <3>2
  <2>3. \A i \in 1 .. Len(order) : order[i] \in rm /\ order[i] # y
    BY <1>3, <2>1 DEF Ordered
  <2>4. ASSUME NEW i \in 1 .. Len(order), NEW j \in 1 .. Len(order), order[i] # order[j],
               IsJoined(graph, fill, y, order[i]), IsJoined(graph, fill, y, order[j])
        PROVE  IsJoined(graph, fill, order[i], order[j])
    <3>1. IsJoined(graph, fill, order[i], y) /\ IsJoined(graph, fill, order[j], y)
      <4>1. \A a, b : {a, b} = {b, a}
        OBVIOUS
      <4> QED
        BY <2>4, <4>1 DEF IsJoined
    <3> QED
      BY <1>3, <1>5, <1>6, <2>3, <2>4, <3>1, NextIsSimplicial
  <2>5. EliminatesFrom(graph, fill, order) /\ IsDistinct(order)
    BY <1>2 DEF OrderPart
  <2>6. order' = <<y>> \o order
    BY <1>1, <1>4
  <2>7. EliminatesFrom(graph, fill, order') /\ IsDistinct(order')
    <3> DEFINE t == order'
    <3>1. t = <<y>> \o order
      BY <2>6
    <3>2. y \in V(graph)
      BY <1>3
    <3> HIDE DEF t
    <3>3. ComesBefore(graph, fill, order, y)
      BY <2>3, <2>4 DEF ComesBefore
    <3>4. EliminatesFrom(graph, fill, t) /\ IsDistinct(t)
      BY <1>5, <2>5, <3>1, <3>2, <3>3, EliminatesMore
    <3> QED
      BY <3>4 DEF t
  <2> QED
    BY <1>1, <2>2, <2>7 DEF OrderPart
<1> QED
  BY <1>12, <1>13, <1>14

LEMMA OtherPath ==
  ASSUME Inv, PathInv,
         \/ AtomAt \/ EndElimination \/ AtomOfRest \/ ReturnAtoms \/ UNCHANGED vars
         \/ Enter \/ LowerMaxLabel \/ SkipRemoved \/ Number \/ MeasureWidth \/ CallAgain
  PROVE  PathInv'
<1> SUFFICES ASSUME function' = "Atoms" PROVE OrderPart' /\ SearchPart' /\ BucketPart'
  BY DEF PathInv
<1>1. CASE AtomAt \/ EndElimination \/ AtomOfRest \/ ReturnAtoms
  <2>1. /\ UNCHANGED <<function, graph, order, fill>> /\ pc \in {"atoms", "rest"}
        /\ pc' \in {"atoms", "rest", "done"}
    BY <1>1 DEF AtomAt, EndElimination, AtomOfRest, ReturnAtoms, input, searchVars
  <2>2. OrderPart /\ SearchPart
    BY <2>1 DEF PathInv
  <2>3. OrderPart'
    BY <2>1, <2>2, OrderStays
  <2>4. Ordered' = Ordered
    BY <2>1 DEF Ordered
  <2>5. SearchPart'
    BY <2>1, <2>2, <2>4 DEF SearchPart
  <2> QED
    BY <2>1, <2>3, <2>5 DEF BucketPart
<1>2. CASE UNCHANGED vars
  <2>1. /\ UNCHANGED <<function, graph, pc, label, rm, order, rc, reach, bucket, x, fill>>
    BY <1>2 DEF vars, input, searchVars
  <2>2. OrderPart /\ SearchPart /\ BucketPart
    BY <2>1 DEF PathInv
  <2>3. UNCHANGED <<OldRm, OldFill, Weight, EndsOfFill, Ordered>>
    BY <2>1 DEF OldRm, OldFill, Weight, EndsOfFill, FillOfSearch, Ordered
  <2>4. OrderPart'
    BY <2>1, <2>2, <2>3 DEF OrderPart
  <2>5. SearchPart'
    BY <2>1, <2>2, <2>3 DEF SearchPart
  <2>6. BucketPart'
    BY <2>1, <2>2, <2>3 DEF BucketPart
  <2> QED
    BY <2>4, <2>5, <2>6
<1>3. CASE Enter \/ LowerMaxLabel \/ SkipRemoved \/ Number \/ MeasureWidth \/ CallAgain
  <2>1. UNCHANGED function
    BY <1>3 DEF Enter, LowerMaxLabel, SkipRemoved, Number, MeasureWidth, CallAgain, input
  <2>2. pc \in {"enter", "mcs"} \/ (pc = "done" /\ calls # <<>>)
    <3>1. CASE CallAgain
      BY <3>1 DEF CallAgain, Ends
    <3>2. CASE ~CallAgain
      BY <1>3, <3>2 DEF Enter, LowerMaxLabel, SkipRemoved, Number, MeasureWidth
    <3> QED
      BY <3>1, <3>2
  <2>3. function = "Treewidth"
    BY <2>2 DEF Inv, InputInv
  <2> QED
    BY <2>1, <2>3
<1> QED
  BY <1>1, <1>2, <1>3

LEMMA PathInvariant == Spec => []PathInv
<1>1. Inv /\ PathInv /\ [Next]_vars /\ Inv' => PathInv'
  <2> SUFFICES ASSUME Inv, PathInv, [Next]_vars, Inv' PROVE PathInv'
    OBVIOUS
  <2> QED
    BY SelectPath, ReachPath, NextBucketPath, RaisePath, OtherPath DEF Next, Finished
<1> QED
  BY <1>1, InitPath, InvariantHolds, PTL DEF Spec

-----------------------------------------------------------------------------
(* The fill is minimal. *)

\* The order that is complete, and the cliques after its vertices.
LEMMA OrderEliminates ==
  ASSUME Inv, OrderPart, Len(order) = graph.n, Ordered = V(graph)
  PROVE  /\ Numbering(graph, order)
         /\ \A i \in 1 .. graph.n :
              IsClique(Filled(graph, fill),
                       {order[j] : j \in i .. graph.n} \cap Neighbors(Filled(graph, fill), order[i]))
<1> DEFINE h == Filled(graph, fill)
<1>1. IsGraph(graph) /\ graph.n \in Nat /\ fill \in SUBSET NonEdges(graph)
  BY GraphFacts DEF Inv, TypeOK
<1>2. Numbering(graph, order)
  <2>1. \A i \in 1 .. graph.n : order[i] \in V(graph)
    BY DEF Ordered
  <2>2. \A i, j \in 1 .. graph.n : order[i] = order[j] => i = j
    BY DEF OrderPart, IsDistinct
  <2>3. \A v \in V(graph) : \E i \in 1 .. graph.n : order[i] = v
    BY DEF Ordered
  <2> QED
    BY <2>1, <2>2, <2>3 DEF Numbering
<1>3. \A y, z : HasEdge(h, y, z) <=> IsJoined(graph, fill, y, z)
  BY <1>1, FilledGraph DEF IsJoined
<1>4. IsGraph(h)
  BY <1>1, FilledIsGraph
<1> HIDE DEF h
<1>5. \A a : ~HasEdge(h, a, a)
  BY <1>4, NoLoops
<1>6. ASSUME NEW i \in 1 .. graph.n
      PROVE  IsClique(h, {order[j] : j \in i .. graph.n} \cap Neighbors(h, order[i]))
  <2> DEFINE K == {order[j] : j \in i .. graph.n} \cap Neighbors(h, order[i])
  <2>1. ASSUME NEW u \in K, NEW z \in K, u # z
        PROVE  HasEdge(h, u, z)
    <3>1. PICK j \in i .. graph.n, k \in i .. graph.n : u = order[j] /\ z = order[k]
      OBVIOUS
    <3>2. HasEdge(h, u, order[i]) /\ HasEdge(h, z, order[i])
      BY DEF Neighbors
    <3>3. j # i /\ k # i /\ j # k
      BY <1>5, <2>1, <3>1, <3>2
    <3>4. j \in i + 1 .. graph.n /\ k \in i + 1 .. graph.n
      BY <1>1, <3>3
    <3>5. IsJoined(graph, fill, order[i], order[j]) /\ IsJoined(graph, fill, order[i], order[k])
      BY <1>3, <3>1, <3>2, EdgeSymmetric
    <3> HIDE DEF K
    <3>6. IsJoined(graph, fill, order[j], order[k])
      BY <3>3, <3>4, <3>5 DEF OrderPart, EliminatesFrom
    <3> QED
      BY <1>3, <3>1, <3>6
  <2> HIDE DEF K
  <2>2. IsClique(h, K)
    BY <2>1, CliquePairs
  <2> QED
    BY <2>2 DEF K
<1> QED
  BY <1>2, <1>6 DEF h

\* What the search for the fill leaves to Atoms.
LEMMA SearchEnds ==
  ASSUME Inv, PathInv, function = "Atoms", pc \in {"atoms", "rest", "done"}
  PROVE  /\ Len(order) = graph.n /\ Numbering(graph, order)
         /\ IsPerfect(Filled(graph, fill), order) /\ IsMinimalTriangulation(graph, fill)
<1> DEFINE h == Filled(graph, fill)
<1>1. OrderPart /\ Len(order) = graph.n /\ Ordered = V(graph) /\ LeastFill(graph, V(graph), fill)
  BY DEF PathInv, SearchPart
<1>2. IsGraph(graph) /\ graph.n \in Nat
  BY GraphFacts
<1>3. fill \in SUBSET NonEdges(graph)
  BY DEF Inv, TypeOK
<1>4. /\ Numbering(graph, order)
      /\ \A i \in 1 .. graph.n :
           IsClique(h, {order[j] : j \in i .. graph.n} \cap Neighbors(h, order[i]))
  BY <1>1, OrderEliminates
<1>5. h.n = graph.n
  BY DEF Filled
<1> HIDE DEF h
<1>6. IsPerfect(h, order)
  <2> SUFFICES ASSUME NEW i \in 1 .. graph.n PROVE IsClique(h, AfterIn(h, order, i, i))
    BY <1>5 DEF IsPerfect
  <2> DEFINE K == {order[j] : j \in i .. graph.n} \cap Neighbors(h, order[i])
  <2>1. AfterIn(h, order, i, i) \subseteq K
    <3>1. \A j \in i + 1 .. graph.n : j \in i .. graph.n
      BY <1>2
    <3> QED
      BY <1>5, <3>1 DEF AfterIn
  <2>2. IsClique(h, K)
    BY <1>4
  <2> HIDE DEF K
  <2> QED
    BY <2>1, <2>2, CliquePairs
<1>7. IsMinimalTriangulation(graph, fill)
  BY <1>1, <1>2, <1>3, <1>4, <1>6, AllNumbered DEF h
<1> QED
  BY <1>1, <1>4, <1>6, <1>7 DEF h

\* For every graph: the fill of McsM is a minimal triangulation, and its order
\* eliminates the filled graph without further fill.
THEOREM FillMinimal == Spec => []FillIsMinimal
<1>1. Inv /\ PathInv => FillIsMinimal
  <2> SUFFICES ASSUME Inv, PathInv, pc = "atoms" PROVE FillIsMinimal
    BY DEF FillIsMinimal
  <2>1. function = "Atoms"
    BY DEF Inv, InputInv
  <2>2. OrderPart /\ Len(order) = graph.n /\ Ordered = V(graph)
    BY <2>1 DEF PathInv, SearchPart
  <2>3. IsMinimalTriangulation(graph, fill)
    BY <2>1, SearchEnds
  <2>4. \A i \in 1 .. graph.n :
          IsClique(Filled(graph, fill),
                   {order[j] : j \in i .. graph.n} \cap Neighbors(Filled(graph, fill), order[i]))
    BY <2>2, OrderEliminates
  <2>5. Filling(graph, fill) = Filled(graph, fill)
    BY DEF Filling, Filled
  <2> QED
    BY <2>3, <2>4, <2>5 DEF FillIsMinimal
<1> QED
  BY <1>1, InvariantHolds, PathInvariant, PTL

-----------------------------------------------------------------------------
(* The refinement of the search by paths. *)

\* The vertices that are not numbered and weigh less than u, but for v.
LighterThan(g, R, w, v, u) == {z \in V(g) \ R : w[z] < w[u]} \ {v}

\* A path to u along such vertices is an edge, or goes through a component of them.
LEMMA PathIsJoined ==
  ASSUME NEW g, IsGraph(g), NEW R \in SUBSET V(g), NEW v \in V(g) \ R,
         NEW u \in V(g) \ (R \cup {v}), NEW w \in [V(g) -> Nat]
  PROVE  u \in RaisedBy(g, R, w, v) <=>
           \/ HasEdge(g, v, u)
           \/ \E C \in {FindComponent(g, V(g) \ LighterThan(g, R, w, v, u), z) :
                          z \in LighterThan(g, R, w, v, u)} :
                v \in NeighborsOf(g, C) /\ u \in NeighborsOf(g, C)
<1> DEFINE S == V(g) \ (R \cup {v})
           light == LighterThan(g, R, w, v, u)
           rest == V(g) \ light
<1>1. /\ light \subseteq S /\ light \subseteq V(g) /\ v \notin light /\ u \notin light
      /\ \A z \in light : w[z] < w[u]
      /\ \A z \in S : w[z] < w[u] => z \in light
  <2>1. w[u] \in Nat
    OBVIOUS
  <2> QED
    BY <2>1 DEF LighterThan
<1>2. V(g) \ rest = light
  BY <1>1
<1>3. u \in RaisedBy(g, R, w, v) <=> Joined(g, S, w, v, u)
  BY DEF RaisedBy
<1>4. v \in V(g) \ S /\ v # u /\ S \in SUBSET V(g)
  OBVIOUS
<1> HIDE DEF light, S, rest
<1>5. ASSUME HasEdge(g, v, u)
      PROVE  Joined(g, S, w, v, u)
  <2>1. Linked(g, {v}) /\ Sees(g, u, {v})
    BY <1>5, LinkedOne, EdgeSymmetric DEF Sees
  <2> QED
    BY <2>1 DEF Joined
<1>6. ASSUME NEW z \in light, v \in NeighborsOf(g, FindComponent(g, rest, z)),
             u \in NeighborsOf(g, FindComponent(g, rest, z))
      PROVE  Joined(g, S, w, v, u)
  <2> DEFINE C == FindComponent(g, rest, z)
  <2>1. C \subseteq light
    BY <1>2, ComponentClosed
  <2>2. Linked(g, C)
    <3>1. C \in Components(g, rest)
      BY <1>2 DEF Components
    <3> QED
      BY <3>1, ComponentLinked
  <2>3. Sees(g, v, C) /\ Sees(g, u, C)
    BY <1>6, EdgeSymmetric DEF NeighborsOf, Sees
  <2> HIDE DEF C
  <2> DEFINE E == C \cup {v}
  <2>4. Linked(g, E)
    BY <2>2, <2>3, LinkedWith
  <2>5. v \in E /\ E \in SUBSET (S \cup {v}) /\ Sees(g, u, E) /\ \A d \in E \ {v} : w[d] < w[u]
    BY <1>1, <2>1, <2>3 DEF Sees
  <2> HIDE DEF E
  <2> QED
    BY <2>4, <2>5 DEF Joined
<1>7. ASSUME Joined(g, S, w, v, u), ~HasEdge(g, v, u)
      PROVE  \E z \in light : /\ v \in NeighborsOf(g, FindComponent(g, rest, z))
                              /\ u \in NeighborsOf(g, FindComponent(g, rest, z))
  <2>1. PICK E \in SUBSET (S \cup {v}) : /\ v \in E /\ Linked(g, E) /\ Sees(g, u, E)
                                         /\ \A d \in E \ {v} : w[d] < w[u]
    BY <1>7 DEF Joined
  <2>2. ~HasEdge(g, u, v) /\ E \in SUBSET V(g)
    BY <1>4, <1>7, <2>1, EdgeSymmetric
  <2>3. PICK D \in SUBSET (E \ {v}) : Linked(g, D) /\ Sees(g, v, D) /\ Sees(g, u, D)
    BY <2>1, <2>2, WithoutEnd
  <2>4. D \subseteq light /\ D # {}
    BY <1>1, <2>1, <2>3 DEF Linked
  <2>5. PICK z \in D : TRUE
    BY <2>4
  <2> DEFINE C == FindComponent(g, rest, z)
  <2>6. D \subseteq C
    BY <1>2, <2>3, <2>4, LinkedInComponent
  <2>7. C \subseteq light
    BY <1>2, <2>4, ComponentClosed
  <2> HIDE DEF C
  <2>8. v \in V(g) \ C /\ u \in V(g) \ C
    BY <1>1, <2>7
  <2>9. v \in NeighborsOf(g, C) /\ u \in NeighborsOf(g, C)
    BY <2>3, <2>6, <2>8, EdgeSymmetric DEF NeighborsOf, Sees
  <2> QED
    BY <2>4, <2>9 DEF C
<1>8. (\E C \in {FindComponent(g, rest, z) : z \in light} :
         v \in NeighborsOf(g, C) /\ u \in NeighborsOf(g, C))
      <=> \E z \in light : /\ v \in NeighborsOf(g, FindComponent(g, rest, z))
                           /\ u \in NeighborsOf(g, FindComponent(g, rest, z))
  OBVIOUS
<1>9. u \in RaisedBy(g, R, w, v) <=>
        \/ HasEdge(g, v, u)
        \/ \E C \in {FindComponent(g, rest, z) : z \in light} :
             v \in NeighborsOf(g, C) /\ u \in NeighborsOf(g, C)
  BY <1>3, <1>5, <1>6, <1>7, <1>8
<1> QED
  BY <1>9 DEF rest, light

\* What the search by paths has ordered and weighed: nothing while Treewidth runs.
PathOrder == CASE function # "Atoms" -> <<>> [] pc = "reach" -> Tail(order) [] OTHER -> order
PathWeight == [v \in V(TriangulatedGraph) |->
  CASE function # "Atoms" -> 0
    [] {x, v} \in FillOfSearch -> label[v] - 1
    [] OTHER -> label[v]]

\* The operators of the abstract specification are those of the code's.
LEMMA PathOperators ==
  /\ \A g : ByPaths!V(g) = V(g)
  /\ \A g, u, v : ByPaths!HasEdge(g, u, v) = HasEdge(g, u, v)
  /\ \A g, S : ByPaths!NeighborsOf(g, S) = NeighborsOf(g, S)
  /\ \A g, S, v : ByPaths!FindComponent(g, S, v) = FindComponent(g, S, v)
<1>1. \A g : ByPaths!V(g) = V(g)
  BY DEF ByPaths!V, V
<1>2. \A g, u, v : ByPaths!HasEdge(g, u, v) = HasEdge(g, u, v)
  BY DEF ByPaths!HasEdge, HasEdge
<1>3. \A g, S : ByPaths!NeighborsOf(g, S) = NeighborsOf(g, S)
  BY <1>1, <1>2 DEF ByPaths!NeighborsOf, NeighborsOf
<1>4. \A g, S, C : ByPaths!IsClosed(g, S, C) = IsClosed(g, S, C)
  BY <1>1, <1>2 DEF ByPaths!IsClosed, IsClosed
<1>5. \A g, S, v : ByPaths!FindComponent(g, S, v) = FindComponent(g, S, v)
  BY <1>1, <1>4 DEF ByPaths!FindComponent, FindComponent
<1> QED
  BY <1>1, <1>2, <1>3, <1>5

LEMMA PathMapping ==
  ASSUME function = "Atoms"
  PROVE  /\ TriangulatedGraph = graph /\ PathWeight = Weight
         /\ PathOrder = IF pc = "reach" THEN Tail(order) ELSE order
<1>1. TriangulatedGraph = graph
  BY DEF TriangulatedGraph
<1>2. PathWeight = Weight
  BY <1>1 DEF PathWeight, Weight
<1>3. PathOrder = IF pc = "reach" THEN Tail(order) ELSE order
  BY DEF PathOrder
<1> QED
  BY <1>1, <1>2, <1>3

\* The search by buckets that ends is the numbering of its vertex.
LEMMA RaiseSimulates ==
  ASSUME Inv, PathInv, RaiseNeighbors
  PROVE  ByPaths!NumberVertex(x)
<1>1. /\ pc = "reach" /\ pc' # "reach" /\ function = "Atoms"
      /\ UNCHANGED <<function, graph, order, fill>>
  BY DEF RaiseNeighbors, Inv, InputInv, input, searchVars
<1>2. OrderPart /\ BucketPart /\ rm = Ordered /\ Searching(graph, OldRm, OldFill, Weight)
  BY <1>1 DEF PathInv, OrderPart, SearchPart
<1>3. /\ TriangulatedGraph = graph /\ TriangulatedGraph' = graph
      /\ PathWeight = Weight /\ PathOrder = Tail(order) /\ PathOrder' = order
  BY <1>1, PathMapping DEF TriangulatedGraph, PathOrder
<1>4. FillOfSearch' = {}
  BY <1>1 DEF FillOfSearch
<1>5. Numbers(graph, OldRm, OldFill, Weight, x, fill, label') /\ OldRm \cup {x} = rm
  BY RaiseFacts
<1>6. PathWeight' = label' /\ OldFill' = fill
  <2>1. PathWeight' = [v \in V(graph) |-> label'[v]]
    BY <1>1, <1>3, <1>4 DEF PathWeight
  <2> QED
    BY <1>1, <1>4, <1>5, <2>1 DEF Numbers, OldFill
<1>7. order \in Seq(V(graph)) /\ Len(order) >= 1 /\ order[1] = x /\ IsDistinct(order)
  BY <1>1, <1>2 DEF BucketPart, OrderPart, Inv, TypeOK
<1>8. order = <<x>> \o PathOrder
  BY <1>3, <1>7, FirstApart
<1>9. ByPaths!Numbered = OldRm
  <2>1. ByPaths!Numbered = Members(PathOrder)
    BY DEF ByPaths!Numbered, PathOrder, Members
  <2>2. \A z : z \in Members(PathOrder) <=> z \in Ordered /\ z # x
    <3>1. \A z : z \in Members(Tail(order)) <=> z \in Members(order) /\ z # order[1]
      BY <1>7, FirstApart
    <3>2. Ordered = Members(order)
      BY DEF Ordered, Members
    <3> QED
      BY <1>3, <1>7, <3>1, <3>2
  <2>3. Members(PathOrder) = OldRm
    BY <1>1, <1>2, <2>2 DEF OldRm
  <2> QED
    BY <2>1, <2>3
<1>10. /\ IsGraph(graph) /\ OldRm \in SUBSET V(graph) /\ x \in V(graph) \ OldRm
       /\ Weight \in [V(graph) -> Nat]
  BY <1>2, <1>5, GraphFacts DEF Numbers, Searching, SearchTyped
<1>11. ASSUME NEW u \in V(graph) \ (OldRm \cup {x})
       PROVE  ByPaths!PathTo(x, u) <=> u \in RaisedBy(graph, OldRm, Weight, x)
  <2> DEFINE light == LighterThan(graph, OldRm, Weight, x, u)
  <2>1. {w \in ByPaths!V(TriangulatedGraph) \ ByPaths!Numbered : PathWeight[w] < PathWeight[u]} \ {x}
          = light
    BY <1>3, <1>9, PathOperators DEF LighterThan
  <2>2. ByPaths!PathTo(x, u) <=>
          \/ HasEdge(graph, x, u)
          \/ \E C \in {FindComponent(graph, V(graph) \ light, z) : z \in light} :
               x \in NeighborsOf(graph, C) /\ u \in NeighborsOf(graph, C)
    <3> HIDE DEF light
    <3> QED
      BY <1>3, <2>1, PathOperators DEF ByPaths!PathTo, PathWeight
  <2> QED
    BY <1>10, <2>2, PathIsJoined
<1> DEFINE raised == RaisedBy(graph, OldRm, Weight, x)
           left == V(graph) \ (OldRm \cup {x})
<1>12. /\ fill = OldFill \cup ({{x, u} : u \in raised} \ graph.adj)
       /\ label' = [u \in V(graph) |-> IF u \in raised THEN Weight[u] + 1 ELSE Weight[u]]
  BY <1>5 DEF Numbers
<1>13. {u \in left : ByPaths!PathTo(x, u)} = raised
  BY <1>11 DEF RaisedBy
<1>14. \A u \in left : Weight[u] <= Weight[x]
  BY <1>1, <1>2 DEF BucketPart
<1> HIDE DEF raised
<1>15. ByPaths!V(TriangulatedGraph) = V(graph)
  BY <1>3, PathOperators
<1> DEFINE leftOver == ByPaths!V(TriangulatedGraph) \ (ByPaths!Numbered \cup {x})
           gained == {u \in leftOver : ByPaths!PathTo(x, u)}
<1>16. leftOver = left /\ gained = raised
  BY <1>9, <1>13, <1>15
<1> HIDE DEF leftOver, gained, left
<1>17. /\ x \in ByPaths!V(TriangulatedGraph) \ ByPaths!Numbered
       /\ \A u \in leftOver : PathWeight[u] <= PathWeight[x]
       /\ PathOrder' = <<x>> \o PathOrder
       /\ OldFill' = OldFill \cup ({{x, u} : u \in gained} \ TriangulatedGraph.adj)
       /\ PathWeight' = [u \in ByPaths!V(TriangulatedGraph) |->
            IF u \in gained THEN PathWeight[u] + 1 ELSE PathWeight[u]]
       /\ UNCHANGED TriangulatedGraph
  BY <1>3, <1>6, <1>8, <1>9, <1>10, <1>12, <1>14, <1>15, <1>16
<1> QED
  BY <1>17 DEF ByPaths!NumberVertex, PathOrder, PathWeight, OldFill, leftOver, gained

\* What the search by paths sees of a step.
PathVars == <<TriangulatedGraph, PathOrder, OldFill, PathWeight>>

\* Of the calls of Treewidth it sees nothing.
LEMMA TreewidthUnseen ==
  ASSUME Inv, Inv', function = "Treewidth", UNCHANGED function
  PROVE  UNCHANGED PathVars
<1>1. fill = {} /\ fill' = {} /\ function # "Atoms" /\ function' # "Atoms"
  BY DEF Inv, Untouched
<1>2. UNCHANGED TriangulatedGraph
  BY DEF TriangulatedGraph
<1>3. OldFill' = OldFill
  BY <1>1 DEF OldFill, FillOfSearch
<1>4. UNCHANGED PathOrder
  <2>1. pc # "reach" /\ pc' # "reach"
    BY <1>1 DEF Inv, InputInv
  <2>2. PathOrder = <<>> /\ PathOrder' = <<>>
    BY <1>1, <2>1 DEF PathOrder
  <2> QED
    BY <2>2
<1>5. UNCHANGED PathWeight
  <2>1. FillOfSearch = {} /\ FillOfSearch' = {}
    BY <1>1 DEF FillOfSearch
  <2>2. PathWeight = [v \in V(TriangulatedGraph) |-> 0]
    BY <1>1, <2>1 DEF PathWeight
  <2>3. PathWeight' = [v \in V(TriangulatedGraph)' |-> 0]
    BY <1>1, <2>1 DEF PathWeight
  <2> QED
    BY <1>2, <2>2, <2>3 DEF V
<1> QED
  BY <1>2, <1>3, <1>4, <1>5 DEF PathVars

\* Nor does it see what happens within a search or after the last one.
LEMMA PathUnseen ==
  ASSUME function = "Atoms", UNCHANGED <<function, graph>>,
         OldFill' = OldFill, Weight' = Weight, PathOrder' = PathOrder
  PROVE  UNCHANGED PathVars
<1>1. TriangulatedGraph = graph /\ UNCHANGED TriangulatedGraph
  BY DEF TriangulatedGraph
<1>2. PathWeight = Weight
  BY PathMapping
<1>3. PathWeight' = Weight'
  BY <1>1 DEF PathWeight, Weight
<1> QED
  BY <1>1, <1>2, <1>3 DEF PathVars

LEMMA SelectUnseen ==
  ASSUME Inv, PathInv, Select
  PROVE  UNCHANGED PathVars
<1>1. /\ pc = "select" /\ pc' = "reach" /\ function = "Atoms" /\ rm # V(graph)
      /\ x' = MaxLabelVertex /\ order' = <<x'>> \o order /\ UNCHANGED <<function, graph>>
  BY DEF Select, input, Inv, InputInv
<1>2. OldFill' = OldFill /\ Weight' = Weight
  BY <1>1, SelectFacts, NoSearch, LabelsAreNumbers
<1>3. x' \in V(graph) /\ order \in Seq(V(graph))
  BY <1>1, ScanFinds DEF Inv, TypeOK
<1>4. PathOrder' = PathOrder
  <2> DEFINE y == x'
  <2>1. Tail(<<y>> \o order) = order
    <3> HIDE DEF y
    <3>1. y \in V(graph)
      BY <1>3 DEF y
    <3> QED
      BY <1>3, <3>1, TailOfPrepended
  <2>2. PathOrder = order /\ PathOrder' = Tail(order')
    BY <1>1 DEF PathOrder
  <2> QED
    BY <1>1, <2>1, <2>2
<1> QED
  BY <1>1, <1>2, <1>4, PathUnseen

LEMMA OthersUnseen ==
  ASSUME Inv, PathInv, Inv', function = "Atoms",
         \/ ReachNeighbors \/ NextBucket
         \/ AtomAt \/ EndElimination \/ AtomOfRest \/ ReturnAtoms \/ UNCHANGED vars
  PROVE  UNCHANGED PathVars
<1>1. CASE ReachNeighbors
  <2>1. pc = "reach" /\ UNCHANGED <<function, graph, pc, order>>
    BY <1>1 DEF ReachNeighbors, input
  <2>2. PathOrder' = PathOrder
    BY <2>1 DEF PathOrder
  <2> QED
    BY <1>1, <2>1, <2>2, ReachFacts, PathUnseen
<1>2. CASE NextBucket \/ UNCHANGED vars
  <2>1. UNCHANGED <<function, graph, pc, label, rm, x, fill, order>>
    BY <1>2 DEF NextBucket, input, vars, searchVars
  <2>2. UNCHANGED <<OldFill, Weight, PathOrder>>
    BY <2>1 DEF OldFill, Weight, FillOfSearch, PathOrder
  <2> QED
    BY <2>1, <2>2, PathUnseen
<1>3. CASE AtomAt \/ EndElimination \/ AtomOfRest \/ ReturnAtoms
  <2>1. /\ pc # "reach" /\ pc' # "reach"
        /\ UNCHANGED <<function, graph, label, x, fill, order>>
    BY <1>3 DEF AtomAt, EndElimination, AtomOfRest, ReturnAtoms, input, searchVars
  <2>2. FillOfSearch = {} /\ FillOfSearch' = {}
    BY <2>1 DEF FillOfSearch
  <2>3. UNCHANGED <<OldFill, Weight, PathOrder>>
    BY <2>1, <2>2 DEF OldFill, Weight, PathOrder
  <2> QED
    BY <2>1, <2>3, PathUnseen
<1> QED
  BY <1>1, <1>2, <1>3

LEMMA StepByPaths ==
  ASSUME Inv, PathInv, Inv', [Next]_vars
  PROVE  [ByPaths!Next]_PathVars
<1>1. UNCHANGED function
  BY DEF Next, Enter, LowerMaxLabel, SkipRemoved, Number, MeasureWidth, CallAgain,
         Select, ReachNeighbors, NextBucket, RaiseNeighbors,
         AtomAt, EndElimination, AtomOfRest, ReturnAtoms, Finished, vars, input
<1>2. function \in {"Treewidth", "Atoms"}
  BY DEF Inv, TypeOK
<1>3. CASE function = "Treewidth"
  BY <1>1, <1>3, TreewidthUnseen
<1>4. CASE function = "Atoms"
  <2>1. ~(Enter \/ LowerMaxLabel \/ SkipRemoved \/ Number \/ MeasureWidth \/ CallAgain)
    <3>1. pc # "enter" /\ pc # "mcs" /\ calls = <<>>
      BY <1>4 DEF Inv, InputInv
    <3>2. ~CallAgain
      BY <3>1 DEF CallAgain, Ends
    <3> QED
      BY <3>1, <3>2 DEF Enter, LowerMaxLabel, SkipRemoved, Number, MeasureWidth
  <2>2. CASE RaiseNeighbors
    <3>1. ByPaths!NumberVertex(x)
      BY <2>2, RaiseSimulates
    <3>2. x \in ByPaths!V(TriangulatedGraph)
      <4>1. x \in V(graph) /\ TriangulatedGraph = graph
        BY <1>4 DEF Inv, TypeOK, TriangulatedGraph
      <4> QED
        BY <4>1, PathOperators
    <3>3. ByPaths!Next
      BY <3>1, <3>2 DEF ByPaths!Next, ByPaths!NumberVertex
    <3> QED
      BY <3>3
  <2>3. CASE Select
    BY <2>3, SelectUnseen
  <2>4. CASE \/ ReachNeighbors \/ NextBucket
             \/ AtomAt \/ EndElimination \/ AtomOfRest \/ ReturnAtoms \/ UNCHANGED vars
    BY <1>4, <2>4, OthersUnseen
  <2> QED
    BY <2>1, <2>2, <2>3, <2>4 DEF Next, Finished
<1> QED
  BY <1>2, <1>3, <1>4

\* The search by buckets, which changes the labels that it compares as it goes,
\* numbers, weighs and fills as the definition by paths does.  Graphs for McsM have
\* to be given: without one, Treewidth's calls have no graph to be mapped to.
THEOREM SearchByPaths == ASSUME McsMGraphs # {} PROVE Spec => IsMcsM
<1>1. Init => ByPaths!Init
  <2> SUFFICES ASSUME Init PROVE ByPaths!Init
    OBVIOUS
  <2>1. FillOfSearch = {} /\ fill = {}
    BY DEF Init, FillOfSearch
  <2>2. TriangulatedGraph \in McsMGraphs
    BY DEF Init, TriangulatedGraph
  <2>3. PathOrder = <<>> /\ OldFill = {}
    BY <2>1 DEF Init, PathOrder, OldFill
  <2>4. PathWeight = [v \in V(TriangulatedGraph) |-> 0]
    <3>1. function = "Atoms" => TriangulatedGraph = graph
      BY DEF TriangulatedGraph
    <3>2. function = "Atoms" => label = [v \in V(graph) |-> 0]
      BY DEF Init
    <3>3. ASSUME NEW v \in V(TriangulatedGraph)
          PROVE  (CASE function # "Atoms" -> 0
                    [] {x, v} \in FillOfSearch -> label[v] - 1
                    [] OTHER -> label[v]) = 0
      BY <2>1, <3>1, <3>2
    <3> QED
      BY <3>3 DEF PathWeight
  <2>5. ByPaths!V(TriangulatedGraph) = V(TriangulatedGraph)
    BY PathOperators
  <2> QED
    BY <2>2, <2>3, <2>4, <2>5 DEF ByPaths!Init, PathOrder, PathWeight, OldFill
<1>2. Inv /\ PathInv /\ Inv' /\ [Next]_vars => [ByPaths!Next]_PathVars
  BY StepByPaths
<1> QED
  BY <1>1, <1>2, InvariantHolds, PathInvariant, PTL
     DEF Spec, IsMcsM, ByPaths!Spec, PathVars, PathOrder, OldFill, PathWeight

\* The steps of Treewidth.
LEMMA TreewidthOnly ==
  ASSUME Inv, Enter \/ LowerMaxLabel \/ SkipRemoved \/ Number \/ MeasureWidth \/ CallAgain
  PROVE  function = "Treewidth" /\ UNCHANGED function
<1>1. UNCHANGED function
  BY DEF Enter, LowerMaxLabel, SkipRemoved, Number, MeasureWidth, CallAgain, input
<1>2. pc \in {"enter", "mcs"} \/ (pc = "done" /\ calls # <<>>)
  <2>1. CASE CallAgain
    BY <2>1 DEF CallAgain, Ends
  <2>2. CASE ~CallAgain
    BY <2>2 DEF Enter, LowerMaxLabel, SkipRemoved, Number, MeasureWidth
  <2> QED
    BY <2>1, <2>2
<1> QED
  BY <1>1, <1>2 DEF Inv, InputInv

-----------------------------------------------------------------------------
(* The search of the module is that of the function McsM. *)

\* A stage s of the function's loop.
IsStage(s, R, ord, w, F, prev, points) ==
  /\ s.left = V(graph) \ R /\ s.order = ord /\ s.label = w /\ s.fill = F
  /\ s.prev = prev /\ s.points = points

\* The search for the fill of x is at the stage before x was numbered.
PointsAfter(s) == IF s.label[x] <= s.prev THEN s.points \cup {x} ELSE s.points
IsSearched(s) ==
  /\ IsStage(s, OldRm, Tail(order), Weight, OldFill, s.prev, s.points)
  /\ x = LastOfLargest(s.left, s.label)
  /\ prev_label = s.label[x] /\ maximal_points = PointsAfter(s)

FollowsRun(f) ==
  /\ pc = "select" =>
       IsStage(f[Len(order)], rm, order, label, fill, prev_label, maximal_points)
  /\ pc = "reach" => IsSearched(f[Len(order) - 1])
  /\ pc \in {"atoms", "rest", "done"} =>
       LET out == f[graph.n]
       IN  out.fill = fill /\ out.order = order /\ out.points = maximal_points
StageInv == function = "Atoms" => \E f : IsRunOfMcsM(graph, f) /\ FollowsRun(f)

\* The search begins at the first stage.
LEMMA InitStage == Init => StageInv
<1> SUFFICES ASSUME Init, function = "Atoms"
             PROVE  \E f : IsRunOfMcsM(graph, f) /\ FollowsRun(f)
  BY DEF StageInv
<1>1. graph.n \in Nat
  BY InitInv, GraphFacts
<1>2. PICK f : Runs(graph, {}, TRUE, graph.n, f) /\ McsM(graph) = f[graph.n]
  BY <1>1, McsMLoop
<1>3. /\ pc = "select" /\ rm = {} /\ order = <<>> /\ label = [v \in V(graph) |-> 0]
      /\ fill = {} /\ prev_label = -1 /\ maximal_points = {} /\ Len(order) = 0
  BY DEF Init
<1>4. IsStage(f[0], rm, order, label, fill, prev_label, maximal_points)
  <2>1. f[0] = [left |-> V(graph), order |-> <<>>, label |-> [v \in V(graph) |-> 0],
                fill |-> {}, prev |-> -1, points |-> {}]
    BY <1>2 DEF Runs, LoopStart
  <2> QED
    BY <1>3, <2>1 DEF IsStage
<1> QED
  BY <1>2, <1>3, <1>4 DEF IsRunOfMcsM, FollowsRun

\* The scan finds the vertex that the next stage takes.
LEMMA SelectStage ==
  ASSUME Inv, PathInv, StageInv, Select
  PROVE  StageInv'
<1>1. /\ function = "Atoms" /\ pc = "select" /\ pc' = "reach" /\ rm # V(graph)
      /\ x' = MaxLabelVertex /\ order' = <<x'>> \o order
      /\ maximal_points' = IF label[x'] <= prev_label THEN maximal_points \cup {x'} ELSE maximal_points
      /\ prev_label' = label[x'] /\ UNCHANGED <<function, graph>>
  BY DEF Select, Inv, InputInv, input, IsMaximalPoint
<1>2. PICK f : IsRunOfMcsM(graph, f) /\ FollowsRun(f)
  BY <1>1 DEF StageInv
<1>0. PICK s : s = f[Len(order)]
  OBVIOUS
<1>3. IsStage(s, rm, order, label, fill, prev_label, maximal_points)
  BY <1>0, <1>1, <1>2 DEF FollowsRun
<1>4. x' = LastOfLargest(V(graph) \ rm, label)
  BY <1>1 DEF MaxLabelVertex, LastOfLargest, MaxOf
<1>5. Len(order') - 1 = Len(order) /\ Tail(order') = order
  <2>1. order \in Seq(V(graph))
    BY DEF Inv, TypeOK
  <2>2. MaxLabelVertex \in V(graph)
    BY <1>1, ScanFinds
  <2> DEFINE y == MaxLabelVertex
  <2>3. order' = <<y>> \o order /\ y \in V(graph)
    BY <1>1, <2>2
  <2> HIDE DEF y
  <2>4. Len(<<y>> \o order) = Len(order) + 1 /\ Len(order) \in Nat /\ Tail(<<y>> \o order) = order
    BY <2>1, <2>3, PrependAt, TailOfPrepended
  <2> QED
    BY <2>3, <2>4
<1>6. OldRm' = rm /\ OldFill' = fill /\ Weight' = label
  BY SelectFacts
<1>7. IsSearched(s)'
  <2>1. /\ s.left = V(graph) \ rm /\ s.order = order /\ s.label = label /\ s.fill = fill
        /\ s.prev = prev_label /\ s.points = maximal_points
    BY <1>3 DEF IsStage
  <2>2. IsStage(s, OldRm, Tail(order), Weight, OldFill, s.prev, s.points)'
    BY <1>1, <1>5, <1>6, <2>1 DEF IsStage
  <2>3. maximal_points' = PointsAfter(s)'
    BY <1>1, <2>1 DEF PointsAfter
  <2> QED
    BY <1>1, <1>4, <2>1, <2>2, <2>3 DEF IsSearched
<1>8. FollowsRun(f)'
  BY <1>0, <1>1, <1>5, <1>7 DEF FollowsRun
<1> QED
  BY <1>1, <1>2, <1>8 DEF StageInv

\* The stage does not change while the search through the buckets goes on.
LEMMA ReachStage ==
  ASSUME Inv, PathInv, StageInv, ReachNeighbors \/ NextBucket
  PROVE  StageInv'
<1>1. /\ pc = "reach" /\ pc' = "reach" /\ function = "Atoms"
      /\ UNCHANGED <<function, graph, order, x, prev_label, maximal_points>>
  BY DEF ReachNeighbors, NextBucket, Inv, InputInv, input
<1>2. UNCHANGED <<OldRm, OldFill, Weight>>
  <2>1. CASE ReachNeighbors
    BY <2>1, ReachFacts
  <2>2. CASE NextBucket
    <3>1. UNCHANGED <<graph, pc, rm, label, fill, x>>
      BY <2>2 DEF NextBucket, input
    <3> QED
      BY <3>1 DEF OldRm, OldFill, Weight, FillOfSearch
  <2> QED
    BY <2>1, <2>2
<1>3. PICK f : IsRunOfMcsM(graph, f) /\ FollowsRun(f)
  BY <1>1 DEF StageInv
<1>4. \A s : IsSearched(s) => IsSearched(s)'
  BY <1>1, <1>2 DEF IsSearched, IsStage, PointsAfter
<1>5. FollowsRun(f)'
  BY <1>1, <1>3, <1>4 DEF FollowsRun
<1> QED
  BY <1>1, <1>3, <1>5 DEF StageInv

\* When the labels have been raised, the next stage is reached.
LEMMA RaiseStage ==
  ASSUME Inv, PathInv, StageInv, RaiseNeighbors
  PROVE  StageInv'
<1>1. /\ pc = "reach" /\ function = "Atoms"
      /\ UNCHANGED <<function, graph, order, fill, prev_label, maximal_points>>
      /\ IF rm = V(graph) THEN pc' = "atoms" ELSE pc' = "select" /\ rm' = rm
  BY DEF RaiseNeighbors, Inv, InputInv, input, searchVars
<1>2. PICK f : IsRunOfMcsM(graph, f) /\ FollowsRun(f)
  BY <1>1 DEF StageInv
<1>3. IsSearched(f[Len(order) - 1])
  BY <1>1, <1>2 DEF FollowsRun
<1>4. Len(order) >= 1 /\ order[1] = x /\ IsDistinct(order)
  BY <1>1 DEF PathInv, BucketPart, OrderPart
<1>5. graph.n \in Nat /\ Len(order) \in 1 .. graph.n /\ (rm = V(graph) => Len(order) = graph.n)
  <2>1. rm \in SUBSET V(graph) /\ Len(order) = Cardinality(rm) /\ Len(order) \in Nat
    BY <1>1 DEF Inv, TypeOK, McsMInv
  <2>2. graph.n \in Nat /\ Cardinality(V(graph)) = graph.n
        /\ \A S \in SUBSET V(graph) : Cardinality(S) \in 0 .. graph.n
    BY GraphFacts
  <2> QED
    BY <1>4, <2>1, <2>2
<1>6. PICK s : s = f[Len(order) - 1]
  OBVIOUS
<1>7. f[Len(order)] = McsMNext(graph, s)
  BY <1>2, <1>5, <1>6 DEF IsRunOfMcsM, Runs, LoopNext
<1>8. /\ s.left = V(graph) \ OldRm /\ s.order = Tail(order) /\ s.label = Weight /\ s.fill = OldFill
      /\ x = LastOfLargest(s.left, s.label)
      /\ prev_label = s.label[x]
      /\ maximal_points = IF s.label[x] <= s.prev THEN s.points \cup {x} ELSE s.points
  BY <1>3, <1>6 DEF IsSearched, IsStage, PointsAfter
<1> DEFINE raised == RaisedBy(graph, OldRm, Weight, x)
<1>9. Raised(graph, s.left \ {x}, s.label, x) = raised
  BY <1>5, <1>8, RaisedIs
<1>10. /\ OldRm \cup {x} = rm
       /\ fill = OldFill \cup ({{x, u} : u \in raised} \ graph.adj)
       /\ label' = [u \in V(graph) |-> IF u \in raised THEN Weight[u] + 1 ELSE Weight[u]]
  BY RaiseFacts DEF Numbers
<1> HIDE DEF raised
<1>11. f[Len(order)] = NumberedState(graph, s, x, raised)
  BY <1>7, <1>8, <1>9 DEF McsMNext
<1>12. IsStage(f[Len(order)], rm, order, label', fill, prev_label, maximal_points)
  <2> DEFINE t == f[Len(order)]
  <2>1. t.left = V(graph) \ rm
    <3>1. t.left = s.left \ {x}
      BY <1>11 DEF NumberedState
    <3> QED
      BY <1>8, <1>10, <3>1
  <2>2. t.order = order
    <3>1. order = <<order[1]>> \o Tail(order)
      BY <1>4, FirstApart DEF Inv, TypeOK
    <3> QED
      BY <1>4, <1>8, <1>11, <3>1 DEF NumberedState
  <2>3. t.label = label'
    BY <1>8, <1>10, <1>11 DEF NumberedState
  <2>4. t.fill = fill
    <3>1. \A u : HasEdge(graph, x, u) <=> {x, u} \in graph.adj
      BY DEF HasEdge
    <3>2. {{x, z} : z \in {u \in raised : ~HasEdge(graph, x, u)}} = {{x, u} : u \in raised} \ graph.adj
      BY <3>1
    <3>3. t.fill = s.fill \cup {{x, z} : z \in {u \in raised : ~HasEdge(graph, x, u)}}
      BY <1>11 DEF NumberedState
    <3> QED
      BY <1>8, <1>10, <3>2, <3>3
  <2>5. t.prev = prev_label /\ t.points = maximal_points
    BY <1>8, <1>11 DEF NumberedState
  <2> QED
    BY <2>1, <2>2, <2>3, <2>4, <2>5 DEF IsStage
<1>13. FollowsRun(f)'
  <2>1. CASE rm = V(graph)
    BY <1>1, <1>5, <1>12, <2>1 DEF FollowsRun, IsStage
  <2>2. CASE rm # V(graph)
    BY <1>1, <1>12, <2>2 DEF FollowsRun, IsStage
  <2> QED
    BY <2>1, <2>2
<1> QED
  BY <1>1, <1>2, <1>13 DEF StageInv

\* For every graph: the search goes through the stages of McsM.
LEMMA StageInvariant == Spec => []StageInv
<1>1. Inv /\ PathInv /\ StageInv /\ [Next]_vars => StageInv'
  <2> SUFFICES ASSUME Inv, PathInv, StageInv, [Next]_vars PROVE StageInv'
    OBVIOUS
  <2>1. CASE AtomAt \/ EndElimination \/ AtomOfRest \/ ReturnAtoms
    <3>1. /\ pc \in {"atoms", "rest"} /\ pc' \in {"atoms", "rest", "done"}
          /\ UNCHANGED <<function, graph, order, fill, maximal_points>>
      BY <2>1 DEF AtomAt, EndElimination, AtomOfRest, ReturnAtoms, input, searchVars
    <3>2. \A f : FollowsRun(f) => FollowsRun(f)'
      BY <3>1 DEF FollowsRun
    <3> QED
      BY <3>1, <3>2 DEF StageInv
  <2>2. CASE UNCHANGED vars
    <3>1. UNCHANGED <<function, graph, pc, label, rm, order, x, fill, prev_label, maximal_points>>
      BY <2>2 DEF vars, input, searchVars
    <3>2. UNCHANGED <<OldRm, OldFill, Weight>>
      BY <3>1 DEF OldRm, OldFill, Weight, FillOfSearch
    <3>3. \A s : IsSearched(s) => IsSearched(s)'
      BY <3>1, <3>2 DEF IsSearched, IsStage, PointsAfter
    <3>4. \A f : FollowsRun(f) => FollowsRun(f)'
      BY <3>1, <3>3 DEF FollowsRun, IsStage
    <3> QED
      BY <3>1, <3>4 DEF StageInv
  <2>3. CASE Enter \/ LowerMaxLabel \/ SkipRemoved \/ Number \/ MeasureWidth \/ CallAgain
    BY <2>3, TreewidthOnly DEF StageInv
  <2> QED
    BY <2>1, <2>2, <2>3, SelectStage, ReachStage, RaiseStage DEF Next, Finished
<1> QED
  BY <1>1, InitStage, InvariantHolds, PathInvariant, PTL DEF Spec

\* What the search has found is what McsM finds.
LEMMA FoundAtEnd ==
  ASSUME Inv, StageInv, function = "Atoms", pc \in {"atoms", "rest", "done"}
  PROVE  FoundByMcsM(graph, fill, order, maximal_points)
<1>1. PICK f : IsRunOfMcsM(graph, f) /\ FollowsRun(f)
  BY DEF StageInv
<1> DEFINE out == McsM(graph)
<1>2. out.fill = fill /\ out.order = order /\ out.points = maximal_points
  BY <1>1 DEF IsRunOfMcsM, FollowsRun
<1>3. FoundByMcsM(graph, out.fill, out.order, out.points)
  BY GraphFacts, McsMFinds
<1> HIDE DEF out
<1> QED
  BY <1>2, <1>3

-----------------------------------------------------------------------------
(* The atoms that are cut off. *)

\* The elimination has come to the vertex at it.
Eliminated ==
  /\ rm = EliminatedBefore(order, it)
  /\ AtomSearch(graph, fill, order, maximal_points, it, block, atoms)
  /\ \E f : /\ IsRunOfAtoms(graph, f)
            /\ f[it - 1] = [it |-> it, rm |-> rm, block |-> block, atoms |-> atoms]

\* One atom is left; and none is.
OneLeft ==
  /\ found = 0 /\ AtomSearch(graph, fill, order, maximal_points, graph.n + 1, block, atoms)
  /\ Atoms(graph, McsM(graph)) = Append(atoms, V(graph) \ block)
NoneLeft ==
  /\ found = 1 /\ AreAtoms(graph, atoms) /\ atoms = Atoms(graph, McsM(graph))
AtomsInv ==
  function = "Atoms" =>
    /\ pc \in {"select", "reach"} => it = 1 /\ block = {} /\ atoms = <<>>
    /\ pc = "atoms" => found = 0 /\ Eliminated
    /\ pc = "rest" => OneLeft \/ (NoneLeft /\ block = V(graph))
    /\ pc = "done" => NoneLeft

\* A vertex of the elimination, at which something is cut off or not.
LEMMA AtomAtAtoms ==
  ASSUME Inv, PathInv, StageInv, AtomsInv, AtomAt
  PROVE  AtomsInv'
<1> DEFINE v == order[it]
           cand == CandClique(v)
           component == FindComponent(graph, (block \cup cand) \ {v}, v)
           cuts == v \in maximal_points /\ IsClique(graph, cand)
<1>1. /\ pc = "atoms" /\ it <= graph.n /\ function = "Atoms" /\ pc' = "atoms"
      /\ rm' = rm \cup {v} /\ it' = it + 1
      /\ UNCHANGED <<function, graph, fill, order, maximal_points, found>>
  BY DEF AtomAt, Inv, InputInv, input, searchVars
<1>2. /\ cuts => atoms' = Append(atoms, component \cup cand) /\ block' = (block \cup component) \ cand
      /\ ~cuts => UNCHANGED <<atoms, block>>
  BY DEF AtomAt
<1>3. FoundByMcsM(graph, fill, order, maximal_points)
  BY <1>1, FoundAtEnd
<1>4. /\ found = 0 /\ rm = EliminatedBefore(order, it)
      /\ AtomSearch(graph, fill, order, maximal_points, it, block, atoms)
  BY <1>1 DEF AtomsInv, Eliminated
<1>5. PICK f : /\ IsRunOfAtoms(graph, f)
               /\ f[it - 1] = [it |-> it, rm |-> rm, block |-> block, atoms |-> atoms]
  BY <1>1 DEF AtomsInv, Eliminated
<1>6. graph.n \in Nat /\ it \in 1 .. graph.n /\ Numbering(graph, order)
  BY <1>1, <1>3, <1>4 DEF AtomSearch, FoundByMcsM, IsGraph
<1>7. cand = After(graph, fill, order, it)
  <2>1. cand = Neighbors(Filled(graph, fill), order[it]) \ rm
    BY DEF CandClique, Filling, Filled
  <2> HIDE DEF cand
  <2> QED
    BY <1>3, <1>4, <1>6, <2>1, CandidateAfter
<1>8. v \in V(graph) /\ v \notin cand /\ v \notin block /\ block \in SUBSET V(graph)
  BY <1>3, <1>4, <1>6, <1>7, AfterMember DEF AtomSearch, Passed
<1>9. rm' = EliminatedBefore(order, it + 1)
  <2>1. \A j : j \in 1 .. (it + 1) - 1 <=> j \in 1 .. it - 1 \/ j = it
    BY <1>6
  <2> QED
    BY <1>1, <1>4, <2>1 DEF EliminatedBefore
<1> HIDE DEF v, cand
<1>10. AtomSearch(graph, fill, order, maximal_points, it + 1, block', atoms')
  <2>1. CASE cuts
    <3>1. CutsOff(graph, fill, order, it, block, component, cand)
      <4>1. Passed(graph, order, it, block) /\ IsClique(graph, cand)
        BY <1>4, <2>1 DEF AtomSearch
      <4> QED
        BY <1>3, <1>6, <1>7, <4>1, CutFacts DEF v
    <3> HIDE DEF component
    <3>2. AtomSearch(graph, fill, order, maximal_points, it + 1,
                     (block \cup component) \ cand, Append(atoms, component \cup cand))
      BY <1>3, <1>4, <1>6, <2>1, <3>1, AtomsCut DEF v
    <3> QED
      BY <1>2, <2>1, <3>2
  <2>2. CASE ~cuts
    BY <1>2, <1>3, <1>4, <1>6, <1>7, <2>2, AtomsSkip DEF v
  <2> QED
    BY <2>1, <2>2
<1> DEFINE out == McsM(graph)
<1>11. out.fill = fill /\ out.order = order /\ out.points = maximal_points
  BY <1>1 DEF StageInv, IsRunOfMcsM, FollowsRun
<1>12. Reach(graph, V(graph) \ (block \cup cand), v) = component
  <2>1. (block \cup cand) \ {v} = block \cup cand /\ v \in V(graph) \ (block \cup cand)
    BY <1>8
  <2> QED
    BY <1>6, <2>1, ReachIsComponent
<1> HIDE DEF component, out
<1>13. f[it] = [it |-> it + 1, rm |-> rm \cup {v}, block |-> block', atoms |-> atoms']
  <2> DEFINE s == [it |-> it, rm |-> rm, block |-> block, atoms |-> atoms]
  <2>1. f[it] = AtomsNext(graph, out, s)
    BY <1>5, <1>6 DEF IsRunOfAtoms, Runs, LoopNext, out
  <2>2. AtomsNext(graph, out, s) = EliminatedState(graph, out, s, v, cand)
    BY <1>11 DEF AtomsNext, v, cand, CandClique, Filling, Filled
  <2>3. CASE cuts
    BY <1>2, <1>11, <1>12, <2>1, <2>2, <2>3 DEF EliminatedState
  <2>4. CASE ~cuts
    BY <1>2, <1>11, <2>1, <2>2, <2>4 DEF EliminatedState
  <2> QED
    BY <2>3, <2>4
<1>14. Eliminated'
  <2>1. it' - 1 = it
    BY <1>1, <1>6
  <2> QED
    BY <1>1, <1>5, <1>9, <1>10, <1>13, <2>1 DEF Eliminated
<1> QED
  BY <1>1, <1>4, <1>14 DEF AtomsInv

\* What is left when all vertices are eliminated is one component.
LEMMA RestAtoms ==
  ASSUME Inv, StageInv, AtomsInv, AtomOfRest \/ ReturnAtoms
  PROVE  AtomsInv'
<1>1. /\ pc = "rest" /\ function = "Atoms" /\ UNCHANGED <<function, graph, fill, order, maximal_points>>
      /\ graph.n \in Nat /\ graph.n >= 1
  <2>1. pc = "rest" /\ UNCHANGED <<function, graph, fill, order, maximal_points>>
    BY DEF AtomOfRest, ReturnAtoms, input, searchVars
  <2> QED
    BY <2>1, GraphFacts DEF Inv, InputInv
<1>2. FoundByMcsM(graph, fill, order, maximal_points)
  BY <1>1, FoundAtEnd
<1>3. OneLeft \/ (NoneLeft /\ block = V(graph))
  BY <1>1 DEF AtomsInv
<1> DEFINE R == V(graph) \ block
<1>4. OneLeft => /\ R # {} /\ block \in SUBSET V(graph)
                 /\ \A v \in R : FindComponent(graph, block, v) = R
                 /\ AreAtoms(graph, Append(atoms, R))
  BY <1>1, <1>2, RestIsComponent, AtomsEnd DEF OneLeft
<1>5. CASE ReturnAtoms
  <2>1. block = V(graph) /\ pc' = "done" /\ UNCHANGED <<atoms, found, block>>
    BY <1>5 DEF ReturnAtoms, atomVars
  <2>2. NoneLeft
    BY <1>3, <1>4, <2>1
  <2>3. NoneLeft'
    BY <1>1, <2>1, <2>2 DEF NoneLeft
  <2> QED
    BY <2>1, <2>3 DEF AtomsInv
<1>6. CASE AtomOfRest
  <2> DEFINE v == CHOOSE u \in V(graph) \ block : \A w \in V(graph) \ block : u <= w
             component == FindComponent(graph, block, v)
  <2>1. /\ block # V(graph) /\ atoms' = Append(atoms, component) /\ block' = block \cup component
        /\ found' = found + 1 /\ pc' = "rest"
    BY <1>1, <1>6 DEF AtomOfRest
  <2>2. OneLeft
    BY <1>3, <2>1
  <2>3. v \in R
    <3> HIDE DEF v, component
    <3>1. R \in SUBSET Nat /\ R # {}
      BY <1>4, <2>2 DEF V
    <3>2. \E m \in R : \A l \in R : m <= l
      BY <3>1, LeastElement
    <3> QED
      BY <3>2 DEF v
  <2>4. component = R
    <3> HIDE DEF v
    <3> QED
      BY <1>4, <2>2, <2>3
  <2> HIDE DEF component
  <2>5. block' = V(graph) /\ atoms' = Append(atoms, R) /\ found' = 1
    BY <1>4, <2>1, <2>2, <2>4 DEF OneLeft
  <2>6. NoneLeft'
    BY <1>1, <1>4, <2>2, <2>5 DEF NoneLeft, OneLeft
  <2> QED
    BY <1>1, <2>1, <2>5, <2>6 DEF AtomsInv
<1> QED
  BY <1>5, <1>6

\* Before Atoms begins it has nothing, and the elimination ends.
LEMMA OtherAtoms ==
  ASSUME Inv, StageInv, AtomsInv,
         Select \/ ReachNeighbors \/ NextBucket \/ RaiseNeighbors \/ EndElimination
  PROVE  AtomsInv' \/ pc' = "atoms"
<1>1. CASE Select \/ ReachNeighbors \/ NextBucket \/ RaiseNeighbors
  <2>1. /\ pc \in {"select", "reach"} /\ pc' \in {"select", "reach", "atoms"}
        /\ UNCHANGED <<function, it, block, atoms>>
    BY <1>1 DEF Select, ReachNeighbors, NextBucket, RaiseNeighbors, input, atomVars
  <2> QED
    BY <2>1 DEF AtomsInv
<1>2. CASE EndElimination
  <2>1. /\ pc = "atoms" /\ it > graph.n /\ pc' = "rest" /\ function = "Atoms"
        /\ UNCHANGED <<function, graph, fill, order, maximal_points, it, block, atoms, found>>
    BY <1>2 DEF EndElimination, Inv, InputInv, input, searchVars, atomVars
  <2>2. found = 0 /\ Eliminated
    BY <2>1 DEF AtomsInv
  <2>3. graph.n \in Nat /\ it \in 1 .. graph.n + 1
    BY <2>2, GraphFacts DEF Eliminated, AtomSearch
  <2>4. it = graph.n + 1 /\ it - 1 = graph.n
    BY <2>1, <2>3
  <2>5. OneLeft
    BY <2>2, <2>4 DEF Eliminated, OneLeft, IsRunOfAtoms
  <2>6. OneLeft'
    BY <2>1, <2>5 DEF OneLeft
  <2> QED
    BY <2>1, <2>6 DEF AtomsInv
<1> QED
  BY <1>1, <1>2

FoundInv ==
  function = "Atoms" /\ pc = "atoms" => FoundByMcsM(graph, fill, order, maximal_points)

\* Atoms begins with what the search has found.
LEMMA AtomsBeginRun ==
  ASSUME Inv, StageInv, AtomsInv, FoundInv', RaiseNeighbors, pc' = "atoms"
  PROVE  AtomsInv'
<1>1. /\ pc = "reach" /\ rm' = {} /\ function = "Atoms"
      /\ UNCHANGED <<function, graph, fill, order, maximal_points, it, block, atoms, found>>
  BY DEF RaiseNeighbors, Inv, InputInv, input, searchVars, atomVars
<1>2. it = 1 /\ block = {} /\ atoms = <<>> /\ found = 0
  BY <1>1 DEF AtomsInv, Inv, McsMInv
<1>3. graph.n \in Nat /\ graph.n >= 1
  BY GraphFacts
<1>4. FoundByMcsM(graph, fill, order, maximal_points)
  BY <1>1 DEF FoundInv
<1>5. AtomSearch(graph, fill, order, maximal_points, 1, {}, <<>>)
  BY <1>3, <1>4, AtomsBegin
<1>6. PICK f : IsRunOfAtoms(graph, f)
  BY <1>3, AtomsLoop DEF IsRunOfAtoms
<1>7. f[0] = [it |-> 1, rm |-> {}, block |-> {}, atoms |-> <<>>]
  BY <1>6 DEF IsRunOfAtoms, Runs, LoopStart
<1>8. Eliminated'
  <2>1. it' - 1 = 0 /\ EliminatedBefore(order', it') = {}
    BY <1>1, <1>2 DEF EliminatedBefore
  <2> QED
    BY <1>1, <1>2, <1>5, <1>6, <1>7, <2>1 DEF Eliminated
<1> QED
  BY <1>1, <1>2, <1>8 DEF AtomsInv

\* For every graph: what Atoms has cut off and what is left are right at every step.
LEMMA AtomsInvariant == Spec => []AtomsInv
<1>1. Init => AtomsInv
  BY DEF Init, AtomsInv
<1>2. Inv /\ StageInv => FoundInv
  BY FoundAtEnd DEF FoundInv
<1>3. Inv /\ PathInv /\ StageInv /\ FoundInv' /\ AtomsInv /\ [Next]_vars => AtomsInv'
  <2> SUFFICES ASSUME Inv, PathInv, StageInv, FoundInv', AtomsInv, [Next]_vars
               PROVE  AtomsInv'
    OBVIOUS
  <2>1. CASE Select \/ ReachNeighbors \/ NextBucket \/ RaiseNeighbors \/ EndElimination
    <3>1. CASE RaiseNeighbors
      BY <3>1, OtherAtoms, AtomsBeginRun
    <3>2. CASE Select \/ ReachNeighbors \/ NextBucket \/ EndElimination
      <4>1. pc' # "atoms"
        BY <3>2 DEF Select, ReachNeighbors, NextBucket, EndElimination
      <4> QED
        BY <2>1, <4>1, OtherAtoms
    <3> QED
      BY <2>1, <3>1, <3>2
  <2>2. CASE UNCHANGED vars
    <3>1. UNCHANGED <<function, graph, pc, rm, order, it, fill, maximal_points, block, atoms, found>>
      BY <2>2 DEF vars, input, searchVars, atomVars
    <3>2. UNCHANGED <<Eliminated, OneLeft, NoneLeft>>
      BY <3>1 DEF Eliminated, OneLeft, NoneLeft
    <3> QED
      BY <3>1, <3>2 DEF AtomsInv
  <2>3. CASE Enter \/ LowerMaxLabel \/ SkipRemoved \/ Number \/ MeasureWidth \/ CallAgain
    BY <2>3, TreewidthOnly DEF AtomsInv
  <2> QED
    BY <2>1, <2>2, <2>3, AtomAtAtoms, RestAtoms DEF Next, Finished
<1> QED
  BY <1>1, <1>2, <1>3, InvariantHolds, PathInvariant, StageInvariant, PTL DEF Spec

\* For every graph, with any numbers of its vertices: Atoms returns every atom of
\* the graph once, although it looks for clique separators only where the labels
\* stop growing, one component is left at the end, and what it returns is what the
\* functions McsM and Atoms of Elimination give.
THEOREM AtomsReturned == Spec => []AtomsExact
<1>1. StageInv /\ AtomsInv => AtomsExact
  <2> SUFFICES ASSUME StageInv, AtomsInv, pc = "done", function = "Atoms" PROVE AtomsExact
    BY DEF AtomsExact
  <2>1. NoneLeft
    BY DEF AtomsInv
  <2>2. PICK f : IsRunOfMcsM(graph, f) /\ FollowsRun(f)
    BY DEF StageInv
  <2> DEFINE out == McsM(graph)
  <2>3. out.fill = fill /\ out.order = order /\ out.points = maximal_points
    BY <2>2 DEF IsRunOfMcsM, FollowsRun
  <2>4. atoms = Atoms(graph, out) /\ found = 1 /\ AreAtoms(graph, atoms)
    BY <2>1 DEF NoneLeft
  <2> HIDE DEF out
  <2>5. \E o \in {out} : /\ o.fill = fill /\ o.order = order /\ o.points = maximal_points
                         /\ atoms = Atoms(graph, o)
    BY <2>3, <2>4
  <2> QED
    BY <2>4, <2>5 DEF AtomsExact, AreAtoms, out
<1> QED
  BY <1>1, StageInvariant, AtomsInvariant, PTL
=============================================================================

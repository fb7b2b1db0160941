---------------------------- MODULE BtAlgorithm ----------------------------
(***************************************************************************)
(* BtAlgorithm::Solve (bt_algorithm.cpp): the Bouchitte-Todinca dynamic     *)
(* program.  Given potential maximal cliques of a graph, it looks for a      *)
(* minimal triangulation of least width whose maximal cliques are all among *)
(* them, and returns its width and fill edges, or -1.                       *)
(*                                                                         *)
(* The ids that IdSet gives to separators and components stand for the sets *)
(* themselves, and an index into pmcs for the clique.  A state of the       *)
(* program is a pair of a separator and a component.  std::sort leaves       *)
(* triplets of equal size in any order, so any of them may come next.       *)
(***************************************************************************)
EXTENDS GraphTheory

CONSTANTS Graphs,    \* the graphs Solve may be called for
          Inputs     \* [Graphs -> the sets of cliques it may be called with]

ASSUME GraphsAssumption == \A g \in Graphs : IsGraph(g) /\ g.n >= 1

\* The callers pass vectors of distinct potential maximal cliques.
ASSUME InputsAssumption ==
  \A g \in Graphs : \A P \in Inputs[g] : \A X \in P : X \subseteq V(g) /\ IsPmc(g, X)

VARIABLES graph,        \* the graph
          pmcs,         \* the cliques
          pc,           \* the phase of Solve
          triplets,     \* all triplets <<clique, separator, component>>
          todo,         \* those the loop has not come to
          dp,           \* [states -> cost], partial
          opt_choice,   \* [states -> clique], partial
          reconstruct,  \* the states in the queue
          fill,         \* the edges in fill_edges
          pushed,       \* how many push_backs fill_edges has had
          width         \* the first component of the result

inputs == <<graph, pmcs>>
tables == <<dp, opt_choice>>
result == <<fill, pushed, width>>
vars == <<inputs, pc, triplets, todo, tables, reconstruct, result>>

RootState == <<{}, V(graph)>>

\* Planted fault: the smaller cost.
MergeCostMin(c1, c2) == IF c1 <= c2 THEN c1 ELSE c2

MergeCost(c1, c2) == IF c1 >= c2 THEN c1 ELSE c2

CliqueCost(pmc) == Cardinality(pmc) - 1

\* The components of graph - pmc inside comp, each with its neighbourhood.
ChildStates(pmc, comp) ==
  {<<NeighborsOf(graph, C), C>> : C \in {FindComponent(graph, pmc, v) : v \in comp \ pmc}}

\* The block that pmc is the top clique of, seen across a separator S inside it:
\* the component of what S leaves of pmc (SolveAssertions: there is one).
BlocksAcross(pmc, S) == {<<pmc, S, FindComponent(graph, S, v)>> : v \in pmc \ S}

\* The blocks of pmc: one for each component outside pmc, across that
\* component's neighbourhood, and the whole graph.
TripletsOf(pmc) ==
  (UNION {BlocksAcross(pmc, NeighborsOf(graph, C)) : C \in Components(graph, pmc)})
  \cup {<<pmc, RootState[1], RootState[2]>>}

\* Planted fault: the separator's size only.
SizeOfSeparator(t) == Cardinality(t[2])

\* The order of the sort.
SizeOf(t) == Cardinality(t[2]) + Cardinality(t[3])

\* f with the value y at x.
Update(f, x, y) == [s \in DOMAIN f \cup {x} |-> IF s = x THEN y ELSE f[s]]

-----------------------------------------------------------------------------
TypeOK ==
  /\ graph \in Graphs
  /\ pmcs \subseteq SUBSET V(graph)
  /\ pc \in {"triplets", "dp", "reconstruct", "done"}
  /\ triplets \subseteq pmcs \X (SUBSET V(graph)) \X (SUBSET V(graph))
  /\ todo \subseteq triplets
  /\ DOMAIN dp \subseteq {<<t[2], t[3]>> : t \in triplets}
  /\ DOMAIN opt_choice = DOMAIN dp
  /\ \A s \in DOMAIN dp : dp[s] \in 0 .. (graph.n - 1) /\ opt_choice[s] \in pmcs
  /\ fill \subseteq Pairs(V(graph))
  /\ pushed \in Nat
  /\ width \in -1 .. (graph.n - 1)

Init ==
  /\ graph \in Graphs
  /\ pmcs \in Inputs[graph]
  /\ pc = "triplets"
  /\ triplets = {} /\ todo = {}
  /\ dp = <<>> /\ opt_choice = <<>>
  /\ reconstruct = {}
  /\ fill = {} /\ pushed = 0 /\ width = -1

BuildTriplets ==
  /\ pc = "triplets"
  /\ triplets' = UNION {TripletsOf(pmc) : pmc \in pmcs}
  /\ todo' = triplets'
  /\ pc' = "dp"
  /\ UNCHANGED <<inputs, tables, reconstruct, result>>

\* A child has no entry yet, or one of its sets was never given an id and IdOf
\* reads past the end of its map.  With libstdc++ that is half of a pointer,
\* the end of the storage of elements_, which is allocated as Solve inserts the
\* sets of the root first: no id, so dp has no such key.
ChildMissing(t) ==
  /\ ChildStates(t[1], t[3]) \ DOMAIN dp # {}
  /\ UNCHANGED tables

\* The cost of making t[1] the top clique of the block t[2], t[3].
CostOf(t) ==
  LET Costs == {dp[s] : s \in ChildStates(t[1], t[3])} \cup {CliqueCost(t[1])}
  IN  CHOOSE m \in Costs : \A y \in Costs : MergeCost(m, y) = m

Keeps(t) ==
  LET state == <<t[2], t[3]>>
  IN  /\ ChildStates(t[1], t[3]) \subseteq DOMAIN dp
      /\ IF state \notin DOMAIN dp \/ CostOf(t) < dp[state]
         THEN /\ dp' = Update(dp, state, CostOf(t))
              /\ opt_choice' = Update(opt_choice, state, t[1])
         ELSE UNCHANGED tables

\* One turn of the loop over the sorted triplets.
ProcessTriplet(t) ==
  /\ pc = "dp"
  /\ t \in todo
  /\ \A u \in todo : SizeOf(t) <= SizeOf(u)
  /\ ChildMissing(t) \/ Keeps(t)
  /\ todo' = todo \ {t}
  /\ UNCHANGED <<inputs, pc, triplets, reconstruct, result>>

NoSolution ==
  /\ pc = "dp" /\ todo = {}
  /\ RootState \notin DOMAIN dp
  /\ pc' = "done"
  /\ UNCHANGED <<inputs, triplets, todo, tables, reconstruct, result>>

StartReconstruct ==
  /\ pc = "dp" /\ todo = {}
  /\ RootState \in DOMAIN dp
  /\ reconstruct' = {RootState}
  /\ pc' = "reconstruct"
  /\ UNCHANGED <<inputs, triplets, todo, tables, result>>

\* Planted fault: both ends must be outside the separator.
FillOfOutside(s) == {e \in Pairs(opt_choice[s]) \ graph.adj : e \cap s[1] = {}}

\* The pairs that the clique chosen for a state adds: its non-edges, except
\* inside the separator, which an earlier state has filled.
FillOf(s) ==
  {e \in Pairs(opt_choice[s]) \ graph.adj : ~(e \subseteq s[1])}

\* One turn of the queue's loop.
ReconstructState(s) ==
  /\ pc = "reconstruct"
  /\ s \in reconstruct
  /\ fill' = fill \cup FillOf(s)
  /\ pushed' = pushed + Cardinality(FillOf(s))
  /\ reconstruct' = (reconstruct \ {s}) \cup ChildStates(opt_choice[s], s[2])
  /\ UNCHANGED <<inputs, pc, triplets, todo, tables, width>>

ReturnSolution ==
  /\ pc = "reconstruct" /\ reconstruct = {}
  /\ width' = dp[RootState]
  /\ pc' = "done"
  /\ UNCHANGED <<inputs, triplets, todo, tables, reconstruct, fill, pushed>>

Returned == pc = "done" /\ UNCHANGED vars

Next == \/ BuildTriplets
        \/ \E t \in todo : ProcessTriplet(t)
        \/ NoSolution \/ StartReconstruct
        \/ \E s \in reconstruct : ReconstructState(s)
        \/ ReturnSolution
        \/ Returned

Spec == Init /\ [][Next]_vars

-----------------------------------------------------------------------------
(* Properties *)

\* Solve returns the least width of a minimal triangulation that can be put
\* together from the cliques it was given, and -1 iff there is none, whatever
\* the order of equal triplets.
ResultIsBest == pc = "done" => width = WidthFrom(graph, pmcs)

\* The fill edges returned make the graph chordal with just that width, and no
\* edge is pushed twice.
FillTriangulates ==
  pc = "done" /\ width >= 0 =>
    /\ fill \subseteq NonEdges(graph)
    /\ IsChordal(Filled(graph, fill))
    /\ WidthOf(graph, fill) = width
    /\ pushed = Cardinality(fill)

\* The assertions of Solve: a separator leaves out a vertex of its clique, the
\* rest of the clique lies in one component, and a queued state has an entry.
SolveAssertions ==
  /\ TypeOK
  /\ pc = "triplets" =>
       \A pmc \in pmcs : \A C \in Components(graph, pmc) :
         LET S == NeighborsOf(graph, C)
         IN  /\ Cardinality(S) < Cardinality(pmc)
             /\ Cardinality({FindComponent(graph, S, v) : v \in pmc \ S}) = 1
  /\ reconstruct \subseteq DOMAIN dp

\* The order of the triplets makes an entry final before it is read: an entry
\* is never made or lowered after a triplet that has it as a child was passed.
EntriesFinalWhenRead ==
  [][\A s \in {<<t[2], t[3]>> : t \in triplets} :
       (s \in DOMAIN dp' /\ (s \in DOMAIN dp => dp'[s] # dp[s])) =>
         \A t \in triplets \ todo : s \notin ChildStates(t[1], t[3])]_vars
=============================================================================

------------------------------ MODULE CombEnum ------------------------------
(***************************************************************************)
(* comb_enumerator (comb_enum.cpp): Pmcs adds the vertices of a graph one by *)
(* one and updates its potential maximal cliques from the minimal separators *)
(* before and after; FindMinSeps finds those.  CountMinseps (solver.cpp)     *)
(* calls FindMinSeps alone, with a bound, for one instance after the other.  *)
(*                                                                         *)
(* A vector of vertex sets is the set of its elements, as duplicates are      *)
(* looked up in ff and tried or removed by SortAndDedup.  FindMinSeps goes     *)
(* through the vector that it appends to; here any separator may be next.   *)
(***************************************************************************)
EXTENDS GraphTheory, Sequences

CONSTANTS CombGraphs,    \* the graphs that Pmcs may be called for
          CountInputs    \* the instances, a sequence of graphs, and the bound of CountMinseps

ASSUME CombGraphsAssumption == \A g \in CombGraphs : IsGraph(g) /\ g.n >= 1
ASSUME CountInputsAssumption ==
  \A input \in CountInputs :
    /\ input[1] \in Seq({input[1][i] : i \in DOMAIN input[1]})
    /\ \A i \in 1 .. Len(input[1]) : IsGraph(input[1][i]) /\ input[1][i].n >= 1
    /\ input[2] \in Nat /\ input[2] > 1

NoBound == -1

VARIABLES pc,
          graphs,       \* the argument of Pmcs, or the instances of CountMinseps
          counted,      \* how many of those are done
          ub,           \* the bound of FindMinSeps
          new_graph,    \* the graph of the vertices added so far
          added,        \* those vertices
          x,            \* the last one of them
          pmcs,
          minseps,      \* the minimal separators before x was added
          found,        \* the separators in FindMinSeps' vector
          expanded,     \* those its loop has passed
          ans,          \* of CountMinseps
          aborted       \* an assertion has failed

vars == <<pc, graphs, counted, ub, new_graph, added, x, pmcs, minseps, found, expanded, ans, aborted>>

Init ==
  /\ \/ pc = "pmcs" /\ graphs \in {<<g>> : g \in CombGraphs} /\ ub = NoBound
     \/ pc = "count" /\ \E input \in CountInputs : graphs = input[1] /\ ub = input[2]
  /\ new_graph = [n |-> 0, adj |-> {}] /\ added = {} /\ x = 0
  /\ pmcs = {} /\ minseps = {} /\ found = {} /\ expanded = {}
  /\ counted = 0 /\ ans = 0 /\ aborted = FALSE

IsConnectedOrIsolated(g) ==
  \A C, D \in Components(g, {}) : Cardinality(C) > 1 /\ Cardinality(D) > 1 => C = D

\* Mcs, whose order Pmcs reverses, may give any of these vertices next.
NextInOrder(g, S) ==
  LET Number(v) == Cardinality(Neighbors(g, v) \cap S)
  IN  {v \in V(g) \ S : \A w \in V(g) \ S : Number(w) <= Number(v)}

\* The begin of Pmcs, with the first vertex.
StartPmcs ==
  /\ pc = "pmcs"
  /\ LET g == graphs[1]
     IN  /\ \E v \in NextInOrder(g, {}) :
              /\ x' = v /\ added' = {v} /\ pmcs' = {{v}}
         /\ new_graph' = [n |-> g.n, adj |-> {}]
         /\ aborted' = ~IsConnectedOrIsolated(g)
  /\ pc' = IF aborted' THEN "done" ELSE "add"
  /\ UNCHANGED <<graphs, counted, ub, minseps, found, expanded, ans>>

\* The next vertex with its edges to those before it.
AddVertex ==
  /\ pc = "add" /\ added # V(new_graph)
  /\ \E v \in NextInOrder(graphs[1], added) :
       /\ x' = v /\ added' = added \cup {v}
       /\ new_graph' = [new_graph EXCEPT !.adj =
                          @ \cup {{v, w} : w \in Neighbors(graphs[1], v) \cap added}]
  /\ aborted' = ~IsConnectedOrIsolated(new_graph')
  /\ pc' = IF aborted' THEN "done" ELSE "seed"
  /\ UNCHANGED <<graphs, counted, ub, pmcs, minseps, found, expanded, ans>>

\* CountMinseps turns to its next instance.
CountNext ==
  /\ pc = "count" /\ counted < Len(graphs) /\ ans <= ub
  /\ counted' = counted + 1
  /\ new_graph' = graphs[counted']
  /\ pc' = "seed"
  /\ UNCHANGED <<graphs, ub, added, x, pmcs, minseps, found, expanded, ans, aborted>>

\* The neighbourhoods of what is left of g without a block.
SeparatorsAround(g, block) == {NeighborsOf(g, C) : C \in Components(g, block)}

\* FindMinSeps: the separators close to a vertex.
SeedMinSeps ==
  /\ pc = "seed"
  /\ found' = UNION {SeparatorsAround(new_graph, Neighbors(new_graph, v) \cup {v}) :
                       v \in {w \in V(new_graph) : Neighbors(new_graph, w) # {}}}
  /\ expanded' = {}
  /\ pc' = "expand"
  /\ UNCHANGED <<graphs, counted, ub, new_graph, added, x, pmcs, minseps, ans, aborted>>

\* Planted fault: one separator too few is enough.
BoundReachedEarly == ub # NoBound /\ Cardinality(found) >= ub - 1

BoundReached == ub # NoBound /\ Cardinality(found) >= ub

\* Planted fault: the separator itself is not in the block.
BlockAtNeighbors(minsep, v) == {v} \cup Neighbors(new_graph, v)

\* The block with which a separator is moved off one of its vertices.
BlockAt(minsep, v) == minsep \cup Neighbors(new_graph, v)

\* The loop of FindMinSeps for one separator.
ExpandMinSep ==
  /\ pc = "expand" /\ ~BoundReached
  /\ \E minsep \in found \ expanded :
       /\ found' = found \cup UNION {SeparatorsAround(new_graph, BlockAt(minsep, v)) : v \in minsep}
       /\ expanded' = expanded \cup {minsep}
  /\ UNCHANGED <<pc, graphs, counted, ub, new_graph, added, x, pmcs, minseps, ans, aborted>>

ReturnMinSeps ==
  /\ pc = "expand" /\ (BoundReached \/ expanded = found)
  /\ IF ub = NoBound THEN pc' = "update" /\ UNCHANGED ans
                     ELSE pc' = "count" /\ ans' = ans + Cardinality(found)
  /\ UNCHANGED <<graphs, counted, ub, new_graph, added, x, pmcs, minseps, found, expanded, aborted>>

\* dfs1 reaches all of sep from some vertex.
HasFullComponent(g, sep) == \E C \in Components(g, sep) : NeighborsOf(g, C) = sep

\* dfs2 from v reaches all of S.
Extends(g, S, v) == S \subseteq NeighborsOf(g, FindComponent(g, S, v))

\* comb_enumerator's own test for a potential maximal clique.
IsPmcByDfs(g, pmc) ==
  /\ ~HasFullComponent(g, pmc)
  /\ \A v \in pmc : Extends(g, pmc \ {v}, v)

\* Planted fault: a clique that x joins is kept without it too.
OldPmcsBoth(g) ==
  pmcs \cup {K \cup {x} : K \in {P \in pmcs : HasFullComponent(g, P) /\ Extends(g, P, x)}}

\* The old cliques, with x where it is needed.
OldPmcs(g) ==
  {P \in pmcs : ~HasFullComponent(g, P)}
    \cup {P \cup {x} : P \in {Q \in pmcs : HasFullComponent(g, Q) /\ Extends(g, Q, x)}}

\* Planted fault: separators with x are looked at too.
SeparatorsOffXAll == found

\* The new separators that the loop does not pass over.
SeparatorsOffX == {S \in found : x \notin S}

\* x together with a separator.
PmcsWithX(g) ==
  {S \cup {x} : S \in {T \in SeparatorsOffX :
                         Extends(g, T, x) /\ ~HasFullComponent(g, T \cup {x})}}

\* A separator that was none before, with what another one has in one of its
\* components.  The walk along both sorted vectors tells which are new.
PmcsFromPairs(g) ==
  {K \in UNION {UNION {{S \cup (T \cap C) : T \in {U \in found : U \cap C # {}}} :
                         C \in Components(g, S)} : S \in SeparatorsOffX \ minseps} :
     IsPmcByDfs(g, K)}

\* OneMoreVertex, whose assertions are those of dfs2 on x and on the number
\* of components.
OneMoreVertex ==
  /\ pc = "update"
  /\ pmcs' = OldPmcs(new_graph) \cup PmcsWithX(new_graph) \cup PmcsFromPairs(new_graph)
  /\ minseps' = found
  /\ aborted' = \/ \E P \in pmcs : x \in P /\ HasFullComponent(new_graph, P)
                \/ \E S \in SeparatorsOffX : x \in S
                \/ \E S \in SeparatorsOffX \ minseps : Cardinality(Components(new_graph, S)) < 2
  /\ pc' = IF aborted' THEN "done" ELSE "add"
  /\ UNCHANGED <<graphs, counted, ub, new_graph, added, x, found, expanded, ans>>

ReturnPmcs ==
  /\ pc = "add" /\ added = V(new_graph)
  /\ pc' = "done"
  /\ UNCHANGED <<graphs, counted, ub, new_graph, added, x, pmcs, minseps, found, expanded, ans, aborted>>

\* The result of CountMinseps is in ans.
ReturnCount ==
  /\ pc = "count" /\ (counted = Len(graphs) \/ ans > ub)
  /\ ans' = IF ans <= ub THEN ans ELSE ub
  /\ pc' = "done"
  /\ UNCHANGED <<graphs, counted, ub, new_graph, added, x, pmcs, minseps, found, expanded, aborted>>

Finished == pc = "done" /\ UNCHANGED vars

Next == \/ StartPmcs \/ AddVertex \/ CountNext \/ SeedMinSeps \/ ExpandMinSep
        \/ ReturnMinSeps \/ OneMoreVertex \/ ReturnPmcs \/ ReturnCount \/ Finished

Spec == Init /\ [][Next]_vars

-----------------------------------------------------------------------------
(* Properties *)

MinimalSeparators(g) == {S \in SUBSET V(g) : IsMinimalSeparator(g, S)}

TypeOK ==
  /\ pc \in {"pmcs", "count", "add", "seed", "expand", "update", "done"}
  /\ \A i \in 1 .. Len(graphs) : IsGraph(graphs[i])
  /\ counted \in 0 .. Len(graphs)
  /\ ub \in {NoBound} \cup (Nat \ {0, 1})
  /\ IsGraph(new_graph) /\ added \subseteq V(new_graph)
  /\ x \in Nat /\ (added # {} => x \in added)
  /\ pmcs \subseteq SUBSET added
  /\ minseps \subseteq SUBSET added
  /\ pc \in {"expand", "update"} => found \subseteq SUBSET V(new_graph)
  /\ expanded \subseteq found
  /\ ans \in Nat /\ aborted \in BOOLEAN

\* Adding one vertex after the other loses and invents no potential maximal
\* clique: after every vertex they are those that Graph::IsPmc accepts, the test
\* the other enumerator trusts, and at the end both are the maximal cliques of
\* the minimal triangulations.
PmcsExact ==
  pc = "add" =>
    /\ pmcs = {K \in (SUBSET added) \ {{}} : IsPmc(new_graph, K)}
    /\ added = V(new_graph) => pmcs = PotentialMaximalCliques(new_graph)

\* FindMinSeps without a bound finds all minimal separators and nothing else,
\* the empty one among them while there are vertices to add.
MinSepsExact ==
  /\ TypeOK
  /\ pc = "update" => found = MinimalSeparators(new_graph)

\* How many minimal separators the first instances have.
SeparatorTotals(gs) ==
  LET total[i \in 0 .. Len(gs)] ==
        IF i = 0 THEN 0 ELSE total[i - 1] + Cardinality(MinimalSeparators(gs[i]))
  IN  total

\* The bound stops the search without changing the result: it is the number
\* of minimal separators of all instances, or the bound if that is less.
CountExact ==
  pc = "done" /\ ub # NoBound =>
    LET all == SeparatorTotals(graphs)[Len(graphs)]
    IN  ans = IF all <= ub THEN all ELSE ub

\* No assertion of Pmcs, dfs2 and OneMoreVertex fails.
AssertionsHold == ~aborted
=============================================================================

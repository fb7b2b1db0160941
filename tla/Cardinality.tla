---------------------------- MODULE Cardinality ----------------------------
(***************************************************************************)
(* CardinalityNetworkBuilder and TotalizerBuilder                            *)
(* (cardinality_constraint_builder.cpp) at work on a SatInterface: what       *)
(* FixedSizeEnumerator has them build in its constructor and between the       *)
(* solver's calls, with its assumptions and its reading of models.  The rest    *)
(* of the encoding is stood for by one selection of the inputs that it leaves  *)
(* possible, so that the solver's answer is what the constraint makes of it.  *)
(***************************************************************************)
EXTENDS SortingNetwork, TotalizerTree

CONSTANT Instances   \* the numbers of inputs with the solvers they are tried with

ASSUME InstancesAssumption == Instances \subseteq (Nat \ {0, 1}) \X Solvers

VARIABLES n,             \* the number of inputs
          selected,      \* those that are true in the model that is left possible
          card_encoding, \* card_encoding_
          network,       \* cardinality_network_
          cur_size,      \* cur_size_ of tb_
          k,             \* the round
          first_call,    \* no model has been found in this round
          pc,            \* the next step of AllPmcs
          found          \* the selections read from models, with their rounds

vars == <<interface, n, selected, card_encoding, network, cur_size, k, first_call, pc, found>>

instance == <<solver, n, selected, card_encoding>>

XVar(i) == Pos(<<"x", i, 0, 0>>)
XVars == [i \in 1 .. n |-> XVar(i - 1)]

\* A literal of the totalizer's tree.
NodeLit(lit) == CASE lit[2] = 0 -> TrueLit
                  [] lit[2] > 0 /\ IsLeaf(lit[1]) -> XVar(lit[1][1])
                  [] OTHER -> Pos(<<"node", lit[1][1], lit[1][2], lit[2]>>)

VarsIn(cls) == {lit[1] : lit \in UNION cls} \ {TrueLit[1]}

\* The literals of nodes that BuildNode makes up to a size.
InnerLits(size) ==
  {NodeLit(<<v, i>>) : <<v, i>> \in
     {<<u, j>> \in (Nodes(n) \ {Root(n)}) \X (1 .. n) : ~IsLeaf(u) /\ j < LitsAt(n, u, size)}}

\* Planted fault: BuildNode does not freeze what it makes.
FrozenInBuildNodeNone(size) == {}

\* What BuildNode freezes.
FrozenInBuildNode(size) == {lit[1] : lit \in InnerLits(size)}

Init ==
  /\ \E chosen \in Instances : n = chosen[1] /\ solver = chosen[2]
  /\ selected \in SUBSET (0 .. n - 1)
  /\ card_encoding \in {0, 1}
  /\ made = {} /\ clauses = {} /\ frozen = {} /\ removable = {} /\ model = {}
  /\ state = "kInput"
  /\ network = <<>> /\ cur_size = -1
  /\ k = 0 /\ first_call = TRUE
  /\ pc = "new" /\ found = {}

\* The constructors: the inputs, frozen, and EqualNetwork or Init over them,
\* with frozen outputs.
Construct ==
  /\ pc = "new"
  /\ \E net \in {IF card_encoding = 0 THEN EqualNetwork(XVars)
                 ELSE [out |-> [i \in 1 .. n |-> NodeLit(<<Root(n), i>>)], clauses |-> {}]} :
       /\ network' = net.out
       /\ made' = VarsIn(net.clauses) \cup {XVar(i)[1] : i \in 0 .. n - 1}
                    \cup {net.out[i][1] : i \in 1 .. n}
       /\ clauses' = Passed(net.clauses)
       /\ Freeze({XVar(i)[1] : i \in 0 .. n - 1} \cup {net.out[i][1] : i \in 1 .. n})
  /\ pc' = "round"
  /\ UNCHANGED <<instance, removable, state, model, cur_size, k, first_call, found>>

\* BuildToSize(size), with all of Build and BuildNode.
BuildToSize(size) ==
  IF cur_size >= size
  THEN UNCHANGED <<made, clauses, frozen, state, cur_size>>
  ELSE \E new \in {{{Minus(NodeLit(cl[1])), Minus(NodeLit(cl[2])), NodeLit(cl[3])} :
                     cl \in NewClauses(n, cur_size, size)}} :
         /\ made' = made \cup {lit[1] : lit \in InnerLits(size)}
         /\ clauses' = clauses \cup Passed(new)
         /\ Freeze(FrozenInBuildNode(size))
         /\ state' = "kInput"
         /\ cur_size' = size

\* AllPmcs(k + 1) up to its loop, where a size that is too large does not end it.
AllPmcs ==
  /\ pc = "round" /\ k < n
  /\ IF card_encoding = 1 THEN k + 2 <= n /\ BuildToSize(k + 2)
     ELSE UNCHANGED <<made, clauses, frozen, state, cur_size>>
  /\ k' = k + 1 /\ first_call' = TRUE
  /\ pc' = "solve"
  /\ UNCHANGED <<instance, removable, model, network, found>>

Selection == {IF i \in selected THEN XVar(i) ELSE Minus(XVar(i)) : i \in 0 .. n - 1}

\* The first k outputs are assumed to be true and the others false.
Assumptions == {IF i <= k THEN network[i] ELSE Minus(network[i]) : i \in DOMAIN network}

\* The literals of the external solver that a set of literals forces.
Forced(lits) == Propagate(clauses, {External(lit) : lit \in lits})

\* Solve(assumptions, first_call): what the selection forces decides the answer.
Solve ==
  /\ pc = "solve"
  /\ removable' = IF Preprocesses /\ first_call THEN removable \cup (made \ frozen) ELSE removable
  /\ \E sat \in {IsConsistent(Forced(Selection \cup Assumptions))} :
       /\ state' = IF sat THEN "kSat" ELSE "kUnsat"
       /\ model' = IF sat THEN {lit[1] : lit \in {el \in {External(l) : l \in Selection} : el[2]}}
                          ELSE {}
       /\ pc' = IF sat THEN "read" ELSE "round"
  /\ UNCHANGED <<instance, made, clauses, frozen, network, cur_size, k, first_call, found>>

\* GetPmc reads a selection, adds the clause that blocks it and returns it.
ReadModel ==
  /\ pc = "read" /\ MayReadValues
  /\ \E solution \in {{i \in 0 .. n - 1 : SolutionValue(XVar(i))}} :
       /\ clauses' = clauses \cup
            Passed({{IF i \in solution THEN Minus(XVar(i)) ELSE XVar(i) : i \in 0 .. n - 1}})
       /\ found' = found \cup {<<k, solution>>}
  /\ state' = "kInput"
  /\ first_call' = FALSE
  /\ pc' = "solve"
  /\ UNCHANGED <<instance, made, frozen, removable, model, network, cur_size, k>>

\* The driver stops after any round.
Stop ==
  /\ pc = "round"
  /\ pc' = "stopped"
  /\ UNCHANGED <<interface, n, selected, card_encoding, network, cur_size, k, first_call, found>>

Stopped == pc = "stopped" /\ UNCHANGED vars

Next == Construct \/ AllPmcs \/ Solve \/ ReadModel \/ Stop \/ Stopped

Spec == Init /\ [][Next]_vars

-----------------------------------------------------------------------------
(* Properties *)

TypeOK ==
  /\ <<n, solver>> \in Instances
  /\ pc \in {"new", "round", "solve", "read", "stopped"}
  /\ state \in {"kInput", "kSat", "kUnsat"}
  /\ frozen \subseteq made /\ removable \subseteq made
  /\ pc # "new" => Len(network) = n /\ \A i \in 1 .. n : network[i][1] \in made
  /\ VarsIn(clauses) \subseteq made

\* The inputs force what is counted, and no more, whatever the solver does with
\* signs: a network has its i-th output true iff there are i selected inputs, and
\* false otherwise; each node of the totalizer counts the selected inputs below
\* it up to the size built, and says nothing of what is beyond (EqualNetwork,
\* Card, HSort, HMerge; BuildToSize, Build, BuildNode).
CountsExact ==
  /\ TypeOK
  /\ pc = "solve" /\ found = {} =>
       \E forced \in {Forced(Selection)} :
         LET Count(l, r) == Cardinality(selected \cap (l .. r))
         IN  IF card_encoding = 0
             THEN \A i \in 1 .. n :
                    /\ External(network[i]) \in forced <=> i <= Count(0, n - 1)
                    /\ External(Minus(network[i])) \in forced <=> i > Count(0, n - 1)
             ELSE \A v \in {u \in Nodes(n) : ~IsLeaf(u)} : \A i \in 1 .. Size(v) :
                    External(NodeLit(<<v, i>>)) \in forced <=> i <= cur_size /\ i <= Count(v[1], v[2])

\* A selection is found in the round of its size, the empty one with a totalizer
\* in the first round, it is read from the model as it is, and found once: no
\* round that is over has missed it, and no later one finds it again (AllPmcs,
\* the SolutionValue of each class, and the clause GetPmc adds).
FoundInItsRound ==
  LET size == Cardinality(selected)
      round == IF size = 0 /\ card_encoding = 1 THEN 1 ELSE size
  IN  /\ found \subseteq {<<round, selected>>}
      /\ pc \in {"round", "stopped"} /\ k >= round /\ round > 0 => found # {}
      /\ pc = "read" => found = {} /\ MayReadValues

\* No clause is added over a variable that a Solve before may have removed: the
\* nodes that later sizes are made of are all frozen (cardinality_constraint_
\* builder.cpp:249, and the FreezeVar calls of the constructors).
ClausesOnKeptVars == [][VarsIn(clauses' \ clauses) \cap removable = {}]_vars

\* AddEqual's clauses leave exactly the selections of k inputs possible,
\* though Card is given only a power of two more than k of its outputs to sort
\* (AddEqual, Card, SMerge).
AddEqualExact ==
  pc = "new" /\ card_encoding = 0 =>
    \A count \in 1 .. n - 1 :
      \E cls \in {AddEqual(XVars, count)} :
        /\ AreAddable(cls, VarsIn(cls))
        /\ IsConsistent(Propagate(cls, Selection)) <=> Cardinality(selected) = count
=============================================================================

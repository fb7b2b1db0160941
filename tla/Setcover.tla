------------------------------ MODULE Setcover ------------------------------
(***************************************************************************)
(* Class Setcover (setcover.cpp): a branch and bound search for a cover of  *)
(* a universe by few sets, used to tell how many hyperedges cover a clique. *)
(* One object answers many calls, and no_ and tno_, the exclusions of the    *)
(* search and the log that undoes them, are not reset between two calls.    *)
(*                                                                         *)
(* Solve first restricts the sets to the universe, drops empty and equal     *)
(* ones and orders the elements.  A set then stands for its index, and the   *)
(* recursion of Go is an explicit stack with one frame for each call that    *)
(* is inside its loop.                                                      *)
(***************************************************************************)
EXTENDS Integers, FiniteSets, SequencesExt

CONSTANTS Families,   \* the values of g_sets_: sets of sets of numbers
          Bounds,     \* the pairs <<ok_cover, upper_bound>> of the calls
          MaxCalls    \* bound on the calls of Solve to one object

ASSUME FamiliesAssumption ==
  \A F \in Families :
    IsFiniteSet(F) /\ \A s \in F : IsFiniteSet(s) /\ s \subseteq Nat /\ s # {}
ASSUME BoundsAssumption == \A b \in Bounds : b[1] \in Nat /\ b[2] \in Nat /\ b[1] <= b[2]
ASSUME MaxCallsAssumption == MaxCalls \in Nat

VARIABLES g_sets,       \* g_sets_
          pc,           \* where Solve or Go is
          calls,        \* how often Solve has been called
          universe,     \* the argument of Solve
          ok_cover,     \* ok_cover_
          upper_bound,  \* upper_bound_
          sets,         \* sets_: the sets within the universe
          order,        \* the elements in the order of cc_
          where,        \* where_: for each position the sets with its element
          position,     \* the argument i of the current Go, from 1
          stack,        \* the loops of Go that are entered
          cv, opt,      \* cv_ and opt_, <<>> for empty
          no,           \* the sets with no_ set
          tno           \* the first tno_s_ entries of tno_

request == <<g_sets, calls, universe, ok_cover, sets, order, where>>
undo == <<no, tno>>
vars == <<request, pc, upper_bound, position, stack, cv, opt, undo>>

-----------------------------------------------------------------------------
(* The preparations of Solve. *)

Restricted(F, U) == {s \cap U : s \in F} \ {{}}

CountIn(S, e) == Cardinality({s \in S : e \in s})

\* The elements ordered by how many sets have them, and by value.
Before(S, d, e) == \/ CountIn(S, d) < CountIn(S, e)
                   \/ CountIn(S, d) = CountIn(S, e) /\ d < e

Rank(S, U, e) == Cardinality({d \in U : Before(S, d, e)})

OrderOf(S, U) ==
  [i \in 1 .. Cardinality(U) |-> CHOOSE e \in U : Rank(S, U, e) = i - 1]

\* heur_: how many elements of s come at position i or later.
Heur(s, o, i) == Cardinality({j \in i .. Len(o) : o[j] \in s})

\* The orders that sorting where_[i] by heur_ may give: ties in any order.
WhereOrders(S, o, i) ==
  {w \in SetToSeqs({s \in S : o[i] \in s}) :
     \A j \in 1 .. (Len(w) - 1) : Heur(w[j], o, i) >= Heur(w[j + 1], o, i)}

Init ==
  /\ g_sets \in Families
  /\ pc = "idle" /\ calls = 0
  /\ universe = {} /\ ok_cover = 0 /\ upper_bound = 0
  /\ sets = {} /\ order = <<>> /\ where = <<>>
  /\ position = 0 /\ stack = <<>>
  /\ cv = <<>> /\ opt = <<>>
  /\ no = {} /\ tno = <<>>

\* Solve up to the loop over the positions.  The caller's universe is one that the
\* sets cover, as a clique of the primal graph is covered by the hyperedges.
Solve(U, b) ==
  /\ pc = "idle" /\ calls < MaxCalls
  /\ calls' = calls + 1
  /\ universe' = U
  /\ ok_cover' = b[1] /\ upper_bound' = b[2]
  /\ sets' = Restricted(g_sets, U)
  /\ order' = OrderOf(sets', U)
  /\ where' = <<>>
  /\ opt' = <<>> /\ cv' = <<>>
  /\ position' = 1
  /\ pc' = "sort"
  /\ UNCHANGED <<g_sets, stack, undo>>

\* The sets with the element of the next position are listed and sorted.  After
\* the last position Go is called.
SortWhere ==
  /\ pc = "sort"
  /\ \E w \in WhereOrders(sets, order, Len(where) + 1) : where' = Append(where, w)
  /\ pc' = IF Len(where') = Len(order) THEN "go" ELSE "sort"
  /\ UNCHANGED <<g_sets, calls, universe, ok_cover, sets, order, upper_bound,
                 position, stack, cv, opt, undo>>

-----------------------------------------------------------------------------
(* Go. *)

n == Len(order)
Top == stack[Len(stack)]
Candidate == Head(Top.rest)

\* A call of Go that ends hands over to the loop it was made from.
Return == pc' = "return"

\* All positions are passed: the cover at hand is the best so far.
Record ==
  /\ pc = "go" /\ position = n + 1
  /\ upper_bound' = Len(cv)
  /\ opt' = cv
  /\ Return
  /\ UNCHANGED <<request, position, stack, cv, undo>>

\* A selected set has the element: go on to the next one.
PassCovered ==
  /\ pc = "go" /\ position <= n
  /\ ToSet(where[position]) \cap ToSet(cv) # {}
  /\ position' = position + 1
  /\ UNCHANGED <<request, pc, upper_bound, stack, cv, opt, undo>>

\* No selected set has the element: the loop over the sets that have it.
EnterLoop ==
  /\ pc = "go" /\ position <= n
  /\ ToSet(where[position]) \cap ToSet(cv) = {}
  /\ stack' = Append(stack, [position |-> position, rest |-> where[position],
                             ss |-> Len(tno)])
  /\ pc' = "loop"
  /\ UNCHANGED <<request, upper_bound, position, cv, opt, undo>>

\* Planted fault: the bound is reached one set too early.
BreaksEarly == \/ Len(cv) + 1 >= upper_bound
               \/ Len(cv) + 1 = Len(opt)
               \/ opt # <<>> /\ Len(opt) <= ok_cover

\* The three breaks of the loop: one set more is too many, or would not beat
\* the best cover, or that is good enough.
Breaks == \/ Len(cv) + 1 > upper_bound
          \/ Len(cv) + 1 = Len(opt)
          \/ opt # <<>> /\ Len(opt) <= ok_cover

PopCandidate == stack' = [stack EXCEPT ![Len(stack)].rest = Tail(@)]

\* The candidate was tried already by a loop that is still running.
SkipExcluded ==
  /\ pc = "loop" /\ Top.rest # <<>> /\ ~Breaks
  /\ Candidate \in no
  /\ PopCandidate
  /\ UNCHANGED <<request, pc, upper_bound, position, cv, opt, undo>>

\* The candidate is selected and the next position is visited.
Select ==
  /\ pc = "loop" /\ Top.rest # <<>> /\ ~Breaks
  /\ Candidate \notin no
  /\ cv' = Append(cv, Candidate)
  /\ PopCandidate
  /\ position' = Top.position + 1
  /\ pc' = "go"
  /\ UNCHANGED <<request, upper_bound, opt, undo>>

\* Back from the call: the candidate is deselected and excluded.
Deselect ==
  /\ pc = "return" /\ stack # <<>>
  /\ cv' = Front(cv)
  /\ no' = no \cup {Last(cv)}
  /\ tno' = Append(tno, Last(cv))
  /\ pc' = "loop"
  /\ UNCHANGED <<request, upper_bound, position, stack, opt>>

\* Planted fault: a loop that breaks does not undo its exclusions.
LeaveLoopAtBreak ==
  /\ pc = "loop" /\ (Top.rest = <<>> \/ Breaks)
  /\ IF Breaks THEN UNCHANGED undo
               ELSE /\ no' = no \ ToSet(SubSeq(tno, Top.ss + 1, Len(tno)))
                    /\ tno' = SubSeq(tno, 1, Top.ss)
  /\ stack' = Front(stack)
  /\ Return
  /\ UNCHANGED <<request, upper_bound, position, cv, opt>>

\* The loop ends and undoes its own exclusions.
LeaveLoop ==
  /\ pc = "loop" /\ (Top.rest = <<>> \/ Breaks)
  /\ no' = no \ ToSet(SubSeq(tno, Top.ss + 1, Len(tno)))
  /\ tno' = SubSeq(tno, 1, Top.ss)
  /\ stack' = Front(stack)
  /\ Return
  /\ UNCHANGED <<request, upper_bound, position, cv, opt>>

\* Solve returns opt, or <<-1>> if that is empty.
Answer ==
  /\ pc = "return" /\ stack = <<>>
  /\ pc' = "idle"
  /\ UNCHANGED <<request, upper_bound, position, stack, cv, opt, undo>>

Done == pc = "idle" /\ calls = MaxCalls /\ UNCHANGED vars

Next == \/ \E U \in (SUBSET UNION g_sets) \ {{}}, b \in Bounds : Solve(U, b)
        \/ SortWhere
        \/ Record \/ PassCovered \/ EnterLoop
        \/ SkipExcluded \/ Select \/ Deselect \/ LeaveLoop
        \/ Answer \/ Done

Spec == Init /\ [][Next]_vars

-----------------------------------------------------------------------------
(* Properties *)

TypeOK ==
  /\ g_sets \in Families
  /\ pc \in {"idle", "sort", "go", "loop", "return"}
  /\ calls \in 0 .. MaxCalls
  /\ universe \subseteq UNION g_sets
  /\ sets = Restricted(g_sets, universe)
  /\ ToSet(order) = universe /\ n = Cardinality(universe)
  /\ IF pc = "sort" THEN Len(where) < n ELSE Len(where) = n
  /\ \A i \in 1 .. Len(where) : ToSet(where[i]) = {s \in sets : order[i] \in s}
  /\ position \in 0 .. n + 1
  /\ \A j \in 1 .. Len(stack) : /\ stack[j].position \in 1 .. n
                                /\ stack[j].ss \in 0 .. Len(tno)
                                /\ ToSet(stack[j].rest) \subseteq sets
  /\ ToSet(cv) \cup ToSet(opt) \cup no \cup ToSet(tno) \subseteq sets
  /\ upper_bound \in Nat /\ ok_cover \in Nat

\* The covers of the universe, with sets to spare or not.
Covers == {K \in SUBSET sets : UNION K = universe}

\* The three assertions of Go on a cover it has come to: the cover keeps to the
\* bound, is smaller than the best one so far, and is not empty.
GoAsserts ==
  pc = "go" /\ position = n + 1 =>
    /\ Len(cv) \in 1 .. upper_bound
    /\ opt # <<>> => Len(cv) < Len(opt)

\* What Solve is for: a call returns a cover that is good enough or as small as
\* any, and the empty answer only if no cover is within the bound.  Sets of the
\* answer are distinct, so its length is the size that the caller looks at.  On
\* the way the assertions of Go hold.
AnswerCorrect ==
  /\ TypeOK
  /\ pc = "idle" /\ calls > 0 =>
       IF opt = <<>>
       THEN \A K \in Covers : Cardinality(K) > upper_bound
       ELSE /\ ToSet(opt) \in Covers
            /\ Cardinality(ToSet(opt)) = Len(opt)
            /\ Len(opt) <= ok_cover \/ \A K \in Covers : Len(opt) <= Cardinality(K)
  /\ GoAsserts

\* K would still be an improvement.
Improves(K) == /\ Cardinality(K) <= upper_bound
               /\ opt # <<>> => Cardinality(K) < Len(opt) /\ Len(opt) > ok_cover

\* Where the log stood when the loop of frame j last selected a candidate.
LogAt(j) == IF j < Len(stack) THEN stack[j + 1].ss ELSE Len(tno)

\* Loop j can still come to a part of K: it is inside K, has a candidate of K
\* left, and has not excluded any set of K or selected one for the moment.
Route(j, K) ==
  /\ ToSet(SubSeq(cv, 1, j - 1)) \subseteq K
  /\ ToSet(stack[j].rest) \cap K # {}
  /\ ToSet(SubSeq(tno, 1, LogAt(j))) \cap K = {}
  /\ Len(cv) >= j => cv[j] \notin K

\* The search misses nothing: every cover that would be an improvement can
\* still be come to, although loops skip what others have excluded and break.
SearchComplete ==
  pc # "idle" =>
    \A K \in Covers : Improves(K) =>
      \/ pc \in {"sort", "go"} /\ ToSet(cv) \subseteq K /\ no \cap K = {}
      \/ \E j \in 1 .. Len(stack) : Route(j, K)

\* The log holds each excluded set once, so that a loop undoes what it has
\* excluded itself and nothing else, an excluded set is not selected, and
\* nothing is left excluded for the next call, whose sets have other indices.
ExclusionsUndone ==
  /\ no = ToSet(tno)
  /\ Cardinality(no) = Len(tno)
  /\ no \cap ToSet(cv) = {}
  /\ pc = "idle" => no = {} /\ cv = <<>>
=============================================================================

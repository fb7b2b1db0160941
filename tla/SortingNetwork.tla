--------------------------- MODULE SortingNetwork ---------------------------
(***************************************************************************)
(* CardinalityNetworkBuilder (cardinality_constraint_builder.cpp) as          *)
(* operators on what has been built: a record of free_var_, the clauses and    *)
(* the literals that the last call returned.  d1 and d2 are always true, so     *)
(* both directions of every comparator are there.  A stage of a merge, two     *)
(* nested loops in the code, is written for all its positions at once.        *)
(*                                                                         *)
(* AddEqual, and with it SMerge, is not called by the program.               *)
(***************************************************************************)
EXTENDS SatInterface, Sequences, SequencesExt

Var(id) == Pos(<<"net", id, 0, 0>>)

\* The clauses of a comparator with inputs a and b: high is their disjunction.
High(a, b, high) == {{Minus(a), high}, {Minus(b), high}, {a, b, Minus(high)}}
\* low is their conjunction.
Low(a, b, low) == {{Minus(a), Minus(b), low}, {a, Minus(low)}, {b, Minus(low)}}

\* Planted fault: the outputs stay in order.
ReversedNot(i, n) == i

\* The bits of i turned around, for n a power of two and i < n.
RECURSIVE Reversed(_, _)
Reversed(i, n) == IF n = 1 THEN 0 ELSE (i % 2) * (n \div 2) + Reversed(i \div 2, n \div 2)

\* Both merges start with a comparator of the i-th literals of A and B for each
\* i < n; those below lows have a low output too.  The outputs are then put in
\* bit-reversed order.
HighId(free, lows, i) == free + i + (IF i < lows THEN i ELSE lows)
FirstOutputs(free, lows, i) ==
  <<Var(HighId(free, lows, i)), IF i < lows THEN Var(HighId(free, lows, i) + 1) ELSE NoLit>>

FirstLayer(free, lows, A, B) ==
  LET n == Len(A)
      Out(i) == FirstOutputs(free, lows, i)
  IN  [c |-> [p \in 0 .. 2 * n - 1 |-> Out(Reversed(p \div 2, n))[1 + (p % 2)]],
       free |-> HighId(free, lows, n),
       clauses |-> UNION {High(A[i + 1], B[i + 1], Out(i)[1])
                            \cup IF i < lows THEN Low(A[i + 1], B[i + 1], Out(i)[2]) ELSE {} :
                              i \in 0 .. n - 1}]

\* The literals of a merge, as the sequence that is returned.
Returned(s, n) == [free |-> s.free, clauses |-> s.clauses, out |-> [i \in 1 .. n |-> s.c[i - 1]]]

\* HMerge: the stage for blocks of le positions compares the inner ones.
HStage(s, n, le) ==
  LET Id(i) == s.free + (i \div le) * (le - 2)
      At(p) == Id(p) + (p % le) - 1
      Compared == {p \in 0 .. 2 * n - 1 : p % le < le \div 2 - 1}
  IN  [c |-> [p \in 0 .. 2 * n - 1 |-> IF p % le \in {0, le - 1} THEN s.c[p] ELSE Var(At(p))],
       free |-> Id(2 * n),
       clauses |-> s.clauses \cup
         UNION {LET a == s.c[p + 1]
                    b == s.c[p + le \div 2]
                    id == Id(p) + 2 * (p % le)
                IN  High(a, b, Var(id)) \cup Low(a, b, Var(id + 1)) : p \in Compared}]

RECURSIVE HStages(_, _, _)
HStages(s, n, le) == IF le > 2 * n THEN s ELSE HStages(HStage(s, n, le), n, 2 * le)

HMerge(free, A, B) ==
  Returned(HStages(FirstLayer(free, Len(A), A, B), Len(A), 4), 2 * Len(A))

\* HSort of the literals of A.
RECURSIVE HSort(_, _)
HSort(free, A) ==
  IF Len(A) = 2 THEN HMerge(free, <<A[1]>>, <<A[2]>>)
  ELSE LET a == HSort(free, SubSeq(A, 1, Len(A) \div 2))
           b == HSort(a.free, SubSeq(A, Len(A) \div 2 + 1, Len(A)))
           m == HMerge(b.free, a.out, b.out)
       IN  [m EXCEPT !.clauses = @ \cup a.clauses \cup b.clauses]

\* SMerge: blocks take turns in having an output more, but for the last stage.
SStage(s, n, le) ==
  LET Short(b) == le = 2 * n \/ b % 2 = 1
      Id(b) == s.free + (b \div 2) * (le - 1) + (b % 2) * (le \div 2)
      Outputs(b) == (le \div 2) - (IF Short(b) THEN 1 ELSE 0)
      Compared == {p \in 0 .. 2 * n - 1 : p % le < le \div 4}
  IN  [c |-> [p \in 0 .. 2 * n - 1 |->
                IF p % le \in 1 .. Outputs(p \div le)
                THEN Var(Id(p \div le) + (p % le) - 1) ELSE s.c[p]],
       free |-> Id(((2 * n) \div le) - 1) + Outputs(((2 * n) \div le) - 1),
       clauses |-> s.clauses \cup
         UNION {LET a == s.c[p + 1]
                    b == s.c[p + le \div 2]
                    id == Id(p \div le) + 2 * (p % le)
                IN  High(a, b, Var(id))
                      \cup IF 2 * (p % le) + 2 <= Outputs(p \div le)
                           THEN Low(a, b, Var(id + 1)) ELSE {} : p \in Compared}]

RECURSIVE SStages(_, _, _)
SStages(s, n, le) == IF le > 2 * n THEN s ELSE SStages(SStage(s, n, le), n, 2 * le)

SMerge(free, A, B) ==
  Returned(SStages(FirstLayer(free, Len(A) \div 2, A, B), Len(A), 4), Len(A))

\* Card: the largest k of the literals of A, whose number k divides.
RECURSIVE Card(_, _, _)
Card(free, A, k) ==
  IF Len(A) = k THEN HSort(free, A)
  ELSE LET a == Card(free, SubSeq(A, 1, k), k)
           b == Card(a.free, SubSeq(A, k + 1, Len(A)), k)
           m == SMerge(b.free, a.out, b.out)
       IN  [m EXCEPT !.clauses = @ \cup a.clauses \cup b.clauses]

\* The least power of two that is at least m.
RECURSIVE PowerFrom(_, _)
PowerFrom(k, m) == IF k >= m THEN k ELSE PowerFrom(2 * k, m)

\* The inputs with literals that are false, up to a number that Fits.
Padded(input, size) ==
  [out |-> [i \in 1 .. size |-> IF i <= Len(input) THEN input[i] ELSE Var(i - Len(input) - 1)],
   free |-> size - Len(input),
   clauses |-> {{Minus(Var(id))} : id \in 0 .. size - Len(input) - 1}]

\* EqualNetwork: asserts that Card sorts two inputs at least.
EqualNetwork(input) ==
  LET size == PowerFrom(1, Len(input))
      pad == Padded(input, size)
      card == Card(pad.free, pad.out, size)
  IN  [out |-> SubSeq(card.out, 1, Len(input)),
       clauses |-> pad.clauses \cup card.clauses
                     \cup {{Minus(card.out[i])} : i \in Len(input) + 1 .. size}]

\* AddEqual: exactly k of the inputs are true.
AddEqual(input, k) ==
  LET turn == Len(input) - k < k
      count == IF turn THEN Len(input) - k ELSE k
      power == PowerFrom(1, count + 1)
      size == power * ((Len(input) + power - 1) \div power)
      pad == Padded([i \in DOMAIN input |-> IF turn THEN Minus(input[i]) ELSE input[i]], size)
      card == Card(pad.free, pad.out, power)
  IN  pad.clauses \cup card.clauses \cup {{card.out[count]}, {Minus(card.out[count + 1])}}
=============================================================================

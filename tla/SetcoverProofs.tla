-------------------------- MODULE SetcoverProofs --------------------------
(***************************************************************************)
(* Proofs about Setcover, for all families of finite sets, bounds and       *)
(* numbers of calls: its undo log, what it answers, its assertions.         *)
(***************************************************************************)
EXTENDS Setcover, SequenceTheorems, FiniteSetTheorems, TLAPS

-----------------------------------------------------------------------------
(* Sequences without repetitions. *)

Distinct(s) == \A i, j \in 1 .. Len(s) : s[i] = s[j] => i = j

\* No value is in both sequences.
Apart(s, t) == \A i \in 1 .. Len(s), j \in 1 .. Len(t) : s[i] # t[j]

LEMMA ToSetMember ==
  ASSUME NEW S, NEW s \in Seq(S)
  PROVE  /\ ToSet(s) = {s[i] : i \in 1 .. Len(s)}
         /\ \A x : x \in ToSet(s) <=> \E i \in 1 .. Len(s) : x = s[i]
  BY LenProperties DEF ToSet

LEMMA ApartByToSet ==
  ASSUME NEW S, NEW s \in Seq(S), NEW t \in Seq(S)
  PROVE  Apart(s, t) <=> ToSet(s) \cap ToSet(t) = {}
<1>1. \A x : x \in ToSet(s) <=> \E i \in 1 .. Len(s) : x = s[i]
  BY ToSetMember
<1>2. \A x : x \in ToSet(t) <=> \E i \in 1 .. Len(t) : x = t[i]
  BY ToSetMember
<1> QED
  BY <1>1, <1>2 DEF Apart

\* A sequence without repetitions is as long as the set of its values.
LEMMA DistinctCount ==
  ASSUME NEW S, NEW s \in Seq(S), Distinct(s)
  PROVE  Cardinality(ToSet(s)) = Len(s)
<1>1. Len(s) \in Nat /\ ToSet(s) = {s[i] : i \in 1 .. Len(s)} /\ DOMAIN s = 1 .. Len(s)
  BY LenProperties, ToSetMember
<1> DEFINE f == [i \in 1 .. Len(s) |-> s[i]]
<1>2. f \in Bijection(1 .. Len(s), ToSet(s))
  BY <1>1 DEF Distinct, Bijection, Injection, Surjection, IsInjective
<1>3. IsFiniteSet(1 .. Len(s)) /\ Cardinality(1 .. Len(s)) = Len(s)
  BY <1>1, FS_Interval
<1>4. Cardinality(ToSet(s)) = Cardinality(1 .. Len(s))
  BY <1>2, <1>3, FS_Bijection DEF ExistsBijection
<1> QED
  BY <1>3, <1>4

\* What SortWhere appends is a sequence of sets.
LEMMA OrdersAreSequences ==
  ASSUME NEW S, IsFiniteSet(S), NEW o, NEW i, NEW w \in WhereOrders(S, o, i)
  PROVE  w \in Seq(S)
<1> DEFINE X == {s \in S : o[i] \in s}
<1>1. IsFiniteSet(X) /\ Cardinality(X) \in Nat
  BY FS_Subset, FS_CardinalityType
<1>2. w \in [1 .. Cardinality(X) -> X]
  BY DEF WhereOrders, SetToSeqs
<1>3. w \in Seq(X)
  BY <1>1, <1>2, SeqDef
<1> QED
  BY <1>3, SeqMonotonic

\* Solve has finitely many sets.
LEMMA RestrictedFinite ==
  ASSUME NEW F, IsFiniteSet(F), NEW U
  PROVE  IsFiniteSet(Restricted(F, U))
<1> DEFINE f == [s \in F |-> s \cap U]
           T == {s \cap U : s \in F}
<1>1. f \in Surjection(F, T)
  BY DEF Surjection
<1>2. IsFiniteSet(T)
  BY <1>1, FS_Surjection
<1> QED
  BY <1>2, FS_Subset DEF Restricted

-----------------------------------------------------------------------------
(* The inductive invariant. *)

Frames == [position : Nat \ {0}, rest : Seq(sets), ss : Nat]

Shape ==
  /\ g_sets \in Families
  /\ IsFiniteSet(sets)
  /\ pc \in {"idle", "sort", "go", "loop", "return"}
  /\ where \in Seq(Seq(sets))
  /\ pc \in {"go", "loop", "return"} => n = Len(where)
  /\ position \in Nat /\ (pc # "idle" => position > 0)
  /\ cv \in Seq(sets) /\ tno \in Seq(sets)
  /\ stack \in Seq(Frames)
  /\ pc \in {"idle", "sort"} => stack = <<>>
  /\ Len(cv) = IF pc = "loop" THEN Len(stack) - 1 ELSE Len(stack)

\* The flags and the log agree, and nothing is selected or logged twice.
Log ==
  /\ no = ToSet(tno)
  /\ Distinct(tno) /\ Distinct(cv) /\ Apart(cv, tno)

\* The marks of the loops grow from 0, so that an inner loop undoes only what was
\* logged since it was entered; and a loop has no candidate that was selected
\* outside of it.
Marks ==
  /\ stack = <<>> => tno = <<>>
  /\ stack # <<>> => stack[1].ss = 0
  /\ \A j \in 1 .. Len(stack) :
       /\ stack[j].ss <= Len(tno)
       /\ \A i \in 1 .. j : stack[i].ss <= stack[j].ss
       /\ \A i \in 1 .. (j - 1), r \in 1 .. Len(stack[j].rest) : cv[i] # stack[j].rest[r]

LogInv == Shape /\ Log /\ Marks

LEMMA InitLog == Init => LogInv
<1> SUFFICES ASSUME Init PROVE LogInv
  OBVIOUS
<1>1. <<>> \in Seq(Seq(sets)) /\ <<>> \in Seq(sets) /\ <<>> \in Seq(Frames) /\ Len(<<>>) = 0
  BY EmptySeq
<1>2. IsFiniteSet(sets)
  BY FS_EmptySet DEF Init
<1>3. Shape
  BY <1>1, <1>2 DEF Init, Shape
<1>4. Log
  <2>1. ToSet(<<>>) = {}
    BY DEF ToSet
  <2> QED
    BY <1>1, <2>1 DEF Init, Log, Distinct, Apart
<1>5. Marks
  BY <1>1 DEF Init, Marks
<1> QED
  BY <1>3, <1>4, <1>5 DEF LogInv

\* Steps that leave the search as it is.
LEMMA QuietSteps ==
  ASSUME LogInv, Record \/ PassCovered \/ Answer \/ Done \/ UNCHANGED vars
  PROVE  LogInv'
<1> USE DEF LogInv, vars, request, undo
<1>1. UNCHANGED <<g_sets, sets, order, where, stack, cv, no, tno>>
  BY DEF Record, PassCovered, Answer, Done
<1>2. /\ pc' \in {"idle", "sort", "go", "loop", "return"}
      /\ pc' \in {"go", "loop", "return"} => n = Len(where)
      /\ position' \in Nat /\ (pc' # "idle" => position' > 0)
      /\ pc' \in {"idle", "sort"} => stack = <<>>
      /\ pc' = "loop" <=> pc = "loop"
  BY DEF Record, PassCovered, Answer, Done, Return, Shape
<1>3. Shape'
  BY <1>1, <1>2 DEF Shape, Frames, n
<1>4. Log' /\ Marks'
  BY <1>1 DEF Log, Marks, Distinct, Apart
<1> QED
  BY <1>3, <1>4

LEMMA SolveStep ==
  ASSUME LogInv, NEW U, NEW b, Solve(U, b)
  PROVE  LogInv'
<1> USE DEF LogInv
<1>1. /\ <<>> \in Seq(Seq(sets')) /\ <<>> \in Seq(sets') /\ <<>> \in Seq(Frames')
      /\ Len(<<>>) = 0
  BY EmptySeq
<1>2. IsFiniteSet(sets')
  BY RestrictedFinite, FamiliesAssumption DEF Solve, Shape
<1>3. /\ stack = <<>> /\ tno = <<>> /\ cv' = <<>> /\ where' = <<>> /\ pc' = "sort"
      /\ position' = 1 /\ UNCHANGED <<g_sets, stack, no, tno>>
  BY DEF Solve, Shape, Marks, undo
<1>4. Shape'
  BY <1>1, <1>2, <1>3 DEF Shape
<1>5. Log'
  BY <1>1, <1>3 DEF Log, Distinct, Apart
<1>6. Marks'
  BY <1>1, <1>3 DEF Marks
<1> QED
  BY <1>4, <1>5, <1>6

LEMMA SortWhereStep ==
  ASSUME LogInv, SortWhere
  PROVE  LogInv'
<1> USE DEF LogInv
<1>1. UNCHANGED <<g_sets, sets, order, position, stack, cv, no, tno>>
  BY DEF SortWhere, undo
<1>2. PICK w \in WhereOrders(sets, order, Len(where) + 1) : where' = Append(where, w)
  BY DEF SortWhere
<1>3. where' \in Seq(Seq(sets))
  BY <1>2, OrdersAreSequences, AppendProperties DEF Shape
<1>4. /\ pc = "sort" /\ pc' \in {"go", "sort"}
      /\ pc' = "go" => Len(where') = Len(order)
  BY DEF SortWhere
<1>5. Shape'
  BY <1>1, <1>3, <1>4 DEF Shape, Frames, n
<1>6. Log' /\ Marks'
  BY <1>1 DEF Log, Marks, Distinct, Apart
<1> QED
  BY <1>5, <1>6

\* The loop is entered with candidates that are not selected.
LEMMA EnterLoopStep ==
  ASSUME LogInv, EnterLoop
  PROVE  LogInv'
<1> USE DEF LogInv
<1> DEFINE frame == [position |-> position, rest |-> where[position], ss |-> Len(tno)]
<1>1. /\ UNCHANGED <<g_sets, sets, order, where, position, cv, no, tno>>
      /\ stack' = Append(stack, frame) /\ pc' = "loop" /\ pc = "go"
  BY DEF EnterLoop, request, undo
<1>2. Len(stack) \in Nat /\ Len(tno) \in Nat /\ Len(where) \in Nat /\ Len(cv) = Len(stack)
  BY <1>1, LenProperties DEF Shape
<1>3. position \in 1 .. Len(where)
  BY <1>1, <1>2 DEF EnterLoop, Shape
<1>4. where[position] \in Seq(sets)
  BY <1>3, ElementOfSeq DEF Shape
<1>5. frame \in Frames
  BY <1>2, <1>3, <1>4 DEF Frames
<1>6. /\ stack' \in Seq(Frames)
      /\ Len(stack') = Len(stack) + 1
      /\ \A j \in 1 .. Len(stack) : stack'[j] = stack[j]
      /\ stack'[Len(stack) + 1] = frame
  BY <1>1, <1>5, AppendProperties DEF Shape
<1>7. Apart(where[position], cv)
  BY <1>4, ApartByToSet DEF EnterLoop, Shape
<1>8. Shape'
  BY <1>1, <1>2, <1>6 DEF Shape, Frames, n
<1>9. Log'
  BY <1>1 DEF Log, Distinct, Apart
<1>10. Marks'
  <2>1. stack' # <<>>
    BY <1>1, <1>5, AppendProperties DEF Shape
  <2>2. stack'[1].ss = 0
    <3>1. CASE stack = <<>>
      BY <1>6, <3>1, EmptySeq DEF Marks
    <3>2. CASE stack # <<>>
      BY <1>2, <1>6, <3>2, EmptySeq DEF Marks, Shape
    <3> QED
      BY <3>1, <3>2
  <2>3. ASSUME NEW j \in 1 .. Len(stack')
        PROVE  /\ stack'[j].ss <= Len(tno)
               /\ \A i \in 1 .. j : stack'[i].ss <= stack'[j].ss
               /\ \A i \in 1 .. (j - 1), r \in 1 .. Len(stack'[j].rest) :
                    cv[i] # stack'[j].rest[r]
    <3>1. CASE j \in 1 .. Len(stack)
      BY <1>2, <1>6, <3>1 DEF Marks
    <3>2. CASE j = Len(stack) + 1
      BY <1>2, <1>6, <1>7, <3>2 DEF Marks, Apart
    <3> QED
      BY <1>2, <1>6, <3>1, <3>2
  <2> QED
    BY <1>1, <2>1, <2>2, <2>3 DEF Marks
<1> QED
  BY <1>8, <1>9, <1>10

\* The innermost loop takes its first candidate from the rest.
LEMMA PopKeeps ==
  ASSUME LogInv, pc = "loop", Top.rest # <<>>, PopCandidate
  PROVE  /\ Len(stack) \in Nat \ {0} /\ stack # <<>> /\ Top \in Frames
         /\ Candidate = Top.rest[1] /\ 1 \in 1 .. Len(Top.rest) /\ Candidate \in sets
         /\ stack' \in Seq(Frames) /\ stack' # <<>> /\ Len(stack') = Len(stack)
         /\ \A j \in 1 .. Len(stack) :
              /\ stack'[j].ss = stack[j].ss
              /\ \A r \in 1 .. Len(stack'[j].rest) :
                   \E q \in 1 .. Len(stack[j].rest) : stack'[j].rest[r] = stack[j].rest[q]
<1>1. Len(stack) \in Nat \ {0} /\ stack # <<>> /\ Len(cv) = Len(stack) - 1
  BY LenProperties, EmptySeq DEF LogInv, Shape
<1>2. Top \in Frames
  BY <1>1, ElementOfSeq DEF LogInv, Shape, Top
<1>3. Top.rest \in Seq(sets)
  BY <1>2 DEF Frames
<1>4. /\ Len(Top.rest) \in Nat \ {0} /\ Tail(Top.rest) \in Seq(sets)
      /\ Len(Tail(Top.rest)) = Len(Top.rest) - 1
      /\ \A r \in 1 .. Len(Tail(Top.rest)) : Tail(Top.rest)[r] = Top.rest[r + 1]
      /\ Candidate \in sets
  BY <1>3, EmptySeq, HeadTailProperties DEF Candidate
<1>5. Candidate = Top.rest[1]
  BY <1>3 DEF Candidate
<1> DEFINE frame == [Top EXCEPT !.rest = Tail(Top.rest)]
<1>6. /\ frame \in Frames /\ frame.ss = Top.ss /\ frame.rest = Tail(Top.rest)
  BY <1>2, <1>4 DEF Frames
<1>7. stack' = [stack EXCEPT ![Len(stack)] = frame]
  BY <1>1, LenProperties DEF PopCandidate, Top, LogInv, Shape
<1>8. /\ stack' \in Seq(Frames) /\ Len(stack') = Len(stack)
      /\ \A j \in 1 .. Len(stack) : stack'[j] = IF j = Len(stack) THEN frame ELSE stack[j]
  BY <1>1, <1>6, <1>7, ExceptSeq DEF LogInv, Shape
<1>9. ASSUME NEW j \in 1 .. Len(stack)
      PROVE  /\ stack'[j].ss = stack[j].ss
             /\ \A r \in 1 .. Len(stack'[j].rest) :
                  \E q \in 1 .. Len(stack[j].rest) : stack'[j].rest[r] = stack[j].rest[q]
  <2>1. CASE j = Len(stack)
    <3>1. stack[j] = Top /\ stack'[j] = frame
      BY <1>8, <2>1 DEF Top
    <3>2. ASSUME NEW r \in 1 .. Len(Tail(Top.rest))
          PROVE  r + 1 \in 1 .. Len(Top.rest) /\ Tail(Top.rest)[r] = Top.rest[r + 1]
      BY <1>4
    <3> QED
      BY <1>6, <3>1, <3>2
  <2>2. CASE j # Len(stack)
    BY <1>8, <2>2
  <2> QED
    BY <2>1, <2>2
<1> QED
  BY <1>1, <1>2, <1>4, <1>5, <1>8, <1>9, EmptySeq

LEMMA SkipExcludedStep ==
  ASSUME LogInv, SkipExcluded
  PROVE  LogInv'
<1> USE DEF LogInv
<1>1. /\ UNCHANGED <<g_sets, sets, order, where, position, cv, no, tno, pc>>
      /\ pc = "loop" /\ Top.rest # <<>> /\ PopCandidate
  BY DEF SkipExcluded, request, undo
<1>2. /\ Len(stack) \in Nat \ {0} /\ stack # <<>>
      /\ stack' \in Seq(Frames) /\ stack' # <<>> /\ Len(stack') = Len(stack)
      /\ \A j \in 1 .. Len(stack) :
              /\ stack'[j].ss = stack[j].ss
              /\ \A r \in 1 .. Len(stack'[j].rest) :
                   \E q \in 1 .. Len(stack[j].rest) : stack'[j].rest[r] = stack[j].rest[q]
  BY <1>1, PopKeeps
<1>3. Shape'
  BY <1>1, <1>2 DEF Shape, Frames, n
<1>4. Log'
  BY <1>1 DEF Log, Distinct, Apart
<1>5. Marks'
  BY <1>1, <1>2 DEF Marks
<1> QED
  BY <1>3, <1>4, <1>5

\* What is selected was neither selected outside nor excluded.
LEMMA SelectStep ==
  ASSUME LogInv, Select
  PROVE  LogInv'
<1> USE DEF LogInv
<1>1. /\ UNCHANGED <<g_sets, sets, order, where, no, tno>>
      /\ pc = "loop" /\ pc' = "go" /\ Top.rest # <<>> /\ PopCandidate
      /\ cv' = Append(cv, Candidate) /\ position' = Top.position + 1
      /\ Candidate \notin no
  BY DEF Select, request, undo
<1>2. /\ Len(stack) \in Nat \ {0} /\ stack # <<>> /\ Top \in Frames
      /\ Candidate = Top.rest[1] /\ 1 \in 1 .. Len(Top.rest) /\ Candidate \in sets
      /\ stack' \in Seq(Frames) /\ stack' # <<>> /\ Len(stack') = Len(stack)
      /\ \A j \in 1 .. Len(stack) :
              /\ stack'[j].ss = stack[j].ss
              /\ \A r \in 1 .. Len(stack'[j].rest) :
                   \E q \in 1 .. Len(stack[j].rest) : stack'[j].rest[r] = stack[j].rest[q]
  BY <1>1, PopKeeps
<1>3. Len(cv) \in Nat /\ Len(cv) = Len(stack) - 1
  BY <1>1, LenProperties DEF Shape
<1>4. /\ cv' \in Seq(sets) /\ Len(cv') = Len(cv) + 1
      /\ \A i \in 1 .. Len(cv) : cv'[i] = cv[i]
      /\ cv'[Len(cv) + 1] = Candidate
  BY <1>1, <1>2, AppendProperties DEF Shape
<1>5. Top.position \in Nat \ {0} /\ position' \in Nat /\ position' > 0
  BY <1>1, <1>2 DEF Frames
<1>6. Shape'
  BY <1>1, <1>2, <1>3, <1>4, <1>5 DEF Shape, Frames, n
<1>7. \A i \in 1 .. Len(cv) : cv[i] # Candidate
  BY <1>2, <1>3 DEF Marks, Top
<1>8. \A j \in 1 .. Len(tno) : tno[j] # Candidate
  BY <1>1, ToSetMember DEF Log, Shape
<1>9. Log'
  <2>1. Distinct(cv')
    BY <1>3, <1>4, <1>7 DEF Log, Distinct
  <2>2. Apart(cv', tno)
    BY <1>3, <1>4, <1>8 DEF Log, Apart
  <2> QED
    BY <1>1, <2>1, <2>2 DEF Log, Distinct
<1>10. Marks'
  <2>1. ASSUME NEW j \in 1 .. Len(stack)
        PROVE  /\ stack'[j].ss <= Len(tno)
               /\ \A i \in 1 .. j : stack'[i].ss <= stack'[j].ss
    BY <1>2 DEF Marks
  <2>2. ASSUME NEW j \in 1 .. Len(stack), NEW i \in 1 .. (j - 1),
               NEW r \in 1 .. Len(stack'[j].rest)
        PROVE  cv'[i] # stack'[j].rest[r]
    <3>1. i \in 1 .. Len(cv) /\ cv'[i] = cv[i]
      BY <1>2, <1>3, <1>4
    <3>2. PICK q \in 1 .. Len(stack[j].rest) : stack'[j].rest[r] = stack[j].rest[q]
      BY <1>2
    <3> QED
      BY <3>1, <3>2 DEF Marks
  <2>3. stack'[1].ss = 0
    BY <1>2 DEF Marks
  <2> QED
    BY <1>1, <1>2, <2>1, <2>2, <2>3 DEF Marks
<1> QED
  BY <1>6, <1>9, <1>10

\* What is deselected goes to the end of the log.
LEMMA DeselectStep ==
  ASSUME LogInv, Deselect
  PROVE  LogInv'
<1> USE DEF LogInv
<1>1. /\ UNCHANGED <<g_sets, sets, order, where, position, stack>>
      /\ pc = "return" /\ pc' = "loop" /\ stack # <<>>
      /\ cv' = SubSeq(cv, 1, Len(cv) - 1)
      /\ no' = no \cup {Last(cv)} /\ tno' = Append(tno, Last(cv))
  BY DEF Deselect, request, Front
<1>2. /\ Len(stack) \in Nat \ {0} /\ Len(cv) = Len(stack) /\ Len(tno) \in Nat
  BY <1>1, LenProperties, EmptySeq DEF Shape
<1>3. Last(cv) = cv[Len(cv)] /\ Last(cv) \in sets
  BY <1>2, ElementOfSeq DEF Shape, Last
<1>4. /\ cv' \in Seq(sets) /\ Len(cv') = Len(cv) - 1
      /\ \A i \in 1 .. Len(cv) - 1 : cv'[i] = cv[i]
  BY <1>1, <1>2, ElementOfSeq, SubSeqProperties DEF Shape
<1>5. /\ tno' \in Seq(sets) /\ Len(tno') = Len(tno) + 1
      /\ \A j \in 1 .. Len(tno) : tno'[j] = tno[j]
      /\ tno'[Len(tno) + 1] = cv[Len(cv)]
  BY <1>1, <1>3, AppendProperties DEF Shape
<1>6. Shape'
  BY <1>1, <1>2, <1>4, <1>5 DEF Shape, Frames, n
<1>7. Log'
  <2>1. Distinct(cv')
    BY <1>2, <1>4 DEF Log, Distinct
  <2>2. Distinct(tno')
    BY <1>2, <1>5 DEF Log, Distinct, Apart
  <2>3. Apart(cv', tno')
    BY <1>2, <1>4, <1>5 DEF Log, Distinct, Apart
  <2>4. no' = ToSet(tno')
    <3>1. \A x : x \in ToSet(tno) <=> \E j \in 1 .. Len(tno) : x = tno[j]
      BY ToSetMember DEF Shape
    <3>2. \A x : x \in ToSet(tno') <=> \E j \in 1 .. Len(tno') : x = tno'[j]
      BY <1>5, ToSetMember
    <3> QED
      BY <1>1, <1>2, <1>3, <1>5, <3>1, <3>2 DEF Log
  <2> QED
    BY <2>1, <2>2, <2>3, <2>4 DEF Log
<1>8. Marks'
  <2>1. ASSUME NEW j \in 1 .. Len(stack)
        PROVE  /\ stack[j].ss \in Nat /\ stack[j].ss <= Len(tno)
               /\ \A i \in 1 .. j : stack[i].ss <= stack[j].ss
               /\ \A i \in 1 .. (j - 1), r \in 1 .. Len(stack[j].rest) :
                    cv[i] # stack[j].rest[r]
    <3>1. stack[j] \in Frames
      BY ElementOfSeq DEF Shape
    <3>2. stack[j].ss \in Nat
      BY <3>1 DEF Frames
    <3> QED
      BY <3>2 DEF Marks
  <2>2. ASSUME NEW j \in 1 .. Len(stack), NEW i \in 1 .. (j - 1)
        PROVE  cv'[i] = cv[i]
    BY <1>2, <1>4
  <2>3. ASSUME NEW j \in 1 .. Len(stack) PROVE stack[j].ss <= Len(tno')
    BY <1>2, <1>5, <2>1
  <2>4. stack[1].ss = 0 /\ stack' = stack /\ stack # <<>>
    BY <1>1 DEF Marks
  <2>5. ASSUME NEW j \in 1 .. Len(stack), NEW i \in 1 .. (j - 1),
               NEW r \in 1 .. Len(stack[j].rest)
        PROVE  cv'[i] # stack[j].rest[r]
    BY <2>1, <2>2
  <2> QED
    BY <2>1, <2>3, <2>4, <2>5 DEF Marks
<1> QED
  BY <1>6, <1>7, <1>8

\* The loop takes back what was logged since it was entered.
LEMMA LeaveLoopStep ==
  ASSUME LogInv, LeaveLoop
  PROVE  LogInv'
<1> USE DEF LogInv
<1> DEFINE k == Len(stack)
           m == Top.ss
<1>1. /\ UNCHANGED <<g_sets, sets, order, where, position, cv>>
      /\ pc = "loop" /\ pc' = "return"
      /\ stack' = SubSeq(stack, 1, k - 1)
      /\ no' = no \ ToSet(SubSeq(tno, m + 1, Len(tno)))
      /\ tno' = SubSeq(tno, 1, m)
  BY DEF LeaveLoop, request, Front, Return
<1>2. /\ k \in Nat \ {0} /\ Len(cv) = k - 1 /\ Len(tno) \in Nat
  BY <1>1, LenProperties DEF Shape
<1>3. Top = stack[k] /\ m \in Nat /\ m <= Len(tno)
  <2>1. k \in 1 .. k /\ Top = stack[k]
    BY <1>2 DEF Top
  <2>2. stack[k] \in Frames
    BY <2>1, ElementOfSeq DEF Shape
  <2> QED
    BY <2>1, <2>2 DEF Frames, Marks
<1>4. /\ stack' \in Seq(Frames) /\ Len(stack') = k - 1
      /\ \A j \in 1 .. k - 1 : stack'[j] = stack[j]
  BY <1>1, <1>2, ElementOfSeq, SubSeqProperties DEF Shape
<1>5. /\ tno' \in Seq(sets) /\ Len(tno') = m
      /\ \A j \in 1 .. m : tno'[j] = tno[j]
  BY <1>1, <1>2, <1>3, ElementOfSeq, SubSeqProperties DEF Shape
<1>6. Shape'
  BY <1>1, <1>2, <1>4, <1>5 DEF Shape, Frames, n
<1>7. Log'
  <2>1. Distinct(tno') /\ Apart(cv', tno')
    <3> HIDE DEF m
    <3>1. \A j \in 1 .. m : j \in 1 .. Len(tno)
      BY <1>2, <1>3
    <3>2. Distinct(tno')
      BY <1>5, <3>1 DEF Log, Distinct
    <3>3. Apart(cv', tno')
      BY <1>1, <1>5, <3>1 DEF Log, Apart
    <3> QED
      BY <3>2, <3>3
  <2> DEFINE undone == SubSeq(tno, m + 1, Len(tno))
  <2>2. /\ undone \in Seq(sets) /\ Len(undone) = Len(tno) - m
        /\ \A i \in 1 .. Len(tno) - m : undone[i] = tno[m + i]
    BY <1>2, <1>3, ElementOfSeq, SubSeqProperties DEF Shape
  <2>3. \A x : x \in ToSet(tno) <=> \E j \in 1 .. Len(tno) : x = tno[j]
    BY ToSetMember DEF Shape
  <2>4. \A x : x \in ToSet(tno') <=> \E j \in 1 .. m : x = tno[j]
    BY <1>5, ToSetMember
  <2>5. \A x : x \in ToSet(undone) <=> \E j \in (m + 1) .. Len(tno) : x = tno[j]
    <3>1. \A x : x \in ToSet(undone) <=> \E i \in 1 .. Len(tno) - m : x = tno[m + i]
      <4>1. \A x : x \in ToSet(undone) <=> \E i \in 1 .. Len(undone) : x = undone[i]
        BY <2>2, ToSetMember
      <4> HIDE DEF undone, m
      <4> QED
        BY <2>2, <4>1
    <3>2. ASSUME NEW j \in (m + 1) .. Len(tno)
          PROVE  j - m \in 1 .. Len(tno) - m /\ j = m + (j - m)
      BY <1>2, <1>3
    <3>3. ASSUME NEW i \in 1 .. Len(tno) - m
          PROVE  m + i \in (m + 1) .. Len(tno)
      BY <1>2, <1>3
    <3> QED
      BY <3>1, <3>2, <3>3
  <2>6. no' = ToSet(tno')
    <3>1. ASSUME NEW x PROVE x \in no' <=> x \in ToSet(tno')
      <4> HIDE DEF m
      <4>1. x \in no' <=> x \in ToSet(tno) /\ x \notin ToSet(undone)
        BY <1>1 DEF Log
      <4>2. ASSUME NEW j \in 1 .. m PROVE tno[j] \notin ToSet(undone) /\ j \in 1 .. Len(tno)
        BY <1>2, <1>3, <2>5 DEF Log, Distinct
      <4>3. ASSUME NEW j \in 1 .. Len(tno) PROVE j \in 1 .. m \/ j \in (m + 1) .. Len(tno)
        BY <1>2, <1>3
      <4> QED
        BY <2>3, <2>4, <2>5, <4>1, <4>2, <4>3
    <3> QED
      BY <1>1, <3>1
  <2> QED
    BY <1>1, <2>1, <2>6 DEF Log, Distinct
<1>8. Marks'
  <2>1. CASE k = 1
    <3>1. m = 0 /\ stack' = <<>> /\ tno' = <<>>
      BY <1>1, <1>2, <1>3, <2>1, SubSeqEmpty DEF Marks
    <3> QED
      BY <1>1, <1>4, <2>1, <3>1 DEF Marks
  <2>2. CASE k > 1
    <3> HIDE DEF m
    <3>1. 1 \in 1 .. k - 1 /\ stack' # <<>> /\ stack # <<>>
      BY <1>2, <1>4, <2>2, EmptySeq DEF Shape
    <3>2. stack'[1].ss = 0
      BY <1>4, <3>1 DEF Marks
    <3>3. ASSUME NEW j \in 1 .. k - 1
          PROVE  /\ j \in 1 .. k /\ j \in 1 .. Len(stack) /\ k \in 1 .. Len(stack)
                 /\ \A i \in 1 .. j : i \in 1 .. k - 1
      BY <1>2
    <3>4. ASSUME NEW j \in 1 .. k - 1
          PROVE  stack'[j].ss <= m
      BY <1>3, <1>4, <3>3 DEF Marks, m
    <3>5. ASSUME NEW j \in 1 .. k - 1
          PROVE  /\ \A i \in 1 .. j : stack'[i].ss <= stack'[j].ss
                 /\ \A i \in 1 .. (j - 1), r \in 1 .. Len(stack'[j].rest) :
                      cv[i] # stack'[j].rest[r]
      <4>1. stack'[j] = stack[j] /\ \A i \in 1 .. j : stack'[i] = stack[i]
        BY <1>4, <3>3
      <4> QED
        BY <3>3, <4>1 DEF Marks
    <3> QED
      BY <1>1, <1>4, <1>5, <3>1, <3>2, <3>4, <3>5 DEF Marks
  <2> QED
    BY <1>2, <2>1, <2>2
<1> QED
  BY <1>6, <1>7, <1>8

-----------------------------------------------------------------------------
(* The theorem. *)

LEMMA NextLog == LogInv /\ [Next]_vars => LogInv'
  BY QuietSteps, SolveStep, SortWhereStep, EnterLoopStep, SkipExcludedStep,
     SelectStep, DeselectStep, LeaveLoopStep DEF Next

LEMMA LogHolds == Spec => []LogInv
  BY InitLog, NextLog, PTL DEF Spec

\* Whatever the family, the bounds and the number of calls of Solve to one object:
\* the log of Go holds each excluded set once, no excluded set is selected, and no
\* call leaves an exclusion to the next one.
THEOREM NothingStaysExcluded == Spec => []ExclusionsUndone
<1>1. LogInv => ExclusionsUndone
  <2> SUFFICES ASSUME LogInv PROVE ExclusionsUndone
    OBVIOUS
  <2>1. Cardinality(no) = Len(tno)
    BY DistinctCount DEF LogInv, Shape, Log
  <2>2. no \cap ToSet(cv) = {}
    BY ApartByToSet DEF LogInv, Shape, Log
  <2>3. ASSUME pc = "idle" PROVE no = {} /\ cv = <<>>
    <3>1. tno = <<>> /\ Len(cv) = 0
      BY <2>3, EmptySeq DEF LogInv, Shape, Marks
    <3>2. cv = <<>>
      BY <3>1, EmptySeq DEF LogInv, Shape
    <3> QED
      BY <3>1, <3>2 DEF LogInv, Log, ToSet
  <2> QED
    BY <2>1, <2>2, <2>3 DEF ExclusionsUndone, LogInv, Log
<1> QED
  BY <1>1, LogHolds, PTL

-----------------------------------------------------------------------------
(* What is recorded is a cover. *)

\* The first c sets that are selected have all elements before position i.
CoveredBefore(i, c) == \A k \in 1 .. (i - 1) : \E q \in 1 .. c : order[k] \in cv[q]

\* The bound is the size of the best cover, and a selection is below both.
Below ==
  /\ upper_bound \in Nat /\ opt \in Seq(sets) /\ Distinct(opt)
  /\ opt # <<>> => upper_bound = Len(opt)
  /\ pc = "sort" => opt = <<>> /\ position = 1
  /\ pc = "go" => Len(cv) <= upper_bound /\ (opt # <<>> => Len(cv) < Len(opt))

\* The lists have sets with the element of their position; the selection covers
\* what lies before the current position, in each loop that is entered too.
Covering ==
  /\ \A i \in 1 .. Len(where) : \A r \in 1 .. Len(where[i]) : order[i] \in where[i][r]
  /\ pc \in {"go", "loop", "return"} => where # <<>>
  /\ pc = "go" => CoveredBefore(position, Len(cv))
  /\ \A j \in 1 .. Len(stack) :
       /\ CoveredBefore(stack[j].position, j - 1)
       /\ \A r \in 1 .. Len(stack[j].rest) : order[stack[j].position] \in stack[j].rest[r]
  /\ opt # <<>> => \A i \in 1 .. n : \E q \in 1 .. Len(opt) : order[i] \in opt[q]

SearchInv == LogInv /\ Below /\ Covering

LEMMA InitSearch == Init => SearchInv
<1> SUFFICES ASSUME Init PROVE SearchInv
  OBVIOUS
<1>1. <<>> \in Seq(sets) /\ Len(<<>>) = 0
  BY EmptySeq
<1>2. Below
  BY <1>1 DEF Init, Below, Distinct
<1>3. Covering
  BY <1>1 DEF Init, Covering
<1> QED
  BY <1>2, <1>3, InitLog DEF SearchInv

LEMMA QuietSearch ==
  ASSUME SearchInv, LogInv', Answer \/ Done \/ UNCHANGED vars
  PROVE  SearchInv'
<1> USE DEF SearchInv, vars, request, undo
<1>1. UNCHANGED <<sets, order, where, stack, cv, opt, upper_bound, position>>
  BY DEF Answer, Done
<1>2. pc' = pc \/ (pc = "return" /\ pc' = "idle")
  BY DEF Answer, Done
<1>3. Below'
  BY <1>1, <1>2 DEF Below, Distinct
<1>4. Covering'
  BY <1>1, <1>2 DEF Covering, CoveredBefore, n
<1> QED
  BY <1>3, <1>4

LEMMA SolveSearch ==
  ASSUME SearchInv, LogInv', NEW U, NEW b \in Bounds, Solve(U, b)
  PROVE  SearchInv'
<1> USE DEF SearchInv
<1>1. <<>> \in Seq(sets') /\ Len(<<>>) = 0
  BY EmptySeq
<1>2. /\ stack' = <<>> /\ cv' = <<>> /\ where' = <<>> /\ opt' = <<>> /\ pc' = "sort"
      /\ position' = 1 /\ upper_bound' = b[2]
  BY DEF Solve, LogInv, Shape
<1>3. Below'
  BY <1>1, <1>2, BoundsAssumption DEF Below, Distinct
<1>4. Covering'
  BY <1>1, <1>2 DEF Covering
<1> QED
  BY <1>3, <1>4

LEMMA SortWhereSearch ==
  ASSUME SearchInv, LogInv', SortWhere
  PROVE  SearchInv'
<1> USE DEF SearchInv
<1>1. /\ UNCHANGED <<sets, order, stack, cv, opt, upper_bound, position>>
      /\ pc = "sort" /\ pc' \in {"go", "sort"}
  BY DEF SortWhere
<1>2. PICK w \in WhereOrders(sets, order, Len(where) + 1) : where' = Append(where, w)
  BY DEF SortWhere
<1>3. w \in Seq(sets)
  BY <1>2, OrdersAreSequences DEF LogInv, Shape
<1>4. /\ Len(where) \in Nat /\ where' # <<>> /\ Len(where') = Len(where) + 1
      /\ \A i \in 1 .. Len(where) : where'[i] = where[i]
      /\ where'[Len(where) + 1] = w
  <2>1. where \in Seq(Seq(sets))
    BY DEF LogInv, Shape
  <2> QED
    BY <1>2, <1>3, <2>1, AppendProperties, LenProperties
<1>5. \A r \in 1 .. Len(w) : order[Len(where) + 1] \in w[r]
  <2> DEFINE X == {s \in sets : order[Len(where) + 1] \in s}
  <2>1. w \in [1 .. Cardinality(X) -> X]
    BY DEF WhereOrders, SetToSeqs
  <2>2. DOMAIN w = 1 .. Len(w)
    BY <1>3, LenProperties
  <2> QED
    BY <2>1, <2>2
<1>6. position = 1 /\ opt = <<>> /\ stack = <<>> /\ cv = <<>> /\ Len(cv) = 0
  BY <1>1, EmptySeq DEF Below, LogInv, Shape
<1>7. Below'
  BY <1>1, <1>6 DEF Below, Distinct
<1>8. \A i \in 1 .. Len(where') : \A r \in 1 .. Len(where'[i]) : order[i] \in where'[i][r]
  BY <1>4, <1>5 DEF Covering
<1>9. Covering'
  BY <1>1, <1>4, <1>6, <1>8 DEF Covering, CoveredBefore
<1> QED
  BY <1>7, <1>9

\* A cover is recorded when all positions are passed.
LEMMA RecordSearch ==
  ASSUME SearchInv, LogInv', Record
  PROVE  SearchInv'
<1> USE DEF SearchInv
<1>1. /\ UNCHANGED <<sets, order, where, position, stack, cv>>
      /\ pc = "go" /\ pc' = "return" /\ opt' = cv /\ upper_bound' = Len(cv)
      /\ position = n + 1
  BY DEF Record, Return, request
<1>2. n \in Nat /\ Len(cv) \in Nat /\ cv \in Seq(sets) /\ Distinct(cv)
  <2>1. where \in Seq(Seq(sets)) /\ cv \in Seq(sets) /\ n = Len(where)
    BY <1>1 DEF LogInv, Shape
  <2>2. Len(where) \in Nat /\ Len(cv) \in Nat
    BY <2>1, LenProperties
  <2> QED
    BY <2>1, <2>2 DEF LogInv, Log
<1>3. Below'
  BY <1>1, <1>2 DEF Below, Distinct
<1>4. \A i \in 1 .. n : \E q \in 1 .. Len(cv) : order[i] \in cv[q]
  BY <1>1, <1>2 DEF Covering, CoveredBefore
<1>5. Covering'
  BY <1>1, <1>4 DEF Covering, CoveredBefore, n
<1> QED
  BY <1>3, <1>5

LEMMA PassCoveredSearch ==
  ASSUME SearchInv, LogInv', PassCovered
  PROVE  SearchInv'
<1> USE DEF SearchInv
<1>1. /\ UNCHANGED <<sets, order, where, stack, cv, opt, upper_bound, pc>>
      /\ pc = "go" /\ position' = position + 1 /\ position <= n
      /\ ToSet(where[position]) \cap ToSet(cv) # {}
  BY DEF PassCovered, request, undo
<1>2. n = Len(where) /\ Len(where) \in Nat /\ position \in 1 .. Len(where)
  BY <1>1, LenProperties DEF LogInv, Shape
<1>3. where[position] \in Seq(sets)
  BY <1>2, ElementOfSeq DEF LogInv, Shape
<1>4. PICK x : x \in ToSet(where[position]) /\ x \in ToSet(cv)
  BY <1>1
<1>5. PICK r \in 1 .. Len(where[position]) : x = where[position][r]
  BY <1>3, <1>4, ToSetMember
<1>6. PICK q \in 1 .. Len(cv) : x = cv[q]
  BY <1>4, ToSetMember DEF LogInv, Shape
<1>7. order[position] \in cv[q]
  BY <1>2, <1>5, <1>6 DEF Covering
<1>8. CoveredBefore(position + 1, Len(cv))
  <2> SUFFICES ASSUME NEW k \in 1 .. position
               PROVE  \E c \in 1 .. Len(cv) : order[k] \in cv[c]
    BY <1>2 DEF CoveredBefore
  <2>1. CASE k = position
    BY <1>7, <2>1
  <2>2. CASE k # position
    BY <1>1, <1>2, <2>2 DEF Covering, CoveredBefore
  <2> QED
    BY <2>1, <2>2
<1>9. Below'
  BY <1>1 DEF Below, Distinct
<1>10. Covering'
  BY <1>1, <1>8 DEF Covering, CoveredBefore, n
<1> QED
  BY <1>9, <1>10

LEMMA EnterLoopSearch ==
  ASSUME SearchInv, LogInv', EnterLoop
  PROVE  SearchInv'
<1> USE DEF SearchInv
<1> DEFINE frame == [position |-> position, rest |-> where[position], ss |-> Len(tno)]
<1>1. /\ UNCHANGED <<sets, order, where, cv, opt, upper_bound, position>>
      /\ stack' = Append(stack, frame) /\ pc' = "loop" /\ pc = "go" /\ position <= n
  BY DEF EnterLoop, request, undo
<1>2. /\ Len(stack) \in Nat /\ Len(cv) = Len(stack) /\ Len(tno) \in Nat
      /\ Len(where) \in Nat /\ position \in 1 .. Len(where)
  BY <1>1, LenProperties DEF LogInv, Shape
<1>3. where[position] \in Seq(sets)
  BY <1>2, ElementOfSeq DEF LogInv, Shape
<1>4. frame \in Frames
  BY <1>2, <1>3 DEF Frames
<1>5. /\ Len(stack') = Len(stack) + 1
      /\ \A j \in 1 .. Len(stack) : stack'[j] = stack[j]
      /\ stack'[Len(stack) + 1] = frame
  BY <1>1, <1>4, AppendProperties DEF LogInv, Shape
<1>6. ASSUME NEW j \in 1 .. Len(stack')
      PROVE  /\ CoveredBefore(stack'[j].position, j - 1)
             /\ \A r \in 1 .. Len(stack'[j].rest) :
                  order[stack'[j].position] \in stack'[j].rest[r]
  <2>1. CASE j \in 1 .. Len(stack)
    BY <1>5, <2>1 DEF Covering
  <2>2. CASE j = Len(stack) + 1
    <3>1. j - 1 = Len(cv) /\ stack'[j] = frame
      BY <1>2, <1>5, <2>2
    <3> QED
      BY <1>1, <1>2, <3>1 DEF Covering
  <2> QED
    BY <1>2, <1>5, <2>1, <2>2
<1>7. Below'
  BY <1>1 DEF Below, Distinct
<1>8. Covering'
  BY <1>1, <1>6 DEF Covering, CoveredBefore, n
<1> QED
  BY <1>7, <1>8

\* Less candidates in the innermost loop.
LEMMA PopSearch ==
  ASSUME SearchInv, pc = "loop", Top.rest # <<>>, PopCandidate
  PROVE  \A j \in 1 .. Len(stack') :
           /\ CoveredBefore(stack'[j].position, j - 1)
           /\ \A r \in 1 .. Len(stack'[j].rest) :
                order[stack'[j].position] \in stack'[j].rest[r]
<1>1. /\ Len(stack') = Len(stack)
      /\ \A j \in 1 .. Len(stack) : \A r \in 1 .. Len(stack'[j].rest) :
           \E q \in 1 .. Len(stack[j].rest) : stack'[j].rest[r] = stack[j].rest[q]
  BY PopKeeps DEF SearchInv
<1>2. ASSUME NEW j \in 1 .. Len(stack) PROVE stack'[j].position = stack[j].position
  <2>1. stack \in Seq(Frames) /\ stack[j] \in Frames
    BY ElementOfSeq DEF SearchInv, LogInv, Shape
  <2> QED
    BY <2>1, LenProperties DEF PopCandidate, Frames
<1>3. ASSUME NEW j \in 1 .. Len(stack), NEW r \in 1 .. Len(stack'[j].rest)
      PROVE  order[stack[j].position] \in stack'[j].rest[r]
  BY <1>1 DEF SearchInv, Covering
<1> QED
  BY <1>1, <1>2, <1>3 DEF SearchInv, Covering

LEMMA SkipExcludedSearch ==
  ASSUME SearchInv, LogInv', SkipExcluded
  PROVE  SearchInv'
<1>1. /\ UNCHANGED <<sets, order, where, cv, opt, upper_bound, position, pc>>
      /\ pc = "loop" /\ Top.rest # <<>> /\ PopCandidate
  BY DEF SkipExcluded, request, undo
<1>2. Below'
  BY <1>1 DEF SearchInv, Below, Distinct
<1>3. Covering'
  BY <1>1, PopSearch DEF SearchInv, Covering, CoveredBefore, n
<1> QED
  BY <1>2, <1>3 DEF SearchInv

\* The breaks leave room for one more set, which covers the position of the loop.
LEMMA SelectSearch ==
  ASSUME SearchInv, LogInv', Select
  PROVE  SearchInv'
<1>1. /\ UNCHANGED <<sets, order, where, opt, upper_bound>>
      /\ pc = "loop" /\ pc' = "go" /\ Top.rest # <<>> /\ PopCandidate /\ ~Breaks
      /\ cv' = Append(cv, Candidate) /\ position' = Top.position + 1
  BY DEF Select, request, undo
<1>2. /\ Len(stack) \in Nat \ {0} /\ Top \in Frames
      /\ Candidate = Top.rest[1] /\ 1 \in 1 .. Len(Top.rest) /\ Candidate \in sets
      /\ Len(stack') = Len(stack)
  BY <1>1, PopKeeps DEF SearchInv
<1>3. Len(cv) \in Nat /\ Len(cv) = Len(stack) - 1 /\ Top.position \in Nat
  BY <1>1, <1>2, LenProperties DEF SearchInv, LogInv, Shape, Frames
<1>4. /\ Len(cv') = Len(cv) + 1
      /\ \A i \in 1 .. Len(cv) : cv'[i] = cv[i]
      /\ cv'[Len(cv) + 1] = Candidate
  BY <1>1, <1>2, AppendProperties DEF SearchInv, LogInv, Shape
<1>5. Below'
  <2>1. Len(opt) \in Nat
    BY LenProperties DEF SearchInv, Below
  <2> QED
    BY <1>1, <1>3, <1>4, <2>1 DEF SearchInv, Below, Breaks, Distinct
<1>6. CoveredBefore(Top.position, Len(cv)) /\ order[Top.position] \in Candidate
  BY <1>2, <1>3 DEF SearchInv, Covering, Top
<1>7. CoveredBefore(position, Len(cv))'
  <2> SUFFICES ASSUME NEW k \in 1 .. Top.position
               PROVE  \E c \in 1 .. Len(cv) + 1 : order[k] \in cv'[c]
    BY <1>1, <1>3, <1>4 DEF CoveredBefore
  <2>1. CASE k = Top.position
    BY <1>3, <1>4, <1>6, <2>1
  <2>2. CASE k # Top.position
    <3>1. PICK c \in 1 .. Len(cv) : order[k] \in cv[c]
      BY <1>3, <1>6, <2>2 DEF CoveredBefore
    <3> QED
      BY <1>3, <1>4, <3>1
  <2> QED
    BY <2>1, <2>2
<1>8. ASSUME NEW j \in 1 .. Len(stack')
      PROVE  CoveredBefore(stack[j].position, j - 1)'
  <2>1. CoveredBefore(stack'[j].position, j - 1)
    BY <1>1, PopSearch
  <2>2. \A c \in 1 .. (j - 1) : c \in 1 .. Len(cv)
    BY <1>2, <1>3
  <2> QED
    BY <1>1, <1>4, <2>1, <2>2 DEF CoveredBefore
<1>9. Covering'
  BY <1>1, <1>7, <1>8, PopSearch DEF SearchInv, Covering, n
<1> QED
  BY <1>5, <1>9 DEF SearchInv

LEMMA DeselectSearch ==
  ASSUME SearchInv, LogInv', Deselect
  PROVE  SearchInv'
<1>1. /\ UNCHANGED <<sets, order, where, position, stack, opt, upper_bound>>
      /\ pc = "return" /\ pc' = "loop"
      /\ cv' = SubSeq(cv, 1, Len(cv) - 1)
  BY DEF Deselect, request, Front
<1>2. Len(stack) \in Nat /\ Len(cv) = Len(stack)
  BY <1>1, LenProperties DEF SearchInv, LogInv, Shape
<1>3. \A i \in 1 .. Len(cv) - 1 : cv'[i] = cv[i]
  BY <1>1, <1>2, ElementOfSeq, SubSeqProperties DEF SearchInv, LogInv, Shape
<1>4. ASSUME NEW j \in 1 .. Len(stack)
      PROVE  CoveredBefore(stack[j].position, j - 1)'
  <2>1. \A c \in 1 .. (j - 1) : c \in 1 .. Len(cv) - 1
    BY <1>2
  <2>2. CoveredBefore(stack[j].position, j - 1)
    BY DEF SearchInv, Covering
  <2> QED
    BY <1>1, <1>3, <2>1, <2>2 DEF CoveredBefore
<1>5. Below'
  BY <1>1 DEF SearchInv, Below, Distinct
<1>6. Covering'
  BY <1>1, <1>4 DEF SearchInv, Covering, n
<1> QED
  BY <1>5, <1>6 DEF SearchInv

LEMMA LeaveLoopSearch ==
  ASSUME SearchInv, LogInv', LeaveLoop
  PROVE  SearchInv'
<1>1. /\ UNCHANGED <<sets, order, where, position, cv, opt, upper_bound>>
      /\ pc = "loop" /\ pc' = "return"
      /\ stack' = SubSeq(stack, 1, Len(stack) - 1)
  BY DEF LeaveLoop, request, Front, Return
<1>2. Len(stack) \in Nat \ {0}
  BY <1>1, LenProperties DEF SearchInv, LogInv, Shape
<1>3. /\ Len(stack') = Len(stack) - 1
      /\ \A j \in 1 .. Len(stack) - 1 : stack'[j] = stack[j] /\ j \in 1 .. Len(stack)
  BY <1>1, <1>2, ElementOfSeq, SubSeqProperties DEF SearchInv, LogInv, Shape
<1>4. Below'
  BY <1>1 DEF SearchInv, Below, Distinct
<1>5. Covering'
  BY <1>1, <1>3 DEF SearchInv, Covering, CoveredBefore, n
<1> QED
  BY <1>4, <1>5 DEF SearchInv

LEMMA NextSearch == SearchInv /\ LogInv' /\ [Next]_vars => SearchInv'
  BY QuietSearch, SolveSearch, SortWhereSearch, RecordSearch, PassCoveredSearch,
     EnterLoopSearch, SkipExcludedSearch, SelectSearch, DeselectSearch,
     LeaveLoopSearch DEF Next

LEMMA SearchHolds == Spec => []SearchInv
  BY InitSearch, NextSearch, LogHolds, PTL DEF Spec

\* The assertions of Go never fail: a cover that is recorded keeps to the bound, is
\* smaller than the one before, and has at least one set.
THEOREM GoAssertsHold == Spec => []GoAsserts
<1>1. SearchInv => GoAsserts
  <2> SUFFICES ASSUME SearchInv, pc = "go", position = n + 1
               PROVE  Len(cv) \in 1 .. upper_bound /\ (opt # <<>> => Len(cv) < Len(opt))
    BY DEF GoAsserts
  <2>1. n \in Nat \ {0} /\ Len(cv) \in Nat
    BY LenProperties, EmptySeq DEF SearchInv, Covering, LogInv, Shape
  <2>2. PICK q \in 1 .. Len(cv) : order[1] \in cv[q]
    BY <2>1 DEF SearchInv, Covering, CoveredBefore
  <2> QED
    BY <2>1, <2>2 DEF SearchInv, Below
<1> QED
  BY <1>1, SearchHolds, PTL

-----------------------------------------------------------------------------
(* The order of the elements and the lists of sets. *)

LEMMA ToSetWithin ==
  ASSUME NEW S, NEW s \in Seq(S)
  PROVE  ToSet(s) \subseteq S
  BY ToSetMember, ElementOfSeq

LEMMA PrefixValues ==
  ASSUME NEW S, NEW s \in Seq(S), NEW c \in Nat, c <= Len(s)
  PROVE  \A x : x \in ToSet(SubSeq(s, 1, c)) <=> \E i \in 1 .. c : x = s[i]
<1>1. /\ Len(s) \in Nat /\ c \in Int /\ 1 \in Int
      /\ \A i \in 1 .. c : i \in 1 .. Len(s) /\ s[i] \in S
  BY LenProperties, ElementOfSeq
<1> DEFINE t == SubSeq(s, 1, c)
<1>2. /\ t \in Seq(S)
      /\ Len(t) = IF 1 <= c THEN c - 1 + 1 ELSE 0
      /\ \A i \in 1 .. c - 1 + 1 : t[i] = s[1 + i - 1]
  BY <1>1, SubSeqProperties
<1>3. \A x : x \in ToSet(t) <=> \E i \in 1 .. Len(t) : x = t[i]
  BY <1>2, ToSetMember
<1> HIDE DEF t
<1>4. Len(t) = c /\ \A i \in 1 .. c : t[i] = s[i]
  BY <1>2
<1> QED
  BY <1>3, <1>4 DEF t

\* Any finite set of numbers is put in order, each number once.
LEMMA OrderIsExact ==
  ASSUME NEW S, IsFiniteSet(S), NEW U \in SUBSET Nat, IsFiniteSet(U)
  PROVE  /\ OrderOf(S, U) \in Seq(U) /\ Len(OrderOf(S, U)) = Cardinality(U)
         /\ Cardinality(U) \in Nat
         /\ ToSet(OrderOf(S, U)) = U
<1> DEFINE m == Cardinality(U)
           Preds(e) == {d \in U : Before(S, d, e)}
           r == [e \in U |-> Rank(S, U, e)]
<1>1. m \in Nat
  BY FS_CardinalityType
<1>2. \A e : CountIn(S, e) \in Nat
  <2> SUFFICES ASSUME NEW e PROVE CountIn(S, e) \in Nat
    OBVIOUS
  <2>1. IsFiniteSet({s \in S : e \in s})
    BY FS_Subset
  <2> QED
    BY <2>1, FS_CardinalityType DEF CountIn
<1>3. ASSUME NEW d \in U, NEW e \in U, Before(S, d, e)
      PROVE  Preds(d) \subseteq Preds(e) /\ d \in Preds(e) /\ d \notin Preds(d)
  <2>1. d \in Nat /\ e \in Nat /\ ~Before(S, d, d)
    BY <1>2 DEF Before
  <2>2. ASSUME NEW c \in U, Before(S, c, d) PROVE Before(S, c, e)
    <3>1. /\ c \in Nat /\ CountIn(S, c) \in Nat
          /\ CountIn(S, d) \in Nat /\ CountIn(S, e) \in Nat
      BY <1>2
    <3> QED
      BY <1>3, <2>1, <2>2, <3>1 DEF Before
  <2> QED
    BY <1>3, <2>1, <2>2
<1>4. ASSUME NEW e \in U
      PROVE  /\ IsFiniteSet(Preds(e)) /\ Cardinality(Preds(e)) \in 0 .. m - 1
  <2>1. Preds(e) \in SUBSET (U \ {e})
    BY <1>2 DEF Before
  <2>2. IsFiniteSet(U \ {e}) /\ Cardinality(U \ {e}) = m - 1
    BY FS_RemoveElement
  <2>3. IsFiniteSet(Preds(e)) /\ Cardinality(Preds(e)) <= m - 1
    BY <2>1, <2>2, FS_Subset
  <2> QED
    BY <1>1, <2>3, FS_CardinalityType
<1>5. ASSUME NEW d \in U, NEW e \in U, Before(S, d, e)
      PROVE  Rank(S, U, d) # Rank(S, U, e)
  <2>1. Preds(d) \subseteq Preds(e) /\ Preds(d) # Preds(e)
    BY <1>3, <1>5
  <2>2. Cardinality(Preds(d)) # Cardinality(Preds(e))
    BY <1>4, <2>1, FS_Subset
  <2> QED
    BY <2>2 DEF Rank
<1>6. \A d, e \in U : d = e \/ Before(S, d, e) \/ Before(S, e, d)
  BY <1>2 DEF Before
<1>7. r \in Injection(U, 0 .. m - 1)
  <2>1. r \in [U -> 0 .. m - 1]
    BY <1>4 DEF Rank
  <2>2. \A d, e \in U : r[d] = r[e] => d = e
    BY <1>5, <1>6
  <2> QED
    BY <2>1, <2>2 DEF Injection, IsInjective
<1>8. IsFiniteSet(0 .. m - 1) /\ Cardinality(0 .. m - 1) = m
  <2>1. m - 1 \in Int /\ (IF 0 > m - 1 THEN 0 ELSE m - 1 - 0 + 1) = m
    BY <1>1
  <2>2. 0 \in Int
    OBVIOUS
  <2> HIDE DEF m
  <2>3. /\ IsFiniteSet(0 .. m - 1)
        /\ Cardinality(0 .. m - 1) = IF 0 > m - 1 THEN 0 ELSE m - 1 - 0 + 1
    BY <2>1, <2>2, FS_Interval
  <2> QED
    BY <2>1, <2>3
<1>9. r \in Surjection(U, 0 .. m - 1)
  BY <1>7, <1>8, FS_Injection
<1>10. \A i \in 1 .. m : \E e \in U : Rank(S, U, e) = i - 1
  <2> SUFFICES ASSUME NEW i \in 1 .. m PROVE \E e \in U : Rank(S, U, e) = i - 1
    OBVIOUS
  <2>1. i - 1 \in 0 .. m - 1
    BY <1>1
  <2> QED
    BY <1>9, <2>1 DEF Surjection
<1> DEFINE o == OrderOf(S, U)
<1>11. \A i \in 1 .. m : o[i] \in U /\ Rank(S, U, o[i]) = i - 1
  BY <1>10 DEF OrderOf
<1>12. o \in [1 .. m -> U]
  BY <1>11 DEF OrderOf
<1>13. o \in Seq(U) /\ Len(o) = m
  BY <1>1, <1>12, SeqDef, LenProperties
<1>14. ASSUME NEW e \in U PROVE \E i \in 1 .. m : o[i] = e
  <2>1. Rank(S, U, e) \in 0 .. m - 1
    BY <1>4 DEF Rank
  <2>2. Rank(S, U, e) + 1 \in 1 .. m /\ Rank(S, U, o[Rank(S, U, e) + 1]) = Rank(S, U, e)
    BY <1>1, <1>11, <2>1
  <2> QED
    BY <1>5, <1>6, <1>11, <2>2
<1>15. ToSet(o) = U
  <2>1. \A x : x \in ToSet(o) <=> \E i \in 1 .. Len(o) : x = o[i]
    BY <1>13, ToSetMember
  <2> HIDE DEF o, m
  <2>2. ASSUME NEW x \in ToSet(o) PROVE x \in U
    BY <1>11, <1>13, <2>1
  <2>3. ASSUME NEW x \in U PROVE x \in ToSet(o)
    <3>1. PICK i \in 1 .. m : o[i] = x
      BY <1>14
    <3> QED
      BY <1>13, <2>1, <3>1
  <2> QED
    BY <2>2, <2>3
<1> QED
  BY <1>1, <1>13, <1>15

\* A list has all sets with the element of its position.
LEMMA OrdersAreExact ==
  ASSUME NEW S, IsFiniteSet(S), NEW o, NEW i, NEW w \in WhereOrders(S, o, i)
  PROVE  ToSet(w) = {s \in S : o[i] \in s}
<1> DEFINE X == {s \in S : o[i] \in s}
           D == 1 .. Cardinality(X)
<1>1. IsFiniteSet(X) /\ Cardinality(X) \in Nat
  BY FS_Subset, FS_CardinalityType
<1>2. w \in [D -> X] /\ \A j, k \in D : j # k => w[j] # w[k]
  BY DEF WhereOrders, SetToSeqs
<1>3. w \in Injection(D, X)
  BY <1>2 DEF Injection, IsInjective
<1>4. IsFiniteSet(D) /\ Cardinality(D) = Cardinality(X)
  BY <1>1, FS_Interval
<1>5. w \in Surjection(D, X)
  BY <1>1, <1>3, <1>4, FS_Injection
<1> QED
  BY <1>2, <1>5 DEF Surjection, ToSet

-----------------------------------------------------------------------------
(* What a call keeps of its request. *)

Exact ==
  /\ calls \in 0 .. MaxCalls
  /\ universe \subseteq UNION g_sets /\ ok_cover \in Nat
  /\ sets = Restricted(g_sets, universe)
  /\ order \in Seq(universe) /\ ToSet(order) = universe /\ n = Cardinality(universe)
  /\ IF pc = "sort" THEN Len(where) < n ELSE Len(where) = n
  /\ \A i \in 1 .. Len(where) : ToSet(where[i]) = {s \in sets : order[i] \in s}
  /\ position <= n + 1
  /\ \A j \in 1 .. Len(stack) : stack[j].position <= n

\* A universe is a finite set of numbers.
LEMMA UniverseFinite ==
  ASSUME NEW F \in Families, NEW U \in SUBSET UNION F
  PROVE  IsFiniteSet(U) /\ U \subseteq Nat
<1>1. IsFiniteSet(UNION F) /\ UNION F \subseteq Nat
  BY FamiliesAssumption, FS_UNION
<1> QED
  BY <1>1, FS_Subset

LEMMA InitExact == Init => Exact
<1> SUFFICES ASSUME Init PROVE Exact
  OBVIOUS
<1>1. <<>> \in Seq({}) /\ Len(<<>>) = 0 /\ Cardinality({}) = 0
  BY EmptySeq, FS_EmptySet
<1>2. ToSet(<<>>) = {}
  BY DEF ToSet
<1>3. Restricted(g_sets, {}) = {}
  BY DEF Restricted
<1> QED
  BY <1>1, <1>2, <1>3, MaxCallsAssumption DEF Init, Exact, n

LEMMA SolveExact ==
  ASSUME LogInv, LogInv', Exact,
         NEW U \in SUBSET UNION g_sets, U # {}, NEW b \in Bounds, Solve(U, b)
  PROVE  Exact'
<1>1. /\ g_sets' = g_sets /\ calls < MaxCalls /\ calls' = calls + 1
      /\ universe' = U /\ ok_cover' = b[1]
      /\ sets' = Restricted(g_sets, U) /\ order' = OrderOf(sets', U)
      /\ where' = <<>> /\ pc' = "sort" /\ position' = 1 /\ stack' = <<>>
  BY DEF Solve, LogInv, Shape
<1>2. IsFiniteSet(U) /\ U \in SUBSET Nat
  BY UniverseFinite DEF LogInv, Shape
<1>3. IsFiniteSet(sets')
  BY DEF LogInv, Shape
<1>4. /\ order' \in Seq(U) /\ Len(order') = Cardinality(U) /\ Cardinality(U) \in Nat
      /\ ToSet(order') = U
  BY <1>1, <1>2, <1>3, OrderIsExact
<1>5. Cardinality(U) # 0
  BY <1>2, FS_EmptySet
<1>6. Len(<<>>) = 0
  BY EmptySeq
<1>7. calls' \in 0 .. MaxCalls /\ ok_cover' \in Nat
  BY <1>1, BoundsAssumption, MaxCallsAssumption DEF Exact
<1> QED
  BY <1>1, <1>4, <1>5, <1>6, <1>7 DEF Exact, n

LEMMA SortWhereExact ==
  ASSUME LogInv, LogInv', Exact, SortWhere
  PROVE  Exact'
<1>1. /\ UNCHANGED <<g_sets, calls, universe, ok_cover, sets, order, stack, position>>
      /\ pc = "sort" /\ pc' = IF Len(where') = Len(order) THEN "go" ELSE "sort"
  BY DEF SortWhere
<1>2. PICK w \in WhereOrders(sets, order, Len(where) + 1) : where' = Append(where, w)
  BY DEF SortWhere
<1>3. w \in Seq(sets) /\ ToSet(w) = {s \in sets : order[Len(where) + 1] \in s}
  BY OrdersAreSequences, OrdersAreExact DEF LogInv, Shape
<1>4. /\ Len(where) \in Nat /\ Len(where') = Len(where) + 1
      /\ \A i \in 1 .. Len(where) : where'[i] = where[i]
      /\ where'[Len(where) + 1] = w
  <2>1. where \in Seq(Seq(sets))
    BY DEF LogInv, Shape
  <2> QED
    BY <1>2, <1>3, <2>1, AppendProperties, LenProperties
<1>5. \A i \in 1 .. Len(where') : ToSet(where'[i]) = {s \in sets : order[i] \in s}
  BY <1>3, <1>4 DEF Exact
<1>6. Len(order) \in Nat
  BY LenProperties DEF Exact
<1>7. IF pc' = "sort" THEN Len(where') < Len(order) ELSE Len(where') = Len(order)
  BY <1>1, <1>4, <1>6 DEF Exact, n
<1> QED
  BY <1>1, <1>5, <1>7 DEF Exact, n

\* The steps of Go move in the order, and leave the request alone.
LEMMA GoExact ==
  ASSUME LogInv, LogInv', Exact,
         \/ Record \/ PassCovered \/ EnterLoop \/ SkipExcluded \/ Select \/ Deselect
         \/ LeaveLoop \/ Answer \/ Done \/ UNCHANGED vars
  PROVE  Exact'
<1>1. UNCHANGED request /\ (pc = "sort" <=> pc' = "sort")
  BY DEF Record, PassCovered, EnterLoop, SkipExcluded, Select, Deselect, LeaveLoop,
         Answer, Done, vars, Return
<1>2. n \in Nat /\ position \in Nat
  BY LenProperties DEF Exact, LogInv, Shape, n
<1>3. ASSUME position' <= n + 1, \A j \in 1 .. Len(stack') : stack'[j].position <= n
      PROVE  Exact'
  BY <1>1, <1>3 DEF Exact, n, request
<1>4. CASE Record \/ Deselect \/ Answer \/ Done \/ UNCHANGED vars
  <2>1. UNCHANGED <<position, stack>>
    BY <1>4 DEF Record, Deselect, Answer, Done, vars
  <2> QED
    BY <1>3, <2>1 DEF Exact
<1>5. CASE PassCovered
  <2>1. position <= n /\ position' = position + 1 /\ UNCHANGED stack
    BY <1>5 DEF PassCovered
  <2>2. position' <= n + 1
    BY <1>2, <2>1
  <2> QED
    BY <1>3, <2>1, <2>2 DEF Exact
<1>6. CASE EnterLoop
  <2> DEFINE frame == [position |-> position, rest |-> where[position], ss |-> Len(tno)]
  <2>1. stack' = Append(stack, frame) /\ UNCHANGED <<position, sets>> /\ position <= n
    BY <1>6 DEF EnterLoop, request
  <2>2. stack \in Seq(Frames) /\ stack' \in Seq(Frames)
    BY <2>1 DEF LogInv, Shape, Frames
  <2>3. stack \in Seq(Frames \cup {frame}) /\ frame \in Frames \cup {frame}
    BY <2>2, SeqMonotonic
  <2>4. /\ Len(stack') = Len(stack) + 1 /\ stack'[Len(stack) + 1] = frame
        /\ \A j \in 1 .. Len(stack) : stack'[j] = stack[j]
        /\ Len(stack) \in Nat
    BY <2>1, <2>3, AppendProperties, LenProperties
  <2>5. ASSUME NEW j \in 1 .. Len(stack') PROVE stack'[j].position <= n
    <3>1. CASE j = Len(stack) + 1
      BY <2>1, <2>4, <3>1
    <3>2. CASE j # Len(stack) + 1
      BY <2>4, <3>2 DEF Exact
    <3> QED
      BY <3>1, <3>2
  <2> QED
    BY <1>3, <2>1, <2>5 DEF Exact
<1>7. CASE SkipExcluded \/ Select
  <2>1. /\ pc = "loop" /\ Top.rest # <<>> /\ PopCandidate
        /\ position' = position \/ position' = Top.position + 1
    BY <1>7 DEF SkipExcluded, Select
  <2>2. Len(stack) \in Nat \ {0} /\ Len(stack') = Len(stack) /\ stack \in Seq(Frames)
    BY <2>1, PopKeeps DEF LogInv, Shape
  <2>3. ASSUME NEW j \in 1 .. Len(stack)
        PROVE  stack'[j].position = stack[j].position /\ stack[j].position \in Nat
    <3>1. stack[j] \in Frames
      BY <2>2, ElementOfSeq
    <3> QED
      BY <2>1, <2>2, <3>1, LenProperties DEF PopCandidate, Frames
  <2>4. Top.position <= n /\ Top.position \in Nat
    BY <2>2, <2>3 DEF Exact, Top
  <2>5. position' <= n + 1
    BY <1>2, <2>1, <2>4 DEF Exact
  <2> QED
    BY <1>3, <2>2, <2>3, <2>5 DEF Exact
<1>8. CASE LeaveLoop
  <2>1. stack' = SubSeq(stack, 1, Len(stack) - 1) /\ UNCHANGED position
    BY <1>8 DEF LeaveLoop, Front
  <2>2. stack \in Seq(Frames) /\ Len(stack) \in Nat \ {0}
    BY <1>8, LenProperties DEF LeaveLoop, LogInv, Shape
  <2>3. /\ Len(stack') = Len(stack) - 1
        /\ \A j \in 1 .. Len(stack) - 1 : stack'[j] = stack[j] /\ j \in 1 .. Len(stack)
    <3>1. \A j \in 1 .. Len(stack) - 1 : j \in 1 .. Len(stack) /\ stack[j] \in Frames
      BY <2>2, ElementOfSeq
    <3> DEFINE k == Len(stack) - 1
               t == SubSeq(stack, 1, k)
    <3>2. /\ Len(t) = IF 1 <= k THEN k - 1 + 1 ELSE 0
          /\ \A j \in 1 .. k - 1 + 1 : t[j] = stack[1 + j - 1]
      <4>1. k \in Int /\ 1 \in Int /\ \A j \in 1 .. k : stack[j] \in Frames
        BY <2>2, <3>1
      <4> HIDE DEF k
      <4> QED
        BY <4>1, SubSeqProperties
    <3>3. k \in Nat /\ \A j \in 1 .. k : 1 + j - 1 = j
      BY <2>2
    <3>4. stack' = t
      BY <2>1
    <3> HIDE DEF t, k
    <3>5. Len(t) = k /\ \A j \in 1 .. k : t[j] = stack[j]
      BY <3>2, <3>3
    <3> QED
      BY <3>1, <3>4, <3>5 DEF k
  <2> QED
    BY <1>3, <2>1, <2>3 DEF Exact
<1> QED
  BY <1>4, <1>5, <1>6, <1>7, <1>8

LEMMA NextExact == LogInv /\ LogInv' /\ Exact /\ [Next]_vars => Exact'
  BY SolveExact, SortWhereExact, GoExact DEF Next

LEMMA ExactHolds == Spec => []Exact
  BY InitExact, NextExact, LogHolds, PTL DEF Spec

\* Every variable of Setcover keeps to its type, in all calls.
THEOREM TypeCorrect == Spec => []TypeOK
<1>1. SearchInv /\ Exact => TypeOK
  <2> SUFFICES ASSUME SearchInv, Exact PROVE TypeOK
    OBVIOUS
  <2>1. n \in Nat
    BY LenProperties DEF Exact, n
  <2>2. DOMAIN where = 1 .. Len(where)
    BY LenProperties DEF SearchInv, LogInv, Shape
  <2>3. ToSet(cv) \subseteq sets /\ ToSet(opt) \subseteq sets /\ ToSet(tno) \subseteq sets
    BY ToSetWithin DEF SearchInv, LogInv, Shape, Below
  <2>4. ASSUME NEW j \in 1 .. Len(stack)
        PROVE  /\ stack[j].position \in 1 .. n
               /\ stack[j].ss \in 0 .. Len(tno)
               /\ ToSet(stack[j].rest) \subseteq sets
    <3>1. stack[j] \in Frames
      BY ElementOfSeq DEF SearchInv, LogInv, Shape
    <3>2. /\ stack[j].position \in Nat \ {0} /\ stack[j].rest \in Seq(sets)
          /\ stack[j].ss \in Nat
      BY <3>1 DEF Frames
    <3>3. stack[j].position <= n /\ stack[j].ss <= Len(tno) /\ Len(tno) \in Nat
      BY LenProperties DEF Exact, SearchInv, LogInv, Marks, Shape
    <3> QED
      BY <2>1, <3>2, <3>3, ToSetWithin
  <2>5. position \in 0 .. n + 1
    BY <2>1 DEF Exact, SearchInv, LogInv, Shape
  <2>6. /\ upper_bound \in Nat
        /\ ToSet(cv) \cup ToSet(opt) \cup no \cup ToSet(tno) \subseteq sets
    BY <2>3 DEF SearchInv, LogInv, Log, Below
  <2> QED
    BY <2>2, <2>4, <2>5, <2>6 DEF Exact, TypeOK, SearchInv, LogInv, Shape
<1> QED
  BY <1>1, SearchHolds, ExactHolds, PTL

-----------------------------------------------------------------------------
(* The search misses nothing. *)

\* Loop j can still come to a part of K, element by element (see Route).
Open(j, K) ==
  /\ \A i \in 1 .. (j - 1) : cv[i] \in K
  /\ \E r \in 1 .. Len(stack[j].rest) : stack[j].rest[r] \in K
  /\ \A l \in 1 .. LogAt(j) : tno[l] \notin K
  /\ Len(cv) >= j => cv[j] \notin K

\* The selection is inside K, and nothing of K is excluded.
Inside(K) ==
  /\ pc \in {"sort", "go"}
  /\ \A i \in 1 .. Len(cv) : cv[i] \in K
  /\ \A l \in 1 .. Len(tno) : tno[l] \notin K

Reach(K) == Inside(K) \/ \E j \in 1 .. Len(stack) : Open(j, K)

\* At the end nothing is left, and before that all that would improve is reachable.
Complete ==
  \A K \in Covers : Improves(K) => IF pc = "idle" THEN calls = 0 ELSE Reach(K)

\* A set that holds a sequence without repetitions is no smaller than that is long.
LEMMA AtLeastAsLarge ==
  ASSUME NEW S, NEW s \in Seq(S), Distinct(s), NEW K, IsFiniteSet(K),
         \A i \in 1 .. Len(s) : s[i] \in K
  PROVE  Len(s) <= Cardinality(K)
<1>1. ToSet(s) \in SUBSET K
  BY ToSetMember
<1> QED
  BY <1>1, FS_Subset, DistinctCount

LEMMA CoverFinite ==
  ASSUME LogInv, NEW K \in Covers
  PROVE  IsFiniteSet(K) /\ Cardinality(K) \in Nat
  BY FS_Subset, FS_CardinalityType DEF Covers, LogInv, Shape

\* A cover has a set of each list.
LEMMA CoverMeetsLists ==
  ASSUME SearchInv, Exact, NEW K \in Covers, NEW i \in 1 .. n
  PROVE  ToSet(where[i]) \cap K # {} \/ pc = "sort"
<1>1. order[i] \in universe
  BY ElementOfSeq DEF Exact, n
<1>2. PICK s \in K : order[i] \in s
  BY <1>1 DEF Covers
<1>3. s \in sets
  BY <1>2 DEF Covers
<1> QED
  BY <1>2, <1>3 DEF Exact

LEMMA InitComplete == Init => Complete
  BY DEF Init, Complete

LEMMA SolveComplete ==
  ASSUME LogInv, LogInv', NEW U, NEW b, Solve(U, b)
  PROVE  Complete'
<1>1. pc' = "sort" /\ cv' = <<>> /\ tno' = <<>> /\ Len(<<>>) = 0
  BY EmptySeq DEF Solve, undo, LogInv, Shape, Marks
<1>2. ASSUME NEW K PROVE Inside(K)'
  BY <1>1 DEF Inside
<1> QED
  BY <1>1, <1>2 DEF Complete, Reach

\* Steps that do not touch the search.
LEMMA QuietComplete ==
  ASSUME SearchInv, Complete, SortWhere \/ PassCovered \/ Done \/ UNCHANGED vars
  PROVE  Complete'
<1>1. /\ UNCHANGED <<sets, universe, calls, ok_cover, stack, cv, opt, upper_bound, tno>>
      /\ pc' = pc \/ (pc = "sort" /\ pc' \in {"sort", "go"})
  BY DEF SortWhere, PassCovered, Done, vars, request, undo
<1>2. ASSUME NEW K PROVE Reach(K) => Reach(K)'
  BY <1>1 DEF Reach, Inside, Open, LogAt
<1> QED
  BY <1>1, <1>2 DEF Complete, Covers, Improves

\* When Go has returned no loop is left through which anything could be reached.
LEMMA AnswerComplete ==
  ASSUME LogInv, Complete, Answer
  PROVE  Complete'
<1>1. /\ UNCHANGED <<sets, universe, calls, ok_cover, stack, cv, opt, upper_bound, tno>>
      /\ pc = "return" /\ stack = <<>>
  BY DEF Answer, request, undo
<1>2. ASSUME NEW K PROVE ~Reach(K)
  BY <1>1, EmptySeq DEF Reach, Inside
<1> QED
  BY <1>1, <1>2 DEF Complete, Covers, Improves

\* A cover that holds all of the recorded one does not improve on it.
LEMMA RecordComplete ==
  ASSUME SearchInv, Exact, Complete, Record
  PROVE  Complete'
<1>1. /\ UNCHANGED <<sets, universe, calls, ok_cover, stack, cv, tno>>
      /\ pc = "go" /\ pc' = "return" /\ opt' = cv /\ upper_bound' = Len(cv)
  BY DEF Record, Return, request, undo
<1>2. cv \in Seq(sets) /\ opt \in Seq(sets) /\ Distinct(cv)
  BY DEF SearchInv, LogInv, Shape, Below, Log
<1>3. Len(cv) \in Nat /\ Len(opt) \in Nat
  BY <1>2, LenProperties
<1>4. upper_bound \in Nat /\ Len(cv) <= upper_bound /\ (opt # <<>> => Len(cv) < Len(opt))
  BY <1>1 DEF SearchInv, Below
<1>5. ASSUME NEW K \in Covers, Improves(K)' PROVE Reach(K)'
  <2>1. IsFiniteSet(K) /\ Cardinality(K) \in Nat
    BY CoverFinite DEF SearchInv
  <2>2. /\ Cardinality(K) <= Len(cv)
        /\ cv # <<>> => Cardinality(K) < Len(cv) /\ Len(cv) > ok_cover
    BY <1>1, <1>5 DEF Improves
  <2>3. ok_cover \in Nat
    BY DEF Exact
  <2>4. cv # <<>>
    <3>1. n \in Nat \ {0} /\ position = n + 1
      BY <1>1, LenProperties, EmptySeq DEF SearchInv, Covering, LogInv, Shape, Record
    <3>2. PICK q \in 1 .. Len(cv) : order[1] \in cv[q]
      BY <1>1, <3>1 DEF SearchInv, Covering, CoveredBefore
    <3> QED
      BY <3>2, EmptySeq
  <2>5. Improves(K)
    BY <1>3, <1>4, <2>1, <2>2, <2>3, <2>4 DEF Improves
  <2>6. Reach(K)
    BY <1>1, <2>5 DEF Complete
  <2>7. ~Inside(K)
    <3>1. ASSUME Inside(K) PROVE Len(cv) <= Cardinality(K)
      BY <1>2, <2>1, <3>1, AtLeastAsLarge DEF Inside
    <3> QED
      BY <1>3, <2>1, <2>2, <2>4, <3>1
  <2> QED
    BY <1>1, <2>6, <2>7 DEF Reach, Open, LogAt
<1> QED
  BY <1>1, <1>5 DEF Complete, Covers

\* All that is inside the selection is open to the loop that is entered.
LEMMA EnterLoopComplete ==
  ASSUME SearchInv, Exact, Complete, EnterLoop
  PROVE  Complete'
<1> DEFINE frame == [position |-> position, rest |-> where[position], ss |-> Len(tno)]
<1>1. /\ UNCHANGED <<sets, universe, calls, ok_cover, cv, opt, upper_bound, tno>>
      /\ stack' = Append(stack, frame) /\ pc' = "loop" /\ pc = "go" /\ position <= n
  BY DEF EnterLoop, request, undo
<1>2. /\ Len(stack) \in Nat /\ Len(cv) = Len(stack) /\ Len(tno) \in Nat
      /\ Len(where) \in Nat /\ position \in 1 .. Len(where) /\ position \in 1 .. n
  BY <1>1, LenProperties DEF SearchInv, LogInv, Shape
<1>3. where[position] \in Seq(sets)
  BY <1>2, ElementOfSeq DEF SearchInv, LogInv, Shape
<1>4. frame \in Frames
  BY <1>2, <1>3 DEF Frames
<1>5. /\ Len(stack') = Len(stack) + 1
      /\ \A j \in 1 .. Len(stack) : stack'[j] = stack[j]
      /\ stack'[Len(stack) + 1] = frame
  BY <1>1, <1>4, AppendProperties DEF SearchInv, LogInv, Shape
<1>6. ASSUME NEW K \in Covers, Reach(K) PROVE Reach(K)'
  <2>1. ASSUME NEW j \in 1 .. Len(stack), Open(j, K)
        PROVE  Open(j, K)' /\ j \in 1 .. Len(stack')
    <3>1. LogAt(j)' = LogAt(j)
      BY <1>1, <1>2, <1>5, <2>1 DEF LogAt
    <3> QED
      BY <1>1, <1>2, <1>5, <2>1, <3>1 DEF Open
  <2>2. PICK k \in 1 .. Len(stack') : k = Len(stack) + 1
    BY <1>2, <1>5
  <2>3. ASSUME Inside(K) PROVE Open(k, K)'
    <3>1. LogAt(k)' = Len(tno)
      BY <1>1, <1>2, <1>5, <2>2 DEF LogAt
    <3>2. PICK x : x \in ToSet(where[position]) /\ x \in K
      BY <1>1, <1>2, CoverMeetsLists
    <3>3. \E r \in 1 .. Len(where[position]) : where[position][r] \in K
      BY <1>3, <3>2, ToSetMember
    <3>4. stack'[k].rest = where[position]
      BY <1>5, <2>2
    <3>5. ~(Len(cv) >= k) /\ k - 1 = Len(cv)
      BY <1>2, <2>2
    <3> QED
      BY <1>1, <2>3, <3>1, <3>3, <3>4, <3>5 DEF Open, Inside
  <2> QED
    BY <1>6, <2>1, <2>3 DEF Reach
<1> QED
  BY <1>1, <1>6 DEF Complete, Covers, Improves

\* The innermost loop loses its first candidate, and nothing else changes.
LEMMA PopExact ==
  ASSUME LogInv, pc = "loop", Top.rest # <<>>, PopCandidate
  PROVE  /\ Top = stack[Len(stack)]
         /\ \A j \in 1 .. Len(stack) - 1 : stack'[j] = stack[j]
         /\ Len(stack'[Len(stack)].rest) = Len(Top.rest) - 1
         /\ \A r \in 1 .. Len(Top.rest) - 1 : stack'[Len(stack)].rest[r] = Top.rest[r + 1]
         /\ Len(Top.rest) \in Nat \ {0}
<1>1. Len(stack) \in Nat \ {0} /\ Top \in Frames /\ stack \in Seq(Frames)
  BY PopKeeps DEF LogInv, Shape
<1>2. Top.rest \in Seq(sets)
  BY <1>1 DEF Frames
<1>3. /\ Len(Tail(Top.rest)) = Len(Top.rest) - 1 /\ Len(Top.rest) \in Nat \ {0}
      /\ \A r \in 1 .. Len(Tail(Top.rest)) : Tail(Top.rest)[r] = Top.rest[r + 1]
  BY <1>2, HeadTailProperties, EmptySeq
<1>4. Top = stack[Len(stack)]
  BY DEF Top
<1>5. \A j \in 1 .. Len(stack) - 1 : stack'[j] = stack[j]
  BY <1>1, LenProperties DEF PopCandidate
<1>6. stack'[Len(stack)].rest = Tail(Top.rest)
  BY <1>1, <1>4, LenProperties DEF PopCandidate, Frames
<1> QED
  BY <1>3, <1>4, <1>5, <1>6

\* Without its first candidate the loop is still open to K, unless that is in K.
LEMMA PopOpen ==
  ASSUME LogInv, pc = "loop", Top.rest # <<>>, PopCandidate, UNCHANGED tno, NEW K,
         NEW j \in 1 .. Len(stack), Open(j, K), j = Len(stack) => Candidate \notin K
  PROVE  /\ \A i \in 1 .. (j - 1) : cv[i] \in K
         /\ \E r \in 1 .. Len(stack'[j].rest) : stack'[j].rest[r] \in K
         /\ \A l \in 1 .. LogAt(j)' : tno[l] \notin K
         /\ Len(stack') = Len(stack)
<1>1. /\ Len(stack) \in Nat \ {0} /\ Candidate = Top.rest[1]
      /\ Len(stack') = Len(stack)
      /\ \A i \in 1 .. Len(stack) : stack'[i].ss = stack[i].ss
  BY PopKeeps
<1>2. LogAt(j)' = LogAt(j)
  <2>1. j < Len(stack) => j + 1 \in 1 .. Len(stack)
    BY <1>1
  <2> QED
    BY <1>1, <2>1 DEF LogAt
<1>3. \E r \in 1 .. Len(stack'[j].rest) : stack'[j].rest[r] \in K
  <2>1. CASE j = Len(stack)
    <3>1. PICK r \in 1 .. Len(Top.rest) : Top.rest[r] \in K
      BY <2>1 DEF Open, Top
    <3>2. r # 1
      BY <1>1, <2>1, <3>1
    <3>3. r - 1 \in 1 .. Len(Top.rest) - 1 /\ (r - 1) + 1 = r
      BY <3>2, PopExact
    <3> QED
      BY <2>1, <3>1, <3>3, PopExact
  <2>2. CASE j # Len(stack)
    <3>1. j \in 1 .. Len(stack) - 1
      BY <1>1, <2>2
    <3> QED
      BY <3>1, PopExact DEF Open
  <2> QED
    BY <2>1, <2>2
<1> QED
  BY <1>1, <1>2, <1>3 DEF Open

LEMMA SkipExcludedComplete ==
  ASSUME SearchInv, Complete, SkipExcluded
  PROVE  Complete'
<1>1. /\ UNCHANGED <<sets, universe, calls, ok_cover, cv, opt, upper_bound, tno, pc>>
      /\ pc = "loop" /\ Top.rest # <<>> /\ PopCandidate /\ Candidate \in no
  BY DEF SkipExcluded, request, undo
<1>2. ASSUME NEW K, Reach(K) PROVE Reach(K)'
  <2>1. PICK j \in 1 .. Len(stack) : Open(j, K)
    BY <1>1, <1>2 DEF Reach, Inside
  <2>2. ASSUME j = Len(stack) PROVE Candidate \notin K
    <3>1. PICK l \in 1 .. Len(tno) : Candidate = tno[l]
      BY <1>1, ToSetMember DEF SearchInv, LogInv, Log, Shape
    <3>2. LogAt(j) = Len(tno)
      BY <2>2, PopKeeps, <1>1 DEF LogAt, SearchInv
    <3> QED
      BY <2>1, <3>1, <3>2 DEF Open
  <2>3. Open(j, K)' /\ Len(stack') = Len(stack)
    BY <1>1, <2>1, <2>2, PopOpen DEF SearchInv, Open
  <2> QED
    BY <2>3 DEF Reach
<1> QED
  BY <1>1, <1>2 DEF Complete, Covers, Improves

\* A candidate of K leads inside K, any other leaves the rest of the loop open.
LEMMA SelectComplete ==
  ASSUME SearchInv, Complete, Select
  PROVE  Complete'
<1>1. /\ UNCHANGED <<sets, universe, calls, ok_cover, opt, upper_bound, tno>>
      /\ pc = "loop" /\ pc' = "go" /\ Top.rest # <<>> /\ PopCandidate
      /\ cv' = Append(cv, Candidate)
  BY DEF Select, request, undo
<1>2. /\ Len(stack) \in Nat \ {0} /\ Candidate \in sets /\ Len(stack') = Len(stack)
  BY <1>1, PopKeeps DEF SearchInv
<1>3. Len(cv) \in Nat /\ Len(cv) = Len(stack) - 1
  BY <1>1, LenProperties DEF SearchInv, LogInv, Shape
<1>4. /\ Len(cv') = Len(cv) + 1
      /\ \A i \in 1 .. Len(cv) : cv'[i] = cv[i]
      /\ cv'[Len(cv) + 1] = Candidate
  BY <1>1, <1>2, AppendProperties DEF SearchInv, LogInv, Shape
<1>5. ASSUME NEW K, Reach(K) PROVE Reach(K)'
  <2>1. PICK j \in 1 .. Len(stack) : Open(j, K)
    BY <1>1, <1>5 DEF Reach, Inside
  <2>2. CASE j = Len(stack) /\ Candidate \in K
    <3>1. LogAt(j) = Len(tno) /\ j - 1 = Len(cv)
      BY <1>2, <1>3, <2>2 DEF LogAt
    <3>2. ASSUME NEW i \in 1 .. Len(cv') PROVE cv'[i] \in K
      <4>1. CASE i = Len(cv) + 1
        BY <1>4, <2>2, <4>1
      <4>2. CASE i # Len(cv) + 1
        <5>1. i \in 1 .. Len(cv)
          BY <1>3, <1>4, <4>2
        <5> QED
          BY <1>4, <2>1, <3>1, <5>1 DEF Open
      <4> QED
        BY <4>1, <4>2
    <3>3. Inside(K)'
      BY <1>1, <2>1, <3>1, <3>2 DEF Inside, Open
    <3> QED
      BY <3>3 DEF Reach
  <2>3. CASE ~(j = Len(stack) /\ Candidate \in K)
    <3>1. \A i \in 1 .. (j - 1) : cv'[i] = cv[i]
      BY <1>2, <1>3, <1>4
    <3>2. cv'[j] \notin K
      <4>1. CASE j = Len(stack)
        BY <1>2, <1>3, <1>4, <2>3, <4>1
      <4>2. CASE j # Len(stack)
        BY <1>2, <1>3, <1>4, <2>1, <4>2 DEF Open
      <4> QED
        BY <4>1, <4>2
    <3>3. Open(j, K)'
      BY <1>1, <2>1, <2>3, <3>1, <3>2, PopOpen DEF SearchInv, Open
    <3> QED
      BY <1>2, <3>3 DEF Reach
  <2> QED
    BY <2>2, <2>3
<1> QED
  BY <1>1, <1>5 DEF Complete, Covers, Improves

\* What is deselected is not in K, or the loop would not be open to K.
LEMMA DeselectComplete ==
  ASSUME SearchInv, Complete, Deselect
  PROVE  Complete'
<1>1. /\ UNCHANGED <<sets, universe, calls, ok_cover, stack, opt, upper_bound>>
      /\ pc = "return" /\ pc' = "loop" /\ stack # <<>>
      /\ cv' = SubSeq(cv, 1, Len(cv) - 1)
      /\ tno' = Append(tno, Last(cv))
  BY DEF Deselect, request, Front
<1>2. /\ Len(stack) \in Nat \ {0} /\ Len(cv) = Len(stack) /\ Len(tno) \in Nat
  BY <1>1, LenProperties, EmptySeq DEF SearchInv, LogInv, Shape
<1>3. Last(cv) = cv[Len(cv)] /\ Last(cv) \in sets
  BY <1>2, ElementOfSeq DEF SearchInv, LogInv, Shape, Last
<1>4. /\ Len(cv') = Len(cv) - 1
      /\ \A i \in 1 .. Len(cv) - 1 : cv'[i] = cv[i]
  BY <1>1, <1>2, ElementOfSeq, SubSeqProperties DEF SearchInv, LogInv, Shape
<1>5. /\ Len(tno') = Len(tno) + 1
      /\ \A j \in 1 .. Len(tno) : tno'[j] = tno[j]
      /\ tno'[Len(tno) + 1] = cv[Len(cv)]
  BY <1>1, <1>3, AppendProperties DEF SearchInv, LogInv, Shape
<1>6. ASSUME NEW K, Reach(K) PROVE Reach(K)'
  <2>1. PICK j \in 1 .. Len(stack) : Open(j, K)
    BY <1>1, <1>6 DEF Reach, Inside
  <2>2. \A i \in 1 .. (j - 1) : cv'[i] = cv[i]
    BY <1>2, <1>4
  <2>3. \A l \in 1 .. LogAt(j)' : tno'[l] \notin K
    <3>1. CASE j = Len(stack)
      <4>1. LogAt(j) = Len(tno) /\ LogAt(j)' = Len(tno) + 1 /\ cv[j] \notin K
        BY <1>1, <1>2, <1>5, <2>1, <3>1 DEF LogAt, Open
      <4>2. ASSUME NEW l \in 1 .. Len(tno) + 1 PROVE tno'[l] \notin K
        <5>1. CASE l = Len(tno) + 1
          BY <1>2, <1>5, <3>1, <4>1, <5>1
        <5>2. CASE l # Len(tno) + 1
          <6>1. l \in 1 .. Len(tno)
            BY <1>2, <5>2
          <6> QED
            BY <1>5, <2>1, <4>1, <6>1 DEF Open
        <5> QED
          BY <5>1, <5>2
      <4> QED
        BY <4>1, <4>2
    <3>2. CASE j # Len(stack)
      <4>1. /\ j + 1 \in 1 .. Len(stack) /\ j < Len(stack)
            /\ LogAt(j) = stack[j + 1].ss /\ LogAt(j)' = stack[j + 1].ss
        BY <1>1, <1>2, <3>2 DEF LogAt
      <4>2. stack[j + 1].ss <= Len(tno) /\ stack[j + 1] \in Frames
        BY <4>1, ElementOfSeq DEF SearchInv, LogInv, Marks, Shape
      <4>3. \A l \in 1 .. LogAt(j) : l \in 1 .. Len(tno)
        BY <1>2, <4>1, <4>2 DEF Frames
      <4> QED
        BY <1>5, <2>1, <4>1, <4>3 DEF Open
    <3> QED
      BY <3>1, <3>2
  <2>4. Len(cv') >= j => cv'[j] \notin K
    BY <1>2, <1>4, <2>1 DEF Open
  <2>5. Open(j, K)'
    BY <1>1, <2>1, <2>2, <2>3, <2>4 DEF Open
  <2> QED
    BY <1>1, <2>5 DEF Reach
<1> QED
  BY <1>1, <1>6 DEF Complete, Covers, Improves

\* A loop that is open to an improvement does not end: with what is selected and
\* a candidate of K, K is too large to break for any of the three reasons.
LEMMA LeaveLoopComplete ==
  ASSUME SearchInv, Exact, Complete, LeaveLoop
  PROVE  Complete'
<1> DEFINE k == Len(stack)
           m == Top.ss
<1>1. /\ UNCHANGED <<sets, universe, calls, ok_cover, cv, opt, upper_bound>>
      /\ pc = "loop" /\ pc' = "return"
      /\ stack' = SubSeq(stack, 1, k - 1)
      /\ tno' = SubSeq(tno, 1, m)
      /\ Top.rest = <<>> \/ Breaks
  BY DEF LeaveLoop, request, Front, Return
<1>2. /\ k \in Nat \ {0} /\ Len(cv) = k - 1 /\ Len(tno) \in Nat
  BY <1>1, LenProperties DEF SearchInv, LogInv, Shape
<1>3. Top = stack[k] /\ Top \in Frames /\ m \in Nat /\ m <= Len(tno)
  <2>1. k \in 1 .. k /\ Top = stack[k]
    BY <1>2 DEF Top
  <2>2. stack[k] \in Frames
    BY <2>1, ElementOfSeq DEF SearchInv, LogInv, Shape
  <2> QED
    BY <2>1, <2>2 DEF Frames, SearchInv, LogInv, Marks
<1>4. /\ Len(stack') = k - 1
      /\ \A j \in 1 .. k - 1 : stack'[j] = stack[j]
  BY <1>1, <1>2, ElementOfSeq, SubSeqProperties DEF SearchInv, LogInv, Shape
<1>5. /\ Len(tno') = m
      /\ \A j \in 1 .. m : tno'[j] = tno[j]
  BY <1>1, <1>2, <1>3, ElementOfSeq, SubSeqProperties DEF SearchInv, LogInv, Shape
<1>6. ASSUME NEW K \in Covers, Improves(K) PROVE ~Open(k, K)
  <2> SUFFICES ASSUME Open(k, K) PROVE FALSE
    OBVIOUS
  <2>1. PICK r \in 1 .. Len(Top.rest) : Top.rest[r] \in K
    BY <1>3 DEF Open
  <2>2. Breaks
    BY <1>1, <2>1, EmptySeq
  <2>3. \A i \in 1 .. Len(cv) : cv[i] \in K /\ cv[i] # Top.rest[r]
    <3>1. k \in 1 .. Len(stack)
      BY <1>2
    <3>2. \A i \in 1 .. (k - 1) : cv[i] # Top.rest[r]
      BY <1>3, <2>1, <3>1 DEF SearchInv, LogInv, Marks
    <3>3. \A i \in 1 .. (k - 1) : cv[i] \in K
      BY DEF Open
    <3> QED
      BY <1>2, <3>2, <3>3
  <2> DEFINE J == K \ {Top.rest[r]}
  <2>4. IsFiniteSet(K) /\ Cardinality(K) \in Nat
    BY CoverFinite DEF SearchInv
  <2>5. IsFiniteSet(J) /\ Cardinality(J) = Cardinality(K) - 1
    BY <2>1, <2>4, FS_RemoveElement
  <2>6. Len(cv) <= Cardinality(J)
    BY <2>3, <2>5, AtLeastAsLarge DEF SearchInv, LogInv, Shape, Log
  <2>7. opt \in Seq(sets) /\ upper_bound \in Nat
    BY DEF SearchInv, Below
  <2>8. Len(opt) \in Nat /\ (opt = <<>> => Len(opt) = 0)
    BY <2>7, LenProperties, EmptySeq
  <2>9. Len(cv) + 1 <= Cardinality(K) /\ Len(cv) \in Nat
    BY <1>2, <2>4, <2>5, <2>6
  <2>10. CASE Len(cv) + 1 > upper_bound
    BY <1>6, <2>4, <2>7, <2>9, <2>10 DEF Improves
  <2>11. CASE Len(cv) + 1 = Len(opt)
    BY <1>6, <2>4, <2>8, <2>9, <2>11 DEF Improves
  <2>12. CASE opt # <<>> /\ Len(opt) <= ok_cover
    BY <1>6, <2>8, <2>12 DEF Improves, Exact
  <2> QED
    BY <2>2, <2>10, <2>11, <2>12 DEF Breaks
<1>7. ASSUME NEW K, NEW j \in 1 .. k - 1, Open(j, K) PROVE Open(j, K)'
  <2>1. LogAt(j) = stack[j + 1].ss /\ j + 1 \in 1 .. k /\ k \in 1 .. k
    BY <1>2 DEF LogAt
  <2>2. stack[j + 1].ss <= m
    BY <1>3, <2>1 DEF SearchInv, LogInv, Marks
  <2>3. stack[j + 1].ss \in Nat
    <3>1. stack[j + 1] \in Frames
      BY <2>1, ElementOfSeq DEF SearchInv, LogInv, Shape
    <3> QED
      BY <3>1 DEF Frames
  <2>4. LogAt(j)' = stack[j + 1].ss
    <3>1. CASE j = k - 1
      BY <1>2, <1>3, <1>4, <1>5, <3>1 DEF LogAt
    <3>2. CASE j # k - 1
      BY <1>2, <1>4, <3>2 DEF LogAt
    <3> QED
      BY <3>1, <3>2
  <2>5. \A l \in 1 .. LogAt(j) : l \in 1 .. m
    BY <1>3, <2>1, <2>2, <2>3
  <2> HIDE DEF m
  <2>6. \A l \in 1 .. LogAt(j)' : tno'[l] \notin K
    BY <1>5, <1>7, <2>1, <2>4, <2>5 DEF Open
  <2> QED
    BY <1>1, <1>4, <1>7, <2>6 DEF Open
<1>8. ASSUME NEW K \in Covers, Improves(K), Reach(K) PROVE Reach(K)'
  <2>1. PICK j \in 1 .. k : Open(j, K)
    BY <1>1, <1>8 DEF Reach, Inside
  <2>2. j \in 1 .. k - 1
    BY <1>2, <1>6, <1>8, <2>1
  <2> QED
    BY <1>4, <1>7, <2>1, <2>2 DEF Reach
<1> QED
  BY <1>1, <1>8 DEF Complete, Covers, Improves

LEMMA NextComplete ==
  SearchInv /\ SearchInv' /\ Exact /\ Complete /\ [Next]_vars => Complete'
  BY SolveComplete, QuietComplete, AnswerComplete, RecordComplete, EnterLoopComplete,
     SkipExcludedComplete, SelectComplete, DeselectComplete, LeaveLoopComplete
     DEF Next, SearchInv

LEMMA CompleteHolds == Spec => []Complete
  BY InitComplete, NextComplete, SearchHolds, ExactHolds, PTL DEF Spec

\* A loop that is open to K has a route to it.
LEMMA OpenIsRoute ==
  ASSUME LogInv, NEW K, NEW j \in 1 .. Len(stack), Open(j, K)
  PROVE  Route(j, K)
<1>1. Len(stack) \in Nat /\ Len(cv) \in Nat /\ j - 1 <= Len(cv) /\ j \in Nat
  BY LenProperties DEF LogInv, Shape
<1>2. stack[j] \in Frames /\ Len(tno) \in Nat
  BY ElementOfSeq, LenProperties DEF LogInv, Shape
<1>3. LogAt(j) \in Nat /\ LogAt(j) <= Len(tno)
  <2>1. CASE j < Len(stack)
    <3>1. j + 1 \in 1 .. Len(stack)
      BY <1>1, <2>1
    <3>2. stack[j + 1] \in Frames /\ stack[j + 1].ss <= Len(tno)
      BY <3>1, ElementOfSeq DEF LogInv, Shape, Marks
    <3> QED
      BY <2>1, <3>2 DEF LogAt, Frames
  <2>2. CASE ~(j < Len(stack))
    BY <1>2, <2>2 DEF LogAt
  <2> QED
    BY <2>1, <2>2
<1>4. ToSet(SubSeq(cv, 1, j - 1)) \subseteq K
  <2>1. \A x : x \in ToSet(SubSeq(cv, 1, j - 1)) <=> \E i \in 1 .. (j - 1) : x = cv[i]
    <3>1. cv \in Seq(sets) /\ j - 1 \in Nat
      BY <1>1 DEF LogInv, Shape
    <3> QED
      BY <1>1, <3>1, PrefixValues
  <2> QED
    BY <2>1 DEF Open
<1>5. ToSet(SubSeq(tno, 1, LogAt(j))) \cap K = {}
  <2>1. \A x : x \in ToSet(SubSeq(tno, 1, LogAt(j))) <=> \E i \in 1 .. LogAt(j) : x = tno[i]
    BY <1>2, <1>3, PrefixValues DEF LogInv, Shape
  <2> QED
    BY <2>1 DEF Open
<1>6. ToSet(stack[j].rest) \cap K # {}
  <2>1. stack[j].rest \in Seq(sets)
    BY <1>2 DEF Frames
  <2>2. PICK r \in 1 .. Len(stack[j].rest) : stack[j].rest[r] \in K
    BY DEF Open
  <2>3. stack[j].rest[r] \in ToSet(stack[j].rest)
    BY <2>1, <2>2, ToSetMember
  <2> QED
    BY <2>2, <2>3
<1> QED
  BY <1>4, <1>5, <1>6 DEF Route, Open

\* The search misses no cover that would be an improvement, whatever the family, the
\* bounds, the order in which sets of equal weight are tried, and the calls before.
THEOREM NothingIsMissed == Spec => []SearchComplete
<1>1. LogInv /\ Complete => SearchComplete
  <2> SUFFICES ASSUME LogInv, Complete, pc # "idle", NEW K \in Covers, Improves(K)
               PROVE  \/ pc \in {"sort", "go"} /\ ToSet(cv) \subseteq K /\ no \cap K = {}
                      \/ \E j \in 1 .. Len(stack) : Route(j, K)
    BY DEF SearchComplete
  <2>1. CASE Inside(K)
    <3>1. \A x : x \in ToSet(cv) <=> \E i \in 1 .. Len(cv) : x = cv[i]
      BY ToSetMember DEF LogInv, Shape
    <3>2. \A x : x \in ToSet(tno) <=> \E i \in 1 .. Len(tno) : x = tno[i]
      BY ToSetMember DEF LogInv, Shape
    <3> QED
      BY <2>1, <3>1, <3>2 DEF Inside, LogInv, Log
  <2>2. CASE ~Inside(K)
    BY <2>2, OpenIsRoute DEF Complete, Reach
  <2> QED
    BY <2>1, <2>2
<1> QED
  BY <1>1, LogHolds, CompleteHolds, PTL

\* Solve answers rightly, for every family, bounds and sequence of calls: with a cover
\* that is good enough or least, or with <<-1>> when there is none within the bound.
THEOREM AnswersAreCorrect == Spec => []AnswerCorrect
<1>1. SearchInv /\ Exact /\ Complete /\ TypeOK /\ GoAsserts => AnswerCorrect
  <2> SUFFICES ASSUME SearchInv, Exact, Complete, pc = "idle", calls > 0
               PROVE  IF opt = <<>>
                      THEN \A K \in Covers : Cardinality(K) > upper_bound
                      ELSE /\ ToSet(opt) \in Covers
                           /\ Cardinality(ToSet(opt)) = Len(opt)
                           /\ \/ Len(opt) <= ok_cover
                              \/ \A K \in Covers : Len(opt) <= Cardinality(K)
    BY DEF AnswerCorrect
  <2>1. opt \in Seq(sets) /\ Distinct(opt) /\ upper_bound \in Nat /\ ok_cover \in Nat
    BY DEF SearchInv, Below, Exact
  <2>2. Len(opt) \in Nat
    BY <2>1, LenProperties
  <2>3. ASSUME NEW K \in Covers PROVE ~Improves(K) /\ Cardinality(K) \in Nat
    BY CoverFinite DEF Complete, Exact, SearchInv
  <2>4. CASE opt = <<>>
    BY <2>1, <2>3, <2>4 DEF Improves
  <2>5. CASE opt # <<>>
    <3>1. ToSet(opt) \subseteq sets /\ Cardinality(ToSet(opt)) = Len(opt)
      BY <2>1, ToSetWithin, DistinctCount
    <3>2. UNION ToSet(opt) \subseteq universe
      BY <3>1 DEF Exact, Restricted
    <3>3. ASSUME NEW e \in universe PROVE e \in UNION ToSet(opt)
      <4>1. PICK i \in 1 .. n : order[i] = e
        BY ToSetMember DEF Exact, n
      <4>2. PICK q \in 1 .. Len(opt) : e \in opt[q]
        BY <2>5, <4>1 DEF SearchInv, Covering
      <4> QED
        BY <2>1, <4>2, ToSetMember
    <3>4. ToSet(opt) \in Covers
      BY <3>1, <3>2, <3>3 DEF Covers
    <3>5. upper_bound = Len(opt)
      BY <2>5 DEF SearchInv, Below
    <3> QED
      BY <2>1, <2>2, <2>3, <2>5, <3>1, <3>4, <3>5 DEF Improves
  <2> QED
    BY <2>4, <2>5
<1> QED
  BY <1>1, SearchHolds, ExactHolds, CompleteHolds, TypeCorrect, GoAssertsHold, PTL
=============================================================================

--------------------------- MODULE TotalizerTree ---------------------------
(***************************************************************************)
(* The tree that TotalizerBuilder (cardinality_constraint_builder.cpp)       *)
(* builds over its inputs, and the clauses that each call of BuildToSize adds *)
(* for it.  A node is the interval <<l, r>> of its inputs.  The x-th literal   *)
(* of a node is <<node, x>>; literal 0 is the constant TrueLit, literal 1 of a *)
(* leaf its input.                                                          *)
(***************************************************************************)
EXTENDS Integers, FiniteSets

\* A node's interval is cut in the middle until it is one input.
Middle(node) == (node[1] + node[2]) \div 2
Left(node) == <<node[1], Middle(node)>>
Right(node) == <<Middle(node) + 1, node[2]>>
IsLeaf(node) == node[1] = node[2]
Size(node) == node[2] - node[1] + 1
Root(m) == <<0, m - 1>>

Nodes(m) ==
  LET level[d \in 0 .. m] ==
        IF d = 0 THEN {Root(m)}
        ELSE UNION {{Left(v), Right(v)} : v \in {u \in level[d - 1] : ~IsLeaf(u)}}
  IN  UNION {level[d] : d \in 0 .. m}

Min2(a, b) == IF a <= b THEN a ELSE b

\* Planted fault: an inner node gets no literal for its largest count.
LitsAtOneFewer(n, v, size) == CASE v = Root(n) -> n + 1
                                [] IsLeaf(v) -> 2
                                [] OTHER -> Min2(size, Size(v))

\* The number of literals of a node once it is built to a size.
LitsAt(n, v, size) == CASE v = Root(n) -> n + 1
                        [] IsLeaf(v) -> 2
                        [] OTHER -> Min2(size, Size(v)) + 1

\* BuildNode: a inputs on the left and x - a on the right are x inputs.
NodeClauses(v, x, count) ==
  {<<<<Left(v), a>>, <<Right(v), x - a>>, <<v, x>>>> :
     a \in {i \in 0 .. x : i < count[Left(v)] /\ x - i < count[Right(v)]}}

\* The literals of a node whose clauses a call of Build adds.
NewSizes(cur_size, v, size) == (cur_size + 1) .. Min2(size, Size(v))

\* BuildToSize(size) for n inputs, after it was built to cur_size: the clauses
\* that are new.
NewClauses(n, cur_size, size) ==
  LET count == [v \in Nodes(n) |-> LitsAt(n, v, size)]
  IN  UNION {UNION {NodeClauses(v, x, count) : x \in NewSizes(cur_size, v, size)} :
               v \in {u \in Nodes(n) : ~IsLeaf(u)}}

\* The inputs that some of the clauses refer to.
InputsOf(cls) ==
  {i \in {cl[j][1][1] : cl \in cls, j \in 1 .. 2} :
     \E cl \in cls : <<<<i, i>>, 1>> \in {cl[1], cl[2]}}
=============================================================================

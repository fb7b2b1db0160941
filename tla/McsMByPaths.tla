---------------------------- MODULE McsMByPaths ----------------------------
(***************************************************************************)
(* The minimal triangulation search as the literature defines it: a vertex   *)
(* with the largest weight is numbered, and each vertex that is adjacent to   *)
(* it, or that a path of unnumbered vertices with smaller weights connects   *)
(* to it, gains one weight and is adjacent to it in the triangulation.       *)
(***************************************************************************)
EXTENDS GraphOps, Sequences

CONSTANT McsMGraphs

VARIABLES graph, order, fill, weight

Numbered == {order[i] : i \in 1 .. Len(order)}

\* A path from v to u whose inner vertices are unnumbered and weigh less than u.
PathTo(v, u) ==
  LET Light == {w \in V(graph) \ Numbered : weight[w] < weight[u]} \ {v}
  IN  \/ HasEdge(graph, v, u)
      \/ \E C \in {FindComponent(graph, V(graph) \ Light, w) : w \in Light} :
           /\ v \in NeighborsOf(graph, C) /\ u \in NeighborsOf(graph, C)

Init ==
  /\ graph \in McsMGraphs
  /\ order = <<>> /\ fill = {}
  /\ weight = [v \in V(graph) |-> 0]

NumberVertex(v) ==
  LET Left == V(graph) \ (Numbered \cup {v})
      Raised == {u \in Left : PathTo(v, u)}
  IN  /\ v \in V(graph) \ Numbered
      /\ \A u \in Left : weight[u] <= weight[v]
      /\ order' = <<v>> \o order
      /\ fill' = fill \cup ({{v, u} : u \in Raised} \ graph.adj)
      /\ weight' = [u \in V(graph) |-> IF u \in Raised THEN weight[u] + 1 ELSE weight[u]]
      /\ UNCHANGED graph

Next == \E v \in V(graph) : NumberVertex(v)

Spec == Init /\ [][Next]_<<graph, order, fill, weight>>
=============================================================================

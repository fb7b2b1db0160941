---------------------- MODULE MaximumCardinalitySearch ----------------------
(***************************************************************************)
(* What a maximum cardinality search may do: number the vertices from the     *)
(* last to the first, each time one with the most numbered neighbours.       *)
(***************************************************************************)
EXTENDS GraphOps, Sequences

CONSTANT McsGraphs

VARIABLES graph, order   \* the numbered vertices, in elimination order

Numbered == {order[i] : i \in 1 .. Len(order)}

NumberedNeighbors(v) == Cardinality(Neighbors(graph, v) \cap Numbered)

Init == graph \in McsGraphs /\ order = <<>>

NumberVertex(v) ==
  /\ v \in V(graph) \ Numbered
  /\ \A u \in V(graph) \ Numbered : NumberedNeighbors(u) <= NumberedNeighbors(v)
  /\ order' = <<v>> \o order
  /\ UNCHANGED graph

\* The next graph is searched; one without an edge need not have been.
NextGraph ==
  /\ Numbered = V(graph) \/ graph.adj = {}
  /\ order' = <<>>
  /\ graph' \in McsGraphs

Next == NextGraph \/ \E v \in V(graph) : NumberVertex(v)

Spec == Init /\ [][Next]_<<graph, order>>
=============================================================================

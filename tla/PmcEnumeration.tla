-------------------------- MODULE PmcEnumeration --------------------------
(***************************************************************************)
(* What a round-by-round enumerator promises its caller: round k finds, one  *)
(* after the other, every potential maximal clique with k vertices, each     *)
(* once and nothing else, and ends only when none is missing.  Nothing is    *)
(* said of how they are found.  Enumerator.tla implements this.             *)
(***************************************************************************)
EXTENDS Integers

CONSTANTS Graphs,      \* the graphs that may be asked about
          PmcsOfSize   \* PmcsOfSize[g][s]: the cliques of g with s vertices

VARIABLES graph,    \* the graph asked about
          k,        \* the current or last round
          found,    \* the cliques found so far
          phase     \* between rounds, in a round, or finished
vars == <<graph, k, found, phase>>

Init == /\ graph \in Graphs
        /\ k = 0
        /\ found = {}
        /\ phase = "between"

Begin == /\ phase = "between"
         /\ k < graph.n
         /\ k' = k + 1
         /\ phase' = "round"
         /\ UNCHANGED <<graph, found>>

Find(X) == /\ phase = "round"
           /\ X \in PmcsOfSize[graph][k] \ found
           /\ found' = found \cup {X}
           /\ UNCHANGED <<graph, k, phase>>

End == /\ phase = "round"
       /\ PmcsOfSize[graph][k] \subseteq found
       /\ phase' = "between"
       /\ UNCHANGED <<graph, k, found>>

Finish == /\ phase = "between"
          /\ phase' = "finished"
          /\ UNCHANGED <<graph, k, found>>

Next == Begin \/ (\E X \in PmcsOfSize[graph][k] : Find(X)) \/ End \/ Finish

Spec == Init /\ [][Next]_vars
=============================================================================

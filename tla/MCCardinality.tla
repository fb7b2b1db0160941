--------------------------- MODULE MCCardinality ---------------------------
EXTENDS Cardinality

\* Every solver with a few inputs, with and without padding; a solver whose
\* literals are inverted and one whose are not with more of them.
SomeInstances == ((2 .. 3) \X Solvers) \cup ((4 .. 6) \X {"minisat", "ipasir"}) \cup {<<7, "glucosenopp">>}
=============================================================================

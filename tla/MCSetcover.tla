----------------------------- MODULE MCSetcover -----------------------------
EXTENDS Setcover

\* Edges of a cycle and a star; the set with most elements in no least cover
\* ({1, 2, 3, 4}); singletons beside large sets; sets inside others.
SmallFamilies ==
  { {{1, 2}, {2, 3}, {3, 4}, {4, 5}, {1, 5}},
    {{1, 2}, {1, 3}, {1, 4}, {2, 3, 4}},
    {{1, 2, 3, 4}, {1, 2, 5}, {3, 4, 5}},
    {{1}, {2}, {3}, {1, 2, 3}, {2, 3}} }

\* As HypertreewidthComb calls it (k, k), and with some room between the two.
SmallBounds == {<<1, 1>>, <<2, 2>>, <<3, 3>>, <<1, 3>>, <<0, 4>>}
=============================================================================

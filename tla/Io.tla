--------------------------------- MODULE Io ---------------------------------
(***************************************************************************)
(* Io (io.cpp): the graph or hypergraph that a file describes.  A file is a  *)
(* sequence of lines.  A line of ReadGraph is a record of its first token and *)
(* the others; one of ReadHyperGraph is the sequence of its names.  Names are *)
(* numbers here, in the order that std::string gives them.                   *)
(***************************************************************************)
EXTENDS GraphOps, SequencesExt

\* StaticSet::Rank, for a name of the set.
RankIn(names, v) == Cardinality({u \in names : u < v})

\* A line that starts the description, whatever its tokens are.
IsHeader(line) == line.tag = "p" /\ Len(line.rest) >= 2

\* What comes before the last header is dropped, and without one, all of it.
Described(lines) ==
  LET headers == {i \in DOMAIN lines : IsHeader(lines[i])}
  IN  IF headers = {} THEN <<>>
      ELSE SubSeq(lines, 1 + CHOOSE i \in headers : \A j \in headers : j <= i, Len(lines))

IsEdgeLine(line) == line.tag = "e" /\ Len(line.rest) = 2

\* Io::ReadGraph: the names that an edge has are the vertices; a number of
\* vertices in the header means nothing.
ReadGraph(lines) ==
  LET edges == {ToSet(line.rest) : line \in {l \in ToSet(Described(lines)) : IsEdgeLine(l)}}
      names == UNION edges
  IN  [n |-> Cardinality(names), adj |-> {{RankIn(names, v) : v \in e} : e \in edges}]

\* The assertions on the way: no empty line, and no edge from a vertex to itself.
IsReadable(lines) ==
  /\ \A i \in DOMAIN lines : lines[i].tag # ""
  /\ \A i \in DOMAIN Described(lines) :
       LET line == Described(lines)[i] IN IsEdgeLine(line) => line.rest[1] # line.rest[2]

\* Io::ReadHyperGraph: every line is an edge, an empty one too, and HyperGraph's
\* AddEdge puts its pairs into the primal graph.
ReadHyperGraph(lines) ==
  LET names == UNION {ToSet(lines[i]) : i \in DOMAIN lines}
      edges == [i \in DOMAIN lines |-> {RankIn(names, v) : v \in ToSet(lines[i])}]
  IN  [n |-> Cardinality(names), adj |-> UNION {Pairs(edges[i]) : i \in DOMAIN edges},
       edges |-> edges]
=============================================================================

------------------------------ MODULE GraphBuild ------------------------------
(***************************************************************************)
(* The builder StateGraph (langgraph/graph.rs): nodes and edges are added  *)
(* in any order, unchecked but for a node's name, and compile checks the   *)
(* whole.  Its search for END visits depth first; pending holds the nodes  *)
(* that its calls have still to look at, the next one first.               *)
(***************************************************************************)
EXTENDS Naturals, Selection, FiniteSets

CONSTANTS
  Node, Start, End,   \* as in StateGraph
  Edges,              \* the edges a caller may add
  MaxEdges            \* bound on their number

VARIABLES
  nodes, edges,    \* of the graph that is built
  stage,           \* "building", "searching", "compiled", "refused"
  pending, visited \* the search of has_path_to_end

vars == <<nodes, edges, stage, pending, visited>>

Init ==
  /\ nodes = {} /\ edges = <<>>
  /\ stage = "building"
  /\ pending = <<>> /\ visited = {}

\* add_node, and add_subgraph, which adds a node: an Err leaves the graph as it was.
AddNode ==
  /\ stage = "building"
  /\ \E name \in (Node \cup {Start, End}) \ nodes :
       nodes' = IF name \in {Start, End} THEN nodes ELSE nodes \cup {name}
  /\ UNCHANGED <<edges, stage, pending, visited>>

\* add_edge and add_conditional_edges, whatever their ends.
AddEdge ==
  /\ stage = "building" /\ Len(edges) < MaxEdges
  /\ \E edge \in Edges : edges' = Append(edges, edge)
  /\ UNCHANGED <<nodes, stage, pending, visited>>

Known(edge) ==
  /\ edge.from \in nodes \cup {Start}
  /\ edge.targets \subseteq nodes \cup {End}

\* compile: validate's first loop, and its "source" or "target node not found".
Validate ==
  /\ stage = "building"
  /\ IF \A i \in DOMAIN edges : Known(edges[i])
     THEN stage' = "searching" /\ pending' = <<Start>>
     ELSE stage' = "refused" /\ UNCHANGED pending
  /\ UNCHANGED <<nodes, edges, visited>>

\* build_adjacency keeps the edges of a source in their order.
Adjacency(node) == Selected(edges, {i \in DOMAIN edges : edges[i].from = node})

\* The targets of a node, edge by edge; a mapping gives its own in any order.
TargetLists(node) ==
  LET out == Adjacency(node)
  IN {FlattenSeq(lists) : lists \in
        {l \in [DOMAIN out -> UNION {SetToSeqs(out[i].targets) : i \in DOMAIN out}] :
           \A i \in DOMAIN out : ToSet(l[i]) = out[i].targets /\ Len(l[i]) = Cardinality(out[i].targets)}}

\* One call of dfs on a node it has not seen.
Visit ==
  /\ stage = "searching" /\ pending # <<>>
  /\ Head(pending) \notin visited \cup {End}
  /\ visited' = visited \cup {Head(pending)}
  /\ \E targets \in TargetLists(Head(pending)) : pending' = targets \o Tail(pending)
  /\ UNCHANGED <<nodes, edges, stage>>

Skip ==
  /\ stage = "searching" /\ pending # <<>>
  /\ Head(pending) \in visited
  /\ pending' = Tail(pending)
  /\ UNCHANGED <<nodes, edges, stage, visited>>

FindEnd ==
  /\ stage = "searching" /\ pending # <<>>
  /\ Head(pending) = End
  /\ stage' = "compiled"
  /\ UNCHANGED <<nodes, edges, pending, visited>>

NoPathToEnd ==
  /\ stage = "searching" /\ pending = <<>>
  /\ stage' = "refused"
  /\ UNCHANGED <<nodes, edges, pending, visited>>

Next == AddNode \/ AddEdge \/ Validate \/ Visit \/ Skip \/ FindEnd \/ NoPathToEnd

Spec == Init /\ [][Next]_vars

-------------------------------------------------------------------------------
(* Properties                                                              *)

TypeOK ==
  /\ nodes \subseteq Node /\ edges \in BoundedSeq(Edges, MaxEdges)
  /\ stage \in {"building", "searching", "compiled", "refused"}
  /\ ToSet(pending) \subseteq Node \cup {Start, End}
  /\ visited \subseteq Node \cup {Start}

Graphs == INSTANCE StateGraph WITH Node <- nodes, NoRoute <- "no route"

\* validate, dfs: what compile accepts is what the executors may be given, and nothing
\* else is refused; a search that sees each node once still finds END where it can be
\* reached.
CompilesWhatRuns ==
  /\ stage = "compiled" => Graphs!Compiled(ToSet(edges))
  /\ stage = "refused" => ~Graphs!Compiled(ToSet(edges))
===============================================================================

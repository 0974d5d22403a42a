------------------------------ MODULE StateGraph ------------------------------
(***************************************************************************)
(* The graphs that StateGraph::compile accepts (langgraph/graph.rs), as    *)
(* the executors see them: a set of edges out of START and out of nodes.   *)
(* A regular edge has one target, a conditional edge the targets of its    *)
(* mapping, one of which its condition picks for the state at hand.        *)
(***************************************************************************)
EXTENDS Naturals, FiniteSets

CONSTANTS
  Node,      \* the names given to add_node
  Start,     \* "__start__"
  End,       \* "__end__"
  NoRoute    \* a condition that fails, or answers with a key of no mapping

ASSUME NodeAssumption ==
  /\ IsFiniteSet(Node)
  /\ Start \notin Node /\ End \notin Node /\ NoRoute \notin Node
  /\ Start # End /\ NoRoute # End

Edge == [from    : Node \cup {Start},
         kind    : {"regular", "conditional"},
         targets : SUBSET (Node \cup {End})]

EdgesFrom(g, sources) == {e \in g : e.from \in sources}

(***************************************************************************)
(* validate: every edge joins known nodes, and END is reachable from       *)
(* START; stated without the search: no set that holds START and is closed *)
(* under the edges leaves END out.                                         *)
(***************************************************************************)
ClosedUnder(g, reached) == \A e \in g : e.from \in reached => e.targets \subseteq reached

HasPathToEnd(g) ==
  \A reached \in SUBSET (Node \cup {Start, End}) :
    Start \in reached /\ ClosedUnder(g, reached) => End \in reached

Compiled(g) ==
  /\ g \subseteq Edge
  /\ IsFiniteSet(g)
  /\ \A e \in g : e.kind = "regular" => Cardinality(e.targets) = 1
  /\ HasPathToEnd(g)

(***************************************************************************)
(* Edge::get_target for every edge at one state.  A condition is a         *)
(* function of the state, so one choice stands for all the evaluations     *)
(* made while the state does not change.                                   *)
(***************************************************************************)
Routes(g) ==
  {r \in [g -> Node \cup {End, NoRoute}] :
     \A e \in g : \/ r[e] \in e.targets
                  \/ e.kind = "conditional" /\ r[e] = NoRoute}
===============================================================================

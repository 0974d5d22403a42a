---------------------------- MODULE NodeScheduler ----------------------------
(***************************************************************************)
(* The pure decisions of NodeScheduler (langgraph/execution/scheduler.rs): *)
(* which nodes may run, which come next, and whether END is reached.  r is *)
(* what the edges' get_target answers at the current state.                *)
(***************************************************************************)
EXTENDS StateGraph

\* reverse_adjacency: every target of a mapping counts, routed to or not.
Predecessors(g, n) == {e.from : e \in {d \in g : n \in d.targets}}

StartTargets(g, r) == {r[e] : e \in EdgesFrom(g, {Start})}

\* Faults of get_ready_nodes: END is not filtered, executed nodes are not, or
\* one executed predecessor is enough.
ReadyWithEnd(g, r, executed) ==
  IF executed = {}
  THEN StartTargets(g, r)
  ELSE {n \in Node \ executed :
          /\ Predecessors(g, n) # {}
          /\ Predecessors(g, n) \subseteq executed \cup {Start}}

ReadyAgain(g, r, executed) ==
  IF executed = {}
  THEN StartTargets(g, r) \ {End}
  ELSE {n \in Node :
          /\ Predecessors(g, n) # {}
          /\ Predecessors(g, n) \subseteq executed \cup {Start}}

ReadyAfterAny(g, r, executed) ==
  IF executed = {}
  THEN StartTargets(g, r) \ {End}
  ELSE {n \in Node \ executed : Predecessors(g, n) \cap executed # {}}

\* get_ready_nodes: START's routes first, then whoever waits for nobody.
GetReadyNodes(g, r, executed) ==
  IF executed = {}
  THEN StartTargets(g, r) \ {End}
  ELSE {n \in Node \ executed :
          /\ Predecessors(g, n) # {}
          /\ Predecessors(g, n) \subseteq executed \cup {Start}}

\* get_next_nodes; it fails when a condition of the current nodes fails.
NextTargets(g, r, current) == {r[e] : e \in EdgesFrom(g, current)}

GetNextNodes(g, r, current) == NextTargets(g, r, current) \ {End}

(***************************************************************************)
(* is_complete, by the edges' answers: the first END wins, a failing       *)
(* condition met before it is the error.  Vec and HashSet order decide     *)
(* which comes first, so both outcomes are possible when both are there.   *)
(***************************************************************************)
IsComplete(g, r, current, answer) ==
  CASE answer = "yes"   -> End \in NextTargets(g, r, current)
    [] answer = "error" -> NoRoute \in NextTargets(g, r, current)
    [] answer = "no"    -> NextTargets(g, r, current) \cap {End, NoRoute} = {}
===============================================================================

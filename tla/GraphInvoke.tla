----------------------------- MODULE GraphInvoke -----------------------------
(***************************************************************************)
(* CompiledGraph::invoke: one node at a time from START, along the first   *)
(* edge of each, and SubgraphNode, whose body is the invoke of another     *)
(* graph.  A call is a stack of such loops.                                *)
(*                                                                         *)
(* A network names its nodes and graphs apart: targets[g], for a graph g,  *)
(* is where its START may go, targets[n] where the first edge of node n    *)
(* may go (none: n has no edges), inner[n] the graph that n wraps, if any. *)
(***************************************************************************)
EXTENDS Naturals, SequencesExt, FiniteSets

CONSTANTS
  Networks, End, NoGraph,
  Text,            \* what a node's message may say
  MaxIterations    \* max_iterations

VARIABLES
  net,      \* the network that is run
  frames,   \* the loops of invoke, the innermost last
  outcome   \* how the call ended, and the state it returned

vars == <<net, frames, outcome>>

Outcome(how, state) == [is |-> how, state |-> state]
Frame(graph, state) == [node |-> graph, at |-> "head", state |-> state, iterations |-> 0]

Init ==
  /\ net \in Networks
  /\ frames = <<Frame(net.root, <<>>)>>
  /\ outcome = Outcome("running", <<>>)

Live == frames # <<>>
Top  == Last(frames)
Outer == Front(frames)

Becomes(frame) == frames' = Append(Outer, frame) /\ UNCHANGED <<net, outcome>>
Ends(how, state) == frames' = <<>> /\ outcome' = Outcome(how, state) /\ UNCHANGED net

\* The state's messages, then those of the update; of a wrapped graph, whose
\* update is its whole final state, all of them.
MergeStateUpdate(state, update) == state \o update

\* The loop returns: to the caller, or to the node around it as that node's update.
Returns(state) ==
  IF Outer = <<>> THEN Ends("returned", state)
  ELSE /\ frames' = Append(Front(Outer),
             [Last(Outer) EXCEPT !.state = MergeStateUpdate(@, state), !.at = "route"])
       /\ UNCHANGED <<net, outcome>>

AtHead ==
  /\ Live /\ Top.at = "head"
  /\ Top.iterations < MaxIterations

Targets == net.targets[Top.node]

-------------------------------------------------------------------------------
\* "Maximum iterations reached", of the outermost loop or of any inside it.
IterationLimit ==
  /\ Live /\ Top.at = "head"
  /\ Top.iterations >= MaxIterations
  /\ Ends("failed", <<>>)

\* Where START sent the loop to END.
ReachEnd == AtHead /\ Top.node = End /\ Returns(Top.state)

\* "No edges found from node", before the node is executed.
NoEdges ==
  /\ AtHead /\ Top.node # End
  /\ Targets = {}
  /\ Ends("failed", <<>>)

\* At START, edges[0] chooses the first node.
LeaveStart ==
  /\ AtHead /\ Top.node \in net.graphs
  /\ \E to \in Targets :
       Becomes([Top EXCEPT !.node = to, !.iterations = @ + 1])

StartNode ==
  /\ AtHead /\ Top.node \notin net.graphs \cup {End}
  /\ Targets # {}
  /\ Becomes([Top EXCEPT !.at = "body", !.iterations = @ + 1])

\* SubgraphNode::invoke: the wrapped graph starts from its caller's state.
EnterGraph ==
  /\ Live /\ Top.at = "body"
  /\ net.inner[Top.node] # NoGraph
  /\ frames' = Append(frames, Frame(net.inner[Top.node], Top.state))
  /\ UNCHANGED <<net, outcome>>

Execute ==
  /\ Live /\ Top.at = "body"
  /\ net.inner[Top.node] = NoGraph
  /\ \E t \in Text :
       Becomes([Top EXCEPT !.at = "route",
                  !.state = MergeStateUpdate(@, <<<<Top.node, t>>>>)])

NodeFails ==
  /\ Live /\ Top.at = "body"
  /\ Ends("failed", <<>>)

\* edges[0] chooses the next node, or the end of the loop.
Follow ==
  /\ Live /\ Top.at = "route"
  /\ \E to \in Targets :
       IF to = End THEN Returns(Top.state)
       ELSE Becomes([Top EXCEPT !.at = "head", !.node = to])

\* A condition fails, or answers what its mapping does not have.
RouteFails ==
  /\ (Live /\ Top.at = "route") \/ (AtHead /\ Top.node \in net.graphs)
  /\ Cardinality(Targets) > 1
  /\ Ends("failed", <<>>)

\* The caller drops the future.
Cancel == Live /\ Ends("dropped", <<>>)

Next ==
  \/ IterationLimit \/ ReachEnd \/ NoEdges \/ LeaveStart
  \/ StartNode \/ EnterGraph \/ Execute \/ NodeFails
  \/ Follow \/ RouteFails
  \/ Cancel

Spec == Init /\ [][Next]_vars
===============================================================================

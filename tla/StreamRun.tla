------------------------------ MODULE StreamRun ------------------------------
(***************************************************************************)
(* CompiledGraph::stream_internal and what its consumer sees: a generator  *)
(* that runs to its next yield when it is polled.  With the subgraphs      *)
(* option, a node that wraps a graph polls that graph's own stream and     *)
(* passes its events on; without, the wrapped graph is invoked in silence. *)
(* The consumer may drop the stream after any event.                       *)
(*                                                                         *)
(* With StreamMode::Messages a node that has a model streams the model's   *)
(* answer: its message says what the chunks said, one after the other.     *)
(***************************************************************************)
EXTENDS Naturals, Selection, FiniteSets

CONSTANTS
  Networks, End, NoGraph, MaxIterations,   \* as in GraphInvoke
  Speaker,     \* the nodes that have a model
  Chunk,       \* what a model streams
  MaxChunks    \* bound on the chunks of an answer

VARIABLES
  net, subgraphs, messages,  \* the graphs, and the two options of the stream
  gens,      \* the generators, each polled by the one before it
  outcome,   \* how the stream ended, and its final state
  seen       \* the events the consumer has got

vars == <<net, subgraphs, messages, gens, outcome, seen>>

Outcome(how, state) == [is |-> how, state |-> state]
Generator(graph, state) ==
  [node |-> graph, at |-> "head", state |-> state, iterations |-> 0, said |-> <<>>]

Init ==
  /\ net \in Networks /\ subgraphs \in BOOLEAN /\ messages \in BOOLEAN
  /\ gens = <<Generator(net.root, <<>>)>>
  /\ outcome = Outcome("running", <<>>)
  /\ seen = <<>>

Live    == gens # <<>>
Top     == Last(gens)
Pollers == Front(gens)
Targets == net.targets[Top.node]
Options == <<net, subgraphs, messages>>

-------------------------------------------------------------------------------
(* Events.                                                                 *)

\* Each poller puts its own node before the path an event comes with, and the
\* event's node behind it.
Path(pollers, node) ==
  FoldRight(LAMBDA poller, path : <<poller.node>> \o path \o <<node>>, pollers, <<>>)

\* Only a polled stream yields: a wrapped graph that is invoked is silent.
Heard(pollers) == pollers = <<>> \/ subgraphs

Yields(pollers, kind, node, state, update) ==
  seen' = IF Heard(pollers)
          THEN Append(seen, [is |-> kind, node |-> node, path |-> Path(pollers, node),
                             state |-> state, update |-> update])
          ELSE seen

\* The first generator to fail yields the error; every poller passes it on and
\* returns.
Fails ==
  /\ gens' = <<>> /\ outcome' = Outcome("failed", <<>>)
  /\ Yields(<<>>, "Error", End, <<>>, <<>>)
  /\ UNCHANGED Options

\* Fault: a poller goes on without the messages of the graph it polled.
UpdateLost(state, update) == IF Pollers = <<>> THEN state \o update ELSE state

MergeStateUpdate(state, update) == state \o update

\* Fault: the poller passes on the end of the graph it polled.
EndPassedOn(state) ==
  LET poller == Last(Pollers)
      merged == MergeStateUpdate(poller.state, state)
  IN  /\ gens' = Append(Front(Pollers), [poller EXCEPT !.at = "route", !.state = merged])
      /\ Yields(Front(Pollers), "GraphEnd", End, state, <<>>)
      /\ UNCHANGED outcome

\* The end of a polled graph is no event of the stream: its final state becomes
\* the update of the node around it, whose end is yielded.
EndPolled(state) ==
  LET poller == Last(Pollers)
      merged == MergeStateUpdate(poller.state, state)
  IN  /\ gens' = Append(Front(Pollers), [poller EXCEPT !.at = "route", !.state = merged])
      /\ Yields(Front(Pollers), "NodeEnd", poller.node, merged, state)
      /\ UNCHANGED outcome

YieldsEnd(state) ==
  /\ \/ Pollers # <<>> /\ EndPolled(state)
     \/ /\ Pollers = <<>>
        /\ gens' = <<>> /\ outcome' = Outcome("returned", state)
        /\ Yields(<<>>, "GraphEnd", End, state, <<>>)
  /\ UNCHANGED Options

Becomes(gen) == gens' = Append(Pollers, gen) /\ UNCHANGED <<Options, outcome>>

-------------------------------------------------------------------------------
(* From one yield, or await, to the next.                                  *)

AtHead ==
  /\ Live /\ Top.at = "head"
  /\ Top.iterations < MaxIterations

IterationLimit ==
  /\ Live /\ Top.at = "head"
  /\ Top.iterations >= MaxIterations
  /\ Fails

ReachEnd == AtHead /\ Top.node = End /\ YieldsEnd(Top.state)

NoEdges ==
  /\ AtHead /\ Top.node # End
  /\ Targets = {}
  /\ Fails

LeaveStart ==
  /\ AtHead /\ Top.node \in net.graphs
  /\ \E to \in Targets : Becomes([Top EXCEPT !.node = to, !.iterations = @ + 1])
  /\ UNCHANGED seen

NodeStart ==
  /\ AtHead /\ Top.node \notin net.graphs \cup {End}
  /\ Targets # {}
  /\ Becomes([Top EXCEPT !.at = "body", !.iterations = @ + 1, !.said = <<>>])
  /\ Yields(Pollers, "NodeStart", Top.node, Top.state, <<>>)

InBody == Live /\ Top.at = "body"

\* stream_with_options of the wrapped graph, or its invoke.
EnterGraph ==
  /\ InBody
  /\ net.inner[Top.node] # NoGraph
  /\ gens' = Append(gens, Generator(net.inner[Top.node], Top.state))
  /\ UNCHANGED <<Options, outcome, seen>>

Streams == messages /\ Heard(Pollers) /\ Top.node \in Speaker

Said(said, c) == Append(said, c)

\* A chunk of the model's answer.
MessageChunk ==
  /\ InBody /\ Streams
  /\ Len(Top.said) < MaxChunks
  /\ \E c \in Chunk :
       /\ Becomes([Top EXCEPT !.said = Said(@, c)])
       /\ Yields(Pollers, "MessageChunk", Top.node, <<>>, <<c>>)

\* The node answers, or its model has said all.  Of a node that does not stream
\* it is left open what it says.
NodeEnd ==
  /\ InBody
  /\ net.inner[Top.node] = NoGraph
  /\ LET update == <<<<Top.node, Top.said>>>>
         merged == MergeStateUpdate(Top.state, update)
     IN  /\ Becomes([Top EXCEPT !.at = "route", !.state = merged])
         /\ Yields(Pollers, "NodeEnd", Top.node, merged, update)

\* The node, or its model before or amid its chunks.
NodeFails == InBody /\ Fails

Follow ==
  /\ Live /\ Top.at = "route"
  /\ \E to \in Targets :
       \/ to = End /\ YieldsEnd(Top.state)
       \/ to # End /\ Becomes([Top EXCEPT !.at = "head", !.node = to]) /\ UNCHANGED seen

RouteFails ==
  /\ (Live /\ Top.at = "route") \/ (AtHead /\ Top.node \in net.graphs)
  /\ Cardinality(Targets) > 1
  /\ Fails

\* The consumer drops the stream: no generator is polled again.
Drop ==
  /\ Live
  /\ gens' = <<>> /\ outcome' = Outcome("dropped", <<>>)
  /\ UNCHANGED <<Options, seen>>

Step ==
  \/ IterationLimit \/ ReachEnd \/ NoEdges \/ LeaveStart
  \/ NodeStart \/ EnterGraph \/ MessageChunk \/ NodeEnd \/ NodeFails
  \/ Follow \/ RouteFails

Next == Step \/ Drop

Spec == Init /\ [][Next]_vars

-------------------------------------------------------------------------------
\* convert_event_to_chunk: the events a stream mode makes chunks of.  An error is
\* one for debugging only: the others just end.
Passes ==
  [values |-> {"NodeEnd", "GraphEnd"}, updates |-> {"NodeEnd"}, messages |-> {"MessageChunk"},
   debug |-> {"NodeStart", "MessageChunk", "NodeEnd", "GraphEnd", "Error"}]

\* stream_with_mode, which never asks for the subgraphs.
Shown(mode) == Selected(seen, {i \in DOMAIN seen : seen[i].is \in Passes[mode]})

-------------------------------------------------------------------------------
Message == {<<n, t>> : n \in UNION {DOMAIN w.inner : w \in Networks}, t \in BoundedSeq(Chunk, MaxChunks)}

TypeOK ==
  /\ net \in Networks /\ {subgraphs, messages} \subseteq BOOLEAN
  /\ \A g \in ToSet(gens) :
       /\ g.node \in DOMAIN net.targets \cup {End}
       /\ g.at \in {"head", "body", "route"}
       /\ g.state \in Seq(Message) /\ g.iterations \in 0..MaxIterations
  /\ outcome.is \in {"running", "returned", "failed", "dropped"}
  /\ (outcome.is = "running") = Live

\* The starts that have no end yet, after an event and after the first i of them.
AfterEvent(open, e) ==
  CASE e.is = "NodeStart" -> Append(open, <<e.node, e.path>>)
    [] e.is = "NodeEnd" /\ open # <<>> -> Front(open)
    [] OTHER -> open

Opened(events) ==
  LET open[i \in 0..Len(events)] == IF i = 0 THEN <<>> ELSE AfterEvent(open[i - 1], events[i])
  IN  open

\* The events of a stream are bracketed like the calls they report: an end belongs
\* to the last start that is open, also across wrapped graphs; only the last event
\* is the graph's end or an error, and a graph ends with no node open.
StreamIsBracketed ==
  LET open == Opened(seen)
      n    == Len(seen)
  IN  /\ \A i \in 1..n : seen[i].is = "NodeEnd" =>
           open[i - 1] # <<>> /\ Last(open[i - 1]) = <<seen[i].node, seen[i].path>>
      /\ \A i \in 1..n : seen[i].is \in {"GraphEnd", "Error"} => i = n /\ ~Live
      /\ outcome.is = "returned" => n > 0 /\ seen[n].is = "GraphEnd" /\ open[n] = <<>>
      /\ outcome.is = "failed" => n > 0 /\ seen[n].is = "Error"

\* StreamMode::Updates tells as much as StreamMode::Values: the updates one after
\* the other make the states that are shown, and the state that is returned.
UpdatesMakeTheStates ==
  ~subgraphs =>
    LET ends    == Shown("values")
        updates == Shown("updates")
        n       == Len(updates)
        Made(i) == FlattenSeq([j \in 1..i |-> updates[j].update])
    IN  /\ \A i \in 1..n : ends[i].state = Made(i)
        /\ outcome.is = "returned" =>
             /\ Len(ends) = n + 1
             /\ ends[n + 1].state = Made(n) /\ outcome.state = Made(n)

\* What a model said chunk by chunk is what its node's message says.
ChunksMakeTheMessage ==
  \A i \in DOMAIN seen :
    seen[i].is = "NodeEnd" /\ messages /\ seen[i].node \in Speaker =>
      \E s \in 1..(i - 1) :
        /\ seen[s].is = "NodeStart" /\ seen[s].path = seen[i].path
        /\ \A k \in (s + 1)..(i - 1) : seen[k].is = "MessageChunk"
        /\ seen[i].update[1][2] = FlattenSeq([k \in 1..(i - s - 1) |-> seen[s + k].update])

-------------------------------------------------------------------------------
\* Streaming a graph runs it: it takes the nodes in an order invoke may take, with
\* the same states, and ends as invoke ends, whatever is yielded on the way.
Invoke == INSTANCE GraphInvoke WITH
  Text <- BoundedSeq(Chunk, MaxChunks),
  frames <- [i \in DOMAIN gens |->
    [node |-> gens[i].node, at |-> gens[i].at, state |-> gens[i].state,
     iterations |-> gens[i].iterations]]

ImplementsInvoke == Invoke!Spec
===============================================================================

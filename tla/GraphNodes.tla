------------------------------ MODULE GraphNodes ------------------------------
(***************************************************************************)
(* What a graph's nodes make of its state, and the graph of their updates: *)
(* the wrappers of langgraph/node.rs and node/subgraph.rs, and             *)
(* CompiledGraph::merge_state_update.                                      *)
(*                                                                         *)
(* A state has messages, or fields, or both.  Every message, and every     *)
(* value of a field, is a number of its own, so that what is lost or       *)
(* repeated shows; 0 is a field without a value.                           *)
(***************************************************************************)
EXTENDS Naturals, SequencesExt, FiniteSets

CONSTANTS
  Field,      \* "input", "output", "action"
  MaxNodes    \* bound on the nodes that are executed

VARIABLES
  shape,      \* of the state's type
  context,    \* what the graph is called with
  state,      \* current_state
  asked,      \* what the last node read
  told,       \* the messages the nodes returned
  made,       \* the values made so far
  outcome

vars == <<shape, context, state, asked, told, made, outcome>>

\* Whether the type has messages, has the fields, and reads its fields from a JSON
\* object that leaves them out (#[serde(default)]).
Shapes == [messages : BOOLEAN, fields : BOOLEAN, default : BOOLEAN]

Empty == [f \in Field |-> 0]

Init ==
  /\ shape \in {s \in Shapes : s.messages \/ s.fields}
  /\ context \in [config : BOOLEAN, store : BOOLEAN]
  /\ \E given \in BOOLEAN :
       state = [messages |-> IF shape.messages THEN <<1>> ELSE <<>>,
                fields |-> IF shape.fields /\ given THEN [Empty EXCEPT !["input"] = 1] ELSE Empty]
  /\ asked = <<>> /\ told = <<>>
  /\ made = 1
  /\ outcome = "running"

-------------------------------------------------------------------------------
(* Updates                                                                 *)

\* An update names some fields, and its messages, which may not parse.
Nothing == [fields |-> [f \in {} |-> 0], messages |-> <<>>, parses |-> TRUE]
Sets(field, value) == [Nothing EXCEPT !.fields = (field :> value)]
Says(m) == [Nothing EXCEPT !.messages = m]

\* Fault: messages are merged as a field is, the newer value for the older.
NewestMessages(messages, update) == IF update.parses THEN update.messages ELSE messages

\* apply_update_to_messages_state: all of the messages, or none.
ApplyUpdate(messages, update) ==
  IF update.parses THEN messages \o update.messages ELSE messages

\* State::merge of a type without messages, which is the caller's: the newer value.
Merge(old, new) == [f \in Field |-> IF new[f] # 0 THEN new[f] ELSE old[f]]

\* merge_state_update.  Where there are messages the new state is made of them alone,
\* and other fields are what their type reads from nothing.
Merges(update) ==
  IF shape.messages
  THEN IF shape.fields /\ ~shape.default
       THEN outcome' = "serialization error" /\ UNCHANGED state
       ELSE /\ state' = [messages |-> ApplyUpdate(state.messages, update), fields |-> Empty]
            /\ UNCHANGED outcome
  ELSE IF ~shape.default /\ DOMAIN update.fields # Field
       THEN outcome' = "merge error" /\ UNCHANGED state
       ELSE /\ state' = [state EXCEPT !.fields = Merge(@, update.fields @@ Empty)]
            /\ UNCHANGED outcome

\* A node has returned an update made of the next value.
Returns(update, read) ==
  /\ asked' = read
  /\ told' = told \o (IF update.parses THEN update.messages ELSE <<>>)
  /\ Merges(update)

Fails(read) ==
  /\ outcome' = "failed" /\ asked' = read
  /\ UNCHANGED <<state, told>>

Executes ==
  /\ outcome = "running" /\ made <= MaxNodes
  /\ made' = made + 1
  /\ UNCHANGED <<shape, context>>

Value == made + 1

-------------------------------------------------------------------------------
(* Nodes                                                                   *)

\* FunctionNode: a function of the state, or of the state and what it needs besides;
\* invoke, without a configuration, has neither to give.
NeedSets == {{}, {"config"}, {"config", "store"}}
HasContext(needs) ==
  /\ "config" \in needs => context.config
  /\ "store" \in needs => context.config /\ context.store

FunctionNode ==
  /\ Executes
  /\ \E needs \in NeedSets :
       IF ~HasContext(needs) THEN Fails(<<>>)
       ELSE \/ Fails(state.messages)
            \/ \E update \in {Says(<<Value>>), [Says(<<Value>>) EXCEPT !.parses = FALSE],
                              Sets("output", Value),
                              [Nothing EXCEPT !.fields = [f \in Field |-> Value]]} :
                 Returns(update, state.messages)

\* What a ChainNode and an AgentNode give their "input": the field, else the last message.
\* A field without a value is there too, as null.
Input ==
  IF shape.fields THEN <<state.fields["input"]>>
  ELSE IF state.messages # <<>> THEN <<Last(state.messages)>>
  ELSE <<>>

ChainNode ==
  /\ Executes
  /\ \/ Fails(Input)
     \/ Returns(Sets("output", Value), Input)

\* The messages of a state that has them; of another, an empty one.
LLMNode ==
  /\ Executes
  /\ \/ Fails(state.messages)
     \/ Returns(Says(<<Value>>), state.messages)

\* One plan, whose first action, or answer, is the update; the action is not executed.
AgentNode ==
  /\ Executes
  /\ \/ Fails(Input)
     \/ Returns(Sets("output", Value), Input)
     \/ Returns(Sets("action", Value), Input)
     \/ Returns(Nothing, Input)

\* SubgraphNode: the wrapped graph's whole final state, here its caller's and one message.
SubgraphNode ==
  /\ Executes /\ shape.messages
  /\ \/ Fails(state.messages)
     \/ Returns(Says(Append(state.messages, Value)), state.messages)

\* SubgraphNodeWithTransform: what the caller's functions make of the two states, here
\* the messages the wrapped graph added.
SubgraphNodeWithTransform ==
  /\ Executes /\ shape.messages
  /\ \/ Fails(state.messages)
     \/ Returns(Says(<<Value>>), state.messages)

ReachEnd ==
  /\ outcome = "running"
  /\ outcome' = "returned"
  /\ UNCHANGED <<shape, context, state, asked, told, made>>

Next ==
  \/ FunctionNode \/ ChainNode \/ LLMNode \/ AgentNode
  \/ SubgraphNode \/ SubgraphNodeWithTransform
  \/ ReachEnd

Spec == Init /\ [][Next]_vars

-------------------------------------------------------------------------------
(* Properties                                                              *)

TypeOK ==
  /\ shape \in Shapes /\ context \in [config : BOOLEAN, store : BOOLEAN]
  /\ DOMAIN state.fields = Field
  /\ ToSet(state.messages) \cup ToSet(told) \cup ToSet(asked) \subseteq 0..made
  /\ made \in 1..MaxNodes + 1
  /\ outcome \in {"running", "returned", "failed", "serialization error", "merge error"}

\* merge_state_update: whatever the nodes return beside them, the messages of a state are
\* those it began with and every one a node has returned, in the order they were returned.
MessagesAreNeverLost ==
  shape.messages /\ outcome \in {"running", "returned"} => state.messages = <<1>> \o told

\* ChainNode, LLMNode, AgentNode, SubgraphNode: in a graph of messages alone, a node is
\* asked about the newest message there was before its own, whoever added it.
NodesReadTheNewest ==
  shape.messages /\ ~shape.fields /\ asked # <<>> =>
    Last(asked) = Max(({1} \cup ToSet(told)) \ {made})
===============================================================================

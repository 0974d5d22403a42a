------------------------------- MODULE AgentTeams -------------------------------
(***************************************************************************)
(* Teams of agents (agent/multi_agent): a caller's turns are answered by   *)
(* one agent of the team, chosen anew each time.  A RouterAgent asks its   *)
(* router, by keywords or by a model; a HandoffAgent has one that answers; *)
(* a SkillAgent puts what it knows of the turn's topic before it; the      *)
(* agent of a SubagentsBuilder has the others for tools.                   *)
(*                                                                         *)
(* What a message says is its topic.                                       *)
(***************************************************************************)
EXTENDS Naturals, SequencesExt, FiniteSets

CONSTANTS
  Teams,      \* the teams, records as below
  Topic,
  MaxTurns    \* bound on the turns

VARIABLES
  team,      \* the team that is called
  messages,  \* the conversation, which the caller keeps
  asked,     \* what was asked of whom, turn by turn
  active,    \* active_agent of the state that each agent has
  outcome    \* of the last turn

vars == <<team, messages, asked, active, outcome>>

\* agents are those that can be asked; keywords[a] the topics that send a turn to a, for
\* the names a router knows, in descriptions in their order; skills the topics a skill is
\* for, of which only those in loadable can be read.
TeamOK(t) ==
  /\ t.kind \in {"keywords", "model", "handoff", "skills", "subagents"}
  /\ t.agents \subseteq STRING
  /\ t.default \subseteq STRING /\ Cardinality(t.default) <= 1
  /\ t.descriptions \in Seq(STRING)
  /\ t.keywords \in [ToSet(t.descriptions) -> SUBSET Topic]
  /\ t.loadable \subseteq t.skills /\ t.skills \subseteq Topic

Says(type, topic) == [type |-> type, topic |-> topic]
Agents == UNION {t.agents \cup t.default : t \in Teams}

Init ==
  /\ team \in Teams
  /\ messages = <<>> /\ asked = <<>>
  /\ active = [a \in Agents |-> ""]
  /\ outcome = "none"

-------------------------------------------------------------------------------
(* A turn                                                                  *)

Humans(conversation) == {i \in DOMAIN conversation : conversation[i].type = "human"}

\* Fault: the first human message.
FirstHuman(conversation) == conversation[Min(Humans(conversation))]

\* The last human message, of one that has any.
LastHuman(conversation) == conversation[Max(Humans(conversation))]

\* Calls ask an agent, or nobody.
Asks(agent, conversation) ==
  /\ asked' = Append(asked, [agent |-> agent, conversation |-> conversation, to |-> "agent"])
  /\ outcome' \in {"answered", "failed"}

Refuses == outcome' = "refused" /\ UNCHANGED asked

\* DefaultRouter::route, by keywords: any of the agents that have one in the input; by a
\* model: the first agent, in the order of their descriptions, that its answer mentions.
Routes(topic) ==
  LET matching == {a \in ToSet(team.descriptions) : topic \in team.keywords[a]}
      mentioned(names) == SelectSeq(team.descriptions, LAMBDA a : a \in names)
  IN IF team.kind = "keywords"
     THEN IF matching = {} THEN {""} ELSE matching
     ELSE {IF names = {} THEN "" ELSE Head(mentioned(names)) :
             names \in SUBSET ToSet(team.descriptions)}

InTurn == outcome = "turn"

\* RouterAgent::invoke_messages: an agent the router names and the team lacks is an Err.
Route ==
  /\ InTurn /\ team.kind \in {"keywords", "model"}
  /\ IF Humans(messages) = {} THEN Refuses
     ELSE \E name \in Routes(LastHuman(messages).topic) :
            IF name # ""
            THEN IF name \in team.agents THEN Asks(name, messages) ELSE Refuses
            ELSE IF team.default # {} THEN \E a \in team.default : Asks(a, messages)
                 ELSE Refuses
  /\ UNCHANGED <<team, messages, active>>

RouterFails ==
  /\ InTurn /\ team.kind = "model"
  /\ Refuses
  /\ UNCHANGED <<team, messages, active>>

\* HandoffAgent::invoke_messages: the default agent, or else any; never the active one.
AskHandoff ==
  /\ InTurn /\ team.kind = "handoff"
  /\ IF team.default \cup team.agents = {} THEN Refuses
     ELSE \E a \in IF team.default # {} THEN team.default ELSE team.agents : Asks(a, messages)
  /\ UNCHANGED <<team, messages, active>>

\* HandoffTool, by the agent that answers the turn: its own state names the other.
HandOff ==
  /\ team.kind = "handoff" /\ outcome = "answered"
  /\ \E to \in team.agents \cup {"unknown"} :
       active' = [active EXCEPT ![Last(asked).agent] = to]
  /\ UNCHANGED <<team, messages, asked, outcome>>

\* SkillAgent::invoke_messages: the skills of the newest human message that can be loaded,
\* in a system message before all others.
Loaded(conversation) ==
  IF Humans(conversation) = {} THEN {}
  ELSE {LastHuman(conversation).topic} \cap team.skills \cap team.loadable

AskSkilled ==
  /\ InTurn /\ team.kind = "skills"
  /\ LET skills == Loaded(messages)
     IN \E a \in team.default :
          Asks(a, SetToSeq({Says("system", s) : s \in skills}) \o messages)
  /\ UNCHANGED <<team, messages, active>>

\* The agent of a SubagentsBuilder: a SubagentTool asks with the tool's input alone.
AskSubagents ==
  /\ InTurn /\ team.kind = "subagents"
  /\ \E a \in team.default : Asks(a, messages)
  /\ UNCHANGED <<team, messages, active>>

Delegate ==
  /\ team.kind = "subagents" /\ outcome = "answered" /\ Last(asked).to = "agent"
  /\ Len(asked) < 2 * MaxTurns
  /\ \E a \in team.agents, topic \in Topic :
       asked' = Append(asked, [agent |-> a, conversation |-> <<Says("human", topic)>>, to |-> "tool"])
  /\ UNCHANGED <<team, messages, active, outcome>>

\* The caller adds a message, or the answer, and calls; the first may be the system's.
Turn ==
  /\ outcome # "turn" /\ Len(messages) < MaxTurns
  /\ \E topic \in Topic, type \in {"human", "system"} :
       /\ type = "system" => messages = <<>>
       /\ messages' = messages \o (IF outcome = "answered" THEN <<Says("ai", topic)>> ELSE <<>>)
                                \o <<Says(type, topic)>>
  /\ outcome' = "turn"
  /\ UNCHANGED <<team, asked, active>>

Next ==
  \/ Turn \/ Route \/ RouterFails \/ AskHandoff \/ HandOff
  \/ AskSkilled \/ AskSubagents \/ Delegate

Spec == Init /\ [][Next]_vars

-------------------------------------------------------------------------------
(* Properties                                                              *)

TypeOK ==
  /\ team \in Teams /\ TeamOK(team)
  /\ \A i \in DOMAIN messages : messages[i].topic \in Topic
  /\ \A i \in DOMAIN asked : asked[i].agent \in Agents
  /\ outcome \in {"none", "turn", "answered", "failed", "refused"}

Newest == Last(SelectSeq(messages, LAMBDA m : m.type = "human")).topic

\* RouterAgent: the agent a turn has reached is one that was chosen for its newest human
\* message; the default is asked only about what nobody else is for.
TurnsReachTheirAgent ==
  team.kind = "keywords" /\ outcome \in {"answered", "failed"} =>
    LET a == Last(asked).agent
        experts == {d \in DOMAIN team.keywords : Newest \in team.keywords[d]}
    IN IF experts = {} THEN a \in team.default ELSE a \in experts

\* SkillAgent, RouterAgent, HandoffAgent: the agent is asked the whole conversation, with
\* nothing before it but what was loaded for this very turn; a subagent gets none of it.
ConversationsArriveWhole ==
  /\ team.kind # "subagents" /\ outcome \in {"answered", "failed"} =>
       /\ IsSuffix(messages, Last(asked).conversation)
       /\ \A i \in 1..Len(Last(asked).conversation) - Len(messages) :
            Last(asked).conversation[i] = Says("system", Newest)
  /\ \A i \in DOMAIN asked : asked[i].to = "tool" => Len(asked[i].conversation) = 1
===============================================================================

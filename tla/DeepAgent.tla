------------------------------- MODULE DeepAgent -------------------------------
(***************************************************************************)
(* A deep agent: what create_deep_agent and create_deep_agent_from_llm     *)
(* assemble of a DeepAgentConfig, and the work its agents share out with   *)
(* the task tool.  Main and the built-in general-purpose agent have the    *)
(* same tools (but for task), prompt, middleware, context and store; the   *)
(* caller's subagents bring their own.  Each agent runs the executor's     *)
(* loop, here its tool calls only; a call of task is the run of another    *)
(* agent inside the caller's.                                              *)
(***************************************************************************)
EXTENDS Naturals, SequencesExt, FiniteSets

CONSTANTS
  Configs,      \* the configurations, records as below
  Own,          \* the tools that a caller adds to his deep agent
  MaxCalls      \* bound on the tool calls

VARIABLES
  config,    \* the DeepAgentConfig and which of the two functions takes it
  deep,      \* the agents that were built of it
  frames,    \* the runs in progress, the innermost last
  waiting,   \* the tool that waits for a person's decision
  approved,  \* the tools that a person has approved in this run
  todos,     \* the to-do list of the session: which agent wrote it last
  ran        \* the tools that were run: by which agent, approved or not

vars == <<config, deep, frames, waiting, approved, todos, ran>>

GeneralPurpose == "general-purpose"

\* with_subagent enables the task tool; with_task_tool may disable it again.
ConfigOK(c) ==
  /\ c.from \in {"model", "llm"}                  \* create_deep_agent, .._from_llm
  /\ c.planning \in BOOLEAN /\ c.filesystem \in BOOLEAN /\ c.task \in BOOLEAN
  /\ c.default_model \in BOOLEAN                  \* default_subagent_model
  /\ c.subagents \in Seq(STRING)                  \* their names
  /\ DOMAIN c.interrupt_on \subseteq STRING       \* TRUE where it is enabled
  /\ c.interrupt_before_tools \subseteq STRING
  /\ c.checkpointer \in BOOLEAN
  /\ c.readable \in BOOLEAN                       \* its skill and memory files

NoAgents == [tools |-> {}, helpers |-> <<>>, guarded |-> {}]

Init ==
  /\ config \in Configs
  /\ deep = NoAgents
  /\ frames = <<>> /\ waiting = {} /\ approved = {}
  /\ todos = {}
  /\ ran = {}

-------------------------------------------------------------------------------
(* Assembly                                                                *)

BaseTools ==
  Own \cup (IF config.planning THEN {"write_todos"} ELSE {})
      \cup (IF config.filesystem THEN {"write_file"} ELSE {})

\* The general-purpose agent, which only a model's name can make, before the caller's own.
Helpers ==
  IF ~config.task THEN <<>>
  ELSE (IF config.from = "model" \/ config.default_model THEN <<GeneralPurpose>> ELSE <<>>)
       \o config.subagents

\* build_middleware: the tools that are to be approved; interrupt_on has the last word.
Guarded ==
  {tool \in DOMAIN config.interrupt_on : config.interrupt_on[tool]}
    \cup (config.interrupt_before_tools \ DOMAIN config.interrupt_on)

\* A skill or a memory file that cannot be read is an Err of both functions.
SkillsAndMemoryLoad == config.readable

CreateDeepAgent ==
  /\ deep = NoAgents
  /\ SkillsAndMemoryLoad
  /\ deep' = [tools |-> BaseTools \cup (IF Helpers # <<>> THEN {"task"} ELSE {}),
              helpers |-> Helpers, guarded |-> Guarded]
  /\ UNCHANGED <<config, frames, waiting, approved, todos, ran>>

-------------------------------------------------------------------------------
(* Runs                                                                    *)

Main == [agent |-> "main", asked |-> "", helper |-> 0]
Top  == Last(frames)

\* Fault: the general-purpose agent is given the tools of main.
ToolsOfMain(agent) ==
  IF agent \in {"main", "built-in"} THEN deep.tools ELSE {"other"}

\* The caller's subagents have tools of theirs.
ToolsOf(agent) ==
  CASE agent = "main"     -> deep.tools
    [] agent = "built-in" -> deep.tools \ {"task"}
    [] OTHER              -> {"other"}

\* Fault: the general-purpose agent runs without the middleware.
GuardsMainOnly(agent) == IF agent = "main" THEN deep.guarded ELSE {}

GuardsOf(agent) == IF agent \in {"main", "built-in"} THEN deep.guarded ELSE {}

Plans(tool) ==
  /\ frames # <<>> /\ waiting = {}
  /\ Cardinality(ran) < MaxCalls
  /\ tool \in ToolsOf(Top.agent)

Free(tool) == tool \notin GuardsOf(Top.agent) \/ (Len(frames) = 1 /\ tool \in approved)

Runs(tool) ==
  ran' = ran \cup {[tool |-> tool, by |-> Top.agent, approved |-> tool \in approved,
                    nth |-> Cardinality(ran)]}

Ask ==
  /\ deep # NoAgents /\ frames = <<>> /\ waiting = {}
  /\ frames' = <<Main>>
  /\ approved' = {}
  /\ UNCHANGED <<config, deep, waiting, todos, ran>>

\* WriteTodosTool: the whole list, under the session of the context, in the store.
WriteTodos ==
  /\ Plans("write_todos") /\ Free("write_todos")
  /\ todos' = {Top.agent}
  /\ Runs("write_todos")
  /\ approved' = approved \ {"write_todos"}
  /\ UNCHANGED <<config, deep, frames, waiting>>

\* Any other tool but task.
RunTool(tool) ==
  /\ Plans(tool) /\ Free(tool)
  /\ Runs(tool)
  /\ approved' = approved \ {tool}
  /\ UNCHANGED <<config, deep, frames, waiting, todos>>

\* Fault: the first agent of a name is found.
FirstNamed(names, id) ==
  IF \E i \in DOMAIN names : names[i] = id
  THEN CHOOSE i \in DOMAIN names : names[i] = id /\ \A j \in 1..(i - 1) : names[j] # id
  ELSE 1

\* from_subagent_tools keeps the last of a name; where there is no such name, or none is
\* given, the first helper takes the task.
Named(names, id) ==
  IF \E i \in DOMAIN names : names[i] = id
  THEN CHOOSE i \in DOMAIN names : names[i] = id /\ \A j \in i + 1..Len(names) : names[j] # id
  ELSE 1

IsBuiltIn(i) ==
  i = 1 /\ deep.helpers[1] = GeneralPurpose /\ (config.from = "model" \/ config.default_model)

\* TaskTool and SubagentTool: the helper begins with the task alone.
Task ==
  /\ Plans("task") /\ Free("task")
  /\ \E id \in ToSet(deep.helpers) \cup {"", "unknown"} :
       LET i == Named(deep.helpers, id)
       IN frames' = Append(frames, [agent |-> IF IsBuiltIn(i) THEN "built-in" ELSE "custom",
                                    asked |-> id, helper |-> i])
  /\ Runs("task")
  /\ approved' = approved \ {"task"}
  /\ UNCHANGED <<config, deep, waiting, todos>>

\* HumanInTheLoopMiddleware before a tool of main: the call returns an Interrupt.
Interrupt ==
  /\ \E tool \in deep.tools :
       Plans(tool) /\ ~Free(tool) /\ Len(frames) = 1 /\ waiting' = {tool}
  /\ UNCHANGED <<config, deep, frames, approved, todos, ran>>

\* A person's answer, to an agent that has a checkpointer to resume from.
Decide ==
  /\ waiting # {} /\ config.checkpointer
  /\ approved' \in {approved, approved \cup waiting}
  /\ waiting' = {}
  /\ UNCHANGED <<config, deep, frames, todos, ran>>

\* Without one the resume is an Err; and nobody may answer.
GiveUp ==
  /\ waiting # {}
  /\ waiting' = {} /\ frames' = <<>>
  /\ UNCHANGED <<config, deep, approved, todos, ran>>

\* Before a tool of a helper nobody can be asked: the Interrupt is the error of its run,
\* which its caller gets as the task's answer.
InterruptInside ==
  /\ Len(frames) > 1
  /\ \E tool \in ToolsOf(Top.agent) : Plans(tool) /\ ~Free(tool)
  /\ frames' = Front(frames)
  /\ UNCHANGED <<config, deep, waiting, approved, todos, ran>>

\* Finish, or a run that fails.
Return ==
  /\ frames # <<>> /\ waiting = {}
  /\ frames' = Front(frames)
  /\ UNCHANGED <<config, deep, waiting, approved, todos, ran>>

Next ==
  \/ CreateDeepAgent
  \/ Ask \/ WriteTodos \/ Task
  \/ \E tool \in Own \cup {"write_file", "other"} : RunTool(tool)
  \/ Interrupt \/ Decide \/ GiveUp \/ InterruptInside
  \/ Return

Spec == Init /\ [][Next]_vars

-------------------------------------------------------------------------------
(* Properties                                                              *)

TypeOK ==
  /\ config \in Configs /\ ConfigOK(config)
  /\ DOMAIN deep = DOMAIN NoAgents
  /\ waiting \subseteq deep.tools /\ approved \subseteq deep.tools
  /\ todos \subseteq {"main", "built-in", "custom"}
  /\ Cardinality(ran) <= MaxCalls

\* HumanInTheLoopMiddleware through build_middleware: a tool that is to be approved is not
\* run without, neither by the deep agent nor, on its behalf, by the built-in helper.
GuardedToolsAreApproved ==
  \A r \in ran :
    /\ r.by # "custom"
    /\ \/ r.tool \in DOMAIN config.interrupt_on /\ config.interrupt_on[r.tool]
       \/ r.tool \in config.interrupt_before_tools \ DOMAIN config.interrupt_on
    => r.approved

\* create_deep_agent: a helper has no helpers of its own, so that a task that is handed on
\* is not handed on again.
TasksAreHandedOnOnce == Len(frames) <= 2

\* TaskTool: a task that names a helper is done by one of that name, the caller's own
\* before the built-in; and only the deep agent and its built-in helper write its plan.
TasksReachTheirHelper ==
  /\ \A i \in DOMAIN frames :
       LET f == frames[i]
       IN f.agent # "main" =>
            /\ f.asked \in ToSet(deep.helpers) => deep.helpers[f.helper] = f.asked
            /\ f.agent = "built-in" => f.asked \notin ToSet(config.subagents)
  /\ "custom" \notin todos
===============================================================================

------------------------------ MODULE Components ------------------------------
(***************************************************************************)
(* The components that a graph, an agent or a chain is made of or fed      *)
(* with, and what is proved of them.  They share no state; each is an      *)
(* instance over variables of its own.                                     *)
(***************************************************************************)
EXTENDS Naturals, Sequences, FiniteSets

CONSTANTS BuildNode, GraphStart, GraphEnd, BuildEdges, MaxEdges
VARIABLES nodes, edges, phase, pending, searched
builds_vars == <<nodes, edges, phase, pending, searched>>

Builds == INSTANCE GraphBuild WITH
  Node <- BuildNode, Start <- GraphStart, End <- GraphEnd, Edges <- BuildEdges,
  stage <- phase, visited <- searched

\* add_edge makes an edge of one target, add_conditional_edges one of a mapping; the two
\* constants START and END differ.
ASSUME BuildsAssumption ==
  /\ GraphStart # GraphEnd
  /\ \A e \in BuildEdges :
       /\ e = [from |-> e.from, kind |-> e.kind, targets |-> e.targets]
       /\ e.kind \in {"regular", "conditional"}
       /\ IsFiniteSet(e.targets)
       /\ e.kind = "regular" => Cardinality(e.targets) = 1

CONSTANTS Field, MaxNodes
VARIABLES shape, context, state, question, told, values, ending
nodes_vars == <<shape, context, state, question, told, values, ending>>

Nodes == INSTANCE GraphNodes WITH asked <- question, outcome <- ending, made <- values

CONSTANTS Chatter, MaxRetrievalRetries, MaxGenerationRetries, MaxChats, MaxItems
VARIABLES memory, chats, chat
chains_vars == <<memory, chats, chat>>

Chains == INSTANCE Conversation WITH
  Caller <- Chatter, MaxCalls <- MaxChats, MaxChunks <- MaxItems, calls <- chats, call <- chat

\* HybridRAGConfig counts its retries.
ASSUME ChainsAssumption == MaxRetrievalRetries \in Nat /\ MaxGenerationRetries \in Nat

CONSTANTS DeepConfigs, Own, MaxDeepCalls
VARIABLES deep_config, deep, frames, waiting, approved, todos, ran
deep_vars == <<deep_config, deep, frames, waiting, approved, todos, ran>>

DeepAgents == INSTANCE DeepAgent WITH
  Configs <- DeepConfigs, MaxCalls <- MaxDeepCalls, config <- deep_config

\* The tools of a caller have names of their own.
ASSUME DeepAssumption ==
  /\ \A c \in DeepConfigs : DeepAgents!ConfigOK(c)
  /\ {"write_todos", "write_file", "task"} \cap Own = {}

CONSTANTS Editor, Segment, FilePath, RouteSets, FileWord, MaxWords
VARIABLES routes, files, edits, last
files_vars == <<routes, files, edits, last>>

Files == INSTANCE DeepFiles WITH Caller <- Editor, Path <- FilePath, Word <- FileWord

\* A path is its segments, and so is a prefix.
ASSUME FilesAssumption ==
  /\ FilePath \subseteq Seq(Segment)
  /\ \A R \in RouteSets : \A r \in R : r.prefix \in Seq(Segment)

CONSTANTS ToolFile, MaxLines, PageSize, MaxToolCalls
VARIABLES backend, rooted, texts, reader, found, before, writes, reply
tools_vars == <<backend, rooted, texts, reader, found, before, writes, reply>>

Toolbox == INSTANCE FileTools WITH
  File <- ToolFile, Word <- FileWord, MaxCalls <- MaxToolCalls, result <- reply

ASSUME ToolsAssumption == MaxLines \in Nat /\ PageSize \subseteq Nat

-------------------------------------------------------------------------------
(* The properties are those of the components, where they are explained.   *)

\* GraphBuild, GraphNodes: what compile accepts can run, and nothing else is refused; no
\* message of a node is lost, and a node reads the newest.
GraphsHold ==
  /\ Builds!CompilesWhatRuns
  /\ Nodes!MessagesAreNeverLost /\ Nodes!NodesReadTheNewest

\* Conversation: a memory of whole turns, whoever else adds his, with every answer of a
\* call, the returned one last.
ConversationsHold == Chains!TurnsAreWhole /\ Chains!AnswersAreRemembered

\* DeepFiles, FileTools, DeepAgent: a path reads its own last write, and what is listed is
\* there; pages are the file, found lines are where they are, an edit spares the rest; and
\* a tool to be approved is not run without, nor a task handed on twice or to another.
DeepAgentsHold ==
  /\ Files!PathsReadTheirLastWrite /\ Files!ListedFilesAreRead
  /\ Toolbox!PagesCoverTheFile /\ Toolbox!FoundLinesAreShown /\ Toolbox!EditsSpareTheRest
  /\ DeepAgents!GuardedToolsAreApproved
  /\ DeepAgents!TasksAreHandedOnOnce /\ DeepAgents!TasksReachTheirHelper
===============================================================================

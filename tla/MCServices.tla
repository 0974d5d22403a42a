------------------------------ MODULE MCServices ------------------------------
(***************************************************************************)
(* The components around the two executors, each on a small instance.      *)
(* They share no state with each other, so one of them runs, the part, and *)
(* the rest stay as they were; ChatMemory and Services are extended, the   *)
(* others are instances.                                                   *)
(***************************************************************************)
EXTENDS ChatMemory, Services, Components, Surroundings

VARIABLE part

Two   == {"p", "q"}
Three == {"p", "q", "r"}

-------------------------------------------------------------------------------
(* What the cfg gives Services.  Three snapshots of two threads, by two     *)
(* writers that may overtake each other; three executions of two tasks, or *)
(* of two inputs, for two callers; a counter with one limit, and one with  *)
(* a second limit beside it; and, for the streams, a loop, graphs within    *)
(* graphs two levels deep, and a graph that runs out of edges.             *)

Limit(w, n) == [window |-> w, limit |-> n]
LimitedBy   == {<<Limit(2, 2)>>, <<Limit(3, 1)>>, <<Limit(2, 2), Limit(4, 3)>>}

Loop ==
  [graphs |-> {"g"}, root |-> "g",
   targets |-> [g |-> {"A"}, A |-> {"B", "End"}, B |-> {"A"}],
   inner |-> [A |-> "", B |-> ""]]

Nested ==
  [graphs |-> {"g", "h", "k"}, root |-> "g",
   targets |-> [g |-> {"U"}, U |-> {"End"}, h |-> {"A"}, A |-> {"V"}, V |-> {"End"},
                k |-> {"B", "End"}, B |-> {"End"}],
   inner |-> [U |-> "h", A |-> "", V |-> "k", B |-> ""]]

DeadEnd ==
  [graphs |-> {"g", "h"}, root |-> "g",
   targets |-> [g |-> {"A", "U"}, A |-> {"U"}, U |-> {"End"}, h |-> {"B"}, B |-> {}],
   inner |-> [A |-> "", U |-> "h", B |-> ""]]

AllGraphs == {Loop, Nested, DeadEnd}

-------------------------------------------------------------------------------
(* No route, one, one inside the other, and a prefix that begins with "/". *)

Prefix(absolute, path) == [absolute |-> absolute, prefix |-> path]

Paths == {<<>>, <<"m">>, <<"n">>, <<"m", "n">>, <<"m", "m", "n">>}

Routes ==
  {{}, {Prefix(FALSE, <<"m">>)}, {Prefix(FALSE, <<"m">>), Prefix(FALSE, <<"m", "m">>)},
   {Prefix(TRUE, <<"m">>)}}

-------------------------------------------------------------------------------
(* Every text of up to four characters.                                    *)

VARIABLES text, settings, splits, cut, result
splitters_vars == <<text, settings, splits, cut, result>>

Texts == BoundedSeq({"letter", "space", "newline"}, 4) \ {<<>>}

Splitters == INSTANCE TextSplitters WITH
  Settings <- [kind : {"character", "recursive", "elements"}, size : {1, 2},
               overlap : {0, 1}, trim : {TRUE}],
  MaxChunks <- 10, calls <- splits

-------------------------------------------------------------------------------
(* Three retrievers, or queries, and every strategy that fuses them.       *)

VARIABLES config, asked, all, stage, fused, docs
retrievers_vars == <<config, asked, all, stage, fused, docs>>

Fusion(strategy, weights, top_k, threshold, filter, rerank) ==
  [strategy |-> strategy, weights |-> weights, top_k |-> top_k,
   threshold |-> threshold, filter |-> filter, rerank |-> rerank]

Fusions ==
  {Fusion("rrf", <<1, 1, 1>>, 3, 0, TRUE, TRUE),
   Fusion("weighted", <<1, 2, 1>>, 1, 0, FALSE, TRUE),
   Fusion("weighted", <<1>>, 2, 0, FALSE, FALSE),
   Fusion("votes", <<2, 1, 1>>, 2, 0, FALSE, FALSE),
   Fusion("majority", <<1, 1, 1>>, 2, 60, FALSE, FALSE),
   Fusion("concatenate", <<1, 1, 1>>, 2, 0, FALSE, FALSE),
   Fusion("queries", <<1, 1, 1>>, 2, 0, TRUE, FALSE)}

Retrievers == INSTANCE Retrieval WITH
  Doc <- Three, Retrievers <- 3, MaxLength <- 3, K <- 1, Scale <- 12,
  Settings <- Fusions,
  Answers <- {<<>>, <<"p">>, <<"q", "p">>, <<"q", "r">>, <<"p", "q", "r">>, <<"r", "p", "p">>},
  Similar <- {<<"p", "q">>, <<"q", "p">>, <<"q", "r">>, <<"r", "q">>},
  Relevances <- {[p |-> 1, q |-> 1, r |-> 2], [p |-> 1, q |-> 2, r |-> 0]}

-------------------------------------------------------------------------------
(* Answers of two or three events, also with an error among them, and a    *)
(* request that is refused.                                                *)

VARIABLES client, body, got, clean, items, end
models_vars == <<client, body, got, clean, items, end>>

Delta(content, reasoning) ==
  [kind |-> "delta", content |-> content, reasoning |-> reasoning]
Other(kind) == [kind |-> kind, content |-> FALSE, reasoning |-> FALSE]

Models == INSTANCE ModelStream WITH
  Bodies <- {<<Delta(TRUE, FALSE), Delta(TRUE, FALSE), Other("done")>>,
             <<Delta(FALSE, FALSE), Delta(TRUE, FALSE), Delta(TRUE, FALSE)>>,
             <<Delta(FALSE, TRUE), Delta(TRUE, FALSE), Other("done")>>,
             <<Delta(TRUE, FALSE), Other("error")>>, <<Other("refused")>>}

-------------------------------------------------------------------------------
(* Sites of three pages and their cycles, and one where a page leads on     *)
(* that is found at once by two links and by one, for two levels, one with  *)
(* a page left out, three with a limit, and for a sitemap.                 *)

Setting(by, max_depth, max_pages, excluded) ==
  [loader |-> by, max_depth |-> max_depth, max_pages |-> max_pages, excluded |-> excluded]

FourPages  == Three \cup {"s"}
SmallSites ==
  {links @@ [s |-> <<>>] : links \in [Three -> {<<>>, <<"q">>, <<"q", "r">>, <<"r", "p">>}]}
    \cup {[p |-> <<"q", "r">>, q |-> <<"s">>, r |-> <<"q">>, s |-> <<>>]}
Crawls     == {Setting("recursive", 2, 0, {}), Setting("recursive", 1, 0, {"q"}),
               Setting("recursive", 3, 2, {}), Setting("sitemap", 0, 0, {"q"})}

-------------------------------------------------------------------------------
(* Every vector store, for two callers that add one document, or two.      *)

Scores  == [p |-> 2, q |-> -1]
Batches == {<<"p">>, <<"q", "p">>}

-------------------------------------------------------------------------------
(* Stacks of middleware: two that rewrite what tools return, in both orders, *)
(* two that rewrite the history and one that adds to it, and the guards,     *)
(* which replace or end the run.                                             *)

HookStacks ==
  {<<"pii", "evict">>, <<"evict", "pii">>, <<"filter", "summarize", "rules_before_last">>,
   <<"skills", "summarize", "system_prompt">>, <<"summarize", "rules_first">>,
   <<"pii", "prompt", "safety">>, <<"safety", "pii", "rules_last">>, <<"evict", "block", "pii">>}

Conversations ==
  [text: {<<"word", "secret">>, <<"banned">>},
   history: {<<>>, [i \in 1..3 |-> [system |-> FALSE, of |-> <<i>>, added |-> {}]]},
   prompt: {FALSE}]

ToolAnswers == [large: BOOLEAN, secret: BOOLEAN]

-------------------------------------------------------------------------------
(* Every loader, and the retrievers that load, on sources with bad parts.  *)

LoadedParts ==
  {<<"good">>, <<"bad">>, <<"good", "bad", "good">>, <<"empty", "good", "left">>,
   <<"bad", "good", "good">>, <<"good", "good", "good">>}

-------------------------------------------------------------------------------
(* Names of every service, with and without their provider, and requests   *)
(* whose history grows between them.                                       *)

VARIABLES model_name, serving, options, options_added, conversation, requests, generated
requests_vars == <<model_name, serving, options, options_added, conversation, requests, generated>>

NameOf(owner, prefix, inside, slash, colon) ==
  [owner |-> owner, prefix |-> prefix, inside |-> inside, slash |-> slash, colon |-> colon]
Plain(owner, prefix) == NameOf(owner, prefix, "none", FALSE, FALSE)
Says(type, calls, image) == [type |-> type, calls |-> calls, image |-> image]
Options(temperature, stop, functions) ==
  [temperature |-> temperature, stop |-> stop, functions |-> functions]

Requests == INSTANCE ModelRequests WITH
  Names <- {Plain("openai", "gpt-"), Plain("claude", "claude"), Plain("qwen", "qwen-"), Plain("qwen", "none"),
            Plain("deepseek", "deepseek-"), Plain("mistralai", "mixtral-"), Plain("gemini", "gemini"),
            Plain("ollama", "none"), NameOf("openai", "openai", "none", FALSE, TRUE),
            NameOf("bedrock", "none", "meta.llama", FALSE, FALSE),
            NameOf("bedrock", "other", "anthropic.claude", FALSE, TRUE),
            NameOf("huggingface", "none", "none", TRUE, FALSE),
            NameOf("huggingface", "deepseek-", "none", TRUE, FALSE)},
  Messages <- {Says("system", {}, FALSE), Says("human", {}, FALSE), Says("human", {}, TRUE),
               Says("tool", {1}, FALSE)},
  Incoming <- {Options(1, <<"a">>, <<>>), Options(0, <<"b">>, <<"f">>)},
  MaxHistory <- 3, MaxRequests <- 2,
  name <- model_name, client <- serving, added <- options_added, history <- conversation,
  sent <- requests, result <- generated

-------------------------------------------------------------------------------
(* Every order of nodes and edges, loops, dead ends and unknown ends among *)
(* them; and three nodes of any kind, in graphs of every shape of state.   *)

To(from, to) == [from |-> from, kind |-> "regular", targets |-> {to}]
OneOf(from, targets) == [from |-> from, kind |-> "conditional", targets |-> targets]

AddedEdges ==
  {To("Start", "A"), OneOf("Start", {"A", "B"}), To("Start", "End"), To("A", "B"),
   OneOf("A", {"B", "End"}), To("B", "A"), To("B", "End"), OneOf("B", {})}

-------------------------------------------------------------------------------
(* Deep agents of both functions, with helpers of equal and of reserved    *)
(* names, with approvals, with and without a checkpointer.                 *)

Deep(from, default_model, subagents, interrupt_before_tools, checkpointer) ==
  [from |-> from, planning |-> TRUE, filesystem |-> TRUE, task |-> TRUE,
   default_model |-> default_model, subagents |-> subagents,
   interrupt_on |-> [tool \in {"task"} |-> from = "llm"],
   interrupt_before_tools |-> interrupt_before_tools, checkpointer |-> checkpointer,
   readable |-> TRUE]

DeepAgentConfigs ==
  {Deep("model", FALSE, <<"a">>, {"write_file", "task"}, TRUE),
   Deep("model", FALSE, <<"a", "general-purpose">>, {}, FALSE),
   Deep("llm", FALSE, <<"a", "b">>, {"task", "write_todos"}, TRUE),
   Deep("llm", TRUE, <<"a", "a">>, {"search", "write_todos"}, TRUE),
   Deep("llm", FALSE, <<>>, {"write_file"}, FALSE),
   [Deep("model", FALSE, <<>>, {}, FALSE) EXCEPT !.readable = FALSE],
   [Deep("model", FALSE, <<"a">>, {}, FALSE) EXCEPT !.planning = FALSE]}

-------------------------------------------------------------------------------
(* Teams of every kind, with and without a default, one that lacks an agent *)
(* its router knows.                                                       *)

VARIABLES team, turns, asked_of, active, answer
teams_vars == <<team, turns, asked_of, active, answer>>

Team(kind, agents, default, names) ==
  [kind |-> kind, agents |-> agents, default |-> default, descriptions |-> names,
   keywords |-> [n \in Range(names) |-> IF n = "a" THEN {"x", "y"} ELSE {"y"}],
   skills |-> {"x", "y"}, loadable |-> {"x"}]

TeamsOf == INSTANCE AgentTeams WITH
  Teams <- {Team("keywords", {"a", "b"}, {"d"}, <<"a", "b">>),
            Team("keywords", {"a", "b"}, {}, <<"a", "b">>),
            Team("keywords", {"a"}, {}, <<"a", "c">>), Team("model", {"a", "b"}, {"d"}, <<"b", "a">>),
            Team("handoff", {"a", "b"}, {"d"}, <<>>), Team("handoff", {"a", "b"}, {}, <<>>),
            Team("handoff", {}, {}, <<>>), Team("skills", {}, {"d"}, <<>>),
            Team("subagents", {"a", "b"}, {"d"}, <<>>)},
  Topic <- {"x", "y", "z"}, MaxTurns <- 2,
  messages <- turns, asked <- asked_of, outcome <- answer

-------------------------------------------------------------------------------
(* A file of the workspace, in a directory of its own, with and without a  *)
(* backend and a root.                                                     *)

DirectoryFile == {[dir |-> "d", name |-> "f"]}

-------------------------------------------------------------------------------
(* Names that meet when they are joined, and the namespace that stands for *)
(* none.                                                                   *)

Namespaces == {<<>>, <<"default">>}
NamedKeys  == {<<"k">>, <<"default", "k">>}
NearTo     == [x |-> 1, y |-> 2]
ItemFilters == {{"x", "y"}}

-------------------------------------------------------------------------------
(* Programs where a name is used twice, is made inside a nested chain only,   *)
(* or is never made; documents, and a query between two models.               *)

VARIABLES chain_program, chain_given, chain_frames, calls_made, chain_outcome
chained_vars == <<chain_program, chain_given, chain_frames, calls_made, chain_outcome>>

Step(kind, reads, name, parts) == [kind |-> kind, reads |-> reads, name |-> name, parts |-> parts]
Write(reads, name) == Step("llm", reads, name, <<>>)
AskSql             == Step("sql", {}, "", <<>>)
AskDocuments       == Step("stuff", {"context", "query"}, "", <<>>)
Nest(parts)        == Step("chains", {}, "", parts)
NestThenWrite      == <<Nest(<<Write({"query"}, "title"), AskSql>>), Write({"title"}, "output")>>
ChainPrograms ==
  {<<Write({"query"}, "title"), AskSql, Write({"title", "output"}, "title"), Write({"title"}, "last")>>,
   <<AskDocuments, Nest(<<Write({"output"}, "title"), Write({"title", "query"}, "query")>>),
     Write({"output", "query"}, "input_documents"), AskDocuments>>,
   NestThenWrite,
   <<Write({"output"}, "output"), Nest(<<Write({"output"}, "output"), AskDocuments>>), AskSql>>}

Chained == INSTANCE ChainRuns WITH
  Programs <- ChainPrograms, Given <- {{"query", "input_documents"}, {"query"}, {"output", "query"}},
  program <- chain_program, given <- chain_given, frames <- chain_frames, asked <- calls_made,
  outcome <- chain_outcome

-------------------------------------------------------------------------------
Parts ==
  {"memory", "savers", "tasks", "limits", "streams", "chains", "files", "splitters",
   "retrievers", "models", "crawlers", "stores", "hooks", "loaders", "requests", "builds",
   "nodes", "deep", "teams", "tools", "keyed", "chained"}

\* A part that does not run begins in one of its initial states.
MCInit ==
  /\ part \in Parts
  /\ IF part = "memory" THEN TRUE ELSE size = 3
  /\ Init
  /\ IF part = "savers" THEN TRUE ELSE saver = "memory"
  /\ Savers!Init
  /\ Tasks!Init
  /\ IF part = "limits" THEN TRUE ELSE checks = <<Limit(2, 2)>>
  /\ Limits!Init
  /\ IF part = "streams" THEN TRUE ELSE net = Loop /\ subgraphs = FALSE /\ messages = FALSE
  /\ Streams!Init
  /\ Chains!Init
  /\ IF part = "files" THEN TRUE ELSE routes = {}
  /\ Files!Init
  /\ IF part = "splitters" THEN TRUE
     ELSE /\ text = <<"letter">>
          /\ settings = [kind |-> "character", size |-> 1, overlap |-> 0, trim |-> TRUE]
  /\ Splitters!Init
  /\ IF part = "retrievers" THEN TRUE ELSE config = Fusion("votes", <<2, 1, 1>>, 2, 0, FALSE, FALSE)
  /\ Retrievers!Init
  /\ IF part = "models" THEN TRUE
     ELSE client = [name |-> "qwen", generates |-> FALSE] /\ body = <<Other("refused")>>
  /\ Models!Init
  /\ IF part = "crawlers" THEN TRUE
     ELSE /\ site = [p \in FourPages |-> <<>>]
          /\ setting = Setting("recursive", 2, 0, {})
  /\ Crawlers!Init
  /\ IF part = "stores" THEN TRUE ELSE store = Stores!InMemory
  /\ Stores!Init
  /\ IF part = "hooks" THEN TRUE
     ELSE /\ hook_stack = <<"pii", "evict">> /\ named = TRUE
          /\ original = [text |-> <<"banned">>, history |-> <<>>, prompt |-> FALSE]
  /\ Middlewares!Init
  /\ IF part = "loaders" THEN TRUE
     ELSE loader = Loadings!TextLoader /\ source = <<"good">> /\ then_split = FALSE
  /\ Loadings!Init
  /\ IF part = "requests" THEN TRUE
     ELSE /\ model_name = Plain("ollama", "none")
          /\ options = Options(1, <<"a">>, <<>>)
  /\ Requests!Init
  /\ Builds!Init
  /\ IF part = "nodes" THEN TRUE
     ELSE /\ shape = [messages |-> TRUE, fields |-> FALSE, default |-> TRUE]
          /\ context = [config |-> FALSE, store |-> FALSE]
  /\ Nodes!Init
  /\ IF part = "deep" THEN TRUE ELSE deep_config = Deep("model", FALSE, <<"a">>, {"write_file", "task"}, TRUE)
  /\ DeepAgents!Init
  /\ IF part = "teams" THEN TRUE ELSE team = Team("handoff", {}, {}, <<>>)
  /\ TeamsOf!Init
  /\ IF part = "tools" THEN TRUE ELSE backend = FALSE /\ rooted = FALSE
  /\ Toolbox!Init
  /\ IF part = "keyed" THEN TRUE ELSE kept_by = "tools"
  /\ Keyed!Init
  /\ IF part = "chained" THEN TRUE ELSE chain_program = NestThenWrite /\ chain_given = {"query"}
  /\ Chained!Init

Rest(p) ==
  /\ UNCHANGED part
  /\ IF p = "memory"     THEN TRUE ELSE UNCHANGED vars
  /\ IF p = "savers"     THEN TRUE ELSE UNCHANGED savers_vars
  /\ IF p = "tasks"      THEN TRUE ELSE UNCHANGED tasks_vars
  /\ IF p = "limits"     THEN TRUE ELSE UNCHANGED limits_vars
  /\ IF p = "streams"    THEN TRUE ELSE UNCHANGED streams_vars
  /\ IF p = "chains"     THEN TRUE ELSE UNCHANGED chains_vars
  /\ IF p = "files"      THEN TRUE ELSE UNCHANGED files_vars
  /\ IF p = "splitters"  THEN TRUE ELSE UNCHANGED splitters_vars
  /\ IF p = "retrievers" THEN TRUE ELSE UNCHANGED retrievers_vars
  /\ IF p = "models"     THEN TRUE ELSE UNCHANGED models_vars
  /\ IF p = "crawlers"   THEN TRUE ELSE UNCHANGED crawlers_vars
  /\ IF p = "stores"     THEN TRUE ELSE UNCHANGED stores_vars
  /\ IF p = "hooks"      THEN TRUE ELSE UNCHANGED hooks_vars
  /\ IF p = "loaders"    THEN TRUE ELSE UNCHANGED loading_vars
  /\ IF p = "requests"   THEN TRUE ELSE UNCHANGED requests_vars
  /\ IF p = "builds"     THEN TRUE ELSE UNCHANGED builds_vars
  /\ IF p = "nodes"      THEN TRUE ELSE UNCHANGED nodes_vars
  /\ IF p = "deep"       THEN TRUE ELSE UNCHANGED deep_vars
  /\ IF p = "teams"      THEN TRUE ELSE UNCHANGED teams_vars
  /\ IF p = "tools"      THEN TRUE ELSE UNCHANGED tools_vars
  /\ IF p = "keyed"      THEN TRUE ELSE UNCHANGED keyed_vars
  /\ IF p = "chained"    THEN TRUE ELSE UNCHANGED chained_vars

MCNext ==
  \/ part = "memory"     /\ Next             /\ Rest("memory")
  \/ part = "savers"     /\ Savers!Next      /\ Rest("savers")
  \/ part = "tasks"      /\ Tasks!Next       /\ Rest("tasks")
  \/ part = "limits"     /\ Limits!Next      /\ Rest("limits")
  \/ part = "streams"    /\ Streams!Next     /\ Rest("streams")
  \/ part = "chains"     /\ Chains!Next      /\ Rest("chains")
  \/ part = "files"      /\ Files!Next       /\ Rest("files")
  \/ part = "splitters"  /\ Splitters!Next   /\ Rest("splitters")
  \/ part = "retrievers" /\ Retrievers!Next  /\ Rest("retrievers")
  \/ part = "models"     /\ Models!Next      /\ Rest("models")
  \/ part = "crawlers"   /\ Crawlers!Next    /\ Rest("crawlers")
  \/ part = "stores"     /\ Stores!Next      /\ Rest("stores")
  \/ part = "hooks"      /\ Middlewares!Next /\ Rest("hooks")
  \/ part = "loaders"    /\ Loadings!Next    /\ Rest("loaders")
  \/ part = "requests"   /\ Requests!Next    /\ Rest("requests")
  \/ part = "builds"     /\ Builds!Next      /\ Rest("builds")
  \/ part = "nodes"      /\ Nodes!Next       /\ Rest("nodes")
  \/ part = "deep"       /\ DeepAgents!Next  /\ Rest("deep")
  \/ part = "teams"      /\ TeamsOf!Next     /\ Rest("teams")
  \/ part = "tools"      /\ Toolbox!Next     /\ Rest("tools")
  \/ part = "keyed"      /\ Keyed!Next       /\ Rest("keyed")
  \/ part = "chained"    /\ Chained!Next     /\ Rest("chained")

MCSpec ==
  MCInit /\ [][MCNext]_<<part, vars, savers_vars, tasks_vars, limits_vars,
    streams_vars, chains_vars, files_vars, splitters_vars, retrievers_vars, models_vars,
    crawlers_vars, stores_vars, hooks_vars, loading_vars, requests_vars, builds_vars,
    nodes_vars, deep_vars, teams_vars, tools_vars, keyed_vars, chained_vars>>

\* The loops of split_text, which their thread does not leave.
SplittersSpec == MCSpec /\ part = "splitters" /\ WF_splitters_vars(MCNext)

-------------------------------------------------------------------------------
(* The properties are those of the components, where they are explained,   *)
(* each asked of the part that runs.                                       *)

TypesOK ==
  CASE part = "memory"     -> TypeOK
    [] part = "savers"     -> Savers!TypeOK
    [] part = "tasks"      -> Tasks!TypeOK
    [] part = "limits"     -> Limits!TypeOK
    [] part = "streams"    -> Streams!TypeOK
    [] part = "chains"     -> Chains!TypeOK
    [] part = "files"      -> Files!TypeOK
    [] part = "splitters"  -> Splitters!TypeOK
    [] part = "retrievers" -> Retrievers!TypeOK
    [] part = "models"     -> Models!TypeOK
    [] part = "crawlers"   -> Crawlers!TypeOK
    [] part = "stores"     -> Stores!TypeOK
    [] part = "hooks"      -> Middlewares!TypeOK
    [] part = "loaders"    -> Loadings!TypeOK
    [] part = "requests"   -> Requests!TypeOK
    [] part = "builds"     -> Builds!TypeOK
    [] part = "nodes"      -> Nodes!TypeOK
    [] part = "deep"       -> DeepAgents!TypeOK
    [] part = "teams"      -> TeamsOf!TypeOK
    [] part = "tools"      -> Toolbox!TypeOK
    [] part = "keyed"      -> Keyed!TypeOK
    [] part = "chained"    -> Chained!TypeOK

\* TextSplitters, Loading, VectorStores, Retrieval: no letter of a text is lost or out of
\* order, a load goes on until it ends, and searches find the nearest and the best.
TextsAreFound ==
  /\ part = "splitters"  => Splitters!ChunksKeepTheText
  /\ part = "loaders"    => Loadings!LoadsGoOn
  /\ part = "stores"     => Stores!NearestAreFound
  /\ part = "retrievers" => Retrievers!TopDocuments

\* ModelRequests, ModelStream, AgentTeams, MiddlewareStack, ChainRuns: a request carries
\* the history, in order, and the options that were set, to the service of the model
\* named; its answer arrives in order, and whole where it may.  A turn reaches the agent
\* it is for, with the whole conversation, and the hooks before a model lose none of it;
\* and a chain reads the newest values, its last part answers, and its tokens add up.
ModelsAreAskedAndHeard ==
  /\ part = "requests" => /\ Requests!HistoryIsSent /\ Requests!RequestsExtend
                          /\ Requests!CallsPairUp /\ Requests!OptionsAreSent
                          /\ Requests!RightService
  /\ part = "models" => Models!AnswersArriveInOrder
  /\ part = "teams"  => TeamsOf!TurnsReachTheirAgent /\ TeamsOf!ConversationsArriveWhole
  /\ part = "hooks"  => Middlewares!HistoryReachesTheModel
  /\ part = "chained" =>
       Chained!NewestValuesAreRead /\ Chained!LastChainAnswers /\ Chained!TokensAddUp

-------------------------------------------------------------------------------
(* What the repository says and the code does not do: each is violated.    *)

\* TaskCache: what was answered is not executed again after a restart.
ResultsOutliveRestarts == Tasks!ResultsOutliveRestarts

\* MiddlewareStack: what a hook returns in place of a result is what the agent goes on with.
ReplacementsAreKept == Middlewares!ReplacementsAreKept

\* VectorStores: qdrant's add_documents returns the ids of the documents added.
QdrantReturnsIdsAdded == Stores!QdrantReturnsIdsAdded

\* TextSplitters: split_text returns.
SplittingEnds == Splitters!SplittingEnds
===============================================================================

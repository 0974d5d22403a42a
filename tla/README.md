# A TLA+ model of langchain-ai-rust

This directory holds TLA+ modules, TLC configurations and TLAPS proofs for the
`langchain-ai-rust` crate: the two LangGraph executors with their checkpoints and
interrupts, the agent's loop with a human in it, and, on smaller instances, the
components around them. File names below are relative to the crate's `src/`.

`tlc -config X.cfg M` runs a check, `tlapm M.tla` a proof; `PROJECT.json` lists
the runs, what each definition translates (`map`), the faults each property
detects (`mutants`), the hazards, the divergences (`findings`) and the theorems.

## Inventory

| Component | State | Operations | Interacts with | Hard behaviour |
|---|---|---|---|---|
| `langgraph/graph.rs`, `edge.rs`, `node.rs`, `state.rs` | nodes, edges | `add_node`, `add_edge`, `compile`, `get_target`, `merge`, the node wrappers | every executor | conditions that fail or answer outside the mapping; what of a state survives a merge |
| `langgraph/execution/*` | `executed_nodes`, `current_state`, `step` | `execute`, `get_ready_nodes`, `get_next_nodes`, `is_complete`, `save_checkpoint` | checkpointer, nodes, tokio | parallel nodes, spawned puts, failure and loss at every await |
| `langgraph/compiled.rs` | none of its own | `invoke*`, `stream*`, `get_state`, `get_state_history`, `update_state` | executors, checkpointer, interrupts | two executors with different schedules; resume, fork, time travel |
| `langgraph/interrupts/*` | a task-local context: resume values and an index | `interrupt`, `Command::Resume / Goto` | nodes, sequential executor | a node is re-run from its first line on resume |
| `langgraph/persistence/*` | per thread a list or a table of checkpoints; a namespaced store | `put`, `get`, `list`, store operations | executors | order of arrival, limits, keys that meet |
| `langgraph/streaming/*` | a generator, accumulated chunks | `stream`, `astream_events` | executors | a consumer that goes away, graphs within graphs |
| `langgraph/task/*` | a cache | `get`, `set`, cached task | nodes | look-up, execution and store under different locks |
| `agent/executor.rs`, `hitl.rs`, `checkpoint.rs` | steps, memory, saved agent state | `run_loop`, `call_resume`, `handle_command` | middleware, tools, checkpointer, memory | an interrupt in a batch of tool calls, resume with decisions |
| `agent/middleware/*` | counters, windows, decisions, a store | `before_*`, `after_*` hooks | the agent's loop | hooks in order, defaults that call others, windows under a lock |
| `agent/message_repair.rs`, `memory/*` | a list of messages | `repair`, `add_message`, `clear` | loop, chains | a call without its answer; the window's boundary |
| `agent/deep_agent/*`, `tools/file_backend.rs` | to-do list, files behind routed backends | assembly, `task`, file tools | executor, store | helpers within helpers, approvals inside them, paths that are rewritten twice |
| `agent/multi_agent/*`, `agent/context_engineering/*` | the caller's conversation | routers, hand-offs, skills, subagents | agents | a turn reaching the agent it is for |
| `chain/*`, `rag/*` | a shared memory, named variables | `call`, `invoke`, `stream` | models, retrievers | memory read, model awaited, memory written; retries that have already remembered |
| `retrievers/*` | none | fuse, filter, rerank | vector stores | one of several failing; ties and cut-offs |
| `text_splitter/*`, `document_loaders/*` | a stack of pages, a channel | `split_text`, `load`, `load_and_split` | chains | boundaries; cycles, limits and bad parts; a full channel |
| `llm/*`, `language_models/*` | merged options | `init_chat_model`, `generate`, `stream` | HTTP | an answer cut anywhere by the network |
| `vectorstore/*`, `tools/store.rs`, `tools/long_term_memory/*` | documents, items | add, search, delete | databases | ids that must stay those of their documents; an index beside a table |
| `embedding/*`, `prompt/*`, `output_parsers/*`, `schemas/*`, `semantic_router/*` | none | one HTTP call, formatting, parsing, scores | chains | none a state machine tells apart |

## What is correct, component by component

* Super-step executor: a run appends each node's update once and after its
  predecessors'; checkpoints are pasts of the run's state; Sync makes the state
  durable before the next step; Exit saves the end only; runs end; background
  puts drain. All of it is what a *checkpointed thread* promises (`GraphThread`).
* Interrupts: a call follows one path of edges; an interrupt that is told is saved;
  a value is spent on the interrupt that takes it; a checkpoint continues the one
  it names.
* Checkpointers: the latest checkpoint ends the history, and a fork continues the
  checkpoint it names.
* Streams: events are bracketed, updates make the states, and the whole is an
  `invoke` of the same graphs.
* Agent loop: every tool call of a batch is answered once, in order; guarded tools
  run with approval only; an interrupted batch loses no call; turns are whole.
* Middleware: at most one admission more than the limit in its window; what hooks
  rewrite loses and shows nothing it should not.
* Memories and chains: the window is the conversation's end; turns of concurrent
  callers are whole; an answer that is returned is remembered.
* Deep agents and teams: a path reads its last write; a tool to be approved is not
  run without; a task reaches the helper it names, a turn its agent.
* Stores, retrievers, loaders, models: ids are those of their documents, the
  nearest is found, nothing is lost without an error, requests carry the history,
  answers arrive in order and whole where they may.

## The modules and the code

| Module | Code | Uses |
|---|---|---|
| `StateGraph`, `NodeScheduler` | `langgraph/graph.rs`, `edge.rs`, `execution/scheduler.rs`, as operators | |
| `SuperStep`, `MCSuperStep`, `SuperStepProofs` | `langgraph/execution/*`, `compiled.rs` (`invoke_with_config_and_mode`), `persistence/memory.rs` | `NodeScheduler`, `GraphThread` |
| `GraphThread` | the abstract thread that `SuperStep` implements | |
| `InterruptRun`, `MCInterruptRun`, `InterruptRunProofs` | `compiled.rs` (`invoke_with_config_interrupt`, `execute_with_interrupt_support`, `update_state`), `interrupts/*` | `StateGraph` |
| `AgentLoop`, `MCAgentLoop`, `AgentLoopProofs` | `agent/executor.rs`, `checkpoint.rs`, `hitl.rs`, `middleware/human_in_loop.rs` | `MessageRepair` |
| `MessageRepair`, `MessageRepairProofs`, `ChatMemory` | `agent/message_repair.rs`, `memory/*` | |
| `GraphBuild`, `GraphNodes` | the builder and `compile`; the node wrappers and `merge_state_update` | |
| `GraphInvoke`, `StreamRun` | `invoke` with subgraphs as a stack; `stream_internal` and the stream modes, which implement it | |
| `Checkpointers`, `TaskCache` | `persistence/memory.rs`, `sqlite.rs`; `task/*` | `Selection` |
| `RateLimit`, `MiddlewareStack` | `middleware/rate_limit.rs`; the hooks that rewrite inputs, results and answers | `Selection` |
| `Conversation`, `ChainRuns` | the chains with a memory and `rag/hybrid`; `chain/sequential`, `llm_chain`, `stuff_documents`, `sql_datbase` | |
| `DeepAgent`, `DeepFiles`, `FileTools`, `AgentTeams` | `agent/deep_agent/*`, its backends, the file tools, `agent/multi_agent/*` | |
| `KeyStores`, `VectorStores` | the three key-value stores; the twelve vector stores | |
| `Retrieval`, `TextSplitters`, `Loading`, `Crawl` | `retrievers/*`; `text_splitter/*`; `document_loaders/*` | |
| `ModelRequests`, `ModelStream` | `language_models/*`, `llm/*`: requests, options, streams | |
| `Selection` | `retain`, `filter` and `WHERE`, as the elements at a set of positions | |
| `Services`, `ServiceProofs` | `TaskCache`, `RateLimit`, `Checkpointers` and `StreamRun` as instances, and the theorems about them | these four |
| `Components`, `ComponentProofs` | `GraphBuild`, `GraphNodes`, `Conversation`, `DeepAgent`, `DeepFiles` and `FileTools` as instances, and the theorems about them and about `ChatMemory` | `ChatMemory`, these six |
| `Surroundings`, `SurroundingProofs` | `Crawl`, `Loading`, `VectorStores`, `KeyStores` and `MiddlewareStack` as instances, and the theorems about them | these five |
| `SequenceFacts` | lemmas on folds, concatenations, selections and recursive functions that the proofs share | |
| `MCServices` | `Services`, `Components` and `Surroundings` with values, and instances of the other modules around the executors | `ChatMemory`, `Services`, `Components`, `Surroundings` |

An operator whose comment begins with "Fault:" is the definition after it with a
plausible bug; no specification uses one.

### SuperStep

One thread of a checkpointer, one run of `SuperStepExecutor::execute` at a time.

* `pc`, `err`: where `execute()` is between two awaits, and which error it
  returned. `mode`, `parent`, `base`, `run`: its arguments.
* `values`, `executed`, `step`: `current_state`, `executed_nodes` and `step`. The
  state is a list of messages; every node appends one, known by the node's name.
* `ready`, `result`: `ready_nodes` in the order they are merged (a `HashMap`'s, so
  any), and what the futures of `execute_nodes_parallel` have returned.
* `route`: what `get_target` of every edge answers at the current state. A
  condition is a function of the state: one choice holds until the state changes,
  then another is made. `NoRoute` is a failing condition or an unmapped answer.
* `history`, `pending`, `made`: the thread's list of checkpoints in order of
  arrival, those given to `tokio::spawn`, and how many exist; an `id` is a
  checkpoint's place by `created_at`.

Actions in the order of the loop: `Invoke` / `Resume` (a stored checkpoint, also
an old one: a fork), `SaveInitial` (Sync only), `StepLimit`, `StartRouteFails`,
`NothingReady`, `StartNodes`, `NodeReturns`, `NodesFail`, `MergeUpdates`,
`SaveRouteFails`, `SaveStep`, `CheckComplete`, `Return`; beside them
`BackgroundPut` (a spawned put lands or is refused, at any time, in any order),
`Cancel` (the caller drops the future) and `Crash` (spawned puts die too).

`GraphThread` is what callers may count on, whatever the schedule: a call begins
with an empty state or a durable one, its state only grows, `Save` records the
state as it is, and what is durable stays; what is in flight arrives or is lost. The
mapping takes `values`, `base` and `run` as they are, `history` for what is
durable and `pending` for what is in flight.

### InterruptRun

Several callers of one thread, each with a record of its call (`run[c]`).

* `first`: `edges[0]` of every node, the only edge this executor follows.
* `asks[n]`: how often node n calls `interrupt()` before it returns. `answers` is
  `resume_values` of the task-local context, `given` the values handed out, with
  the interrupt each was made for and the one that took it; its length is
  `current_index`. `raised` is the interrupt the caller was last told of.
* `iterations`, `node`, `values`, `parent`, `base`: the executor's variables.

Actions: `Invoke`, `InvokeState`, `InvokeFork`, `InvokeResume`, `InvokeGoto`
begin a call; `IterationLimit`, `ReachEnd`, `NoEdges`, `LeaveStart`, `EnterNode`
are the head of the loop; `TakeAnswer`, `RaiseInterrupt`, `NodeFails`,
`NodeReturns`, `Follow` a node; `SaveInterrupt` the put behind a raised interrupt,
`PutFails` its failure; `ReadState` and `WriteState` the two halves of
`update_state`, between which other callers act; `Cancel`.

### AgentLoop

Several callers of one executor with a shared memory and one thread of a shared
agent checkpointer.

* `run[c].pc`: `plan` (the model is asked), `runtime_hook` and `hook` (the two
  calls of the middleware for each tool call), `tool`, `finish` and
  `after_finish` (writing the memory, the hooks after it), or how the call ended.
* `batch`, `next`, `action`: the planned batch and its current call. An action
  carries its id, the ids of its batch (`log`) and the decisions taken at its turn
  (`by`), which the code does not keep and the properties need.
* `steps`: the executor's `steps`; `base` of them came from a checkpoint.
  `decisions`, `taken`: the decisions of `call_resume` and the middleware's index.
* `saved`: what the checkpointer holds for the thread; `memory`: the messages;
  `chat`, `input`: how many messages the plan's and the call's input have; `due`,
  `asked`: what was planned, and the batch the caller was last interrupted for.

Actions: `Begin`, `Resume`; `PlanBatch`, `PlanNothing`, `PlanFinish`; `PassHook`,
`Approve`, `Edit`, `Reject`, `Interrupt`; `ToolReturns`, `ToolFails`,
`ToolMissing`; `WriteMemory` and, where the log of a batch (`Garbled`) cannot be
read, `WriteMemoryFails`; `Return`; `Fails` (the model, or any hook that may return an
error), `Cancel`. A rejected call is answered without running and the
loop goes on; `Edit` skips the second hook.

### The graph around its executors

* `GraphBuild`: `nodes` and `edges` grow in any order; `Validate` is the check of
  `compile`, and `Visit`, `Skip`, `FindEnd`, `NoPathToEnd` its depth-first search,
  with the calls still to be made in `pending`. A graph it accepts has every name
  its edges use and a path from START to END.
* `GraphNodes`: a state with messages, fields or both goes through up to three
  wrappers of any kind (`FunctionNode`, `ChainNode`, `LLMNode`, `AgentNode`, the two
  subgraph nodes) and `merge_state_update`.
* `GraphInvoke`: `frames` is the stack of loops of `invoke`, one per nested graph.
  `StreamRun` has the same graphs as generators (`gens`) that run to their next
  yield; `seen` is what the consumer got, `Drop` its going away. Its mapping
  forgets the events, and every step is one of `GraphInvoke` or a stutter.
* `Checkpointers`: `rows` of both savers in order of arrival, `held[w]` a snapshot
  that is made and not put yet; `UpdateState` reads and holds, `Put` and `PutLost`
  are what becomes of it.
* `TaskCache`: `Hit` or `Miss`, `Execute` (`ExecuteFails`), `Store` under a lock of
  its own, `Drop`, `Clear` and `Restart` between any two of them; `answered` and
  `forgotten` are the keys this process and those before it answered.

### Agents and what they use

* `RateLimit`: `Request` reads the clock, `Admit` or `Refuse` take the lock; `Tick`
  in between makes the instants in `times` late and out of order.
* `MiddlewareStack`: `request` is built once, `phase` and `at` say which hook of
  which middleware is next; `steps` are the observations the model is shown,
  `stored` what was evicted.
* `DeepAgent`: `CreateDeepAgent` is the assembly by both functions; `frames` the
  runs of agents within agents; `Ask`, `Interrupt`, `Decide`, `GiveUp` and
  `InterruptInside` the approvals; `Task` hands on.
* `DeepFiles`: writes and two-step edits through the routes; `last` is what each
  path should read. `FileTools`: the six tools, page by page, with and without a
  backend.
* `AgentTeams`: `Turn` begins, the other actions are what each kind of team does
  with it.
* `Conversation`: `ReadHistory`, `Item` / `Answered` / `Drained` and the write at
  the end are separate, with other callers in between; `Accept` and `Reject` are
  HybridRAG's validators. `ChainRuns`: `frames` are nested sequential chains; a
  value is the number of the model's answer it is.

### Data and services

* `KeyStores`: names as sequences of segments, so that joined names can meet;
  `PutBegins` to `PutEnds` holds the write lock over the embedding.
* `VectorStores`: `store` is a record of what tells the twelve apart; `table` rows
  with what is deleted and still indexed, `given` the ids callers were told.
* `Retrieval`: `Retrieve` one answer after another, `Merge` by the configured
  strategy, then filter and reranker.
* `TextSplitters`: pieces are positions of the text, the recursion of
  `split_text_recursive` is the stack `calls`, a round of the cut by characters
  `CutRound`.
* `Loading`: a source of parts through any loader, a splitter and a consumer;
  `Walk` / `Receive` are the two ends of the commit loader's channel. `Crawl`:
  `to_visit`, `visited` and the limits.
* `ModelRequests`: `name` chooses the client, `AddOptions` merges, `Generate`
  builds the request. `ModelStream`: `Receive(to)` is the next network chunk, which
  may end inside a line.

### MessageRepair and ChatMemory

`Repair` is `repair_dangling_tool_calls` on messages of a kind and a list of ids,
a recursive function that TLC evaluates. `ChatMemory` adds messages to a
`SimpleMemory` and a `WindowBufferMemory` side by side; a window of size 0 panics
at its first message (`remove(0)` of an empty vector), which is modelled.

## The runs

"States" are distinct states. Deadlock is not checked: each system stops when the
bound on its calls is used up and every call has ended.

| Run | Instance | States | What it shows |
|---|---|---|---|
| `durability` | 6 graphs of up to 3 nodes, all modes, 2 runs, max_steps 3 | 504,968 | what checkpoints hold and how schedules respect predecessors, under failures, cancellation, crashes and late puts; every run ends and every put drains; the abstract thread is implemented |
| `interrupts` | 4 graphs of 2 nodes, up to 2 interrupts in all, 2 callers, 3 calls, max_iterations 4 | 323,193 | paths, parents, saved interrupts, spent answers |
| `agent` | 1 caller with 6 batches and every decision, or 2 with 3 batches and no edits; 3 calls, free, guarded and unregistered tools, a log that cannot be read, max_iterations 2 | 514,428 | approvals, decisions, answers, interrupts and memory over calls and resumes, also where callers share memory and checkpoint; every call ends |
| `services` | 22 parts, below | 164,408 | the components around the executors |
| `routing`, `answer_misplaced`, `decision_misplaced`, `reruns_answered`, `hooks_overwrite`, `results_forgotten`, `other_ids`, `splitting_never_ends` | small | | a divergence each, below |

`MCServices` puts 22 small instances side by side. They share no state, so in each
behaviour one of them runs (`part`) and the others stay in an initial state: the
state spaces add up and do not multiply. Its properties name the part they are
about, and collect the component's own; those of the components that are proved
about are in `Services`, `Components` and `Surroundings`, where theorem and run see
the same definition.

Why the bounds are enough. *Graphs*: the named ones tell apart chain, join,
branches of different length, a node with a shortcut to it, a loop, a cycle of three
and a conditional START; the scheduler looks only at a node's predecessors. *Runs
and calls*: two runs are one run and one that resumes, forks or overlaps its late
puts; three calls are an interrupt, its resume, and a second answer or another
caller's call: one interrupts while the other finishes, or both write their turns.
Two callers in `agent` (`callers` of `MCAgentLoop`) plan a second batch only after a
resumed one, since what a batch does to the next is what one caller shows.
*max_steps 3* is met by the cycle; *max_iterations 4* by the loop.
*Interrupts*: two in a graph are two in one node or one in each. *Batches of two*
have a call before and one after the interrupted one. *Messages*: four are an AI
message with two calls, its answers, and one to push the window. *Streams*: two
levels of nesting, since a third does what the second does. *Savers*: three
snapshots of two threads by two writers overtake each other in every way that
matters to `latest`. *Rates*: limits of one and two in windows of two to four
ticks, with late instants of one. *Texts* of four characters, all of them, are
longer than a chunk with its overlap. *Retrievers*: three, of which one fails.
*Bodies* of three events are cut at every place inside and between lines. *Sites*
of three pages have every cycle; one of four has a page that a longer chain reaches
first, at the deepest level, with a link that only it has. *Loaders*: a bad part first, last and in the
middle. *Teams and deep agents*: one configuration for each branch of the code
that assembles them. Symmetry (callers) is used only where no liveness is checked.

### Properties worth a note

* `ImplementsThread` and `ImplementsInvoke` are refinements: `SuperStep` of
  `GraphThread`, `StreamRun` of `GraphInvoke`.
* `SyncDurable`, `SavedStatesAreReached`, `ExitSavesOnlyTheEnd`,
  `ParentsAreStored`: the durability modes' promises, over lost runs and late puts.
* `AnswersAreSpent`: over all nodes of a call, as many `interrupt()` calls passed
  as values were handed out; an index that does not move passes two with one.
* `CheckpointsContinueParents`: what each checkpoint adds to the one it names,
  with an `update_state` of another caller in between.
* `ApprovedToolsOnly`: a guarded tool runs only after a decision that lets it, in
  any call, whatever the double hook does with the index.
* `DecisionsSpentInOrder`, `CallsAnsweredInOrder`, `InterruptLosesNoCall`,
  `MemoryHoldsTurns`: the batch and the turn, over interrupts, edits, failures and
  the calls of others; a caller that wrote back the history it began with would lose
  another's turn.
* `LimitHolds`: the instants are read before the lock is awaited, so a list may
  hold them out of order; still one admission too many is the most there can be.
* `AnsweredTasksAreNotRepeated`: in one process, two that miss together both
  execute, one that begins after an answer does not; `ResultsOutliveRestarts` says
  the same across restarts, and is violated.
* `LinksAreFollowed` (of `SourcesAreLoaded`): each page within `max_depth` links of
  the root is come to, but for those behind a page that failed or that was first
  reached, by a longer chain, at the deepest level; what is passed over so is within
  the limits, and the exception says which pages.
* `NearestAreFound` (of `TextsAreFound`): a search is full and exact where the store
  does not refuse it (qdrant, with a namespace), but for SQLite, where each deletion
  can cost it one document. `LoadsGoOn`: a load hangs only where the sender of the
  commits waits for room on the one thread of its runtime.
* `ConversationsHold`, `DeepAgentsHold`, `GraphsHold`, `TextsAreFound`,
  `ModelsAreAskedAndHeard`, `SourcesAreLoaded`, `StoresKeepTheirWord`,
  `HooksGuard`: the safety properties of two or three components of a kind,
  each stated and explained in its own module. Where a component breaks a part of
  what one might expect, the module states what remains true, and the list below
  says what does not.
* `StreamsTellTheirRuns`: what a consumer of events may rely on, also across
  wrapped graphs and drops: brackets, chunks that make the message, updates that
  make the states.

### Fairness

`RunsEnd` and `PendingDrains` assume weak fairness of the executor's future, of
every node's future and of the spawned puts: tokio polls each until it is done,
and a node or a database that never answers is outside the crate. Nothing is
assumed of callers, cancellation or crashes. `CallsEnd` assumes weak fairness of
each call's loop: a call somebody awaits goes on as its model, tools and hooks
answer. It holds for models that do not plan nothing for ever: `PlanNothing` adds no
step and, from the second time on, changes nothing, so that fairness does not count
it as going on; a model that always answers an empty batch is asked for ever.
`SplittingEnds` assumes weak fairness of the splitter's own loop, a sequential
function; it is violated all the same.

## What is proved

For every value of the constants that satisfies the modules' assumptions (graphs
that compile, finitely many nodes, positive bounds, tools among the tools, names that
are sequences of segments, stacks of middleware).

| Theorem | States | Argument |
|---|---|---|
| `SuperStepProofs!TypeCorrect` | `TypeOK` | inductive; ready and next nodes are nodes, orderings of a set are sequences over it |
| `SuperStepProofs!CheckpointsAreReached`, `CheckpointsGrow` | `SavedStatesAreReached`, `SnapshotsGrow` | `CheckpointInv` adds that the input is a past of the state and that no checkpoint is newer than `made` or of a later run: without it a new run could find checkpoints that claim to be its own. Every action is one of four kinds of step |
| `SuperStepProofs!SyncIsDurable` | `SyncDurable` | a saved state stays saved while the state does not change |
| `SuperStepProofs!StepsAreBounded` | `StepsBounded` | `StepInv`: ready nodes are fresh, so each super-step that merges executes one more |
| `SuperStepProofs!NodesRunOnce` | `NoNodeTwice` | `OnceInv`: the nodes that are running differ and none has been executed |
| `SuperStepProofs!PredecessorsRunFirst` | `PredecessorsFirst` | `OrderInv`: a running node was sent by START or has no predecessor left; what is merged is what was ready |
| `SuperStepProofs!ForksHaveTheirParents` | `ParentsAreStored` | `ParentInv`: the run's parent is stored and its input extends it; only stored checkpoints are resumed |
| `SuperStepProofs!ExitRunsSaveTheirEnd` | `ExitSavesOnlyTheEnd` | `ExitInv`: the initial checkpoint is Sync's; the last step of a run is the only one that adds |
| `SuperStepProofs!ExecutorImplementsThread` | `ImplementsThread` | initial states map to initial states, every action to a step of the thread or a stutter, from the invariants above |
| `InterruptRunProofs!TypeCorrect` | `TypeOK` | with `NodeExecutes`: only a node of the graph is ever executing, asking or saved as next |
| `InterruptRunProofs!IterationsAreBounded` | `IterationsBounded` | START has taken an iteration before the first node, and merged nodes are behind the iterations |
| `InterruptRunProofs!InterruptsAreKept` | `InterruptsAreSaved` | histories only grow, and an interrupted call does not move |
| `InterruptRunProofs!CallsFollowEdges` | `RunsFollowEdges` | `Paths`: what is merged is a path of first edges, and where the call is going is ahead of its last node |
| `InterruptRunProofs!CheckpointsHaveTheirParents` | `CheckpointsContinueParents` | `Bases` (each call's input is somebody's checkpoint, or empty) and `Continues` for each stored one, which no later put can undo |
| `InterruptRunProofs!ValuesAreSpent` | `AnswersAreSpent` | `Answered` for every call, also an idle one: the sum over the merged nodes is a recursive function, and each step that merges adds one node to it |
| `ComponentProofs!HistoriesAreRepaired` | `RepairAnswersCalls` | from `MessageRepairProofs`: what `Repair` makes from any message on answers its calls, by induction from the last message back; `WindowCorrect` says what it is given |
| `ComponentProofs!WindowCorrect` | `TypeOK`, `WindowIsSuffix` | the last n messages lose their first when one is added |
| `ComponentProofs!GraphsCorrect` | `GraphsHold` | `BuildsHold`: `has_path_to_end` keeps what any search keeps, the edges of the nodes it has seen lead to nodes it has seen or has still to look at, and it has seen nothing that START does not reach. `NodesHold`: every message is a number not given before, so the newest is the greatest, and what a node is asked ends in the greatest there was before its own |
| `ComponentProofs!ConversationsCorrect` | `ConversationsHold` | `ChatsHold`: a call has added one turn for each try that was answered, no two calls add under one number, and no message of a call is of a later try than it is at; so it makes no difference where others add theirs between its question and its answer |
| `ComponentProofs!DeepAgentsCorrect` | `DeepAgentsHold` | `DeepHolds`: a run is of the main agent or of a helper that it has handed a task to, and a step that waits has been approved or needs no approval. `FilesHold`: a backend has a file under what is left of a path when its prefix is taken off, and the path goes through that backend. `ToolsHold`: the pages read so far are a beginning of the file, for a write forgets them; replacing keeps the number of lines |
| `SurroundingProofs!SourcesCorrect` | `SourcesAreLoaded` | `CrawlHolds`: what was visited has failed or is a document, once, and a link of a document above the deepest level was visited, is excluded, or is on the stack still; nothing on the stack is too deep. Along a chain of links within the depth, by induction on its length: a page that was come to was loaded above the deepest level, and its links were come to too, or it leads nowhere. `LoadHolds`: the documents come from the parts up to some part and what is read and not yielded from those after it, in order; a part that makes a document is in one of the two or an error tells, and a stream that ends early ends by an error at the next part |
| `SurroundingProofs!HooksCorrect` | `HooksGuard` | `HooksHold`: a notice names a key that holds what was evicted at its step, which no later step has; only the newest step can have a secret, while the hook that redacts or blocks it is still to come, and an answer behind the judging hook is the refusal or the one it judged |
| `SurroundingProofs!StoresCorrect` | `StoresKeepTheirWord` | `StoresHold`: the ids that were returned, and those a batch has been told and not returned yet, are of rows with their documents, differ from each other and are less than the next; it claims so of stores that return the ids of their rows and write a batch row by row. `KeyedHolds`: an item lies where the name it was put with leads, and what a search took in hand is still what it would find, for it holds the read lock across its await |
| `AgentLoopProofs!HumansHaveTheirSay` | `ApprovedToolsOnly` | `Inv`: a call whose tool may run has been decided if guarded, every decision at its turn so far lets it, and planned or pending calls have none, also those that come back from the checkpointer |
| `AgentLoopProofs!AnswersFollowRequests` | `CallsAnsweredInOrder` | `Ordered`: what was answered since the call began, followed by the rest of its batch, is what is due, in order |
| `AgentLoopProofs!TypeCorrect` | `TypeOK` | `Typed`, with the invariants of the other theorems: a call at a hook or a tool has a call of its batch left, and the decisions it has taken are not more than it was given |
| `AgentLoopProofs!InterruptsKeepCalls` | `InterruptLosesNoCall` | `BatchesAreWhole`: the steps a batch has logged, followed by what is left of it, have every id that was planned, in the run and in what it saved |
| `AgentLoopProofs!DecisionsAreSpentOnce` | `DecisionsSpentInOrder` | `AllSpent`: the decisions of the steps since the resume, followed by those of the call at its turn, are the first `taken` ones |
| `AgentLoopProofs!TurnsAreRemembered` | `MemoryHoldsTurns` | `TurnsAreKept`: other turns are only put behind the ones that are there, and a call that has ended does not move |
| `ServiceProofs!AnswersAreReused` | `AnsweredTasksAreNotRepeated` | `CacheHolds`: what was answered, and not cleared since, is stored |
| `ServiceProofs!LimitsHold` | `LimitHolds` | `LimitInv`: the admissions are in order, and all that are within the first window of a hook still to come, which may have read its clock `MaxLag` before, are on the list in their order. Needs the windows in the order in which the code tests them, the shortest first (`WindowsGrow`) |
| `ServiceProofs!SavedStatesAreRead` | `HistoriesHold` | `SaverInv`: also a snapshot that is held back continues a stored one, and no two have one instant |
| `ServiceProofs!StreamingIsInvoking` | `ImplementsInvoke` | `StreamInv`: every generator is one whose said chunks are an answer. Its frame forgets the chunks; a chunk is a stutter, the end of the node a step that says what they said, the end of a polled stream a return |
| `ServiceProofs!StreamsAreTold` | `StreamsTellTheirRuns` | `TellInv`: the starts with no end are those of the pollers that are heard and of the node at its body (`Bracketed`); since the last start of a model's node there are only chunks, and they are what it has said (`Chunked`); the updates make the state of the outermost graph (`Updated`, when wrapped graphs are silent). Every step is one of six effects on the events, the pollers and the generator on top, or an end. Needs that the node around a graph has no model |

What the recursive functions of the model compute for every input is proved by
induction over a set of numbers, with the library's `NatSetInduction`: the set of
the n for which the claim holds has 0 and with n also n + 1. `SequenceFacts` does it
once for each kind of fold the model uses (`FlattenSeq`, a selection, a sum);
`FoldLeft`, `SelectSeq` and `SortSeq` of the libraries are recursive operators, or
ones the provers cannot expand, so what is proved about is written with
`FlattenSeq` or a function.

Only model-checked: the liveness properties and everything under fairness (out of
the prover's reach), and the components of `services` but for the memory, the
repair, the task cache, the rate limit, the checkpointers, the streams, the
building and the nodes of graphs, the conversations, the deep agent with its
files and file tools, the crawlers and loaders, the stores and the hooks. Of the
loaders, that a load goes on until it ends (`LoadsGoOn`, in `TextsAreFound`) stays
with TLC too: it says what is enabled. So do that a vector store finds the nearest
(`NearestAreFound`), which sorts, and that a history reaches the model through the
hooks (`HistoryReachesTheModel`), a `FoldLeft` over the stack. The components left,
requests and streams, teams, chains, retrievers and splitters, are mostly functions
of their input, checked over bounded inputs, and `TypesOK` collects the types of all.

## Where the code does not do what it says

Each is a run with one violated property; the findings quote the lines.

* `routing`: both targets of a conditional edge run; `get_ready_nodes` looks at
  predecessors, not at the route taken (`execution/scheduler.rs:34`).
* `answer_misplaced`: a resume starts the graph over from START with one value,
  which the first `interrupt()` takes, also if it is another node's
  (`compiled.rs:1052`).
* `decision_misplaced`: the human-in-the-loop hook is called twice for each tool
  call (`executor.rs:295`), so an approved call takes the next one's decision too.
* `reruns_answered`: an interrupt saves the whole batch as pending with the steps
  already taken (`executor.rs:524`); resuming runs them again.
* `hooks_overwrite`: the request of the `before_agent_plan` hooks is built once,
  so each hook replaces what the one before it returned (`executor.rs:403`).
* `results_forgotten`: a resumed run takes its task cache from the checkpoint's
  `task_results`, which nothing writes (`task/cache.rs:95`), so answered tasks are
  executed again.
* `other_ids`: qdrant's `add_documents` returns ids drawn anew, not those of the
  points it stored (`qdrant.rs:51`).
* `splitting_never_ends`: with an overlap, the cut by characters never reaches the
  end of a large part (`character_splitter.rs:196`).

Seen while modelling, and no run of their own.

Graphs:

* Async checkpoints arrive in any order (`execution/durability.rs:71`), while
  `list` promises chronological order (`persistence/checkpointer.rs:35`);
  SQLite's `list` with a limit keeps the oldest (`sqlite.rs:272`).
* A checkpoint's `next` names the routed targets, not what `get_ready_nodes` runs
  next (`scheduler.rs:88`); one edge to END ends the run although other branches
  have successors (`superstep.rs:183`); START routed to END alone is "stuck"
  (`superstep.rs:113`); a loop's second round is never ready (`scheduler.rs:88`).
* Resuming a super-step run starts with no executed nodes (`superstep.rs:70`);
  `Command::Goto`'s node is not read (`compiled.rs:988`); of several edges only
  the first is followed (`compiled.rs:1090`); a call that finishes leaves no
  checkpoint in the interrupt executor (`compiled.rs:1167`); `interrupt()` outside
  a context panics (`interrupts/mod.rs:57`).
* `merge_messages_state_update` rebuilds a state from its messages: outputs of
  chain and agent nodes are lost in graphs with messages, other fields go back to
  their defaults or fail; an update with one message that does not parse is
  dropped whole. A subgraph node returns its whole final state, so the caller's
  messages are repeated. `invoke` gives function nodes neither config nor store.
* A stream's nested path repeats its node (`compiled.rs:428`); errors show in
  Debug mode only.

Agents:

* The repaired history is inserted in a copy of the input that is replaced before
  the first plan (`executor.rs:396`); repair counts the answers after a call and
  does not compare ids (`message_repair.rs:43`).
* `RateLimit`: a minute's limit never bites beside a second's; the hook counts
  twice. Retry's `2^retry_count` overflows and `should_retry` is read by nobody.
* PII redaction keeps only the first word of an input and does not look at the
  history; results of actions without `LogTools` are all evicted to one key;
  summarization may part a tool call from its answer; the choices of the dynamic
  tool and model middleware never reach the agent; `chain.rs` is used nowhere.
* `invoke_with_context` ignores its context; `HandoffTool` sets a state that
  `HandoffAgent` never reads; an unknown subagent id goes to the first one;
  `interrupt_on` of a subagent is read by nobody; an interrupt inside the
  general-purpose helper becomes the text of an error; its `write_todos`
  overwrites the main agent's list; skills that fail to load only warn.
* Deep files: `grep` without a path searches the default backend only; a routed
  store's root lists nothing; the prefix "/memories/" that
  `deep_agent/config.rs:84` gives as an example never matches. `edit_file` without
  a backend replaces every occurrence, with one it wants exactly one and leaves
  earlier replacements written when a later one fails.

Chains and data:

* `LLMChain::invoke` skips the output parser that `call` applies; outputs of a
  nested sequential chain are lost to the outer but for the last; the SQL chain's
  second call is missing from the tokens; the default `Chain::stream` panics;
  HybridRAG's chain retrieves again, so the validated documents are not the ones
  answered from, and rejected answers stay in the memory.
* Retrievers: a key repeated in one answer votes twice (`ensemble_retriever.rs:15`);
  `top_k` 0 returns a document; documents are told apart by their first 100 bytes.
* Splitters: chunks with an overlap exceed the size, recursive overlaps apply
  twice, slices assume characters of one byte.
* Crawlers: a global `visited` with a depth-first stack misses pages within reach
  (`recursive_url_loader.rs:21`), and failed pages count for the limit. Loaders:
  the commit loader waits for ever on a runtime of one thread, once there are more
  commits than its channel holds; JSONL drops what is
  behind a bad line; pandoc's status is ignored; the source code loader panics.
* Models: strict clients parse each network chunk alone, so a cut line is an
  error, or (Hugging Face) ignored; only the first text of a chunk is yielded;
  Claude is sent the first system message only; calls and ids go to OpenAI alone;
  Ollama ignores its options; Bedrock's and other names with a colon go to Ollama;
  an answer without choices is an empty text for some, an error for others.
* Vector stores: qdrant takes documents with a namespace and refuses to search one
  (`qdrant.rs:91`); pgvector orders by distance descending; SQLite's delete leaves
  the index, so searches come short; opensearch returns three whatever is asked;
  surrealdb deletes nothing; four ignore the threshold. Key stores join namespace
  and key with ":", so that names can meet; the empty namespace is "default".

## What is abstracted, and what is not modelled

* A graph's state is a list of messages, one per node, in the executors;
  `GraphNodes` has the other shapes. Time is the order of events, or ticks;
  checkpoint ids and `created_at` are numbers, and no two instants are equal.
* Nodes, models, tools and services answer, fail, or (nodes) ask; what they compute
  is left out. A model plans any of the batches given, a human answers with any
  decisions. A service makes a write visible at once.
* `AgentLoop` has one middleware with decisions; the hooks that only rewrite are
  `MiddlewareStack`'s, and any hook may fail. Only agents that log `LogTools`, and
  executors with a memory, are modelled. A call with messages and no "input" key,
  which panics when the turn is written (`executor.rs:717`), is not.
* In repair, an AI message's ids are all there (a call without an id is not told
  apart).
* `PromptTemplate::format` replaces variables one after another in the order of a
  `HashMap`, which the chains' model leaves out.
* Not modelled: the `astream_*` variants, the custom events of `StreamWriter` and
  the drawing of graphs; the retry middleware; the placeholder wait of
  `before_finish`; filters by metadata and the creation of indexes; the splitters
  that hand the text to a library; retrievers that score texts. The agents'
  flavours build prompts and parse answers, which the loop takes as any batch. The
  semantic router is arithmetic on reals. Embeddings are one HTTP call each.
  Prompts, parsers, schemas and errors are formatting without control. The
  architecture test checks imports.

## Plan

Done: the modules, runs and theorems above. Left, in this order:

1. Theorems about more of the services: the text splitters (`ChunksKeepTheText`),
   the stores (`ReturnedIdsAreStored`, `NamesAreKeptApart`), the hooks that rewrite.
2. A proof that an edit of any number of replacements spares the other lines; the
   tool, and the theorem, have at most two.
3. The retry middleware, `StreamWriter`, and the `astream_*` variants.
4. The composition of a graph's node with an agent's loop: an agent's interrupt
   inside a graph's.

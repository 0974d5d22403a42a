------------------------------ MODULE SuperStep ------------------------------
(***************************************************************************)
(* CompiledGraph::invoke_with_config_and_mode on one thread_id: the        *)
(* SuperStepExecutor, its parallel nodes, the three durability modes, the  *)
(* checkpointer it writes to, and a process that may die at any await.     *)
(*                                                                         *)
(* The graph's state is the sequence of the nodes whose update has been    *)
(* merged (every node appends one message).  A checkpoint is known by the  *)
(* order of its created_at, its position in history is its arrival.        *)
(***************************************************************************)
EXTENDS NodeScheduler, SequencesExt

CONSTANTS
  Graphs,     \* the compiled graphs to run
  Modes,      \* the durability modes a caller may ask for
  MaxSteps,   \* max_steps, 1000 in the code
  MaxRuns     \* bound: invocations on the thread

ASSUME SuperStepAssumption ==
  /\ \A g \in Graphs : Compiled(g)
  /\ Modes \subseteq {"Sync", "Async", "Exit"}
  /\ MaxSteps \in Nat \ {0}
  /\ MaxRuns \in Nat

VARIABLES
  graph,      \* the compiled graph
  pc,         \* where execute() is
  err,        \* why the last run failed
  mode,       \* durability_mode of the run
  parent,     \* parent_config: the checkpoint resumed from, 0 if none
  base,       \* initial_state of the run
  run,        \* number of the run
  values,     \* current_state
  executed,   \* executed_nodes
  ready,      \* ready_nodes of this super-step, in merge order
  result,     \* what the nodes' futures returned so far
  route,      \* what the edges answer at current_state
  step,       \* step
  history,    \* the checkpointer's list for the thread, oldest arrival first
  pending,    \* checkpoints handed to tokio::spawn and not yet put
  made        \* number of checkpoints created so far

run_vars   == <<mode, parent, base, run>>
loop_vars  == <<values, executed, ready, result, route, step>>
store_vars == <<history, pending, made>>
vars == <<graph, pc, err, run_vars, loop_vars, store_vars>>

Failures == {"none", "max_steps", "stuck", "condition", "node", "checkpoint"}
Places   == {"idle", "initial", "schedule", "running", "save", "check", "exit",
             "done", "failed"}

Snapshot == [id : Nat, values : Seq(Node), next : SUBSET (Node \cup {Start}),
             parent : Nat, run : Nat]

\* Fault: the snapshot is taken of the run's input.
SnapshotOfInput(next) ==
  [id |-> made + 1, values |-> base, next |-> next, parent |-> parent, run |-> run]

\* StateSnapshot::new, with_metadata and with_parent at current_state.
NewSnapshot(next) ==
  [id |-> made + 1, values |-> values, next |-> next, parent |-> parent, run |-> run]

Stored  == ToSet(history)
Running == pc \notin {"idle", "done", "failed"}

-------------------------------------------------------------------------------
Init ==
  /\ graph \in Graphs
  /\ pc = "idle" /\ err = "none"
  /\ mode = "Sync" /\ parent = 0 /\ base = <<>> /\ run = 0
  /\ values = <<>> /\ executed = {} /\ ready = <<>> /\ step = 0
  /\ result = [n \in Node |-> "none"]
  /\ route \in Routes(graph)
  /\ history = <<>> /\ pending = {} /\ made = 0

\* Fault: Exit writes the initial checkpoint too.
StartsAtUnlessAsync(m) == IF m # "Async" THEN "initial" ELSE "schedule"

\* "Save initial checkpoint (only for Sync mode ...)".
StartsAt(m) == IF m = "Sync" THEN "initial" ELSE "schedule"

\* execute() from its first line; only Sync writes before the first super-step.
Begin(m, from, input) ==
  /\ ~Running
  /\ run < MaxRuns
  /\ run' = run + 1
  /\ mode' = m /\ parent' = from /\ base' = input
  /\ values' = input /\ executed' = {} /\ ready' = <<>> /\ step' = 0
  /\ result' = [n \in Node |-> "none"]
  /\ route' \in Routes(graph)
  /\ pc' = StartsAt(m)
  /\ err' = "none"
  /\ UNCHANGED <<graph, store_vars>>

\* invoke_with_config_and_mode(Some(state)) without a checkpoint_id.
Invoke(m) == Begin(m, 0, <<>>)

\* Fault: the fork is recorded under the thread's latest checkpoint.
ResumeNamesLatest(m, i) == Begin(m, Last(history).id, history[i].values)

\* ... with the checkpoint_id of a stored checkpoint (time travel, resume).
Resume(m, i) == Begin(m, history[i].id, history[i].values)

Fail(why) ==
  /\ pc' = "failed" /\ err' = why

\* Checkpointer::put answers Ok: the checkpoint is the thread's last.
Put(snapshot) ==
  /\ history' = Append(history, snapshot)
  /\ made' = made + 1
  /\ UNCHANGED pending

PutFails ==
  /\ made' = made + 1
  /\ UNCHANGED <<history, pending>>

SaveInitial ==
  /\ pc = "initial"
  /\ \/ /\ Put(NewSnapshot({Start}))
        /\ pc' = "schedule" /\ UNCHANGED err
     \/ /\ PutFails
        /\ Fail("checkpoint")
  /\ UNCHANGED <<graph, run_vars, loop_vars>>

-------------------------------------------------------------------------------
\* The head of the loop.
StepLimit ==
  /\ pc = "schedule"
  /\ step >= MaxSteps
  /\ Fail("max_steps")
  /\ UNCHANGED <<graph, run_vars, loop_vars, store_vars>>

EnterStep ==
  /\ pc = "schedule"
  /\ step < MaxSteps
  /\ step' = step + 1
  /\ UNCHANGED <<graph, run_vars, values, executed, route, store_vars>>

\* get_ready_nodes evaluates START's edges on the first super-step only.
StartFails == executed = {} /\ NoRoute \in StartTargets(graph, route)

StartRouteFails ==
  /\ EnterStep
  /\ StartFails
  /\ Fail("condition")
  /\ UNCHANGED <<ready, result>>

NothingReady ==
  /\ EnterStep
  /\ ~StartFails
  /\ GetReadyNodes(graph, route, executed) = {}
  /\ \/ /\ IsComplete(graph, route, executed, "yes")
        /\ pc' = "exit" /\ UNCHANGED err
     \/ /\ IsComplete(graph, route, executed, "no")
        /\ Fail("stuck")
     \/ /\ IsComplete(graph, route, executed, "error")
        /\ Fail("condition")
  /\ UNCHANGED <<ready, result>>

\* execute_nodes_parallel: every node gets its own clone of current_state.
StartNodes ==
  /\ EnterStep
  /\ ~StartFails
  /\ GetReadyNodes(graph, route, executed) # {}
  /\ ready' \in SetToSeqs(GetReadyNodes(graph, route, executed))
  /\ result' = [n \in Node |-> "none"]
  /\ pc' = "running" /\ UNCHANGED err

NodeReturns(n) ==
  /\ pc = "running"
  /\ n \in ToSet(ready)
  /\ result[n] = "none"
  /\ \E answer \in {"ok", "err"} : result' = [result EXCEPT ![n] = answer]
  /\ UNCHANGED <<graph, pc, err, run_vars, values, executed, ready, route, step, store_vars>>

\* Fault: the join waits for successes only.
JoinedSuccesses == pc = "running" /\ \A n \in ToSet(ready) : result[n] = "ok"

\* join_all has every answer; the first error in order ends the run.
Joined == pc = "running" /\ \A n \in ToSet(ready) : result[n] # "none"

NodesFail ==
  /\ Joined
  /\ \E n \in ToSet(ready) : result[n] = "err"
  /\ Fail("node")
  /\ UNCHANGED <<graph, run_vars, loop_vars, store_vars>>

\* Fault: updates go before the state's messages.
MergePrepends(state, updates) == updates \o state

\* merge_state_updates: the nodes' messages, appended in the order of ready_nodes.
MergeStateUpdates(state, updates) == state \o updates

\* executed_nodes and current_state; the new state re-decides the routes.
MergeUpdates ==
  /\ Joined
  /\ \A n \in ToSet(ready) : result[n] = "ok"
  /\ executed' = executed \cup ToSet(ready)
  /\ values' = MergeStateUpdates(values, ready)
  /\ route' \in Routes(graph)
  /\ pc' = "save"
  /\ UNCHANGED <<graph, err, run_vars, ready, result, step, store_vars>>
-------------------------------------------------------------------------------
\* After a super-step: get_next_nodes, then save_checkpoint by mode.
NextFails == NoRoute \in NextTargets(graph, route, ToSet(ready))

SaveRouteFails ==
  /\ pc = "save"
  /\ NextFails
  /\ Fail("condition")
  /\ UNCHANGED <<graph, run_vars, loop_vars, store_vars>>

SaveStep ==
  /\ pc = "save"
  /\ ~NextFails
  /\ LET snapshot == NewSnapshot(GetNextNodes(graph, route, ToSet(ready)))
     IN  \/ /\ mode = "Sync"
            /\ Put(snapshot)
            /\ pc' = "check" /\ UNCHANGED err
         \/ /\ mode = "Sync"
            /\ PutFails
            /\ Fail("checkpoint")
         \/ /\ mode = "Async"
            /\ pending' = pending \cup {snapshot}
            /\ made' = made + 1
            /\ pc' = "check" /\ UNCHANGED <<err, history>>
         \/ /\ mode = "Exit"
            /\ made' = made + 1
            /\ pc' = "check" /\ UNCHANGED <<err, history, pending>>
  /\ UNCHANGED <<graph, run_vars, loop_vars>>

\* is_complete(ready): one edge to END ends the run.
CheckComplete ==
  /\ pc = "check"
  /\ \/ /\ IsComplete(graph, route, ToSet(ready), "yes")
        /\ pc' = "exit"
     \/ /\ IsComplete(graph, route, ToSet(ready), "no")
        /\ pc' = "schedule"
  /\ UNCHANGED <<graph, err, run_vars, loop_vars, store_vars>>

\* After the loop: the only checkpoint of an Exit run.
Return ==
  /\ pc = "exit"
  /\ \/ /\ mode # "Exit"
        /\ pc' = "done"
        /\ UNCHANGED <<err, store_vars>>
     \/ /\ mode = "Exit"
        /\ Put(NewSnapshot({}))
        /\ pc' = "done" /\ UNCHANGED err
     \/ /\ mode = "Exit"
        /\ PutFails
        /\ Fail("checkpoint")
  /\ UNCHANGED <<graph, run_vars, loop_vars>>

\* Fault: the spawned puts are only driven once the run has returned.
BackgroundPutWhenDone(snapshot) ==
  /\ pc = "done"
  /\ pending' = pending \ {snapshot}
  /\ \/ history' = Append(history, snapshot)
     \/ UNCHANGED history
  /\ UNCHANGED <<graph, pc, err, run_vars, loop_vars, made>>

\* A spawned put, on its own task; its failure is only logged.
BackgroundPut(snapshot) ==
  /\ pending' = pending \ {snapshot}
  /\ \/ history' = Append(history, snapshot)
     \/ UNCHANGED history
  /\ UNCHANGED <<graph, pc, err, run_vars, loop_vars, made>>

(***************************************************************************)
(* The run is gone at whatever await it was: its caller dropped the future *)
(* (a timeout, a select!), and the spawned tasks go on; or the process     *)
(* died with them, and the database stays.                                 *)
(***************************************************************************)
RunDropped ==
  /\ pc' = "idle" /\ err' = "none"
  /\ mode' = "Sync" /\ parent' = 0 /\ base' = <<>>
  /\ values' = <<>> /\ executed' = {} /\ ready' = <<>> /\ step' = 0
  /\ result' = [n \in Node |-> "none"]
  /\ UNCHANGED <<graph, run, route, history, made>>

Cancel ==
  /\ Running
  /\ RunDropped
  /\ UNCHANGED pending

Crash ==
  /\ pc # "idle"
  /\ RunDropped
  /\ pending' = {}
-------------------------------------------------------------------------------
Executor ==
  \/ SaveInitial \/ StepLimit \/ StartRouteFails \/ NothingReady \/ StartNodes
  \/ NodesFail \/ MergeUpdates \/ SaveRouteFails \/ SaveStep \/ CheckComplete \/ Return

Next ==
  \/ \E m \in Modes : Invoke(m)
  \/ \E m \in Modes, i \in DOMAIN history : Resume(m, i)
  \/ Executor
  \/ \E n \in Node : NodeReturns(n)
  \/ \E snapshot \in pending : BackgroundPut(snapshot)
  \/ Cancel
  \/ Crash

Spec == Init /\ [][Next]_vars

(***************************************************************************)
(* The runtime keeps polling the executor's future, every node's future    *)
(* and every spawned task; callers need not call, processes need not die.  *)
(***************************************************************************)
Fairness ==
  /\ WF_vars(Executor)
  /\ \A n \in Node : WF_vars(NodeReturns(n))
  /\ WF_vars(\E snapshot \in pending : BackgroundPut(snapshot))

FairSpec == Spec /\ Fairness
-------------------------------------------------------------------------------
TypeOK ==
  /\ graph \in Graphs
  /\ pc \in Places /\ err \in Failures
  /\ mode \in {"Sync", "Async", "Exit"}
  /\ parent \in Nat /\ base \in Seq(Node) /\ run \in 0..MaxRuns
  /\ values \in Seq(Node) /\ executed \in SUBSET Node
  /\ ready \in Seq(Node)
  /\ result \in [Node -> {"none", "ok", "err"}]
  /\ route \in Routes(graph)
  /\ step \in 0..MaxSteps
  /\ history \in Seq(Snapshot) /\ pending \in SUBSET Snapshot
  /\ made \in Nat

\* The checkpoints the current run has made and not lost.
OfThisRun(s) == s.run = run

(***************************************************************************)
(* Durability of Sync ("Checkpoints are saved before the next step         *)
(* starts", durability.rs:27): outside the window between a merge and its  *)
(* put, the state the executor holds can be read back from the             *)
(* checkpointer, whatever failed or died since.                            *)
(***************************************************************************)
SyncDurable ==
  mode = "Sync" /\ (\/ pc \in {"schedule", "running", "check", "exit", "done"}
                    \/ pc = "failed" /\ err \in {"node", "stuck", "max_steps"})
    => \E s \in Stored : OfThisRun(s) /\ s.values = values

(***************************************************************************)
(* Nothing half done is ever saved: every checkpoint of the run, landed or *)
(* still in flight, extends the run's input and is a past of its state;    *)
(* and later checkpoints extend earlier ones, in whatever order they land. *)
(***************************************************************************)
SavedStatesAreReached ==
  \A s \in Stored \cup pending : OfThisRun(s) /\ pc # "idle" =>
    IsPrefix(base, s.values) /\ IsPrefix(s.values, values)

SnapshotsGrow ==
  \A s, t \in Stored \cup pending :
    s.run = t.run /\ s.id < t.id => IsPrefix(s.values, t.values)

(***************************************************************************)
(* A run merges each node at most once, and what it merged is what it      *)
(* marked executed: a node cannot append its message twice.                *)
(***************************************************************************)
Merged == SubSeq(values, Len(base) + 1, Len(values))

NoNodeTwice ==
  /\ IsInjective(Merged)
  /\ ToSet(Merged) = executed

(***************************************************************************)
(* "All its predecessor nodes have been executed" (scheduler.rs:55): what  *)
(* a node merged is preceded, in the same run, by every predecessor it     *)
(* has, unless START sent the run to it directly.                          *)
(***************************************************************************)
StartedByStart(n) == \E e \in EdgesFrom(graph, {Start}) : n \in e.targets

PredecessorsFirst ==
  \A i \in DOMAIN Merged :
    \/ StartedByStart(Merged[i])
    \/ \A p \in Predecessors(graph, Merged[i]) : \E j \in 1..(i - 1) : Merged[j] = p

(***************************************************************************)
(* max_steps ("Prevent infinite loops", superstep.rs:72) can only stop a   *)
(* run that executed max_steps different nodes: no loop ever reaches it.   *)
(***************************************************************************)
StepsBounded ==
  /\ step <= Cardinality(executed) + 1
  /\ err = "max_steps" => MaxSteps <= Cardinality(executed)

(***************************************************************************)
(* Exit saves the run's end and nothing else: a run that failed or died    *)
(* leaves no checkpoint, one that returned leaves exactly its final state. *)
(***************************************************************************)
ExitSavesOnlyTheEnd ==
  mode = "Exit" /\ pc # "idle" =>
    LET mine == {s \in Stored \cup pending : OfThisRun(s)}
    IN  IF pc = "done"
        THEN \E s \in Stored : mine = {s} /\ s.values = values
        ELSE mine = {}

(***************************************************************************)
(* Forks: a checkpoint that names a parent was made after it, from a run   *)
(* that began with the parent's values, and the parent is still stored.    *)
(***************************************************************************)
ParentsAreStored ==
  \A s \in Stored \cup pending : s.parent # 0 =>
    \E t \in Stored : /\ t.id = s.parent /\ t.id < s.id
                      /\ IsPrefix(t.values, s.values)

(***************************************************************************)
(* Every run comes to an end: it returns, it fails, or the process dies,   *)
(* whatever the graph, its conditions and its nodes do.                    *)
(***************************************************************************)
RunsEnd == Running ~> ~Running

\* Every checkpoint given to a background task is put, refused or lost.
PendingDrains == pending # {} ~> pending = {}

-------------------------------------------------------------------------------
(***************************************************************************)
(* The executor, in every durability mode, is an implementation of a       *)
(* checkpointed thread: the super-steps, the parallel nodes, the ids and   *)
(* the order of arrival are its own affair.                                *)
(***************************************************************************)
Points(snapshots) == {[run |-> s.run, values |-> s.values] : s \in snapshots}

Thread == INSTANCE GraphThread WITH
            Message <- Node, live <- Running, input <- base, state <- values,
            durable <- Points(Stored), flight <- Points(pending)

ImplementsThread == Thread!Spec

-------------------------------------------------------------------------------
(***************************************************************************)
(* What the repository says of these runs and the code does not do.        *)
(***************************************************************************)

\* "Dynamic routing based on state" (edge.rs:16): a node runs only when an edge
\* routed to it; Sync checkpoints name every routed node in next.
RoutedNodesOnly ==
  mode = "Sync" /\ pc = "running" /\ step > 1 =>
    \A n \in ToSet(ready) : \E s \in Stored : OfThisRun(s) /\ n \in s.next
===============================================================================

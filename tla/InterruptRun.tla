---------------------------- MODULE InterruptRun ----------------------------
(***************************************************************************)
(* The sequential executor of CompiledGraph (invoke, and                   *)
(* execute_with_interrupt_support behind invoke_with_config and            *)
(* invoke_with_config_interrupt), with interrupt(), Command and            *)
(* update_state, for several callers of one thread_id.                     *)
(*                                                                         *)
(* It follows the first edge added to a node and no other.  A node calls   *)
(* interrupt() asks[n] times and then appends its message.  An interrupt,  *)
(* and the value a caller answers it with, is known by its node and index. *)
(***************************************************************************)
EXTENDS StateGraph, SequencesExt

CONSTANTS
  Graphs,          \* the compiled graphs to run
  Asks,            \* how often each node may call interrupt()
  Caller,          \* the tasks that call the graph on the thread
  MaxIterations,   \* max_iterations, 1000 in the code
  MaxCalls         \* bound: calls on the thread

ASSUME InterruptAssumption ==
  /\ \A g \in Graphs : Compiled(g)
  /\ Asks \subseteq [Node -> Nat]
  /\ MaxIterations \in Nat \ {0}
  /\ MaxCalls \in Nat

VARIABLES
  graph,     \* the compiled graph
  first,     \* edges[0] of every node with edges
  asks,      \* the interrupt() calls of each node
  run,       \* each caller's call
  history,   \* the checkpointer's list for the thread
  calls,     \* calls made
  made       \* checkpoints created

thread == <<history, made>>
vars == <<graph, first, asks, run, history, calls, made>>

Sources(g) == {e.from : e \in g}
FirstEdges(g) == {f \in [Sources(g) -> g] : \A n \in Sources(g) : f[n].from = n}

Interrupt   == [node : Node \cup {Start, End}, index : Nat]
NoInterrupt == [node |-> End, index |-> 0]

Places == {"idle", "loop", "executing", "route", "saving", "updating",
           "done", "updated", "interrupted", "failed", "panicked"}

Run == [pc : Places, scoped : BOOLEAN, call : Nat,
        node : Node \cup {Start, End},
        values : Seq(Node), base : Seq(Node), parent : Nat,
        iterations : Nat, asked : Nat, answers : Seq(Interrupt),
        given : Seq([value : Interrupt, at : Interrupt]), raised : Interrupt]

Snapshot == [id : Nat, call : Nat, kind : {"interrupt", "update"},
             values : Seq(Node), next : Node, parent : Nat]

\* A call that has done nothing yet.
NewRun(pc, call, scoped, node, values, parent, answers, raised) ==
  [pc |-> pc, scoped |-> scoped, call |-> call, node |-> node,
   values |-> values, base |-> values, parent |-> parent, iterations |-> 0, asked |-> 0,
   answers |-> answers, given |-> <<>>, raised |-> raised]

Init ==
  /\ graph \in Graphs
  /\ first \in FirstEdges(graph)
  /\ asks \in Asks
  /\ run = [c \in Caller |->
                NewRun("idle", 0, FALSE, Start, <<>>, 0, <<>>, NoInterrupt)]
  /\ history = <<>> /\ calls = 0 /\ made = 0

Active(c) == run[c].pc \in {"loop", "executing", "route", "saving", "updating"}

At(c, pc) == run[c].pc = pc

Becomes(c, r) == run' = [run EXCEPT ![c] = r]

\* To another place of the same call.
Goes(c, pc) ==
  /\ Becomes(c, [run[c] EXCEPT !.pc = pc])
  /\ UNCHANGED <<graph, first, asks, thread, calls>>
-------------------------------------------------------------------------------
\* A call begins at START, whatever it continues; a context has an empty index.
Call(c, scoped, parent, values, answers) ==
  /\ ~Active(c)
  /\ calls < MaxCalls
  /\ calls' = calls + 1
  /\ Becomes(c, NewRun("loop", calls + 1, scoped, Start, values, parent, answers,
                       run[c].raised))
  /\ UNCHANGED <<graph, first, asks, thread>>

\* invoke(state): no checkpointer, and no interrupt context.
Invoke(c) == Call(c, FALSE, 0, <<>>, <<>>)

InvokeState(c) == Call(c, TRUE, 0, <<>>, <<>>)

\* A state with a checkpoint_id: the checkpoint's values replace it.
InvokeFork(c, i) == Call(c, TRUE, history[i].id, history[i].values, <<>>)

\* Command::Resume answers the interrupt this caller was last returned.
InvokeResume(c) ==
  /\ run[c].raised # NoInterrupt
  /\ history # <<>>
  /\ Call(c, TRUE, Last(history).id, Last(history).values, <<run[c].raised>>)

\* Command::Goto: its node is read nowhere.
InvokeGoto(c) ==
  /\ history # <<>>
  /\ Call(c, TRUE, Last(history).id, Last(history).values, <<>>)

-------------------------------------------------------------------------------
\* "if iterations >= max_iterations" does not hold.
WithinLimit(c) == run[c].iterations < MaxIterations

IterationLimit(c) ==
  /\ At(c, "loop") /\ ~WithinLimit(c)
  /\ Goes(c, "failed")

Iterate(c, pc, node) ==
  /\ At(c, "loop") /\ WithinLimit(c)
  /\ Becomes(c, [run[c] EXCEPT !.iterations = @ + 1, !.pc = pc, !.node = node, !.asked = 0])
  /\ UNCHANGED <<graph, first, asks, thread, calls>>

ReachEnd(c) ==
  /\ run[c].node = End
  /\ Iterate(c, "done", End)

\* A node without edges is an error before it is executed.
NoEdges(c) ==
  /\ run[c].node \notin Sources(graph) \cup {End}
  /\ Iterate(c, "failed", run[c].node)

\* Fault: any edge of the node is followed.
TargetsOfAny(n) == UNION {e.targets : e \in EdgesFrom(graph, {n})}

\* Fault: the error of START's condition is not looked at.
LeaveStartUnchecked(c) ==
  /\ run[c].node = Start
  /\ Start \in Sources(graph)
  /\ \E t \in first[Start].targets \cup {NoRoute} : Iterate(c, "loop", t)

\* get_target of edges[0]; a condition may fail.
Targets(n) ==
  first[n].targets \cup IF first[n].kind = "conditional" THEN {NoRoute} ELSE {}

LeaveStart(c) ==
  /\ run[c].node = Start
  /\ Start \in Sources(graph)
  /\ \E t \in Targets(Start) :
       IF t = NoRoute THEN Iterate(c, "failed", Start) ELSE Iterate(c, "loop", t)

EnterNode(c) ==
  /\ run[c].node \in Node \cap Sources(graph)
  /\ Iterate(c, "executing", run[c].node)
-------------------------------------------------------------------------------
Here(c) == [node |-> run[c].node, index |-> run[c].asked]

Asking(c) == At(c, "executing") /\ run[c].asked < asks[run[c].node]

\* "current_index < resume_values.len()"; current_index counts what was given.
HasAnswer(c) == Len(run[c].given) < Len(run[c].answers)

\* Fault: the index is not moved on.
TakeAnswerAgain(c) ==
  /\ Asking(c) /\ HasAnswer(c)
  /\ Becomes(c, [run[c] EXCEPT !.asked = @ + 1])
  /\ UNCHANGED <<graph, first, asks, thread, calls>>

\* interrupt() answers with resume_values[current_index] and moves the index on.
TakeAnswer(c) ==
  /\ Asking(c) /\ HasAnswer(c)
  /\ Becomes(c, [run[c] EXCEPT
       !.given = Append(@, [value |-> run[c].answers[Len(@) + 1], at |-> Here(c)]),
       !.asked = @ + 1])
  /\ UNCHANGED <<graph, first, asks, thread, calls>>

\* interrupt() without an answer; outside a context, with() panics.
RaiseInterrupt(c) ==
  /\ Asking(c) /\ ~HasAnswer(c)
  /\ Goes(c, IF run[c].scoped THEN "saving" ELSE "panicked")

NodeFails(c) ==
  /\ At(c, "executing")
  /\ Goes(c, "failed")

NodeReturns(c) ==
  /\ At(c, "executing") /\ ~Asking(c)
  /\ Becomes(c, [run[c] EXCEPT !.values = Append(@, run[c].node), !.asked = 0, !.pc = "route"])
  /\ UNCHANGED <<graph, first, asks, thread, calls>>

\* The edge is followed at the merged state.
Follow(c) ==
  /\ At(c, "route")
  /\ \E t \in Targets(run[c].node) :
       CASE t = NoRoute -> Goes(c, "failed")
         [] t = End     -> Goes(c, "done")
         [] t \in Node  ->
              /\ Becomes(c, [run[c] EXCEPT !.pc = "loop", !.node = t])
              /\ UNCHANGED <<graph, first, asks, thread, calls>>
-------------------------------------------------------------------------------
Put(snapshot) ==
  /\ history' = Append(history, snapshot)
  /\ made' = made + 1
  /\ UNCHANGED <<graph, first, asks, calls>>

\* The put is answered with an error, and so is the call.
PutFails(c) ==
  /\ Becomes(c, [run[c] EXCEPT !.pc = "failed"])
  /\ made' = made + 1
  /\ UNCHANGED <<graph, first, asks, calls, history>>

\* Fault: the interrupt is checkpointed with the state the call began with.
InterruptSnapshotOfInput(c) ==
  [id |-> made + 1, call |-> run[c].call, kind |-> "interrupt",
   values |-> run[c].base, next |-> run[c].node, parent |-> run[c].parent]

InterruptSnapshot(c) ==
  [id |-> made + 1, call |-> run[c].call, kind |-> "interrupt",
   values |-> run[c].values, next |-> run[c].node, parent |-> run[c].parent]

\* The interrupt is returned once its checkpoint is put.
SaveInterrupt(c) ==
  /\ At(c, "saving")
  /\ \/ /\ Put(InterruptSnapshot(c))
        /\ Becomes(c, [run[c] EXCEPT !.pc = "interrupted", !.raised = Here(c)])
     \/ PutFails(c)

\* update_state: get_state, then a put of the merged values; nothing is locked.
ReadState(c, i) ==
  /\ ~Active(c)
  /\ calls < MaxCalls
  /\ calls' = calls + 1
  /\ Becomes(c, NewRun("updating", calls + 1, FALSE, history[i].next,
                       history[i].values, history[i].id, <<>>, run[c].raised))
  /\ UNCHANGED <<graph, first, asks, thread>>

\* Fault: the update goes to the thread's latest values, not to those read.
UpdateOfLatest(c, n) ==
  [id |-> made + 1, call |-> run[c].call, kind |-> "update",
   values |-> Append(Last(history).values, n), next |-> run[c].node, parent |-> run[c].parent]

UpdateSnapshot(c, n) ==
  [id |-> made + 1, call |-> run[c].call, kind |-> "update",
   values |-> Append(run[c].values, n), next |-> run[c].node, parent |-> run[c].parent]

WriteState(c, n) ==
  /\ At(c, "updating")
  /\ \/ /\ Put(UpdateSnapshot(c, n))
        /\ Becomes(c, [run[c] EXCEPT !.pc = "updated"])
     \/ PutFails(c)

\* The caller drops the future of its call at an await.
Cancel(c) ==
  /\ Active(c)
  /\ Goes(c, "idle")
-------------------------------------------------------------------------------
Begins(c) ==
  \/ Invoke(c) \/ InvokeState(c) \/ InvokeResume(c) \/ InvokeGoto(c)
  \/ \E i \in DOMAIN history : InvokeFork(c, i) \/ ReadState(c, i)

Loops(c) ==
  IterationLimit(c) \/ ReachEnd(c) \/ NoEdges(c) \/ LeaveStart(c) \/ EnterNode(c)

Executes(c) ==
  TakeAnswer(c) \/ RaiseInterrupt(c) \/ NodeFails(c) \/ NodeReturns(c) \/ Follow(c)

Saves(c) ==
  \/ SaveInterrupt(c)
  \/ \E n \in Node : WriteState(c, n)

Next == \E c \in Caller : Begins(c) \/ Loops(c) \/ Executes(c) \/ Saves(c) \/ Cancel(c)

Spec == Init /\ [][Next]_vars
-------------------------------------------------------------------------------
TypeOK ==
  /\ graph \in Graphs /\ first \in FirstEdges(graph) /\ asks \in Asks
  /\ run \in [Caller -> Run]
  /\ history \in Seq(Snapshot)
  /\ calls \in 0..MaxCalls /\ made \in Nat

Merged(c) == SubSeq(run[c].values, Len(run[c].base) + 1, Len(run[c].values))

\* nodes is a path of first edges from START, and last may come next.
IsPath(nodes, last) ==
  LET path == Append(nodes, last)
  IN  \A i \in DOMAIN path :
        path[i] \in first[IF i = 1 THEN Start ELSE path[i - 1]].targets

(***************************************************************************)
(* The sequential executor's schedule: what a call merges is one path of   *)
(* first edges that begins at START, also when it continues a checkpoint,  *)
(* and the call returns only where that path leads to END.                 *)
(***************************************************************************)
RunsFollowEdges ==
  \A c \in Caller :
    /\ run[c].pc \in {"executing", "saving", "interrupted"} => IsPath(Merged(c), run[c].node)
    /\ run[c].pc = "done" => IsPath(Merged(c), End)

(***************************************************************************)
(* What a checkpoint adds to the one it names as its parent: an interrupt  *)
(* a path from START to the node that raised it, update_state one message, *)
(* with the parent's next; whatever other callers put in between.          *)
(***************************************************************************)
ParentValues(s) ==
  {t.values : t \in {u \in ToSet(history) : u.id = s.parent}}
  \cup IF s.parent = 0 THEN {<<>>} ELSE {}

CheckpointsContinueParents ==
  \A s \in ToSet(history) :
    \E before \in ParentValues(s) :
      LET added == SubSeq(s.values, Len(before) + 1, Len(s.values))
      IN  /\ IsPrefix(before, s.values)
          /\ s.kind = "interrupt" => IsPath(added, s.next)
          /\ s.kind = "update" =>
               /\ Len(added) = 1
               /\ \E t \in ToSet(history) : t.id = s.parent /\ t.next = s.next

(***************************************************************************)
(* An interrupt is returned to its caller only with a checkpoint of the    *)
(* state it was raised in, at the node that raised it: the caller may be   *)
(* asked for days, the process may be gone when it answers.                *)
(***************************************************************************)
InterruptsAreSaved ==
  \A c \in Caller : run[c].pc = "interrupted" =>
    \E s \in ToSet(history) : /\ s.call = run[c].call
                              /\ s.values = run[c].values
                              /\ s.next = run[c].node

(***************************************************************************)
(* A value answers one interrupt: over all the nodes a call executed, it   *)
(* passed exactly as many interrupt() calls as values were handed out, and *)
(* it raises one only when none is left.                                   *)
(***************************************************************************)
AsksOf(nodes) ==
  LET upto[i \in 0..Len(nodes)] == IF i = 0 THEN 0 ELSE upto[i - 1] + asks[nodes[i]]
  IN  upto[Len(nodes)]

AnswersAreSpent ==
  \A c \in Caller :
    /\ AsksOf(Merged(c)) + run[c].asked = Len(run[c].given)
    /\ Len(run[c].given) <= Len(run[c].answers)
    /\ run[c].pc \in {"saving", "interrupted", "panicked"} =>
         Len(run[c].given) = Len(run[c].answers)

(***************************************************************************)
(* max_iterations ("Possible infinite loop", compiled.rs:1060): START      *)
(* takes one iteration and every node one, so a call merges fewer nodes    *)
(* than max_iterations, on loops too.                                      *)
(***************************************************************************)
IterationsBounded ==
  \A c \in Caller : Len(Merged(c)) < MaxIterations

-------------------------------------------------------------------------------
(***************************************************************************)
(* What the repository says of these calls and the code does not do.       *)
(***************************************************************************)

\* "When execution is resumed with Command::resume(value), that value becomes the
\* return value of this function call" (interrupts/mod.rs:24): of the interrupt it
\* answers, not of another node's.
ValueReachesItsInterrupt ==
  \A c \in Caller : \A g \in ToSet(run[c].given) : g.at = g.value
===============================================================================

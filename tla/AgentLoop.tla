------------------------------ MODULE AgentLoop ------------------------------
(***************************************************************************)
(* AgentExecutor::run_loop with HumanInTheLoopMiddleware: several callers  *)
(* of one executor and one thread_id, with a shared memory and a shared    *)
(* agent checkpointer.  A call plans a batch of tool calls, runs them one  *)
(* after another past the middleware's hook, and plans again; a call whose *)
(* tool needs a human's decision ends with an interrupt, and another       *)
(* resumes it with decisions.                                              *)
(*                                                                         *)
(* A planned tool call has an id of its own (LogTools), so that steps,     *)
(* requests and decisions can be told to be about the same call.  The      *)
(* chat history of an input is known by its number of messages.            *)
(***************************************************************************)
EXTENDS MessageRepair, SequencesExt

CONSTANTS
  Tool,            \* tool names a model may answer with
  Registered,      \* the agent's tools
  Guarded,         \* tools that need approval
  EditTools,       \* tools a human may put in another's place
  Batches,         \* the batches a model may plan
  Caller,          \* the tasks that call the agent
  Garbled,         \* calls (by id) an agent logs in a batch that is not JSON
  MaxIterations,   \* max_iterations
  MaxCalls         \* bound: calls of the agent

ASSUME AgentAssumption ==
  /\ Tool # {}
  /\ Registered \subseteq Tool /\ Guarded \subseteq Tool /\ EditTools \subseteq Tool
  /\ Batches \subseteq Seq(Tool)
  /\ MaxIterations \in Nat /\ MaxCalls \in Nat

VARIABLES
  config,    \* break_if_error, and whether there is a checkpointer
  run,       \* each caller's call
  saved,     \* the agent checkpointer's state of the thread
  memory,    \* the executor's memory
  planned,   \* tool calls planned
  calls      \* calls of the agent

shared == <<saved, memory, planned>>
vars == <<config, run, saved, memory, planned, calls>>

Verdicts == {"approve", "edit", "reject", "malformed"}

\* What a human decides of a planned call, by its id.
Decision == [verdict : Verdicts, of : Nat, tool : Tool]

\* AgentAction: log holds the ids of its batch; by, the decisions taken at its turn.
Action == [id : Nat, tool : Tool, log : Seq(Nat), by : Seq(Decision)]

Step == [action : Action, outcome : {"ran", "failed", "rejected"}]

Places == {"idle", "plan", "runtime_hook", "hook", "tool", "finish", "after_finish",
           "finished", "limit", "interrupted", "interrupt_error", "failed"}

NoAction == [id |-> 0, tool |-> CHOOSE t \in Tool : TRUE, log |-> <<>>, by |-> <<>>]

Ids(actions) == [i \in DOMAIN actions |-> actions[i].id]

NothingSaved == [steps |-> <<>>, chat |-> 0, pending |-> <<>>]

NewRun(pc, resumed, state, batch, decisions, asked) ==
  [pc |-> pc, resumed |-> resumed, replay |-> resumed, steps |-> state.steps,
   base |-> Len(state.steps), batch |-> batch, next |-> 1,
   action |-> IF batch = <<>> THEN NoAction ELSE batch[1],
   decisions |-> decisions, taken |-> 0,
   chat |-> state.chat, input |-> state.chat,
   due |-> Ids(batch), asked |-> asked]

Init ==
  /\ config \in [breaks : BOOLEAN, saves : BOOLEAN]
  /\ run = [c \in Caller |-> NewRun("idle", FALSE, NothingSaved, <<>>, <<>>, <<>>)]
  /\ saved = NothingSaved /\ memory = <<>> /\ planned = 0 /\ calls = 0

At(c, pc) == run[c].pc = pc

Active(c) ==
  run[c].pc \in {"plan", "runtime_hook", "hook", "tool", "finish", "after_finish"}

\* To another place of the same call.
Goes(c, pc) ==
  /\ run' = [run EXCEPT ![c].pc = pc]
  /\ UNCHANGED <<config, calls, shared>>
-------------------------------------------------------------------------------
Call(c, r) ==
  /\ ~Active(c)
  /\ calls < MaxCalls
  /\ calls' = calls + 1
  /\ run' = [run EXCEPT ![c] = r]
  /\ UNCHANGED <<config, shared>>

\* call_with_config: the repaired memory becomes the plan's chat_history.
Begin(c) ==
  Call(c, [NewRun("plan", FALSE, NothingSaved, <<>>, <<>>, run[c].asked)
             EXCEPT !.chat = Len(Repair(memory))])

\* The calls of a batch the caller is asked about, and the decisions it may answer with.
Requests(batch) == SelectSeq(batch, LAMBDA a : a.tool \in Guarded)

DecisionsOf(a) ==
  [verdict : {"approve", "reject", "malformed"}, of : {a.id}, tool : {a.tool}]
  \cup [verdict : {"edit"}, of : {a.id}, tool : EditTools]

ResumeInputs(batch) ==
  {d \in BoundedSeq(UNION {DecisionsOf(batch[i]) : i \in DOMAIN batch}, Len(Requests(batch))) :
     \A i \in DOMAIN d : d[i] \in DecisionsOf(Requests(batch)[i])}

\* call_resume: of whatever the thread's checkpoint is; it is not removed, so that an
\* answer can be sent again.
Resume(c) ==
  /\ run[c].asked # <<>> /\ saved.pending # <<>>
  /\ \E decisions \in ResumeInputs(run[c].asked) :
       Call(c, NewRun("runtime_hook", TRUE, saved, saved.pending, decisions,
                      run[c].asked))
-------------------------------------------------------------------------------
\* max_iterations is tested after a planned batch, not after a resumed one.
LimitMet(replay, steps) == ~replay /\ Len(steps) >= MaxIterations

\* plan(): the hooks and the model are given the input, which replaces plan_input.
PlanBatch(c, batch) ==
  LET ids == [i \in DOMAIN batch |-> planned + i]
      actions == [i \in DOMAIN batch |->
                    [id |-> ids[i], tool |-> batch[i], log |-> ids, by |-> <<>>]]
  IN  /\ At(c, "plan")
      /\ batch # <<>>
      /\ planned' = planned + Len(batch)
      /\ run' = [run EXCEPT ![c] =
           [run[c] EXCEPT !.batch = actions, !.next = 1, !.action = actions[1],
                          !.replay = FALSE, !.chat = run[c].input, !.due = @ \o ids,
                          !.pc = "runtime_hook"]]
      /\ UNCHANGED <<config, calls, saved, memory>>

\* A model that answers "[]" plans no call: the loop goes round with the same steps.
PlanNothing(c) ==
  /\ At(c, "plan")
  /\ <<>> \in Batches
  /\ run' = [run EXCEPT ![c] =
       [run[c] EXCEPT !.replay = FALSE, !.chat = run[c].input,
                      !.pc = IF LimitMet(FALSE, run[c].steps) THEN "limit" ELSE "plan"]]
  /\ UNCHANGED <<config, calls, shared>>

PlanFinish(c) ==
  /\ At(c, "plan")
  /\ run' = [run EXCEPT ![c] = [run[c] EXCEPT !.chat = run[c].input, !.pc = "finish"]]
  /\ UNCHANGED <<config, calls, shared>>

\* The model, or a hook of any middleware, answers with an error.
Fails(c) ==
  /\ Active(c)
  /\ Goes(c, "failed")
-------------------------------------------------------------------------------
AtHook(c) == run[c].pc \in {"runtime_hook", "hook"}

\* before_tool_call_with_runtime is before_tool_call, and that is called after it again.
AfterNone(c) == IF At(c, "runtime_hook") THEN "hook" ELSE "tool"

NeedsApproval(c) == run[c].action.tool \in Guarded

NextDecision(c) == run[c].decisions[run[c].taken + 1]

\* A decision that does not parse is left where it is.
HasDecision(c) ==
  /\ run[c].taken < Len(run[c].decisions)
  /\ NextDecision(c).verdict # "malformed"

\* Fault: the index is not moved on.
DecidedAgain(c) == [run[c] EXCEPT !.action.by = Append(@, NextDecision(c))]

\* Fault: the index is moved on by both calls of the hook.
DecidedByBoth(c) ==
  [run[c] EXCEPT !.action.by = Append(@, NextDecision(c)), !.taken = @ + 2]

\* The index is moved on, whatever the decision.
Decided(c) ==
  [run[c] EXCEPT !.action.by = Append(@, NextDecision(c)), !.taken = @ + 1]

\* Fault: a rejected call is left without an answer.
AnsweredUnlessRejected(r, outcome) ==
  IF outcome = "rejected" THEN r.steps
  ELSE Append(r.steps, [action |-> r.action, outcome |-> outcome])

Answered(r, outcome) == Append(r.steps, [action |-> r.action, outcome |-> outcome])

\* The call is answered, and the next one of the batch, or the plan, has its turn.
Answer(c, r, outcome) ==
  LET steps == Answered(r, outcome)
      more  == r.next < Len(r.batch)
  IN  /\ run' = [run EXCEPT ![c] =
           [r EXCEPT !.steps = steps, !.next = @ + 1,
                     !.action = IF more THEN r.batch[r.next + 1] ELSE NoAction,
                     !.pc = CASE more -> "runtime_hook"
                              [] ~more /\ LimitMet(r.replay, steps) -> "limit"
                              [] OTHER -> "plan"]]
      /\ UNCHANGED <<config, calls, shared>>

\* Fault: a guarded tool that was not decided about is let through.
PassAny(c) ==
  /\ AtHook(c) /\ (NeedsApproval(c) => run[c].resumed /\ ~HasDecision(c))
  /\ Goes(c, AfterNone(c))

PassHook(c) ==
  /\ AtHook(c) /\ ~NeedsApproval(c)
  /\ Goes(c, AfterNone(c))

Decides(c, verdict) ==
  /\ AtHook(c) /\ NeedsApproval(c) /\ HasDecision(c)
  /\ NextDecision(c).verdict = verdict

Approve(c) ==
  /\ Decides(c, "approve")
  /\ run' = [run EXCEPT ![c] = [Decided(c) EXCEPT !.pc = AfterNone(c)]]
  /\ UNCHANGED <<config, calls, shared>>

\* Ok(Some(modified)) skips the second hook.
Edit(c) ==
  /\ Decides(c, "edit")
  /\ run' = [run EXCEPT ![c] =
       [Decided(c) EXCEPT !.action.tool = NextDecision(c).tool, !.pc = "tool"]]
  /\ UNCHANGED <<config, calls, shared>>

Reject(c) ==
  /\ Decides(c, "reject")
  /\ Answer(c, Decided(c), "rejected")

\* Fault: only what comes after the call is saved as pending.
PendingAfter(c) == SubSeq(run[c].batch, run[c].next + 1, Len(run[c].batch))

\* The whole batch, as it was planned.
Pending(c) == run[c].batch

\* Without a decision: every guarded call of the batch is asked about.  The agent
\* answers a resumed call's interrupt as an error, another's as a result.
Interrupt(c) ==
  /\ AtHook(c) /\ NeedsApproval(c) /\ ~HasDecision(c)
  /\ saved' = IF config.saves
                THEN [steps |-> run[c].steps, chat |-> run[c].chat, pending |-> Pending(c)]
                ELSE saved
  /\ run' = [run EXCEPT ![c] =
       [run[c] EXCEPT !.asked = run[c].batch,
                      !.pc = IF run[c].resumed THEN "interrupt_error" ELSE "interrupted"]]
  /\ UNCHANGED <<config, calls, memory, planned>>
-------------------------------------------------------------------------------
ToolReturns(c) ==
  /\ At(c, "tool")
  /\ run[c].action.tool \in Registered
  /\ Answer(c, run[c], "ran")

\* The tool's error is its observation, unless break_if_error.
ToolFails(c) ==
  /\ At(c, "tool")
  /\ run[c].action.tool \in Registered
  /\ IF config.breaks THEN Goes(c, "failed") ELSE Answer(c, run[c], "failed")

\* Fault: nothing happens on a tool that is not there.
ToolMissingIsIgnored(c) ==
  /\ At(c, "tool")
  /\ run[c].action.tool \notin Registered
  /\ UNCHANGED vars

ToolMissing(c) ==
  /\ At(c, "tool")
  /\ run[c].action.tool \notin Registered
  /\ Goes(c, "failed")

\* Fault: only this call's own steps are written, not those it resumed with.
TurnOfThisCall(c) ==
  SubSeq(run[c].steps, run[c].base + 1, Len(run[c].steps))

Turn(c) == run[c].steps

\* The AI message of a batch once, before its first step; then each step's answer.
StepMessages(steps) ==
  FlattenSeq([i \in DOMAIN steps |->
    (IF \E j \in 1..(i - 1) : steps[j].action.log = steps[i].action.log
       THEN <<>> ELSE <<Message("calls", steps[i].action.log)>>)
    \o <<Message("tool", <<steps[i].action.id>>)>>])

\* An agent of the crate logs its batches as JSON; another one need not.
Unreadable(s) == ToSet(s.action.log) \cap Garbled # {}

UserMessage == Message("user", <<>>)

\* Fault: the history the call began with is written back, with its turn.
WriteHistoryBack(c) ==
  /\ At(c, "finish")
  /\ memory' = SubSeq(memory, 1, run[c].chat) \o <<UserMessage>> \o StepMessages(Turn(c))
                      \o <<Message("ai", <<>>)>>
  /\ run' = [run EXCEPT ![c].pc = "after_finish"]
  /\ UNCHANGED <<config, calls, saved, planned>>

\* All of the call's messages under one lock.
WriteMemory(c) ==
  /\ At(c, "finish")
  /\ \A s \in ToSet(Turn(c)) : ~Unreadable(s)
  /\ memory' = memory \o <<UserMessage>> \o StepMessages(Turn(c)) \o <<Message("ai", <<>>)>>
  /\ run' = [run EXCEPT ![c].pc = "after_finish"]
  /\ UNCHANGED <<config, calls, saved, planned>>

\* At the first log that cannot be read the call fails; what it has written stays.
WriteMemoryFails(c) ==
  /\ At(c, "finish")
  /\ \E i \in DOMAIN Turn(c) :
       /\ Unreadable(Turn(c)[i])
       /\ \A j \in 1..(i - 1) : ~Unreadable(Turn(c)[j])
       /\ memory' = memory \o <<UserMessage>> \o StepMessages(SubSeq(Turn(c), 1, i - 1))
  /\ run' = [run EXCEPT ![c].pc = "failed"]
  /\ UNCHANGED <<config, calls, saved, planned>>

Return(c) ==
  /\ At(c, "after_finish")
  /\ Goes(c, "finished")

\* The caller drops the future of its call.
Cancel(c) ==
  /\ Active(c)
  /\ Goes(c, "idle")
-------------------------------------------------------------------------------
Hooks(c) ==
  PassHook(c) \/ Approve(c) \/ Edit(c) \/ Reject(c) \/ Interrupt(c)

Tools(c) ==
  ToolReturns(c) \/ ToolFails(c) \/ ToolMissing(c)

Plans(c) ==
  (\E batch \in Batches : PlanBatch(c, batch)) \/ PlanNothing(c) \/ PlanFinish(c)

Loop(c) ==
  Plans(c) \/ Hooks(c) \/ Tools(c) \/ WriteMemory(c) \/ WriteMemoryFails(c) \/ Return(c)

Next == \E c \in Caller : Begin(c) \/ Resume(c) \/ Loop(c) \/ Fails(c) \/ Cancel(c)

Spec == Init /\ [][Next]_vars

\* A call that is polled goes on, as its tools, its model and its hooks answer.
Fairness == \A c \in Caller : WF_vars(Loop(c))

FairSpec == Spec /\ Fairness
-------------------------------------------------------------------------------
Run == [pc : Places, resumed : BOOLEAN, replay : BOOLEAN, steps : Seq(Step), base : Nat,
        batch : Seq(Action), next : Nat \ {0}, action : Action,
        decisions : Seq(Decision), taken : Nat, chat : Nat, input : Nat,
        due : Seq(Nat), asked : Seq(Action)]

TypeOK ==
  /\ config \in [breaks : BOOLEAN, saves : BOOLEAN]
  /\ run \in [Caller -> Run]
  /\ saved \in [steps : Seq(Step), chat : Nat, pending : Seq(Action)]
  /\ memory \in Seq([kind : Kinds, ids : Seq(Nat), real : BOOLEAN])
  /\ planned \in Nat /\ calls \in 0..MaxCalls
  /\ \A c \in Caller : /\ run[c].taken <= Len(run[c].decisions)
                       /\ (AtHook(c) \/ At(c, "tool")) => run[c].next <= Len(run[c].batch)

OwnSteps(c) == SubSeq(run[c].steps, run[c].base + 1, Len(run[c].steps))

(***************************************************************************)
(* The human's say: no guarded tool runs, in any call, but after a decision*)
(* that lets it run was taken at its turn; a rejected call never runs.     *)
(***************************************************************************)
Lets(d) == d.verdict \in {"approve", "edit"}

ApprovedToolsOnly ==
  \A c \in Caller : \A s \in ToSet(run[c].steps) :
    IF s.outcome = "rejected"
      THEN ~Lets(Last(s.action.by))
      ELSE /\ s.action.tool \in Guarded => s.action.by # <<>>
           /\ \A d \in ToSet(s.action.by) : Lets(d)

(***************************************************************************)
(* One decision is one say: over all the tool calls of a resumed call, the *)
(* decisions are taken in their order, each once, also when a malformed    *)
(* one or a failing tool comes in between.                                 *)
(***************************************************************************)
DecisionsSpentInOrder ==
  \A c \in Caller :
    LET steps == OwnSteps(c)
        spent == FlattenSeq([i \in DOMAIN steps |-> steps[i].action.by])
    IN  spent \o run[c].action.by = SubSeq(run[c].decisions, 1, run[c].taken)

(***************************************************************************)
(* Every tool call of a batch is answered, once and in the order of the    *)
(* model's request, ran, failed or rejected: what the model reads next has *)
(* no call without an answer before it.                                    *)
(***************************************************************************)
CallsAnsweredInOrder ==
  \A c \in Caller :
    LET own == OwnSteps(c)
    IN  /\ [i \in DOMAIN own |-> own[i].action.id] = SubSeq(run[c].due, 1, Len(own))
        /\ (At(c, "plan") \/ At(c, "finish")) => Len(own) = Len(run[c].due)

(***************************************************************************)
(* A batch that was interrupted loses no call: each call of a saved        *)
(* pending batch's log is answered in the saved steps or pending.          *)
(***************************************************************************)
InterruptLosesNoCall ==
  \A c \in Caller : run[c].pc \in {"interrupted", "interrupt_error"} /\ config.saves =>
    \A i \in DOMAIN saved.steps : \A id \in ToSet(saved.steps[i].action.log) :
      \/ id \in {saved.steps[j].action.id : j \in DOMAIN saved.steps}
      \/ id \in ToSet(Ids(saved.pending))

WithoutCalls(messages) ==
  FlattenSeq([k \in DOMAIN messages |->
                IF messages[k].kind = "calls" THEN <<>> ELSE <<messages[k]>>])

(***************************************************************************)
(* The turn of a call that came to its end stands whole in the memory,     *)
(* whatever other callers of the executor write before, between and after: *)
(* a user's message, the steps of the call since its first plan, an        *)
(* answer.  An interrupted call leaves nothing, the call that resumes it   *)
(* everything; a call whose log cannot be read leaves the beginning of its *)
(* turn, and that breaks no other call's.                                  *)
(***************************************************************************)
MemoryHoldsTurns ==
  \A c \in Caller : run[c].pc \in {"after_finish", "finished"} =>
    \E i \in 0..Len(memory) : \E j \in (i + 2)..Len(memory) :
      /\ memory[i + 1].kind = "user" /\ memory[j].kind = "ai"
      /\ WithoutCalls(SubSeq(memory, i + 2, j - 1))
           = [k \in DOMAIN run[c].steps |->
                Message("tool", <<run[c].steps[k].action.id>>)]

(***************************************************************************)
(* Every call returns, is interrupted or fails, with a model that does not *)
(* plan an empty batch for ever: the steps do not grow on it, so that the  *)
(* limit of iterations is not met.                                         *)
(***************************************************************************)
CallsEnd == \A c \in Caller : Active(c) ~> ~Active(c)

-------------------------------------------------------------------------------
(***************************************************************************)
(* What the repository says of the agent and the code does not do.         *)
(***************************************************************************)

\* "One decision per action_request, in the same order" (hitl.rs:159): a decision is
\* taken at the turn of the call it was made for.
DecisionsReachTheirCalls ==
  \A c \in Caller : \A d \in ToSet(run[c].action.by) : d.of = run[c].action.id

\* "Tool calls that were pending when we interrupted" (checkpoint.rs:17): none that
\* has been answered.
PendingIsUnanswered ==
  \A i \in DOMAIN saved.steps : saved.steps[i].action.id \notin ToSet(Ids(saved.pending))
===============================================================================

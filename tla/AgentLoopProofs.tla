--------------------------- MODULE AgentLoopProofs ---------------------------
(***************************************************************************)
(* No guarded tool runs, and no rejected call does, but with a human's     *)
(* say; every planned call is answered in its order; an interrupt loses no *)
(* call, a decision is spent once, the memory holds whole turns: for any   *)
(* tools, batches, callers and bounds, across interrupts, resumes,         *)
(* repeated answers, failures and cancellations.                           *)
(***************************************************************************)
EXTENDS AgentLoop, MessageRepairProofs

Fields == {"pc", "resumed", "replay", "steps", "base", "batch", "next", "action",
           "decisions", "taken", "chat", "input", "due", "asked"}

Letting == {d \in Decision : Lets(d)}

\* A call as it was planned, and one that so far nobody was against.
Fresh   == {a \in Action : a.by = <<>>}
Cleared == {a \in Action : a.by \in Seq(Letting)}

Good ==
  {s \in Step :
     IF s.outcome = "rejected"
       THEN s.action.by # <<>> /\ ~Lets(Last(s.action.by))
       ELSE /\ s.action \in Cleared
            /\ s.action.tool \in Guarded => s.action.by # <<>>}

\* What the hook has let through has its decision: with it the property is inductive.
Say(r) ==
  /\ DOMAIN r = Fields
  /\ r.steps \in Seq(Good)
  /\ r.batch \in Seq(Fresh) /\ r.asked \in Seq(Fresh)
  /\ r.action \in Cleared
  /\ r.decisions \in Seq(Decision)
  /\ r.taken \in Nat /\ r.next \in Nat
  /\ r.pc = "tool" /\ r.action.tool \in Guarded => r.action.by # <<>>

Inv ==
  /\ DOMAIN run = Caller
  /\ \A c \in Caller : Say(run[c])
  /\ saved.steps \in Seq(Good) /\ saved.pending \in Seq(Fresh)
  /\ planned \in Nat
-------------------------------------------------------------------------------
\* The action of a call that plans nothing is as good as planned.
LEMMA NoActionIsFresh == NoAction \in Fresh
BY AgentAssumption DEF NoAction, Fresh, Action

\* Nobody has been against a call that nobody was asked about.
LEMMA FreshIsCleared == Fresh \subseteq Cleared
BY DEF Fresh, Cleared, Action

\* A call begins at the first action of its batch, which nobody decided about.
LEMMA FirstIsCleared ==
  ASSUME NEW batch \in Seq(Fresh)
  PROVE  (IF batch = <<>> THEN NoAction ELSE batch[1]) \in Cleared
BY NoActionIsFresh, FreshIsCleared

\* call_with_config and call_resume start with what the thread has saved.
LEMMA NewRunsAreSafe ==
  ASSUME NEW pc, pc # "tool", NEW resumed, NEW state, state.steps \in Seq(Good),
         NEW batch \in Seq(Fresh), NEW decisions \in Seq(Decision),
         NEW asked \in Seq(Fresh)
  PROVE  Say(NewRun(pc, resumed, state, batch, decisions, asked))
<1> DEFINE r == NewRun(pc, resumed, state, batch, decisions, asked)
<1>1. /\ DOMAIN r = Fields
      /\ r.pc = pc /\ r.steps = state.steps /\ r.batch = batch /\ r.asked = asked
      /\ r.decisions = decisions /\ r.taken = 0 /\ r.next = 1
      /\ r.action = IF batch = <<>> THEN NoAction ELSE batch[1]
  BY DEF NewRun, Fields
<1> HIDE DEF r
<1>2. Say(r)
  BY <1>1, FirstIsCleared DEF Say
<1> QED BY <1>2 DEF r

\* A step that changes one call and what it saves.
LEMMA OneCallMoves ==
  ASSUME Inv, NEW c \in Caller, NEW r, Say(r), run' = [run EXCEPT ![c] = r],
         saved'.steps \in Seq(Good), saved'.pending \in Seq(Fresh),
         planned' \in Nat
  PROVE  Inv'
<1>1. DOMAIN run' = Caller
  BY DEF Inv
<1>2. \A d \in Caller : Say(run'[d])
  BY DEF Inv
<1> QED BY <1>1, <1>2 DEF Inv, Say

\* A call that changes nothing but its own state is safe as that state is.
LEMMA OwnMovesAreSafe ==
  ASSUME Inv, NEW c \in Caller, NEW r, Say(r), run' = [run EXCEPT ![c] = r],
         UNCHANGED shared
  PROVE  Inv'
<1>1. saved'.steps \in Seq(Good) /\ saved'.pending \in Seq(Fresh) /\ planned' \in Nat
  BY DEF Inv, shared
<1> QED BY <1>1, OneCallMoves

\* To a place where no tool runs, or where the tool's call has been decided.
LEMMA PlacesAreSafe ==
  ASSUME NEW r, Say(r), NEW pc,
         pc # "tool" \/ (r.action.tool \in Guarded => r.action.by # <<>>)
  PROVE  Say([r EXCEPT !.pc = pc])
BY DEF Say, Fields
-------------------------------------------------------------------------------
\* The decisions a human may give are decisions.
LEMMA ResumeInputsAreDecisions ==
  ASSUME NEW batch \in Seq(Fresh), NEW decisions \in ResumeInputs(batch)
  PROVE  decisions \in Seq(Decision)
<1> DEFINE S == UNION {DecisionsOf(batch[i]) : i \in DOMAIN batch}
<1>1. S \subseteq Decision
  <2> SUFFICES ASSUME NEW i \in DOMAIN batch
               PROVE  DecisionsOf(batch[i]) \subseteq Decision
    OBVIOUS
  <2>1. batch[i] \in Action
    BY DEF Fresh
  <2> QED BY <2>1, AgentAssumption DEF DecisionsOf, Decision, Action, Verdicts
<1> HIDE DEF S
<1>2. decisions \in BoundedSeq(S, Len(Requests(batch)))
  BY DEF ResumeInputs, S
<1>3. PICK m \in 0..Len(Requests(batch)) : decisions \in [1..m -> S]
  BY <1>2 DEF BoundedSeq, SeqOf
<1>4. m \in Nat
  OBVIOUS
<1>5. decisions \in [1..m -> Decision]
  BY <1>1, <1>3
<1> QED BY <1>4, <1>5

\* A planned batch has ids of its own and no decisions.
LEMMA PlannedIsFresh ==
  ASSUME NEW batch \in Batches, NEW n \in Nat
  PROVE  LET ids == [i \in DOMAIN batch |-> n + i]
         IN  [i \in DOMAIN batch |->
                [id |-> ids[i], tool |-> batch[i], log |-> ids, by |-> <<>>]] \in Seq(Fresh)
<1> DEFINE ids == [i \in DOMAIN batch |-> n + i]
           m == Len(batch)
           a == [i \in DOMAIN batch |->
                   [id |-> ids[i], tool |-> batch[i], log |-> ids, by |-> <<>>]]
<1>1. batch \in Seq(Tool) /\ DOMAIN batch = 1..m /\ m \in Nat
  BY AgentAssumption
<1>2. ids \in [1..m -> Nat]
  BY <1>1
<1>3. ids \in Seq(Nat)
  BY <1>1, <1>2
<1>4. a \in [1..m -> Fresh]
  <2> SUFFICES ASSUME NEW i \in 1..m
               PROVE  [id |-> ids[i], tool |-> batch[i], log |-> ids, by |-> <<>>] \in Fresh
    BY <1>1
  <2>1. ids[i] \in Nat /\ batch[i] \in Tool
    BY <1>1, <1>2
  <2>2. <<>> \in Seq(Decision)
    OBVIOUS
  <2> HIDE DEF ids
  <2> QED BY <2>1, <2>2, <1>3 DEF Fresh, Action
<1>5. a \in Seq(Fresh)
  BY <1>1, <1>4
<1> QED BY <1>5

\* The decision taken at a call's turn is added to what was decided of it.
LEMMA DecidedIsSafe ==
  ASSUME NEW c \in Caller, Say(run[c]), HasDecision(c)
  PROVE  /\ NextDecision(c) \in Decision
         /\ DOMAIN Decided(c) = Fields
         /\ Decided(c).steps \in Seq(Good)
         /\ Decided(c).batch \in Seq(Fresh) /\ Decided(c).asked \in Seq(Fresh)
         /\ Decided(c).decisions \in Seq(Decision)
         /\ Decided(c).next \in Nat /\ Decided(c).taken \in Nat
         /\ Decided(c).action \in Action
         /\ Decided(c).action.by # <<>> /\ Last(Decided(c).action.by) = NextDecision(c)
         /\ Lets(NextDecision(c)) => Decided(c).action \in Cleared
<1> DEFINE old == run[c]
           act == old.action
           d   == NextDecision(c)
           by  == Append(act.by, d)
           r   == Decided(c)
<1>1. d \in Decision
  BY DEF Say, HasDecision, NextDecision
<1>2. act \in Action /\ act.by \in Seq(Letting) /\ act.by \in Seq(Decision)
  <2>1. act \in Cleared
    BY DEF Say
  <2> QED BY <2>1 DEF Cleared, Action
<1> HIDE DEF d
<1>3. by \in Seq(Decision) /\ Len(by) = Len(act.by) + 1 /\ by[Len(act.by) + 1] = d
  BY <1>1, <1>2, AppendProperties
<1>4. by # <<>> /\ Last(by) = d
  BY <1>2, <1>3 DEF Last
<1>5. Lets(d) => by \in Seq(Letting)
  <2> SUFFICES ASSUME Lets(d)
               PROVE  by \in Seq(Letting)
    OBVIOUS
  <2>1. d \in Letting
    BY <1>1 DEF Letting
  <2> QED BY <2>1, <1>2, AppendProperties
<1> DEFINE new == [act EXCEPT !.by = by]
<1>6. /\ new \in Action /\ new.tool = act.tool /\ new.by = by
  <2> HIDE DEF by, act
  <2> QED BY <1>2, <1>3 DEF Action
<1>7. r = [old EXCEPT !.action = new, !.taken = @ + 1]
  BY DEF Decided, d, Say, Fields
<1> HIDE DEF new, by, r
<1>8. /\ DOMAIN r = Fields
      /\ r.steps = old.steps /\ r.batch = old.batch /\ r.asked = old.asked
      /\ r.decisions = old.decisions /\ r.next = old.next
      /\ r.taken = old.taken + 1 /\ r.action = new
  BY <1>7 DEF Say, Fields
<1>9. Lets(d) => r.action \in Cleared
  BY <1>5, <1>6, <1>8 DEF Cleared
<1>10. /\ r.steps \in Seq(Good) /\ r.batch \in Seq(Fresh) /\ r.asked \in Seq(Fresh)
       /\ r.decisions \in Seq(Decision) /\ r.next \in Nat /\ r.taken \in Nat
  BY <1>8 DEF Say
<1>11. r.action \in Action /\ r.action.by # <<>> /\ Last(r.action.by) = d
  BY <1>4, <1>6, <1>8
<1>12. DOMAIN r = Fields
  BY <1>8
<1> QED BY <1>1, <1>9, <1>10, <1>11, <1>12 DEF r, d
\* An answered call is followed by the next of its batch, or by the plan.
LEMMA AnswerIsSafe ==
  ASSUME Inv, NEW c \in Caller, NEW r, NEW outcome,
         DOMAIN r = Fields, r.steps \in Seq(Good), r.batch \in Seq(Fresh),
         r.asked \in Seq(Fresh), r.decisions \in Seq(Decision), r.next \in Nat,
         r.taken \in Nat, [action |-> r.action, outcome |-> outcome] \in Good,
         Answer(c, r, outcome)
  PROVE  Inv'
<1> DEFINE steps == Answered(r, outcome)
           more  == r.next < Len(r.batch)
           act   == IF more THEN r.batch[r.next + 1] ELSE NoAction
           place == CASE more -> "runtime_hook"
                      [] ~more /\ LimitMet(r.replay, steps) -> "limit"
                      [] OTHER -> "plan"
           new   == [r EXCEPT !.steps = steps, !.next = @ + 1, !.action = act, !.pc = place]
<1>1. steps \in Seq(Good)
  BY AppendProperties DEF Answered
<1>2. act \in Cleared
  <2>1. CASE more
    <3>1. r.batch[r.next + 1] \in Fresh
      BY <2>1
    <3> QED BY <2>1, <3>1, FreshIsCleared
  <2>2. CASE ~more
    BY <2>2, NoActionIsFresh, FreshIsCleared
  <2> QED BY <2>1, <2>2
<1>3. place # "tool"
  OBVIOUS
<1>4. run' = [run EXCEPT ![c] = new]
  BY DEF Answer
<1> HIDE DEF steps, act, place
<1>5. Say(new)
  BY <1>1, <1>2, <1>3 DEF Say, Fields
<1> HIDE DEF new
<1>6. UNCHANGED shared
  BY DEF Answer
<1> QED BY <1>4, <1>5, <1>6, OwnMovesAreSafe
-------------------------------------------------------------------------------
\* A place where no tool runs is safe, another for a call that was decided.
LEMMA GoingIsSafe ==
  ASSUME Inv, NEW c \in Caller, NEW pc, Goes(c, pc),
         pc # "tool" \/ (NeedsApproval(c) => run[c].action.by # <<>>)
  PROVE  Inv'
<1>1. Say(run[c])
  BY DEF Inv
<1>2. Say([run[c] EXCEPT !.pc = pc])
  BY <1>1, PlacesAreSafe DEF NeedsApproval
<1>3. run' = [run EXCEPT ![c] = [run[c] EXCEPT !.pc = pc]]
  BY DEF Goes, Inv
<1> QED BY <1>2, <1>3, OwnMovesAreSafe DEF Goes

\* call_with_config and call_resume.
LEMMA CallsAreSafe ==
  ASSUME Inv, NEW c \in Caller, Begin(c) \/ Resume(c)
  PROVE  Inv'
<1>0. Say(run[c]) /\ saved.steps \in Seq(Good) /\ saved.pending \in Seq(Fresh)
  BY DEF Inv
<1>1. CASE Begin(c)
  <2> DEFINE read == Len(Repair(memory))
             new  == NewRun("plan", FALSE, NothingSaved, <<>>, <<>>, run[c].asked)
  <2>1. NothingSaved.steps \in Seq(Good)
    BY DEF NothingSaved
  <2>2. <<>> \in Seq(Fresh) /\ <<>> \in Seq(Decision) /\ run[c].asked \in Seq(Fresh)
    BY <1>0 DEF Say
  <2> HIDE DEF read
  <2>3. Say(new)
    BY <2>1, <2>2, NewRunsAreSafe
  <2>4. run' = [run EXCEPT ![c] = [new EXCEPT !.chat = read]] /\ UNCHANGED shared
    BY <1>1 DEF Begin, Call, read
  <2> HIDE DEF new
  <2>5. Say([new EXCEPT !.chat = read])
    BY <2>3 DEF Say, Fields
  <2> QED BY <2>4, <2>5, OwnMovesAreSafe
<1>2. CASE Resume(c)
  <2>1. PICK decisions \in ResumeInputs(run[c].asked) :
          Call(c, NewRun("runtime_hook", TRUE, saved, saved.pending, decisions,
                         run[c].asked))
    BY <1>2 DEF Resume
  <2>2. run[c].asked \in Seq(Fresh)
    BY <1>0 DEF Say
  <2>3. decisions \in Seq(Decision)
    BY <2>2, ResumeInputsAreDecisions
  <2>4. Say(NewRun("runtime_hook", TRUE, saved, saved.pending, decisions,
                   run[c].asked))
    BY <1>0, <2>2, <2>3, NewRunsAreSafe
  <2> QED BY <2>1, <2>4, OwnMovesAreSafe DEF Call
<1> QED BY <1>1, <1>2

\* What the model answers, at the head of run_loop.
LEMMA PlansAreSafe ==
  ASSUME Inv, NEW c \in Caller, Plans(c)
  PROVE  Inv'
<1>0. Say(run[c]) /\ planned \in Nat
  BY DEF Inv
<1>1. ASSUME NEW batch \in Batches, PlanBatch(c, batch)
      PROVE  Inv'
  <2> DEFINE ids == [i \in DOMAIN batch |-> planned + i]
             actions == [i \in DOMAIN batch |->
                           [id |-> ids[i], tool |-> batch[i], log |-> ids, by |-> <<>>]]
             new == [run[c] EXCEPT !.batch = actions, !.next = 1, !.action = actions[1],
                       !.replay = FALSE, !.chat = run[c].input, !.due = @ \o ids,
                       !.pc = "runtime_hook"]
  <2>1. actions \in Seq(Fresh)
    BY <1>0, PlannedIsFresh
  <2>2. batch # <<>> /\ batch \in Seq(Tool) /\ planned' = planned + Len(batch)
    BY <1>1, AgentAssumption DEF PlanBatch
  <2>3. actions[1] \in Cleared
    <3>1. 1 \in DOMAIN batch /\ DOMAIN actions = DOMAIN batch
      BY <2>2
    <3> HIDE DEF actions
    <3>2. actions[1] \in Fresh
      BY <2>1, <3>1
    <3> QED BY <3>2, FreshIsCleared
  <2>4. run' = [run EXCEPT ![c] = new] /\ saved' = saved
    BY <1>1 DEF PlanBatch
  <2> HIDE DEF actions, ids
  <2>5. Say(new)
    BY <1>0, <2>1, <2>3 DEF Say, Fields
  <2>6. planned' \in Nat /\ saved'.steps \in Seq(Good) /\ saved'.pending \in Seq(Fresh)
    BY <1>0, <2>2, <2>4 DEF Inv
  <2> HIDE DEF new
  <2> QED BY <2>4, <2>5, <2>6, OneCallMoves
<1>2. CASE PlanNothing(c)
  <2> DEFINE place == IF LimitMet(FALSE, run[c].steps) THEN "limit" ELSE "plan"
             new == [run[c] EXCEPT !.replay = FALSE, !.chat = run[c].input, !.pc = place]
  <2>1. run' = [run EXCEPT ![c] = new] /\ UNCHANGED shared
    BY <1>2 DEF PlanNothing
  <2>2. place # "tool"
    OBVIOUS
  <2> HIDE DEF place
  <2>3. Say(new)
    BY <1>0, <2>2 DEF Say, Fields
  <2> HIDE DEF new
  <2> QED BY <2>1, <2>3, OwnMovesAreSafe
<1>3. CASE PlanFinish(c)
  <2> DEFINE new == [run[c] EXCEPT !.chat = run[c].input, !.pc = "finish"]
  <2>1. run' = [run EXCEPT ![c] = new] /\ UNCHANGED shared
    BY <1>3 DEF PlanFinish
  <2>2. Say(new)
    BY <1>0 DEF Say, Fields
  <2> HIDE DEF new
  <2> QED BY <2>1, <2>2, OwnMovesAreSafe
<1> QED BY <1>1, <1>2, <1>3 DEF Plans
-------------------------------------------------------------------------------
\* before_tool_call and before_tool_call_with_runtime of the middleware.
LEMMA HooksAreSafe ==
  ASSUME Inv, NEW c \in Caller, Hooks(c)
  PROVE  Inv'
<1> DEFINE d == NextDecision(c)
<1>0. Say(run[c])
  BY DEF Inv
<1>1. CASE PassHook(c)
  BY <1>1, GoingIsSafe DEF PassHook
<1>2. CASE Approve(c)
  <2> DEFINE new == [Decided(c) EXCEPT !.pc = AfterNone(c)]
  <2>1. HasDecision(c) /\ d.verdict = "approve"
    BY <1>2 DEF Approve, Decides
  <2>2. Lets(d)
    BY <2>1 DEF Lets
  <2>3. run' = [run EXCEPT ![c] = new] /\ UNCHANGED shared
    BY <1>2 DEF Approve
  <2> HIDE DEF d
  <2>4. /\ DOMAIN Decided(c) = Fields
        /\ Decided(c).steps \in Seq(Good) /\ Decided(c).batch \in Seq(Fresh)
        /\ Decided(c).asked \in Seq(Fresh) /\ Decided(c).decisions \in Seq(Decision)
        /\ Decided(c).next \in Nat /\ Decided(c).taken \in Nat
        /\ Decided(c).action \in Cleared /\ Decided(c).action.by # <<>>
    BY <1>0, <2>1, <2>2, DecidedIsSafe DEF d
  <2>5. Say(new)
    BY <2>4 DEF Say, Fields
  <2> HIDE DEF new
  <2> QED BY <2>3, <2>5, OwnMovesAreSafe
<1>3. CASE Edit(c)
  <2> DEFINE act == [Decided(c).action EXCEPT !.tool = d.tool]
             new == [Decided(c) EXCEPT !.action = act, !.pc = "tool"]
  <2>1. HasDecision(c) /\ d.verdict = "edit"
    BY <1>3 DEF Edit, Decides
  <2>2. Lets(d)
    BY <2>1 DEF Lets
  <2>3. UNCHANGED shared
    BY <1>3 DEF Edit
  <2>4. /\ d \in Decision
        /\ DOMAIN Decided(c) = Fields
        /\ Decided(c).steps \in Seq(Good) /\ Decided(c).batch \in Seq(Fresh)
        /\ Decided(c).asked \in Seq(Fresh) /\ Decided(c).decisions \in Seq(Decision)
        /\ Decided(c).next \in Nat /\ Decided(c).taken \in Nat
        /\ Decided(c).action \in Cleared /\ Decided(c).action.by # <<>>
    <3> HIDE DEF d
    <3> QED BY <1>0, <2>1, <2>2, DecidedIsSafe DEF d
  <2>5. run' = [run EXCEPT ![c] = new]
    BY <1>3, <2>4 DEF Edit, Fields
  <2> HIDE DEF d
  <2>6. act \in Cleared /\ act.by # <<>>
    <3>1. Decided(c).action \in Action /\ d.tool \in Tool
      BY <2>4 DEF Cleared, Decision
    <3>2. act \in Action /\ act.by = Decided(c).action.by
      BY <3>1 DEF Action
    <3> QED BY <2>4, <3>2 DEF Cleared
  <2> HIDE DEF act
  <2>7. Say(new)
    BY <2>4, <2>6 DEF Say, Fields
  <2> HIDE DEF new
  <2> QED BY <2>3, <2>5, <2>7, OwnMovesAreSafe
<1>4. CASE Reject(c)
  <2> DEFINE step == [action |-> Decided(c).action, outcome |-> "rejected"]
  <2>1. HasDecision(c) /\ d.verdict = "reject" /\ Answer(c, Decided(c), "rejected")
    BY <1>4 DEF Reject, Decides
  <2>2. ~Lets(d)
    BY <2>1 DEF Lets
  <2> HIDE DEF d
  <2>3. /\ DOMAIN Decided(c) = Fields
        /\ Decided(c).steps \in Seq(Good) /\ Decided(c).batch \in Seq(Fresh)
        /\ Decided(c).asked \in Seq(Fresh) /\ Decided(c).decisions \in Seq(Decision)
        /\ Decided(c).next \in Nat /\ Decided(c).taken \in Nat
        /\ Decided(c).action \in Action
        /\ Decided(c).action.by # <<>>
    BY <1>0, <2>1, DecidedIsSafe
  <2>4. step \in Step
    BY <2>3 DEF Step
  <2>5. Last(Decided(c).action.by) = d
    BY <1>0, <2>1, DecidedIsSafe DEF d
  <2>6. step \in Good
    BY <2>2, <2>3, <2>4, <2>5 DEF Good
  <2> HIDE DEF step
  <2> QED BY <2>1, <2>3, <2>6, AnswerIsSafe DEF step
<1>5. CASE Interrupt(c)
  <2> DEFINE place == IF run[c].resumed THEN "interrupt_error" ELSE "interrupted"
             new   == [run[c] EXCEPT !.asked = run[c].batch, !.pc = place]
  <2>1. run' = [run EXCEPT ![c] = new] /\ planned' = planned
    BY <1>5 DEF Interrupt
  <2>2. place # "tool"
    OBVIOUS
  <2>3. saved'.steps \in Seq(Good) /\ saved'.pending \in Seq(Fresh)
    BY <1>0, <1>5 DEF Interrupt, Pending, Say, Inv
  <2> HIDE DEF place
  <2>4. Say(new)
    BY <1>0, <2>2 DEF Say, Fields
  <2>5. planned' \in Nat
    BY <2>1 DEF Inv
  <2> HIDE DEF new
  <2> QED BY <2>1, <2>3, <2>4, <2>5, OneCallMoves
<1> QED BY <1>1, <1>2, <1>3, <1>4, <1>5 DEF Hooks

\* A tool that runs has passed the hook; its step is a good one.
LEMMA ToolsAreSafe ==
  ASSUME Inv, NEW c \in Caller, Tools(c)
  PROVE  Inv'
<1>0. Say(run[c])
  BY DEF Inv
<1>1. ASSUME NEW outcome \in {"ran", "failed"}, At(c, "tool"), Answer(c, run[c], outcome)
      PROVE  Inv'
  <2> DEFINE step == [action |-> run[c].action, outcome |-> outcome]
  <2>1. run[c].action \in Cleared
    BY <1>0 DEF Say
  <2>2. run[c].action.tool \in Guarded => run[c].action.by # <<>>
    BY <1>0, <1>1 DEF Say, At
  <2>3. step \in Step
    BY <2>1 DEF Step, Cleared
  <2>4. step \in Good
    BY <2>1, <2>2, <2>3 DEF Good
  <2> HIDE DEF step
  <2> QED BY <1>0, <1>1, <2>4, AnswerIsSafe DEF Say, step
<1>2. CASE ToolReturns(c)
  BY <1>2, <1>1 DEF ToolReturns
<1>3. CASE ToolFails(c)
  BY <1>3, <1>1, GoingIsSafe DEF ToolFails
<1>4. CASE ToolMissing(c)
  BY <1>4, GoingIsSafe DEF ToolMissing
<1> QED BY <1>2, <1>3, <1>4 DEF Tools

\* The steps that end a call.
Ends(c) ==
  WriteMemory(c) \/ WriteMemoryFails(c) \/ Return(c) \/ Fails(c) \/ Cancel(c)

\* No other step of a call touches its steps or its decisions.
LEMMA EndsAreSafe ==
  ASSUME Inv, NEW c \in Caller, Ends(c)
  PROVE  Inv'
<1>1. CASE WriteMemory(c)
  <2>1. Say([run[c] EXCEPT !.pc = "after_finish"])
    BY PlacesAreSafe DEF Inv
  <2>2. run' = [run EXCEPT ![c] = [run[c] EXCEPT !.pc = "after_finish"]]
    BY <1>1 DEF WriteMemory, Inv
  <2>3. saved'.steps \in Seq(Good) /\ saved'.pending \in Seq(Fresh) /\ planned' \in Nat
    BY <1>1 DEF WriteMemory, Inv
  <2> QED BY <2>1, <2>2, <2>3, OneCallMoves
<1>2. CASE WriteMemoryFails(c)
  <2>1. Say([run[c] EXCEPT !.pc = "failed"])
    BY PlacesAreSafe DEF Inv
  <2>2. run' = [run EXCEPT ![c] = [run[c] EXCEPT !.pc = "failed"]]
    BY <1>2 DEF WriteMemoryFails, Inv
  <2>3. saved'.steps \in Seq(Good) /\ saved'.pending \in Seq(Fresh) /\ planned' \in Nat
    BY <1>2 DEF WriteMemoryFails, Inv
  <2> QED BY <2>1, <2>2, <2>3, OneCallMoves
<1>3. CASE Return(c)
  BY <1>3, GoingIsSafe DEF Return
<1>4. CASE Fails(c)
  BY <1>4, GoingIsSafe DEF Fails
<1>5. CASE Cancel(c)
  BY <1>5, GoingIsSafe DEF Cancel
<1> QED BY <1>1, <1>2, <1>3, <1>4, <1>5 DEF Ends

\* Nothing has been planned, run or saved.
LEMMA InitiallySafe == Init => Inv
<1> SUFFICES ASSUME Init
             PROVE  Inv
  OBVIOUS
<1> DEFINE none == NewRun("idle", FALSE, NothingSaved, <<>>, <<>>, <<>>)
<1>1. NothingSaved.steps \in Seq(Good) /\ NothingSaved.pending \in Seq(Fresh)
  BY DEF NothingSaved
<1>2. <<>> \in Seq(Fresh) /\ <<>> \in Seq(Decision)
  OBVIOUS
<1>3. Say(none)
  BY <1>1, <1>2, NewRunsAreSafe
<1>4. run = [c \in Caller |-> none] /\ saved = NothingSaved /\ planned = 0
  BY DEF Init
<1> HIDE DEF none
<1> QED BY <1>1, <1>3, <1>4 DEF Inv

\* Every step of every caller keeps the invariant.
LEMMA StepsAreSafe == Inv /\ [Next]_vars => Inv'
<1> SUFFICES ASSUME Inv, [Next]_vars
             PROVE  Inv'
  OBVIOUS
<1>1. CASE UNCHANGED vars
  BY <1>1 DEF vars, shared, Inv
<1>2. CASE Next
  BY <1>2, CallsAreSafe, PlansAreSafe, HooksAreSafe, ToolsAreSafe, EndsAreSafe
     DEF Next, Loop, Ends
<1> QED BY <1>1, <1>2

\* What is true of the steps a call holds is what the property asks of them.
LEMMA SafeIsApproved == Inv => ApprovedToolsOnly
<1> SUFFICES ASSUME Inv, NEW c \in Caller, NEW s \in ToSet(run[c].steps)
             PROVE  IF s.outcome = "rejected"
                      THEN ~Lets(Last(s.action.by))
                      ELSE /\ s.action.tool \in Guarded => s.action.by # <<>>
                           /\ \A d \in ToSet(s.action.by) : Lets(d)
  BY DEF ApprovedToolsOnly
<1>1. run[c].steps \in Seq(Good)
  BY DEF Inv, Say
<1>2. s \in Good
  BY <1>1 DEF ToSet
<1>3. CASE s.outcome = "rejected"
  BY <1>2, <1>3 DEF Good
<1>4. CASE s.outcome # "rejected"
  <2>1. s.action \in Cleared /\ (s.action.tool \in Guarded => s.action.by # <<>>)
    BY <1>2, <1>4 DEF Good
  <2>2. s.action.by \in Seq(Letting)
    BY <2>1 DEF Cleared
  <2>3. \A d \in ToSet(s.action.by) : Lets(d)
    BY <2>2 DEF ToSet, Letting
  <2> QED BY <1>4, <2>1, <2>3
<1> QED BY <1>3, <1>4

\* The invariant holds in every state of the agent.
LEMMA SafeAlways == Spec => []Inv
<1>1. Init => Inv
  BY InitiallySafe
<1>2. Inv /\ [Next]_vars => Inv'
  BY StepsAreSafe
<1> QED BY <1>1, <1>2, PTL DEF Spec

(***************************************************************************)
(* The human's say, for any tools, batches, callers and bounds: a guarded  *)
(* tool runs after a decision that lets it, a rejected call does not run.  *)
(***************************************************************************)
THEOREM HumansHaveTheirSay == Spec => []ApprovedToolsOnly
<1>1. Inv => ApprovedToolsOnly
  BY SafeIsApproved
<1> QED BY <1>1, SafeAlways, PTL
-------------------------------------------------------------------------------
(***************************************************************************)
(* Every planned call of a tool is answered once, and in the order of the  *)
(* model's request, before the model is asked again.  The invariant        *)
(* counts: what a call has answered since it began, and what is left of    *)
(* its batch, is what it owes, in that order.                              *)
(***************************************************************************)
AtBatch == {"runtime_hook", "hook", "tool"}
Settled == {"plan", "finish"}

Own(r) == Len(r.steps) - r.base

\* What was answered is the beginning of what is due.
OwnInOrder(r) ==
  /\ r.base \in Nat /\ r.base <= Len(r.steps)
  /\ r.due \in Seq(Nat)
  /\ Own(r) <= Len(r.due)
  /\ \A i \in 1..Own(r) : r.steps[r.base + i].action.id = r.due[i]

\* The rest of the batch is the rest of it.
RestInOrder(r) ==
  /\ r.next \in 1..Len(r.batch)
  /\ Own(r) + Len(r.batch) - r.next + 1 = Len(r.due)
  /\ \A i \in r.next..Len(r.batch) : r.due[Own(r) + 1 + i - r.next] = r.batch[i].id
  /\ r.action.id = r.batch[r.next].id

Order(r) ==
  /\ OwnInOrder(r)
  /\ r.pc \in AtBatch => RestInOrder(r)
  /\ r.pc \in Settled => Own(r) = Len(r.due)

Ordered == \A c \in Caller : Order(run[c])
-------------------------------------------------------------------------------
\* A step that changes one call keeps the others in order.
LEMMA OneCallKeepsOrder ==
  ASSUME Inv, Ordered, NEW c \in Caller, NEW r, Order(r), run' = [run EXCEPT ![c] = r]
  PROVE  Ordered'
<1>1. \A d \in Caller : run'[d] = IF d = c THEN r ELSE run[d]
  BY DEF Inv
<1>2. \A d \in Caller : Order(run'[d])
  BY <1>1 DEF Ordered
<1> QED BY <1>2 DEF Ordered, Order, OwnInOrder, RestInOrder, Own

\* A call that goes on with the same steps, batch and dues.
LEMMA SameCallIsInOrder ==
  ASSUME NEW r, NEW s, Order(r),
         s.steps = r.steps, s.base = r.base, s.due = r.due, s.batch = r.batch,
         s.next = r.next, s.action.id = r.action.id,
         s.pc \in AtBatch => r.pc \in AtBatch,
         s.pc \in Settled => r.pc \in Settled
  PROVE  Order(s)
<1>1. Own(s) = Own(r)
  BY DEF Own
<1>2. OwnInOrder(s)
  BY <1>1 DEF Order, OwnInOrder
<1>3. s.pc \in AtBatch => RestInOrder(s)
  BY <1>1 DEF Order, RestInOrder
<1> QED BY <1>1, <1>2, <1>3 DEF Order

\* To another place of the same call.
LEMMA GoingKeepsOrder ==
  ASSUME Inv, Ordered, NEW c \in Caller, NEW pc, Goes(c, pc),
         pc \in AtBatch => run[c].pc \in AtBatch,
         pc \in Settled => run[c].pc \in Settled
  PROVE  Ordered'
<1> DEFINE s == [run[c] EXCEPT !.pc = pc]
<1>1. run' = [run EXCEPT ![c] = s]
  BY DEF Goes, Inv
<1>2. /\ s.steps = run[c].steps /\ s.base = run[c].base /\ s.due = run[c].due
      /\ s.batch = run[c].batch /\ s.next = run[c].next /\ s.action = run[c].action
      /\ s.pc = pc
  BY DEF Inv, Say, Fields
<1> HIDE DEF s
<1>3. Order(s)
  BY <1>2, SameCallIsInOrder DEF Ordered
<1> QED BY <1>1, <1>3, OneCallKeepsOrder

\* A new call owes its batch, and has answered nothing of it.
LEMMA NewRunsAreInOrder ==
  ASSUME NEW pc, NEW resumed, NEW state, state.steps \in Seq(Good),
         NEW batch \in Seq(Fresh), NEW decisions, NEW asked,
         pc \in AtBatch => batch # <<>>,
         pc \in Settled => batch = <<>>
  PROVE  Order(NewRun(pc, resumed, state, batch, decisions, asked))
<1> DEFINE r == NewRun(pc, resumed, state, batch, decisions, asked)
<1>1. /\ r.pc = pc /\ r.steps = state.steps /\ r.base = Len(state.steps)
      /\ r.batch = batch /\ r.next = 1 /\ r.due = Ids(batch)
      /\ r.action = IF batch = <<>> THEN NoAction ELSE batch[1]
  BY DEF NewRun
<1> HIDE DEF r
<1>2. Len(state.steps) \in Nat /\ Own(r) = 0
  BY <1>1 DEF Own
<1>3. \A i \in 1..Len(batch) : batch[i].id \in Nat
  BY DEF Fresh, Action
<1>4. Ids(batch) \in Seq(Nat) /\ Len(Ids(batch)) = Len(batch)
      /\ \A i \in 1..Len(batch) : Ids(batch)[i] = batch[i].id
  <2>1. Ids(batch) \in [1..Len(batch) -> Nat]
    BY <1>3 DEF Ids
  <2> QED BY <2>1 DEF Ids
<1>5. OwnInOrder(r)
  BY <1>1, <1>2, <1>4 DEF OwnInOrder
<1>6. ASSUME batch # <<>>
      PROVE  RestInOrder(r)
  <2>1. Len(batch) \in Nat \ {0}
    BY <1>6
  <2> QED BY <1>1, <1>2, <1>4, <1>6, <2>1 DEF RestInOrder
<1>7. batch = <<>> => Len(r.due) = 0
  BY <1>1, <1>4
<1>8. Order(r)
  BY <1>1, <1>2, <1>5, <1>6, <1>7 DEF Order
<1> QED BY <1>8 DEF r

\* The model plans a batch: it is due after all that was answered.
LEMMA PlannedIsInOrder ==
  ASSUME NEW r, NEW s, Order(r), r.steps \in Seq(Good), Own(r) = Len(r.due),
         NEW ids \in Seq(Nat), ids # <<>>, NEW batch \in Seq(Fresh),
         Len(batch) = Len(ids), \A i \in 1..Len(ids) : batch[i].id = ids[i],
         s.steps = r.steps, s.base = r.base, s.due = r.due \o ids, s.batch = batch,
         s.next = 1, s.action = batch[1], s.pc = "runtime_hook"
  PROVE  Order(s)
<1>0. PICK n \in Nat, m \in Nat \ {0} : n = Len(r.due) /\ m = Len(ids)
  BY DEF Order, OwnInOrder
<1>1. r.due \in Seq(Nat) /\ Own(s) = n
  BY <1>0 DEF Own, Order, OwnInOrder
<1>2. /\ s.due \in Seq(Nat) /\ Len(s.due) = n + m
      /\ \A i \in 1..n : s.due[i] = r.due[i]
      /\ \A i \in 1..m : s.due[n + i] = ids[i]
  BY <1>0, <1>1
<1>3. OwnInOrder(s)
  <2>1. /\ s.base \in Nat /\ s.base <= Len(s.steps)
        /\ \A i \in 1..n : s.steps[s.base + i].action.id = r.due[i]
    BY <1>0 DEF Order, OwnInOrder
  <2>2. n <= n + m
    OBVIOUS
  <2> QED BY <1>1, <1>2, <2>1, <2>2 DEF OwnInOrder
<1>4. RestInOrder(s)
  <2>1. /\ s.next = 1 /\ s.batch = batch /\ Len(s.batch) = m /\ s.action = s.batch[1]
        /\ 1 \in 1..m
    BY <1>0
  <2>2. n + m - 1 + 1 = n + m
    OBVIOUS
  <2>3. ASSUME NEW i \in 1..m
        PROVE  s.due[n + 1 + i - 1] = s.batch[i].id
    <3>1. n + 1 + i - 1 = n + i
      OBVIOUS
    <3>2. s.due[n + i] = ids[i]
      BY <1>2
    <3>3. s.batch[i].id = ids[i]
      BY <1>0, <2>1
    <3> QED BY <3>1, <3>2, <3>3
  <2> QED BY <1>1, <1>2, <2>1, <2>2, <2>3 DEF RestInOrder
<1>5. s.pc \notin Settled
  BY DEF Settled
<1> QED BY <1>3, <1>4, <1>5 DEF Order

\* The call that has its turn is answered: it was the next one due.
LEMMA AnsweredIsInOrder ==
  ASSUME NEW r, NEW s, Order(r), r.steps \in Seq(Good), r.batch \in Seq(Fresh),
         r.pc \in AtBatch, NEW step, s.steps = Append(r.steps, step),
         step.action.id = r.action.id,
         s.base = r.base, s.due = r.due, s.batch = r.batch, s.next = r.next + 1,
         IF r.next < Len(r.batch)
           THEN s.pc = "runtime_hook" /\ s.action = r.batch[r.next + 1]
           ELSE s.pc \in {"limit", "plan"}
  PROVE  Order(s)
<1>0. PICK n \in Nat, b \in Nat, m \in Nat, k \in Nat :
        /\ k \in 1..m
        /\ b = r.base /\ n = Own(r) /\ m = Len(r.batch) /\ k = r.next
        /\ Len(r.steps) = b + n
  <2>1. Len(r.steps) \in Nat /\ Len(r.batch) \in Nat
    OBVIOUS
  <2>2. r.base \in Nat /\ r.base <= Len(r.steps) /\ r.next \in 1..Len(r.batch)
    BY DEF Order, OwnInOrder, RestInOrder
  <2>3. Own(r) \in Nat /\ Len(r.steps) = r.base + Own(r)
    BY <2>1, <2>2 DEF Own
  <2> QED BY <2>1, <2>2, <2>3
<1>1. 1 <= k /\ k <= m
  BY <1>0
<1>2. n + m - k + 1 = Len(r.due) /\ r.due \in Seq(Nat)
  BY <1>0 DEF Order, OwnInOrder, RestInOrder
<1>3. /\ Len(s.steps) = b + n + 1 /\ s.steps[b + n + 1] = step
      /\ \A i \in 1..(b + n) : s.steps[i] = r.steps[i]
  <2> DEFINE all == r.steps
  <2>1. all \in Seq(Good) /\ Len(all) = b + n /\ s.steps = Append(all, step)
    BY <1>0
  <2> HIDE DEF all
  <2>2. /\ Len(s.steps) = b + n + 1 /\ s.steps[b + n + 1] = step
        /\ \A i \in 1..(b + n) : s.steps[i] = all[i]
    BY <2>1
  <2> QED BY <2>2 DEF all
<1>4. Own(s) = n + 1
  BY <1>0, <1>3 DEF Own
<1>5. /\ \A i \in 1..n : r.steps[b + i].action.id = r.due[i]
      /\ \A i \in k..m : r.due[n + 1 + i - k] = r.batch[i].id
      /\ r.action.id = r.batch[k].id
  BY <1>0 DEF Order, OwnInOrder, RestInOrder
<1>6. step.action.id = r.due[n + 1]
  <2>1. n + 1 + k - k = n + 1 /\ k \in k..m
    BY <1>1
  <2> QED BY <1>5, <2>1
<1>7. ASSUME NEW i \in 1..(n + 1)
      PROVE  s.steps[b + i].action.id = r.due[i]
  <2>1. CASE i = n + 1
    <3>1. b + i = b + n + 1
      BY <2>1
    <3> QED BY <1>3, <1>6, <2>1, <3>1
  <2>2. CASE i # n + 1
    <3>1. i \in 1..n /\ b + i \in 1..(b + n)
      BY <2>2
    <3> QED BY <1>3, <1>5, <3>1
  <2> QED BY <2>1, <2>2
<1>8. OwnInOrder(s)
  <2>1. b <= b + n + 1 /\ n + 1 <= n + m - k + 1
    BY <1>1
  <2> QED BY <1>0, <1>2, <1>3, <1>4, <1>7, <2>1 DEF OwnInOrder
<1>9. CASE k < m
  <2>1. s.pc = "runtime_hook" /\ s.action = r.batch[k + 1]
    BY <1>0, <1>9
  <2>2. k + 1 \in 1..m /\ n + 1 + m - (k + 1) + 1 = n + m - k + 1
    BY <1>1, <1>9
  <2>3. ASSUME NEW i \in (k + 1)..m
        PROVE  r.due[n + 1 + 1 + i - (k + 1)] = r.batch[i].id
    <3>1. i \in k..m /\ n + 1 + 1 + i - (k + 1) = n + 1 + i - k
      BY <1>1
    <3> QED BY <1>5, <3>1
  <2>4. s.next = k + 1 /\ Len(s.batch) = m
    BY <1>0
  <2>5. RestInOrder(s)
    BY <1>2, <1>4, <2>1, <2>2, <2>3, <2>4 DEF RestInOrder
  <2> QED BY <1>8, <2>1, <2>5 DEF Order, AtBatch, Settled
<1>10. CASE ~(k < m)
  <2>1. s.pc \in {"limit", "plan"}
    BY <1>0, <1>10
  <2>2. n + 1 = n + m - k + 1
    BY <1>1, <1>10
  <2>3. Own(s) = Len(s.due)
    BY <1>2, <1>4, <2>2
  <2> QED BY <1>8, <2>1, <2>3 DEF Order, AtBatch, Settled
<1> QED BY <1>9, <1>10
-------------------------------------------------------------------------------
\* call_with_config and call_resume.
LEMMA CallsKeepOrder ==
  ASSUME Inv, Ordered, NEW c \in Caller, Begin(c) \/ Resume(c)
  PROVE  Ordered'
<1>1. CASE Begin(c)
  <2> DEFINE new == NewRun("plan", FALSE, NothingSaved, <<>>, <<>>, run[c].asked)
             s   == [new EXCEPT !.chat = Len(Repair(memory))]
  <2>1. NothingSaved.steps \in Seq(Good) /\ <<>> \in Seq(Fresh)
    BY DEF NothingSaved
  <2>2. Order(new)
    BY <2>1, NewRunsAreInOrder DEF AtBatch, Settled
  <2>3. run' = [run EXCEPT ![c] = s]
    BY <1>1 DEF Begin, Call
  <2>4. /\ s.steps = new.steps /\ s.base = new.base /\ s.due = new.due
        /\ s.batch = new.batch /\ s.next = new.next /\ s.action = new.action
        /\ s.pc = new.pc
    BY DEF NewRun
  <2> HIDE DEF s, new
  <2>5. Order(s)
    BY <2>2, <2>4, SameCallIsInOrder
  <2> QED BY <2>3, <2>5, OneCallKeepsOrder
<1>2. CASE Resume(c)
  <2>1. PICK decisions \in ResumeInputs(run[c].asked) :
          Call(c, NewRun("runtime_hook", TRUE, saved, saved.pending, decisions,
                         run[c].asked))
    BY <1>2 DEF Resume
  <2>2. /\ saved.pending # <<>> /\ saved.steps \in Seq(Good)
        /\ saved.pending \in Seq(Fresh)
    BY <1>2 DEF Resume, Inv
  <2>3. Order(NewRun("runtime_hook", TRUE, saved, saved.pending, decisions, run[c].asked))
    BY <2>2, NewRunsAreInOrder DEF AtBatch, Settled
  <2> QED BY <2>1, <2>3, OneCallKeepsOrder DEF Call
<1> QED BY <1>1, <1>2

\* What the model answers, at the head of run_loop.
LEMMA PlansKeepOrder ==
  ASSUME Inv, Ordered, NEW c \in Caller, Plans(c)
  PROVE  Ordered'
<1>0. Say(run[c]) /\ planned \in Nat /\ Order(run[c])
  BY DEF Inv, Ordered
<1>1. ASSUME NEW batch \in Batches, PlanBatch(c, batch)
      PROVE  Ordered'
  <2> DEFINE ids == [i \in DOMAIN batch |-> planned + i]
             actions == [i \in DOMAIN batch |->
                           [id |-> ids[i], tool |-> batch[i], log |-> ids, by |-> <<>>]]
             new == [run[c] EXCEPT !.batch = actions, !.next = 1, !.action = actions[1],
                       !.replay = FALSE, !.chat = run[c].input, !.due = @ \o ids,
                       !.pc = "runtime_hook"]
  <2>1. batch # <<>> /\ batch \in Seq(Tool)
    BY <1>1, AgentAssumption DEF PlanBatch
  <2>2. ids \in Seq(Nat) /\ Len(ids) = Len(batch) /\ ids # <<>>
    <3>1. ids \in [1..Len(batch) -> Nat]
      BY <1>0, <2>1
    <3> QED BY <2>1, <3>1
  <2>3. actions \in Seq(Fresh)
    BY <1>0, PlannedIsFresh
  <2>4. Len(actions) = Len(ids) /\ \A i \in 1..Len(ids) : actions[i].id = ids[i]
    <3>1. DOMAIN actions = 1..Len(batch)
      BY <2>1
    <3>2. Len(actions) = Len(batch)
      BY <2>1, <2>3, <3>1
    <3>3. \A i \in DOMAIN batch : actions[i].id = ids[i]
      OBVIOUS
    <3> QED BY <2>1, <2>2, <3>2, <3>3
  <2>5. run' = [run EXCEPT ![c] = new]
    BY <1>1 DEF PlanBatch
  <2>6. Own(run[c]) = Len(run[c].due)
    BY <1>0, <1>1 DEF PlanBatch, At, Order, Settled
  <2> HIDE DEF actions, ids
  <2>7. /\ new.steps = run[c].steps /\ new.base = run[c].base
        /\ new.due = run[c].due \o ids /\ new.batch = actions /\ new.next = 1
        /\ new.action = actions[1] /\ new.pc = "runtime_hook"
    BY <1>0 DEF Say, Fields
  <2> HIDE DEF new
  <2>8. run[c].steps \in Seq(Good)
    BY <1>0 DEF Say
  <2>9. Order(new)
    BY <1>0, <2>2, <2>3, <2>4, <2>6, <2>7, <2>8, PlannedIsInOrder
  <2> QED BY <2>5, <2>9, OneCallKeepsOrder
<1>2. CASE PlanNothing(c) \/ PlanFinish(c)
  <2>1. PICK pc \in {"plan", "limit", "finish"}, replay \in {FALSE, run[c].replay} :
          run' = [run EXCEPT ![c] =
                    [run[c] EXCEPT !.replay = replay, !.chat = run[c].input, !.pc = pc]]
    <3>1. CASE PlanNothing(c)
      BY <3>1 DEF PlanNothing
    <3>2. CASE PlanFinish(c)
      <4>1. run' = [run EXCEPT ![c] = [run[c] EXCEPT !.chat = run[c].input, !.pc = "finish"]]
        BY <3>2 DEF PlanFinish
      <4>2. [run[c] EXCEPT !.chat = run[c].input, !.pc = "finish"]
              = [run[c] EXCEPT !.replay = run[c].replay, !.chat = run[c].input, !.pc = "finish"]
        BY <1>0 DEF Say, Fields
      <4> QED BY <4>1, <4>2
    <3> QED BY <1>2, <3>1, <3>2
  <2> DEFINE s == [run[c] EXCEPT !.replay = replay, !.chat = run[c].input, !.pc = pc]
  <2>2. /\ s.steps = run[c].steps /\ s.base = run[c].base /\ s.due = run[c].due
        /\ s.batch = run[c].batch /\ s.next = run[c].next /\ s.action = run[c].action
        /\ s.pc = pc
    BY <1>0 DEF Say, Fields
  <2>3. run' = [run EXCEPT ![c] = s]
    BY <2>1
  <2>4. run[c].pc = "plan"
    BY <1>2 DEF PlanNothing, PlanFinish, At
  <2> HIDE DEF s
  <2>5. Order(s)
    BY <1>0, <2>1, <2>2, <2>4, SameCallIsInOrder DEF AtBatch, Settled
  <2> QED BY <2>3, <2>5, OneCallKeepsOrder
<1> QED BY <1>1, <1>2 DEF Plans
-------------------------------------------------------------------------------
\* An answer, of whatever outcome, to the call that has its turn.
LEMMA AnswersKeepOrder ==
  ASSUME Inv, Ordered, NEW c \in Caller, NEW r, NEW outcome, DOMAIN r = Fields,
         Order(r), r.steps \in Seq(Good), r.batch \in Seq(Fresh), r.pc \in AtBatch,
         Answer(c, r, outcome)
  PROVE  Ordered'
<1> DEFINE step  == [action |-> r.action, outcome |-> outcome]
           steps == Answered(r, outcome)
           more  == r.next < Len(r.batch)
           act   == IF more THEN r.batch[r.next + 1] ELSE NoAction
           place == CASE more -> "runtime_hook"
                      [] ~more /\ LimitMet(r.replay, steps) -> "limit"
                      [] OTHER -> "plan"
           new   == [r EXCEPT !.steps = steps, !.next = @ + 1, !.action = act, !.pc = place]
<1>1. run' = [run EXCEPT ![c] = new]
  BY DEF Answer
<1>2. steps = Append(r.steps, step) /\ step.action.id = r.action.id
  BY DEF Answered
<1>3. IF more THEN place = "runtime_hook" /\ act = r.batch[r.next + 1]
              ELSE place \in {"limit", "plan"}
  OBVIOUS
<1> HIDE DEF steps, act, place, step
<1>4. /\ new.steps = steps /\ new.base = r.base /\ new.due = r.due
      /\ new.batch = r.batch /\ new.next = r.next + 1 /\ new.action = act
      /\ new.pc = place
  BY DEF Fields
<1> HIDE DEF new
<1>5. Order(new)
  BY <1>2, <1>3, <1>4, AnsweredIsInOrder
<1> QED BY <1>1, <1>5, OneCallKeepsOrder

\* A decision changes neither what a call owes nor which call has its turn.
LEMMA DecidedIsInOrder ==
  ASSUME NEW c \in Caller, Say(run[c]), Order(run[c]), HasDecision(c),
         run[c].pc \in AtBatch
  PROVE  /\ DOMAIN Decided(c) = Fields /\ Order(Decided(c))
         /\ Decided(c).pc = run[c].pc /\ Decided(c).action \in Action
<1> DEFINE by == Append(run[c].action.by, NextDecision(c))
           new == [run[c].action EXCEPT !.by = by]
           s == Decided(c)
<1>1. run[c].action \in Action
  BY DEF Say, Cleared
<1> HIDE DEF by
<1>2. new.id = run[c].action.id
  BY <1>1 DEF Action
<1>3. s = [run[c] EXCEPT !.action = new, !.taken = @ + 1]
  BY DEF Decided, by, Say, Fields
<1> HIDE DEF new, s
<1>4. /\ s.steps = run[c].steps /\ s.base = run[c].base /\ s.due = run[c].due
      /\ s.batch = run[c].batch /\ s.next = run[c].next /\ s.action = new
      /\ s.pc = run[c].pc
  BY <1>3 DEF Say, Fields
<1>5. Order(s)
  BY <1>2, <1>4, SameCallIsInOrder
<1>6. Order(Decided(c)) /\ Decided(c).pc = run[c].pc
  BY <1>4, <1>5 DEF s
<1> QED BY <1>6, DecidedIsSafe

\* before_tool_call and before_tool_call_with_runtime of the middleware.
LEMMA HooksKeepOrder ==
  ASSUME Inv, Ordered, NEW c \in Caller, Hooks(c)
  PROVE  Ordered'
<1>0. Say(run[c]) /\ Order(run[c])
  BY DEF Inv, Ordered
<1>1. CASE PassHook(c)
  <2>1. run[c].pc \in AtBatch /\ AfterNone(c) \in AtBatch
    BY <1>1 DEF PassHook, AtHook, AfterNone, AtBatch
  <2>2. AfterNone(c) \notin Settled
    BY <2>1 DEF AtBatch, Settled
  <2> QED BY <1>1, <2>1, <2>2, GoingKeepsOrder DEF PassHook
<1>2. CASE Approve(c)
  <2> DEFINE new == [Decided(c) EXCEPT !.pc = AfterNone(c)]
  <2>1. HasDecision(c) /\ run[c].pc \in AtBatch
    BY <1>2 DEF Approve, Decides, AtHook, AtBatch
  <2>2. /\ DOMAIN Decided(c) = Fields /\ Order(Decided(c))
        /\ Decided(c).pc = run[c].pc
    BY <1>0, <2>1, DecidedIsInOrder
  <2>3. run' = [run EXCEPT ![c] = new]
    BY <1>2 DEF Approve
  <2>4. /\ new.steps = Decided(c).steps /\ new.base = Decided(c).base
        /\ new.due = Decided(c).due /\ new.batch = Decided(c).batch
        /\ new.next = Decided(c).next /\ new.action = Decided(c).action
        /\ new.pc = AfterNone(c)
    BY <2>2 DEF Fields
  <2>5. AfterNone(c) \in AtBatch /\ AfterNone(c) \notin Settled
    BY DEF AfterNone, AtBatch, Settled
  <2> HIDE DEF new
  <2>6. Order(new)
    BY <2>1, <2>2, <2>4, <2>5, SameCallIsInOrder
  <2> QED BY <2>3, <2>6, OneCallKeepsOrder
<1>3. CASE Edit(c)
  <2> DEFINE d == NextDecision(c)
             act == [Decided(c).action EXCEPT !.tool = d.tool]
             new == [Decided(c) EXCEPT !.action = act, !.pc = "tool"]
  <2>1. HasDecision(c) /\ run[c].pc \in AtBatch
    BY <1>3 DEF Edit, Decides, AtHook, AtBatch
  <2>2. /\ DOMAIN Decided(c) = Fields /\ Order(Decided(c))
        /\ Decided(c).pc = run[c].pc /\ Decided(c).action \in Action
    BY <1>0, <2>1, DecidedIsInOrder
  <2>3. run' = [run EXCEPT ![c] = new]
    BY <1>3, <2>2 DEF Edit, Fields
  <2> HIDE DEF d
  <2>4. act.id = Decided(c).action.id
    BY <2>2 DEF Action
  <2> HIDE DEF act
  <2>5. /\ new.steps = Decided(c).steps /\ new.base = Decided(c).base
        /\ new.due = Decided(c).due /\ new.batch = Decided(c).batch
        /\ new.next = Decided(c).next /\ new.action = act /\ new.pc = "tool"
    BY <2>2 DEF Fields
  <2> HIDE DEF new
  <2>6. Order(new)
    BY <2>1, <2>2, <2>4, <2>5, SameCallIsInOrder DEF AtBatch, Settled
  <2> QED BY <2>3, <2>6, OneCallKeepsOrder
<1>4. CASE Reject(c)
  <2>1. HasDecision(c) /\ run[c].pc \in AtBatch /\ Answer(c, Decided(c), "rejected")
    BY <1>4 DEF Reject, Decides, AtHook, AtBatch
  <2>2. /\ DOMAIN Decided(c) = Fields /\ Order(Decided(c))
        /\ Decided(c).pc = run[c].pc
    BY <1>0, <2>1, DecidedIsInOrder
  <2>3. Decided(c).steps \in Seq(Good) /\ Decided(c).batch \in Seq(Fresh)
    BY <1>0, <2>1, DecidedIsSafe
  <2> QED BY <2>1, <2>2, <2>3, AnswersKeepOrder
<1>5. CASE Interrupt(c)
  <2> DEFINE place == IF run[c].resumed THEN "interrupt_error" ELSE "interrupted"
             new   == [run[c] EXCEPT !.asked = run[c].batch, !.pc = place]
  <2>1. run' = [run EXCEPT ![c] = new]
    BY <1>5 DEF Interrupt
  <2>2. place \notin AtBatch /\ place \notin Settled
    BY DEF AtBatch, Settled
  <2> HIDE DEF place
  <2>3. /\ new.steps = run[c].steps /\ new.base = run[c].base /\ new.due = run[c].due
        /\ new.batch = run[c].batch /\ new.next = run[c].next
        /\ new.action = run[c].action /\ new.pc = place
    BY <1>0 DEF Say, Fields
  <2> HIDE DEF new
  <2>4. Order(new)
    BY <1>0, <2>2, <2>3, SameCallIsInOrder
  <2> QED BY <2>1, <2>4, OneCallKeepsOrder
<1> QED BY <1>1, <1>2, <1>3, <1>4, <1>5 DEF Hooks

\* Whatever a tool answers, its call is answered or the whole call fails.
LEMMA ToolsKeepOrder ==
  ASSUME Inv, Ordered, NEW c \in Caller, Tools(c)
  PROVE  Ordered'
<1>0. /\ Say(run[c]) /\ Order(run[c])
      /\ DOMAIN run[c] = Fields /\ run[c].steps \in Seq(Good) /\ run[c].batch \in Seq(Fresh)
  BY DEF Inv, Ordered, Say
<1>1. run[c].pc \in AtBatch
  BY DEF Tools, ToolReturns, ToolFails, ToolMissing, At, AtBatch
<1>2. CASE ToolReturns(c)
  BY <1>0, <1>1, <1>2, AnswersKeepOrder DEF ToolReturns
<1>3. CASE ToolFails(c)
  BY <1>0, <1>1, <1>3, AnswersKeepOrder, GoingKeepsOrder DEF ToolFails, AtBatch, Settled
<1>4. CASE ToolMissing(c)
  BY <1>4, GoingKeepsOrder DEF ToolMissing, AtBatch, Settled
<1> QED BY <1>2, <1>3, <1>4 DEF Tools

\* A call that ends owes nothing more to the model.
LEMMA EndsKeepOrder ==
  ASSUME Inv, Ordered, NEW c \in Caller, Ends(c)
  PROVE  Ordered'
<1>1. CASE WriteMemory(c) \/ WriteMemoryFails(c)
  <2>1. PICK pc \in {"after_finish", "failed"} :
          run' = [run EXCEPT ![c] = [run[c] EXCEPT !.pc = pc]]
    BY <1>1 DEF WriteMemory, WriteMemoryFails, Inv
  <2> DEFINE s == [run[c] EXCEPT !.pc = pc]
  <2>2. /\ s.steps = run[c].steps /\ s.base = run[c].base /\ s.due = run[c].due
        /\ s.batch = run[c].batch /\ s.next = run[c].next /\ s.action = run[c].action
        /\ s.pc \in {"after_finish", "failed"}
    BY DEF Inv, Say, Fields
  <2> HIDE DEF s
  <2>3. Order(s)
    BY <2>2, SameCallIsInOrder DEF Ordered, AtBatch, Settled
  <2> QED BY <2>1, <2>3, OneCallKeepsOrder DEF s
<1>2. CASE Return(c)
  BY <1>2, GoingKeepsOrder DEF Return, AtBatch, Settled
<1>3. CASE Fails(c)
  BY <1>3, GoingKeepsOrder DEF Fails, AtBatch, Settled
<1>4. CASE Cancel(c)
  BY <1>4, GoingKeepsOrder DEF Cancel, AtBatch, Settled
<1> QED BY <1>1, <1>2, <1>3, <1>4 DEF Ends

\* Nothing is due of a call that has not begun.
LEMMA InitiallyOrdered == Init => Ordered
<1> SUFFICES ASSUME Init, NEW c \in Caller
             PROVE  Order(run[c])
  BY DEF Ordered
<1>1. NothingSaved.steps \in Seq(Good) /\ <<>> \in Seq(Fresh)
  BY DEF NothingSaved
<1>2. Order(NewRun("idle", FALSE, NothingSaved, <<>>, <<>>, <<>>))
  BY <1>1, NewRunsAreInOrder DEF AtBatch, Settled
<1> QED BY <1>2 DEF Init

\* Every step of every caller keeps every call in order.
LEMMA StepsKeepOrder == Inv /\ Ordered /\ [Next]_vars => Ordered'
<1> SUFFICES ASSUME Inv, Ordered, [Next]_vars
             PROVE  Ordered'
  OBVIOUS
<1>1. CASE UNCHANGED vars
  BY <1>1 DEF vars, Ordered, Order, OwnInOrder, RestInOrder, Own
<1>2. CASE Next
  BY <1>2, CallsKeepOrder, PlansKeepOrder, HooksKeepOrder, ToolsKeepOrder, EndsKeepOrder
     DEF Next, Loop, Ends
<1> QED BY <1>1, <1>2

\* The counting invariant says of the call's own steps what the property asks.
LEMMA OrderedIsAnswered == Inv /\ Ordered => CallsAnsweredInOrder
<1> SUFFICES ASSUME Inv, Ordered, NEW c \in Caller
             PROVE  LET own == OwnSteps(c)
                    IN  /\ [i \in DOMAIN own |-> own[i].action.id]
                             = SubSeq(run[c].due, 1, Len(own))
                        /\ (At(c, "plan") \/ At(c, "finish")) => Len(own) = Len(run[c].due)
  BY DEF CallsAnsweredInOrder
<1> DEFINE r == run[c]
           own == OwnSteps(c)
<1>1. Order(r) /\ r.steps \in Seq(Good)
  BY DEF Inv, Ordered, Say
<1> HIDE DEF r
<1>2. PICK n \in Nat, b \in Nat :
        /\ b = r.base /\ n = Own(r) /\ Len(r.steps) = b + n
  <2>1. Len(r.steps) \in Nat /\ r.base \in Nat /\ r.base <= Len(r.steps)
    BY <1>1 DEF Order, OwnInOrder
  <2>2. Own(r) \in Nat /\ Len(r.steps) = r.base + Own(r)
    BY <2>1 DEF Own
  <2> QED BY <2>1, <2>2
<1>3. /\ r.due \in Seq(Nat) /\ n <= Len(r.due)
      /\ \A i \in 1..n : r.steps[b + i].action.id = r.due[i]
  BY <1>1, <1>2 DEF Order, OwnInOrder
<1>4. own \in Seq(Good) /\ Len(own) = n /\ \A i \in 1..n : own[i] = r.steps[b + i]
  <2>1. own = SubSeq(r.steps, b + 1, b + n)
    BY <1>2 DEF OwnSteps, r
  <2> HIDE DEF own
  <2>2. \A i \in (b + 1)..(b + n) : r.steps[i] \in Good
    BY <1>1, <1>2
  <2>3. /\ own \in Seq(Good)
        /\ Len(own) = IF b + 1 <= b + n THEN (b + n) - (b + 1) + 1 ELSE 0
        /\ \A i \in 1..((b + n) - (b + 1) + 1) : own[i] = r.steps[(b + 1) + i - 1]
    <3> DEFINE all == r.steps
    <3>1. \A i \in (b + 1)..(b + n) : all[i] \in Good
      BY <2>2
    <3> HIDE DEF all
    <3>2. b + 1 \in Int /\ b + n \in Int
      OBVIOUS
    <3>3. /\ SubSeq(all, b + 1, b + n) \in Seq(Good)
          /\ Len(SubSeq(all, b + 1, b + n)) = IF b + 1 <= b + n THEN (b + n) - (b + 1) + 1 ELSE 0
          /\ \A i \in 1..((b + n) - (b + 1) + 1) :
               SubSeq(all, b + 1, b + n)[i] = all[(b + 1) + i - 1]
      BY ONLY <3>1, <3>2, SubSeqProperties
    <3> QED BY <2>1, <3>3 DEF all
  <2>4. /\ (IF b + 1 <= b + n THEN (b + n) - (b + 1) + 1 ELSE 0) = n
        /\ (b + n) - (b + 1) + 1 = n
        /\ \A i \in 1..n : (b + 1) + i - 1 = b + i
    OBVIOUS
  <2> QED BY <2>3, <2>4
<1>5. SubSeq(r.due, 1, n) = [i \in 1..n |-> r.due[i]]
  BY <1>3
<1> HIDE DEF own
<1>6. [i \in DOMAIN own |-> own[i].action.id] = [i \in 1..n |-> r.due[i]]
  <2>1. DOMAIN own = 1..n
    BY <1>4
  <2> QED BY <1>3, <1>4, <2>1
<1>7. r.pc \in Settled => Len(own) = Len(r.due)
  BY <1>1, <1>2, <1>4 DEF Order
<1> QED BY <1>4, <1>5, <1>6, <1>7 DEF r, own, At, Settled

\* Every call is in order in every state of the agent.
LEMMA OrderedAlways == Spec => []Ordered
<1>1. Init => Ordered
  BY InitiallyOrdered
<1>2. Inv /\ Ordered /\ [Next]_vars => Ordered'
  BY StepsKeepOrder
<1> QED BY <1>1, <1>2, SafeAlways, PTL DEF Spec

(***************************************************************************)
(* The model that is asked again finds every call it made answered, each   *)
(* once and in its order, for any tools, batches, callers and bounds.      *)
(***************************************************************************)
THEOREM AnswersFollowRequests == Spec => []CallsAnsweredInOrder
<1>1. Inv /\ Ordered => CallsAnsweredInOrder
  BY OrderedIsAnswered
<1> QED BY <1>1, SafeAlways, OrderedAlways, PTL

-------------------------------------------------------------------------------
(***************************************************************************)
(* What a call of the agent keeps of its batch, of its decisions and for   *)
(* the memory: an interrupt loses no call, a decision is spent once and in *)
(* its order, the memory holds whole turns.                                *)
(*                                                                         *)
(* A step of the agent moves one call in one of eight ways; each invariant *)
(* is shown to survive each of them.                                       *)
(***************************************************************************)
Ended == {"after_finish", "finished"}

\* The call stays as it was, but for its place.
Keeps(r, s) ==
  /\ s.steps = r.steps /\ s.base = r.base /\ s.batch = r.batch /\ s.next = r.next
  /\ s.action = r.action /\ s.decisions = r.decisions /\ s.taken = r.taken

Went(r, s) ==
  /\ Keeps(r, s)
  /\ s.pc \in AtBatch => r.pc \in AtBatch
  /\ s.pc = "plan" => r.pc = "plan"

Began(s) ==
  /\ s.pc = "plan" /\ s.steps = <<>> /\ s.base = 0 /\ s.batch = <<>>
  /\ s.action = NoAction /\ s.decisions = <<>> /\ s.taken = 0

Continued(s) ==
  /\ s.pc = "runtime_hook" /\ s.steps = saved.steps /\ s.base = Len(saved.steps)
  /\ s.batch = saved.pending /\ s.batch # <<>> /\ s.next = 1 /\ s.action = s.batch[1]
  /\ s.decisions \in Seq(Decision) /\ s.taken = 0

Planned(r, s) ==
  /\ r.pc = "plan" /\ s.pc = "runtime_hook"
  /\ s.steps = r.steps /\ s.base = r.base /\ s.decisions = r.decisions /\ s.taken = r.taken
  /\ s.batch \in Seq(Fresh) /\ s.batch # <<>> /\ s.next = 1 /\ s.action = s.batch[1]
  /\ \A i \in DOMAIN s.batch : s.batch[i].log = Ids(s.batch)

\* A decision was taken; an edit has changed the tool besides.
Chosen(r, s) ==
  /\ r.pc \in AtBatch /\ s.pc \in AtBatch /\ r.taken < Len(r.decisions)
  /\ s.steps = r.steps /\ s.base = r.base /\ s.batch = r.batch /\ s.next = r.next
  /\ s.due = r.due
  /\ s.decisions = r.decisions /\ s.taken = r.taken + 1
  /\ s.action \in Action /\ s.action.id = r.action.id /\ s.action.log = r.action.log
  /\ s.action.by = Append(r.action.by, r.decisions[r.taken + 1])

AnsweredWith(r, s, step) ==
  /\ r.pc \in AtBatch
  /\ step \in Step /\ step.action = r.action
  /\ s.steps = Append(r.steps, step) /\ s.base = r.base /\ s.batch = r.batch
  /\ s.next = r.next + 1 /\ s.decisions = r.decisions /\ s.taken = r.taken
  /\ IF r.next < Len(r.batch)
       THEN s.pc = "runtime_hook" /\ s.action = r.batch[r.next + 1]
       ELSE s.pc \in {"limit", "plan"} /\ s.action = NoAction

AnsweredCall(r, s) == \E step : AnsweredWith(r, s, step)

ChosenAndAnswered(r, s) == \E t : Chosen(r, t) /\ AnsweredCall(t, s)

Moves(r, s) ==
  \/ Went(r, s) \/ Began(s) \/ Continued(s) \/ Planned(r, s)
  \/ Chosen(r, s) \/ AnsweredCall(r, s) \/ ChosenAndAnswered(r, s)

\* What an interrupted call leaves to be resumed.
Saves(r) ==
  \/ saved' = saved
  \/ /\ r.pc \in AtBatch
     /\ saved'.steps = r.steps /\ saved'.pending = r.batch

\* What a call that came to its end leaves to be remembered, and one that could not be
\* written down.
Writes(r, s) ==
  \/ memory' = memory /\ (s.pc \in Ended => r.pc \in Ended /\ s.steps = r.steps)
  \/ /\ r.pc = "finish" /\ s.steps = r.steps
     /\ memory' = memory \o <<Message("user", <<>>)>> \o StepMessages(r.steps)
                         \o <<Message("ai", <<>>)>>
  \/ /\ s.pc \notin Ended
     /\ \E i \in DOMAIN r.steps :
          memory' = memory \o <<Message("user", <<>>)>> \o StepMessages(SubSeq(r.steps, 1, i - 1))

\* What the movements start from.
Sound(r) ==
  /\ r.steps \in Seq(Step) /\ r.batch \in Seq(Fresh) /\ r.action \in Action
  /\ r.decisions \in Seq(Decision) /\ r.taken \in Nat
  /\ Order(r)

\* A call of the caller moves to s, and the shared state with it.
MovesTo(c, s) ==
  /\ run' = [run EXCEPT ![c] = s]
  /\ Moves(run[c], s) /\ Saves(run[c]) /\ Writes(run[c], s)
-------------------------------------------------------------------------------
\* The invariants say so of every call.
LEMMA CallsAreSound ==
  ASSUME Inv, Ordered, NEW c \in Caller
  PROVE  Sound(run[c])
<1>1. Say(run[c]) /\ Order(run[c])
  BY DEF Inv, Ordered
<1>2. run[c].action \in Action
  BY <1>1 DEF Say, Cleared
<1>3. run[c].steps \in Seq(Step)
  <2>1. run[c].steps \in Seq(Good)
    BY <1>1 DEF Say
  <2>2. Good \subseteq Step
    BY DEF Good
  <2> QED BY <2>1, <2>2
<1> QED BY <1>1, <1>2, <1>3 DEF Sound, Say

\* To another place of the same call.
LEMMA GoingMoves ==
  ASSUME Inv, NEW c \in Caller, NEW pc, Goes(c, pc),
         pc \in AtBatch => run[c].pc \in AtBatch,
         pc = "plan" => run[c].pc = "plan",
         pc \in Ended => run[c].pc \in Ended
  PROVE  \E s : MovesTo(c, s)
<1> DEFINE s == [run[c] EXCEPT !.pc = pc]
<1>1. run' = [run EXCEPT ![c] = s]
  BY DEF Goes, Inv
<1>2. Keeps(run[c], s) /\ s.pc = pc
  BY DEF Inv, Say, Fields, Keeps
<1> HIDE DEF s
<1>3. Went(run[c], s)
  BY <1>2 DEF Went
<1>4. Saves(run[c])
  BY DEF Goes, shared, Saves
<1>5. Writes(run[c], s)
  BY <1>2 DEF Goes, shared, Writes, Keeps
<1> QED BY <1>1, <1>3, <1>4, <1>5 DEF MovesTo, Moves

\* call_with_config and call_resume.
LEMMA CallsMove ==
  ASSUME Inv, NEW c \in Caller, Begin(c) \/ Resume(c)
  PROVE  \E s : MovesTo(c, s)
<1>1. CASE Begin(c)
  <2> DEFINE new == NewRun("plan", FALSE, NothingSaved, <<>>, <<>>, run[c].asked)
             s   == [new EXCEPT !.chat = Len(Repair(memory))]
  <2>1. run' = [run EXCEPT ![c] = s] /\ UNCHANGED shared
    BY <1>1 DEF Begin, Call
  <2>2. Began(s)
    BY DEF NewRun, NothingSaved, Began
  <2> HIDE DEF s
  <2>3. s.pc \notin Ended
    BY <2>2 DEF Began, Ended
  <2>4. Saves(run[c]) /\ Writes(run[c], s)
    BY <2>1, <2>3 DEF shared, Saves, Writes
  <2> QED BY <2>1, <2>2, <2>4 DEF MovesTo, Moves
<1>2. CASE Resume(c)
  <2>1. PICK decisions \in ResumeInputs(run[c].asked) :
          Call(c, NewRun("runtime_hook", TRUE, saved, saved.pending, decisions,
                         run[c].asked))
    BY <1>2 DEF Resume
  <2> DEFINE s == NewRun("runtime_hook", TRUE, saved, saved.pending, decisions,
                         run[c].asked)
  <2>2. run' = [run EXCEPT ![c] = s] /\ UNCHANGED shared
    BY <2>1 DEF Call
  <2>3. decisions \in Seq(Decision)
    <3>1. run[c].asked \in Seq(Fresh)
      BY DEF Inv, Say
    <3> QED BY <3>1, ResumeInputsAreDecisions
  <2>4. saved.pending # <<>>
    BY <1>2 DEF Resume
  <2>5. Continued(s)
    BY <2>3, <2>4 DEF NewRun, Continued
  <2> HIDE DEF s
  <2>6. s.pc \notin Ended
    BY <2>5 DEF Continued, Ended
  <2>7. Saves(run[c]) /\ Writes(run[c], s)
    BY <2>2, <2>6 DEF shared, Saves, Writes
  <2> QED BY <2>2, <2>5, <2>7 DEF MovesTo, Moves
<1> QED BY <1>1, <1>2

\* What the model answers, at the head of run_loop.
LEMMA PlansMove ==
  ASSUME Inv, NEW c \in Caller, Plans(c)
  PROVE  \E s : MovesTo(c, s)
<1>0. Say(run[c]) /\ planned \in Nat
  BY DEF Inv
<1>1. ASSUME NEW batch \in Batches, PlanBatch(c, batch)
      PROVE  \E s : MovesTo(c, s)
  <2> DEFINE ids == [i \in DOMAIN batch |-> planned + i]
             actions == [i \in DOMAIN batch |->
                           [id |-> ids[i], tool |-> batch[i], log |-> ids, by |-> <<>>]]
             s == [run[c] EXCEPT !.batch = actions, !.next = 1, !.action = actions[1],
                     !.replay = FALSE, !.chat = run[c].input, !.due = @ \o ids,
                     !.pc = "runtime_hook"]
  <2>1. run' = [run EXCEPT ![c] = s] /\ saved' = saved /\ memory' = memory
    BY <1>1 DEF PlanBatch
  <2>2. run[c].pc = "plan" /\ batch # <<>> /\ batch \in Seq(Tool)
    BY <1>1, AgentAssumption DEF PlanBatch, At
  <2>3. actions \in Seq(Fresh)
    BY <1>0, PlannedIsFresh
  <2>4. /\ DOMAIN actions = DOMAIN batch /\ DOMAIN ids = DOMAIN batch
        /\ \A i \in DOMAIN batch : actions[i].id = ids[i] /\ actions[i].log = ids
    OBVIOUS
  <2>5. actions # <<>>
    BY <2>2, <2>4
  <2> HIDE DEF actions
  <2>6. Ids(actions) = ids
    BY <2>4 DEF Ids
  <2> HIDE DEF ids
  <2>7. /\ s.pc = "runtime_hook" /\ s.steps = run[c].steps /\ s.base = run[c].base
        /\ s.decisions = run[c].decisions /\ s.taken = run[c].taken
        /\ s.batch = actions /\ s.next = 1 /\ s.action = actions[1]
    BY <1>0 DEF Say, Fields
  <2> HIDE DEF s
  <2>8. Planned(run[c], s)
    BY <2>2, <2>3, <2>4, <2>5, <2>6, <2>7 DEF Planned
  <2>9. Saves(run[c]) /\ Writes(run[c], s)
    BY <2>1, <2>7 DEF Saves, Writes, Ended
  <2> QED BY <2>1, <2>8, <2>9 DEF MovesTo, Moves
<1>2. ASSUME NEW s, NEW pc \in {"plan", "limit", "finish"}, At(c, "plan"), s.pc = pc,
             Keeps(run[c], s), run' = [run EXCEPT ![c] = s], UNCHANGED shared
      PROVE  \E t : MovesTo(c, t)
  <2>1. Went(run[c], s) /\ s.pc \notin Ended
    BY <1>2 DEF At, Went, AtBatch, Ended
  <2>2. Saves(run[c]) /\ Writes(run[c], s)
    BY <1>2, <2>1 DEF shared, Saves, Writes
  <2> QED BY <1>2, <2>1, <2>2 DEF MovesTo, Moves
<1>3. CASE PlanNothing(c)
  <2> DEFINE place == IF LimitMet(FALSE, run[c].steps) THEN "limit" ELSE "plan"
             s == [run[c] EXCEPT !.replay = FALSE, !.chat = run[c].input, !.pc = place]
  <2>1. place \in {"plan", "limit", "finish"}
    OBVIOUS
  <2>2. run' = [run EXCEPT ![c] = s] /\ At(c, "plan") /\ UNCHANGED shared
    BY <1>3 DEF PlanNothing
  <2> HIDE DEF place
  <2>3. s.pc = place /\ Keeps(run[c], s)
    BY <1>0 DEF Say, Fields, Keeps
  <2> HIDE DEF s
  <2> QED BY <1>2, <2>1, <2>2, <2>3
<1>4. CASE PlanFinish(c)
  <2> DEFINE s == [run[c] EXCEPT !.chat = run[c].input, !.pc = "finish"]
  <2>1. run' = [run EXCEPT ![c] = s] /\ At(c, "plan") /\ UNCHANGED shared
    BY <1>4 DEF PlanFinish
  <2>2. s.pc = "finish" /\ Keeps(run[c], s)
    BY <1>0 DEF Say, Fields, Keeps
  <2> HIDE DEF s
  <2> QED BY <1>2, <2>1, <2>2
<1> QED BY <1>1, <1>3, <1>4 DEF Plans

\* An answer, of whatever outcome, to the call that has its turn.
LEMMA AnswersMove ==
  ASSUME NEW c \in Caller, NEW r, DOMAIN r = Fields, r.pc \in AtBatch,
         r.action \in Action, NEW outcome \in {"ran", "failed", "rejected"},
         Answer(c, r, outcome)
  PROVE  \E s : /\ run' = [run EXCEPT ![c] = s] /\ AnsweredCall(r, s)
                /\ saved' = saved /\ memory' = memory /\ s.pc \notin Ended
<1> DEFINE step  == [action |-> r.action, outcome |-> outcome]
           steps == Answered(r, outcome)
           more  == r.next < Len(r.batch)
           act   == IF more THEN r.batch[r.next + 1] ELSE NoAction
           place == CASE more -> "runtime_hook"
                      [] ~more /\ LimitMet(r.replay, steps) -> "limit"
                      [] OTHER -> "plan"
           s     == [r EXCEPT !.steps = steps, !.next = @ + 1, !.action = act, !.pc = place]
<1>1. run' = [run EXCEPT ![c] = s] /\ saved' = saved /\ memory' = memory
  BY DEF Answer, shared
<1>2. steps = Append(r.steps, step)
  BY DEF Answered
<1>3. step \in Step /\ step.action = r.action
  BY DEF Step
<1>4. IF more THEN place = "runtime_hook" /\ act = r.batch[r.next + 1]
              ELSE place \in {"limit", "plan"} /\ act = NoAction
  OBVIOUS
<1>5. place \notin Ended
  BY DEF Ended
<1> HIDE DEF steps, act, place, step
<1>6. /\ s.steps = steps /\ s.base = r.base /\ s.batch = r.batch /\ s.next = r.next + 1
      /\ s.decisions = r.decisions /\ s.taken = r.taken /\ s.action = act /\ s.pc = place
  BY DEF Fields
<1> HIDE DEF s
<1>7. AnsweredWith(r, s, step)
  BY <1>2, <1>3, <1>4, <1>6 DEF AnsweredWith
<1>8. AnsweredCall(r, s)
  BY <1>7 DEF AnsweredCall
<1> QED BY <1>1, <1>5, <1>6, <1>8

\* The decision taken at a call's turn.
LEMMA DecidedIsChosen ==
  ASSUME NEW c \in Caller, Say(run[c]), HasDecision(c), run[c].pc \in AtBatch
  PROVE  /\ DOMAIN Decided(c) = Fields /\ Chosen(run[c], Decided(c))
         /\ Decided(c).pc = run[c].pc
         /\ NextDecision(c) \in Decision
<1> DEFINE r   == run[c]
           d   == NextDecision(c)
           by  == Append(r.action.by, d)
           new == [r.action EXCEPT !.by = by]
           s   == Decided(c)
<1>1. r.action \in Action /\ r.taken < Len(r.decisions) /\ d = r.decisions[r.taken + 1]
  BY DEF Say, Cleared, HasDecision, NextDecision
<1>2. /\ s.action \in Action /\ DOMAIN s = Fields /\ d \in Decision
  BY DecidedIsSafe
<1> HIDE DEF by
<1>3. new.id = r.action.id /\ new.log = r.action.log /\ new.by = by
  BY <1>1 DEF Action
<1>4. s = [r EXCEPT !.action = new, !.taken = @ + 1]
  BY DEF Decided, by, Say, Fields
<1> HIDE DEF new, s
<1>5. /\ s.steps = r.steps /\ s.base = r.base /\ s.due = r.due
      /\ s.batch = r.batch /\ s.next = r.next /\ s.action = new
      /\ s.decisions = r.decisions /\ s.taken = r.taken + 1 /\ s.pc = r.pc
  BY <1>4 DEF Say, Fields
<1>6. Chosen(r, s)
  BY <1>1, <1>2, <1>3, <1>5 DEF Chosen, by
<1> QED BY <1>2, <1>5, <1>6 DEF s

\* before_tool_call and before_tool_call_with_runtime of the middleware.
LEMMA HooksMove ==
  ASSUME Inv, NEW c \in Caller, Hooks(c)
  PROVE  \E s : MovesTo(c, s)
<1>0. Say(run[c]) /\ run[c].pc \in AtBatch
  BY DEF Inv, Hooks, PassHook, Approve, Edit, Reject, Interrupt, Decides, AtHook, AtBatch
<1>1. CASE PassHook(c)
  <2>1. AfterNone(c) \in AtBatch /\ AfterNone(c) # "plan" /\ AfterNone(c) \notin Ended
    BY DEF AfterNone, AtBatch, Ended
  <2> QED BY <1>0, <1>1, <2>1, GoingMoves DEF PassHook
\* A decision that lets the call run, with the tool it names.
<1>2. ASSUME NEW s, HasDecision(c), Chosen(run[c], s), run' = [run EXCEPT ![c] = s],
             UNCHANGED shared
      PROVE  \E t : MovesTo(c, t)
  <2>1. s.pc \notin Ended
    BY <1>2 DEF Chosen, AtBatch, Ended
  <2>2. Saves(run[c]) /\ Writes(run[c], s)
    BY <1>2, <2>1 DEF shared, Saves, Writes
  <2> QED BY <1>2, <2>2 DEF MovesTo, Moves
<1>3. CASE Approve(c)
  <2> DEFINE s == [Decided(c) EXCEPT !.pc = AfterNone(c)]
  <2>1. HasDecision(c) /\ run' = [run EXCEPT ![c] = s] /\ UNCHANGED shared
    BY <1>3 DEF Approve, Decides
  <2>2. DOMAIN Decided(c) = Fields /\ Chosen(run[c], Decided(c))
    BY <1>0, <2>1, DecidedIsChosen
  <2>3. Keeps(Decided(c), s) /\ s.due = Decided(c).due /\ s.pc = AfterNone(c)
    BY <2>2 DEF Fields, Keeps
  <2>4. AfterNone(c) \in AtBatch
    BY DEF AfterNone, AtBatch
  <2> HIDE DEF s
  <2>5. Chosen(run[c], s)
    BY <2>2, <2>3, <2>4 DEF Chosen, Keeps
  <2> QED BY <1>2, <2>1, <2>5
<1>4. CASE Edit(c)
  <2> DEFINE d   == NextDecision(c)
             act == [Decided(c).action EXCEPT !.tool = d.tool]
             s   == [Decided(c) EXCEPT !.action = act, !.pc = "tool"]
  <2>1. HasDecision(c) /\ UNCHANGED shared
    BY <1>4 DEF Edit, Decides
  <2>2. DOMAIN Decided(c) = Fields /\ Chosen(run[c], Decided(c)) /\ d \in Decision
    BY <1>0, <2>1, DecidedIsChosen
  <2>3. run' = [run EXCEPT ![c] = s]
    BY <1>4, <2>2 DEF Edit, Fields
  <2>4. Decided(c).action \in Action /\ d.tool \in Tool
    BY <2>2 DEF Chosen, Decision
  <2> HIDE DEF d
  <2>5. /\ act \in Action /\ act.id = Decided(c).action.id
        /\ act.log = Decided(c).action.log /\ act.by = Decided(c).action.by
    BY <2>4 DEF Action
  <2> HIDE DEF act
  <2>6. /\ s.steps = Decided(c).steps /\ s.base = Decided(c).base /\ s.due = Decided(c).due
        /\ s.batch = Decided(c).batch /\ s.next = Decided(c).next /\ s.action = act
        /\ s.decisions = Decided(c).decisions /\ s.taken = Decided(c).taken /\ s.pc = "tool"
    BY <2>2 DEF Fields
  <2> HIDE DEF s
  <2>7. Chosen(run[c], s)
    BY <2>2, <2>5, <2>6 DEF Chosen, AtBatch
  <2> QED BY <1>2, <2>1, <2>3, <2>7
<1>5. CASE Reject(c)
  <2>1. HasDecision(c) /\ Answer(c, Decided(c), "rejected")
    BY <1>5 DEF Reject, Decides
  <2>2. DOMAIN Decided(c) = Fields /\ Chosen(run[c], Decided(c))
    BY <1>0, <2>1, DecidedIsChosen
  <2>3. Decided(c).pc \in AtBatch /\ Decided(c).action \in Action
    BY <2>2 DEF Chosen
  <2>4. PICK s : /\ run' = [run EXCEPT ![c] = s] /\ AnsweredCall(Decided(c), s)
                 /\ saved' = saved /\ memory' = memory /\ s.pc \notin Ended
    BY <2>1, <2>2, <2>3, AnswersMove
  <2>5. ChosenAndAnswered(run[c], s)
    BY <2>2, <2>4 DEF ChosenAndAnswered
  <2>6. Saves(run[c]) /\ Writes(run[c], s)
    BY <2>4 DEF Saves, Writes
  <2> QED BY <2>4, <2>5, <2>6 DEF MovesTo, Moves
<1>6. CASE Interrupt(c)
  <2> DEFINE place == IF run[c].resumed THEN "interrupt_error" ELSE "interrupted"
             s     == [run[c] EXCEPT !.asked = run[c].batch, !.pc = place]
  <2>1. run' = [run EXCEPT ![c] = s] /\ memory' = memory
    BY <1>6 DEF Interrupt
  <2>2. Saves(run[c])
    BY <1>0, <1>6 DEF Interrupt, Pending, Saves
  <2>3. place \notin AtBatch /\ place # "plan" /\ place \notin Ended
    BY DEF AtBatch, Ended
  <2> HIDE DEF place
  <2>4. Keeps(run[c], s) /\ s.pc = place
    BY <1>0 DEF Say, Fields, Keeps
  <2> HIDE DEF s
  <2>5. Went(run[c], s) /\ Writes(run[c], s)
    BY <2>1, <2>3, <2>4 DEF Went, Writes
  <2> QED BY <2>1, <2>2, <2>5 DEF MovesTo, Moves
<1> QED BY <1>1, <1>3, <1>4, <1>5, <1>6 DEF Hooks

\* Whatever a tool answers, its call is answered or the whole call fails.
LEMMA ToolsMove ==
  ASSUME Inv, NEW c \in Caller, Tools(c)
  PROVE  \E s : MovesTo(c, s)
<1>0. Say(run[c]) /\ run[c].pc \in AtBatch
  BY DEF Inv, Tools, ToolReturns, ToolFails, ToolMissing, At, AtBatch
<1>1. ASSUME NEW outcome \in {"ran", "failed"}, Answer(c, run[c], outcome)
      PROVE  \E s : MovesTo(c, s)
  <2>1. DOMAIN run[c] = Fields /\ run[c].action \in Action
    BY <1>0 DEF Say, Cleared
  <2>2. PICK s : /\ run' = [run EXCEPT ![c] = s] /\ AnsweredCall(run[c], s)
                 /\ saved' = saved /\ memory' = memory /\ s.pc \notin Ended
    BY <1>0, <1>1, <2>1, AnswersMove
  <2>3. Saves(run[c]) /\ Writes(run[c], s)
    BY <2>2 DEF Saves, Writes
  <2> QED BY <2>2, <2>3 DEF MovesTo, Moves
<1>2. ASSUME Goes(c, "failed")
      PROVE  \E s : MovesTo(c, s)
  <2>1. "failed" \notin AtBatch /\ "failed" # "plan" /\ "failed" \notin Ended
    BY DEF AtBatch, Ended
  <2> QED BY <1>2, <2>1, GoingMoves
<1>3. CASE ToolReturns(c)
  BY <1>1, <1>3 DEF ToolReturns
<1>4. CASE ToolFails(c)
  BY <1>1, <1>2, <1>4 DEF ToolFails
<1>5. CASE ToolMissing(c)
  BY <1>2, <1>5 DEF ToolMissing
<1> QED BY <1>3, <1>4, <1>5 DEF Tools

\* A call that ends, as it should or not.
LEMMA EndsMove ==
  ASSUME Inv, NEW c \in Caller, Ends(c)
  PROVE  \E s : MovesTo(c, s)
<1>1. CASE WriteMemory(c)
  <2> DEFINE s == [run[c] EXCEPT !.pc = "after_finish"]
  <2>1. run' = [run EXCEPT ![c] = s]
    BY <1>1 DEF WriteMemory, Inv
  <2>2. Keeps(run[c], s) /\ s.pc = "after_finish"
    BY DEF Inv, Say, Fields, Keeps
  <2> HIDE DEF s
  <2>3. Went(run[c], s)
    BY <2>2 DEF Went, AtBatch
  <2>4. Saves(run[c])
    BY <1>1 DEF WriteMemory, Saves
  <2>5. Writes(run[c], s)
    BY <1>1, <2>2 DEF WriteMemory, UserMessage, Turn, Keeps, Writes, At
  <2> QED BY <2>1, <2>3, <2>4, <2>5 DEF MovesTo, Moves
<1>4. CASE WriteMemoryFails(c)
  <2> DEFINE s == [run[c] EXCEPT !.pc = "failed"]
  <2>1. run' = [run EXCEPT ![c] = s]
    BY <1>4 DEF WriteMemoryFails, Inv
  <2>2. Keeps(run[c], s) /\ s.pc = "failed"
    BY DEF Inv, Say, Fields, Keeps
  <2> HIDE DEF s
  <2>3. Went(run[c], s)
    BY <2>2 DEF Went, AtBatch
  <2>4. Saves(run[c])
    BY <1>4 DEF WriteMemoryFails, Saves
  <2>5. PICK i \in DOMAIN run[c].steps :
          memory' = memory \o <<Message("user", <<>>)>>
                      \o StepMessages(SubSeq(run[c].steps, 1, i - 1))
    BY <1>4 DEF WriteMemoryFails, UserMessage, Turn
  <2>6. Writes(run[c], s)
    BY <2>2, <2>5 DEF Writes, Ended
  <2> QED BY <2>1, <2>3, <2>4, <2>6 DEF MovesTo, Moves
<1>2. CASE Return(c)
  <2>1. "finished" \notin AtBatch /\ "finished" # "plan" /\ run[c].pc \in Ended
    BY <1>2 DEF Return, At, AtBatch, Ended
  <2> QED BY <1>2, <2>1, GoingMoves DEF Return
<1>3. CASE Fails(c) \/ Cancel(c)
  <2>1. PICK pc \in {"failed", "idle"} : Goes(c, pc)
    BY <1>3 DEF Fails, Cancel
  <2>2. pc \notin AtBatch /\ pc # "plan" /\ pc \notin Ended
    BY <2>1 DEF AtBatch, Ended
  <2> QED BY <2>1, <2>2, GoingMoves
<1> QED BY <1>1, <1>2, <1>3, <1>4 DEF Ends

\* Every step of the agent moves one call.
LEMMA StepsMove ==
  ASSUME Inv, Next
  PROVE  \E c \in Caller : \E s : MovesTo(c, s)
<1>1. PICK c \in Caller : Begin(c) \/ Resume(c) \/ Loop(c) \/ Fails(c) \/ Cancel(c)
  BY DEF Next
<1>2. \E s : MovesTo(c, s)
  BY <1>1, CallsMove, PlansMove, HooksMove, ToolsMove, EndsMove DEF Loop, Ends
<1> QED BY <1>2
-------------------------------------------------------------------------------
(***************************************************************************)
(* Batches: every call of a batch that was begun is answered, or is still  *)
(* in the batch; the calls before the one that has its turn are answered.  *)
(***************************************************************************)

IdsIn(steps) == {steps[j].action.id : j \in DOMAIN steps}

LogsKept(steps, batch) ==
  \A i \in DOMAIN steps :
    ToSet(steps[i].action.log) \subseteq IdsIn(steps) \cup ToSet(Ids(batch))

OwnLogs(batch) == \A j \in DOMAIN batch : batch[j].log = Ids(batch)

WholeBatch(r) ==
  /\ LogsKept(r.steps, r.batch) /\ OwnLogs(r.batch)
  /\ r.action.log = r.batch[r.next].log
  /\ \A j \in 1..(r.next - 1) : r.batch[j].id \in IdsIn(r.steps)

Whole(r) ==
  /\ r.pc \in AtBatch => WholeBatch(r)
  /\ r.pc = "plan" => LogsKept(r.steps, <<>>)

SavedWhole == LogsKept(saved.steps, saved.pending) /\ OwnLogs(saved.pending)

BatchesAreWhole == SavedWhole /\ \A c \in Caller : Whole(run[c])

\* The call that has its turn is answered, and its log with it.
LEMMA AnsweredIsWhole ==
  ASSUME NEW r, NEW s, NEW step, Sound(r), Whole(r), AnsweredWith(r, s, step)
  PROVE  Whole(s)
<1>1. /\ r.steps \in Seq(Step) /\ r.batch \in Seq(Fresh) /\ step \in Step
      /\ step.action = r.action /\ s.steps = Append(r.steps, step) /\ s.batch = r.batch
      /\ s.next = r.next + 1
  BY DEF Sound, AnsweredWith
<1>2. /\ r.next \in 1..Len(r.batch) /\ r.action.id = r.batch[r.next].id
  BY DEF Sound, AnsweredWith, Order, RestInOrder
<1>3. WholeBatch(r)
  BY DEF AnsweredWith, Whole
<1>4. PICK n \in Nat, m \in Nat, k \in Nat :
        n = Len(r.steps) /\ m = Len(r.batch) /\ k = r.next /\ k \in 1..m
  BY <1>1, <1>2
<1>5. /\ DOMAIN s.steps = 1..(n + 1) /\ s.steps[n + 1] = step
      /\ \A i \in 1..n : s.steps[i] = r.steps[i]
      /\ DOMAIN r.steps = 1..n
  BY <1>1, <1>4
<1>6. IdsIn(r.steps) \subseteq IdsIn(s.steps) /\ r.action.id \in IdsIn(s.steps)
  BY <1>1, <1>4, <1>5 DEF IdsIn
<1>7. \A j \in 1..k : r.batch[j].id \in IdsIn(s.steps)
  <2> SUFFICES ASSUME NEW j \in 1..k
               PROVE  r.batch[j].id \in IdsIn(s.steps)
    OBVIOUS
  <2>1. CASE j = k
    BY <1>2, <1>4, <1>6, <2>1
  <2>2. CASE j # k
    <3>1. j \in 1..(r.next - 1)
      BY <1>4, <2>2
    <3> QED BY <1>3, <1>6, <3>1 DEF WholeBatch
  <2> QED BY <2>1, <2>2
<1>8. LogsKept(s.steps, r.batch)
  <2> SUFFICES ASSUME NEW i \in 1..(n + 1)
               PROVE  ToSet(s.steps[i].action.log) \subseteq IdsIn(s.steps) \cup ToSet(Ids(r.batch))
    BY <1>5 DEF LogsKept
  <2>1. CASE i = n + 1
    <3>1. s.steps[i].action.log = Ids(r.batch)
      BY <1>1, <1>3, <1>4, <1>5, <2>1 DEF WholeBatch, OwnLogs
    <3> QED BY <3>1
  <2>2. CASE i # n + 1
    <3>1. i \in 1..n
      BY <2>2
    <3>2. ToSet(r.steps[i].action.log) \subseteq IdsIn(r.steps) \cup ToSet(Ids(r.batch))
      BY <1>3, <1>5, <3>1 DEF WholeBatch, LogsKept
    <3> QED BY <1>5, <1>6, <3>1, <3>2
  <2> QED BY <2>1, <2>2
<1>9. CASE k < m
  <2>1. s.pc = "runtime_hook" /\ s.action = r.batch[k + 1] /\ s.next = k + 1
    BY <1>1, <1>4, <1>9 DEF AnsweredWith
  <2>2. (k + 1) - 1 = k
    OBVIOUS
  <2>3. WholeBatch(s)
    BY <1>1, <1>3, <1>7, <1>8, <2>1, <2>2 DEF WholeBatch
  <2> QED BY <2>1, <2>3 DEF Whole
<1>10. CASE ~(k < m)
  <2>1. s.pc \in {"limit", "plan"} /\ k = m
    BY <1>4, <1>10 DEF AnsweredWith
  <2>2. ToSet(Ids(r.batch)) \subseteq IdsIn(s.steps)
    <3>1. DOMAIN Ids(r.batch) = 1..m /\ \A j \in 1..m : Ids(r.batch)[j] = r.batch[j].id
      BY <1>1, <1>4 DEF Ids
    <3> QED BY <1>7, <2>1, <3>1 DEF ToSet
  <2>3. LogsKept(s.steps, <<>>)
    BY <1>8, <2>2 DEF LogsKept
  <2> QED BY <2>1, <2>3 DEF Whole, AtBatch
<1> QED BY <1>9, <1>10

\* A decision changes neither the batch nor the log of a call.
LEMMA ChosenIsWhole ==
  ASSUME NEW r, NEW s, Whole(r), Chosen(r, s)
  PROVE  Whole(s)
<1>1. WholeBatch(r) /\ s.pc \in AtBatch /\ s.pc # "plan"
  BY DEF Chosen, Whole, AtBatch
<1>2. WholeBatch(s)
  BY <1>1 DEF Chosen, WholeBatch
<1> QED BY <1>1, <1>2 DEF Whole

\* A decision keeps what the movements start from.
LEMMA ChosenIsSound ==
  ASSUME NEW r, NEW s, Sound(r), Chosen(r, s)
  PROVE  Sound(s)
<1>1. s.pc \notin Settled
  BY DEF Chosen, AtBatch, Settled
<1>2. Order(s)
  BY <1>1, SameCallIsInOrder DEF Sound, Chosen
<1> QED BY <1>2 DEF Sound, Chosen

\* However a call moves, its batch stays whole.
LEMMA MovesKeepWhole ==
  ASSUME NEW r, NEW s, Sound(r), Whole(r), SavedWhole, Moves(r, s)
  PROVE  Whole(s)
<1>1. CASE Went(r, s)
  BY <1>1 DEF Went, Keeps, Whole, WholeBatch
<1>2. CASE Began(s)
  BY <1>2 DEF Began, Whole, LogsKept, AtBatch
<1>3. CASE Continued(s)
  <2>1. s.pc = "runtime_hook" /\ s.steps = saved.steps /\ s.batch = saved.pending
        /\ s.next = 1 /\ s.action = s.batch[1]
    BY <1>3 DEF Continued
  <2>2. \A j \in 1..(1 - 1) : FALSE
    OBVIOUS
  <2>3. WholeBatch(s)
    BY <2>1, <2>2 DEF SavedWhole, WholeBatch
  <2> QED BY <2>1, <2>3 DEF Whole
<1>4. CASE Planned(r, s)
  <2>1. /\ s.pc = "runtime_hook" /\ s.steps = r.steps /\ LogsKept(r.steps, <<>>)
        /\ s.next = 1 /\ s.action = s.batch[1] /\ OwnLogs(s.batch)
    BY <1>4 DEF Planned, Whole, OwnLogs
  <2>2. LogsKept(s.steps, s.batch)
    <3>1. ToSet(Ids(<<>>)) = {}
      BY DEF ToSet, Ids
    <3> QED BY <2>1, <3>1 DEF LogsKept
  <2>3. \A j \in 1..(1 - 1) : FALSE
    OBVIOUS
  <2>4. WholeBatch(s)
    BY <2>1, <2>2, <2>3 DEF WholeBatch
  <2> QED BY <2>1, <2>4 DEF Whole
<1>5. CASE Chosen(r, s)
  BY <1>5, ChosenIsWhole
<1>6. CASE AnsweredCall(r, s)
  BY <1>6, AnsweredIsWhole DEF AnsweredCall
<1>7. CASE ChosenAndAnswered(r, s)
  <2>1. PICK t : Chosen(r, t) /\ AnsweredCall(t, s)
    BY <1>7 DEF ChosenAndAnswered
  <2>2. Sound(t) /\ Whole(t)
    BY <2>1, ChosenIsSound, ChosenIsWhole
  <2> QED BY <2>1, <2>2, AnsweredIsWhole DEF AnsweredCall
<1> QED BY <1>1, <1>2, <1>3, <1>4, <1>5, <1>6, <1>7 DEF Moves

\* No batch loses a call in any step, nor does what is saved.
LEMMA StepsKeepWhole == Inv /\ Ordered /\ BatchesAreWhole /\ [Next]_vars => BatchesAreWhole'
<1> SUFFICES ASSUME Inv, Ordered, BatchesAreWhole, [Next]_vars
             PROVE  BatchesAreWhole'
  OBVIOUS
<1>1. CASE UNCHANGED vars
  <2>1. run' = run /\ saved' = saved
    BY <1>1 DEF vars, shared
  <2>2. (\A c \in Caller : Whole(run'[c])) /\ LogsKept(saved'.steps, saved'.pending)
        /\ OwnLogs(saved'.pending)
    BY <2>1 DEF BatchesAreWhole, SavedWhole
  <2> QED BY <2>2 DEF BatchesAreWhole, SavedWhole, Whole, WholeBatch, LogsKept,
                      OwnLogs, IdsIn
<1>2. CASE Next
  <2>0. PICK c \in Caller : \E s : MovesTo(c, s)
    BY <1>2, StepsMove
  <2>1. PICK s : MovesTo(c, s)
    BY <2>0
  <2>2. Whole(s)
    BY <2>1, CallsAreSound, MovesKeepWhole DEF MovesTo, BatchesAreWhole
  <2>3. \A d \in Caller : run'[d] = IF d = c THEN s ELSE run[d]
    BY <2>1 DEF MovesTo, Inv
  <2>4. \A d \in Caller : Whole(run'[d])
    BY <2>2, <2>3 DEF BatchesAreWhole
  <2>5. LogsKept(saved'.steps, saved'.pending) /\ OwnLogs(saved'.pending)
    BY <2>1 DEF MovesTo, Saves, BatchesAreWhole, SavedWhole, Whole, WholeBatch
  <2> QED BY <2>4, <2>5 DEF BatchesAreWhole, SavedWhole, Whole, WholeBatch, LogsKept,
                            OwnLogs, IdsIn
<1> QED BY <1>1, <1>2

\* Nothing was begun.
LEMMA InitiallyWhole == Init => BatchesAreWhole
<1> SUFFICES ASSUME Init
             PROVE  BatchesAreWhole
  OBVIOUS
<1>1. SavedWhole
  BY DEF Init, NothingSaved, SavedWhole, LogsKept, OwnLogs
<1>2. \A c \in Caller : run[c].pc = "idle"
  BY DEF Init, NewRun
<1>3. \A c \in Caller : Whole(run[c])
  BY <1>2 DEF Whole, AtBatch
<1> QED BY <1>1, <1>3 DEF BatchesAreWhole

\* What is saved is what the property asks about.
LEMMA WholeLosesNoCall == BatchesAreWhole => InterruptLosesNoCall
BY DEF BatchesAreWhole, SavedWhole, LogsKept, IdsIn, InterruptLosesNoCall

(***************************************************************************)
(* However often a batch is interrupted, resumed, by whom and with what    *)
(* decisions: each of its calls is answered in the saved steps or pending. *)
(***************************************************************************)
THEOREM InterruptsKeepCalls == Spec => []InterruptLosesNoCall
<1>1. Init => BatchesAreWhole
  BY InitiallyWhole
<1>2. Inv /\ Ordered /\ BatchesAreWhole /\ [Next]_vars => BatchesAreWhole'
  BY StepsKeepWhole
<1>3. BatchesAreWhole => InterruptLosesNoCall
  BY WholeLosesNoCall
<1> QED BY <1>1, <1>2, <1>3, SafeAlways, OrderedAlways, PTL DEF Spec
-------------------------------------------------------------------------------
(***************************************************************************)
(* Decisions: what the steps of a call spent, and what is spent on the one *)
(* that has its turn, is the beginning of what the call was given.         *)
(***************************************************************************)

BysOf(steps) == [i \in DOMAIN steps |-> steps[i].action.by]

OwnOf(r) == SubSeq(r.steps, r.base + 1, Len(r.steps))

SpentOn(r) == FlattenSeq(BysOf(OwnOf(r)))

Spent(r) ==
  /\ r.taken <= Len(r.decisions)
  /\ r.pc = "plan" => r.action.by = <<>>
  /\ SpentOn(r) \o r.action.by = SubSeq(r.decisions, 1, r.taken)

AllSpent == \A c \in Caller : Spent(run[c])

\* The decisions of steps are decisions.
LEMMA BysOfSteps ==
  ASSUME NEW steps \in Seq(Step)
  PROVE  BysOf(steps) \in Seq(Seq(Decision)) /\ FlattenSeq(BysOf(steps)) \in Seq(Decision)
<1>1. ASSUME NEW i \in 1..Len(steps)
      PROVE  steps[i].action.by \in Seq(Decision)
  <2>1. steps[i] \in Step
    OBVIOUS
  <2> QED BY <2>1 DEF Step, Action
<1>2. BysOf(steps) \in Seq(Seq(Decision))
  <2>1. BysOf(steps) \in [1..Len(steps) -> Seq(Decision)]
    BY <1>1 DEF BysOf
  <2> QED BY <2>1
<1> QED BY <1>2, FlattenType

\* Those of one step more.
LEMMA BysGrow ==
  ASSUME NEW steps \in Seq(Step), NEW step \in Step
  PROVE  FlattenSeq(BysOf(Append(steps, step))) = FlattenSeq(BysOf(steps)) \o step.action.by
<1> DEFINE bys == BysOf(steps)
           by  == step.action.by
<1>1. bys \in Seq(Seq(Decision)) /\ by \in Seq(Decision)
  BY BysOfSteps DEF Step, Action
<1>2. BysOf(Append(steps, step)) = Append(bys, by)
  BY DEF BysOf
<1> HIDE DEF bys, by
<1>3. FlattenSeq(Append(bys, by)) = FlattenSeq(bys) \o by
  BY <1>1, FlattenAppend
<1> QED BY <1>2, <1>3 DEF bys, by

\* A call that has no step of its own has spent nothing.
LEMMA NothingIsSpent ==
  ASSUME NEW r, r.base \in Nat, Len(r.steps) = r.base
  PROVE  SpentOn(r) = <<>>
<1>1. OwnOf(r) = <<>>
  BY RestOfAll DEF OwnOf
<1>2. BysOf(<<>>) = <<>>
  BY DEF BysOf
<1> QED BY <1>1, <1>2, FlattenEmpty DEF SpentOn

\* What the steps of a sound call spent.
LEMMA SpentType ==
  ASSUME NEW r, Sound(r)
  PROVE  OwnOf(r) \in Seq(Step) /\ SpentOn(r) \in Seq(Decision)
<1>1. r.steps \in Seq(Step) /\ r.base \in Nat /\ r.base <= Len(r.steps)
  BY DEF Sound, Order, OwnInOrder
<1>2. OwnOf(r) \in Seq(Step)
  BY <1>1, RestOfSeq DEF OwnOf
<1> QED BY <1>2, BysOfSteps DEF SpentOn

\* Nothing is decided yet of the call that has its turn next.
LEMMA ChosenIsSpent ==
  ASSUME NEW r, NEW s, Sound(r), Spent(r), Chosen(r, s)
  PROVE  Spent(s)
<1> DEFINE all == r.decisions
           d   == r.decisions[r.taken + 1]
           by  == r.action.by
           own == SpentOn(r)
<1>1. /\ all \in Seq(Decision) /\ r.taken \in Nat /\ r.taken < Len(all)
      /\ by \in Seq(Decision) /\ d \in Decision
  BY DEF Sound, Chosen, Action
<1>2. own \in Seq(Decision)
  BY SpentType
<1>3. SpentOn(s) = own
  BY DEF Chosen, SpentOn, OwnOf
<1>4. own \o by = SubSeq(all, 1, r.taken)
  BY DEF Spent
<1>5. SubSeq(all, 1, r.taken + 1) = Append(SubSeq(all, 1, r.taken), d)
  BY <1>1, FrontGrows
<1>6. own \o Append(by, d) = Append(own \o by, d)
  <2> HIDE DEF own, by, d
  <2> QED BY <1>1, <1>2, ConcatAppend
<1>7. s.action.by = Append(by, d) /\ s.decisions = all /\ s.taken = r.taken + 1
      /\ s.pc # "plan"
  BY DEF Chosen, AtBatch
<1>8. s.taken <= Len(s.decisions)
  BY <1>1, <1>7
<1> HIDE DEF own, by, d, all
<1> QED BY <1>3, <1>4, <1>5, <1>6, <1>7, <1>8 DEF Spent

\* What was decided of a call goes with its step.
LEMMA AnsweredIsSpent ==
  ASSUME NEW r, NEW s, NEW step, Sound(r), Spent(r), AnsweredWith(r, s, step)
  PROVE  Spent(s)
<1>1. /\ r.steps \in Seq(Step) /\ r.base \in Nat /\ r.base <= Len(r.steps)
      /\ step \in Step /\ r.batch \in Seq(Fresh)
      /\ s.steps = Append(r.steps, step) /\ s.base = r.base
  BY DEF Sound, Order, OwnInOrder, AnsweredWith
<1>2. OwnOf(s) = Append(OwnOf(r), step)
  BY <1>1, RestGrows DEF OwnOf
<1>3. OwnOf(r) \in Seq(Step) /\ SpentOn(r) \in Seq(Decision)
  BY SpentType
<1>4. SpentOn(s) = SpentOn(r) \o step.action.by
  BY <1>1, <1>2, <1>3, BysGrow DEF SpentOn
<1>5. s.action.by = <<>>
  <2>1. CASE r.next < Len(r.batch)
    <3>1. r.next \in 1..Len(r.batch)
      BY DEF Sound, AnsweredWith, Order, RestInOrder
    <3>2. s.action = r.batch[r.next + 1] /\ r.next + 1 \in 1..Len(r.batch)
      BY <2>1, <3>1 DEF AnsweredWith
    <3> QED BY <1>1, <3>2 DEF Fresh
  <2>2. CASE ~(r.next < Len(r.batch))
    BY <2>2 DEF AnsweredWith, NoAction
  <2> QED BY <2>1, <2>2
<1>6. step.action.by = r.action.by /\ s.decisions = r.decisions /\ s.taken = r.taken
  BY DEF AnsweredWith
<1>7. SpentOn(s) \in Seq(Decision)
  <2>1. step.action.by \in Seq(Decision)
    BY <1>1 DEF Step, Action
  <2> HIDE DEF SpentOn
  <2> QED BY <1>3, <1>4, <2>1, ConcatProperties
<1>8. SpentOn(s) \o <<>> = SpentOn(s)
  BY <1>7, ConcatEmptySeq
<1> QED BY <1>4, <1>5, <1>6, <1>8 DEF Spent

\* However a call moves, it spends its decisions in their order.
LEMMA MovesSpendInOrder ==
  ASSUME NEW r, NEW s, Sound(r), Spent(r), saved.steps \in Seq(Good),
         saved.pending \in Seq(Fresh), Moves(r, s)
  PROVE  Spent(s)
<1>1. CASE Went(r, s)
  BY <1>1 DEF Went, Keeps, Spent, SpentOn, OwnOf
\* A call that starts has spent nothing, and has been given something or nothing.
<1>2. ASSUME s.base \in Nat, Len(s.steps) = s.base, s.action.by = <<>>, s.taken = 0,
             s.decisions \in Seq(Decision)
      PROVE  Spent(s)
  <2>1. SpentOn(s) = <<>>
    BY <1>2, NothingIsSpent
  <2>2. SubSeq(s.decisions, 1, 0) = <<>>
    OBVIOUS
  <2>3. <<>> \o <<>> = <<>>
    OBVIOUS
  <2>4. 0 <= Len(s.decisions)
    BY <1>2
  <2> QED BY <1>2, <2>1, <2>2, <2>3, <2>4 DEF Spent
<1>3. CASE Began(s)
  <2>1. s.action.by = <<>> /\ s.base = 0 /\ s.steps = <<>> /\ s.decisions = <<>> /\ s.taken = 0
    BY <1>3 DEF Began, NoAction
  <2> QED BY <1>2, <2>1
<1>4. CASE Continued(s)
  <2>1. /\ s.steps = saved.steps /\ s.base = Len(saved.steps) /\ s.taken = 0
        /\ s.decisions \in Seq(Decision) /\ s.batch = saved.pending
        /\ s.batch # <<>> /\ s.action = s.batch[1]
    BY <1>4 DEF Continued
  <2>2. s.action \in Fresh
    BY <2>1
  <2>3. s.action.by = <<>>
    BY <2>2 DEF Fresh
  <2> QED BY <1>2, <2>1, <2>3
<1>5. CASE Planned(r, s)
  <2>1. /\ s.batch \in Seq(Fresh) /\ s.batch # <<>> /\ s.action = s.batch[1]
        /\ r.pc = "plan" /\ s.pc = "runtime_hook" /\ s.steps = r.steps /\ s.base = r.base
        /\ s.decisions = r.decisions /\ s.taken = r.taken
    BY <1>5 DEF Planned
  <2>2. s.action \in Fresh
    BY <2>1
  <2>3. s.action.by = <<>> /\ r.action.by = <<>>
    BY <2>1, <2>2 DEF Fresh, Spent
  <2>4. SpentOn(s) = SpentOn(r)
    BY <2>1 DEF SpentOn, OwnOf
  <2> QED BY <2>1, <2>3, <2>4 DEF Spent
<1>6. CASE Chosen(r, s)
  BY <1>6, ChosenIsSpent
<1>7. CASE AnsweredCall(r, s)
  BY <1>7, AnsweredIsSpent DEF AnsweredCall
<1>8. CASE ChosenAndAnswered(r, s)
  <2>1. PICK t : Chosen(r, t) /\ AnsweredCall(t, s)
    BY <1>8 DEF ChosenAndAnswered
  <2>2. Sound(t) /\ Spent(t)
    BY <2>1, ChosenIsSound, ChosenIsSpent
  <2> QED BY <2>1, <2>2, AnsweredIsSpent DEF AnsweredCall
<1> QED BY <1>1, <1>3, <1>4, <1>5, <1>6, <1>7, <1>8 DEF Moves

\* No step spends a decision twice, or out of its order.
LEMMA StepsSpendInOrder == Inv /\ Ordered /\ AllSpent /\ [Next]_vars => AllSpent'
<1> SUFFICES ASSUME Inv, Ordered, AllSpent, [Next]_vars
             PROVE  AllSpent'
  OBVIOUS
<1>1. CASE UNCHANGED vars
  BY <1>1 DEF vars, AllSpent, Spent, SpentOn, OwnOf, BysOf
<1>2. CASE Next
  <2>0. PICK c \in Caller : \E s : MovesTo(c, s)
    BY <1>2, StepsMove
  <2>1. PICK s : MovesTo(c, s)
    BY <2>0
  <2>2. Spent(s)
    <3>1. saved.steps \in Seq(Good) /\ saved.pending \in Seq(Fresh)
      BY DEF Inv
    <3>2. Sound(run[c]) /\ Spent(run[c]) /\ Moves(run[c], s)
      BY <2>1, CallsAreSound DEF AllSpent, MovesTo
    <3> QED BY <3>1, <3>2, MovesSpendInOrder
  <2>3. \A d \in Caller : run'[d] = IF d = c THEN s ELSE run[d]
    BY <2>1 DEF MovesTo, Inv
  <2>4. \A d \in Caller : Spent(run'[d])
    BY <2>2, <2>3 DEF AllSpent
  <2> QED BY <2>4 DEF AllSpent, Spent, SpentOn, OwnOf, BysOf
<1> QED BY <1>1, <1>2

\* Nothing is spent of nothing.
LEMMA InitiallySpent == Init => AllSpent
<1> SUFFICES ASSUME Init, NEW c \in Caller
             PROVE  Spent(run[c])
  BY DEF AllSpent
<1> DEFINE r == run[c]
<1>1. /\ r.pc = "idle" /\ r.steps = <<>> /\ r.base = 0 /\ r.action = NoAction
      /\ r.decisions = <<>> /\ r.taken = 0
  BY DEF Init, NewRun, NothingSaved
<1>2. r.action.by = <<>>
  BY <1>1 DEF NoAction
<1> HIDE DEF r
<1>3. SpentOn(r) = <<>>
  BY <1>1, NothingIsSpent
<1>4. SubSeq(<<>>, 1, 0) = <<>> /\ <<>> \o <<>> = <<>>
  OBVIOUS
<1>5. Spent(r)
  BY <1>1, <1>2, <1>3, <1>4 DEF Spent
<1> QED BY <1>5 DEF r

\* Always.
LEMMA SpentAlways == Spec => []AllSpent
<1>1. Init => AllSpent
  BY InitiallySpent
<1>2. Inv /\ Ordered /\ AllSpent /\ [Next]_vars => AllSpent'
  BY StepsSpendInOrder
<1> QED BY <1>1, <1>2, SafeAlways, OrderedAlways, PTL DEF Spec

(***************************************************************************)
(* A decision is spent once and in its order, over all the tool calls of a *)
(* resumed call, whatever it decides and whatever the tools do.            *)
(***************************************************************************)
THEOREM DecisionsAreSpentOnce == Spec => []DecisionsSpentInOrder
<1>1. AllSpent => DecisionsSpentInOrder
  BY DEF AllSpent, Spent, SpentOn, OwnOf, BysOf, DecisionsSpentInOrder, OwnSteps
<1> QED BY <1>1, SpentAlways, PTL
-------------------------------------------------------------------------------
(***************************************************************************)
(* The memory: the messages of a call's steps are one answer for each of   *)
(* them, and what was written stays there, whatever others write after it. *)
(***************************************************************************)

AnswerOf(step) == Message("tool", <<step.action.id>>)

AnswersOf(steps) == [k \in DOMAIN steps |-> AnswerOf(steps[k])]

HasTurn(messages, steps) ==
  \E i \in 0..Len(messages) : \E j \in (i + 2)..Len(messages) :
    /\ messages[i + 1].kind = "user" /\ messages[j].kind = "ai"
    /\ WithoutCalls(SubSeq(messages, i + 2, j - 1)) = AnswersOf(steps)

TurnsAreKept ==
  /\ memory \in Seq(Remembered)
  /\ \A c \in Caller : run[c].pc \in Ended => HasTurn(memory, run[c].steps)

\* The message of a step.
LEMMA AnswersAreRemembered ==
  ASSUME NEW step \in Step
  PROVE  AnswerOf(step) \in Remembered /\ AnswerOf(step).kind = "tool"
<1>1. step.action.id \in Nat
  BY DEF Step, Action
<1>2. <<step.action.id>> \in Seq(Nat) /\ "tool" \in Kinds
  BY <1>1 DEF Kinds
<1> QED BY <1>2, MessagesAreRemembered DEF AnswerOf

\* Whether a message carries calls decides what is left of it.
LEMMA WithoutCallsGrows ==
  ASSUME NEW messages \in Seq(Remembered), NEW m \in Remembered
  PROVE  WithoutCalls(Append(messages, m))
           = IF m.kind = "calls" THEN WithoutCalls(messages) ELSE Append(WithoutCalls(messages), m)
<1> DEFINE left(x) == IF x.kind = "calls" THEN <<>> ELSE <<x>>
           lefts   == [k \in DOMAIN messages |-> left(messages[k])]
           more    == Append(messages, m)
<1>1. \A x \in Remembered : left(x) \in Seq(Remembered)
  OBVIOUS
<1>2. lefts \in Seq(Seq(Remembered)) /\ Len(lefts) = Len(messages)
  <2>1. lefts \in [1..Len(messages) -> Seq(Remembered)]
    BY <1>1
  <2> QED BY <2>1
<1>3. [k \in DOMAIN more |-> left(more[k])] = Append(lefts, left(m))
  <2> HIDE DEF left
  <2> QED OBVIOUS
<1>4. WithoutCalls(more) = FlattenSeq([k \in DOMAIN more |-> left(more[k])])
  BY DEF WithoutCalls
<1>5. WithoutCalls(messages) = FlattenSeq(lefts)
  BY DEF WithoutCalls
<1>6. left(m) \in Seq(Remembered)
  BY <1>1
<1> DEFINE it == left(m)
<1> HIDE DEF lefts, it
<1>7. FlattenSeq(Append(lefts, it)) = FlattenSeq(lefts) \o it
  BY <1>2, <1>6, FlattenAppend DEF it
<1>8. FlattenSeq(lefts) \in Seq(Remembered)
  BY <1>2, FlattenType
<1>9. WithoutCalls(more) = WithoutCalls(messages) \o it
  BY <1>3, <1>4, <1>5, <1>7 DEF it
<1>10. CASE m.kind = "calls"
  <2>1. it = <<>>
    BY <1>10 DEF it
  <2>2. FlattenSeq(lefts) \o <<>> = FlattenSeq(lefts)
    BY <1>8, ConcatEmptySeq
  <2> QED BY <1>5, <1>9, <1>10, <2>1, <2>2
<1>11. CASE m.kind # "calls"
  <2>1. it = <<m>>
    BY <1>11 DEF it
  <2> DEFINE flat == FlattenSeq(lefts)
  <2> HIDE DEF flat
  <2>2. flat \o <<m>> = Append(flat, m)
    BY <1>8 DEF flat
  <2> QED BY <1>5, <1>9, <1>11, <2>1, <2>2 DEF flat
<1> QED BY <1>10, <1>11

\* One part for each step: its batch's message before the first, and its answer.
CallsOf(steps, i) ==
  IF \E j \in 1..(i - 1) : steps[j].action.log = steps[i].action.log
    THEN <<>> ELSE <<Message("calls", steps[i].action.log)>>

PartsOf(steps) ==
  [i \in DOMAIN steps |-> CallsOf(steps, i) \o <<AnswerOf(steps[i])>>]

\* Without the messages that carry the calls, it is the answers that are left.
LEMMA StepMessagesAnswer ==
  ASSUME NEW steps \in Seq(Step)
  PROVE  /\ StepMessages(steps) \in Seq(Remembered)
         /\ WithoutCalls(StepMessages(steps)) = AnswersOf(steps)
<1> DEFINE n     == Len(steps)
           parts == PartsOf(steps)
<1>1. n \in Nat /\ DOMAIN steps = 1..n /\ \A i \in 1..n : steps[i] \in Step
  OBVIOUS
<1>2. StepMessages(steps) = FlattenSeq(parts)
  BY DEF StepMessages, PartsOf, CallsOf, AnswerOf
<1>3. ASSUME NEW i \in 1..n
      PROVE  /\ AnswerOf(steps[i]) \in Remembered /\ AnswerOf(steps[i]).kind = "tool"
             /\ \/ CallsOf(steps, i) = <<>>
                \/ \E m \in Remembered : m.kind = "calls" /\ CallsOf(steps, i) = <<m>>
  <2>1. steps[i] \in Step
    OBVIOUS
  <2>2. steps[i].action.log \in Seq(Nat) /\ "calls" \in Kinds
    BY <2>1 DEF Step, Action, Kinds
  <2>3. /\ Message("calls", steps[i].action.log) \in Remembered
        /\ Message("calls", steps[i].action.log).kind = "calls"
    BY <2>2, MessagesAreRemembered
  <2> QED BY <2>1, <2>3, AnswersAreRemembered DEF CallsOf
<1>4. parts \in Seq(Seq(Remembered)) /\ Len(parts) = n
  <2>1. ASSUME NEW i \in 1..n
        PROVE  CallsOf(steps, i) \o <<AnswerOf(steps[i])>> \in Seq(Remembered)
    <3> DEFINE a == AnswerOf(steps[i])
               c == CallsOf(steps, i)
    <3>1. /\ a \in Remembered
          /\ c = <<>> \/ \E m \in Remembered : m.kind = "calls" /\ c = <<m>>
      BY <1>3
    <3> HIDE DEF a, c
    <3>2. \A m \in Remembered : <<m>> \in Seq(Remembered)
      OBVIOUS
    <3>3. c \in Seq(Remembered)
      <4>1. CASE c = <<>>
        BY <4>1
      <4>2. CASE \E m \in Remembered : m.kind = "calls" /\ c = <<m>>
        BY <3>2, <4>2
      <4> QED BY <3>1, <4>1, <4>2
    <3>4. c \o <<a>> \in Seq(Remembered)
      BY <3>1, <3>2, <3>3, ConcatProperties
    <3> QED BY <3>4 DEF a, c
  <2>2. parts \in [1..n -> Seq(Remembered)]
    BY <1>1, <2>1 DEF PartsOf
  <2> QED BY <1>1, <2>2
<1>5. \A i \in 1..n : parts[i] = CallsOf(steps, i) \o <<AnswerOf(steps[i])>>
  BY <1>1 DEF PartsOf
<1> HIDE DEF n, parts
<1>6. PICK f : Joins(f, parts, Remembered) /\ FlattenSeq(parts) = f[n]
  BY <1>4, FlattenJoins
<1>7. \A i \in 0..n : f[i] \in Seq(Remembered)
  BY <1>4, <1>6 DEF Joins
<1> DEFINE answers(i) == [k \in 1..i |-> AnswerOf(steps[k])]
           A == {i \in Nat : i <= n => WithoutCalls(f[i]) = answers(i)}
<1>8. 0 \in A
  <2>1. f[0] = <<>>
    BY <1>6 DEF Joins
  <2>2. WithoutCalls(<<>>) = <<>>
    BY FlattenEmpty DEF WithoutCalls
  <2>3. answers(0) = <<>>
    OBVIOUS
  <2> QED BY <2>1, <2>2, <2>3
<1>9. ASSUME NEW i \in Nat, i \in A
      PROVE  i + 1 \in A
  <2> SUFFICES ASSUME i + 1 <= n
               PROVE  WithoutCalls(f[i + 1]) = answers(i + 1)
    OBVIOUS
  <2>1. i + 1 \in 1..n /\ (i + 1) - 1 = i /\ i <= n /\ i \in 0..n
    BY <1>1
  <2> DEFINE a == AnswerOf(steps[i + 1])
             c == CallsOf(steps, i + 1)
  <2>2. f[i + 1] = f[i] \o (c \o <<a>>)
    <3>1. f[i + 1] = f[(i + 1) - 1] \o parts[i + 1]
      BY <1>4, <1>6, <2>1 DEF Joins
    <3> QED BY <1>5, <2>1, <3>1
  <2>3. /\ a \in Remembered /\ a.kind = "tool"
        /\ c = <<>> \/ \E m \in Remembered : m.kind = "calls" /\ c = <<m>>
    BY <1>3, <2>1
  <2>4. WithoutCalls(f[i]) = answers(i) /\ f[i] \in Seq(Remembered)
    BY <1>7, <1>9, <2>1
  <2> DEFINE old == f[i]
  <2> HIDE DEF a, c, old
  <2>5. WithoutCalls(old \o (c \o <<a>>)) = Append(WithoutCalls(old), a)
    <3>0. old \in Seq(Remembered)
      BY <2>4 DEF old
    <3>1. CASE c = <<>>
      <4>1. old \o (c \o <<a>>) = Append(old, a)
        BY <2>3, <3>0, <3>1
      <4> QED BY <2>3, <3>0, <4>1, WithoutCallsGrows
    <3>2. CASE \E m \in Remembered : m.kind = "calls" /\ c = <<m>>
      <4>1. PICK m \in Remembered : m.kind = "calls" /\ c = <<m>>
        BY <3>2
      <4>2. old \o (<<m>> \o <<a>>) = Append(Append(old, m), a)
        BY <2>3, <3>0
      <4>3. Append(old, m) \in Seq(Remembered)
        BY <3>0
      <4>4. WithoutCalls(Append(old, m)) = WithoutCalls(old)
        BY <3>0, <4>1, WithoutCallsGrows
      <4>5. WithoutCalls(Append(Append(old, m), a)) = Append(WithoutCalls(Append(old, m)), a)
        BY <2>3, <4>3, WithoutCallsGrows
      <4> QED BY <4>1, <4>2, <4>4, <4>5
    <3> QED BY <2>3, <3>1, <3>2
  <2>6. Append(answers(i), a) = answers(i + 1)
    BY DEF a
  <2> QED BY <2>2, <2>4, <2>5, <2>6 DEF old
<1> HIDE DEF A
<1>10. Nat \subseteq A
  BY <1>8, <1>9, NatSetInduction
<1>11. WithoutCalls(f[n]) = answers(n)
  <2>1. n \in A /\ n <= n
    BY <1>1, <1>10
  <2> QED BY <2>1 DEF A
<1>12. answers(n) = AnswersOf(steps)
  BY <1>1 DEF AnswersOf
<1>13. n \in 0..n
  BY <1>1
<1> QED BY <1>2, <1>6, <1>7, <1>11, <1>12, <1>13

\* What is remembered stays where it is.
LEMMA TurnsStay ==
  ASSUME NEW messages \in Seq(Remembered), NEW more \in Seq(Remembered), NEW steps,
         HasTurn(messages, steps)
  PROVE  HasTurn(messages \o more, steps)
<1>0. PICK i \in 0..Len(messages) : \E j \in (i + 2)..Len(messages) :
        /\ messages[i + 1].kind = "user" /\ messages[j].kind = "ai"
        /\ WithoutCalls(SubSeq(messages, i + 2, j - 1)) = AnswersOf(steps)
  BY DEF HasTurn
<1>1. PICK j \in (i + 2)..Len(messages) :
        /\ messages[i + 1].kind = "user" /\ messages[j].kind = "ai"
        /\ WithoutCalls(SubSeq(messages, i + 2, j - 1)) = AnswersOf(steps)
  BY <1>0
<1> DEFINE all == messages \o more
<1>2. /\ Len(all) = Len(messages) + Len(more) /\ Len(messages) \in Nat /\ Len(more) \in Nat
      /\ \A k \in 1..Len(messages) : all[k] = messages[k]
  OBVIOUS
<1>3. SubSeq(all, i + 2, j - 1) = SubSeq(messages, i + 2, j - 1)
  <2>1. i + 2 \in Nat \ {0} /\ j - 1 \in Int /\ j - 1 <= Len(messages)
    OBVIOUS
  <2> QED BY <2>1, SubSeqOfPrefix
<1> HIDE DEF all
<1>4. all[i + 1] = messages[i + 1] /\ all[j] = messages[j]
  BY <1>2
<1>5. i \in 0..Len(all) /\ j \in (i + 2)..Len(all)
  BY <1>2
<1>6. HasTurn(all, steps)
  BY <1>1, <1>3, <1>4, <1>5 DEF HasTurn
<1> QED BY <1>6 DEF all

\* A call that ends remembers its turn.
LEMMA TurnsAreWritten ==
  ASSUME NEW messages \in Seq(Remembered), NEW steps \in Seq(Step)
  PROVE  LET all == messages \o <<Message("user", <<>>)>> \o StepMessages(steps)
                      \o <<Message("ai", <<>>)>>
         IN  all \in Seq(Remembered) /\ HasTurn(all, steps)
<1> DEFINE user  == Message("user", <<>>)
           ai    == Message("ai", <<>>)
           turn  == StepMessages(steps)
           first == messages \o <<user>>
           both  == first \o turn
           all   == both \o <<ai>>
<1>1. user \in Remembered /\ user.kind = "user" /\ ai \in Remembered /\ ai.kind = "ai"
  <2>1. <<>> \in Seq(Nat) /\ "user" \in Kinds /\ "ai" \in Kinds
    BY DEF Kinds
  <2> QED BY <2>1, MessagesAreRemembered
<1>2. turn \in Seq(Remembered) /\ WithoutCalls(turn) = AnswersOf(steps)
  BY StepMessagesAnswer
<1> HIDE DEF user, ai, turn
<1>3. PICK n \in Nat, m \in Nat : n = Len(messages) /\ m = Len(turn)
  BY <1>2
<1>4. <<user>> \in Seq(Remembered) /\ <<ai>> \in Seq(Remembered)
  BY <1>1
<1> PICK k \in Nat, l \in Nat : k = n + 1 /\ l = k + m
  OBVIOUS
<1>5. first \in Seq(Remembered) /\ Len(first) = k /\ first[k] = user
  BY <1>1, <1>3
<1> HIDE DEF first
<1>6. both \in Seq(Remembered) /\ Len(both) = l /\ both[k] = user
  <2>1. both \in Seq(Remembered)
    BY <1>2, <1>5, ConcatProperties
  <2>3. ASSUME NEW x \in Seq(Remembered), NEW y \in Seq(Remembered),
               Len(x) = k, Len(y) = m
        PROVE  Len(x \o y) = k + m /\ \A i \in 1..k : (x \o y)[i] = x[i]
    BY ONLY SMTT(20), <2>3, ConcatElements
  <2>4. Len(both) = k + m /\ \A i \in 1..k : both[i] = first[i]
    <3>1. first \in Seq(Remembered) /\ turn \in Seq(Remembered) /\ Len(first) = k /\ Len(turn) = m
      BY <1>2, <1>3, <1>5
    <3> QED BY <2>3, <3>1
  <2>2. k \in 1..k
    OBVIOUS
  <2> HIDE DEF both
  <2> QED BY <1>5, <2>1, <2>2, <2>4
<1>7. SubSeq(both \o <<ai>>, n + 2, n + 1 + m) = turn
  <2>1. SubSeq((first \o turn) \o <<ai>>, Len(first) + 1, Len(first) + Len(turn)) = turn
    BY <1>2, <1>4, <1>5, MiddleOfConcat
  <2>2. Len(first) + 1 = n + 2 /\ Len(first) + Len(turn) = n + 1 + m
    BY <1>3, <1>5
  <2> QED BY <2>1, <2>2
<1> HIDE DEF both
<1>8. /\ all \in Seq(Remembered) /\ Len(all) = n + m + 2
      /\ all[n + 1] = user /\ all[n + m + 2] = ai
  <2>1. Len(<<ai>>) = 1 /\ <<ai>>[1] = ai
    OBVIOUS
  <2>2. /\ all \in Seq(Remembered) /\ Len(all) = l + 1
        /\ \A i \in 1..l : all[i] = both[i]
        /\ \A i \in 1..1 : all[l + i] = <<ai>>[i]
    BY SMTT(20), <1>4, <1>6, <2>1
  <2>3. n + 1 \in 1..l /\ l + 1 = n + m + 2 /\ 1 \in 1..1
    OBVIOUS
  <2> HIDE DEF all
  <2> QED BY <1>6, <2>1, <2>2, <2>3
<1>9. SubSeq(all, n + 2, (n + m + 2) - 1) = turn
  <2>1. (n + m + 2) - 1 = n + 1 + m
    OBVIOUS
  <2> QED BY <1>7, <2>1
<1> HIDE DEF all
<1>10. HasTurn(all, steps)
  <2>1. n \in 0..Len(all) /\ n + m + 2 \in (n + 2)..Len(all)
    BY <1>8
  <2>2. WithoutCalls(SubSeq(all, n + 2, (n + m + 2) - 1)) = AnswersOf(steps)
    BY <1>2, <1>9
  <2>3. all[n + 1].kind = "user" /\ all[n + m + 2].kind = "ai"
    BY <1>1, <1>8
  <2> QED BY <2>1, <2>2, <2>3 DEF HasTurn
<1> QED BY <1>8, <1>10 DEF all, both, first, turn, user, ai

\* Every step of every caller leaves whole turns in the memory.
LEMMA StepsKeepTurns == Inv /\ Ordered /\ TurnsAreKept /\ [Next]_vars => TurnsAreKept'
<1> SUFFICES ASSUME Inv, Ordered, TurnsAreKept, [Next]_vars
             PROVE  TurnsAreKept'
  OBVIOUS
<1>1. CASE UNCHANGED vars
  <2>1. run' = run /\ memory' = memory
    BY <1>1 DEF vars, shared
  <2>2. memory' \in Seq(Remembered)
        /\ \A c \in Caller : run'[c].pc \in Ended => HasTurn(memory', run'[c].steps)
    BY <2>1 DEF TurnsAreKept
  <2> QED BY <2>2 DEF TurnsAreKept, HasTurn, WithoutCalls, AnswersOf, AnswerOf
<1>2. CASE Next
  <2>0. PICK c \in Caller : \E s : MovesTo(c, s)
    BY <1>2, StepsMove
  <2>1. PICK s : MovesTo(c, s)
    BY <2>0
  <2>2. \A d \in Caller : run'[d] = IF d = c THEN s ELSE run[d]
    BY <2>1 DEF MovesTo, Inv
  <2>3. memory \in Seq(Remembered)
    BY DEF TurnsAreKept
  <2>4. /\ memory' \in Seq(Remembered)
        /\ \A d \in Caller : run'[d].pc \in Ended => HasTurn(memory', run'[d].steps)
    <3>1. CASE memory' = memory /\ (s.pc \in Ended => run[c].pc \in Ended /\ s.steps = run[c].steps)
      BY <2>2, <2>3, <3>1 DEF TurnsAreKept
    <3>2. CASE /\ s.steps = run[c].steps
               /\ memory' = memory \o <<Message("user", <<>>)>> \o StepMessages(run[c].steps)
                                   \o <<Message("ai", <<>>)>>
      <4>1. run[c].steps \in Seq(Step)
        BY CallsAreSound DEF Sound
      <4>2. memory' \in Seq(Remembered) /\ HasTurn(memory', s.steps)
        BY <2>3, <3>2, <4>1, TurnsAreWritten
      <4> DEFINE turn == <<Message("user", <<>>)>> \o (StepMessages(run[c].steps)
                                   \o <<Message("ai", <<>>)>>)
      <4>3. turn \in Seq(Remembered) /\ memory' = memory \o turn
        <5> DEFINE user == Message("user", <<>>)
                   ai   == Message("ai", <<>>)
                   msgs == StepMessages(run[c].steps)
        <5>1. user \in Remembered /\ ai \in Remembered
          <6>1. <<>> \in Seq(Nat) /\ "user" \in Kinds /\ "ai" \in Kinds
            BY DEF Kinds
          <6> QED BY <6>1, MessagesAreRemembered
        <5>2. msgs \in Seq(Remembered)
          BY <4>1, StepMessagesAnswer
        <5>3. memory' = ((memory \o <<user>>) \o msgs) \o <<ai>>
          BY <3>2
        <5> HIDE DEF user, ai, msgs
        <5>4. <<user>> \in Seq(Remembered) /\ <<ai>> \in Seq(Remembered)
          BY <5>1
        <5>5. ((memory \o <<user>>) \o msgs) \o <<ai>> = memory \o (<<user>> \o (msgs \o <<ai>>))
          BY <2>3, <5>2, <5>4
        <5>6. <<user>> \o (msgs \o <<ai>>) \in Seq(Remembered)
          BY <5>2, <5>4
        <5> QED BY <5>3, <5>5, <5>6 DEF user, ai, msgs
      <4> HIDE DEF turn
      <4>4. \A d \in Caller : run[d].pc \in Ended => HasTurn(memory \o turn, run[d].steps)
        BY <2>3, <4>3, TurnsStay DEF TurnsAreKept
      <4> QED BY <2>2, <4>2, <4>3, <4>4
    <3>3. CASE /\ s.pc \notin Ended
               /\ \E i \in DOMAIN run[c].steps :
                    memory' = memory \o <<Message("user", <<>>)>>
                                \o StepMessages(SubSeq(run[c].steps, 1, i - 1))
      <4>1. run[c].steps \in Seq(Step)
        BY CallsAreSound DEF Sound
      <4>2. PICK i \in DOMAIN run[c].steps :
              memory' = memory \o <<Message("user", <<>>)>>
                          \o StepMessages(SubSeq(run[c].steps, 1, i - 1))
        BY <3>3
      <4> DEFINE user == Message("user", <<>>)
                 msgs == StepMessages(SubSeq(run[c].steps, 1, i - 1))
                 more == <<user>> \o msgs
      <4>3. user \in Remembered
        <5>1. <<>> \in Seq(Nat) /\ "user" \in Kinds
          BY DEF Kinds
        <5> QED BY <5>1, MessagesAreRemembered
      <4>4. msgs \in Seq(Remembered)
        <5>1. SubSeq(run[c].steps, 1, i - 1) \in Seq(Step)
          BY <4>1
        <5> QED BY <5>1, StepMessagesAnswer
      <4>5. memory' = (memory \o <<user>>) \o msgs
        BY <4>2
      <4> HIDE DEF user, msgs
      <4>6. /\ more \in Seq(Remembered) /\ memory' = memory \o more
            /\ memory' \in Seq(Remembered)
        BY <2>3, <4>3, <4>4, <4>5
      <4> HIDE DEF more
      <4>7. \A d \in Caller : run[d].pc \in Ended => HasTurn(memory \o more, run[d].steps)
        BY <2>3, <4>6, TurnsStay DEF TurnsAreKept
      <4>8. \A d \in Caller : run'[d].pc \in Ended => d # c /\ run'[d] = run[d]
        BY <2>2, <3>3
      <4> QED BY <4>6, <4>7, <4>8
    <3> QED BY <2>1, <3>1, <3>2, <3>3 DEF MovesTo, Writes
  <2> QED BY <2>4 DEF TurnsAreKept, HasTurn, WithoutCalls, AnswersOf, AnswerOf
<1> QED BY <1>1, <1>2

\* Nothing is remembered, and no call has ended.
LEMMA InitiallyKept == Init => TurnsAreKept
<1> SUFFICES ASSUME Init
             PROVE  TurnsAreKept
  OBVIOUS
<1>1. memory \in Seq(Remembered)
  BY DEF Init
<1>2. \A c \in Caller : run[c].pc = "idle"
  BY DEF Init, NewRun
<1> QED BY <1>1, <1>2 DEF TurnsAreKept, Ended

\* Always.
LEMMA KeptAlways == Spec => []TurnsAreKept
<1>1. Init => TurnsAreKept
  BY InitiallyKept
<1>2. Inv /\ Ordered /\ TurnsAreKept /\ [Next]_vars => TurnsAreKept'
  BY StepsKeepTurns
<1> QED BY <1>1, <1>2, SafeAlways, OrderedAlways, PTL DEF Spec

(***************************************************************************)
(* A call that came to its end is in the memory as one whole turn, with    *)
(* every step it has made or resumed with, whatever others wrote since.    *)
(***************************************************************************)
THEOREM TurnsAreRemembered == Spec => []MemoryHoldsTurns
<1>1. TurnsAreKept => MemoryHoldsTurns
  BY DEF TurnsAreKept, HasTurn, AnswersOf, AnswerOf, Ended, MemoryHoldsTurns
<1> QED BY <1>1, KeptAlways, PTL
-------------------------------------------------------------------------------
(***************************************************************************)
(* The types of the whole state.  That a call has a tool call to decide or *)
(* to run where it stands, a decision left for each it has taken, and a    *)
(* history to begin with, is what the invariants above say.                *)
(***************************************************************************)
Typed ==
  /\ config \in [breaks : BOOLEAN, saves : BOOLEAN]
  /\ run \in [Caller -> Run]
  /\ saved \in [steps : Seq(Step), chat : Nat, pending : Seq(Action)]
  /\ calls \in 0..MaxCalls

\* A caller's call is another call after the step.
Turns(c) == \E s \in Run : run' = [run EXCEPT ![c] = s]

\* To another place.
LEMMA GoingIsTyped ==
  ASSUME Typed, NEW c \in Caller, NEW pc \in Places, run' = [run EXCEPT ![c].pc = pc]
  PROVE  Turns(c)
<1>1. run[c] \in Run
  BY DEF Typed
<1>2. [run[c] EXCEPT !.pc = pc] \in Run
  BY <1>1 DEF Run
<1>3. run' = [run EXCEPT ![c] = [run[c] EXCEPT !.pc = pc]]
  BY DEF Typed
<1> QED BY <1>2, <1>3 DEF Turns

\* A new call of what the thread has saved, or of nothing.
LEMMA NewRunsAreTyped ==
  ASSUME NEW pc \in Places, NEW resumed \in BOOLEAN,
         NEW state, state.steps \in Seq(Step), state.chat \in Nat,
         NEW batch \in Seq(Action), NEW decisions \in Seq(Decision), NEW asked \in Seq(Action)
  PROVE  NewRun(pc, resumed, state, batch, decisions, asked) \in Run
<1>1. Len(state.steps) \in Nat
  OBVIOUS
<1>2. Ids(batch) \in Seq(Nat)
  <2>1. \A i \in 1..Len(batch) : batch[i].id \in Nat
    <3>1. \A i \in 1..Len(batch) : batch[i] \in Action
      OBVIOUS
    <3> QED BY <3>1 DEF Action
  <2> PICK n \in Nat : n = Len(batch)
    OBVIOUS
  <2>2. Ids(batch) \in [1..n -> Nat]
    BY <2>1 DEF Ids
  <2> QED BY ONLY n \in Nat, <2>2
<1>3. (IF batch = <<>> THEN NoAction ELSE batch[1]) \in Action
  <2>1. NoAction \in Action
    BY NoActionIsFresh DEF Fresh
  <2> QED BY <2>1
<1> DEFINE act == IF batch = <<>> THEN NoAction ELSE batch[1]
           ids == Ids(batch)
           n   == Len(state.steps)
<1> HIDE DEF act, ids, n
<1>4. [pc |-> pc, resumed |-> resumed, replay |-> resumed, steps |-> state.steps,
       base |-> n, batch |-> batch, next |-> 1, action |-> act,
       decisions |-> decisions, taken |-> 0, chat |-> state.chat, input |-> state.chat,
       due |-> ids, asked |-> asked] \in Run
  BY <1>1, <1>2, <1>3 DEF Run, act, ids, n
<1> QED BY <1>4 DEF NewRun, act, ids, n

\* call_with_config and call_resume: the former reads a repaired history.
LEMMA CallsAreTyped ==
  ASSUME Typed, Inv, TurnsAreKept, NEW c \in Caller, Begin(c) \/ Resume(c)
  PROVE  Turns(c)
<1>0. run[c] \in Run /\ run[c].asked \in Seq(Action)
  BY DEF Typed, Run
<1>1. CASE Begin(c)
  <2> DEFINE n   == Len(Repair(memory))
             new == NewRun("plan", FALSE, NothingSaved, <<>>, <<>>, run[c].asked)
             s   == [new EXCEPT !.chat = n]
  <2>1. n \in Nat
    <3>1. Repair(memory) \in Seq(Remembered)
      BY RepairIsAnswered DEF TurnsAreKept
    <3> QED BY <3>1
  <2>2. new \in Run
    <3>1. "plan" \in Places /\ NothingSaved.steps \in Seq(Step) /\ NothingSaved.chat \in Nat
      BY DEF Places, NothingSaved
    <3>2. <<>> \in Seq(Action) /\ <<>> \in Seq(Decision)
      OBVIOUS
    <3> QED BY <1>0, <3>1, <3>2, NewRunsAreTyped
  <2>3. run' = [run EXCEPT ![c] = s]
    BY <1>1 DEF Begin, Call
  <2> HIDE DEF n, new
  <2>4. s \in Run
    BY <2>1, <2>2 DEF Run
  <2> QED BY <2>3, <2>4 DEF Turns
<1>2. CASE Resume(c)
  <2>1. PICK decisions \in ResumeInputs(run[c].asked) :
          Call(c, NewRun("runtime_hook", TRUE, saved, saved.pending, decisions, run[c].asked))
    BY <1>2 DEF Resume
  <2>2. decisions \in Seq(Decision)
    <3>1. run[c].asked \in Seq(Fresh)
      BY DEF Inv, Say
    <3> QED BY <3>1, ResumeInputsAreDecisions
  <2>3. "runtime_hook" \in Places /\ saved.steps \in Seq(Step) /\ saved.chat \in Nat
        /\ saved.pending \in Seq(Action)
    BY DEF Places, Typed
  <2>4. NewRun("runtime_hook", TRUE, saved, saved.pending, decisions, run[c].asked) \in Run
    BY <1>0, <2>2, <2>3, NewRunsAreTyped
  <2> QED BY <2>1, <2>4 DEF Call, Turns
<1> QED BY <1>1, <1>2

\* What the model answers.
LEMMA PlansAreTyped ==
  ASSUME Typed, Inv, NEW c \in Caller, Plans(c)
  PROVE  Turns(c)
<1>0. run[c] \in Run /\ planned \in Nat
  BY DEF Typed, Inv
<1>1. ASSUME NEW batch \in Batches, PlanBatch(c, batch)
      PROVE  Turns(c)
  <2> DEFINE ids == [i \in DOMAIN batch |-> planned + i]
             actions == [i \in DOMAIN batch |->
                           [id |-> ids[i], tool |-> batch[i], log |-> ids, by |-> <<>>]]
             first == actions[1]
             due   == run[c].due \o ids
             s == [run[c] EXCEPT !.batch = actions, !.next = 1, !.action = first,
                     !.replay = FALSE, !.chat = run[c].input, !.due = due,
                     !.pc = "runtime_hook"]
  <2>1. run' = [run EXCEPT ![c] = s]
    BY <1>0, <1>1 DEF PlanBatch, Run
  <2>2. batch # <<>> /\ batch \in Seq(Tool)
    BY <1>1, AgentAssumption DEF PlanBatch
  <2>3. actions \in Seq(Fresh)
    BY <1>0, PlannedIsFresh
  <2>4. ids \in Seq(Nat)
    <3>1. ids \in [1..Len(batch) -> Nat]
      BY <1>0, <2>2
    <3> QED BY <2>2, <3>1
  <2>5. DOMAIN actions = DOMAIN batch
    OBVIOUS
  <2> HIDE DEF actions
  <2>6. actions \in Seq(Action) /\ first \in Action
    <3>1. Fresh \subseteq Action
      BY DEF Fresh
    <3>2. actions \in Seq(Action)
      BY <2>3, <3>1
    <3>3. actions # <<>>
      BY <2>2, <2>5
    <3> QED BY <3>2, <3>3
  <2>7. due \in Seq(Nat)
    <3>1. run[c].due \in Seq(Nat)
      BY <1>0 DEF Run
    <3> HIDE DEF ids
    <3> QED BY <2>4, <3>1
  <2> HIDE DEF first, due
  <2>8. s \in Run
    <3> PICK r \in Run : r = run[c]
      BY <1>0
    <3> PICK n \in Nat \ {0} : n = 1
      OBVIOUS
    <3> DEFINE t == [r EXCEPT !.batch = actions, !.next = n, !.action = first, !.due = due]
    <3>1. t \in Run
      BY ONLY n \in Nat \ {0}, r \in Run, <2>6, <2>7 DEF Run
    <3>2. r.input \in Nat /\ "runtime_hook" \in Places
      BY DEF Run, Places
    <3>3. s = [t EXCEPT !.replay = FALSE, !.chat = r.input, !.pc = "runtime_hook"]
      BY DEF Run
    <3> HIDE DEF t
    <3> QED BY <3>1, <3>2, <3>3 DEF Run
  <2> QED BY <2>1, <2>8 DEF Turns
<1>2. CASE PlanNothing(c)
  <2> DEFINE place == IF LimitMet(FALSE, run[c].steps) THEN "limit" ELSE "plan"
             s == [run[c] EXCEPT !.replay = FALSE, !.chat = run[c].input, !.pc = place]
  <2>1. run' = [run EXCEPT ![c] = s]
    BY <1>2 DEF PlanNothing
  <2>2. place \in Places
    BY DEF Places
  <2> HIDE DEF place
  <2>3. s \in Run
    BY <1>0, <2>2 DEF Run
  <2> QED BY <2>1, <2>3 DEF Turns
<1>3. CASE PlanFinish(c)
  <2> DEFINE s == [run[c] EXCEPT !.chat = run[c].input, !.pc = "finish"]
  <2>1. run' = [run EXCEPT ![c] = s]
    BY <1>3 DEF PlanFinish
  <2>2. s \in Run
    BY <1>0 DEF Run, Places
  <2> QED BY <2>1, <2>2 DEF Turns
<1> QED BY <1>1, <1>2, <1>3 DEF Plans

\* An answer to the call that has its turn.
LEMMA AnswersAreTyped ==
  ASSUME NEW c \in Caller, NEW r \in Run,
         NEW outcome \in {"ran", "failed", "rejected"}, Answer(c, r, outcome)
  PROVE  Turns(c)
<1> DEFINE step  == [action |-> r.action, outcome |-> outcome]
           steps == Answered(r, outcome)
           more  == r.next < Len(r.batch)
           act   == IF more THEN r.batch[r.next + 1] ELSE NoAction
           place == CASE more -> "runtime_hook"
                      [] ~more /\ LimitMet(r.replay, steps) -> "limit"
                      [] OTHER -> "plan"
           next  == r.next + 1
           s     == [r EXCEPT !.steps = steps, !.next = next, !.action = act, !.pc = place]
<1>1. run' = [run EXCEPT ![c] = s]
  BY DEF Answer, Run
<1>2. /\ r.action \in Action /\ r.steps \in Seq(Step) /\ r.batch \in Seq(Action)
      /\ r.next \in Nat \ {0}
  BY DEF Run
<1>3. steps \in Seq(Step)
  <2>1. step \in Step
    BY <1>2 DEF Step
  <2>2. Append(r.steps, step) \in Seq(Step)
    BY <1>2, <2>1
  <2> QED BY <2>2 DEF Answered
<1>4. act \in Action
  <2>1. CASE more
    <3>1. r.next + 1 \in 1..Len(r.batch)
      BY <1>2, <2>1
    <3> QED BY <1>2, <2>1, <3>1
  <2>2. CASE ~more
    BY <2>2, NoActionIsFresh DEF Fresh
  <2> QED BY <2>1, <2>2
<1>5. place \in Places
  BY DEF Places
<1>6. next \in Nat \ {0}
  BY <1>2
<1> HIDE DEF steps, act, place, next
<1>7. s \in Run
  BY <1>3, <1>4, <1>5, <1>6 DEF Run
<1> QED BY <1>1, <1>7 DEF Turns

\* The call after a decision.
LEMMA DecidedIsTyped ==
  ASSUME NEW c \in Caller, run[c] \in Run, HasDecision(c)
  PROVE  Decided(c) \in Run /\ NextDecision(c) \in Decision
<1> DEFINE r   == run[c]
           d   == NextDecision(c)
           by  == Append(r.action.by, d)
           new == [r.action EXCEPT !.by = by]
           n   == r.taken + 1
<1>1. r.action \in Action /\ r.decisions \in Seq(Decision) /\ r.taken \in Nat
  BY DEF Run
<1>2. d \in Decision
  <2>1. r.taken + 1 \in 1..Len(r.decisions)
    BY <1>1 DEF HasDecision
  <2> QED BY <1>1, <2>1 DEF NextDecision
<1>3. by \in Seq(Decision) /\ n \in Nat
  <2>1. r.action.by \in Seq(Decision)
    BY <1>1 DEF Action
  <2> HIDE DEF d
  <2> QED BY <1>1, <1>2, <2>1
<1>4. Decided(c) = [r EXCEPT !.action = new, !.taken = n]
  BY DEF Decided, Run
<1> HIDE DEF by, n
<1>5. new \in Action
  BY <1>1, <1>3 DEF Action
<1> HIDE DEF new
<1>6. [r EXCEPT !.action = new, !.taken = n] \in Run
  BY <1>3, <1>5 DEF Run
<1> QED BY <1>2, <1>4, <1>6

\* The middleware's hooks.
LEMMA HooksAreTyped ==
  ASSUME Typed, NEW c \in Caller, Hooks(c)
  PROVE  Turns(c)
<1>0. run[c] \in Run
  BY DEF Typed
<1>n. AfterNone(c) \in Places
  BY DEF AfterNone, Places
<1>1. CASE PassHook(c)
  BY <1>1, <1>n, GoingIsTyped DEF PassHook, Goes
<1>2. CASE Approve(c)
  <2> DEFINE r == Decided(c)
             s == [r EXCEPT !.pc = AfterNone(c)]
  <2>1. run' = [run EXCEPT ![c] = s] /\ HasDecision(c)
    BY <1>2 DEF Approve, Decides
  <2>2. r \in Run
    BY <1>0, <2>1, DecidedIsTyped
  <2> HIDE DEF r
  <2>3. s \in Run
    BY <1>n, <2>2 DEF Run
  <2> QED BY <2>1, <2>3 DEF Turns
<1>3. CASE Edit(c)
  <2> DEFINE r   == Decided(c)
             d   == NextDecision(c)
             act == [r.action EXCEPT !.tool = d.tool]
             s   == [r EXCEPT !.action = act, !.pc = "tool"]
  <2>1. HasDecision(c)
    BY <1>3 DEF Edit, Decides
  <2>2. r \in Run /\ d \in Decision
    BY <1>0, <2>1, DecidedIsTyped
  <2>3. run' = [run EXCEPT ![c] = s]
    BY <1>3, <2>2 DEF Edit, Run
  <2> HIDE DEF r, d
  <2>4. r.action \in Action /\ d.tool \in Tool
    BY <2>2 DEF Run, Decision
  <2>5. act \in Action
    BY <2>4 DEF Action
  <2> HIDE DEF act
  <2>6. s \in Run
    BY <2>2, <2>5 DEF Run, Places
  <2> QED BY <2>3, <2>6 DEF Turns
<1>4. CASE Reject(c)
  <2>1. HasDecision(c) /\ Answer(c, Decided(c), "rejected")
    BY <1>4 DEF Reject, Decides
  <2>2. Decided(c) \in Run
    BY <1>0, <2>1, DecidedIsTyped
  <2> QED BY <2>1, <2>2, AnswersAreTyped
<1>5. CASE Interrupt(c)
  <2> DEFINE place == IF run[c].resumed THEN "interrupt_error" ELSE "interrupted"
             batch == run[c].batch
             s     == [run[c] EXCEPT !.asked = batch, !.pc = place]
  <2>1. run' = [run EXCEPT ![c] = s]
    BY <1>5 DEF Interrupt
  <2>2. place \in Places /\ batch \in Seq(Action)
    BY <1>0 DEF Places, Run
  <2> HIDE DEF place, batch
  <2>3. s \in Run
    BY <1>0, <2>2 DEF Run
  <2> QED BY <2>1, <2>3 DEF Turns
<1> QED BY <1>1, <1>2, <1>3, <1>4, <1>5 DEF Hooks

\* Every step of the agent changes one call into another.
LEMMA StepsAreTyped ==
  ASSUME Typed, Inv, TurnsAreKept, Next
  PROVE  \E c \in Caller : Turns(c)
<1>1. PICK c \in Caller : Begin(c) \/ Resume(c) \/ Loop(c) \/ Fails(c) \/ Cancel(c)
  BY DEF Next
<1>2. CASE Tools(c)
  <2>1. run[c] \in Run
    BY DEF Typed
  <2>2. "failed" \in Places
    BY DEF Places
  <2>3. CASE Goes(c, "failed")
    BY <2>2, <2>3, GoingIsTyped DEF Goes
  <2>4. CASE Answer(c, run[c], "ran") \/ Answer(c, run[c], "failed")
    BY <2>1, <2>4, AnswersAreTyped
  <2> QED BY <1>2, <2>3, <2>4 DEF Tools, ToolReturns, ToolFails, ToolMissing
<1>3. CASE Ends(c)
  <2>1. PICK pc \in {"after_finish", "finished", "failed", "idle"} :
          run' = [run EXCEPT ![c].pc = pc]
    BY <1>3 DEF Ends, WriteMemory, WriteMemoryFails, Return, Fails, Cancel, Goes
  <2>2. pc \in Places
    BY DEF Places
  <2> QED BY <2>1, <2>2, GoingIsTyped
<1>4. CASE Begin(c) \/ Resume(c)
  BY <1>4, CallsAreTyped
<1>5. CASE Plans(c)
  BY <1>5, PlansAreTyped
<1>6. CASE Hooks(c)
  BY <1>6, HooksAreTyped
<1> QED BY <1>1, <1>2, <1>3, <1>4, <1>5, <1>6 DEF Loop, Ends

\* The types of what is not a call's own.
LEMMA StepsKeepTypes == Typed /\ Inv /\ TurnsAreKept /\ [Next]_vars => Typed'
<1> SUFFICES ASSUME Typed, Inv, TurnsAreKept, [Next]_vars
             PROVE  Typed'
  OBVIOUS
<1>1. CASE UNCHANGED vars
  BY <1>1 DEF vars, Typed
<1>2. CASE Next
  <2>1. run' \in [Caller -> Run]
    <3>1. PICK c \in Caller : Turns(c)
      BY <1>2, StepsAreTyped
    <3>2. PICK s \in Run : run' = [run EXCEPT ![c] = s]
      BY <3>1 DEF Turns
    <3> QED BY <3>2 DEF Typed
  <2>2. PICK c \in Caller : Begin(c) \/ Resume(c) \/ Loop(c) \/ Fails(c) \/ Cancel(c)
    BY <1>2 DEF Next
  <2>3. config' = config
    BY <2>2 DEF Begin, Resume, Call, Loop, Plans, PlanBatch, PlanNothing, PlanFinish, Hooks,
                PassHook, Approve, Edit, Reject, Interrupt, Tools, ToolReturns, ToolFails,
                ToolMissing, Answer, WriteMemory, WriteMemoryFails, Return, Fails, Cancel,
                Goes
  <2>4. calls' = calls \/ (calls < MaxCalls /\ calls' = calls + 1)
    BY <2>2 DEF Begin, Resume, Call, Loop, Plans, PlanBatch, PlanNothing, PlanFinish, Hooks,
                PassHook, Approve, Edit, Reject, Interrupt, Tools, ToolReturns, ToolFails,
                ToolMissing, Answer, WriteMemory, WriteMemoryFails, Return, Fails, Cancel,
                Goes
  <2>5. saved' \in [steps : Seq(Step), chat : Nat, pending : Seq(Action)]
    <3>1. CASE Interrupt(c)
      <4>1. run[c] \in Run
        BY DEF Typed
      <4>2. run[c].steps \in Seq(Step) /\ run[c].chat \in Nat /\ run[c].batch \in Seq(Action)
        BY <4>1 DEF Run
      <4>3. \/ saved' = saved
            \/ saved' = [steps |-> run[c].steps, chat |-> run[c].chat, pending |-> run[c].batch]
        BY <3>1 DEF Interrupt, Pending
      <4> QED BY <4>2, <4>3 DEF Typed
    <3>2. CASE ~Interrupt(c)
      <4>1. saved' = saved
        BY <2>2, <3>2
           DEF Begin, Resume, Call, Loop, Plans, PlanBatch, PlanNothing, PlanFinish, Hooks,
               PassHook, Approve, Edit, Reject, Tools, ToolReturns, ToolFails, ToolMissing,
               Answer, WriteMemory, WriteMemoryFails, Return, Fails, Cancel, Goes, shared
      <4> QED BY <4>1 DEF Typed
    <3> QED BY <3>1, <3>2
  <2>6. calls' \in 0..MaxCalls
    BY <2>4, AgentAssumption DEF Typed
  <2> QED BY <2>1, <2>3, <2>5, <2>6 DEF Typed
<1> QED BY <1>1, <1>2

\* As the executor is built.
LEMMA InitiallyTyped == Init => Typed
<1> SUFFICES ASSUME Init
             PROVE  Typed
  OBVIOUS
<1>1. NothingSaved \in [steps : Seq(Step), chat : Nat, pending : Seq(Action)]
  BY DEF NothingSaved
<1>2. NewRun("idle", FALSE, NothingSaved, <<>>, <<>>, <<>>) \in Run
  <2>1. "idle" \in Places /\ NothingSaved.steps \in Seq(Step) /\ NothingSaved.chat \in Nat
    BY DEF Places, NothingSaved
  <2>2. <<>> \in Seq(Action) /\ <<>> \in Seq(Decision)
    OBVIOUS
  <2> QED BY <2>1, <2>2, NewRunsAreTyped
<1>3. run \in [Caller -> Run]
  <2> DEFINE new == NewRun("idle", FALSE, NothingSaved, <<>>, <<>>, <<>>)
  <2>1. run = [c \in Caller |-> new]
    BY DEF Init
  <2> HIDE DEF new
  <2> QED BY <1>2, <2>1 DEF new
<1>4. 0 \in 0..MaxCalls
  BY AgentAssumption
<1> QED BY <1>1, <1>3, <1>4 DEF Init, Typed

(***************************************************************************)
(* The agent's state keeps its types: a call at a hook or at a tool has a  *)
(* call of its batch left, it never takes more decisions than it was given *)
(* (which would be an index out of range), and what it reads is a history. *)
(***************************************************************************)
THEOREM TypeCorrect == Spec => []TypeOK
<1>1. Init => Typed
  BY InitiallyTyped
<1>2. Typed /\ Inv /\ TurnsAreKept /\ [Next]_vars => Typed'
  BY StepsKeepTypes
<1>3. Typed /\ Inv /\ Ordered /\ AllSpent /\ TurnsAreKept => TypeOK
  <2> SUFFICES ASSUME Typed, Inv, Ordered, AllSpent, TurnsAreKept
               PROVE  TypeOK
    OBVIOUS
  <2>1. memory \in Seq([kind : Kinds, ids : Seq(Nat), real : BOOLEAN])
    BY DEF TurnsAreKept, Remembered
  <2>2. ASSUME NEW c \in Caller
        PROVE  /\ run[c].taken <= Len(run[c].decisions)
               /\ (AtHook(c) \/ At(c, "tool")) => run[c].next <= Len(run[c].batch)
    <3>1. AtHook(c) \/ At(c, "tool") => run[c].pc \in AtBatch
      BY DEF AtHook, At, AtBatch
    <3>2. run[c].pc \in AtBatch => run[c].next \in 1..Len(run[c].batch)
      BY DEF Ordered, Order, RestInOrder
    <3>3. run[c].batch \in Seq(Action)
      BY DEF Typed, Run
    <3>4. run[c].taken <= Len(run[c].decisions)
      BY DEF AllSpent, Spent
    <3>5. run[c].pc \in AtBatch => run[c].next <= Len(run[c].batch)
      BY <3>2, <3>3
    <3> QED BY <3>1, <3>4, <3>5
  <2> QED BY <2>1, <2>2 DEF Typed, Inv, TypeOK
<1> QED BY <1>1, <1>2, <1>3, SafeAlways, OrderedAlways, SpentAlways, KeptAlways, PTL DEF Spec
=============================================================================

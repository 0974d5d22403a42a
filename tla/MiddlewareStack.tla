--------------------------- MODULE MiddlewareStack ---------------------------
(***************************************************************************)
(* One run of the agent executor with a stack of middleware: what their    *)
(* hooks make of the input, of tool results and of the answer.  The loop   *)
(* itself, its checkpoints and memory are AgentLoop's.                     *)
(*                                                                         *)
(* A hook returns None or Some(value): here the empty set, or one element. *)
(***************************************************************************)
EXTENDS Integers, FiniteSetsExt, SequencesExt

CONSTANTS
  Stacks,           \* sequences of middleware
  Inputs,           \* [text, history, prompt] as the caller gives them
  Results,          \* what tools return: [large, secret]
  Threshold, Preserve,    \* message_threshold and preserve_recent
  MaxSteps          \* max_iterations

None    == {}
Some(v) == {v}

VARIABLES
  stack,
  named,        \* the agent's actions carry ids of their tool calls
  original,     \* input_variables
  request,      \* the input in runtime_request
  plan_input,
  steps,        \* per tool call, the observation the model is shown
  phase, at,    \* the hooks being called, and the next middleware
  event,        \* what the agent planned, as the hooks have changed it
  judged,       \* the last answer the safety model found safe
  stored        \* the store: per key, the result evicted to it

vars == <<stack, named, original, request, plan_input, steps, phase, at, event, judged, stored>>

-------------------------------------------------------------------------------
(* Messages of a history: a system message may stand for several, and hooks *)
(* add text of their own.                                                   *)

Item(system, of, added) == [system |-> system, of |-> of, added |-> added]
Message(m) == Item(FALSE, <<m>>, {})

Expanded(history) == FlattenSeq([i \in DOMAIN history |-> history[i].of])

-------------------------------------------------------------------------------
(* before_agent_plan                                                       *)

\* What the detector's pattern matches, and what contains_banned_keywords finds.
Detected(text) == "secret" \in ToSet(text)
Banned(text)   == "banned" \in ToSet(text)

\* The strategies of PIIMiddleware: process_text replaces what was detected, or fails.
Detectors == {"pii", "block"}

\* Of the new input, its first word is kept.
RedactedInput(in) ==
  IF ~Detected(in.text) THEN None
  ELSE Some([in EXCEPT !.text = <<IF Head(in.text) = "secret" THEN "redacted" ELSE Head(in.text)>>])

\* Fault: the message at the split is in neither part.
SummarizedBeside(in) ==
  LET n == Len(in.history)
  IN  IF n <= Threshold \/ n <= Preserve THEN None
      ELSE Some([in EXCEPT !.history =
             <<Item(TRUE, Expanded(SubSeq(@, 1, n - Preserve - 1)), {"summary"})>>
               \o SubSeq(@, n - Preserve + 1, n)])

SummarizedInput(in) ==
  LET n == Len(in.history)
  IN  IF n <= Threshold \/ n <= Preserve THEN None
      ELSE Some([in EXCEPT !.history =
             <<Item(TRUE, Expanded(SubSeq(@, 1, n - Preserve)), {"summary"})>>
               \o SubSeq(@, n - Preserve + 1, n)])

PlainHook(mw, in) ==
  CASE mw = "pii"       -> RedactedInput(in)
    [] mw = "summarize" -> SummarizedInput(in)
    [] OTHER            -> None

\* Only on the first plan of a turn; the input is returned also where nothing is added.
WithSkills(in) ==
  IF steps # <<>> THEN None
  ELSE Some([in EXCEPT !.history = <<Item(TRUE, <<>>, {"skills"})>> \o @])

WithPrompt(in) == Some([in EXCEPT !.prompt = TRUE])

\* The default of the hook with a runtime calls the one without.
RuntimeHook(mw, in) ==
  CASE mw = "skills" -> WithSkills(in)
    [] mw = "prompt" -> WithPrompt(in)
    [] OTHER         -> PlainHook(mw, in)

Replaced(hook, old) == IF hook = None THEN old ELSE CHOOSE v \in hook : TRUE

\* Aborted, or the summarizer's model failed.
Fails(mw) ==
  \/ mw = "filter" /\ Banned(request.text)
  \/ mw = "block" /\ Detected(request.text)
  \/ mw = "summarize" /\ SummarizedInput(request) # None

To(p) == phase' = p /\ at' = 1
Fail  ==
  /\ To("failed")
  /\ UNCHANGED <<stack, named, original, request, plan_input, steps, event, judged, stored>>

Pass  == at' = at + 1 /\ UNCHANGED phase

InHook(p) == phase = p /\ at <= Len(stack)

BeforePlan ==
  /\ InHook("plan")
  /\ \/ Fails(stack[at]) /\ Fail
     \/ /\ stack[at] \in {"filter", "block"} => ~Fails(stack[at])
        /\ plan_input' =
             LET hook == RuntimeHook(stack[at], request)
             IN  IF hook # None THEN Replaced(hook, plan_input)
                 ELSE Replaced(PlainHook(stack[at], plan_input), plan_input)
        /\ Pass
        /\ UNCHANGED <<stack, named, original, request, steps, event, judged, stored>>

-------------------------------------------------------------------------------
(* before_model_call, each on the request the one before returned          *)

Rules == Item(FALSE, <<>>, {"rules"})

WithSystemPrompt(history) ==
  IF history # <<>> /\ Head(history).system
  THEN [history EXCEPT ![1].added = @ \cup {"prompt"}]
  ELSE <<Item(TRUE, <<>>, {"prompt"})>> \o history

Injected(mw, history) ==
  CASE mw = "rules_first" -> <<Rules>> \o history
    [] mw = "rules_before_last" ->
         IF history = <<>> THEN <<Rules>> ELSE Front(history) \o <<Rules, Last(history)>>
    [] mw = "rules_last" -> Append(history, Rules)
    [] mw = "system_prompt" -> WithSystemPrompt(history)
    [] OTHER -> history

InjectedByAll(history) == FoldLeft(LAMBDA old, mw : Injected(mw, old), history, stack)

BeforeModel ==
  /\ phase = "plan" /\ at > Len(stack)
  /\ plan_input' = [plan_input EXCEPT !.history = InjectedByAll(@)]
  /\ To("model")
  /\ UNCHANGED <<stack, named, original, request, steps, event, judged, stored>>

\* The agent's plan: a call, whose tool returns a result, or an answer.
Plans ==
  /\ phase = "model"
  /\ event' \in [call : Results] \cup [answer : {"fine", "secret"}]
  /\ To("planned")
  /\ UNCHANGED <<stack, named, original, request, plan_input, steps, judged, stored>>

-------------------------------------------------------------------------------
(* after_agent_plan and before_finish                                      *)

IsAnswer == "answer" \in DOMAIN event

Refusal == "refusal"

\* Both hooks ask the safety model: the answer goes on if it says SAFE twice.
Judged ==
  \/ event' = [answer |-> Refusal] /\ UNCHANGED judged
  \/ judged' = event.answer /\ UNCHANGED event

BlocksAnswer == IsAnswer /\ stack[at] = "block" /\ event.answer = "secret"

AfterPlan ==
  /\ InHook("planned")
  /\ \/ IsAnswer /\ stack[at] = "safety" /\ ((Judged /\ Pass) \/ Fail)
     \/ BlocksAnswer /\ Fail
     \/ /\ ~BlocksAnswer /\ ~(IsAnswer /\ stack[at] = "safety")
        /\ event' = IF IsAnswer /\ stack[at] = "pii" /\ event.answer = "secret"
                    THEN [answer |-> "redacted"] ELSE event
        /\ Pass /\ UNCHANGED judged
  /\ UNCHANGED <<stack, named, original, request, plan_input, steps, stored>>

BeforeFinish ==
  /\ phase = "planned" /\ at > Len(stack) /\ IsAnswer
  /\ To("finish")
  /\ UNCHANGED <<stack, named, original, request, plan_input, steps, event, judged, stored>>

\* Only the safety guardrail has a hook here: it asks once more.
Finish ==
  /\ InHook("finish")
  /\ \/ stack[at] = "safety" /\ ((Judged /\ Pass) \/ Fail)
     \/ stack[at] # "safety" /\ Pass /\ UNCHANGED <<event, judged>>
  /\ UNCHANGED <<stack, named, original, request, plan_input, steps, stored>>

Return ==
  /\ phase = "finish" /\ at > Len(stack)
  /\ To("done")
  /\ UNCHANGED <<stack, named, original, request, plan_input, steps, event, judged, stored>>

-------------------------------------------------------------------------------
(* after_tool_call, each on the observation the one before returned        *)

Observation(result) ==
  [step |-> Len(steps) + 1, large |-> result.large, secret |-> result.secret, notice |-> FALSE]

CallTool ==
  /\ phase = "planned" /\ at > Len(stack) /\ ~IsAnswer
  /\ steps' = Append(steps, Observation(event.call))
  /\ To("called")
  /\ UNCHANGED <<stack, named, original, request, plan_input, event, judged, stored>>

\* Fault: the id is not looked for in the action's log.
UnknownKey(o) == 0

\* tool_call_id_from_action, or "unknown" for an action without a log of its tools.
Key(o) == IF named THEN o.step ELSE 0

Shown == Last(steps)
Shows(o) == steps' = Append(Front(steps), o)

Redacts == stack[at] = "pii" /\ Shown.secret
Evicts  == stack[at] = "evict" /\ Shown.large
Blocks  == stack[at] = "block" /\ Shown.secret

\* A result that is blocked ends the run.
AfterToolFails == InHook("called") /\ Blocks /\ Fail

\* The whole observation is stored, and a preview of it shown.
AfterTool ==
  /\ InHook("called") /\ ~Blocks
  /\ IF Redacts THEN Shows([Shown EXCEPT !.secret = FALSE]) /\ UNCHANGED stored
     ELSE IF Evicts
     THEN /\ stored' = [stored EXCEPT ![Key(Shown)] = Some(Shown)]
          /\ Shows([Shown EXCEPT !.large = FALSE, !.notice = TRUE])
     ELSE UNCHANGED <<steps, stored>>
  /\ Pass
  /\ UNCHANGED <<stack, named, original, request, plan_input, event, judged>>

\* The next iteration starts from input_variables.
Again ==
  /\ phase = "called" /\ at > Len(stack)
  /\ To(IF Len(steps) >= MaxSteps THEN "limit" ELSE "plan")
  /\ plan_input' = original /\ request' = original
  /\ UNCHANGED <<stack, named, original, steps, event, judged, stored>>

\* An agent that is allowed no step takes one.
MostSteps == IF MaxSteps = 0 THEN 1 ELSE MaxSteps

Init ==
  /\ stack \in Stacks /\ named \in BOOLEAN
  /\ original \in Inputs /\ request = original /\ plan_input = original
  /\ steps = <<>> /\ phase = "plan" /\ at = 1
  /\ event = [answer |-> "fine"] /\ judged = ""
  /\ stored = [k \in 0..MostSteps |-> None]

Next ==
  \/ BeforePlan \/ BeforeModel \/ Plans \/ AfterPlan
  \/ CallTool \/ AfterTool \/ AfterToolFails \/ Again
  \/ BeforeFinish \/ Finish \/ Return

Spec == Init /\ [][Next]_vars

-------------------------------------------------------------------------------
(* Properties                                                              *)

TypeOK ==
  /\ stack \in Stacks /\ original \in Inputs /\ request = original
  /\ phase \in {"plan", "model", "planned", "called", "finish", "done", "limit", "failed"}
  /\ Len(steps) <= MostSteps /\ at \in 1..(Len(stack) + 1)
  /\ DOMAIN stored = 0..MostSteps

\* Whatever the stack: no message of the history is lost or out of its order on the
\* way to the model, and the last ones are as they were said.
HistoryReachesTheModel ==
  LET said == Expanded(original.history)
      kept == SelectSeq(plan_input.history, LAMBDA i : ~i.system /\ i.of # <<>>)
  IN  /\ Expanded(plan_input.history) = said
      /\ Len(kept) >= Min({Preserve, Len(said)})
      /\ \A i \in DOMAIN kept : kept[i].of = <<said[Len(said) - Len(kept) + i]>>

\* The notice for an evicted result names a key that holds that result, as it was
\* shown then.
EvictedResultsAreKept ==
  named => \A s \in ToSet(steps) :
    s.notice => \E o \in stored[Key(s)] : o.step = s.step

\* With their middleware in the stack, no detected text is shown to the model as a
\* tool's result or returned, and no answer is returned that was not found safe.
AnswersAreGuarded ==
  /\ ToSet(stack) \cap Detectors # {} =>
       /\ phase \in {"plan", "done", "limit"} => \A s \in ToSet(steps) : ~s.secret
       /\ phase = "done" => event.answer # "secret"
  /\ "safety" \in ToSet(stack) /\ phase = "done" => event.answer \in {Refusal, judged}

\* What MiddlewareChainExecutor makes of an input, which nothing calls: each hook on
\* what the one before returned.
Chained == FoldLeft(LAMBDA in, mw : Replaced(RuntimeHook(mw, in), in), original, stack)

\* "Return Ok(None) to use original input, or Ok(Some(modified_input)) to replace it"
\* (middleware/mod.rs:118): the agent plans on what the last middleware made of what
\* those before it had made.
ReplacementsAreKept ==
  phase = "plan" /\ at > Len(stack) => plan_input = Chained
===============================================================================

------------------------------- MODULE ChainRuns -------------------------------
(***************************************************************************)
(* A SequentialChain (chain/sequential): chains that run one after another *)
(* over the same input variables, each adding what it generates.  A chain  *)
(* asks a model with the variables its prompt names (LLMChain), puts the   *)
(* documents it is given in one of them first (StuffDocument), asks for a  *)
(* query, runs it and asks for the answer (SQLDatabaseChain), or is a      *)
(* SequentialChain itself.                                                 *)
(*                                                                         *)
(* A value is 0 if the caller gave it, else the number of the model's      *)
(* answer that it is.                                                      *)
(***************************************************************************)
EXTENDS Integers, SequencesExt, FiniteSetsExt

CONSTANTS
  Programs,    \* the sequences of chains to run, of records as below
  Given        \* the sets of variables a caller may give

VARIABLES
  program,   \* the sequence of chains that is run
  given,     \* the variables the caller gave
  frames,    \* the sequential chains that are running, the outermost first
  asked,     \* the calls of the model
  outcome    \* "running", "Ok", or the error

vars == <<program, given, frames, asked, outcome>>

\* reads are the variables of the prompt, name is the output_key, and parts the chains of
\* a SequentialChain.
Chain(kind, reads, name, parts) == [kind |-> kind, reads |-> reads, name |-> name, parts |-> parts]

\* A model may say how many tokens it took; a call here takes one for the prompt and one
\* for the completion.
NoTokens == [said |-> FALSE, prompt |-> 0, completion |-> 0]
OneCall  == [said |-> TRUE, prompt |-> 1, completion |-> 1]

\* TokenUsage::sum, of what was said.
Sum2(a, b) ==
  IF a.said /\ b.said
  THEN [said |-> TRUE, prompt |-> a.prompt + b.prompt, completion |-> a.completion + b.completion]
  ELSE IF a.said THEN a ELSE b

\* The state of SequentialChain::execute; query is that of an SQL chain which has one.
Frame(chains, inputs) ==
  [chains |-> chains, at |-> 1, inputs |-> inputs, outputs |-> [k \in {} |-> 0],
   generation |-> 0, tokens |-> NoTokens, query |-> 0, queryTokens |-> NoTokens]

Init ==
  /\ program \in Programs /\ given \in Given
  /\ frames = <<Frame(program, [k \in given |-> 0])>>
  /\ asked = <<>> /\ outcome = "running"

-------------------------------------------------------------------------------
(* The chains                                                              *)

Top     == Last(frames)
Current == Top.chains[Top.at]
Running == outcome = "running"

\* get_output_keys: only an LLMChain names its output.
OutputKey(chain) == IF chain.kind = "llm" THEN chain.name ELSE "output"

\* Fault: the outputs do not become inputs.
Unpassed(frame, generation, tokens) ==
  LET key == OutputKey(frame.chains[frame.at])
  IN [frame EXCEPT !.at = @ + 1, !.query = 0, !.queryTokens = NoTokens,
        !.outputs = [k \in DOMAIN @ \cup {key} |-> IF k = key THEN generation ELSE @[k]],
        !.generation = generation, !.tokens = Sum2(@, tokens)]

\* A chain's result goes to the outputs and to the inputs of the chains that follow.
Returned(frame, generation, tokens) ==
  LET key == OutputKey(frame.chains[frame.at])
  IN [frame EXCEPT !.at = @ + 1, !.query = 0, !.queryTokens = NoTokens,
        !.inputs = [k \in DOMAIN @ \cup {key} |-> IF k = key THEN generation ELSE @[k]],
        !.outputs = [k \in DOMAIN @ \cup {key} |-> IF k = key THEN generation ELSE @[k]],
        !.generation = generation, !.tokens = Sum2(@, tokens)]

Fail(error) == outcome' = error /\ UNCHANGED <<program, given, frames, asked>>

\* The variables a chain looks up in the inputs; an SQL chain makes its own prompt of the
\* question it finds under "query".
Needs(chain) ==
  CASE chain.kind = "llm"   -> chain.reads
    [] chain.kind = "stuff" -> (chain.reads \ {"context"}) \cup {"input_documents"}
    [] chain.kind = "sql"   -> {"query"}
    [] OTHER                -> {}

\* Only the caller has documents to give: a text is not a Vec<Document>.
WrongDocuments ==
  /\ Current.kind = "stuff" /\ "input_documents" \in DOMAIN Top.inputs
  /\ Top.inputs["input_documents"] # 0

NotDocuments ==
  /\ Running /\ Top.at <= Len(Top.chains)
  /\ WrongDocuments /\ Fail("IncorrectInputVariable")

MissingInput ==
  /\ Running /\ Top.at <= Len(Top.chains)
  /\ ~ WrongDocuments /\ ~ (Needs(Current) \subseteq DOMAIN Top.inputs)
  /\ Fail("MissingInputVariable")

\* What the prompt is made of.
Prompt(chain, inputs) == [k \in Needs(chain) |-> inputs[k]]

Ready(kinds) ==
  /\ Running /\ Top.at <= Len(Top.chains)
  /\ Current.kind \in kinds
  /\ Needs(Current) \subseteq DOMAIN Top.inputs

\* The path of the chain that is running, in the program.
Path == [i \in DOMAIN frames |-> frames[i].at]

Asks(read, tokens) == asked' = Append(asked, [path |-> Path, read |-> read, said |-> tokens.said])

\* LLMChain::call and StuffDocument::call.
Generate(tokens) ==
  /\ Ready({"llm", "stuff"})
  /\ ~ WrongDocuments
  /\ Asks(Prompt(Current, Top.inputs), tokens)
  /\ frames' = [frames EXCEPT ![Len(frames)] = Returned(Top, Len(asked'), tokens)]
  /\ UNCHANGED <<program, given, outcome>>

\* SQLDatabaseChain::call_builder_chains: the model writes a query.
WriteQuery(tokens) ==
  /\ Ready({"sql"}) /\ Top.query = 0
  /\ Asks(Prompt(Current, Top.inputs), tokens)
  /\ frames' = [frames EXCEPT ![Len(frames)].query = Len(asked'), ![Len(frames)].queryTokens = tokens]
  /\ UNCHANGED <<program, given, outcome>>

\* The answer's completion is added to what the query took, if that was said.
SqlTokens(query, answer) ==
  IF query.said /\ answer.said THEN [query EXCEPT !.completion = @ + answer.completion] ELSE query

\* SQLDatabaseChain::call: the query has run, and the model is asked again with it.
AnswerQuery(tokens) ==
  /\ Ready({"sql"}) /\ Top.query # 0
  /\ Asks([k \in {"query", "result"} |-> IF k = "query" THEN Top.inputs["query"] ELSE Top.query], tokens)
  /\ frames' = [frames EXCEPT ![Len(frames)] = Returned(Top, Len(asked'), SqlTokens(Top.queryTokens, tokens))]
  /\ UNCHANGED <<program, given, outcome>>

\* A nested chain starts with what its caller has.
Enter ==
  /\ Ready({"chains"})
  /\ frames' = Append(frames, Frame(Current.parts, Top.inputs))
  /\ UNCHANGED <<program, given, asked, outcome>>

\* It gives back one result: the names of its outputs stay inside.
Leave ==
  /\ Running /\ Top.at > Len(Top.chains) /\ Len(frames) > 1
  /\ frames' = [Front(frames) EXCEPT ![Len(frames) - 1] =
                  Returned(frames[Len(frames) - 1], Top.generation, Top.tokens)]
  /\ UNCHANGED <<program, given, asked, outcome>>

Finish ==
  /\ Running /\ Top.at > Len(Top.chains) /\ Len(frames) = 1
  /\ outcome' = "Ok"
  /\ UNCHANGED <<program, given, frames, asked>>

\* The model, its parser, or the database.
ModelFails    == Ready({"llm", "stuff", "sql"}) /\ Fail("LLMError")
DatabaseFails == Ready({"sql"}) /\ Fail("DatabaseError")

Next ==
  \/ MissingInput \/ NotDocuments \/ ModelFails \/ DatabaseFails
  \/ \E t \in {NoTokens, OneCall} : Generate(t) \/ WriteQuery(t) \/ AnswerQuery(t)
  \/ Enter \/ Leave \/ Finish

Spec == Init /\ [][Next]_vars

-------------------------------------------------------------------------------
(* Properties                                                              *)

TypeOK ==
  /\ program \in Programs /\ given \in Given
  /\ frames # <<>> /\ \A f \in ToSet(frames) : f.at \in 1..Len(f.chains) + 1
  /\ outcome \in {"running", "Ok", "LLMError", "DatabaseError", "MissingInputVariable", "IncorrectInputVariable"}

\* The chains of the program by their paths; nesting is two deep at most.
ChainAt(p) == IF Len(p) = 1 THEN program[p[1]] ELSE program[p[1]].parts[p[2]]
Paths ==
  {<<i>> : i \in DOMAIN program} \cup
  UNION {{<<i, j>> : j \in DOMAIN program[i].parts} : i \in DOMAIN program}

\* The chains that a chain comes after, at its own level or at that of a chain it is in.
Before(p) ==
  {w \in Paths :
     LET l == Len(w)
     IN l <= Len(p) /\ SubSeq(w, 1, l - 1) = SubSeq(p, 1, l - 1) /\ w[l] < p[l]}

\* The last answer of the model in the chain at p, by the end of it.
AnswerOf(p) == Max({0} \cup {n \in DOMAIN asked : IsPrefix(p, asked[n].path)})

Newest(key, p) ==
  Max({0} \cup {AnswerOf(w) : w \in {v \in Before(p) : OutputKey(ChainAt(v)) = key}})

\* Each prompt has, under each of its names, what the last chain before it that has the
\* name generated, or else what the caller gave: nothing older, and nothing out of a
\* nested chain but its result.
NewestValuesAreRead ==
  \A n \in DOMAIN asked : \A k \in DOMAIN asked[n].read \ {"result"} :
    asked[n].read[k] = Newest(k, asked[n].path)

\* A run that succeeds has run each chain once and in order, its result is what the last
\* of them generated, and each of its outputs what the last chain of that name did.
LastChainAnswers ==
  outcome = "Ok" =>
    /\ \A p \in Paths :
         Cardinality({n \in DOMAIN asked : asked[n].path = p}) =
           CASE ChainAt(p).kind = "chains" -> 0 [] ChainAt(p).kind = "sql" -> 2 [] OTHER -> 1
    /\ Top.generation = Len(asked)
    /\ \A k \in DOMAIN Top.outputs : Top.outputs[k] = Newest(k, <<Len(program) + 1>>)

\* Every call that says what it took is counted once, in a nested chain too: its completion
\* and its prompt, but for the second prompt of an SQL chain; and its second call is
\* counted only if its first one was.
Answers == {n \in DOMAIN asked : "result" \in DOMAIN asked[n].read}
Counted == {n \in DOMAIN asked : asked[n].said /\ (n \in Answers => asked[n - 1].said)}
TokensAddUp ==
  outcome = "Ok" =>
    /\ Top.tokens.completion = Cardinality(Counted)
    /\ Top.tokens.prompt = Cardinality(Counted \ Answers)
===============================================================================

----------------------------- MODULE ModelRequests -----------------------------
(***************************************************************************)
(* What the clients of models ask: how init_chat_model chooses a client by *)
(* a model's name, how its options are merged, what a request keeps of the *)
(* history, and what generate makes of the service's answer.               *)
(*                                                                         *)
(* A text is the place in the history of the message it is of.  Streams    *)
(* are ModelStream's.                                                      *)
(***************************************************************************)
EXTENDS Naturals, FiniteSetsExt, SequencesExt

CONSTANTS
  Names,         \* of models: [owner, prefix, inside, slash, colon]
  Messages,      \* what a caller may append to a history
  Incoming,      \* options: [temperature, stop, functions], 0 for a temperature not set
  MaxHistory, MaxRequests    \* bounds of the model

-------------------------------------------------------------------------------
(* The clients.  roles: of each type of message.  first: a system message  *)
(* goes beside the others, and only the first.  calls: the model's calls   *)
(* and the ids of their answers are sent.  images: "none", "with" the      *)
(* text, or "instead" of it.  sends: the options in a request, of which    *)
(* the temperature stands for every one that has a single value.  quiet:   *)
(* an answer without a choice is an empty text.                            *)

Roles(system, ai, tool) == [system |-> system, human |-> "user", ai |-> ai, tool |-> tool]
Sampling == {"temperature", "stop"}

Client(name, roles, features) ==
  [name |-> name, roles |-> roles, first |-> "first" \in features, calls |-> "calls" \in features,
   images |-> CASE "instead" \in features -> "instead" [] "with" \in features -> "with" [] OTHER -> "none",
   sends |-> features \cap (Sampling \cup {"functions"}), quiet |-> "quiet" \in features]

OpenAIRoles      == Roles("system", "assistant", "tool")
ClaudeRoles      == Roles("system", "assistant", "tool")
QwenRoles        == Roles("system", "assistant", "user")
DeepseekRoles    == Roles("system", "assistant", "tool")
MistralAIRoles   == Roles("system", "assistant", "user")
GeminiRoles      == Roles("user", "model", "user")
BedrockRoles     == Roles("user", "assistant", "user")
HuggingFaceRoles == [Roles("System: ", "Assistant: ", "Tool: ") EXCEPT !.human = "User: "]
OllamaRoles      == Roles("system", "assistant", "assistant")

OpenAI      == Client("openai", OpenAIRoles, Sampling \cup {"functions", "calls", "instead", "quiet"})
Claude      == Client("claude", ClaudeRoles, Sampling \cup {"first", "quiet"})
Qwen        == Client("qwen", QwenRoles, Sampling)
Deepseek    == Client("deepseek", DeepseekRoles, Sampling \cup {"quiet"})
MistralAI   == Client("mistralai", MistralAIRoles, Sampling)
Gemini      == Client("gemini", GeminiRoles, Sampling)
Bedrock     == Client("bedrock", BedrockRoles, Sampling \cup {"quiet"})
HuggingFace == Client("huggingface", HuggingFaceRoles, Sampling \cup {"quiet"})
Ollama      == Client("ollama", OllamaRoles, {"with"})

Clients ==
  {OpenAI, Claude, Qwen, Deepseek, MistralAI, Gemini, Bedrock, HuggingFace, Ollama}

-------------------------------------------------------------------------------
(* init_chat_model                                                         *)

\* What is before a colon is taken for a provider; the model is what is after it.
Provider(n) == IF n.colon THEN n.prefix ELSE "none"

\* The first pattern that matches decides.
Detected(n) ==
  CASE n.prefix = "gpt-"                                  -> OpenAI
    [] n.prefix = "claude"                                -> Claude
    [] n.prefix = "qwen-"                                 -> Qwen
    [] n.prefix = "deepseek-"                             -> Deepseek
    [] n.prefix \in {"mistral-", "mixtral-", "pixtral-"}  -> MistralAI
    [] n.prefix = "gemini"                                -> Gemini
    [] n.inside \in {"anthropic.claude", "meta.llama", "amazon.titan"} -> Bedrock
    [] n.slash                                            -> HuggingFace
    [] OTHER                                              -> Ollama

InitChatModel(n) ==
  CASE Provider(n) = "none" -> Detected(n)
    [] \E c \in Clients : c.name = Provider(n) -> CHOOSE c \in Clients : c.name = Provider(n)
    [] OTHER -> Ollama

-------------------------------------------------------------------------------
(* Options                                                                 *)

NoOptions == [temperature |-> 0, stop |-> <<>>, functions |-> <<>>]

\* merge_options: what comes in replaces what is there, but lists are joined.
MergeOptions(own, incoming) ==
  [temperature |-> IF incoming.temperature # 0 THEN incoming.temperature ELSE own.temperature,
   stop        |-> own.stop \o incoming.stop,
   functions   |-> own.functions \o incoming.functions]

-------------------------------------------------------------------------------
VARIABLES
  name,         \* the model's
  client, options,
  added,        \* the options given, in order
  history,      \* of messages: [type, calls, image], where calls are the ids of an ai
                \* message's calls, or of the one call that a tool message answers
  sent,         \* the requests
  result        \* of the last one

vars == <<name, client, options, added, history, sent, result>>

\* One message of a request.
Entry(i) ==
  LET m == history[i]
  IN  [role  |-> client.roles[m.type],
       text  |-> IF m.image /\ client.images = "instead" THEN 0 ELSE i,
       calls |-> IF client.calls THEN m.calls ELSE {},
       image |-> m.image /\ client.images # "none"]

IsSystem(i) == history[i].type = "system"

\* to_openai_messages, the from_message functions, and Claude's partition.
Entries ==
  LET all    == [i \in DOMAIN history |-> i]
      others == SelectSeq(all, LAMBDA i : ~(client.first /\ IsSystem(i)))
  IN  [k \in DOMAIN others |-> Entry(others[k])]

\* Claude's system parameter.
System ==
  LET systems == {i \in DOMAIN history : IsSystem(i)}
  IN  IF client.first /\ systems # {} THEN {Min(systems)} ELSE {}

\* build_payload, generate_request.
Request ==
  [entries |-> Entries, system |-> System,
   options |-> [o \in client.sends |-> options[o]]]

-------------------------------------------------------------------------------
Init ==
  /\ name \in Names
  /\ client = InitChatModel(name)
  /\ options \in Incoming /\ added = <<options>>
  /\ history = <<>> /\ sent = <<>> /\ result = "none"

\* add_options: Ollama has none, which takes no action.
AddOptions ==
  /\ history = <<>> /\ Len(added) < 2
  /\ \E o \in Incoming :
       /\ added' = Append(added, o)
       /\ options' = IF client.name = "ollama" THEN options ELSE MergeOptions(options, o)
  /\ UNCHANGED <<name, client, history, sent, result>>

\* A caller's message; a tool's answers a call of the history.
Tell ==
  /\ Len(history) < MaxHistory
  /\ \E m \in Messages :
       /\ m.type = "tool" => \E i \in DOMAIN history : history[i].type = "ai" /\ m.calls \subseteq history[i].calls
       /\ history' = Append(history, m)
  /\ result' = "none"
  /\ UNCHANGED <<name, client, options, added, sent>>

\* generate, on what a person or a tool said: the service answers with a text,
\* with calls, with no choice, with an error status, or not at all.
Generate ==
  /\ history # <<>> /\ Last(history).type \in {"human", "tool"}
  /\ result = "none" /\ Len(sent) < MaxRequests
  /\ sent' = Append(sent, Request)
  /\ result' \in
       {"text", "error", IF client.quiet THEN "nothing" ELSE "error"}
       \cup (IF client.calls /\ options.functions # <<>> THEN {"calls"} ELSE {})
  /\ UNCHANGED <<name, client, options, added, history>>

\* What was generated is appended to the history.
Remember ==
  /\ result \in {"text", "calls"} /\ Len(history) < MaxHistory
  /\ history' = Append(history, [type |-> "ai", calls |-> IF result = "calls" THEN {1} ELSE {},
                                 image |-> FALSE])
  /\ result' = "none"
  /\ UNCHANGED <<name, client, options, added, sent>>

Next == AddOptions \/ Tell \/ Generate \/ Remember

Spec == Init /\ [][Next]_vars

-------------------------------------------------------------------------------
(* Properties                                                              *)

TypeOK ==
  /\ name \in Names /\ client \in Clients
  /\ Len(history) <= MaxHistory
  /\ result \in {"none", "text", "calls", "nothing", "error"}

Texts(r) == SelectSeq([k \in DOMAIN r.entries |-> r.entries[k].text], LAMBDA i : i # 0)

\* Of the history at the time of the last request every text is sent once and in order,
\* but for a system message after the first with Claude, and the text of a message with
\* images with OpenAI.
HistoryIsSent ==
  sent # <<>> /\ result # "none" =>
    LET kept == {i \in DOMAIN history :
                   /\ client.name = "claude" => ~IsSystem(i)
                   /\ client.name = "openai" => ~history[i].image}
    IN  /\ Texts(Last(sent)) = SetToSortSeq(kept, <)
        /\ client.name = "claude" /\ (\E i \in DOMAIN history : IsSystem(i)) =>
             Last(sent).system = {Min({i \in DOMAIN history : IsSystem(i)})}

\* A later request begins with the earlier one.
RequestsExtend ==
  \A j \in DOMAIN sent : j > 1 => IsPrefix(sent[j - 1].entries, sent[j].entries)

\* An answer to a call is sent after the message that made the call.
CallsPairUp ==
  \A j \in DOMAIN sent : \A k \in DOMAIN sent[j].entries :
    LET e == sent[j].entries[k]
    IN  e.role = "tool" /\ client.calls =>
          \E l \in 1..(k - 1) : sent[j].entries[l].role = "assistant" /\ e.calls \subseteq sent[j].entries[l].calls

\* A request carries the temperature that was set last and every stop word in the order
\* they were given, but with Ollama; the functions with OpenAI.
OptionsAreSent ==
  LET set == SelectSeq(added, LAMBDA o : o.temperature # 0)
  IN  \A j \in DOMAIN sent :
        /\ client.name # "ollama" =>
             /\ sent[j].options.temperature = IF set = <<>> THEN 0 ELSE Last(set).temperature
             /\ sent[j].options.stop = FlattenSeq([k \in DOMAIN added |-> added[k].stop])
        /\ client.name = "openai" =>
             sent[j].options.functions = FlattenSeq([k \in DOMAIN added |-> added[k].functions])

\* A model is asked of the one who serves it, but for names with a colon of their own,
\* Qwen's later generations, and repositories named like another's models.
RightService ==
  \/ client.name = name.owner
  \/ name.colon /\ \A c \in Clients : c.name # name.prefix
  \/ name.owner = "qwen" /\ name.prefix # "qwen-"
  \/ name.owner = "huggingface" /\ name.prefix # "none"
===============================================================================

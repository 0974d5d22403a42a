----------------------------- MODULE ModelStream -----------------------------
(***************************************************************************)
(* The answers of models as streams: what the stream of each client yields *)
(* of the answer's body, which the network cuts into chunks anywhere, and  *)
(* what generate makes of it for a streaming_func.                         *)
(*                                                                         *)
(* A body is a sequence of events, each a line in three parts: a part of   *)
(* "data: ", the rest of it with a part of the JSON, the rest of the JSON. *)
(* Bedrock, OpenAI and Ollama read their bodies through libraries that put *)
(* the events together again.  An item is the event its text is of.        *)
(***************************************************************************)
EXTENDS Naturals, SequencesExt, FiniteSetsExt

CONSTANTS
  Bodies     \* sequences of [kind, content, reasoning], where kind is "delta", "done",
             \* "error" or "refused" and the others tell whether there is such a text

VARIABLES
  client,    \* the client, and whether generate reads the stream
  body,
  got,       \* the parts of the body that have arrived
  clean,     \* whether they came as whole events, with one text at most together
  items,     \* what the stream has yielded
  end        \* "open", "ended", or "failed" once generate has returned an Err

vars == <<client, body, got, clean, items, end>>

Sse    == {"qwen", "gemini", "mistralai", "deepseek", "reasoner", "huggingface", "claude"}
Framed == {"bedrock", "openai", "ollama"}

Init ==
  /\ client \in [name : Sse \cup Framed, generates : BOOLEAN]
  /\ body \in Bodies
  /\ client.name = "ollama" => ~client.generates
  /\ client.name \in Framed => \A i \in DOMAIN body : body[i].kind = "delta"
  /\ got = 0 /\ clean = TRUE
  /\ items = <<>> /\ end = "open"

-------------------------------------------------------------------------------
Text(i)      == [event |-> i, field |-> "content"]
Reasoning(i) == [event |-> i, field |-> "reasoning"]
Empty        == [event |-> 0, field |-> "empty"]
Err          == [event |-> 0, field |-> "error"]

\* The lines of a network chunk: of each event the parts that are in it.
Lines(from, to) ==
  [k \in 1..(((to - 1) \div 3) - (from \div 3) + 1) |->
     LET event == from \div 3 + k
     IN  [event |-> event,
          first |-> Max({from + 1, 3 * event - 2}) - (3 * event - 3),
          last  |-> Min({to, 3 * event}) - (3 * event - 3)]]

Kind(line)      == body[line.event].kind
IsData(line)    == line.first = 1 /\ line.last >= 2 /\ Kind(line) # "refused"
IsWhole(line)   == line.first = 1 /\ line.last = 3
IsBroken(line)  == IsData(line) /\ ~IsWhole(line)
HasText(line)   == Kind(line) = "delta" /\ body[line.event].content
HasReason(line) == Kind(line) = "delta" /\ body[line.event].reasoning

\* Fault: the [DONE] at the end is parsed as well.
ParsedWithDone(lines) ==
  IF \E k \in DOMAIN lines : IsBroken(lines[k]) \/ Kind(lines[k]) = "done"
  THEN <<Err>> ELSE SelectSeq(lines, LAMBDA l : IsWhole(l) /\ Kind(l) = "delta")

\* parse_sse_chunk: the values of the lines, and one that is broken fails the chunk.
Parsed(lines) ==
  IF \E k \in DOMAIN lines : IsBroken(lines[k])
  THEN <<Err>> ELSE SelectSeq(lines, LAMBDA l : IsWhole(l) /\ Kind(l) = "delta")

\* The first value with a text is returned, and an empty item filtered out.
FirstText(values) ==
  IF values = <<Err>> THEN values
  ELSE LET texts == SelectSeq(values, HasText)
       IN  IF texts = <<>> THEN <<>> ELSE <<Text(texts[1].event)>>

Qwen(lines)      == FirstText(Parsed(lines))
Gemini(lines)    == FirstText(Parsed(lines))
MistralAI(lines) == FirstText(Parsed(lines))
Deepseek(lines)  == FirstText(Parsed(lines))

\* The reasoner's deltas are looked at for a reasoning first.
Reasoner(lines) ==
  IF Parsed(lines) = <<Err>> THEN <<Err>>
  ELSE LET said == SelectSeq(Parsed(lines), LAMBDA l : HasText(l) \/ HasReason(l))
       IN  IF said = <<>> THEN <<>>
           ELSE IF HasReason(said[1]) THEN <<Reasoning(said[1].event)>>
           ELSE <<Text(said[1].event)>>

\* A line that does not parse is passed over.
HuggingFace(lines) == FirstText(SelectSeq(lines, LAMBDA l : IsWhole(l) /\ Kind(l) = "delta"))

\* parse_sse_to_json: the last of the chunk's data lines; there has to be one.
Claude(lines) ==
  LET data == SelectSeq(lines, IsData)
  IN  IF data = <<>> \/ IsBroken(Last(data)) \/ Kind(Last(data)) = "error" THEN <<Err>>
      ELSE IF HasText(Last(data)) THEN <<Text(Last(data).event)>> ELSE <<Empty>>

Bedrock(line) == IF HasText(line) THEN <<Text(line.event)>> ELSE <<>>
OpenAI(line)  == IF HasText(line) THEN <<Text(line.event)>> ELSE <<Empty>>
Ollama(line)  == IF HasText(line) THEN <<Text(line.event)>> ELSE <<Empty>>

Yields(lines) ==
  CASE client.name = "qwen"        -> Qwen(lines)
    [] client.name = "gemini"      -> Gemini(lines)
    [] client.name = "mistralai"   -> MistralAI(lines)
    [] client.name = "deepseek"    -> Deepseek(lines)
    [] client.name = "reasoner"    -> Reasoner(lines)
    [] client.name = "huggingface" -> HuggingFace(lines)
    [] client.name = "claude"      -> Claude(lines)
    [] client.name = "bedrock"     -> Bedrock(lines[1])
    [] client.name = "openai"      -> OpenAI(lines[1])
    [] OTHER                       -> Ollama(lines[1])

-------------------------------------------------------------------------------
Size == 3 * Len(body)

Cuts == {n \in (got + 1)..Size : client.name \in Framed => n = got + 3}

IsClean(lines) ==
  /\ \A k \in DOMAIN lines : IsWhole(lines[k]) /\ Kind(lines[k]) \in {"delta", "done"}
  /\ Cardinality({k \in DOMAIN lines : HasText(lines[k]) \/ HasReason(lines[k])}) <= 1
  /\ \A k \in DOMAIN lines : ~(HasText(lines[k]) /\ HasReason(lines[k]))
  /\ client.name = "claude" => Len(lines) = 1 /\ Kind(lines[1]) = "delta"
  /\ client.name # "reasoner" => \A k \in DOMAIN lines : ~HasReason(lines[k])

\* generate returns at the first Err; who reads the stream itself may go on.
Delivered(yields) ==
  /\ items' = items \o yields
  /\ end' = IF yields = <<Err>> /\ client.generates THEN "failed" ELSE end

\* A chunk of the network arrives, cut where it may.
Receive(to) ==
  /\ end = "open"
  /\ got' = to
  /\ clean' = (clean /\ IsClean(Lines(got, to)))
  /\ Delivered(Yields(Lines(got, to)))
  /\ UNCHANGED <<client, body>>

\* The connection breaks: an Err, and the end; Bedrock's loop just ends.
Break ==
  /\ end = "open" /\ got < Size
  /\ items' = IF client.name = "bedrock" THEN items ELSE Append(items, Err)
  /\ end' = IF client.generates /\ client.name # "bedrock" THEN "failed" ELSE "ended"
  /\ clean' = FALSE
  /\ UNCHANGED <<client, body, got>>

End ==
  /\ end = "open" /\ got = Size
  /\ end' = "ended"
  /\ UNCHANGED <<client, body, got, clean, items>>

Next == (\E to \in Cuts : Receive(to)) \/ Break \/ End

Spec == Init /\ [][Next]_vars

-------------------------------------------------------------------------------
TypeOK ==
  /\ client \in [name : Sse \cup Framed, generates : BOOLEAN]
  /\ body \in Bodies /\ got \in 0..Size /\ clean \in BOOLEAN
  /\ items \in Seq([event : 0..Len(body), field : {"content", "reasoning", "empty", "error"}])
  /\ end \in {"open", "ended", "failed"}

Heard == SelectSeq(items, LAMBDA x : x.event > 0)

\* What arrives of an answer is in the order it was given and nothing arrives twice;
\* where every chunk brought whole events with one text at most, it is all of the
\* answer and no error, and generate, which fails only after an error, returns it.
AnswersArriveInOrder ==
  /\ \A i, j \in DOMAIN Heard : i < j => Heard[i].event < Heard[j].event
  /\ (clean /\ 3 * Len(body) = got) =>
       /\ {x.event : x \in ToSet(Heard)}
            = {i \in DOMAIN body : body[i].kind = "delta" /\ (body[i].content \/ body[i].reasoning)}
       /\ Err \notin ToSet(items)
  /\ end = "failed" <=> (client.generates /\ Err \in ToSet(items))
===============================================================================

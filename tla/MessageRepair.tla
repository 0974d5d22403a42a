---------------------------- MODULE MessageRepair ----------------------------
(***************************************************************************)
(* repair_dangling_tool_calls: what a chat history looks like to the agent *)
(* that reads it.  A message is its kind and the ids it is about: of an AI *)
(* message its tool_calls, of a tool message the call it answers.          *)
(***************************************************************************)
EXTENDS Naturals, Sequences, FiniteSetsExt

Kinds == {"user", "ai", "calls", "tool"}

Message(kind, ids) == [kind |-> kind, ids |-> ids, real |-> TRUE]

\* A tool message with CANCELLED_CONTENT, under the id of the call.
Cancelled(id) == [kind |-> "tool", ids |-> <<id>>, real |-> FALSE]

Needed(m) == IF m.kind = "calls" THEN Len(m.ids) ELSE 0

\* The tool messages right after i, no more than needed; whose they are is not asked.
Answering(messages, i) ==
  Max({k \in 0..Needed(messages[i]) :
         i + k <= Len(messages) /\ \A j \in 1..k : messages[i + j].kind = "tool"})

\* Fault: only a call without any answer is repaired.
MissingIfNone(messages, i) ==
  IF Answering(messages, i) = 0
    THEN [k \in 1..Needed(messages[i]) |-> Cancelled(messages[i].ids[k])]
    ELSE <<>>

\* One synthetic message for each of the ids past those counted.
Missing(messages, i) ==
  LET count == Answering(messages, i)
  IN  [k \in 1..(Needed(messages[i]) - count) |-> Cancelled(messages[i].ids[count + k])]

Repair(messages) ==
  LET from[i \in 1..(Len(messages) + 1)] ==
        IF i > Len(messages) THEN <<>>
        ELSE LET count == Answering(messages, i)
             IN  SubSeq(messages, i, i + count) \o Missing(messages, i) \o from[i + 1 + count]
  IN  from[1]
===============================================================================

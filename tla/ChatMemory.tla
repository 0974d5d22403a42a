----------------------------- MODULE ChatMemory -----------------------------
(***************************************************************************)
(* The chat memories of the agent executor, SimpleMemory and               *)
(* WindowBufferMemory, given the same messages, and what an agent reads of *)
(* them through repair_dangling_tool_calls.                                *)
(***************************************************************************)
EXTENDS MessageRepair, SequencesExt

CONSTANTS
  WindowSizes,   \* window_size
  MaxCallsPer,   \* bound: tool_calls of one AI message
  MaxMessages,   \* bound: messages added since the last clear
  MaxIds         \* bound: tool calls ever made

ASSUME MemoryAssumption ==
  /\ WindowSizes \subseteq Nat
  /\ MaxCallsPer \in Nat /\ MaxMessages \in Nat /\ MaxIds \in Nat

VARIABLES
  size,      \* the window's size
  simple,    \* SimpleMemory's messages
  window,    \* WindowBufferMemory's messages
  issued,    \* tool calls made
  panicked   \* remove(0) was called on no messages

vars == <<size, simple, window, issued, panicked>>

Init ==
  /\ size \in WindowSizes
  /\ simple = <<>> /\ window = <<>> /\ issued = 0 /\ panicked = FALSE

\* Fault: the window lets one message more in.
WindowOfOneMore(m) ==
  Append(IF Len(window) > size THEN Tail(window) ELSE window, m)

\* "len() >= window_size" drops the oldest message.
Windowed(m) ==
  Append(IF Len(window) >= size THEN Tail(window) ELSE window, m)

\* add_message of both memories; a window of size 0 has no oldest message.
AddMessage(m, ids) ==
  /\ ~panicked
  /\ Len(simple) < MaxMessages
  /\ simple' = Append(simple, m)
  /\ issued' = issued + ids
  /\ IF size = 0
       THEN panicked' = TRUE /\ window' = window
       ELSE panicked' = FALSE /\ window' = Windowed(m)
  /\ UNCHANGED size

AddText == \E kind \in {"user", "ai"} : AddMessage(Message(kind, <<>>), 0)

AddCalls(n) ==
  /\ issued + n <= MaxIds
  /\ AddMessage(Message("calls", [k \in 1..n |-> issued + k]), n)

AddAnswer(id) == AddMessage(Message("tool", <<id>>), 0)

Clear ==
  /\ ~panicked
  /\ simple' = <<>> /\ window' = <<>>
  /\ UNCHANGED <<size, issued, panicked>>

Next ==
  \/ AddText
  \/ \E n \in 1..MaxCallsPer : AddCalls(n)
  \/ \E id \in 1..issued : AddAnswer(id)
  \/ Clear

Spec == Init /\ [][Next]_vars
-------------------------------------------------------------------------------
Messages == [kind : Kinds, ids : Seq(Nat), real : BOOLEAN]

TypeOK ==
  /\ size \in WindowSizes
  /\ simple \in Seq(Messages) /\ window \in Seq(Messages)
  /\ Len(window) <= size
  /\ issued \in 0..MaxIds /\ panicked \in BOOLEAN

LastOf(messages, n) == SubSeq(messages, Len(messages) - n + 1, Len(messages))

(***************************************************************************)
(* WindowBufferMemory holds the last window_size of the messages, all of   *)
(* them while there are fewer, and none is lost or out of order.           *)
(***************************************************************************)
WindowIsSuffix ==
  ~panicked =>
    LET n == IF Len(simple) < size THEN Len(simple) ELSE size
    IN  window = LastOf(simple, n)

Histories == {simple, window}

(***************************************************************************)
(* A provider refuses an AI message whose tool_calls are not all answered: *)
(* in a repaired history, of a whole memory or of a window that begins in  *)
(* the middle of a turn, as many tool messages follow as it has calls.     *)
(***************************************************************************)
RepairAnswersCalls ==
  \A h \in Histories :
    LET r == Repair(h)
    IN  \A i \in DOMAIN r : \A k \in 1..Needed(r[i]) :
          i + k <= Len(r) /\ r[i + k].kind = "tool"
===============================================================================

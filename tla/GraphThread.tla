----------------------------- MODULE GraphThread -----------------------------
(***************************************************************************)
(* What a checkpointed thread of a graph promises to its callers, whatever *)
(* executor runs it and whenever it saves: a call works on a state that    *)
(* only grows from its input, its input is empty or a checkpoint that is   *)
(* there to be read, a checkpoint holds the state as it was when it was    *)
(* made, and one that has been put stays.                                  *)
(***************************************************************************)
EXTENDS Naturals, SequencesExt

CONSTANT Message

VARIABLES
  live,      \* a call is under way
  input,     \* the state it began with
  state,     \* the state it has reached
  run,       \* number of the call
  durable,   \* checkpoints that can be read back
  flight     \* checkpoints on their way to the checkpointer

vars == <<live, input, state, run, durable, flight>>

Checkpoint(of, at) == [run |-> of, values |-> at]

Init ==
  /\ live = FALSE
  /\ input = <<>> /\ state = <<>> /\ run = 0
  /\ durable = {} /\ flight = {}

Begin ==
  /\ ~live
  /\ live' = TRUE
  /\ run' = run + 1
  /\ input' = <<>> \/ \E c \in durable : input' = c.values
  /\ state' = input'
  /\ UNCHANGED <<durable, flight>>

\* The nodes' messages come after those that are there.
Merge ==
  /\ live
  /\ state' \in Seq(Message)
  /\ IsPrefix(state, state')
  /\ UNCHANGED <<live, input, run, durable, flight>>

\* The state at hand is put, or sent; the call goes on or returns with it.
Save ==
  /\ live
  /\ \/ durable' = durable \cup {Checkpoint(run, state)} /\ UNCHANGED flight
     \/ flight' = flight \cup {Checkpoint(run, state)} /\ UNCHANGED durable
  /\ live' \in BOOLEAN
  /\ UNCHANGED <<input, state, run>>

\* The call returns or fails; what it reached is what its caller sees.
Finish ==
  /\ live
  /\ live' = FALSE
  /\ UNCHANGED <<input, state, run, durable, flight>>

\* A checkpoint on its way arrives, or is refused.
Arrive ==
  /\ flight' \subseteq flight
  /\ durable \subseteq durable' /\ durable' \subseteq durable \cup flight
  /\ UNCHANGED <<live, input, state, run>>

\* The call is gone, and maybe everything that was on its way.
Lose ==
  /\ live' = FALSE
  /\ input' = <<>> /\ state' = <<>>
  /\ flight' \in {flight, {}}
  /\ UNCHANGED <<run, durable>>

Next == Begin \/ Merge \/ Save \/ Finish \/ Arrive \/ Lose

Spec == Init /\ [][Next]_vars
===============================================================================

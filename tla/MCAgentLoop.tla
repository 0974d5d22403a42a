----------------------------- MODULE MCAgentLoop -----------------------------
(***************************************************************************)
(* Small instances of AgentLoop: a tool that runs freely, one that needs a *)
(* human's approval and one that is not registered, for one caller and for *)
(* two that share the executor.                                            *)
(***************************************************************************)
EXTENDS AgentLoop

CONSTANTS search, mail, unknown, c1, c2

\* Every way a guarded tool can stand in a batch of two, and the batches that end early.
AllBatches ==
  {<<search>>, <<mail>>, <<search, mail>>, <<mail, mail>>, <<unknown>>, <<>>}

\* Batches that show what a resumed batch does.
ResumedBatches == {<<search, mail>>, <<mail, mail>>}

\* What two callers need to get in each other's way.
SharedBatches == {<<search>>, <<search, mail>>, <<unknown>>}

VARIABLE callers   \* those of Caller that call the agent

MCInit ==
  /\ Init
  /\ callers \in {{c1}, {c1, c2} \cap Caller}

\* Bounds of two callers: batches of SharedBatches, a second one in no call that
\* began with a plan, and no decision to edit.
Fewer(r) ==
  /\ \A d \in ToSet(r.decisions) : d.verdict # "edit"
  /\ r.pc = "runtime_hook" => [i \in DOMAIN r.batch |-> r.batch[i].tool] \in SharedBatches

MCNext ==
  /\ Next
  /\ UNCHANGED callers
  /\ \A c \in Caller \ callers : run'[c] = run[c]
  /\ callers # {c1} => \A c \in callers :
       /\ Fewer(run'[c])
       /\ At(c, "plan") /\ run'[c].pc = "runtime_hook" => run[c].steps = <<>> \/ run[c].replay

MCSpec ==
  /\ MCInit /\ [][MCNext]_<<callers, vars>>
  /\ \A c \in Caller : WF_vars(Loop(c))
===============================================================================

----------------------------- MODULE MCSuperStep -----------------------------
(***************************************************************************)
(* Small instances of SuperStep: the graphs of up to three nodes that tell *)
(* the executors' schedules apart.                                         *)
(***************************************************************************)
EXTENDS SuperStep

CONSTANTS A, B, C

Reg(from, to)  == [from |-> from, kind |-> "regular", targets |-> {to}]
Cond(from, to) == [from |-> from, kind |-> "conditional", targets |-> to]

\* A and B together, then C when both are done.
Join == {Reg(Start, A), Reg(Start, B), Reg(A, C), Reg(B, C), Reg(C, End)}
\* A decides between B and C.
Branch == {Reg(Start, A), Cond(A, {B, C}), Reg(B, End), Reg(C, End)}
\* A and B together; A is at END one super-step before B's successor.
Uneven == {Reg(Start, A), Reg(Start, B), Reg(A, End), Reg(B, C), Reg(C, End)}
\* C waits for A, and for B that waits for A.
Shortcut == {Reg(Start, A), Reg(A, B), Reg(A, C), Reg(B, C), Reg(C, End)}
\* The agent loop: A calls B until it is done.
Loop == {Reg(Start, A), Cond(A, {B, End}), Reg(B, A)}
\* START decides, and may decide for END.
Entry == {Cond(Start, {A, End}), Reg(A, B), Reg(B, End)}

\* Three nodes in line, and a condition that may send the last back to the first.
Cycle == {Reg(Start, A), Reg(A, B), Reg(B, C), Cond(C, {A, End})}

NamedGraphs == {Join, Uneven, Shortcut, Loop, Entry, Cycle}

\* The graphs whose conditions choose between nodes.
DecidingGraphs == {Branch, Entry}
===============================================================================

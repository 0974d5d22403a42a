--------------------------- MODULE MCInterruptRun ---------------------------
(***************************************************************************)
(* Small instances of InterruptRun: graphs of two nodes that tell the      *)
(* paths apart, and nodes that call interrupt() up to twice.               *)
(***************************************************************************)
EXTENDS InterruptRun

CONSTANTS A, B, c1, c2

Reg(from, to)  == [from |-> from, kind |-> "regular", targets |-> {to}]
Cond(from, to) == [from |-> from, kind |-> "conditional", targets |-> to]

\* A, then B.
Line == {Reg(Start, A), Reg(A, B), Reg(B, End)}
\* A decides whether B runs before A again.
Loop == {Reg(Start, A), Cond(A, {B, End}), Reg(B, A)}
\* Two edges out of START, and two out of A.
Fan == {Reg(Start, A), Reg(Start, B), Reg(A, B), Reg(A, End), Reg(B, End)}
\* START decides, also for END; A may lead to B, that leads nowhere.
Dead == {Cond(Start, {A, End}), Cond(A, {B, End})}

AllGraphs  == {Line, Loop, Fan, Dead}
LineGraphs == {Line}

\* Each node asks once or not at all, or one of them asks twice.
AskedOnce      == [Node -> {0, 1}]
AskedUpToTwice == {f \in [Node -> 0..2] : f[A] + f[B] <= 2}

Callers == Permutations(Caller)
===============================================================================

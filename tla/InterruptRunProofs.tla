------------------------- MODULE InterruptRunProofs -------------------------
(***************************************************************************)
(* What the sequential executor guarantees for every set of compiled       *)
(* graphs, callers, and any number of calls.                               *)
(***************************************************************************)
EXTENDS InterruptRun, SequenceFacts

\* Where edges[0] leads is a node or END, or the condition fails.
LEMMA TargetsAreNodes ==
  ASSUME TypeOK, NEW n \in Sources(graph), NEW t \in Targets(n)
  PROVE  t \in Node \cup {End, NoRoute}
<1>1. first[n] \in Edge
  BY InterruptAssumption DEF TypeOK, FirstEdges, Compiled
<1> QED BY <1>1 DEF Targets, Edge

\* The parts of a call.
LEMMA RunParts ==
  ASSUME TypeOK, NEW c \in Caller
  PROVE  /\ run[c] \in Run
         /\ run[c].node \in Node \cup {Start, End}
         /\ run[c].values \in Seq(Node) /\ run[c].base \in Seq(Node)
         /\ run[c].parent \in Nat /\ run[c].call \in Nat
         /\ run[c].iterations \in Nat /\ run[c].asked \in Nat
         /\ run[c].answers \in Seq(Interrupt) /\ run[c].raised \in Interrupt
         /\ run[c].given \in Seq([value : Interrupt, at : Interrupt])
BY DEF TypeOK, Run

\* A call that moves on, is answered, fails or returns is still a call.
LEMMA PcChanges ==
  ASSUME NEW r \in Run, NEW pc \in Places
  PROVE  [r EXCEPT !.pc = pc] \in Run
BY DEF Run

\* An interrupted call remembers what it was asked.
LEMMA RaisedChanges ==
  ASSUME NEW r \in Run, NEW i \in Interrupt
  PROVE  [r EXCEPT !.pc = "interrupted", !.raised = i] \in Run
BY DEF Run, Places

\* A round of the loop.
LEMMA IterationChanges ==
  ASSUME NEW r \in Run, NEW pc \in Places, NEW n \in Node \cup {Start, End}
  PROVE  [r EXCEPT !.iterations = @ + 1, !.pc = pc, !.node = n, !.asked = 0] \in Run
<1> DEFINE k == r.iterations + 1
<1>1. k \in Nat
  BY DEF Run
<1>2. [r EXCEPT !.iterations = @ + 1, !.pc = pc, !.node = n, !.asked = 0]
        = [[r EXCEPT !.iterations = k, !.pc = pc] EXCEPT !.node = n, !.asked = 0]
  BY DEF Run
<1> HIDE DEF k
<1>3. [r EXCEPT !.iterations = k, !.pc = pc] \in Run
  BY <1>1 DEF Run
<1>4. ASSUME NEW q \in Run PROVE [q EXCEPT !.node = n, !.asked = 0] \in Run
  BY DEF Run
<1> QED BY <1>2, <1>3, <1>4

\* A call that goes to its next node.
LEMMA NodeChanges ==
  ASSUME NEW r \in Run, NEW n \in Node
  PROVE  [r EXCEPT !.pc = "loop", !.node = n] \in Run
BY DEF Run, Places

\* A call that merges its node's message.
LEMMA ValuesChange ==
  ASSUME NEW r \in Run, r.node \in Node
  PROVE  [r EXCEPT !.values = Append(@, r.node), !.asked = 0, !.pc = "route"] \in Run
<1> DEFINE q == [r EXCEPT !.values = Append(@, r.node)]
<1>1. Append(r.values, r.node) \in Seq(Node)
  BY DEF Run
<1>2. q \in Run
  BY <1>1 DEF Run
<1>3. [r EXCEPT !.values = Append(@, r.node), !.asked = 0, !.pc = "route"]
        = [q EXCEPT !.asked = 0, !.pc = "route"]
  BY DEF Run
<1> HIDE DEF q
<1> QED BY <1>2, <1>3 DEF Run, Places

\* A call that takes an answer.
LEMMA GivenChanges ==
  ASSUME NEW r \in Run, NEW g \in [value : Interrupt, at : Interrupt]
  PROVE  [r EXCEPT !.given = Append(@, g), !.asked = @ + 1] \in Run
<1> DEFINE q == [r EXCEPT !.given = Append(@, g)]
           k == r.asked + 1
<1>1. Append(r.given, g) \in Seq([value : Interrupt, at : Interrupt]) /\ k \in Nat
  BY DEF Run
<1>2. q \in Run
  BY <1>1 DEF Run
<1>3. [r EXCEPT !.given = Append(@, g), !.asked = @ + 1] = [q EXCEPT !.asked = k]
  BY DEF Run
<1> HIDE DEF q, k
<1> QED BY <1>1, <1>2, <1>3 DEF Run

\* A call that begins.
LEMMA NewRunIsRun ==
  ASSUME NEW pc \in Places, NEW id \in Nat, NEW scoped \in BOOLEAN,
         NEW node \in Node \cup {Start, End},
         NEW values \in Seq(Node), NEW parent \in Nat, NEW answers \in Seq(Interrupt),
         NEW raised \in Interrupt
  PROVE  NewRun(pc, id, scoped, node, values, parent, answers, raised) \in Run
BY DEF NewRun, Run

\* A call is at a node, and at one with edges, wherever it executes it.
NodeExecutes(r) ==
  /\ r.pc \in {"executing", "route", "saving"} => r.node \in Node \cap Sources(graph)
  /\ r.pc = "updating" => r.node \in Node

TypeInv == TypeOK /\ \A c \in Caller : NodeExecutes(run[c])

\* A step of one caller keeps the types if its call stays a call.
LEMMA RunStep ==
  ASSUME TypeInv, NEW c \in Caller, NEW r \in Run, NodeExecutes(r), Becomes(c, r),
         UNCHANGED <<graph, first, asks>>, calls' \in 0..MaxCalls,
         history' \in Seq(Snapshot), made' \in Nat
  PROVE  TypeInv'
<1>1. run' \in [Caller -> Run] /\ run'[c] = r /\ \A d \in Caller \ {c} : run'[d] = run[d]
  BY DEF TypeInv, TypeOK, Becomes
<1>2. \A d \in Caller : NodeExecutes(run[d])'
  BY <1>1 DEF TypeInv, NodeExecutes
<1> QED BY <1>1, <1>2 DEF TypeInv, TypeOK

\* The strengthened type invariant.
LEMMA TypesHold == Spec => []TypeInv
<1>e. <<>> \in Seq(Node) /\ <<>> \in Seq(Interrupt)
  OBVIOUS
<1>1. Init => TypeInv
  <2> DEFINE idle == NewRun("idle", 0, FALSE, Start, <<>>, 0, <<>>, NoInterrupt)
  <2>1. NoInterrupt \in Interrupt
    BY DEF Interrupt, NoInterrupt
  <2>2. idle \in Run /\ idle.pc = "idle"
    <3>1. "idle" \in Places
      BY DEF Places
    <3> QED BY <1>e, <2>1, <3>1, NewRunIsRun DEF NewRun
  <2> SUFFICES ASSUME Init PROVE TypeInv
    OBVIOUS
  <2>3. run = [c \in Caller |-> idle]
    BY DEF Init
  <2> HIDE DEF idle
  <2>4. TypeOK
    <3>1. <<>> \in Seq(Snapshot) /\ 0 \in 0..MaxCalls
      BY InterruptAssumption
    <3> QED BY <2>2, <2>3, <3>1 DEF Init, TypeOK
  <2> QED BY <2>2, <2>3, <2>4 DEF TypeInv, NodeExecutes
<1>2. TypeInv /\ [Next]_vars => TypeInv'
  <2> SUFFICES ASSUME TypeInv, [Next]_vars PROVE TypeInv'
    OBVIOUS
  <2>t. TypeOK
    BY DEF TypeInv
  <2>h. \A i \in DOMAIN history : /\ history[i] \in Snapshot /\ history[i].next \in Node
                                 /\ history[i].values \in Seq(Node) /\ history[i].id \in Nat
    <3>1. \A i \in DOMAIN history : history[i] \in Snapshot
      BY <2>t DEF TypeOK
    <3> QED BY <3>1 DEF Snapshot
  <2>l. history # <<>> => Last(history).values \in Seq(Node) /\ Last(history).id \in Nat
    BY <2>t, <2>h DEF Last, TypeOK
  <2>0. ASSUME NEW c \in Caller, NEW r \in Run, NodeExecutes(r), Becomes(c, r),
               UNCHANGED <<graph, first, asks, thread, calls>>
        PROVE  TypeInv'
    BY <2>0, <2>t, RunStep DEF thread, TypeOK
  <2>1. ASSUME NEW c \in Caller, Begins(c) PROVE TypeInv'
    <3>1. ASSUME NEW scoped \in BOOLEAN, NEW parent \in Nat,
                 NEW values \in Seq(Node), NEW answers \in Seq(Interrupt),
                 Call(c, scoped, parent, values, answers)
          PROVE  TypeInv'
      <4> DEFINE r == NewRun("loop", calls + 1, scoped, Start, values, parent, answers,
                             run[c].raised)
      <4>1. calls \in Nat /\ calls + 1 \in 0..MaxCalls
        BY <2>t, <3>1, InterruptAssumption DEF Call, TypeOK
      <4>2. r \in Run /\ r.pc = "loop"
        <5>1. "loop" \in Places
          BY DEF Places
        <5>2. run[c].raised \in Interrupt /\ calls + 1 \in Nat
          BY <2>t, <4>1, RunParts
        <5>3. r \in Run
          BY <5>1, <5>2, NewRunIsRun
        <5> QED BY <5>3 DEF NewRun
      <4>3. Becomes(c, r) /\ UNCHANGED <<graph, first, asks, thread>> /\ calls' = calls + 1
        BY <3>1 DEF Call
      <4> HIDE DEF r
      <4> QED BY <2>t, <4>1, <4>2, <4>3, RunStep DEF NodeExecutes, TypeOK, thread
    <3>2. CASE Invoke(c) \/ InvokeState(c)
      BY <1>e, <3>1, <3>2 DEF Invoke, InvokeState
    <3>3. CASE InvokeResume(c)
      <4>1. <<run[c].raised>> \in Seq(Interrupt)
        BY <2>t, RunParts
      <4> QED BY <2>l, <3>1, <3>3, <4>1 DEF InvokeResume
    <3>4. CASE InvokeGoto(c)
      BY <1>e, <2>l, <3>1, <3>4 DEF InvokeGoto
    <3>5. ASSUME NEW i \in DOMAIN history, InvokeFork(c, i) PROVE TypeInv'
      BY <1>e, <2>h, <3>1, <3>5 DEF InvokeFork
    <3>6. ASSUME NEW i \in DOMAIN history, ReadState(c, i) PROVE TypeInv'
      <4> DEFINE r == NewRun("updating", calls + 1, FALSE, history[i].next,
                             history[i].values, history[i].id, <<>>, run[c].raised)
      <4>1. calls \in Nat /\ calls + 1 \in 0..MaxCalls
        BY <2>t, <3>6, InterruptAssumption DEF ReadState, TypeOK
      <4>2. r \in Run /\ r.pc = "updating" /\ r.node \in Node
        <5>1. "updating" \in Places
          BY DEF Places
        <5>2. run[c].raised \in Interrupt /\ calls + 1 \in Nat /\ history[i].next \in Node
          BY <2>h, <2>t, <4>1, RunParts
        <5>3. r \in Run
          BY <1>e, <2>h, <5>1, <5>2, NewRunIsRun
        <5> QED BY <5>2, <5>3 DEF NewRun
      <4>3. Becomes(c, r) /\ UNCHANGED <<graph, first, asks, thread>> /\ calls' = calls + 1
        BY <3>6 DEF ReadState
      <4> HIDE DEF r
      <4> QED BY <2>t, <4>1, <4>2, <4>3, RunStep DEF NodeExecutes, TypeOK, thread
    <3> QED BY <2>1, <3>2, <3>3, <3>4, <3>5, <3>6 DEF Begins
  <2>2. ASSUME NEW c \in Caller, NEW pc \in Places, Goes(c, pc),
               pc \in {"executing", "route", "saving"} => run[c].node \in Node \cap Sources(graph),
               pc # "updating"
        PROVE  TypeInv'
    <3> DEFINE r == [run[c] EXCEPT !.pc = pc]
    <3>1. r \in Run
      BY <2>t, RunParts, PcChanges
    <3>2. NodeExecutes(r)
      BY <2>2, <2>t, RunParts DEF NodeExecutes, Run
    <3>3. Becomes(c, r) /\ UNCHANGED <<graph, first, asks, thread, calls>>
      BY <2>2 DEF Goes
    <3> HIDE DEF r
    <3> QED BY <2>0, <3>1, <3>2, <3>3
  <2>3. ASSUME NEW c \in Caller, Loops(c) PROVE TypeInv'
    <3>1. ASSUME NEW pc \in {"loop", "executing", "done", "failed"},
                 NEW node \in Node \cup {Start, End}, Iterate(c, pc, node),
                 pc = "executing" => node \in Node \cap Sources(graph)
          PROVE  TypeInv'
      <4> DEFINE r == [run[c] EXCEPT !.iterations = @ + 1, !.pc = pc, !.node = node, !.asked = 0]
      <4>1. r \in Run
        BY <2>t, RunParts, IterationChanges DEF Places
      <4>2. NodeExecutes(r)
        BY <2>t, <3>1, RunParts DEF NodeExecutes, Run
      <4>3. Becomes(c, r) /\ UNCHANGED <<graph, first, asks, thread, calls>>
        BY <3>1 DEF Iterate
      <4> HIDE DEF r
      <4> QED BY <2>0, <4>1, <4>2, <4>3
    <3>2. CASE IterationLimit(c)
      BY <2>2, <3>2 DEF IterationLimit, Places
    <3>3. CASE ReachEnd(c) \/ NoEdges(c) \/ EnterNode(c)
      BY <2>t, <3>1, <3>3, RunParts DEF ReachEnd, NoEdges, EnterNode
    <3>4. CASE LeaveStart(c)
      BY <2>t, <3>1, <3>4, TargetsAreNodes DEF LeaveStart
    <3> QED BY <2>3, <3>2, <3>3, <3>4 DEF Loops
  <2>4. ASSUME NEW c \in Caller, Executes(c) PROVE TypeInv'
    <3>0. At(c, "executing") \/ At(c, "route") => run[c].node \in Node \cap Sources(graph)
      BY DEF At, TypeInv, NodeExecutes
    <3>1. CASE RaiseInterrupt(c) \/ NodeFails(c)
      BY <2>2, <3>0, <3>1 DEF RaiseInterrupt, NodeFails, Asking, Places
    <3>2. CASE TakeAnswer(c)
      <4> DEFINE g == [value |-> run[c].answers[Len(run[c].given) + 1], at |-> Here(c)]
                 r == [run[c] EXCEPT !.given = Append(@, g), !.asked = @ + 1]
      <4>1. Len(run[c].given) + 1 \in 1..Len(run[c].answers)
        BY <2>t, <3>2, RunParts DEF TakeAnswer, HasAnswer
      <4>2. run[c].answers[Len(run[c].given) + 1] \in Interrupt
        BY <2>t, <4>1, RunParts
      <4>3. Here(c) \in Interrupt
        BY <2>t, RunParts DEF Here, Interrupt
      <4>4. g \in [value : Interrupt, at : Interrupt]
        BY <4>2, <4>3
      <4>5. Becomes(c, r) /\ UNCHANGED <<graph, first, asks, thread, calls>>
        BY <3>2 DEF TakeAnswer
      <4> HIDE DEF g
      <4>6. r \in Run
        BY <2>t, <4>4, RunParts, GivenChanges
      <4>7. NodeExecutes(r)
        BY <2>t, RunParts DEF NodeExecutes, Run, TypeInv
      <4> HIDE DEF r
      <4> QED BY <2>0, <4>5, <4>6, <4>7
    <3>3. CASE NodeReturns(c)
      <4> DEFINE r == [run[c] EXCEPT !.values = Append(@, run[c].node), !.asked = 0,
                                     !.pc = "route"]
      <4>1. run[c].node \in Node \cap Sources(graph)
        BY <3>0, <3>3 DEF NodeReturns
      <4>2. r \in Run
        BY <2>t, <4>1, RunParts, ValuesChange
      <4>3. NodeExecutes(r)
        BY <2>t, <4>1, RunParts DEF NodeExecutes, Run
      <4>4. Becomes(c, r) /\ UNCHANGED <<graph, first, asks, thread, calls>>
        BY <3>3 DEF NodeReturns
      <4> HIDE DEF r
      <4> QED BY <2>0, <4>2, <4>3, <4>4
    <3>4. CASE Follow(c)
      <4>1. ASSUME NEW n \in Node, Becomes(c, [run[c] EXCEPT !.pc = "loop", !.node = n]),
                   UNCHANGED <<graph, first, asks, thread, calls>>
            PROVE  TypeInv'
        <5> DEFINE r == [run[c] EXCEPT !.pc = "loop", !.node = n]
        <5>1. r \in Run
          BY <2>t, RunParts, NodeChanges
        <5>2. NodeExecutes(r)
          BY <2>t, RunParts DEF NodeExecutes, Run
        <5>3. Becomes(c, r)
          BY <4>1
        <5> HIDE DEF r
        <5> QED BY <2>0, <4>1, <5>1, <5>2, <5>3
      <4>2. PICK t \in Targets(run[c].node) :
              \/ t = NoRoute /\ Goes(c, "failed")
              \/ t = End /\ Goes(c, "done")
              \/ t \in Node /\ Becomes(c, [run[c] EXCEPT !.pc = "loop", !.node = t])
                            /\ UNCHANGED <<graph, first, asks, thread, calls>>
        BY <2>t, <3>0, <3>4, TargetsAreNodes, NodeAssumption DEF Follow
      <4> QED BY <2>2, <4>1, <4>2 DEF Places
    <3> QED BY <2>4, <3>1, <3>2, <3>3, <3>4 DEF Executes
  <2>5. ASSUME NEW c \in Caller, Saves(c) PROVE TypeInv'
    <3>1. ASSUME NEW s \in Snapshot, Put(s), NEW r \in Run, Becomes(c, r),
                 r.pc \in {"interrupted", "updated"}
          PROVE  TypeInv'
      <4>1. history' \in Seq(Snapshot) /\ made' \in Nat
        BY <2>t, <3>1 DEF Put, TypeOK
      <4> QED BY <2>t, <3>1, <4>1, RunStep DEF Put, NodeExecutes, TypeOK
    <3>2. CASE PutFails(c)
      <4> DEFINE r == [run[c] EXCEPT !.pc = "failed"]
      <4>1. r \in Run
        BY <2>t, RunParts, PcChanges DEF Places
      <4>2. NodeExecutes(r)
        BY <2>t, RunParts DEF NodeExecutes, Run
      <4>3. Becomes(c, r) /\ UNCHANGED <<graph, first, asks, history, calls>> /\ made' = made + 1
        BY <3>2 DEF PutFails
      <4> HIDE DEF r
      <4> QED BY <2>t, <4>1, <4>2, <4>3, RunStep DEF TypeOK
    <3>3. ASSUME At(c, "saving"), Put(InterruptSnapshot(c)),
                 Becomes(c, [run[c] EXCEPT !.pc = "interrupted", !.raised = Here(c)])
          PROVE  TypeInv'
      <4> DEFINE r == [run[c] EXCEPT !.pc = "interrupted", !.raised = Here(c)]
      <4>1. Here(c) \in Interrupt
        BY <2>t, RunParts DEF Here, Interrupt
      <4>2. r \in Run /\ r.pc = "interrupted"
        <5>1. r.pc = "interrupted"
          BY <2>t, RunParts DEF Run
        <5> QED BY <2>t, <4>1, <5>1, RunParts, RaisedChanges
      <4>3. run[c].node \in Node /\ made + 1 \in Nat
        BY <2>t, <3>3 DEF At, TypeInv, NodeExecutes, TypeOK
      <4>4. InterruptSnapshot(c) \in Snapshot
        BY <2>t, <4>3, RunParts DEF InterruptSnapshot, Snapshot
      <4>5. Becomes(c, r)
        BY <3>3
      <4> HIDE DEF r
      <4> QED BY <3>1, <3>3, <4>2, <4>4, <4>5
    <3>4. ASSUME NEW n \in Node, At(c, "updating"), Put(UpdateSnapshot(c, n)),
                 Becomes(c, [run[c] EXCEPT !.pc = "updated"])
          PROVE  TypeInv'
      <4> DEFINE r == [run[c] EXCEPT !.pc = "updated"]
      <4>2. r \in Run /\ r.pc = "updated"
        <5>1. r.pc = "updated"
          BY <2>t, RunParts DEF Run
        <5> QED BY <2>t, <5>1, RunParts, PcChanges DEF Places
      <4>3. run[c].node \in Node /\ made + 1 \in Nat
        BY <2>t, <3>4 DEF At, TypeInv, NodeExecutes, TypeOK
      <4>4. Append(run[c].values, n) \in Seq(Node)
        BY <2>t, RunParts
      <4>5. UpdateSnapshot(c, n) \in Snapshot
        BY <2>t, <4>3, <4>4, RunParts DEF UpdateSnapshot, Snapshot
      <4>6. Becomes(c, r)
        BY <3>4
      <4> HIDE DEF r
      <4> QED BY <3>1, <3>4, <4>2, <4>5, <4>6
    <3> QED BY <2>5, <3>2, <3>3, <3>4 DEF Saves, SaveInterrupt, WriteState
  <2>6. ASSUME NEW c \in Caller, Cancel(c) PROVE TypeInv'
    BY <2>2, <2>6 DEF Cancel, Places
  <2>7. CASE UNCHANGED vars
    BY <2>7 DEF vars, TypeInv, TypeOK, NodeExecutes, thread
  <2> QED BY <2>1, <2>3, <2>4, <2>5, <2>6, <2>7 DEF Next
<1> QED BY <1>1, <1>2, PTL DEF Spec

(***************************************************************************)
(* The types of the calls and of the thread's checkpoints.                 *)
(***************************************************************************)
THEOREM TypeCorrect == Spec => []TypeOK
BY TypesHold, PTL DEF TypeInv

\* How many messages a call has merged.
MergedBy(r) == Len(r.values) - Len(r.base)

\* START takes one iteration and each node one: what a call has merged lags behind.
Spent(r) ==
  /\ MergedBy(r) \in Nat
  /\ r.iterations <= MaxIterations
  /\ MergedBy(r) = 0 \/ MergedBy(r) < r.iterations
  /\ r.pc = "loop" => IF r.node = Start THEN MergedBy(r) = 0 ELSE MergedBy(r) < r.iterations
  /\ r.pc = "executing" => MergedBy(r) + 1 < r.iterations
  /\ r.pc = "route" => MergedBy(r) < r.iterations

\* A call that only goes elsewhere has spent what it had.
LEMMA PlaceSpends ==
  ASSUME NEW r \in Run, Spent(r), NEW pc \in Places, pc \notin {"loop", "executing", "route"}
  PROVE  Spent([r EXCEPT !.pc = pc])
BY DEF Spent, MergedBy, Run

\* A round of the loop.
LEMMA IterationSpends ==
  ASSUME NEW r \in Run, Spent(r), r.pc = "loop", r.iterations < MaxIterations,
         NEW pc \in {"loop", "executing", "done", "failed"}, NEW n \in Node \cup {Start, End},
         pc = "loop" => r.node = Start /\ n # Start,
         pc = "executing" => r.node # Start
  PROVE  Spent([r EXCEPT !.iterations = @ + 1, !.pc = pc, !.node = n, !.asked = 0])
<1> DEFINE q == [r EXCEPT !.iterations = @ + 1, !.pc = pc, !.node = n, !.asked = 0]
<1>1. q.values = r.values /\ q.base = r.base /\ q.iterations = r.iterations + 1
      /\ q.pc = pc /\ q.node = n
  BY DEF Run
<1>2. r.iterations \in Nat
  BY DEF Run
<1>3. MergedBy(q) = MergedBy(r)
  BY <1>1 DEF MergedBy
<1> HIDE DEF q
<1>4. Spent(q)
  BY <1>1, <1>2, <1>3, InterruptAssumption DEF Spent
<1> QED BY <1>4 DEF q

\* A call that merges its node's message.
LEMMA MergeSpends ==
  ASSUME NEW r \in Run, Spent(r), r.pc = "executing", r.node \in Node
  PROVE  Spent([r EXCEPT !.values = Append(@, r.node), !.asked = 0, !.pc = "route"])
<1> DEFINE q == [r EXCEPT !.values = Append(@, r.node), !.asked = 0, !.pc = "route"]
<1>1. q.values = Append(r.values, r.node) /\ q.base = r.base /\ q.iterations = r.iterations
      /\ q.pc = "route"
  BY DEF Run
<1>2. r.iterations \in Nat /\ r.values \in Seq(Node) /\ r.base \in Seq(Node)
  BY DEF Run
<1>3. Len(q.values) = Len(r.values) + 1
  BY <1>1, <1>2
<1>4. MergedBy(q) = MergedBy(r) + 1
  BY <1>1, <1>2, <1>3 DEF MergedBy
<1> HIDE DEF q
<1>5. Spent(q)
  BY <1>1, <1>2, <1>4, InterruptAssumption DEF Spent
<1> QED BY <1>5 DEF q

(***************************************************************************)
(* max_iterations: every call, also one that goes round a loop or that     *)
(* continues a checkpoint, merges fewer messages.                          *)
(***************************************************************************)
THEOREM IterationsAreBounded == Spec => []IterationsBounded
<1>1. ASSUME NEW c \in Caller, NEW r, Becomes(c, r), TypeOK, Spent(r),
             \A d \in Caller : Spent(run[d])
      PROVE  \A d \in Caller : Spent(run'[d])
  BY <1>1 DEF Becomes, TypeOK
<1>2. ASSUME NEW scoped, NEW node, NEW values \in Seq(Node), NEW pc \in {"idle", "loop", "updating"},
             NEW parent, NEW answers, NEW raised, NEW id, pc = "loop" => node = Start
      PROVE  Spent(NewRun(pc, id, scoped, node, values, parent, answers, raised))
  BY <1>2, InterruptAssumption DEF NewRun, Spent, MergedBy
<1>3. Init => \A c \in Caller : Spent(run[c])
  <2> SUFFICES ASSUME Init, NEW c \in Caller PROVE Spent(run[c])
    OBVIOUS
  <2>1. <<>> \in Seq(Node)
    OBVIOUS
  <2>2. run[c] = NewRun("idle", 0, FALSE, Start, <<>>, 0, <<>>, NoInterrupt)
    BY DEF Init
  <2> QED BY <1>2, <2>1, <2>2
<1>4. TypeInv /\ (\A c \in Caller : Spent(run[c])) /\ [Next]_vars
      => (\A c \in Caller : Spent(run[c]))'
  <2> SUFFICES ASSUME TypeInv, \A c \in Caller : Spent(run[c]), [Next]_vars
               PROVE  \A c \in Caller : Spent(run'[c])
    OBVIOUS
  <2>t. TypeOK
    BY DEF TypeInv
  <2>r. \A c \in Caller : run[c] \in Run
    BY <2>t DEF TypeOK
  <2>h. \A i \in DOMAIN history : history[i].values \in Seq(Node)
    <3>1. \A i \in DOMAIN history : history[i] \in Snapshot
      BY <2>t DEF TypeOK
    <3> QED BY <3>1 DEF Snapshot
  <2>l. history # <<>> => Last(history).values \in Seq(Node)
    BY <2>t, <2>h DEF Last, TypeOK
  <2>e. <<>> \in Seq(Node)
    OBVIOUS
  <2>1. ASSUME NEW c \in Caller, Begins(c) PROVE \A d \in Caller : Spent(run'[d])
    <3>1. ASSUME NEW scoped, NEW parent, NEW values \in Seq(Node), NEW answers,
                 Call(c, scoped, parent, values, answers)
          PROVE  \A d \in Caller : Spent(run'[d])
      BY <1>1, <1>2, <2>t, <3>1 DEF Call
    <3>2. CASE Invoke(c) \/ InvokeState(c)
      BY <2>e, <3>1, <3>2 DEF Invoke, InvokeState
    <3>3. CASE InvokeResume(c) \/ InvokeGoto(c)
      BY <2>l, <3>1, <3>3 DEF InvokeResume, InvokeGoto
    <3>4. ASSUME NEW i \in DOMAIN history, InvokeFork(c, i) \/ ReadState(c, i)
          PROVE  \A d \in Caller : Spent(run'[d])
      BY <1>1, <1>2, <2>t, <2>h, <3>1, <3>4 DEF InvokeFork, ReadState
    <3> QED BY <2>1, <3>2, <3>3, <3>4 DEF Begins
  <2>2. ASSUME NEW c \in Caller, NEW pc \in Places, pc \notin {"loop", "executing", "route"},
               Becomes(c, [run[c] EXCEPT !.pc = pc])
        PROVE  \A d \in Caller : Spent(run'[d])
    BY <1>1, <2>2, <2>r, <2>t, PlaceSpends
  <2>3. ASSUME NEW c \in Caller, Loops(c) PROVE \A d \in Caller : Spent(run'[d])
    <3>1. ASSUME NEW pc \in {"loop", "executing", "done", "failed"},
                 NEW n \in Node \cup {Start, End}, Iterate(c, pc, n),
                 pc = "loop" => run[c].node = Start /\ n # Start,
                 pc = "executing" => run[c].node # Start
          PROVE  \A d \in Caller : Spent(run'[d])
      <4>1. run[c].pc = "loop" /\ run[c].iterations < MaxIterations
        BY <3>1 DEF Iterate, At, WithinLimit
      <4>2. Spent([run[c] EXCEPT !.iterations = @ + 1, !.pc = pc, !.node = n, !.asked = 0])
        BY <2>r, <3>1, <4>1, IterationSpends
      <4> QED BY <1>1, <2>t, <3>1, <4>2 DEF Iterate
    <3>2. CASE IterationLimit(c)
      BY <2>2, <3>2 DEF IterationLimit, Goes, Places
    <3>3. CASE ReachEnd(c) \/ NoEdges(c)
      BY <2>t, <3>1, <3>3, RunParts DEF ReachEnd, NoEdges
    <3>4. CASE EnterNode(c)
      BY <3>1, <3>4, NodeAssumption DEF EnterNode
    <3>5. CASE LeaveStart(c)
      BY <2>t, <3>1, <3>5, TargetsAreNodes, NodeAssumption DEF LeaveStart
    <3> QED BY <2>3, <3>2, <3>3, <3>4, <3>5 DEF Loops
  <2>4. ASSUME NEW c \in Caller, Executes(c) PROVE \A d \in Caller : Spent(run'[d])
    <3>1. CASE RaiseInterrupt(c) \/ NodeFails(c)
      BY <2>2, <3>1 DEF RaiseInterrupt, NodeFails, Goes, Places
    <3>2. CASE TakeAnswer(c)
      <4>1. ASSUME NEW g PROVE Spent([run[c] EXCEPT !.given = Append(@, g), !.asked = @ + 1])
        BY <2>r DEF Spent, MergedBy, Run
      <4> QED BY <1>1, <2>t, <3>2, <4>1 DEF TakeAnswer
    <3>3. CASE NodeReturns(c)
      <4>1. run[c].pc = "executing" /\ run[c].node \in Node
        BY <3>3 DEF NodeReturns, At, TypeInv, NodeExecutes
      <4> QED BY <1>1, <2>t, <2>r, <3>3, <4>1, MergeSpends DEF NodeReturns
    <3>4. CASE Follow(c)
      <4>1. run[c].pc = "route" /\ run[c].node \in Node \cap Sources(graph)
        BY <3>4 DEF Follow, At, TypeInv, NodeExecutes
      <4>2. PICK t \in Targets(run[c].node) :
              \/ Goes(c, "failed") \/ Goes(c, "done")
              \/ t \in Node /\ Becomes(c, [run[c] EXCEPT !.pc = "loop", !.node = t])
        BY <2>t, <3>4, <4>1, TargetsAreNodes, NodeAssumption DEF Follow
      <4>3. ASSUME NEW n \in Node PROVE Spent([run[c] EXCEPT !.pc = "loop", !.node = n])
        BY <2>r, <4>1, NodeAssumption DEF Spent, MergedBy, Run
      <4> QED BY <1>1, <2>2, <2>t, <4>2, <4>3 DEF Goes, Places
    <3> QED BY <2>4, <3>1, <3>2, <3>3, <3>4 DEF Executes
  <2>5. ASSUME NEW c \in Caller, Saves(c) PROVE \A d \in Caller : Spent(run'[d])
    <3>1. CASE PutFails(c) \/ Becomes(c, [run[c] EXCEPT !.pc = "updated"])
      BY <2>2, <3>1 DEF PutFails, Places
    <3>2. CASE Becomes(c, [run[c] EXCEPT !.pc = "interrupted", !.raised = Here(c)])
      <4>1. Spent([run[c] EXCEPT !.pc = "interrupted", !.raised = Here(c)])
        BY <2>r DEF Spent, MergedBy, Run
      <4> QED BY <1>1, <2>t, <3>2, <4>1
    <3> QED BY <2>5, <3>1, <3>2 DEF Saves, SaveInterrupt, WriteState
  <2>6. ASSUME NEW c \in Caller, Cancel(c) PROVE \A d \in Caller : Spent(run'[d])
    BY <2>2, <2>6 DEF Cancel, Goes, Places
  <2>7. CASE UNCHANGED vars
    BY <2>7 DEF vars
  <2> QED BY <2>1, <2>3, <2>4, <2>5, <2>6, <2>7 DEF Next
<1>5. TypeInv /\ (\A c \in Caller : Spent(run[c])) => IterationsBounded
  <2> SUFFICES ASSUME TypeInv, NEW c \in Caller, Spent(run[c])
               PROVE  Len(Merged(c)) < MaxIterations
    BY DEF IterationsBounded
  <2>1. run[c].values \in Seq(Node) /\ run[c].base \in Seq(Node) /\ run[c].iterations \in Nat
    BY RunParts DEF TypeInv
  <2> DEFINE b == Len(run[c].base)
             v == Len(run[c].values)
  <2>2. b \in Nat /\ v \in Nat /\ v - b \in Nat /\ v - b < MaxIterations
    <3>1. b \in Nat /\ v \in Nat
      BY <2>1
    <3>2. MergedBy(run[c]) = v - b
      BY DEF MergedBy
    <3> HIDE DEF b, v
    <3> QED BY <2>1, <3>1, <3>2, InterruptAssumption DEF Spent
  <2>3. Len(SubSeq(run[c].values, b + 1, v)) = v - b
    <3>1. b + 1 \in 1..(v + 1) /\ v = Len(run[c].values)
      BY <2>2
    <3> HIDE DEF b
    <3>2. Len(SubSeq(run[c].values, b + 1, v)) = IF b + 1 <= v THEN v - (b + 1) + 1 ELSE 0
      BY <2>1, <3>1, SubSeqProperties
    <3> QED BY <2>2, <3>2
  <2> QED BY <2>2, <2>3 DEF Merged
<1> QED BY <1>3, <1>4, <1>5, TypesHold, PTL DEF Spec

\* A checkpoint of a call's state at its node.
IsSaved(r, saved) ==
  \E s \in saved : s.call = r.call /\ s.values = r.values /\ s.next = r.node

\* What a step of one caller owes to the others and to itself.
LEMMA SavedStep ==
  ASSUME TypeOK, InterruptsAreSaved, NEW c \in Caller, NEW r, Becomes(c, r),
         ToSet(history) \subseteq ToSet(history)',
         r.pc = "interrupted" => IsSaved(r, ToSet(history)')
  PROVE  InterruptsAreSaved'
<1>1. run'[c] = r /\ \A d \in Caller \ {c} : run'[d] = run[d]
  BY DEF Becomes, TypeOK
<1>2. \A d \in Caller : run[d].pc = "interrupted" => IsSaved(run[d], ToSet(history))
  BY DEF InterruptsAreSaved, IsSaved
<1>3. \A d \in Caller : run'[d].pc = "interrupted" => IsSaved(run'[d], ToSet(history)')
  BY <1>1, <1>2 DEF IsSaved
<1> QED BY <1>3 DEF InterruptsAreSaved, IsSaved

\* A put leaves every checkpoint where it is.
LEMMA PutKeeps ==
  ASSUME TypeOK, NEW s \in Snapshot, Put(s)
  PROVE  ToSet(history) \subseteq ToSet(history)' /\ s \in ToSet(history)'
<1>1. history \in Seq(Snapshot) /\ history' = Append(history, s)
  BY DEF TypeOK, Put
<1>2. \A i \in DOMAIN history : i \in DOMAIN history' /\ history'[i] = history[i]
  BY <1>1
<1>3. Len(history) + 1 \in DOMAIN history' /\ history'[Len(history) + 1] = s
  BY <1>1
<1> QED BY <1>2, <1>3 DEF ToSet

(***************************************************************************)
(* An interrupt that is returned can be resumed: the checkpointer holds the*)
(* state it was raised in, at the node that raised it.                     *)
(***************************************************************************)
THEOREM InterruptsAreKept == Spec => []InterruptsAreSaved
<1>1. Init => InterruptsAreSaved
  <2> SUFFICES ASSUME Init, NEW c \in Caller PROVE run[c].pc # "interrupted"
    BY DEF InterruptsAreSaved
  <2> QED BY DEF Init, NewRun
<1>2. TypeInv /\ InterruptsAreSaved /\ [Next]_vars => InterruptsAreSaved'
  <2> SUFFICES ASSUME TypeInv, InterruptsAreSaved, [Next]_vars PROVE InterruptsAreSaved'
    OBVIOUS
  <2>t. TypeOK
    BY DEF TypeInv
  <2>1. ASSUME NEW c \in Caller, NEW r, Becomes(c, r), history' = history,
               r.pc # "interrupted"
        PROVE  InterruptsAreSaved'
    BY <2>1, <2>t, SavedStep
  <2>2. ASSUME NEW c \in Caller, NEW pc, pc # "interrupted",
               Becomes(c, [run[c] EXCEPT !.pc = pc]), history' = history
        PROVE  InterruptsAreSaved'
    <3>1. [run[c] EXCEPT !.pc = pc].pc = pc
      BY <2>t, RunParts DEF Run
    <3> QED BY <2>1, <2>2, <3>1
  <2>3. ASSUME NEW c \in Caller, Begins(c) PROVE InterruptsAreSaved'
    <3>1. ASSUME NEW scoped, NEW parent, NEW values, NEW answers,
                 Call(c, scoped, parent, values, answers)
          PROVE  InterruptsAreSaved'
      BY <2>1, <3>1 DEF Call, NewRun, thread
    <3>2. ASSUME NEW i \in DOMAIN history, ReadState(c, i) PROVE InterruptsAreSaved'
      BY <2>1, <3>2 DEF ReadState, NewRun, thread
    <3> QED BY <2>3, <3>1, <3>2
            DEF Begins, Invoke, InvokeState, InvokeResume, InvokeGoto, InvokeFork
  <2>4. ASSUME NEW c \in Caller, Loops(c) PROVE InterruptsAreSaved'
    <3>1. ASSUME NEW pc, NEW n, Iterate(c, pc, n), pc # "interrupted"
          PROVE  InterruptsAreSaved'
      <4>1. [run[c] EXCEPT !.iterations = @ + 1, !.pc = pc, !.node = n, !.asked = 0].pc = pc
        BY <2>t, RunParts DEF Run
      <4> QED BY <2>1, <3>1, <4>1 DEF Iterate, thread
    <3>2. CASE IterationLimit(c)
      BY <2>2, <3>2 DEF IterationLimit, Goes, thread
    <3> QED BY <2>4, <3>1, <3>2 DEF Loops, ReachEnd, NoEdges, EnterNode, LeaveStart
  <2>5. ASSUME NEW c \in Caller, Executes(c) PROVE InterruptsAreSaved'
    <3>1. CASE RaiseInterrupt(c) \/ NodeFails(c)
      BY <2>2, <3>1 DEF RaiseInterrupt, NodeFails, Goes, thread
    <3>2. CASE TakeAnswer(c)
      <4>1. ASSUME NEW g PROVE [run[c] EXCEPT !.given = Append(@, g), !.asked = @ + 1].pc = run[c].pc
        BY <2>t, RunParts DEF Run
      <4> QED BY <2>1, <3>2, <4>1 DEF TakeAnswer, Asking, At, thread
    <3>3. CASE NodeReturns(c)
      <4>1. [run[c] EXCEPT !.values = Append(@, run[c].node), !.asked = 0, !.pc = "route"].pc = "route"
        BY <2>t, RunParts DEF Run
      <4> QED BY <2>1, <3>3, <4>1 DEF NodeReturns, thread
    <3>4. CASE Follow(c)
      <4>1. run[c].node \in Sources(graph)
        BY <3>4 DEF Follow, At, TypeInv, NodeExecutes
      <4>2. PICK t \in Targets(run[c].node) :
              \/ Goes(c, "failed") \/ Goes(c, "done")
              \/ Becomes(c, [run[c] EXCEPT !.pc = "loop", !.node = t]) /\ UNCHANGED thread
        BY <2>t, <3>4, <4>1, TargetsAreNodes, NodeAssumption DEF Follow
      <4>3. ASSUME NEW n PROVE [run[c] EXCEPT !.pc = "loop", !.node = n].pc = "loop"
        BY <2>t, RunParts DEF Run
      <4> QED BY <2>1, <2>2, <4>2, <4>3 DEF Goes, thread
    <3> QED BY <2>5, <3>1, <3>2, <3>3, <3>4 DEF Executes
  <2>6. ASSUME NEW c \in Caller, Saves(c) PROVE InterruptsAreSaved'
    <3>1. CASE PutFails(c)
      BY <2>2, <3>1 DEF PutFails
    <3>2. ASSUME At(c, "saving"), Put(InterruptSnapshot(c)),
                 Becomes(c, [run[c] EXCEPT !.pc = "interrupted", !.raised = Here(c)])
          PROVE  InterruptsAreSaved'
      <4> DEFINE r == [run[c] EXCEPT !.pc = "interrupted", !.raised = Here(c)]
                 s == InterruptSnapshot(c)
      <4>1. run[c].node \in Node /\ made + 1 \in Nat
        BY <2>t, <3>2 DEF At, TypeInv, NodeExecutes, TypeOK
      <4>2. s \in Snapshot
        BY <2>t, <4>1, RunParts DEF InterruptSnapshot, Snapshot
      <4>3. s.call = r.call /\ s.values = r.values /\ s.next = r.node
        BY <2>t, RunParts DEF InterruptSnapshot, Run
      <4>4. Becomes(c, r) /\ Put(s)
        BY <3>2
      <4> HIDE DEF r, s
      <4> QED BY <2>t, <4>2, <4>3, <4>4, PutKeeps, SavedStep DEF IsSaved
    <3>3. ASSUME NEW n \in Node, At(c, "updating"), Put(UpdateSnapshot(c, n)),
                 Becomes(c, [run[c] EXCEPT !.pc = "updated"])
          PROVE  InterruptsAreSaved'
      <4> DEFINE r == [run[c] EXCEPT !.pc = "updated"]
                 s == UpdateSnapshot(c, n)
      <4>1. run[c].node \in Node /\ made + 1 \in Nat
        BY <2>t, <3>3 DEF At, TypeInv, NodeExecutes, TypeOK
      <4>2. Append(run[c].values, n) \in Seq(Node)
        BY <2>t, RunParts
      <4>3. s \in Snapshot
        BY <2>t, <4>1, <4>2, RunParts DEF UpdateSnapshot, Snapshot
      <4>4. r.pc = "updated"
        BY <2>t, RunParts DEF Run
      <4>5. Becomes(c, r) /\ Put(s)
        BY <3>3
      <4> HIDE DEF r, s
      <4> QED BY <2>t, <4>3, <4>4, <4>5, PutKeeps, SavedStep
    <3> QED BY <2>6, <3>1, <3>2, <3>3 DEF Saves, SaveInterrupt, WriteState
  <2>7. ASSUME NEW c \in Caller, Cancel(c) PROVE InterruptsAreSaved'
    BY <2>2, <2>7 DEF Cancel, Goes, thread
  <2>8. CASE UNCHANGED vars
    BY <2>8 DEF vars, thread, InterruptsAreSaved
  <2> QED BY <2>3, <2>4, <2>5, <2>6, <2>7, <2>8 DEF Next
<1> QED BY <1>1, <1>2, TypesHold, PTL DEF Spec
-------------------------------------------------------------------------------
(***************************************************************************)
(* The path of a call: what it merged since it began follows the first     *)
(* edges f from START, and where it is going to comes next on them.        *)
(***************************************************************************)
Before(r, i) == IF i = 1 THEN Start ELSE r.values[Len(r.base) + i - 1]

Ahead(f, r, n) == n \in f[Before(r, MergedBy(r) + 1)].targets

Path(f, r) ==
  /\ MergedBy(r) \in Nat
  /\ \A i \in 1..Len(r.base) : r.values[i] = r.base[i]
  /\ \A i \in 1..MergedBy(r) : r.values[Len(r.base) + i] \in f[Before(r, i)].targets
  /\ r.pc = "loop" => IF r.node = Start THEN MergedBy(r) = 0 ELSE Ahead(f, r, r.node)
  /\ r.pc \in {"executing", "saving", "interrupted"} => Ahead(f, r, r.node)
  /\ r.pc = "route" => Before(r, MergedBy(r) + 1) = r.node
  /\ r.pc = "done" => Ahead(f, r, End)

Paths == \A c \in Caller : Path(first, run[c])

\* A call that goes elsewhere with what it has merged.
LEMMA PathMoves ==
  ASSUME NEW f, NEW r, NEW q, Path(f, r), q.values = r.values, q.base = r.base,
         q.pc # "route",
         q.pc = "loop" => q.node # Start /\ Ahead(f, r, q.node),
         q.pc \in {"executing", "saving", "interrupted"} => Ahead(f, r, q.node),
         q.pc = "done" => Ahead(f, r, End)
  PROVE  Path(f, q)
<1>1. MergedBy(q) = MergedBy(r) /\ \A i : Before(q, i) = Before(r, i)
  BY DEF MergedBy, Before
<1>2. \A n : Ahead(f, q, n) <=> Ahead(f, r, n)
  BY <1>1 DEF Ahead
<1> QED BY <1>1, <1>2 DEF Path

\* A call that merges its node's message goes one step on its path.
LEMMA PathGrows ==
  ASSUME NEW f, NEW r \in Run, NEW q, Path(f, r), r.pc = "executing", r.node \in Node,
         q.values = Append(r.values, r.node), q.base = r.base, q.node = r.node,
         q.pc = "route"
  PROVE  Path(f, q)
<1> DEFINE values == r.values
<1>0. values \in Seq(Node) /\ r.base \in Seq(Node)
  BY DEF Run
<1>1. PICK b \in Nat, n \in Nat :
        b = Len(r.base) /\ n = MergedBy(r) /\ Len(values) = b + n
  <2>1. Len(r.base) \in Nat /\ Len(values) \in Nat
    BY <1>0
  <2>2. MergedBy(r) \in Nat /\ MergedBy(r) = Len(values) - Len(r.base)
    BY DEF Path, MergedBy
  <2> HIDE DEF values
  <2>3. Len(values) = Len(r.base) + MergedBy(r)
    BY <2>1, <2>2
  <2> QED BY <2>1, <2>2, <2>3
<1>2. /\ Len(q.values) = b + n + 1 /\ q.values[b + n + 1] = r.node
      /\ \A i \in 1..(b + n) : q.values[i] = values[i]
  <2> HIDE DEF values
  <2>1. q.values = Append(values, r.node)
    BY DEF values
  <2> QED BY <1>0, <1>1, <2>1
<1>3. MergedBy(q) = n + 1
  BY <1>1, <1>2 DEF MergedBy
<1>4. ASSUME NEW i \in 1..(n + 1) PROVE Before(q, i) = Before(r, i)
  <2>1. i # 1 => b + i - 1 \in 1..(b + n)
    OBVIOUS
  <2> QED BY <1>1, <1>2, <2>1 DEF Before
<1>5. Before(q, n + 2) = r.node
  <2>1. n + 2 # 1 /\ b + (n + 2) - 1 = b + n + 1
    OBVIOUS
  <2> QED BY <1>1, <1>2, <2>1 DEF Before
<1>6. ASSUME NEW i \in 1..b PROVE q.values[i] = q.base[i]
  <2>1. i \in 1..(b + n)
    OBVIOUS
  <2>2. values[i] = r.base[i]
    BY <1>1 DEF Path
  <2> QED BY <1>2, <2>1, <2>2
<1>7. ASSUME NEW i \in 1..(n + 1) PROVE q.values[b + i] \in f[Before(q, i)].targets
  <2>1. CASE i = n + 1
    <3>1. b + i = b + n + 1
      BY <2>1
    <3>2. r.node \in f[Before(r, n + 1)].targets
      BY <1>1 DEF Path, Ahead
    <3> QED BY <1>2, <1>4, <2>1, <3>1, <3>2
  <2>2. CASE i # n + 1
    <3>1. i \in 1..n /\ b + i \in 1..(b + n)
      BY <2>2
    <3>2. values[b + i] \in f[Before(r, i)].targets
      BY <1>1, <3>1 DEF Path
    <3> QED BY <1>2, <1>4, <3>1, <3>2
  <2> QED BY <2>1, <2>2
<1>8. n + 1 \in Nat /\ n + 1 + 1 = n + 2
  OBVIOUS
<1>9. Before(q, MergedBy(q) + 1) = q.node
  BY <1>3, <1>5, <1>8
<1> QED BY <1>1, <1>3, <1>6, <1>7, <1>8, <1>9 DEF Path

\* A call that begins has merged nothing.
LEMMA PathBegins ==
  ASSUME NEW f, NEW pc \in {"idle", "loop", "updating"}, NEW id, NEW scoped, NEW node,
         NEW values \in Seq(Node), NEW parent, NEW answers, NEW raised,
         pc = "loop" => node = Start
  PROVE  Path(f, NewRun(pc, id, scoped, node, values, parent, answers, raised))
<1> DEFINE r == NewRun(pc, id, scoped, node, values, parent, answers, raised)
<1>1. r.pc = pc /\ r.node = node /\ r.values = values /\ r.base = values
  BY DEF NewRun
<1> HIDE DEF r
<1>2. MergedBy(r) = 0
  BY <1>1 DEF MergedBy
<1>3. Path(f, r)
  BY <1>1, <1>2 DEF Path
<1> QED BY <1>3 DEF r

\* The path of the call is what the property calls one.
LEMMA PathIsPath ==
  ASSUME TypeOK, NEW c \in Caller, NEW n, Path(first, run[c]), Ahead(first, run[c], n)
  PROVE  IsPath(Merged(c), n)
<1> DEFINE r == run[c]
           values == r.values
           merged == Merged(c)
<1>0. values \in Seq(Node) /\ r.base \in Seq(Node)
  BY RunParts
<1>1. PICK b \in Nat, m \in Nat : b = Len(r.base) /\ m = MergedBy(r) /\ Len(values) = b + m
  <2>1. Len(r.base) \in Nat /\ Len(values) \in Nat
    BY <1>0
  <2>2. MergedBy(r) \in Nat /\ MergedBy(r) = Len(values) - Len(r.base)
    BY DEF Path, MergedBy
  <2> HIDE DEF values, r
  <2>3. Len(values) = Len(r.base) + MergedBy(r)
    BY <2>1, <2>2
  <2> QED BY <2>1, <2>2, <2>3
<1>2. merged \in Seq(Node) /\ Len(merged) = m /\ \A i \in 1..m : merged[i] = values[b + i]
  <2>1. merged = SubSeq(values, b + 1, b + m)
    BY <1>1 DEF Merged
  <2> HIDE DEF merged, values
  <2>2. \A i \in (b + 1)..(b + m) : values[i] \in Node
    BY <1>0, <1>1
  <2>3. b + 1 \in Int /\ b + m \in Int
    OBVIOUS
  <2>4. /\ SubSeq(values, b + 1, b + m) \in Seq(Node)
        /\ Len(SubSeq(values, b + 1, b + m)) = IF b + 1 <= b + m THEN (b + m) - (b + 1) + 1 ELSE 0
        /\ \A i \in 1..((b + m) - (b + 1) + 1) :
             SubSeq(values, b + 1, b + m)[i] = values[(b + 1) + i - 1]
    BY ONLY <2>2, <2>3, SubSeqProperties
  <2>5. /\ (IF b + 1 <= b + m THEN (b + m) - (b + 1) + 1 ELSE 0) = m
        /\ (b + m) - (b + 1) + 1 = m
        /\ \A i \in 1..m : (b + 1) + i - 1 = b + i
    OBVIOUS
  <2> QED BY <2>1, <2>4, <2>5
<1> DEFINE path == Append(merged, n)
<1>3. /\ DOMAIN path = 1..(m + 1) /\ path[m + 1] = n
      /\ \A i \in 1..m : path[i] = values[b + i]
  <2> HIDE DEF merged, values
  <2> QED BY <1>2
<1> HIDE DEF path, merged
<1>4. ASSUME NEW i \in 1..(m + 1)
      PROVE  (IF i = 1 THEN Start ELSE path[i - 1]) = Before(r, i)
  <2>1. i # 1 => i - 1 \in 1..m /\ b + (i - 1) = b + i - 1
    OBVIOUS
  <2> QED BY <1>1, <1>3, <2>1 DEF Before
<1>5. ASSUME NEW i \in 1..(m + 1)
      PROVE  path[i] \in first[IF i = 1 THEN Start ELSE path[i - 1]].targets
  <2>1. CASE i = m + 1
    BY <1>1, <1>3, <1>4, <2>1 DEF Ahead
  <2>2. CASE i # m + 1
    <3>1. i \in 1..m
      BY <2>2
    <3>2. values[b + i] \in first[Before(r, i)].targets
      BY <1>1, <3>1 DEF Path
    <3> QED BY <1>3, <1>4, <3>1, <3>2
  <2> QED BY <2>1, <2>2
<1> QED BY <1>3, <1>5 DEF IsPath, path, merged

\* A step of one caller keeps the paths if its call stays on its own.
LEMMA PathStep ==
  ASSUME TypeOK, Paths, NEW c \in Caller, NEW q, Path(first, q), Becomes(c, q),
         first' = first
  PROVE  Paths'
<1>1. \A d \in Caller : run'[d] = IF d = c THEN q ELSE run[d]
  BY DEF TypeOK, Becomes
<1>2. \A d \in Caller : Path(first, run'[d])
  BY <1>1 DEF Paths
<1> QED BY <1>2 DEF Paths, Path, Ahead, Before, MergedBy

\* A call that only goes to another place.
LEMMA GoingKeepsPaths ==
  ASSUME TypeOK, Paths, NEW c \in Caller, NEW pc,
         Becomes(c, [run[c] EXCEPT !.pc = pc]), first' = first,
         pc \notin {"loop", "route"},
         pc \in {"executing", "saving", "interrupted"} => run[c].pc = "executing",
         pc = "done" => Ahead(first, run[c], End)
  PROVE  Paths'
<1> DEFINE q == [run[c] EXCEPT !.pc = pc]
<1>1. q.values = run[c].values /\ q.base = run[c].base /\ q.node = run[c].node /\ q.pc = pc
  BY RunParts DEF Run
<1>2. Becomes(c, q)
  OBVIOUS
<1>3. Path(first, run[c])
  BY DEF Paths
<1> HIDE DEF q
<1>4. run[c].pc = "executing" => Ahead(first, run[c], run[c].node)
  BY <1>3 DEF Path
<1>5. Path(first, q)
  BY <1>1, <1>3, <1>4, PathMoves
<1> QED BY <1>2, <1>5, PathStep

\* Every step of every caller keeps every call on its path.
LEMMA StepsKeepPaths == TypeInv /\ Paths /\ [Next]_vars => Paths'
<1> SUFFICES ASSUME TypeInv, Paths, [Next]_vars PROVE Paths'
  OBVIOUS
<1>t. TypeOK
  BY DEF TypeInv
<1>h. \A i \in DOMAIN history : history[i].values \in Seq(Node)
  <2>1. \A i \in DOMAIN history : history[i] \in Snapshot
    BY <1>t DEF TypeOK
  <2> QED BY <2>1 DEF Snapshot
<1>l. history # <<>> => Last(history).values \in Seq(Node)
  BY <1>t, <1>h DEF Last, TypeOK
<1>e. <<>> \in Seq(Node)
  OBVIOUS
<1>1. ASSUME NEW c \in Caller, Begins(c) PROVE Paths'
  <2>1. ASSUME NEW scoped, NEW parent, NEW values \in Seq(Node), NEW answers,
               Call(c, scoped, parent, values, answers)
        PROVE  Paths'
    <3> DEFINE q == NewRun("loop", calls + 1, scoped, Start, values, parent, answers,
                           run[c].raised)
    <3>1. Path(first, q)
      BY PathBegins
    <3>2. Becomes(c, q) /\ first' = first
      BY <2>1 DEF Call
    <3> HIDE DEF q
    <3> QED BY <1>t, <3>1, <3>2, PathStep
  <2>2. CASE Invoke(c) \/ InvokeState(c)
    BY <1>e, <2>1, <2>2 DEF Invoke, InvokeState
  <2>3. CASE InvokeResume(c) \/ InvokeGoto(c)
    BY <1>l, <2>1, <2>3 DEF InvokeResume, InvokeGoto
  <2>4. ASSUME NEW i \in DOMAIN history, InvokeFork(c, i) PROVE Paths'
    BY <1>h, <2>1, <2>4 DEF InvokeFork
  <2>5. ASSUME NEW i \in DOMAIN history, ReadState(c, i) PROVE Paths'
    <3> DEFINE q == NewRun("updating", calls + 1, FALSE, history[i].next,
                           history[i].values, history[i].id, <<>>, run[c].raised)
    <3>1. Path(first, q)
      BY <1>h, PathBegins
    <3>2. Becomes(c, q) /\ first' = first
      BY <2>5 DEF ReadState
    <3> HIDE DEF q
    <3> QED BY <1>t, <3>1, <3>2, PathStep
  <2> QED BY <1>1, <2>2, <2>3, <2>4, <2>5 DEF Begins
<1>2. ASSUME NEW c \in Caller, Loops(c) PROVE Paths'
  <2>1. ASSUME NEW pc \in {"loop", "executing", "done", "failed"}, NEW n, Iterate(c, pc, n),
               pc = "loop" => n # Start /\ Ahead(first, run[c], n),
               pc = "executing" => Ahead(first, run[c], n),
               pc = "done" => Ahead(first, run[c], End)
        PROVE  Paths'
    <3> DEFINE q == [run[c] EXCEPT !.iterations = @ + 1, !.pc = pc, !.node = n, !.asked = 0]
    <3>1. q.values = run[c].values /\ q.base = run[c].base /\ q.node = n /\ q.pc = pc
      BY <1>t, RunParts DEF Run
    <3>2. Becomes(c, q) /\ first' = first
      BY <2>1 DEF Iterate
    <3>3. Path(first, run[c])
      BY DEF Paths
    <3> HIDE DEF q
    <3>4. Path(first, q)
      BY <2>1, <3>1, <3>3, PathMoves
    <3> QED BY <1>t, <3>2, <3>4, PathStep
  <2>2. run[c].pc = "loop" =>
          IF run[c].node = Start THEN MergedBy(run[c]) = 0 ELSE Ahead(first, run[c], run[c].node)
    BY DEF Paths, Path
  <2>3. CASE IterationLimit(c)
    BY <1>t, <2>3, GoingKeepsPaths DEF IterationLimit, Goes
  <2>4. CASE ReachEnd(c)
    BY <2>1, <2>2, <2>4, NodeAssumption DEF ReachEnd, Iterate, At
  <2>5. CASE NoEdges(c)
    BY <2>1, <2>5 DEF NoEdges
  <2>6. CASE EnterNode(c)
    BY <2>1, <2>2, <2>6, NodeAssumption DEF EnterNode, Iterate, At
  <2>7. CASE LeaveStart(c)
    <3>1. PICK t \in Targets(Start) :
            IF t = NoRoute THEN Iterate(c, "failed", Start) ELSE Iterate(c, "loop", t)
      BY <2>7 DEF LeaveStart
    <3>2. CASE t = NoRoute
      BY <2>1, <3>1, <3>2
    <3>3. CASE t # NoRoute
      <4>1. t \in Node \cup {End}
        BY <1>t, <2>7, <3>3, TargetsAreNodes DEF LeaveStart
      <4>2. t # Start /\ t \in first[Start].targets
        BY <3>3, <4>1, NodeAssumption DEF Targets
      <4>3. MergedBy(run[c]) = 0
        BY <2>2, <2>7, <3>1, <3>3 DEF LeaveStart, Iterate, At
      <4>4. Ahead(first, run[c], t)
        BY <4>2, <4>3 DEF Ahead, Before
      <4> QED BY <2>1, <3>1, <3>3, <4>2, <4>4
    <3> QED BY <3>2, <3>3
  <2> QED BY <1>2, <2>3, <2>4, <2>5, <2>6, <2>7 DEF Loops
<1>3. ASSUME NEW c \in Caller, Executes(c) PROVE Paths'
  <2>p. Path(first, run[c]) /\ run[c] \in Run
    BY <1>t, RunParts DEF Paths
  <2>1. CASE RaiseInterrupt(c) \/ NodeFails(c)
    BY <1>t, <2>1, GoingKeepsPaths DEF RaiseInterrupt, NodeFails, Goes, Asking, At
  <2>2. CASE TakeAnswer(c)
    <3> DEFINE g == [value |-> run[c].answers[Len(run[c].given) + 1], at |-> Here(c)]
               q == [run[c] EXCEPT !.given = Append(@, g), !.asked = @ + 1]
    <3>1. Becomes(c, q) /\ first' = first /\ run[c].pc = "executing"
      BY <2>2 DEF TakeAnswer, Asking, At
    <3> HIDE DEF g
    <3>2. q.values = run[c].values /\ q.base = run[c].base /\ q.node = run[c].node
          /\ q.pc = run[c].pc
      BY <2>p DEF Run
    <3> HIDE DEF q
    <3>3. Ahead(first, run[c], run[c].node)
      BY <2>p, <3>1 DEF Path
    <3>4. Path(first, q)
      BY <2>p, <3>1, <3>2, <3>3, PathMoves
    <3> QED BY <1>t, <3>1, <3>4, PathStep
  <2>3. CASE NodeReturns(c)
    <3> DEFINE q == [run[c] EXCEPT !.values = Append(@, run[c].node), !.asked = 0, !.pc = "route"]
    <3>1. Becomes(c, q) /\ first' = first /\ run[c].pc = "executing"
      BY <2>3 DEF NodeReturns, At
    <3>2. run[c].node \in Node
      BY <3>1 DEF TypeInv, NodeExecutes
    <3>3. q.values = Append(run[c].values, run[c].node) /\ q.base = run[c].base
          /\ q.node = run[c].node /\ q.pc = "route"
      BY <2>p DEF Run
    <3> HIDE DEF q
    <3>4. Path(first, q)
      BY <2>p, <3>1, <3>2, <3>3, PathGrows
    <3> QED BY <1>t, <3>1, <3>4, PathStep
  <2>4. CASE Follow(c)
    <3>0. run[c].pc = "route" /\ run[c].node \in Node \cap Sources(graph)
      BY <2>4 DEF Follow, At, TypeInv, NodeExecutes
    <3>1. PICK t \in Targets(run[c].node) :
            \/ Goes(c, "failed")
            \/ t = End /\ Goes(c, "done")
            \/ /\ t \in Node /\ Becomes(c, [run[c] EXCEPT !.pc = "loop", !.node = t])
               /\ first' = first
      BY <1>t, <2>4, <3>0, TargetsAreNodes, NodeAssumption DEF Follow
    <3>2. t # NoRoute => Ahead(first, run[c], t)
      BY <2>p, <3>0 DEF Path, Ahead, Targets
    <3>3. CASE Goes(c, "failed")
      BY <1>t, <3>3, GoingKeepsPaths DEF Goes
    <3>4. CASE t = End /\ Goes(c, "done")
      BY <1>t, <3>2, <3>4, GoingKeepsPaths, NodeAssumption DEF Goes
    <3>5. CASE /\ t \in Node /\ Becomes(c, [run[c] EXCEPT !.pc = "loop", !.node = t])
               /\ first' = first
      <4> DEFINE q == [run[c] EXCEPT !.pc = "loop", !.node = t]
      <4>1. q.values = run[c].values /\ q.base = run[c].base /\ q.node = t /\ q.pc = "loop"
        BY <2>p DEF Run
      <4>2. Becomes(c, q)
        BY <3>5
      <4> HIDE DEF q
      <4>3. t # Start /\ Ahead(first, run[c], t)
        BY <3>2, <3>5, NodeAssumption
      <4>4. Path(first, q)
        BY <2>p, <4>1, <4>3, PathMoves
      <4> QED BY <1>t, <3>5, <4>2, <4>4, PathStep
    <3> QED BY <3>1, <3>3, <3>4, <3>5
  <2> QED BY <1>3, <2>1, <2>2, <2>3, <2>4 DEF Executes
<1>4. ASSUME NEW c \in Caller, Saves(c) PROVE Paths'
  <2>1. CASE PutFails(c)
    BY <1>t, <2>1, GoingKeepsPaths DEF PutFails
  <2>2. ASSUME At(c, "saving"), first' = first,
               Becomes(c, [run[c] EXCEPT !.pc = "interrupted", !.raised = Here(c)])
        PROVE  Paths'
    <3> DEFINE q == [run[c] EXCEPT !.pc = "interrupted", !.raised = Here(c)]
    <3>1. q.values = run[c].values /\ q.base = run[c].base /\ q.node = run[c].node
          /\ q.pc = "interrupted"
      BY <1>t, RunParts DEF Run
    <3>2. Becomes(c, q)
      BY <2>2
    <3>3. Path(first, run[c]) /\ Ahead(first, run[c], run[c].node)
      BY <2>2 DEF Paths, Path, At
    <3> HIDE DEF q
    <3>4. Path(first, q)
      BY <3>1, <3>3, PathMoves
    <3> QED BY <1>t, <2>2, <3>2, <3>4, PathStep
  <2>3. ASSUME first' = first, Becomes(c, [run[c] EXCEPT !.pc = "updated"]) PROVE Paths'
    BY <1>t, <2>3, GoingKeepsPaths
  <2>4. ASSUME NEW s, Put(s) PROVE first' = first
    BY <2>4 DEF Put
  <2>5. CASE SaveInterrupt(c)
    BY <2>1, <2>2, <2>4, <2>5 DEF SaveInterrupt
  <2>6. ASSUME NEW n \in Node, WriteState(c, n) PROVE Paths'
    BY <2>1, <2>3, <2>4, <2>6 DEF WriteState
  <2>7. SaveInterrupt(c) \/ \E n \in Node : WriteState(c, n)
    BY <1>4 DEF Saves
  <2> QED BY <2>5, <2>6, <2>7
<1>5. ASSUME NEW c \in Caller, Cancel(c) PROVE Paths'
  BY <1>t, <1>5, GoingKeepsPaths DEF Cancel, Goes
<1>6. CASE UNCHANGED vars
  BY <1>6 DEF vars, Paths
<1> QED BY <1>1, <1>2, <1>3, <1>4, <1>5, <1>6 DEF Next

\* Every call is on its path, from its first step to its last.
LEMMA PathsHold == Spec => []Paths
<1>1. Init => Paths
  <2> SUFFICES ASSUME Init, NEW c \in Caller PROVE Path(first, run[c])
    BY DEF Paths
  <2>1. <<>> \in Seq(Node)
    OBVIOUS
  <2>2. run[c] = NewRun("idle", 0, FALSE, Start, <<>>, 0, <<>>, NoInterrupt)
    BY DEF Init
  <2> QED BY <2>1, <2>2, PathBegins
<1> QED BY <1>1, StepsKeepPaths, TypesHold, PTL DEF Spec

(***************************************************************************)
(* The sequential schedule, for any compiled graph, with loops, failing    *)
(* conditions and checkpoints to continue: a call merges the nodes of one  *)
(* path of first edges, in its order, and returns where it leads to END.   *)
(***************************************************************************)
THEOREM CallsFollowEdges == Spec => []RunsFollowEdges
<1>1. TypeInv /\ Paths => RunsFollowEdges
  <2> SUFFICES ASSUME TypeInv, Paths, NEW c \in Caller
               PROVE  /\ run[c].pc \in {"executing", "saving", "interrupted"} =>
                           IsPath(Merged(c), run[c].node)
                      /\ run[c].pc = "done" => IsPath(Merged(c), End)
    BY DEF RunsFollowEdges
  <2>1. TypeOK /\ Path(first, run[c])
    BY DEF TypeInv, Paths
  <2>2. run[c].pc \in {"executing", "saving", "interrupted"} => Ahead(first, run[c], run[c].node)
    BY <2>1 DEF Path
  <2>3. run[c].pc = "done" => Ahead(first, run[c], End)
    BY <2>1 DEF Path
  <2> QED BY <2>1, <2>2, <2>3, PathIsPath
<1> QED BY <1>1, TypesHold, PathsHold, PTL
-------------------------------------------------------------------------------
\* Somebody's checkpoint, or the empty state of a thread without one.
IsBase(saved, id, values) ==
  \/ id = 0 /\ values = <<>>
  \/ \E t \in saved : t.id = id /\ t.values = values

\* What a call began with is still there, and an update's is what it read.
Based(saved, r) ==
  /\ IsBase(saved, r.parent, r.base)
  /\ r.pc = "updating" =>
       /\ r.values = r.base
       /\ \E t \in saved : t.id = r.parent /\ t.values = r.base /\ t.next = r.node

Bases == \A c \in Caller : Based(ToSet(history), run[c])

\* IsPath, with the first edges it is a path of.
Follows(f, nodes, last) ==
  LET path == Append(nodes, last)
  IN  \A i \in DOMAIN path : path[i] \in f[IF i = 1 THEN Start ELSE path[i - 1]].targets

LEMMA FollowsIsPath == \A nodes, last : Follows(first, nodes, last) <=> IsPath(nodes, last)
BY DEF Follows, IsPath

\* What one checkpoint adds to its parent.
Continues(f, saved, s) ==
  \E before \in {t.values : t \in {u \in saved : u.id = s.parent}}
                \cup IF s.parent = 0 THEN {<<>>} ELSE {} :
    LET added == SubSeq(s.values, Len(before) + 1, Len(s.values))
    IN  /\ IsPrefix(before, s.values)
        /\ s.kind = "interrupt" => Follows(f, added, s.next)
        /\ s.kind = "update" =>
             /\ Len(added) = 1
             /\ \E t \in saved : t.id = s.parent /\ t.next = s.next

\* The property, checkpoint by checkpoint.
LEMMA ContinuesIsProperty ==
  CheckpointsContinueParents <=> \A s \in ToSet(history) : Continues(first, ToSet(history), s)
BY FollowsIsPath DEF CheckpointsContinueParents, Continues, ParentValues

\* More checkpoints take nobody's base, nor a checkpoint's parent.
LEMMA MoreIsBase ==
  ASSUME NEW saved, NEW more, saved \subseteq more
  PROVE  /\ \A id, values : IsBase(saved, id, values) => IsBase(more, id, values)
         /\ \A r : Based(saved, r) => Based(more, r)
<1>1. \A id, values : IsBase(saved, id, values) => IsBase(more, id, values)
  BY DEF IsBase
<1> QED BY <1>1 DEF Based

LEMMA MoreContinues ==
  ASSUME NEW f, NEW saved, NEW more, saved \subseteq more, NEW s, Continues(f, saved, s)
  PROVE  Continues(f, more, s)
<1> DEFINE Values(h) == {t.values : t \in {u \in h : u.id = s.parent}}
                        \cup IF s.parent = 0 THEN {<<>>} ELSE {}
<1>1. PICK before \in Values(saved) :
        /\ IsPrefix(before, s.values)
        /\ s.kind = "interrupt" =>
             Follows(f, SubSeq(s.values, Len(before) + 1, Len(s.values)), s.next)
        /\ s.kind = "update" =>
             /\ Len(SubSeq(s.values, Len(before) + 1, Len(s.values))) = 1
             /\ \E t \in saved : t.id = s.parent /\ t.next = s.next
  BY DEF Continues
<1>2. before \in Values(more)
  OBVIOUS
<1>3. s.kind = "update" => \E t \in more : t.id = s.parent /\ t.next = s.next
  BY <1>1
<1> HIDE DEF Values
<1>4. \E b \in Values(more) :
        /\ IsPrefix(b, s.values)
        /\ s.kind = "interrupt" => Follows(f, SubSeq(s.values, Len(b) + 1, Len(s.values)), s.next)
        /\ s.kind = "update" =>
             /\ Len(SubSeq(s.values, Len(b) + 1, Len(s.values))) = 1
             /\ \E t \in more : t.id = s.parent /\ t.next = s.next
  BY <1>1, <1>2, <1>3
<1> QED BY <1>4 DEF Continues, Values

\* A call that goes on keeps its parent and its base.
GoesOn(c, q) ==
  /\ Becomes(c, q)
  /\ q.parent = run[c].parent /\ q.base = run[c].base /\ q.pc # "updating"

\* A step of one caller, with a put or without.
LEMMA BaseStep ==
  ASSUME TypeOK, Bases, NEW c \in Caller, NEW q, Becomes(c, q),
         ToSet(history) \subseteq ToSet(history)', Based(ToSet(history)', q)
  PROVE  Bases'
<1>1. \A d \in Caller : run'[d] = IF d = c THEN q ELSE run[d]
  BY DEF TypeOK, Becomes
<1>2. \A d \in Caller : Based(ToSet(history)', run[d])
  BY MoreIsBase DEF Bases
<1>3. \A d \in Caller : Based(ToSet(history)', run'[d])
  BY <1>1, <1>2
<1> QED BY <1>3 DEF Bases, Based, IsBase

\* A call that goes on has what it began with.
LEMMA GoingOnKeepsBases ==
  ASSUME TypeOK, Bases, NEW c \in Caller, NEW q, GoesOn(c, q),
         ToSet(history) \subseteq ToSet(history)'
  PROVE  Bases'
<1>1. IsBase(ToSet(history), run[c].parent, run[c].base)
  BY DEF Bases, Based
<1>2. Based(ToSet(history)', q)
  BY <1>1, MoreIsBase DEF GoesOn, Based
<1> QED BY <1>2, BaseStep DEF GoesOn

\* A call begins at a checkpoint of the thread, or at none.
LEMMA BeginningsAreBased ==
  ASSUME TypeInv, Bases, NEW c \in Caller, Begins(c)
  PROVE  Bases' /\ history' = history
<1>t. TypeOK
  BY DEF TypeInv
<1>h. \A i \in DOMAIN history : history[i] \in ToSet(history)
  BY DEF ToSet
<1>l. history # <<>> => Last(history) \in ToSet(history)
  <2>1. history # <<>> => Len(history) \in DOMAIN history
    BY <1>t DEF TypeOK
  <2> QED BY <1>h, <2>1 DEF Last
<1>1. ASSUME NEW scoped, NEW parent, NEW values, NEW answers,
             IsBase(ToSet(history), parent, values),
             Call(c, scoped, parent, values, answers)
      PROVE  Bases' /\ history' = history
  <2> DEFINE q == NewRun("loop", calls + 1, scoped, Start, values, parent, answers, run[c].raised)
  <2>1. Becomes(c, q) /\ history' = history
    BY <1>1 DEF Call, thread
  <2>2. q.parent = parent /\ q.base = values /\ q.pc = "loop"
    BY DEF NewRun
  <2> HIDE DEF q
  <2>3. Based(ToSet(history), q)
    BY <1>1, <2>2 DEF Based
  <2>4. ToSet(history) = ToSet(history)'
    BY <2>1
  <2> QED BY <1>t, <2>1, <2>3, <2>4, BaseStep
<1>2. CASE Invoke(c) \/ InvokeState(c)
  <2>1. IsBase(ToSet(history), 0, <<>>)
    BY DEF IsBase
  <2> QED BY <1>1, <1>2, <2>1 DEF Invoke, InvokeState
<1>3. CASE InvokeResume(c) \/ InvokeGoto(c)
  <2>1. IsBase(ToSet(history), Last(history).id, Last(history).values)
    BY <1>l, <1>3 DEF IsBase, InvokeResume, InvokeGoto
  <2> QED BY <1>1, <1>3, <2>1 DEF InvokeResume, InvokeGoto
<1>4. ASSUME NEW i \in DOMAIN history, InvokeFork(c, i)
      PROVE  Bases' /\ history' = history
  <2>1. IsBase(ToSet(history), history[i].id, history[i].values)
    BY <1>h DEF IsBase
  <2> QED BY <1>1, <1>4, <2>1 DEF InvokeFork
<1>5. ASSUME NEW i \in DOMAIN history, ReadState(c, i)
      PROVE  Bases' /\ history' = history
  <2> DEFINE q == NewRun("updating", calls + 1, FALSE, history[i].next, history[i].values,
                         history[i].id, <<>>, run[c].raised)
  <2>1. Becomes(c, q) /\ history' = history
    BY <1>5 DEF ReadState, thread
  <2>2. /\ q.parent = history[i].id /\ q.base = history[i].values
        /\ q.values = history[i].values /\ q.node = history[i].next
    BY DEF NewRun
  <2> HIDE DEF q
  <2>3. Based(ToSet(history), q)
    BY <1>h, <2>2 DEF Based, IsBase
  <2>4. ToSet(history) = ToSet(history)'
    BY <2>1
  <2> QED BY <1>t, <2>1, <2>3, <2>4, BaseStep
<1> QED BY <1>2, <1>3, <1>4, <1>5 DEF Begins

\* Every other step but a put goes on, and leaves the checkpoints alone.
LEMMA OthersGoOn ==
  ASSUME TypeInv, NEW c \in Caller, Loops(c) \/ Executes(c) \/ Cancel(c)
  PROVE  history' = history /\ \E q : GoesOn(c, q)
<1>t. run[c] \in Run
  BY RunParts DEF TypeInv
<1>1. ASSUME NEW pc, pc # "updating", Goes(c, pc)
      PROVE  history' = history /\ \E q : GoesOn(c, q)
  <2> DEFINE q == [run[c] EXCEPT !.pc = pc]
  <2>1. q.parent = run[c].parent /\ q.base = run[c].base /\ q.pc = pc
    BY <1>t DEF Run
  <2>2. Becomes(c, q) /\ history' = history
    BY <1>1 DEF Goes, thread
  <2> HIDE DEF q
  <2> QED BY <1>1, <2>1, <2>2 DEF GoesOn
<1>2. ASSUME NEW pc, pc # "updating", NEW n, Iterate(c, pc, n)
      PROVE  history' = history /\ \E q : GoesOn(c, q)
  <2> DEFINE q == [run[c] EXCEPT !.iterations = @ + 1, !.pc = pc, !.node = n, !.asked = 0]
  <2>1. q.parent = run[c].parent /\ q.base = run[c].base /\ q.pc = pc
    BY <1>t DEF Run
  <2>2. Becomes(c, q) /\ history' = history
    BY <1>2 DEF Iterate, thread
  <2> HIDE DEF q
  <2> QED BY <1>2, <2>1, <2>2 DEF GoesOn
<1>3. CASE Loops(c)
  BY <1>1, <1>2, <1>3 DEF Loops, IterationLimit, ReachEnd, NoEdges, LeaveStart, EnterNode
<1>4. CASE Executes(c)
  <2>1. CASE RaiseInterrupt(c) \/ NodeFails(c)
    BY <1>1, <2>1 DEF RaiseInterrupt, NodeFails
  <2>2. CASE TakeAnswer(c)
    <3> DEFINE g == [value |-> run[c].answers[Len(run[c].given) + 1], at |-> Here(c)]
               q == [run[c] EXCEPT !.given = Append(@, g), !.asked = @ + 1]
    <3>1. Becomes(c, q) /\ history' = history /\ run[c].pc = "executing"
      BY <2>2 DEF TakeAnswer, Asking, At, thread
    <3> HIDE DEF g
    <3>2. q.parent = run[c].parent /\ q.base = run[c].base /\ q.pc = run[c].pc
      BY <1>t DEF Run
    <3> HIDE DEF q
    <3> QED BY <3>1, <3>2 DEF GoesOn
  <2>3. CASE NodeReturns(c)
    <3> DEFINE q == [run[c] EXCEPT !.values = Append(@, run[c].node), !.asked = 0, !.pc = "route"]
    <3>1. Becomes(c, q) /\ history' = history
      BY <2>3 DEF NodeReturns, thread
    <3>2. q.parent = run[c].parent /\ q.base = run[c].base /\ q.pc = "route"
      BY <1>t DEF Run
    <3> HIDE DEF q
    <3> QED BY <3>1, <3>2 DEF GoesOn
  <2>4. CASE Follow(c)
    <3>0. run[c].node \in Sources(graph)
      BY <2>4 DEF Follow, At, TypeInv, NodeExecutes
    <3>1. PICK t \in Targets(run[c].node) :
            \/ Goes(c, "failed") \/ Goes(c, "done")
            \/ Becomes(c, [run[c] EXCEPT !.pc = "loop", !.node = t]) /\ history' = history
      BY <2>4, <3>0, TargetsAreNodes, NodeAssumption DEF Follow, thread, TypeInv
    <3>2. CASE Becomes(c, [run[c] EXCEPT !.pc = "loop", !.node = t]) /\ history' = history
      <4> DEFINE q == [run[c] EXCEPT !.pc = "loop", !.node = t]
      <4>1. q.parent = run[c].parent /\ q.base = run[c].base /\ q.pc = "loop"
        BY <1>t DEF Run
      <4>2. Becomes(c, q)
        BY <3>2
      <4> HIDE DEF q
      <4> QED BY <3>2, <4>1, <4>2 DEF GoesOn
    <3> QED BY <1>1, <3>1, <3>2
  <2> QED BY <1>4, <2>1, <2>2, <2>3, <2>4 DEF Executes
<1>5. CASE Cancel(c)
  BY <1>1, <1>5 DEF Cancel
<1> QED BY <1>3, <1>4, <1>5

\* The sequences of a checkpoint and of its parent.
LEMMA BaseIsPrefix ==
  ASSUME NEW r \in Run, NEW f, Path(f, r)
  PROVE  IsPrefix(r.base, r.values)
<1> DEFINE base == r.base
           values == r.values
<1>1. base \in Seq(Node) /\ values \in Seq(Node)
  BY DEF Run
<1>2. MergedBy(r) \in Nat /\ MergedBy(r) = Len(values) - Len(base)
      /\ \A i \in 1..Len(base) : values[i] = base[i]
  BY DEF Path, MergedBy
<1> HIDE DEF base, values
<1>3. Len(base) <= Len(values) /\ Len(base) \in Nat /\ Len(values) \in Nat
  BY <1>1, <1>2
<1>4. /\ SubSeq(base, 1, Len(base)) = [i \in 1..Len(base) |-> base[i]]
      /\ SubSeq(values, 1, Len(base)) = [i \in 1..Len(base) |-> values[i]]
  BY <1>1, <1>3
<1>5. IsPrefix(base, values)
  BY <1>2, <1>3, <1>4 DEF IsPrefix
<1> QED BY <1>5 DEF base, values

\* An update adds one message to what it read.
LEMMA UpdateIsOneMore ==
  ASSUME NEW values \in Seq(Node), NEW n \in Node
  PROVE  /\ IsPrefix(values, Append(values, n))
         /\ Len(SubSeq(Append(values, n), Len(values) + 1, Len(Append(values, n)))) = 1
<1> DEFINE more == Append(values, n)
<1>1. PICK m \in Nat : m = Len(values)
  OBVIOUS
<1>2. more \in Seq(Node) /\ Len(more) = m + 1 /\ \A i \in 1..m : more[i] = values[i]
  BY <1>1
<1> HIDE DEF more
<1>3. SubSeq(values, 1, m) = SubSeq(more, 1, m)
  <2>1. SubSeq(values, 1, m) = [i \in 1..m |-> values[i]]
    BY <1>1
  <2>2. SubSeq(more, 1, m) = [i \in 1..m |-> more[i]]
    BY <1>2
  <2> QED BY <1>2, <2>1, <2>2
<1>4. Len(SubSeq(more, m + 1, m + 1)) = 1
  <2>1. \A i \in (m + 1)..(m + 1) : more[i] \in Node
    BY <1>2
  <2>2. m + 1 \in Int
    OBVIOUS
  <2>3. Len(SubSeq(more, m + 1, m + 1)) =
          IF m + 1 <= m + 1 THEN (m + 1) - (m + 1) + 1 ELSE 0
    BY ONLY <2>1, <2>2, SubSeqProperties
  <2> QED BY <2>3
<1>5. IsPrefix(values, more)
  BY <1>1, <1>2, <1>3 DEF IsPrefix
<1> QED BY <1>1, <1>2, <1>4, <1>5 DEF more

\* What is put continues the checkpoint the call began with.
LEMMA PutsContinue ==
  ASSUME TypeInv, Paths, Bases, NEW c \in Caller, NEW s,
         \/ At(c, "saving") /\ s = InterruptSnapshot(c)
         \/ At(c, "updating") /\ \E n \in Node : s = UpdateSnapshot(c, n)
  PROVE  s \in Snapshot /\ Continues(first, ToSet(history), s)
<1> DEFINE r == run[c]
           saved == ToSet(history)
<1>1. TypeOK /\ r \in Run /\ Path(first, r) /\ Based(saved, r) /\ made + 1 \in Nat
  BY RunParts DEF TypeInv, TypeOK, Paths, Bases
<1>2. /\ r.values \in Seq(Node) /\ r.base \in Seq(Node) /\ r.parent \in Nat /\ r.call \in Nat
  BY <1>1 DEF Run
<1>3. r.base \in {t.values : t \in {u \in saved : u.id = r.parent}}
                   \cup IF r.parent = 0 THEN {<<>>} ELSE {}
  BY <1>1 DEF Based, IsBase
<1>4. CASE At(c, "saving") /\ s = InterruptSnapshot(c)
  <2>1. r.node \in Node /\ Ahead(first, r, r.node)
    BY <1>1, <1>4 DEF At, TypeInv, NodeExecutes, Path
  <2>2. /\ s.values = r.values /\ s.next = r.node /\ s.parent = r.parent
        /\ s.kind = "interrupt" /\ s \in Snapshot
    BY <1>1, <1>2, <1>4, <2>1 DEF InterruptSnapshot, Snapshot
  <2>3. IsPath(Merged(c), r.node)
    BY <1>1, <2>1, PathIsPath
  <2>4. Follows(first, SubSeq(r.values, Len(r.base) + 1, Len(r.values)), r.node)
    BY <2>3, FollowsIsPath DEF Merged
  <2>5. IsPrefix(r.base, r.values)
    BY <1>1, BaseIsPrefix
  <2> QED BY <1>3, <2>2, <2>4, <2>5 DEF Continues
<1>5. ASSUME NEW n \in Node, At(c, "updating"), s = UpdateSnapshot(c, n)
      PROVE  s \in Snapshot /\ Continues(first, saved, s)
  <2>1. r.values = r.base /\ \E t \in saved : t.id = r.parent /\ t.next = r.node
    BY <1>1, <1>5 DEF At, Based
  <2>2. r.node \in Node
    BY <1>5 DEF At, TypeInv, NodeExecutes
  <2>3. /\ s.values = Append(r.values, n) /\ s.next = r.node /\ s.parent = r.parent
        /\ s.kind = "update"
    BY <1>5 DEF UpdateSnapshot
  <2>4. s \in Snapshot
    <3>1. Append(r.values, n) \in Seq(Node)
      BY <1>2
    <3> QED BY <1>1, <1>2, <1>5, <2>2, <3>1 DEF UpdateSnapshot, Snapshot
  <2>5. /\ IsPrefix(r.base, s.values)
        /\ Len(SubSeq(s.values, Len(r.base) + 1, Len(s.values))) = 1
    BY <1>2, <2>1, <2>3, UpdateIsOneMore
  <2> QED BY <1>3, <2>1, <2>3, <2>4, <2>5 DEF Continues
<1> QED BY <1>4, <1>5

\* A put that continues its parent leaves the others continuing theirs.
LEMMA PutKeepsContinuing ==
  ASSUME TypeOK, Bases, \A s \in ToSet(history) : Continues(first, ToSet(history), s),
         NEW new \in Snapshot, Continues(first, ToSet(history), new), Put(new),
         NEW c \in Caller, NEW q, GoesOn(c, q)
  PROVE  Bases' /\ \A s \in ToSet(history)' : Continues(first, ToSet(history)', s)
<1>1. ToSet(history) \subseteq ToSet(history)'
  BY PutKeeps
<1>2. \A s \in ToSet(history)' : s \in ToSet(history) \/ s = new
  <2>1. history \in Seq(Snapshot) /\ history' = Append(history, new)
    BY DEF TypeOK, Put
  <2>2. \A i \in DOMAIN history' : history'[i] = new \/ (i \in DOMAIN history /\ history'[i] = history[i])
    BY <2>1
  <2> QED BY <2>2 DEF ToSet
<1>3. \A s \in ToSet(history)' : Continues(first, ToSet(history)', s)
  BY <1>1, <1>2, MoreContinues
<1> QED BY <1>1, <1>3, GoingOnKeepsBases

\* Every step keeps the bases of the calls and the parents of the checkpoints.
LEMMA StepsContinue ==
  ASSUME TypeInv, Paths, Bases, \A s \in ToSet(history) : Continues(first, ToSet(history), s),
         first' = first, [Next]_vars
  PROVE  Bases' /\ \A s \in ToSet(history)' : Continues(first, ToSet(history)', s)
<1>t. TypeOK
  BY DEF TypeInv
<1>0. ASSUME history' = history
      PROVE  /\ ToSet(history)' = ToSet(history)
             /\ \A s \in ToSet(history)' : Continues(first, ToSet(history)', s)
  BY <1>0
<1>1. ASSUME NEW c \in Caller, Begins(c)
      PROVE  Bases' /\ \A s \in ToSet(history)' : Continues(first, ToSet(history)', s)
  BY <1>0, <1>1, BeginningsAreBased
<1>2. ASSUME NEW c \in Caller, NEW q, GoesOn(c, q), history' = history
      PROVE  Bases' /\ \A s \in ToSet(history)' : Continues(first, ToSet(history)', s)
  BY <1>t, <1>0, <1>2, GoingOnKeepsBases
<1>3. ASSUME NEW c \in Caller, Loops(c) \/ Executes(c) \/ Cancel(c)
      PROVE  Bases' /\ \A s \in ToSet(history)' : Continues(first, ToSet(history)', s)
  BY <1>2, <1>3, OthersGoOn
<1>4. ASSUME NEW c \in Caller, Saves(c)
      PROVE  Bases' /\ \A s \in ToSet(history)' : Continues(first, ToSet(history)', s)
  <2>0. run[c] \in Run
    BY <1>t, RunParts
  <2>1. ASSUME NEW pc, pc # "updating", Becomes(c, [run[c] EXCEPT !.pc = pc])
        PROVE  GoesOn(c, [run[c] EXCEPT !.pc = pc])
    <3>1. [run[c] EXCEPT !.pc = pc].parent = run[c].parent
          /\ [run[c] EXCEPT !.pc = pc].base = run[c].base /\ [run[c] EXCEPT !.pc = pc].pc = pc
      BY <2>0 DEF Run
    <3> QED BY <2>1, <3>1 DEF GoesOn
  <2>2. CASE PutFails(c)
    BY <1>2, <2>1, <2>2 DEF PutFails
  <2>3. ASSUME At(c, "saving"), Put(InterruptSnapshot(c)),
               Becomes(c, [run[c] EXCEPT !.pc = "interrupted", !.raised = Here(c)])
        PROVE  Bases' /\ \A s \in ToSet(history)' : Continues(first, ToSet(history)', s)
    <3> DEFINE q == [run[c] EXCEPT !.pc = "interrupted", !.raised = Here(c)]
               new == InterruptSnapshot(c)
    <3>1. q.parent = run[c].parent /\ q.base = run[c].base /\ q.pc = "interrupted"
      BY <2>0 DEF Run
    <3>2. Becomes(c, q)
      BY <2>3
    <3> HIDE DEF q
    <3>3. GoesOn(c, q)
      BY <3>1, <3>2 DEF GoesOn
    <3>4. new \in Snapshot /\ Continues(first, ToSet(history), new)
      BY <2>3, PutsContinue
    <3> QED BY <1>t, <2>3, <3>3, <3>4, PutKeepsContinuing
  <2>4. ASSUME NEW n \in Node, At(c, "updating"), Put(UpdateSnapshot(c, n)),
               Becomes(c, [run[c] EXCEPT !.pc = "updated"])
        PROVE  Bases' /\ \A s \in ToSet(history)' : Continues(first, ToSet(history)', s)
    <3> DEFINE new == UpdateSnapshot(c, n)
    <3>1. new \in Snapshot /\ Continues(first, ToSet(history), new)
      BY <2>4, PutsContinue
    <3>2. GoesOn(c, [run[c] EXCEPT !.pc = "updated"])
      BY <2>1, <2>4
    <3> QED BY <1>t, <2>4, <3>1, <3>2, PutKeepsContinuing
  <2> QED BY <1>4, <2>2, <2>3, <2>4 DEF Saves, SaveInterrupt, WriteState
<1>5. CASE UNCHANGED vars
  <2>1. history' = history /\ run' = run
    BY <1>5 DEF vars, thread
  <2> QED BY <1>0, <2>1 DEF Bases, Based, IsBase
<1> QED BY <1>1, <1>3, <1>4, <1>5 DEF Next

\* The graph is compiled once.
LEMMA FirstStays == TypeInv /\ [Next]_vars => first' = first
<1> SUFFICES ASSUME TypeInv, [Next]_vars PROVE first' = first
  OBVIOUS
<1>1. ASSUME NEW c \in Caller, Begins(c) PROVE first' = first
  BY <1>1 DEF Begins, Invoke, InvokeState, InvokeFork, InvokeResume, InvokeGoto, ReadState, Call
<1>2. ASSUME NEW c \in Caller, Loops(c) PROVE first' = first
  BY <1>2 DEF Loops, IterationLimit, ReachEnd, NoEdges, LeaveStart, EnterNode, Iterate, Goes
<1>3. ASSUME NEW c \in Caller, Executes(c) PROVE first' = first
  <2>1. CASE TakeAnswer(c) \/ RaiseInterrupt(c) \/ NodeFails(c) \/ NodeReturns(c)
    BY <2>1 DEF TakeAnswer, RaiseInterrupt, NodeFails, NodeReturns, Goes
  <2>2. CASE Follow(c)
    <3>1. run[c].node \in Sources(graph)
      BY <2>2 DEF Follow, At, TypeInv, NodeExecutes
    <3>2. PICK t \in Targets(run[c].node) :
            Goes(c, "failed") \/ Goes(c, "done") \/ first' = first
      BY <2>2, <3>1, TargetsAreNodes, NodeAssumption DEF Follow, TypeInv
    <3>3. Goes(c, "failed") => first' = first
      BY DEF Goes
    <3>4. Goes(c, "done") => first' = first
      BY DEF Goes
    <3> QED BY <3>2, <3>3, <3>4
  <2> QED BY <1>3, <2>1, <2>2 DEF Executes
<1>4. ASSUME NEW c \in Caller, Saves(c) \/ Cancel(c) PROVE first' = first
  BY <1>4 DEF Saves, SaveInterrupt, WriteState, Put, PutFails, Cancel, Goes
<1>5. CASE UNCHANGED vars
  BY <1>5 DEF vars
<1> QED BY <1>1, <1>2, <1>3, <1>4, <1>5 DEF Next

(***************************************************************************)
(* Whatever other callers put in between, a checkpoint continues its       *)
(* parent: an interrupt's with a path of first edges from START, an        *)
(* update's with one message; in any graph, with any number of calls.      *)
(***************************************************************************)
THEOREM CheckpointsHaveTheirParents == Spec => []CheckpointsContinueParents
<1> DEFINE All == \A s \in ToSet(history) : Continues(first, ToSet(history), s)
<1>1. Init => Bases /\ All
  <2> SUFFICES ASSUME Init PROVE Bases /\ All
    OBVIOUS
  <2>1. history = <<>> /\ ToSet(history) = {}
    BY DEF Init, ToSet
  <2>2. ASSUME NEW c \in Caller PROVE Based(ToSet(history), run[c])
    <3>1. run[c] = NewRun("idle", 0, FALSE, Start, <<>>, 0, <<>>, NoInterrupt)
      BY DEF Init
    <3> QED BY <3>1 DEF NewRun, Based, IsBase
  <2> QED BY <2>1, <2>2 DEF Bases
<1>2. TypeInv /\ Paths /\ Bases /\ All /\ [Next]_vars => Bases' /\ All'
  <2> SUFFICES ASSUME TypeInv, Paths, Bases, All, [Next]_vars PROVE Bases' /\ All'
    OBVIOUS
  <2>1. first' = first
    BY FirstStays
  <2>2. Bases' /\ \A s \in ToSet(history)' : Continues(first, ToSet(history)', s)
    BY <2>1, StepsContinue
  <2> QED BY <2>1, <2>2
<1>3. All => CheckpointsContinueParents
  BY ContinuesIsProperty
<1> QED BY <1>1, <1>2, <1>3, TypesHold, PathsHold, PTL DEF Spec
-------------------------------------------------------------------------------
\* AsksOf, for asks a.
Total(a, nodes) ==
  LET upto[i \in 0..Len(nodes)] == IF i = 0 THEN 0 ELSE upto[i - 1] + a[nodes[i]]
  IN  upto[Len(nodes)]

\* f adds up what the nodes ask.
Adds(f, a, nodes) ==
  /\ f \in [0..Len(nodes) -> Nat] /\ f[0] = 0
  /\ \A i \in 1..Len(nodes) : f[i] = f[i - 1] + a[nodes[i]]

\* The nodes of a path ask as often as they are added up to.
LEMMA TotalAdds ==
  ASSUME NEW a \in [Node -> Nat], NEW nodes \in Seq(Node)
  PROVE  \E f : Adds(f, a, nodes) /\ Total(a, nodes) = f[Len(nodes)]
<1> DEFINE n == Len(nodes)
           D == Nat
           step == [i \in Nat |-> [k \in D |-> k + IF i + 1 \in 1..n THEN a[nodes[i + 1]] ELSE 0]]
<1>0. n \in Nat /\ \A i \in 1..n : nodes[i] \in Node /\ a[nodes[i]] \in Nat
  OBVIOUS
<1> HIDE DEF n
<1>1. 0 \in D /\ step \in [Nat -> [D -> D]]
  BY <1>0
<1>2. \A i \in Nat, k \in D : i + 1 \in 1..n => step[i][k] = k + a[nodes[i + 1]]
  OBVIOUS
<1> HIDE DEF D, step
<1>3. PICK h : Recurs(h, D, 0, step)
  BY <1>1, NatRecursion
<1>4. h \in [Nat -> Nat] /\ h[0] = 0 /\ \A i \in Nat : h[i + 1] = step[i][h[i]]
  BY <1>3 DEF Recurs, D
<1>5. ASSUME NEW i \in 1..n
      PROVE  h[i] = h[i - 1] + a[nodes[i]]
  <2>1. i - 1 \in Nat /\ (i - 1) + 1 = i
    OBVIOUS
  <2>2. h[(i - 1) + 1] = step[i - 1][h[i - 1]] /\ h[i - 1] \in D
    BY <1>4, <2>1 DEF D
  <2> QED BY <1>2, <2>1, <2>2
<1> DEFINE Def(e) == [i \in 0..n |-> IF i = 0 THEN 0 ELSE e[i - 1] + a[nodes[i]]]
           f == [i \in 0..n |-> h[i]]
           upto == CHOOSE e : e = Def(e)
<1>6. f = Def(f)
  <2>1. ASSUME NEW i \in 0..n
        PROVE  h[i] = IF i = 0 THEN 0 ELSE f[i - 1] + a[nodes[i]]
    <3>1. i # 0 => i \in 1..n /\ i - 1 \in 0..n
      BY <1>0
    <3> QED BY <1>4, <1>5, <3>1
  <2> QED BY <2>1
<1> HIDE DEF Def, f
<1>7. upto = Def(upto)
  BY <1>6
<1> HIDE DEF upto
<1>8. Adds(upto, a, nodes)
  <2> DEFINE A == {i \in Nat : i \in 0..n => upto[i] = h[i]}
  <2>1. ASSUME NEW i \in 0..n
        PROVE  upto[i] = IF i = 0 THEN 0 ELSE upto[i - 1] + a[nodes[i]]
    BY <1>7 DEF Def
  <2>2. 0 \in A
    BY <1>0, <1>4, <2>1
  <2>3. ASSUME NEW i \in Nat, i \in A
        PROVE  i + 1 \in A
    <3> SUFFICES ASSUME i + 1 \in 0..n
                 PROVE  upto[i + 1] = h[i + 1]
      OBVIOUS
    <3>1. i \in 0..n /\ i + 1 \in 1..n /\ i + 1 # 0 /\ (i + 1) - 1 = i
      BY <1>0
    <3>2. upto[i + 1] = upto[i] + a[nodes[i + 1]]
      BY <2>1, <3>1
    <3>3. h[i + 1] = h[i] + a[nodes[i + 1]]
      BY <1>5, <3>1
    <3> QED BY <2>3, <3>1, <3>2, <3>3
  <2> HIDE DEF A
  <2>4. Nat \subseteq A
    BY <2>2, <2>3, NatSetInduction
  <2>5. \A i \in 0..n : upto[i] = h[i] /\ h[i] \in Nat
    BY <1>0, <1>4, <2>4 DEF A
  <2>6. upto = [i \in 0..n |-> upto[i]]
    BY <1>7 DEF Def
  <2>7. upto \in [0..n -> Nat]
    BY <2>5, <2>6
  <2>8. upto[0] = 0
    BY <1>0, <2>1
  <2>9. \A i \in 1..n : upto[i] = upto[i - 1] + a[nodes[i]]
    BY <2>1
  <2> QED BY <2>7, <2>8, <2>9 DEF Adds, n
<1>9. Total(a, nodes) = upto[n]
  BY DEF Total, upto, Def, n
<1> QED BY <1>8, <1>9 DEF n

\* No nodes ask nothing, and one more asks what it asks.
LEMMA TotalOfNone ==
  ASSUME NEW a \in [Node -> Nat]
  PROVE  Total(a, <<>>) = 0
<1>1. <<>> \in Seq(Node) /\ Len(<<>>) = 0
  OBVIOUS
<1>2. PICK f : Adds(f, a, <<>>) /\ Total(a, <<>>) = f[Len(<<>>)]
  BY <1>1, TotalAdds
<1> QED BY <1>1, <1>2 DEF Adds

LEMMA TotalOfMore ==
  ASSUME NEW a \in [Node -> Nat], NEW nodes \in Seq(Node), NEW node \in Node
  PROVE  /\ Total(a, nodes) \in Nat
         /\ Total(a, Append(nodes, node)) = Total(a, nodes) + a[node]
<1> DEFINE n == Len(nodes)
           more == Append(nodes, node)
<1>1. /\ n \in Nat /\ more \in Seq(Node) /\ Len(more) = n + 1 /\ more[n + 1] = node
      /\ \A i \in 1..n : more[i] = nodes[i]
  OBVIOUS
<1>2. PICK f : Adds(f, a, nodes) /\ Total(a, nodes) = f[n]
  BY TotalAdds
<1> HIDE DEF more
<1>3. PICK g : Adds(g, a, more) /\ Total(a, more) = g[n + 1]
  BY <1>1, TotalAdds
<1> HIDE DEF n
<1> DEFINE A == {i \in Nat : i <= n => f[i] = g[i]}
<1>4. \A i \in 1..n : f[i] = f[i - 1] + a[nodes[i]]
  BY <1>2 DEF Adds, n
<1>5. \A i \in 1..(n + 1) : g[i] = g[i - 1] + a[more[i]]
  BY <1>1, <1>3 DEF Adds
<1>6. 0 \in A
  BY <1>2, <1>3 DEF Adds
<1>7. ASSUME NEW i \in Nat, i \in A
      PROVE  i + 1 \in A
  <2> SUFFICES ASSUME i + 1 <= n
               PROVE  f[i + 1] = g[i + 1]
    OBVIOUS
  <2>1. i + 1 \in 1..n /\ i + 1 \in 1..(n + 1) /\ (i + 1) - 1 = i /\ i <= n
    BY <1>1
  <2>2. f[i + 1] = f[i] + a[nodes[i + 1]]
    BY <1>4, <2>1
  <2>3. g[i + 1] = g[i] + a[more[i + 1]]
    BY <1>5, <2>1
  <2> QED BY <1>1, <1>7, <2>1, <2>2, <2>3
<1> HIDE DEF A
<1>8. Nat \subseteq A
  BY <1>6, <1>7, NatSetInduction
<1>9. f[n] = g[n] /\ f[n] \in Nat
  <2>1. f[n] = g[n]
    BY <1>1, <1>8 DEF A
  <2>2. n \in 0..n
    BY <1>1
  <2> QED BY <1>2, <2>1, <2>2 DEF Adds, n
<1>10. g[n + 1] = g[n] + a[node]
  <2>1. n + 1 \in 1..(n + 1) /\ (n + 1) - 1 = n
    BY <1>1
  <2> QED BY <1>1, <1>5, <2>1
<1> QED BY <1>2, <1>3, <1>9, <1>10 DEF more, n

LEMMA TotalIsAsks == \A nodes : Total(asks, nodes) = AsksOf(nodes)
BY DEF Total, AsksOf

\* What a call merged.
MergedNodes(r) == SubSeq(r.values, Len(r.base) + 1, Len(r.values))

\* Between two nodes nothing is asked, and in one at most what it asks: with these
\* the property is inductive.
Answered(a, r) ==
  /\ Total(a, MergedNodes(r)) + r.asked = Len(r.given)
  /\ Len(r.given) <= Len(r.answers)
  /\ r.pc \in {"saving", "interrupted", "panicked"} => Len(r.given) = Len(r.answers)
  /\ r.pc \in {"loop", "route"} => r.asked = 0
  /\ r.pc = "executing" => r.asked <= a[r.node]

AllAnswered == \A c \in Caller : Answered(asks, run[c])

\* A call that goes elsewhere with what it was given.
LEMMA AnsweredMoves ==
  ASSUME NEW a, NEW r, NEW q, Answered(a, r),
         q.values = r.values, q.base = r.base, q.asked = r.asked,
         q.given = r.given, q.answers = r.answers,
         q.pc \in {"saving", "interrupted", "panicked"} => Len(r.given) = Len(r.answers),
         q.pc \in {"loop", "route"} => r.asked = 0,
         q.pc = "executing" => r.asked <= a[q.node]
  PROVE  Answered(a, q)
<1>1. MergedNodes(q) = MergedNodes(r)
  BY DEF MergedNodes
<1> QED BY <1>1 DEF Answered

\* A call that begins was given nothing.
LEMMA AnsweredBegins ==
  ASSUME NEW a \in [Node -> Nat], NEW pc \in {"idle", "loop", "updating"}, NEW id, NEW scoped,
         NEW node, NEW values \in Seq(Node), NEW parent, NEW answers \in Seq(Interrupt),
         NEW raised
  PROVE  Answered(a, NewRun(pc, id, scoped, node, values, parent, answers, raised))
<1> DEFINE r == NewRun(pc, id, scoped, node, values, parent, answers, raised)
<1>1. /\ r.pc = pc /\ r.values = values /\ r.base = values /\ r.asked = 0
      /\ r.given = <<>> /\ r.answers = answers
  BY DEF NewRun
<1> HIDE DEF r
<1>2. MergedNodes(r) = <<>>
  <2>1. Len(values) \in Nat
    OBVIOUS
  <2>2. Len(values) + 1 \in Int /\ Len(values) \in Int /\ Len(values) < Len(values) + 1
    BY <2>1
  <2> QED BY <1>1, <2>2, SubSeqEmpty DEF MergedNodes
<1>3. Len(r.given) = 0 /\ Len(r.answers) \in Nat
  BY <1>1
<1>4. Answered(a, r)
  BY <1>1, <1>2, <1>3, TotalOfNone DEF Answered
<1> QED BY <1>4 DEF r

\* A node that returns was answered all that it asks.
LEMMA AnsweredGrows ==
  ASSUME NEW a \in [Node -> Nat], NEW r \in Run, NEW q, Answered(a, r), MergedBy(r) \in Nat,
         r.pc = "executing", r.node \in Node, ~(r.asked < a[r.node]),
         q.values = Append(r.values, r.node), q.base = r.base, q.asked = 0,
         q.given = r.given, q.answers = r.answers, q.pc = "route"
  PROVE  Answered(a, q)
<1> DEFINE values == r.values
           m == MergedNodes(r)
<1>0. values \in Seq(Node) /\ r.base \in Seq(Node) /\ r.asked \in Nat
  BY DEF Run
<1>1. PICK b \in Nat, n \in Nat : b = Len(r.base) /\ n = Len(values) /\ b <= n
  <2>1. Len(r.base) \in Nat /\ Len(values) \in Nat
    BY <1>0
  <2>2. Len(values) - Len(r.base) \in Nat
    BY DEF MergedBy
  <2> HIDE DEF values
  <2> QED BY <2>1, <2>2
<1>2. m \in Seq(Node) /\ MergedNodes(q) = Append(m, r.node)
  <2>1. b <= Len(values)
    BY <1>1
  <2>2. m = SubSeq(values, b + 1, Len(values))
    BY <1>1 DEF MergedNodes
  <2>3. MergedNodes(q)
          = SubSeq(Append(values, r.node), b + 1, Len(Append(values, r.node)))
    BY <1>1 DEF MergedNodes
  <2> HIDE DEF m, values
  <2>4. SubSeq(values, b + 1, Len(values)) \in Seq(Node)
    BY <1>0, <2>1, RestOfSeq
  <2>5. SubSeq(Append(values, r.node), b + 1, Len(Append(values, r.node)))
          = Append(SubSeq(values, b + 1, Len(values)), r.node)
    BY <1>0, <2>1, RestGrows
  <2> QED BY <2>2, <2>3, <2>4, <2>5
<1> HIDE DEF m, values
<1>4. Total(a, m) \in Nat /\ Total(a, Append(m, r.node)) = Total(a, m) + a[r.node]
  BY <1>2, TotalOfMore
<1>5. r.asked = a[r.node]
  BY <1>0 DEF Answered
<1>6. Total(a, m) + r.asked = Len(r.given) /\ Len(r.given) <= Len(r.answers)
  BY DEF Answered, m
<1> QED BY <1>2, <1>4, <1>5, <1>6 DEF Answered

\* A step of one caller keeps the answers spent if it spends its own.
LEMMA AnsweredStep ==
  ASSUME TypeOK, AllAnswered, NEW c \in Caller, NEW q, Answered(asks, q), Becomes(c, q),
         asks' = asks
  PROVE  AllAnswered'
<1>1. \A d \in Caller : run'[d] = IF d = c THEN q ELSE run[d]
  BY DEF TypeOK, Becomes
<1>2. \A d \in Caller : Answered(asks, run'[d])
  BY <1>1 DEF AllAnswered
<1>3. \A r : Answered(asks, r) => Answered(asks', r)
  OBVIOUS
<1> QED BY <1>2, <1>3 DEF AllAnswered

\* A call that only goes to another place.
LEMMA GoingKeepsAnswers ==
  ASSUME TypeOK, AllAnswered, NEW c \in Caller, NEW pc,
         Becomes(c, [run[c] EXCEPT !.pc = pc]), asks' = asks,
         pc \notin {"loop", "route", "executing"},
         pc \in {"saving", "interrupted", "panicked"} =>
           Len(run[c].given) = Len(run[c].answers)
  PROVE  AllAnswered'
<1> DEFINE q == [run[c] EXCEPT !.pc = pc]
<1>1. /\ q.values = run[c].values /\ q.base = run[c].base /\ q.asked = run[c].asked
      /\ q.given = run[c].given /\ q.answers = run[c].answers /\ q.pc = pc
  BY RunParts DEF Run
<1>2. Becomes(c, q) /\ Answered(asks, run[c])
  BY DEF AllAnswered
<1> HIDE DEF q
<1>3. Answered(asks, q)
  BY <1>1, <1>2, AnsweredMoves
<1> QED BY <1>2, <1>3, AnsweredStep

\* A call that ends without an interrupt, whatever it was given.
LEMMA EndingKeepsAnswers ==
  ASSUME TypeOK, AllAnswered, NEW c \in Caller, NEW pc \in {"failed", "done", "idle", "updated"},
         Becomes(c, [run[c] EXCEPT !.pc = pc]), asks' = asks
  PROVE  AllAnswered'
<1>1. pc \notin {"loop", "route", "executing", "saving", "interrupted", "panicked"}
  OBVIOUS
<1> QED BY <1>1, GoingKeepsAnswers

\* A call begins with answers to give, and has given none.
LEMMA BeginningsGiveNone ==
  ASSUME TypeOK, AllAnswered, asks \in [Node -> Nat], NEW c \in Caller, Begins(c)
  PROVE  AllAnswered'
<1>h. \A i \in DOMAIN history : history[i].values \in Seq(Node)
  <2>1. \A i \in DOMAIN history : history[i] \in Snapshot
    BY DEF TypeOK
  <2> QED BY <2>1 DEF Snapshot
<1>l. history # <<>> => Last(history).values \in Seq(Node)
  BY <1>h DEF Last, TypeOK
<1>e. <<>> \in Seq(Node) /\ <<>> \in Seq(Interrupt)
  OBVIOUS
<1>1. ASSUME NEW scoped, NEW parent, NEW values \in Seq(Node), NEW answers \in Seq(Interrupt),
             Call(c, scoped, parent, values, answers)
      PROVE  AllAnswered'
  <2> DEFINE q == NewRun("loop", calls + 1, scoped, Start, values, parent, answers, run[c].raised)
  <2>1. Answered(asks, q)
    BY AnsweredBegins
  <2>2. Becomes(c, q) /\ asks' = asks
    BY <1>1 DEF Call
  <2> HIDE DEF q
  <2> QED BY <2>1, <2>2, AnsweredStep
<1>2. CASE Invoke(c) \/ InvokeState(c)
  BY <1>e, <1>1, <1>2 DEF Invoke, InvokeState
<1>3. CASE InvokeResume(c)
  <2>1. <<run[c].raised>> \in Seq(Interrupt)
    BY RunParts
  <2> QED BY <1>l, <1>1, <1>3, <2>1 DEF InvokeResume
<1>4. CASE InvokeGoto(c)
  BY <1>e, <1>l, <1>1, <1>4 DEF InvokeGoto
<1>5. ASSUME NEW i \in DOMAIN history, InvokeFork(c, i)
      PROVE  AllAnswered'
  BY <1>e, <1>h, <1>1, <1>5 DEF InvokeFork
<1>6. ASSUME NEW i \in DOMAIN history, ReadState(c, i)
      PROVE  AllAnswered'
  <2> DEFINE q == NewRun("updating", calls + 1, FALSE, history[i].next, history[i].values,
                         history[i].id, <<>>, run[c].raised)
  <2>1. Answered(asks, q)
    BY <1>e, <1>h, AnsweredBegins
  <2>2. Becomes(c, q) /\ asks' = asks
    BY <1>6 DEF ReadState
  <2> HIDE DEF q
  <2> QED BY <2>1, <2>2, AnsweredStep
<1> QED BY <1>2, <1>3, <1>4, <1>5, <1>6 DEF Begins

\* A round of the loop asks nothing, and the node it enters has not asked yet.
LEMMA LoopsGiveNone ==
  ASSUME TypeInv, AllAnswered, asks \in [Node -> Nat], NEW c \in Caller, Loops(c)
  PROVE  AllAnswered'
<1>t. TypeOK /\ run[c] \in Run /\ Answered(asks, run[c])
  BY RunParts DEF TypeInv, AllAnswered
<1>1. ASSUME NEW pc \in {"loop", "executing", "done", "failed"}, NEW n, Iterate(c, pc, n),
             pc = "executing" => n \in Node
      PROVE  AllAnswered'
  <2> DEFINE q == [run[c] EXCEPT !.iterations = @ + 1, !.pc = pc, !.node = n, !.asked = 0]
  <2>1. run[c].pc = "loop" /\ run[c].asked = 0
    BY <1>t, <1>1 DEF Iterate, At, Answered
  <2>2. /\ q.values = run[c].values /\ q.base = run[c].base /\ q.asked = run[c].asked
        /\ q.given = run[c].given /\ q.answers = run[c].answers /\ q.pc = pc /\ q.node = n
    BY <1>t, <2>1 DEF Run
  <2>3. Becomes(c, q) /\ asks' = asks
    BY <1>1 DEF Iterate
  <2> HIDE DEF q
  <2>4. Answered(asks, q)
    BY <1>t, <1>1, <2>1, <2>2, AnsweredMoves
  <2> QED BY <1>t, <2>3, <2>4, AnsweredStep
<1>2. CASE IterationLimit(c)
  BY <1>t, <1>2, EndingKeepsAnswers DEF IterationLimit, Goes
<1>3. CASE ReachEnd(c) \/ NoEdges(c) \/ EnterNode(c) \/ LeaveStart(c)
  BY <1>1, <1>3 DEF ReachEnd, NoEdges, EnterNode, LeaveStart
<1> QED BY <1>2, <1>3 DEF Loops

\* A node takes the answers in their order, and returns once it asks no more.
LEMMA NodesTakeTheirAnswers ==
  ASSUME TypeInv, Paths, AllAnswered, asks \in [Node -> Nat], NEW c \in Caller, Executes(c)
  PROVE  AllAnswered'
<1>t. TypeOK /\ run[c] \in Run /\ Answered(asks, run[c]) /\ MergedBy(run[c]) \in Nat
  BY RunParts DEF TypeInv, AllAnswered, Paths, Path
<1>p. /\ run[c].given \in Seq([value : Interrupt, at : Interrupt])
      /\ run[c].answers \in Seq(Interrupt) /\ run[c].asked \in Nat
  BY <1>t, RunParts
<1>1. CASE RaiseInterrupt(c)
  <2>1. Len(run[c].given) = Len(run[c].answers)
    BY <1>t, <1>p, <1>1 DEF RaiseInterrupt, HasAnswer, Answered
  <2>2. PICK pc \in {"saving", "panicked"} :
          Becomes(c, [run[c] EXCEPT !.pc = pc]) /\ asks' = asks
    BY <1>1 DEF RaiseInterrupt, Goes
  <2> QED BY <1>t, <2>1, <2>2, GoingKeepsAnswers
<1>2. CASE NodeFails(c)
  BY <1>t, <1>2, EndingKeepsAnswers DEF NodeFails, Goes
<1>3. CASE TakeAnswer(c)
  <2> DEFINE g == [value |-> run[c].answers[Len(run[c].given) + 1], at |-> Here(c)]
             q == [run[c] EXCEPT !.given = Append(@, g), !.asked = @ + 1]
  <2>1. /\ Becomes(c, q) /\ asks' = asks /\ run[c].pc = "executing"
        /\ run[c].asked < asks[run[c].node] /\ Len(run[c].given) < Len(run[c].answers)
    BY <1>3 DEF TakeAnswer, Asking, HasAnswer, At
  <2>2. run[c].node \in Node
    BY <2>1 DEF TypeInv, NodeExecutes
  <2>3. g \in [value : Interrupt, at : Interrupt]
    <3>1. Len(run[c].given) + 1 \in 1..Len(run[c].answers)
      BY <1>p, <2>1
    <3>2. run[c].answers[Len(run[c].given) + 1] \in Interrupt
      BY <1>p, <3>1
    <3>3. Here(c) \in Interrupt
      BY <1>t, RunParts DEF Here, Interrupt
    <3> QED BY <3>2, <3>3
  <2> HIDE DEF g
  <2>4. /\ q.values = run[c].values /\ q.base = run[c].base /\ q.asked = run[c].asked + 1
        /\ q.given = Append(run[c].given, g) /\ q.answers = run[c].answers
        /\ q.pc = run[c].pc /\ q.node = run[c].node
    BY <1>t DEF Run
  <2> HIDE DEF q
  <2>5. Len(q.given) = Len(run[c].given) + 1
    BY <1>p, <2>3, <2>4
  <2>6. MergedNodes(q) = MergedNodes(run[c])
    BY <2>4 DEF MergedNodes
  <2>7. Total(asks, MergedNodes(run[c])) \in Nat
    <3>1. MergedNodes(run[c]) \in Seq(Node)
      <4>1. run[c].values \in Seq(Node) /\ run[c].base \in Seq(Node)
        BY <1>t, RunParts
      <4>2. Len(run[c].base) \in Nat /\ Len(run[c].base) <= Len(run[c].values)
        BY <1>t, <4>1 DEF MergedBy
      <4> QED BY <4>1, <4>2, RestOfSeq DEF MergedNodes
    <3> QED BY <2>2, <3>1, TotalOfMore
  <2>8. Answered(asks, q)
    <3>1. asks[run[c].node] \in Nat /\ Len(run[c].given) \in Nat /\ Len(run[c].answers) \in Nat
      BY <1>p, <2>2
    <3>2. Total(asks, MergedNodes(run[c])) + run[c].asked = Len(run[c].given)
      BY <1>t DEF Answered
    <3>3. Total(asks, MergedNodes(q)) + q.asked = Len(q.given)
      <4>1. PICK k \in Nat : k = Total(asks, MergedNodes(run[c]))
        BY <2>7
      <4>2. Total(asks, MergedNodes(q)) = k
        BY <2>6, <4>1
      <4>3. k + (run[c].asked + 1) = Len(run[c].given) + 1
        <5>1. k + run[c].asked = Len(run[c].given)
          BY <3>2, <4>1
        <5>2. \A i, j \in Nat : k + i = j => k + (i + 1) = j + 1
          OBVIOUS
        <5> QED BY <1>p, <3>1, <5>1, <5>2
      <4>4. q.asked = run[c].asked + 1
        BY <2>4
      <4> QED BY <2>5, <4>2, <4>3, <4>4
    <3>4. Len(q.given) <= Len(q.answers) /\ q.asked <= asks[q.node]
      BY <1>p, <2>1, <2>4, <2>5, <3>1
    <3>5. q.pc = "executing"
      BY <2>1, <2>4
    <3> QED BY <3>3, <3>4, <3>5 DEF Answered
  <2> QED BY <1>t, <2>1, <2>8, AnsweredStep
<1>4. CASE NodeReturns(c)
  <2> DEFINE q == [run[c] EXCEPT !.values = Append(@, run[c].node), !.asked = 0, !.pc = "route"]
  <2>1. Becomes(c, q) /\ asks' = asks /\ run[c].pc = "executing"
        /\ ~(run[c].asked < asks[run[c].node])
    BY <1>4 DEF NodeReturns, Asking, At
  <2>2. run[c].node \in Node
    BY <2>1 DEF TypeInv, NodeExecutes
  <2>3. /\ q.values = Append(run[c].values, run[c].node) /\ q.base = run[c].base
        /\ q.asked = 0 /\ q.given = run[c].given /\ q.answers = run[c].answers
        /\ q.pc = "route"
    BY <1>t DEF Run
  <2> HIDE DEF q
  <2>4. Answered(asks, q)
    BY <1>t, <2>1, <2>2, <2>3, AnsweredGrows
  <2> QED BY <1>t, <2>1, <2>4, AnsweredStep
<1>5. CASE Follow(c)
  <2>1. run[c].pc = "route" /\ run[c].node \in Node \cap Sources(graph)
    BY <1>5 DEF Follow, At, TypeInv, NodeExecutes
  <2>2. PICK t \in Targets(run[c].node) :
          \/ Goes(c, "failed")
          \/ Goes(c, "done")
          \/ Becomes(c, [run[c] EXCEPT !.pc = "loop", !.node = t]) /\ asks' = asks
    BY <1>t, <1>5, <2>1, TargetsAreNodes, NodeAssumption DEF Follow
  <2>3. CASE Goes(c, "failed") \/ Goes(c, "done")
    BY <1>t, <2>3, EndingKeepsAnswers DEF Goes
  <2>4. CASE Becomes(c, [run[c] EXCEPT !.pc = "loop", !.node = t]) /\ asks' = asks
    <3> DEFINE q == [run[c] EXCEPT !.pc = "loop", !.node = t]
    <3>1. /\ q.values = run[c].values /\ q.base = run[c].base /\ q.asked = run[c].asked
          /\ q.given = run[c].given /\ q.answers = run[c].answers /\ q.pc = "loop"
      BY <1>t DEF Run
    <3>2. Becomes(c, q) /\ run[c].asked = 0
      BY <1>t, <2>1, <2>4 DEF Answered
    <3> HIDE DEF q
    <3>3. Answered(asks, q)
      BY <1>t, <3>1, <3>2, AnsweredMoves
    <3> QED BY <1>t, <2>4, <3>2, <3>3, AnsweredStep
  <2> QED BY <2>2, <2>3, <2>4
<1> QED BY <1>1, <1>2, <1>3, <1>4, <1>5 DEF Executes

\* Checkpointing takes no answers.
LEMMA SavesGiveNone ==
  ASSUME TypeInv, AllAnswered, NEW c \in Caller, Saves(c)
  PROVE  AllAnswered'
<1>t. TypeOK /\ run[c] \in Run /\ Answered(asks, run[c])
  BY RunParts DEF TypeInv, AllAnswered
<1>1. CASE PutFails(c)
  BY <1>t, <1>1, EndingKeepsAnswers DEF PutFails
<1>2. ASSUME NEW s, Put(s) PROVE asks' = asks
  BY <1>2 DEF Put
<1>3. ASSUME At(c, "saving"), asks' = asks,
             Becomes(c, [run[c] EXCEPT !.pc = "interrupted", !.raised = Here(c)])
      PROVE  AllAnswered'
  <2> DEFINE q == [run[c] EXCEPT !.pc = "interrupted", !.raised = Here(c)]
  <2>1. /\ q.values = run[c].values /\ q.base = run[c].base /\ q.asked = run[c].asked
        /\ q.given = run[c].given /\ q.answers = run[c].answers /\ q.pc = "interrupted"
    BY <1>t DEF Run
  <2>2. Becomes(c, q) /\ Len(run[c].given) = Len(run[c].answers)
    BY <1>t, <1>3 DEF Answered, At
  <2> HIDE DEF q
  <2>3. Answered(asks, q)
    BY <1>t, <2>1, <2>2, AnsweredMoves
  <2> QED BY <1>t, <1>3, <2>2, <2>3, AnsweredStep
<1>4. ASSUME asks' = asks, Becomes(c, [run[c] EXCEPT !.pc = "updated"]) PROVE AllAnswered'
  BY <1>t, <1>4, EndingKeepsAnswers
<1>5. CASE SaveInterrupt(c)
  BY <1>1, <1>2, <1>3, <1>5 DEF SaveInterrupt
<1>6. ASSUME NEW n \in Node, WriteState(c, n) PROVE AllAnswered'
  BY <1>1, <1>2, <1>4, <1>6 DEF WriteState
<1>7. SaveInterrupt(c) \/ \E n \in Node : WriteState(c, n)
  BY DEF Saves
<1> QED BY <1>5, <1>6, <1>7

(***************************************************************************)
(* Command::resume's values are spent one by one: every interrupt() a call *)
(* went past took the next of them, whatever nodes it executed before and  *)
(* after, and it interrupts only when none is left; for any graph, any     *)
(* number of interrupts in a node and any callers.                         *)
(***************************************************************************)
THEOREM ValuesAreSpent == Spec => []AnswersAreSpent
<1>a. TypeOK => asks \in [Node -> Nat]
  BY InterruptAssumption DEF TypeOK
<1>1. Init => AllAnswered
  <2> SUFFICES ASSUME Init, NEW c \in Caller PROVE Answered(asks, run[c])
    BY DEF AllAnswered
  <2>1. <<>> \in Seq(Node) /\ <<>> \in Seq(Interrupt) /\ asks \in [Node -> Nat]
    BY InterruptAssumption DEF Init
  <2>2. run[c] = NewRun("idle", 0, FALSE, Start, <<>>, 0, <<>>, NoInterrupt)
    BY DEF Init
  <2> QED BY <2>1, <2>2, AnsweredBegins
<1>2. TypeInv /\ Paths /\ AllAnswered /\ [Next]_vars => AllAnswered'
  <2> SUFFICES ASSUME TypeInv, Paths, AllAnswered, [Next]_vars PROVE AllAnswered'
    OBVIOUS
  <2>t. TypeOK /\ asks \in [Node -> Nat]
    BY <1>a DEF TypeInv
  <2>1. ASSUME NEW c \in Caller, Begins(c) PROVE AllAnswered'
    BY <2>t, <2>1, BeginningsGiveNone
  <2>2. ASSUME NEW c \in Caller, Loops(c) PROVE AllAnswered'
    BY <2>t, <2>2, LoopsGiveNone
  <2>3. ASSUME NEW c \in Caller, Executes(c) PROVE AllAnswered'
    BY <2>t, <2>3, NodesTakeTheirAnswers
  <2>4. ASSUME NEW c \in Caller, Saves(c) PROVE AllAnswered'
    BY <2>4, SavesGiveNone
  <2>5. ASSUME NEW c \in Caller, Cancel(c) PROVE AllAnswered'
    BY <2>t, <2>5, EndingKeepsAnswers DEF Cancel, Goes
  <2>6. CASE UNCHANGED vars
    BY <2>6 DEF vars, AllAnswered
  <2> QED BY <2>1, <2>2, <2>3, <2>4, <2>5, <2>6 DEF Next
<1>3. AllAnswered => AnswersAreSpent
  <2> SUFFICES ASSUME AllAnswered, NEW c \in Caller
               PROVE  /\ AsksOf(Merged(c)) + run[c].asked = Len(run[c].given)
                      /\ Len(run[c].given) <= Len(run[c].answers)
                      /\ run[c].pc \in {"saving", "interrupted", "panicked"} =>
                           Len(run[c].given) = Len(run[c].answers)
    BY DEF AnswersAreSpent
  <2>1. Answered(asks, run[c])
    BY DEF AllAnswered
  <2>2. Total(asks, MergedNodes(run[c])) = AsksOf(Merged(c))
    BY TotalIsAsks DEF MergedNodes, Merged
  <2> QED BY <2>1, <2>2 DEF Answered
<1> QED BY <1>1, <1>2, <1>3, TypesHold, PathsHold, PTL DEF Spec
===============================================================================

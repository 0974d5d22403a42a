--------------------------- MODULE SuperStepProofs ---------------------------
(***************************************************************************)
(* What the super-step executor guarantees for every set of compiled       *)
(* graphs, every max_steps and every number of runs: its types, what its   *)
(* checkpoints hold, what Sync makes durable, and what max_steps bounds;   *)
(* that a run merges no node twice, and every node after its predecessors; *)
(* that in Exit mode it leaves its end only, and no checkpoint without the *)
(* parent it names; and that it implements a checkpointed thread.          *)
(***************************************************************************)
EXTENDS SuperStep, TLAPS, FiniteSetTheorems, SequenceTheorems

(***************************************************************************)
(* Prefixes of sequences of nodes.                                         *)
(***************************************************************************)
LEMMA PrefixByElement ==
  ASSUME NEW S, NEW s \in Seq(S), NEW t \in Seq(S)
  PROVE  IsPrefix(s, t) <=> Len(s) <= Len(t) /\ \A i \in 1..Len(s) : s[i] = t[i]
<1>1. SubSeq(s, 1, Len(s)) = s
  OBVIOUS
<1>2. CASE Len(s) <= Len(t)
  <2>1. /\ SubSeq(t, 1, Len(s)) \in Seq(S)
        /\ Len(SubSeq(t, 1, Len(s))) = Len(s)
        /\ \A i \in 1..Len(s) : SubSeq(t, 1, Len(s))[i] = t[i]
    BY <1>2
  <2>2. SubSeq(t, 1, Len(s)) = s <=> \A i \in 1..Len(s) : s[i] = t[i]
    BY <2>1
  <2> QED BY <1>1, <1>2, <2>2 DEF IsPrefix
<1>3. CASE ~(Len(s) <= Len(t))
  BY <1>3 DEF IsPrefix
<1> QED BY <1>2, <1>3

\* Every sequence is a prefix of itself.
LEMMA PrefixReflexive ==
  ASSUME NEW S, NEW s \in Seq(S)
  PROVE  IsPrefix(s, s)
BY PrefixByElement

\* The empty state extends the empty state (an idle thread).
LEMMA EmptyPrefix == IsPrefix(<<>>, <<>>)
<1>1. <<>> \in Seq({})
  OBVIOUS
<1> QED BY <1>1, PrefixReflexive

\* A past of a past is a past.
LEMMA PrefixTransitive ==
  ASSUME NEW S, NEW s \in Seq(S), NEW t \in Seq(S), NEW u \in Seq(S),
         IsPrefix(s, t), IsPrefix(t, u)
  PROVE  IsPrefix(s, u)
<1>1. Len(s) <= Len(t) /\ \A i \in 1..Len(s) : s[i] = t[i]
  BY PrefixByElement
<1>2. Len(t) <= Len(u) /\ \A i \in 1..Len(t) : t[i] = u[i]
  BY PrefixByElement
<1>3. Len(s) <= Len(u) /\ \A i \in 1..Len(s) : s[i] = u[i]
  BY <1>1, <1>2
<1> QED BY <1>3, PrefixByElement

\* merge_state_updates extends the state it is given.
LEMMA PrefixOfConcatenation ==
  ASSUME NEW S, NEW s \in Seq(S), NEW t \in Seq(S)
  PROVE  IsPrefix(s, s \o t)
<1>1. s \o t \in Seq(S) /\ Len(s) <= Len(s \o t)
  OBVIOUS
<1>2. \A i \in 1..Len(s) : s[i] = (s \o t)[i]
  OBVIOUS
<1> QED BY <1>1, <1>2, PrefixByElement

-------------------------------------------------------------------------------
(***************************************************************************)
(* An ordering of a finite set of nodes is a sequence of its members, not  *)
(* empty when the set is not.                                              *)
(***************************************************************************)
LEMMA OrderingOfNodes ==
  ASSUME NEW S \in SUBSET Node, NEW q \in SetToSeqs(S)
  PROVE  /\ q \in Seq(Node)
         /\ ToSet(q) \subseteq S
         /\ S # {} => ToSet(q) # {}
<1>1. IsFiniteSet(S)
  BY NodeAssumption, FS_Subset
<1>2. Cardinality(S) \in Nat /\ (S # {} => Cardinality(S) > 0)
  BY <1>1, FS_CardinalityType, FS_EmptySet
<1>3. q \in [1..Cardinality(S) -> S]
  BY DEF SetToSeqs
<1>4. q \in Seq(S) /\ Len(q) = Cardinality(S) /\ DOMAIN q = 1..Cardinality(S)
  BY <1>2, <1>3
<1>5. q \in Seq(Node)
  BY <1>4
<1>6. S # {} => q[1] \in ToSet(q)
  BY <1>2, <1>4 DEF ToSet
<1> QED BY <1>3, <1>4, <1>5, <1>6 DEF ToSet

\* The members of ready_nodes are nodes.
LEMMA NodesOfSequence ==
  ASSUME NEW q \in Seq(Node)
  PROVE  ToSet(q) \in SUBSET Node
BY DEF ToSet

\* get_ready_nodes answers with nodes, never with END.
LEMMA ReadyNodesAreNodes ==
  ASSUME TypeOK, ~StartFails
  PROVE  GetReadyNodes(graph, route, executed) \in SUBSET Node
<1>1. ASSUME executed = {} PROVE StartTargets(graph, route) \subseteq Node \cup {End}
  BY <1>1 DEF TypeOK, Routes, StartTargets, EdgesFrom, StartFails
<1> QED BY <1>1 DEF GetReadyNodes, TypeOK

\* get_next_nodes answers with nodes, never with END.
LEMMA NextNodesAreNodes ==
  ASSUME TypeOK, ~NextFails
  PROVE  GetNextNodes(graph, route, ToSet(ready)) \in SUBSET Node
BY DEF TypeOK, Routes, NextTargets, EdgesFrom, NextFails, GetNextNodes

\* StateSnapshot::new makes a snapshot.
LEMMA SnapshotType ==
  ASSUME TypeOK, NEW next \in SUBSET (Node \cup {Start})
  PROVE  NewSnapshot(next) \in Snapshot
BY DEF TypeOK, NewSnapshot, Snapshot

\* put adds its checkpoint to what is stored and nothing else.
LEMMA AppendSet ==
  ASSUME NEW S, NEW q \in Seq(S), NEW e \in S
  PROVE  /\ Append(q, e) \in Seq(S)
         /\ ToSet(Append(q, e)) = ToSet(q) \cup {e}
         /\ ToSet(q) \in SUBSET S
<1>1. /\ Append(q, e) \in Seq(S)
      /\ Len(Append(q, e)) = Len(q) + 1
      /\ Append(q, e)[Len(q) + 1] = e
      /\ \A i \in 1..Len(q) : Append(q, e)[i] = q[i]
  BY AppendProperties
<1>2. Len(q) \in Nat /\ DOMAIN q = 1..Len(q) /\ \A i \in DOMAIN q : q[i] \in S
  OBVIOUS
<1>3. DOMAIN Append(q, e) = 1..(Len(q) + 1)
  BY <1>1, LenProperties
<1>4. ToSet(Append(q, e)) \subseteq ToSet(q) \cup {e}
  BY <1>1, <1>2, <1>3 DEF ToSet
<1>5. ToSet(q) \subseteq ToSet(Append(q, e)) /\ e \in ToSet(Append(q, e))
  BY <1>1, <1>2, <1>3 DEF ToSet
<1> QED BY <1>1, <1>2, <1>4, <1>5 DEF ToSet

\* put keeps the types of the checkpointer's state.
LEMMA PutType ==
  ASSUME TypeOK, NEW snapshot \in Snapshot, Put(snapshot) \/ PutFails
  PROVE  history' \in Seq(Snapshot) /\ pending' \in SUBSET Snapshot /\ made' \in Nat
<1>1. Append(history, snapshot) \in Seq(Snapshot)
  BY AppendSet DEF TypeOK
<1>2. history' = Append(history, snapshot) \/ history' = history
  BY DEF Put, PutFails
<1>3. history' \in Seq(Snapshot)
  BY <1>1, <1>2 DEF TypeOK
<1> QED BY <1>3 DEF TypeOK, Put, PutFails

(***************************************************************************)
(* Type correctness: no step leaves the types, whatever graphs, modes and  *)
(* bounds the thread is run with; in particular step never passes          *)
(* MaxSteps and a checkpoint's next names only nodes of the graph.         *)
(***************************************************************************)
THEOREM TypeCorrect == Spec => []TypeOK
<1>1. Init => TypeOK
  BY SuperStepAssumption DEF Init, TypeOK, Places, Failures
<1>2. TypeOK /\ [Next]_vars => TypeOK'
  <2> SUFFICES ASSUME TypeOK, [Next]_vars PROVE TypeOK'
    OBVIOUS
  <2> USE SuperStepAssumption
  <2>1. ASSUME NEW m \in Modes, Invoke(m) PROVE TypeOK'
    BY <2>1 DEF Invoke, Begin, StartsAt, TypeOK, Places, Failures, store_vars, Running
  <2>2. ASSUME NEW m \in Modes, NEW i \in DOMAIN history, Resume(m, i) PROVE TypeOK'
    <3>1. history[i] \in Snapshot
      BY DEF TypeOK
    <3>2. history[i].id \in Nat /\ history[i].values \in Seq(Node)
      BY <3>1 DEF Snapshot
    <3> QED BY <2>2, <3>2
        DEF Resume, Begin, StartsAt, TypeOK, Places, Failures, store_vars, Running
  <2>3. CASE SaveInitial
    <3>1. NewSnapshot({Start}) \in Snapshot
      BY SnapshotType
    <3>2. history' \in Seq(Snapshot) /\ pending' \in SUBSET Snapshot /\ made' \in Nat
      BY <2>3, <3>1, PutType DEF SaveInitial
    <3> QED BY <2>3, <3>2 DEF SaveInitial, Fail, TypeOK, Places, Failures, run_vars, loop_vars
  <2>4. CASE StepLimit
    BY <2>4 DEF StepLimit, Fail, TypeOK, Places, Failures, run_vars, loop_vars, store_vars
  <2>5. CASE StartRouteFails
    BY <2>5 DEF StartRouteFails, EnterStep, Fail, TypeOK, Places, Failures, run_vars, store_vars
  <2>6. CASE NothingReady
    BY <2>6 DEF NothingReady, EnterStep, Fail, TypeOK, Places, Failures, run_vars, store_vars
  <2>7. CASE StartNodes
    <3>1. ready' \in Seq(Node)
      BY <2>7, ReadyNodesAreNodes, OrderingOfNodes DEF StartNodes
    <3> QED BY <2>7, <3>1 DEF StartNodes, EnterStep, TypeOK, Places, Failures, run_vars, store_vars
  <2>8. CASE NodesFail
    BY <2>8 DEF NodesFail, Fail, TypeOK, Places, Failures, run_vars, loop_vars, store_vars
  <2>9. CASE MergeUpdates
    <3>1. values' \in Seq(Node)
      BY <2>9 DEF MergeUpdates, MergeStateUpdates, TypeOK
    <3>2. executed' \in SUBSET Node
      BY <2>9, NodesOfSequence DEF MergeUpdates, TypeOK
    <3> QED BY <2>9, <3>1, <3>2 DEF MergeUpdates, TypeOK, Places, Failures, run_vars, store_vars
  <2>10. CASE SaveRouteFails
    BY <2>10 DEF SaveRouteFails, Fail, TypeOK, Places, Failures, run_vars, loop_vars, store_vars
  <2>11. CASE SaveStep
    <3> DEFINE snapshot == NewSnapshot(GetNextNodes(graph, route, ToSet(ready)))
    <3>1. snapshot \in Snapshot
      BY <2>11, SnapshotType, NextNodesAreNodes DEF SaveStep
    <3>2. history' \in Seq(Snapshot) /\ pending' \in SUBSET Snapshot /\ made' \in Nat
      <4>1. CASE Put(snapshot) \/ PutFails
        BY <4>1, <3>1, PutType
      <4>2. CASE ~(Put(snapshot) \/ PutFails)
        BY <2>11, <3>1, <4>2 DEF SaveStep, TypeOK
      <4> QED BY <4>1, <4>2
    <3> QED BY <2>11, <3>2 DEF SaveStep, Fail, TypeOK, Places, Failures, run_vars, loop_vars
  <2>12. CASE CheckComplete
    BY <2>12 DEF CheckComplete, TypeOK, Places, Failures, run_vars, loop_vars, store_vars
  <2>13. CASE Return
    <3>1. NewSnapshot({}) \in Snapshot
      BY SnapshotType
    <3>2. history' \in Seq(Snapshot) /\ pending' \in SUBSET Snapshot /\ made' \in Nat
      BY <2>13, <3>1, PutType DEF Return, TypeOK, store_vars
    <3> QED BY <2>13, <3>2 DEF Return, Fail, TypeOK, Places, Failures, run_vars, loop_vars, store_vars
  <2>14. ASSUME NEW n \in Node, NodeReturns(n) PROVE TypeOK'
    BY <2>14 DEF NodeReturns, TypeOK, run_vars, store_vars
  <2>15. ASSUME NEW s \in pending, BackgroundPut(s) PROVE TypeOK'
    <3>1. Append(history, s) \in Seq(Snapshot)
      BY AppendSet DEF TypeOK
    <3> QED BY <2>15, <3>1 DEF BackgroundPut, TypeOK, run_vars, loop_vars
  <2>16. CASE Cancel \/ Crash
    <3>1. RunDropped /\ pending' \in {pending, {}}
      BY <2>16 DEF Cancel, Crash
    <3>2. base' \in Seq(Node) /\ values' \in Seq(Node) /\ ready' \in Seq(Node)
      BY <3>1 DEF RunDropped
    <3>3. pending' \in SUBSET Snapshot
      BY <3>1 DEF TypeOK
    <3> QED BY <3>1, <3>2, <3>3 DEF RunDropped, TypeOK, Places, Failures
  <2>17. CASE UNCHANGED vars
    BY <2>17 DEF vars, TypeOK, run_vars, loop_vars, store_vars
  <2> QED BY <2>1, <2>2, <2>3, <2>4, <2>5, <2>6, <2>7, <2>8, <2>9, <2>10, <2>11, <2>12,
             <2>13, <2>14, <2>15, <2>16, <2>17 DEF Next, Executor
<1> QED BY <1>1, <1>2, PTL DEF Spec

-------------------------------------------------------------------------------
(***************************************************************************)
(* The four kinds of steps the checkpoints can tell apart: a call begins,  *)
(* the process dies, a super-step is merged, or at most one checkpoint of  *)
(* current_state is made while the run stays where it is.                  *)
(***************************************************************************)
Saved == Stored \cup pending

BeginStep ==
  /\ run' = run + 1 /\ base' = values' /\ values' \in Seq(Node)
  /\ Saved' = Saved /\ made' = made

CrashStep ==
  /\ pc' = "idle" /\ run' = run /\ base' = <<>> /\ values' = <<>>
  /\ Saved' \subseteq Saved /\ made' = made

MergeStep ==
  /\ pc # "idle" /\ run' = run /\ base' = base
  /\ values' = values \o ready
  /\ Saved' = Saved /\ made' = made

WriteStep ==
  /\ (pc' = "idle") = (pc = "idle")
  /\ run' = run /\ base' = base /\ values' = values
  /\ \/ Saved' \subseteq Saved /\ made' \in {made, made + 1}
     \/ /\ pc # "idle"
        /\ \E next \in SUBSET (Node \cup {Start}) : Saved' = Saved \cup {NewSnapshot(next)}
        /\ made' = made + 1

\* A put, a failed one included, saves at most a new snapshot.
LEMMA PutSaves ==
  ASSUME TypeOK, NEW next \in SUBSET (Node \cup {Start}),
         Put(NewSnapshot(next)) \/ PutFails
  PROVE  /\ Saved' = Saved \/ Saved' = Saved \cup {NewSnapshot(next)}
         /\ Stored \subseteq Stored'
         /\ Put(NewSnapshot(next)) => NewSnapshot(next) \in Stored'
         /\ made' = made + 1
<1>1. NewSnapshot(next) \in Snapshot
  BY SnapshotType
<1>2. ToSet(Append(history, NewSnapshot(next))) = Stored \cup {NewSnapshot(next)}
  BY <1>1, AppendSet DEF TypeOK, Stored
<1>3. CASE Put(NewSnapshot(next))
  <2>1. Stored' = Stored \cup {NewSnapshot(next)} /\ pending' = pending
    BY <1>2, <1>3 DEF Put, Stored
  <2> QED BY <1>3, <2>1 DEF Put, Saved
<1>4. CASE PutFails /\ ~Put(NewSnapshot(next))
  BY <1>4 DEF PutFails, Saved, Stored
<1> QED BY <1>3, <1>4

\* A spawned put saves nothing that was not already in flight.
LEMMA BackgroundPutSaves ==
  ASSUME TypeOK, NEW s \in pending, BackgroundPut(s)
  PROVE  Saved' \subseteq Saved /\ Stored \subseteq Stored'
<1>1. ToSet(Append(history, s)) = Stored \cup {s}
  BY AppendSet DEF TypeOK, Stored
<1>2. Stored' = Stored \cup {s} \/ Stored' = Stored
  BY <1>1 DEF BackgroundPut, Stored
<1> QED BY <1>2 DEF BackgroundPut, Saved

\* Every step begins a run, loses it, merges, or writes a checkpoint.
LEMMA StepKinds ==
  ASSUME TypeOK, [Next]_vars
  PROVE  BeginStep \/ CrashStep \/ MergeStep \/ WriteStep
<1>1. ASSUME NEW m \in Modes, Invoke(m) PROVE BeginStep
  BY <1>1 DEF Invoke, Begin, BeginStep, store_vars, Saved, Stored
<1>2. ASSUME NEW m \in Modes, NEW i \in DOMAIN history, Resume(m, i) PROVE BeginStep
  <2>1. history[i] \in Snapshot
    BY DEF TypeOK
  <2>2. history[i].values \in Seq(Node)
    BY <2>1 DEF Snapshot
  <2> QED BY <1>2, <2>2 DEF Resume, Begin, BeginStep, store_vars, Saved, Stored
<1>3. CASE SaveInitial
  <2>1. /\ Saved' = Saved \/ Saved' = Saved \cup {NewSnapshot({Start})}
        /\ made' = made + 1
    BY <1>3, PutSaves DEF SaveInitial
  <2> QED BY <1>3, <2>1 DEF SaveInitial, Fail, WriteStep, run_vars, loop_vars
<1>4. CASE StepLimit \/ NodesFail \/ SaveRouteFails
  BY <1>4 DEF StepLimit, NodesFail, Joined, SaveRouteFails, Fail, WriteStep, Saved, Stored,
              run_vars, loop_vars, store_vars
<1>5. CASE StartRouteFails \/ NothingReady \/ StartNodes
  BY <1>5 DEF StartRouteFails, NothingReady, StartNodes, EnterStep, Fail, WriteStep, Saved,
              Stored, run_vars, store_vars
<1>6. CASE MergeUpdates
  BY <1>6 DEF MergeUpdates, MergeStateUpdates, Joined, MergeStep, Saved, Stored, run_vars,
              store_vars
<1>7. CASE SaveStep
  <2> DEFINE next     == GetNextNodes(graph, route, ToSet(ready))
             snapshot == NewSnapshot(next)
  <2>1. next \in SUBSET (Node \cup {Start})
    BY <1>7, NextNodesAreNodes DEF SaveStep
  <2>2. /\ pc # "idle" /\ pc' # "idle"
        /\ run' = run /\ base' = base /\ values' = values
    BY <1>7 DEF SaveStep, Fail, run_vars, loop_vars
  <2>3. \/ Put(snapshot) \/ PutFails
        \/ pending' = pending \cup {snapshot} /\ history' = history /\ made' = made + 1
        \/ pending' = pending /\ history' = history /\ made' = made + 1
    BY <1>7 DEF SaveStep
  <2>4. (Saved' = Saved \/ Saved' = Saved \cup {snapshot}) /\ made' = made + 1
    <3>1. CASE Put(snapshot) \/ PutFails
      BY <3>1, <2>1, PutSaves
    <3>2. CASE ~(Put(snapshot) \/ PutFails)
      BY <3>2, <2>3 DEF Saved, Stored
    <3> QED BY <3>1, <3>2
  <2> QED BY <2>1, <2>2, <2>4 DEF WriteStep
<1>8. CASE CheckComplete
  BY <1>8 DEF CheckComplete, WriteStep, Saved, Stored, run_vars, loop_vars, store_vars
<1>9. CASE Return
  <2>1. \/ Saved' = Saved /\ made' = made
        \/ /\ Saved' = Saved \/ Saved' = Saved \cup {NewSnapshot({})}
           /\ made' = made + 1
    BY <1>9, PutSaves DEF Return, Saved, Stored, store_vars
  <2> QED BY <1>9, <2>1 DEF Return, Fail, WriteStep, run_vars, loop_vars
<1>10. ASSUME NEW n \in Node, NodeReturns(n) PROVE WriteStep
  BY <1>10 DEF NodeReturns, WriteStep, Saved, Stored, run_vars, store_vars
<1>11. ASSUME NEW s \in pending, BackgroundPut(s) PROVE WriteStep
  BY <1>11, BackgroundPutSaves DEF BackgroundPut, WriteStep, run_vars, loop_vars
<1>12. CASE Cancel \/ Crash
  BY <1>12 DEF Cancel, Crash, RunDropped, CrashStep, Saved, Stored
<1>13. CASE UNCHANGED vars
  BY <1>13 DEF vars, WriteStep, Saved, Stored, run_vars, loop_vars, store_vars
<1> QED BY <1>1, <1>2, <1>3, <1>4, <1>5, <1>6, <1>7, <1>8, <1>9, <1>10, <1>11, <1>12,
           <1>13 DEF Next, Executor

-------------------------------------------------------------------------------
(***************************************************************************)
(* What makes the checkpoints' order inductive: the run's input is a past  *)
(* of its state, and no checkpoint is newer than made or of a later run.   *)
(***************************************************************************)
CheckpointInv ==
  /\ IsPrefix(base, values)
  /\ \A s \in Saved : s.id <= made /\ s.run <= run
  /\ SavedStatesAreReached
  /\ SnapshotsGrow

\* What is saved is snapshots.
LEMMA SavedType ==
  ASSUME TypeOK
  PROVE  Saved \subseteq Snapshot
<1>1. Stored \subseteq Snapshot
  BY DEF Stored, TypeOK, ToSet
<1> QED BY <1>1 DEF Saved, TypeOK

\* The four kinds of steps keep the checkpoints' invariant.
LEMMA CheckpointStep ==
  ASSUME TypeOK, TypeOK', CheckpointInv, BeginStep \/ CrashStep \/ MergeStep \/ WriteStep
  PROVE  CheckpointInv'
<1> USE DEF CheckpointInv, SavedStatesAreReached, SnapshotsGrow, OfThisRun
<1>1. Saved \subseteq Snapshot
  BY SavedType
<1>2. /\ \A s \in Saved : s.id \in Nat /\ s.run \in Nat /\ s.values \in Seq(Node)
      /\ run \in Nat /\ made \in Nat /\ base \in Seq(Node) /\ values \in Seq(Node)
  <2>1. \A s \in Saved : s.id \in Nat /\ s.run \in Nat /\ s.values \in Seq(Node)
    BY <1>1 DEF Snapshot
  <2>2. run \in Nat /\ made \in Nat /\ base \in Seq(Node) /\ values \in Seq(Node)
    BY DEF TypeOK
  <2> QED BY <2>1, <2>2
<1>3. /\ \A s, t \in Saved : s.run = t.run /\ s.id < t.id => IsPrefix(s.values, t.values)
      /\ pc # "idle" => \A s \in Saved : s.run = run =>
           IsPrefix(base, s.values) /\ IsPrefix(s.values, values)
  BY DEF Saved
<1>4. SUFFICES /\ IsPrefix(base', values')
               /\ \A s \in Saved' : s.id <= made' /\ s.run <= run'
               /\ pc' # "idle" => \A s \in Saved' : s.run = run' =>
                    IsPrefix(base', s.values) /\ IsPrefix(s.values, values')
               /\ \A s, t \in Saved' :
                    s.run = t.run /\ s.id < t.id => IsPrefix(s.values, t.values)
  BY DEF Saved
<1>5. CASE BeginStep
  <2>1. \A s \in Saved' : s.run # run'
    BY <1>2, <1>5 DEF BeginStep
  <2> QED BY <1>2, <1>3, <1>5, <2>1, PrefixReflexive DEF BeginStep
<1>6. CASE CrashStep
  <2>1. IsPrefix(base', values')
    BY <1>6, EmptyPrefix DEF CrashStep
  <2> QED BY <1>3, <1>6, <2>1 DEF CrashStep
<1>7. CASE MergeStep
  <2>1. IsPrefix(values, values') /\ values' \in Seq(Node)
    BY <1>2, <1>7, PrefixOfConcatenation DEF MergeStep, TypeOK
  <2>2. IsPrefix(base', values')
    BY <1>2, <1>7, <2>1, PrefixTransitive DEF MergeStep
  <2>3. \A s \in Saved : s.run = run => IsPrefix(base, s.values) /\ IsPrefix(s.values, values')
    BY <1>2, <1>3, <1>7, <2>1, PrefixTransitive DEF MergeStep
  <2> QED BY <1>3, <1>7, <2>2, <2>3 DEF MergeStep
<1>8. CASE WriteStep
  <2>1. CASE Saved' \subseteq Saved /\ made' \in {made, made + 1}
    BY <1>2, <1>3, <1>8, <2>1 DEF WriteStep
  <2>2. ASSUME pc # "idle", NEW next \in SUBSET (Node \cup {Start}),
               Saved' = Saved \cup {NewSnapshot(next)}, made' = made + 1
        PROVE  CheckpointInv'
    <3> DEFINE new == NewSnapshot(next)
    <3>1. new.id = made + 1 /\ new.run = run /\ new.values = values
      BY DEF NewSnapshot
    <3>2. run' = run /\ base' = base /\ values' = values
      BY <1>8 DEF WriteStep
    <3>3. IsPrefix(values, values)
      BY <1>2, PrefixReflexive
    <3>4. \A s \in Saved' : s.id <= made' /\ s.run <= run'
      BY <1>2, <2>2, <3>1, <3>2
    <3>5. \A s \in Saved' : s.run = run' => IsPrefix(base', s.values) /\ IsPrefix(s.values, values')
      BY <1>3, <2>2, <3>1, <3>2, <3>3
    <3>6. \A s, t \in Saved' : s.run = t.run /\ s.id < t.id => IsPrefix(s.values, t.values)
      <4> SUFFICES ASSUME NEW s \in Saved', NEW t \in Saved', s.run = t.run, s.id < t.id
                   PROVE  IsPrefix(s.values, t.values)
        OBVIOUS
      <4>1. s \in Saved
        BY <1>2, <2>2, <3>1
      <4>2. CASE t = new
        BY <1>3, <2>2, <3>1, <4>1, <4>2
      <4>3. CASE t \in Saved
        BY <1>3, <4>1, <4>3
      <4> QED BY <2>2, <4>2, <4>3
    <3> QED BY <3>2, <3>4, <3>5, <3>6 DEF Saved
  <2> QED BY <1>8, <2>1, <2>2 DEF WriteStep, Saved
<1> QED BY <1>5, <1>6, <1>7, <1>8

\* In every run of the thread.
LEMMA CheckpointInvariant == Spec => []CheckpointInv
<1>1. Init => CheckpointInv
  <2> SUFFICES ASSUME Init PROVE CheckpointInv
    OBVIOUS
  <2>1. Saved = {}
    BY DEF Init, Saved, Stored, ToSet
  <2> QED BY <2>1, EmptyPrefix
          DEF Init, CheckpointInv, SavedStatesAreReached, SnapshotsGrow, Saved
<1>2. TypeOK /\ TypeOK' /\ CheckpointInv /\ [Next]_vars => CheckpointInv'
  BY StepKinds, CheckpointStep
<1> QED BY <1>1, <1>2, TypeCorrect, PTL DEF Spec

(***************************************************************************)
(* No half-done super-step is ever saved: in every durability mode, with   *)
(* background puts landing in any order, crashes and failures, each        *)
(* checkpoint of a run extends its input and is a past of its state.       *)
(***************************************************************************)
THEOREM CheckpointsAreReached == Spec => []SavedStatesAreReached
<1>1. CheckpointInv => SavedStatesAreReached
  BY DEF CheckpointInv
<1> QED BY <1>1, CheckpointInvariant, PTL

\* A checkpoint is extended by every one its run makes after it, whichever lands first.
THEOREM CheckpointsGrow == Spec => []SnapshotsGrow
<1>1. CheckpointInv => SnapshotsGrow
  BY DEF CheckpointInv
<1> QED BY <1>1, CheckpointInvariant, PTL

-------------------------------------------------------------------------------
(***************************************************************************)
(* A checkpoint of current_state by the run that is under way.             *)
(***************************************************************************)
StateIsSaved == \E s \in Stored : OfThisRun(s) /\ s.values = values

\* A saved state stays saved while the run and its state do not change.
LEMMA StateStaysSaved ==
  ASSUME StateIsSaved, Stored \subseteq Stored', run' = run, values' = values
  PROVE  StateIsSaved'
BY DEF StateIsSaved, OfThisRun

\* A put of the current state saves it.
LEMMA PutSavesState ==
  ASSUME TypeOK, NEW next \in SUBSET (Node \cup {Start}), Put(NewSnapshot(next)),
         run' = run, values' = values
  PROVE  StateIsSaved'
<1>1. NewSnapshot(next) \in Stored'
  BY PutSaves
<1>2. NewSnapshot(next).run = run /\ NewSnapshot(next).values = values
  BY DEF NewSnapshot
<1> QED BY <1>1, <1>2 DEF StateIsSaved, OfThisRun

(***************************************************************************)
(* Sync is durable: at every moment but between a super-step's merge and   *)
(* its put, the checkpointer holds current_state, and it still does after  *)
(* a node failed, the graph got stuck or max_steps was reached.            *)
(***************************************************************************)
THEOREM SyncIsDurable == Spec => []SyncDurable
<1> USE DEF SyncDurable
<1>1. Init => SyncDurable
  BY DEF Init
<1>2. TypeOK /\ SyncDurable /\ [Next]_vars => SyncDurable'
  <2> SUFFICES ASSUME TypeOK, SyncDurable, [Next]_vars,
                      mode' = "Sync",
                      \/ pc' \in {"schedule", "running", "check", "exit", "done"}
                      \/ pc' = "failed" /\ err' \in {"node", "stuck", "max_steps"}
               PROVE  StateIsSaved'
    BY DEF StateIsSaved
  <2>1. ASSUME NEW m \in Modes, NEW from, NEW input, Begin(m, from, input)
        PROVE  StateIsSaved'
    BY <2>1 DEF Begin, StartsAt
  <2>2. CASE SaveInitial
    BY <2>2, PutSavesState DEF SaveInitial, Fail, run_vars, loop_vars
  <2>3. CASE SaveStep
    <3> DEFINE next == GetNextNodes(graph, route, ToSet(ready))
    <3>1. next \in SUBSET (Node \cup {Start})
      BY <2>3, NextNodesAreNodes DEF SaveStep
    <3>2. Put(NewSnapshot(next)) /\ run' = run /\ values' = values
      BY <2>3 DEF SaveStep, Fail, run_vars, loop_vars
    <3> QED BY <3>1, <3>2, PutSavesState
  <2>4. CASE StepLimit \/ StartRouteFails \/ NothingReady \/ StartNodes \/ NodesFail
    <3>1. StateIsSaved
      BY <2>4 DEF StepLimit, StartRouteFails, NothingReady, StartNodes, EnterStep, NodesFail,
                  Joined, run_vars, StateIsSaved
    <3> QED BY <2>4, <3>1, StateStaysSaved
            DEF StepLimit, StartRouteFails, NothingReady, StartNodes, EnterStep, NodesFail,
                Stored, run_vars, loop_vars, store_vars
  <2>5. CASE MergeUpdates
    BY <2>5 DEF MergeUpdates
  <2>6. CASE SaveRouteFails
    BY <2>6 DEF SaveRouteFails, Fail
  <2>7. CASE CheckComplete
    <3>1. StateIsSaved
      BY <2>7 DEF CheckComplete, run_vars, StateIsSaved
    <3> QED BY <2>7, <3>1, StateStaysSaved
            DEF CheckComplete, Stored, run_vars, loop_vars, store_vars
  <2>8. CASE Return
    <3>1. StateIsSaved /\ mode # "Exit"
      BY <2>8 DEF Return, run_vars, StateIsSaved
    <3> QED BY <2>8, <3>1, StateStaysSaved DEF Return, Stored, run_vars, loop_vars, store_vars
  <2>9. ASSUME NEW n \in Node, NodeReturns(n) PROVE StateIsSaved'
    <3>1. StateIsSaved
      BY <2>9 DEF NodeReturns, run_vars, StateIsSaved
    <3> QED BY <2>9, <3>1, StateStaysSaved DEF NodeReturns, Stored, run_vars, store_vars
  <2>10. ASSUME NEW s \in pending, BackgroundPut(s) PROVE StateIsSaved'
    <3>1. StateIsSaved
      BY <2>10 DEF BackgroundPut, run_vars, StateIsSaved
    <3> QED BY <2>10, <3>1, StateStaysSaved, BackgroundPutSaves
            DEF BackgroundPut, run_vars, loop_vars
  <2>11. CASE Cancel \/ Crash
    BY <2>11 DEF Cancel, Crash, RunDropped
  <2>12. CASE UNCHANGED vars
    <3>1. StateIsSaved
      BY <2>12 DEF vars, run_vars, StateIsSaved
    <3> QED BY <2>12, <3>1, StateStaysSaved DEF vars, Stored, run_vars, loop_vars, store_vars
  <2> QED BY <2>1, <2>2, <2>3, <2>4, <2>5, <2>6, <2>7, <2>8, <2>9, <2>10, <2>11, <2>12
          DEF Next, Executor, Invoke, Resume
<1> QED BY <1>1, <1>2, TypeCorrect, PTL DEF Spec

-------------------------------------------------------------------------------
(***************************************************************************)
(* Every super-step executes at least one node that was not executed.      *)
(***************************************************************************)
StepInv ==
  /\ step <= Cardinality(executed) + 1
  /\ pc \in {"initial", "schedule", "save", "check"} => step <= Cardinality(executed)
  /\ pc = "running" => ToSet(ready) # {} /\ ToSet(ready) \cap executed = {}
  /\ err = "max_steps" => MaxSteps <= Cardinality(executed)

\* A super-step that merges fresh nodes executes at least one more.
LEMMA MoreExecuted ==
  ASSUME NEW done \in SUBSET Node, NEW nodes \in SUBSET Node
  PROVE  /\ Cardinality(done) \in Nat /\ Cardinality(done \cup nodes) \in Nat
         /\ Cardinality(done) <= Cardinality(done \cup nodes)
         /\ nodes # {} /\ nodes \cap done = {} =>
              Cardinality(done) + 1 <= Cardinality(done \cup nodes)
<1>1. IsFiniteSet(done) /\ IsFiniteSet(done \cup nodes)
  BY NodeAssumption, FS_Subset
<1>2. Cardinality(done) \in Nat /\ Cardinality(done \cup nodes) \in Nat
  BY <1>1, FS_CardinalityType
<1>3. Cardinality(done) <= Cardinality(done \cup nodes)
  BY <1>1, FS_Subset
<1>4. ASSUME NEW n \in nodes, n \notin done
      PROVE  Cardinality(done) + 1 <= Cardinality(done \cup nodes)
  <2>1. IsFiniteSet(done \cup {n}) /\ Cardinality(done \cup {n}) = Cardinality(done) + 1
    BY <1>1, <1>4, FS_AddElement
  <2>2. done \cup {n} \subseteq done \cup nodes
    OBVIOUS
  <2> QED BY <1>1, <2>1, <2>2, FS_Subset
<1> QED BY <1>2, <1>3, <1>4

(***************************************************************************)
(* max_steps never stops a loop: it can only end a run in which that many  *)
(* different nodes have run.                                               *)
(***************************************************************************)
THEOREM StepsAreBounded == Spec => []StepsBounded
<1> USE DEF StepInv
<1>1. Init => StepInv
  BY FS_EmptySet DEF Init
<1>2. TypeOK /\ StepInv /\ [Next]_vars => StepInv'
  <2> SUFFICES ASSUME TypeOK, StepInv, [Next]_vars PROVE StepInv'
    OBVIOUS
  <2> USE SuperStepAssumption
  <2>1. Cardinality(executed) \in Nat /\ step \in Nat /\ executed \in SUBSET Node
    <3>1. step \in Nat /\ executed \in SUBSET Node
      BY DEF TypeOK
    <3>2. Cardinality(executed) \in Nat
      BY <3>1, MoreExecuted
    <3> QED BY <3>1, <3>2
  <2>2. ASSUME NEW m \in Modes, NEW from, NEW input, Begin(m, from, input) PROVE StepInv'
    BY <2>2, FS_EmptySet DEF Begin, StartsAt
  <2>3. CASE SaveInitial \/ SaveStep \/ CheckComplete \/ Return \/ SaveRouteFails \/ NodesFail
    <3>1. CASE SaveInitial
      BY <2>1, <3>1 DEF SaveInitial, Fail, loop_vars
    <3>2. CASE SaveStep
      BY <2>1, <3>2 DEF SaveStep, Fail, loop_vars
    <3>3. CASE CheckComplete
      BY <2>1, <3>3 DEF CheckComplete, loop_vars
    <3>4. CASE Return
      BY <2>1, <3>4 DEF Return, Fail, loop_vars
    <3>5. CASE SaveRouteFails \/ NodesFail
      BY <2>1, <3>5 DEF SaveRouteFails, NodesFail, Fail, loop_vars
    <3> QED BY <2>3, <3>1, <3>2, <3>3, <3>4, <3>5
  <2>4. CASE StepLimit
    BY <2>1, <2>4 DEF StepLimit, Fail, loop_vars
  <2>5. CASE StartRouteFails \/ NothingReady
    BY <2>1, <2>5 DEF StartRouteFails, NothingReady, EnterStep, Fail
  <2>6. CASE StartNodes
    <3> DEFINE chosen == GetReadyNodes(graph, route, executed)
    <3>1. chosen \in SUBSET Node /\ chosen # {} /\ ready' \in SetToSeqs(chosen)
      BY <2>6, ReadyNodesAreNodes DEF StartNodes
    <3>2. ToSet(ready') # {} /\ ToSet(ready') \subseteq chosen
      BY <3>1, OrderingOfNodes
    <3>3. chosen \cap executed = {}
      BY DEF GetReadyNodes
    <3> QED BY <2>1, <2>6, <3>2, <3>3 DEF StartNodes, EnterStep
  <2>7. CASE MergeUpdates
    <3>1. ToSet(ready) \in SUBSET Node
      BY NodesOfSequence DEF TypeOK
    <3>2. /\ Cardinality(executed') \in Nat
          /\ Cardinality(executed) + 1 <= Cardinality(executed')
      BY <2>1, <2>7, <3>1, MoreExecuted DEF MergeUpdates, Joined
    <3>3. step <= Cardinality(executed') /\ step' = step /\ pc' = "save" /\ err' = err
      BY <2>1, <2>7, <3>2 DEF MergeUpdates
    <3> QED BY <2>1, <3>2, <3>3
  <2>8. ASSUME NEW n \in Node, NodeReturns(n) PROVE StepInv'
    BY <2>8 DEF NodeReturns
  <2>9. ASSUME NEW s \in pending, BackgroundPut(s) PROVE StepInv'
    BY <2>9 DEF BackgroundPut, loop_vars
  <2>10. CASE Cancel \/ Crash
    BY <2>10, FS_EmptySet DEF Cancel, Crash, RunDropped
  <2>11. CASE UNCHANGED vars
    BY <2>11 DEF vars, loop_vars
  <2> QED BY <2>2, <2>3, <2>4, <2>5, <2>6, <2>7, <2>8, <2>9, <2>10, <2>11
          DEF Next, Executor, Invoke, Resume
<1>3. StepInv => StepsBounded
  BY DEF StepsBounded
<1> QED BY <1>1, <1>2, <1>3, TypeCorrect, PTL DEF Spec
-------------------------------------------------------------------------------
(***************************************************************************)
(* Sequences of nodes: what follows a prefix, and what two of them make.   *)
(***************************************************************************)

\* What is merged is appended to what the run has merged before.
LEMMA MergedIsAppended ==
  ASSUME NEW k \in Nat, NEW v \in Seq(Node), NEW q \in Seq(Node), k <= Len(v)
  PROVE  /\ SubSeq(v, k + 1, Len(v)) \in Seq(Node)
         /\ SubSeq(v \o q, k + 1, Len(v \o q)) = SubSeq(v, k + 1, Len(v)) \o q
<1> DEFINE m == SubSeq(v, k + 1, Len(v))
           w == v \o q
           l == SubSeq(w, k + 1, Len(w))
           r == m \o q
<1>1. /\ w \in Seq(Node) /\ Len(w) = Len(v) + Len(q) /\ Len(v) \in Nat /\ Len(q) \in Nat
      /\ \A i \in 1..(Len(v) + Len(q)) : w[i] = IF i <= Len(v) THEN v[i] ELSE q[i - Len(v)]
  BY ConcatProperties
<1>2. /\ m \in Seq(Node) /\ Len(m) = Len(v) - k
      /\ \A i \in 1..(Len(v) - k) : m[i] = v[k + i]
  <2>1. \A i \in (k + 1)..Len(v) : v[i] \in Node
    BY <1>1
  <2>2. /\ m \in Seq(Node)
        /\ Len(m) = IF k + 1 <= Len(v) THEN Len(v) - (k + 1) + 1 ELSE 0
        /\ \A i \in 1..(Len(v) - (k + 1) + 1) : m[i] = v[k + 1 + i - 1]
    BY <1>1, <2>1, SubSeqProperties
  <2> QED BY <1>1, <2>2
<1>3. /\ l \in Seq(Node) /\ Len(l) = Len(v) + Len(q) - k
      /\ \A i \in 1..(Len(v) + Len(q) - k) : l[i] = w[k + i]
  <2>1. \A i \in (k + 1)..Len(w) : w[i] \in Node
    BY <1>1
  <2>2. /\ l \in Seq(Node)
        /\ Len(l) = IF k + 1 <= Len(w) THEN Len(w) - (k + 1) + 1 ELSE 0
        /\ \A i \in 1..(Len(w) - (k + 1) + 1) : l[i] = w[k + 1 + i - 1]
    BY <1>1, <2>1, SubSeqProperties
  <2> QED BY <1>1, <2>2
<1> HIDE DEF m, w, l
<1>4. /\ r \in Seq(Node) /\ Len(r) = Len(m) + Len(q)
      /\ \A i \in 1..(Len(m) + Len(q)) : r[i] = IF i <= Len(m) THEN m[i] ELSE q[i - Len(m)]
  BY <1>2, ConcatProperties
<1> HIDE DEF r
<1>5. Len(l) = Len(r)
  BY <1>1, <1>2, <1>3, <1>4
<1>6. \A i \in 1..Len(l) : l[i] = r[i]
  <2> SUFFICES ASSUME NEW i \in 1..Len(l) PROVE l[i] = r[i]
    OBVIOUS
  <2>1. l[i] = w[k + i] /\ k + i \in 1..(Len(v) + Len(q)) /\ i \in 1..(Len(m) + Len(q))
    BY <1>1, <1>2, <1>3
  <2>2. CASE i <= Len(m)
    BY <1>1, <1>2, <1>4, <2>1, <2>2
  <2>3. CASE i > Len(m)
    <3>1. r[i] = q[i - Len(m)]
      BY <1>1, <1>2, <1>4, <2>1, <2>3
    <3>2. k + i > Len(v) /\ (k + i) - Len(v) = i - Len(m)
      BY <1>1, <1>2, <2>3
    <3>3. w[k + i] = q[(k + i) - Len(v)]
      BY <1>1, <2>1, <3>2
    <3> QED BY <2>1, <3>1, <3>2, <3>3
  <2> QED BY <1>1, <1>2, <2>1, <2>2, <2>3
<1>7. l = r
  BY <1>3, <1>4, <1>5, <1>6, SeqEqual
<1> QED BY <1>2, <1>7 DEF m, w, l, r

\* Two sequences of different nodes with none in common make another one.
LEMMA ConcatenationOfNodes ==
  ASSUME NEW m \in Seq(Node), NEW q \in Seq(Node)
  PROVE  /\ ToSet(m \o q) = ToSet(m) \cup ToSet(q)
         /\ IsInjective(m) /\ IsInjective(q) /\ ToSet(m) \cap ToSet(q) = {} =>
              IsInjective(m \o q)
<1> DEFINE r == m \o q
<1>1. /\ r \in Seq(Node) /\ Len(r) = Len(m) + Len(q) /\ Len(m) \in Nat /\ Len(q) \in Nat
      /\ \A i \in 1..(Len(m) + Len(q)) : r[i] = IF i <= Len(m) THEN m[i] ELSE q[i - Len(m)]
  BY ConcatProperties
<1>2. DOMAIN r = 1..Len(r) /\ DOMAIN m = 1..Len(m) /\ DOMAIN q = 1..Len(q)
  BY <1>1
<1> HIDE DEF r
<1>3. \A i \in DOMAIN r : \/ i \in DOMAIN m /\ r[i] = m[i]
                          \/ i \notin DOMAIN m /\ i - Len(m) \in DOMAIN q /\ r[i] = q[i - Len(m)]
  BY <1>1, <1>2
<1>4. \A i \in DOMAIN q : i + Len(m) \in DOMAIN r /\ r[i + Len(m)] = q[i]
  BY <1>1, <1>2
<1>5. \A i \in DOMAIN m : i \in DOMAIN r /\ r[i] = m[i]
  BY <1>1, <1>2
<1>6. ToSet(r) = ToSet(m) \cup ToSet(q)
  <2>1. ToSet(r) \subseteq ToSet(m) \cup ToSet(q)
    BY <1>3 DEF ToSet
  <2>2. ToSet(m) \subseteq ToSet(r)
    BY <1>5 DEF ToSet
  <2>3. ToSet(q) \subseteq ToSet(r)
    BY <1>4 DEF ToSet
  <2> QED BY <2>1, <2>2, <2>3
<1>7. ASSUME IsInjective(m), IsInjective(q), ToSet(m) \cap ToSet(q) = {}
      PROVE  IsInjective(r)
  <2> SUFFICES ASSUME NEW i \in DOMAIN r, NEW j \in DOMAIN r, r[i] = r[j] PROVE i = j
    BY DEF IsInjective
  <2>1. CASE i \in DOMAIN m /\ j \in DOMAIN m
    BY <1>5, <1>7, <2>1 DEF IsInjective
  <2>2. CASE i \notin DOMAIN m /\ j \notin DOMAIN m
    <3>1. i - Len(m) = j - Len(m)
      BY <1>3, <1>7, <2>2 DEF IsInjective
    <3> QED BY <1>1, <1>2, <3>1
  <2>3. CASE i \in DOMAIN m /\ j \notin DOMAIN m
    BY <1>3, <1>7, <2>3 DEF ToSet
  <2>4. CASE i \notin DOMAIN m /\ j \in DOMAIN m
    BY <1>3, <1>7, <2>4 DEF ToSet
  <2> QED BY <2>1, <2>2, <2>3, <2>4
<1> QED BY <1>6, <1>7 DEF r

-------------------------------------------------------------------------------
(***************************************************************************)
(* The four kinds of steps the merged nodes can tell apart: a run begins   *)
(* or is lost, nodes are started, they are merged, or neither the state    *)
(* nor the executed nodes change.                                          *)
(***************************************************************************)
FreshStep == values' = base' /\ base' \in Seq(Node) /\ executed' = {} /\ pc' # "running"

ChooseStep ==
  /\ UNCHANGED <<base, values, executed>>
  /\ GetReadyNodes(graph, route, executed) \in SUBSET Node
  /\ ready' \in SetToSeqs(GetReadyNodes(graph, route, executed))

JoinStep ==
  /\ pc = "running" /\ pc' # "running" /\ base' = base
  /\ values' = values \o ready
  /\ executed' = executed \cup ToSet(ready)

QuietStep ==
  /\ UNCHANGED <<base, values, executed>>
  /\ pc' = "running" => pc = "running" /\ ready' = ready

\* Every step is of one of them, and the graph stays.
LEMMA NodeSteps ==
  ASSUME TypeOK, [Next]_vars
  PROVE  graph' = graph /\ (FreshStep \/ ChooseStep \/ JoinStep \/ QuietStep)
<1>1. ASSUME NEW m \in Modes, Invoke(m) PROVE graph' = graph /\ FreshStep
  BY <1>1, SuperStepAssumption DEF Invoke, Begin, StartsAt, FreshStep
<1>2. ASSUME NEW m \in Modes, NEW i \in DOMAIN history, Resume(m, i)
      PROVE  graph' = graph /\ FreshStep
  <2>1. history[i] \in Snapshot
    BY DEF TypeOK
  <2>2. history[i].values \in Seq(Node)
    BY <2>1 DEF Snapshot
  <2> QED BY <1>2, <2>2 DEF Resume, Begin, StartsAt, FreshStep
<1>3. CASE Cancel \/ Crash
  <2>1. <<>> \in Seq(Node)
    OBVIOUS
  <2> QED BY <1>3, <2>1 DEF Cancel, Crash, RunDropped, FreshStep
<1>4. CASE StartNodes
  BY <1>4, ReadyNodesAreNodes DEF StartNodes, EnterStep, ChooseStep, run_vars
<1>5. CASE MergeUpdates
  BY <1>5 DEF MergeUpdates, MergeStateUpdates, Joined, JoinStep, run_vars
<1>6. CASE SaveInitial \/ StepLimit \/ NodesFail \/ SaveRouteFails
  BY <1>6 DEF SaveInitial, StepLimit, NodesFail, SaveRouteFails, Fail, QuietStep, run_vars, loop_vars
<1>7. CASE StartRouteFails \/ NothingReady
  BY <1>7 DEF StartRouteFails, NothingReady, EnterStep, Fail, QuietStep, run_vars
<1>8. CASE SaveStep \/ CheckComplete \/ Return
  BY <1>8 DEF SaveStep, CheckComplete, Return, Fail, QuietStep, run_vars, loop_vars
<1>9. ASSUME NEW n \in Node, NodeReturns(n) PROVE graph' = graph /\ QuietStep
  BY <1>9 DEF NodeReturns, QuietStep, run_vars
<1>10. ASSUME NEW s \in pending, BackgroundPut(s) PROVE graph' = graph /\ QuietStep
  BY <1>10 DEF BackgroundPut, QuietStep, run_vars, loop_vars
<1>11. CASE UNCHANGED vars
  BY <1>11 DEF vars, QuietStep, run_vars, loop_vars
<1> QED BY <1>1, <1>2, <1>3, <1>4, <1>5, <1>6, <1>7, <1>8, <1>9, <1>10, <1>11
        DEF Next, Executor

\* An ordering of the ready nodes has each of them once, and none that is executed.
LEMMA ReadyOnce ==
  ASSUME ChooseStep
  PROVE  /\ ready' \in Seq(Node) /\ IsInjective(ready')
         /\ ToSet(ready') \subseteq GetReadyNodes(graph, route, executed)
         /\ ToSet(ready') \cap executed' = {}
<1> DEFINE chosen == GetReadyNodes(graph, route, executed)
           D      == 1..Cardinality(chosen)
<1>1. chosen \in SUBSET Node /\ ready' \in SetToSeqs(chosen)
  BY DEF ChooseStep
<1>2. ready' \in Seq(Node) /\ ToSet(ready') \subseteq chosen
  BY <1>1, OrderingOfNodes
<1>3. ready' \in [D -> chosen] /\ \A i, j \in D : i # j => ready'[i] # ready'[j]
  BY <1>1 DEF SetToSeqs
<1>4. IsInjective(ready')
  BY <1>3 DEF IsInjective
<1>5. chosen \cap executed = {}
  BY DEF GetReadyNodes
<1> QED BY <1>2, <1>4, <1>5 DEF ChooseStep

(***************************************************************************)
(* What makes NoNodeTwice inductive: the nodes that are running are        *)
(* different ones, and none of them has been executed.                     *)
(***************************************************************************)
OnceInv ==
  /\ NoNodeTwice
  /\ pc = "running" => IsInjective(ready) /\ ToSet(ready) \cap executed = {}

\* Of a run whose input is a past of its state.
LEMMA BaseIsPast ==
  ASSUME TypeOK, CheckpointInv
  PROVE  Len(base) \in Nat /\ Len(base) <= Len(values) /\ Merged \in Seq(Node)
<1>1. base \in Seq(Node) /\ values \in Seq(Node) /\ IsPrefix(base, values)
  BY DEF TypeOK, CheckpointInv
<1>2. Len(base) \in Nat /\ Len(base) <= Len(values)
  BY <1>1, PrefixByElement
<1>3. <<>> \in Seq(Node)
  OBVIOUS
<1> QED BY <1>1, <1>2, <1>3, MergedIsAppended DEF Merged

\* At its beginning a run has merged nothing.
LEMMA NothingMerged ==
  ASSUME FreshStep
  PROVE  Merged' = <<>> /\ ToSet(Merged') = {} /\ IsInjective(Merged')
<1>1. Merged' = SubSeq(values', Len(values') + 1, Len(values')) /\ Len(values') \in Nat
  BY DEF FreshStep, Merged
<1>2. Merged' = <<>>
  BY <1>1, SubSeqEmpty
<1> QED BY <1>2 DEF ToSet, IsInjective

\* A merge appends what was running.
LEMMA JoinIsAppended ==
  ASSUME TypeOK, CheckpointInv, JoinStep
  PROVE  Merged' = Merged \o ready /\ ready \in Seq(Node)
<1>1. ready \in Seq(Node) /\ values \in Seq(Node)
  BY DEF TypeOK
<1> QED BY <1>1, BaseIsPast, MergedIsAppended DEF JoinStep, Merged

(***************************************************************************)
(* A run merges no node twice, and has marked what it merged: whatever the *)
(* graph's loops, its conditions, the answers of the nodes, and wherever   *)
(* the run began.                                                          *)
(***************************************************************************)
THEOREM NodesRunOnce == Spec => []NoNodeTwice
<1>1. Init => OnceInv
  <2> SUFFICES ASSUME Init PROVE OnceInv
    OBVIOUS
  <2>1. Merged = <<>>
    BY SubSeqEmpty DEF Init, Merged
  <2> QED BY <2>1 DEF Init, OnceInv, NoNodeTwice, IsInjective, ToSet
<1>2. TypeOK /\ CheckpointInv /\ OnceInv /\ [Next]_vars => OnceInv'
  <2> SUFFICES ASSUME TypeOK, CheckpointInv, OnceInv, [Next]_vars PROVE OnceInv'
    OBVIOUS
  <2>1. CASE FreshStep
    BY <2>1, NothingMerged DEF FreshStep, OnceInv, NoNodeTwice
  <2>2. CASE ChooseStep
    <3>1. Merged' = Merged
      BY <2>2 DEF ChooseStep, Merged
    <3> QED BY <2>2, <3>1, ReadyOnce DEF ChooseStep, OnceInv, NoNodeTwice
  <2>3. CASE JoinStep
    <3>1. /\ Merged \in Seq(Node) /\ ready \in Seq(Node)
          /\ Merged' = Merged \o ready
      BY <2>3, BaseIsPast, JoinIsAppended
    <3>2. /\ IsInjective(Merged) /\ IsInjective(ready)
          /\ ToSet(Merged) = executed /\ ToSet(ready) \cap executed = {}
      BY <2>3 DEF JoinStep, OnceInv, NoNodeTwice
    <3>3. IsInjective(Merged') /\ ToSet(Merged') = executed'
      BY <2>3, <3>1, <3>2, ConcatenationOfNodes DEF JoinStep
    <3> QED BY <2>3, <3>3 DEF JoinStep, OnceInv, NoNodeTwice
  <2>4. CASE QuietStep
    <3>1. Merged' = Merged
      BY <2>4 DEF QuietStep, Merged
    <3> QED BY <2>4, <3>1 DEF QuietStep, OnceInv, NoNodeTwice
  <2> QED BY <2>1, <2>2, <2>3, <2>4, NodeSteps
<1>3. OnceInv => NoNodeTwice
  BY DEF OnceInv
<1> QED BY <1>1, <1>2, <1>3, TypeCorrect, CheckpointInvariant, PTL DEF Spec

-------------------------------------------------------------------------------
(***************************************************************************)
(* What makes PredecessorsFirst inductive: a node that is running was sent *)
(* by START, or has no predecessor left to wait for.                       *)
(***************************************************************************)
Allowed(n) == StartedByStart(n) \/ Predecessors(graph, n) \subseteq executed

OrderInv ==
  /\ PredecessorsFirst
  /\ pc = "running" => \A n \in ToSet(ready) : Allowed(n)

\* get_ready_nodes: START's targets at first, and then who waits for nobody.
LEMMA ReadyIsAllowed ==
  ASSUME TypeOK, ChooseStep, NEW n \in GetReadyNodes(graph, route, executed)
  PROVE  Allowed(n)
<1>1. CASE executed = {}
  <2>1. PICK e \in EdgesFrom(graph, {Start}) : n = route[e]
    BY <1>1 DEF GetReadyNodes, StartTargets
  <2>2. route[e] \in e.targets \/ route[e] = NoRoute
    BY <2>1 DEF TypeOK, Routes, EdgesFrom
  <2>3. n # NoRoute
    BY NodeAssumption DEF ChooseStep
  <2> QED BY <2>1, <2>2, <2>3 DEF Allowed, StartedByStart
<1>2. CASE executed # {}
  <2>1. Predecessors(graph, n) \subseteq executed \cup {Start}
    BY <1>2 DEF GetReadyNodes
  <2>2. CASE Start \in Predecessors(graph, n)
    BY <2>2 DEF Predecessors, Allowed, StartedByStart, EdgesFrom
  <2>3. CASE Start \notin Predecessors(graph, n)
    BY <2>1, <2>3 DEF Allowed
  <2> QED BY <2>2, <2>3
<1> QED BY <1>1, <1>2

\* Of what START sends to, and of what has been executed, there is only more.
LEMMA AllowedStays ==
  ASSUME NEW n, Allowed(n), graph' = graph, executed \subseteq executed'
  PROVE  Allowed(n)'
BY DEF Allowed, StartedByStart

(***************************************************************************)
(* "All its predecessor nodes have been executed": in every run, whichever *)
(* way its conditions go, each node but those START sends to comes after   *)
(* all of its predecessors.                                                *)
(***************************************************************************)
THEOREM PredecessorsRunFirst == Spec => []PredecessorsFirst
<1>1. Init => OrderInv
  <2> SUFFICES ASSUME Init PROVE OrderInv
    OBVIOUS
  <2>1. Merged = <<>>
    BY SubSeqEmpty DEF Init, Merged
  <2> QED BY <2>1 DEF Init, OrderInv, PredecessorsFirst
<1>2. TypeOK /\ CheckpointInv /\ NoNodeTwice /\ OrderInv /\ [Next]_vars => OrderInv'
  <2> SUFFICES ASSUME TypeOK, CheckpointInv, NoNodeTwice, OrderInv, [Next]_vars
               PROVE  OrderInv'
    OBVIOUS
  <2>1. graph' = graph
    BY NodeSteps
  <2>2. CASE FreshStep
    BY <2>2, NothingMerged DEF FreshStep, OrderInv, PredecessorsFirst
  <2>3. CASE ChooseStep
    <3>1. Merged' = Merged /\ executed' = executed
      BY <2>3 DEF ChooseStep, Merged
    <3>2. PredecessorsFirst'
      BY <2>1, <3>1 DEF OrderInv, PredecessorsFirst, StartedByStart
    <3>3. ASSUME NEW n \in ToSet(ready') PROVE Allowed(n)'
      <4>1. n \in GetReadyNodes(graph, route, executed)
        BY <2>3, ReadyOnce
      <4>2. Allowed(n)
        BY <2>3, <4>1, ReadyIsAllowed
      <4> QED BY <2>1, <3>1, <4>2, AllowedStays
    <3> QED BY <3>2, <3>3 DEF OrderInv
  <2>4. CASE JoinStep
    <3>1. /\ Merged \in Seq(Node) /\ ready \in Seq(Node)
          /\ Merged' = Merged \o ready /\ ToSet(Merged) = executed
      BY <2>4, BaseIsPast, JoinIsAppended DEF NoNodeTwice
    <3>2. /\ DOMAIN Merged = 1..Len(Merged) /\ Len(Merged) \in Nat /\ Len(ready) \in Nat
          /\ DOMAIN ready = 1..Len(ready) /\ DOMAIN Merged' = 1..(Len(Merged) + Len(ready))
          /\ \A i \in 1..(Len(Merged) + Len(ready)) :
               Merged'[i] = IF i <= Len(Merged) THEN Merged[i] ELSE ready[i - Len(Merged)]
      BY <3>1, ConcatProperties
    <3>3. ASSUME NEW i \in DOMAIN Merged'
          PROVE  \/ StartedByStart(Merged'[i])
                 \/ \A p \in Predecessors(graph, Merged'[i]) : \E j \in 1..(i - 1) : Merged'[j] = p
      <4>1. CASE i <= Len(Merged)
        <5>1. i \in DOMAIN Merged /\ Merged'[i] = Merged[i]
          BY <3>2, <4>1
        <5>2. \A j \in 1..(i - 1) : Merged'[j] = Merged[j]
          BY <3>2, <4>1
        <5> QED BY <5>1, <5>2 DEF OrderInv, PredecessorsFirst
      <4>2. CASE i > Len(Merged)
        <5>1. i - Len(Merged) \in DOMAIN ready /\ Merged'[i] = ready[i - Len(Merged)]
          BY <3>2, <4>2
        <5>2. Allowed(Merged'[i])
          BY <2>4, <5>1 DEF OrderInv, JoinStep, ToSet
        <5>3. ASSUME NEW p \in executed PROVE \E j \in 1..(i - 1) : Merged'[j] = p
          <6>1. PICK j \in DOMAIN Merged : Merged[j] = p
            BY <3>1 DEF ToSet
          <6>2. j \in 1..(i - 1) /\ Merged'[j] = p
            BY <3>2, <4>2, <6>1
          <6> QED BY <6>2
        <5> QED BY <5>2, <5>3 DEF Allowed
      <4> QED BY <3>2, <4>1, <4>2
    <3>4. PredecessorsFirst'
      BY <2>1, <3>3 DEF PredecessorsFirst, StartedByStart
    <3> QED BY <2>4, <3>4 DEF JoinStep, OrderInv
  <2>5. CASE QuietStep
    <3>1. Merged' = Merged /\ executed' = executed
      BY <2>5 DEF QuietStep, Merged
    <3>2. PredecessorsFirst'
      BY <2>1, <3>1 DEF OrderInv, PredecessorsFirst, StartedByStart
    <3>3. pc' = "running" => \A n \in ToSet(ready') : Allowed(n)'
      BY <2>1, <2>5, <3>1, AllowedStays DEF QuietStep, OrderInv
    <3> QED BY <3>2, <3>3 DEF OrderInv
  <2> QED BY <2>2, <2>3, <2>4, <2>5, NodeSteps
<1>3. OrderInv => PredecessorsFirst
  BY DEF OrderInv
<1> QED BY <1>1, <1>2, <1>3, TypeCorrect, CheckpointInvariant, NodesRunOnce, PTL DEF Spec

-------------------------------------------------------------------------------
(***************************************************************************)
(* What a run leaves behind.                                               *)
(***************************************************************************)

\* Nothing that is stored is ever lost.
LEMMA StoredStays ==
  ASSUME TypeOK, [Next]_vars
  PROVE  Stored \subseteq Stored'
<1>1. CASE history' = history
  BY <1>1 DEF Stored
<1>2. CASE SaveInitial
  <2>1. Put(NewSnapshot({Start})) \/ PutFails
    BY <1>2 DEF SaveInitial
  <2> QED BY <2>1, PutSaves
<1>3. CASE SaveStep
  <2> DEFINE next == GetNextNodes(graph, route, ToSet(ready))
  <2>1. next \in SUBSET (Node \cup {Start})
    BY <1>3, NextNodesAreNodes DEF SaveStep
  <2>2. Put(NewSnapshot(next)) \/ PutFails \/ history' = history
    BY <1>3 DEF SaveStep
  <2> QED BY <1>1, <2>1, <2>2, PutSaves
<1>4. CASE Return
  <2>1. Put(NewSnapshot({})) \/ PutFails \/ history' = history
    BY <1>4 DEF Return, store_vars
  <2> QED BY <1>1, <2>1, PutSaves
<1>5. ASSUME NEW s \in pending, BackgroundPut(s) PROVE Stored \subseteq Stored'
  BY <1>5, BackgroundPutSaves
<1>6. ASSUME NEW m \in Modes, NEW from, NEW input, Begin(m, from, input) PROVE history' = history
  BY <1>6 DEF Begin, store_vars
<1>7. CASE \/ StepLimit \/ StartRouteFails \/ NothingReady \/ StartNodes \/ NodesFail
           \/ MergeUpdates \/ SaveRouteFails \/ CheckComplete
  BY <1>1, <1>7 DEF StepLimit, StartRouteFails, NothingReady, StartNodes, EnterStep, NodesFail,
                    MergeUpdates, SaveRouteFails, CheckComplete, store_vars
<1>8. ASSUME NEW n \in Node, NodeReturns(n) PROVE history' = history
  BY <1>8 DEF NodeReturns, store_vars
<1>9. CASE Cancel \/ Crash
  BY <1>1, <1>9 DEF Cancel, Crash, RunDropped
<1>10. CASE UNCHANGED vars
  BY <1>1, <1>10 DEF vars, store_vars
<1> QED BY <1>1, <1>2, <1>3, <1>4, <1>5, <1>6, <1>7, <1>8, <1>9, <1>10
        DEF Next, Executor, Invoke, Resume

(***************************************************************************)
(* What makes ParentsAreStored inductive: the parent of the run is stored, *)
(* and the run's input extends it.                                         *)
(***************************************************************************)
ParentInv ==
  /\ ParentsAreStored
  /\ parent # 0 => \E t \in Stored : t.id = parent /\ IsPrefix(t.values, base)

\* A run begins with a parent that is stored, or with none, and keeps it.
LEMMA ParentSteps ==
  ASSUME TypeOK, [Next]_vars
  PROVE  \/ parent' = 0
         \/ \E t \in Stored : parent' = t.id /\ base' = t.values
         \/ parent' = parent /\ base' = base
<1>1. ASSUME NEW m \in Modes, Invoke(m) PROVE parent' = 0
  BY <1>1 DEF Invoke, Begin
<1>2. ASSUME NEW m \in Modes, NEW i \in DOMAIN history, Resume(m, i)
      PROVE  \E t \in Stored : parent' = t.id /\ base' = t.values
  <2>1. history[i] \in Stored
    BY DEF Stored, ToSet
  <2> QED BY <1>2, <2>1 DEF Resume, Begin
<1>3. CASE Executor
  BY <1>3 DEF Executor, SaveInitial, StepLimit, StartRouteFails, NothingReady, StartNodes, EnterStep,
              NodesFail, MergeUpdates, SaveRouteFails, SaveStep, CheckComplete, Return, run_vars
<1>4. ASSUME NEW n \in Node, NodeReturns(n) PROVE parent' = parent /\ base' = base
  BY <1>4 DEF NodeReturns, run_vars
<1>5. ASSUME NEW s \in pending, BackgroundPut(s) PROVE parent' = parent /\ base' = base
  BY <1>5 DEF BackgroundPut, run_vars
<1>6. CASE Cancel \/ Crash
  BY <1>6 DEF Cancel, Crash, RunDropped
<1>7. CASE UNCHANGED vars
  BY <1>7 DEF vars, run_vars
<1> QED BY <1>1, <1>2, <1>3, <1>4, <1>5, <1>6, <1>7 DEF Next

(***************************************************************************)
(* A fork's parent is there: every checkpoint that names a parent was made *)
(* after it and extends it, and the parent is stored, with puts that are   *)
(* late, failed or lost, in every mode.                                    *)
(***************************************************************************)
THEOREM ForksHaveTheirParents == Spec => []ParentsAreStored
<1>1. Init => ParentInv
  BY DEF Init, ParentInv, ParentsAreStored, Stored, ToSet
<1>2. TypeOK /\ TypeOK' /\ CheckpointInv /\ ParentInv /\ [Next]_vars => ParentInv'
  <2> SUFFICES ASSUME TypeOK, TypeOK', CheckpointInv, ParentInv, [Next]_vars PROVE ParentInv'
    OBVIOUS
  <2>1. /\ Saved \subseteq Snapshot /\ Stored \subseteq Saved
        /\ \A s \in Saved : s.id \in Nat /\ s.values \in Seq(Node) /\ s.id <= made
        /\ made \in Nat /\ base \in Seq(Node) /\ values \in Seq(Node) /\ IsPrefix(base, values)
    BY SavedType DEF Saved, Snapshot, CheckpointInv, TypeOK
  <2>2. Stored \subseteq Stored'
    BY StoredStays
  <2>3. parent' # 0 => \E t \in Stored' : t.id = parent' /\ IsPrefix(t.values, base')
    <3>1. ASSUME NEW t \in Stored, parent' = t.id, base' = t.values
          PROVE  \E u \in Stored' : u.id = parent' /\ IsPrefix(u.values, base')
      BY <2>1, <2>2, <3>1, PrefixReflexive
    <3>2. ASSUME parent' = parent, base' = base, parent' # 0
          PROVE  \E u \in Stored' : u.id = parent' /\ IsPrefix(u.values, base')
      BY <2>2, <3>2 DEF ParentInv
    <3> QED BY <3>1, <3>2, ParentSteps
  <2>4. ASSUME NEW s \in Saved, s.parent # 0
        PROVE  \E t \in Stored' : t.id = s.parent /\ t.id < s.id /\ IsPrefix(t.values, s.values)
    BY <2>2, <2>4 DEF ParentInv, ParentsAreStored, Saved
  <2>5. ASSUME NEW next \in SUBSET (Node \cup {Start}), parent # 0
        PROVE  \E t \in Stored' : /\ t.id = NewSnapshot(next).parent
                                /\ t.id < NewSnapshot(next).id
                                /\ IsPrefix(t.values, NewSnapshot(next).values)
    <3>1. PICK t \in Stored : t.id = parent /\ IsPrefix(t.values, base)
      BY <2>5 DEF ParentInv
    <3>2. IsPrefix(t.values, values)
      BY <2>1, <3>1, PrefixTransitive
    <3>3. t.id < made + 1
      BY <2>1, <3>1
    <3> QED BY <2>2, <3>1, <3>2, <3>3 DEF NewSnapshot
  <2>6. \/ Saved' \subseteq Saved
        \/ \E next \in SUBSET (Node \cup {Start}) : Saved' = Saved \cup {NewSnapshot(next)}
    BY StepKinds DEF BeginStep, CrashStep, MergeStep, WriteStep
  <2>7. ParentsAreStored'
    <3> SUFFICES ASSUME NEW s \in Saved', s.parent # 0
                 PROVE  \E t \in Stored' : /\ t.id = s.parent /\ t.id < s.id
                                         /\ IsPrefix(t.values, s.values)
      BY DEF ParentsAreStored, Saved
    <3>1. CASE s \in Saved
      BY <2>4, <3>1
    <3>2. ASSUME NEW next \in SUBSET (Node \cup {Start}), s = NewSnapshot(next)
          PROVE  \E t \in Stored' : /\ t.id = s.parent /\ t.id < s.id
                                  /\ IsPrefix(t.values, s.values)
      <4>1. parent # 0
        BY <3>2 DEF NewSnapshot
      <4> QED BY <2>5, <3>2, <4>1
    <3> QED BY <2>6, <3>1, <3>2
  <2> QED BY <2>3, <2>7 DEF ParentInv
<1>3. ParentInv => ParentsAreStored
  BY DEF ParentInv
<1> QED BY <1>1, <1>2, <1>3, TypeCorrect, CheckpointInvariant, PTL DEF Spec

-------------------------------------------------------------------------------
(***************************************************************************)
(* What the run that is under way has saved.                               *)
(***************************************************************************)
Mine == {s \in Saved : OfThisRun(s)}

\* What makes ExitSavesOnlyTheEnd inductive: the initial checkpoint is Sync's.
ExitInv ==
  /\ ExitSavesOnlyTheEnd
  /\ pc = "initial" => mode = "Sync"

\* A step begins a run, or ends one with its checkpoint, or saves nothing new in it.
FirstStep == run' = run + 1 /\ Saved' = Saved /\ pc' \in {"initial", "schedule"}

LastStep ==
  /\ run' = run /\ values' = values /\ pc = "exit" /\ pc' = "done"
  /\ Saved' \in {Saved, Saved \cup {NewSnapshot({})}} /\ NewSnapshot({}) \in Stored'

OtherStep ==
  /\ run' = run /\ Saved' \subseteq Saved
  /\ pc # "idle" /\ (pc' = "done" <=> pc = "done")
  /\ pc = "done" => values' = values

LEMMA ExitSteps ==
  ASSUME TypeOK, ExitInv, [Next]_vars
  PROVE  /\ pc' = "initial" => mode' = "Sync"
         /\ mode' = "Exit" /\ pc' # "idle" =>
              FirstStep \/ (mode = "Exit" /\ (LastStep \/ OtherStep))
<1> DEFINE Goal == /\ pc' = "initial" => mode' = "Sync"
                   /\ mode' = "Exit" /\ pc' # "idle" =>
                        FirstStep \/ (mode = "Exit" /\ (LastStep \/ OtherStep))
<1>1. ASSUME NEW m \in Modes, NEW from, NEW input, Begin(m, from, input) PROVE Goal
  <2>1. run' = run + 1 /\ mode' = m /\ pc' = IF m = "Sync" THEN "initial" ELSE "schedule"
    BY <1>1 DEF Begin, StartsAt
  <2>2. Saved' = Saved
    BY <1>1 DEF Begin, store_vars, Saved, Stored
  <2> QED BY <2>1, <2>2 DEF FirstStep
<1>2. CASE SaveInitial
  BY <1>2 DEF SaveInitial, Fail, ExitInv, run_vars
<1>3. CASE \/ StepLimit \/ StartRouteFails \/ NothingReady \/ StartNodes \/ NodesFail
           \/ MergeUpdates \/ SaveRouteFails \/ CheckComplete
  <2>1. /\ mode' = mode /\ run' = run /\ Saved' = Saved
        /\ pc \notin {"idle", "done"} /\ pc' \notin {"initial", "done"}
    BY <1>3 DEF StepLimit, StartRouteFails, NothingReady, StartNodes, EnterStep, NodesFail, Joined,
                MergeUpdates, SaveRouteFails, CheckComplete, Fail, run_vars, store_vars, Saved, Stored
  <2> QED BY <2>1 DEF OtherStep
<1>4. CASE SaveStep
  <2>1. /\ mode' = mode /\ run' = run /\ pc = "save" /\ pc' \notin {"initial", "done"}
        /\ mode = "Exit" => Saved' = Saved
    BY <1>4 DEF SaveStep, Fail, run_vars, Saved, Stored
  <2> QED BY <2>1 DEF OtherStep
<1>5. CASE Return
  <2>1. mode' = mode /\ run' = run /\ values' = values /\ pc = "exit" /\ pc' # "initial"
    BY <1>5 DEF Return, Fail, run_vars, loop_vars
  <2>2. CASE Put(NewSnapshot({})) /\ pc' = "done"
    <3>1. /\ Saved' = Saved \/ Saved' = Saved \cup {NewSnapshot({})}
          /\ NewSnapshot({}) \in Stored'
      BY <2>2, PutSaves
    <3> QED BY <2>1, <2>2, <3>1 DEF LastStep
  <2>3. CASE PutFails /\ pc' = "failed"
    BY <2>1, <2>3 DEF OtherStep, PutFails, Saved, Stored
  <2>4. CASE mode # "Exit"
    BY <2>1, <2>4
  <2> QED BY <1>5, <2>2, <2>3, <2>4 DEF Return, Fail
<1>6. ASSUME NEW n \in Node, NodeReturns(n) PROVE Goal
  <2>1. /\ mode' = mode /\ run' = run /\ values' = values /\ Saved' = Saved
        /\ pc = "running" /\ pc' = "running"
    BY <1>6 DEF NodeReturns, run_vars, store_vars, Saved, Stored
  <2> QED BY <2>1 DEF OtherStep
<1>7. ASSUME NEW s \in pending, BackgroundPut(s) PROVE Goal
  <2>1. Saved' \subseteq Saved
    BY <1>7, BackgroundPutSaves
  <2> QED BY <1>7, <2>1 DEF BackgroundPut, run_vars, loop_vars, OtherStep, ExitInv
<1>8. CASE Cancel \/ Crash
  BY <1>8 DEF Cancel, Crash, RunDropped
<1>9. CASE UNCHANGED vars
  <2>1. /\ mode' = mode /\ run' = run /\ values' = values /\ Saved' = Saved /\ pc' = pc
    BY <1>9 DEF vars, run_vars, loop_vars, store_vars, Saved, Stored
  <2> QED BY <2>1 DEF OtherStep, ExitInv
<1> QED BY <1>1, <1>2, <1>3, <1>4, <1>5, <1>6, <1>7, <1>8, <1>9
        DEF Next, Executor, Invoke, Resume

(***************************************************************************)
(* An Exit run saves its end and nothing else: while it runs, and after it *)
(* failed, it has no checkpoint, and one that returned has the one of its  *)
(* final state.                                                            *)
(***************************************************************************)
THEOREM ExitRunsSaveTheirEnd == Spec => []ExitSavesOnlyTheEnd
<1>1. Init => ExitInv
  BY DEF Init, ExitInv, ExitSavesOnlyTheEnd
<1>2. TypeOK /\ CheckpointInv /\ ExitInv /\ [Next]_vars => ExitInv'
  <2> SUFFICES ASSUME TypeOK, CheckpointInv, ExitInv, [Next]_vars PROVE ExitInv'
    OBVIOUS
  <2>1. /\ \A s \in Saved : s.run \in Nat /\ s.run <= run
        /\ run \in Nat
    BY SavedType DEF CheckpointInv, TypeOK, Snapshot
  <2>2. SUFFICES ASSUME mode' = "Exit", pc' # "idle"
                 PROVE  IF pc' = "done" THEN \E s \in Stored' : Mine' = {s} /\ s.values = values'
                                        ELSE Mine' = {}
    BY ExitSteps DEF ExitInv, ExitSavesOnlyTheEnd, Mine, Saved
  <2>3. CASE FirstStep
    BY <2>1, <2>3 DEF FirstStep, Mine, OfThisRun
  <2>4. ASSUME mode = "Exit", pc # "idle"
        PROVE  IF pc = "done" THEN \E s \in Stored : Mine = {s} /\ s.values = values
                              ELSE Mine = {}
    BY <2>4 DEF ExitInv, ExitSavesOnlyTheEnd, Mine, Saved
  <2>5. CASE mode = "Exit" /\ LastStep
    <3> DEFINE new == NewSnapshot({})
    <3>1. new.run = run /\ new.values = values
      BY DEF NewSnapshot
    <3>2. Mine = {}
      BY <2>4, <2>5 DEF LastStep
    <3>3. new \in Saved' /\ Saved' \subseteq Saved \cup {new} /\ new \in Stored'
      BY <2>5 DEF LastStep, Saved
    <3>4. Mine' = {new}
      BY <2>5, <3>1, <3>2, <3>3 DEF LastStep, Mine, OfThisRun
    <3> QED BY <2>5, <3>1, <3>3, <3>4 DEF LastStep
  <2>6. CASE mode = "Exit" /\ OtherStep
    <3>1. Mine' \subseteq Mine
      BY <2>6 DEF OtherStep, Mine, OfThisRun
    <3>2. CASE pc = "done"
      <4>1. PICK s \in Stored : Mine = {s} /\ s.values = values
        BY <2>4, <2>6, <3>2 DEF OtherStep
      <4>2. s \in Stored' /\ s \in Saved' /\ s.run = run
        BY <4>1, StoredStays DEF Saved, Mine, OfThisRun
      <4>3. Mine' = {s}
        BY <2>6, <3>1, <4>1, <4>2 DEF OtherStep, Mine, OfThisRun
      <4> QED BY <2>6, <3>2, <4>1, <4>2, <4>3 DEF OtherStep
    <3>3. CASE pc # "done"
      BY <2>4, <2>6, <3>1, <3>3 DEF OtherStep
    <3> QED BY <3>2, <3>3
  <2> QED BY <2>2, <2>3, <2>5, <2>6, ExitSteps DEF FirstStep
<1>3. ExitInv => ExitSavesOnlyTheEnd
  BY DEF ExitInv
<1> QED BY <1>1, <1>2, <1>3, TypeCorrect, CheckpointInvariant, PTL DEF Spec
-------------------------------------------------------------------------------
(***************************************************************************)
(* The super-step executor implements a checkpointed thread.               *)
(***************************************************************************)
\* What a put adds to the checkpoints that can be read back.
LEMMA PutPoints ==
  ASSUME TypeOK, NEW next \in SUBSET (Node \cup {Start}), Put(NewSnapshot(next))
  PROVE  /\ Points(Stored)' = Points(Stored) \cup {[run |-> run, values |-> values]}
         /\ Points(pending)' = Points(pending)
<1>1. NewSnapshot(next) \in Snapshot
  BY SnapshotType
<1>2. Stored' = Stored \cup {NewSnapshot(next)}
  BY <1>1, AppendSet DEF TypeOK, Stored, Put
<1>3. NewSnapshot(next).run = run /\ NewSnapshot(next).values = values
  BY DEF NewSnapshot
<1> QED BY <1>2, <1>3 DEF Put, Points

\* Nothing is read back that was not, and nothing is sent.
SamePoints ==
  /\ Points(Stored)' = Points(Stored)
  /\ Points(pending)' = Points(pending)

LEMMA SameCheckpoints ==
  ASSUME history' = history, pending' = pending
  PROVE  SamePoints
BY DEF SamePoints, Points, Stored

\* The state at hand is saved, or the put fails and the call with it.
LEMMA PutMaps ==
  ASSUME TypeOK, NEW next \in SUBSET (Node \cup {Start}), Running,
         Put(NewSnapshot(next)) \/ (PutFails /\ ~Running'),
         base' = base, values' = values, run' = run
  PROVE  Thread!Next
<1>1. Running' \in BOOLEAN
  BY DEF Running
<1>2. CASE Put(NewSnapshot(next))
  BY <1>1, <1>2, PutPoints DEF Thread!Next, Thread!Save, Thread!Checkpoint
<1>3. CASE PutFails /\ ~Running'
  BY <1>3, SameCheckpoints DEF PutFails, SamePoints, Thread!Next, Thread!Finish
<1> QED BY <1>2, <1>3

\* A step that leaves the run's state and the checkpoints alone.
LEMMA QuietMaps ==
  ASSUME Running, history' = history, pending' = pending,
         base' = base, values' = values, run' = run
  PROVE  [Thread!Next]_(Thread!vars)
<1>1. SamePoints
  BY SameCheckpoints
<1>2. CASE Running'
  BY <1>1, <1>2 DEF SamePoints, Thread!vars, Running
<1>3. CASE ~Running'
  BY <1>1, <1>3 DEF SamePoints, Thread!Next, Thread!Finish, Running
<1> QED BY <1>2, <1>3

\* The input of a run is empty or what a stored checkpoint holds.
LEMMA BeginMaps ==
  ASSUME TypeOK, NEW m, NEW from, NEW input, Begin(m, from, input),
         input = <<>> \/ \E s \in Stored : input = s.values
  PROVE  Thread!Next
<1>1. SamePoints
  BY SameCheckpoints DEF Begin, store_vars
<1>2. ASSUME NEW s \in Stored, input = s.values
      PROVE  \E c \in Points(Stored) : input = c.values
  <2>1. [run |-> s.run, values |-> s.values] \in Points(Stored)
    BY DEF Points
  <2> QED BY <1>2, <2>1
<1>3. Running' = TRUE /\ Running = FALSE
  BY DEF Begin, StartsAt, Running
<1> QED BY <1>1, <1>2, <1>3 DEF Begin, SamePoints, Thread!Next, Thread!Begin

\* A spawned put lands, or is refused.
LEMMA ArrivalMaps ==
  ASSUME TypeOK, NEW s \in pending, BackgroundPut(s)
  PROVE  Thread!Next
<1>1. ToSet(Append(history, s)) = Stored \cup {s}
  BY AppendSet DEF TypeOK, Stored
<1>2. Stored' = Stored \cup {s} \/ Stored' = Stored
  BY <1>1 DEF BackgroundPut, Stored
<1>3. /\ Points(Stored) \subseteq Points(Stored)'
      /\ Points(Stored)' \subseteq Points(Stored) \cup Points(pending)
  BY <1>2 DEF Points
<1>4. Points(pending)' \subseteq Points(pending)
  BY DEF BackgroundPut, Points
<1>5. Running' = Running /\ base' = base /\ values' = values /\ run' = run
  BY DEF BackgroundPut, Running, run_vars, loop_vars
<1> QED BY <1>3, <1>4, <1>5 DEF Thread!Next, Thread!Arrive

\* The run is gone, and maybe the puts on their way.
LEMMA LossMaps ==
  ASSUME Cancel \/ Crash
  PROVE  Thread!Next
<1>1. /\ Running' = FALSE /\ base' = <<>> /\ values' = <<>> /\ run' = run
      /\ history' = history /\ pending' \in {pending, {}}
  BY DEF Cancel, Crash, RunDropped, Running
<1>2. Points(Stored)' = Points(Stored)
  BY <1>1 DEF Points, Stored
<1>3. Points(pending)' \in {Points(pending), {}}
  BY <1>1 DEF Points
<1> QED BY <1>1, <1>2, <1>3 DEF Thread!Next, Thread!Lose

\* The nodes' messages come after those that are there.
LEMMA MergeMaps ==
  ASSUME TypeOK, MergeUpdates
  PROVE  Thread!Next
<1>1. SamePoints
  BY SameCheckpoints DEF MergeUpdates, store_vars
<1>2. values' = values \o ready /\ values \in Seq(Node) /\ ready \in Seq(Node)
  BY DEF MergeUpdates, MergeStateUpdates, TypeOK
<1>3. values' \in Seq(Node) /\ IsPrefix(values, values')
  BY <1>2, PrefixOfConcatenation
<1>4. Running = TRUE /\ Running' = TRUE /\ base' = base /\ run' = run
  BY DEF MergeUpdates, Joined, Running, run_vars
<1>5. Thread!IsPrefix(values, values')
  BY <1>3 DEF IsPrefix, Thread!IsPrefix
<1> QED BY <1>1, <1>3, <1>4, <1>5 DEF SamePoints, Thread!Next, Thread!Merge

\* A super-step's checkpoint by mode.
LEMMA SaveMaps ==
  ASSUME TypeOK, SaveStep
  PROVE  [Thread!Next]_(Thread!vars)
<1> DEFINE next     == GetNextNodes(graph, route, ToSet(ready))
           snapshot == NewSnapshot(next)
<1>1. next \in SUBSET (Node \cup {Start})
  BY NextNodesAreNodes DEF SaveStep
<1>2. Running /\ base' = base /\ values' = values /\ run' = run
  BY DEF SaveStep, Running, run_vars, loop_vars
<1>3. CASE Put(snapshot) \/ (PutFails /\ Fail("checkpoint"))
  <2>1. Put(snapshot) \/ (PutFails /\ ~Running')
    BY <1>3 DEF Fail, Running
  <2> QED BY <1>1, <1>2, <2>1, PutMaps
<1>4. CASE pending' = pending \cup {snapshot} /\ history' = history /\ pc' = "check"
  <2>1. Points(pending)' = Points(pending) \cup {[run |-> run, values |-> values]}
    <3>1. snapshot.run = run /\ snapshot.values = values
      BY DEF NewSnapshot
    <3> HIDE DEF snapshot
    <3> QED BY <1>4, <3>1 DEF Points
  <2>2. Points(Stored)' = Points(Stored)
    BY <1>4 DEF Points, Stored
  <2>3. Running' = TRUE
    BY <1>4 DEF Running
  <2> QED BY <1>2, <2>1, <2>2, <2>3 DEF Thread!Next, Thread!Save, Thread!Checkpoint
<1>5. CASE history' = history /\ pending' = pending
  BY <1>2, <1>5, QuietMaps
<1>6. \/ Put(snapshot) \/ (PutFails /\ Fail("checkpoint"))
      \/ pending' = pending \cup {snapshot} /\ history' = history /\ pc' = "check"
      \/ history' = history /\ pending' = pending
  BY DEF SaveStep
<1> HIDE DEF snapshot, next
<1> QED BY <1>3, <1>4, <1>5, <1>6

(***************************************************************************)
(* Every step of the executor, of its nodes, of the spawned puts and of    *)
(* the process is a step of the thread or leaves the thread as it is.      *)
(***************************************************************************)
LEMMA StepMaps ==
  ASSUME TypeOK, [Next]_vars
  PROVE  [Thread!Next]_(Thread!vars)
<1>1. ASSUME NEW m \in Modes, Invoke(m) PROVE Thread!Next
  BY <1>1, BeginMaps DEF Invoke
<1>2. ASSUME NEW m \in Modes, NEW i \in DOMAIN history, Resume(m, i) PROVE Thread!Next
  <2>1. history[i] \in Stored
    BY DEF Stored, ToSet
  <2> QED BY <1>2, <2>1, BeginMaps DEF Resume
<1>3. CASE SaveInitial
  <2>1. Put(NewSnapshot({Start})) \/ (PutFails /\ ~Running')
    <3>1. Put(NewSnapshot({Start})) \/ (PutFails /\ Fail("checkpoint"))
      BY <1>3 DEF SaveInitial
    <3>2. Fail("checkpoint") => ~Running'
      BY DEF Fail, Running
    <3> QED BY <3>1, <3>2
  <2>2. Running /\ base' = base /\ values' = values /\ run' = run
    BY <1>3 DEF SaveInitial, Running, run_vars, loop_vars
  <2> QED BY <2>1, <2>2, PutMaps
<1>4. CASE StepLimit \/ NodesFail \/ SaveRouteFails \/ CheckComplete
  <2>1. /\ Running /\ history' = history /\ pending' = pending
        /\ base' = base /\ values' = values /\ run' = run
    BY <1>4 DEF StepLimit, NodesFail, Joined, SaveRouteFails, CheckComplete, Running, run_vars,
                loop_vars, store_vars
  <2> QED BY <2>1, QuietMaps
<1>5. CASE StartRouteFails \/ NothingReady \/ StartNodes
  <2>1. /\ Running /\ history' = history /\ pending' = pending
        /\ base' = base /\ values' = values /\ run' = run
    BY <1>5 DEF StartRouteFails, NothingReady, StartNodes, EnterStep, Running, run_vars,
                store_vars
  <2> QED BY <2>1, QuietMaps
<1>6. CASE MergeUpdates
  BY <1>6, MergeMaps
<1>7. CASE SaveStep
  BY <1>7, SaveMaps
<1>8. CASE Return
  <2>1. Running /\ base' = base /\ values' = values /\ run' = run
    BY <1>8 DEF Return, Running, run_vars, loop_vars
  <2>2. CASE history' = history /\ pending' = pending
    BY <2>1, <2>2, QuietMaps
  <2>3. CASE Put(NewSnapshot({}))
    <3>1. {} \in SUBSET (Node \cup {Start})
      OBVIOUS
    <3> QED BY <2>1, <2>3, <3>1, PutMaps
  <2> QED BY <1>8, <2>2, <2>3 DEF Return, PutFails, store_vars
<1>9. ASSUME NEW n \in Node, NodeReturns(n) PROVE [Thread!Next]_(Thread!vars)
  <2>1. /\ Running /\ history' = history /\ pending' = pending
        /\ base' = base /\ values' = values /\ run' = run
    BY <1>9 DEF NodeReturns, Running, run_vars, store_vars
  <2> QED BY <2>1, QuietMaps
<1>10. ASSUME NEW s \in pending, BackgroundPut(s) PROVE Thread!Next
  BY <1>10, ArrivalMaps
<1>11. CASE Cancel \/ Crash
  BY <1>11, LossMaps
<1>12. CASE UNCHANGED vars
  <2>1. SamePoints
    BY <1>12, SameCheckpoints DEF vars, store_vars
  <2> QED BY <1>12, <2>1 DEF vars, run_vars, loop_vars, SamePoints, Running, Thread!vars
<1> QED BY <1>1, <1>2, <1>3, <1>4, <1>5, <1>6, <1>7, <1>8, <1>9, <1>10, <1>11, <1>12
        DEF Next, Executor

(***************************************************************************)
(* The executor implements the checkpointed thread: whatever the graph,    *)
(* the durability mode, the failures, the cancellations and the crashes,   *)
(* its callers see a state that grows from an input that was empty or      *)
(* stored, and checkpoints of that state that stay once they are put.      *)
(***************************************************************************)
THEOREM ExecutorImplementsThread == Spec => ImplementsThread
<1>1. Init => Thread!Init
  BY DEF Init, Thread!Init, Running, Points, Stored, ToSet
<1>2. TypeOK /\ [Next]_vars => [Thread!Next]_(Thread!vars)
  BY StepMaps
<1> QED BY <1>1, <1>2, TypeCorrect, PTL DEF Spec, ImplementsThread, Thread!Spec
===============================================================================

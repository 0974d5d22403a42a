---------------------------- MODULE Checkpointers ----------------------------
(***************************************************************************)
(* The two implementations of Checkpointer, InMemorySaver and SqliteSaver, *)
(* behind the calls a CompiledGraph makes of them: the puts of executors,  *)
(* which may reach the saver long after their snapshot was made, get_state *)
(* and get_state_history, and update_state, which reads a checkpoint and   *)
(* puts its successor in two calls.                                        *)
(*                                                                         *)
(* A state is the sequence of the updates that made it.  created_at comes  *)
(* from a clock that never gives the same instant twice.                   *)
(***************************************************************************)
EXTENDS Naturals, Selection, FiniteSetsExt

CONSTANTS
  Thread, Writer,
  Update,        \* what update_state, or a node, appends to a state
  MaxSnapshots   \* bound on the snapshots that are made

VARIABLES
  saver,   \* which of the two implementations is in use
  rows,    \* the checkpoints, in the order in which they were put
  clock,   \* the instant of the last snapshot
  held     \* held[w]: the snapshots, at most one, that w has made and not yet put

vars == <<saver, rows, clock, held>>

NoParent == 0
Latest   == 0   \* get(thread_id, None)

Snapshot(t, at, parent) ==
  [thread |-> t, values |-> at, parent |-> parent, created |-> clock + 1]

-------------------------------------------------------------------------------
(* Reading.                                                                *)

RowsOf(t) == {i \in DOMAIN rows : rows[i].thread = t}

OfThread(t) == Selected(rows, RowsOf(t))

\* Fault: the query by id forgets the thread.
MatchingOfAnyThread(t, id) ==
  Selected(rows, IF id = Latest THEN RowsOf(t) ELSE {i \in DOMAIN rows : rows[i].id = id})

\* WHERE thread_id = ?1 [AND checkpoint_id = ?2]; the filter of find().
Matching(t, id) == Selected(rows, {i \in RowsOf(t) : id \in {Latest, rows[i].id}})

\* Fault: ORDER BY created_at ASC LIMIT 1.
EarliestOf(found) == CHOOSE r \in found : \A s \in found : r.created <= s.created

\* ORDER BY created_at DESC LIMIT 1
NewestOf(found) == CHOOSE r \in found : \A s \in found : r.created >= s.created

Exists(t, id) == Matching(t, id) # <<>>

\* In memory: the first of that id, or the last of all.  In SQLite: a query.
Get(t, id) ==
  LET found == Matching(t, id)
  IN  IF saver = "sqlite" THEN NewestOf(ToSet(found))
      ELSE IF id = Latest THEN Last(found) ELSE Head(found)

\* ORDER BY created_at ASC
ByCreation(found) ==
  Selected([c \in 1..clock |-> CHOOSE r \in found : r.created = c], {r.created : r \in found})

\* list(thread_id, None)
List(t) == IF saver = "sqlite" THEN ByCreation(ToSet(OfThread(t))) ELSE OfThread(t)

\* list(thread_id, Some(limit)): LIMIT of an ascending query takes its first
\* rows, drain(0..(len - limit)) leaves the last ones.
ListUpTo(t, limit) ==
  LET all  == List(t)
      kept == Min({limit, Len(all)})
  IN  IF saver = "sqlite" THEN SubSeq(all, 1, kept)
      ELSE SubSeq(all, Len(all) - kept + 1, Len(all))

-------------------------------------------------------------------------------
Init ==
  /\ saver \in {"memory", "sqlite"}
  /\ rows = <<>> /\ clock = 0
  /\ held = [w \in Writer |-> {}]

Hold(w, snapshot) ==
  /\ held[w] = {}
  /\ clock < MaxSnapshots
  /\ held' = [held EXCEPT ![w] = {snapshot}]
  /\ clock' = clock + 1
  /\ UNCHANGED <<saver, rows>>

\* An executor makes the snapshot of a run from a fresh state.
RunSnapshot(w, t) == \E u \in Update : Hold(w, Snapshot(t, <<u>>, NoParent))

\* ... of a run that resumes from a checkpoint, before any of its nodes.
ResumedSnapshot(w, t, id) ==
  /\ Exists(t, id)
  /\ Hold(w, Snapshot(t, Get(t, id).values, Get(t, id).id))

\* update_state until it calls put: the state it reads is extended, and the
\* checkpoint it read is the parent of the new one.
UpdateState(w, t, id) ==
  /\ Exists(t, id)
  /\ \E u \in Update :
       Hold(w, Snapshot(t, Append(Get(t, id).values, u), Get(t, id).id))

\* put: no caller's snapshot has an id, so each gets a new one.
Put(w) ==
  \E s \in held[w] :
    /\ rows' = Append(rows, [id |-> Len(rows) + 1, thread |-> s.thread, values |-> s.values,
                             parent |-> s.parent, created |-> s.created])
    /\ held' = [held EXCEPT ![w] = {}]
    /\ UNCHANGED <<saver, clock>>

\* The database refuses it, or the caller is gone before it was called.
PutLost(w) ==
  /\ held[w] # {}
  /\ held' = [held EXCEPT ![w] = {}]
  /\ UNCHANGED <<saver, rows, clock>>

Next ==
  \E w \in Writer :
    \/ \E t \in Thread :
         \/ RunSnapshot(w, t)
         \/ \E r \in ToSet(rows) : ResumedSnapshot(w, t, r.id)
         \/ \E id \in {Latest} \cup {r.id : r \in ToSet(rows)} : UpdateState(w, t, id)
    \/ Put(w)
    \/ PutLost(w)

Spec == Init /\ [][Next]_vars

-------------------------------------------------------------------------------
Snapshots ==
  [thread : Thread, values : Seq(Update), parent : 0..MaxSnapshots, created : 1..MaxSnapshots]

Checkpoints ==
  [id : 1..MaxSnapshots, thread : Thread, values : Seq(Update),
   parent : 0..MaxSnapshots, created : 1..MaxSnapshots]

TypeOK ==
  /\ saver \in {"memory", "sqlite"}
  /\ rows \in Seq(Checkpoints)
  /\ clock \in 0..MaxSnapshots
  /\ held \in [Writer -> SUBSET Snapshots]

ArrivedInOrder(t) ==
  \A i, j \in DOMAIN OfThread(t) : i < j => OfThread(t)[i].created < OfThread(t)[j].created

\* The checkpoint get_state reads is the end of the history that
\* get_state_history shows and none of the thread is newer, in SQLite always, in
\* memory as long as no put has been overtaken by the put of a younger snapshot.
LatestEndsTheHistory ==
  \A t \in Thread :
    Exists(t, Latest) =>
      /\ Get(t, Latest) = Last(List(t))
      /\ saver = "sqlite" \/ ArrivedInOrder(t) =>
           \A r \in ToSet(OfThread(t)) : r.created <= Get(t, Latest).created

\* Whatever was put between its read and its put, and however late, a fork
\* continues the checkpoint it names: a stored one of the same thread, older than
\* itself, whose updates are the beginning of its own.
ForksContinueTheirParent ==
  \A r \in ToSet(rows) :
    r.parent # NoParent =>
      \E p \in ToSet(OfThread(r.thread)) :
        /\ p.id = r.parent
        /\ p.created < r.created
        /\ IsPrefix(p.values, r.values)
        /\ Len(r.values) <= Len(p.values) + 1

\* Whatever the order of the puts, a thread is read back as it was made: its latest
\* checkpoint ends its history, and a fork continues the checkpoint it names.
HistoriesHold == LatestEndsTheHistory /\ ForksContinueTheirParent
===============================================================================

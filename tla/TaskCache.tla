------------------------------ MODULE TaskCache ------------------------------
(***************************************************************************)
(* execute_task_with_cache: callers that share a TaskCache look a key up,  *)
(* execute the task when it is not there, and store what it answered, each *)
(* under a lock of its own and with other callers in between.              *)
(***************************************************************************)
EXTENDS Naturals

CONSTANTS
  Caller, TaskId, Input,
  MaxExecutions   \* bound on the executions of tasks

VARIABLES
  cache,      \* the HashMap: what is stored under every key, if anything
  call,       \* call[c]: what c asks for, where it is, and what it returns
  answered,   \* keys that this process answered since the cache was last emptied
  forgotten,  \* keys that processes before it answered, until someone clears a cache
  executions  \* number of executions so far

vars == <<cache, call, answered, forgotten, executions>>

Key == TaskId \X Input

\* A result is known by what was executed, and by when.
Result   == [of : Key, number : 1..MaxExecutions]
NoResult == [of |-> <<>>, number |-> 0]

Places == {"idle", "executing", "storing", "returned"}

\* A hash of the task's name and the serialised input, without collisions.
CacheKey(k) == k

-------------------------------------------------------------------------------
Init ==
  /\ cache = [k \in Key |-> NoResult]
  /\ call = [c \in Caller |-> [at |-> "idle", key |-> <<>>, result |-> NoResult]]
  /\ answered = {} /\ forgotten = {} /\ executions = 0

Goes(c, to, k, result) ==
  call' = [call EXCEPT ![c] = [at |-> to, key |-> k, result |-> result]]

Free(c) == call[c].at \in {"idle", "returned"}

\* The cache is asked first; a hit ends the call.
Hit(c, k) ==
  /\ Free(c)
  /\ cache[CacheKey(k)] # NoResult
  /\ Goes(c, "returned", k, cache[CacheKey(k)])
  /\ answered' = answered \cup {k}
  /\ UNCHANGED <<cache, forgotten, executions>>

\* Its lock is given back before the task begins.
Miss(c, k) ==
  /\ Free(c)
  /\ executions < MaxExecutions
  /\ cache[CacheKey(k)] = NoResult
  /\ Goes(c, "executing", k, NoResult)
  /\ UNCHANGED <<cache, answered, forgotten, executions>>

\* The task answers, each time something else.
Execute(c) ==
  /\ call[c].at = "executing"
  /\ executions < MaxExecutions
  /\ executions' = executions + 1
  /\ Goes(c, "storing", call[c].key, [of |-> call[c].key, number |-> executions + 1])
  /\ UNCHANGED <<cache, answered, forgotten>>

GivesUp(c) ==
  /\ Goes(c, "idle", <<>>, NoResult)
  /\ UNCHANGED <<cache, answered, forgotten, executions>>

\* The task fails: nothing is stored, and the caller gets the error.
ExecuteFails(c) == call[c].at = "executing" /\ GivesUp(c)

\* The caller drops its future at one of its awaits.
Drop(c) == call[c].at \in {"executing", "storing"} /\ GivesUp(c)

\* Fault: what is stored is what was there.
Kept(k, result) == cache

\* put(): the last to store under a key overwrites.
Stored(k, result) == [cache EXCEPT ![CacheKey(k)] = result]

Store(c) ==
  /\ call[c].at = "storing"
  /\ cache' = Stored(call[c].key, call[c].result)
  /\ Goes(c, "returned", call[c].key, call[c].result)
  /\ answered' = answered \cup {call[c].key}
  /\ UNCHANGED <<forgotten, executions>>

Emptied ==
  /\ cache' = [k \in Key |-> NoResult]
  /\ answered' = {}
  /\ UNCHANGED executions

\* clear(), with calls under way.
Clear == Emptied /\ forgotten' = {} /\ UNCHANGED call

\* load_task_cache_from_checkpoint in a new process: it looks for "task_results"
\* in the latest checkpoint's metadata, where no executor writes it, and answers
\* an empty cache.
Restart ==
  /\ Emptied
  /\ forgotten' = forgotten \cup answered
  /\ call' = [c \in Caller |-> [at |-> "idle", key |-> <<>>, result |-> NoResult]]

Next ==
  \/ \E c \in Caller :
       \/ \E k \in Key : Hit(c, k) \/ Miss(c, k)
       \/ Execute(c)
       \/ ExecuteFails(c)
       \/ Store(c)
       \/ Drop(c)
  \/ Clear
  \/ Restart

Spec == Init /\ [][Next]_vars

-------------------------------------------------------------------------------
TypeOK ==
  /\ cache \in [Key -> Result \cup {NoResult}]
  /\ call \in [Caller -> [at : Places, key : Key \cup {<<>>}, result : Result \cup {NoResult}]]
  /\ answered \subseteq Key /\ forgotten \subseteq Key
  /\ executions \in 0..MaxExecutions

\* In one process: once a caller has been answered, no call that begins after it
\* executes the same again, until the cache is cleared.  Calls that had missed before
\* may still execute, and overwrite.
AnsweredTasksAreNotRepeated ==
  [][\A c \in Caller, k \in Key : Miss(c, k) => k \notin answered]_vars

\* What cache.rs:14 says of the cache, "to avoid re-executing tasks when resuming from
\* checkpoints": a process that takes its cache from the checkpoint does not execute
\* what was answered before it either.
ResultsOutliveRestarts ==
  [][\A c \in Caller, k \in Key : Miss(c, k) => k \notin answered \cup forgotten]_vars
===============================================================================

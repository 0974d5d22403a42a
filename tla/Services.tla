------------------------------- MODULE Services -------------------------------
(***************************************************************************)
(* Four of the components around the executors, and what is proved of      *)
(* them: the two savers, the cache of task results, the rate limits, and   *)
(* the streams.  They share no state; each is an instance over variables   *)
(* of its own.                                                             *)
(***************************************************************************)
EXTENDS Naturals, Sequences

CONSTANTS Thread, Writer, Update, MaxSnapshots
VARIABLES saver, rows, clock, held
savers_vars == <<saver, rows, clock, held>>

Savers == INSTANCE Checkpointers

CONSTANTS Caller, TaskId, TaskInput, MaxExecutions
VARIABLES cache, lookup, answered, forgotten, executions
tasks_vars == <<cache, lookup, answered, forgotten, executions>>

Tasks == INSTANCE TaskCache WITH Input <- TaskInput, call <- lookup

CONSTANTS Counters, MaxLag, MaxTime, MaxRequests
VARIABLES checks, time, times, request, begun, admitted
limits_vars == <<checks, time, times, request, begun, admitted>>

Limits == INSTANCE RateLimit WITH call <- request

CONSTANTS Networks, EndNode, NoGraph, MaxIterations, Speaker, Chunk, MaxChunks
VARIABLES net, subgraphs, messages, gens, outcome, seen
streams_vars == <<net, subgraphs, messages, gens, outcome, seen>>

Streams == INSTANCE StreamRun WITH End <- EndNode

\* check_rate_limit tests the second's limit before the minute's; a tool has one limit.
WindowsGrow ==
  \A ch \in Counters :
    /\ ch \in Seq([window : Nat, limit : Nat]) /\ ch # <<>>
    /\ \A k \in 1..Len(ch) : ch[1].window <= ch[k].window

\* The node that wraps a graph has no model: only LLM nodes define get_llm.
ASSUME ServicesAssumption ==
  /\ MaxExecutions \in Nat /\ MaxLag \in Nat /\ MaxChunks \in Nat
  /\ WindowsGrow
  /\ \A w \in Networks : \A n \in Speaker : w.inner[n] = NoGraph

-------------------------------------------------------------------------------
(* The properties are those of the components, where they are explained.   *)

\* Checkpointers: the latest checkpoint ends the history, and a fork continues the
\* checkpoint it names.
HistoriesHold == Savers!HistoriesHold

\* TaskCache: what was answered in a process is not executed again in it.
AnsweredTasksAreNotRepeated == Tasks!AnsweredTasksAreNotRepeated

\* RateLimit: one more admission than the limit takes its window.
LimitHolds == Limits!LimitHolds

\* StreamRun: a stream is an invoke of the same graphs.
ImplementsInvoke == Streams!ImplementsInvoke

\* StreamRun: a stream tells its run: the events are bracketed, a message is made of its
\* chunks, a state of its updates.
StreamsTellTheirRuns ==
  Streams!StreamIsBracketed /\ Streams!ChunksMakeTheMessage /\ Streams!UpdatesMakeTheStates
===============================================================================

---------------------------- MODULE Conversation -----------------------------
(***************************************************************************)
(* The chains that share a conversation's memory: ConversationalChain,     *)
(* called or streamed, ConversationalRetrieverChain, and HybridRAG, which  *)
(* repeats its retrieval, and then that chain, until its validators are    *)
(* content or its retries used up.  Each locks the memory to read it, asks *)
(* a model with the lock given back, and locks it again to add a turn.     *)
(***************************************************************************)
EXTENDS Naturals, Selection

CONSTANTS
  Caller,
  MaxRetrievalRetries, MaxGenerationRetries,   \* HybridRAGConfig
  MaxCalls,    \* bound on the calls
  MaxChunks    \* bound on the items of a stream

VARIABLES
  memory,  \* the messages
  calls,   \* number of calls made
  call     \* call[c]: the call of c

vars == <<memory, calls, call>>

Kinds  == {"chain", "stream", "hybrid"}
Places == {"idle", "retrieve", "read", "ask", "stream", "validate", "returned", "failed"}

Idle == [at |-> "idle", kind |-> "chain", id |-> 0, read |-> 0, retrievals |-> 0,
         tries |-> 0, said |-> 0, items |-> 0, accepted |-> FALSE]

\* A message is known by its speaker, its call and the attempt it belongs to; said
\* is what the model's answer contains, by number of the items that came through.
Human(k) == [by |-> "human", id |-> k.id, try |-> k.tries, said |-> 0]
Ai(k)    == [by |-> "ai", id |-> k.id, try |-> k.tries, said |-> k.said]

Init ==
  /\ memory = <<>> /\ calls = 0
  /\ call = [c \in Caller |-> Idle]

Goes(c, to) == call' = [call EXCEPT ![c].at = to]

Begin(c, kind) ==
  /\ call[c].at \in {"idle", "returned", "failed"}
  /\ calls < MaxCalls
  /\ calls' = calls + 1
  /\ call' = [call EXCEPT ![c] =
       [Idle EXCEPT !.at = IF kind = "hybrid" THEN "retrieve" ELSE "read",
                    !.kind = kind, !.id = calls + 1]]
  /\ UNCHANGED memory

-------------------------------------------------------------------------------
(* HybridRAG before its first generation.                                  *)

\* What is retrieved passes, or nothing asks whether it does.
Retrieved(c) ==
  /\ call[c].at = "retrieve"
  /\ Goes(c, "read")
  /\ UNCHANGED <<memory, calls>>

\* It does not: again, with the query refined, unless the retries are used up.
RetrievalRejected(c) ==
  /\ call[c].at = "retrieve"
  /\ IF call[c].retrievals < MaxRetrievalRetries
     THEN call' = [call EXCEPT ![c].retrievals = @ + 1]
     ELSE Goes(c, "read")
  /\ UNCHANGED <<memory, calls>>

-------------------------------------------------------------------------------
(* A chain's execute(), or stream().                                       *)

\* The history is copied under the lock.
ReadHistory(c) ==
  /\ call[c].at = "read"
  /\ call' = [call EXCEPT ![c].read = Len(memory), ![c].said = 0, ![c].items = 0,
                          ![c].at = IF call[c].kind = "stream" THEN "stream" ELSE "ask"]
  /\ UNCHANGED <<memory, calls>>

\* An item of the stream: what it says is kept, and an error is passed on; the
\* stream goes on after either.
Item(c, ok) ==
  /\ call[c].at = "stream"
  /\ call[c].items < MaxChunks
  /\ call' = [call EXCEPT ![c].items = @ + 1, ![c].said = IF ok THEN @ + 1 ELSE @]
  /\ UNCHANGED <<memory, calls>>

\* Fault: the turn is put where the history ended when it was read.
TurnAfterRead(k, turn) == SubSeq(memory, 1, k.read) \o turn

\* Both messages are added under one lock, after whatever is there by then.
WithTurn(k, turn) == memory \o turn

AddTurn(c, k) == memory' = WithTurn(k, <<Human(k), Ai(k)>>)

\* The model has answered.
Answered(c) ==
  /\ call[c].at = "ask"
  /\ LET k == [call[c] EXCEPT !.said = 1]
     IN  /\ AddTurn(c, k)
         /\ call' = [call EXCEPT ![c] =
              [k EXCEPT !.at = IF k.kind = "hybrid" THEN "validate" ELSE "returned"]]
  /\ UNCHANGED calls

\* The stream has been polled to its end.
Drained(c) ==
  /\ call[c].at = "stream"
  /\ AddTurn(c, call[c])
  /\ Goes(c, "returned")
  /\ UNCHANGED calls

-------------------------------------------------------------------------------
(* HybridRAG after a generation.                                           *)

Accept(c) ==
  /\ call[c].at = "validate"
  /\ call' = [call EXCEPT ![c].at = "returned", ![c].accepted = TRUE]
  /\ UNCHANGED <<memory, calls>>

\* Fault: the last try is given up.
RetriesLess(k) == k.tries + 1 < MaxGenerationRetries

RetriesLeft(k) == k.tries < MaxGenerationRetries

\* The chain is built and run again, and reads the turn it has just added; without
\* retries the answer is returned as it is.
Reject(c) ==
  /\ call[c].at = "validate"
  /\ IF RetriesLeft(call[c])
     THEN call' = [call EXCEPT ![c].tries = @ + 1, ![c].at = "read"]
     ELSE Goes(c, "returned")
  /\ UNCHANGED <<memory, calls>>

\* A retriever, a model or a validator returns an error, or the caller drops the
\* future or the stream: what was added to the memory stays.
Fails(c) ==
  /\ call[c].at \in {"retrieve", "read", "ask", "stream", "validate"}
  /\ Goes(c, "failed")
  /\ UNCHANGED <<memory, calls>>

Next ==
  \E c \in Caller :
    \/ \E kind \in Kinds : Begin(c, kind)
    \/ Retrieved(c) \/ RetrievalRejected(c)
    \/ ReadHistory(c)
    \/ \E ok \in BOOLEAN : Item(c, ok)
    \/ Answered(c) \/ Drained(c)
    \/ Accept(c) \/ Reject(c)
    \/ Fails(c)

Spec == Init /\ [][Next]_vars

-------------------------------------------------------------------------------
Message ==
  [by : {"human", "ai"}, id : 1..MaxCalls, try : 0..MaxGenerationRetries, said : 0..(MaxChunks + 1)]

TypeOK ==
  /\ memory \in Seq(Message)
  /\ calls \in 0..MaxCalls
  /\ \A c \in Caller :
       /\ call[c].at \in Places /\ call[c].kind \in Kinds /\ call[c].id \in 0..MaxCalls
       /\ call[c].read \in 0..Len(memory)
       /\ call[c].retrievals \in 0..MaxRetrievalRetries
       /\ call[c].tries \in 0..MaxGenerationRetries

TurnsOf(k) ==
  Selected(memory, {i \in DOMAIN memory : memory[i].by = "ai" /\ memory[i].id = k.id})

\* The memory is a sequence of whole turns, whatever callers do between a question
\* and its answer, and a call finds in it what it read, with others' turns behind.
TurnsAreWhole ==
  /\ Len(memory) % 2 = 0
  /\ \A i \in DOMAIN memory :
       i % 2 = 1 =>
         /\ memory[i].by = "human" /\ memory[i + 1].by = "ai"
         /\ memory[i].id = memory[i + 1].id /\ memory[i].try = memory[i + 1].try
  /\ \A i, j \in DOMAIN memory :
       memory[i].id = memory[j].id /\ i < j => memory[i].try <= memory[j].try

\* A call that has returned is in the memory with every answer it was given, the
\* rejected ones too, the returned one last; and it has returned an answer that
\* was accepted, or all its retries are spent.
AnswersAreRemembered ==
  \A c \in Caller :
    LET k == call[c]
    IN  k.at = "returned" =>
          /\ Len(TurnsOf(k)) = k.tries + 1
          /\ \A i \in DOMAIN TurnsOf(k) : TurnsOf(k)[i].try = i - 1
          /\ k.kind = "hybrid" => k.accepted \/ k.tries = MaxGenerationRetries
===============================================================================

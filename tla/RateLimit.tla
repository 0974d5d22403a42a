------------------------------ MODULE RateLimit ------------------------------
(***************************************************************************)
(* RateLimitMiddleware under the executor's loop: requests (a plan, or a   *)
(* call of a tool) that pass the middleware's hook before they go on.  The *)
(* loop calls the hook twice, as before_..._with_runtime, whose default is *)
(* to call the plain hook, and then as the plain hook itself.              *)
(*                                                                         *)
(* A hook reads the clock and then waits for the lock of the counter's     *)
(* list of instants, so the instants are not those of the admissions.      *)
(***************************************************************************)
EXTENDS Integers, Selection, FiniteSetsExt

CONSTANTS
  Caller,
  Counters,  \* the limits that may be configured for a counter, in the order in
             \* which they are tested: sequences of [window, limit]
  MaxLag,    \* bound on the wait for the lock
  MaxTime,   \* bound on the clock
  MaxRequests

VARIABLES
  checks,    \* the counter's limits
  time,      \* the clock
  times,     \* the list behind the lock: request_times, or a tool's
  call,      \* call[c]: where the request of c is, and the instant it has read
  begun,     \* number of requests that have begun
  admitted   \* instants at which a hook let its request pass

vars == <<checks, time, times, call, begun, admitted>>

Places == {"idle", "first hook", "second hook", "passed", "refused"}

Init ==
  /\ checks \in Counters
  /\ time = 0 /\ times = <<>>
  /\ call = [c \in Caller |-> [at |-> "idle", now |-> 0]]
  /\ begun = 0 /\ admitted = <<>>

InHook(c) == call[c].at \in {"first hook", "second hook"}

\* Time passes; nobody waits longer than MaxLag for a lock held for a moment.
Tick ==
  /\ time < MaxTime
  /\ \A c \in Caller : InHook(c) => time < call[c].now + MaxLag
  /\ time' = time + 1
  /\ UNCHANGED <<checks, times, call, begun, admitted>>

\* A request comes to the first hook: Instant::now().
Request(c) ==
  /\ ~InHook(c)
  /\ begun < MaxRequests
  /\ call' = [call EXCEPT ![c] = [at |-> "first hook", now |-> time]]
  /\ begun' = begun + 1
  /\ UNCHANGED <<checks, time, times, admitted>>

-------------------------------------------------------------------------------
\* duration_since is zero for an instant that is still to come.
Since(now, t) == Max({0, now - t})

\* retain(..): what is left of the list after the first n limits were tested.
Retained(n, now) ==
  Selected(times, {i \in DOMAIN times : \A k \in 1..n : Since(now, times[i]) < checks[k].window})

\* Fault: one more than the limit is let through.
ReachedOneLate(n, now) == Len(Retained(n, now)) > checks[n].limit

Reached(n, now) == Len(Retained(n, now)) >= checks[n].limit

\* The first limit that is reached refuses, with the list as it is by then.
Refuse(c) ==
  /\ InHook(c)
  /\ \E n \in DOMAIN checks :
       /\ Reached(n, call[c].now)
       /\ \A k \in 1..(n - 1) : ~Reached(k, call[c].now)
       /\ times' = Retained(n, call[c].now)
  /\ call' = [call EXCEPT ![c].at = "refused"]
  /\ UNCHANGED <<checks, time, begun, admitted>>

\* Else the instant is listed, and the request goes to the second hook or on.
Admit(c) ==
  /\ InHook(c)
  /\ \A n \in DOMAIN checks : ~Reached(n, call[c].now)
  /\ times' = Append(Retained(Len(checks), call[c].now), call[c].now)
  /\ admitted' = Append(admitted, time)
  /\ call' = [call EXCEPT ![c] =
                IF call[c].at = "first hook" THEN [at |-> "second hook", now |-> time]
                ELSE [at |-> "passed", now |-> call[c].now]]
  /\ UNCHANGED <<checks, time, begun>>

Next == Tick \/ \E c \in Caller : Request(c) \/ Refuse(c) \/ Admit(c)

Spec == Init /\ [][Next]_vars

-------------------------------------------------------------------------------
TypeOK ==
  /\ checks \in Counters
  /\ time \in 0..MaxTime
  /\ {times, admitted} \subseteq Seq(0..MaxTime)
  /\ begun \in 0..MaxRequests
  /\ call \in [Caller -> [at : Places, now : 0..MaxTime]]

\* However the hooks interleave between clock and lock, one more admission than
\* the limit takes at least the limit's window, less the wait for the lock.  Only
\* the first limit of a counter is promised this: its window decides how long the
\* list remembers, so a minute's limit beside a second's is not kept.
LimitHolds ==
  \A i, j \in DOMAIN admitted :
    j = i + checks[1].limit => admitted[j] - admitted[i] >= checks[1].window - MaxLag
===============================================================================

---------------------------- MODULE ServiceProofs ----------------------------
(***************************************************************************)
(* The theorems of Services, each for any values of the constants: a task  *)
(* answered in a process is not executed again in it; one more admission   *)
(* than the limit takes its window; the latest checkpoint ends the         *)
(* history, and a fork continues the checkpoint it names; and a stream is  *)
(* an invoke of the same graphs, which its events tell.                    *)
(***************************************************************************)
EXTENDS Services, SequenceFacts
-------------------------------------------------------------------------------
(***************************************************************************)
(* TaskCache.  The action property needs an invariant: what was answered   *)
(* is stored, and stays stored, although other calls that missed the same  *)
(* key before may still come and overwrite it.                             *)
(***************************************************************************)

\* What is stored, or about to be, is an answer to a key; an answered key is stored.
CacheHolds ==
  /\ MaxExecutions \in Nat
  /\ DOMAIN cache = Tasks!Key
  /\ DOMAIN lookup = Caller
  /\ executions \in Nat
  /\ \A c \in Caller : lookup[c].at \in {"executing", "storing"} => lookup[c].key \in Tasks!Key
  /\ \A c \in Caller : lookup[c].at = "storing" => lookup[c].result.number # 0
  /\ answered \subseteq Tasks!Key
  /\ \A k \in answered : cache[k] # Tasks!NoResult
-------------------------------------------------------------------------------
\* A lookup that goes anywhere but to its execution or its put has nothing to keep.
LEMMA GoingKeepsCalls ==
  ASSUME CacheHolds, NEW c \in Caller, NEW to, NEW k, NEW result,
         Tasks!Goes(c, to, k, result),
         to \in {"executing", "storing"} => k \in Tasks!Key,
         to = "storing" => result.number # 0
  PROVE  /\ DOMAIN lookup' = Caller
         /\ \A d \in Caller : lookup'[d].at \in {"executing", "storing"} => lookup'[d].key \in Tasks!Key
         /\ \A d \in Caller : lookup'[d].at = "storing" => lookup'[d].result.number # 0
<1> DEFINE new == [at |-> to, key |-> k, result |-> result]
<1>1. lookup' = [lookup EXCEPT ![c] = new]
  BY DEF Tasks!Goes
<1>2. DOMAIN lookup' = Caller
  BY <1>1 DEF CacheHolds
<1>3. new.at = to /\ new.key = k /\ new.result = result
  OBVIOUS
<1> HIDE DEF new
<1>4. \A d \in Caller : lookup'[d] = IF d = c THEN new ELSE lookup[d]
  BY <1>1 DEF CacheHolds
<1> QED BY <1>2, <1>3, <1>4 DEF CacheHolds

\* Every step keeps what was answered in the cache.
LEMMA StepsKeepAnswers == CacheHolds /\ [Tasks!Next]_(Tasks!vars) => CacheHolds'
<1> SUFFICES ASSUME CacheHolds, [Tasks!Next]_(Tasks!vars)
             PROVE  CacheHolds'
  OBVIOUS
<1>1. ASSUME NEW c \in Caller, NEW k \in Tasks!Key, Tasks!Hit(c, k)
      PROVE  CacheHolds'
  <2>1. answered' \subseteq Tasks!Key /\ \A j \in answered' : cache[j] # Tasks!NoResult
    BY <1>1 DEF Tasks!Hit, Tasks!CacheKey, CacheHolds
  <2> QED BY <1>1, <2>1, GoingKeepsCalls DEF Tasks!Hit, CacheHolds
<1>2. ASSUME NEW c \in Caller, NEW k \in Tasks!Key, Tasks!Miss(c, k)
      PROVE  CacheHolds'
  BY <1>2, GoingKeepsCalls DEF Tasks!Miss, CacheHolds
<1>3. ASSUME NEW c \in Caller, Tasks!Execute(c)
      PROVE  CacheHolds'
  <2> DEFINE result == [of |-> lookup[c].key, number |-> executions + 1]
  <2>1. result.number # 0 /\ lookup[c].key \in Tasks!Key /\ executions' \in Nat
    BY <1>3 DEF Tasks!Execute, CacheHolds
  <2>2. Tasks!Goes(c, "storing", lookup[c].key, result)
    BY <1>3 DEF Tasks!Execute
  <2> HIDE DEF result
  <2> QED BY <1>3, <2>1, <2>2, GoingKeepsCalls DEF Tasks!Execute, CacheHolds
<1>4. ASSUME NEW c \in Caller, Tasks!GivesUp(c)
      PROVE  CacheHolds'
  BY <1>4, GoingKeepsCalls DEF Tasks!GivesUp, CacheHolds
<1>5. ASSUME NEW c \in Caller, Tasks!Store(c)
      PROVE  CacheHolds'
  <2> DEFINE k == lookup[c].key
             result == lookup[c].result
  <2>1. k \in Tasks!Key /\ result.number # 0
    BY <1>5 DEF Tasks!Store, CacheHolds
  <2>2. Tasks!Goes(c, "returned", k, result) /\ answered' = answered \cup {k}
        /\ cache' = [cache EXCEPT ![k] = result]
    BY <1>5 DEF Tasks!Store, Tasks!Stored, Tasks!CacheKey
  <2> HIDE DEF k, result
  <2>3. result # Tasks!NoResult
    BY <2>1 DEF Tasks!NoResult
  <2>4. DOMAIN cache' = Tasks!Key /\ cache'[k] = result
        /\ \A j \in Tasks!Key : j # k => cache'[j] = cache[j]
    BY <2>1, <2>2 DEF CacheHolds
  <2>5. answered' \subseteq Tasks!Key /\ \A j \in answered' : cache'[j] # Tasks!NoResult
    BY <2>1, <2>2, <2>3, <2>4 DEF CacheHolds
  <2> QED BY <1>5, <2>2, <2>4, <2>5, GoingKeepsCalls DEF Tasks!Store, CacheHolds
<1>6. ASSUME Tasks!Emptied, UNCHANGED lookup \/ lookup' = [c \in Caller |->
                        [at |-> "idle", key |-> <<>>, result |-> Tasks!NoResult]]
      PROVE  CacheHolds'
  BY <1>6 DEF Tasks!Emptied, CacheHolds
<1>7. CASE UNCHANGED Tasks!vars
  BY <1>7 DEF Tasks!vars, CacheHolds
<1> QED BY <1>1, <1>2, <1>3, <1>4, <1>5, <1>6, <1>7
        DEF Tasks!Next, Tasks!ExecuteFails, Tasks!Drop, Tasks!Clear, Tasks!Restart

(***************************************************************************)
(* No lookup that begins after a caller has had a task's answer executes the *)
(* task again, in one process and until the cache is cleared.              *)
(***************************************************************************)
THEOREM AnswersAreReused == Tasks!Spec => AnsweredTasksAreNotRepeated
<1>1. Tasks!Init => CacheHolds
  BY ServicesAssumption DEF Tasks!Init, CacheHolds
<1>2. CacheHolds /\ [Tasks!Next]_(Tasks!vars) => CacheHolds'
  BY StepsKeepAnswers
<1>3. CacheHolds => [\A c \in Caller, k \in Tasks!Key : Tasks!Miss(c, k) => k \notin answered]_(Tasks!vars)
  BY DEF CacheHolds, Tasks!Miss, Tasks!CacheKey
<1> QED BY <1>1, <1>2, <1>3, PTL
        DEF Tasks!Spec, AnsweredTasksAreNotRepeated, Tasks!AnsweredTasksAreNotRepeated
-------------------------------------------------------------------------------
(***************************************************************************)
(* RateLimit: the list behind the lock forgets an admission only when its  *)
(* window has passed.  The instants in it are those the hooks read before  *)
(* they waited for the lock, in no order, and refused requests prune it    *)
(* too; what holds is that the admissions since any recent one are listed, *)
(* each at a place of its own, no more than the wait before they happened. *)
(***************************************************************************)

Window == checks[1].window

LimitTypes ==
  /\ MaxLag \in Nat /\ WindowsGrow
  /\ checks \in Counters /\ time \in Nat /\ times \in Seq(Nat) /\ admitted \in Seq(Nat)
  /\ request \in [Caller -> [at : Limits!Places, now : Nat]]

HooksAreCurrent ==
  \A c \in Caller : Limits!InHook(c) => request[c].now <= time /\ time <= request[c].now + MaxLag

AdmittedInOrder ==
  /\ \A i \in 1..Len(admitted) : admitted[i] <= time
  /\ \A i, j \in 1..Len(admitted) : i < j => admitted[i] <= admitted[j]

\* The admissions since the k-th are at the places f of the list.
Listed(f, list, done, k) ==
  /\ Placing(f, list, k, Len(done))
  /\ \A i \in k..Len(done) : done[i] <= list[f[i]] + MaxLag

AreListed(list, done, k) == \E f : Listed(f, list, done, k)

RecentAreListed ==
  \A k \in 1..Len(admitted) : time + MaxLag < admitted[k] + Window => AreListed(times, admitted, k)

LimitInv ==
  LimitTypes /\ HooksAreCurrent /\ AdmittedInOrder /\ RecentAreListed /\ Limits!LimitHolds

\* The instants duration_since(now) of which is within the windows of the first n limits.
Young(n, now) ==
  {i \in DOMAIN times : \A k \in 1..n : Limits!Since(now, times[i]) < checks[k].window}

\* duration_since.
LEMMA SinceIs ==
  ASSUME NEW now \in Nat, NEW t \in Nat
  PROVE  Limits!Since(now, t) = IF now <= t THEN 0 ELSE now - t
<1> DEFINE T == {0, now - t}
<1>1. CASE now <= t
  <2>1. \A x \in T : x \in Int /\ 0 >= x
    BY <1>1
  <2>2. \A x \in T : (\A y \in T : x >= y) => x = 0
    BY <2>1
  <2>3. 0 \in T /\ \A y \in T : 0 >= y
    BY <2>1
  <2> HIDE DEF T
  <2>4. (CHOOSE x \in T : \A y \in T : x >= y) = 0
    BY <2>2, <2>3
  <2> QED BY <1>1, <2>4 DEF Limits!Since, Limits!Max, T
<1>2. CASE ~(now <= t)
  <2> DEFINE d == now - t
  <2>1. \A x \in T : x \in Int /\ d >= x
    BY <1>2
  <2>2. \A x \in T : (\A y \in T : x >= y) => x = d
    BY <2>1
  <2>3. d \in T /\ \A y \in T : d >= y
    BY <2>1
  <2> HIDE DEF T, d
  <2>4. (CHOOSE x \in T : \A y \in T : x >= y) = d
    BY <2>2, <2>3
  <2> QED BY <1>2, <2>4 DEF Limits!Since, Limits!Max, T, d
<1> QED BY <1>1, <1>2

\* The first limits of a counter.
LEMMA FirstWindow ==
  ASSUME LimitTypes
  PROVE  /\ Window \in Nat /\ checks[1].limit \in Nat /\ Len(checks) \in Nat \ {0}
         /\ \A k \in 1..Len(checks) : checks[k].window \in Nat /\ Window <= checks[k].window
<1>1. /\ checks \in Seq([window : Nat, limit : Nat]) /\ checks # <<>>
      /\ \A k \in 1..Len(checks) : checks[1].window <= checks[k].window
  BY DEF LimitTypes, WindowsGrow
<1>2. Len(checks) \in Nat \ {0}
  BY <1>1
<1>3. 1 \in 1..Len(checks)
  BY <1>2
<1>4. ASSUME NEW k \in 1..Len(checks)
      PROVE  checks[k].window \in Nat /\ checks[k].limit \in Nat
  <2> DEFINE R == [window : Nat, limit : Nat]
  <2>1. checks \in Seq(R)
    BY <1>1
  <2> HIDE DEF R
  <2>2. checks[k] \in R
    BY <2>1
  <2> QED BY <2>2 DEF R
<1>5. checks[1].window \in Nat /\ checks[1].limit \in Nat
  BY <1>3, <1>4
<1> QED BY <1>1, <1>2, <1>4, <1>5 DEF Window

\* What retain leaves.
LEMMA RetainedIs ==
  ASSUME LimitTypes, NEW now, NEW n
  PROVE  /\ Limits!Retained(n, now) = Selected(times, Young(n, now))
         /\ Limits!Retained(n, now) \in Seq(Nat)
<1>1. Limits!Retained(n, now) = Limits!Selected(times, Young(n, now))
  BY DEF Limits!Retained, Young
<1>2. Limits!Selected(times, Young(n, now)) = Selected(times, Young(n, now))
  BY DEF Limits!Selected, Selected, Limits!FlattenSeq, FlattenSeq
<1>3. times \in Seq(Nat)
  BY DEF LimitTypes
<1>4. Selected(times, Young(n, now)) \in Seq(Nat)
  BY <1>3, SelectedElements
<1> QED BY <1>1, <1>2, <1>4

\* What the tests leave of the list holds the recent admissions still.
LEMMA PrunedKeepsRecent ==
  ASSUME LimitInv, NEW now \in Nat, now <= time, NEW n \in 0..Len(checks),
         NEW k \in Nat, k \in 1..Len(admitted), time + MaxLag < admitted[k] + Window
  PROVE  AreListed(Limits!Retained(n, now), admitted, k)
<1> PICK a \in Nat : a = Len(admitted)
  BY DEF LimitInv, LimitTypes
<1> PICK p : p = Limits!Retained(n, now)
  OBVIOUS
<1>0. p = Selected(times, Young(n, now)) /\ p \in Seq(Nat)
  BY RetainedIs DEF LimitInv
<1>1. times \in Seq(Nat)
  BY DEF LimitInv, LimitTypes
<1>2. PICK f : Listed(f, times, admitted, k)
  BY DEF LimitInv, RecentAreListed, AreListed
<1>3. /\ Placing(f, times, k, a)
      /\ \A i \in k..a : admitted[i] <= times[f[i]] + MaxLag
  BY <1>2 DEF Listed
<1>4. ASSUME NEW i \in k..a
      PROVE  f[i] \in Young(n, now)
  <2>1. PICK j \in 1..Len(times) : j = f[i]
    BY <1>3 DEF Placing
  <2>2. PICK t \in Nat : t = times[j]
    BY <1>1
  <2>3. /\ admitted[k] \in Nat /\ admitted[i] \in Nat /\ admitted[k] <= admitted[i]
    <3>1. i \in 1..Len(admitted) /\ (k = i \/ k < i)
      OBVIOUS
    <3>2. admitted \in Seq(Nat)
      BY DEF LimitInv, LimitTypes
    <3>3. k < i => admitted[k] <= admitted[i]
      BY <3>1 DEF LimitInv, AdmittedInOrder
    <3> QED BY <3>1, <3>2, <3>3
  <2>4. Window \in Nat /\ \A m \in 1..n : checks[m].window \in Nat /\ Window <= checks[m].window
    <3>1. \A m \in 1..n : m \in 1..Len(checks)
      BY FirstWindow DEF LimitInv
    <3> QED BY <3>1, FirstWindow DEF LimitInv
  <2>5. admitted[i] <= t + MaxLag /\ MaxLag \in Nat /\ time \in Nat
    BY <1>3, <2>1, <2>2 DEF LimitInv, LimitTypes
  <2>6. Limits!Since(now, t) < Window
    <3>1. Limits!Since(now, t) = IF now <= t THEN 0 ELSE now - t
      BY SinceIs
    <3>2. admitted[k] <= time
      BY DEF LimitInv, AdmittedInOrder
    <3> QED BY <2>3, <2>4, <2>5, <3>1, <3>2
  <2>7. \A m \in 1..n : Limits!Since(now, t) < checks[m].window
    <3>1. PICK u \in Nat : u = Limits!Since(now, t)
      BY SinceIs
    <3>2. ASSUME NEW m \in 1..n
          PROVE  u < checks[m].window
      BY SMTT(20), <2>4, <2>6, <3>1
    <3> QED BY <3>1, <3>2
  <2>8. j \in DOMAIN times
    BY <1>1
  <2> QED BY <2>1, <2>2, <2>7, <2>8 DEF Young
<1>5. PICK h : Placing(h, p, k, a) /\ \A i \in k..a : p[h[i]] = times[f[i]]
  <2> PICK P : P = Young(n, now)
    OBVIOUS
  <2>1. \A i \in k..a : f[i] \in P
    BY <1>4
  <2>2. \E h : /\ Placing(h, Selected(times, P), k, a)
                /\ \A i \in k..a : Selected(times, P)[h[i]] = times[f[i]]
    <3>1. times \in Seq(Nat)
      BY <1>1
    <3>2. Placing(f, times, k, a)
      BY <1>3
    <3> QED BY ONLY SMTT(20), <2>1, <3>1, <3>2, SelectedKeeps
  <2>3. p = Selected(times, P)
    BY <1>0
  <2> QED BY ONLY <2>2, <2>3
<1>6. \A i \in k..a : admitted[i] <= p[h[i]] + MaxLag
  BY <1>3, <1>5
<1>7. Listed(h, p, admitted, k)
  BY <1>5, <1>6 DEF Listed
<1> QED BY <1>7 DEF AreListed

\* The admission is listed with those before it, at the end of the list.
LEMMA OneMoreListed ==
  ASSUME NEW list \in Seq(Nat), NEW done \in Seq(Nat), NEW now \in Nat, NEW instant \in Nat,
         MaxLag \in Nat, instant <= now + MaxLag,
         NEW k \in Nat, 1 <= k, k <= Len(done) + 1,
         k <= Len(done) => AreListed(list, done, k)
  PROVE  AreListed(Append(list, now), Append(done, instant), k)
<1> PICK a \in Nat, m \in Nat : a = Len(done) /\ m = Len(list)
  OBVIOUS
<1>1. PICK f : k <= a => Listed(f, list, done, k)
  BY DEF AreListed
<1>2. k <= a => /\ f \in [k..a -> 1..m]
                /\ \A i, j \in k..a : i < j => f[i] < f[j]
                /\ \A i \in k..a : done[i] <= list[f[i]] + MaxLag
  BY <1>1 DEF Listed, Placing, Increasing
<1> PICK q, e : q = Append(list, now) /\ e = Append(done, instant)
  OBVIOUS
<1>3. /\ Len(q) = m + 1 /\ q[m + 1] = now /\ \A i \in 1..m : q[i] = list[i]
      /\ Len(e) = a + 1 /\ e[a + 1] = instant /\ \A i \in 1..a : e[i] = done[i]
  OBVIOUS
<1> DEFINE g == [i \in k..(a + 1) |-> IF i = a + 1 THEN m + 1 ELSE f[i]]
<1>4. g \in [k..(a + 1) -> 1..(m + 1)] /\ \A i, j \in k..(a + 1) : i < j => g[i] < g[j]
  <2>1. \A i \in k..(a + 1) : i # a + 1 => i \in k..a /\ k <= a
    OBVIOUS
  <2>2. \A i \in k..(a + 1) : i # a + 1 => f[i] \in 1..m
    BY <1>2, <2>1
  <2>3. g \in [k..(a + 1) -> 1..(m + 1)]
    BY <2>2
  <2>4. ASSUME NEW i \in k..(a + 1), NEW j \in k..(a + 1), i < j
        PROVE  g[i] < g[j]
    <3>1. i # a + 1 /\ i \in k..a /\ k <= a
      BY <2>4
    <3>2. PICK r \in 1..m : r = f[i] /\ g[i] = r
      BY <2>2, <3>1
    <3>3. CASE j = a + 1
      BY <3>2, <3>3
    <3>4. CASE j # a + 1
      <4>1. j \in k..a /\ f[i] < f[j] /\ g[j] = f[j]
        BY <1>2, <2>1, <2>4, <3>1, <3>4
      <4> QED BY <3>2, <4>1
    <3> QED BY <3>3, <3>4
  <2> QED BY <2>3, <2>4
<1>5. ASSUME NEW i \in k..(a + 1)
      PROVE  e[i] <= q[g[i]] + MaxLag
  <2>1. CASE i = a + 1
    BY <1>3, <2>1
  <2>2. CASE i # a + 1
    <3>1. i \in k..a /\ k <= a
      BY <2>2
    <3>2. PICK r \in 1..m : r = f[i]
      BY <1>2, <3>1
    <3>3. g[i] = r /\ q[r] = list[r] /\ done[i] <= list[r] + MaxLag
      BY <1>2, <1>3, <2>2, <3>1, <3>2
    <3> QED BY SMTT(20), <1>3, <3>1, <3>3
  <2> QED BY <2>1, <2>2
<1> HIDE DEF g
<1>6. Listed(g, q, e, k)
  BY <1>3, <1>4, <1>5 DEF Listed, Placing, Increasing
<1> QED BY <1>6 DEF AreListed

LEMMA TicksKeepLimits ==
  ASSUME LimitInv, Limits!Tick
  PROVE  LimitInv'
<1> USE DEF Limits!Tick
<1>1. LimitTypes' /\ Window' = Window
  BY DEF LimitInv, LimitTypes, WindowsGrow, Window
<1>2. HooksAreCurrent'
  <2> SUFFICES ASSUME NEW c \in Caller, Limits!InHook(c)'
               PROVE  request[c].now <= time + 1 /\ time + 1 <= request[c].now + MaxLag
    BY DEF HooksAreCurrent
  <2>1. Limits!InHook(c) /\ time < request[c].now + MaxLag
    BY DEF Limits!InHook
  <2>2. request[c].now \in Nat /\ time \in Nat /\ MaxLag \in Nat
    BY DEF LimitInv, LimitTypes
  <2>3. request[c].now <= time
    BY <2>1 DEF LimitInv, HooksAreCurrent
  <2> QED BY <2>1, <2>2, <2>3
<1>3. AdmittedInOrder'
  <2>1. \A i \in 1..Len(admitted) : admitted[i] \in Nat
    BY DEF LimitInv, LimitTypes
  <2>2. time \in Nat
    BY DEF LimitInv, LimitTypes
  <2> QED BY <2>1, <2>2 DEF LimitInv, AdmittedInOrder
<1>4. RecentAreListed'
  <2> SUFFICES ASSUME NEW k \in 1..Len(admitted), (time + 1) + MaxLag < admitted[k] + Window
               PROVE  AreListed(times, admitted, k)
    BY <1>1 DEF RecentAreListed, AreListed, Listed
  <2>1. time \in Nat /\ MaxLag \in Nat /\ admitted[k] \in Nat /\ Window \in Nat
    BY FirstWindow DEF LimitInv, LimitTypes
  <2>2. time + MaxLag < admitted[k] + Window
    BY <2>1
  <2> QED BY <2>2 DEF LimitInv, RecentAreListed
<1>5. Limits!LimitHolds'
  BY DEF LimitInv, Limits!LimitHolds
<1> QED BY <1>1, <1>2, <1>3, <1>4, <1>5 DEF LimitInv

LEMMA RequestsKeepLimits ==
  ASSUME LimitInv, NEW c \in Caller, Limits!Request(c)
  PROVE  LimitInv'
<1> USE DEF Limits!Request
<1> DEFINE first == [at |-> "first hook", now |-> time]
<1>1. LimitTypes' /\ Window' = Window
  <2>1. first \in [at : Limits!Places, now : Nat]
    BY DEF LimitInv, LimitTypes, Limits!Places
  <2> HIDE DEF first
  <2>2. request' = [request EXCEPT ![c] = first]
    BY DEF first
  <2>3. request' \in [Caller -> [at : Limits!Places, now : Nat]]
    BY <2>1, <2>2 DEF LimitInv, LimitTypes
  <2> QED BY <2>3 DEF LimitInv, LimitTypes, WindowsGrow, Window
<1>2. HooksAreCurrent'
  <2> SUFFICES ASSUME NEW d \in Caller, Limits!InHook(d)'
               PROVE  request'[d].now <= time /\ time <= request'[d].now + MaxLag
    BY DEF HooksAreCurrent
  <2>1. time \in Nat /\ MaxLag \in Nat /\ request \in [Caller -> [at : Limits!Places, now : Nat]]
    BY DEF LimitInv, LimitTypes
  <2>2. CASE d = c
    <3>1. request' = [request EXCEPT ![c] = first]
      OBVIOUS
    <3> HIDE DEF first
    <3>2. request'[d] = first
      BY ONLY <2>1, <2>2, <3>1
    <3>3. first.now = time
      BY DEF first
    <3>4. request'[d].now = time
      BY ONLY <3>2, <3>3
    <3> QED BY ONLY <2>1, <3>4
  <2>3. CASE d # c
    <3>1. request'[d] = request[d]
      BY <2>1, <2>3
    <3> QED BY <3>1 DEF LimitInv, HooksAreCurrent, Limits!InHook
  <2> QED BY <2>2, <2>3
<1>3. AdmittedInOrder' /\ Limits!LimitHolds'
  BY DEF LimitInv, AdmittedInOrder, Limits!LimitHolds
<1>4. RecentAreListed'
  BY <1>1 DEF LimitInv, RecentAreListed, AreListed, Listed, LimitTypes
<1> QED BY <1>1, <1>2, <1>3, <1>4 DEF LimitInv

\* A request in a hook has read an instant that is not to come, and not long past.
LEMMA HookReads ==
  ASSUME LimitInv, NEW c \in Caller, Limits!InHook(c)
  PROVE  /\ request[c].now \in Nat /\ request[c].now <= time
         /\ time \in Nat /\ MaxLag \in Nat /\ time <= request[c].now + MaxLag
<1>1. request[c] \in [at : Limits!Places, now : Nat] /\ time \in Nat /\ MaxLag \in Nat
  BY DEF LimitInv, LimitTypes
<1> QED BY <1>1 DEF LimitInv, HooksAreCurrent

\* A refusal lists no instant, but prunes the list.
LEMMA RefusalsKeepLimits ==
  ASSUME LimitInv, NEW c \in Caller, Limits!Refuse(c)
  PROVE  LimitInv'
<1> DEFINE now == request[c].now
<1>1. /\ Limits!InHook(c)
      /\ request' = [request EXCEPT ![c].at = "refused"]
      /\ UNCHANGED <<checks, time, begun, admitted>>
  BY DEF Limits!Refuse
<1>2. PICK n \in 1..Len(checks) : times' = Limits!Retained(n, now)
  <2>1. DOMAIN checks = 1..Len(checks)
    BY DEF LimitInv, LimitTypes, WindowsGrow
  <2> QED BY <2>1 DEF Limits!Refuse
<1>3. now \in Nat /\ now <= time
  BY <1>1, HookReads
<1>4. n \in 0..Len(checks)
  BY FirstWindow DEF LimitInv
<1> HIDE DEF now
<1>5. times' \in Seq(Nat)
  BY <1>2, RetainedIs DEF LimitInv
<1>6. request' \in [Caller -> [at : Limits!Places, now : Nat]]
  <2>1. request \in [Caller -> [at : Limits!Places, now : Nat]]
    BY DEF LimitInv, LimitTypes
  <2> QED BY <1>1, <2>1 DEF Limits!Places
<1>7. LimitTypes' /\ Window' = Window
  BY <1>1, <1>5, <1>6 DEF LimitInv, LimitTypes, WindowsGrow, Window
<1>8. HooksAreCurrent'
  <2> SUFFICES ASSUME NEW d \in Caller, Limits!InHook(d)'
               PROVE  request'[d].now <= time /\ time <= request'[d].now + MaxLag
    BY <1>1 DEF HooksAreCurrent
  <2>1. d # c /\ request'[d] = request[d]
    BY <1>1 DEF Limits!InHook, LimitInv, LimitTypes
  <2> QED BY <2>1 DEF LimitInv, HooksAreCurrent, Limits!InHook
<1>9. AdmittedInOrder' /\ Limits!LimitHolds'
  BY <1>1 DEF LimitInv, AdmittedInOrder, Limits!LimitHolds
<1>10. RecentAreListed'
  <2> SUFFICES ASSUME NEW k \in 1..Len(admitted), time + MaxLag < admitted[k] + Window
               PROVE  AreListed(Limits!Retained(n, now), admitted, k)
    BY <1>1, <1>2, <1>7 DEF RecentAreListed, AreListed, Listed
  <2>1. PICK l \in Nat : l = k
    OBVIOUS
  <2> QED BY <1>3, <1>4, <2>1, PrunedKeepsRecent
<1> QED BY <1>7, <1>8, <1>9, <1>10 DEF LimitInv

LEMMA AdmissionsKeepLimits ==
  ASSUME LimitInv, NEW c \in Caller, Limits!Admit(c)
  PROVE  LimitInv'
<1> DEFINE now == request[c].now
<1>1. /\ Limits!InHook(c)
      /\ \A n \in DOMAIN checks : ~Limits!Reached(n, now)
      /\ times' = Append(Limits!Retained(Len(checks), now), now)
      /\ admitted' = Append(admitted, time)
      /\ UNCHANGED <<checks, time, begun>>
  BY DEF Limits!Admit
<1>2. /\ now \in Nat /\ now <= time
      /\ time \in Nat /\ MaxLag \in Nat /\ time <= now + MaxLag
  BY <1>1, HookReads
<1> DEFINE went == IF request[c].at = "first hook" THEN [at |-> "second hook", now |-> time]
                   ELSE [at |-> "passed", now |-> now]
<1>3. request' = [request EXCEPT ![c] = went]
  BY DEF Limits!Admit
<1> HIDE DEF now, went
<1> PICK p : p = Limits!Retained(Len(checks), now)
  OBVIOUS
<1>4. p \in Seq(Nat) /\ admitted \in Seq(Nat)
  BY RetainedIs DEF LimitInv, LimitTypes
<1>5. times' = Append(p, now) /\ times' \in Seq(Nat) /\ admitted' \in Seq(Nat)
  BY <1>1, <1>2, <1>4
<1>6. request' \in [Caller -> [at : Limits!Places, now : Nat]]
  <2>1. /\ [at |-> "second hook", now |-> time] \in [at : Limits!Places, now : Nat]
        /\ [at |-> "passed", now |-> now] \in [at : Limits!Places, now : Nat]
    BY <1>2 DEF Limits!Places
  <2>2. went \in [at : Limits!Places, now : Nat]
    BY <2>1 DEF went
  <2>3. request \in [Caller -> [at : Limits!Places, now : Nat]]
    BY DEF LimitInv, LimitTypes
  <2> QED BY ONLY <1>3, <2>2, <2>3
<1>7. LimitTypes' /\ Window' = Window
  BY <1>1, <1>5, <1>6 DEF LimitInv, LimitTypes, WindowsGrow, Window
<1>8. HooksAreCurrent'
  <2> SUFFICES ASSUME NEW d \in Caller, Limits!InHook(d)'
               PROVE  request'[d].now <= time /\ time <= request'[d].now + MaxLag
    BY <1>1 DEF HooksAreCurrent
  <2>1. request \in [Caller -> [at : Limits!Places, now : Nat]]
    BY DEF LimitInv, LimitTypes
  <2>2. CASE d = c
    <3>1. request'[d].at # "passed"
      BY DEF Limits!InHook
    <3>2. request'[d] = went
      BY ONLY <1>3, <2>1, <2>2
    <3>3. went.now = time \/ went.at = "passed"
      BY DEF went
    <3>4. request'[d].now = time
      BY ONLY <3>1, <3>2, <3>3
    <3> QED BY ONLY <1>2, <3>4
  <2>3. CASE d # c
    <3>1. request'[d] = request[d]
      BY <1>3, <2>1, <2>3
    <3> QED BY <3>1 DEF LimitInv, HooksAreCurrent, Limits!InHook
  <2> QED BY <2>2, <2>3
<1> PICK a \in Nat : a = Len(admitted)
  BY <1>4
<1>9. /\ Len(admitted') = a + 1 /\ admitted'[a + 1] = time
      /\ \A i \in 1..a : admitted'[i] = admitted[i] /\ admitted[i] \in Nat
  BY <1>1, <1>4
<1>10. AdmittedInOrder'
  <2>1. \A i \in 1..a : admitted[i] <= time
    BY DEF LimitInv, AdmittedInOrder
  <2>2. \A i, j \in 1..a : i < j => admitted[i] <= admitted[j]
    BY DEF LimitInv, AdmittedInOrder
  <2>3. \A i \in 1..(a + 1) : i \in 1..a \/ i = a + 1
    OBVIOUS
  <2>4. \A i \in 1..(a + 1) : admitted'[i] <= time
    BY <1>2, <1>9, <2>1, <2>3
  <2>5. ASSUME NEW i \in 1..(a + 1), NEW j \in 1..(a + 1), i < j
        PROVE  admitted'[i] <= admitted'[j]
    <3>1. i \in 1..a
      BY <2>5
    <3> QED BY <1>9, <2>1, <2>2, <2>3, <2>5, <3>1
  <2> QED BY <1>1, <1>9, <2>4, <2>5 DEF AdmittedInOrder
<1>11. RecentAreListed'
  <2> SUFFICES ASSUME NEW k \in 1..(a + 1), time + MaxLag < admitted'[k] + Window
               PROVE  AreListed(Append(p, now), Append(admitted, time), k)
    <3>1. 1..Len(admitted') = 1..(a + 1) /\ time' = time /\ Window' = Window
      BY <1>1, <1>7, <1>9
    <3>2. times' = Append(p, now) /\ admitted' = Append(admitted, time)
      BY <1>1, <1>5
    <3> QED BY <3>1, <3>2 DEF RecentAreListed
  <2> PICK l \in Nat : l = k
    OBVIOUS
  <2>1. l <= a => AreListed(p, admitted, l)
    <3> SUFFICES ASSUME l <= a
                 PROVE  AreListed(p, admitted, l)
      OBVIOUS
    <3>1. l \in 1..Len(admitted) /\ time + MaxLag < admitted[l] + Window
      BY <1>9
    <3>2. Len(checks) \in 0..Len(checks)
      BY FirstWindow DEF LimitInv
    <3> QED BY <1>2, <3>1, <3>2, PrunedKeepsRecent
  <2>2. AreListed(Append(p, now), Append(admitted, time), l)
    <3>1. 1 <= l /\ l <= Len(admitted) + 1 /\ (l <= Len(admitted) => AreListed(p, admitted, l))
      BY <2>1
    <3> QED BY ONLY <1>2, <1>4, <3>1, OneMoreListed
  <2> QED BY <2>2
<1>12. Limits!LimitHolds'
  <2> DEFINE lim == checks[1].limit
  <2> SUFFICES ASSUME NEW i \in 1..(a + 1), NEW j \in 1..(a + 1), j = i + lim
               PROVE  admitted'[j] - admitted'[i] >= Window - MaxLag
    <3>1. DOMAIN admitted' = 1..(a + 1)
      BY <1>5, <1>9
    <3> QED BY <1>1, <3>1 DEF Limits!LimitHolds, Window
  <2>1. lim \in Nat /\ Window \in Nat /\ 1 \in DOMAIN checks
    <3>1. DOMAIN checks = 1..Len(checks)
      BY DEF LimitInv, LimitTypes, WindowsGrow
    <3> QED BY <3>1, FirstWindow DEF LimitInv
  <2>2. ~(Len(Limits!Retained(1, now)) >= lim)
    BY <1>1, <2>1 DEF Limits!Reached
  <2> PICK q \in Seq(Nat) : q = Limits!Retained(1, now)
    BY RetainedIs DEF LimitInv
  <2> HIDE DEF lim
  <2>3. i \in 1..a
    BY <2>1, <2>2
  <2>4. CASE j \in 1..a
    <3>1. admitted[j] - admitted[i] >= Window - MaxLag
      <4>1. DOMAIN admitted = 1..a
        BY <1>4
      <4> QED BY <2>3, <2>4, <4>1 DEF LimitInv, Limits!LimitHolds, Window, lim
    <3> QED BY <1>9, <2>3, <2>4, <3>1
  <2>5. CASE j = a + 1
    <3> SUFFICES ASSUME time + MaxLag < admitted[i] + Window
                 PROVE  FALSE
      <4>1. PICK x \in Nat : x = admitted[i]
        BY <1>9, <2>3
      <4>2. admitted'[i] = x /\ admitted'[j] = time
        BY <1>9, <2>3, <2>5, <4>1
      <4> QED BY <1>2, <2>1, <4>1, <4>2
    <3> PICK l \in Nat : l = i
      OBVIOUS
    <3> PICK m \in Nat : m = Len(q)
      OBVIOUS
    <3>1. 1 \in 0..Len(checks)
      BY FirstWindow DEF LimitInv
    <3>2. AreListed(q, admitted, l)
      BY <1>2, <2>3, <3>1, PrunedKeepsRecent
    <3>3. PICK f : Placing(f, q, l, a)
      BY <3>2 DEF AreListed, Listed
    <3>4. f \in [l..a -> 1..m] /\ Increasing(f, l, a) /\ l <= a
      BY <2>3, <3>3 DEF Placing
    <3>5. a - l + 1 <= m
      BY ONLY <3>4, IncreasingCounts
    <3> QED BY <2>1, <2>2, <2>5, <3>5
  <2> QED BY <1>9, <2>4, <2>5
<1> QED BY <1>7, <1>8, <1>10, <1>11, <1>12 DEF LimitInv

LEMMA LimitsStay ==
  ASSUME LimitInv, [Limits!Next]_(Limits!vars)
  PROVE  LimitInv'
<1>1. CASE Limits!Next
  BY <1>1, TicksKeepLimits, RequestsKeepLimits, RefusalsKeepLimits, AdmissionsKeepLimits
  DEF Limits!Next
<1>2. CASE UNCHANGED Limits!vars
  BY <1>2 DEF Limits!vars, LimitInv, LimitTypes, WindowsGrow, HooksAreCurrent, Limits!InHook,
    AdmittedInOrder, RecentAreListed, AreListed, Listed, Window, Limits!LimitHolds
<1> QED BY <1>1, <1>2

LEMMA InitiallyLimited ==
  ASSUME MaxLag \in Nat, WindowsGrow, Limits!Init
  PROVE  LimitInv
<1> USE DEF Limits!Init
<1>1. LimitTypes
  <2>1. [at |-> "idle", now |-> 0] \in [at : Limits!Places, now : Nat]
    BY DEF Limits!Places
  <2>2. request \in [Caller -> [at : Limits!Places, now : Nat]]
    BY <2>1
  <2> QED BY <2>2 DEF LimitTypes
<1>2. HooksAreCurrent
  BY DEF HooksAreCurrent, Limits!InHook
<1>3. AdmittedInOrder /\ RecentAreListed /\ Limits!LimitHolds
  <2>1. Len(admitted) = 0 /\ DOMAIN admitted = {} /\ 1..Len(admitted) = {}
    OBVIOUS
  <2> QED BY <2>1 DEF AdmittedInOrder, RecentAreListed, Limits!LimitHolds
<1> QED BY <1>1, <1>2, <1>3 DEF LimitInv

\* However the hooks interleave between reading the clock and taking the lock,
\* whatever the limits (middleware/rate_limit.rs tests the shorter window first),
\* one more admission than the first limit takes its window, less the wait.
THEOREM LimitsHold == Limits!Spec => []LimitHolds
<1>1. Limits!Init => LimitInv
  BY ServicesAssumption, InitiallyLimited
<1>2. LimitInv /\ [Limits!Next]_(Limits!vars) => LimitInv'
  BY LimitsStay
<1>3. LimitInv => LimitHolds
  BY DEF LimitInv, LimitHolds
<1> QED BY <1>1, <1>2, <1>3, PTL DEF Limits!Spec

-------------------------------------------------------------------------------
(***************************************************************************)
(* Checkpointers: a snapshot may wait long for its put, while others are   *)
(* put; what it names as its parent was stored when it was made, and what  *)
(* is stored stays.  No two snapshots are of one instant.                  *)
(***************************************************************************)

StoredSnapshots ==
  [id : Nat, thread : Thread, values : Seq(Update), parent : Nat, created : Nat]

HeldSnapshots == [thread : Thread, values : Seq(Update), parent : Nat, created : Nat]

SaverTypes ==
  /\ rows \in Seq(StoredSnapshots) /\ clock \in Nat
  /\ held \in [Writer -> SUBSET HeldSnapshots]

\* A snapshot of the thread that has a parent continues a stored one.
Continues(thread, values, parent, created) ==
  parent # Savers!NoParent =>
    \E i \in 1..Len(rows) :
      /\ rows[i].thread = thread /\ rows[i].id = parent /\ rows[i].created < created
      /\ Savers!IsPrefix(rows[i].values, values) /\ Len(values) <= Len(rows[i].values) + 1

AllContinue ==
  /\ \A k \in 1..Len(rows) :
       Continues(rows[k].thread, rows[k].values, rows[k].parent, rows[k].created)
  /\ \A w \in Writer : \A s \in held[w] : Continues(s.thread, s.values, s.parent, s.created)

\* Every snapshot has an instant of its own.
InstantsDiffer ==
  /\ \A i \in 1..Len(rows) : rows[i].created \in 1..clock
  /\ \A i, j \in 1..Len(rows) : rows[i].created = rows[j].created => i = j
  /\ \A w \in Writer : \A s \in held[w] :
       s.created \in 1..clock /\ \A i \in 1..Len(rows) : rows[i].created # s.created
  /\ \A v, w \in Writer : \A s \in held[v] : \A r \in held[w] :
       s.created = r.created => v = w /\ s = r

SaverInv == SaverTypes /\ AllContinue /\ InstantsDiffer

\* The rows a query finds.
LEMMA FoundRows ==
  ASSUME SaverTypes, NEW P, P \subseteq 1..Len(rows)
  PROVE  /\ Savers!Selected(rows, P) = Selected(rows, P)
         /\ Selected(rows, P) \in Seq(StoredSnapshots)
         /\ Savers!ToSet(Selected(rows, P)) = {rows[i] : i \in P}
         /\ Selected(rows, P) # <<>> <=> P # {}
<1>1. Savers!Selected(rows, P) = Selected(rows, P)
  BY DEF Savers!Selected, Selected, Savers!FlattenSeq, FlattenSeq
<1>2. rows \in Seq(StoredSnapshots)
  BY DEF SaverTypes
<1> PICK p : p = Selected(rows, P)
  OBVIOUS
<1>3. p \in Seq(StoredSnapshots)
  BY <1>2, SelectedElements
<1>4. {p[r] : r \in 1..Len(p)} = {rows[i] : i \in P}
  <2>1. ElementsAt(p, 1..Len(p)) = ElementsAt(rows, P)
    BY <1>2, SelectedSet
  <2> QED BY <2>1 DEF ElementsAt
<1>5. Savers!ToSet(p) = {p[r] : r \in 1..Len(p)}
  BY <1>3 DEF Savers!ToSet
<1>6. p # <<>> <=> {p[r] : r \in 1..Len(p)} # {}
  <2>1. p # <<>> => 1 \in 1..Len(p)
    BY <1>3
  <2>2. p = <<>> => 1..Len(p) = {}
    OBVIOUS
  <2> QED BY <2>1, <2>2
<1>7. {rows[i] : i \in P} # {} <=> P # {}
  OBVIOUS
<1> QED BY <1>1, <1>3, <1>4, <1>5, <1>6, <1>7

OfThreadSet(t)      == {i \in 1..Len(rows) : rows[i].thread = t}
MatchingSet(t, id)  == {i \in 1..Len(rows) : rows[i].thread = t /\ id \in {Savers!Latest, rows[i].id}}

LEMMA MatchingIs ==
  ASSUME SaverTypes, NEW t, NEW id
  PROVE  /\ Savers!OfThread(t) = Selected(rows, OfThreadSet(t))
         /\ Savers!Matching(t, id) = Selected(rows, MatchingSet(t, id))
<1>1. DOMAIN rows = 1..Len(rows)
  BY DEF SaverTypes
<1>2. Savers!RowsOf(t) = OfThreadSet(t)
  BY <1>1 DEF Savers!RowsOf, OfThreadSet
<1>3. {i \in Savers!RowsOf(t) : id \in {Savers!Latest, rows[i].id}} = MatchingSet(t, id)
  BY <1>2 DEF OfThreadSet, MatchingSet
<1>4. Savers!OfThread(t) = Savers!Selected(rows, OfThreadSet(t))
  BY <1>2 DEF Savers!OfThread
<1>5. Savers!Matching(t, id) = Savers!Selected(rows, MatchingSet(t, id))
  BY <1>3 DEF Savers!Matching
<1>6. OfThreadSet(t) \subseteq 1..Len(rows) /\ MatchingSet(t, id) \subseteq 1..Len(rows)
  BY DEF OfThreadSet, MatchingSet
<1> QED BY <1>4, <1>5, <1>6, FoundRows

\* Among the rows found one is the newest.
LEMMA NewestIsFound ==
  ASSUME SaverInv, NEW P, P \subseteq 1..Len(rows), P # {}
  PROVE  \E i \in P : /\ Savers!NewestOf({rows[k] : k \in P}) = rows[i]
                      /\ \A k \in P : rows[i].created >= rows[k].created
<1> DEFINE key == [k \in P |-> rows[k].created]
<1>1. \A k \in P : key[k] \in 0..clock
  BY DEF SaverInv, InstantsDiffer
<1>2. clock \in Nat
  BY DEF SaverInv, SaverTypes
<1> HIDE DEF key
<1>3. \E i \in P : \A k \in P : key[i] >= key[k]
  BY <1>1, <1>2, GreatestExists
<1> PICK i \in P : \A k \in P : rows[i].created >= rows[k].created
  BY <1>3 DEF key
<1> DEFINE R == {rows[k] : k \in P}
           Newest(r) == \A s \in R : r.created >= s.created
<1>4. rows[i] \in R /\ Newest(rows[i])
  OBVIOUS
<1>5. (CHOOSE r \in R : Newest(r)) \in R /\ Newest(CHOOSE r \in R : Newest(r))
  BY <1>4
<1>6. Savers!NewestOf(R) = CHOOSE r \in R : Newest(r)
  BY DEF Savers!NewestOf
<1>7. PICK j \in P : rows[j] = Savers!NewestOf(R)
  BY <1>5, <1>6
<1>8. \A k \in P : rows[j].created >= rows[k].created
  BY <1>5, <1>6, <1>7
<1> QED BY <1>7, <1>8

\* What get returns is a stored checkpoint of the thread.
LEMMA GetIsStored ==
  ASSUME SaverInv, NEW t, NEW id, Savers!Exists(t, id)
  PROVE  \E i \in MatchingSet(t, id) : Savers!Get(t, id) = rows[i]
<1> DEFINE P == MatchingSet(t, id)
<1> PICK p : p = Selected(rows, P)
  OBVIOUS
<1>1. P \subseteq 1..Len(rows)
  BY DEF MatchingSet
<1>2. p = Savers!Matching(t, id) /\ p # <<>>
  BY MatchingIs DEF SaverInv, Savers!Exists
<1> HIDE DEF P
<1>3. /\ p \in Seq(StoredSnapshots) /\ P # {}
      /\ Savers!ToSet(p) = {rows[i] : i \in P}
  BY <1>1, <1>2, FoundRows DEF SaverInv
<1>4. CASE saver = "sqlite"
  <2>1. Savers!Get(t, id) = Savers!NewestOf({rows[i] : i \in P})
    BY <1>2, <1>3, <1>4 DEF Savers!Get
  <2> QED BY <1>1, <1>3, <2>1, NewestIsFound DEF P
<1>5. CASE saver # "sqlite"
  <2>1. Savers!Get(t, id) \in {p[r] : r \in 1..Len(p)}
    <3>1. 1 \in 1..Len(p) /\ Len(p) \in 1..Len(p)
      BY <1>2, <1>3
    <3>2. Savers!Get(t, id) = IF id = Savers!Latest THEN Savers!Last(p) ELSE Head(p)
      BY <1>2, <1>5 DEF Savers!Get
    <3>3. Savers!Last(p) = p[Len(p)] /\ Head(p) = p[1]
      BY <1>2, <1>3 DEF Savers!Last
    <3> QED BY <3>1, <3>2, <3>3
  <2>2. Savers!ToSet(p) = {p[r] : r \in 1..Len(p)}
    BY <1>3 DEF Savers!ToSet
  <2> QED BY <1>3, <2>1, <2>2 DEF P
<1> QED BY <1>4, <1>5

LEMMA HeldIsKept ==
  ASSUME SaverInv, NEW w \in Writer, NEW s \in HeldSnapshots, s.created = clock + 1,
         Continues(s.thread, s.values, s.parent, s.created), Savers!Hold(w, s)
  PROVE  SaverInv'
<1>1. /\ held' = [held EXCEPT ![w] = {s}] /\ clock' = clock + 1
      /\ UNCHANGED <<saver, rows>>
  BY DEF Savers!Hold
<1>2. /\ clock \in Nat /\ rows \in Seq(StoredSnapshots)
      /\ held \in [Writer -> SUBSET HeldSnapshots]
  BY DEF SaverInv, SaverTypes
<1>3. \A v \in Writer : held'[v] = IF v = w THEN {s} ELSE held[v]
  BY <1>1, <1>2
<1>4. SaverTypes'
  BY <1>1, <1>2 DEF SaverTypes
<1>5. AllContinue'
  BY SMTT(20), <1>1, <1>3 DEF SaverInv, AllContinue, Continues
<1>6. InstantsDiffer'
  <2>1. \A i \in 1..Len(rows) : rows[i].created \in 1..clock
    BY DEF SaverInv, InstantsDiffer
  <2>2. \A v \in Writer : \A r \in held[v] : r.created \in 1..clock
    BY DEF SaverInv, InstantsDiffer
  <2>3. \A i \in 1..Len(rows) : rows[i].created \in 1..(clock + 1) /\ rows[i].created # s.created
    BY <1>2, <2>1
  <2>4. \A v \in Writer : \A r \in held[v] : r.created \in 1..(clock + 1) /\ r.created # s.created
    BY <1>2, <2>2
  <2>5. s.created \in 1..(clock + 1)
    BY <1>2
  <2> QED BY <1>1, <1>3, <2>3, <2>4, <2>5 DEF SaverInv, InstantsDiffer
<1> QED BY <1>4, <1>5, <1>6 DEF SaverInv

LEMMA RunSnapshotIsKept ==
  ASSUME SaverInv, NEW w \in Writer, NEW t \in Thread, Savers!RunSnapshot(w, t)
  PROVE  SaverInv'
<1> PICK u \in Update : Savers!Hold(w, Savers!Snapshot(t, <<u>>, Savers!NoParent))
  BY DEF Savers!RunSnapshot
<1> DEFINE s == Savers!Snapshot(t, <<u>>, Savers!NoParent)
<1>1. clock \in Nat
  BY DEF SaverInv, SaverTypes
<1>2. /\ s \in HeldSnapshots /\ s.created = clock + 1 /\ s.parent = Savers!NoParent
  BY <1>1 DEF Savers!Snapshot, Savers!NoParent, HeldSnapshots
<1>3. Continues(s.thread, s.values, s.parent, s.created)
  BY <1>2 DEF Continues
<1> HIDE DEF s
<1>4. Savers!Hold(w, s)
  BY DEF s
<1> QED BY <1>2, <1>3, <1>4, HeldIsKept

\* A snapshot whose state is that of a checkpoint get found, or one update more.
LEMMA ForkIsKept ==
  ASSUME SaverInv, NEW w \in Writer, NEW t \in Thread, NEW id, Savers!Exists(t, id),
         NEW values \in Seq(Update), Savers!IsPrefix(Savers!Get(t, id).values, values),
         Len(values) <= Len(Savers!Get(t, id).values) + 1,
         Savers!Hold(w, Savers!Snapshot(t, values, Savers!Get(t, id).id))
  PROVE  SaverInv'
<1> PICK i \in MatchingSet(t, id) : Savers!Get(t, id) = rows[i]
  BY GetIsStored
<1>1. i \in 1..Len(rows) /\ rows[i].thread = t
  BY DEF MatchingSet
<1> DEFINE s == Savers!Snapshot(t, values, rows[i].id)
<1>2. clock \in Nat /\ rows[i] \in StoredSnapshots /\ rows[i].created \in 1..clock
  <2>1. rows \in Seq(StoredSnapshots) /\ clock \in Nat
    BY DEF SaverInv, SaverTypes
  <2>2. rows[i] \in StoredSnapshots
    BY <1>1, <2>1
  <2> QED BY <1>1, <2>1, <2>2 DEF SaverInv, InstantsDiffer
<1>3. /\ s \in HeldSnapshots /\ s.created = clock + 1 /\ s.thread = t
      /\ s.values = values /\ s.parent = rows[i].id
  BY <1>2 DEF Savers!Snapshot, HeldSnapshots, StoredSnapshots
<1>4. Savers!Hold(w, s)
  OBVIOUS
<1> HIDE DEF s
<1>5. Continues(s.thread, s.values, s.parent, s.created)
  <2>1. rows[i].created < clock + 1
    BY <1>2
  <2>2. Savers!IsPrefix(rows[i].values, values) /\ Len(values) <= Len(rows[i].values) + 1
    OBVIOUS
  <2> QED BY <1>1, <1>3, <2>1, <2>2 DEF Continues
<1> QED BY <1>3, <1>4, <1>5, HeldIsKept

LEMMA ForksAreKept ==
  ASSUME SaverInv, NEW w \in Writer, NEW t \in Thread, NEW id,
         Savers!ResumedSnapshot(w, t, id) \/ Savers!UpdateState(w, t, id)
  PROVE  SaverInv'
<1>1. Savers!Exists(t, id)
  BY DEF Savers!ResumedSnapshot, Savers!UpdateState
<1> PICK at \in Seq(Update) : at = Savers!Get(t, id).values
  <2>1. PICK i \in MatchingSet(t, id) : Savers!Get(t, id) = rows[i]
    BY <1>1, GetIsStored
  <2>2. rows \in Seq(StoredSnapshots) /\ i \in 1..Len(rows)
    BY DEF SaverInv, SaverTypes, MatchingSet
  <2>3. rows[i] \in StoredSnapshots
    BY <2>2
  <2> QED BY <2>1, <2>3 DEF StoredSnapshots
<1>2. CASE Savers!ResumedSnapshot(w, t, id)
  <2>1. Savers!IsPrefix(at, at) /\ Len(at) <= Len(at) + 1
    BY DEF Savers!IsPrefix
  <2>2. Savers!Hold(w, Savers!Snapshot(t, at, Savers!Get(t, id).id))
    BY <1>2 DEF Savers!ResumedSnapshot
  <2> QED BY <1>1, <2>1, <2>2, ForkIsKept
<1>3. CASE Savers!UpdateState(w, t, id)
  <2>1. PICK u \in Update :
          Savers!Hold(w, Savers!Snapshot(t, Append(at, u), Savers!Get(t, id).id))
    BY <1>3 DEF Savers!UpdateState
  <2> PICK values : values = Append(at, u)
    OBVIOUS
  <2>2. /\ values \in Seq(Update) /\ Len(values) = Len(at) + 1
        /\ \A i \in 1..Len(at) : values[i] = at[i]
    OBVIOUS
  <2>3. Savers!IsPrefix(at, values) /\ Len(values) <= Len(at) + 1
    BY <2>2 DEF Savers!IsPrefix
  <2>4. Savers!Hold(w, Savers!Snapshot(t, values, Savers!Get(t, id).id))
    BY <2>1
  <2> QED BY <1>1, <2>2, <2>3, <2>4, ForkIsKept
<1> QED BY <1>2, <1>3

\* A put ends the wait of a snapshot, whatever was put since it was made.
LEMMA PutKeepsSnapshots ==
  ASSUME SaverInv, NEW w \in Writer, Savers!Put(w)
  PROVE  SaverInv'
<1> PICK n \in Nat : n = Len(rows)
  BY DEF SaverInv, SaverTypes
<1> DEFINE Row(s) == [id |-> n + 1, thread |-> s.thread, values |-> s.values,
                      parent |-> s.parent, created |-> s.created]
<1>1. PICK s \in held[w] : /\ rows' = Append(rows, Row(s))
                           /\ held' = [held EXCEPT ![w] = {}]
                           /\ UNCHANGED <<saver, clock>>
  BY DEF Savers!Put
<1>2. /\ clock \in Nat /\ rows \in Seq(StoredSnapshots)
      /\ held \in [Writer -> SUBSET HeldSnapshots]
  BY DEF SaverInv, SaverTypes
<1> PICK row : row = Row(s)
  OBVIOUS
<1>3. /\ row \in StoredSnapshots /\ row.thread = s.thread /\ row.values = s.values
      /\ row.parent = s.parent /\ row.created = s.created
  <2>1. s \in HeldSnapshots
    BY <1>2
  <2> QED BY <2>1 DEF HeldSnapshots, StoredSnapshots
<1>4. rows' = Append(rows, row)
  BY <1>1
<1> HIDE DEF Row
<1>5. /\ rows' \in Seq(StoredSnapshots) /\ Len(rows') = n + 1 /\ rows'[n + 1] = row
      /\ \A i \in 1..n : rows'[i] = rows[i]
  BY <1>2, <1>3, <1>4
<1>6. \A v \in Writer : held'[v] = IF v = w THEN {} ELSE held[v]
  BY <1>1, <1>2
<1>7. SaverTypes'
  <2>1. held' \in [Writer -> SUBSET HeldSnapshots]
    BY <1>1, <1>2
  <2> QED BY <1>1, <1>2, <1>5, <2>1 DEF SaverTypes
<1>8. ASSUME NEW thread, NEW values, NEW parent, NEW created,
             Continues(thread, values, parent, created)
      PROVE  Continues(thread, values, parent, created)'
  <2> SUFFICES ASSUME parent # Savers!NoParent
               PROVE  \E i \in 1..Len(rows') :
                        /\ rows'[i].thread = thread /\ rows'[i].id = parent /\ rows'[i].created < created
                        /\ Savers!IsPrefix(rows'[i].values, values)
                        /\ Len(values) <= Len(rows'[i].values) + 1
    BY DEF Continues
  <2>1. PICK i \in 1..n :
          /\ rows[i].thread = thread /\ rows[i].id = parent /\ rows[i].created < created
          /\ Savers!IsPrefix(rows[i].values, values) /\ Len(values) <= Len(rows[i].values) + 1
    BY <1>8 DEF Continues
  <2>2. i \in 1..Len(rows') /\ rows'[i] = rows[i]
    BY <1>5
  <2> QED BY <2>1, <2>2
<1>9. AllContinue'
  <2>1. ASSUME NEW k \in 1..Len(rows')
        PROVE  \E r : r = rows'[k] /\ Continues(r.thread, r.values, r.parent, r.created)'
    <3> PICK r : r = rows'[k]
      OBVIOUS
    <3>1. Continues(r.thread, r.values, r.parent, r.created)
      <4>1. k \in 1..n => r = rows[k]
        BY <1>5
      <4>2. k \in 1..n \/ k = n + 1
        BY <1>5
      <4>3. k = n + 1 => r = row
        BY <1>5
      <4> QED BY <1>3, <4>1, <4>2, <4>3 DEF SaverInv, AllContinue
    <3>2. Continues(r.thread, r.values, r.parent, r.created)'
      BY <1>8, <3>1
    <3> QED BY <3>2
  <2>2. ASSUME NEW v \in Writer, NEW r \in held'[v]
        PROVE  Continues(r.thread, r.values, r.parent, r.created)'
    <3>1. r \in held[v]
      BY <1>6
    <3> QED BY <1>8, <3>1 DEF SaverInv, AllContinue
  <2> QED BY <2>1, <2>2 DEF AllContinue
<1>10. InstantsDiffer'
  <2>1. /\ \A i \in 1..n : rows[i].created \in 1..clock
        /\ \A i, j \in 1..n : rows[i].created = rows[j].created => i = j
        /\ \A i \in 1..n : rows[i].created # row.created
        /\ row.created \in 1..clock
    BY <1>3 DEF SaverInv, InstantsDiffer
  <2>2. \A i \in 1..(n + 1) : i \in 1..n \/ i = n + 1
    OBVIOUS
  <2>3. \A i \in 1..(n + 1) : rows'[i].created \in 1..clock
    BY <1>5, <2>1, <2>2
  <2>4. \A i, j \in 1..(n + 1) : rows'[i].created = rows'[j].created => i = j
    BY <1>5, <2>1, <2>2
  <2>5. ASSUME NEW v \in Writer, NEW r \in held'[v]
        PROVE  r.created \in 1..clock /\ \A i \in 1..(n + 1) : rows'[i].created # r.created
    <3>1. r \in held[v] /\ v # w
      BY <1>6
    <3>2. r.created # row.created
      BY <1>3, <3>1 DEF SaverInv, InstantsDiffer
    <3>3. r.created \in 1..clock /\ \A i \in 1..n : rows[i].created # r.created
      BY <3>1 DEF SaverInv, InstantsDiffer
    <3> QED BY <1>5, <2>2, <3>2, <3>3
  <2>6. ASSUME NEW u \in Writer, NEW v \in Writer, NEW q \in held'[u], NEW r \in held'[v],
               q.created = r.created
        PROVE  u = v /\ q = r
    <3>1. q \in held[u] /\ r \in held[v]
      BY <1>6
    <3> QED BY <2>6, <3>1 DEF SaverInv, InstantsDiffer
  <2> QED BY <1>1, <1>5, <2>3, <2>4, <2>5, <2>6 DEF InstantsDiffer
<1> QED BY <1>7, <1>9, <1>10 DEF SaverInv

LEMMA LostPutKeepsSnapshots ==
  ASSUME SaverInv, NEW w \in Writer, Savers!PutLost(w)
  PROVE  SaverInv'
<1>1. /\ held' = [held EXCEPT ![w] = {}]
      /\ UNCHANGED <<saver, rows, clock>>
  BY DEF Savers!PutLost
<1>2. held \in [Writer -> SUBSET HeldSnapshots]
  BY DEF SaverInv, SaverTypes
<1>3. \A v \in Writer : held'[v] \subseteq held[v]
  BY <1>1, <1>2
<1>4. SaverTypes'
  BY <1>1, <1>2 DEF SaverInv, SaverTypes
<1>5. AllContinue'
  BY <1>1, <1>3 DEF SaverInv, AllContinue, Continues
<1>6. InstantsDiffer'
  BY <1>1, <1>3 DEF SaverInv, InstantsDiffer
<1> QED BY <1>4, <1>5, <1>6 DEF SaverInv

LEMMA SaversStepCorrectly ==
  ASSUME SaverInv, [Savers!Next]_(Savers!vars)
  PROVE  SaverInv'
<1>1. CASE Savers!Next
  <2> PICK w \in Writer :
        \/ \E t \in Thread :
             \/ Savers!RunSnapshot(w, t)
             \/ \E id : Savers!ResumedSnapshot(w, t, id) \/ Savers!UpdateState(w, t, id)
        \/ Savers!Put(w)
        \/ Savers!PutLost(w)
    BY <1>1 DEF Savers!Next
  <2> QED BY RunSnapshotIsKept, ForksAreKept, PutKeepsSnapshots, LostPutKeepsSnapshots
<1>2. CASE UNCHANGED Savers!vars
  BY <1>2 DEF Savers!vars, SaverInv, SaverTypes, AllContinue, Continues, InstantsDiffer
<1> QED BY <1>1, <1>2

LEMMA SaversStartCorrectly ==
  ASSUME Savers!Init
  PROVE  SaverInv
BY DEF Savers!Init, SaverInv, SaverTypes, AllContinue, InstantsDiffer

\* The checkpoints of a thread.
LEMMA ThreadRows ==
  ASSUME SaverTypes, NEW t
  PROVE  Savers!ToSet(Savers!OfThread(t)) = {rows[i] : i \in OfThreadSet(t)}
<1>1. OfThreadSet(t) \subseteq 1..Len(rows)
  BY DEF OfThreadSet
<1>2. Savers!OfThread(t) = Selected(rows, OfThreadSet(t))
  BY MatchingIs
<1> QED BY <1>1, <1>2, FoundRows

LEMMA ForksContinue ==
  ASSUME SaverInv
  PROVE  Savers!ForksContinueTheirParent
<1> SUFFICES ASSUME NEW k \in 1..Len(rows), rows[k].parent # Savers!NoParent
             PROVE  \E p \in Savers!ToSet(Savers!OfThread(rows[k].thread)) :
                      /\ p.id = rows[k].parent /\ p.created < rows[k].created
                      /\ Savers!IsPrefix(p.values, rows[k].values)
                      /\ Len(rows[k].values) <= Len(p.values) + 1
  <2>1. rows \in Seq(StoredSnapshots)
    BY DEF SaverInv, SaverTypes
  <2>2. \A r \in Savers!ToSet(rows) : \E k \in 1..Len(rows) : r = rows[k]
    BY <2>1 DEF Savers!ToSet
  <2> QED BY <2>2 DEF Savers!ForksContinueTheirParent
<1>1. Continues(rows[k].thread, rows[k].values, rows[k].parent, rows[k].created)
  BY DEF SaverInv, AllContinue
<1> PICK i \in 1..Len(rows) :
      /\ rows[i].thread = rows[k].thread /\ rows[i].id = rows[k].parent
      /\ rows[i].created < rows[k].created
      /\ Savers!IsPrefix(rows[i].values, rows[k].values)
      /\ Len(rows[k].values) <= Len(rows[i].values) + 1
  BY <1>1 DEF Continues
<1>2. i \in OfThreadSet(rows[k].thread)
  BY DEF OfThreadSet
<1> PICK t : t = rows[k].thread
  OBVIOUS
<1>3. rows[i] \in Savers!ToSet(Savers!OfThread(t))
  <2>1. SaverTypes
    BY DEF SaverInv
  <2>2. Savers!ToSet(Savers!OfThread(t)) = {rows[j] : j \in OfThreadSet(t)}
    BY ONLY <2>1, ThreadRows
  <2> QED BY <1>2, <2>2
<1> QED BY <1>3

\* ORDER BY created_at puts the newest last.
LEMMA NewestIsLast ==
  ASSUME SaverInv, NEW P, P \subseteq 1..Len(rows), P # {},
         NEW i \in P, \A k \in P : rows[i].created >= rows[k].created
  PROVE  Savers!Last(Savers!ByCreation({rows[k] : k \in P})) = rows[i]
<1> PICK R : R = {rows[k] : k \in P}
  OBVIOUS
<1> PICK n \in Nat : n = clock
  BY DEF SaverInv, SaverTypes
<1> DEFINE At(c) == CHOOSE r \in R : r.created = c
           at    == [c \in 1..n |-> At(c)]
           S     == {at[c] : c \in 1..n}
           D     == {r.created : r \in R}
<1>1. at \in Seq(S) /\ Len(at) = n
  <2>1. at \in [1..n -> S]
    OBVIOUS
  <2> HIDE DEF at, S
  <2> QED BY <2>1
<1> PICK q : q = Savers!ByCreation(R)
  OBVIOUS
<1>2. q = Selected(at, D)
  BY DEF Savers!ByCreation, Savers!Selected, Selected, Savers!FlattenSeq, FlattenSeq
<1> PICK e : e = rows[i].created
  OBVIOUS
<1>3. \A k \in 1..Len(rows) : rows[k].created \in 1..n
  BY DEF SaverInv, InstantsDiffer
<1>4. e \in D /\ e \in 1..n /\ \A d \in D : d \in Nat /\ e >= d
  BY <1>3
<1>5. at[e] = rows[i]
  <2>1. \A r \in R : r.created = e => r = rows[i]
    BY DEF SaverInv, InstantsDiffer
  <2>2. rows[i] \in R /\ rows[i].created = e
    OBVIOUS
  <2>3. At(e) = rows[i]
    BY <2>1, <2>2
  <2> QED BY <1>4, <2>3
<1> HIDE DEF At, at, S, D
<1>6. q \in Seq(S)
  BY <1>1, <1>2, SelectedElements
<1> PICK m \in Nat : m = Len(q)
  <2>1. Len(q) \in Nat
    BY ONLY <1>6
  <2> QED BY ONLY <2>1
<1> PICK g : Selects(g, at, D, q)
  BY <1>1, <1>2, SelectedElements
<1>7. /\ \A a, b \in 1..m : a < b => g[a] < g[b]
      /\ \A a \in 1..m : g[a] \in D /\ q[a] = at[g[a]]
      /\ \A c \in 1..n : c \in D => \E a \in 1..m : g[a] = c
  BY <1>1 DEF Selects, Increasing
<1> PICK a \in 1..m : g[a] = e
  BY <1>4, <1>7
<1>8. a = m
  <2> SUFFICES ASSUME a < m
               PROVE  FALSE
    OBVIOUS
  <2>1. m \in 1..m
    OBVIOUS
  <2>2. PICK d \in D : d = g[m]
    BY <1>7, <2>1
  <2>3. e < d
    BY <1>7, <2>1, <2>2
  <2>4. e \in Nat /\ d \in Nat /\ e >= d
    BY <1>4
  <2> QED BY <2>3, <2>4
<1>9. q[m] = rows[i]
  BY <1>5, <1>7, <1>8
<1>10. Savers!Last(q) = q[m]
  BY DEF Savers!Last
<1> QED BY <1>9, <1>10

\* Of a thread with checkpoints, the latest is the last that is listed.
LEMMA LatestIsLast ==
  ASSUME SaverInv, NEW t \in Thread, Savers!Exists(t, Savers!Latest)
  PROVE  /\ Savers!Get(t, Savers!Latest) = Savers!Last(Savers!List(t))
         /\ saver = "sqlite" \/ Savers!ArrivedInOrder(t) =>
              \A r \in Savers!ToSet(Savers!OfThread(t)) :
                r.created <= Savers!Get(t, Savers!Latest).created
<1> PICK P : P = OfThreadSet(t)
  OBVIOUS
<1>1. MatchingSet(t, Savers!Latest) = P /\ P \subseteq 1..Len(rows)
  BY DEF MatchingSet, OfThreadSet
<1> PICK p : p = Selected(rows, P)
  OBVIOUS
<1>2. p = Savers!OfThread(t) /\ p = Savers!Matching(t, Savers!Latest)
  BY <1>1, MatchingIs DEF SaverInv
<1>3. /\ p \in Seq(StoredSnapshots) /\ P # {} /\ p # <<>>
      /\ Savers!ToSet(p) = {rows[k] : k \in P}
  BY <1>1, <1>2, FoundRows DEF SaverInv, Savers!Exists
<1>4. CASE saver = "sqlite"
  <2>1. PICK i \in P : /\ Savers!NewestOf({rows[k] : k \in P}) = rows[i]
                       /\ \A k \in P : rows[i].created >= rows[k].created
    BY <1>1, <1>3, NewestIsFound
  <2>2. Savers!Get(t, Savers!Latest) = rows[i]
    BY <1>2, <1>3, <1>4, <2>1 DEF Savers!Get
  <2>3. Savers!Last(Savers!ByCreation({rows[k] : k \in P})) = rows[i]
    BY <1>1, <1>3, <2>1, NewestIsLast
  <2>4. Savers!Last(Savers!List(t)) = rows[i]
    BY <1>2, <1>3, <1>4, <2>3 DEF Savers!List
  <2>5. \A k \in P : rows[i].created \in Nat /\ rows[k].created \in Nat
    BY <1>1 DEF SaverInv, SaverTypes, InstantsDiffer
  <2>6. \A r \in Savers!ToSet(p) : r.created <= rows[i].created
    BY <1>3, <2>1, <2>5
  <2> QED BY <1>2, <2>2, <2>4, <2>6
<1>5. CASE saver # "sqlite"
  <2> PICK m \in Nat : m = Len(p)
    BY <1>3
  <2>1. Savers!Get(t, Savers!Latest) = p[m] /\ Savers!Last(Savers!List(t)) = p[m]
    BY <1>2, <1>5 DEF Savers!Get, Savers!List, Savers!Last
  <2>2. ASSUME Savers!ArrivedInOrder(t), NEW r \in Savers!ToSet(p)
        PROVE  r.created <= p[m].created
    <3>1. PICK k \in 1..m : r = p[k]
      BY <1>3 DEF Savers!ToSet
    <3>2. DOMAIN p = 1..m /\ p[k] \in StoredSnapshots /\ p[m] \in StoredSnapshots
      BY <1>3
    <3>3. \A i, j \in 1..m : i < j => p[i].created < p[j].created
      BY <1>2, <2>2, <3>2 DEF Savers!ArrivedInOrder
    <3>4. k = m \/ p[k].created < p[m].created
      BY <3>3
    <3>5. p[k].created \in Nat /\ p[m].created \in Nat
      BY <3>2 DEF StoredSnapshots
    <3> QED BY <3>1, <3>4, <3>5
  <2> QED BY <1>2, <1>5, <2>1, <2>2
<1> QED BY <1>4, <1>5

\* However the puts of the executors interleave and overtake each other, with either
\* saver, the checkpoint get_state reads ends the history get_state_history shows, and
\* a fork continues the stored checkpoint that it names.
THEOREM SavedStatesAreRead == Savers!Spec => []HistoriesHold
<1>1. Savers!Init => SaverInv
  BY SaversStartCorrectly
<1>2. SaverInv /\ [Savers!Next]_(Savers!vars) => SaverInv'
  BY SaversStepCorrectly
<1>3. SaverInv => HistoriesHold
  BY LatestIsLast, ForksContinue DEF HistoriesHold, Savers!HistoriesHold, Savers!LatestEndsTheHistory
<1> QED BY <1>1, <1>2, <1>3, PTL DEF Savers!Spec

-------------------------------------------------------------------------------
(***************************************************************************)
(* StreamRun: its generators, without what the model of each has said so   *)
(* far, are the frames of an invoke.                                       *)
(***************************************************************************)

\* What a node may say.
Answers == Streams!BoundedSeq(Chunk, MaxChunks)

GeneratorsOf(N, A, S, I) == [node : N, at : A, state : S, iterations : I, said : Answers]

IsGenerator(g) == \E N, A, S, I : g \in GeneratorsOf(N, A, S, I)

StreamInv ==
  MaxChunks \in Nat /\ \E S : gens \in Seq(S) /\ \A g \in S : IsGenerator(g)

FrameOf(g) ==
  [node |-> g.node, at |-> g.at, state |-> g.state, iterations |-> g.iterations]

FramesOf(list) == [i \in DOMAIN list |-> FrameOf(list[i])]

FramesWith(N, A, S, I) == [node : N, at : A, state : S, iterations : I]

LEMMA AnswersAre ==
  ASSUME MaxChunks \in Nat, NEW s
  PROVE  s \in Answers <=> s \in Seq(Chunk) /\ Len(s) <= MaxChunks
<1>1. ASSUME s \in Answers
      PROVE  s \in Seq(Chunk) /\ Len(s) <= MaxChunks
  <2>1. PICK m \in 0..MaxChunks : s \in [1..m -> Chunk]
    BY <1>1 DEF Answers, Streams!BoundedSeq, Streams!SeqOf
  <2> QED BY <2>1
<1>2. ASSUME s \in Seq(Chunk), Len(s) <= MaxChunks
      PROVE  s \in Answers
  <2>1. s \in [1..Len(s) -> Chunk] /\ Len(s) \in 0..MaxChunks
    BY <1>2
  <2> QED BY <2>1 DEF Answers, Streams!BoundedSeq, Streams!SeqOf
<1> QED BY <1>1, <1>2

\* The frames of a list of generators.
LEMMA NoFrames == FramesOf(<<>>) = <<>>
BY DEF FramesOf

LEMMA FramesOfLists ==
  ASSUME NEW S, NEW q \in Seq(S), NEW g
  PROVE  /\ FramesOf(<<>>) = <<>> /\ Len(FramesOf(q)) = Len(q)
         /\ q # <<>> => FramesOf(q) # <<>>
         /\ FramesOf(q) \in Seq({FrameOf(h) : h \in S})
         /\ FramesOf(Append(q, g)) = Append(FramesOf(q), FrameOf(g))
<1> PICK n \in Nat : n = Len(q)
  OBVIOUS
<1> DEFINE T == {FrameOf(h) : h \in S}
<1>1. \A i \in 1..n : q[i] \in S
  OBVIOUS
<1>2. FramesOf(q) \in [1..n -> T]
  BY <1>1 DEF FramesOf
<1> HIDE DEF T
<1>3. FramesOf(q) \in Seq(T) /\ Len(FramesOf(q)) = n
  BY <1>2
<1>4. q # <<>> => FramesOf(q) # <<>>
  <2>1. q # <<>> => n # 0
    OBVIOUS
  <2>2. FramesOf(q) = <<>> => Len(FramesOf(q)) = 0
    OBVIOUS
  <2> QED BY <1>3, <2>1, <2>2
<1>5. FramesOf(<<>>) = <<>>
  BY DEF FramesOf
<1>6. FramesOf(Append(q, g)) = Append(FramesOf(q), FrameOf(g))
  <2> PICK p : p = Append(q, g)
    OBVIOUS
  <2>1. DOMAIN p = 1..(n + 1) /\ p[n + 1] = g /\ \A i \in 1..n : p[i] = q[i]
    OBVIOUS
  <2> PICK f : f = FramesOf(q)
    OBVIOUS
  <2>2. \A i \in 1..n : f[i] = FrameOf(q[i])
    BY DEF FramesOf
  <2> PICK h : h = FrameOf(g)
    OBVIOUS
  <2>3. /\ DOMAIN Append(f, h) = 1..(n + 1) /\ Append(f, h)[n + 1] = h
        /\ \A i \in 1..n : Append(f, h)[i] = f[i]
    BY <1>3
  <2>4. Append(f, h) = [i \in 1..(n + 1) |-> Append(f, h)[i]]
    <3>1. f \in Seq(T \cup {h})
      BY <1>3
    <3> PICK e : e = Append(f, h)
      OBVIOUS
    <3>2. e \in Seq(T \cup {h}) /\ Len(e) = n + 1
      BY <1>3, <3>1
    <3>3. e \in [1..(n + 1) -> T \cup {h}]
      BY ONLY <3>2
    <3> QED BY <3>3
  <2>5. \A i \in 1..(n + 1) : Append(f, h)[i] = FrameOf(p[i])
    <3>1. \A i \in 1..(n + 1) : i \in 1..n \/ i = n + 1
      OBVIOUS
    <3> QED BY <2>1, <2>2, <2>3, <3>1
  <2>6. FramesOf(p) = [i \in 1..(n + 1) |-> FrameOf(p[i])]
    BY <2>1 DEF FramesOf
  <2> QED BY <2>4, <2>5, <2>6
<1> QED BY <1>3, <1>4, <1>5, <1>6 DEF T

LEMMA FramesOfParts ==
  ASSUME NEW S, NEW q \in Seq(S), q # <<>>
  PROVE  /\ Streams!Front(q) \in Seq(S) /\ Streams!Last(q) \in S
         /\ q = Append(Streams!Front(q), Streams!Last(q))
         /\ Streams!Invoke!Front(FramesOf(q)) = FramesOf(Streams!Front(q))
         /\ Streams!Invoke!Last(FramesOf(q)) = FrameOf(Streams!Last(q))
<1> PICK n \in Nat \ {0} : n = Len(q)
  OBVIOUS
<1> PICK f, l : f = Streams!Front(q) /\ l = Streams!Last(q)
  OBVIOUS
<1>1. f = SubSeq(q, 1, n - 1) /\ l = q[n]
  BY DEF Streams!Front, Streams!Last
<1>2. /\ f \in Seq(S) /\ l \in S /\ Len(f) = n - 1 /\ \A i \in 1..(n - 1) : f[i] = q[i]
  BY <1>1
<1>3. q = Append(f, l)
  BY <1>1, <1>2
<1> PICK F, h : F = FramesOf(f) /\ h = FrameOf(l)
  OBVIOUS
<1> DEFINE T == {FrameOf(g) : g \in S}
<1>4. F \in Seq(T) /\ Len(F) = n - 1 /\ h \in T /\ FramesOf(q) = Append(F, h)
  BY <1>2, <1>3, FramesOfLists
<1> HIDE DEF T
<1>5. SubSeq(Append(F, h), 1, n - 1) = F /\ Append(F, h)[n] = h /\ Len(Append(F, h)) = n
  BY <1>4
<1>6. Streams!Invoke!Front(Append(F, h)) = F /\ Streams!Invoke!Last(Append(F, h)) = h
  BY <1>5 DEF Streams!Invoke!Front, Streams!Invoke!Last
<1> QED BY <1>2, <1>3, <1>4, <1>6

-------------------------------------------------------------------------------
(* A changed generator is a generator, and its frame is the frame changed. *)

LEMMA FrameIs ==
  ASSUME NEW N, NEW A, NEW S, NEW I, NEW g \in GeneratorsOf(N, A, S, I)
  PROVE  /\ FrameOf(g) \in FramesWith(N, A, S, I)
         /\ FrameOf(g).node = g.node /\ FrameOf(g).at = g.at
         /\ FrameOf(g).state = g.state /\ FrameOf(g).iterations = g.iterations
BY DEF GeneratorsOf, FramesWith, FrameOf

\* A frame is its four fields.
LEMMA SameFrame ==
  ASSUME NEW N, NEW A, NEW S, NEW I,
         NEW d \in FramesWith(N, A, S, I), NEW e \in FramesWith(N, A, S, I),
         d.at = e.at, d.state = e.state, d.node = e.node, d.iterations = e.iterations
  PROVE  d = e
BY DEF FramesWith

LEMMA NothingIsAnAnswer == MaxChunks \in Nat => <<>> \in Answers
<1>1. <<>> \in [1..0 -> Chunk]
  OBVIOUS
<1> QED BY <1>1 DEF Answers, Streams!BoundedSeq, Streams!SeqOf

\* A generator, or a frame, that leaves its START.
Left(g, to, i) == [g EXCEPT !.node = to, !.iterations = i]

LEMMA LeftFrame ==
  ASSUME NEW g, IsGenerator(g), NEW to, NEW i
  PROVE  IsGenerator(Left(g, to, i)) /\ FrameOf(Left(g, to, i)) = Left(FrameOf(g), to, i)
<1> USE DEF Left
<1> PICK N, A, S, I : g \in GeneratorsOf(N, A, S, I)
  BY DEF IsGenerator
<1> PICK f \in FramesWith(N, A, S, I) : f = FrameOf(g)
  BY FrameIs
<1> PICK h \in GeneratorsOf({to}, A, S, {i}) : h = [g EXCEPT !.node = to, !.iterations = i]
  BY DEF GeneratorsOf
<1> PICK e \in FramesWith({to}, A, S, {i}) : e = [f EXCEPT !.node = to, !.iterations = i]
  BY DEF FramesWith
<1>1. h.at = g.at /\ h.state = g.state
  BY DEF GeneratorsOf
<1>2. e.at = f.at /\ e.state = f.state
  BY DEF FramesWith
<1> PICK d \in FramesWith({to}, A, S, {i}) : d = FrameOf(h)
  BY FrameIs
<1>3. d = e
  <2>1. f.at = g.at /\ f.state = g.state
    BY FrameIs
  <2>2. FrameOf(h).at = h.at /\ FrameOf(h).state = h.state
    BY DEF FrameOf
  <2>3. d.at = e.at /\ d.state = e.state /\ d.node = e.node /\ d.iterations = e.iterations
    BY <1>1, <1>2, <2>1, <2>2 DEF FramesWith
  <2> QED BY <2>3, SameFrame
<1>4. IsGenerator(h)
  BY DEF IsGenerator
<1> QED BY <1>3, <1>4

LEMMA StartedFrame ==
  ASSUME MaxChunks \in Nat, NEW g, IsGenerator(g), NEW i
  PROVE  /\ IsGenerator([g EXCEPT !.at = "body", !.iterations = i, !.said = <<>>])
         /\ FrameOf([g EXCEPT !.at = "body", !.iterations = i, !.said = <<>>]) = [FrameOf(g) EXCEPT !.at = "body", !.iterations = i]
<1> PICK N, A, S, I : g \in GeneratorsOf(N, A, S, I)
  BY DEF IsGenerator
<1> PICK f \in FramesWith(N, A, S, I) : f = FrameOf(g)
  BY FrameIs
<1> PICK h \in GeneratorsOf(N, {"body"}, S, {i}) : h = [g EXCEPT !.at = "body", !.iterations = i, !.said = <<>>]
  BY NothingIsAnAnswer DEF GeneratorsOf
<1> PICK e \in FramesWith(N, {"body"}, S, {i}) : e = [f EXCEPT !.at = "body", !.iterations = i]
  BY DEF FramesWith
<1>1. h.node = g.node /\ h.state = g.state
  BY DEF GeneratorsOf
<1>2. e.node = f.node /\ e.state = f.state
  BY DEF FramesWith
<1> PICK d \in FramesWith(N, {"body"}, S, {i}) : d = FrameOf(h)
  BY FrameIs
<1>3. d = e
  <2>1. f.node = g.node /\ f.state = g.state
    BY FrameIs
  <2>2. FrameOf(h).node = h.node /\ FrameOf(h).state = h.state
    BY DEF FrameOf
  <2>3. d.at = e.at /\ d.state = e.state /\ d.node = e.node /\ d.iterations = e.iterations
    BY <1>1, <1>2, <2>1, <2>2 DEF FramesWith
  <2> QED BY <2>3, SameFrame
<1>4. IsGenerator(h)
  BY DEF IsGenerator
<1> QED BY <1>3, <1>4

LEMMA EndedFrame ==
  ASSUME NEW g, IsGenerator(g), NEW s
  PROVE  /\ IsGenerator([g EXCEPT !.at = "route", !.state = s])
         /\ FrameOf([g EXCEPT !.at = "route", !.state = s]) = [FrameOf(g) EXCEPT !.at = "route", !.state = s]
<1> PICK N, A, S, I : g \in GeneratorsOf(N, A, S, I)
  BY DEF IsGenerator
<1> PICK f \in FramesWith(N, A, S, I) : f = FrameOf(g)
  BY FrameIs
<1> PICK h \in GeneratorsOf(N, {"route"}, {s}, I) : h = [g EXCEPT !.at = "route", !.state = s]
  BY DEF GeneratorsOf
<1> PICK e \in FramesWith(N, {"route"}, {s}, I) : e = [f EXCEPT !.at = "route", !.state = s]
  BY DEF FramesWith
<1>1. h.node = g.node /\ h.iterations = g.iterations
  BY DEF GeneratorsOf
<1>2. e.node = f.node /\ e.iterations = f.iterations
  BY DEF FramesWith
<1> PICK d \in FramesWith(N, {"route"}, {s}, I) : d = FrameOf(h)
  BY FrameIs
<1>3. d = e
  <2>1. f.node = g.node /\ f.iterations = g.iterations
    BY FrameIs
  <2>2. FrameOf(h).node = h.node /\ FrameOf(h).iterations = h.iterations
    BY DEF FrameOf
  <2>3. d.at = e.at /\ d.state = e.state /\ d.node = e.node /\ d.iterations = e.iterations
    BY <1>1, <1>2, <2>1, <2>2 DEF FramesWith
  <2> QED BY <2>3, SameFrame
<1>4. IsGenerator(h)
  BY DEF IsGenerator
<1> QED BY <1>3, <1>4

LEMMA FollowedFrame ==
  ASSUME NEW g, IsGenerator(g), NEW to
  PROVE  /\ IsGenerator([g EXCEPT !.at = "head", !.node = to])
         /\ FrameOf([g EXCEPT !.at = "head", !.node = to]) = [FrameOf(g) EXCEPT !.at = "head", !.node = to]
<1> PICK N, A, S, I : g \in GeneratorsOf(N, A, S, I)
  BY DEF IsGenerator
<1> PICK f \in FramesWith(N, A, S, I) : f = FrameOf(g)
  BY FrameIs
<1> PICK h \in GeneratorsOf({to}, {"head"}, S, I) : h = [g EXCEPT !.at = "head", !.node = to]
  BY DEF GeneratorsOf
<1> PICK e \in FramesWith({to}, {"head"}, S, I) : e = [f EXCEPT !.at = "head", !.node = to]
  BY DEF FramesWith
<1>1. h.state = g.state /\ h.iterations = g.iterations
  BY DEF GeneratorsOf
<1>2. e.state = f.state /\ e.iterations = f.iterations
  BY DEF FramesWith
<1> PICK d \in FramesWith({to}, {"head"}, S, I) : d = FrameOf(h)
  BY FrameIs
<1>3. d = e
  <2>1. f.state = g.state /\ f.iterations = g.iterations
    BY FrameIs
  <2>2. FrameOf(h).state = h.state /\ FrameOf(h).iterations = h.iterations
    BY DEF FrameOf
  <2>3. d.at = e.at /\ d.state = e.state /\ d.node = e.node /\ d.iterations = e.iterations
    BY <1>1, <1>2, <2>1, <2>2 DEF FramesWith
  <2> QED BY <2>3, SameFrame
<1>4. IsGenerator(h)
  BY DEF IsGenerator
<1> QED BY <1>3, <1>4

-------------------------------------------------------------------------------
(* What the invoke sees of a step.                                         *)

\* The frames of the invoke.
LEMMA InvokeSees ==
  /\ Streams!Invoke!Live <=> FramesOf(gens) # <<>>
  /\ Streams!Invoke!Top = Streams!Invoke!Last(FramesOf(gens))
  /\ Streams!Invoke!Outer = Streams!Invoke!Front(FramesOf(gens))
  /\ \A f : Streams!Invoke!Becomes(f) <=>
             /\ FramesOf(gens') = Append(Streams!Invoke!Outer, f)
             /\ net' = net /\ outcome' = outcome
  /\ \A how, state : Streams!Invoke!Ends(how, state) <=>
       /\ FramesOf(gens') = <<>> /\ outcome' = [is |-> how, state |-> state] /\ net' = net
  /\ \A state : Streams!Invoke!Outer # <<>> =>
       (Streams!Invoke!Returns(state) <=>
          /\ FramesOf(gens') =
               Append(Streams!Invoke!Front(Streams!Invoke!Outer),
                      [Streams!Invoke!Last(Streams!Invoke!Outer) EXCEPT
                         !.state = @ \o state, !.at = "route"])
          /\ net' = net /\ outcome' = outcome)
  /\ \A state : Streams!Invoke!Outer = <<>> =>
       (Streams!Invoke!Returns(state) <=> Streams!Invoke!Ends("returned", state))
<1> USE DEF FramesOf, FrameOf
<1>1. Streams!Invoke!Live <=> FramesOf(gens) # <<>>
  BY DEF Streams!Invoke!Live
<1>2. /\ Streams!Invoke!Top = Streams!Invoke!Last(FramesOf(gens))
      /\ Streams!Invoke!Outer = Streams!Invoke!Front(FramesOf(gens))
  BY DEF Streams!Invoke!Top, Streams!Invoke!Outer
<1>3. \A f : Streams!Invoke!Becomes(f) <=>
             /\ FramesOf(gens') = Append(Streams!Invoke!Outer, f)
             /\ net' = net /\ outcome' = outcome
  BY DEF Streams!Invoke!Becomes
<1>4. \A how, state : Streams!Invoke!Ends(how, state) <=>
       /\ FramesOf(gens') = <<>> /\ outcome' = [is |-> how, state |-> state] /\ net' = net
  BY DEF Streams!Invoke!Ends, Streams!Invoke!Outcome
<1>5. \A state : Streams!Invoke!Outer # <<>> =>
       (Streams!Invoke!Returns(state) <=>
          /\ FramesOf(gens') =
               Append(Streams!Invoke!Front(Streams!Invoke!Outer),
                      [Streams!Invoke!Last(Streams!Invoke!Outer) EXCEPT
                         !.state = @ \o state, !.at = "route"])
          /\ net' = net /\ outcome' = outcome)
  BY DEF Streams!Invoke!Returns, Streams!Invoke!MergeStateUpdate
<1>6. \A state : Streams!Invoke!Outer = <<>> =>
       (Streams!Invoke!Returns(state) <=> Streams!Invoke!Ends("returned", state))
  BY DEF Streams!Invoke!Returns
<1> QED BY <1>1, <1>2, <1>3, <1>4, <1>5, <1>6

LiveSet(S) == /\ Streams!Pollers \in Seq(S) /\ Streams!Top \in S /\ gens \in Seq(S)
              /\ \A g \in S : IsGenerator(g)

LEMMA LiveSees ==
  ASSUME StreamInv, Streams!Live
  PROVE  /\ Streams!Invoke!Live
         /\ Streams!Invoke!Top = FrameOf(Streams!Top)
         /\ Streams!Invoke!Outer = FramesOf(Streams!Pollers)
         /\ IsGenerator(Streams!Top)
         /\ \E S : LiveSet(S)
         /\ Streams!Invoke!Targets = Streams!Targets
         /\ Streams!AtHead => Streams!Invoke!AtHead
<1> PICK S : gens \in Seq(S) /\ \A g \in S : IsGenerator(g)
  BY DEF StreamInv
<1>1. gens # <<>>
  BY DEF Streams!Live
<1>2. /\ Streams!Pollers \in Seq(S) /\ Streams!Top \in S
      /\ Streams!Invoke!Outer = FramesOf(Streams!Pollers)
      /\ Streams!Invoke!Top = FrameOf(Streams!Top)
  BY <1>1, FramesOfParts, InvokeSees DEF Streams!Pollers, Streams!Top
<1>3. Streams!Invoke!Live
  BY <1>1, FramesOfLists, InvokeSees
<1>4. LiveSet(S)
  BY <1>2 DEF LiveSet
<1>5. Streams!Invoke!Top.node = Streams!Top.node /\ Streams!Invoke!Top.at = Streams!Top.at
      /\ Streams!Invoke!Top.iterations = Streams!Top.iterations
  BY <1>2 DEF FrameOf
<1>6. Streams!Invoke!Targets = Streams!Targets
  BY <1>5 DEF Streams!Invoke!Targets, Streams!Targets
<1>7. Streams!AtHead => Streams!Invoke!AtHead
  BY <1>3, <1>5 DEF Streams!AtHead, Streams!Invoke!AtHead
<1> QED BY <1>2, <1>3, <1>4, <1>6, <1>7

\* Generators one more of which is a generator.
LEMMA StillGenerators ==
  ASSUME NEW S, NEW q \in Seq(S), \A h \in S : IsGenerator(h), NEW g, IsGenerator(g)
  PROVE  \E T : Append(q, g) \in Seq(T) /\ \A h \in T : IsGenerator(h)
<1> DEFINE T == S \cup {g}
<1>1. q \in Seq(T) /\ g \in T /\ \A h \in T : IsGenerator(h)
  OBVIOUS
<1> HIDE DEF T
<1>2. Append(q, g) \in Seq(T)
  BY <1>1
<1> QED BY <1>1, <1>2

LEMMA BecomesFrame ==
  ASSUME StreamInv, Streams!Live, NEW g, IsGenerator(g), Streams!Becomes(g)
  PROVE  Streams!Invoke!Becomes(FrameOf(g)) /\ StreamInv'
<1>1. PICK S : LiveSet(S)
  BY LiveSees
<1>2. /\ gens' = Append(Streams!Pollers, g) /\ net' = net /\ outcome' = outcome
  BY DEF Streams!Becomes, Streams!Options
<1>3. FramesOf(gens') = Append(Streams!Invoke!Outer, FrameOf(g))
  BY <1>1, <1>2, LiveSees, FramesOfLists DEF LiveSet
<1>4. StreamInv'
  BY <1>1, <1>2, StillGenerators DEF StreamInv, LiveSet
<1> QED BY <1>2, <1>3, <1>4, InvokeSees

LEMMA StreamsEnd ==
  ASSUME StreamInv, NEW how, NEW state, gens' = <<>>, net' = net,
         outcome' = Streams!Outcome(how, state)
  PROVE  Streams!Invoke!Ends(how, state) /\ StreamInv'
<1>1. FramesOf(gens') = <<>>
  BY NoFrames
<1>2. gens' \in Seq({})
  OBVIOUS
<1>3. Streams!Invoke!Ends(how, state)
  BY <1>1, InvokeSees DEF Streams!Outcome
<1>4. StreamInv'
  BY <1>2 DEF StreamInv
<1> QED BY <1>3, <1>4

LEMMA FailureEnds ==
  ASSUME StreamInv, Streams!Fails
  PROVE  Streams!Invoke!Ends("failed", <<>>) /\ StreamInv'
BY StreamsEnd DEF Streams!Fails, Streams!Options

LEMMA EndReturns ==
  ASSUME StreamInv, Streams!Live, NEW state, Streams!YieldsEnd(state)
  PROVE  Streams!Invoke!Returns(state) /\ StreamInv'
<1>1. PICK S : LiveSet(S)
  BY LiveSees
<1> PICK q \in Seq(S) : q = Streams!Pollers
  BY <1>1 DEF LiveSet
<1>2. net' = net
  BY DEF Streams!YieldsEnd, Streams!Options
<1>3. Streams!Invoke!Outer = FramesOf(q)
  BY LiveSees
<1>4. CASE q = <<>>
  <2>1. gens' = <<>> /\ outcome' = Streams!Outcome("returned", state)
    BY <1>4 DEF Streams!YieldsEnd
  <2>2. Streams!Invoke!Outer = <<>>
    BY <1>3, <1>4, NoFrames
  <2> QED BY <1>2, <2>1, <2>2, StreamsEnd, InvokeSees
<1>5. CASE q # <<>>
  <2> DEFINE poller == Streams!Last(q)
             g == [poller EXCEPT !.at = "route", !.state = poller.state \o state]
  <2>1. gens' = Append(Streams!Front(q), g) /\ outcome' = outcome
    BY <1>5 DEF Streams!YieldsEnd, Streams!EndPolled, Streams!MergeStateUpdate
  <2>2. /\ Streams!Front(q) \in Seq(S) /\ poller \in S
        /\ Streams!Invoke!Front(Streams!Invoke!Outer) = FramesOf(Streams!Front(q))
        /\ Streams!Invoke!Last(Streams!Invoke!Outer) = FrameOf(poller)
    BY <1>3, <1>5, FramesOfParts
  <2>3. IsGenerator(poller)
    BY <1>1, <2>2 DEF LiveSet
  <2>4. IsGenerator(g) /\ FrameOf(g) = [FrameOf(poller) EXCEPT !.at = "route", !.state = poller.state \o state]
    BY <2>3, EndedFrame
  <2>5. FrameOf(g) = [FrameOf(poller) EXCEPT !.state = @ \o state, !.at = "route"]
    BY <2>3, <2>4 DEF IsGenerator, FrameOf
  <2> HIDE DEF g
  <2>6. FramesOf(gens') = Append(FramesOf(Streams!Front(q)), FrameOf(g))
    BY <2>1, <2>2, FramesOfLists
  <2>7. Streams!Invoke!Outer # <<>>
    BY <1>3, <1>5, FramesOfLists
  <2>8. Streams!Invoke!Returns(state)
    BY <1>2, <2>1, <2>2, <2>5, <2>6, <2>7, InvokeSees
  <2>9. StreamInv'
    BY <1>1, <2>1, <2>2, <2>4, StillGenerators DEF StreamInv, LiveSet
  <2> QED BY <2>8, <2>9
<1> QED BY <1>4, <1>5

-------------------------------------------------------------------------------
(* Each step.                                                              *)

\* The fields that the guards of the invoke read.
LEMMA TopFields ==
  ASSUME StreamInv, Streams!Live
  PROVE  /\ Streams!Invoke!Top.node = Streams!Top.node
         /\ Streams!Invoke!Top.at = Streams!Top.at
         /\ Streams!Invoke!Top.state = Streams!Top.state
         /\ Streams!Invoke!Top.iterations = Streams!Top.iterations
BY LiveSees DEF FrameOf

LEMMA LeaveStartIsInvoked ==
  ASSUME StreamInv, Streams!LeaveStart
  PROVE  Streams!Invoke!LeaveStart /\ StreamInv'
<1>1. Streams!Live /\ Streams!AtHead /\ Streams!Top.node \in net.graphs
  BY DEF Streams!LeaveStart, Streams!AtHead
<1> PICK top, i : top = Streams!Top /\ i = top.iterations + 1
  OBVIOUS
<1>to. PICK to :
         to \in Streams!Targets /\ Streams!Becomes([top EXCEPT !.node = to, !.iterations = i])
  BY DEF Streams!LeaveStart
<1>2. IsGenerator(top) /\ Streams!Invoke!Top = FrameOf(top)
  BY <1>1, LiveSees
<1>g. PICK g : g = Left(top, to, i)
  OBVIOUS
<1>3. IsGenerator(g) /\ FrameOf(g) = Left(FrameOf(top), to, i)
  BY <1>2, <1>g, LeftFrame
<1>4. Streams!Invoke!Becomes(FrameOf(g)) /\ StreamInv'
  <2>1. Streams!Becomes(g)
    BY <1>to, <1>g DEF Left
  <2> QED BY <1>1, <1>3, <2>1, BecomesFrame
<1>5. /\ Streams!Invoke!AtHead /\ Streams!Invoke!Top.node \in net.graphs
      /\ to \in Streams!Invoke!Targets /\ i = Streams!Invoke!Top.iterations + 1
  BY <1>1, <1>to, LiveSees, TopFields
<1>6. FrameOf(g) = [Streams!Invoke!Top EXCEPT !.node = to, !.iterations = @ + 1]
  BY <1>2, <1>3, <1>5 DEF Left
<1> QED BY <1>4, <1>5, <1>6 DEF Streams!Invoke!LeaveStart, Streams!Invoke!Becomes

LEMMA NodeStartIsInvoked ==
  ASSUME StreamInv, Streams!NodeStart
  PROVE  Streams!Invoke!StartNode /\ StreamInv'
<1>1. /\ Streams!Live /\ Streams!AtHead /\ Streams!Top.node \notin net.graphs \cup {EndNode}
      /\ Streams!Targets # {}
  BY DEF Streams!NodeStart, Streams!AtHead
<1> PICK top, i : top = Streams!Top /\ i = top.iterations + 1
  OBVIOUS
<1> PICK g : g = [top EXCEPT !.at = "body", !.iterations = i, !.said = <<>>]
  OBVIOUS
<1>2. Streams!Becomes(g)
  BY DEF Streams!NodeStart
<1>3. IsGenerator(top) /\ Streams!Invoke!Top = FrameOf(top)
  BY <1>1, LiveSees
<1>4. IsGenerator(g) /\ FrameOf(g) = [FrameOf(top) EXCEPT !.at = "body", !.iterations = i]
  BY <1>3, StartedFrame DEF StreamInv
<1>5. Streams!Invoke!Becomes(FrameOf(g)) /\ StreamInv'
  BY <1>1, <1>2, <1>4, BecomesFrame
<1>6. /\ Streams!Invoke!AtHead /\ Streams!Invoke!Top.node \notin net.graphs \cup {EndNode}
      /\ Streams!Invoke!Targets # {} /\ i = Streams!Invoke!Top.iterations + 1
  BY <1>1, LiveSees, TopFields
<1>7. FrameOf(g) = [Streams!Invoke!Top EXCEPT !.at = "body", !.iterations = @ + 1]
  BY ONLY <1>3, <1>4, <1>6
<1> QED BY <1>5, <1>6, <1>7 DEF Streams!Invoke!StartNode, Streams!Invoke!Becomes

LEMMA EnterGraphIsInvoked ==
  ASSUME StreamInv, Streams!EnterGraph
  PROVE  Streams!Invoke!EnterGraph /\ StreamInv'
<1>1. /\ Streams!Live /\ Streams!Top.at = "body" /\ net.inner[Streams!Top.node] # NoGraph
      /\ net' = net /\ outcome' = outcome
  BY DEF Streams!EnterGraph, Streams!InBody, Streams!Options
<1> PICK graph, state : graph = net.inner[Streams!Top.node] /\ state = Streams!Top.state
  OBVIOUS
<1> PICK g : g = Streams!Generator(graph, state)
  OBVIOUS
<1>2. gens' = Append(gens, g)
  BY DEF Streams!EnterGraph
<1>3. PICK S : LiveSet(S)
  BY <1>1, LiveSees
<1>4. IsGenerator(g)
  <2>1. g \in GeneratorsOf({graph}, {"head"}, {state}, {0})
    BY NothingIsAnAnswer DEF StreamInv, Streams!Generator, GeneratorsOf
  <2> QED BY <2>1 DEF IsGenerator
<1>5. StreamInv'
  BY <1>2, <1>3, <1>4, StillGenerators DEF StreamInv, LiveSet
<1>6. FrameOf(g) = Streams!Invoke!Frame(graph, state)
  BY DEF FrameOf, Streams!Generator, Streams!Invoke!Frame
<1>7. FramesOf(gens') = Append(FramesOf(gens), FrameOf(g))
  <2> PICK list \in Seq(S) : list = gens
    BY <1>3 DEF LiveSet
  <2>1. FramesOf(Append(list, g)) = Append(FramesOf(list), FrameOf(g))
    BY ONLY list \in Seq(S), FramesOfLists
  <2> QED BY <1>2, <2>1
<1>8. /\ Streams!Invoke!Live /\ Streams!Invoke!Top.at = "body"
      /\ graph = net.inner[Streams!Invoke!Top.node] /\ state = Streams!Invoke!Top.state
  BY <1>1, LiveSees, TopFields
<1> PICK f : f = FrameOf(g)
  OBVIOUS
<1>9. FramesOf(gens') = Append(FramesOf(gens), f) /\ f = Streams!Invoke!Frame(graph, state)
  BY <1>6, <1>7
<1> QED BY <1>1, <1>5, <1>8, <1>9 DEF Streams!Invoke!EnterGraph, FramesOf, FrameOf

\* A chunk changes nothing that the invoke has.
LEMMA ChunkIsUnseen ==
  ASSUME StreamInv, Streams!MessageChunk
  PROVE  UNCHANGED Streams!Invoke!vars /\ StreamInv'
<1>1. Streams!Live /\ Len(Streams!Top.said) < MaxChunks
  BY DEF Streams!MessageChunk, Streams!InBody
<1> PICK top : top = Streams!Top
  OBVIOUS
<1> PICK c \in Chunk : Streams!Becomes([top EXCEPT !.said = Append(top.said, c)])
  BY DEF Streams!MessageChunk, Streams!Said
<1>2. IsGenerator(top) /\ Streams!Invoke!Top = FrameOf(top)
  BY <1>1, LiveSees
<1> PICK N, A, S, I : top \in GeneratorsOf(N, A, S, I)
  BY <1>2 DEF IsGenerator
<1> PICK said \in Answers : said = Append(top.said, c)
  <2>1. top.said \in Answers
    BY DEF GeneratorsOf
  <2>2. top.said \in Seq(Chunk) /\ MaxChunks \in Nat
    BY <2>1, AnswersAre DEF StreamInv
  <2>3. Append(top.said, c) \in Seq(Chunk) /\ Len(Append(top.said, c)) <= MaxChunks
    BY <1>1, <2>2
  <2> QED BY <2>2, <2>3, AnswersAre
<1> PICK g \in GeneratorsOf(N, A, S, I) : g = [top EXCEPT !.said = said]
  BY DEF GeneratorsOf
<1>3. IsGenerator(g) /\ Streams!Becomes(g)
  BY DEF IsGenerator
<1>4. FrameOf(g) = FrameOf(top)
  BY DEF GeneratorsOf, FrameOf
<1>5. Streams!Invoke!Becomes(FrameOf(top)) /\ StreamInv'
  BY <1>1, <1>3, <1>4, BecomesFrame
<1>6. FramesOf(gens') = FramesOf(gens)
  <2>1. FramesOf(gens') = Append(FramesOf(Streams!Pollers), FrameOf(top))
    BY <1>1, <1>5, LiveSees, InvokeSees
  <2>2. PICK T : LiveSet(T)
    BY <1>1, LiveSees
  <2>3. gens = Append(Streams!Pollers, top)
    BY <1>1, <2>2, FramesOfParts DEF LiveSet, Streams!Live, Streams!Pollers, Streams!Top
  <2>4. FramesOf(gens) = Append(FramesOf(Streams!Pollers), FrameOf(top))
    <3> PICK list \in Seq(T) : list = Streams!Pollers
      BY <2>2 DEF LiveSet
    <3>1. FramesOf(Append(list, top)) = Append(FramesOf(list), FrameOf(top))
      BY ONLY list \in Seq(T), FramesOfLists
    <3> QED BY <2>3, <3>1
  <2> QED BY <2>1, <2>4
<1>7. net' = net /\ outcome' = outcome
  BY <1>5, InvokeSees
<1> QED BY <1>5, <1>6, <1>7 DEF Streams!Invoke!vars, FramesOf, FrameOf

LEMMA NodeEndIsInvoked ==
  ASSUME StreamInv, Streams!NodeEnd
  PROVE  Streams!Invoke!Execute /\ StreamInv'
<1>1. /\ Streams!Live /\ Streams!Top.at = "body" /\ net.inner[Streams!Top.node] = NoGraph
  BY DEF Streams!NodeEnd, Streams!InBody
<1> PICK top : top = Streams!Top
  OBVIOUS
<1> PICK s : s = top.state \o <<<<top.node, top.said>>>>
  OBVIOUS
<1> PICK g : g = [top EXCEPT !.at = "route", !.state = s]
  OBVIOUS
<1>2. Streams!Becomes(g)
  BY DEF Streams!NodeEnd, Streams!MergeStateUpdate
<1>3. IsGenerator(top) /\ Streams!Invoke!Top = FrameOf(top)
  BY <1>1, LiveSees
<1>4. IsGenerator(g) /\ FrameOf(g) = [FrameOf(top) EXCEPT !.at = "route", !.state = s]
  BY <1>3, EndedFrame
<1>5. Streams!Invoke!Becomes(FrameOf(g)) /\ StreamInv'
  BY <1>1, <1>2, <1>4, BecomesFrame
<1>6. top.said \in Answers
  BY <1>3 DEF IsGenerator, GeneratorsOf
<1>7. /\ Streams!Invoke!Live /\ Streams!Invoke!Top.at = "body"
      /\ net.inner[Streams!Invoke!Top.node] = NoGraph
      /\ s = Streams!Invoke!Top.state \o <<<<Streams!Invoke!Top.node, top.said>>>>
  BY <1>1, LiveSees, TopFields
<1>8. FrameOf(g) = [Streams!Invoke!Top EXCEPT !.at = "route",
                      !.state = @ \o <<<<Streams!Invoke!Top.node, top.said>>>>]
  BY ONLY <1>3, <1>4, <1>7
<1> QED BY <1>5, <1>6, <1>7, <1>8
  DEF Streams!Invoke!Execute, Streams!Invoke!Becomes, Streams!Invoke!MergeStateUpdate, Answers

LEMMA FollowIsInvoked ==
  ASSUME StreamInv, Streams!Follow
  PROVE  Streams!Invoke!Follow /\ StreamInv'
<1>1. /\ Streams!Live /\ Streams!Top.at = "route"
  BY DEF Streams!Follow
<1> PICK top : top = Streams!Top
  OBVIOUS
<1> PICK to \in Streams!Targets :
      \/ to = EndNode /\ Streams!YieldsEnd(top.state)
      \/ to # EndNode /\ Streams!Becomes([top EXCEPT !.at = "head", !.node = to])
  BY DEF Streams!Follow
<1>2. IsGenerator(top) /\ Streams!Invoke!Top = FrameOf(top)
  BY <1>1, LiveSees
<1>3. /\ Streams!Invoke!Live /\ Streams!Invoke!Top.at = "route" /\ to \in Streams!Invoke!Targets
      /\ Streams!Invoke!Top.state = top.state
  BY <1>1, LiveSees, TopFields
<1>4. CASE to = EndNode
  <2>1. Streams!Invoke!Returns(top.state) /\ StreamInv'
    BY <1>1, <1>4, EndReturns
  <2> QED BY <1>3, <1>4, <2>1
    DEF Streams!Invoke!Follow, Streams!Invoke!Returns, Streams!Invoke!Ends
<1>5. CASE to # EndNode
  <2> PICK g : g = [top EXCEPT !.at = "head", !.node = to]
    OBVIOUS
  <2>1. IsGenerator(g) /\ FrameOf(g) = [FrameOf(top) EXCEPT !.at = "head", !.node = to]
    BY <1>2, FollowedFrame
  <2>2. Streams!Becomes(g)
    BY <1>5
  <2>3. Streams!Invoke!Becomes(FrameOf(g)) /\ StreamInv'
    BY <1>1, <2>1, <2>2, BecomesFrame
  <2>4. FrameOf(g) = [Streams!Invoke!Top EXCEPT !.at = "head", !.node = to]
    BY ONLY <1>2, <2>1
  <2> QED BY <1>3, <1>5, <2>3, <2>4 DEF Streams!Invoke!Follow, Streams!Invoke!Becomes
<1> QED BY <1>4, <1>5

LEMMA SameCardinality ==
  ASSUME NEW T
  PROVE  Streams!Invoke!Cardinality(T) = Streams!Cardinality(T)
BY DEF Streams!Invoke!Cardinality, Streams!Cardinality

\* Every step of a stream is a step of the invoke, or one that the invoke does not see.
LEMMA StreamStepsAreInvoked ==
  ASSUME StreamInv, [Streams!Next]_(Streams!vars)
  PROVE  [Streams!Invoke!Next]_(Streams!Invoke!vars) /\ StreamInv'
<1> USE DEF Streams!Invoke!Next
<1>1. CASE Streams!IterationLimit
  <2>1. Streams!Live /\ Streams!Top.at = "head" /\ Streams!Top.iterations >= MaxIterations /\ Streams!Fails
    BY <1>1 DEF Streams!IterationLimit
  <2> QED BY <2>1, LiveSees, TopFields, FailureEnds DEF Streams!Invoke!IterationLimit
<1>2. CASE Streams!ReachEnd
  <2>1. Streams!Live /\ Streams!AtHead /\ Streams!Top.node = EndNode /\ Streams!YieldsEnd(Streams!Top.state)
    BY <1>2 DEF Streams!ReachEnd, Streams!AtHead
  <2> PICK state : state = Streams!Top.state
    OBVIOUS
  <2>2. Streams!YieldsEnd(state)
    BY <2>1 DEF Streams!YieldsEnd, Streams!EndPolled, Streams!Yields
  <2>3. Streams!Invoke!Returns(state) /\ StreamInv'
    BY <2>1, <2>2, EndReturns
  <2>4. /\ Streams!Invoke!AtHead /\ Streams!Invoke!Top.node = EndNode
        /\ state = Streams!Invoke!Top.state
    BY <2>1, LiveSees, TopFields
  <2> QED BY <2>3, <2>4
    DEF Streams!Invoke!ReachEnd, Streams!Invoke!Returns, Streams!Invoke!Ends
<1>3. CASE Streams!NoEdges
  <2>1. Streams!Live /\ Streams!AtHead /\ Streams!Top.node # EndNode /\ Streams!Targets = {} /\ Streams!Fails
    BY <1>3 DEF Streams!NoEdges, Streams!AtHead
  <2> QED BY <2>1, LiveSees, TopFields, FailureEnds DEF Streams!Invoke!NoEdges
<1>4. CASE Streams!LeaveStart \/ Streams!NodeStart \/ Streams!EnterGraph
  BY <1>4, LeaveStartIsInvoked, NodeStartIsInvoked, EnterGraphIsInvoked
<1>5. CASE Streams!MessageChunk
  BY <1>5, ChunkIsUnseen
<1>6. CASE Streams!NodeEnd \/ Streams!Follow
  BY <1>6, NodeEndIsInvoked, FollowIsInvoked
<1>7. CASE Streams!NodeFails
  <2>1. Streams!Live /\ Streams!Top.at = "body" /\ Streams!Fails
    BY <1>7 DEF Streams!NodeFails, Streams!InBody
  <2> QED BY <2>1, LiveSees, TopFields, FailureEnds DEF Streams!Invoke!NodeFails
<1>8. CASE Streams!RouteFails
  <2>1. /\ Streams!Live /\ Streams!Fails /\ Streams!Cardinality(Streams!Targets) > 1
        /\ Streams!Top.at = "route" \/ (Streams!AtHead /\ Streams!Top.node \in net.graphs)
    BY <1>8 DEF Streams!RouteFails, Streams!AtHead
  <2>2. Streams!Invoke!Ends("failed", <<>>) /\ StreamInv'
    BY <2>1, FailureEnds
  <2> PICK T : T = Streams!Targets
    OBVIOUS
  <2>3. T = Streams!Invoke!Targets /\ Streams!Invoke!Cardinality(T) > 1
    BY <2>1, LiveSees, SameCardinality
  <2>4. \/ Streams!Invoke!Live /\ Streams!Invoke!Top.at = "route"
        \/ Streams!Invoke!AtHead /\ Streams!Invoke!Top.node \in net.graphs
    BY <2>1, LiveSees, TopFields
  <2> QED BY <2>2, <2>3, <2>4 DEF Streams!Invoke!RouteFails
<1>9. CASE Streams!Drop
  <2>1. Streams!Live /\ gens' = <<>> /\ outcome' = Streams!Outcome("dropped", <<>>) /\ net' = net
    BY <1>9 DEF Streams!Drop, Streams!Options
  <2>2. Streams!Invoke!Ends("dropped", <<>>) /\ StreamInv'
    BY <2>1, StreamsEnd
  <2> QED BY <2>1, <2>2, LiveSees DEF Streams!Invoke!Cancel
<1>10. CASE UNCHANGED Streams!vars
  BY <1>10 DEF Streams!vars, Streams!Invoke!vars, StreamInv
<1> QED BY <1>1, <1>2, <1>3, <1>4, <1>5, <1>6, <1>7, <1>8, <1>9, <1>10 DEF Streams!Next, Streams!Step

LEMMA StreamsStartAsInvokes ==
  ASSUME MaxChunks \in Nat, Streams!Init
  PROVE  Streams!Invoke!Init /\ StreamInv
<1> PICK g : g = Streams!Generator(net.root, <<>>)
  OBVIOUS
<1>1. gens = <<g>> /\ net \in Networks /\ outcome = Streams!Outcome("running", <<>>)
  BY DEF Streams!Init
<1>2. IsGenerator(g)
  <2>1. g \in GeneratorsOf({net.root}, {"head"}, {<<>>}, {0})
    BY NothingIsAnAnswer DEF Streams!Generator, GeneratorsOf
  <2> QED BY <2>1 DEF IsGenerator
<1>3. StreamInv
  <2>1. gens \in Seq({g})
    BY <1>1
  <2> QED BY <1>2, <2>1 DEF StreamInv
<1>4. Streams!Invoke!Init
  BY DEF Streams!Init, Streams!Invoke!Init, Streams!Invoke!Frame, Streams!Generator,
    Streams!Outcome, Streams!Invoke!Outcome
<1> QED BY <1>3, <1>4

\* Streaming a graph, with or without its subgraphs' streams and its models' chunks, and
\* whatever the consumer does, is invoking it (stream_internal and invoke).
THEOREM StreamingIsInvoking == Streams!Spec => ImplementsInvoke
<1>1. Streams!Init => Streams!Invoke!Init /\ StreamInv
  BY ServicesAssumption, StreamsStartAsInvokes
<1>2. StreamInv /\ [Streams!Next]_(Streams!vars) =>
        [Streams!Invoke!Next]_(Streams!Invoke!vars) /\ StreamInv'
  BY StreamStepsAreInvoked
<1>3. Streams!Invoke!Init /\ [][Streams!Invoke!Next]_(Streams!Invoke!vars) => ImplementsInvoke
  BY DEF ImplementsInvoke, Streams!ImplementsInvoke, Streams!Invoke!Spec
<1> QED BY <1>1, <1>2, <1>3, PTL DEF Streams!Spec
-------------------------------------------------------------------------------
(***************************************************************************)
(* What the events of a stream tell.  Opened is a recursive function; what *)
(* it is after one more event is shown by induction.                       *)
(***************************************************************************)

\* What is open after every one of the events.
Openings(open, events) ==
  /\ open[0] = <<>>
  /\ \A i \in 1..Len(events) : open[i] = Streams!AfterEvent(open[i - 1], events[i])

\* The brackets of events.
BracketsOf(events) == {<<events[i].node, events[i].path>> : i \in 1..Len(events)}

LEMMA AfterEventIs ==
  ASSUME NEW P, NEW open \in Seq(P), NEW e, <<e.node, e.path>> \in P
  PROVE  Streams!AfterEvent(open, e) \in Seq(P)
<1>1. Append(open, <<e.node, e.path>>) \in Seq(P)
  OBVIOUS
<1>2. open # <<>> => Streams!Front(open) \in Seq(P)
  BY DEF Streams!Front
<1> QED BY <1>1, <1>2 DEF Streams!AfterEvent

LEMMA OpenedOpens ==
  ASSUME NEW E, NEW events \in Seq(E)
  PROVE  Openings(Streams!Opened(events), events)
<1> PICK n \in Nat : n = Len(events)
  OBVIOUS
<1> PICK P : P = BracketsOf(events)
  OBVIOUS
<1> DEFINE D == Seq(P)
           d == <<>>
           step == [i \in Nat |-> [o \in D |->
                      IF i + 1 \in 1..n THEN Streams!AfterEvent(o, events[i + 1]) ELSE o]]
<1>1. d \in D /\ step \in [Nat -> [D -> D]]
  <2>1. \A i \in 1..n : <<events[i].node, events[i].path>> \in P
    BY DEF BracketsOf
  <2>2. \A i \in 1..n, o \in D : Streams!AfterEvent(o, events[i]) \in D
    BY <2>1, AfterEventIs
  <2> QED BY <2>2
<1>2. \A i \in Nat, o \in D : i + 1 \in 1..n => step[i][o] = Streams!AfterEvent(o, events[i + 1])
  OBVIOUS
<1> HIDE DEF D, step
<1>r. PICK h : Recurs(h, D, d, step)
  BY <1>1, NatRecursion
<1>3. h \in [Nat -> D] /\ h[0] = <<>> /\ \A i \in Nat : h[i + 1] = step[i][h[i]]
  BY <1>r DEF Recurs
<1>4. ASSUME NEW i \in 1..n
      PROVE  h[i] = Streams!AfterEvent(h[i - 1], events[i])
  <2>1. i - 1 \in Nat /\ (i - 1) + 1 = i
    OBVIOUS
  <2>2. h[(i - 1) + 1] = step[i - 1][h[i - 1]]
    BY <1>3, <2>1
  <2> QED BY <1>2, <1>3, <2>1, <2>2
<1> DEFINE Def(open) == [i \in 0..n |-> IF i = 0 THEN <<>> ELSE Streams!AfterEvent(open[i - 1], events[i])]
           made == [i \in 0..n |-> h[i]]
<1>5. made = Def(made)
  <2>1. \A i \in 0..n : i # 0 => i - 1 \in 0..n /\ i \in 1..n
    OBVIOUS
  <2> QED BY <1>3, <1>4, <2>1
<1>6. Streams!Opened(events) = CHOOSE open : open = Def(open)
  BY DEF Streams!Opened
<1>7. PICK open : open = Streams!Opened(events) /\ open = Def(open)
  <2> HIDE DEF Def, made
  <2> QED BY <1>5, <1>6
<1>8. open[0] = <<>> /\ \A i \in 1..n : open[i] = Streams!AfterEvent(open[i - 1], events[i])
  BY <1>7
<1> QED BY <1>7, <1>8 DEF Openings

\* What is open after events that are the same is the same.
LEMMA OpeningsAgree ==
  ASSUME NEW a, NEW b, NEW s, NEW t, Openings(a, s), Openings(b, t),
         NEW n \in Nat, NEW k \in Nat, NEW m \in Nat, Len(s) = k, Len(t) = m,
         n <= k, n <= m, \A i \in 1..n : s[i] = t[i]
  PROVE  \A i \in 0..n : a[i] = b[i]
<1> DEFINE A == {i \in Nat : i <= n => a[i] = b[i]}
<1>1. a[0] = b[0]
  BY DEF Openings
<1>2. ASSUME NEW i \in Nat, i <= n => a[i] = b[i], i + 1 <= n
      PROVE  a[i + 1] = b[i + 1]
  <2>1. i + 1 \in 1..k /\ i + 1 \in 1..m /\ i + 1 \in 1..n /\ (i + 1) - 1 = i /\ i <= n
    BY <1>2
  <2>2. a[i + 1] = Streams!AfterEvent(a[i], s[i + 1])
    BY <2>1 DEF Openings
  <2>3. b[i + 1] = Streams!AfterEvent(b[i], t[i + 1])
    BY <2>1 DEF Openings
  <2> QED BY <1>2, <2>1, <2>2, <2>3
<1>3. 0 \in A /\ \A i \in Nat : i \in A => i + 1 \in A
  BY <1>1, <1>2
<1> HIDE DEF A
<1>4. Nat \subseteq A
  BY <1>3, NatSetInduction
<1> QED BY <1>4 DEF A

\* What is open when all events have been seen.
Unclosed(events) == Streams!Opened(events)[Len(events)]

\* Every end so far is that of the last start that was open.
EndsMatch(events) ==
  \A i \in 1..Len(events) : events[i].is = "NodeEnd" =>
    /\ Streams!Opened(events)[i - 1] # <<>>
    /\ Streams!Last(Streams!Opened(events)[i - 1]) = <<events[i].node, events[i].path>>

LEMMA OneMoreEvent ==
  ASSUME NEW E, NEW s \in Seq(E), NEW e \in E, EndsMatch(s),
         e.is = "NodeEnd" => /\ Unclosed(s) # <<>>
                             /\ Streams!Last(Unclosed(s)) = <<e.node, e.path>>
  PROVE  /\ Unclosed(Append(s, e)) = Streams!AfterEvent(Unclosed(s), e)
         /\ EndsMatch(Append(s, e))
<1> PICK n \in Nat : n = Len(s)
  OBVIOUS
<1>0. Append(s, e) \in Seq(E)
  BY ONLY e \in E, s \in Seq(E)
<1> PICK t \in Seq(E) : t = Append(s, e)
  BY <1>0
<1>1. Len(t) = n + 1 /\ t[n + 1] = e /\ \A i \in 1..n : t[i] = s[i]
  BY ONLY t = Append(s, e), s \in Seq(E), n = Len(s), e \in E
<1> PICK a, b : a = Streams!Opened(s) /\ b = Streams!Opened(t)
  OBVIOUS
<1>2. Openings(a, s) /\ Openings(b, t)
  BY OpenedOpens
<1>3. \A i \in 0..n : a[i] = b[i]
  <2> PICK m \in Nat : m = n + 1
    OBVIOUS
  <2>1. Len(s) = n /\ Len(t) = m /\ n <= n /\ n <= m /\ \A i \in 1..n : s[i] = t[i]
    BY <1>1
  <2> QED BY ONLY <1>2, <2>1, n \in Nat, m \in Nat, OpeningsAgree
<1>4. b[n + 1] = Streams!AfterEvent(b[n], e)
  <2>1. n + 1 \in 1..Len(t) /\ (n + 1) - 1 = n
    BY <1>1
  <2> QED BY <1>1, <1>2, <2>1 DEF Openings
<1>5. Unclosed(t) = Streams!AfterEvent(Unclosed(s), e)
  BY <1>1, <1>3, <1>4 DEF Unclosed
<1>6. ASSUME NEW i \in 1..(n + 1), t[i].is = "NodeEnd"
      PROVE  b[i - 1] # <<>> /\ Streams!Last(b[i - 1]) = <<t[i].node, t[i].path>>
  <2>1. CASE i = n + 1
    BY <1>1, <1>3, <1>6, <2>1 DEF Unclosed
  <2>2. CASE i \in 1..n
    <3>1. i - 1 \in 0..n /\ t[i] = s[i]
      BY <1>1, <2>2
    <3>2. a[i - 1] # <<>> /\ Streams!Last(a[i - 1]) = <<s[i].node, s[i].path>>
      BY <1>6, <2>2, <3>1 DEF EndsMatch
    <3> QED BY <1>3, <3>1, <3>2
  <2> QED BY <2>1, <2>2
<1> QED BY <1>1, <1>5, <1>6 DEF EndsMatch
-------------------------------------------------------------------------------
(***************************************************************************)
(* The steps of a stream, as the effects they have on the events so far s, *)
(* the pollers f and the generator on top t; b says whether wrapped graphs *)
(* are streamed, m whether models are.                                     *)
(***************************************************************************)

IsHeard(f, b) == f = <<>> \/ b

Event(kind, f, node, state, update) ==
  [is |-> kind, node |-> node, path |-> Streams!Path(f, node), state |-> state, update |-> update]

Yielded(s, f, b, e) == IF IsHeard(f, b) THEN Append(s, e) ELSE s

\* A node starts.
Starts(s, f, t, b, s1, t1) ==
  /\ t.at = "head" /\ t1.at = "body" /\ t1.node = t.node /\ t1.state = t.state /\ t1.said = <<>>
  /\ s1 = Yielded(s, f, b, Event("NodeStart", f, t.node, t.state, <<>>))

\* Its model says c.
Speaks(s, f, t, b, s1, t1, c) ==
  /\ c \in Chunk /\ t.said \in Seq(Chunk) /\ IsHeard(f, b)
  /\ t.at = "body" /\ t1.at = "body" /\ t1.node = t.node /\ t1.state = t.state
  /\ t1.said = Append(t.said, c)
  /\ s1 = Append(s, Event("MessageChunk", f, t.node, <<>>, <<c>>))

\* It ends with what was said.
Answered(s, f, t, b, s1, t1, u) ==
  /\ t.at = "body" /\ t1.at = "route" /\ t1.node = t.node
  /\ u = <<<<t.node, t.said>>>> /\ t1.state = t.state \o u
  /\ s1 = Yielded(s, f, b, Event("NodeEnd", f, t.node, t1.state, u))

\* An edge is followed, from START too.
Moves(t, t1) ==
  /\ t.at \in {"head", "route"} /\ t1.at \in {"head", "route"} /\ t1.state = t.state

\* The graph that the node wraps begins, as t1.
Enters(t, t1) ==
  /\ t.at = "body" /\ t.node \notin Speaker
  /\ t1.at = "head" /\ t1.state = t.state

\* That of p, which polls it behind the pollers g, has ended.
ComesBack(s, g, p, t, b, s1, t1) ==
  /\ t.at # "body" /\ t1.at = "route" /\ t1.node = p.node /\ t1.state = p.state \o t.state
  /\ s1 = Yielded(s, g, b, Event("NodeEnd", g, p.node, t1.state, t.state))

-------------------------------------------------------------------------------
(* The brackets.                                                           *)

BracketAt(f, i) == <<f[i].node, Streams!Path(SubSeq(f, 1, i - 1), f[i].node)>>

\* The starts of the pollers that were heard.
Beneath(f, b) ==
  [i \in 1..(IF b THEN Len(f) ELSE IF f = <<>> THEN 0 ELSE 1) |-> BracketAt(f, i)]

\* And that of the generator on top, if its node has started.
OpenNow(f, t, b) ==
  IF IsHeard(f, b) /\ t.at = "body"
  THEN Append(Beneath(f, b), <<t.node, Streams!Path(f, t.node)>>)
  ELSE Beneath(f, b)

NoneIsLast(s) == \A i \in 1..Len(s) : s[i].is \notin {"GraphEnd", "Error"}

Bracketed(s, f, t, b) ==
  /\ \E E : s \in Seq(E)
  /\ EndsMatch(s) /\ NoneIsLast(s)
  /\ Unclosed(s) = OpenNow(f, t, b)

LEMMA BeneathIsSeq ==
  ASSUME NEW S, NEW f \in Seq(S), NEW b
  PROVE  \E P : Beneath(f, b) \in Seq(P)
<1> PICK n \in Nat : n = IF b THEN Len(f) ELSE IF f = <<>> THEN 0 ELSE 1
  OBVIOUS
<1> DEFINE P == {BracketAt(f, i) : i \in 1..n}
<1>1. Beneath(f, b) = [i \in 1..n |-> BracketAt(f, i)]
  BY DEF Beneath
<1>2. Beneath(f, b) \in Seq(P)
  BY <1>1
<1> QED BY <1>2

\* A generator that begins to poll.
LEMMA BeneathMore ==
  ASSUME NEW S, NEW f \in Seq(S), NEW t \in S, NEW b \in BOOLEAN
  PROVE  Beneath(Append(f, t), b) =
           IF IsHeard(f, b) THEN Append(Beneath(f, b), <<t.node, Streams!Path(f, t.node)>>)
           ELSE Beneath(f, b)
<1> PICK n \in Nat : n = Len(f)
  OBVIOUS
<1>0. Append(f, t) \in Seq(S)
  BY ONLY f \in Seq(S), t \in S
<1> PICK g \in Seq(S) : g = Append(f, t)
  BY <1>0
<1>1. Len(g) = n + 1 /\ g # <<>> /\ g[n + 1] = t /\ \A i \in 1..n : g[i] = f[i]
  BY ONLY g = Append(f, t), f \in Seq(S), t \in S, n = Len(f)
<1>2. \A i \in 1..n : SubSeq(g, 1, i - 1) = SubSeq(f, 1, i - 1)
  <2> SUFFICES ASSUME NEW i \in 1..n
               PROVE  SubSeq(g, 1, i - 1) = SubSeq(f, 1, i - 1)
    OBVIOUS
  <2>1. /\ SubSeq(g, 1, i - 1) = [j \in 1..(i - 1) |-> g[j]]
        /\ SubSeq(f, 1, i - 1) = [j \in 1..(i - 1) |-> f[j]]
    OBVIOUS
  <2>2. \A j \in 1..(i - 1) : g[j] = f[j]
    BY <1>1
  <2> QED BY <2>1, <2>2
<1>3. SubSeq(g, 1, n) = f
  <2>1. SubSeq(g, 1, n) = [j \in 1..n |-> g[j]]
    BY <1>1
  <2>2. f = [j \in 1..n |-> f[j]]
    OBVIOUS
  <2> QED BY <1>1, <2>1, <2>2
<1>4. \A i \in 1..n : BracketAt(g, i) = BracketAt(f, i)
  BY <1>1, <1>2 DEF BracketAt
<1>5. BracketAt(g, n + 1) = <<t.node, Streams!Path(f, t.node)>>
  <2>1. (n + 1) - 1 = n
    OBVIOUS
  <2> QED BY <1>1, <1>3, <2>1 DEF BracketAt
<1> PICK x : x = <<t.node, Streams!Path(f, t.node)>>
  OBVIOUS
<1>6. CASE b
  <2>1. /\ Beneath(g, b) = [i \in 1..(n + 1) |-> BracketAt(g, i)]
        /\ Beneath(f, b) = [i \in 1..n |-> BracketAt(f, i)]
    BY <1>1, <1>6 DEF Beneath
  <2>2. Beneath(g, b) = Append(Beneath(f, b), x)
    BY <1>4, <1>5, <2>1
  <2> QED BY <1>6, <2>2 DEF IsHeard
<1>7. CASE ~b /\ f = <<>>
  <2>1. n = 0
    BY <1>7
  <2>2. /\ Beneath(g, b) = [i \in 1..1 |-> BracketAt(g, i)]
        /\ Beneath(f, b) = [i \in 1..0 |-> BracketAt(f, i)]
    BY <1>1, <1>7 DEF Beneath
  <2>3. Beneath(g, b) = Append(Beneath(f, b), x)
    BY <1>5, <2>1, <2>2
  <2> QED BY <1>7, <2>3 DEF IsHeard
<1>8. CASE ~b /\ f # <<>>
  <2>1. 1 \in 1..n
    BY <1>8
  <2>2. /\ Beneath(g, b) = [i \in 1..1 |-> BracketAt(g, i)]
        /\ Beneath(f, b) = [i \in 1..1 |-> BracketAt(f, i)]
    BY <1>1, <1>8 DEF Beneath
  <2>3. Beneath(g, b) = Beneath(f, b)
    BY <1>4, <2>1, <2>2
  <2> QED BY <1>8, <2>3 DEF IsHeard
<1> QED BY <1>6, <1>7, <1>8

\* What was put last comes off first.
LEMMA LastComesOff ==
  ASSUME NEW P, NEW o \in Seq(P), NEW x
  PROVE  /\ Append(o, x) # <<>> /\ Streams!Last(Append(o, x)) = x
         /\ Streams!Front(Append(o, x)) = o
<1> PICK n \in Nat : n = Len(o)
  OBVIOUS
<1> DEFINE Q == P \cup {x}
<1>1. o \in Seq(Q) /\ x \in Q
  OBVIOUS
<1> HIDE DEF Q
<1>0. Append(o, x) \in Seq(Q)
  BY ONLY <1>1
<1> PICK a \in Seq(Q) : a = Append(o, x)
  BY <1>0
<1>2. Len(a) = n + 1 /\ a[n + 1] = x /\ SubSeq(a, 1, n) = o
  BY <1>1
<1>3. a # <<>> /\ (n + 1) - 1 = n
  BY <1>2
<1> QED BY <1>2, <1>3 DEF Streams!Last, Streams!Front

\* A start, an end and any other event.
LEMMA StartOpens ==
  ASSUME NEW E, NEW s \in Seq(E), NEW e, EndsMatch(s), NoneIsLast(s), e.is = "NodeStart"
  PROVE  /\ \E D : Append(s, e) \in Seq(D)
         /\ EndsMatch(Append(s, e)) /\ NoneIsLast(Append(s, e))
         /\ Unclosed(Append(s, e)) = Append(Unclosed(s), <<e.node, e.path>>)
<1> DEFINE D == E \cup {e}
<1>1. s \in Seq(D) /\ e \in D
  OBVIOUS
<1> HIDE DEF D
<1>2. Append(s, e) \in Seq(D)
  BY ONLY <1>1
<1>3. NoneIsLast(Append(s, e))
  BY <1>1 DEF NoneIsLast
<1>4. e.is # "NodeEnd" /\ Streams!AfterEvent(Unclosed(s), e) = Append(Unclosed(s), <<e.node, e.path>>)
  BY DEF Streams!AfterEvent
<1> QED BY <1>1, <1>2, <1>3, <1>4, OneMoreEvent

LEMMA ChunkKeepsOpen ==
  ASSUME NEW E, NEW s \in Seq(E), NEW e, EndsMatch(s), NoneIsLast(s), e.is = "MessageChunk"
  PROVE  /\ \E D : Append(s, e) \in Seq(D)
         /\ EndsMatch(Append(s, e)) /\ NoneIsLast(Append(s, e))
         /\ Unclosed(Append(s, e)) = Unclosed(s)
<1> DEFINE D == E \cup {e}
<1>1. s \in Seq(D) /\ e \in D
  OBVIOUS
<1> HIDE DEF D
<1>2. Append(s, e) \in Seq(D)
  BY ONLY <1>1
<1>3. NoneIsLast(Append(s, e))
  BY <1>1 DEF NoneIsLast
<1>4. e.is # "NodeEnd" /\ Streams!AfterEvent(Unclosed(s), e) = Unclosed(s)
  BY DEF Streams!AfterEvent
<1> QED BY <1>1, <1>2, <1>3, <1>4, OneMoreEvent

LEMMA EndCloses ==
  ASSUME NEW E, NEW s \in Seq(E), NEW e, EndsMatch(s), NoneIsLast(s), e.is = "NodeEnd",
         NEW P, NEW o \in Seq(P), Unclosed(s) = Append(o, <<e.node, e.path>>)
  PROVE  /\ \E D : Append(s, e) \in Seq(D)
         /\ EndsMatch(Append(s, e)) /\ NoneIsLast(Append(s, e))
         /\ Unclosed(Append(s, e)) = o
<1> DEFINE D == E \cup {e}
<1>1. s \in Seq(D) /\ e \in D
  OBVIOUS
<1> HIDE DEF D
<1>2. Append(s, e) \in Seq(D)
  BY ONLY <1>1
<1>3. NoneIsLast(Append(s, e))
  BY <1>1 DEF NoneIsLast
<1> PICK x : x = <<e.node, e.path>>
  OBVIOUS
<1>4. /\ Unclosed(s) # <<>> /\ Streams!Last(Unclosed(s)) = x
      /\ Streams!Front(Unclosed(s)) = o
  BY LastComesOff
<1>5. Streams!AfterEvent(Unclosed(s), e) = o
  BY <1>4 DEF Streams!AfterEvent
<1> QED BY <1>1, <1>2, <1>3, <1>4, <1>5, OneMoreEvent

\* An event has its fields.
LEMMA EventIs ==
  ASSUME NEW kind, NEW f, NEW node, NEW state, NEW update, NEW e,
         e = Event(kind, f, node, state, update)
  PROVE  /\ e.is = kind /\ e.node = node /\ e.path = Streams!Path(f, node)
         /\ e.state = state /\ e.update = update
BY DEF Event

LEMMA BracketsAtStart ==
  ASSUME NEW S, NEW f \in Seq(S), NEW t, NEW b \in BOOLEAN, NEW s, NEW s1, NEW t1,
         Bracketed(s, f, t, b), Starts(s, f, t, b, s1, t1)
  PROVE  Bracketed(s1, f, t1, b)
<1> PICK E : s \in Seq(E)
  BY DEF Bracketed
<1> PICK e : e = Event("NodeStart", f, t.node, t.state, <<>>)
  OBVIOUS
<1>1. t.at = "head" /\ t1.at = "body" /\ t1.node = t.node /\ s1 = Yielded(s, f, b, e)
  BY DEF Starts
<1>2. EndsMatch(s) /\ NoneIsLast(s) /\ Unclosed(s) = Beneath(f, b)
  BY <1>1 DEF Bracketed, OpenNow
<1>3. CASE IsHeard(f, b)
  <2>1. s1 = Append(s, e)
    BY <1>1, <1>3 DEF Yielded
  <2>2. e.is = "NodeStart" /\ e.node = t.node /\ e.path = Streams!Path(f, t.node)
    BY EventIs
  <2>3. /\ \E D : s1 \in Seq(D)
        /\ EndsMatch(s1) /\ NoneIsLast(s1)
        /\ Unclosed(s1) = Append(Unclosed(s), <<e.node, e.path>>)
    BY <1>2, <2>1, <2>2, StartOpens
  <2>4. OpenNow(f, t1, b) = Append(Beneath(f, b), <<e.node, e.path>>)
    BY <1>1, <1>3, <2>2 DEF OpenNow
  <2> QED BY <1>2, <2>3, <2>4 DEF Bracketed
<1>4. CASE ~IsHeard(f, b)
  <2>1. s1 = s /\ OpenNow(f, t1, b) = Beneath(f, b)
    BY <1>1, <1>4 DEF Yielded, OpenNow
  <2> QED BY <1>2, <2>1 DEF Bracketed
<1> QED BY <1>3, <1>4

LEMMA BracketsAtChunk ==
  ASSUME NEW S, NEW f \in Seq(S), NEW t, NEW b \in BOOLEAN, NEW s, NEW s1, NEW t1, NEW c,
         Bracketed(s, f, t, b), Speaks(s, f, t, b, s1, t1, c)
  PROVE  Bracketed(s1, f, t1, b)
<1> PICK E : s \in Seq(E)
  BY DEF Bracketed
<1> PICK e : e = Event("MessageChunk", f, t.node, <<>>, <<c>>)
  OBVIOUS
<1>1. t.at = "body" /\ t1.at = "body" /\ t1.node = t.node /\ s1 = Append(s, e)
  BY DEF Speaks
<1>2. e.is = "MessageChunk"
  BY EventIs
<1>3. EndsMatch(s) /\ NoneIsLast(s) /\ Unclosed(s) = OpenNow(f, t, b)
  BY DEF Bracketed
<1>4. /\ \E D : s1 \in Seq(D)
      /\ EndsMatch(s1) /\ NoneIsLast(s1) /\ Unclosed(s1) = Unclosed(s)
  BY <1>1, <1>2, <1>3, ChunkKeepsOpen
<1>5. OpenNow(f, t1, b) = OpenNow(f, t, b)
  BY <1>1 DEF OpenNow
<1> QED BY <1>3, <1>4, <1>5 DEF Bracketed

LEMMA BracketsAtEnd ==
  ASSUME NEW S, NEW f \in Seq(S), NEW t, NEW b \in BOOLEAN, NEW s, NEW s1, NEW t1, NEW u,
         Bracketed(s, f, t, b), Answered(s, f, t, b, s1, t1, u)
  PROVE  Bracketed(s1, f, t1, b)
<1> PICK E : s \in Seq(E)
  BY DEF Bracketed
<1> PICK e : e = Event("NodeEnd", f, t.node, t1.state, u)
  OBVIOUS
<1>1. t.at = "body" /\ t1.at = "route" /\ s1 = Yielded(s, f, b, e)
  BY DEF Answered
<1>2. EndsMatch(s) /\ NoneIsLast(s) /\ Unclosed(s) = OpenNow(f, t, b)
  BY DEF Bracketed
<1>3. OpenNow(f, t1, b) = Beneath(f, b)
  BY <1>1 DEF OpenNow
<1> PICK P : Beneath(f, b) \in Seq(P)
  BY BeneathIsSeq
<1> PICK o \in Seq(P) : o = Beneath(f, b)
  OBVIOUS
<1>4. CASE IsHeard(f, b)
  <2>1. s1 = Append(s, e)
    BY <1>1, <1>4 DEF Yielded
  <2>2. e.is = "NodeEnd" /\ e.node = t.node /\ e.path = Streams!Path(f, t.node)
    BY EventIs
  <2>3. Unclosed(s) = Append(Beneath(f, b), <<e.node, e.path>>)
    BY <1>1, <1>2, <1>4, <2>2 DEF OpenNow
  <2>4. /\ \E D : s1 \in Seq(D)
        /\ EndsMatch(s1) /\ NoneIsLast(s1) /\ Unclosed(s1) = o
    <3>1. EndsMatch(s) /\ NoneIsLast(s) /\ Unclosed(s) = Append(o, <<e.node, e.path>>)
      BY <1>2, <2>3
    <3> QED BY ONLY s \in Seq(E), o \in Seq(P), <2>1, <2>2, <3>1, EndCloses
  <2> QED BY <1>3, <2>4 DEF Bracketed
<1>5. CASE ~IsHeard(f, b)
  <2>1. s1 = s /\ OpenNow(f, t, b) = Beneath(f, b)
    BY <1>1, <1>5 DEF Yielded, OpenNow
  <2> QED BY <1>2, <1>3, <2>1 DEF Bracketed
<1> QED BY <1>4, <1>5

LEMMA BracketsAtMove ==
  ASSUME NEW f, NEW t, NEW b, NEW s, NEW t1, Bracketed(s, f, t, b), Moves(t, t1)
  PROVE  Bracketed(s, f, t1, b)
<1>1. t.at # "body" /\ t1.at # "body"
  BY DEF Moves
<1>2. OpenNow(f, t1, b) = OpenNow(f, t, b)
  BY <1>1 DEF OpenNow
<1> QED BY <1>2 DEF Bracketed

LEMMA BracketsAtEntry ==
  ASSUME NEW S, NEW f \in Seq(S), NEW t \in S, NEW b \in BOOLEAN, NEW s, NEW t1,
         Bracketed(s, f, t, b), Enters(t, t1)
  PROVE  Bracketed(s, Append(f, t), t1, b)
<1>1. t.at = "body" /\ t1.at # "body"
  BY DEF Enters
<1> PICK g : g = Append(f, t)
  OBVIOUS
<1>2. OpenNow(g, t1, b) = Beneath(g, b)
  BY <1>1 DEF OpenNow
<1>3. Beneath(g, b) = OpenNow(f, t, b)
  BY <1>1, BeneathMore DEF OpenNow
<1> QED BY <1>2, <1>3 DEF Bracketed

LEMMA BracketsAtReturn ==
  ASSUME NEW S, NEW g \in Seq(S), NEW p \in S, NEW b \in BOOLEAN, NEW t, NEW s, NEW s1, NEW t1,
         Bracketed(s, Append(g, p), t, b), ComesBack(s, g, p, t, b, s1, t1)
  PROVE  Bracketed(s1, g, t1, b)
<1> PICK E : s \in Seq(E)
  BY DEF Bracketed
<1> PICK e : e = Event("NodeEnd", g, p.node, t1.state, t.state)
  OBVIOUS
<1>1. t.at # "body" /\ t1.at = "route" /\ s1 = Yielded(s, g, b, e)
  BY DEF ComesBack
<1>2. EndsMatch(s) /\ NoneIsLast(s) /\ Unclosed(s) = Beneath(Append(g, p), b)
  BY <1>1 DEF Bracketed, OpenNow
<1>3. OpenNow(g, t1, b) = Beneath(g, b)
  BY <1>1 DEF OpenNow
<1> PICK P : Beneath(g, b) \in Seq(P)
  BY BeneathIsSeq
<1> PICK o \in Seq(P) : o = Beneath(g, b)
  OBVIOUS
<1>4. CASE IsHeard(g, b)
  <2>1. s1 = Append(s, e)
    BY <1>1, <1>4 DEF Yielded
  <2>2. e.is = "NodeEnd" /\ e.node = p.node /\ e.path = Streams!Path(g, p.node)
    BY EventIs
  <2>3. Unclosed(s) = Append(Beneath(g, b), <<e.node, e.path>>)
    BY <1>2, <1>4, <2>2, BeneathMore
  <2>4. /\ \E D : s1 \in Seq(D)
        /\ EndsMatch(s1) /\ NoneIsLast(s1) /\ Unclosed(s1) = o
    <3>1. EndsMatch(s) /\ NoneIsLast(s) /\ Unclosed(s) = Append(o, <<e.node, e.path>>)
      BY <1>2, <2>3
    <3> QED BY ONLY s \in Seq(E), o \in Seq(P), <2>1, <2>2, <3>1, EndCloses
  <2> QED BY <1>3, <2>4 DEF Bracketed
<1>5. CASE ~IsHeard(g, b)
  <2>1. s1 = s /\ Unclosed(s) = Beneath(g, b)
    BY <1>1, <1>2, <1>5, BeneathMore DEF Yielded
  <2> QED BY <1>2, <1>3, <2>1 DEF Bracketed
<1> QED BY <1>4, <1>5

-------------------------------------------------------------------------------
(* The chunks.                                                             *)

OnlyChunks(s, from, to) == \A k \in (from + 1)..to : s[k].is = "MessageChunk"

SaidIn(s, from, to) == FlattenSeq([k \in 1..(to - from) |-> s[from + k].update])

\* The i-th event's message is what was said since its node started.
MadeOfChunks(s, i) ==
  \E from \in 1..(i - 1) :
    /\ s[from].is = "NodeStart" /\ s[from].path = s[i].path
    /\ OnlyChunks(s, from, i - 1)
    /\ s[i].update[1][2] = SaidIn(s, from, i - 1)

MessagesTell(s, m) ==
  \A i \in 1..Len(s) : s[i].is = "NodeEnd" /\ m /\ s[i].node \in Speaker => MadeOfChunks(s, i)

\* All of it is what the generator on top has kept of it.
SaidSoFar(s, n, f, t) ==
  \E from \in 1..n :
    /\ s[from].is = "NodeStart" /\ s[from].path = Streams!Path(f, t.node)
    /\ OnlyChunks(s, from, n)
    /\ \A k \in (from + 1)..n : s[k].update \in Seq(Chunk)
    /\ t.said = SaidIn(s, from, n)

Chunked(s, f, t, b, m) ==
  /\ \E E : s \in Seq(E)
  /\ MessagesTell(s, m)
  /\ \A i \in 1..Len(f) : f[i].node \notin Speaker
  /\ m /\ IsHeard(f, b) /\ t.at = "body" /\ t.node \in Speaker => SaidSoFar(s, Len(s), f, t)

LEMMA SaidInPrefix ==
  ASSUME NEW s, NEW s1, NEW n \in Nat, \A i \in 1..n : s1[i] = s[i],
         NEW from \in Nat, NEW to \in Nat, to <= n
  PROVE  /\ SaidIn(s1, from, to) = SaidIn(s, from, to)
         /\ OnlyChunks(s1, from, to) <=> OnlyChunks(s, from, to)
<1>1. \A k \in 1..(to - from) : from + k \in 1..n
  OBVIOUS
<1>2. [k \in 1..(to - from) |-> s1[from + k].update] = [k \in 1..(to - from) |-> s[from + k].update]
  BY <1>1
<1>3. \A k \in (from + 1)..to : k \in 1..n
  OBVIOUS
<1> QED BY <1>2, <1>3 DEF SaidIn, OnlyChunks

\* One more event, made of its chunks if it ends a node that speaks.
LEMMA MessagesTellMore ==
  ASSUME NEW E, NEW s \in Seq(E), NEW e, NEW m, MessagesTell(s, m),
         NEW n \in Nat, n = Len(s),
         e.is = "NodeEnd" /\ m /\ e.node \in Speaker => MadeOfChunks(Append(s, e), n + 1)
  PROVE  /\ MessagesTell(Append(s, e), m)
         /\ \E D : Append(s, e) \in Seq(D)
         /\ Len(Append(s, e)) = n + 1 /\ Append(s, e)[n + 1] = e
         /\ \A i \in 1..n : Append(s, e)[i] = s[i]
<1> DEFINE D == E \cup {e}
<1>1. s \in Seq(D) /\ e \in D
  OBVIOUS
<1> HIDE DEF D
<1>2. Append(s, e) \in Seq(D)
  BY ONLY <1>1
<1> PICK s1 \in Seq(D) : s1 = Append(s, e)
  BY <1>2
<1>3. Len(s1) = n + 1 /\ s1[n + 1] = e /\ \A i \in 1..n : s1[i] = s[i]
  BY ONLY <1>1, s1 = Append(s, e), n = Len(s)
<1>4. ASSUME NEW i \in 1..n, s1[i].is = "NodeEnd" /\ m /\ s1[i].node \in Speaker
      PROVE  MadeOfChunks(s1, i)
  <2>1. s1[i] = s[i]
    BY <1>3
  <2>2. MadeOfChunks(s, i)
    BY <1>4, <2>1 DEF MessagesTell
  <2> PICK from \in 1..(i - 1) :
        /\ s[from].is = "NodeStart" /\ s[from].path = s[i].path
        /\ OnlyChunks(s, from, i - 1)
        /\ s[i].update[1][2] = SaidIn(s, from, i - 1)
    BY <2>2 DEF MadeOfChunks
  <2>3. s1[from] = s[from]
    BY <1>3
  <2> PICK j \in Nat : j = i - 1
    OBVIOUS
  <2>4. SaidIn(s1, from, j) = SaidIn(s, from, j) /\ (OnlyChunks(s1, from, j) <=> OnlyChunks(s, from, j))
    <3>1. from \in Nat /\ j \in Nat /\ j <= n /\ \A k \in 1..n : s1[k] = s[k]
      BY <1>3
    <3> QED BY ONLY n \in Nat, <3>1, SaidInPrefix
  <2> QED BY <2>1, <2>3, <2>4 DEF MadeOfChunks
<1>5. MessagesTell(s1, m)
  <2>1. \A i \in 1..Len(s1) : i \in 1..n \/ i = n + 1
    BY <1>3
  <2> QED BY <1>3, <1>4, <2>1 DEF MessagesTell
<1> QED BY <1>2, <1>3, <1>5

LEMMA ChunksAtStart ==
  ASSUME NEW f, NEW t, NEW b, NEW m, NEW s, NEW s1, NEW t1,
         Chunked(s, f, t, b, m), Starts(s, f, t, b, s1, t1)
  PROVE  Chunked(s1, f, t1, b, m)
<1> PICK E : s \in Seq(E)
  BY DEF Chunked
<1> PICK n \in Nat : n = Len(s)
  OBVIOUS
<1> PICK e : e = Event("NodeStart", f, t.node, t.state, <<>>)
  OBVIOUS
<1>1. t1.node = t.node /\ t1.said = <<>> /\ s1 = Yielded(s, f, b, e)
  BY DEF Starts
<1>2. e.is = "NodeStart" /\ e.path = Streams!Path(f, t.node)
  BY EventIs
<1>3. MessagesTell(s, m) /\ \A i \in 1..Len(f) : f[i].node \notin Speaker
  BY DEF Chunked
<1>4. CASE IsHeard(f, b)
  <2>1. s1 = Append(s, e)
    BY <1>1, <1>4 DEF Yielded
  <2>2. /\ MessagesTell(s1, m) /\ \E D : s1 \in Seq(D)
        /\ Len(s1) = n + 1 /\ s1[n + 1] = e
    BY <1>2, <1>3, <2>1, MessagesTellMore
  <2>3. SaidIn(s1, n + 1, n + 1) = <<>>
    <3>1. (n + 1) - (n + 1) = 0
      OBVIOUS
    <3>2. [k \in 1..0 |-> s1[(n + 1) + k].update] = <<>>
      OBVIOUS
    <3> QED BY <3>1, <3>2, FlattenEmpty DEF SaidIn
  <2>4. OnlyChunks(s1, n + 1, n + 1) /\ \A k \in ((n + 1) + 1)..(n + 1) : s1[k].update \in Seq(Chunk)
    BY DEF OnlyChunks
  <2>5. SaidSoFar(s1, n + 1, f, t1)
    <3> PICK h \in Nat : h = n + 1
      OBVIOUS
    <3>1. h \in 1..h /\ s1[h].is = "NodeStart" /\ s1[h].path = Streams!Path(f, t1.node)
      BY <1>1, <1>2, <2>2
    <3> QED BY ONLY h = n + 1, <1>1, <2>3, <2>4, <3>1 DEF SaidSoFar
  <2> QED BY <1>3, <2>2, <2>5 DEF Chunked
<1>5. CASE ~IsHeard(f, b)
  <2>1. s1 = s
    BY <1>1, <1>5 DEF Yielded
  <2> QED BY <1>3, <1>5, <2>1 DEF Chunked
<1> QED BY <1>4, <1>5

LEMMA ChunksAtChunk ==
  ASSUME NEW f, NEW t, NEW b, NEW m, NEW s, NEW s1, NEW t1, NEW c,
         Chunked(s, f, t, b, m), Speaks(s, f, t, b, s1, t1, c)
  PROVE  Chunked(s1, f, t1, b, m)
<1> PICK E : s \in Seq(E)
  BY DEF Chunked
<1> PICK n \in Nat : n = Len(s)
  OBVIOUS
<1> PICK e : e = Event("MessageChunk", f, t.node, <<>>, <<c>>)
  OBVIOUS
<1>1. /\ c \in Chunk /\ IsHeard(f, b) /\ t.at = "body"
      /\ t1.node = t.node /\ t1.said = Append(t.said, c) /\ s1 = Append(s, e)
  BY DEF Speaks
<1>2. e.is = "MessageChunk" /\ e.update = <<c>>
  BY EventIs
<1>3. MessagesTell(s, m) /\ \A i \in 1..Len(f) : f[i].node \notin Speaker
  BY DEF Chunked
<1>4. /\ MessagesTell(s1, m) /\ \E D : s1 \in Seq(D)
      /\ Len(s1) = n + 1 /\ s1[n + 1] = e /\ \A i \in 1..n : s1[i] = s[i]
  BY <1>1, <1>2, <1>3, MessagesTellMore
<1>5. ASSUME m, t.node \in Speaker
      PROVE  SaidSoFar(s1, n + 1, f, t1)
  <2>1. SaidSoFar(s, n, f, t)
    BY <1>1, <1>5 DEF Chunked
  <2> PICK from \in 1..n :
        /\ s[from].is = "NodeStart" /\ s[from].path = Streams!Path(f, t.node)
        /\ OnlyChunks(s, from, n)
        /\ \A k \in (from + 1)..n : s[k].update \in Seq(Chunk)
        /\ t.said = SaidIn(s, from, n)
    BY <2>1 DEF SaidSoFar
  <2>2. s1[from].is = "NodeStart" /\ s1[from].path = Streams!Path(f, t1.node)
    BY <1>1, <1>4
  <2>3. \A k \in (from + 1)..(n + 1) : k = n + 1 \/ (k \in (from + 1)..n /\ k \in 1..n)
    OBVIOUS
  <2>4. OnlyChunks(s1, from, n + 1)
    BY <1>2, <1>4, <2>3 DEF OnlyChunks
  <2>5. \A k \in (from + 1)..(n + 1) : s1[k].update \in Seq(Chunk)
    <3>1. s1[n + 1].update \in Seq(Chunk)
      <4>1. <<c>> \in Seq(Chunk)
        BY <1>1
      <4> QED BY ONLY <4>1, <1>2, <1>4
    <3>2. \A k \in (from + 1)..n : s1[k].update = s[k].update
      BY <1>4, <2>3
    <3> QED BY <2>3, <3>1, <3>2
  <2>6. SaidIn(s1, from, n + 1) = Append(t.said, c)
    <3> PICK j \in Nat : j = n - from
      OBVIOUS
    <3> PICK old : old = [k \in 1..j |-> s[from + k].update]
      OBVIOUS
    <3>1. old \in Seq(Seq(Chunk)) /\ Len(old) = j
      <4>1. \A k \in 1..j : from + k \in (from + 1)..n
        OBVIOUS
      <4>2. old \in [1..j -> Seq(Chunk)]
        BY ONLY <4>1, old = [k \in 1..j |-> s[from + k].update],
                \A k \in (from + 1)..n : s[k].update \in Seq(Chunk)
      <4> QED BY ONLY <4>2, j \in Nat
    <3>2. (n + 1) - from = j + 1 /\ from + (j + 1) = n + 1
      OBVIOUS
    <3>3. \A k \in 1..j : s1[from + k].update = old[k]
      <4>1. \A k \in 1..j : from + k \in 1..n
        OBVIOUS
      <4>2. \A k \in 1..n : s1[k] = s[k]
        BY <1>4
      <4> QED BY ONLY <4>1, <4>2, old = [k \in 1..j |-> s[from + k].update]
    <3>4. s1[from + (j + 1)].update = <<c>>
      BY <1>2, <1>4, <3>2
    <3>5. Append(old, <<c>>) = [k \in 1..(j + 1) |-> IF k = j + 1 THEN <<c>> ELSE old[k]]
      <4>1. <<c>> \in Seq(Chunk)
        BY <1>1
      <4> QED BY <3>1, <4>1
    <3>6. [k \in 1..(j + 1) |-> s1[from + k].update] = Append(old, <<c>>)
      BY <3>3, <3>4, <3>5
    <3>7. FlattenSeq(Append(old, <<c>>)) = FlattenSeq(old) \o <<c>>
      <4>1. old \in Seq(Seq(Chunk)) /\ <<c>> \in Seq(Chunk)
        BY <1>1, <3>1
      <4> QED BY ONLY <4>1, FlattenAppend
    <3>8. SaidIn(s1, from, n + 1) = t.said \o <<c>>
      <4>1. SaidIn(s1, from, n + 1) = FlattenSeq([k \in 1..(j + 1) |-> s1[from + k].update])
        BY <3>2 DEF SaidIn
      <4>2. t.said = FlattenSeq(old)
        BY DEF SaidIn
      <4> QED BY ONLY <3>6, <3>7, <4>1, <4>2
    <3>9. t.said \in Seq(Chunk)
      BY DEF Speaks
    <3> PICK q \in Seq(Chunk) : q = t.said
      BY <3>9
    <3>10. q \o <<c>> = Append(q, c)
      BY <1>1
    <3> QED BY <3>8, <3>10
  <2> PICK h \in Nat : h = n + 1
    OBVIOUS
  <2>7. from \in 1..h
    OBVIOUS
  <2> QED BY ONLY h = n + 1, <1>1, <2>2, <2>4, <2>5, <2>6, <2>7 DEF SaidSoFar
<1> QED BY <1>1, <1>3, <1>4, <1>5 DEF Chunked

LEMMA ChunksAtEnd ==
  ASSUME NEW f, NEW t, NEW b, NEW m, NEW s, NEW s1, NEW t1, NEW u,
         Chunked(s, f, t, b, m), Answered(s, f, t, b, s1, t1, u)
  PROVE  Chunked(s1, f, t1, b, m)
<1> PICK E : s \in Seq(E)
  BY DEF Chunked
<1> PICK n \in Nat : n = Len(s)
  OBVIOUS
<1> PICK e : e = Event("NodeEnd", f, t.node, t1.state, u)
  OBVIOUS
<1>1. /\ t.at = "body" /\ t1.at = "route" /\ s1 = Yielded(s, f, b, e)
      /\ u = <<<<t.node, t.said>>>>
  BY DEF Answered
<1>2. e.is = "NodeEnd" /\ e.node = t.node /\ e.path = Streams!Path(f, t.node) /\ e.update = u
  BY EventIs
<1>3. MessagesTell(s, m) /\ \A i \in 1..Len(f) : f[i].node \notin Speaker
  BY DEF Chunked
<1>4. CASE IsHeard(f, b)
  <2>1. s1 = Append(s, e)
    BY <1>1, <1>4 DEF Yielded
  <2>2. ASSUME m, t.node \in Speaker
        PROVE  MadeOfChunks(s1, n + 1)
    <3>1. SaidSoFar(s, n, f, t)
      BY <1>1, <1>4, <2>2 DEF Chunked
    <3> PICK from \in 1..n :
          /\ s[from].is = "NodeStart" /\ s[from].path = Streams!Path(f, t.node)
          /\ OnlyChunks(s, from, n)
          /\ t.said = SaidIn(s, from, n)
      BY <3>1 DEF SaidSoFar
    <3>2. s1[n + 1] = e /\ \A i \in 1..n : s1[i] = s[i]
      <4> DEFINE D == E \cup {e}
      <4>1. s \in Seq(D) /\ e \in D
        OBVIOUS
      <4> HIDE DEF D
      <4> QED BY ONLY <2>1, <4>1, n = Len(s)
    <3>3. SaidIn(s1, from, n) = SaidIn(s, from, n) /\ (OnlyChunks(s1, from, n) <=> OnlyChunks(s, from, n))
      <4>1. from \in Nat /\ n \in Nat /\ n <= n /\ \A k \in 1..n : s1[k] = s[k]
        BY <3>2
      <4> QED BY ONLY <4>1, SaidInPrefix
    <3>4. s1[n + 1].update[1][2] = t.said
      <4> PICK v : v = <<t.node, t.said>>
        OBVIOUS
      <4>1. v[2] = t.said /\ u[1] = v
        BY <1>1
      <4> QED BY <1>2, <3>2, <4>1
    <3>5. (n + 1) - 1 = n
      OBVIOUS
    <3>6. s1[from] = s[from] /\ s1[n + 1].path = Streams!Path(f, t.node)
      BY <1>2, <3>2
    <3> PICK h : h = n + 1
      OBVIOUS
    <3>7. /\ from \in 1..(h - 1) /\ s1[from].is = "NodeStart" /\ s1[from].path = s1[h].path
          /\ OnlyChunks(s1, from, h - 1) /\ s1[h].update[1][2] = SaidIn(s1, from, h - 1)
      BY <3>3, <3>4, <3>5, <3>6
    <3> QED BY ONLY h = n + 1, <3>7 DEF MadeOfChunks
  <2>3. MessagesTell(s1, m) /\ \E D : s1 \in Seq(D)
    BY <1>2, <1>3, <2>1, <2>2, MessagesTellMore
  <2> QED BY <1>1, <1>3, <2>3 DEF Chunked
<1>5. CASE ~IsHeard(f, b)
  <2>1. s1 = s
    BY <1>1, <1>5 DEF Yielded
  <2> QED BY <1>3, <1>5, <2>1 DEF Chunked
<1> QED BY <1>4, <1>5

LEMMA ChunksAtMove ==
  ASSUME NEW f, NEW t, NEW b, NEW m, NEW s, NEW t1, Chunked(s, f, t, b, m), Moves(t, t1)
  PROVE  Chunked(s, f, t1, b, m)
BY DEF Chunked, Moves

LEMMA ChunksAtEntry ==
  ASSUME NEW S, NEW f \in Seq(S), NEW t \in S, NEW b, NEW m, NEW s, NEW t1,
         Chunked(s, f, t, b, m), Enters(t, t1)
  PROVE  Chunked(s, Append(f, t), t1, b, m)
<1>1. \A i \in 1..Len(Append(f, t)) : Append(f, t)[i].node \notin Speaker
  <2>1. \A i \in 1..Len(f) : f[i].node \notin Speaker
    BY DEF Chunked
  <2>2. t.node \notin Speaker
    BY DEF Enters
  <2> QED BY ONLY <2>1, <2>2, f \in Seq(S), t \in S
<1> PICK g : g = Append(f, t)
  OBVIOUS
<1>2. \A i \in 1..Len(g) : g[i].node \notin Speaker
  BY ONLY <1>1, g = Append(f, t)
<1>3. t1.at = "head"
  BY DEF Enters
<1> QED BY <1>2, <1>3 DEF Chunked

LEMMA ChunksAtReturn ==
  ASSUME NEW S, NEW g \in Seq(S), NEW p \in S, NEW b, NEW m, NEW t, NEW s, NEW s1, NEW t1,
         Chunked(s, Append(g, p), t, b, m), ComesBack(s, g, p, t, b, s1, t1)
  PROVE  Chunked(s1, g, t1, b, m)
<1> PICK E : s \in Seq(E)
  BY DEF Chunked
<1> PICK n \in Nat : n = Len(s)
  OBVIOUS
<1> PICK e : e = Event("NodeEnd", g, p.node, t1.state, t.state)
  OBVIOUS
<1>1. t1.at = "route" /\ s1 = Yielded(s, g, b, e)
  BY DEF ComesBack
<1>2. e.node = p.node
  BY EventIs
<1>3. p.node \notin Speaker /\ \A i \in 1..Len(g) : g[i].node \notin Speaker
  <2> PICK f : f = Append(g, p)
    OBVIOUS
  <2>1. \A i \in 1..Len(f) : f[i].node \notin Speaker
    BY DEF Chunked
  <2> PICK k \in Nat : k = Len(g)
    OBVIOUS
  <2>2. Len(f) = k + 1 /\ f[k + 1] = p /\ \A i \in 1..k : f[i] = g[i]
    BY ONLY f = Append(g, p), g \in Seq(S), p \in S, k = Len(g)
  <2>3. k + 1 \in 1..Len(f) /\ \A i \in 1..k : i \in 1..Len(f)
    BY <2>2
  <2> QED BY <2>1, <2>2, <2>3
<1>4. MessagesTell(s, m)
  BY DEF Chunked
<1>5. MessagesTell(s1, m) /\ \E D : s1 \in Seq(D)
  BY <1>1, <1>2, <1>3, <1>4, MessagesTellMore DEF Yielded
<1> QED BY <1>1, <1>3, <1>5 DEF Chunked

-------------------------------------------------------------------------------
(* The updates, when wrapped graphs are invoked in silence.                *)

OfKinds(s, kinds) == {i \in 1..Len(s) : s[i].is \in kinds}
UpdatesIn(s) == Selected(s, OfKinds(s, {"NodeEnd"}))
\* The states that are shown.
ValuesIn(s) == Selected(s, OfKinds(s, {"NodeEnd", "GraphEnd"}))

\* What the first i updates make.
Made(us, i) == FlattenSeq([j \in 1..i |-> us[j].update])
StatesAreMade(us) == \A i \in 1..Len(us) : us[i].state = Made(us, i)

UpdatesOver(us, X) == \A i \in 1..Len(us) : us[i].update \in Seq(X)
StatesOver(f, t, X) == t.state \in Seq(X) /\ \A i \in 1..Len(f) : f[i].state \in Seq(X)

\* The state of the graph whose stream it is.
Outermost(f, t) == IF f = <<>> THEN t.state ELSE f[1].state

Updated(s, f, t) ==
  /\ \E E : s \in Seq(E)
  /\ \E X : UpdatesOver(UpdatesIn(s), X) /\ StatesOver(f, t, X)
  /\ StatesAreMade(UpdatesIn(s))
  /\ Outermost(f, t) = Made(UpdatesIn(s), Len(UpdatesIn(s)))

\* A sequence with one more element.
LEMMA AppendIs ==
  ASSUME NEW S, NEW q \in Seq(S), NEW x \in S, NEW n \in Nat, n = Len(q)
  PROVE  Append(q, x) = [i \in 1..(n + 1) |-> IF i = n + 1 THEN x ELSE q[i]]
<1>0. Append(q, x) \in Seq(S)
  BY ONLY q \in Seq(S), x \in S
<1> PICK a \in Seq(S) : a = Append(q, x)
  BY <1>0
<1>1. Len(a) = n + 1 /\ a[n + 1] = x /\ \A i \in 1..n : a[i] = q[i]
  BY ONLY a = Append(q, x), q \in Seq(S), x \in S, n = Len(q)
<1> PICK m \in Nat : m = n + 1
  OBVIOUS
<1>2. \A i \in 1..m : i = m \/ i \in 1..n
  OBVIOUS
<1> DEFINE b == [i \in 1..m |-> IF i = m THEN x ELSE q[i]]
<1>3. b \in Seq(S) /\ Len(b) = m /\ \A i \in 1..m : b[i] = IF i = m THEN x ELSE q[i]
  <2>1. b \in [1..m -> S]
    BY <1>2
  <2> QED BY <2>1
<1> HIDE DEF b
<1>4. Len(a) = Len(b) /\ \A i \in 1..Len(a) : a[i] = b[i]
  BY <1>1, <1>2, <1>3
<1>5. a = b
  BY ONLY a \in Seq(S), <1>3, <1>4, SeqEqual
<1> QED BY <1>5 DEF b

\* An event that is the end of no node.
LEMMA NoUpdate ==
  ASSUME NEW E, NEW s \in Seq(E), NEW e, e.is # "NodeEnd"
  PROVE  UpdatesIn(Append(s, e)) = UpdatesIn(s) /\ \E D : Append(s, e) \in Seq(D)
<1> DEFINE D == E \cup {e}
<1>1. s \in Seq(D) /\ e \in D
  OBVIOUS
<1> HIDE DEF D
<1>2. Append(s, e) \in Seq(D)
  BY ONLY <1>1
<1> PICK s1 \in Seq(D) : s1 = Append(s, e)
  BY <1>2
<1> PICK n \in Nat : n = Len(s)
  OBVIOUS
<1>3. Len(s1) = n + 1 /\ s1[n + 1] = e /\ \A i \in 1..n : s1[i] = s[i]
  BY ONLY <1>1, s1 = Append(s, e), n = Len(s)
<1> PICK P, Q : P = OfKinds(s, {"NodeEnd"}) /\ Q = OfKinds(s1, {"NodeEnd"})
  OBVIOUS
<1>4. n + 1 \notin Q /\ \A i \in 1..n : i \in P <=> i \in Q
  BY <1>3 DEF OfKinds
<1>5. Selected(Append(s, e), Q) = Selected(s, P)
  <2>1. \A i \in 1..n : i \in P <=> i \in Q
    BY <1>4
  <2>2. Selected(Append(s, e), Q) =
          IF n + 1 \in Q THEN Append(Selected(s, P), e) ELSE Selected(s, P)
    BY ONLY <1>1, <2>1, n \in Nat, n = Len(s), SelectedAppend
  <2> QED BY ONLY <1>4, <2>2
<1> QED BY <1>2, <1>5 DEF UpdatesIn

\* An event that shows a state, and one that shows none.
LEMMA ValuesMore ==
  ASSUME NEW E, NEW s \in Seq(E), NEW e
  PROVE  ValuesIn(Append(s, e)) = IF e.is \in {"NodeEnd", "GraphEnd"}
                                  THEN Append(ValuesIn(s), e) ELSE ValuesIn(s)
<1> DEFINE D == E \cup {e}
<1>1. s \in Seq(D) /\ e \in D
  OBVIOUS
<1> HIDE DEF D
<1>2. Append(s, e) \in Seq(D)
  BY ONLY <1>1
<1> PICK s1 \in Seq(D) : s1 = Append(s, e)
  BY <1>2
<1> PICK n \in Nat : n = Len(s)
  OBVIOUS
<1>3. Len(s1) = n + 1 /\ s1[n + 1] = e /\ \A i \in 1..n : s1[i] = s[i]
  BY ONLY <1>1, s1 = Append(s, e), n = Len(s)
<1> PICK P, Q : P = OfKinds(s, {"NodeEnd", "GraphEnd"}) /\ Q = OfKinds(s1, {"NodeEnd", "GraphEnd"})
  OBVIOUS
<1>4. (n + 1 \in Q <=> e.is \in {"NodeEnd", "GraphEnd"}) /\ \A i \in 1..n : i \in P <=> i \in Q
  BY <1>3 DEF OfKinds
<1>5. Selected(Append(s, e), Q) = IF n + 1 \in Q THEN Append(Selected(s, P), e) ELSE Selected(s, P)
  BY ONLY <1>1, <1>4, n \in Nat, n = Len(s), SelectedAppend
<1> QED BY <1>4, <1>5 DEF ValuesIn

\* The end of one, which adds its update to the state so far.
LEMMA OneMoreUpdate ==
  ASSUME NEW E, NEW s \in Seq(E), NEW e, e.is = "NodeEnd", NEW X, e.update \in Seq(X),
         UpdatesOver(UpdatesIn(s), X), StatesAreMade(UpdatesIn(s)),
         e.state = Made(UpdatesIn(s), Len(UpdatesIn(s))) \o e.update
  PROVE  /\ \E D : Append(s, e) \in Seq(D)
         /\ UpdatesOver(UpdatesIn(Append(s, e)), X) /\ StatesAreMade(UpdatesIn(Append(s, e)))
         /\ e.state = Made(UpdatesIn(Append(s, e)), Len(UpdatesIn(Append(s, e))))
<1> DEFINE D == E \cup {e}
<1>1. s \in Seq(D) /\ e \in D
  OBVIOUS
<1> HIDE DEF D
<1>2. Append(s, e) \in Seq(D)
  BY ONLY <1>1
<1> PICK s1 \in Seq(D) : s1 = Append(s, e)
  BY <1>2
<1> PICK n \in Nat : n = Len(s)
  OBVIOUS
<1>3. Len(s1) = n + 1 /\ s1[n + 1] = e /\ \A i \in 1..n : s1[i] = s[i]
  BY ONLY <1>1, s1 = Append(s, e), n = Len(s)
<1> PICK P, Q : P = OfKinds(s, {"NodeEnd"}) /\ Q = OfKinds(s1, {"NodeEnd"})
  OBVIOUS
<1>4. n + 1 \in Q /\ \A i \in 1..n : i \in P <=> i \in Q
  BY <1>3 DEF OfKinds
<1>5. Selected(Append(s, e), Q) = Append(Selected(s, P), e)
  <2>1. \A i \in 1..n : i \in P <=> i \in Q
    BY <1>4
  <2>2. Selected(Append(s, e), Q) =
          IF n + 1 \in Q THEN Append(Selected(s, P), e) ELSE Selected(s, P)
    BY ONLY <1>1, <2>1, n \in Nat, n = Len(s), SelectedAppend
  <2> QED BY ONLY <1>4, <2>2
<1> PICK us \in Seq(D) : us = UpdatesIn(s)
  BY ONLY <1>1, SelectedElements DEF UpdatesIn
<1>6. UpdatesIn(s1) = Append(us, e)
  BY <1>5 DEF UpdatesIn
<1> PICK k \in Nat : k = Len(us)
  OBVIOUS
<1>7. Append(us, e) \in Seq(D)
  BY ONLY <1>1, us \in Seq(D)
<1> PICK vs \in Seq(D) : vs = Append(us, e)
  BY <1>7
<1>8. Len(vs) = k + 1 /\ vs[k + 1] = e /\ \A i \in 1..k : vs[i] = us[i]
  BY ONLY <1>1, us \in Seq(D), vs = Append(us, e), k = Len(us)
<1>9. \A i \in 1..(k + 1) : i = k + 1 \/ i \in 1..k
  OBVIOUS
<1>10. UpdatesOver(vs, X)
  BY <1>8, <1>9 DEF UpdatesOver
<1>11. \A i \in 1..k : Made(vs, i) = Made(us, i)
  <2> SUFFICES ASSUME NEW i \in 1..k
               PROVE  Made(vs, i) = Made(us, i)
    OBVIOUS
  <2>1. \A j \in 1..i : vs[j] = us[j]
    BY <1>8
  <2> QED BY ONLY <2>1 DEF Made
<1>12. Made(vs, k + 1) = Made(us, k) \o e.update
  <2> PICK old : old = [j \in 1..k |-> us[j].update]
    OBVIOUS
  <2> PICK u \in Seq(X) : u = e.update
    OBVIOUS
  <2>1. old \in Seq(Seq(X)) /\ Len(old) = k
    <3>1. old \in [1..k -> Seq(X)]
      BY DEF UpdatesOver
    <3> QED BY ONLY <3>1, k \in Nat
  <2>2. Append(old, u) = [j \in 1..(k + 1) |-> IF j = k + 1 THEN u ELSE old[j]]
    BY ONLY <2>1, u \in Seq(X), k \in Nat, AppendIs
  <2>3. [j \in 1..(k + 1) |-> vs[j].update] = Append(old, u)
    BY ONLY <1>8, <1>9, <2>2, u = e.update, old = [j \in 1..k |-> us[j].update]
  <2>4. FlattenSeq(Append(old, u)) = FlattenSeq(old) \o u
    BY ONLY <2>1, u \in Seq(X), FlattenAppend
  <2> QED BY <2>3, <2>4 DEF Made
<1>13. e.state = Made(vs, k + 1)
  BY <1>12
<1>14. StatesAreMade(vs)
  BY <1>8, <1>9, <1>11, <1>13 DEF StatesAreMade
<1> QED BY <1>2, <1>6, <1>8, <1>10, <1>13, <1>14

LEMMA StatesOverMore ==
  ASSUME NEW X, NEW Y, X \subseteq Y, NEW f, NEW t, NEW us
  PROVE  /\ StatesOver(f, t, X) => StatesOver(f, t, Y)
         /\ UpdatesOver(us, X) => UpdatesOver(us, Y)
<1>1. \A q \in Seq(X) : q \in Seq(Y)
  OBVIOUS
<1> QED BY ONLY <1>1 DEF StatesOver, UpdatesOver

\* A node starts or its model speaks.
LEMMA UpdatesAtOther ==
  ASSUME NEW f, NEW t, NEW s, NEW s1, NEW t1, Updated(s, f, t), t1.state = t.state,
         NEW e, e.is # "NodeEnd", s1 \in {s, Append(s, e)}
  PROVE  Updated(s1, f, t1)
<1> PICK E : s \in Seq(E)
  BY DEF Updated
<1>1. UpdatesIn(s1) = UpdatesIn(s) /\ \E D : s1 \in Seq(D)
  <2>1. UpdatesIn(Append(s, e)) = UpdatesIn(s) /\ \E D : Append(s, e) \in Seq(D)
    BY ONLY s \in Seq(E), e.is # "NodeEnd", NoUpdate
  <2>2. s1 = s \/ s1 = Append(s, e)
    OBVIOUS
  <2> QED BY ONLY s \in Seq(E), <2>1, <2>2
<1>2. Outermost(f, t1) = Outermost(f, t) /\ \A X : StatesOver(f, t, X) => StatesOver(f, t1, X)
  BY DEF Outermost, StatesOver
<1> QED BY <1>1, <1>2 DEF Updated

\* A node ends with the update u, behind the pollers f.
LEMMA UpdatesAtUpdate ==
  ASSUME NEW S, NEW f \in Seq(S), NEW s, NEW s1, NEW t1, NEW E, s \in Seq(E), NEW X, NEW base,
         UpdatesOver(UpdatesIn(s), X), StatesAreMade(UpdatesIn(s)),
         base \in Seq(X), NEW u \in Seq(X), t1.state = base \o u,
         \A i \in 1..Len(f) : f[i].state \in Seq(X),
         Made(UpdatesIn(s), Len(UpdatesIn(s))) = IF f = <<>> THEN base ELSE f[1].state,
         NEW node, s1 = Yielded(s, f, FALSE, Event("NodeEnd", f, node, t1.state, u))
  PROVE  Updated(s1, f, t1)
<1> PICK e : e = Event("NodeEnd", f, node, t1.state, u)
  OBVIOUS
<1>1. e.is = "NodeEnd" /\ e.state = t1.state /\ e.update = u
  <2> PICK state : state = t1.state
    OBVIOUS
  <2>1. e = Event("NodeEnd", f, node, state, u)
    OBVIOUS
  <2> QED BY ONLY <2>1, state = t1.state, EventIs
<1>2. StatesOver(f, t1, X)
  BY DEF StatesOver
<1>3. CASE f = <<>>
  <2>1. s1 = Append(s, e)
    BY <1>3 DEF Yielded, IsHeard
  <2>2. e.state = Made(UpdatesIn(s), Len(UpdatesIn(s))) \o e.update
    BY <1>1, <1>3
  <2>3. /\ \E D : s1 \in Seq(D)
        /\ UpdatesOver(UpdatesIn(s1), X) /\ StatesAreMade(UpdatesIn(s1))
        /\ e.state = Made(UpdatesIn(s1), Len(UpdatesIn(s1)))
    <3>1. /\ e.is = "NodeEnd" /\ e.update \in Seq(X)
          /\ UpdatesOver(UpdatesIn(s), X) /\ StatesAreMade(UpdatesIn(s))
      BY <1>1
    <3> QED BY ONLY s \in Seq(E), <2>1, <2>2, <3>1, OneMoreUpdate
  <2> QED BY <1>1, <1>2, <1>3, <2>3 DEF Updated, Outermost
<1>4. CASE f # <<>>
  <2>1. s1 = s
    BY <1>4 DEF Yielded, IsHeard
  <2> QED BY <1>2, <1>4, <2>1 DEF Updated, Outermost
<1> QED BY <1>3, <1>4

LEMMA UpdatesAtEnd ==
  ASSUME NEW S, NEW f \in Seq(S), NEW t, NEW s, NEW s1, NEW t1, NEW u,
         Updated(s, f, t), Answered(s, f, t, FALSE, s1, t1, u)
  PROVE  Updated(s1, f, t1)
<1> PICK E : s \in Seq(E)
  BY DEF Updated
<1> PICK X : UpdatesOver(UpdatesIn(s), X) /\ StatesOver(f, t, X)
  BY DEF Updated
<1> PICK v : v = <<t.node, t.said>>
  OBVIOUS
<1> DEFINE Y == X \cup {v}
<1>1. X \subseteq Y /\ <<v>> \in Seq(Y)
  OBVIOUS
<1> HIDE DEF Y
<1>2. UpdatesOver(UpdatesIn(s), Y) /\ StatesOver(f, t, Y)
  BY ONLY <1>1, UpdatesOver(UpdatesIn(s), X), StatesOver(f, t, X), StatesOverMore
<1>3. u = <<v>> /\ t1.state = t.state \o u
      /\ s1 = Yielded(s, f, FALSE, Event("NodeEnd", f, t.node, t1.state, u))
  BY DEF Answered
<1> PICK base : base = t.state
  OBVIOUS
<1>4. base \in Seq(Y) /\ u \in Seq(Y) /\ t1.state = base \o u
      /\ \A i \in 1..Len(f) : f[i].state \in Seq(Y)
  BY <1>1, <1>2, <1>3 DEF StatesOver
<1>5. /\ StatesAreMade(UpdatesIn(s))
      /\ Made(UpdatesIn(s), Len(UpdatesIn(s))) = IF f = <<>> THEN base ELSE f[1].state
  BY DEF Updated, Outermost
<1> QED BY ONLY f \in Seq(S), s \in Seq(E), <1>2, <1>3, <1>4, <1>5, UpdatesAtUpdate

LEMMA UpdatesAtEntry ==
  ASSUME NEW S, NEW f \in Seq(S), NEW t \in S, NEW s, NEW t1, Updated(s, f, t), Enters(t, t1)
  PROVE  Updated(s, Append(f, t), t1)
<1> PICK X : UpdatesOver(UpdatesIn(s), X) /\ StatesOver(f, t, X)
  BY DEF Updated
<1>1. t1.state = t.state
  BY DEF Enters
<1> PICK k \in Nat : k = Len(f)
  OBVIOUS
<1> PICK g : g = Append(f, t)
  OBVIOUS
<1>2. Len(g) = k + 1 /\ g[k + 1] = t /\ g # <<>> /\ \A i \in 1..k : g[i] = f[i]
  BY ONLY g = Append(f, t), f \in Seq(S), t \in S, k = Len(f)
<1>3. \A i \in 1..(k + 1) : i = k + 1 \/ i \in 1..k
  OBVIOUS
<1>4. StatesOver(g, t1, X)
  BY <1>1, <1>2, <1>3 DEF StatesOver
<1>5. Outermost(g, t1) = Outermost(f, t)
  <2>1. CASE f = <<>>
    <3>1. k = 0
      BY <2>1
    <3> QED BY <1>2, <2>1, <3>1 DEF Outermost
  <2>2. CASE f # <<>>
    <3>1. 1 \in 1..k
      BY <2>2
    <3> QED BY <1>2, <2>2, <3>1 DEF Outermost
  <2> QED BY <2>1, <2>2
<1> QED BY <1>4, <1>5 DEF Updated

LEMMA UpdatesAtReturn ==
  ASSUME NEW S, NEW g \in Seq(S), NEW p \in S, NEW t, NEW s, NEW s1, NEW t1,
         Updated(s, Append(g, p), t), ComesBack(s, g, p, t, FALSE, s1, t1)
  PROVE  Updated(s1, g, t1)
<1> PICK E : s \in Seq(E)
  BY DEF Updated
<1> PICK f : f = Append(g, p)
  OBVIOUS
<1> PICK X : UpdatesOver(UpdatesIn(s), X) /\ StatesOver(f, t, X)
  BY DEF Updated
<1> PICK k \in Nat : k = Len(g)
  OBVIOUS
<1>1. Len(f) = k + 1 /\ f[k + 1] = p /\ f # <<>> /\ \A i \in 1..k : f[i] = g[i]
  BY ONLY f = Append(g, p), g \in Seq(S), p \in S, k = Len(g)
<1> PICK base, u : base = p.state /\ u = t.state
  OBVIOUS
<1>2. base \in Seq(X) /\ u \in Seq(X) /\ \A i \in 1..Len(g) : g[i].state \in Seq(X)
  <2>1. k + 1 \in 1..(k + 1) /\ \A i \in 1..k : i \in 1..(k + 1)
    OBVIOUS
  <2> QED BY <1>1, <2>1 DEF StatesOver
<1>3. t1.state = base \o u
      /\ s1 = Yielded(s, g, FALSE, Event("NodeEnd", g, p.node, t1.state, u))
  BY DEF ComesBack
<1>4. Outermost(f, t) = IF g = <<>> THEN base ELSE g[1].state
  <2>1. CASE g = <<>>
    <3>1. k = 0
      BY <2>1
    <3> QED BY <1>1, <2>1, <3>1 DEF Outermost
  <2>2. CASE g # <<>>
    <3>1. 1 \in 1..k
      BY <2>2
    <3> QED BY <1>1, <2>2, <3>1 DEF Outermost
  <2> QED BY <2>1, <2>2
<1>5. /\ StatesAreMade(UpdatesIn(s))
      /\ Made(UpdatesIn(s), Len(UpdatesIn(s))) = IF g = <<>> THEN base ELSE g[1].state
  BY <1>4 DEF Updated
<1>6. UpdatesOver(UpdatesIn(s), X)
  OBVIOUS
<1> QED BY ONLY g \in Seq(S), s \in Seq(E), <1>2, <1>3, <1>5, <1>6, UpdatesAtUpdate

-------------------------------------------------------------------------------
(* What the events tell while the stream runs, and when it is over.        *)

Tells(s, f, t, b, m) ==
  Bracketed(s, f, t, b) /\ Chunked(s, f, t, b, m) /\ (~b => Updated(s, f, t))

\* The states vs that are shown and the updates us, when the outcome is o.
UpdatesTell(vs, us, o) ==
  /\ \A i \in 1..Len(us) : vs[i].state = Made(us, i)
  /\ o.is = "returned" =>
       /\ Len(vs) = Len(us) + 1
       /\ vs[Len(us) + 1].state = Made(us, Len(us)) /\ o.state = Made(us, Len(us))

EndsLast(s, live) == \A i \in 1..Len(s) : s[i].is \in {"GraphEnd", "Error"} => i = Len(s) /\ ~live

EndsAs(s, o) ==
  /\ o.is = "returned" => Len(s) > 0 /\ s[Len(s)].is = "GraphEnd" /\ Unclosed(s) = <<>>
  /\ o.is = "failed" => Len(s) > 0 /\ s[Len(s)].is = "Error"

Told(s, b, m, live, o) ==
  /\ \E E : s \in Seq(E)
  /\ EndsMatch(s) /\ EndsLast(s, live) /\ EndsAs(s, o)
  /\ MessagesTell(s, m)
  /\ ~b => UpdatesTell(ValuesIn(s), UpdatesIn(s), o)

LEMMA TellsAtStart ==
  ASSUME NEW S, NEW f \in Seq(S), NEW t, NEW b \in BOOLEAN, NEW m, NEW s, NEW s1, NEW t1,
         Tells(s, f, t, b, m), Starts(s, f, t, b, s1, t1)
  PROVE  Tells(s1, f, t1, b, m)
<1>1. Bracketed(s1, f, t1, b) /\ Chunked(s1, f, t1, b, m)
  BY BracketsAtStart, ChunksAtStart DEF Tells
<1>2. ASSUME ~b
      PROVE  Updated(s1, f, t1)
  <2> PICK e : e = Event("NodeStart", f, t.node, t.state, <<>>)
    OBVIOUS
  <2>1. e.is = "NodeStart"
    BY EventIs
  <2>2. t1.state = t.state /\ s1 \in {s, Append(s, e)} /\ Updated(s, f, t) /\ e.is # "NodeEnd"
    BY <1>2, <2>1 DEF Starts, Yielded, Tells
  <2> QED BY ONLY <2>2, UpdatesAtOther
<1> QED BY <1>1, <1>2 DEF Tells

LEMMA TellsAtChunk ==
  ASSUME NEW S, NEW f \in Seq(S), NEW t, NEW b \in BOOLEAN, NEW m, NEW s, NEW s1, NEW t1, NEW c,
         Tells(s, f, t, b, m), Speaks(s, f, t, b, s1, t1, c)
  PROVE  Tells(s1, f, t1, b, m)
<1>1. Bracketed(s1, f, t1, b) /\ Chunked(s1, f, t1, b, m)
  BY BracketsAtChunk, ChunksAtChunk DEF Tells
<1>2. ASSUME ~b
      PROVE  Updated(s1, f, t1)
  <2> PICK e : e = Event("MessageChunk", f, t.node, <<>>, <<c>>)
    OBVIOUS
  <2>1. e.is = "MessageChunk"
    BY EventIs
  <2>2. t1.state = t.state /\ s1 \in {s, Append(s, e)} /\ Updated(s, f, t) /\ e.is # "NodeEnd"
    BY <1>2, <2>1 DEF Speaks, Tells
  <2> QED BY ONLY <2>2, UpdatesAtOther
<1> QED BY <1>1, <1>2 DEF Tells

LEMMA TellsAtEnd ==
  ASSUME NEW S, NEW f \in Seq(S), NEW t, NEW b \in BOOLEAN, NEW m, NEW s, NEW s1, NEW t1, NEW u,
         Tells(s, f, t, b, m), Answered(s, f, t, b, s1, t1, u)
  PROVE  Tells(s1, f, t1, b, m)
<1>1. Bracketed(s1, f, t1, b) /\ Chunked(s1, f, t1, b, m)
  BY BracketsAtEnd, ChunksAtEnd DEF Tells
<1>2. ASSUME ~b
      PROVE  Updated(s1, f, t1)
  <2>1. Updated(s, f, t) /\ Answered(s, f, t, FALSE, s1, t1, u)
    BY <1>2 DEF Tells
  <2> QED BY ONLY f \in Seq(S), <2>1, UpdatesAtEnd
<1> QED BY <1>1, <1>2 DEF Tells

LEMMA TellsAtMove ==
  ASSUME NEW f, NEW t, NEW b, NEW m, NEW s, NEW t1, Tells(s, f, t, b, m), Moves(t, t1)
  PROVE  Tells(s, f, t1, b, m)
<1>1. Bracketed(s, f, t1, b) /\ Chunked(s, f, t1, b, m)
  BY BracketsAtMove, ChunksAtMove DEF Tells
<1>2. ASSUME ~b
      PROVE  Updated(s, f, t1)
  BY <1>2 DEF Tells, Moves, Updated, Outermost, StatesOver
<1> QED BY <1>1, <1>2 DEF Tells

LEMMA TellsAtEntry ==
  ASSUME NEW S, NEW f \in Seq(S), NEW t \in S, NEW b \in BOOLEAN, NEW m, NEW s, NEW t1,
         Tells(s, f, t, b, m), Enters(t, t1)
  PROVE  Tells(s, Append(f, t), t1, b, m)
BY BracketsAtEntry, ChunksAtEntry, UpdatesAtEntry DEF Tells

LEMMA TellsAtReturn ==
  ASSUME NEW S, NEW g \in Seq(S), NEW p \in S, NEW b \in BOOLEAN, NEW m, NEW t, NEW s, NEW s1,
         NEW t1, Tells(s, Append(g, p), t, b, m), ComesBack(s, g, p, t, b, s1, t1)
  PROVE  Tells(s1, g, t1, b, m)
<1>1. Bracketed(s1, g, t1, b) /\ Chunked(s1, g, t1, b, m)
  BY BracketsAtReturn, ChunksAtReturn DEF Tells
<1>2. ASSUME ~b
      PROVE  Updated(s1, g, t1)
  <2>1. Updated(s, Append(g, p), t) /\ ComesBack(s, g, p, t, FALSE, s1, t1)
    BY <1>2 DEF Tells
  <2> QED BY ONLY g \in Seq(S), p \in S, <2>1, UpdatesAtReturn
<1> QED BY <1>1, <1>2 DEF Tells

\* Before the last event, the states are those after the nodes.
LEMMA OnlyNodesEnd ==
  ASSUME NEW s, NoneIsLast(s)
  PROVE  OfKinds(s, {"NodeEnd", "GraphEnd"}) = OfKinds(s, {"NodeEnd"})
BY DEF OfKinds, NoneIsLast

\* The updates of a run so far tell its states.
LEMMA UpdatesTellSoFar ==
  ASSUME NEW s, NEW f, NEW t, NoneIsLast(s), Updated(s, f, t), NEW o, o.is # "returned"
  PROVE  UpdatesTell(ValuesIn(s), UpdatesIn(s), o)
<1>1. ValuesIn(s) = UpdatesIn(s)
  BY OnlyNodesEnd DEF ValuesIn, UpdatesIn
<1>2. StatesAreMade(UpdatesIn(s))
  BY DEF Updated
<1> QED BY <1>1, <1>2 DEF UpdatesTell, StatesAreMade

\* While it runs, and when it is dropped.
LEMMA TellsSoFar ==
  ASSUME NEW f, NEW t, NEW b, NEW m, NEW s, Tells(s, f, t, b, m), NEW o, NEW live,
         o.is \notin {"returned", "failed"}
  PROVE  Told(s, b, m, live, o)
<1>1. /\ \E E : s \in Seq(E)
      /\ EndsMatch(s) /\ NoneIsLast(s) /\ MessagesTell(s, m)
  BY DEF Tells, Bracketed, Chunked
<1>2. EndsLast(s, live)
  BY <1>1 DEF EndsLast, NoneIsLast
<1>3. EndsAs(s, o)
  BY DEF EndsAs
<1>4. ~b => UpdatesTell(ValuesIn(s), UpdatesIn(s), o)
  BY <1>1, UpdatesTellSoFar DEF Tells
<1> QED BY <1>1, <1>2, <1>3, <1>4 DEF Told

\* The last event.
IsLast(e) == e.is \in {"GraphEnd", "Error"}

LEMMA LastEvent ==
  ASSUME NEW E, NEW s \in Seq(E), NEW e, IsLast(e), NEW m,
         EndsMatch(s), NoneIsLast(s), MessagesTell(s, m)
  PROVE  /\ \E D : Append(s, e) \in Seq(D)
         /\ EndsMatch(Append(s, e)) /\ EndsLast(Append(s, e), FALSE)
         /\ Unclosed(Append(s, e)) = Unclosed(s) /\ MessagesTell(Append(s, e), m)
         /\ Len(Append(s, e)) > 0 /\ Append(s, e)[Len(Append(s, e))] = e
<1> DEFINE D == E \cup {e}
<1>1. s \in Seq(D) /\ e \in D
  OBVIOUS
<1> HIDE DEF D
<1>2. Append(s, e) \in Seq(D)
  BY ONLY <1>1
<1> PICK s1 \in Seq(D) : s1 = Append(s, e)
  BY <1>2
<1> PICK n \in Nat : n = Len(s)
  OBVIOUS
<1>3. Len(s1) = n + 1 /\ s1[n + 1] = e /\ \A i \in 1..n : s1[i] = s[i]
  BY ONLY <1>1, s1 = Append(s, e), n = Len(s)
<1>4. \A i \in 1..(n + 1) : i = n + 1 \/ i \in 1..n
  OBVIOUS
<1>5. EndsLast(s1, FALSE)
  BY <1>3, <1>4 DEF EndsLast, NoneIsLast
<1>6. e.is # "NodeEnd" /\ Streams!AfterEvent(Unclosed(s), e) = Unclosed(s)
  BY DEF Streams!AfterEvent, IsLast
<1>7. EndsMatch(s1) /\ Unclosed(s1) = Unclosed(s)
  BY <1>1, <1>6, OneMoreEvent
<1>8. MessagesTell(s1, m)
  <2>1. e.is = "NodeEnd" /\ m /\ e.node \in Speaker => MadeOfChunks(Append(s, e), n + 1)
    BY <1>6
  <2> QED BY ONLY s \in Seq(E), n \in Nat, n = Len(s), s1 = Append(s, e), MessagesTell(s, m),
                  <2>1, MessagesTellMore
<1>9. Len(s1) > 0 /\ s1[Len(s1)] = e
  BY <1>3
<1>10. \E T : s1 \in Seq(T)
  OBVIOUS
<1> QED BY ONLY s1 = Append(s, e), <1>5, <1>7, <1>8, <1>9, <1>10

\* The stream fails.
LEMMA TellsAtFailure ==
  ASSUME NEW f, NEW t, NEW b, NEW m, NEW s, Tells(s, f, t, b, m), NEW o, o.is = "failed",
         NEW e, e.is = "Error"
  PROVE  Told(Append(s, e), b, m, FALSE, o)
<1> PICK E : s \in Seq(E)
  BY DEF Tells, Bracketed
<1> PICK s1 : s1 = Append(s, e)
  OBVIOUS
<1>1. EndsMatch(s) /\ NoneIsLast(s) /\ MessagesTell(s, m)
  BY DEF Tells, Bracketed, Chunked
<1>2. /\ \E D : s1 \in Seq(D)
      /\ EndsMatch(s1) /\ EndsLast(s1, FALSE) /\ MessagesTell(s1, m)
      /\ Len(s1) > 0 /\ s1[Len(s1)] = e
  <2>1. IsLast(e)
    BY DEF IsLast
  <2>2. /\ \E D : Append(s, e) \in Seq(D)
        /\ EndsMatch(Append(s, e)) /\ EndsLast(Append(s, e), FALSE)
        /\ Unclosed(Append(s, e)) = Unclosed(s) /\ MessagesTell(Append(s, e), m)
        /\ Len(Append(s, e)) > 0 /\ Append(s, e)[Len(Append(s, e))] = e
    BY ONLY s \in Seq(E), <1>1, <2>1, LastEvent
  <2> QED BY ONLY s1 = Append(s, e), <2>2
<1>3. EndsAs(s1, o)
  BY <1>2 DEF EndsAs
<1>4. ASSUME ~b
      PROVE  UpdatesTell(ValuesIn(s1), UpdatesIn(s1), o)
  <2>1. Updated(s, f, t) /\ o.is # "returned" /\ e.is # "NodeEnd" /\ e.is # "GraphEnd"
    BY <1>4 DEF Tells
  <2>2. UpdatesTell(ValuesIn(s), UpdatesIn(s), o)
    BY <1>1, <2>1, UpdatesTellSoFar
  <2>3. UpdatesIn(s1) = UpdatesIn(s)
    BY <2>1, NoUpdate
  <2>4. ValuesIn(s1) = ValuesIn(s)
    BY <2>1, ValuesMore
  <2> QED BY <2>2, <2>3, <2>4
<1> QED BY <1>2, <1>3, <1>4 DEF Told

\* It returns the state of its graph.
LEMMA TellsAtReturned ==
  ASSUME NEW t, NEW b, NEW m, NEW s, Tells(s, <<>>, t, b, m), t.at # "body",
         NEW o, o.is = "returned", o.state = t.state,
         NEW e, e.is = "GraphEnd", e.state = t.state
  PROVE  Told(Append(s, e), b, m, FALSE, o)
<1> PICK E : s \in Seq(E)
  BY DEF Tells, Bracketed
<1> PICK s1 : s1 = Append(s, e)
  OBVIOUS
<1>1. EndsMatch(s) /\ NoneIsLast(s) /\ MessagesTell(s, m)
  BY DEF Tells, Bracketed, Chunked
<1>2. /\ \E D : s1 \in Seq(D)
      /\ EndsMatch(s1) /\ EndsLast(s1, FALSE) /\ MessagesTell(s1, m)
      /\ Unclosed(s1) = Unclosed(s)
      /\ Len(s1) > 0 /\ s1[Len(s1)] = e
  <2>1. IsLast(e)
    BY DEF IsLast
  <2>2. /\ \E D : Append(s, e) \in Seq(D)
        /\ EndsMatch(Append(s, e)) /\ EndsLast(Append(s, e), FALSE)
        /\ Unclosed(Append(s, e)) = Unclosed(s) /\ MessagesTell(Append(s, e), m)
        /\ Len(Append(s, e)) > 0 /\ Append(s, e)[Len(Append(s, e))] = e
    BY ONLY s \in Seq(E), <1>1, <2>1, LastEvent
  <2> QED BY ONLY s1 = Append(s, e), <2>2
<1>3. Unclosed(s) = <<>>
  <2>1. Unclosed(s) = Beneath(<<>>, b)
    BY DEF Tells, Bracketed, OpenNow
  <2>2. Beneath(<<>>, b) = [i \in 1..0 |-> BracketAt(<<>>, i)]
    BY DEF Beneath
  <2> QED BY <2>1, <2>2
<1>4. EndsAs(s1, o)
  BY <1>2, <1>3 DEF EndsAs
<1>5. ASSUME ~b
      PROVE  UpdatesTell(ValuesIn(s1), UpdatesIn(s1), o)
  <2>1. Updated(s, <<>>, t) /\ e.is # "NodeEnd"
    BY <1>5 DEF Tells
  <2>2. UpdatesIn(s1) = UpdatesIn(s)
    BY <2>1, NoUpdate
  <2>3. ValuesIn(s1) = Append(ValuesIn(s), e)
    BY ValuesMore
  <2>4. ValuesIn(s) = UpdatesIn(s)
    BY <1>1, OnlyNodesEnd DEF ValuesIn, UpdatesIn
  <2> PICK us \in Seq(E) : us = UpdatesIn(s)
    BY SelectedElements DEF UpdatesIn
  <2> PICK k \in Nat : k = Len(us)
    OBVIOUS
  <2> DEFINE D == E \cup {e}
  <2>5. us \in Seq(D) /\ e \in D
    OBVIOUS
  <2> HIDE DEF D
  <2>0. Append(us, e) \in Seq(D)
    BY ONLY <2>5
  <2> PICK vs \in Seq(D) : vs = Append(us, e)
    BY <2>0
  <2>6. Len(vs) = k + 1 /\ vs[k + 1] = e /\ \A i \in 1..k : vs[i] = us[i]
    BY ONLY <2>5, vs = Append(us, e), k = Len(us)
  <2>7. \A i \in 1..k : us[i].state = Made(us, i)
    BY <2>1 DEF Updated, StatesAreMade
  <2>8. t.state = Made(us, k)
    BY <2>1 DEF Updated, Outermost
  <2>9. UpdatesTell(vs, us, o)
    BY <2>6, <2>7, <2>8 DEF UpdatesTell
  <2> QED BY <2>2, <2>3, <2>4, <2>9
<1> QED BY <1>2, <1>4, <1>5 DEF Told

-------------------------------------------------------------------------------
(* The invariant, and each step.                                           *)

\* The generators are the pollers f, and t which runs.
Running(S, f, t) ==
  /\ f \in Seq(S) /\ t \in S /\ \A g \in S : IsGenerator(g)
  /\ gens = Append(f, t) /\ outcome.is = "running"

TellInv ==
  /\ net \in Networks /\ subgraphs \in BOOLEAN
  /\ \E s, b, m, o :
       /\ s = seen /\ b = subgraphs /\ m = messages /\ o = outcome
       /\ \/ \E S, f, t : Running(S, f, t) /\ Tells(s, f, t, b, m)
          \/ gens = <<>> /\ o.is # "running" /\ Told(s, b, m, FALSE, o)

\* What is known before a step, of constants.
Before(s, b, m, S, f, t) ==
  /\ net \in Networks /\ b \in BOOLEAN
  /\ s = seen /\ b = subgraphs /\ m = messages
  /\ f \in Seq(S) /\ t \in S /\ (\A g \in S : IsGenerator(g))
  /\ gens = Append(f, t) /\ f = Streams!Pollers /\ t = Streams!Top
  /\ outcome.is = "running"

LEMMA StepsFrom ==
  ASSUME TellInv, Streams!Live
  PROVE  \E s, b, m, S, f, t : Before(s, b, m, S, f, t) /\ Tells(s, f, t, b, m)
<1>1. gens # <<>>
  BY DEF Streams!Live
<1> PICK s, b, m : /\ s = seen /\ b = subgraphs /\ m = messages
                   /\ \E S, f, t : Running(S, f, t) /\ Tells(s, f, t, b, m)
  BY <1>1 DEF TellInv
<1> PICK S, f, t : Running(S, f, t) /\ Tells(s, f, t, b, m)
  OBVIOUS
<1>2. f \in Seq(S) /\ t \in S /\ gens = Append(f, t)
  BY DEF Running
<1>3. f = Streams!Front(gens) /\ t = Streams!Last(gens)
  <2>1. Streams!Last(Append(f, t)) = t /\ Streams!Front(Append(f, t)) = f
    BY <1>2, LastComesOff
  <2> QED BY <1>2, <2>1
<1>4. f = Streams!Pollers /\ t = Streams!Top
  BY <1>3 DEF Streams!Pollers, Streams!Top
<1>5. Before(s, b, m, S, f, t)
  BY <1>2, <1>4 DEF Before, Running, TellInv
<1> QED BY <1>5

\* A step to the generators f and t.
LEMMA StepsTo ==
  ASSUME NEW s, NEW b, NEW m, NEW S, NEW f \in Seq(S), NEW t, IsGenerator(t),
         \A g \in S : IsGenerator(g), Tells(s, f, t, b, m),
         s = seen', b = subgraphs, m = messages, b \in BOOLEAN, net \in Networks,
         gens' = Append(f, t), outcome.is = "running", UNCHANGED <<Streams!Options, outcome>>
  PROVE  TellInv'
<1> DEFINE T == S \cup {t}
<1>1. f \in Seq(T) /\ t \in T /\ \A g \in T : IsGenerator(g)
  OBVIOUS
<1> HIDE DEF T
<1>2. net' = net /\ subgraphs' = subgraphs /\ messages' = messages /\ outcome' = outcome
  BY DEF Streams!Options
<1>3. Running(T, f, t)'
  BY <1>1, <1>2 DEF Running
<1> PICK o : o = outcome
  OBVIOUS
<1>4. \E U, h, u : Running(U, h, u)' /\ Tells(s, h, u, b, m)
  BY <1>3
<1>5. s = seen' /\ b = subgraphs' /\ m = messages' /\ o = outcome'
  BY <1>2
<1> QED BY <1>2, <1>4, <1>5 DEF TellInv

\* A step that ends the stream.
LEMMA StepsOut ==
  ASSUME NEW s, NEW b, NEW m, NEW o, Told(s, b, m, FALSE, o), o.is # "running",
         s = seen', b = subgraphs, m = messages, o = outcome', b \in BOOLEAN, net \in Networks,
         gens' = <<>>, UNCHANGED Streams!Options
  PROVE  TellInv'
<1>1. net' = net /\ subgraphs' = subgraphs /\ messages' = messages
  BY DEF Streams!Options
<1>2. b = subgraphs' /\ m = messages'
  BY <1>1
<1> QED BY <1>1, <1>2 DEF TellInv

LEMMA TellsLeaveStart ==
  ASSUME TellInv, Streams!LeaveStart
  PROVE  TellInv'
<1>1. Streams!Live /\ Streams!Top.at = "head"
  BY DEF Streams!LeaveStart, Streams!AtHead
<1> PICK s, b, m, S, f, t : Before(s, b, m, S, f, t) /\ Tells(s, f, t, b, m)
  BY <1>1, StepsFrom
<1> PICK i : i = t.iterations + 1
  OBVIOUS
<1> PICK to : Streams!Becomes([t EXCEPT !.node = to, !.iterations = i])
  BY DEF Streams!LeaveStart, Before
<1> PICK t1 : t1 = Left(t, to, i)
  OBVIOUS
<1>2. IsGenerator(t) /\ t.at = "head"
  BY <1>1 DEF Before
<1>3. IsGenerator(t1)
  BY <1>2, LeftFrame
<1>4. Moves(t, t1)
  BY <1>2 DEF IsGenerator, GeneratorsOf, Left, Moves
<1>5. Tells(s, f, t1, b, m)
  BY <1>4, TellsAtMove
<1>6. /\ f \in Seq(S) /\ (\A g \in S : IsGenerator(g)) /\ s = seen' /\ b = subgraphs /\ m = messages
      /\ b \in BOOLEAN /\ net \in Networks /\ outcome.is = "running"
  BY DEF Before, Streams!LeaveStart
<1>7. gens' = Append(f, t1) /\ UNCHANGED <<Streams!Options, outcome>>
  BY DEF Before, Streams!Becomes, Left
<1> QED BY ONLY <1>3, <1>5, <1>6, <1>7, StepsTo

LEMMA TellsNodeStart ==
  ASSUME TellInv, Streams!NodeStart
  PROVE  TellInv'
<1>1. Streams!Live /\ Streams!Top.at = "head"
  BY DEF Streams!NodeStart, Streams!AtHead
<1> PICK s, b, m, S, f, t : Before(s, b, m, S, f, t) /\ Tells(s, f, t, b, m)
  BY <1>1, StepsFrom
<1> PICK i : i = t.iterations + 1
  OBVIOUS
<1> PICK t1 : t1 = [t EXCEPT !.at = "body", !.iterations = i, !.said = <<>>]
  OBVIOUS
<1>2. IsGenerator(t) /\ t.at = "head"
  BY <1>1 DEF Before
<1>3. IsGenerator(t1)
  BY <1>2, ServicesAssumption, StartedFrame
<1>4. t1.at = "body" /\ t1.node = t.node /\ t1.state = t.state /\ t1.said = <<>>
  BY <1>2 DEF IsGenerator, GeneratorsOf
<1> PICK s1 : s1 = Yielded(s, f, b, Event("NodeStart", f, t.node, t.state, <<>>))
  OBVIOUS
<1>5. s1 = seen'
  BY DEF Streams!NodeStart, Streams!Yields, Streams!Heard, Before, Yielded, IsHeard, Event
<1>6. Starts(s, f, t, b, s1, t1)
  BY <1>2, <1>4 DEF Starts
<1>7. /\ f \in Seq(S) /\ (\A g \in S : IsGenerator(g)) /\ b = subgraphs /\ m = messages
      /\ b \in BOOLEAN /\ net \in Networks /\ outcome.is = "running"
  BY DEF Before
<1>8. gens' = Append(f, t1) /\ UNCHANGED <<Streams!Options, outcome>>
  BY DEF Before, Streams!NodeStart, Streams!Becomes
<1>9. Tells(s1, f, t1, b, m)
  BY ONLY Tells(s, f, t, b, m), <1>6, <1>7, TellsAtStart
<1> QED BY ONLY <1>3, <1>5, <1>7, <1>8, <1>9, StepsTo

LEMMA TellsMessageChunk ==
  ASSUME TellInv, Streams!MessageChunk
  PROVE  TellInv'
<1>1. Streams!Live /\ Streams!Top.at = "body" /\ Streams!Heard(Streams!Pollers) /\ Len(Streams!Top.said) < MaxChunks
  BY DEF Streams!MessageChunk, Streams!InBody, Streams!Streams
<1> PICK s, b, m, S, f, t : Before(s, b, m, S, f, t) /\ Tells(s, f, t, b, m)
  BY <1>1, StepsFrom
<1> PICK c \in Chunk : /\ Streams!Becomes([t EXCEPT !.said = Append(t.said, c)])
                       /\ Streams!Yields(Streams!Pollers, "MessageChunk", t.node, <<>>, <<c>>)
  BY DEF Streams!MessageChunk, Streams!Said, Before, Streams!Yields
<1>2. IsGenerator(t) /\ t.at = "body" /\ IsHeard(f, b) /\ Len(t.said) < MaxChunks
  BY <1>1 DEF Before, Streams!Heard, IsHeard
<1> PICK N, A, V, I : t \in GeneratorsOf(N, A, V, I)
  BY <1>2 DEF IsGenerator
<1>3. t.said \in Seq(Chunk)
  <2>1. t.said \in Answers
    BY DEF GeneratorsOf
  <2> QED BY <2>1, AnswersAre, ServicesAssumption
<1> PICK said \in Answers : said = Append(t.said, c)
  <2>1. Append(t.said, c) \in Seq(Chunk) /\ Len(Append(t.said, c)) <= MaxChunks
    BY <1>2, <1>3, ServicesAssumption
  <2> QED BY <2>1, AnswersAre, ServicesAssumption
<1> PICK t1 \in GeneratorsOf(N, A, V, I) : t1 = [t EXCEPT !.said = said]
  BY DEF GeneratorsOf
<1>4. IsGenerator(t1)
  BY DEF IsGenerator
<1>5. t1.at = "body" /\ t1.node = t.node /\ t1.state = t.state /\ t1.said = said
  BY <1>2 DEF GeneratorsOf
<1> PICK s1 : s1 = Append(s, Event("MessageChunk", f, t.node, <<>>, <<c>>))
  OBVIOUS
<1>6. s1 = seen'
  BY <1>2 DEF Streams!Yields, Streams!Heard, Before, IsHeard, Event
<1>7. Speaks(s, f, t, b, s1, t1, c)
  BY <1>2, <1>3, <1>5 DEF Speaks
<1>8. /\ f \in Seq(S) /\ (\A g \in S : IsGenerator(g)) /\ b = subgraphs /\ m = messages
      /\ b \in BOOLEAN /\ net \in Networks /\ outcome.is = "running"
  BY DEF Before
<1>9. gens' = Append(f, t1) /\ UNCHANGED <<Streams!Options, outcome>>
  BY DEF Before, Streams!Becomes
<1>10. Tells(s1, f, t1, b, m)
  BY ONLY Tells(s, f, t, b, m), <1>7, <1>8, TellsAtChunk
<1> QED BY ONLY <1>4, <1>6, <1>8, <1>9, <1>10, StepsTo

LEMMA TellsNodeEnd ==
  ASSUME TellInv, Streams!NodeEnd
  PROVE  TellInv'
<1>1. Streams!Live /\ Streams!Top.at = "body"
  BY DEF Streams!NodeEnd, Streams!InBody
<1> PICK s, b, m, S, f, t : Before(s, b, m, S, f, t) /\ Tells(s, f, t, b, m)
  BY <1>1, StepsFrom
<1> PICK u : u = <<<<t.node, t.said>>>>
  OBVIOUS
<1> PICK state : state = t.state \o u
  OBVIOUS
<1> PICK t1 : t1 = [t EXCEPT !.at = "route", !.state = state]
  OBVIOUS
<1>2. IsGenerator(t) /\ t.at = "body"
  BY <1>1 DEF Before
<1>3. IsGenerator(t1)
  BY <1>2, EndedFrame
<1>4. t1.at = "route" /\ t1.node = t.node /\ t1.state = state
  BY <1>2 DEF IsGenerator, GeneratorsOf
<1> PICK s1 : s1 = Yielded(s, f, b, Event("NodeEnd", f, t.node, state, u))
  OBVIOUS
<1>5. s1 = seen'
  BY DEF Streams!NodeEnd, Streams!MergeStateUpdate, Streams!Yields, Streams!Heard, Before, Yielded, IsHeard, Event
<1>6. Answered(s, f, t, b, s1, t1, u)
  BY <1>2, <1>4 DEF Answered
<1>7. /\ f \in Seq(S) /\ (\A g \in S : IsGenerator(g)) /\ b = subgraphs /\ m = messages
      /\ b \in BOOLEAN /\ net \in Networks /\ outcome.is = "running"
  BY DEF Before
<1>8. gens' = Append(f, t1) /\ UNCHANGED <<Streams!Options, outcome>>
  BY DEF Before, Streams!NodeEnd, Streams!MergeStateUpdate, Streams!Becomes
<1>9. Tells(s1, f, t1, b, m)
  BY ONLY Tells(s, f, t, b, m), <1>6, <1>7, TellsAtEnd
<1> QED BY ONLY <1>3, <1>5, <1>7, <1>8, <1>9, StepsTo

LEMMA TellsEnterGraph ==
  ASSUME TellInv, Streams!EnterGraph
  PROVE  TellInv'
<1>1. Streams!Live /\ Streams!Top.at = "body" /\ net.inner[Streams!Top.node] # NoGraph
  BY DEF Streams!EnterGraph, Streams!InBody
<1> PICK s, b, m, S, f, t : Before(s, b, m, S, f, t) /\ Tells(s, f, t, b, m)
  BY <1>1, StepsFrom
<1> PICK graph, state : graph = net.inner[t.node] /\ state = t.state
  OBVIOUS
<1> PICK t1 : t1 = Streams!Generator(graph, state)
  OBVIOUS
<1>2. t.at = "body" /\ t.node \notin Speaker
  BY <1>1, ServicesAssumption DEF Before
<1>3. IsGenerator(t1)
  <2>1. t1 \in GeneratorsOf({graph}, {"head"}, {state}, {0})
    BY NothingIsAnAnswer, ServicesAssumption DEF Streams!Generator, GeneratorsOf
  <2> QED BY <2>1 DEF IsGenerator
<1>4. Enters(t, t1)
  BY <1>2 DEF Enters, Streams!Generator
<1> PICK f1 \in Seq(S) : f1 = Append(f, t)
  BY DEF Before
<1>5. /\ f \in Seq(S) /\ t \in S /\ (\A g \in S : IsGenerator(g)) /\ b = subgraphs /\ m = messages
      /\ b \in BOOLEAN /\ net \in Networks /\ outcome.is = "running" /\ s = seen'
  BY DEF Before, Streams!EnterGraph
<1>6. gens' = Append(f1, t1) /\ UNCHANGED <<Streams!Options, outcome>>
  BY DEF Before, Streams!EnterGraph
<1>7. Tells(s, f1, t1, b, m)
  BY ONLY f1 = Append(f, t), Tells(s, f, t, b, m), <1>4, <1>5, TellsAtEntry
<1> QED BY ONLY f1 \in Seq(S), <1>3, <1>5, <1>6, <1>7, StepsTo

\* The graph whose stream is on top returns.
LEMMA TellsEnd ==
  ASSUME NEW s, NEW b, NEW m, NEW S, NEW f, NEW t, Before(s, b, m, S, f, t), Tells(s, f, t, b, m),
         t.at # "body", Streams!YieldsEnd(t.state)
  PROVE  TellInv'
<1>1. /\ f \in Seq(S) /\ t \in S /\ (\A g \in S : IsGenerator(g)) /\ b = subgraphs /\ m = messages
      /\ b \in BOOLEAN /\ net \in Networks /\ outcome.is = "running" /\ f = Streams!Pollers
      /\ s = seen
  BY DEF Before
<1> PICK u : u = t.state
  OBVIOUS
<1>2. UNCHANGED Streams!Options
  BY DEF Streams!YieldsEnd
<1>3. CASE f = <<>>
  <2>1. gens' = <<>> /\ outcome' = [is |-> "returned", state |-> u]
    BY <1>1, <1>3 DEF Streams!YieldsEnd, Streams!Outcome
  <2> PICK e : e = Event("GraphEnd", <<>>, EndNode, u, <<>>)
    OBVIOUS
  <2> PICK o : o = [is |-> "returned", state |-> u]
    OBVIOUS
  <2> PICK s1 : s1 = Append(s, e)
    OBVIOUS
  <2>2. s1 = seen'
    BY <1>1, <1>3 DEF Streams!YieldsEnd, Streams!Yields, Streams!Heard, Event
  <2>3. e.is = "GraphEnd" /\ e.state = u
    BY EventIs
  <2>4. Told(s1, b, m, FALSE, o)
    BY <1>3, <2>3, TellsAtReturned
  <2>5. o.is # "running" /\ o = outcome'
    BY <2>1
  <2> QED BY ONLY <1>1, <1>2, <2>1, <2>2, <2>4, <2>5, StepsOut
<1>4. CASE f # <<>>
  <2> PICK g \in Seq(S), p \in S : g = Streams!Front(f) /\ p = Streams!Last(f) /\ f = Append(g, p)
    BY <1>1, <1>4, FramesOfParts
  <2> PICK state : state = p.state \o u
    OBVIOUS
  <2> PICK t1 : t1 = [p EXCEPT !.at = "route", !.state = state]
    OBVIOUS
  <2>1. IsGenerator(p)
    BY <1>1
  <2>2. IsGenerator(t1)
    BY <2>1, EndedFrame
  <2>3. t1.at = "route" /\ t1.node = p.node /\ t1.state = state
    BY <2>1 DEF IsGenerator, GeneratorsOf
  <2> PICK s1 : s1 = Yielded(s, g, b, Event("NodeEnd", g, p.node, state, u))
    OBVIOUS
  <2>4. s1 = seen'
    BY <1>1, <1>4 DEF Streams!YieldsEnd, Streams!EndPolled, Streams!MergeStateUpdate,
      Streams!Yields, Streams!Heard, Yielded, IsHeard, Event
  <2>5. ComesBack(s, g, p, t, b, s1, t1)
    BY <2>3 DEF ComesBack
  <2>6. gens' = Append(g, t1) /\ UNCHANGED <<Streams!Options, outcome>>
    BY <1>1, <1>2, <1>4 DEF Streams!YieldsEnd, Streams!EndPolled, Streams!MergeStateUpdate
  <2>7. Tells(s1, g, t1, b, m)
    <3>1. Tells(s, Append(g, p), t, b, m)
      OBVIOUS
    <3> QED BY ONLY g \in Seq(S), p \in S, <1>1, <2>5, <3>1, TellsAtReturn
  <2> QED BY ONLY g \in Seq(S), <1>1, <2>2, <2>4, <2>6, <2>7, StepsTo
<1> QED BY <1>3, <1>4

LEMMA TellsReachEnd ==
  ASSUME TellInv, Streams!ReachEnd
  PROVE  TellInv'
<1>1. Streams!Live /\ Streams!Top.at = "head"
  BY DEF Streams!ReachEnd, Streams!AtHead
<1> PICK s, b, m, S, f, t : Before(s, b, m, S, f, t) /\ Tells(s, f, t, b, m)
  BY <1>1, StepsFrom
<1>2. t.at # "body" /\ Streams!YieldsEnd(t.state)
  BY <1>1 DEF Streams!ReachEnd, Before, Streams!YieldsEnd, Streams!EndPolled, Streams!Yields
<1> QED BY <1>2, TellsEnd

LEMMA TellsFollow ==
  ASSUME TellInv, Streams!Follow
  PROVE  TellInv'
<1>1. Streams!Live /\ Streams!Top.at = "route"
  BY DEF Streams!Follow
<1> PICK s, b, m, S, f, t : Before(s, b, m, S, f, t) /\ Tells(s, f, t, b, m)
  BY <1>1, StepsFrom
<1>2. t.at = "route" /\ IsGenerator(t)
  BY <1>1 DEF Before
<1>3. CASE Streams!YieldsEnd(t.state)
  BY <1>2, <1>3, TellsEnd
<1>4. ASSUME NEW to, Streams!Becomes([t EXCEPT !.at = "head", !.node = to]), seen' = seen
      PROVE  TellInv'
  <2> PICK t1 : t1 = [t EXCEPT !.at = "head", !.node = to]
    OBVIOUS
  <2>1. IsGenerator(t1)
    BY <1>2, FollowedFrame
  <2>2. Moves(t, t1)
    BY <1>2 DEF IsGenerator, GeneratorsOf, Moves
  <2>3. Tells(s, f, t1, b, m)
    BY <2>2, TellsAtMove
  <2>4. /\ f \in Seq(S) /\ (\A g \in S : IsGenerator(g)) /\ s = seen' /\ b = subgraphs /\ m = messages
        /\ b \in BOOLEAN /\ net \in Networks /\ outcome.is = "running"
    BY <1>4 DEF Before
  <2>5. gens' = Append(f, t1) /\ UNCHANGED <<Streams!Options, outcome>>
    BY <1>4 DEF Before, Streams!Becomes
  <2> QED BY ONLY <2>1, <2>3, <2>4, <2>5, StepsTo
<1>5. \/ Streams!YieldsEnd(t.state)
      \/ \E to : Streams!Becomes([t EXCEPT !.at = "head", !.node = to]) /\ seen' = seen
  BY DEF Streams!Follow, Before, Streams!YieldsEnd, Streams!EndPolled, Streams!Yields
<1> QED BY <1>3, <1>4, <1>5

LEMMA TellsFailure ==
  ASSUME TellInv, Streams!Live, Streams!Fails
  PROVE  TellInv'
<1> PICK s, b, m, S, f, t : Before(s, b, m, S, f, t) /\ Tells(s, f, t, b, m)
  BY StepsFrom
<1> PICK e : e = Event("Error", <<>>, EndNode, <<>>, <<>>)
  OBVIOUS
<1> PICK o : o = [is |-> "failed", state |-> <<>>]
  OBVIOUS
<1> PICK s1 : s1 = Append(s, e)
  OBVIOUS
<1>1. /\ b = subgraphs /\ m = messages /\ b \in BOOLEAN /\ net \in Networks /\ s = seen
  BY DEF Before
<1>2. s1 = seen'
  BY <1>1 DEF Streams!Fails, Streams!Yields, Streams!Heard, Event
<1>3. e.is = "Error" /\ o.is = "failed"
  BY EventIs
<1>4. Told(s1, b, m, FALSE, o)
  BY <1>3, TellsAtFailure
<1>5. gens' = <<>> /\ o = outcome' /\ o.is # "running" /\ UNCHANGED Streams!Options
  BY DEF Streams!Fails, Streams!Outcome
<1> QED BY ONLY <1>1, <1>2, <1>4, <1>5, StepsOut

LEMMA TellsDrop ==
  ASSUME TellInv, Streams!Drop
  PROVE  TellInv'
<1>0. Streams!Live
  BY DEF Streams!Drop
<1> PICK s, b, m, S, f, t : Before(s, b, m, S, f, t) /\ Tells(s, f, t, b, m)
  BY <1>0, StepsFrom
<1> PICK o : o = [is |-> "dropped", state |-> <<>>]
  OBVIOUS
<1>1. /\ b = subgraphs /\ m = messages /\ b \in BOOLEAN /\ net \in Networks /\ s = seen
  BY DEF Before
<1>2. s = seen'
  BY <1>1 DEF Streams!Drop
<1>3. Told(s, b, m, FALSE, o)
  <2>1. o.is \notin {"returned", "failed"}
    OBVIOUS
  <2> QED BY <2>1, TellsSoFar
<1>4. gens' = <<>> /\ o = outcome' /\ o.is # "running" /\ UNCHANGED Streams!Options
  BY DEF Streams!Drop, Streams!Outcome
<1> QED BY ONLY <1>1, <1>2, <1>3, <1>4, StepsOut

\* Every step tells what it does.
LEMMA StepsTell ==
  ASSUME TellInv, [Streams!Next]_(Streams!vars)
  PROVE  TellInv'
<1>1. CASE Streams!IterationLimit \/ Streams!NoEdges \/ Streams!NodeFails \/ Streams!RouteFails
  <2>1. Streams!Live /\ Streams!Fails
    BY <1>1 DEF Streams!IterationLimit, Streams!NoEdges, Streams!NodeFails, Streams!RouteFails,
      Streams!AtHead, Streams!InBody
  <2> QED BY <2>1, TellsFailure
<1>2. CASE Streams!ReachEnd
  BY <1>2, TellsReachEnd
<1>3. CASE Streams!LeaveStart
  BY <1>3, TellsLeaveStart
<1>4. CASE Streams!NodeStart
  BY <1>4, TellsNodeStart
<1>5. CASE Streams!EnterGraph
  BY <1>5, TellsEnterGraph
<1>6. CASE Streams!MessageChunk
  BY <1>6, TellsMessageChunk
<1>7. CASE Streams!NodeEnd
  BY <1>7, TellsNodeEnd
<1>8. CASE Streams!Follow
  BY <1>8, TellsFollow
<1>9. CASE Streams!Drop
  BY <1>9, TellsDrop
<1>10. CASE UNCHANGED Streams!vars
  BY <1>10 DEF Streams!vars, TellInv, Running
<1> QED BY <1>1, <1>2, <1>3, <1>4, <1>5, <1>6, <1>7, <1>8, <1>9, <1>10 DEF Streams!Next, Streams!Step

LEMMA StreamsStartTelling ==
  ASSUME Streams!Init
  PROVE  TellInv
<1> PICK g : g = Streams!Generator(net.root, <<>>)
  OBVIOUS
<1>1. /\ gens = <<g>> /\ net \in Networks /\ subgraphs \in BOOLEAN
      /\ outcome.is = "running" /\ seen = <<>>
  BY DEF Streams!Init, Streams!Outcome
<1>2. IsGenerator(g) /\ g.at = "head" /\ g.state = <<>>
  <2>1. g \in GeneratorsOf({net.root}, {"head"}, {<<>>}, {0})
    BY NothingIsAnAnswer, ServicesAssumption DEF Streams!Generator, GeneratorsOf
  <2> QED BY <2>1 DEF IsGenerator, GeneratorsOf
<1> PICK b, m, o : b = subgraphs /\ m = messages /\ o = outcome
  OBVIOUS
<1> DEFINE s == <<>>
<1>3. s \in Seq({}) /\ Len(s) = 0
  OBVIOUS
<1>4. Bracketed(s, <<>>, g, b)
  <2>1. Openings(Streams!Opened(s), s)
    BY <1>3, OpenedOpens
  <2>2. Unclosed(s) = <<>>
    BY <1>3, <2>1 DEF Openings, Unclosed
  <2>3. OpenNow(<<>>, g, b) = [i \in 1..0 |-> BracketAt(<<>>, i)]
    BY <1>2 DEF OpenNow, Beneath
  <2> QED BY <1>3, <2>2, <2>3 DEF Bracketed, EndsMatch, NoneIsLast
<1>5. Chunked(s, <<>>, g, b, m)
  BY <1>2, <1>3 DEF Chunked, MessagesTell
<1>6. Updated(s, <<>>, g)
  <2>1. [i \in DOMAIN s |-> IF i \in OfKinds(s, {"NodeEnd"}) THEN <<s[i]>> ELSE <<>>] = <<>>
    OBVIOUS
  <2>2. UpdatesIn(s) = <<>>
    BY <2>1, FlattenEmpty DEF UpdatesIn, Selected
  <2>3. [j \in 1..0 |-> s[j].update] = <<>>
    OBVIOUS
  <2>4. Made(s, 0) = <<>>
    BY <2>3, FlattenEmpty DEF Made
  <2>5. UpdatesOver(s, {}) /\ StatesOver(s, g, {})
    <3>0. g.state \in Seq({})
      BY <1>2, <1>3
    <3> HIDE DEF s
    <3>1. g.state \in Seq({}) /\ \A i \in 1..Len(s) : FALSE
      BY <1>3, <3>0
    <3>2. UpdatesOver(s, {})
      BY <3>1 DEF UpdatesOver
    <3>3. StatesOver(s, g, {})
      BY <3>1 DEF StatesOver
    <3> QED BY <3>2, <3>3
  <2> QED BY <1>2, <1>3, <2>2, <2>4, <2>5 DEF Updated, StatesAreMade, Outermost
<1>7. Tells(s, <<>>, g, b, m)
  BY <1>4, <1>5, <1>6 DEF Tells
<1>8. Running({g}, <<>>, g)
  BY <1>1, <1>2 DEF Running
<1> QED BY <1>1, <1>7, <1>8 DEF TellInv

\* What is told is what the property says.
LEMMA BracketsAreTold ==
  ASSUME NEW s, NEW b, NEW m, NEW live, NEW o, Told(s, b, m, live, o),
         s = seen, o = outcome, live = Streams!Live
  PROVE  Streams!StreamIsBracketed
<1> PICK E : s \in Seq(E)
  BY DEF Told
<1>1. EndsMatch(s) /\ EndsLast(s, live) /\ EndsAs(s, o)
  BY DEF Told
<1> QED BY <1>1 DEF EndsMatch, EndsLast, EndsAs, Unclosed, Streams!StreamIsBracketed

LEMMA MessagesAreTold ==
  ASSUME NEW s, NEW b, NEW m, NEW live, NEW o, Told(s, b, m, live, o), s = seen, m = messages
  PROVE  Streams!ChunksMakeTheMessage
<1> PICK E : s \in Seq(E)
  BY DEF Told
<1> PICK n \in Nat : n = Len(s)
  OBVIOUS
<1>1. ASSUME NEW i \in 1..n, s[i].is = "NodeEnd" /\ m /\ s[i].node \in Speaker
      PROVE  \E from \in 1..(i - 1) :
               /\ s[from].is = "NodeStart" /\ s[from].path = s[i].path
               /\ \A k \in (from + 1)..(i - 1) : s[k].is = "MessageChunk"
               /\ s[i].update[1][2] = FlattenSeq([k \in 1..(i - from - 1) |-> s[from + k].update])
  <2>1. MadeOfChunks(s, i)
    BY <1>1 DEF Told, MessagesTell
  <2> PICK from \in 1..(i - 1) :
        /\ s[from].is = "NodeStart" /\ s[from].path = s[i].path
        /\ OnlyChunks(s, from, i - 1)
        /\ s[i].update[1][2] = SaidIn(s, from, i - 1)
    BY <2>1 DEF MadeOfChunks
  <2>2. (i - 1) - from = i - from - 1
    OBVIOUS
  <2>3. SaidIn(s, from, i - 1) = FlattenSeq([k \in 1..(i - from - 1) |-> s[from + k].update])
    BY <2>2 DEF SaidIn
  <2>4. \A k \in (from + 1)..(i - 1) : s[k].is = "MessageChunk"
    BY DEF OnlyChunks
  <2> QED BY <2>3, <2>4
<1>2. DOMAIN s = 1..n
  OBVIOUS
<1>3. \A q : Streams!FlattenSeq(q) = FlattenSeq(q)
  BY DEF Streams!FlattenSeq, FlattenSeq
<1> SUFFICES ASSUME NEW i \in DOMAIN seen,
                    seen[i].is = "NodeEnd" /\ messages /\ seen[i].node \in Speaker
             PROVE  \E from \in 1..(i - 1) :
                      /\ seen[from].is = "NodeStart" /\ seen[from].path = seen[i].path
                      /\ \A k \in (from + 1)..(i - 1) : seen[k].is = "MessageChunk"
                      /\ seen[i].update[1][2] =
                           Streams!FlattenSeq([k \in 1..(i - from - 1) |-> seen[from + k].update])
  BY DEF Streams!ChunksMakeTheMessage
<1> PICK from \in 1..(i - 1) :
      /\ s[from].is = "NodeStart" /\ s[from].path = s[i].path
      /\ \A k \in (from + 1)..(i - 1) : s[k].is = "MessageChunk"
      /\ s[i].update[1][2] = FlattenSeq([k \in 1..(i - from - 1) |-> s[from + k].update])
  BY <1>1, <1>2
<1> PICK q : q = [k \in 1..(i - from - 1) |-> s[from + k].update]
  OBVIOUS
<1>4. s[i].update[1][2] = Streams!FlattenSeq(q)
  BY <1>3
<1> QED BY <1>4

LEMMA UpdatesAreTold ==
  ASSUME NEW s, NEW b, NEW m, NEW live, NEW o, Told(s, b, m, live, o),
         s = seen, b = subgraphs, o = outcome
  PROVE  Streams!UpdatesMakeTheStates
<1> PICK E : s \in Seq(E)
  BY DEF Told
<1>1. \A q : Streams!FlattenSeq(q) = FlattenSeq(q)
  BY DEF Streams!FlattenSeq, FlattenSeq
<1>2. DOMAIN s = 1..Len(s)
  OBVIOUS
<1>3. Streams!Shown("values") = ValuesIn(s)
  BY <1>1, <1>2 DEF Streams!Shown, Streams!Passes, Streams!Selected, ValuesIn, OfKinds, Selected
<1>4. Streams!Shown("updates") = UpdatesIn(s)
  BY <1>1, <1>2 DEF Streams!Shown, Streams!Passes, Streams!Selected, UpdatesIn, OfKinds, Selected
<1>5. ~b => UpdatesTell(ValuesIn(s), UpdatesIn(s), o)
  BY DEF Told
<1> PICK vs, us : vs = ValuesIn(s) /\ us = UpdatesIn(s)
  OBVIOUS
<1>6. ~b => /\ \A i \in 1..Len(us) :
                 vs[i].state = FlattenSeq([j \in 1..i |-> us[j].update])
            /\ o.is = "returned" =>
                 /\ Len(vs) = Len(us) + 1
                 /\ vs[Len(us) + 1].state = FlattenSeq([j \in 1..Len(us) |-> us[j].update])
                 /\ o.state = FlattenSeq([j \in 1..Len(us) |-> us[j].update])
  BY <1>5 DEF UpdatesTell, Made
<1>7. Streams!Shown("values") = vs /\ Streams!Shown("updates") = us
  BY <1>3, <1>4
<1> QED BY <1>1, <1>6, <1>7 DEF Streams!UpdatesMakeTheStates

\* The consumer of a stream can tell the run from the events (stream_internal): they are
\* bracketed like the calls, also those of wrapped graphs, and only the last one is an end
\* or an error; the message of a node is made of its model's chunks; the updates, one after
\* the other, make the states that are shown and the state that is returned.
THEOREM StreamsAreTold == Streams!Spec => []StreamsTellTheirRuns
<1>1. Streams!Init => TellInv
  BY StreamsStartTelling
<1>2. TellInv /\ [Streams!Next]_(Streams!vars) => TellInv'
  BY StepsTell
<1>3. TellInv => StreamsTellTheirRuns
  <2> SUFFICES ASSUME TellInv
               PROVE  StreamsTellTheirRuns
    OBVIOUS
  <2> PICK s, b, m, o :
        /\ s = seen /\ b = subgraphs /\ m = messages /\ o = outcome
        /\ \/ \E S, f, t : Running(S, f, t) /\ Tells(s, f, t, b, m)
           \/ gens = <<>> /\ o.is # "running" /\ Told(s, b, m, FALSE, o)
    BY DEF TellInv
  <2>1. \E live : live = Streams!Live /\ Told(s, b, m, live, o)
    <3>1. CASE \E S, f, t : Running(S, f, t) /\ Tells(s, f, t, b, m)
      <4> PICK live : live = Streams!Live
        OBVIOUS
      <4>1. o.is \notin {"returned", "failed"}
        BY <3>1 DEF Running
      <4> QED BY <3>1, <4>1, TellsSoFar
    <3>2. CASE gens = <<>> /\ Told(s, b, m, FALSE, o)
      BY <3>2 DEF Streams!Live
    <3> QED BY <3>1, <3>2
  <2>2. PICK live : live = Streams!Live /\ Told(s, b, m, live, o)
    BY <2>1
  <2> QED BY <2>2, BracketsAreTold, MessagesAreTold, UpdatesAreTold DEF StreamsTellTheirRuns
<1> QED BY <1>1, <1>2, <1>3, PTL DEF Streams!Spec
===============================================================================

------------------------------- MODULE KeyStores -------------------------------
(***************************************************************************)
(* The three stores in memory: of a graph (langgraph/persistence/store.rs),*)
(* of the tools (tools/store.rs), and the enhanced one of long-term memory,*)
(* which embeds what it is given and searches by similarity.               *)
(*                                                                         *)
(* A namespace and a key are joined by colons, so a name is a sequence of  *)
(* segments: a namespace of several, and a key of one, or of more where    *)
(* the key has a colon of its own.  Time is the number of puts.            *)
(***************************************************************************)
EXTENDS Integers, SequencesExt, FiniteSets

CONSTANTS
  Caller,
  Namespace,   \* sequences of segments
  Key,         \* sequences of segments, not empty
  Value,
  Nearness,    \* Nearness[v]: the similarity of v's vector to a query's
  Filters,     \* sets of values, those a StoreFilter matches
  MaxFound,    \* the limits of the searches
  MaxPuts      \* bound on the puts

VARIABLES
  kind,       \* "graph", "tools", "enhanced", or "indexed": enhanced with a vector index
  data,       \* the items under their store keys
  puts,       \* the puts that have begun
  putting,    \* the put, at most one, that holds the write lock
  searching,  \* the searches that hold a read lock: what data each one found
  answer      \* of the last search, until the next write: what it was of, and what it gave

vars == <<kind, data, puts, putting, searching, answer>>

NoAnswer == [limit |-> 0, query |-> FALSE, of |-> {}, items |-> <<>>]

Init ==
  /\ kind \in {"graph", "tools", "enhanced", "indexed"}
  /\ data = {} /\ puts = 0
  /\ putting = {} /\ searching = {}
  /\ answer = NoAnswer

Enhanced == kind \in {"enhanced", "indexed"}

\* make_key joins; the enhanced store has a map for each namespace, and one for none.
StoreKey(namespace, key) ==
  IF Enhanced
  THEN [map |-> IF namespace = <<>> THEN <<"default">> ELSE namespace, key |-> key]
  ELSE [map |-> <<>>, key |-> namespace \o key]

Get(namespace, key) == {d \in data : d.at = StoreKey(namespace, key)}

-------------------------------------------------------------------------------
(* Putting and deleting, under the write lock                              *)

Free(lock) == putting = {} /\ (lock = "read" \/ searching = {})

Item(namespace, key, value, indexed) ==
  [at |-> StoreKey(namespace, key), namespace |-> namespace, key |-> key, value |-> value,
   indexed |-> indexed, time |-> puts + 1]

Inserted(item) == {d \in data : d.at # item.at} \cup {item}

Put(namespace, key, value) ==
  /\ kind # "indexed" /\ puts < MaxPuts /\ Free("write")
  /\ data' = Inserted(Item(namespace, key, value, FALSE))
  /\ puts' = puts + 1
  /\ answer' = NoAnswer
  /\ UNCHANGED <<kind, putting, searching>>

\* put_with_metadata takes the lock, then awaits the embedding.
PutBegins(namespace, key, value) ==
  /\ kind = "indexed" /\ puts < MaxPuts /\ Free("write")
  /\ putting' = {Item(namespace, key, value, TRUE)}
  /\ puts' = puts + 1
  /\ answer' = NoAnswer
  /\ UNCHANGED <<kind, data, searching>>

\* An embedding that fails leaves the item without a vector.
PutEnds ==
  /\ \E item \in putting, embedded \in BOOLEAN :
       data' = Inserted([item EXCEPT !.indexed = embedded])
  /\ putting' = {}
  /\ UNCHANGED <<kind, puts, searching, answer>>

PutDropped ==
  /\ putting # {} /\ putting' = {}
  /\ UNCHANGED <<kind, data, puts, searching, answer>>

Delete(namespace, key) ==
  /\ Free("write")
  /\ Get(namespace, key) # {}
  /\ data' = data \ Get(namespace, key)
  /\ answer' = NoAnswer
  /\ UNCHANGED <<kind, puts, putting, searching>>

-------------------------------------------------------------------------------
(* Reading                                                                 *)

\* The tools' store lists what begins with the namespace, without it; a key of the
\* enhanced one is in its namespace's map.
List(namespace) ==
  IF Enhanced
  THEN {d.key : d \in {e \in data : e.at.map = StoreKey(namespace, <<>>).map}}
  ELSE {SubSeq(d.at.key, Len(namespace) + 1, Len(d.at.key)) :
          d \in {e \in data : IsStrictPrefix(namespace, e.at.key)}}

\* The items a search is among, those of its filter, or those that hold its text.
Candidates(namespace, values) ==
  {d \in data : /\ d.value \in values
                /\ IF Enhanced THEN d.at.map = StoreKey(namespace, <<>>).map
                               ELSE d.namespace = namespace}

Oldest(d, e)  == d.time < e.time
Newest(d, e)  == d.time > e.time
Nearest(d, e) == Nearness[d.value] > Nearness[e.value]

\* Some order in which no item comes after one it goes before.
Sorted(items, Before(_, _)) ==
  {s \in SetToAllKPermutations(items) :
     Len(s) = Cardinality(items) /\ \A i, j \in DOMAIN s : i < j => ~Before(s[j], s[i])}

Taken(s, limit) == SubSeq(s, 1, IF limit < Len(s) THEN limit ELSE Len(s))

Unordered(d, e) == FALSE

\* Fault: the oldest items come first.
OldestFirst(items, query) ==
  IF kind = "graph" THEN Sorted(items, Oldest) ELSE Sorted(items, Unordered)

\* The graph's store sorts by created_at, which each put sets anew; a query of the indexed
\* store by similarity, without the items that have no vector; any other order is a map's.
Found(items, query) ==
  IF kind = "graph" THEN Sorted(items, Newest)
  ELSE IF kind = "indexed" /\ query THEN Sorted({d \in items : d.indexed}, Nearest)
  ELSE Sorted(items, Unordered)

Answered(namespace, values, limit, query, among) ==
  \E s \in Found(among, query) :
    answer' = [limit |-> limit, query |-> query, of |-> Candidates(namespace, values),
               items |-> Taken(s, limit)]

\* The query of any other store is its filter of texts, if it is anything.
Search(namespace, values, limit) ==
  /\ kind # "tools" /\ Free("read")
  /\ Answered(namespace, values, limit, FALSE, Candidates(namespace, values))
  /\ UNCHANGED <<kind, data, puts, putting, searching>>

\* A query of the indexed store awaits its embedding, with the items it was among in hand.
SearchBegins(c, namespace, values) ==
  /\ kind = "indexed" /\ Free("read")
  /\ \A s \in searching : s.by # c
  /\ searching' = searching \cup {[by |-> c, namespace |-> namespace, values |-> values,
                                   among |-> Candidates(namespace, values)]}
  /\ answer' = NoAnswer
  /\ UNCHANGED <<kind, data, puts, putting>>

SearchEnds(limit) ==
  /\ \E s \in searching :
       /\ Answered(s.namespace, s.values, limit, TRUE, s.among)
       /\ searching' = searching \ {s}
  /\ UNCHANGED <<kind, data, puts, putting>>

\* Its embedding fails, or its caller drops it.
SearchFails ==
  /\ \E s \in searching : searching' = searching \ {s}
  /\ UNCHANGED <<kind, data, puts, putting, answer>>

Next ==
  \/ \E n \in Namespace, k \in Key :
       \/ \E v \in Value : Put(n, k, v) \/ PutBegins(n, k, v)
       \/ Delete(n, k)
  \/ PutEnds \/ PutDropped
  \/ \E n \in Namespace, vs \in Filters :
       \/ \E limit \in MaxFound : Search(n, vs, limit)
       \/ \E c \in Caller : SearchBegins(c, n, vs)
  \/ \E limit \in MaxFound : SearchEnds(limit)
  \/ SearchFails

Spec == Init /\ [][Next]_vars

-------------------------------------------------------------------------------
(* Properties                                                              *)

TypeOK ==
  /\ \A d \in data \cup putting :
       d.namespace \in Namespace /\ d.key \in Key /\ d.value \in Value
  /\ \A d, e \in data : d.at = e.at => d = e
  /\ Cardinality(putting) <= 1 /\ puts <= MaxPuts

\* list and get: a key that is listed in a namespace is read in it, also one that is
\* another namespace's with its colons.
ListedKeysAreRead ==
  kind # "graph" => \A n \in Namespace : \A k \in List(n) : Get(n, k) # {}

\* make_key, get: what is read under a name of plain segments was put under that name, or
\* else under a key with a colon, or in the unnamed namespace and that of its name.
NamesAreKeptApart ==
  \A n \in Namespace, k \in Key : \A d \in Get(n, k) :
    \/ d.namespace = n /\ d.key = k
    \/ Len(k) > 1 \/ Len(d.key) > 1
    \/ Enhanced /\ {n, d.namespace} = {<<>>, <<"default">>}

\* search: what it gives is there when it ends, of its namespace and filter, up to its
\* limit, and nothing that it left out should have come before: newer in a graph's store,
\* nearer to the query in an indexed one.
BestAreFound ==
  LET asked    == IF kind = "indexed" /\ answer.query
                  THEN {d \in answer.of : d.indexed} ELSE answer.of
      given    == ToSet(answer.items)
  IN /\ given \subseteq asked
     /\ Len(answer.items) = (IF answer.limit < Cardinality(asked) THEN answer.limit
                                                                   ELSE Cardinality(asked))
     /\ \A d \in asked \ given, e \in given :
          /\ kind = "graph" => ~Newest(d, e)
          /\ kind = "indexed" /\ answer.query => ~Nearest(d, e)
===============================================================================

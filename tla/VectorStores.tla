----------------------------- MODULE VectorStores -----------------------------
(***************************************************************************)
(* The vector stores: documents are added, found by their similarity to a  *)
(* query and deleted by the ids that adding returned.  The twelve stores   *)
(* implement one trait and differ in a few ways that callers can tell, the *)
(* fields of the records below.  A store behind a client is external; what *)
(* is modelled is what the functions ask of it.                            *)
(*                                                                         *)
(* Namespace "" is none given.  A service makes a write visible at once.   *)
(***************************************************************************)
EXTENDS Integers, FiniteSetsExt, Selection

CONSTANTS Caller, Doc, Space,
          Batches,    \* the sequences of documents that callers add
          Score,      \* [Doc -> Int], of each document for the one query
          MaxIds      \* bound on the ids a behaviour uses up

None == -9    \* no threshold given, below every score

Limits     == {1, 2}
Thresholds == {None, 1}

(* What a store does:                                                      *)
(*   writes    a document at a time, or all of a call in one transaction,  *)
(*             request or lock; in bulk, a request whose items each fail   *)
(*   ids       as stored, or drawn once more for the caller                *)
(*   deletes   the rows, also one by one; nothing, with an Ok or an error; *)
(*             the rows and not their entries in the index                 *)
(*   order     nearest or farthest first, or that of the index             *)
(*   spaces    a column, one partition each, another collection, ignored,  *)
(*             or refused by a search                                      *)
(*   threshold a search keeps to it, or ignores it, or keeps to 0 for none *)
(*   opened    with the rows of before, without, or as the builder is told *)
Store(writes, ids, deletes, order, spaces, threshold, opened) ==
  [writes |-> writes, ids |-> ids, deletes |-> deletes, order |-> order,
   spaces |-> spaces, threshold |-> threshold, opened |-> opened]

InMemory   == Store("lock", "stored", "rows", "nearest", "column", "kept", "empty")
Faiss      == Store("lock", "stored", "error", "nearest", "ignored", "kept", "empty")
Qdrant     == Store("whole", "redrawn", "rows", "nearest", "refused", "kept", "either")
PgVector   == Store("whole", "stored", "rows", "farthest", "collection", "ignored", "either")
SqliteVec  == Store("whole", "stored", "indexed", "nearest", "ignored", "ignored", "rows")
SqliteVss  == Store("whole", "stored", "indexed", "any", "ignored", "ignored", "rows")
SurrealDb  == Store("each", "stored", "nothing", "nearest", "ignored", "zero", "rows")
MongoDb    == Store("each", "stored", "rows", "nearest", "column", "ignored", "rows")
Weaviate   == Store("each", "stored", "each", "nearest", "ignored", "kept", "rows")
Pinecone   == Store("whole", "stored", "error", "nearest", "partition", "kept", "rows")
Chroma     == Store("whole", "stored", "rows", "nearest", "ignored", "ignored", "rows")
OpenSearch == Store("bulk", "stored", "rows", "nearest", "ignored", "ignored", "rows")

AllKinds == {InMemory, Faiss, Qdrant, PgVector, SqliteVec, SqliteVss, SurrealDb, MongoDb,
             Weaviate, Pinecone, Chroma, OpenSearch}

VARIABLES
  store,     \* which of them
  table,     \* its rows, oldest first: [id, doc, space, gone]; gone is deleted, but indexed
  batch,     \* per caller, the add_documents under way: [left, told, space]
  given,     \* <<id, document>> as callers were told, until they ask to delete it
  deleted,   \* the ids whose deletion was answered with an Ok
  next_id

vars == <<store, table, batch, given, deleted, next_id>>

NoBatch == [left |-> <<>>, told |-> {}, space |-> ""]

Live == {r \in ToSet(table) : ~r.gone}

Init ==
  /\ store \in AllKinds
  /\ table = <<>> /\ given = {} /\ deleted = {} /\ next_id = 1
  /\ batch = [c \in Caller |-> NoBatch]

-------------------------------------------------------------------------------
(* add_documents                                                           *)

\* The namespace a row is kept with.
Kept(space) == IF store.spaces \in {"column", "partition"} THEN space ELSE ""

\* The documents are embedded, which no other caller sees.
Add(c, docs, space) ==
  /\ batch[c] = NoBatch
  /\ store.spaces = "collection" => space = ""
  /\ next_id + Len(docs) <= MaxIds + 1
  /\ batch' = [batch EXCEPT ![c] = [left |-> docs, told |-> {}, space |-> Kept(space)]]
  /\ UNCHANGED <<store, table, given, deleted, next_id>>

\* How many documents the next statement, or request, writes.
Written(c) == IF store.writes = "each" THEN 1 ELSE Len(batch[c].left)

Row(c, i) ==
  [id |-> next_id + i - 1, doc |-> batch[c].left[i], space |-> batch[c].space, gone |-> FALSE]

WithRows(c, written) ==
  table \o Selected([i \in 1..Written(c) |-> Row(c, i)], written)

\* Fault: the id is the row's place in the table, which deletions move.
PlaceId(r) == Len(table) + 1 + r.id - next_id

\* The clone of the iterator that drew the ids of the points draws others for the
\* caller.
ToldId(r) == IF store.ids = "stored" THEN r.id ELSE -r.id

\* Every id of the request, also of an item that failed in bulk.
Told(c) == batch[c].told \cup {<<ToldId(Row(c, i)), batch[c].left[i]>> : i \in 1..Written(c)}

Write(c) ==
  /\ batch[c].left # <<>> /\ next_id + Written(c) <= MaxIds + 1
  /\ \E written \in IF store.writes = "bulk" THEN SUBSET (1..Written(c)) ELSE {1..Written(c)} :
       table' = WithRows(c, written)
  /\ next_id' = next_id + Written(c)
  /\ LET left == SubSeq(batch[c].left, Written(c) + 1, Len(batch[c].left))
     IN  IF left = <<>>
         THEN batch' = [batch EXCEPT ![c] = NoBatch] /\ given' = given \cup Told(c)
         ELSE batch' = [batch EXCEPT ![c] = [@ EXCEPT !.left = left, !.told = Told(c)]]
              /\ UNCHANGED given
  /\ UNCHANGED <<store, deleted>>

\* A statement or request fails, or only its answer does: nobody is told any id.
WriteFails(c) ==
  /\ batch[c].left # <<>> /\ next_id + Written(c) <= MaxIds + 1
  /\ store.writes # "lock"
  /\ \E applied \in BOOLEAN :
       table' = IF applied THEN WithRows(c, 1..Written(c)) ELSE table
  /\ next_id' = next_id + Written(c)
  /\ batch' = [batch EXCEPT ![c] = NoBatch]
  /\ UNCHANGED <<store, given, deleted>>

-------------------------------------------------------------------------------
(* delete                                                                  *)

Without(ids) ==
  CASE store.deletes \in {"rows", "each"} -> Selected(table, {i \in DOMAIN table : table[i].id \notin ids})
    [] store.deletes = "indexed" ->
         [i \in DOMAIN table |-> [table[i] EXCEPT !.gone = @ \/ table[i].id \in ids]]
    [] OTHER -> table

\* The caller counts on none of the ids again, whatever the answer.
Asked(ids) == given' = {g \in given : g[1] \notin ids}

Delete(ids) ==
  /\ store.deletes # "error" /\ ids # {}
  /\ table' = Without(ids)
  /\ deleted' = deleted \cup ids
  /\ Asked(ids)
  /\ UNCHANGED <<store, batch, next_id>>

\* One by one, some are deleted before one fails.
DeleteFails(ids) ==
  /\ store.deletes # "error" /\ store.writes # "lock" /\ ids # {}
  /\ \E applied \in IF store.deletes = "each" THEN SUBSET ids ELSE {{}, ids} :
       table' = Without(applied)
  /\ Asked(ids)
  /\ UNCHANGED <<store, batch, deleted, next_id>>

\* The process ends and builds its store again, where asked without the collection
\* of before.
Reopen ==
  /\ \E empty \in CASE store.opened = "empty" -> {TRUE} [] store.opened = "rows" -> {FALSE}
                     [] OTHER -> BOOLEAN :
       IF empty THEN table' = <<>> /\ given' = {} ELSE UNCHANGED <<table, given>>
  /\ batch' = [c \in Caller |-> NoBatch]
  /\ UNCHANGED <<store, deleted, next_id>>

Next ==
  \/ \E c \in Caller :
       \/ \E docs \in Batches, space \in Space : Add(c, docs, space)
       \/ Write(c)
       \/ WriteFails(c)
  \/ \E ids \in SUBSET {g[1] : g \in given} : Delete(ids) \/ DeleteFails(ids)
  \/ Reopen

Spec == Init /\ [][Next]_vars

-------------------------------------------------------------------------------
(* similarity_search: what it answers in a state                           *)

\* qdrant answers Err(InvalidParameter) to a search of a namespace, although it takes
\* documents with one.
Refused(space) == store.spaces = "refused" /\ space # ""

\* A search without a namespace, and one with.
InSpace(r, space) ==
  CASE store.spaces = "column"     -> space \in {"", r.space}
    [] store.spaces = "partition"  -> r.space = space
    [] store.spaces = "collection" -> space = ""
    [] store.spaces \in {"ignored", "refused"} -> TRUE

Least(threshold) ==
  CASE store.threshold = "ignored"                     -> None
    [] store.threshold = "zero" /\ threshold = None -> 0
    [] OTHER                                           -> threshold

Wanted(r, space, threshold) == InSpace(r, space) /\ Score[r.doc] >= Least(threshold)

\* By score; the index of sqlite ranks what was deleted too, and is joined with the
\* table afterwards.
Ranked(space, threshold) ==
  SortSeq(SelectSeq(table, LAMBDA r : Wanted(r, space, threshold)),
          LAMBDA r, s : IF store.order = "farthest" THEN Score[r.doc] < Score[s.doc]
                                                    ELSE Score[r.doc] > Score[s.doc])

\* .size(3) of the request goes before the size of its body.
Size(limit) == IF store = OpenSearch THEN 3 ELSE limit

Joined(limit, ranked) ==
  SelectSeq(SubSeq(ranked, 1, Min({Size(limit), Len(ranked)})), LAMBDA r : ~r.gone)

\* Fault: the namespace is looked for among the nearest of all that is stored.
SearchedBeforeSpace(limit, space, threshold) ==
  IF Refused(space) THEN [ok |-> FALSE]
  ELSE [ok |-> TRUE,
        docs |-> SelectSeq(Joined(limit, Ranked("", threshold)),
                           LAMBDA r : Wanted(r, space, threshold))]

\* What is refused has no documents.
similarity_search(limit, space, threshold) ==
  IF Refused(space) THEN [ok |-> FALSE]
  ELSE [ok |-> TRUE, docs |-> Joined(limit, Ranked(space, threshold))]

-------------------------------------------------------------------------------
(* Properties                                                              *)

TypeOK ==
  /\ store \in AllKinds
  /\ \A r \in ToSet(table) : r.id \in 1..MaxIds /\ r.doc \in Doc /\ r.space \in Space
  /\ \A c \in Caller : batch[c].left \in Seq(Doc)
  /\ given \subseteq ((-MaxIds)..MaxIds) \X Doc
  /\ deleted \subseteq (-MaxIds)..MaxIds
  /\ next_id \in 1..(MaxIds + 1)

Stored(g) == \E r \in Live : r.id = g[1] /\ r.doc = g[2]

\* An id that add_documents returned is that of the document it was returned for, in
\* the store until someone asks to delete it, with other callers' adds and deletes,
\* failures and restarts in between; not where the ids are drawn again (qdrant), or
\* where the request's items fail on their own (opensearch).
ReturnedIdsAreStored ==
  store.ids = "stored" /\ store.writes # "bulk" => \A g \in given : Stored(g)

\* A search that is not refused finds as many documents as asked for, or all that
\* qualify, no other being nearer, and none that was deleted.  Not so: pgvector, which
\* orders by the distance descending; opensearch, whose limit is fixed; what surrealdb
\* was asked to delete; and sqlite, where each deletion can cost a search one document.
NearestAreFound ==
  store.order # "farthest" /\ store # OpenSearch =>
    \A limit \in Limits, space \in Space, threshold \in Thresholds :
      LET found  == similarity_search(limit, space, threshold)
          wanted == {r \in Live : Wanted(r, space, threshold)}
          most   == Min({limit, Cardinality(wanted)})
          gone   == Cardinality({r \in ToSet(table) : r.gone})
      IN  found.ok =>
          /\ ToSet(found.docs) \subseteq wanted
          /\ Len(found.docs) \in (most - gone)..most
          /\ \A r \in ToSet(found.docs), s \in wanted \ ToSet(found.docs) :
               Score[r.doc] >= Score[s.doc]
          /\ store.deletes # "nothing" => \A r \in ToSet(found.docs) : r.id \notin deleted

\* What qdrant's add_documents says of itself: the ids of the documents added.
QdrantReturnsIdsAdded == store = Qdrant => \A g \in given : Stored(g)
===============================================================================

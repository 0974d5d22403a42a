------------------------------ MODULE Retrieval ------------------------------
(***************************************************************************)
(* Retrievers made of retrievers: MergerRetriever, EnsembleRetriever and   *)
(* MultiQueryRetriever ask several and fuse what they answer,              *)
(* EmbeddingsRedundantFilter drops what is like what came before, and a    *)
(* reranker puts the rest in the order of its own scores.  A query goes    *)
(* through one of the first three and, if so configured, the other two.    *)
(*                                                                         *)
(* A document is its key (document_key, or its page_content).  Scores are  *)
(* multiples of 1 / Scale, so that those of the ranks in use are integers. *)
(***************************************************************************)
EXTENDS Naturals, SequencesExt, FiniteSetsExt, TLC

CONSTANTS
  Doc,         \* the keys of documents
  Answers,     \* what a retriever may answer: sequences of documents
  Retrievers,  \* how many retrievers, or queries, there are
  Settings,    \* [strategy, weights, top_k, threshold, filter, rerank]
  MaxLength,   \* of an answer
  K, Scale,    \* k of reciprocal rank fusion; the score of 1.0
  Similar,     \* the pairs of documents whose similarity is over the threshold
  Relevances   \* the scores a reranker may give: functions from Doc

VARIABLES
  config,
  asked,    \* what each retriever answered, for those asked so far
  all,      \* all_results
  stage,    \* "retrieve", "fused", "filtered", "done" or "failed"
  fused,    \* the documents after the fusion
  docs      \* ... and after the last stage

vars == <<config, asked, all, stage, fused, docs>>

Init ==
  /\ config \in Settings
  /\ asked = <<>> /\ all = <<>> /\ fused = <<>> /\ docs = <<>>
  /\ stage = "retrieve"

-------------------------------------------------------------------------------
\* Fault: a retriever that fails is left out.
WithoutFailed(results, answer) == IF answer = <<>> THEN results ELSE Append(results, answer)

WithAnswer(results, answer) == Append(results, answer)

\* for retriever in &self.retrievers: a failure counts as an empty answer.
Retrieve(answer) ==
  /\ stage = "retrieve" /\ Len(asked) < Retrievers
  /\ asked' = Append(asked, answer)
  /\ all' = WithAnswer(all, answer)
  /\ UNCHANGED <<config, stage, fused, docs>>

\* The model that generates the variations of the query fails, and so does the query.
QueriesFail ==
  /\ stage = "retrieve" /\ asked = <<>> /\ config.strategy = "queries"
  /\ stage' = "failed"
  /\ UNCHANGED <<config, asked, all, fused, docs>>

-------------------------------------------------------------------------------
\* The weights of the configuration, or equal ones where their number differs.
Weights(weights, lists) ==
  IF Len(weights) = Len(lists) THEN weights ELSE [i \in DOMAIN lists |-> 1]

\* What an answer's place adds to a document's score, by merge_rrf, merge_weighted ...
RankScore(rank)           == Scale \div (K + rank + 1)
WeightedScore(rank, w)    == (w * Scale) \div (rank + 1)

\* ... vote_weighted, vote_majority and vote_simple.
Vote(w) == w * Scale

Score(rank, w) ==
  CASE config.strategy = "rrf"      -> RankScore(rank)
    [] config.strategy = "weighted" -> WeightedScore(rank, w)
    [] config.strategy = "votes"    -> Vote(w)
    [] OTHER                        -> Vote(1)

Keys(lists) == UNION {ToSet(lists[i]) : i \in DOMAIN lists}

\* doc_scores: every appearance adds to the document's entry.
Scores(lists) ==
  LET weights == Weights(config.weights, lists)
      Appearances(d) ==
        {<<i, n>> \in (DOMAIN lists) \X (1..MaxLength) : n \in DOMAIN lists[i] /\ lists[i][n] = d}
  IN  [d \in Keys(lists) |->
         MapThenSumSet(LAMBDA a : Score(a[2] - 1, weights[a[1]]), Appearances(d))]

\* min_votes of Majority: total_retrievers * threshold, rounded up.
MinVotes(lists) == (Len(lists) * config.threshold + 99) \div 100

Voted(lists) ==
  IF config.strategy # "majority" THEN Keys(lists)
  ELSE {d \in Keys(lists) : Scores(lists)[d] >= Vote(MinVotes(lists))}

\* sort_by descending score; equal scores stay in the order of the hash map, any order.
Orders(lists) ==
  {s \in SetToSeqs(Voted(lists)) : IsSorted([i \in DOMAIN s |-> Scores(lists)[s[i]]], >=)}

Take(s, n) == SubSeq(s, 1, Min({n, Len(s)}))

FirstsOf(s) == SelectSeq([i \in DOMAIN s |-> <<i, s[i]>>], LAMBDA e : \A j \in 1..(e[1] - 1) : s[j] # e[2])

\* merge_concatenate, and merge_results of the queries, which has no limit.
Concatenated(lists) ==
  LET firsts == FirstsOf(FlattenSeq(lists))
      merged == [i \in DOMAIN firsts |-> firsts[i][2]]
  IN  IF config.strategy = "queries" THEN merged ELSE Take(merged, config.top_k)

Merge ==
  /\ stage = "retrieve" /\ Len(asked) = Retrievers
  /\ stage' = "fused"
  /\ IF config.strategy \in {"concatenate", "queries"}
     THEN docs' = Concatenated(all)
     ELSE \E order \in Orders(all) : docs' = Take(order, config.top_k)
  /\ fused' = docs'
  /\ UNCHANGED <<config, asked, all>>

-------------------------------------------------------------------------------
\* is_redundant: like one of those that were kept.
Kept(s, d) == IF \E i \in DOMAIN s : <<s[i], d>> \in Similar THEN s ELSE Append(s, d)

\* filter_redundant
FilterRedundant ==
  /\ stage = "fused" /\ config.filter
  /\ stage' = "filtered"
  /\ docs' = FoldLeft(Kept, <<>>, docs)
  /\ UNCHANGED <<config, asked, all, fused>>

\* The embedder fails: an Err of the query.
EmbeddingFails ==
  /\ stage = "fused" /\ config.filter /\ docs # <<>>
  /\ stage' = "failed" /\ docs' = <<>>
  /\ UNCHANGED <<config, asked, all, fused>>

Due == IF config.filter THEN stage = "filtered" ELSE stage = "fused"

\* sort_by descending relevance, a stable sort.
ByRelevance(relevance) ==
  SetToSortSeq(DOMAIN docs, LAMBDA i, j : \/ relevance[docs[i]] > relevance[docs[j]]
                                          \/ relevance[docs[i]] = relevance[docs[j]] /\ i < j)

\* rerank: the relevances come from the service, or from counting words.
Rerank(relevance) ==
  /\ Due /\ config.rerank
  /\ stage' = "done"
  /\ docs' = [i \in 1..Min({config.top_k, Len(docs)}) |-> docs[ByRelevance(relevance)[i]]]
  /\ UNCHANGED <<config, asked, all, fused>>

\* The service that scores refuses, or does not answer: an Err of the query.
RerankFails ==
  /\ Due /\ config.rerank /\ docs # <<>>
  /\ stage' = "failed" /\ docs' = <<>>
  /\ UNCHANGED <<config, asked, all, fused>>

Finish ==
  /\ Due /\ ~config.rerank
  /\ stage' = "done"
  /\ UNCHANGED <<config, asked, all, fused, docs>>

Next ==
  \/ \E answer \in Answers : Retrieve(answer)
  \/ QueriesFail \/ Merge
  \/ FilterRedundant \/ EmbeddingFails
  \/ \E relevance \in Relevances : Rerank(relevance)
  \/ RerankFails \/ Finish

Spec == Init /\ [][Next]_vars

-------------------------------------------------------------------------------
TypeOK ==
  /\ config \in Settings
  /\ asked \in Seq(Answers) /\ all \in Seq(Answers)
  /\ stage \in {"retrieve", "fused", "filtered", "done", "failed"}
  /\ docs \in Seq(Doc) /\ fused \in Seq(Doc)

\* How often the retrievers put d into their first n places, each counted by its weight.
Placed(d, n) ==
  MapThenSumSet(LAMBDA r : Weights(config.weights, asked)[r]
                             * Cardinality({i \in 1..Min({n, Len(asked[r])}) : asked[r][i] = d}),
                DOMAIN asked)

\* d has the better places, whatever a place is worth.
Outranks(d, e) ==
  CASE config.strategy \in {"rrf", "weighted"} ->
         /\ \A n \in 1..MaxLength : Placed(d, n) >= Placed(e, n)
         /\ \E n \in 1..MaxLength : Placed(d, n) > Placed(e, n)
    [] config.strategy \in {"votes", "majority"} -> Placed(d, MaxLength) > Placed(e, MaxLength)
    [] OTHER ->
         \E r \in DOMAIN asked :
           /\ \A q \in 1..(r - 1) : e \notin ToSet(asked[q])
           /\ \E i \in DOMAIN asked[r] : asked[r][i] = d /\ e \notin ToSet(SubSeq(asked[r], 1, i))

\* The documents of a fusion are different ones, at most top_k, and none comes
\* before one that the retrievers put into better places, or in its stead; a
\* retriever that failed does not move the weights of the others.
BestFirst ==
  stage \notin {"retrieve", "failed"} =>
    /\ IsInjective(fused)
    /\ config.strategy # "queries" => Len(fused) <= config.top_k
    /\ \A j \in DOMAIN fused : \A d \in Keys(asked) :
         Outranks(d, fused[j]) => \E i \in 1..(j - 1) : fused[i] = d

\* After the filter no two documents are alike, and one that is gone was like one that is left.
NoTwoAlike ==
  (config.filter /\ stage = "filtered") =>
    /\ \A i, j \in DOMAIN docs : i # j => <<docs[i], docs[j]>> \notin Similar
    /\ \A d \in ToSet(fused) : d \in ToSet(docs) \/ \E e \in ToSet(docs) : <<e, d>> \in Similar

TopDocuments == BestFirst /\ NoTwoAlike
===============================================================================

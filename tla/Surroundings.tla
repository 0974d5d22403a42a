----------------------------- MODULE Surroundings -----------------------------
(***************************************************************************)
(* What surrounds an agent's run, and what is proved of it: the sources    *)
(* that its documents are loaded from, the stores that they and other      *)
(* values are kept in, and the hooks of the middleware around it.  They    *)
(* share no state; each is an instance over variables of its own.          *)
(***************************************************************************)
EXTENDS Naturals, Sequences

CONSTANTS Page, RootPage, Sites, CrawlSettings
VARIABLES site, setting, to_visit, visited, pages_loaded, crawled, failed, ended
crawlers_vars == <<site, setting, to_visit, visited, pages_loaded, crawled, failed, ended>>

Crawlers == INSTANCE Crawl WITH Root <- RootPage, Settings <- CrawlSettings, docs <- crawled

\* max_depth and max_pages are counts.
ASSUME CrawlAssumption ==
  /\ RootPage \in Page
  /\ \A s \in Sites : \A u \in Page : s[u] \in Seq(Page)
  /\ \A c \in CrawlSettings : c.max_depth \in Nat /\ c.max_pages \in Nat

CONSTANTS Sources, UncutParts, Capacity
VARIABLES loader, source, then_split, threads, parts_read, gathered, channel, loaded, stream
loading_vars == <<loader, source, then_split, threads, parts_read, gathered, channel, loaded, stream>>

Loadings == INSTANCE Loading WITH
  Cut <- UncutParts, splits <- then_split, at <- parts_read, out <- loaded, state <- stream

\* A part is of one of four kinds.
ASSUME LoadingAssumption == Sources \subseteq Seq({"good", "empty", "bad", "left"})
CONSTANTS Adder, StoredDoc, DocSpace, DocBatches, DocScore, MaxDocIds
VARIABLES store, table, batch, given_ids, deleted, next_id
stores_vars == <<store, table, batch, given_ids, deleted, next_id>>

Stores == INSTANCE VectorStores WITH
  Caller <- Adder, Doc <- StoredDoc, Space <- DocSpace, Batches <- DocBatches,
  Score <- DocScore, MaxIds <- MaxDocIds, given <- given_ids

ASSUME BatchesAssumption == DocBatches \subseteq Seq(StoredDoc)

CONSTANTS Searcher, NameSegment, KeyNamespace, NamedKey, KeptValue, NearnessOf, KeyFilters,
          FoundLimits, MaxPuts
VARIABLES kept_by, named_items, puts, putting, searching, search_answer
keyed_vars == <<kept_by, named_items, puts, putting, searching, search_answer>>

Keyed == INSTANCE KeyStores WITH
  Caller <- Searcher, Namespace <- KeyNamespace, Key <- NamedKey, Value <- KeptValue,
  Nearness <- NearnessOf, Filters <- KeyFilters, MaxFound <- FoundLimits,
  kind <- kept_by, data <- named_items, answer <- search_answer

\* A name is its segments, and a key has one at least; a limit is a count.
ASSUME NamesAssumption ==
  /\ KeyNamespace \subseteq Seq(NameSegment)
  /\ NamedKey \subseteq Seq(NameSegment) \ {<<>>}
  /\ FoundLimits \subseteq Nat

CONSTANTS Stacks, AgentInputs, ToolResults, HistoryThreshold, HistoryPreserve, MaxToolSteps
VARIABLES hook_stack, named, original, runtime_input, plan_input, steps, hook, hook_at,
          event, judged, evicted
hooks_vars ==
  <<hook_stack, named, original, runtime_input, plan_input, steps, hook, hook_at,
    event, judged, evicted>>

Middlewares == INSTANCE MiddlewareStack WITH
  Inputs <- AgentInputs, Results <- ToolResults, Threshold <- HistoryThreshold,
  Preserve <- HistoryPreserve, MaxSteps <- MaxToolSteps,
  stack <- hook_stack, request <- runtime_input, phase <- hook, at <- hook_at,
  stored <- evicted

\* A stack is of middleware, and a result says whether it is large and secret.
ASSUME StacksAssumption ==
  /\ Stacks \subseteq Seq(STRING)
  /\ ToolResults \subseteq [large : BOOLEAN, secret : BOOLEAN]
  /\ MaxToolSteps \in Nat

-------------------------------------------------------------------------------
(* The properties are those of the components, where they are explained.   *)

\* Crawl, Loading: no page is yielded twice, and the pages within reach are come to, but
\* for those behind a page that failed or was first found at the deepest level;
\* documents come in order, and errors tell what was lost.
SourcesAreLoaded ==
  /\ Crawlers!LinksAreFollowed
  /\ Loadings!DocumentsInOrder /\ Loadings!LossIsTold /\ Loadings!ErrorsAreReal

\* VectorStores, KeyStores: a returned id is that of its document, a listed name is read,
\* names are kept apart, and what a search answers is there and the best.
StoresKeepTheirWord ==
  /\ Stores!ReturnedIdsAreStored
  /\ Keyed!ListedKeysAreRead /\ Keyed!NamesAreKeptApart /\ Keyed!BestAreFound

\* MiddlewareStack: an evicted result is kept under the key that is named, and what is
\* detected, or not found safe, is neither shown nor returned.
HooksGuard == Middlewares!EvictedResultsAreKept /\ Middlewares!AnswersAreGuarded
===============================================================================

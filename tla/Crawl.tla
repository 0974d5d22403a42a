-------------------------------- MODULE Crawl --------------------------------
(***************************************************************************)
(* The loaders that follow a site: RecursiveUrlLoader, from its root link  *)
(* by link with a stack of pages to visit, and SitemapLoader, which takes  *)
(* the pages of a sitemap one after another.  A page may fail to load.     *)
(***************************************************************************)
EXTENDS Naturals, FiniteSetsExt, Selection

CONSTANTS
  Page,
  Root,
  Sites,       \* functions from pages to the sequences of their links on the same host
  Settings     \* [loader, max_depth, max_pages, excluded], where 0 pages is no maximum

VARIABLES
  site, setting,
  to_visit,      \* the stack of [url, depth], its top the last; or the sitemap's rest
  visited,
  pages_loaded,
  docs,          \* the documents yielded, as [url, depth]
  failed,        \* the pages that gave an error
  ended          \* "no", "all", or "limit"

vars == <<site, setting, to_visit, visited, pages_loaded, docs, failed, ended>>

Entry(url, depth) == [url |-> url, depth |-> depth]

Recursive == setting.loader = "recursive"

\* should_include_url, or the filters of the sitemap
Included(url) == url \notin setting.excluded

\* What a page links to, of some urls, each at a depth.
EntriesOf(links, urls, depth) ==
  LET kept == Selected(links, {i \in DOMAIN links : links[i] \in urls})
  IN  [i \in DOMAIN kept |-> Entry(kept[i], depth)]

Init ==
  /\ site \in Sites /\ setting \in Settings
  /\ to_visit = IF Recursive THEN <<Entry(Root, 0)>>
                ELSE EntriesOf(site[Root], Page \ setting.excluded, 0)
  /\ visited = {} /\ pages_loaded = 0
  /\ docs = <<>> /\ failed = {} /\ ended = "no"

Crawling == ended = "no" /\ to_visit # <<>>

\* to_visit.pop(); the sitemap's pages come in their order.
Next_  == IF Recursive THEN Last(to_visit) ELSE Head(to_visit)
Popped == IF Recursive THEN Front(to_visit) ELSE Tail(to_visit)

-------------------------------------------------------------------------------
\* Fault: the deepest level is not loaded.
TooDeepEarly == Next_.depth >= setting.max_depth

TooDeep == Next_.depth > setting.max_depth

LimitReached == setting.max_pages > 0 /\ pages_loaded >= setting.max_pages

Stop ==
  /\ Crawling /\ Recursive
  /\ ~TooDeep /\ LimitReached
  /\ ended' = "limit"
  /\ UNCHANGED <<site, setting, to_visit, visited, pages_loaded, docs, failed>>

Skip ==
  /\ Crawling /\ Recursive
  /\ \/ TooDeep
     \/ ~LimitReached /\ (Next_.url \in visited \/ ~Included(Next_.url))
  /\ to_visit' = Popped
  /\ UNCHANGED <<site, setting, visited, pages_loaded, docs, failed, ended>>

Wanted ==
  /\ Crawling
  /\ Recursive => ~TooDeep /\ ~LimitReached /\ Next_.url \notin visited /\ Included(Next_.url)

\* A page counts as visited, and as loaded, before it is fetched.
Visits ==
  /\ visited' = visited \cup {Next_.url}
  /\ pages_loaded' = pages_loaded + 1
  /\ UNCHANGED <<site, setting, ended>>

\* extract_links, pushed where the page is not at the deepest level.
Links(entry) ==
  IF entry.depth < setting.max_depth
  THEN EntriesOf(site[entry.url], Page \ (visited \cup {entry.url}), entry.depth + 1)
  ELSE <<>>

Load ==
  /\ Wanted
  /\ Visits
  /\ docs' = Append(docs, Next_)
  /\ to_visit' = IF Recursive THEN Popped \o Links(Next_) ELSE Popped
  /\ UNCHANGED failed

\* The fetch fails, or nothing readable comes of it: an Err, and no links.
LoadFails ==
  /\ Wanted
  /\ Visits
  /\ failed' = failed \cup {Next_.url}
  /\ to_visit' = Popped
  /\ UNCHANGED docs

End ==
  /\ ended = "no" /\ to_visit = <<>>
  /\ ended' = "all"
  /\ UNCHANGED <<site, setting, to_visit, visited, pages_loaded, docs, failed>>

Next == Stop \/ Skip \/ Load \/ LoadFails \/ End

Spec == Init /\ [][Next]_vars

-------------------------------------------------------------------------------
Entries == [url : Page, depth : Nat]

TypeOK ==
  /\ site \in Sites /\ setting \in Settings
  /\ to_visit \in Seq(Entries) /\ docs \in Seq(Entries)
  /\ visited \subseteq Page /\ failed \subseteq Page
  /\ pages_loaded \in Nat /\ ended \in {"no", "all", "limit"}

Reached(url) == url \in failed \cup {d.url : d \in ToSet(docs)}

\* A page without links for the crawl: it failed, or was loaded at the deepest level.
LeadsNowhere(url) ==
  url \in failed \/ \E d \in ToSet(docs) : d.url = url /\ d.depth >= setting.max_depth

\* A chain of n links from the root, through pages that are included.
Chain(p, n) ==
  /\ p[0] = Root
  /\ \A i \in 0..n : Included(p[i])
  /\ \A i \in 1..n : p[i] \in ToSet(site[p[i - 1]])

\* The recursive loader yields no page twice and no more than max_pages, each by a
\* chain of links as long as its depth.  When it has come to the end of its stack, every
\* page within max_depth links of the root has been loaded or has failed, but for those
\* behind a page that failed, or that the depth-first crawl came to at the deepest level
\* by a longer chain: that page counts as visited from then on, its links are not
\* followed, and what only they lead to is passed over.
LinksAreFollowed ==
  Recursive =>
    /\ \A i, j \in DOMAIN docs : i # j => docs[i].url # docs[j].url
    /\ setting.max_pages > 0 => Len(docs) + Cardinality(failed) <= setting.max_pages
    /\ \A i \in DOMAIN docs :
         \/ docs[i] = Entry(Root, 0)
         \/ \E j \in 1..(i - 1) : /\ docs[j].depth + 1 = docs[i].depth
                                  /\ docs[i].url \in ToSet(site[docs[j].url])
    /\ ended = "all" =>
         \A n \in 0..setting.max_depth : \A p \in [0..n -> Page] :
           Chain(p, n) => Reached(p[n]) \/ \E i \in 0..(n - 1) : LeadsNowhere(p[i])
===============================================================================

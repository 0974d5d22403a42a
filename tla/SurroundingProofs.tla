-------------------------- MODULE SurroundingProofs --------------------------
(***************************************************************************)
(* The theorems of Surroundings, each for any values of the constants:     *)
(* what a crawl yields, and which pages it comes to; in which order and    *)
(* with which errors the documents of a source arrive; that hooks keep and *)
(* hide what they should; and that stores keep what they told.             *)
(***************************************************************************)
EXTENDS Surroundings, SequenceFacts, FiniteSetTheorems
-------------------------------------------------------------------------------
(***************************************************************************)
(* Crawl.  What has been visited has failed or is a document, and what was *)
(* linked from a document above the deepest level has been visited, or is  *)
(* excluded, or is still on the stack.                                     *)
(***************************************************************************)

CrawlEntry == [url : Page, depth : Nat]

\* An entry is the root's, or a link of one of the first n documents, one level down.
LinkedFrom(entry, docs, n) ==
  \/ entry = Crawlers!Entry(RootPage, 0)
  \/ \E j \in 1..n : /\ docs[j].depth + 1 = entry.depth
                     /\ entry.url \in Crawlers!ToSet(site[docs[j].url])

PagesOf(docs) == {docs[i].url : i \in 1..Len(docs)}

StackHolds(stack, docs) ==
  /\ stack \in Seq(CrawlEntry)
  /\ \A k \in 1..Len(stack) :
       stack[k].depth <= setting.max_depth /\ LinkedFrom(stack[k], docs, Len(docs))

DocsHold(docs) ==
  /\ docs \in Seq(CrawlEntry)
  /\ \A i, j \in 1..Len(docs) : i # j => docs[i].url # docs[j].url
  /\ \A i \in 1..Len(docs) : LinkedFrom(docs[i], docs, i - 1)

NoneIsLeftOut(stack, docs, pages) ==
  \A i \in 1..Len(docs) : docs[i].depth < setting.max_depth =>
    \A u \in Crawlers!ToSet(site[docs[i].url]) :
      Crawlers!Included(u) => u \in pages \/ \E k \in 1..Len(stack) : stack[k].url = u

RootIsKnown(stack, pages) ==
  Crawlers!Included(RootPage) =>
    RootPage \in pages \/ \E k \in 1..Len(stack) : stack[k].url = RootPage

CountsHold(docs, pages, errors, count) ==
  /\ pages = errors \cup PagesOf(docs)
  /\ errors \cap PagesOf(docs) = {}
  /\ IsFiniteSet(errors)
  /\ count = Len(docs) + Cardinality(errors)
  /\ setting.max_pages > 0 => count <= setting.max_pages

CrawlHolds ==
  /\ setting \in CrawlSettings /\ site \in Sites
  /\ Crawlers!Recursive =>
       /\ StackHolds(to_visit, crawled)
       /\ DocsHold(crawled)
       /\ NoneIsLeftOut(to_visit, crawled, visited)
       /\ RootIsKnown(to_visit, visited)
       /\ CountsHold(crawled, visited, failed, pages_loaded)
       /\ ended = "all" => to_visit = <<>>

\* The entries of the links to some urls.
LEMMA EntriesAre ==
  ASSUME NEW links \in Seq(Page), NEW urls, NEW depth \in Nat
  PROVE  LET entries == Crawlers!EntriesOf(links, urls, depth)
         IN  /\ entries \in Seq(CrawlEntry)
             /\ \A k \in 1..Len(entries) :
                  entries[k].depth = depth /\ entries[k].url \in Crawlers!ToSet(links)
             /\ \A u \in Crawlers!ToSet(links) : u \in urls =>
                  \E k \in 1..Len(entries) : entries[k].url = u
<1> DEFINE P == {i \in DOMAIN links : links[i] \in urls}
<1>1. PICK kept : kept = Selected(links, P)
  OBVIOUS
<1>2. kept \in Seq(Page) /\ \E g : Selects(g, links, P, kept)
  BY <1>1, SelectedElements
<1>3. PICK g : Selects(g, links, P, kept)
  BY <1>2
<1>4. PICK n \in Nat : n = Len(kept) /\ DOMAIN kept = 1..n
  BY <1>2
<1>5. PICK m \in Nat : m = Len(links) /\ DOMAIN links = 1..m
  OBVIOUS
<1>6. /\ g \in [1..n -> 1..m]
      /\ \A r \in 1..n : g[r] \in P /\ kept[r] = links[g[r]]
      /\ \A i \in 1..m : i \in P => \E r \in 1..n : g[r] = i
  BY <1>3, <1>4, <1>5 DEF Selects
<1>7. PICK entries : entries = Crawlers!EntriesOf(links, urls, depth)
  OBVIOUS
<1>8. entries = [i \in 1..n |-> [url |-> kept[i], depth |-> depth]]
  BY <1>1, <1>4, <1>7
    DEF Crawlers!EntriesOf, Crawlers!Entry, Crawlers!Selected, Selected,
        Crawlers!FlattenSeq, FlattenSeq
<1>9. \A i \in 1..n : kept[i] \in Page
  BY <1>2, <1>4
<1>10. entries \in [1..n -> CrawlEntry]
  BY <1>8, <1>9 DEF CrawlEntry
<1>11. entries \in Seq(CrawlEntry) /\ Len(entries) = n
  BY ONLY <1>10, n \in Nat
<1>12. \A k \in 1..n : entries[k].depth = depth /\ entries[k].url = kept[k]
  BY <1>8
<1>13. \A k \in 1..n : kept[k] \in Crawlers!ToSet(links)
  BY <1>5, <1>6 DEF Crawlers!ToSet
<1>14. ASSUME NEW u \in Crawlers!ToSet(links), u \in urls
       PROVE  \E k \in 1..n : entries[k].url = u
  <2>1. PICK i \in 1..m : links[i] = u
    BY <1>5 DEF Crawlers!ToSet
  <2>2. PICK r \in 1..n : g[r] = i
    BY <1>5, <1>6, <1>14, <2>1
  <2> QED BY <1>6, <1>12, <2>1, <2>2
<1> QED BY <1>7, <1>11, <1>12, <1>13, <1>14

LEMMA CrawlInit ==
  ASSUME Crawlers!Init
  PROVE  CrawlHolds
<1> USE DEF Crawlers!Init
<1>1. setting \in CrawlSettings /\ site \in Sites
  OBVIOUS
<1>2. ASSUME Crawlers!Recursive
      PROVE  /\ StackHolds(to_visit, crawled)
             /\ DocsHold(crawled)
             /\ NoneIsLeftOut(to_visit, crawled, visited)
             /\ RootIsKnown(to_visit, visited)
             /\ CountsHold(crawled, visited, failed, pages_loaded)
             /\ ended = "all" => to_visit = <<>>
  <2>1. PICK e : e = Crawlers!Entry(RootPage, 0)
    OBVIOUS
  <2>2. e \in CrawlEntry /\ e.depth = 0
    BY <2>1, CrawlAssumption DEF Crawlers!Entry, CrawlEntry
  <2>3. to_visit = <<e>>
    BY <1>2, <2>1
  <2>4. to_visit \in Seq(CrawlEntry) /\ Len(to_visit) = 1 /\ to_visit[1] = e
    BY <2>2, <2>3
  <2>5. setting.max_depth \in Nat /\ setting.max_pages \in Nat
    BY <1>1, CrawlAssumption
  <2>6. StackHolds(to_visit, crawled)
    <3>1. LinkedFrom(e, crawled, Len(crawled))
      BY <2>1 DEF LinkedFrom
    <3>2. 0 <= setting.max_depth
      BY <2>5
    <3> QED BY ONLY <2>2, <2>4, <3>1, <3>2 DEF StackHolds
  <2>7. crawled = <<>> /\ Len(crawled) = 0 /\ crawled \in Seq(CrawlEntry)
    OBVIOUS
  <2>8. DocsHold(crawled) /\ NoneIsLeftOut(to_visit, crawled, visited)
    BY <2>7 DEF DocsHold, NoneIsLeftOut
  <2>9. PagesOf(crawled) = {}
    BY <2>7 DEF PagesOf
  <2>10. CountsHold(crawled, visited, failed, pages_loaded)
    BY <2>5, <2>7, <2>9, FS_EmptySet DEF CountsHold
  <2>11. e.url = RootPage
    BY <2>1 DEF Crawlers!Entry
  <2>12. RootIsKnown(to_visit, visited)
    BY <2>4, <2>11 DEF RootIsKnown
  <2> QED BY <2>6, <2>8, <2>10, <2>12
<1> QED BY <1>1, <1>2 DEF CrawlHolds

\* What is left when the top of the stack is taken.
LEMMA PoppedIs ==
  ASSUME CrawlHolds, Crawlers!Recursive, to_visit # <<>>
  PROVE  \E n \in Nat :
           /\ Len(to_visit) = n + 1
           /\ Crawlers!Next_ = to_visit[n + 1]
           /\ Crawlers!Popped \in Seq(CrawlEntry) /\ Len(Crawlers!Popped) = n
           /\ \A k \in 1..n : Crawlers!Popped[k] = to_visit[k]
<1>1. to_visit \in Seq(CrawlEntry)
  BY DEF CrawlHolds, StackHolds
<1>2. PICK n \in Nat : Len(to_visit) = n + 1
  <2>1. PICK m \in Nat : m = Len(to_visit)
    BY <1>1
  <2>2. m # 0
    BY <1>1, <2>1
  <2>3. m - 1 \in Nat /\ m = (m - 1) + 1
    BY <2>2
  <2> QED BY <2>1, <2>3
<1>3. Crawlers!Next_ = to_visit[n + 1]
  BY <1>2 DEF Crawlers!Next_, Crawlers!Last
<1>4. Crawlers!Popped = SubSeq(to_visit, 1, n)
  <2>1. Crawlers!Popped = SubSeq(to_visit, 1, Len(to_visit) - 1)
    BY DEF Crawlers!Popped, Crawlers!Front
  <2>2. Len(to_visit) - 1 = n
    BY <1>2
  <2> QED BY <2>1, <2>2
<1>5. n <= Len(to_visit)
  BY <1>2
<1> QED BY <1>1, <1>2, <1>3, <1>4, <1>5, FrontOfSeq

\* The entry that is taken, and the links of its page.
LEMMA TakenIs ==
  ASSUME CrawlHolds, Crawlers!Recursive, Crawlers!Crawling
  PROVE  LET entry == Crawlers!Next_
             links == Crawlers!Links(entry)
         IN  /\ entry \in CrawlEntry
             /\ entry.depth <= setting.max_depth
             /\ LinkedFrom(entry, crawled, Len(crawled))
             /\ links \in Seq(CrawlEntry)
             /\ \A k \in 1..Len(links) :
                  /\ links[k].depth = entry.depth + 1 /\ links[k].depth <= setting.max_depth
                  /\ links[k].url \in Crawlers!ToSet(site[entry.url])
             /\ entry.depth < setting.max_depth =>
                  \A u \in Crawlers!ToSet(site[entry.url]) :
                    \/ u \in visited \cup {entry.url}
                    \/ \E k \in 1..Len(links) : links[k].url = u
<1>1. PICK n \in Nat : Len(to_visit) = n + 1 /\ Crawlers!Next_ = to_visit[n + 1]
  BY PoppedIs DEF Crawlers!Crawling
<1>2. PICK entry : entry = Crawlers!Next_
  OBVIOUS
<1>3. StackHolds(to_visit, crawled)
  BY DEF CrawlHolds
<1>4. /\ entry \in CrawlEntry
      /\ entry.depth <= setting.max_depth
      /\ LinkedFrom(entry, crawled, Len(crawled))
  <2>1. n + 1 \in 1..Len(to_visit)
    BY <1>1
  <2> QED BY <1>1, <1>2, <1>3, <2>1 DEF StackHolds
<1>5. entry.url \in Page /\ entry.depth \in Nat /\ entry.depth + 1 \in Nat
  BY <1>4 DEF CrawlEntry
<1>6. site[entry.url] \in Seq(Page) /\ setting.max_depth \in Nat
  BY <1>5, CrawlAssumption DEF CrawlHolds
<1>7. PICK page_links : page_links = site[entry.url]
  OBVIOUS
<1>8. PICK links : links = Crawlers!Links(entry)
  OBVIOUS
<1>9. CASE entry.depth < setting.max_depth
  <2>1. PICK urls : urls = Page \ (visited \cup {entry.url})
    OBVIOUS
  <2>2. PICK depth \in Nat : depth = entry.depth + 1
    BY <1>5
  <2>3. links = Crawlers!EntriesOf(page_links, urls, depth)
    BY <1>7, <1>8, <1>9, <2>1, <2>2 DEF Crawlers!Links
  <2>4. page_links \in Seq(Page)
    BY <1>6, <1>7
  <2>5. /\ links \in Seq(CrawlEntry)
        /\ \A k \in 1..Len(links) :
             links[k].depth = depth /\ links[k].url \in Crawlers!ToSet(page_links)
        /\ \A u \in Crawlers!ToSet(page_links) : u \in urls =>
             \E k \in 1..Len(links) : links[k].url = u
    BY <2>3, <2>4, EntriesAre
  <2>6. \A u \in Crawlers!ToSet(page_links) : u \in Page
    BY <2>4 DEF Crawlers!ToSet
  <2>7. depth <= setting.max_depth
    BY <1>5, <1>6, <1>9, <2>2
  <2>8. \A u \in Crawlers!ToSet(page_links) :
          u \in visited \cup {entry.url} \/ \E k \in 1..Len(links) : links[k].url = u
    BY <2>1, <2>5, <2>6
  <2> QED BY <1>2, <1>4, <1>7, <1>8, <2>2, <2>5, <2>7, <2>8
<1>10. CASE ~(entry.depth < setting.max_depth)
  <2>1. links = <<>>
    BY <1>8, <1>10 DEF Crawlers!Links
  <2>2. links \in Seq(CrawlEntry) /\ Len(links) = 0 /\ 1..Len(links) = {}
    BY <2>1
  <2> QED BY <1>2, <1>4, <1>8, <1>10, <2>2
<1> QED BY <1>9, <1>10

\* A page of the stack that is passed over needs no loading.
LEMMA CrawlSkips ==
  ASSUME CrawlHolds, Crawlers!Recursive, Crawlers!Skip
  PROVE  CrawlHolds'
<1>1. /\ Crawlers!Crawling /\ to_visit' = Crawlers!Popped
      /\ UNCHANGED <<site, setting, visited, pages_loaded, crawled, failed, ended>>
  BY DEF Crawlers!Skip
<1>2. /\ setting \in CrawlSettings /\ site \in Sites
      /\ StackHolds(to_visit, crawled) /\ DocsHold(crawled)
      /\ NoneIsLeftOut(to_visit, crawled, visited) /\ RootIsKnown(to_visit, visited)
      /\ CountsHold(crawled, visited, failed, pages_loaded)
  BY DEF CrawlHolds
<1>3. PICK n \in Nat : /\ Len(to_visit) = n + 1 /\ Crawlers!Next_ = to_visit[n + 1]
                       /\ Crawlers!Popped \in Seq(CrawlEntry) /\ Len(Crawlers!Popped) = n
                       /\ \A k \in 1..n : Crawlers!Popped[k] = to_visit[k]
  BY <1>1, PoppedIs DEF Crawlers!Crawling
<1>4. PICK stack : stack = Crawlers!Popped
  OBVIOUS
<1>5. StackHolds(stack, crawled)
  BY <1>2, <1>3, <1>4 DEF StackHolds
<1>6. to_visit[n + 1].url \in visited \/ ~Crawlers!Included(to_visit[n + 1].url)
  <2>1. n + 1 \in 1..Len(to_visit)
    BY <1>3
  <2>2. to_visit[n + 1].depth <= setting.max_depth /\ to_visit[n + 1].depth \in Nat
    <3>1. to_visit[n + 1] \in CrawlEntry
      BY <1>2, <2>1 DEF StackHolds
    <3>2. to_visit[n + 1].depth <= setting.max_depth
      BY <1>2, <2>1 DEF StackHolds
    <3> QED BY <3>1, <3>2 DEF CrawlEntry
  <2>3. setting.max_depth \in Nat
    BY <1>2, CrawlAssumption
  <2>4. ~Crawlers!TooDeep
    BY <1>3, <2>2, <2>3 DEF Crawlers!TooDeep
  <2> QED BY <1>3, <2>4 DEF Crawlers!Skip
<1>7. NoneIsLeftOut(stack, crawled, visited)
  <2> SUFFICES ASSUME NEW i \in 1..Len(crawled), crawled[i].depth < setting.max_depth,
                      NEW u \in Crawlers!ToSet(site[crawled[i].url]), Crawlers!Included(u),
                      u \notin visited
               PROVE  \E k \in 1..Len(stack) : stack[k].url = u
    BY DEF NoneIsLeftOut
  <2>1. PICK k \in 1..Len(to_visit) : to_visit[k].url = u
    BY <1>2 DEF NoneIsLeftOut
  <2>2. k # n + 1
    BY <1>6, <2>1
  <2>3. k \in 1..n
    BY <1>3, <2>1, <2>2
  <2> QED BY <1>3, <1>4, <2>1, <2>3
<1>8. RootIsKnown(stack, visited)
  <2> SUFFICES ASSUME Crawlers!Included(RootPage), RootPage \notin visited
               PROVE  \E k \in 1..Len(stack) : stack[k].url = RootPage
    BY DEF RootIsKnown
  <2>1. PICK k \in 1..Len(to_visit) : to_visit[k].url = RootPage
    BY <1>2 DEF RootIsKnown
  <2>2. k # n + 1
    BY <1>6, <2>1
  <2>3. k \in 1..n
    BY <1>3, <2>1, <2>2
  <2> QED BY <1>3, <1>4, <2>1, <2>3
<1>9. ended' = "no"
  BY <1>1 DEF Crawlers!Crawling
<1>10. /\ StackHolds(to_visit, crawled)' /\ DocsHold(crawled)'
       /\ NoneIsLeftOut(to_visit, crawled, visited)' /\ RootIsKnown(to_visit, visited)'
       /\ CountsHold(crawled, visited, failed, pages_loaded)'
  BY <1>1, <1>2, <1>4, <1>5, <1>7, <1>8
    DEF StackHolds, DocsHold, NoneIsLeftOut, RootIsKnown, CountsHold, LinkedFrom,
        Crawlers!Included, PagesOf
<1> QED BY <1>1, <1>2, <1>9, <1>10 DEF CrawlHolds

\* A page that fails was not counted before.
LEMMA CrawlFails ==
  ASSUME CrawlHolds, Crawlers!Recursive, Crawlers!LoadFails
  PROVE  CrawlHolds'
<1>1. PICK entry : entry = Crawlers!Next_
  OBVIOUS
<1>2. /\ Crawlers!Crawling /\ to_visit' = Crawlers!Popped
      /\ visited' = visited \cup {entry.url} /\ pages_loaded' = pages_loaded + 1
      /\ failed' = failed \cup {entry.url}
      /\ UNCHANGED <<site, setting, crawled, ended>>
      /\ ~Crawlers!LimitReached /\ entry.url \notin visited
  BY <1>1 DEF Crawlers!LoadFails, Crawlers!Wanted, Crawlers!Visits
<1>3. /\ setting \in CrawlSettings /\ site \in Sites
      /\ StackHolds(to_visit, crawled) /\ DocsHold(crawled)
      /\ NoneIsLeftOut(to_visit, crawled, visited) /\ RootIsKnown(to_visit, visited)
      /\ CountsHold(crawled, visited, failed, pages_loaded)
  BY DEF CrawlHolds
<1>4. PICK n \in Nat : /\ Len(to_visit) = n + 1 /\ Crawlers!Next_ = to_visit[n + 1]
                       /\ Crawlers!Popped \in Seq(CrawlEntry) /\ Len(Crawlers!Popped) = n
                       /\ \A k \in 1..n : Crawlers!Popped[k] = to_visit[k]
  BY <1>2, PoppedIs DEF Crawlers!Crawling
<1>5. PICK stack : stack = Crawlers!Popped
  OBVIOUS
<1>6. PICK pages : pages = visited \cup {entry.url}
  OBVIOUS
<1>7. StackHolds(stack, crawled)
  BY <1>3, <1>4, <1>5 DEF StackHolds
<1>8. NoneIsLeftOut(stack, crawled, pages)
  <2> SUFFICES ASSUME NEW i \in 1..Len(crawled), crawled[i].depth < setting.max_depth,
                      NEW u \in Crawlers!ToSet(site[crawled[i].url]), Crawlers!Included(u),
                      u \notin pages
               PROVE  \E k \in 1..Len(stack) : stack[k].url = u
    BY DEF NoneIsLeftOut
  <2>1. PICK k \in 1..Len(to_visit) : to_visit[k].url = u
    BY <1>3, <1>6 DEF NoneIsLeftOut
  <2>2. k # n + 1
    BY <1>1, <1>4, <1>6, <2>1
  <2>3. k \in 1..n
    BY <1>4, <2>1, <2>2
  <2> QED BY <1>4, <1>5, <2>1, <2>3
<1>9. CountsHold(crawled, pages, failed \cup {entry.url}, pages_loaded + 1)
  <2>1. PICK more : more = failed \cup {entry.url}
    OBVIOUS
  <2>2. entry.url \notin failed /\ entry.url \notin PagesOf(crawled)
    BY <1>2, <1>3 DEF CountsHold
  <2>3. IsFiniteSet(more) /\ Cardinality(more) = Cardinality(failed) + 1
    BY <1>3, <2>1, <2>2, FS_AddElement DEF CountsHold
  <2>4. Cardinality(failed) \in Nat
    BY <1>3, FS_CardinalityType DEF CountsHold
  <2>5. PICK m \in Nat : m = Len(crawled)
    BY <1>3 DEF DocsHold
  <2>6. setting.max_pages \in Nat
    BY <1>3, CrawlAssumption
  <2>7. setting.max_pages > 0 => pages_loaded < setting.max_pages
    BY <1>2, <1>3, <2>4, <2>5, <2>6 DEF Crawlers!LimitReached, CountsHold
  <2>8. /\ pages_loaded + 1 = Len(crawled) + Cardinality(more)
        /\ setting.max_pages > 0 => pages_loaded + 1 <= setting.max_pages
    BY <1>3, <2>3, <2>4, <2>5, <2>6, <2>7 DEF CountsHold
  <2>9. pages = more \cup PagesOf(crawled) /\ more \cap PagesOf(crawled) = {}
    BY <1>3, <1>6, <2>1, <2>2 DEF CountsHold
  <2> QED BY <2>1, <2>3, <2>8, <2>9 DEF CountsHold
<1>10. ended' = "no"
  BY <1>2 DEF Crawlers!Crawling
<1>11. StackHolds(to_visit, crawled)' /\ DocsHold(crawled)'
  BY <1>2, <1>3, <1>5, <1>7 DEF StackHolds, DocsHold, LinkedFrom
<1>12. NoneIsLeftOut(to_visit, crawled, visited)'
  BY <1>2, <1>5, <1>6, <1>8 DEF NoneIsLeftOut, Crawlers!Included
<1>13. CountsHold(crawled, visited, failed, pages_loaded)'
  BY <1>2, <1>6, <1>9 DEF CountsHold, PagesOf
<1>14. RootIsKnown(stack, pages)
  <2> SUFFICES ASSUME Crawlers!Included(RootPage), RootPage \notin pages
               PROVE  \E k \in 1..Len(stack) : stack[k].url = RootPage
    BY DEF RootIsKnown
  <2>1. PICK k \in 1..Len(to_visit) : to_visit[k].url = RootPage
    BY <1>3, <1>6 DEF RootIsKnown
  <2>2. k # n + 1
    BY <1>1, <1>4, <1>6, <2>1
  <2>3. k \in 1..n
    BY <1>4, <2>1, <2>2
  <2> QED BY <1>4, <1>5, <2>1, <2>3
<1>15. RootIsKnown(to_visit, visited)'
  BY <1>2, <1>5, <1>6, <1>14 DEF RootIsKnown, Crawlers!Included
<1> QED BY <1>2, <1>3, <1>10, <1>11, <1>12, <1>13, <1>15 DEF CrawlHolds

\* A page that loads puts its links on the stack.
LEMMA CrawlLoads ==
  ASSUME CrawlHolds, Crawlers!Recursive, Crawlers!Load
  PROVE  CrawlHolds'
<1>1. PICK entry : entry = Crawlers!Next_
  OBVIOUS
<1>2. PICK links : links = Crawlers!Links(entry)
  OBVIOUS
<1>3. PICK rest : rest = Crawlers!Popped
  OBVIOUS
<1>4. /\ Crawlers!Crawling /\ to_visit' = rest \o links
      /\ visited' = visited \cup {entry.url} /\ pages_loaded' = pages_loaded + 1
      /\ crawled' = Append(crawled, entry)
      /\ UNCHANGED <<site, setting, failed, ended>>
      /\ ~Crawlers!LimitReached /\ entry.url \notin visited
  BY <1>1, <1>2, <1>3 DEF Crawlers!Load, Crawlers!Wanted, Crawlers!Visits
<1>5. /\ setting \in CrawlSettings /\ site \in Sites
      /\ StackHolds(to_visit, crawled) /\ DocsHold(crawled)
      /\ NoneIsLeftOut(to_visit, crawled, visited) /\ RootIsKnown(to_visit, visited)
      /\ CountsHold(crawled, visited, failed, pages_loaded)
  BY DEF CrawlHolds
<1>6. PICK n \in Nat : /\ Len(to_visit) = n + 1 /\ entry = to_visit[n + 1]
                       /\ rest \in Seq(CrawlEntry) /\ Len(rest) = n
                       /\ \A k \in 1..n : rest[k] = to_visit[k]
  BY <1>1, <1>3, <1>4, PoppedIs DEF Crawlers!Crawling
<1>7. /\ entry \in CrawlEntry
      /\ entry.depth <= setting.max_depth
      /\ LinkedFrom(entry, crawled, Len(crawled))
      /\ links \in Seq(CrawlEntry)
      /\ \A k \in 1..Len(links) :
           /\ links[k].depth = entry.depth + 1 /\ links[k].depth <= setting.max_depth
           /\ links[k].url \in Crawlers!ToSet(site[entry.url])
      /\ entry.depth < setting.max_depth =>
           \A u \in Crawlers!ToSet(site[entry.url]) :
             u \in visited \cup {entry.url} \/ \E k \in 1..Len(links) : links[k].url = u
  BY <1>1, <1>2, <1>4, TakenIs
<1>8. PICK l \in Nat : Len(links) = l
  BY <1>7
<1>9. PICK stack : stack = rest \o links
  OBVIOUS
<1>10. /\ stack \in Seq(CrawlEntry) /\ Len(stack) = n + l
       /\ \A k \in 1..n : stack[k] = to_visit[k]
       /\ \A k \in 1..l : stack[n + k] = links[k]
  <2>1. rest \in Seq(CrawlEntry) /\ links \in Seq(CrawlEntry) /\ Len(rest) = n /\ Len(links) = l
    BY <1>6, <1>7, <1>8
  <2>2. /\ stack \in Seq(CrawlEntry) /\ Len(stack) = n + l
        /\ \A k \in 1..n : stack[k] = rest[k]
        /\ \A k \in 1..l : stack[n + k] = links[k]
    <3>1. PICK S : S = CrawlEntry
      OBVIOUS
    <3>2. /\ rest \o links \in Seq(S) /\ Len(rest \o links) = n + l
          /\ \A k \in 1..n : (rest \o links)[k] = rest[k]
          /\ \A k \in 1..l : (rest \o links)[n + k] = links[k]
      <4>1. rest \in Seq(S) /\ links \in Seq(S) /\ Len(rest) = n /\ Len(links) = l
        BY <2>1, <3>1
      <4> QED BY ONLY <4>1, n \in Nat, l \in Nat, SMTT(30)
    <3> QED BY <1>9, <3>1, <3>2
  <2> QED BY <1>6, <2>2
<1>11. PICK m \in Nat : Len(crawled) = m
  BY <1>5 DEF DocsHold
<1>12. crawled \in Seq(CrawlEntry)
  BY <1>5 DEF DocsHold
<1>13. PICK docs : docs = Append(crawled, entry)
  OBVIOUS
<1>14. /\ docs \in Seq(CrawlEntry) /\ Len(docs) = m + 1 /\ docs[m + 1] = entry
       /\ \A i \in 1..m : docs[i] = crawled[i]
  BY ONLY <1>7, <1>11, <1>12, <1>13, m \in Nat
<1>15. ASSUME NEW e, NEW r \in 0..m, LinkedFrom(e, crawled, r), NEW q \in 0..(m + 1), r <= q
       PROVE  LinkedFrom(e, docs, q)
  <2>1. CASE e = Crawlers!Entry(RootPage, 0)
    BY <2>1 DEF LinkedFrom
  <2>2. CASE e # Crawlers!Entry(RootPage, 0)
    <3>1. PICK j \in 1..r : /\ crawled[j].depth + 1 = e.depth
                            /\ e.url \in Crawlers!ToSet(site[crawled[j].url])
      BY <1>15, <2>2 DEF LinkedFrom
    <3>2. j \in 1..m /\ j \in 1..q
      BY <1>15
    <3> QED BY <1>14, <3>1, <3>2 DEF LinkedFrom
  <2> QED BY <2>1, <2>2
<1>16. StackHolds(stack, docs)
  <2>1. ASSUME NEW k \in 1..(n + l)
        PROVE  stack[k].depth <= setting.max_depth /\ LinkedFrom(stack[k], docs, m + 1)
    <3>1. CASE k <= n
      <4>1. k \in 1..n /\ k \in 1..Len(to_visit)
        BY <1>6, <3>1
      <4>2. stack[k] = to_visit[k]
        BY <1>10, <4>1
      <4>3. to_visit[k].depth <= setting.max_depth /\ LinkedFrom(to_visit[k], crawled, m)
        BY <1>5, <1>11, <4>1 DEF StackHolds
      <4> QED BY <1>15, <4>2, <4>3
    <3>2. CASE ~(k <= n)
      <4>1. k - n \in 1..l /\ k = n + (k - n)
        BY <3>2
      <4>2. PICK i \in 1..l : i = k - n
        BY <4>1
      <4>3. stack[k] = links[i]
        BY <1>10, <4>1, <4>2
      <4>4. /\ links[i].depth = entry.depth + 1 /\ links[i].depth <= setting.max_depth
            /\ links[i].url \in Crawlers!ToSet(site[entry.url])
        BY <1>7, <1>8, <4>2
      <4>5. m + 1 \in 1..(m + 1)
        OBVIOUS
      <4>6. LinkedFrom(links[i], docs, m + 1)
        BY <1>14, <4>4, <4>5 DEF LinkedFrom
      <4> QED BY <4>3, <4>4, <4>6
    <3> QED BY <3>1, <3>2
  <2> QED BY <1>10, <1>14, <2>1 DEF StackHolds
<1>17. \A i \in 1..m : crawled[i].url \in visited
  BY <1>5, <1>11 DEF CountsHold, PagesOf
<1>18. DocsHold(docs)
  <2>1. ASSUME NEW i \in 1..(m + 1), NEW j \in 1..(m + 1), i # j
        PROVE  docs[i].url # docs[j].url
    <3>1. CASE i \in 1..m /\ j \in 1..m
      BY <1>5, <1>11, <1>14, <2>1, <3>1 DEF DocsHold
    <3>2. CASE i = m + 1
      <4>1. j \in 1..m
        BY <2>1, <3>2
      <4> QED BY <1>4, <1>14, <1>17, <3>2, <4>1
    <3>3. CASE j = m + 1
      <4>1. i \in 1..m
        BY <2>1, <3>3
      <4> QED BY <1>4, <1>14, <1>17, <3>3, <4>1
    <3>4. (i \in 1..m /\ j \in 1..m) \/ i = m + 1 \/ j = m + 1
      OBVIOUS
    <3> QED BY <3>1, <3>2, <3>3, <3>4
  <2>2. ASSUME NEW i \in 1..(m + 1)
        PROVE  LinkedFrom(docs[i], docs, i - 1)
    <3>1. CASE i <= m
      <4>1. i \in 1..m /\ i - 1 \in 0..m /\ i - 1 \in 0..(m + 1) /\ i - 1 <= i - 1
        BY <3>1
      <4>2. LinkedFrom(crawled[i], crawled, i - 1)
        BY <1>5, <1>11, <4>1 DEF DocsHold
      <4> QED BY <1>14, <1>15, <4>1, <4>2
    <3>2. CASE i = m + 1
      <4>1. i - 1 = m /\ m \in 0..m /\ m \in 0..(m + 1) /\ m <= m
        BY <3>2
      <4>2. LinkedFrom(entry, crawled, m)
        BY <1>7, <1>11
      <4>3. LinkedFrom(entry, docs, m)
        BY <1>15, <4>1, <4>2
      <4> QED BY <1>14, <3>2, <4>1, <4>3
    <3>3. i <= m \/ i = m + 1
      OBVIOUS
    <3> QED BY <3>1, <3>2, <3>3
  <2> QED BY <1>14, <2>1, <2>2 DEF DocsHold
<1>19. PICK pages : pages = visited \cup {entry.url}
  OBVIOUS
<1>20. NoneIsLeftOut(stack, docs, pages)
  <2> SUFFICES ASSUME NEW i \in 1..Len(docs), docs[i].depth < setting.max_depth,
                      NEW u \in Crawlers!ToSet(site[docs[i].url]), Crawlers!Included(u),
                      u \notin pages
               PROVE  \E k \in 1..Len(stack) : stack[k].url = u
    BY DEF NoneIsLeftOut
  <2>1. CASE i <= m
    <3>1. i \in 1..m /\ i \in 1..Len(crawled)
      BY <1>11, <1>14, <2>1
    <3>2. docs[i] = crawled[i]
      BY <1>14, <3>1
    <3>3. u \notin visited
      BY <1>19
    <3>4. PICK k \in 1..Len(to_visit) : to_visit[k].url = u
      BY <1>5, <3>1, <3>2, <3>3 DEF NoneIsLeftOut
    <3>5. k # n + 1
      BY <1>6, <1>19, <3>4
    <3>6. k \in 1..n /\ k \in 1..(n + l)
      BY <1>6, <3>4, <3>5
    <3> QED BY <1>10, <3>4, <3>6
  <2>2. CASE i = m + 1
    <3>1. docs[i] = entry
      BY <1>14, <2>2
    <3>2. PICK k \in 1..l : links[k].url = u
      BY <1>7, <1>8, <1>19, <3>1
    <3>3. n + k \in 1..(n + l) /\ stack[n + k] = links[k]
      BY <1>10
    <3> QED BY <1>10, <3>2, <3>3
  <2>3. i <= m \/ i = m + 1
    BY <1>14
  <2> QED BY <2>1, <2>2, <2>3
<1>21. CountsHold(docs, pages, failed, pages_loaded + 1)
  <2>1. PagesOf(docs) = PagesOf(crawled) \cup {entry.url}
    <3>1. ASSUME NEW i \in 1..(m + 1)
          PROVE  docs[i].url \in PagesOf(crawled) \cup {entry.url}
      <4>1. i \in 1..m \/ i = m + 1
        OBVIOUS
      <4> QED BY <1>11, <1>14, <4>1 DEF PagesOf
    <3>2. \A i \in 1..m : i \in 1..(m + 1) /\ docs[i].url = crawled[i].url
      BY <1>14
    <3>3. m + 1 \in 1..(m + 1)
      OBVIOUS
    <3> QED BY <1>11, <1>14, <3>1, <3>2, <3>3 DEF PagesOf
  <2>2. entry.url \notin failed /\ entry.url \notin PagesOf(crawled)
    BY <1>4, <1>5 DEF CountsHold
  <2>3. Cardinality(failed) \in Nat /\ setting.max_pages \in Nat
    BY <1>5, CrawlAssumption, FS_CardinalityType DEF CountsHold
  <2>4. setting.max_pages > 0 => pages_loaded < setting.max_pages
    BY <1>4, <1>5, <1>11, <2>3 DEF Crawlers!LimitReached, CountsHold
  <2>5. /\ pages_loaded + 1 = Len(docs) + Cardinality(failed)
        /\ setting.max_pages > 0 => pages_loaded + 1 <= setting.max_pages
    BY <1>5, <1>11, <1>14, <2>3, <2>4 DEF CountsHold
  <2>6. pages = failed \cup PagesOf(docs) /\ failed \cap PagesOf(docs) = {}
    BY <1>5, <1>19, <2>1, <2>2 DEF CountsHold
  <2>7. IsFiniteSet(failed)
    BY <1>5 DEF CountsHold
  <2> QED BY <2>5, <2>6, <2>7 DEF CountsHold
<1>22. ended' = "no"
  BY <1>4 DEF Crawlers!Crawling
<1>23. StackHolds(to_visit, crawled)' /\ DocsHold(crawled)'
  BY <1>4, <1>9, <1>13, <1>16, <1>18 DEF StackHolds, DocsHold, LinkedFrom
<1>24. NoneIsLeftOut(to_visit, crawled, visited)'
  BY <1>4, <1>9, <1>13, <1>19, <1>20 DEF NoneIsLeftOut, Crawlers!Included
<1>25. CountsHold(crawled, visited, failed, pages_loaded)'
  BY <1>4, <1>13, <1>19, <1>21 DEF CountsHold, PagesOf
<1>26. RootIsKnown(stack, pages)
  <2> SUFFICES ASSUME Crawlers!Included(RootPage), RootPage \notin pages
               PROVE  \E k \in 1..Len(stack) : stack[k].url = RootPage
    BY DEF RootIsKnown
  <2>1. PICK k \in 1..Len(to_visit) : to_visit[k].url = RootPage
    BY <1>5, <1>19 DEF RootIsKnown
  <2>2. k # n + 1
    BY <1>6, <1>19, <2>1
  <2>3. k \in 1..n /\ k \in 1..(n + l)
    BY <1>6, <2>1, <2>2
  <2> QED BY <1>10, <2>1, <2>3
<1>27. RootIsKnown(to_visit, visited)'
  BY <1>4, <1>9, <1>19, <1>26 DEF RootIsKnown, Crawlers!Included
<1> QED BY <1>4, <1>5, <1>22, <1>23, <1>24, <1>25, <1>27 DEF CrawlHolds

LEMMA CrawlStep ==
  ASSUME CrawlHolds, [Crawlers!Next]_crawlers_vars
  PROVE  CrawlHolds'
<1>1. setting' = setting /\ site' = site
  BY DEF crawlers_vars, Crawlers!Next, Crawlers!Stop, Crawlers!Skip, Crawlers!Load,
         Crawlers!LoadFails, Crawlers!End, Crawlers!Visits
<1>2. CASE ~Crawlers!Recursive
  BY <1>1, <1>2 DEF CrawlHolds, Crawlers!Recursive
<1>3. CASE Crawlers!Recursive
  <2>1. ASSUME /\ to_visit' = to_visit /\ crawled' = crawled /\ visited' = visited
               /\ failed' = failed /\ pages_loaded' = pages_loaded,
               ended' = "all" => to_visit' = <<>>
        PROVE  CrawlHolds'
    <3>1. StackHolds(to_visit, crawled)' /\ DocsHold(crawled)'
      BY <1>1, <1>3, <2>1 DEF CrawlHolds, StackHolds, DocsHold, LinkedFrom
    <3>2. NoneIsLeftOut(to_visit, crawled, visited)' /\ RootIsKnown(to_visit, visited)'
      BY <1>1, <1>3, <2>1 DEF CrawlHolds, NoneIsLeftOut, RootIsKnown, Crawlers!Included
    <3>3. CountsHold(crawled, visited, failed, pages_loaded)'
      BY <1>1, <1>3, <2>1 DEF CrawlHolds, CountsHold, PagesOf
    <3>4. setting' \in CrawlSettings /\ site' \in Sites
      BY <1>1 DEF CrawlHolds
    <3> QED BY <2>1, <3>1, <3>2, <3>3, <3>4 DEF CrawlHolds
  <2>2. CASE Crawlers!Stop
    BY <2>1, <2>2 DEF Crawlers!Stop
  <2>3. CASE Crawlers!Skip
    BY <1>3, <2>3, CrawlSkips
  <2>4. CASE Crawlers!Load
    BY <1>3, <2>4, CrawlLoads
  <2>5. CASE Crawlers!LoadFails
    BY <1>3, <2>5, CrawlFails
  <2>6. CASE Crawlers!End
    BY <2>1, <2>6 DEF Crawlers!End
  <2>7. CASE UNCHANGED crawlers_vars
    BY <1>3, <2>1, <2>7 DEF crawlers_vars, CrawlHolds
  <2> QED BY <2>2, <2>3, <2>4, <2>5, <2>6, <2>7 DEF Crawlers!Next
<1> QED BY <1>2, <1>3

LEMMA CrawlIsRight ==
  ASSUME CrawlHolds
  PROVE  Crawlers!LinksAreFollowed
<1> SUFFICES ASSUME Crawlers!Recursive
             PROVE  Crawlers!LinksAreFollowed
  BY DEF Crawlers!LinksAreFollowed
<1>1. /\ DocsHold(crawled) /\ NoneIsLeftOut(to_visit, crawled, visited)
      /\ RootIsKnown(to_visit, visited)
      /\ CountsHold(crawled, visited, failed, pages_loaded)
      /\ ended = "all" => to_visit = <<>>
  BY DEF CrawlHolds
<1>2. PICK m \in Nat : m = Len(crawled) /\ DOMAIN crawled = 1..m
  BY <1>1 DEF DocsHold
<1>3. \A i, j \in DOMAIN crawled : i # j => crawled[i].url # crawled[j].url
  BY <1>1, <1>2 DEF DocsHold
<1>4. setting.max_pages > 0 => Len(crawled) + Crawlers!Cardinality(failed) <= setting.max_pages
  BY <1>1 DEF CountsHold, Crawlers!Cardinality, Cardinality
<1>5. \A i \in DOMAIN crawled :
        \/ crawled[i] = Crawlers!Entry(RootPage, 0)
        \/ \E j \in 1..(i - 1) : /\ crawled[j].depth + 1 = crawled[i].depth
                                 /\ crawled[i].url \in Crawlers!ToSet(site[crawled[j].url])
  BY <1>1, <1>2 DEF DocsHold, LinkedFrom
<1>6. /\ \A i \in 1..m : crawled[i] \in Crawlers!ToSet(crawled)
      /\ \A d \in Crawlers!ToSet(crawled) : \E i \in 1..m : d = crawled[i]
  BY <1>2 DEF Crawlers!ToSet
<1>7. \A u : u \in visited <=> Crawlers!Reached(u)
  BY <1>1, <1>2, <1>6 DEF CountsHold, PagesOf, Crawlers!Reached
<1>8. ASSUME ended = "all", NEW u, Crawlers!Reached(u), ~Crawlers!LeadsNowhere(u),
             NEW v \in Crawlers!ToSet(site[u]), Crawlers!Included(v)
      PROVE  Crawlers!Reached(v)
  <2>1. PICK i \in 1..m : crawled[i].url = u
    BY <1>6, <1>8 DEF Crawlers!Reached, Crawlers!LeadsNowhere
  <2>2. setting.max_depth \in Nat /\ crawled[i].depth \in Nat
    <3>1. crawled[i] \in CrawlEntry
      BY <1>1, <1>2 DEF DocsHold
    <3> QED BY <3>1, CrawlAssumption DEF CrawlHolds, CrawlEntry
  <2>3. crawled[i].depth < setting.max_depth
    BY <1>6, <1>8, <2>1, <2>2 DEF Crawlers!LeadsNowhere
  <2>4. ~ \E k \in 1..Len(to_visit) : to_visit[k].url = v
    BY <1>1, <1>8
  <2>5. v \in visited
    BY <1>1, <1>2, <1>8, <2>1, <2>3, <2>4 DEF NoneIsLeftOut
  <2> QED BY <1>7, <2>5
<1>9. ASSUME ended = "all", NEW n \in 0..setting.max_depth, NEW p \in [0..n -> Page],
             Crawlers!Chain(p, n), ~ \E i \in 0..(n - 1) : Crawlers!LeadsNowhere(p[i])
      PROVE  Crawlers!Reached(p[n])
  <2> DEFINE S == {i \in Nat : i <= n => Crawlers!Reached(p[i])}
  <2>1. n \in Nat
    BY CrawlAssumption DEF CrawlHolds
  <2>2. 0 \in S
    <3>1. p[0] = RootPage /\ Crawlers!Included(RootPage)
      BY <1>9, <2>1 DEF Crawlers!Chain
    <3>2. RootPage \in visited
      BY <1>1, <1>9, <3>1 DEF RootIsKnown
    <3> QED BY <1>7, <3>1, <3>2
  <2>3. ASSUME NEW i \in Nat, i \in S
        PROVE  i + 1 \in S
    <3> SUFFICES ASSUME i + 1 <= n
                 PROVE  Crawlers!Reached(p[i + 1])
      OBVIOUS
    <3>1. i \in 0..(n - 1) /\ i + 1 \in 1..n /\ i + 1 \in 0..n /\ i <= n /\ (i + 1) - 1 = i
      BY <2>1
    <3>2. Crawlers!Reached(p[i]) /\ ~Crawlers!LeadsNowhere(p[i])
      BY <1>9, <2>3, <3>1
    <3>3. p[i + 1] \in Crawlers!ToSet(site[p[i]]) /\ Crawlers!Included(p[i + 1])
      <4>1. p[i + 1] \in Crawlers!ToSet(site[p[(i + 1) - 1]])
        BY <1>9, <3>1 DEF Crawlers!Chain
      <4>2. Crawlers!Included(p[i + 1])
        BY <1>9, <3>1 DEF Crawlers!Chain
      <4> QED BY <3>1, <4>1, <4>2
    <3> QED BY <1>8, <1>9, <3>2, <3>3
  <2> HIDE DEF S
  <2>4. Nat \subseteq S
    BY <2>2, <2>3, NatSetInduction
  <2> QED BY <2>1, <2>4 DEF S
<1> QED BY <1>3, <1>4, <1>5, <1>9 DEF Crawlers!LinksAreFollowed

-------------------------------------------------------------------------------
(***************************************************************************)
(* Loading.  The documents come from the parts up to some part, and what   *)
(* is read and not yielded from those after it; a part that was read and   *)
(* makes a document is in one of the two, or an error tells.               *)
(***************************************************************************)

PieceItem  == [parts : Seq(Nat), piece : 0..2]
ErrorItem  == [error : Nat]
LoadedItem == PieceItem \cup ErrorItem

DocsOf(items)   == Selected(items, {i \in DOMAIN items : "parts" \in DOMAIN items[i]})
ErrorsOf(items) == {items[i].error : i \in {i \in 1..Len(items) : "error" \in DOMAIN items[i]}}

\* Parts that make documents, after one part and up to another, in their order.
FitBetween(parts, from, to) ==
  /\ parts \in Seq(Nat)
  /\ \A i \in 1..Len(parts) :
       from < parts[i] /\ parts[i] <= to /\ Loadings!Makes(parts[i])
  /\ \A i, j \in 1..Len(parts) : i < j => parts[i] < parts[j]

IsUncut(parts) == then_split => \A i \in 1..Len(parts) : parts[i] \notin UncutParts

InOrder(earlier, later) ==
  \/ earlier.parts = later.parts /\ earlier.piece = 1 /\ later.piece = 2
  \/ /\ earlier.parts[Len(earlier.parts)] < later.parts[1]
     /\ earlier.piece # 1 /\ later.piece # 2

PartsFit(docs, upto) ==
  \A i \in 1..Len(docs) :
    /\ docs[i].parts # <<>>
    /\ FitBetween(docs[i].parts, 0, upto) /\ IsUncut(docs[i].parts)

AllInOrder(docs) == \A i \in 2..Len(docs) : InOrder(docs[i - 1], docs[i])

NoneIsHalf(docs) == docs # <<>> => docs[Len(docs)].piece # 1

ErrorsFit(errors) ==
  \A e \in errors : e \in Nat /\ (source[e] = "bad" \/ (then_split /\ e \in UncutParts))

IsIn(parts, i) == \E k \in 1..Len(parts) : parts[k] = i

IsLoaded(docs, i) == \E k \in 1..Len(docs) : IsIn(docs[k].parts, i)

IsTold(errors, i) == \E e \in errors : e <= i \/ loader.ahead \/ loader.joined

NoneIsLost(docs, errors, kept, upto) ==
  \A i \in 1..upto : Loadings!Makes(i) =>
    IsLoaded(docs, i) \/ IsIn(kept, i) \/ IsTold(errors, i)

Accounts(docs, errors, kept, upto) ==
  /\ docs \in Seq(PieceItem)
  /\ \E mid \in 0..upto : PartsFit(docs, mid) /\ FitBetween(kept, mid, upto)
  /\ AllInOrder(docs) /\ NoneIsHalf(docs)
  /\ ErrorsFit(errors)
  /\ NoneIsLost(docs, errors, kept, upto)

\* A stream ends when all is read, or by an error at the next part; what is gathered then
\* was read ahead.
EndsHold(errors) ==
  /\ stream \in {"closing", "ended"} /\ loader.bad # "hush" =>
       parts_read = Len(source) \/ \E e \in errors : e <= parts_read + 1
  /\ stream = "ended" => channel = <<>> /\ (gathered = <<>> \/ errors # {})

LoadHolds ==
  /\ loader \in Loadings!Loaders
  /\ source \in Seq({"good", "empty", "bad", "left"})
  /\ parts_read \in 0..Len(source)
  /\ loaded \in Seq(LoadedItem)
  /\ IF Loadings!Sends THEN gathered = <<>> ELSE channel = <<>>
  /\ gathered # <<>> => loader.ahead \/ loader.joined
  /\ Accounts(DocsOf(loaded), ErrorsOf(loaded),
              IF Loadings!Sends THEN channel ELSE gathered, parts_read)
  /\ EndsHold(ErrorsOf(loaded))

\* What an item more adds.
LEMMA ItemsOneMore ==
  ASSUME NEW items \in Seq(LoadedItem), NEW x \in LoadedItem
  PROVE  /\ x \in PieceItem => /\ DocsOf(Append(items, x)) = Append(DocsOf(items), x)
                               /\ ErrorsOf(Append(items, x)) = ErrorsOf(items)
         /\ x \in ErrorItem => /\ DocsOf(Append(items, x)) = DocsOf(items)
                               /\ ErrorsOf(Append(items, x)) = ErrorsOf(items) \cup {x.error}
<1>1. PICK n \in Nat : n = Len(items) /\ DOMAIN items = 1..n
  OBVIOUS
<1>2. PICK more : more = Append(items, x)
  OBVIOUS
<1>3. /\ Len(more) = n + 1 /\ DOMAIN more = 1..(n + 1) /\ more[n + 1] = x
      /\ \A i \in 1..n : more[i] = items[i]
  BY ONLY <1>1, <1>2, n \in Nat, items \in Seq(LoadedItem), x \in LoadedItem
<1>4. \A i \in 1..n : i \in 1..(n + 1)
  OBVIOUS
<1>5. n + 1 \in 1..(n + 1)
  OBVIOUS
<1> DEFINE P == {i \in DOMAIN items : "parts" \in DOMAIN items[i]}
           Q == {i \in DOMAIN more : "parts" \in DOMAIN more[i]}
<1>6. \A i \in 1..n : i \in P <=> i \in Q
  BY <1>1, <1>3, <1>4
<1>7. n + 1 \in Q <=> "parts" \in DOMAIN x
  BY <1>3, <1>5
<1>8. DocsOf(more) = Selected(Append(items, x), Q) /\ DocsOf(items) = Selected(items, P)
  BY <1>2 DEF DocsOf
<1> HIDE DEF P, Q
<1>9. Selected(Append(items, x), Q) =
        IF n + 1 \in Q THEN Append(Selected(items, P), x) ELSE Selected(items, P)
  BY <1>1, <1>6, SelectedAppend
<1>10. \A i \in 1..(n + 1) : i \in 1..n \/ i = n + 1
  OBVIOUS
<1>11. ErrorsOf(more) = IF "error" \in DOMAIN x THEN ErrorsOf(items) \cup {x.error}
                        ELSE ErrorsOf(items)
  <2>1. ASSUME NEW e, e \in ErrorsOf(more)
        PROVE  e \in ErrorsOf(items) \/ ("error" \in DOMAIN x /\ e = x.error)
    BY <1>1, <1>3, <1>10, <2>1 DEF ErrorsOf
  <2>2. ASSUME NEW e, e \in ErrorsOf(items)
        PROVE  e \in ErrorsOf(more)
    BY <1>1, <1>3, <1>4, <2>2 DEF ErrorsOf
  <2>3. ASSUME "error" \in DOMAIN x
        PROVE  x.error \in ErrorsOf(more)
    BY <1>3, <1>5, <2>3 DEF ErrorsOf
  <2> QED BY <2>1, <2>2, <2>3
<1>12. x \in PieceItem => "parts" \in DOMAIN x /\ "error" \notin DOMAIN x
  BY DEF PieceItem
<1>13. x \in ErrorItem => "parts" \notin DOMAIN x /\ "error" \in DOMAIN x
  BY DEF ErrorItem
<1> QED BY <1>2, <1>7, <1>8, <1>9, <1>11, <1>12, <1>13

\* Parts that fit, fit between wider bounds.
LEMMA FitsWider ==
  ASSUME NEW parts, NEW from \in Nat, NEW to \in Nat, NEW from2 \in Nat, NEW to2 \in Nat,
         FitBetween(parts, from, to), from2 <= from, to <= to2
  PROVE  FitBetween(parts, from2, to2)
<1>1. PICK n \in Nat : n = Len(parts) /\ \A i \in 1..n : parts[i] \in Nat
  BY DEF FitBetween
<1>2. \A i \in 1..n : from2 < parts[i] /\ parts[i] <= to2
  BY <1>1 DEF FitBetween
<1> QED BY <1>1, <1>2 DEF FitBetween

\* A document more, of parts after all others.
LEMMA DocsOneMore ==
  ASSUME NEW docs \in Seq(PieceItem), NEW mid \in Nat, NEW upto \in Nat, mid <= upto,
         PartsFit(docs, mid), AllInOrder(docs),
         NEW doc \in PieceItem, doc.parts # <<>>, FitBetween(doc.parts, 0, upto), IsUncut(doc.parts),
         docs # <<>> => InOrder(docs[Len(docs)], doc)
  PROVE  /\ Append(docs, doc) \in Seq(PieceItem)
         /\ PartsFit(Append(docs, doc), upto) /\ AllInOrder(Append(docs, doc))
         /\ \A i : IsLoaded(Append(docs, doc), i) <=> IsLoaded(docs, i) \/ IsIn(doc.parts, i)
<1>1. PICK n \in Nat : n = Len(docs)
  OBVIOUS
<1>2. PICK more : more = Append(docs, doc)
  OBVIOUS
<1>3. /\ more \in Seq(PieceItem) /\ Len(more) = n + 1 /\ more[n + 1] = doc
      /\ \A i \in 1..n : more[i] = docs[i]
  BY ONLY <1>1, <1>2, n \in Nat, docs \in Seq(PieceItem), doc \in PieceItem
<1>4. PartsFit(more, upto)
  <2> SUFFICES ASSUME NEW i \in 1..(n + 1)
               PROVE  /\ more[i].parts # <<>>
                      /\ FitBetween(more[i].parts, 0, upto) /\ IsUncut(more[i].parts)
    BY <1>3 DEF PartsFit
  <2>1. CASE i = n + 1
    BY <1>3, <2>1
  <2>2. CASE i # n + 1
    <3>1. i \in 1..n
      BY <2>2
    <3>2. /\ docs[i].parts # <<>>
          /\ FitBetween(docs[i].parts, 0, mid) /\ IsUncut(docs[i].parts)
      BY <1>1, <3>1 DEF PartsFit
    <3>3. FitBetween(docs[i].parts, 0, upto)
      BY <3>2, FitsWider
    <3> QED BY <1>3, <3>1, <3>2, <3>3
  <2> QED BY <2>1, <2>2
<1>5. AllInOrder(more)
  <2> SUFFICES ASSUME NEW i \in 2..(n + 1)
               PROVE  InOrder(more[i - 1], more[i])
    BY <1>3 DEF AllInOrder
  <2>1. CASE i = n + 1
    <3>1. i - 1 = n /\ n \in 1..n /\ n # 0
      BY <2>1
    <3>2. docs # <<>>
      BY <1>1, <3>1
    <3> QED BY <1>1, <1>3, <2>1, <3>1, <3>2
  <2>2. CASE i # n + 1
    <3>1. i \in 2..n /\ i \in 1..n /\ i - 1 \in 1..n
      BY <2>2
    <3> QED BY <1>1, <1>3, <3>1 DEF AllInOrder
  <2> QED BY <2>1, <2>2
<1>6. ASSUME NEW i
      PROVE  IsLoaded(more, i) <=> IsLoaded(docs, i) \/ IsIn(doc.parts, i)
  <2>1. ASSUME NEW k \in 1..(n + 1), IsIn(more[k].parts, i)
        PROVE  IsLoaded(docs, i) \/ IsIn(doc.parts, i)
    <3>1. k \in 1..n \/ k = n + 1
      OBVIOUS
    <3> QED BY <1>1, <1>3, <2>1, <3>1 DEF IsLoaded
  <2>2. ASSUME NEW k \in 1..n, IsIn(docs[k].parts, i)
        PROVE  IsLoaded(more, i)
    <3>1. k \in 1..(n + 1)
      OBVIOUS
    <3> QED BY <1>3, <2>2, <3>1 DEF IsLoaded
  <2>3. n + 1 \in 1..(n + 1)
    OBVIOUS
  <2>4. IsIn(doc.parts, i) => IsLoaded(more, i)
    BY <1>3, <2>3 DEF IsLoaded
  <2> QED BY <1>1, <1>3, <2>1, <2>2, <2>4 DEF IsLoaded
<1> QED BY <1>2, <1>3, <1>4, <1>5, <1>6

\* Of some parts, one is the first.
LEMMA LeastPart ==
  ASSUME NEW parts \in SUBSET Nat, parts # {}, NEW n \in Nat, \A i \in parts : i <= n
  PROVE  Loadings!Min(parts) \in parts
<1>1. PICK key : key = [i \in parts |-> n - i]
  OBVIOUS
<1>2. \A i \in parts : key[i] \in 0..n /\ key[i] = n - i
  BY <1>1
<1>3. PICK m \in parts : \A i \in parts : key[m] >= key[i]
  BY <1>2, GreatestExists
<1>4. \A i \in parts : m <= i
  BY <1>2, <1>3
<1> QED BY <1>4 DEF Loadings!Min

\* One sequence is another and then a third.
Splits(kept, parts, rest) ==
  /\ parts \in Seq(Nat) /\ rest \in Seq(Nat) /\ parts # <<>>
  /\ Len(kept) = Len(parts) + Len(rest)
  /\ \A i \in 1..Len(parts) : parts[i] = kept[i]
  /\ \A i \in 1..Len(rest) : rest[i] = kept[Len(parts) + i]

\* What is split off fits prior what is left.
LEMMA SplitFits ==
  ASSUME NEW kept, NEW parts, NEW rest, Splits(kept, parts, rest),
         NEW mid \in Nat, NEW upto \in Nat, FitBetween(kept, mid, upto)
  PROVE  LET top == parts[Len(parts)]
         IN  /\ top \in 0..upto /\ mid <= top /\ mid < parts[1]
             /\ FitBetween(parts, 0, top) /\ FitBetween(rest, top, upto)
             /\ \A i : IsIn(kept, i) <=> IsIn(parts, i) \/ IsIn(rest, i)
<1>1. PICK p \in Nat : p = Len(parts)
  <2>1. parts \in Seq(Nat)
    BY DEF Splits
  <2> QED BY ONLY <2>1
<1>2. PICK r \in Nat : r = Len(rest)
  <2>1. rest \in Seq(Nat)
    BY DEF Splits
  <2> QED BY ONLY <2>1
<1>3. p \in 1..p /\ 1 \in 1..p /\ 1 <= p
  BY <1>1 DEF Splits
<1>4. PICK n \in Nat : n = p + r
  OBVIOUS
<1>5. /\ parts \in Seq(Nat) /\ rest \in Seq(Nat) /\ Len(kept) = n
      /\ \A i \in 1..p : parts[i] = kept[i]
      /\ \A i \in 1..r : rest[i] = kept[p + i]
  BY <1>1, <1>2, <1>4 DEF Splits
<1>6. /\ \A i \in 1..n : kept[i] \in Nat
      /\ \A i \in 1..n : mid < kept[i] /\ kept[i] <= upto /\ Loadings!Makes(kept[i])
      /\ \A i, j \in 1..n : i < j => kept[i] < kept[j]
  BY <1>5 DEF FitBetween
<1>7. \A i \in 1..p : i \in 1..n
  BY <1>4
<1>8. \A i \in 1..r : p + i \in 1..n
  BY <1>4
<1>9. PICK top \in Nat : top = parts[p]
  BY <1>3, <1>5, <1>6, <1>7
<1>10. top = kept[p] /\ p \in 1..n
  BY <1>3, <1>5, <1>7, <1>9
<1>11. top \in 0..upto /\ mid <= top /\ mid < parts[1]
  BY <1>3, <1>5, <1>6, <1>7, <1>10
<1>12. FitBetween(parts, 0, top)
  <2>1. ASSUME NEW i \in 1..p
        PROVE  0 < parts[i] /\ parts[i] <= top /\ Loadings!Makes(parts[i])
    <3>1. i \in 1..n /\ parts[i] = kept[i] /\ kept[i] \in Nat /\ mid < kept[i]
      BY <1>5, <1>6, <1>7
    <3>2. Loadings!Makes(parts[i])
      BY <1>6, <3>1
    <3>3. i < p => kept[i] < kept[p]
      BY <1>6, <1>10, <3>1
    <3>4. i < p \/ i = p
      OBVIOUS
    <3>5. kept[i] <= top
      BY <1>10, <3>1, <3>3, <3>4
    <3> QED BY <3>1, <3>2, <3>5
  <2>2. \A i, j \in 1..p : i < j => parts[i] < parts[j]
    BY <1>5, <1>6, <1>7
  <2> QED BY <1>1, <1>5, <2>1, <2>2 DEF FitBetween
<1>13. FitBetween(rest, top, upto)
  <2>1. ASSUME NEW i \in 1..r
        PROVE  top < rest[i] /\ rest[i] <= upto /\ Loadings!Makes(rest[i])
    <3>1. p + i \in 1..n /\ p < p + i
      BY <1>8
    <3>2. kept[p] < kept[p + i]
      BY <1>6, <1>10, <3>1
    <3> QED BY <1>5, <1>6, <1>10, <3>1, <3>2
  <2>2. ASSUME NEW i \in 1..r, NEW j \in 1..r, i < j
        PROVE  rest[i] < rest[j]
    <3>1. p + i \in 1..n /\ p + j \in 1..n /\ p + i < p + j
      BY <1>8, <2>2
    <3> QED BY <1>5, <1>6, <3>1
  <2> QED BY <1>2, <1>5, <2>1, <2>2 DEF FitBetween
<1>14. ASSUME NEW i
       PROVE  IsIn(kept, i) <=> IsIn(parts, i) \/ IsIn(rest, i)
  <2>1. ASSUME NEW k \in 1..n, kept[k] = i
        PROVE  IsIn(parts, i) \/ IsIn(rest, i)
    <3>1. CASE k <= p
      <4>1. k \in 1..p
        BY <3>1
      <4> QED BY <1>1, <1>5, <2>1, <4>1 DEF IsIn
    <3>2. CASE ~(k <= p)
      <4>1. k - p \in 1..r /\ p + (k - p) = k
        BY <1>4, <3>2
      <4> QED BY <1>2, <1>5, <2>1, <4>1 DEF IsIn
    <3> QED BY <3>1, <3>2
  <2>2. IsIn(parts, i) => IsIn(kept, i)
    BY <1>1, <1>5, <1>7 DEF IsIn
  <2>3. IsIn(rest, i) => IsIn(kept, i)
    BY <1>2, <1>5, <1>8 DEF IsIn
  <2> QED BY <1>5, <2>1, <2>2, <2>3 DEF IsIn
<1> QED BY <1>1, <1>9, <1>11, <1>12, <1>13, <1>14

\* What the splitter does of a document: one, two pieces, or an error.
LEMMA PiecesAccount ==
  ASSUME NEW items \in Seq(LoadedItem), NEW kept, NEW parts, NEW rest, NEW upto \in Nat,
         Accounts(DocsOf(items), ErrorsOf(items), kept, upto),
         Splits(kept, parts, rest), Len(parts) = 1 \/ loader.joined
  PROVE  LET more == items \o Loadings!Pieces(parts)
         IN  /\ more \in Seq(LoadedItem)
             /\ Accounts(DocsOf(more), ErrorsOf(more), rest, upto)
             /\ ErrorsOf(items) \subseteq ErrorsOf(more)
<1>1. PICK docs : docs = DocsOf(items)
  OBVIOUS
<1>2. PICK errors : errors = ErrorsOf(items)
  OBVIOUS
<1>3. PICK mid \in 0..upto : PartsFit(docs, mid) /\ FitBetween(kept, mid, upto)
  BY <1>1 DEF Accounts
<1>4. /\ docs \in Seq(PieceItem) /\ AllInOrder(docs) /\ NoneIsHalf(docs)
      /\ ErrorsFit(errors) /\ NoneIsLost(docs, errors, kept, upto)
  BY <1>1, <1>2 DEF Accounts
<1>5. mid \in Nat
  BY <1>3
<1>6. PICK top : top = parts[Len(parts)]
  OBVIOUS
<1>7. /\ top \in 0..upto /\ mid <= top /\ mid < parts[1]
      /\ FitBetween(parts, 0, top) /\ FitBetween(rest, top, upto)
      /\ \A i : IsIn(kept, i) <=> IsIn(parts, i) \/ IsIn(rest, i)
  BY <1>3, <1>5, <1>6, SplitFits
<1>8. top \in Nat
  BY <1>7
<1>9. parts \in Seq(Nat) /\ parts # <<>>
  BY DEF Splits
<1>10. PICK p \in Nat : p = Len(parts) /\ 1 \in 1..p
  BY <1>9
<1>11. \A i \in 1..p : parts[i] \in Nat
  BY <1>9, <1>10
<1>12. ASSUME docs # <<>>, NEW doc, doc.parts = parts, doc.piece # 2
       PROVE  InOrder(docs[Len(docs)], doc)
  <2>1. PICK n \in Nat : n = Len(docs) /\ n \in 1..n
    BY <1>4, <1>12
  <2>2. PICK prior : prior = docs[n].parts
    OBVIOUS
  <2>3. prior # <<>> /\ FitBetween(prior, 0, mid) /\ docs[n].piece # 1
    BY <1>3, <1>4, <1>12, <2>1, <2>2 DEF PartsFit, NoneIsHalf
  <2>4. PICK q \in Nat : q = Len(prior) /\ q \in 1..q
    BY <2>3 DEF FitBetween
  <2>5. prior[q] \in Nat /\ prior[q] <= mid
    BY <2>3, <2>4 DEF FitBetween
  <2>6. parts[1] \in Nat
    BY <1>10, <1>11
  <2>7. prior[q] < parts[1]
    BY <1>5, <1>7, <2>5, <2>6
  <2> QED BY <1>12, <2>1, <2>2, <2>3, <2>4, <2>7 DEF InOrder
\* The rest waits, where the documents have grown by those of the parts.
<1>13. ASSUME NEW docs2, docs2 \in Seq(PieceItem), PartsFit(docs2, top), AllInOrder(docs2),
              NoneIsHalf(docs2),
              NEW errors2, ErrorsFit(errors2), errors \subseteq errors2,
              \A i : IsLoaded(docs, i) => IsLoaded(docs2, i),
              \A i \in Nat : IsIn(parts, i) => IsLoaded(docs2, i) \/ IsTold(errors2, i)
       PROVE  Accounts(docs2, errors2, rest, upto)
  <2>1. ASSUME NEW i \in 1..upto, Loadings!Makes(i)
        PROVE  IsLoaded(docs2, i) \/ IsIn(rest, i) \/ IsTold(errors2, i)
    <3>1. IsLoaded(docs, i) \/ IsIn(kept, i) \/ IsTold(errors, i)
      BY <1>4, <2>1 DEF NoneIsLost
    <3>2. IsTold(errors, i) => IsTold(errors2, i)
      BY <1>13 DEF IsTold
    <3>3. i \in Nat
      OBVIOUS
    <3> QED BY <1>7, <1>13, <3>1, <3>2, <3>3
  <2>2. NoneIsLost(docs2, errors2, rest, upto)
    BY <2>1 DEF NoneIsLost
  <2>3. \E m \in 0..upto : PartsFit(docs2, m) /\ FitBetween(rest, m, upto)
    BY <1>7, <1>13
  <2> QED BY <1>13, <2>2, <2>3 DEF Accounts
<1>14. PICK made : made = Loadings!Pieces(parts)
  OBVIOUS
<1>15. \A k \in 0..2 : LET d == Loadings!Document(parts, k)
                       IN  d \in PieceItem /\ d.parts = parts /\ d.piece = k
  BY <1>9 DEF Loadings!Document, PieceItem
<1>16. CASE ~then_split
  <2>1. PICK doc : doc = Loadings!Document(parts, 0)
    OBVIOUS
  <2>2. doc \in PieceItem /\ doc.parts = parts /\ doc.piece = 0
    BY <1>15, <2>1
  <2>3. made = <<doc>>
    BY <1>14, <1>16, <2>1 DEF Loadings!Pieces
  <2>4. doc \in LoadedItem
    BY <2>2 DEF LoadedItem
  <2>5. PICK more : more = Append(items, doc)
    OBVIOUS
  <2>6. items \o made = more /\ more \in Seq(LoadedItem)
    BY ONLY <2>3, <2>4, <2>5, items \in Seq(LoadedItem)
  <2>7. DocsOf(more) = Append(docs, doc) /\ ErrorsOf(more) = errors
    BY <1>1, <1>2, <2>2, <2>4, <2>5, ItemsOneMore
  <2>8. PICK docs2 : docs2 = Append(docs, doc)
    OBVIOUS
  <2>9. IsUncut(parts)
    BY <1>16 DEF IsUncut
  <2>10. docs # <<>> => InOrder(docs[Len(docs)], doc)
    BY <1>12, <2>2
  <2>11. /\ docs2 \in Seq(PieceItem) /\ PartsFit(docs2, top) /\ AllInOrder(docs2)
         /\ \A i : IsLoaded(docs2, i) <=> IsLoaded(docs, i) \/ IsIn(parts, i)
    BY <1>3, <1>4, <1>5, <1>7, <1>8, <1>9, <2>2, <2>8, <2>9, <2>10, DocsOneMore
  <2>12. docs2[Len(docs2)] = doc
    BY ONLY <1>4, <2>2, <2>8
  <2>13. NoneIsHalf(docs2)
    BY <2>2, <2>12 DEF NoneIsHalf
  <2>14. Accounts(docs2, errors, rest, upto)
    BY <1>4, <1>13, <2>11, <2>13
  <2> QED BY <1>2, <1>14, <2>6, <2>7, <2>8, <2>14
<1>17. CASE then_split /\ Loadings!ToSet(parts) \cap UncutParts # {}
  <2>1. PICK cut : cut = Loadings!ToSet(parts) \cap UncutParts
    OBVIOUS
  <2>2. Loadings!ToSet(parts) = {parts[i] : i \in 1..p}
    BY <1>9, <1>10 DEF Loadings!ToSet
  <2>3. cut \in SUBSET Nat /\ cut # {} /\ \A e \in cut : e <= top
    BY <1>7, <1>10, <1>11, <1>17, <2>1, <2>2 DEF FitBetween
  <2>4. PICK e : e = Loadings!Min(cut)
    OBVIOUS
  <2>5. e \in cut
    BY <1>8, <2>3, <2>4, LeastPart
  <2>6. PICK err : err = Loadings!Error(e)
    OBVIOUS
  <2>7. err \in ErrorItem /\ err.error = e
    BY <2>3, <2>5, <2>6 DEF Loadings!Error, ErrorItem
  <2>8. made = <<err>>
    BY <1>14, <1>17, <2>1, <2>4, <2>6 DEF Loadings!Pieces
  <2>9. err \in LoadedItem
    BY <2>7 DEF LoadedItem
  <2>10. PICK more : more = Append(items, err)
    OBVIOUS
  <2>11. items \o made = more /\ more \in Seq(LoadedItem)
    BY ONLY <2>8, <2>9, <2>10, items \in Seq(LoadedItem)
  <2>12. DocsOf(more) = docs /\ ErrorsOf(more) = errors \cup {e}
    BY <1>1, <1>2, <2>7, <2>9, <2>10, ItemsOneMore
  <2>13. PICK errors2 : errors2 = errors \cup {e}
    OBVIOUS
  <2>14. ErrorsFit(errors2)
    BY <1>4, <1>17, <2>1, <2>3, <2>5, <2>13 DEF ErrorsFit
  <2>15. ASSUME NEW i \in Nat, IsIn(parts, i)
         PROVE  IsTold(errors2, i)
    <3>1. CASE loader.joined
      BY <2>13, <3>1 DEF IsTold
    <3>2. CASE p = 1
      <4>1. e = parts[1] /\ i = parts[1]
        <5>1. \A k \in 1..p : k = 1
          BY <3>2
        <5> QED BY <1>10, <2>1, <2>2, <2>5, <2>15, <5>1 DEF IsIn
      <4>2. e <= i
        BY <4>1
      <4> QED BY <2>13, <4>2 DEF IsTold
    <3> QED BY <1>10, <3>1, <3>2
  <2>16. PartsFit(docs, top)
    <3> SUFFICES ASSUME NEW i \in 1..Len(docs)
                 PROVE  FitBetween(docs[i].parts, 0, top)
      BY <1>3 DEF PartsFit
    <3>1. FitBetween(docs[i].parts, 0, mid)
      BY <1>3 DEF PartsFit
    <3> QED BY <1>5, <1>7, <1>8, <3>1, FitsWider
  <2>17. Accounts(docs, errors2, rest, upto)
    BY <1>4, <1>13, <2>13, <2>14, <2>15, <2>16
  <2> QED BY <1>2, <1>14, <2>11, <2>12, <2>13, <2>17
<1>18. CASE then_split /\ Loadings!ToSet(parts) \cap UncutParts = {}
  <2>1. PICK doc : doc = Loadings!Document(parts, 1)
    OBVIOUS
  <2>2. PICK doc2 : doc2 = Loadings!Document(parts, 2)
    OBVIOUS
  <2>3. /\ doc \in PieceItem /\ doc.parts = parts /\ doc.piece = 1
        /\ doc2 \in PieceItem /\ doc2.parts = parts /\ doc2.piece = 2
    BY <1>15, <2>1, <2>2
  <2>4. made = <<doc, doc2>>
    BY <1>14, <1>18, <2>1, <2>2 DEF Loadings!Pieces
  <2>5. doc \in LoadedItem /\ doc2 \in LoadedItem
    BY <2>3 DEF LoadedItem
  <2>6. PICK half : half = Append(items, doc)
    OBVIOUS
  <2>7. half \in Seq(LoadedItem)
    BY <2>5, <2>6
  <2>8. PICK more : more = Append(half, doc2)
    OBVIOUS
  <2>9. items \o made = more /\ more \in Seq(LoadedItem)
    BY ONLY <2>4, <2>5, <2>6, <2>8, items \in Seq(LoadedItem)
  <2>10. DocsOf(half) = Append(docs, doc) /\ ErrorsOf(half) = errors
    BY <1>1, <1>2, <2>3, <2>5, <2>6, ItemsOneMore
  <2>11. DocsOf(more) = Append(DocsOf(half), doc2) /\ ErrorsOf(more) = errors
    BY <2>3, <2>5, <2>7, <2>8, <2>10, ItemsOneMore
  <2>12. IsUncut(parts)
    BY <1>9, <1>10, <1>18 DEF IsUncut, Loadings!ToSet
  <2>13. docs # <<>> => InOrder(docs[Len(docs)], doc)
    BY <1>12, <2>3
  <2>14. PICK docs1 : docs1 = Append(docs, doc)
    OBVIOUS
  <2>15. /\ docs1 \in Seq(PieceItem) /\ PartsFit(docs1, top) /\ AllInOrder(docs1)
         /\ \A i : IsLoaded(docs1, i) <=> IsLoaded(docs, i) \/ IsIn(parts, i)
    <3>1. doc \in PieceItem /\ doc.parts # <<>> /\ FitBetween(doc.parts, 0, top) /\ IsUncut(doc.parts)
      BY <1>7, <1>9, <2>3, <2>12
    <3>2. parts = doc.parts
      BY <2>3
    <3> QED BY <1>3, <1>4, <1>5, <1>7, <1>8, <2>13, <2>14, <3>1, <3>2, DocsOneMore
  <2>16. docs1[Len(docs1)] = doc
    BY ONLY <1>4, <2>3, <2>14
  <2>17. InOrder(docs1[Len(docs1)], doc2)
    BY <2>3, <2>16 DEF InOrder
  <2>18. PICK docs2 : docs2 = Append(docs1, doc2)
    OBVIOUS
  <2>19. /\ docs2 \in Seq(PieceItem) /\ PartsFit(docs2, top) /\ AllInOrder(docs2)
         /\ \A i : IsLoaded(docs2, i) <=> IsLoaded(docs1, i) \/ IsIn(parts, i)
    <3>1. top <= top
      BY <1>8
    <3>2. doc2 \in PieceItem /\ doc2.parts # <<>> /\ FitBetween(doc2.parts, 0, top) /\ IsUncut(doc2.parts)
      BY <1>7, <1>9, <2>3, <2>12
    <3>3. parts = doc2.parts
      BY <2>3
    <3> QED BY <1>8, <2>15, <2>17, <2>18, <3>1, <3>2, <3>3, DocsOneMore
  <2>20. docs2[Len(docs2)] = doc2
    BY ONLY <2>3, <2>15, <2>18
  <2>21. NoneIsHalf(docs2)
    BY <2>3, <2>20 DEF NoneIsHalf
  <2>22. Accounts(docs2, errors, rest, upto)
    BY <1>4, <1>13, <2>15, <2>19, <2>21
  <2> QED BY <1>2, <1>14, <2>9, <2>10, <2>11, <2>14, <2>18, <2>22
<1> QED BY <1>16, <1>17, <1>18

\* An error about a part that cannot be read.
LEMMA ErrorAccounts ==
  ASSUME NEW items \in Seq(LoadedItem), NEW kept, NEW upto \in Nat,
         Accounts(DocsOf(items), ErrorsOf(items), kept, upto),
         NEW i \in Nat, source[i] = "bad"
  PROVE  LET more == items \o <<Loadings!Error(i)>>
         IN  /\ more \in Seq(LoadedItem)
             /\ Accounts(DocsOf(more), ErrorsOf(more), kept, upto)
             /\ ErrorsOf(more) = ErrorsOf(items) \cup {i}
<1>1. PICK err : err = Loadings!Error(i)
  OBVIOUS
<1>2. err \in ErrorItem /\ err.error = i
  BY <1>1 DEF Loadings!Error, ErrorItem
<1>3. err \in LoadedItem
  BY <1>2 DEF LoadedItem
<1>4. PICK more : more = Append(items, err)
  OBVIOUS
<1>5. items \o <<Loadings!Error(i)>> = more /\ more \in Seq(LoadedItem)
  BY ONLY <1>1, <1>3, <1>4, items \in Seq(LoadedItem)
<1>6. DocsOf(more) = DocsOf(items) /\ ErrorsOf(more) = ErrorsOf(items) \cup {i}
  BY <1>2, <1>3, <1>4, ItemsOneMore
<1>7. ErrorsFit(ErrorsOf(more))
  BY <1>6 DEF ErrorsFit, Accounts
<1>8. NoneIsLost(DocsOf(more), ErrorsOf(more), kept, upto)
  BY <1>6 DEF NoneIsLost, Accounts, IsTold
<1> QED BY <1>5, <1>6, <1>7, <1>8 DEF Accounts

\* A part is read: it waits if it makes a document.
LEMMA ReadAccounts ==
  ASSUME NEW docs, NEW errors, NEW kept, NEW upto \in Nat,
         Accounts(docs, errors, kept, upto)
  PROVE  /\ Loadings!Makes(upto + 1) =>
              Accounts(docs, errors, Append(kept, upto + 1), upto + 1)
         /\ ~Loadings!Makes(upto + 1) => Accounts(docs, errors, kept, upto + 1)
<1>1. PICK mid \in 0..upto : PartsFit(docs, mid) /\ FitBetween(kept, mid, upto)
  BY DEF Accounts
<1>2. mid \in Nat /\ mid \in 0..(upto + 1) /\ upto + 1 \in Nat /\ mid <= mid /\ upto <= upto + 1
  BY <1>1
<1>3. FitBetween(kept, mid, upto + 1)
  BY <1>1, <1>2, FitsWider
<1>4. NoneIsLost(docs, errors, kept, upto)
  BY DEF Accounts
<1>5. CASE ~Loadings!Makes(upto + 1)
  <2>1. NoneIsLost(docs, errors, kept, upto + 1)
    <3> SUFFICES ASSUME NEW i \in 1..(upto + 1), Loadings!Makes(i)
                 PROVE  IsLoaded(docs, i) \/ IsIn(kept, i) \/ IsTold(errors, i)
      BY DEF NoneIsLost
    <3>1. i # upto + 1
      BY <1>5
    <3>2. i \in 1..upto
      BY <3>1
    <3> QED BY <1>4, <3>2 DEF NoneIsLost
  <2> QED BY <1>1, <1>2, <1>3, <1>5, <2>1 DEF Accounts
<1>6. CASE Loadings!Makes(upto + 1)
  <2>1. kept \in Seq(Nat)
    BY <1>1 DEF FitBetween
  <2>2. PICK n \in Nat : n = Len(kept)
    BY <2>1
  <2>3. PICK x \in Nat : x = upto + 1
    OBVIOUS
  <2>4. PICK more : more = Append(kept, x)
    OBVIOUS
  <2>5. /\ more \in Seq(Nat) /\ Len(more) = n + 1 /\ more[n + 1] = x
        /\ \A i \in 1..n : more[i] = kept[i]
    BY ONLY <2>1, <2>2, <2>4, n \in Nat, x \in Nat
  <2>6. \A i \in 1..n : kept[i] \in Nat /\ kept[i] <= upto /\ mid < kept[i]
    BY <1>1, <2>1, <2>2 DEF FitBetween
  <2>7. \A i \in 1..(n + 1) : i \in 1..n \/ i = n + 1
    OBVIOUS
  <2>8. mid < x
    BY <1>1, <2>3
  <2>9. ASSUME NEW i \in 1..(n + 1)
        PROVE  mid < more[i] /\ more[i] <= x /\ Loadings!Makes(more[i])
    <3>1. CASE i \in 1..n
      <4>1. Loadings!Makes(kept[i])
        BY <1>1, <2>2, <3>1 DEF FitBetween
      <4>2. kept[i] <= x
        BY <2>3, <2>6, <3>1
      <4> QED BY <2>5, <2>6, <3>1, <4>1, <4>2
    <3>2. CASE i = n + 1
      BY <1>6, <2>3, <2>5, <2>8, <3>2
    <3> QED BY <2>7, <3>1, <3>2
  <2>10. ASSUME NEW i \in 1..(n + 1), NEW j \in 1..(n + 1), i < j
         PROVE  more[i] < more[j]
    <3>1. i \in 1..n
      BY <2>10
    <3>2. CASE j \in 1..n
      BY <1>1, <2>2, <2>5, <2>10, <3>1, <3>2 DEF FitBetween
    <3>3. CASE j = n + 1
      <4>1. kept[i] < x
        BY <2>3, <2>6, <3>1
      <4> QED BY <2>5, <3>1, <3>3, <4>1
    <3> QED BY <2>7, <3>2, <3>3
  <2>11. FitBetween(more, mid, upto + 1)
    BY <2>3, <2>5, <2>9, <2>10 DEF FitBetween
  <2>12. NoneIsLost(docs, errors, more, upto + 1)
    <3> SUFFICES ASSUME NEW i \in 1..(upto + 1), Loadings!Makes(i)
                 PROVE  IsLoaded(docs, i) \/ IsIn(more, i) \/ IsTold(errors, i)
      BY DEF NoneIsLost
    <3>1. CASE i = upto + 1
      <4>1. n + 1 \in 1..(n + 1)
        OBVIOUS
      <4> QED BY <2>3, <2>5, <3>1, <4>1 DEF IsIn
    <3>2. CASE i # upto + 1
      <4>1. i \in 1..upto
        BY <3>2
      <4>2. IsLoaded(docs, i) \/ IsIn(kept, i) \/ IsTold(errors, i)
        BY <1>4, <4>1 DEF NoneIsLost
      <4>3. IsIn(kept, i) => IsIn(more, i)
        <5>1. \A k \in 1..n : k \in 1..(n + 1)
          OBVIOUS
        <5> QED BY <2>2, <2>5, <5>1 DEF IsIn
      <4> QED BY <4>2, <4>3
    <3> QED BY <3>1, <3>2
  <2> QED BY <1>1, <1>2, <1>6, <2>3, <2>4, <2>11, <2>12 DEF Accounts
<1> QED BY <1>5, <1>6

\* A sequence is its first element and the others, and is itself.
LEMMA SequenceSplits ==
  ASSUME NEW kept \in Seq(Nat), kept # <<>>
  PROVE  /\ Splits(kept, <<Head(kept)>>, Tail(kept)) /\ Len(<<Head(kept)>>) = 1
         /\ Splits(kept, kept, <<>>)
<1>1. PICK n \in Nat : n = Len(kept) /\ 1 <= n
  OBVIOUS
<1>2. kept[1] \in Nat /\ Head(kept) = kept[1]
  BY <1>1
<1>3. PICK x \in Nat : x = Head(kept)
  BY <1>2
<1>4. <<x>> \in Seq(Nat) /\ Len(<<x>>) = 1 /\ (<<x>>)[1] = x /\ <<x>> # <<>>
  OBVIOUS
<1>5. PICK rest : rest = Tail(kept)
  OBVIOUS
<1>6. rest \in Seq(Nat) /\ Len(rest) = n - 1 /\ \A i \in 1..(n - 1) : rest[i] = kept[1 + i]
  BY <1>1, <1>5
<1>7. Splits(kept, <<x>>, rest)
  <2>1. Len(kept) = Len(<<x>>) + Len(rest)
    BY <1>1, <1>4, <1>6
  <2>2. \A i \in 1..Len(<<x>>) : i = 1
    BY <1>4
  <2>3. \A i \in 1..Len(<<x>>) : (<<x>>)[i] = kept[i]
    BY <1>2, <1>3, <1>4, <2>2
  <2>4. \A i \in 1..Len(rest) : rest[i] = kept[Len(<<x>>) + i]
    BY <1>4, <1>6
  <2> QED BY <1>4, <1>6, <2>1, <2>3, <2>4 DEF Splits
<1>8. Splits(kept, kept, <<>>)
  <2>1. <<>> \in Seq(Nat) /\ Len(<<>>) = 0
    OBVIOUS
  <2>2. Len(kept) = Len(kept) + Len(<<>>)
    BY <1>1, <2>1
  <2>3. \A i \in 1..Len(<<>>) : FALSE
    BY <2>1
  <2> QED BY <2>1, <2>2, <2>3 DEF Splits
<1> QED BY <1>3, <1>4, <1>5, <1>7, <1>8

\* The loader of the commits stops without a word.
LEMMA GitIsQuiet ==
  ASSUME loader \in Loadings!Loaders, Loadings!Sends
  PROVE  loader.bad = "hush"
BY DEF Loadings!Loaders, Loadings!Sends, Loadings!Loader,
   Loadings!TextLoader, Loadings!MarkdownLoader, Loadings!HtmlLoader,
   Loadings!HtmlToMarkdownLoader, Loadings!PdfExtractLoader, Loadings!TomlLoader,
   Loadings!WebBaseLoader, Loadings!YamlLoader, Loadings!CsvLoader, Loadings!TsvLoader,
   Loadings!LoPdfLoader, Loadings!AwsS3Loader, Loadings!GitHubLoader, Loadings!ExcelLoader,
   Loadings!XmlElements, Loadings!XmlText, Loadings!SourceFiles, Loadings!SourceParts,
   Loadings!GitCommitLoader, Loadings!PandocLoader, Loadings!JsonArray, Loadings!JsonLines,
   Loadings!WikipediaRetriever, Loadings!ArxivRetriever, Loadings!TavilyRetriever

LEMMA LoadInit ==
  ASSUME Loadings!Init
  PROVE  LoadHolds
<1>1. /\ loader \in Loadings!Loaders /\ source \in Seq({"good", "empty", "bad", "left"})
      /\ parts_read = 0 /\ gathered = <<>> /\ channel = <<>> /\ loaded = <<>> /\ stream = "new"
  BY LoadingAssumption DEF Loadings!Init
<1>2. parts_read \in 0..Len(source) /\ loaded \in Seq(LoadedItem)
  BY <1>1
<1>3. Len(<<>>) = 0 /\ \A S : <<>> \in Seq(S)
  OBVIOUS
<1>4. DocsOf(<<>>) = <<>> /\ ErrorsOf(<<>>) = {}
  BY <1>3, SelectedEmpty DEF DocsOf, ErrorsOf
<1>5. Accounts(<<>>, {}, <<>>, 0)
  <2>1. PartsFit(<<>>, 0) /\ FitBetween(<<>>, 0, 0)
    BY <1>3 DEF PartsFit, FitBetween
  <2>2. 0 \in 0..0
    OBVIOUS
  <2>3. AllInOrder(<<>>) /\ NoneIsHalf(<<>>) /\ ErrorsFit({}) /\ NoneIsLost(<<>>, {}, <<>>, 0)
    BY <1>3 DEF AllInOrder, NoneIsHalf, ErrorsFit, NoneIsLost
  <2> QED BY <1>3, <2>1, <2>2, <2>3 DEF Accounts
<1> QED BY <1>1, <1>2, <1>4, <1>5 DEF LoadHolds, EndsHold

\* What a step has to show.
LEMMA LoadFrame ==
  ASSUME LoadHolds, UNCHANGED <<loader, source, then_split>>,
         parts_read' \in 0..Len(source), loaded' \in Seq(LoadedItem),
         IF Loadings!Sends THEN gathered' = <<>> ELSE channel' = <<>>,
         gathered' # <<>> => loader.ahead \/ loader.joined,
         Accounts(DocsOf(loaded'), ErrorsOf(loaded'),
                  IF Loadings!Sends THEN channel' ELSE gathered', parts_read'),
         stream' \in {"closing", "ended"} /\ loader.bad # "hush" =>
           parts_read' = Len(source) \/ \E e \in ErrorsOf(loaded') : e <= parts_read' + 1,
         stream' = "ended" => /\ channel' = <<>>
                              /\ gathered' = <<>> \/ ErrorsOf(loaded') # {}
  PROVE  LoadHolds'
<1>1. loader \in Loadings!Loaders /\ source \in Seq({"good", "empty", "bad", "left"})
  BY DEF LoadHolds
<1>2. loader' = loader /\ source' = source /\ then_split' = then_split
  OBVIOUS
<1>3. Loadings!Sends' <=> Loadings!Sends
  BY <1>2 DEF Loadings!Sends
<1>4. PICK docs : docs = DocsOf(loaded')
  OBVIOUS
<1>5. PICK errors : errors = ErrorsOf(loaded')
  OBVIOUS
<1>6. PICK kept : kept = IF Loadings!Sends THEN channel' ELSE gathered'
  OBVIOUS
<1>7. PICK upto : upto = parts_read'
  OBVIOUS
<1>8. Accounts(docs, errors, kept, upto)
  BY <1>4, <1>5, <1>6, <1>7
<1>9. \A parts, from, to : FitBetween(parts, from, to) => FitBetween(parts, from, to)'
  BY <1>2 DEF FitBetween, Loadings!Makes
<1>10. \A parts : IsUncut(parts) => IsUncut(parts)'
  BY <1>2 DEF IsUncut
<1>11. \A d, to : PartsFit(d, to) => PartsFit(d, to)'
  BY <1>9, <1>10 DEF PartsFit
<1>12. ErrorsFit(errors) => ErrorsFit(errors)'
  BY <1>2 DEF ErrorsFit
<1>13. NoneIsLost(docs, errors, kept, upto) => NoneIsLost(docs, errors, kept, upto)'
  BY <1>2 DEF NoneIsLost, IsTold, Loadings!Makes
<1>14. Accounts(docs, errors, kept, upto)'
  BY <1>8, <1>9, <1>11, <1>12, <1>13 DEF Accounts
<1>15. Accounts(DocsOf(loaded), ErrorsOf(loaded),
                IF Loadings!Sends THEN channel ELSE gathered, parts_read)'
  BY <1>3, <1>4, <1>5, <1>6, <1>7, <1>14
<1> QED BY <1>1, <1>2, <1>3, <1>15 DEF LoadHolds, EndsHold

\* A step of the stream, and of nothing else.
LEMMA StreamMoves ==
  ASSUME LoadHolds,
         UNCHANGED <<loader, source, then_split, parts_read, gathered, channel, loaded>>,
         stream' \in {"closing", "ended"} /\ loader.bad # "hush" =>
           stream \in {"closing", "ended"} \/ parts_read = Len(source),
         stream' = "ended" => stream = "ended" \/ (channel = <<>> /\ gathered = <<>>)
  PROVE  LoadHolds'
BY LoadFrame DEF LoadHolds, EndsHold

\* What the stream yields from what was kept.
LEMMA YieldsPieces ==
  ASSUME LoadHolds, UNCHANGED <<loader, source, then_split, parts_read, stream>>,
         NEW kept, kept = IF Loadings!Sends THEN channel ELSE gathered,
         NEW parts, NEW rest, Splits(kept, parts, rest), Len(parts) = 1 \/ loader.joined,
         rest = IF Loadings!Sends THEN channel' ELSE gathered',
         IF Loadings!Sends THEN gathered' = gathered ELSE channel' = channel,
         loaded' = loaded \o Loadings!Pieces(parts), stream # "ended"
  PROVE  LoadHolds'
<1>1. PICK upto \in Nat : upto = parts_read
  BY DEF LoadHolds
<1>2. loaded \in Seq(LoadedItem) /\ Accounts(DocsOf(loaded), ErrorsOf(loaded), kept, upto)
  BY <1>1 DEF LoadHolds
<1>3. PICK items : items = loaded
  OBVIOUS
<1>4. PICK more : more = items \o Loadings!Pieces(parts)
  OBVIOUS
<1>5. /\ more \in Seq(LoadedItem)
      /\ Accounts(DocsOf(more), ErrorsOf(more), rest, upto)
      /\ ErrorsOf(items) \subseteq ErrorsOf(more)
  BY <1>2, <1>3, <1>4, PiecesAccount
<1>6. loaded' = more
  BY <1>3, <1>4
<1>7. kept # <<>>
  <2>1. PICK p \in Nat : p = Len(parts) /\ p # 0
    <3>1. parts \in Seq(Nat) /\ parts # <<>>
      BY DEF Splits
    <3> QED BY ONLY <3>1
  <2>2. Len(rest) \in Nat
    <3>1. rest \in Seq(Nat)
      BY DEF Splits
    <3> QED BY ONLY <3>1
  <2>3. Len(kept) # 0
    BY <2>1, <2>2 DEF Splits
  <2> QED BY <2>3
<1>8. gathered' # <<>> => loader.ahead \/ loader.joined
  BY <1>7 DEF LoadHolds
<1>9. IF Loadings!Sends THEN gathered' = <<>> ELSE channel' = <<>>
  BY DEF LoadHolds
<1>10. stream' \in {"closing", "ended"} /\ loader.bad # "hush" =>
         parts_read' = Len(source) \/ \E e \in ErrorsOf(loaded') : e <= parts_read' + 1
  BY <1>3, <1>5, <1>6 DEF LoadHolds, EndsHold
<1>11. stream' # "ended" /\ parts_read' \in 0..Len(source)
  BY DEF LoadHolds
<1>12. Accounts(DocsOf(loaded'), ErrorsOf(loaded'),
                IF Loadings!Sends THEN channel' ELSE gathered', parts_read')
  BY <1>1, <1>5, <1>6
<1>13. loaded' \in Seq(LoadedItem)
  BY <1>5, <1>6
<1> QED BY <1>8, <1>9, <1>10, <1>11, <1>12, <1>13, LoadFrame

\* The next part, that is read.
LEMMA NextPart ==
  ASSUME LoadHolds, Loadings!Reading
  PROVE  /\ parts_read \in Nat /\ parts_read + 1 \in 0..Len(source)
         /\ \A k \in {gathered, channel} :
              k = (IF Loadings!Sends THEN channel ELSE gathered) =>
                /\ k \in Seq(Nat)
                /\ Loadings!Makes(parts_read + 1) =>
                     Accounts(DocsOf(loaded), ErrorsOf(loaded), Append(k, parts_read + 1),
                              parts_read + 1)
                /\ ~Loadings!Makes(parts_read + 1) =>
                     Accounts(DocsOf(loaded), ErrorsOf(loaded), k, parts_read + 1)
<1>1. PICK n \in Nat : n = Len(source)
  BY DEF LoadHolds
<1>2. PICK upto \in Nat : upto = parts_read /\ upto \in 0..n
  BY <1>1 DEF LoadHolds
<1>3. upto + 1 \in 0..n
  BY <1>1, <1>2 DEF Loadings!Reading
<1>4. ASSUME NEW k, k = IF Loadings!Sends THEN channel ELSE gathered
      PROVE  /\ k \in Seq(Nat)
             /\ Loadings!Makes(upto + 1) =>
                  Accounts(DocsOf(loaded), ErrorsOf(loaded), Append(k, upto + 1), upto + 1)
             /\ ~Loadings!Makes(upto + 1) =>
                  Accounts(DocsOf(loaded), ErrorsOf(loaded), k, upto + 1)
  <2>1. Accounts(DocsOf(loaded), ErrorsOf(loaded), k, upto)
    BY <1>2, <1>4 DEF LoadHolds
  <2>2. k \in Seq(Nat)
    BY <2>1 DEF Accounts, FitBetween
  <2>3. PICK docs : docs = DocsOf(loaded)
    OBVIOUS
  <2>4. PICK errors : errors = ErrorsOf(loaded)
    OBVIOUS
  <2> QED BY <2>1, <2>2, <2>3, <2>4, ReadAccounts
<1> QED BY <1>1, <1>2, <1>3, <1>4

LEMMA ReadKeeps ==
  ASSUME LoadHolds, Loadings!Read
  PROVE  LoadHolds'
<1>1. /\ Loadings!Reading /\ ~Loadings!Sends /\ parts_read' = parts_read + 1
      /\ UNCHANGED <<loader, source, then_split, threads, channel, stream>>
  BY DEF Loadings!Read
<1>2. PICK upto \in Nat : upto = parts_read + 1 /\ upto \in 0..Len(source)
  BY <1>1, NextPart
<1>3. /\ gathered \in Seq(Nat)
      /\ Loadings!Makes(upto) =>
           Accounts(DocsOf(loaded), ErrorsOf(loaded), Append(gathered, upto), upto)
      /\ ~Loadings!Makes(upto) => Accounts(DocsOf(loaded), ErrorsOf(loaded), gathered, upto)
  BY <1>1, <1>2, NextPart
<1>4. stream' = "open" /\ channel = <<>> /\ loaded \in Seq(LoadedItem)
  BY <1>1 DEF Loadings!Reading, LoadHolds
<1>5. CASE loader.ahead \/ loader.joined
  <2>1. gathered' = Loadings!Kept /\ loaded' = loaded
    BY <1>5 DEF Loadings!Read
  <2>2. Accounts(DocsOf(loaded), ErrorsOf(loaded), gathered', upto)
    BY <1>2, <1>3, <2>1 DEF Loadings!Kept
  <2> QED BY <1>1, <1>2, <1>4, <1>5, <2>1, <2>2, LoadFrame
<1>6. CASE ~(loader.ahead \/ loader.joined)
  <2>1. gathered = <<>> /\ gathered' = <<>>
    BY <1>6 DEF Loadings!Read, LoadHolds
  <2>2. CASE ~Loadings!Makes(upto)
    <3>1. loaded' = loaded \o <<>>
      BY <1>2, <1>6, <2>2 DEF Loadings!Read, Loadings!Yield
    <3>2. loaded' = loaded
      BY ONLY <1>4, <3>1
    <3>3. Accounts(DocsOf(loaded), ErrorsOf(loaded), gathered', upto)
      BY <1>3, <2>1, <2>2
    <3> QED BY <1>1, <1>2, <1>4, <2>1, <3>2, <3>3, LoadFrame
  <2>3. CASE Loadings!Makes(upto)
    <3>1. loaded' = loaded \o Loadings!Pieces(<<upto>>)
      BY <1>2, <1>6, <2>3 DEF Loadings!Read, Loadings!Yield
    <3>2. PICK kept : kept = <<upto>>
      OBVIOUS
    <3>3. kept \in Seq(Nat) /\ kept # <<>> /\ Len(kept) = 1
      BY <3>2
    <3>4. Append(<<>>, upto) = <<upto>>
      OBVIOUS
    <3>5. Accounts(DocsOf(loaded), ErrorsOf(loaded), kept, upto)
      BY <1>3, <2>1, <2>3, <3>2, <3>4
    <3>6. Splits(kept, kept, <<>>)
      BY <3>3, SequenceSplits
    <3>7. PICK items : items = loaded
      OBVIOUS
    <3>8. PICK more : more = items \o Loadings!Pieces(kept)
      OBVIOUS
    <3>9. more \in Seq(LoadedItem) /\ Accounts(DocsOf(more), ErrorsOf(more), <<>>, upto)
      BY <1>4, <3>3, <3>5, <3>6, <3>7, <3>8, PiecesAccount
    <3>10. loaded' = more
      BY <3>1, <3>2, <3>7, <3>8
    <3> QED BY <1>1, <1>2, <1>4, <2>1, <3>9, <3>10, LoadFrame
  <2> QED BY <2>2, <2>3
<1> QED BY <1>5, <1>6

LEMMA ReadBadKeeps ==
  ASSUME LoadHolds, Loadings!ReadBad
  PROVE  LoadHolds'
<1>1. /\ Loadings!Reading /\ ~Loadings!Sends /\ source[parts_read + 1] = "bad"
      /\ UNCHANGED <<loader, source, then_split, threads, channel>>
  BY DEF Loadings!ReadBad
<1>2. PICK upto \in Nat : upto = parts_read + 1 /\ upto \in 0..Len(source)
  BY <1>1, NextPart
<1>3. ~Loadings!Makes(upto)
  BY <1>1, <1>2 DEF Loadings!Makes
<1>4. Accounts(DocsOf(loaded), ErrorsOf(loaded), gathered, upto)
  BY <1>1, <1>2, <1>3, NextPart
<1>5. PICK kept : kept = gathered
  OBVIOUS
<1>6. PICK items : items = loaded
  OBVIOUS
<1>7. PICK read \in Nat : read = parts_read /\ upto = read + 1 /\ read \in 0..Len(source)
  BY <1>1, <1>2, NextPart DEF LoadHolds
<1>8. /\ stream = "open" /\ channel = <<>> /\ items \in Seq(LoadedItem)
      /\ Accounts(DocsOf(items), ErrorsOf(items), kept, read)
      /\ Accounts(DocsOf(items), ErrorsOf(items), kept, upto)
      /\ gathered # <<>> => loader.ahead \/ loader.joined
  BY <1>1, <1>4, <1>5, <1>6, <1>7 DEF Loadings!Reading, LoadHolds
<1>9. PICK more : more = items \o <<Loadings!Error(upto)>>
  OBVIOUS
<1>10. /\ more \in Seq(LoadedItem)
       /\ Accounts(DocsOf(more), ErrorsOf(more), kept, read)
       /\ Accounts(DocsOf(more), ErrorsOf(more), kept, upto)
       /\ upto \in ErrorsOf(more)
  BY <1>1, <1>2, <1>8, <1>9, ErrorAccounts
<1>11. CASE loader.bad = "skip" /\ parts_read' = upto /\ UNCHANGED <<gathered, loaded, stream>>
  BY <1>1, <1>2, <1>5, <1>6, <1>8, <1>11, LoadFrame
<1>12. CASE parts_read' = upto /\ loaded' = more /\ UNCHANGED <<gathered, stream>>
  BY <1>1, <1>2, <1>5, <1>8, <1>10, <1>12, LoadFrame
<1>13. CASE loaded' = more /\ stream' \in {"ended", "closing"} /\ UNCHANGED <<parts_read, gathered>>
  <2>1. upto <= parts_read' + 1
    BY <1>7, <1>13
  <2>2. \E e \in ErrorsOf(loaded') : e <= parts_read' + 1
    BY <1>10, <1>13, <2>1
  <2>3. ErrorsOf(loaded') # {}
    BY <2>2
  <2> QED BY <1>1, <1>5, <1>7, <1>8, <1>10, <1>13, <2>2, <2>3, LoadFrame
<1>14. CASE /\ loader.bad = "hush" \/ stream' = "panicked"
            /\ stream' \in {"closing", "panicked"} /\ UNCHANGED <<parts_read, gathered, loaded>>
  BY <1>1, <1>14, StreamMoves
<1>15. loaded \o <<Loadings!Error(parts_read + 1)>> = more
  BY <1>2, <1>6, <1>9
<1> QED BY <1>2, <1>11, <1>12, <1>13, <1>14, <1>15 DEF Loadings!ReadBad, Loadings!Yield

LEMMA WalkKeeps ==
  ASSUME LoadHolds, Loadings!Walk
  PROVE  LoadHolds'
<1>1. /\ Loadings!Reading /\ Loadings!Sends
      /\ UNCHANGED <<loader, source, then_split, threads, gathered, loaded>>
  BY DEF Loadings!Walk
<1>2. PICK upto \in Nat : upto = parts_read + 1 /\ upto \in 0..Len(source)
  BY <1>1, NextPart
<1>3. /\ channel \in Seq(Nat)
      /\ Loadings!Makes(upto) =>
           Accounts(DocsOf(loaded), ErrorsOf(loaded), Append(channel, upto), upto)
      /\ ~Loadings!Makes(upto) => Accounts(DocsOf(loaded), ErrorsOf(loaded), channel, upto)
  BY <1>1, <1>2, NextPart
<1>4. stream = "open" /\ gathered = <<>> /\ loaded \in Seq(LoadedItem)
  BY <1>1 DEF Loadings!Reading, LoadHolds
<1>5. loader.bad = "hush"
  BY <1>1, GitIsQuiet DEF LoadHolds
<1>6. CASE stream' = "closing" /\ UNCHANGED <<parts_read, channel>>
  BY <1>1, <1>5, <1>6, StreamMoves
<1>7. CASE /\ parts_read' = upto /\ stream' = stream
           /\ channel' = IF Loadings!Makes(upto) THEN Append(channel, upto) ELSE channel
  <2>1. Accounts(DocsOf(loaded), ErrorsOf(loaded), channel', upto)
    BY <1>3, <1>7
  <2> QED BY <1>1, <1>2, <1>4, <1>7, <2>1, LoadFrame
<1>8. source[upto] = "bad" => ~Loadings!Makes(upto)
  BY DEF Loadings!Makes
<1> QED BY <1>2, <1>6, <1>7, <1>8 DEF Loadings!Walk

LEMMA FlushKeeps ==
  ASSUME LoadHolds, Loadings!Flush
  PROVE  LoadHolds'
<1>1. /\ stream = "closing" /\ gathered # <<>>
      /\ UNCHANGED <<loader, source, then_split, threads, parts_read, channel, stream>>
  BY DEF Loadings!Flush
<1>2. ~Loadings!Sends
  BY <1>1 DEF LoadHolds
<1>3. PICK kept : kept = gathered
  OBVIOUS
<1>4. kept \in Seq(Nat)
  BY <1>2, <1>3 DEF LoadHolds, Accounts, FitBetween
<1>5. /\ Splits(kept, <<Head(kept)>>, Tail(kept)) /\ Len(<<Head(kept)>>) = 1
      /\ Splits(kept, kept, <<>>)
  BY <1>1, <1>3, <1>4, SequenceSplits
<1>6. CASE loader.joined
  <2>1. loaded' = loaded \o Loadings!Pieces(kept) /\ gathered' = <<>>
    BY <1>3, <1>6 DEF Loadings!Flush, Loadings!Yield
  <2> QED BY <1>1, <1>2, <1>3, <1>5, <1>6, <2>1, YieldsPieces
<1>7. CASE ~loader.joined
  <2>1. loaded' = loaded \o Loadings!Pieces(<<Head(kept)>>) /\ gathered' = Tail(kept)
    BY <1>3, <1>7 DEF Loadings!Flush, Loadings!Yield
  <2>2. PICK parts : parts = <<Head(kept)>>
    OBVIOUS
  <2> QED BY <1>1, <1>2, <1>3, <1>5, <2>1, <2>2, YieldsPieces
<1> QED BY <1>6, <1>7

LEMMA ReceiveKeeps ==
  ASSUME LoadHolds, Loadings!Receive
  PROVE  LoadHolds'
<1>1. /\ stream \in {"open", "closing"} /\ channel # <<>>
      /\ UNCHANGED <<loader, source, then_split, threads, parts_read, gathered, stream>>
  BY DEF Loadings!Receive
<1>2. Loadings!Sends
  BY <1>1 DEF LoadHolds
<1>3. PICK kept : kept = channel
  OBVIOUS
<1>4. kept \in Seq(Nat)
  BY <1>2, <1>3 DEF LoadHolds, Accounts, FitBetween
<1>5. Splits(kept, <<Head(kept)>>, Tail(kept)) /\ Len(<<Head(kept)>>) = 1
  BY <1>1, <1>3, <1>4, SequenceSplits
<1>6. loaded' = loaded \o Loadings!Pieces(<<Head(kept)>>) /\ channel' = Tail(kept)
  BY <1>3 DEF Loadings!Receive, Loadings!Yield
<1>7. PICK parts : parts = <<Head(kept)>>
  OBVIOUS
<1> QED BY <1>1, <1>2, <1>3, <1>5, <1>6, <1>7, YieldsPieces

LEMMA LoadStep ==
  ASSUME LoadHolds, [Loadings!Next]_loading_vars
  PROVE  LoadHolds'
<1>1. CASE Loadings!Open
  BY <1>1, StreamMoves DEF Loadings!Open
<1>2. CASE Loadings!ListingPanics
  BY <1>2, StreamMoves DEF Loadings!ListingPanics
<1>3. CASE Loadings!AllRead
  BY <1>3, StreamMoves DEF Loadings!AllRead
<1>4. CASE Loadings!Close
  BY <1>4, StreamMoves DEF Loadings!Close
<1>5. CASE Loadings!Drop
  BY <1>5, StreamMoves DEF Loadings!Drop
<1>6. CASE UNCHANGED loading_vars
  <2>1. UNCHANGED <<loader, source, then_split, parts_read, gathered, channel, loaded>>
    BY <1>6 DEF loading_vars
  <2>2. stream' = stream
    BY <1>6 DEF loading_vars
  <2> QED BY <2>1, <2>2, StreamMoves
<1> QED BY <1>1, <1>2, <1>3, <1>4, <1>5, <1>6, ReadKeeps, ReadBadKeeps, WalkKeeps, FlushKeeps,
           ReceiveKeeps DEF Loadings!Next

LEMMA LoadIsRight ==
  ASSUME LoadHolds
  PROVE  Loadings!DocumentsInOrder /\ Loadings!LossIsTold /\ Loadings!ErrorsAreReal
<1>1. PICK docs : docs = DocsOf(loaded)
  OBVIOUS
<1>2. PICK errors : errors = ErrorsOf(loaded)
  OBVIOUS
<1>3. Loadings!Documents = docs
  BY <1>1 DEF Loadings!Documents, DocsOf, Loadings!Selected, Selected,
              Loadings!FlattenSeq, FlattenSeq
<1>4. PICK l \in Nat : l = Len(loaded) /\ DOMAIN loaded = 1..l
  BY DEF LoadHolds
<1>5. Loadings!Errors = errors
  BY <1>2, <1>4 DEF Loadings!Errors, ErrorsOf, Loadings!ToSet
<1>6. PICK kept : kept = IF Loadings!Sends THEN channel ELSE gathered
  OBVIOUS
<1>7. PICK upto \in Nat : upto = parts_read
  BY DEF LoadHolds
<1>8. Accounts(docs, errors, kept, upto)
  BY <1>1, <1>2, <1>6, <1>7 DEF LoadHolds
<1>9. docs \in Seq(PieceItem)
  BY <1>8 DEF Accounts
<1>10. PICK n \in Nat : n = Len(docs) /\ DOMAIN docs = 1..n
  BY <1>9
<1>11. PICK mid \in 0..upto : PartsFit(docs, mid)
  BY <1>8 DEF Accounts
<1>12. \A i \in 1..n : docs[i].parts \in Seq(Nat) /\ docs[i].parts # <<>>
  BY <1>10, <1>11 DEF PartsFit, FitBetween
<1>13. ASSUME NEW i
       PROVE  Loadings!Loaded(i) <=> IsLoaded(docs, i)
  <2>1. ASSUME NEW k \in 1..n
        PROVE  i \in Loadings!ToSet(docs[k].parts) <=> IsIn(docs[k].parts, i)
    <3>1. PICK parts : parts = docs[k].parts
      OBVIOUS
    <3>2. PICK p \in Nat : p = Len(parts) /\ DOMAIN parts = 1..p
      BY <1>12, <3>1
    <3> QED BY <3>1, <3>2 DEF Loadings!ToSet, IsIn
  <2>2. Loadings!ToSet(docs) = {docs[k] : k \in 1..n}
    BY <1>10 DEF Loadings!ToSet
  <2> QED BY <1>3, <1>10, <2>1, <2>2 DEF Loadings!Loaded, IsLoaded
<1>14. Loadings!DocumentsInOrder
  <2> SUFFICES ASSUME NEW i \in 2..n
               PROVE  \/ /\ docs[i - 1].parts = docs[i].parts
                         /\ docs[i - 1].piece = 1 /\ docs[i].piece = 2
                      \/ /\ Loadings!Last(docs[i - 1].parts) < Head(docs[i].parts)
                         /\ docs[i - 1].piece # 1 /\ docs[i].piece # 2
    BY <1>3, <1>10 DEF Loadings!DocumentsInOrder
  <2>1. InOrder(docs[i - 1], docs[i])
    BY <1>8, <1>10 DEF Accounts, AllInOrder
  <2>2. i \in 1..n
    OBVIOUS
  <2>3. Head(docs[i].parts) = docs[i].parts[1]
    BY <1>12, <2>2
  <2>4. Loadings!Last(docs[i - 1].parts) = docs[i - 1].parts[Len(docs[i - 1].parts)]
    BY DEF Loadings!Last
  <2> QED BY <2>1, <2>3, <2>4 DEF InOrder
<1>15. Loadings!LossIsTold
  <2> SUFFICES ASSUME stream = "ended", loader.bad # "hush",
                      NEW i \in DOMAIN source, Loadings!Makes(i)
               PROVE  IsLoaded(docs, i) \/ IsTold(errors, i)
    BY <1>5, <1>13 DEF Loadings!LossIsTold, IsTold
  <2>1. PICK m \in Nat : m = Len(source) /\ DOMAIN source = 1..m
    BY DEF LoadHolds
  <2>2. /\ upto = m \/ \E e \in errors : e <= upto + 1
        /\ channel = <<>> /\ (gathered = <<>> \/ errors # {})
        /\ gathered # <<>> => loader.ahead \/ loader.joined
    BY <1>2, <1>7, <2>1 DEF LoadHolds, EndsHold
  <2>3. CASE i <= upto
    <3>1. i \in 1..upto
      BY <2>1, <2>3
    <3>2. IsLoaded(docs, i) \/ IsIn(kept, i) \/ IsTold(errors, i)
      BY <1>8, <3>1 DEF Accounts, NoneIsLost
    <3>3. ASSUME IsIn(kept, i)
          PROVE  IsTold(errors, i)
      <4>1. kept # <<>>
        BY <3>3 DEF IsIn
      <4>2. gathered # <<>>
        BY <1>6, <2>2, <4>1
      <4> QED BY <2>2, <4>2 DEF IsTold
    <3> QED BY <3>2, <3>3
  <2>4. CASE ~(i <= upto)
    <3>1. upto # m
      BY <2>1, <2>4
    <3>2. PICK e \in errors : e <= upto + 1
      BY <2>2, <3>1
    <3>3. e \in Nat
      BY <1>8 DEF Accounts, ErrorsFit
    <3>4. e <= i
      BY <2>1, <2>4, <3>2, <3>3
    <3> QED BY <3>4 DEF IsTold
  <2> QED BY <2>3, <2>4
<1>16. Loadings!ErrorsAreReal
  <2> SUFFICES ASSUME NEW e \in errors
               PROVE  ~IsLoaded(docs, e) /\ (source[e] = "bad" \/ e \in UncutParts)
    BY <1>5, <1>13 DEF Loadings!ErrorsAreReal
  <2>1. source[e] = "bad" \/ (then_split /\ e \in UncutParts)
    BY <1>8 DEF Accounts, ErrorsFit
  <2>2. ASSUME NEW k \in 1..n, IsIn(docs[k].parts, e)
        PROVE  FALSE
    <3>1. PICK j \in 1..Len(docs[k].parts) : docs[k].parts[j] = e
      BY <2>2 DEF IsIn
    <3>2. Loadings!Makes(e) /\ (then_split => e \notin UncutParts)
      BY <1>10, <1>11, <3>1 DEF PartsFit, FitBetween, IsUncut
    <3> QED BY <2>1, <3>2 DEF Loadings!Makes
  <2> QED BY <1>10, <2>1, <2>2 DEF IsLoaded
<1> QED BY <1>14, <1>15, <1>16

\* A crawl yields no page twice and passes no link over, and the documents of a source
\* come in the order of its parts, where an error tells what was lost and is about what
\* could not be read or split: RecursiveUrlLoader's stack, and the loaders' streams with a
\* splitter behind them, also when a failed part ends them or a caller drops them.
THEOREM SourcesCorrect == Crawlers!Spec /\ Loadings!Spec => []SourcesAreLoaded
<1>1. Crawlers!Spec => []CrawlHolds
  <2>1. CrawlHolds /\ [Crawlers!Next]_(Crawlers!vars) => CrawlHolds'
    BY CrawlStep DEF Crawlers!vars, crawlers_vars
  <2> QED BY CrawlInit, <2>1, PTL DEF Crawlers!Spec
<1>2. Loadings!Spec => []LoadHolds
  <2>1. LoadHolds /\ [Loadings!Next]_(Loadings!vars) => LoadHolds'
    BY LoadStep DEF Loadings!vars, loading_vars
  <2> QED BY LoadInit, <2>1, PTL DEF Loadings!Spec
<1>3. CrawlHolds /\ LoadHolds => SourcesAreLoaded
  BY CrawlIsRight, LoadIsRight DEF SourcesAreLoaded
<1> QED BY <1>1, <1>2, <1>3, PTL

-------------------------------------------------------------------------------
(***************************************************************************)
(* MiddlewareStack.  What a hook further up the stack has done of the      *)
(* redacting, or of asking whether an answer is safe, no hook after it     *)
(* undoes; and a result that shows a notice is the one kept under its      *)
(* step, which no later result has.                                        *)
(***************************************************************************)

Shown == [step : Nat, large : BOOLEAN, secret : BOOLEAN, notice : BOOLEAN]

\* One of the first n - 1 of the stack is of some kinds.
IsAbove(kinds, n) == \E i \in 1..Len(hook_stack) : i < n /\ hook_stack[i] \in kinds
IsInStack(kinds) == \E i \in 1..Len(hook_stack) : hook_stack[i] \in kinds

StepsHold ==
  /\ steps \in Seq(Shown)
  /\ \A i \in 1..Len(steps) : steps[i].step = i
  /\ Len(steps) <= Middlewares!MostSteps
  /\ hook \in {"plan", "model", "planned"} => Len(steps) < Middlewares!MostSteps
  /\ hook = "called" => Len(steps) # 0

EvictedHold ==
  /\ DOMAIN evicted = 0..Middlewares!MostSteps
  /\ named => \A i \in 1..Len(steps) :
       steps[i].notice => \E o \in evicted[i] : o.step = i

\* Only the newest result may be secret, while its hooks are still called or since one failed.
ResultsHold ==
  IsInStack(Middlewares!Detectors) => \A i \in 1..Len(steps) :
    \/ ~steps[i].secret
    \/ hook = "failed"
    \/ hook = "called" /\ i = Len(steps) /\ ~IsAbove(Middlewares!Detectors, hook_at)

EventHolds ==
  /\ event \in [call : ToolResults] \cup [answer : {"fine", "secret", "redacted", "refusal"}]
  /\ hook \in {"finish", "done"} => Middlewares!IsAnswer
  /\ /\ Middlewares!IsAnswer
     /\ \/ hook = "planned" /\ IsAbove(Middlewares!Detectors, hook_at)
        \/ hook \in {"finish", "done"} /\ IsInStack(Middlewares!Detectors)
     => event.answer # "secret"
  /\ \/ hook = "finish" /\ IsAbove({"safety"}, hook_at)
     \/ hook = "done" /\ IsInStack({"safety"})
     => event.answer \in {"refusal", judged}

HooksHold ==
  /\ hook_stack \in Seq(STRING) /\ hook_at \in Nat \ {0}
  /\ StepsHold /\ EvictedHold /\ ResultsHold /\ EventHolds

LEMMA MostStepsAreSome == Middlewares!MostSteps \in Nat \ {0}
BY StacksAssumption DEF Middlewares!MostSteps

LEMMA HooksInit == Middlewares!Init => HooksHold
<1> SUFFICES ASSUME Middlewares!Init
             PROVE  HooksHold
  OBVIOUS
<1>1. /\ hook_stack \in Stacks /\ hook_at = 1 /\ steps = <<>> /\ hook = "plan"
      /\ event = [answer |-> "fine"]
      /\ evicted = [k \in 0..Middlewares!MostSteps |-> Middlewares!None]
  BY Zenon DEF Middlewares!Init
<1>2. StepsHold
  BY <1>1, MostStepsAreSome DEF StepsHold
<1>3. EvictedHold
  BY <1>1 DEF EvictedHold
<1>4. ResultsHold
  BY <1>1 DEF ResultsHold
<1>5. EventHolds
  BY <1>1 DEF EventHolds, Middlewares!IsAnswer
<1> QED BY <1>1, <1>2, <1>3, <1>4, <1>5, StacksAssumption DEF HooksHold

\* What the hooks of one phase have all done holds of the stack.
LEMMA AllAreAbove ==
  ASSUME HooksHold, hook_at > Len(hook_stack), NEW kinds
  PROVE  IsInStack(kinds) <=> IsAbove(kinds, hook_at)
BY DEF HooksHold, IsInStack, IsAbove

\* The next hook is above the one after it.
LEMMA OneMoreIsAbove ==
  ASSUME HooksHold, hook_at <= Len(hook_stack), NEW kinds
  PROVE  IsAbove(kinds, hook_at + 1) <=> IsAbove(kinds, hook_at) \/ hook_stack[hook_at] \in kinds
BY DEF HooksHold, IsAbove

\* Where the results and their store stay and no phase ends early, what is shown stays.
LEMMA StepsStay ==
  ASSUME HooksHold, UNCHANGED <<hook_stack, named, steps, evicted>>,
         hook \notin {"called", "failed"}, hook' # "called",
         hook' \in {"plan", "model", "planned"} => hook \in {"plan", "model", "planned"}
  PROVE  (StepsHold /\ EvictedHold /\ ResultsHold)'
<1>1. StepsHold'
  BY DEF HooksHold, StepsHold, Middlewares!MostSteps
<1>2. EvictedHold'
  BY DEF HooksHold, EvictedHold, Middlewares!MostSteps
<1>3. ResultsHold'
  BY DEF HooksHold, ResultsHold, IsInStack
<1> QED BY <1>1, <1>2, <1>3

LEMMA BeforePlanHolds ==
  ASSUME HooksHold, Middlewares!BeforePlan
  PROVE  HooksHold'
<1>1. /\ hook = "plan" /\ hook' \in {"plan", "failed"} /\ hook_at' \in Nat \ {0}
      /\ UNCHANGED <<hook_stack, named, steps, evicted, event, judged>>
  BY DEF Middlewares!BeforePlan, Middlewares!InHook, Middlewares!Fail, Middlewares!To,
         Middlewares!Pass, HooksHold
<1>2. (StepsHold /\ EvictedHold /\ ResultsHold)'
  BY <1>1, StepsStay
<1>3. EventHolds'
  BY <1>1 DEF HooksHold, EventHolds, Middlewares!IsAnswer
<1> QED BY <1>1, <1>2, <1>3 DEF HooksHold

LEMMA BeforeModelHolds ==
  ASSUME HooksHold, Middlewares!BeforeModel
  PROVE  HooksHold'
<1>1. /\ hook = "plan" /\ hook' = "model" /\ hook_at' \in Nat \ {0}
      /\ UNCHANGED <<hook_stack, named, steps, evicted, event, judged>>
  BY DEF Middlewares!BeforeModel, Middlewares!To
<1>2. (StepsHold /\ EvictedHold /\ ResultsHold)'
  BY <1>1, StepsStay
<1>3. EventHolds'
  BY <1>1 DEF HooksHold, EventHolds, Middlewares!IsAnswer
<1> QED BY <1>1, <1>2, <1>3 DEF HooksHold

LEMMA PlansHolds ==
  ASSUME HooksHold, Middlewares!Plans
  PROVE  HooksHold'
<1>1. /\ hook = "model" /\ hook' = "planned" /\ hook_at' = 1
      /\ UNCHANGED <<hook_stack, named, steps, evicted, judged>>
      /\ event' \in [call : ToolResults] \cup [answer : {"fine", "secret"}]
  BY DEF Middlewares!Plans, Middlewares!To
<1>2. (StepsHold /\ EvictedHold /\ ResultsHold)'
  BY <1>1, StepsStay
<1>3. ~IsAbove(Middlewares!Detectors, hook_at)'
  BY <1>1 DEF IsAbove, HooksHold
<1>4. event' \in [call : ToolResults] \cup [answer : {"fine", "secret", "redacted", "refusal"}]
  BY <1>1
<1>5. EventHolds'
  BY <1>1, <1>3, <1>4 DEF HooksHold, EventHolds
<1> QED BY <1>1, <1>2, <1>5 DEF HooksHold

\* A safety model's word: the answer stays, and is judged safe, or is refused.
LEMMA JudgedIs ==
  ASSUME HooksHold, Middlewares!IsAnswer, Middlewares!Judged
  PROVE  /\ event' \in [answer : {"fine", "secret", "redacted", "refusal"}]
         /\ event'.answer = event.answer \/ event'.answer = "refusal"
         /\ event'.answer \in {"refusal", judged'}
         /\ Middlewares!IsAnswer'
BY DEF HooksHold, EventHolds, Middlewares!IsAnswer, Middlewares!Judged, Middlewares!Refusal

LEMMA AfterPlanHolds ==
  ASSUME HooksHold, Middlewares!AfterPlan
  PROVE  HooksHold'
<1>1. /\ hook = "planned" /\ hook' \in {"planned", "failed"} /\ hook_at' \in Nat \ {0}
      /\ hook_at <= Len(hook_stack)
      /\ UNCHANGED <<hook_stack, named, steps, evicted>>
  BY DEF Middlewares!AfterPlan, Middlewares!InHook, Middlewares!Fail, Middlewares!To,
         Middlewares!Pass, HooksHold
<1>2. (StepsHold /\ EvictedHold /\ ResultsHold)'
  BY <1>1, StepsStay
<1>3. CASE hook' = "failed"
  <2>1. UNCHANGED event
    BY <1>1, <1>3 DEF Middlewares!AfterPlan, Middlewares!Fail, Middlewares!Pass
  <2>2. EventHolds'
    BY <1>3, <2>1 DEF HooksHold, EventHolds, Middlewares!IsAnswer
  <2> QED BY <1>1, <1>2, <2>2 DEF HooksHold
<1>4. CASE hook' = "planned" /\ Middlewares!IsAnswer /\ hook_stack[hook_at] = "safety"
  <2>1. Middlewares!Judged /\ hook_at' = hook_at + 1
    BY <1>1, <1>4 DEF Middlewares!AfterPlan, Middlewares!Fail, Middlewares!To, Middlewares!Pass
  <2>2. IsAbove(Middlewares!Detectors, hook_at)' => IsAbove(Middlewares!Detectors, hook_at)
    BY <1>1, <1>4, <2>1, OneMoreIsAbove DEF IsAbove, Middlewares!Detectors
  <2>3. EventHolds'
    BY <1>1, <1>4, <2>1, <2>2, JudgedIs DEF HooksHold, EventHolds
  <2> QED BY <1>1, <1>2, <2>3 DEF HooksHold
<1>5. CASE hook' = "planned" /\ ~(Middlewares!IsAnswer /\ hook_stack[hook_at] = "safety")
  <2>1. /\ event' = IF /\ Middlewares!IsAnswer /\ hook_stack[hook_at] = "pii"
                       /\ event.answer = "secret"
                    THEN [answer |-> "redacted"] ELSE event
        /\ hook_at' = hook_at + 1 /\ ~Middlewares!BlocksAnswer
    BY <1>1, <1>5 DEF Middlewares!AfterPlan, Middlewares!Pass, Middlewares!Fail, Middlewares!To
  <2>2. IsAbove(Middlewares!Detectors, hook_at)' =>
          \/ IsAbove(Middlewares!Detectors, hook_at)
          \/ hook_stack[hook_at] \in Middlewares!Detectors
    BY <1>1, <2>1, OneMoreIsAbove DEF IsAbove
  <2>3. /\ event' \in [call : ToolResults] \cup [answer : {"fine", "secret", "redacted", "refusal"}]
        /\ Middlewares!IsAnswer' /\ IsAbove(Middlewares!Detectors, hook_at)' => event'.answer # "secret"
    BY <1>1, <2>1, <2>2 DEF HooksHold, EventHolds, Middlewares!IsAnswer,
                            Middlewares!BlocksAnswer, Middlewares!Detectors
  <2>4. EventHolds'
    BY <1>5, <2>3 DEF EventHolds
  <2> QED BY <1>1, <1>2, <2>4 DEF HooksHold
<1> QED BY <1>1, <1>3, <1>4, <1>5

LEMMA BeforeFinishHolds ==
  ASSUME HooksHold, Middlewares!BeforeFinish
  PROVE  HooksHold'
<1>1. /\ hook = "planned" /\ hook' = "finish" /\ hook_at' = 1 /\ hook_at > Len(hook_stack)
      /\ Middlewares!IsAnswer
      /\ UNCHANGED <<hook_stack, named, steps, evicted, event, judged>>
  BY DEF Middlewares!BeforeFinish, Middlewares!To
<1>2. (StepsHold /\ EvictedHold /\ ResultsHold)'
  BY <1>1, StepsStay
<1>3. ~IsAbove({"safety"}, hook_at)'
  BY <1>1 DEF IsAbove, HooksHold
<1>4. IsInStack(Middlewares!Detectors)' => event'.answer # "secret"
  BY <1>1, AllAreAbove DEF HooksHold, EventHolds, IsInStack
<1>5. EventHolds'
  BY <1>1, <1>3, <1>4 DEF HooksHold, EventHolds, Middlewares!IsAnswer
<1> QED BY <1>1, <1>2, <1>5 DEF HooksHold

LEMMA FinishHolds ==
  ASSUME HooksHold, Middlewares!Finish
  PROVE  HooksHold'
<1>1. /\ hook = "finish" /\ hook' \in {"finish", "failed"} /\ hook_at' \in Nat \ {0}
      /\ hook_at <= Len(hook_stack)
      /\ UNCHANGED <<hook_stack, named, steps, evicted>>
  BY DEF Middlewares!Finish, Middlewares!InHook, Middlewares!Fail, Middlewares!To,
         Middlewares!Pass, HooksHold
<1>2. (StepsHold /\ EvictedHold /\ ResultsHold)'
  BY <1>1, StepsStay
<1>3. CASE hook' = "failed"
  <2>1. UNCHANGED event
    BY <1>1, <1>3 DEF Middlewares!Finish, Middlewares!Fail, Middlewares!Pass
  <2>2. EventHolds'
    BY <1>3, <2>1 DEF HooksHold, EventHolds, Middlewares!IsAnswer
  <2> QED BY <1>1, <1>2, <2>2 DEF HooksHold
<1>4. CASE hook' = "finish" /\ hook_stack[hook_at] = "safety"
  <2>1. Middlewares!Judged /\ Middlewares!IsAnswer
    BY <1>1, <1>4 DEF Middlewares!Finish, Middlewares!Fail, Middlewares!To, HooksHold, EventHolds
  <2>2. IsInStack(Middlewares!Detectors)' => event.answer # "secret"
    BY <1>1, <2>1 DEF HooksHold, EventHolds, IsInStack
  <2>3. EventHolds'
    BY <1>4, <2>1, <2>2, JudgedIs DEF EventHolds
  <2> QED BY <1>1, <1>2, <2>3 DEF HooksHold
<1>5. CASE hook' = "finish" /\ hook_stack[hook_at] # "safety"
  <2>1. UNCHANGED <<event, judged>> /\ hook_at' = hook_at + 1
    BY <1>1, <1>5 DEF Middlewares!Finish, Middlewares!Pass
  <2>2. IsAbove({"safety"}, hook_at)' => IsAbove({"safety"}, hook_at)
    BY <1>1, <1>5, <2>1, OneMoreIsAbove DEF IsAbove
  <2>3. IsInStack(Middlewares!Detectors)' => event.answer # "secret"
    BY <1>1 DEF HooksHold, EventHolds, IsInStack
  <2>4. EventHolds'
    BY <1>1, <1>5, <2>1, <2>2, <2>3 DEF HooksHold, EventHolds, Middlewares!IsAnswer
  <2> QED BY <1>1, <1>2, <2>4 DEF HooksHold
<1> QED BY <1>1, <1>3, <1>4, <1>5

LEMMA ReturnHolds ==
  ASSUME HooksHold, Middlewares!Return
  PROVE  HooksHold'
<1>1. /\ hook = "finish" /\ hook' = "done" /\ hook_at' = 1 /\ hook_at > Len(hook_stack)
      /\ UNCHANGED <<hook_stack, named, steps, evicted, event, judged>>
  BY DEF Middlewares!Return, Middlewares!To
<1>2. (StepsHold /\ EvictedHold /\ ResultsHold)'
  BY <1>1, StepsStay
<1>3. IsInStack({"safety"})' => event'.answer \in {"refusal", judged'}
  BY <1>1, AllAreAbove DEF HooksHold, EventHolds, IsInStack
<1>4. IsInStack(Middlewares!Detectors)' => event'.answer # "secret"
  BY <1>1 DEF HooksHold, EventHolds, IsInStack
<1>5. EventHolds'
  BY <1>1, <1>3, <1>4 DEF HooksHold, EventHolds, Middlewares!IsAnswer
<1> QED BY <1>1, <1>2, <1>5 DEF HooksHold

LEMMA CallToolHolds ==
  ASSUME HooksHold, Middlewares!CallTool
  PROVE  HooksHold'
<1> PICK n \in Nat : n = Len(steps)
  BY DEF HooksHold, StepsHold
<1> DEFINE new == Middlewares!Observation(event.call)
<1>1. /\ hook = "planned" /\ hook' = "called" /\ hook_at' = 1
      /\ steps' = Append(steps, new) /\ ~Middlewares!IsAnswer
      /\ UNCHANGED <<hook_stack, named, evicted, event>>
  BY DEF Middlewares!CallTool, Middlewares!To
<1>2. event.call \in [large : BOOLEAN, secret : BOOLEAN]
  BY <1>1, StacksAssumption DEF HooksHold, EventHolds, Middlewares!IsAnswer
<1>3. new \in Shown /\ new.step = n + 1 /\ new.notice = FALSE
  BY <1>2 DEF Middlewares!Observation, Shown
<1> HIDE DEF new
<1>4. /\ steps' \in Seq(Shown) /\ Len(steps') = n + 1 /\ steps'[n + 1] = new
      /\ \A i \in 1..n : steps'[i] = steps[i]
  BY <1>1, <1>3 DEF HooksHold, StepsHold
<1>5. StepsHold'
  BY <1>1, <1>3, <1>4, MostStepsAreSome DEF HooksHold, StepsHold, Middlewares!MostSteps
<1>6. EvictedHold'
  BY <1>1, <1>3, <1>4 DEF HooksHold, EvictedHold, Middlewares!MostSteps
<1>7. ~IsAbove(Middlewares!Detectors, hook_at)'
  BY <1>1 DEF IsAbove, HooksHold
<1>8. ResultsHold'
  BY <1>1, <1>4, <1>7 DEF HooksHold, ResultsHold, IsInStack
<1>9. EventHolds'
  BY <1>1 DEF HooksHold, EventHolds, Middlewares!IsAnswer
<1> QED BY <1>1, <1>5, <1>6, <1>8, <1>9 DEF HooksHold

LEMMA AfterToolHolds ==
  ASSUME HooksHold, Middlewares!AfterTool
  PROVE  HooksHold'
<1> PICK n \in Nat : n = Len(steps)
  BY DEF HooksHold, StepsHold
<1>1. /\ hook = "called" /\ hook' = "called" /\ hook_at' = hook_at + 1
      /\ hook_at <= Len(hook_stack) /\ ~Middlewares!Blocks
      /\ UNCHANGED <<hook_stack, named, event, judged>>
  BY DEF Middlewares!AfterTool, Middlewares!InHook, Middlewares!Pass
<1>2. EventHolds'
  BY <1>1 DEF HooksHold, EventHolds, Middlewares!IsAnswer
<1>3. IsAbove(Middlewares!Detectors, hook_at)' <=>
        \/ IsAbove(Middlewares!Detectors, hook_at)
        \/ hook_stack[hook_at] \in Middlewares!Detectors
  BY <1>1, OneMoreIsAbove DEF IsAbove
<1>4. CASE UNCHANGED <<steps, evicted>> /\ ~Middlewares!Redacts
  <2>1. StepsHold' /\ EvictedHold'
    BY <1>1, <1>4 DEF HooksHold, StepsHold, EvictedHold, Middlewares!MostSteps
  <2>2. hook_stack[hook_at] \in Middlewares!Detectors /\ n # 0 => ~steps[n].secret
    BY <1>1, <1>4 DEF Middlewares!Redacts, Middlewares!Blocks, Middlewares!Detectors,
                      Middlewares!Shown, Middlewares!Last
  <2>3. ResultsHold'
    BY <1>1, <1>3, <1>4, <2>2 DEF HooksHold, ResultsHold, IsInStack
  <2> QED BY <1>1, <1>2, <2>1, <2>3 DEF HooksHold
<1>5. CASE n # 0 /\ ~(UNCHANGED <<steps, evicted>> /\ ~Middlewares!Redacts)
  <2>1. PICK old : old = steps[n]
    OBVIOUS
  <2>2. old \in Shown /\ old.step = n /\ Middlewares!Shown = old
    BY <1>5, <2>1 DEF HooksHold, StepsHold, Middlewares!Shown, Middlewares!Last
  <2>3. PICK new : /\ Middlewares!Shows(new)
                   /\ \/ /\ new = [old EXCEPT !.secret = FALSE] /\ UNCHANGED evicted
                      \/ /\ hook_stack[hook_at] \notin Middlewares!Detectors \/ ~old.secret
                         /\ new = [old EXCEPT !.large = FALSE, !.notice = TRUE]
                         /\ evicted' = [evicted EXCEPT ![Middlewares!Key(old)] = {old}]
    BY <1>1, <1>5, <2>2 DEF Middlewares!AfterTool, Middlewares!Redacts, Middlewares!Blocks,
                            Middlewares!Detectors, Middlewares!Some
  <2>4. /\ new \in Shown /\ new.step = n
        /\ new.secret => old.secret /\ hook_stack[hook_at] \notin Middlewares!Detectors
        /\ new.notice => old.notice \/ evicted' = [evicted EXCEPT ![Middlewares!Key(old)] = {old}]
    BY <2>2, <2>3 DEF Shown
  <2>5. /\ steps' \in Seq(Shown) /\ Len(steps') = n /\ steps'[n] = new
        /\ \A i \in 1..(n - 1) : steps'[i] = steps[i]
    <3>1. steps' = Append(Middlewares!Front(steps), new)
      BY <2>3 DEF Middlewares!Shows
    <3>2. Middlewares!Front(steps) = SubSeq(steps, 1, n - 1)
      BY DEF Middlewares!Front
    <3>3. PICK front : front = SubSeq(steps, 1, n - 1)
      OBVIOUS
    <3>4. front \in Seq(Shown) /\ Len(front) = n - 1 /\ \A i \in 1..(n - 1) : front[i] = steps[i]
      BY <1>5, <3>3 DEF HooksHold, StepsHold
    <3> QED BY <1>5, <3>1, <3>2, <3>3, <3>4, <2>4
  <2>6. StepsHold'
    BY <1>1, <2>4, <2>5 DEF HooksHold, StepsHold, Middlewares!MostSteps
  <2>7. EvictedHold'
    <3>1. DOMAIN evicted' = 0..Middlewares!MostSteps
      BY <2>3 DEF HooksHold, EvictedHold
    <3>2. ASSUME named, NEW i \in 1..n, steps'[i].notice
          PROVE  \E o \in evicted'[i] : o.step = i
      <4>1. Middlewares!Key(old) = n
        BY <2>2, <3>2 DEF Middlewares!Key
      <4>2. n \in DOMAIN evicted
        BY <1>5 DEF HooksHold, EvictedHold, StepsHold, Middlewares!MostSteps
      <4>3. CASE i = n
        <5>1. CASE evicted' = [evicted EXCEPT ![n] = {old}]
          BY <2>2, <4>2, <4>3, <5>1
        <5>2. CASE UNCHANGED evicted /\ old.notice
          BY <2>1, <3>2, <4>3, <5>2 DEF HooksHold, EvictedHold
        <5> QED BY <2>3, <2>4, <2>5, <3>2, <4>1, <4>3, <5>1, <5>2
      <4>4. CASE i # n
        <5>1. steps[i].notice
          BY <2>5, <3>2, <4>4
        <5>2. evicted'[i] = evicted[i]
          <6>1. i \in DOMAIN evicted
            BY <4>2, MostStepsAreSome DEF HooksHold, EvictedHold
          <6> QED BY <2>3, <4>1, <4>4, <6>1
        <5> QED BY <3>2, <5>1, <5>2 DEF HooksHold, EvictedHold
      <4> QED BY <4>3, <4>4
    <3> QED BY <1>1, <2>5, <3>1, <3>2 DEF EvictedHold, Middlewares!MostSteps
  <2>8. ResultsHold'
    BY <1>1, <1>3, <1>5, <2>1, <2>4, <2>5 DEF HooksHold, ResultsHold, IsInStack
  <2> QED BY <1>1, <1>2, <2>6, <2>7, <2>8 DEF HooksHold
<1>6. n # 0
  BY <1>1 DEF HooksHold, StepsHold
<1> QED BY <1>4, <1>5, <1>6

\* A blocked result stays behind in a run that has failed.
LEMMA AfterToolFailsHolds ==
  ASSUME HooksHold, Middlewares!AfterToolFails
  PROVE  HooksHold'
<1>1. /\ hook = "called" /\ hook' = "failed" /\ hook_at' \in Nat \ {0}
      /\ UNCHANGED <<hook_stack, named, steps, evicted, event, judged>>
  BY DEF Middlewares!AfterToolFails, Middlewares!InHook, Middlewares!Fail, Middlewares!To
<1>2. StepsHold' /\ EvictedHold'
  BY <1>1 DEF HooksHold, StepsHold, EvictedHold, Middlewares!MostSteps
<1>3. ResultsHold' /\ EventHolds'
  BY <1>1 DEF HooksHold, ResultsHold, EventHolds, Middlewares!IsAnswer
<1> QED BY <1>1, <1>2, <1>3 DEF HooksHold

LEMMA AgainHolds ==
  ASSUME HooksHold, Middlewares!Again
  PROVE  HooksHold'
<1>1. /\ hook = "called" /\ hook_at > Len(hook_stack) /\ hook_at' = 1
      /\ hook' = IF Len(steps) >= MaxToolSteps THEN "limit" ELSE "plan"
      /\ UNCHANGED <<hook_stack, named, steps, evicted, event, judged>>
  BY DEF Middlewares!Again, Middlewares!To
<1>2. StepsHold'
  BY <1>1, StacksAssumption DEF HooksHold, StepsHold, Middlewares!MostSteps
<1>3. EvictedHold'
  BY <1>1 DEF HooksHold, EvictedHold, Middlewares!MostSteps
<1>4. ResultsHold'
  BY <1>1, AllAreAbove DEF HooksHold, ResultsHold, IsInStack
<1>5. EventHolds'
  BY <1>1 DEF HooksHold, EventHolds, Middlewares!IsAnswer
<1> QED BY <1>1, <1>2, <1>3, <1>4, <1>5 DEF HooksHold

LEMMA HooksStep ==
  ASSUME HooksHold, [Middlewares!Next]_hooks_vars
  PROVE  HooksHold'
<1>1. CASE UNCHANGED hooks_vars
  <2>1. UNCHANGED <<hook_stack, hook_at, named, steps, evicted, hook, event, judged>>
    BY <1>1 DEF hooks_vars
  <2>2. StepsHold' /\ EvictedHold'
    BY <2>1 DEF HooksHold, StepsHold, EvictedHold, Middlewares!MostSteps
  <2>3. ResultsHold' /\ EventHolds'
    BY <2>1 DEF HooksHold, ResultsHold, EventHolds, IsInStack, IsAbove, Middlewares!IsAnswer
  <2> QED BY <2>1, <2>2, <2>3 DEF HooksHold
<1>2. CASE Middlewares!Next
  BY <1>2, BeforePlanHolds, BeforeModelHolds, PlansHolds, AfterPlanHolds, CallToolHolds,
     AfterToolHolds, AfterToolFailsHolds, AgainHolds, BeforeFinishHolds, FinishHolds,
     ReturnHolds
     DEF Middlewares!Next
<1> QED BY <1>1, <1>2

LEMMA HooksAreRight ==
  ASSUME HooksHold
  PROVE  HooksGuard
<1>1. \A s \in Middlewares!ToSet(steps) : \E i \in 1..Len(steps) : s = steps[i] /\ s.step = i
  BY DEF HooksHold, StepsHold, Middlewares!ToSet
<1>2. Middlewares!EvictedResultsAreKept
  BY <1>1 DEF HooksHold, EvictedHold, Middlewares!EvictedResultsAreKept, Middlewares!Key
<1>3. \A kinds : Middlewares!ToSet(hook_stack) \cap kinds # {} => IsInStack(kinds)
  BY DEF HooksHold, Middlewares!ToSet, IsInStack
<1>4. Middlewares!AnswersAreGuarded
  <2>1. ASSUME Middlewares!ToSet(hook_stack) \cap Middlewares!Detectors # {},
               hook \in {"plan", "done", "limit"}, NEW s \in Middlewares!ToSet(steps)
        PROVE  ~s.secret
    BY <1>1, <1>3, <2>1 DEF HooksHold, ResultsHold
  <2>2. ASSUME Middlewares!ToSet(hook_stack) \cap Middlewares!Detectors # {}, hook = "done"
        PROVE  event.answer # "secret"
    BY <1>3, <2>2 DEF HooksHold, EventHolds
  <2>3. ASSUME "safety" \in Middlewares!ToSet(hook_stack), hook = "done"
        PROVE  event.answer \in {"refusal", judged}
    BY <1>3, <2>3 DEF HooksHold, EventHolds
  <2> QED BY <2>1, <2>2, <2>3 DEF Middlewares!AnswersAreGuarded, Middlewares!Refusal
<1> QED BY <1>2, <1>4 DEF HooksGuard

\* Whatever stand in the stack, and in which order: an evicted result is found under the
\* key its notice names, a model is shown no detected text of a tool, and no answer is
\* returned with one, or that was not found safe: the hooks after_tool_call,
\* after_agent_plan and before_finish of AgentExecutor's loop.
THEOREM HooksCorrect == Middlewares!Spec => []HooksGuard
<1>1. HooksHold /\ [Middlewares!Next]_(Middlewares!vars) => HooksHold'
  BY HooksStep DEF Middlewares!vars, hooks_vars
<1>2. HooksHold => HooksGuard
  BY HooksAreRight
<1> QED BY HooksInit, <1>1, <1>2, PTL DEF Middlewares!Spec

-------------------------------------------------------------------------------
(***************************************************************************)
(* VectorStores.  What a caller was told, and what he is to be told of a   *)
(* call that has written some of its documents, is stored; ids are drawn   *)
(* once, so what another caller deletes is none of his.                    *)
(***************************************************************************)

\* A namespace, or none given.
AnySpace == DocSpace \cup {""}

DocRow == [id : Int, doc : StoredDoc, space : AnySpace, gone : BOOLEAN]
TheBatch == [left : Seq(StoredDoc), told : SUBSET (Int \X StoredDoc), space : AnySpace]

IsStoredIn(rows, g) ==
  \E i \in 1..Len(rows) : ~rows[i].gone /\ rows[i].id = g[1] /\ rows[i].doc = g[2]

\* The stores that the property is about.
Promises == store.ids = "stored" /\ store.writes # "bulk"

IdsAreKept(rows, batches, ids, next) ==
  /\ \A g \in ids : IsStoredIn(rows, g) /\ g[1] < next
  /\ \A c \in Adder : \A t \in batches[c].told :
       /\ IsStoredIn(rows, t) /\ t[1] < next
       /\ \A g \in ids : t[1] # g[1]
  /\ \A c, d \in Adder : c # d =>
       \A t \in batches[c].told : \A u \in batches[d].told : t[1] # u[1]

StoresHold ==
  /\ table \in Seq(DocRow) /\ next_id \in Nat
  /\ batch \in [Adder -> TheBatch]
  /\ given_ids \subseteq Int \X StoredDoc
  /\ Promises => IdsAreKept(table, batch, given_ids, next_id)

LEMMA NoBatchIsOne ==
  /\ Stores!NoBatch \in TheBatch /\ Stores!NoBatch.told = {} /\ Stores!NoBatch.left = <<>>
<1>1. \E s \in AnySpace : Stores!NoBatch = [left |-> <<>>, told |-> {}, space |-> s]
  BY Zenon DEF Stores!NoBatch, AnySpace
<1> QED BY <1>1 DEF TheBatch

LEMMA KeptSpaces == \A space \in DocSpace : Stores!Kept(space) \in AnySpace
BY Zenon DEF Stores!Kept, AnySpace

LEMMA StoresInit == Stores!Init => StoresHold
<1> SUFFICES ASSUME Stores!Init
             PROVE  StoresHold
  OBVIOUS
<1>1. /\ table = <<>> /\ given_ids = {} /\ next_id = 1
      /\ batch = [c \in Adder |-> Stores!NoBatch]
  BY DEF Stores!Init
<1>2. batch \in [Adder -> TheBatch] /\ \A c \in Adder : batch[c].told = {}
  BY <1>1, NoBatchIsOne
<1>3. IdsAreKept(table, batch, given_ids, next_id)
  BY <1>1, <1>2 DEF IdsAreKept
<1> QED BY <1>1, <1>2, <1>3 DEF StoresHold

LEMMA StoredIs ==
  ASSUME StoresHold, NEW g
  PROVE  Stores!Stored(g) <=> IsStoredIn(table, g)
BY DEF StoresHold, Stores!Stored, Stores!Live, Stores!ToSet, IsStoredIn

-------------------------------------------------------------------------------
\* How many a statement writes, and which documents.
LEMMA WrittenIs ==
  ASSUME StoresHold, NEW c \in Adder, batch[c].left # <<>>
  PROVE  /\ Stores!Written(c) \in Nat \ {0} /\ Stores!Written(c) <= Len(batch[c].left)
         /\ \A i \in 1..Stores!Written(c) :
              /\ Stores!Row(c, i) \in DocRow
              /\ Stores!Row(c, i).id = next_id + i - 1
              /\ Stores!Row(c, i).doc = batch[c].left[i] /\ ~Stores!Row(c, i).gone
<1> PICK left : left = batch[c].left
  OBVIOUS
<1>1. left \in Seq(StoredDoc) /\ left # <<>> /\ batch[c].space \in AnySpace
  BY DEF StoresHold, TheBatch
<1> PICK n \in Nat : n = Len(left)
  BY <1>1
<1>2. n # 0
  BY <1>1
<1>3. Stores!Written(c) \in Nat \ {0} /\ Stores!Written(c) <= n
  BY <1>2 DEF Stores!Written
<1>4. \A i \in 1..n : left[i] \in StoredDoc
  BY <1>1
<1>5. \A i \in 1..Stores!Written(c) : i \in 1..n
  BY <1>3
<1>6. next_id \in Nat
  BY DEF StoresHold
<1> QED BY <1>1, <1>3, <1>4, <1>5, <1>6 DEF Stores!Row, DocRow

\* A write adds rows to the table and keeps those that are there.
LEMMA RowsAreAdded ==
  ASSUME StoresHold, NEW c \in Adder, batch[c].left # <<>>,
         NEW written \in SUBSET (1..Stores!Written(c)),
         NEW rows, rows = Stores!WithRows(c, written)
  PROVE  /\ rows \in Seq(DocRow)
         /\ \A g : IsStoredIn(table, g) => IsStoredIn(rows, g)
         /\ \A i \in written : IsStoredIn(rows, <<next_id + i - 1, batch[c].left[i]>>)
<1> PICK w \in Nat \ {0} : w = Stores!Written(c)
  BY WrittenIs
<1> DEFINE all == [i \in 1..w |-> Stores!Row(c, i)]
<1>1. /\ all \in Seq(DocRow) /\ Len(all) = w
      /\ \A i \in 1..w : /\ all[i].id = next_id + i - 1 /\ all[i].doc = batch[c].left[i]
                         /\ ~all[i].gone
  BY WrittenIs
<1>2. rows = table \o Selected(all, written)
  <2>1. rows = table \o Stores!Selected(all, written)
    BY DEF Stores!WithRows
  <2> HIDE DEF all
  <2>2. Stores!Selected(all, written) = Selected(all, written)
    BY DEF Stores!Selected, Stores!FlattenSeq, Selected, FlattenSeq
  <2> QED BY <2>1, <2>2
<1> HIDE DEF all
<1> PICK more : more = Selected(all, written)
  OBVIOUS
<1>3. more \in Seq(DocRow) /\ \E g : Selects(g, all, written, more)
  BY <1>1, SelectedElements
<1> PICK n \in Nat, m \in Nat : n = Len(table) /\ m = Len(more)
  BY <1>3 DEF StoresHold
<1>4. /\ rows \in Seq(DocRow) /\ Len(rows) = n + m
      /\ \A i \in 1..n : rows[i] = table[i]
      /\ \A i \in 1..m : rows[n + i] = more[i]
  BY <1>2, <1>3, ConcatElements DEF StoresHold
<1>5. ASSUME NEW g, IsStoredIn(table, g)
      PROVE  IsStoredIn(rows, g)
  <2>1. PICK i \in 1..n : ~table[i].gone /\ table[i].id = g[1] /\ table[i].doc = g[2]
    BY <1>5 DEF IsStoredIn
  <2>2. i \in 1..Len(rows) /\ rows[i] = table[i]
    BY <1>4
  <2> QED BY <2>1, <2>2 DEF IsStoredIn
<1>6. ASSUME NEW i \in written
      PROVE  IsStoredIn(rows, <<next_id + i - 1, batch[c].left[i]>>)
  <2>1. PICK h : Selects(h, all, written, more)
    BY <1>3
  <2>2. i \in 1..w
    OBVIOUS
  <2>3. PICK r \in 1..m : h[r] = i /\ more[r] = all[i]
    BY <1>1, <2>1, <2>2 DEF Selects
  <2>4. n + r \in 1..Len(rows)
    BY <1>4
  <2>5. rows[n + r] = all[i]
    BY <1>4, <2>3
  <2> QED BY <1>1, <2>2, <2>4, <2>5 DEF IsStoredIn
<1> QED BY <1>4, <1>5, <1>6

\* Where nothing is told but what is stored, ids drawn on keep what was promised.
LEMMA WriteHolds ==
  ASSUME StoresHold, NEW c \in Adder, Stores!Write(c)
  PROVE  StoresHold'
<1> PICK w \in Nat \ {0} : w = Stores!Written(c)
  BY WrittenIs DEF Stores!Write
<1> DEFINE new == {<<Stores!ToldId(Stores!Row(c, i)), batch[c].left[i]>> : i \in 1..w}
<1>1. batch[c].left # <<>> /\ next_id' = next_id + w /\ UNCHANGED store
  BY DEF Stores!Write
<1>2. PICK written \in SUBSET (1..w) :
        table' = Stores!WithRows(c, written) /\ (store.writes # "bulk" => written = 1..w)
  BY DEF Stores!Write
<1>3. /\ table' \in Seq(DocRow)
      /\ \A g : IsStoredIn(table, g) => IsStoredIn(table', g)
      /\ \A i \in written : IsStoredIn(table', <<next_id + i - 1, batch[c].left[i]>>)
  BY <1>1, <1>2, RowsAreAdded
<1>4. Stores!Told(c) = batch[c].told \cup new
  BY DEF Stores!Told
<1>5. \A i \in 1..w : /\ Stores!Row(c, i).id = next_id + i - 1
                      /\ batch[c].left[i] \in StoredDoc
  BY <1>1, WrittenIs DEF DocRow
<1>6. new \subseteq Int \X StoredDoc
  BY <1>5 DEF Stores!ToldId, StoresHold
<1>7. Promises => \A t \in new : IsStoredIn(table', t) /\ t[1] < next_id + w /\ t[1] >= next_id
  <2> SUFFICES ASSUME Promises, NEW t \in new
               PROVE  IsStoredIn(table', t) /\ t[1] < next_id + w /\ t[1] >= next_id
    OBVIOUS
  <2>1. PICK i \in 1..w : t = <<Stores!ToldId(Stores!Row(c, i)), batch[c].left[i]>>
    OBVIOUS
  <2>2. Stores!ToldId(Stores!Row(c, i)) = next_id + i - 1
    BY <1>5 DEF Stores!ToldId, Promises
  <2>3. i \in written
    BY <1>2 DEF Promises
  <2>4. IsStoredIn(table', t)
    BY <1>3, <2>1, <2>2, <2>3
  <2> HIDE DEF new
  <2>5. t[1] = next_id + i - 1 /\ next_id \in Nat
    BY <2>1, <2>2 DEF StoresHold
  <2> QED BY <2>4, <2>5
<1> HIDE DEF new
<1>8. batch[c] \in TheBatch /\ Stores!Told(c) \subseteq Int \X StoredDoc
  BY <1>4, <1>6 DEF StoresHold, TheBatch
<1> DEFINE left == SubSeq(batch[c].left, w + 1, Len(batch[c].left))
<1>9. left \in Seq(StoredDoc)
  BY <1>8 DEF TheBatch
<1>10. \/ batch' = [batch EXCEPT ![c] = Stores!NoBatch] /\ given_ids' = given_ids \cup Stores!Told(c)
       \/ batch' = [batch EXCEPT ![c] = [@ EXCEPT !.left = left, !.told = Stores!Told(c)]] /\ UNCHANGED given_ids
  BY DEF Stores!Write
<1> HIDE DEF left
<1>11. /\ batch' \in [Adder -> TheBatch]
       /\ \A d \in Adder : d # c => batch'[d] = batch[d]
       /\ \/ batch'[c].told = {} /\ given_ids' = given_ids \cup Stores!Told(c)
          \/ batch'[c].told = Stores!Told(c) /\ UNCHANGED given_ids
  <2>1. batch \in [Adder -> TheBatch]
    BY DEF StoresHold
  <2>2. CASE batch' = [batch EXCEPT ![c] = Stores!NoBatch] /\ given_ids' = given_ids \cup Stores!Told(c)
    BY <2>1, <2>2, NoBatchIsOne
  <2>3. CASE batch' = [batch EXCEPT ![c] = [@ EXCEPT !.left = left, !.told = Stores!Told(c)]] /\ UNCHANGED given_ids
    <3>1. [batch[c] EXCEPT !.left = left, !.told = Stores!Told(c)] \in TheBatch
      BY <1>8, <1>9 DEF TheBatch
    <3>2. batch' = [batch EXCEPT ![c] = [batch[c] EXCEPT !.left = left, !.told = Stores!Told(c)]]
      BY <2>1, <2>3
    <3>3. [batch[c] EXCEPT !.left = left, !.told = Stores!Told(c)].told = Stores!Told(c)
      BY <1>8 DEF TheBatch
    <3> QED BY <2>1, <2>3, <3>1, <3>2, <3>3
  <2> QED BY <1>10, <2>2, <2>3
<1>12. given_ids' \subseteq Int \X StoredDoc
  BY <1>8, <1>11 DEF StoresHold
<1>13. ASSUME Promises
       PROVE  IdsAreKept(table', batch', given_ids', next_id')
  <2>1. IdsAreKept(table, batch, given_ids, next_id)
    BY <1>13 DEF StoresHold
  <2>2. /\ given_ids \subseteq Int \X StoredDoc
        /\ \A d \in Adder : batch[d].told \subseteq Int \X StoredDoc
    BY DEF StoresHold, TheBatch
  <2>3. \A t \in Int \X StoredDoc : t[1] \in Int
    OBVIOUS
  <2>4. \A t \in Stores!Told(c) : IsStoredIn(table', t) /\ t[1] < next_id + w
    BY <1>3, <1>4, <1>7, <1>13, <2>1, <2>2, <2>3 DEF IdsAreKept, StoresHold
  <2>5. ASSUME NEW d \in Adder, d # c, NEW t \in batch[d].told, NEW u \in Stores!Told(c)
        PROVE  t[1] # u[1]
    <3>1. CASE u \in batch[c].told
      BY <2>1, <2>5, <3>1 DEF IdsAreKept
    <3>2. CASE u \in new
      <4>1. t[1] < next_id /\ u[1] >= next_id
        BY <1>7, <1>13, <2>1, <3>2 DEF IdsAreKept
      <4> QED BY <4>1, <2>2, <2>3, <1>8, <2>5 DEF StoresHold
    <3> QED BY <1>4, <2>5, <3>1, <3>2
  <2>6. ASSUME NEW g \in given_ids, NEW u \in Stores!Told(c)
        PROVE  u[1] # g[1]
    <3>1. CASE u \in batch[c].told
      BY <2>1, <2>6, <3>1 DEF IdsAreKept
    <3>2. CASE u \in new
      <4>1. g[1] < next_id /\ u[1] >= next_id
        BY <1>7, <1>13, <2>1, <3>2 DEF IdsAreKept
      <4> QED BY <4>1, <2>2, <2>3, <1>8, <2>6 DEF StoresHold
    <3> QED BY <1>4, <2>6, <3>1, <3>2
  <2>7. ASSUME NEW g \in given_ids
        PROVE  IsStoredIn(table', g) /\ g[1] < next_id + w
    BY <1>3, <2>1, <2>2, <2>3 DEF IdsAreKept, StoresHold
  <2>8. ASSUME NEW d \in Adder, NEW t \in batch[d].told
        PROVE  IsStoredIn(table', t) /\ t[1] < next_id + w
    BY <1>3, <2>1, <2>2, <2>3 DEF IdsAreKept, StoresHold
  <2>9. \A g \in given_ids' : IsStoredIn(table', g) /\ g[1] < next_id'
    BY <1>1, <1>11, <2>4, <2>7
  <2>10. ASSUME NEW d \in Adder, NEW t \in batch'[d].told
         PROVE  /\ IsStoredIn(table', t) /\ t[1] < next_id'
                /\ \A g \in given_ids' : t[1] # g[1]
    <3>1. CASE d = c
      BY <1>1, <1>11, <2>4, <2>6, <2>10, <3>1
    <3>2. CASE d # c
      <4>1. t \in batch[d].told
        BY <1>11, <2>10, <3>2
      <4>2. \A g \in given_ids : t[1] # g[1]
        BY <2>1, <4>1 DEF IdsAreKept
      <4> QED BY <1>1, <1>11, <2>5, <2>8, <3>2, <4>1, <4>2
    <3> QED BY <3>1, <3>2
  <2>11. ASSUME NEW d \in Adder, NEW e \in Adder, d # e,
                NEW t \in batch'[d].told, NEW u \in batch'[e].told
         PROVE  t[1] # u[1]
    <3>1. CASE d = c
      BY <1>11, <2>5, <2>11, <3>1
    <3>2. CASE e = c
      BY <1>11, <2>5, <2>11, <3>2
    <3>3. CASE d # c /\ e # c
      BY <1>11, <2>1, <2>11, <3>3 DEF IdsAreKept
    <3> QED BY <3>1, <3>2, <3>3
  <2> QED BY <2>9, <2>10, <2>11 DEF IdsAreKept
<1>14. next_id' \in Nat
  BY <1>1 DEF StoresHold
<1>15. Promises' => Promises
  BY <1>1 DEF Promises
<1> QED BY <1>3, <1>11, <1>12, <1>13, <1>14, <1>15 DEF StoresHold

-------------------------------------------------------------------------------
\* Fewer batches, fewer promises: what is kept of the table and of what was told.
LEMMA FewerAreKept ==
  ASSUME NEW rows, NEW batches \in [Adder -> TheBatch], NEW ids, NEW next \in Nat,
         StoresHold, Promises,
         ids \subseteq given_ids, next_id <= next,
         \A c \in Adder : batches[c].told \subseteq batch[c].told,
         \A g \in ids : IsStoredIn(table, g) => IsStoredIn(rows, g),
         \A c \in Adder : \A t \in batches[c].told : IsStoredIn(table, t) => IsStoredIn(rows, t)
  PROVE  IdsAreKept(rows, batches, ids, next)
<1>1. IdsAreKept(table, batch, given_ids, next_id)
  BY DEF StoresHold
<1>2. /\ \A g \in given_ids : g[1] \in Int
      /\ \A c \in Adder : \A t \in batch[c].told : t[1] \in Int
      /\ next_id \in Nat
  BY DEF StoresHold, TheBatch
<1>3. \A g \in ids : IsStoredIn(rows, g) /\ g[1] < next
  BY <1>1, <1>2 DEF IdsAreKept
<1>4. ASSUME NEW c \in Adder, NEW t \in batches[c].told
      PROVE  IsStoredIn(rows, t) /\ t[1] < next /\ \A g \in ids : t[1] # g[1]
  BY <1>1, <1>2 DEF IdsAreKept
<1>5. ASSUME NEW c \in Adder, NEW d \in Adder, c # d,
             NEW t \in batches[c].told, NEW u \in batches[d].told
      PROVE  t[1] # u[1]
  BY <1>1, <1>5 DEF IdsAreKept
<1> QED BY <1>3, <1>4, <1>5 DEF IdsAreKept

LEMMA AddHolds ==
  ASSUME StoresHold, NEW c \in Adder, NEW docs \in DocBatches, NEW space \in DocSpace,
         Stores!Add(c, docs, space)
  PROVE  StoresHold'
<1> DEFINE new == [left |-> docs, told |-> {}, space |-> Stores!Kept(space)]
<1>1. batch' = [batch EXCEPT ![c] = new] /\ UNCHANGED <<store, table, given_ids, next_id>>
  BY DEF Stores!Add
<1>2. new \in TheBatch /\ new.told = {}
  BY BatchesAssumption, KeptSpaces DEF TheBatch
<1> HIDE DEF new
<1>3. /\ batch' \in [Adder -> TheBatch]
      /\ \A d \in Adder : batch'[d].told \subseteq batch[d].told
  BY <1>1, <1>2 DEF StoresHold
<1>4. Promises => IdsAreKept(table, batch', given_ids, next_id)
  BY <1>3, FewerAreKept DEF StoresHold
<1> QED BY <1>1, <1>3, <1>4 DEF StoresHold, Promises

LEMMA WriteFailsHolds ==
  ASSUME StoresHold, NEW c \in Adder, Stores!WriteFails(c)
  PROVE  StoresHold'
<1> PICK w \in Nat \ {0} : w = Stores!Written(c)
  BY WrittenIs DEF Stores!WriteFails
<1>1. /\ batch[c].left # <<>> /\ next_id' = next_id + w
      /\ batch' = [batch EXCEPT ![c] = Stores!NoBatch] /\ UNCHANGED <<store, given_ids>>
      /\ table' = table \/ table' = Stores!WithRows(c, 1..w)
  BY DEF Stores!WriteFails
<1>2. table' \in Seq(DocRow) /\ \A g : IsStoredIn(table, g) => IsStoredIn(table', g)
  BY <1>1, RowsAreAdded DEF StoresHold
<1>3. /\ batch' \in [Adder -> TheBatch]
      /\ \A d \in Adder : batch'[d].told \subseteq batch[d].told
  BY <1>1, NoBatchIsOne DEF StoresHold
<1>4. next_id' \in Nat /\ next_id <= next_id'
  BY <1>1 DEF StoresHold
<1>5. Promises => IdsAreKept(table', batch', given_ids, next_id')
  BY <1>2, <1>3, <1>4, FewerAreKept
<1> QED BY <1>1, <1>2, <1>3, <1>4, <1>5 DEF StoresHold, Promises

\* A deletion leaves what it does not name.
LEMMA OthersAreLeft ==
  ASSUME StoresHold, NEW ids, NEW rows, rows = Stores!Without(ids)
  PROVE  /\ rows \in Seq(DocRow)
         /\ \A g : g[1] \notin ids /\ IsStoredIn(table, g) => IsStoredIn(rows, g)
<1> PICK n \in Nat : n = Len(table) /\ DOMAIN table = 1..n
  BY DEF StoresHold
<1>1. table \in Seq(DocRow) /\ \A i \in 1..n : table[i] \in DocRow
  BY DEF StoresHold
<1>2. CASE store.deletes \in {"rows", "each"}
  <2> DEFINE left == {i \in 1..n : table[i].id \notin ids}
  <2>1. rows = Selected(table, left)
    BY <1>2 DEF Stores!Without, Stores!Selected, Stores!FlattenSeq, Selected, FlattenSeq
  <2> HIDE DEF left
  <2>2. rows \in Seq(DocRow) /\ \E g : Selects(g, table, left, rows)
    BY <1>1, <2>1, SelectedElements
  <2>3. ASSUME NEW g, g[1] \notin ids, IsStoredIn(table, g)
        PROVE  IsStoredIn(rows, g)
    <3>1. PICK i \in 1..n : ~table[i].gone /\ table[i].id = g[1] /\ table[i].doc = g[2]
      BY <2>3 DEF IsStoredIn
    <3>2. i \in left
      BY <2>3, <3>1 DEF left
    <3>3. PICK h : Selects(h, table, left, rows)
      BY <2>2
    <3>4. PICK r \in 1..Len(rows) : rows[r] = table[i]
      BY <3>2, <3>3 DEF Selects
    <3> QED BY <3>1, <3>4 DEF IsStoredIn
  <2> QED BY <2>2, <2>3
<1>3. CASE store.deletes = "indexed"
  <2>1. rows = [i \in 1..n |-> [table[i] EXCEPT !.gone = @ \/ table[i].id \in ids]]
    BY <1>3 DEF Stores!Without
  <2>2. ASSUME NEW i \in 1..n
        PROVE  /\ rows[i] \in DocRow
               /\ rows[i].id = table[i].id /\ rows[i].doc = table[i].doc
               /\ rows[i].gone => table[i].gone \/ table[i].id \in ids
    <3>1. PICK r \in DocRow : r = table[i]
      BY <1>1
    <3>2. rows[i] = [r EXCEPT !.gone = @ \/ r.id \in ids]
      BY <2>1, <3>1
    <3>3. rows[i] = [id |-> r.id, doc |-> r.doc, space |-> r.space,
                     gone |-> (r.gone \/ r.id \in ids)]
      BY <3>2 DEF DocRow
    <3> QED BY <3>1, <3>3 DEF DocRow
  <2>3. rows \in Seq(DocRow) /\ Len(rows) = n
    BY <2>1, <2>2
  <2>4. ASSUME NEW g, g[1] \notin ids, IsStoredIn(table, g)
        PROVE  IsStoredIn(rows, g)
    <3>1. PICK i \in 1..n : ~table[i].gone /\ table[i].id = g[1] /\ table[i].doc = g[2]
      BY <2>4 DEF IsStoredIn
    <3> QED BY <2>2, <2>3, <2>4, <3>1 DEF IsStoredIn
  <2> QED BY <2>3, <2>4
<1>4. CASE store.deletes \notin {"rows", "each", "indexed"}
  <2>1. rows = table
    BY <1>4 DEF Stores!Without
  <2> QED BY <1>1, <2>1
<1> QED BY <1>2, <1>3, <1>4

\* Nobody else counts on an id that was told.
LEMMA DeletionHolds ==
  ASSUME StoresHold, NEW ids \in SUBSET {g[1] : g \in given_ids}, NEW applied \in SUBSET ids,
         table' = Stores!Without(applied), Stores!Asked(ids),
         UNCHANGED <<store, batch, next_id>>
  PROVE  StoresHold'
<1>1. given_ids' = {g \in given_ids : g[1] \notin ids}
  BY DEF Stores!Asked
<1>2. /\ table' \in Seq(DocRow)
      /\ \A g : g[1] \notin applied /\ IsStoredIn(table, g) => IsStoredIn(table', g)
  BY OthersAreLeft
<1>3. ASSUME Promises
      PROVE  IdsAreKept(table', batch, given_ids', next_id)
  <2>1. \A g \in given_ids' : IsStoredIn(table, g) => IsStoredIn(table', g)
    BY <1>1, <1>2
  <2>2. ASSUME NEW c \in Adder, NEW t \in batch[c].told, IsStoredIn(table, t)
        PROVE  IsStoredIn(table', t)
    <3>1. \A g \in given_ids : t[1] # g[1]
      BY <1>3 DEF StoresHold, IdsAreKept
    <3>2. t[1] \notin applied
      BY <3>1
    <3> QED BY <1>2, <2>2, <3>2
  <2>3. batch \in [Adder -> TheBatch] /\ next_id \in Nat /\ given_ids' \subseteq given_ids
    BY <1>1 DEF StoresHold
  <2>4. next_id <= next_id
    BY <2>3
  <2> QED BY <1>3, <2>1, <2>2, <2>3, <2>4, FewerAreKept
<1> QED BY <1>1, <1>2, <1>3 DEF StoresHold, Promises

LEMMA ReopenHolds ==
  ASSUME StoresHold, Stores!Reopen
  PROVE  StoresHold'
<1>1. /\ (table' = <<>> /\ given_ids' = {}) \/ UNCHANGED <<table, given_ids>>
      /\ batch' = [c \in Adder |-> Stores!NoBatch]
      /\ UNCHANGED <<store, next_id>>
  BY DEF Stores!Reopen
<1>2. batch' \in [Adder -> TheBatch] /\ \A c \in Adder : batch'[c].told = {}
  BY <1>1, NoBatchIsOne
<1>3. table' \in Seq(DocRow) /\ given_ids' \subseteq given_ids
  <2>1. table \in Seq(DocRow) /\ <<>> \in Seq(DocRow)
    BY DEF StoresHold
  <2> QED BY <1>1, <2>1
<1>4. Promises => IdsAreKept(table', batch', given_ids', next_id)
  <2>1. \A g \in given_ids' : IsStoredIn(table, g) => IsStoredIn(table', g)
    BY <1>1
  <2>2. next_id \in Nat /\ next_id <= next_id
    BY DEF StoresHold
  <2> QED BY <1>2, <1>3, <2>1, <2>2, FewerAreKept
<1>5. given_ids' \subseteq Int \X StoredDoc
  BY <1>3 DEF StoresHold
<1> QED BY <1>1, <1>2, <1>3, <1>4, <1>5 DEF StoresHold, Promises

LEMMA StoresStep ==
  ASSUME StoresHold, [Stores!Next]_stores_vars
  PROVE  StoresHold'
<1>1. CASE UNCHANGED stores_vars
  BY <1>1 DEF stores_vars, StoresHold, Promises
<1>2. CASE Stores!Next
  <2>1. CASE \E c \in Adder : \E docs \in DocBatches, space \in DocSpace : Stores!Add(c, docs, space)
    BY <2>1, AddHolds
  <2>2. CASE \E c \in Adder : Stores!Write(c) \/ Stores!WriteFails(c)
    BY <2>2, WriteHolds, WriteFailsHolds
  <2>3. CASE \E ids \in SUBSET {g[1] : g \in given_ids} : Stores!Delete(ids) \/ Stores!DeleteFails(ids)
    <3>1. PICK ids \in SUBSET {g[1] : g \in given_ids} : Stores!Delete(ids) \/ Stores!DeleteFails(ids)
      BY <2>3
    <3>2. \E applied \in SUBSET ids : table' = Stores!Without(applied)
      BY <3>1 DEF Stores!Delete, Stores!DeleteFails
    <3>3. Stores!Asked(ids) /\ UNCHANGED <<store, batch, next_id>>
      BY <3>1 DEF Stores!Delete, Stores!DeleteFails
    <3> QED BY <3>2, <3>3, DeletionHolds
  <2>4. CASE Stores!Reopen
    BY <2>4, ReopenHolds
  <2> QED BY <1>2, <2>1, <2>2, <2>3, <2>4 DEF Stores!Next
<1> QED BY <1>1, <1>2

LEMMA StoresAreRight ==
  ASSUME StoresHold
  PROVE  Stores!ReturnedIdsAreStored
BY StoredIs DEF StoresHold, Promises, IdsAreKept, Stores!ReturnedIdsAreStored

-------------------------------------------------------------------------------
(***************************************************************************)
(* KeyStores.  A search that awaits its embedding holds the read lock, so  *)
(* what it took in hand is still what it would find; and an item lies      *)
(* under the name it was put with.                                         *)
(***************************************************************************)

IsNamedItem(d) ==
  /\ d = [at |-> d.at, namespace |-> d.namespace, key |-> d.key, value |-> d.value,
          indexed |-> d.indexed, time |-> d.time]
  /\ d.namespace \in KeyNamespace /\ d.key \in NamedKey
  /\ d.at = Keyed!StoreKey(d.namespace, d.key)

KeyedHolds ==
  /\ IsFiniteSet(named_items)
  /\ \A d \in named_items \cup putting : IsNamedItem(d)
  /\ putting # {} => searching = {}
  /\ \A s \in searching : s.among = Keyed!Candidates(s.namespace, s.values)
  /\ Keyed!BestAreFound

LEMMA SizesOfItems == \A S : Keyed!Cardinality(S) = Cardinality(S)
BY DEF Keyed!Cardinality, Cardinality, Keyed!IsFiniteSet, IsFiniteSet

-------------------------------------------------------------------------------
\* A permutation of all of a set has each of its elements once.
LEMMA PermutationsCover ==
  ASSUME NEW S, IsFiniteSet(S), NEW s \in Keyed!SetToAllKPermutations(S),
         Len(s) = Keyed!Cardinality(S)
  PROVE  /\ s \in Seq(S) /\ Len(s) = Cardinality(S)
         /\ \A x \in S : \E i \in 1..Len(s) : s[i] = x
         /\ \A i, j \in 1..Len(s) : i # j => s[i] # s[j]
<1>1. PICK T \in SUBSET S : s \in Keyed!SetToSeqs(T)
  BY DEF Keyed!SetToAllKPermutations
<1>2. IsFiniteSet(T) /\ (Cardinality(S) = Cardinality(T) => S = T)
  BY FS_Subset
<1>3. PICK n \in Nat : n = Cardinality(T)
  BY <1>2, FS_CardinalityType
<1>4. s \in [1..n -> T] /\ \A i, j \in 1..n : i # j => s[i] # s[j]
  BY <1>1, <1>3, SizesOfItems DEF Keyed!SetToSeqs
<1>5. s \in Seq(T) /\ Len(s) = n
  BY ONLY <1>4, n \in Nat
<1>6. S = T /\ Cardinality(S) = n
  BY <1>2, <1>3, <1>5, SizesOfItems
<1>7. s \in Injection(1..n, T)
  BY <1>4 DEF Injection, IsInjective
<1>8. Cardinality(1..n) = n
  BY FS_Interval
<1>9. s \in Surjection(1..n, T)
  BY <1>2, <1>3, <1>7, <1>8, FS_Injection
<1>10. \A x \in T : \E i \in 1..n : s[i] = x
  BY <1>9 DEF Surjection
<1> QED BY <1>4, <1>5, <1>6, <1>10

\* The first ones of a sequence without repetitions, and those that are left out.
LEMMA TakenComeFirst ==
  ASSUME NEW S, NEW s \in Seq(S), NEW limit \in Nat,
         \A x \in S : \E i \in 1..Len(s) : s[i] = x,
         \A i, j \in 1..Len(s) : i # j => s[i] # s[j],
         NEW t, t = Keyed!Taken(s, limit)
  PROVE  /\ Keyed!ToSet(t) \subseteq S
         /\ Len(t) = IF limit < Len(s) THEN limit ELSE Len(s)
         /\ \A x \in S \ Keyed!ToSet(t), y \in Keyed!ToSet(t) :
              \E i, j \in 1..Len(s) : i < j /\ s[i] = y /\ s[j] = x
<1> PICK n \in Nat : n = Len(s)
  OBVIOUS
<1> PICK m \in Nat : m = (IF limit < n THEN limit ELSE n) /\ m <= n
  OBVIOUS
<1>1. t = SubSeq(s, 1, m)
  BY DEF Keyed!Taken
<1>2. t \in Seq(S) /\ Len(t) = m /\ \A i \in 1..m : t[i] = s[i]
  BY <1>1
<1>3. Keyed!ToSet(t) = {s[i] : i \in 1..m}
  BY <1>2 DEF Keyed!ToSet
<1>4. Keyed!ToSet(t) \subseteq S
  BY <1>3
<1>5. ASSUME NEW x \in S \ Keyed!ToSet(t), NEW y \in Keyed!ToSet(t)
      PROVE  \E i, j \in 1..Len(s) : i < j /\ s[i] = y /\ s[j] = x
  <2>1. PICK j \in 1..n : s[j] = x
    OBVIOUS
  <2>2. PICK i \in 1..m : s[i] = y
    BY <1>3
  <2>3. j \notin 1..m
    BY <1>3, <2>1
  <2>4. i \in 1..n /\ i < j
    BY <2>2, <2>3
  <2> QED BY <2>1, <2>2, <2>4
<1> QED BY <1>2, <1>4, <1>5

\* What a search answers is the best of what it was among.
LEMMA AnswersAreBest ==
  ASSUME NEW namespace, NEW values, NEW limit \in Nat, NEW query,
         NEW among, among = Keyed!Candidates(namespace, values), IsFiniteSet(among),
         Keyed!Answered(namespace, values, limit, query, among), UNCHANGED kept_by
  PROVE  Keyed!BestAreFound'
<1> DEFINE ranked == kept_by = "indexed" /\ query
           asked == IF ranked THEN {d \in among : d.indexed} ELSE among
<1>1. PICK s \in Keyed!Found(among, query) :
        search_answer' = [limit |-> limit, query |-> query, of |-> among,
                          items |-> Keyed!Taken(s, limit)]
  BY DEF Keyed!Answered
<1>2. IsFiniteSet(asked)
  BY FS_Subset
<1>3. /\ s \in Keyed!SetToAllKPermutations(asked) /\ Len(s) = Keyed!Cardinality(asked)
      /\ kept_by = "graph" => \A i, j \in DOMAIN s : i < j => ~Keyed!Newest(s[j], s[i])
      /\ ranked => \A i, j \in DOMAIN s : i < j => ~Keyed!Nearest(s[j], s[i])
  BY <1>1 DEF Keyed!Found, Keyed!Sorted
<1>4. /\ search_answer'.limit = limit /\ search_answer'.of = among
      /\ search_answer'.query = query /\ search_answer'.items = Keyed!Taken(s, limit)
  BY <1>1
<1>5. asked = IF kept_by' = "indexed" /\ search_answer'.query
              THEN {d \in search_answer'.of : d.indexed} ELSE search_answer'.of
  BY <1>4
<1> HIDE DEF asked
<1>6. /\ s \in Seq(asked) /\ Len(s) = Cardinality(asked)
      /\ \A x \in asked : \E i \in 1..Len(s) : s[i] = x
      /\ \A i, j \in 1..Len(s) : i # j => s[i] # s[j]
  BY <1>2, <1>3, PermutationsCover
<1> PICK t : t = Keyed!Taken(s, limit)
  OBVIOUS
<1>7. /\ Keyed!ToSet(t) \subseteq asked
      /\ Len(t) = IF limit < Len(s) THEN limit ELSE Len(s)
      /\ \A x \in asked \ Keyed!ToSet(t), y \in Keyed!ToSet(t) :
           \E i, j \in 1..Len(s) : i < j /\ s[i] = y /\ s[j] = x
  BY <1>6, TakenComeFirst
<1>8. DOMAIN s = 1..Len(s)
  BY <1>6
<1>9. ASSUME NEW d \in asked \ Keyed!ToSet(t), NEW e \in Keyed!ToSet(t)
      PROVE  /\ kept_by = "graph" => ~Keyed!Newest(d, e)
             /\ ranked => ~Keyed!Nearest(d, e)
  <2>1. PICK i \in 1..Len(s), j \in 1..Len(s) : i < j /\ s[i] = e /\ s[j] = d
    BY <1>7
  <2> QED BY <1>3, <1>8, <2>1
<1>10. Len(t) = IF limit < Keyed!Cardinality(asked) THEN limit ELSE Keyed!Cardinality(asked)
  BY <1>6, <1>7, SizesOfItems
<1> QED BY <1>4, <1>5, <1>7, <1>9, <1>10 DEF Keyed!BestAreFound, Keyed!Newest, Keyed!Nearest

\* No answer leaves nothing out.
LEMMA NoAnswerIsBest ==
  ASSUME search_answer' = Keyed!NoAnswer
  PROVE  Keyed!BestAreFound'
<1>1. /\ search_answer'.limit = 0 /\ search_answer'.of = {} /\ search_answer'.items = <<>>
  BY DEF Keyed!NoAnswer
<1>2. Keyed!Cardinality({}) = 0
  BY FS_EmptySet, SizesOfItems
<1>3. Keyed!ToSet(<<>>) = {} /\ Len(<<>>) = 0
  BY DEF Keyed!ToSet
<1>4. {d \in {} : d.indexed} = {}
  OBVIOUS
<1> QED BY <1>1, <1>2, <1>3, <1>4 DEF Keyed!BestAreFound

LEMMA KeyedInit == Keyed!Init => KeyedHolds
<1> SUFFICES ASSUME Keyed!Init
             PROVE  KeyedHolds
  OBVIOUS
<1>1. named_items = {} /\ putting = {} /\ searching = {} /\ search_answer = Keyed!NoAnswer
  BY DEF Keyed!Init
<1>2. Keyed!BestAreFound
  <2>1. /\ search_answer.limit = 0 /\ search_answer.of = {} /\ search_answer.items = <<>>
    BY <1>1 DEF Keyed!NoAnswer
  <2>2. Keyed!Cardinality({}) = 0
    BY FS_EmptySet, SizesOfItems
  <2>3. Keyed!ToSet(<<>>) = {} /\ Len(<<>>) = 0
    BY DEF Keyed!ToSet
  <2>4. {d \in {} : d.indexed} = {}
    OBVIOUS
  <2> QED BY <2>1, <2>2, <2>3, <2>4 DEF Keyed!BestAreFound
<1> QED BY <1>1, <1>2, FS_EmptySet DEF KeyedHolds

-------------------------------------------------------------------------------
\* One more item, in place of the one under its name, if any.
LEMMA InsertedIs ==
  ASSUME KeyedHolds, NEW item, IsNamedItem(item)
  PROVE  /\ IsFiniteSet(Keyed!Inserted(item))
         /\ \A d \in Keyed!Inserted(item) : IsNamedItem(d)
<1>1. IsFiniteSet({d \in named_items : d.at # item.at})
  BY FS_Subset DEF KeyedHolds
<1>2. IsFiniteSet({d \in named_items : d.at # item.at} \cup {item})
  BY <1>1, FS_AddElement
<1> QED BY <1>2 DEF KeyedHolds, Keyed!Inserted

LEMMA ItemsAreNamed ==
  ASSUME NEW namespace \in KeyNamespace, NEW key \in NamedKey, NEW value, NEW indexed
  PROVE  IsNamedItem(Keyed!Item(namespace, key, value, indexed))
BY DEF IsNamedItem, Keyed!Item

LEMMA NamesStay ==
  ASSUME UNCHANGED kept_by, NEW d, IsNamedItem(d)
  PROVE  IsNamedItem(d)'
BY DEF IsNamedItem, Keyed!StoreKey, Keyed!Enhanced

\* What a search is among depends on the items alone.
LEMMA CandidatesStay ==
  ASSUME UNCHANGED <<kept_by, named_items>>, NEW namespace, NEW values
  PROVE  Keyed!Candidates(namespace, values)' = Keyed!Candidates(namespace, values)
BY DEF Keyed!Candidates, Keyed!StoreKey, Keyed!Enhanced

LEMMA BestStays ==
  ASSUME KeyedHolds, UNCHANGED <<kept_by, search_answer>>
  PROVE  Keyed!BestAreFound'
BY DEF KeyedHolds, Keyed!BestAreFound, Keyed!Newest, Keyed!Nearest

LEMMA PutHolds ==
  ASSUME KeyedHolds, NEW n \in KeyNamespace, NEW k \in NamedKey, NEW v, Keyed!Put(n, k, v)
  PROVE  KeyedHolds'
<1>1. /\ searching = {} /\ putting = {} /\ UNCHANGED <<kept_by, searching, putting>>
      /\ named_items' = Keyed!Inserted(Keyed!Item(n, k, v, FALSE))
      /\ search_answer' = Keyed!NoAnswer
  BY DEF Keyed!Put, Keyed!Free
<1>2. IsFiniteSet(named_items') /\ \A d \in named_items' : IsNamedItem(d)
  BY <1>1, ItemsAreNamed, InsertedIs
<1>3. \A d \in named_items' : IsNamedItem(d)'
  BY <1>1, <1>2, NamesStay
<1> QED BY <1>1, <1>2, <1>3, NoAnswerIsBest DEF KeyedHolds

LEMMA PutBeginsHolds ==
  ASSUME KeyedHolds, NEW n \in KeyNamespace, NEW k \in NamedKey, NEW v, Keyed!PutBegins(n, k, v)
  PROVE  KeyedHolds'
<1>1. /\ searching = {} /\ UNCHANGED <<kept_by, searching, named_items>>
      /\ putting' = {Keyed!Item(n, k, v, TRUE)}
      /\ search_answer' = Keyed!NoAnswer
  BY DEF Keyed!PutBegins, Keyed!Free
<1>2. \A d \in named_items' \cup putting' : IsNamedItem(d)
  BY <1>1, ItemsAreNamed DEF KeyedHolds
<1>3. \A d \in named_items' \cup putting' : IsNamedItem(d)'
  BY <1>1, <1>2, NamesStay
<1> QED BY <1>1, <1>3, NoAnswerIsBest DEF KeyedHolds

LEMMA PutEndsHolds ==
  ASSUME KeyedHolds, Keyed!PutEnds
  PROVE  KeyedHolds'
<1>1. PICK item \in putting, embedded \in BOOLEAN :
        named_items' = Keyed!Inserted([item EXCEPT !.indexed = embedded])
  BY DEF Keyed!PutEnds
<1>2. putting' = {} /\ searching = {} /\ UNCHANGED <<kept_by, searching, search_answer>>
  BY <1>1 DEF Keyed!PutEnds, KeyedHolds
<1>3. IsNamedItem([item EXCEPT !.indexed = embedded])
  BY <1>1 DEF KeyedHolds, IsNamedItem
<1>4. IsFiniteSet(named_items') /\ \A d \in named_items' : IsNamedItem(d)
  BY <1>1, <1>3, InsertedIs
<1>5. \A d \in named_items' : IsNamedItem(d)'
  BY <1>2, <1>4, NamesStay
<1> QED BY <1>2, <1>4, <1>5, BestStays DEF KeyedHolds

LEMMA PutDroppedHolds ==
  ASSUME KeyedHolds, Keyed!PutDropped
  PROVE  KeyedHolds'
<1>1. /\ putting' = {} /\ searching = {}
      /\ UNCHANGED <<kept_by, named_items, searching, search_answer>>
  BY DEF Keyed!PutDropped, KeyedHolds
<1>2. \A d \in named_items' : IsNamedItem(d)'
  BY <1>1, NamesStay DEF KeyedHolds
<1> QED BY <1>1, <1>2, BestStays DEF KeyedHolds

LEMMA DeleteHolds ==
  ASSUME KeyedHolds, NEW n, NEW k, Keyed!Delete(n, k)
  PROVE  KeyedHolds'
<1>1. /\ searching = {} /\ putting = {} /\ UNCHANGED <<kept_by, searching, putting>>
      /\ named_items' \in SUBSET named_items
      /\ search_answer' = Keyed!NoAnswer
  BY DEF Keyed!Delete, Keyed!Free
<1>2. IsFiniteSet(named_items')
  BY <1>1, FS_Subset DEF KeyedHolds
<1>3. \A d \in named_items' : IsNamedItem(d)'
  BY <1>1, NamesStay DEF KeyedHolds
<1> QED BY <1>1, <1>2, <1>3, NoAnswerIsBest DEF KeyedHolds

\* While the items stay and no put begins, searches may begin and end.
LEMMA SearchesHold ==
  ASSUME KeyedHolds, UNCHANGED <<kept_by, named_items, putting>>,
         Keyed!BestAreFound', putting # {} => searching' = {},
         \A s \in searching' : s.among = Keyed!Candidates(s.namespace, s.values)
  PROVE  KeyedHolds'
<1>1. \A d \in named_items' \cup putting' : IsNamedItem(d)'
  BY NamesStay DEF KeyedHolds
<1>2. \A s \in searching' : s.among = Keyed!Candidates(s.namespace, s.values)'
  BY CandidatesStay
<1> QED BY <1>1, <1>2 DEF KeyedHolds

LEMMA CandidatesAreFinite ==
  ASSUME KeyedHolds, NEW namespace, NEW values
  PROVE  IsFiniteSet(Keyed!Candidates(namespace, values))
<1>1. Keyed!Candidates(namespace, values) \in SUBSET named_items
  BY DEF Keyed!Candidates
<1> QED BY <1>1, FS_Subset DEF KeyedHolds

LEMMA SearchHolds ==
  ASSUME KeyedHolds, NEW n, NEW vs, NEW limit \in FoundLimits, Keyed!Search(n, vs, limit)
  PROVE  KeyedHolds'
<1>1. /\ Keyed!Answered(n, vs, limit, FALSE, Keyed!Candidates(n, vs))
      /\ UNCHANGED <<kept_by, named_items, putting, searching>>
  BY DEF Keyed!Search
<1>2. limit \in Nat
  BY NamesAssumption
<1>3. Keyed!BestAreFound'
  BY <1>1, <1>2, AnswersAreBest, CandidatesAreFinite
<1> QED BY <1>1, <1>3, SearchesHold DEF KeyedHolds

LEMMA SearchBeginsHolds ==
  ASSUME KeyedHolds, NEW c, NEW n, NEW vs, Keyed!SearchBegins(c, n, vs)
  PROVE  KeyedHolds'
<1> DEFINE new == [by |-> c, namespace |-> n, values |-> vs, among |-> Keyed!Candidates(n, vs)]
<1>1. /\ putting = {} /\ searching' = searching \cup {new}
      /\ search_answer' = Keyed!NoAnswer
      /\ UNCHANGED <<kept_by, named_items, putting>>
  BY DEF Keyed!SearchBegins, Keyed!Free
<1>2. \A s \in searching' : s.among = Keyed!Candidates(s.namespace, s.values)
  BY <1>1 DEF KeyedHolds
<1> QED BY <1>1, <1>2, NoAnswerIsBest, SearchesHold

LEMMA SearchEndsHolds ==
  ASSUME KeyedHolds, NEW limit \in FoundLimits, Keyed!SearchEnds(limit)
  PROVE  KeyedHolds'
<1>1. PICK s \in searching :
        /\ Keyed!Answered(s.namespace, s.values, limit, TRUE, s.among)
        /\ searching' = searching \ {s}
  BY DEF Keyed!SearchEnds
<1>2. UNCHANGED <<kept_by, named_items, putting>>
  BY DEF Keyed!SearchEnds
<1>3. s.among = Keyed!Candidates(s.namespace, s.values) /\ IsFiniteSet(s.among)
  BY CandidatesAreFinite DEF KeyedHolds
<1>4. limit \in Nat
  BY NamesAssumption
<1>5. Keyed!BestAreFound'
  BY <1>1, <1>2, <1>3, <1>4, AnswersAreBest
<1> QED BY <1>1, <1>2, <1>5, SearchesHold DEF KeyedHolds

LEMMA SearchFailsHolds ==
  ASSUME KeyedHolds, Keyed!SearchFails
  PROVE  KeyedHolds'
<1>1. /\ searching' \subseteq searching
      /\ UNCHANGED <<kept_by, named_items, putting, search_answer>>
  BY DEF Keyed!SearchFails
<1>2. \A s \in searching' : s.among = Keyed!Candidates(s.namespace, s.values)
  BY <1>1 DEF KeyedHolds
<1>3. putting # {} => searching' = {}
  BY <1>1 DEF KeyedHolds
<1> QED BY <1>1, <1>2, <1>3, BestStays, SearchesHold

LEMMA KeyedStep ==
  ASSUME KeyedHolds, [Keyed!Next]_keyed_vars
  PROVE  KeyedHolds'
<1>1. CASE UNCHANGED keyed_vars
  <2>1. UNCHANGED <<kept_by, named_items, putting, searching, search_answer>>
    BY <1>1 DEF keyed_vars
  <2> QED BY <2>1, BestStays, SearchesHold DEF KeyedHolds
<1>2. CASE \E n \in KeyNamespace, k \in NamedKey :
             \/ \E v \in KeptValue : Keyed!Put(n, k, v) \/ Keyed!PutBegins(n, k, v)
             \/ Keyed!Delete(n, k)
  BY <1>2, PutHolds, PutBeginsHolds, DeleteHolds
<1>3. CASE Keyed!PutEnds \/ Keyed!PutDropped
  BY <1>3, PutEndsHolds, PutDroppedHolds
<1>4. CASE \E n \in KeyNamespace, vs \in KeyFilters :
             \/ \E limit \in FoundLimits : Keyed!Search(n, vs, limit)
             \/ \E c \in Searcher : Keyed!SearchBegins(c, n, vs)
  BY <1>4, SearchHolds, SearchBeginsHolds
<1>5. CASE (\E limit \in FoundLimits : Keyed!SearchEnds(limit)) \/ Keyed!SearchFails
  BY <1>5, SearchEndsHolds, SearchFailsHolds
<1> QED BY <1>1, <1>2, <1>3, <1>4, <1>5 DEF Keyed!Next

-------------------------------------------------------------------------------
\* p is s, then t.
IsTwo(S, p, s, t) ==
  /\ p \in Seq(S) /\ Len(p) = Len(s) + Len(t)
  /\ \A i \in 1..Len(s) : p[i] = s[i]
  /\ \A i \in 1..Len(t) : p[Len(s) + i] = t[i]

\* The elements of a whole made of two.
LEMMA WholeOfTwo ==
  ASSUME NEW S, NEW s \in Seq(S), NEW t \in Seq(S), NEW p, p = s \o t
  PROVE  IsTwo(S, p, s, t)
<1>1. PICK n \in Nat, m \in Nat : n = Len(s) /\ m = Len(t)
  OBVIOUS
<1>2. PICK v : v = s \o t
  OBVIOUS
<1>3. /\ v \in Seq(S) /\ Len(v) = n + m
      /\ \A i \in 1..n : v[i] = s[i]
      /\ \A i \in 1..m : v[n + i] = t[i]
  BY ONLY SMTT(20), <1>1, <1>2, ConcatElements, s \in Seq(S), t \in Seq(S)
<1>4. p = v
  BY <1>2
<1>5. /\ p \in Seq(S) /\ Len(p) = n + m
      /\ \A i \in 1..n : p[i] = s[i]
      /\ \A i \in 1..m : p[n + i] = t[i]
  BY ONLY Zenon, <1>3, <1>4
<1> QED BY ONLY Zenon, <1>1, <1>5 DEF IsTwo

\* A name that is not empty, and not longer than one segment.
LEMMA OneSegment ==
  ASSUME NEW S, NEW q \in Seq(S), q # <<>>, Len(q) <= 1
  PROVE  Len(q) = 1
<1>1. Len(q) = 0 => q = <<>>
  BY SMT
<1>2. Len(q) \in Nat
  OBVIOUS
<1> QED BY <1>1, <1>2

\* Two sequences of one last element each are the same, and so is what is before it.
LEMMA LastSegmentIs ==
  ASSUME NEW S, NEW s \in Seq(S), NEW t \in Seq(S), NEW a \in Seq(S), NEW b \in Seq(S),
         Len(a) = 1, Len(b) = 1, s \o a = t \o b
  PROVE  s = t /\ a = b
<1>1. PICK n \in Nat, m \in Nat : Len(s) = n /\ Len(t) = m
  OBVIOUS
<1>2. PICK p : p = s \o a /\ p = t \o b
  OBVIOUS
<1>3. /\ Len(p) = n + 1
      /\ \A i \in 1..n : p[i] = s[i]
      /\ \A i \in 1..1 : p[n + i] = a[i]
  <2>1. IsTwo(S, p, s, a)
    BY <1>2, WholeOfTwo
  <2> QED BY ONLY Zenon, <1>1, <2>1, Len(a) = 1 DEF IsTwo
<1>4. /\ Len(p) = m + 1
      /\ \A i \in 1..m : p[i] = t[i]
      /\ \A i \in 1..1 : p[m + i] = b[i]
  <2>1. IsTwo(S, p, t, b)
    BY <1>2, WholeOfTwo
  <2> QED BY ONLY Zenon, <1>1, <2>1, Len(b) = 1 DEF IsTwo
<1>5. n = m
  BY <1>3, <1>4
<1>6. \A i \in 1..n : s[i] = t[i]
  BY <1>3, <1>4, <1>5
<1>7. s = t
  BY <1>1, <1>5, <1>6
<1>8. \A i \in 1..1 : a[i] = b[i]
  BY <1>3, <1>4, <1>5
<1>9. a = b
  BY <1>8
<1> QED BY <1>7, <1>9

\* A prefix and what is left make the whole.
LEMMA PrefixAndRest ==
  ASSUME NEW S, NEW s \in Seq(S), NEW t \in Seq(S), Len(s) <= Len(t),
         SubSeq(s, 1, Len(s)) = SubSeq(t, 1, Len(s)),
         NEW r, r = SubSeq(t, Len(s) + 1, Len(t))
  PROVE  s \o r = t
<1>1. PICK n \in Nat, m \in Nat : n = Len(s) /\ m = Len(t) /\ n <= m
  OBVIOUS
<1>2. r \in Seq(S) /\ Len(r) = m - n /\ \A i \in 1..(m - n) : r[i] = t[n + i]
  BY <1>1
<1>3. \A i \in 1..n : s[i] = t[i]
  <2>1. \A i \in 1..n : SubSeq(s, 1, n)[i] = s[i] /\ SubSeq(t, 1, n)[i] = t[i]
    BY <1>1
  <2> QED BY <1>1, <2>1
<1>4. PICK v : v = s \o r
  OBVIOUS
<1>5. IsTwo(S, v, s, r)
  BY <1>2, <1>4, WholeOfTwo
<1>6. /\ v \in Seq(S) /\ Len(v) = m
      /\ \A i \in 1..n : v[i] = s[i]
      /\ \A i \in 1..(m - n) : v[n + i] = r[i]
  <2>1. n + (m - n) = m
    OBVIOUS
  <2> QED BY ONLY Zenon, <1>1, <1>2, <1>5, <2>1 DEF IsTwo
<1>7. ASSUME NEW i \in 1..m
      PROVE  v[i] = t[i]
  <2>1. CASE i <= n
    BY <1>3, <1>6, <2>1
  <2>2. CASE i > n
    <3>1. i - n \in 1..(m - n) /\ n + (i - n) = i
      BY <2>2
    <3> QED BY <1>2, <1>6, <3>1
  <2> QED BY <2>1, <2>2
<1>8. v = t
  BY <1>1, <1>6, <1>7, SeqEqual
<1> QED BY <1>4, <1>8

\* A name that is listed is one that is read.
LEMMA ListedNamesAreRead ==
  ASSUME KeyedHolds
  PROVE  Keyed!ListedKeysAreRead
<1> SUFFICES ASSUME kept_by # "graph", NEW n \in KeyNamespace, NEW k \in Keyed!List(n)
             PROVE  Keyed!Get(n, k) # {}
  BY DEF Keyed!ListedKeysAreRead
<1>1. CASE Keyed!Enhanced
  <2>1. PICK d \in named_items : d.at.map = Keyed!StoreKey(n, <<>>).map /\ k = d.key
    BY <1>1 DEF Keyed!List
  <2>2. d.at = Keyed!StoreKey(d.namespace, d.key)
    BY DEF KeyedHolds, IsNamedItem
  <2>3. d.at = Keyed!StoreKey(n, k)
    BY <1>1, <2>1, <2>2 DEF Keyed!StoreKey
  <2> QED BY <2>3 DEF Keyed!Get
<1>2. CASE ~Keyed!Enhanced
  <2>1. PICK d \in named_items : /\ Keyed!IsStrictPrefix(n, d.at.key)
                                 /\ k = SubSeq(d.at.key, Len(n) + 1, Len(d.at.key))
    BY <1>2 DEF Keyed!List
  <2>2. d.at = [map |-> <<>>, key |-> d.namespace \o d.key]
    BY <1>2 DEF KeyedHolds, IsNamedItem, Keyed!StoreKey
  <2>3. d.at.key \in Seq(NameSegment) /\ n \in Seq(NameSegment)
    <3>1. d.namespace \in Seq(NameSegment) /\ d.key \in Seq(NameSegment)
      BY NamesAssumption DEF KeyedHolds, IsNamedItem
    <3> QED BY <2>2, <3>1, NamesAssumption
  <2>4. Len(n) <= Len(d.at.key) /\ SubSeq(n, 1, Len(n)) = SubSeq(d.at.key, 1, Len(n))
    BY <2>1 DEF Keyed!IsStrictPrefix, Keyed!IsPrefix
  <2>5. n \o k = d.at.key
    BY <2>1, <2>3, <2>4, PrefixAndRest
  <2>6. d.at = Keyed!StoreKey(n, k)
    BY <1>2, <2>2, <2>5 DEF Keyed!StoreKey
  <2> QED BY <2>6 DEF Keyed!Get
<1> QED BY <1>1, <1>2

\* Names of plain segments that are joined alike are the same.
LEMMA PlainNamesDiffer ==
  ASSUME KeyedHolds
  PROVE  Keyed!NamesAreKeptApart
<1> SUFFICES ASSUME NEW n \in KeyNamespace, NEW k \in NamedKey, NEW d \in Keyed!Get(n, k)
             PROVE  \/ d.namespace = n /\ d.key = k
                    \/ Len(k) > 1 \/ Len(d.key) > 1
                    \/ Keyed!Enhanced /\ {n, d.namespace} = {<<>>, <<"default">>}
  BY DEF Keyed!NamesAreKeptApart
<1>1. Keyed!StoreKey(d.namespace, d.key) = Keyed!StoreKey(n, k)
  BY DEF KeyedHolds, IsNamedItem, Keyed!Get
<1>2. CASE Keyed!Enhanced
  BY <1>1, <1>2 DEF Keyed!StoreKey
<1>3. CASE ~Keyed!Enhanced /\ Len(k) <= 1 /\ Len(d.key) <= 1
  <2>1. d.namespace \o d.key = n \o k
    BY <1>1, <1>3 DEF Keyed!StoreKey
  <2>2. /\ d.namespace \in Seq(NameSegment) /\ d.key \in Seq(NameSegment) \ {<<>>}
        /\ n \in Seq(NameSegment) /\ k \in Seq(NameSegment) \ {<<>>}
    BY NamesAssumption DEF KeyedHolds, IsNamedItem, Keyed!Get
  <2>3. Len(k) = 1 /\ Len(d.key) = 1
    <3>1. k \in Seq(NameSegment) /\ k # <<>> /\ d.key \in Seq(NameSegment) /\ d.key # <<>>
      BY <2>2
    <3> QED BY <1>3, <3>1, OneSegment
  <2>4. d.namespace = n /\ d.key = k
    BY <2>1, <2>2, <2>3, LastSegmentIs, Zenon
  <2> QED BY <2>4
<1> QED BY <1>2, <1>3, NamesAssumption DEF KeyedHolds, IsNamedItem, Keyed!Get

-------------------------------------------------------------------------------
\* Names are kept apart, listed names are read, and searches answer with the best of what
\* is there, for any names and interleavings of puts and searches: the stores' make_key,
\* list and search, and the locks that the enhanced one awaits under; and an id of a
\* vector store leads to its document whoever adds, deletes, fails and restarts in between.
THEOREM StoresCorrect == Stores!Spec /\ Keyed!Spec => []StoresKeepTheirWord
<1>1. Stores!Spec => []StoresHold
  <2>1. StoresHold /\ [Stores!Next]_(Stores!vars) => StoresHold'
    BY StoresStep DEF Stores!vars, stores_vars
  <2> QED BY <2>1, StoresInit, PTL DEF Stores!Spec
<1>2. Keyed!Spec => []KeyedHolds
  <2>1. KeyedHolds /\ [Keyed!Next]_(Keyed!vars) => KeyedHolds'
    BY KeyedStep DEF Keyed!vars, keyed_vars
  <2> QED BY <2>1, KeyedInit, PTL DEF Keyed!Spec
<1>3. StoresHold /\ KeyedHolds => StoresKeepTheirWord
  BY StoresAreRight, ListedNamesAreRead, PlainNamesDiffer DEF KeyedHolds, StoresKeepTheirWord
<1> QED BY <1>1, <1>2, <1>3, PTL

===============================================================================

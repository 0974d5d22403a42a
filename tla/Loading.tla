------------------------------- MODULE Loading -------------------------------
(***************************************************************************)
(* Document loaders, and the retrievers that load from a service: what a   *)
(* caller gets of a source made of parts (rows, lines, pages, sheets,      *)
(* objects, commits, entries), some of which cannot be read, with a        *)
(* splitter behind the stream, and with a caller that goes away.           *)
(*                                                                         *)
(* Loaders that hand a whole text to a library have one part.  The crawlers *)
(* are Crawl's.                                                            *)
(***************************************************************************)
EXTENDS Integers, FiniteSetsExt, Selection

CONSTANTS
  Sources,      \* sequences of parts: "good", "empty", "bad" or "left"
  Cut,          \* the parts whose documents the splitter cannot split
  Capacity      \* of the channel the commits are sent through, with a waiting receiver

-------------------------------------------------------------------------------
(* What the loaders do about a part that is bad: "refuse" to load at all,  *)
(* "stop" with an error, yield an error and "resume", "skip" it, stop      *)
(* without a word ("hush"), stop with an error and yield the "rest", or    *)
(* "panic".  ahead: every part is read before the first document.  blank:  *)
(* a part without text makes a document too.  leaves: some parts may be    *)
(* left out.  one: the source has one part; joined: its parts make one     *)
(* document.                                                               *)

Loader(name, bad, features) ==
  [name |-> name, bad |-> bad, ahead |-> "ahead" \in features, blank |-> "blank" \in features,
   leaves |-> "leaves" \in features, one |-> "one" \in features, joined |-> "joined" \in features]

TextLoader           == Loader("text", "never", {"one", "blank"})
MarkdownLoader       == Loader("markdown", "refuse", {"one", "blank"})
HtmlLoader           == Loader("html", "refuse", {"one", "blank"})
HtmlToMarkdownLoader == Loader("html_to_markdown", "refuse", {"one", "blank"})
PdfExtractLoader     == Loader("pdf_extract", "refuse", {"one", "blank"})
TomlLoader           == Loader("toml", "stop", {"one", "blank"})
WebBaseLoader        == Loader("web_base", "stop", {"one", "blank"})
YamlLoader           == Loader("yaml", "stop", {"ahead", "blank"})
CsvLoader            == Loader("csv", "stop", {"blank"})
TsvLoader            == Loader("tsv", "stop", {"blank"})
LoPdfLoader          == Loader("lo_pdf", "stop", {"blank"})
AwsS3Loader          == Loader("s3", "stop", {"blank", "leaves"})
GitHubLoader         == Loader("github", "stop", {"blank", "leaves"})
ExcelLoader          == Loader("excel", "skip", {"leaves"})
XmlElements          == Loader("xml_elements", "stop", {"blank", "leaves"})
XmlText              == Loader("xml_text", "rest", {"joined"})
SourceFiles          == Loader("source_files", "resume", {"blank", "leaves"})
SourceParts          == Loader("source_parts", "never", {"blank"})
GitCommitLoader      == Loader("git", "hush", {"blank"})
PandocLoader         == Loader("pandoc", "hush", {"joined", "ahead", "blank"})
JsonArray            == Loader("json", "stop", {"ahead", "blank"})
JsonLines            == Loader("jsonl", "hush", {"ahead"})
WikipediaRetriever   == Loader("wikipedia", "refuse", {"ahead", "blank"})
ArxivRetriever       == Loader("arxiv", "hush", {"ahead", "blank"})
TavilyRetriever      == Loader("tavily", "skip", {"ahead"})

Loaders ==
  {TextLoader, MarkdownLoader, HtmlLoader, HtmlToMarkdownLoader, PdfExtractLoader, TomlLoader,
   WebBaseLoader, YamlLoader, CsvLoader, TsvLoader, LoPdfLoader, AwsS3Loader, GitHubLoader,
   ExcelLoader, XmlElements, XmlText, SourceFiles, SourceParts, GitCommitLoader, PandocLoader,
   JsonArray, JsonLines, WikipediaRetriever, ArxivRetriever, TavilyRetriever}

-------------------------------------------------------------------------------
VARIABLES
  loader, source,
  splits,       \* load_and_split, not load
  threads,      \* of the runtime
  at,           \* the parts read
  gathered,     \* read and not yielded: the parts read ahead, or joined
  channel,      \* the commits sent and not received
  out,          \* what the caller received: documents, and errors
  state         \* of the stream: "new", "open", "closing", or how it ended

vars == <<loader, source, splits, threads, at, gathered, channel, out, state>>

\* The parts a document is made of, or the part an error is about; a splitter makes
\* two pieces of a document.
Document(parts, piece) == [parts |-> parts, piece |-> piece]
Error(part)            == [error |-> part]

\* Fault: an error of the splitter is dropped.
PiecesOrNothing(parts) ==
  IF ~splits THEN <<Document(parts, 0)>>
  ELSE IF ToSet(parts) \cap Cut # {} THEN <<>>
  ELSE <<Document(parts, 1), Document(parts, 2)>>

\* process_doc_stream.
Pieces(parts) ==
  IF ~splits THEN <<Document(parts, 0)>>
  ELSE IF ToSet(parts) \cap Cut # {} THEN <<Error(Min(ToSet(parts) \cap Cut))>>
  ELSE <<Document(parts, 1), Document(parts, 2)>>

Makes(i) == source[i] = "good" \/ (source[i] = "empty" /\ loader.blank)

Yield(items) == out' = out \o items

-------------------------------------------------------------------------------
(* Loading                                                                 *)

\* What is read before a stream is returned.
Open ==
  /\ state = "new"
  /\ state' = IF loader.bad = "refuse" /\ "bad" \in ToSet(source) THEN "refused" ELSE "open"
  /\ UNCHANGED <<loader, source, splits, threads, at, gathered, channel, out>>

\* The files of a directory are listed first: one that cannot be listed panics.
ListingPanics ==
  /\ state = "new" /\ loader.name = "source_files" /\ "bad" \in ToSet(source)
  /\ state' = "panicked"
  /\ UNCHANGED <<loader, source, splits, threads, at, gathered, channel, out>>

Reading == state = "open" /\ at < Len(source)
Sends   == loader.name = "git"

Kept == IF Makes(at + 1) THEN Append(gathered, at + 1) ELSE gathered

\* A part that can be read: yielded at once, or gathered.
Read ==
  /\ Reading /\ ~Sends
  /\ source[at + 1] # "bad"
  /\ at' = at + 1
  /\ IF loader.ahead \/ loader.joined
     THEN gathered' = Kept /\ UNCHANGED out
     ELSE /\ Yield(IF Makes(at + 1) THEN Pieces(<<at + 1>>) ELSE <<>>)
          /\ UNCHANGED gathered
  /\ UNCHANGED <<loader, source, splits, threads, channel, state>>

\* The first line of a file that is not JSON makes it a file of one value.
Malformed == loader.name = "jsonl" /\ at = 0

ReadBad ==
  /\ Reading /\ ~Sends
  /\ source[at + 1] = "bad"
  /\ \/ /\ loader.bad = "skip"
        /\ at' = at + 1 /\ UNCHANGED <<gathered, out, state>>
     \/ /\ loader.bad = "resume"
        /\ at' = at + 1 /\ Yield(<<Error(at + 1)>>) /\ UNCHANGED <<gathered, state>>
     \/ /\ loader.bad = "stop" \/ Malformed
        /\ Yield(<<Error(at + 1)>>) /\ state' = "ended" /\ UNCHANGED <<at, gathered>>
     \/ /\ loader.bad = "rest"
        /\ Yield(<<Error(at + 1)>>) /\ state' = "closing" /\ UNCHANGED <<at, gathered>>
     \/ /\ loader.bad = "hush" /\ ~Malformed
        /\ state' = "closing" /\ UNCHANGED <<at, gathered, out>>
     \/ /\ loader.name = "source_files"
        /\ state' = "panicked" /\ UNCHANGED <<at, gathered, out>>
  /\ UNCHANGED <<loader, source, splits, threads, channel>>

AllRead ==
  /\ state = "open" /\ at = Len(source) /\ channel = <<>>
  /\ state' = "closing"
  /\ UNCHANGED <<loader, source, splits, threads, at, gathered, channel, out>>

\* The documents of what was gathered, one for each part or one of all.
Flush ==
  /\ state = "closing" /\ gathered # <<>>
  /\ IF loader.joined
     THEN Yield(Pieces(gathered)) /\ gathered' = <<>>
     ELSE Yield(Pieces(<<Head(gathered)>>)) /\ gathered' = Tail(gathered)
  /\ UNCHANGED <<loader, source, splits, threads, at, channel, state>>

Close ==
  /\ state = "closing" /\ gathered = <<>> /\ channel = <<>>
  /\ state' = "ended"
  /\ UNCHANGED <<loader, source, splits, threads, at, gathered, channel, out>>

-------------------------------------------------------------------------------
(* The commits: a task of its own walks them, and send() keeps its thread  *)
(* until there is room.                                                    *)

Room    == Len(channel) < Capacity
Blocked == Sends /\ Reading /\ Makes(at + 1) /\ ~Room

\* With one thread, the receiver runs only while the sender does not hold it: between
\* two polls, before its first send and after its last.
ReceiverRuns == threads > 1 \/ at = 0 \/ at = Len(source) \/ state = "closing"

Walk ==
  /\ Sends /\ Reading /\ ~Blocked
  /\ IF source[at + 1] = "bad"
     THEN \/ at' = at + 1 /\ UNCHANGED <<channel, state>>
          \/ state' = "closing" /\ UNCHANGED <<at, channel>>
     ELSE /\ at' = at + 1
          /\ channel' = IF Makes(at + 1) THEN Append(channel, at + 1) ELSE channel
          /\ UNCHANGED state
  /\ UNCHANGED <<loader, source, splits, threads, gathered, out>>

Receive ==
  /\ state \in {"open", "closing"} /\ channel # <<>> /\ ReceiverRuns
  /\ Yield(Pieces(<<Head(channel)>>)) /\ channel' = Tail(channel)
  /\ UNCHANGED <<loader, source, splits, threads, at, gathered, state>>

\* The caller drops the stream.
Drop ==
  /\ state \in {"open", "closing"} /\ (Sends => ReceiverRuns)
  /\ state' = "dropped"
  /\ UNCHANGED <<loader, source, splits, threads, at, gathered, channel, out>>

Init ==
  /\ loader \in Loaders /\ source \in Sources
  /\ loader.one => Len(source) = 1
  /\ loader.bad = "never" => "bad" \notin ToSet(source)
  /\ ~loader.leaves => "left" \notin ToSet(source)
  /\ splits \in BOOLEAN
  /\ threads \in IF loader.name = "git" THEN {1, 2} ELSE {1}
  /\ at = 0 /\ gathered = <<>> /\ channel = <<>> /\ out = <<>> /\ state = "new"

Next ==
  \/ Open \/ ListingPanics \/ Read \/ ReadBad \/ AllRead \/ Flush \/ Close
  \/ Walk \/ Receive \/ Drop

Spec == Init /\ [][Next]_vars

-------------------------------------------------------------------------------
(* Properties                                                              *)

TypeOK ==
  /\ loader \in Loaders /\ source \in Sources /\ at \in 0..Len(source)
  /\ state \in {"new", "refused", "open", "closing", "ended", "dropped", "panicked"}
  /\ Len(channel) <= Capacity

Documents == Selected(out, {i \in DOMAIN out : "parts" \in DOMAIN out[i]})
Errors    == {o.error : o \in {o \in ToSet(out) : "error" \in DOMAIN o}}
Loaded(i) == \E d \in ToSet(Documents) : i \in ToSet(d.parts)

\* Documents come in the order of their parts, the pieces of one together.
DocumentsInOrder ==
  \A i \in 2..Len(Documents) :
    LET earlier == Documents[i - 1]
        later   == Documents[i]
    IN  \/ earlier.parts = later.parts /\ earlier.piece = 1 /\ later.piece = 2
        \/ Last(earlier.parts) < Head(later.parts) /\ earlier.piece # 1 /\ later.piece # 2

\* When a stream has ended, every part that makes a document was loaded, or an error
\* at it or before it tells, of a text read ahead one anywhere; but for the loaders
\* that end without a word.
LossIsTold ==
  state = "ended" /\ loader.bad # "hush" =>
    \A i \in DOMAIN source :
      Makes(i) => Loaded(i) \/ \E e \in Errors : e <= i \/ loader.ahead \/ loader.joined

\* An error is about a part that could not be read, or split, and its part is not
\* also loaded.
ErrorsAreReal ==
  \A e \in Errors : ~Loaded(e) /\ (source[e] = "bad" \/ e \in Cut)

\* A load goes on until it ends, but on a runtime of one thread where the sender of the
\* commits waits for room, which happens only when there are more than the channel holds.
LoadsGoOn ==
  state \in {"open", "closing"} =>
    \/ ENABLED (Next /\ ~Drop)
    \/ threads = 1 /\ Blocked /\ Cardinality({i \in DOMAIN source : Makes(i)}) > Capacity
===============================================================================

------------------------------- MODULE FileTools -------------------------------
(***************************************************************************)
(* The file tools an agent is given: ls, read_file, write_file, edit_file, *)
(* glob and grep, in the workspace, or through the runtime's FileBackend.  *)
(* A text is a sequence of lines and a line a word, so that what edit_file *)
(* replaces, an old_string, is a word wherever it occurs; a file has its   *)
(* directory, "." for the root.  One agent calls one tool after the other. *)
(***************************************************************************)
EXTENDS Naturals, SequencesExt, FiniteSets

CONSTANTS
  File,      \* the files, each with its directory
  Word,
  MaxLines,
  PageSize,  \* of read_file
  MaxCalls   \* bound on the calls that write

VARIABLES
  backend,  \* the runtime has a file backend, the workspace's own
  rooted,   \* the tools, or the context, know the workspace's root
  texts,    \* texts[f]: the text of f, if there is one
  reader,   \* what was read of a file, page by page, since its last change
  found,    \* what the last grep found, if nothing was written since
  before,   \* the file that was edited last, before and after
  writes,
  result    \* of the last call

vars == <<backend, rooted, texts, reader, found, before, writes, result>>

Text     == BoundedSeq(Word, MaxLines)
Dirs     == {f.dir : f \in File} \cup {"."}
NoReader == [file |-> {}, limit |-> 0, offset |-> 1, pages |-> <<>>]
NoEdit   == [old |-> <<>>, new |-> <<>>, words |-> {}]

Init ==
  /\ backend \in BOOLEAN /\ rooted \in BOOLEAN
  /\ texts = [f \in File |-> {}]
  /\ reader = NoReader /\ found = {} /\ before = NoEdit
  /\ writes = 0
  /\ result = "none"

\* A backend has a root of its own; without one, WorkspaceNotSet.
Usable == backend \/ rooted

\* resolve_in_workspace: a path that leads out of the workspace is an Err, like one of no file.
Refused ==
  /\ result' = "Err"
  /\ UNCHANGED <<backend, rooted, texts, reader, found, before, writes>>

Exists(f) == texts[f] # {}

\* list_files_under_workspace; the root has every file below it.
Under(dir) == {f \in File : Exists(f) /\ dir \in {".", f.dir}}

IsDir(dir) == dir = "." \/ Under(dir) # {}

-------------------------------------------------------------------------------
(* Writing                                                                 *)

Wrote(f, text) ==
  /\ texts' = [texts EXCEPT ![f] = {text}]
  /\ reader' = IF reader.file = {f} THEN NoReader ELSE reader
  /\ found' = {}

\* Directories are made where they lack.
WriteFile(f, text) ==
  /\ Usable /\ writes < MaxCalls
  /\ Wrote(f, text)
  /\ before' = NoEdit
  /\ writes' = writes + 1
  /\ result' = "Ok"
  /\ UNCHANGED <<backend, rooted>>

Occurrences(text, old) == {i \in DOMAIN text : text[i] = old}

\* Fault: the line after the one that matches is replaced too.
ReplacedBeyond(text, r) ==
  [i \in DOMAIN text |-> IF i \in Occurrences(text, r.old) \/ i - 1 \in Occurrences(text, r.old)
                         THEN r.new ELSE text[i]]

Replaced(text, r) ==
  [i \in DOMAIN text |-> IF i \in Occurrences(text, r.old) THEN r.new ELSE text[i]]

\* In the workspace: every occurrence of each replacement that has any, and one write.
EditedAtOnce(text, replacements) ==
  LET edited[n \in 0..Len(replacements)] ==
        IF n = 0 THEN text ELSE Replaced(edited[n - 1], replacements[n])
  IN  edited[Len(replacements)]

\* Through a backend each replacement is an edit, of an old_string that occurs once; the
\* first that does not is an Err, and what was replaced before it stays.
EditsDone(text, replacements) ==
  LET applies(k) == Cardinality(Occurrences(EditedAtOnce(text, SubSeq(replacements, 1, k - 1)),
                                            replacements[k].old)) = 1
  IN CHOOSE n \in 0..Len(replacements) :
       /\ \A k \in 1..n : applies(k)
       /\ n = Len(replacements) \/ ~applies(n + 1)

EditFile(f, replacements) ==
  /\ Usable /\ Exists(f) /\ writes < MaxCalls
  /\ \E text \in texts[f] :
       LET done == IF backend THEN EditsDone(text, replacements) ELSE Len(replacements)
           new  == EditedAtOnce(text, SubSeq(replacements, 1, done))
       IN /\ Wrote(f, new)
          /\ before' = [old |-> text, new |-> new,
                        words |-> {r.old : r \in ToSet(replacements)}]
          /\ result' = IF done = Len(replacements) THEN "Ok" ELSE "Err"
  /\ writes' = writes + 1
  /\ UNCHANGED <<backend, rooted>>

-------------------------------------------------------------------------------
(* Reading                                                                 *)

Lesser(m, n) == IF m < n THEN m ELSE n

\* Fault: offset counts from 0.
StartsAtZero(text, offset) == Lesser(offset, Len(text))

\* Lines count from 1; 0 is the start, too.
StartOf(text, offset) == Lesser(IF offset > 0 THEN offset - 1 ELSE 0, Len(text))

\* The lines read_file shows, each with its number; limit 0 is no limit.
Shown(text, offset, limit) ==
  LET start == StartOf(text, offset)
      end   == IF limit > 0 THEN Lesser(start + limit, Len(text)) ELSE Len(text)
  IN [i \in 1..end - start |-> [number |-> start + i, line |-> text[start + i]]]

\* The agent reads a file page after page: the next begins after the lines it asked for.
ReadFile(f, limit) ==
  /\ Usable /\ Exists(f)
  /\ LET r == IF reader.file = {f} /\ reader.limit = limit THEN reader
              ELSE [NoReader EXCEPT !.file = {f}, !.limit = limit]
     IN \E text \in texts[f] :
          /\ r.offset <= Len(text) + 1
          /\ reader' = [r EXCEPT !.pages = @ \o Shown(text, r.offset, limit),
                                 !.offset = @ + (IF limit = 0 THEN Len(text) + 1 ELSE limit)]
  /\ result' = "Ok"
  /\ UNCHANGED <<backend, rooted, texts, found, before, writes>>

\* grep: plain text in every file below; a file that cannot be read is passed over.
Matches(query, dir) ==
  UNION {UNION {{[file |-> f, number |-> i] : i \in Occurrences(text, query)} : text \in texts[f]} :
           f \in Under(dir)}

Grep(query, dir) ==
  /\ Usable
  /\ found' = Matches(query, dir) \X {query}
  /\ result' = "Ok"
  /\ UNCHANGED <<backend, rooted, texts, reader, before, writes>>

\* ls and glob need a directory.
List(dir) ==
  /\ Usable /\ IsDir(dir)
  /\ result' = "Ok"
  /\ UNCHANGED <<backend, rooted, texts, reader, found, before, writes>>

\* What each of them refuses: an edit of no file may be a read of no file.
Refuse ==
  /\ ~Usable \/ \E f \in File : ~Exists(f) \/ ~IsDir(f.dir)
  /\ Refused

Replacement == [old : Word, new : Word]

Next ==
  \/ \E f \in File :
       \/ \E text \in Text : WriteFile(f, text)
       \/ \E rs \in [1..2 -> Replacement] : EditFile(f, rs)
       \/ \E limit \in PageSize : ReadFile(f, limit)
  \/ \E dir \in Dirs : List(dir) \/ \E query \in Word : Grep(query, dir)
  \/ Refuse

Spec == Init /\ [][Next]_vars

-------------------------------------------------------------------------------
(* Properties                                                              *)

TypeOK ==
  /\ \A f \in File : texts[f] \subseteq Text /\ Cardinality(texts[f]) <= 1
  /\ reader.file \subseteq File
  /\ writes <= MaxCalls
  /\ result \in {"none", "Ok", "Err"}

\* read_file: pages read one after the other are the file, every line once, under its own
\* number, whatever the limit.
PagesCoverTheFile ==
  \A f \in reader.file : \A text \in texts[f] :
    reader.pages = [i \in 1..Lesser(reader.offset - 1, Len(text)) |-> [number |-> i, line |-> text[i]]]

\* grep and read_file: a line that grep tells of is the one read_file shows at that number.
FoundLinesAreShown ==
  \A m \in found : \E text \in texts[m[1].file] :
    Shown(text, m[1].number, 1) = <<[number |-> m[1].number, line |-> m[2]]>>

\* edit_file, also one that stops half-way: every line but those that were to be replaced,
\* or were put for one, stays in its place.
EditsSpareTheRest ==
  /\ Len(before.new) = Len(before.old)
  /\ \A i \in DOMAIN before.old :
       before.old[i] \notin before.words => before.new[i] = before.old[i]
===============================================================================

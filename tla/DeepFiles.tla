------------------------------ MODULE DeepFiles ------------------------------
(***************************************************************************)
(* The files of a deep agent: a CompositeBackend that routes paths by      *)
(* prefix, to a StoreBackend for each route (files of a ToolStore) and     *)
(* else to its default, a WorkspaceBackend (files of a directory).         *)
(* effective_file_backend builds the composite of one route.               *)
(*                                                                         *)
(* A path is the sequence of its segments.  Every caller's path loses its  *)
(* leading slash before it is matched, a route's prefix only its trailing  *)
(* one, so a prefix remembers whether it begins with a slash.  The files   *)
(* of the workspace are those the agent has written.                       *)
(***************************************************************************)
EXTENDS Naturals, SequencesExt, FiniteSets

CONSTANTS
  Caller,
  Path,       \* the paths that are used, <<>> for the root
  RouteSets,  \* the configurations: sets of [absolute, prefix]
  Word,       \* a text is a sequence of words
  MaxWords    \* bound on the words of a text

VARIABLES
  routes,  \* the configuration
  files,   \* files[b]: the files of backend b, each with its path there
  edits,   \* edits[c]: the edit, at most one, that c has read and not yet written
  last     \* last[p]: the text, if any, that was last written at p

vars == <<routes, files, edits, last>>

Text      == BoundedSeq(Word, MaxWords)
Workspace == [absolute |-> FALSE, prefix |-> <<>>]
Route     == UNION RouteSets
Backend   == Route \cup {Workspace}

-------------------------------------------------------------------------------
(* choose_backend, and back.                                               *)

Matches(r, p) == ~r.absolute /\ r.prefix # <<>> /\ IsPrefix(r.prefix, p)

\* The backend of the longest prefix, else the default.
Chosen(p) ==
  LET matching == {r \in routes : Matches(r, p)}
  IN  IF matching = {} THEN Workspace
      ELSE CHOOSE r \in matching : \A s \in matching : Len(s.prefix) <= Len(r.prefix)

Stripped(r, p) == SubSeq(p, Len(r.prefix) + 1, Len(p))

Inner(p) == Stripped(Chosen(p), p)

\* Fault: what a backend lists is returned as it is.
RestoreNothing(prefix, inner) == inner

RestorePrefix(prefix, inner) == prefix \o inner

-------------------------------------------------------------------------------
(* The backends.                                                           *)

Below(dir, b) == {f.path : f \in {g \in files[b] : IsPrefix(dir, g.path)}}

IsDirectory(b, p) == p = <<>> \/ \E f \in files[b] : IsStrictPrefix(p, f.path)

\* read()
Texts(b, inner) == {f.text : f \in {g \in files[b] : g.path = inner}}

\* Fault: a routed write goes to the default backend.
WrittenToDefault(b, inner, text) ==
  [files EXCEPT ![Workspace] =
     {f \in files[Workspace] : f.path # inner} \cup {[path |-> inner, text |-> text]}]

Written(b, inner, text) ==
  [files EXCEPT ![b] =
     {f \in files[b] : f.path # inner} \cup {[path |-> inner, text |-> text]}]

\* The file system refuses a file where a directory is, or below a file.
Writable(b, inner) ==
  b = Workspace =>
    /\ ~IsDirectory(b, inner)
    /\ \A f \in files[b] : ~IsStrictPrefix(f.path, inner)

\* ls_info: the workspace lists one level, a store everything below.  A composite
\* asks for "." where nothing is left of the path, and no key of a store is
\* below ".".
LsInfo(b, dir) ==
  IF b = Workspace
  THEN {SubSeq(f, 1, Len(dir) + 1) : f \in {g \in Below(dir, b) : g # dir}}
  ELSE IF dir = <<>> THEN {} ELSE Below(dir, b)

\* glob_info and grep_raw, of a pattern that everything matches.
FilesBelow(b, dir) == IF b # Workspace /\ dir = <<>> THEN {} ELSE Below(dir, b)

-------------------------------------------------------------------------------
(* The composite.                                                          *)

Read(p) == Texts(Chosen(p), Inner(p))

Ls(p) ==
  {RestorePrefix(Chosen(p).prefix, f) : f \in LsInfo(Chosen(p), Inner(p))}

Grep(p) ==
  {RestorePrefix(Chosen(p).prefix, f) : f \in FilesBelow(Chosen(p), Inner(p))}

Init ==
  /\ routes \in RouteSets
  /\ files = [b \in Backend |-> {}]
  /\ edits = [c \in Caller |-> {}]
  /\ last = [p \in Path |-> {}]

Put(p, text) ==
  /\ files' = Written(Chosen(p), Inner(p), text)
  /\ last' = [last EXCEPT ![p] = {text}]

Write(p, text) ==
  /\ Writable(Chosen(p), Inner(p))
  /\ Put(p, text)
  /\ UNCHANGED <<routes, edits>>

Replaced(text, old, new) == [i \in DOMAIN text |-> IF text[i] = old THEN new ELSE text[i]]

\* edit() until it calls put: the text must be there, and what is replaced must
\* occur in it once, unless every occurrence is to be replaced.
EditReads(c, p, old, new, all) ==
  /\ edits[c] = {}
  /\ \E text \in Read(p) :
       /\ all \/ Cardinality({i \in DOMAIN text : text[i] = old}) = 1
       /\ edits' = [edits EXCEPT ![c] = {[path |-> p, text |-> Replaced(text, old, new)]}]
  /\ UNCHANGED <<routes, files, last>>

\* The new text is put, whatever was written since the old one was read.
EditWrites(c) ==
  \E e \in edits[c] :
    /\ Put(e.path, e.text)
    /\ edits' = [edits EXCEPT ![c] = {}]
    /\ UNCHANGED routes

\* The caller drops the call between the two.
EditDropped(c) ==
  /\ edits[c] # {}
  /\ edits' = [edits EXCEPT ![c] = {}]
  /\ UNCHANGED <<routes, files, last>>

Next ==
  \/ \E p \in Path, text \in Text : Write(p, text)
  \/ \E c \in Caller :
       \/ \E p \in Path, old, new \in Word, all \in BOOLEAN : EditReads(c, p, old, new, all)
       \/ EditWrites(c)
       \/ EditDropped(c)

Spec == Init /\ [][Next]_vars

-------------------------------------------------------------------------------
TypeOK ==
  /\ routes \in RouteSets
  /\ \A b \in Backend : files[b] \subseteq [path : Path, text : Text]
  /\ \A c \in Caller : edits[c] \subseteq [path : Path, text : Text]
  /\ last \in [Path -> SUBSET Text]

\* A path reads what was last written or edited at that very path: no route, no
\* stripped prefix and no other path's edit puts another text there.
PathsReadTheirLastWrite == \A p \in Path : Read(p) = last[p]

\* What is listed below a path is there to be read, under the name it is listed
\* by; and nothing of the path's own backend is missed, but for a store that is
\* asked for its root.
ListedFilesAreRead ==
  \A dir \in Path :
    /\ \A p \in Grep(dir) : IsPrefix(dir, p) /\ Read(p) # {}
    /\ \A p \in Ls(dir) : Read(p) # {} \/ \E q \in Grep(p) : Read(q) # {}
    /\ Chosen(dir) = Workspace \/ Inner(dir) # <<>> =>
         \A p \in Path :
           Read(p) # {} /\ IsPrefix(dir, p) /\ Chosen(p) = Chosen(dir) => p \in Grep(dir)
===============================================================================

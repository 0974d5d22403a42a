---------------------------- MODULE TextSplitters ----------------------------
(***************************************************************************)
(* split_text of CharacterTextSplitter, RecursiveCharacterTextSplitter and *)
(* JsonSplitter (HTMLSplitter differs from it in the glue only), step by   *)
(* step of their loops, the recursion of the second as a stack.            *)
(*                                                                         *)
(* A text is a sequence of letters and of separators of one character, all *)
(* of them white space.  A piece of it is the sequence of the positions it *)
(* was taken from, with Glue for a separator that was put in; so it can be *)
(* told where every letter went.  A JSON text's elements are its lines.    *)
(***************************************************************************)
EXTENDS Naturals, SequencesExt, FiniteSetsExt

CONSTANTS
  Texts,      \* the texts to split: sequences of "letter", "newline" and "space"
  Settings,   \* [kind, size, overlap, trim]
  MaxChunks   \* bound on the chunks that are remembered of a loop

VARIABLES
  text, settings,
  calls,   \* the calls of split_text_recursive, the innermost last
  cut,     \* the part that is split by characters, where the next chunk starts, and
           \* whether the rounds so far are odd in number: a round may change nothing else
  result   \* the chunks, once split_text has returned

vars == <<text, settings, calls, cut, result>>

Glue == 0

Separators ==
  IF settings.kind = "character" THEN <<"space">>
  ELSE IF settings.kind = "recursive" THEN <<"newline", "space">> ELSE <<"newline">>

\* text.split(separator): the parts, each with the separator before it.
Split(piece, separator) ==
  LET at   == SetToSortSeq({i \in DOMAIN piece : text[piece[i]] = separator}, <)
      ends == <<0>> \o at \o <<Len(piece) + 1>>
  IN  [k \in 1..(Len(at) + 1) |->
         [chars |-> SubSeq(piece, ends[k] + 1, ends[k + 1] - 1),
          sep   |-> IF k = 1 THEN <<>> ELSE <<piece[ends[k]]>>]]

Call(piece, level) ==
  [parts |-> Split(piece, Separators[level]), level |-> level, at |-> 1,
   current |-> <<>>, chunks |-> <<>>]

NoCut == [chars |-> <<>>, start |-> 0, odd |-> FALSE]

Whole == [i \in DOMAIN text |-> i]

Init ==
  /\ text \in Texts /\ settings \in Settings
  /\ calls = <<Call(Whole, 1)>>
  /\ cut = NoCut
  /\ result = <<>>

Running == calls # <<>>
Top     == Last(calls)
Cutting == cut.start < Len(cut.chars)
Taking  == Running /\ ~Cutting /\ Top.at <= Len(Top.parts)

-------------------------------------------------------------------------------
IsLetter(p) == p # Glue /\ text[p] = "letter"

\* trim()
Trim(piece) ==
  LET letters == {i \in DOMAIN piece : IsLetter(piece[i])}
  IN  IF letters = {} THEN <<>> ELSE SubSeq(piece, Min(letters), Max(letters))

\* Fault: a chunk is cut to size before it is kept.
PushedCut(chunks, piece) ==
  LET kept == SubSeq(piece, 1, Min({settings.size, Len(piece)}))
  IN  IF kept = <<>> \/ Len(chunks) = MaxChunks THEN chunks ELSE Append(chunks, kept)

\* A chunk is kept unless nothing is left of it.
Pushed(chunks, piece) ==
  LET chunk == IF settings.trim THEN Trim(piece) ELSE piece
  IN  IF chunk = <<>> \/ Len(chunks) = MaxChunks THEN chunks ELSE Append(chunks, chunk)

Part == Top.parts[Top.at]

\* The separator goes with every part but the first.
CharacterPiece == Part.sep \o Part.chars

\* ... with every part that is not the first of a chunk.
RecursivePiece == IF Top.current = <<>> THEN Part.chars ELSE Part.sep \o Part.chars

\* An element goes without.
ElementPiece == IF settings.trim THEN Trim(Part.chars) ELSE Part.chars

Piece ==
  CASE settings.kind = "character" -> CharacterPiece
    [] settings.kind = "recursive" -> RecursivePiece
    [] OTHER -> ElementPiece

Joined ==
  IF settings.kind = "elements" /\ Top.current # <<>>
  THEN Top.current \o <<Glue>> \o Piece ELSE Top.current \o Piece

\* What is compared with the size, and split further.
Measured == IF settings.kind = "elements" THEN Piece ELSE Part.chars

Becomes(call) == calls' = Append(Front(calls), [call EXCEPT !.at = Top.at + 1])

-------------------------------------------------------------------------------
SkipElement ==
  /\ Taking
  /\ settings.kind = "elements" /\ Piece = <<>>
  /\ Becomes(Top)
  /\ UNCHANGED <<text, settings, cut, result>>

Join ==
  /\ Taking
  /\ settings.kind = "elements" => Piece # <<>>
  /\ Len(Joined) <= settings.size
  /\ Becomes([Top EXCEPT !.current = Joined])
  /\ UNCHANGED <<text, settings, cut, result>>

Full == Taking /\ Len(Joined) > settings.size

\* The chunk is full, and the part begins the next one.
Turn ==
  /\ Full /\ Len(Measured) <= settings.size
  /\ Becomes([Top EXCEPT !.chunks = Pushed(@, Top.current), !.current = Piece])
  /\ UNCHANGED <<text, settings, cut, result>>

\* A part that is too large: the recursive splitter tries its next separator.
Descend ==
  /\ Full /\ Len(Measured) > settings.size
  /\ Top.level < Len(Separators)
  /\ calls' = Append(Front(calls),
       [Top EXCEPT !.chunks = Pushed(@, Top.current), !.current = <<>>, !.at = @ + 1])
         \o <<Call(Measured, Top.level + 1)>>
  /\ UNCHANGED <<text, settings, cut, result>>

\* ... and with no separator left, as the others at once, splits by characters.
CutBegins ==
  /\ Full /\ Len(Measured) > settings.size
  /\ Top.level = Len(Separators)
  /\ Becomes([Top EXCEPT !.chunks = Pushed(@, Top.current), !.current = <<>>])
  /\ cut' = [chars |-> Measured, start |-> 0, odd |-> FALSE]
  /\ UNCHANGED <<text, settings, result>>

CutEnd == Min({cut.start + settings.size, Len(cut.chars)})

\* start = end.saturating_sub(chunk_overlap), also where end is the end of the text.
NextStart == Max({CutEnd, settings.overlap}) - settings.overlap

\* One round of the loop of split_by_characters, or split_large_text.
CutRound ==
  /\ Running /\ Cutting
  /\ calls' = Append(Front(calls),
       [Top EXCEPT !.chunks = Pushed(@, SubSeq(cut.chars, cut.start + 1, CutEnd))])
  /\ cut' = IF NextStart < Len(cut.chars) THEN [cut EXCEPT !.start = NextStart, !.odd = ~@] ELSE NoCut
  /\ UNCHANGED <<text, settings, result>>

\* The end of the chunk before, and glue, go before every chunk but the first.
ApplyOverlap(chunks) ==
  LET EndOf(c) == SubSeq(c, Max({Len(c), settings.overlap}) - settings.overlap + 1, Len(c))
  IN  [i \in DOMAIN chunks |->
         IF i = 1 \/ settings.overlap = 0 THEN chunks[i]
         ELSE EndOf(chunks[i - 1]) \o <<Glue>> \o chunks[i]]

\* The last chunk, and the overlaps; a recursive call's chunks, with theirs, are
\* added to its caller's.
Return ==
  /\ Running /\ ~Cutting /\ Top.at > Len(Top.parts)
  /\ LET chunks == ApplyOverlap(Pushed(Top.chunks, Top.current))
         outer  == Front(calls)
     IN  IF outer = <<>>
         THEN calls' = <<>> /\ result' = chunks
         ELSE /\ calls' = Append(Front(outer), [Last(outer) EXCEPT !.chunks = @ \o chunks])
              /\ UNCHANGED result
  /\ UNCHANGED <<text, settings, cut>>

Next ==
  \/ SkipElement \/ Join \/ Turn \/ Descend
  \/ CutBegins \/ CutRound
  \/ Return

Spec == Init /\ [][Next]_vars

\* split_text is one loop after the other on the caller's thread.
FairSpec == Spec /\ WF_vars(Next)

-------------------------------------------------------------------------------
TypeOK ==
  /\ text \in Texts /\ settings \in Settings
  /\ \A c \in ToSet(calls) :
       /\ c.at \in 1..(Len(c.parts) + 1)
       /\ \A p \in ToSet(c.chunks) \cup {c.current} : p \in Seq(0..Len(text))
  /\ cut.chars \in Seq(DOMAIN text) /\ cut.start \in 0..Len(text) /\ cut.odd \in BOOLEAN
  /\ result \in Seq(Seq(0..Len(text)))

Letters(piece) == SelectSeq(piece, IsLetter)

\* The first time each letter appears.
FirstOf(letters) ==
  SelectSeq([i \in DOMAIN letters |->
               IF \E j \in 1..(i - 1) : letters[j] = letters[i] THEN Glue ELSE letters[i]],
            LAMBDA p : p # Glue)

\* Every letter of the text is in the chunks, in the text's order; without an
\* overlap it is there once, and a trimmed chunk is never larger than chunk_size.
ChunksKeepTheText ==
  ~Running =>
    LET letters == Letters(FlattenSeq(result))
    IN  /\ FirstOf(letters) = Letters(Whole)
        /\ settings.overlap = 0 => letters = Letters(Whole)
        /\ settings.overlap = 0 /\ settings.trim =>
             \A i \in DOMAIN result : Len(result[i]) <= settings.size

\* "Split text by characters when part is too large" (character_splitter.rs:180),
\* with an "Overlap between chunks (in characters)" (line 10): the call returns.
SplittingEnds == <>(~Running)
===============================================================================

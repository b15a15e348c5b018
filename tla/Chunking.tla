------------------------------ MODULE Chunking ------------------------------
(***************************************************************************)
(* ChunkingService.split of app/services/chunking_service.py: a chunk for  *)
(* each sentence, and pieces of MaxChars for a sentence of more than twice *)
(* that.  A text is a sequence of "a" (any other character), "." (one that *)
(* ends a sentence) and " " (white space).                                 *)
(***************************************************************************)
EXTENDS SequencesExt, FiniteSetsExt, Naturals

CONSTANT MaxChars

ASSUME ChunkingAssumption == MaxChars \in Nat \ {0}

Blank(text) == \A i \in DOMAIN text : text[i] = " "

Strip(text) ==
    LET ink == {i \in DOMAIN text : text[i] # " "}
    IN  IF ink = {} THEN <<>> ELSE SubSeq(text, Min(ink), Max(ink))

\* White space after a full stop separates sentences, however much there is.
SentenceEnds(s) ==
    {i \in DOMAIN s : i = Len(s) \/ (s[i] = "." /\ s[i + 1] = " ")}

SentenceStarts(s) ==
    {j \in DOMAIN s :
       \/ j = 1
       \/ /\ s[j] # " "
          /\ \E i \in SentenceEnds(s) : i < j - 1 /\ Blank(SubSeq(s, i + 1, j - 1))}

\* From the first to the last character of each sentence of a stripped text.
Sentences(s) ==
    {<<j, Min({i \in SentenceEnds(s) : i >= j})>> : j \in SentenceStarts(s)}

\* Mutant of Pieces: range(0, len(s) - max_chars, max_chars).
PiecesShort(first, last) ==
    IF last - first + 1 <= 2 * MaxChars
    THEN {<<first, last>>}
    ELSE {<<i, i + MaxChars - 1>> :
             i \in {j \in first..last - MaxChars : (j - first) % MaxChars = 0}}

Pieces(first, last) ==
    IF last - first + 1 <= 2 * MaxChars
    THEN {<<first, last>>}
    ELSE {<<i, Min({i + MaxChars - 1, last})>> :
             i \in {j \in first..last : (j - first) % MaxChars = 0}}

\* The places of the chunks in a stripped text, and these in order.
Places(s) == UNION {Pieces(p[1], p[2]) : p \in Sentences(s)}

SplitPlaces(s) ==
    CHOOSE places \in SetToSeqs(Places(s)) :
        \A i, j \in DOMAIN places : i < j => places[i][1] < places[j][1]

Split(text) ==
    LET s == Strip(text)
        places == SplitPlaces(s)
    IN  [i \in DOMAIN places |-> SubSeq(s, places[i][1], places[i][2])]

-----------------------------------------------------------------------------

\* White space that no chunk need show: before and after the text, and after a
\* full stop.
Separates(text, i) ==
    /\ text[i] = " "
    /\ \/ Blank(SubSeq(text, 1, i))
       \/ Blank(SubSeq(text, i, Len(text)))
       \/ \E j \in 1 .. i - 1 : text[j] = "." /\ Blank(SubSeq(text, j + 1, i))

\* The text without it.
Squeezed(text) ==
    FlattenSeq([i \in DOMAIN text |->
                  IF Separates(text, i) THEN <<>> ELSE <<text[i]>>])

\* The chunks, one after another, are the text: only the white space between
\* sentences and around the text is lost, none within a sentence and nothing
\* else, and nothing is repeated or moved.  No chunk is empty or longer than
\* twice MaxChars, which is what split's docstring says (chunking_service.py:29;
\* the docstring of the class, line 19, says max_chars), and only a sentence cut
\* into pieces can give a blank one.
SplitsWhole(text) ==
    LET chunks == Split(text)
    IN  /\ FlattenSeq(chunks) = Squeezed(text)
        /\ \A i \in DOMAIN chunks :
             /\ Len(chunks[i]) \in 1..2 * MaxChars
             /\ Blank(chunks[i]) => Len(chunks[i]) <= MaxChars
        /\ chunks = <<>> <=> Blank(text)

=============================================================================

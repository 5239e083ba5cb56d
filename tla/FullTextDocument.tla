-------------------------- MODULE FullTextDocument --------------------------
(***************************************************************************)
(* FullTextDocument (textDocument/src/main.ts): a document whose offsets   *)
(* of lines are computed when they are first needed and then kept up to    *)
(* date by each incremental change, and applyEdits on such a document.     *)
(*                                                                         *)
(* A text is a sequence of characters, of which only "n" (line feed) and   *)
(* "r" (carriage return) matter.  Offsets count from 0, as in the code.    *)
(***************************************************************************)
EXTENDS Integers, SequencesExt

CONSTANTS
    None,       \* undefined, and an entry that an array lacks
    Lines,      \* the lines and characters of the positions in changes
    Characters,
    Contents,   \* what a document is created with or a full change brings
    Texts,      \* what an incremental change inserts
    MaxLength,  \* bound on the length of a content
    EditTexts,  \* what the edits of applyEdits insert
    MaxEdited   \* bound on their number and the length of their text together

VARIABLES
    content,      \* _content
    lineOffsets,  \* _lineOffsets
    irregular,    \* ghost: a change came of which the offsets do not hear
    applied       \* ghost: the edits applyEdits was called with, its result

vars == <<content, lineOffsets, irregular, applied>>

Least(a, b) == IF a < b THEN a ELSE b
Most(a, b) == IF a > b THEN a ELSE b
IsEOL(char) == char \in {"n", "r"}
Substring(text, from, to) == SubSeq(text, from + 1, to)

\* The offsets after the line ends of a text, a carriage return and a line
\* feed being one, and the beginning of the text if a line begins there.
computeLineOffsets(text, isAtLineStart, textOffset) ==
    LET ends == {i \in DOMAIN text :
                    /\ IsEOL(text[i])
                    /\ ~(text[i] = "r" /\ i < Len(text) /\ text[i + 1] = "n")}
        after == SetToSortSeq(ends, <)
    IN (IF isAtLineStart THEN <<textOffset>> ELSE <<>>)
          \o [i \in DOMAIN after |-> textOffset + after[i]]

getLineOffsets == IF lineOffsets = None THEN computeLineOffsets(content, TRUE, 0)
                  ELSE lineOffsets

-----------------------------------------------------------------------------
(* Offsets and positions.                                                  *)
ensureBeforeEOL(offset, lineOffset) ==
    CHOOSE before \in lineOffset..Most(offset, lineOffset) :
        /\ \A i \in before + 1..offset : IsEOL(content[i])
        /\ before > lineOffset => ~IsEOL(content[before])

NextLineOffset(line) ==
    IF line + 1 < Len(getLineOffsets) THEN getLineOffsets[line + 2] ELSE Len(content)

offsetAt(position) ==
    IF position.line >= Len(getLineOffsets) THEN Len(content)
    ELSE IF position.line < 0 THEN 0
    ELSE LET lineOffset == getLineOffsets[position.line + 1]
         IN IF position.character <= 0 THEN lineOffset
            ELSE ensureBeforeEOL(Least(lineOffset + position.character,
                                       NextLineOffset(position.line)), lineOffset)

\* The last line that does not begin after the offset, found by bisection.
positionAt(offset) ==
    LET inside == Most(Least(offset, Len(content)), 0)
        line == CHOOSE x \in 0..Len(getLineOffsets) - 1 :
                   /\ getLineOffsets[x + 1] <= inside
                   /\ x + 1 < Len(getLineOffsets) => getLineOffsets[x + 2] > inside
        lineOffset == getLineOffsets[line + 1]
    IN [line |-> line, character |-> ensureBeforeEOL(inside, lineOffset) - lineOffset]

\* The end of getLineRange and the characters that end the line.
LineEnd(line) == ensureBeforeEOL(NextLineOffset(line), getLineOffsets[line + 1])
getEOLCharacters(line) == Substring(content, LineEnd(line), NextLineOffset(line))

Follows(p, q) == p.line > q.line \/ (p.line = q.line /\ p.character > q.character)
getWellformedRange(range) ==
    IF Follows(range.start, range.end) THEN [start |-> range.end, end |-> range.start]
    ELSE range

-----------------------------------------------------------------------------
(* update.                                                                 *)

\* The offsets with those of the lines between start and end replaced: in
\* place if there are as many, which may write behind the end of the array.
Replaced(offsets, startLine, endLine, added) ==
    IF endLine - startLine = Len(added)
    THEN LET reach == IF added = <<>> THEN 0 ELSE startLine + 1 + Len(added)
         IN [i \in 1..Most(Len(offsets), reach) |->
                IF i - 1 \in startLine + 1..startLine + Len(added)
                THEN added[i - 1 - startLine]
                ELSE IF i <= Len(offsets) THEN offsets[i] ELSE None]
    ELSE SubSeq(offsets, 1, Least(startLine + 1, Len(offsets)))
            \o added \o SubSeq(offsets, endLine + 2, Len(offsets))

\* Mutant of Shifted: the offset after the added ones keeps its value.
ShiftedLate(offsets, first, diff) ==
    [i \in DOMAIN offsets |-> IF i - 1 > first THEN offsets[i] + diff ELSE offsets[i]]
\* What comes after the change moves with the text.
Shifted(offsets, first, diff) ==
    [i \in DOMAIN offsets |-> IF i - 1 >= first THEN offsets[i] + diff ELSE offsets[i]]

\* The text now has a carriage return and a line feed side by side that were
\* apart: a line less than the offsets tell.
Joins(text, offsets) ==
    \E b \in offsets : b \in 1..Len(text) - 1 /\ text[b] = "r" /\ text[b + 1] = "n"

UpdateIncremental(changed, text) ==
    LET range == getWellformedRange(changed)
        startOffset == offsetAt(range.start)
        endOffset == offsetAt(range.end)
        startLine == Most(range.start.line, 0)
        endLine == Most(range.end.line, 0)
        added == computeLineOffsets(text, FALSE, startOffset)
        replaced == Replaced(getLineOffsets, startLine, endLine, added)
    IN /\ content' = Substring(content, 0, startOffset) \o text
                        \o Substring(content, endOffset, Len(content))
       /\ Len(content') <= MaxLength
       /\ lineOffsets' = Shifted(replaced, startLine + 1 + Len(added),
                                 Len(text) - (endOffset - startOffset))
       /\ irregular' = \/ Joins(content', {startOffset, startOffset + Len(text)})
                       \/ /\ startLine >= Len(getLineOffsets)
                          /\ added # <<>> /\ endLine - startLine = Len(added)
       /\ UNCHANGED applied

UpdateFull(text) ==
    /\ content' = text /\ lineOffsets' = None /\ irregular' = FALSE
    /\ UNCHANGED applied

\* Any of the calls that only read.
Read ==
    /\ lineOffsets' = getLineOffsets
    /\ UNCHANGED <<content, irregular, applied>>

-----------------------------------------------------------------------------
(* applyEdits, of edits at positions that the document has.                *)
RECURSIVE Merge(_, _)
Merge(left, right) ==
    IF left = <<>> THEN right
    ELSE IF right = <<>> THEN left
    ELSE IF Follows(left[1].range.start, right[1].range.start)
         THEN <<right[1]>> \o Merge(left, Tail(right))
         ELSE <<left[1]>> \o Merge(Tail(left), right)

RECURSIVE mergeSort(_)
mergeSort(data) ==
    LET p == Len(data) \div 2
    IN IF Len(data) <= 1 THEN data
       ELSE Merge(mergeSort(SubSeq(data, 1, p)), mergeSort(SubSeq(data, p + 1, Len(data))))

applyEdits(edits) ==
    LET wellformed == [i \in DOMAIN edits |->
                          [edits[i] EXCEPT !.range = getWellformedRange(@)]]
        Apply(done, e) ==
            IF done.text = None \/ offsetAt(e.range.start) < done.last
            THEN [done EXCEPT !.text = None]
            ELSE [last |-> offsetAt(e.range.end),
                  text |-> done.text \o Substring(content, done.last, offsetAt(e.range.start))
                              \o e.newText]
        end == FoldLeft(Apply, [last |-> 0, text |-> <<>>], mergeSort(wellformed))
    IN IF end.text = None THEN None
       ELSE end.text \o Substring(content, end.last, Len(content))

ApplyEdits(edits) ==
    /\ applied' = [edits |-> edits, result |-> applyEdits(edits)]
    /\ lineOffsets' = getLineOffsets
    /\ UNCHANGED <<content, irregular>>

Positions == [line : Lines, character : Characters]
EditsAt == [range : [start : {positionAt(o) : o \in 0..Len(content)},
                     end : {positionAt(o) : o \in 0..Len(content)}],
            newText : EditTexts]

Init ==
    /\ content \in Contents /\ lineOffsets = None
    /\ irregular = FALSE /\ applied = None

Next ==
    /\ applied = None
    /\ \/ /\ ~irregular
          /\ \E range \in [start : Positions, end : Positions], text \in Texts :
                UpdateIncremental(range, text)
       \/ \E text \in Contents : UpdateFull(text)
       \/ Read
       \/ /\ ~irregular /\ Len(content) < MaxEdited
          /\ \E edits \in SeqOf(EditsAt, MaxEdited - Len(content)) : ApplyEdits(edits)
Spec == Init /\ [][Next]_vars

-----------------------------------------------------------------------------
(* The offsets of the lines are those of the text, whatever changes led to *)
(* it: the positions in the changes, requests and diagnostics that follow  *)
(* depend on it.                                                           *)
OffsetsExact ==
    ~irregular => lineOffsets \in {None, computeLineOffsets(content, TRUE, 0)}

(* The position of an offset denotes that offset, or the end of its line   *)
(* if the offset is amid the characters that end it, and the lines make up *)
(* the text.                                                               *)
PositionsExact ==
    ~irregular =>
        /\ \A o \in 0..Len(content) :
              LET p == positionAt(o)
              IN offsetAt(p) = Least(o, LineEnd(p.line))
        /\ content = FlattenSeq([i \in DOMAIN getLineOffsets |->
              Substring(content, getLineOffsets[i], LineEnd(i - 1)) \o getEOLCharacters(i - 1)])

(* The result of edits is the text with each replaced, told character by   *)
(* character; edits that overlap, or insert where an earlier one of them   *)
(* replaces, are refused.                                                  *)
EditsExact ==
    applied # None =>
        LET edits == applied.edits
            From(i) == Least(offsetAt(edits[i].range.start), offsetAt(edits[i].range.end))
            To(i) == Most(offsetAt(edits[i].range.start), offsetAt(edits[i].range.end))
            Clash(i, j) ==
                \/ From(i) < To(j) /\ From(j) < To(i)
                \/ i < j /\ From(i) = From(j) /\ From(i) < To(i)
            InsertedAt(o) ==
                FlattenSeq([i \in DOMAIN edits |->
                               IF From(i) = o THEN edits[i].newText ELSE <<>>])
            KeptAt(o) ==
                IF o = Len(content) \/ \E i \in DOMAIN edits : From(i) <= o /\ o < To(i)
                THEN <<>> ELSE <<content[o + 1]>>
        IN applied.result =
              IF \E i, j \in DOMAIN edits : i # j /\ Clash(i, j) THEN None
              ELSE FlattenSeq([k \in 1..Len(content) + 1 |-> InsertedAt(k - 1) \o KeptAt(k - 1)])
=============================================================================

--------------------------- MODULE SemanticTokens ---------------------------
(***************************************************************************)
(* SemanticTokensBuilder and SemanticTokensDiff (server/src/common/        *)
(* semanticTokens.ts), with a client that holds a result and asks for the  *)
(* next one, in full or as edits of the result it holds.  It asks for one  *)
(* at a time; an answer it no longer waits for is lost.                    *)
(*                                                                         *)
(* The data is the flat sequence of numbers, three for each token: length  *)
(* and modifiers are treated as the type is.                               *)
(***************************************************************************)
EXTENDS Integers, SequencesExt

CONSTANTS
    None,         \* undefined
    TokenLists,   \* the tokens that a document may have, as they are pushed
    MaxRequests   \* bound on the requests

VARIABLES
    builder,   \* the builder of the document
    clock,     \* Date.now()
    held,      \* what the client has: the id and the data of a result, and
               \* as a ghost the tokens it was built of
    tied,      \* ghost: two results have the same id
    requests   \* the number of requests

vars == <<builder, clock, held, tied, requests>>

-----------------------------------------------------------------------------
(* The diff.                                                               *)
DropFirst(s, n) == SubSeq(s, n + 1, Len(s))
CommonStart(s, t) == Len(LongestCommonPrefix({s, t}))

\* One edit, of what is between the common start and the common end; a common
\* end that reaches the start is taken one shorter.
computeDiff(original, modified) ==
    LET start == CommonStart(original, modified)
        o == DropFirst(original, start)
        m == DropFirst(modified, start)
        common == CommonStart(Reverse(o), Reverse(m))
        end == IF common \in {Len(o), Len(m)} THEN common - 1 ELSE common
        newData == SubSeq(m, 1, Len(m) - end)
    IN IF o = <<>> /\ m = <<>> THEN <<>>
       ELSE IF o = <<>> \/ m = <<>>
       THEN <<[start |-> start, deleteCount |-> Len(o), data |-> m]>>
       ELSE IF Len(newData) = 1 /\ newData[1] = o[Len(o) - end]
       THEN <<[start |-> start, deleteCount |-> Len(o) - end - 1, data |-> <<>>]>>
       ELSE <<[start |-> start, deleteCount |-> Len(o) - end, data |-> newData]>>

-----------------------------------------------------------------------------
(* The builder.                                                            *)
Numbers(token) == <<token.line, token.char, token.type>>
Token(data, i) == [line |-> data[3 * i - 2], char |-> data[3 * i - 1], type |-> data[3 * i]]
Before(s, t) == s.line < t.line \/ (s.line = t.line /\ s.char < t.char)
Delta(token, line, char) ==
    [token EXCEPT !.line = @ - line, !.char = IF token.line = line THEN @ - char ELSE @]

initialized(prevData) ==
    [id |-> clock', prevLine |-> 0, prevChar |-> 0, data |-> <<>>, dataNonDelta |-> <<>>,
     sorted |-> TRUE, prevData |-> prevData]

deltaDecode(data) ==
    LET Add(tokens, i) ==
            LET t == Token(data, i)
            IN Append(tokens,
                  IF tokens = <<>> THEN t
                  ELSE IF t.line = 0 THEN [t EXCEPT !.line = Last(tokens).line,
                                                    !.char = @ + Last(tokens).char]
                  ELSE [t EXCEPT !.line = @ + Last(tokens).line])
        decoded == FoldLeft(Add, <<>>, [i \in 1..Len(data) \div 3 |-> i])
    IN FlattenSeq([i \in DOMAIN decoded |-> Numbers(decoded[i])])

\* Tokens at one place stay in the order in which they were pushed.
sortAndDeltaEncode(data) ==
    LET Place(i) == Token(data, i)
        Earlier(i, j) == Before(Place(i), Place(j)) \/ (~Before(Place(j), Place(i)) /\ i < j)
        pos == SetToSortSeq(1..Len(data) \div 3, Earlier)
    IN FlattenSeq([k \in DOMAIN pos |->
          IF k = 1 THEN Numbers(Place(pos[1]))
          ELSE Numbers(Delta(Place(pos[k]), Place(pos[k - 1]).line, Place(pos[k - 1]).char))])

Push(b, token) ==
    LET unordered == token.line < b.prevLine \/ (token.line = b.prevLine /\ token.char < b.prevChar)
        decoded == IF b.sorted /\ unordered
                   THEN [b EXCEPT !.sorted = FALSE, !.dataNonDelta = deltaDecode(b.data)]
                   ELSE b
        pushed == IF decoded.sorted
                  THEN [decoded EXCEPT !.data = @ \o Numbers(
                           IF b.data = <<>> THEN token ELSE Delta(token, b.prevLine, b.prevChar))]
                  ELSE [decoded EXCEPT !.dataNonDelta = @ \o Numbers(token)]
    IN [pushed EXCEPT !.prevLine = token.line, !.prevChar = token.char]

getFinalDataDelta(b) == IF b.sorted THEN b.data ELSE sortAndDeltaEncode(b.dataNonDelta)

\* Mutant of previousResult: what was kept is kept whatever the id.
previousResultAny(b, id) == initialized(getFinalDataDelta(b))
previousResult(b, id) ==
    initialized(IF b.id = id THEN getFinalDataDelta(b) ELSE b.prevData)

-----------------------------------------------------------------------------
(* The requests.                                                           *)

\* asSemanticTokensEdits and the editor: the edits of the data it holds.
Applied(data, edits) ==
    IF edits = <<>> THEN data
    ELSE LET e == edits[1]
         IN SubSeq(data, 1, IF e.start < Len(data) THEN e.start ELSE Len(data)) \o e.data \o DropFirst(data, e.start + e.deleteCount)

\* The answer arrives, or the client has dropped the request.
Answer(tokens, data) ==
    /\ requests' = requests + 1
    /\ \/ held' = [id |-> builder'.id, data |-> data, tokens |-> tokens]
       \/ UNCHANGED held

\* Time goes on between two calls, or not so that Date.now() would tell.
Time == clock' \in {clock, clock + 1} /\ tied' = (tied \/ clock' = clock)

\* A full request is answered from a builder without tokens.
Full(tokens) ==
    /\ requests < MaxRequests
    /\ Time
    /\ builder' = FoldLeft(Push, initialized(None), tokens)
    /\ Answer(tokens, getFinalDataDelta(builder'))

\* previousResult, the pushes and buildEdits.
FullDelta(tokens) ==
    /\ requests < MaxRequests /\ held # None
    /\ Time
    /\ builder' = FoldLeft(Push, previousResult(builder, held.id), tokens)
    /\ LET final == getFinalDataDelta(builder')
       IN Answer(tokens, IF builder'.prevData = None THEN final
                         ELSE Applied(held.data, computeDiff(builder'.prevData, final)))

Init ==
    /\ clock = 0 /\ builder = None /\ held = None /\ tied = FALSE /\ requests = 0

Next == \E tokens \in TokenLists : Full(tokens) \/ FullDelta(tokens)
Spec == Init /\ [][Next]_vars

-----------------------------------------------------------------------------
(* What the client holds is the tokens last answered, sorted, whatever     *)
(* they are called by the answers that were lost in between: each edit     *)
(* is applied to the data it was computed from.                            *)
TokensFollow ==
    held # None /\ ~tied =>
        held.data = sortAndDeltaEncode(FlattenSeq([i \in DOMAIN held.tokens |->
                                                      Numbers(held.tokens[i])]))
=============================================================================

----------------------------- MODULE MCServices -----------------------------
(***************************************************************************)
(* TLC instance of the services, and beside them the parts that are        *)
(* algorithms over the protocol's values and data structures: a behaviour  *)
(* is one of one part, the variables of the others stay out of it.         *)
(***************************************************************************)
EXTENDS Services, SequencesExt

VARIABLES
    \* Recognition
    place, given, asked, taken,
    \* ItemConversion
    itemKind, item, shown, itemAsked, again, itemPhase,
    \* FullTextDocument
    content, lineOffsets, irregular, editsApplied,
    \* SemanticTokens
    builder, clock, held, tied, tokenRequests

(* Filters of file operations: for files, for folders or for both, by the  *)
(* path itself or with a slash, and one that is not well formed.           *)
F(how, of, paths) == [form |-> how, kind |-> of, paths |-> paths]
SomeFilters ==
    {{F("path", "file", Paths), F("invalid", "any", {})},
     {F("path", "any", {"p"}), F("slash", "folder", Paths)},
     {F("path", "folder", {"q"}), F("path", "any", {"p"})}}

(* A plain map, and caches of one and of two items.                        *)
SomeLimits == {None, 1, 2}

(* A negative percentage and one over 100 are clamped.                     *)
SomePercentages == {-5, 50, 120}

(* Tokens of two lines, two of them at one place, in the order of the text *)
(* and in others.                                                          *)
SomeTokenLists ==
    LET T(line, char, type) == [line |-> line, char |-> char, type |-> type]
        a == T(0, 0, 0)
        b == T(0, 1, 0)
        c == T(1, 0, 0)
        d == T(1, 0, 1)
    IN {<<>>, <<a>>, <<c>>, <<a, b>>, <<a, c>>, <<b, a>>, <<c, d>>, <<d, c>>, <<b, a, c>>,
        <<a, d, b>>, <<b, d, c>>}

RE == INSTANCE Recognition
IC == INSTANCE ItemConversion WITH
          kind <- itemKind, phase <- itemPhase, given <- item, asked <- itemAsked
FT == INSTANCE FullTextDocument WITH
          Lines <- -1..2, Characters <- 0..2, Contents <- SeqOf({"a", "n", "r"}, 3),
          Texts <- {<<>>, <<"n">>, <<"r">>, <<"a", "n">>, <<"r", "n">>}, MaxLength <- 4,
          EditTexts <- {<<>>, <<"x">>, <<"y">>}, MaxEdited <- 4, applied <- editsApplied
ST == INSTANCE SemanticTokens WITH
          TokenLists <- SomeTokenLists, MaxRequests <- 3, requests <- tokenRequests

RecognitionIdle ==
    /\ place = None /\ given = None /\ asked = None /\ taken = None
ItemConversionIdle ==
    /\ itemKind = None /\ item = None /\ shown = None /\ itemAsked = None /\ again = None
    /\ itemPhase = None
FullTextDocumentIdle ==
    /\ content = None /\ lineOffsets = None /\ irregular = None /\ editsApplied = None
SemanticTokensIdle ==
    /\ builder = None /\ clock = None /\ held = None /\ tied = None /\ tokenRequests = None

OtherParts == {"recognition", "items", "document", "tokens"}

MCInit ==
    /\ part \in Parts \cup OtherParts
    /\ PartsInit
    /\ IF part = "recognition" THEN RE!Init ELSE RecognitionIdle
    /\ IF part = "items" THEN IC!Init ELSE ItemConversionIdle
    /\ IF part = "document" THEN FT!Init ELSE FullTextDocumentIdle
    /\ IF part = "tokens" THEN ST!Init ELSE SemanticTokensIdle

(* The variables of each part.                                             *)
REvars ==
    <<place, given, asked, taken>>
ICvars ==
    <<itemKind, item, shown, itemAsked, again, itemPhase>>
FTvars ==
    <<content, lineOffsets, irregular, editsApplied>>
STvars ==
    <<builder, clock, held, tied, tokenRequests>>

MCNext ==
    \/ Next /\ UNCHANGED <<REvars, ICvars, FTvars, STvars>>
    \/ /\ UNCHANGED vars
       /\ \/ /\ part = "recognition" /\ RE!Next
             /\ UNCHANGED <<ICvars, FTvars, STvars>>
          \/ /\ part = "items" /\ IC!Next
             /\ UNCHANGED <<REvars, FTvars, STvars>>
          \/ /\ part = "document" /\ FT!Next
             /\ UNCHANGED <<REvars, ICvars, STvars>>
          \/ /\ part = "tokens" /\ ST!Next
             /\ UNCHANGED <<REvars, ICvars, FTvars>>

MCvars == <<vars, REvars, ICvars, FTvars, STvars>>
MCSpec == MCInit /\ [][MCNext]_MCvars

-----------------------------------------------------------------------------
(* A value is recognised as the type it is of, wherever one of several types *)
(* may stand and their tests tell them apart.                                *)
Recognised == part = "recognition" => RE!Recognised

(* An item goes to the editor and back without change of what the server     *)
(* needs to resolve it, and what it shows already stays.                     *)
ItemsSurvive == part = "items" => IC!AskedAsGiven /\ IC!ResolveKeepsShown

(* The links of a map are the order its calls make, within the limit of a    *)
(* cache, and an iteration sees that order or is told; the line offsets of a *)
(* document are those of its text, and edits change it as they say.          *)
StructuresExact ==
    /\ ListExact
    /\ part = "document" => FT!OffsetsExact /\ FT!PositionsExact /\ FT!EditsExact

(* The semantic tokens a client holds after applying edits are those of the  *)
(* server, whichever answers were lost in between.                           *)
TokensFollow == part = "tokens" => ST!TokensFollow
=============================================================================

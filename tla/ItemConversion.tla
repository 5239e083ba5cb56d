---------------------------- MODULE ItemConversion ----------------------------
(***************************************************************************)
(* Items a server gives, the editor shows and the server is asked about    *)
(* again: a code lens to resolve, a diagnostic among the context of a code *)
(* action, an item of a call hierarchy.  protocolConverter makes the       *)
(* editor's object, codeConverter makes the server's of it, and what the   *)
(* server answers is converted as the item was.  What does not survive     *)
(* the way out and back is lost to the server.                             *)
(*                                                                         *)
(* A field is "absent" or has one of the values its conversion tells       *)
(* apart: "null", "falsy" (0, false, the empty string), "empty" (a list),  *)
(* a value with a meaning, or just "value".  Truthy data is an object.     *)
(***************************************************************************)
EXTENDS Integers, TLC

VARIABLES
    kind,   \* the kind of item, a member of Kinds
    given,  \* what the server gave
    shown,  \* what the editor has
    asked,  \* what the server is asked about
    again,  \* what the editor has of an answer that changes nothing
    phase   \* "given", "shown", "refused", "asked" or "answered"

vars == <<kind, given, shown, asked, again, phase>>

-----------------------------------------------------------------------------
(* What becomes of the value of a field.                                   *)
FieldValues ==
    {"absent", "null", "falsy", "empty", "value", "unknown", "string", "plaintext", "markdown",
     "unsupported", "Error", "Property", "first", "minus one", "isAI", "LLMGenerated",
     "Location", "LocationUriOnly"}
Keep == [v \in FieldValues |-> v]
Without(lost) == [v \in FieldValues |-> IF v \in lost THEN "absent" ELSE v]
Truthy == Without({"null", "falsy"})
NotNull == Without({"null"})
NotEmpty == Without({"falsy", "empty"})
Tags == Without({"empty", "unknown"})
Never == [v \in FieldValues |-> "absent"]

Field(legal, show, ask) == [legal |-> legal, show |-> show, ask |-> ask]
Always == Field({"value"}, Keep, Keep)
Optional == Field({"absent", "value"}, Keep, Keep)
Text == {"absent", "falsy", "value"}
List == {"absent", "empty", "value"}
Flag == Field({"absent", "falsy", "value"}, Keep, Keep)
LSPAny == {"absent", "null", "falsy", "value"}

(* One row per kind and field: what a server may give, what the editor is  *)
(* shown of it, and what the server is asked of that.  An item of the      *)
(* completion list is here as far as its fields go their own way.          *)
HierarchyItem ==
    [kind |-> Field({"value", "unknown"}, ("unknown" :> "Property") @@ Keep, Keep),
     detail |-> Field(Text, ("absent" :> "falsy") @@ Keep, NotEmpty),
     tags |-> Field(List \cup {"unknown"}, Tags, Tags), data |-> Field(LSPAny, Keep, Keep)]
CodeLens ==
    [command |-> Field({"absent", "value"}, Truthy, Truthy), data |-> Field(LSPAny, NotNull, Truthy)]
DocumentLink ==
    [target |-> Field({"absent", "value"}, Truthy, Truthy), tooltip |-> Field(Text, Keep, Keep),
     data |-> Field(LSPAny, NotNull, Truthy)]
CodeAction ==
    [kind |-> Optional, diagnostics |-> Field(List, Keep, Keep), edit |-> Optional, command |-> Optional,
     isPreferred |-> Flag, disabled |-> Optional,
     tags |-> Field({"absent", "empty", "unknown", "LLMGenerated"},
                    ("LLMGenerated" :> "isAI") @@ Tags, ("isAI" :> "LLMGenerated") @@ Keep),
     data |-> Field(LSPAny, Keep, Keep)]
Diagnostic ==
    [message |-> Field({"string", "plaintext", "markdown"},
                       ("plaintext" :> "string") @@ ("markdown" :> "unsupported") @@ Keep, Keep),
     severity |-> Field({"absent", "value", "unknown"},
                        ("absent" :> "Error") @@ ("unknown" :> "Error") @@ Keep, Keep),
     code |-> Optional, codeDescription |-> Optional, source |-> Field(Text, Truthy, Truthy),
     relatedInformation |-> Field(List, Keep, Keep),
     tags |-> Field(List \cup {"unknown"}, Tags, Tags), data |-> Field(LSPAny, Keep, Keep)]
WorkspaceSymbol ==
    [kind |-> HierarchyItem.kind, containerName |-> HierarchyItem.detail, tags |-> HierarchyItem.tags,
     location |-> Field({"Location", "LocationUriOnly"}, Keep, Keep), data |-> HierarchyItem.data]
InlayHint ==
    [label |-> Field({"string", "empty", "value"}, Keep, Keep), kind |-> Optional,
     textEdits |-> Field(List, Keep, Keep),
     tooltip |-> Field({"absent", "string", "plaintext", "markdown"}, ("plaintext" :> "markdown") @@ Keep, Keep),
     paddingLeft |-> Flag, paddingRight |-> Flag, data |-> HierarchyItem.data]
SignatureHelp ==
    [signatures |-> Always, documentation |-> Field({"absent", "value"}, Keep, Never),
     activeSignature |-> Field({"absent", "value"}, ("absent" :> "first") @@ Keep, Keep),
     activeParameter |-> Field({"absent", "null", "value"},
                               ("absent" :> "first") @@ ("null" :> "minus one") @@ Keep, Keep)]
CompletionItem ==
    [detail |-> Field(Text, Truthy, Truthy), filterText |-> Field(Text, Truthy, Truthy),
     documentation |-> Field({"absent", "string", "plaintext", "markdown"}, Keep, Keep),
     kind |-> Field({"absent", "value", "unknown"}, Keep, Keep), preselect |-> Flag,
     additionalTextEdits |-> Field(List, Truthy, Truthy), command |-> Optional]

Items ==
    [CodeLens |-> CodeLens,
     DocumentLink |-> DocumentLink,
     CodeAction |-> CodeAction,
     Diagnostic |-> Diagnostic,
     CallHierarchyItem |-> HierarchyItem,
     TypeHierarchyItem |-> HierarchyItem,
     WorkspaceSymbol |-> WorkspaceSymbol,
     InlayHint |-> InlayHint,
     SignatureHelp |-> SignatureHelp,
     CompletionItem |-> CompletionItem]

-----------------------------------------------------------------------------
(* The fields of a completion item that depend on each other or on the     *)
(* defaults of the list.  Where its text goes: textEdit and editRange are  *)
(* given by the kind of range they have, newText by the text.              *)
Or(value, default) == IF value = "absent" THEN default ELSE value
Ranges == {"Range", "InsertReplaceRange"}
Insertions ==
    {g \in [insertText : {"absent", "falsy", "insertText"}, textEdit : Ranges \cup {"absent"},
            newText : {"absent", "falsy", "newText"}, textEditText : {"absent", "textEditText"},
            format : {"absent", "plain", "snippet"}, editRange : Ranges \cup {"absent"},
            defaultFormat : {"absent", "plain", "snippet"}] :
        (g.textEdit = "absent") = (g.newText = "absent")}
asCompletionInsertText(g) ==
    LET format == IF Or(g.format, g.defaultFormat) = "snippet" THEN "snippet" ELSE "plain"
    IN IF g.textEdit # "absent" THEN
           [text |-> g.newText, range |-> g.textEdit, format |-> format, fromEdit |-> TRUE]
       ELSE IF g.editRange # "absent" THEN
           [text |-> Or(g.textEditText, "label"), range |-> g.editRange, format |-> format, fromEdit |-> TRUE]
       ELSE IF g.insertText \notin {"absent", "falsy"} THEN
           [text |-> g.insertText, range |-> "absent", format |-> format, fromEdit |-> FALSE]
       ELSE [text |-> "absent", range |-> "absent", format |-> "plain", fromEdit |-> FALSE]
fillPrimaryInsertText(s) ==
    LET edit == s.fromEdit /\ s.text # "absent" /\ s.range # "absent"
    IN [insertText |-> IF edit THEN "absent" ELSE s.text,
        textEdit |-> IF edit THEN s.range ELSE "absent", newText |-> IF edit THEN s.text ELSE "absent",
        textEditText |-> "absent", format |-> s.format, editRange |-> "absent", defaultFormat |-> "absent"]

(* Its data, and the characters that commit it ({} when there is no list,  *)
(* {characters} for a list), each its own, the list's, or both.            *)
Applications ==
    [data : {"absent", "null", "falsy", "own"}, defaultData : LSPAny, applyData : {"absent", "Replace", "Merge"}]
applyData(g) ==
    LET defaults == IF g.defaultData = "value" THEN "value" ELSE "empty"
    IN IF g.applyData # "Merge" THEN IF g.data \in {"absent", "null"} THEN g.defaultData ELSE g.data
       ELSE IF g.data = "own" THEN IF defaults = "value" THEN "both" ELSE "own"
       ELSE defaults
Commits ==
    [own : {{}, {{}}, {{";"}}}, default : {{}, {{}}, {{"."}}}, all : {{}, {{","}}},
     apply : {"absent", "Replace", "Merge"}]
applyCommitCharacters(g) ==
    LET default == IF g.default = {} THEN g.all ELSE g.default
    IN IF g.apply = "Merge" /\ default \cup g.own # {} THEN {UNION (default \cup g.own)}
       ELSE IF g.own # {} THEN g.own ELSE default

(* Whether it is deprecated, said by a tag and by a flag: the editor knows *)
(* the tag, which the flag adds and the way back takes away.               *)
Deprecations == [tags : {"absent", "empty", "unknown", "Deprecated"}, deprecated : {"absent", "falsy", "value"}]
showDeprecation(g) ==
    [deprecated |-> g.deprecated,
     tags |-> (IF g.tags = "Deprecated" THEN 1 ELSE 0) + (IF g.deprecated = "value" THEN 1 ELSE 0)]
\* Mutant of askDeprecation: the tag that the flag added is not taken away.
askDeprecationWithTag(s) ==
    [deprecated |-> s.deprecated, tags |-> IF s.tags > 0 THEN "Deprecated" ELSE "absent"]

askDeprecation(s) ==
    [deprecated |-> s.deprecated,
     tags |-> IF s.tags - (IF s.deprecated = "value" THEN 1 ELSE 0) > 0 THEN "Deprecated" ELSE "absent"]

(* How its text is to be indented, and the details of its label, which go  *)
(* back only to a server that said it knows them.                          *)
Modes == [insertTextMode : {"absent", "asIs", "adjustIndentation"}, default : {"absent", "asIs", "adjustIndentation"}]
showMode(g) ==
    [mode |-> Or(g.insertTextMode, g.default), keepWhitespace |-> Or(g.insertTextMode, g.default) = "asIs"]
askMode(s) ==
    [insertTextMode |-> IF s.mode = "absent" /\ s.keepWhitespace THEN "adjustIndentation" ELSE s.mode,
     default |-> "absent"]
Labels == [labelDetails : {"absent", "value"}, labelDetailsSupport : BOOLEAN]

-----------------------------------------------------------------------------
Aspects == {"Insertion", "Data", "CommitCharacters", "Deprecation", "Mode", "Label"}
ItemKinds == DOMAIN Items \cup Aspects
(* Fields of a row go their own ways: two at a time are enough.            *)
GivenOf(k) ==
    CASE k = "Insertion" -> Insertions
      [] k = "Data" -> Applications
      [] k = "CommitCharacters" -> Commits
      [] k = "Deprecation" -> Deprecations
      [] k = "Mode" -> Modes
      [] k = "Label" -> Labels
      [] OTHER ->
            LET bare == [f \in DOMAIN Items[k] |-> IF "absent" \in Items[k][f].legal THEN "absent"
                                                  ELSE CHOOSE v \in Items[k][f].legal : TRUE]
            IN UNION {{[bare EXCEPT ![f] = v, ![h] = w] : v \in Items[k][f].legal, w \in Items[k][h].legal} :
                         f, h \in DOMAIN Items[k]}

Show(k, g) ==
    CASE k = "Insertion" -> asCompletionInsertText(g)
      [] k = "Data" -> [data |-> applyData(g)]
      [] k = "CommitCharacters" -> [own |-> applyCommitCharacters(g)]
      [] k = "Deprecation" -> showDeprecation(g)
      [] k = "Mode" -> showMode(g)
      [] k = "Label" -> g
      [] OTHER ->
            [f \in DOMAIN g |->
                IF f = "codeDescription" /\ g.code = "absent" THEN "absent" ELSE Items[k][f].show[g[f]]]
Asked(k, s) ==
    CASE k = "Insertion" -> fillPrimaryInsertText(s)
      [] k = "Data" -> [data |-> s.data, defaultData |-> "absent", applyData |-> "absent"]
      [] k = "CommitCharacters" -> [own |-> s.own, default |-> {}, all |-> {}, apply |-> "absent"]
      [] k = "Deprecation" -> askDeprecation(s)
      [] k = "Mode" -> askMode(s)
      [] k = "Label" -> [s EXCEPT !.labelDetails = IF s.labelDetailsSupport THEN @ ELSE "absent"]
      [] OTHER -> [f \in DOMAIN s |-> Items[k][f].ask[s[f]]]

Init ==
    /\ kind \in ItemKinds
    /\ given \in GivenOf(kind)
    /\ shown = given /\ asked = given /\ again = given
    /\ phase = "given"

(* The result of the request is converted.                                 *)
ShowItem ==
    /\ phase = "given"
    /\ shown' = Show(kind, given)
    /\ phase' = "shown"
    /\ UNCHANGED <<kind, given, asked, again>>

(* The editor wants the item resolved, or shows what is below it.  A code  *)
(* action that has its edit cannot be converted.                           *)
Convertible == kind = "CodeAction" => shown.edit = "absent"
AskAbout ==
    /\ phase = "shown"
    /\ Convertible
    /\ asked' = Asked(kind, shown)
    /\ phase' = "asked"
    /\ UNCHANGED <<kind, given, shown, again>>
Refuse ==
    /\ phase = "shown"
    /\ ~Convertible
    /\ phase' = "refused"
    /\ UNCHANGED <<kind, given, shown, asked, again>>

(* The server answers with the item it was asked about.                    *)
Answer ==
    /\ phase = "asked"
    /\ again' = Show(kind, asked)
    /\ phase' = "answered"
    /\ UNCHANGED <<kind, given, shown, asked>>

Next == ShowItem \/ AskAbout \/ Refuse \/ Answer
Spec == Init /\ [][Next]_vars

-----------------------------------------------------------------------------
(* Values the server does not get back as it gave them.  Some are equal to *)
(* what it gets: an empty text or list and none, a severity left out and   *)
(* that of an error, documentation in plain text and the markup of it.     *)
(* Some are dropped on purpose, as the documentation of a signature.  The  *)
(* rest are losses: data that is null or falsy of a code lens and a link,  *)
(* enumeration members the client does not know, a message in markdown,    *)
(* a parameter said to be none, which comes back as number -1.             *)
Equal == {"falsy", "empty"}
Losses ==
    {<<"CodeLens", "data", "null">>, <<"CodeLens", "data", "falsy">>,
     <<"DocumentLink", "data", "null">>, <<"DocumentLink", "data", "falsy">>,
     <<"Diagnostic", "message", "plaintext">>, <<"Diagnostic", "message", "markdown">>,
     <<"Diagnostic", "severity", "absent">>, <<"Diagnostic", "severity", "unknown">>,
     <<"Diagnostic", "codeDescription", "value">>,
     <<"InlayHint", "tooltip", "plaintext">>,
     <<"SignatureHelp", "documentation", "value">>, <<"SignatureHelp", "activeSignature", "absent">>,
     <<"SignatureHelp", "activeParameter", "absent">>, <<"SignatureHelp", "activeParameter", "null">>}
Lost(f) ==
    \/ <<kind, f, given[f]>> \in Losses
    \/ given[f] = "unknown" /\ f # "severity" /\ kind # "CompletionItem"
    \/ given[f] \in Equal /\ f # "data" /\ asked[f] = "absent"

(* What an item means to the server: the text an edit puts where, and how. *)
Insertion(g) ==
    LET format == IF Or(g.format, g.defaultFormat) = "snippet" THEN "snippet" ELSE "plain"
    IN IF g.textEdit # "absent" THEN <<g.newText, g.textEdit, format>>
       ELSE IF g.editRange # "absent" THEN <<Or(g.textEditText, "label"), g.editRange, format>>
       ELSE IF g.insertText = "absent" THEN <<"label", "word", "plain">>
       ELSE <<g.insertText, "word", format>>
IsDeprecated(g) == g.tags = "Deprecated" \/ g.deprecated = "value"

(* The server is asked about what it gave: every field has the value the   *)
(* server sent, or is one of the losses above; a completion item that took *)
(* its range, its format, its data from the defaults of the list carries   *)
(* them itself and means the same.  (An empty insertText is taken for      *)
(* none, and the label is inserted.)                                       *)
AskedAsGiven ==
    phase \in {"asked", "answered"} =>
        CASE kind = "Insertion" -> Insertion(asked) = Insertion(given) \/ given.insertText = "falsy"
          [] kind = "Data" ->
                (given.applyData # "Merge" /\ given.data \notin {"absent", "null"}) => asked.data = given.data
          [] kind = "CommitCharacters" -> given.apply # "Merge" /\ given.own # {} => asked.own = given.own
          [] kind = "Deprecation" ->
                IsDeprecated(asked) = IsDeprecated(given) /\ asked.deprecated = given.deprecated
          [] kind = "Mode" -> asked.insertTextMode = Or(given.insertTextMode, given.default)
          [] kind = "Label" -> asked.labelDetails = given.labelDetails \/ ~given.labelDetailsSupport
          [] OTHER -> \A f \in DOMAIN given : asked[f] = given[f] \/ Lost(f)

(* An answer that changes nothing changes nothing of what is shown: the    *)
(* tags are not doubled, a snippet stays one, a range from the defaults    *)
(* stays.  Data, which is not shown, the help with a signature, which is   *)
(* not resolved, and the details of a label the server does not know are   *)
(* left out.                                                               *)
ResolveKeepsShown ==
    phase = "answered" =>
        \/ again = shown
        \/ kind \in {"CodeLens", "DocumentLink"} /\ [again EXCEPT !.data = shown.data] = shown
        \/ kind \in {"SignatureHelp", "Data"}
        \/ kind = "Label" /\ ~given.labelDetailsSupport

(* "A data entry field that is preserved on a code lens item between a     *)
(* code lens and a code lens resolve request" (types/src/main.ts).         *)
DataPreserved ==
    kind \in {"CodeLens", "DocumentLink"} /\ phase \in {"asked", "answered"} => asked.data = given.data
=============================================================================

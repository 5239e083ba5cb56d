----------------------------- MODULE Recognition -----------------------------
(***************************************************************************)
(* How the code finds out which of several types a value has: it asks the  *)
(* tests of ProtocolTypes one after the other and takes the first that     *)
(* says yes; what is left over is taken for the last member unseen, or     *)
(* nothing is done with it.                                                *)
(***************************************************************************)
EXTENDS ProtocolTypes

VARIABLES
    place,  \* where the value arrives, a member of Places
    given,  \* the type it has
    asked,  \* how many tests have said no
    taken   \* what it is taken for; "none" while tests are asked

(* The places of the converters, the features and the change builder with  *)
(* the tests in the order they are asked there; each is named after the    *)
(* function that asks.  DocumentChange and TextEditOf are two loops of     *)
(* asWorkspaceEdit.                                                        *)
Takes(tests, otherwise) == [tests |-> tests, otherwise |-> otherwise]
asCodeActionResult == Takes(<<"Command">>, "CodeAction")
getCompletionRangeAndText == Takes(<<"InsertReplaceEdit">>, "TextEdit")
getCompletionItemDefaults == Takes(<<"Range">>, "EditRangeWithInsertReplace")
DocumentChange == Takes(<<"CreateFile", "RenameFile", "DeleteFile", "TextDocumentEdit">>, "nothing")
TextEditOf == Takes(<<"AnnotatedTextEdit", "SnippetTextEdit">>, "TextEdit")
asLocationResult == Takes(<<"LocationLink">>, "Location")
asInlineValue == Takes(<<"InlineValueText", "InlineValueVariableLookup">>, "InlineValueEvaluatableExpression")
asHoverContent == Takes(<<"MarkedStringWithLanguage">>, "MarkupContent")
provideDocumentSymbols == Takes(<<"DocumentSymbol">>, "SymbolInformation")
provideDocumentSemanticTokensEdits == Takes(<<"SemanticTokens">>, "SemanticTokensDelta")
asDocumentSelector == Takes(<<"NotebookCellTextDocumentFilter", "TextDocumentFilterLanguage">>, "nothing")
createFile == Takes(<<"ChangeAnnotation">>, "CreateFileOptions")
prepareRename == Takes(<<"Range", "DefaultBehavior">>, "RangeAndPlaceholder")
Unions ==
    [codeAction |-> asCodeActionResult, completionEdit |-> getCompletionRangeAndText,
     editRange |-> getCompletionItemDefaults, documentChange |-> DocumentChange, edit |-> TextEditOf,
     location |-> asLocationResult, inlineValue |-> asInlineValue, hoverContents |-> asHoverContent,
     documentSymbol |-> provideDocumentSymbols, semanticTokens |-> provideDocumentSemanticTokensEdits,
     documentFilter |-> asDocumentSelector, fileOptions |-> createFile, prepareRename |-> prepareRename]

(* TextDocumentFilter.is and NotebookDocumentFilter.is do not tell their   *)
(* three variants apart.                                                   *)
Family(type) ==
    CASE type \in {"TextDocumentFilterScheme", "TextDocumentFilterPattern"} -> "TextDocumentFilterLanguage"
      [] type \in NotebookFilters \ {"NotebookDocumentFilterNotebookType"} -> "NotebookDocumentFilterNotebookType"
      [] type = "CellsByRelativePattern" -> "NotebookCellTextDocumentFilter"
      [] type = "NotebookFilterByRelativePattern" -> "NotebookDocumentFilterNotebookType"
      [] OTHER -> type

(* Each test is also asked about the values of its own type.               *)
Tested == {type \in DOMAIN Catalog : Catalog[type].is # {} /\ Family(type) = type}
Places == DOMAIN Unions \cup Tested
Union(p) ==
    IF p \in DOMAIN Unions THEN Unions[p] ELSE Takes(<<p>>, "nothing")

Members(p) ==
    LET union == Union(p)
        types == {union.tests[k] : k \in DOMAIN union.tests} \cup {union.otherwise}
    IN {type \in DOMAIN Catalog : type \in types \/ Family(type) \in types}

-----------------------------------------------------------------------------
vars == <<place, given, asked, taken>>

Init ==
    /\ place \in Places
    /\ given \in Members(place)
    /\ asked = 0
    /\ taken = "none"

(* One more test is asked; the value may be any the type allows.           *)
Ask ==
    /\ taken = "none"
    /\ asked < Len(Union(place).tests)
    /\ LET test == Union(place).tests[asked + 1] IN
           \/ /\ MayAccept(Catalog[test], Catalog[given])
              /\ taken' = test
              /\ UNCHANGED asked
           \/ /\ MayReject(Catalog[test], Catalog[given])
              /\ asked' = asked + 1
              /\ UNCHANGED taken
    /\ UNCHANGED <<place, given>>

(* All said no.                                                            *)
Settle ==
    /\ taken = "none"
    /\ asked = Len(Union(place).tests)
    /\ taken' = Union(place).otherwise
    /\ UNCHANGED <<place, given, asked>>

Next == Ask \/ Settle
Spec == Init /\ [][Next]_vars

-----------------------------------------------------------------------------
(* Legal values their own test refuses: an edit with neither changes nor   *)
(* documentChanges, a code action without edit and command, a colour       *)
(* presentation with a text edit, and a notebook filter that has nothing   *)
(* but a relative pattern.  A cell filter with such a notebook filter is   *)
(* taken for a text document filter when it names a language and is        *)
(* dropped when it does not.                                               *)
Refused == {"WorkspaceEdit", "CodeAction", "ColorPresentation", "NotebookFilterByRelativePattern"}
Misjudged ==
    \/ given \in Refused /\ place = Family(given)
    \/ given = "CellsByRelativePattern"

(* Whatever legal value of whatever member arrives, it is taken for the    *)
(* member it is: no test asked earlier says yes to a value of a later      *)
(* member, and none says no to a value of its own type, but for the values *)
(* named above.                                                            *)
Recognised == taken = "none" \/ taken = Family(given) \/ Misjudged
=============================================================================

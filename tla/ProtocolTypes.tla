----------------------------- MODULE ProtocolTypes -----------------------------
(***************************************************************************)
(* The values of the protocol (types/src/main.ts, and the filters of       *)
(* protocol.ts) and the tests that tell them apart.                        *)
(*                                                                         *)
(* JSON has no types: what a value is follows from its fields, and code    *)
(* that gets one of several (a Command or a CodeAction, an edit of a file  *)
(* or of a document) asks the `is` functions in some order and takes the   *)
(* first that says yes.  A type is a record: `holds` gives for each field  *)
(* the kinds of value an interface allows there ("absent" when the field   *)
(* is optional), and `is` the test, a set of alternatives, each a          *)
(* conjunction that gives the kinds accepted field by field.  The tests    *)
(* are not the interfaces: some look at less, some at more.  A kind is     *)
(* the name of a type, of an array of it, or one of the words below.       *)
(*                                                                         *)
(* This module only describes; Recognition asks.                           *)
(***************************************************************************)
EXTENDS Naturals, Sequences, TLC

(* Strings with a meaning, and the other kinds of JSON.  A number is       *)
(* natural, negative, a fraction or too large to be an integer; "enum" is  *)
(* a number that is a member of the enumeration the field is of.           *)
Words == {"string", "create", "rename", "delete", "snippet", "plaintext", "markdown"}
Numbers == {"natural", "negative", "fraction", "huge", "enum"}
String == {"string"}
UInteger == {"natural"}
Integer == {"natural", "negative"}
Boolean == {"boolean"}
Kinds == Words \cup Numbers \cup Boolean \cup {"absent", "null", "object", "array"}
LSPAny == Kinds \ {"absent"}
Opt(kinds) == kinds \cup {"absent"}
ArrayOf(type) == {type \o "[]", "[]"}

(* What Is.string, Is.uinteger and Is.integer accept for these kinds: any  *)
(* string, and fractions too.                                              *)
Accepted(kinds) ==
    kinds \cup (IF "string" \in kinds THEN Words ELSE {})
          \cup (IF "natural" \in kinds THEN {"fraction", "enum"} ELSE {})
Asks(fields) == [f \in DOMAIN fields |-> Accepted(fields[f])]

(* A type whose test looks at every field; one whose test looks at some    *)
(* fields only; one with other tests; one without a test.                  *)
Plain(fields) == [holds |-> fields, is |-> {Asks(fields)}]
Partly(fields, seen) ==
    [holds |-> fields, is |-> {Asks([f \in seen |-> fields[f]])}]
Unlike(fields, test) ==
    [holds |-> fields, is |-> {test @@ Asks([f \in DOMAIN fields \ DOMAIN test |-> fields[f]])}]
Untested(fields) == [holds |-> fields, is |-> {}]

-----------------------------------------------------------------------------
(* Places.                                                                 *)
Position == Plain([line |-> UInteger, character |-> UInteger])
Range == Plain([start |-> {"Position"}, end |-> {"Position"}])
Location ==
    Unlike([uri |-> String, range |-> {"Range"}], [uri |-> Opt(Words)])
LocationLink ==
    Plain([targetUri |-> String, targetRange |-> {"Range"}, targetSelectionRange |-> {"Range"},
           originSelectionRange |-> Opt({"Range"})])
LocationUriOnly == Untested([uri |-> String])

(* Colors and foldings.  ColorPresentation.is asks TextEdit.is about the   *)
(* presentation itself: with a textEdit the presentation must have a range *)
(* and a newText.  FoldingRange.is asks about startLine twice.             *)
Color == Plain([red |-> {"fraction"}, green |-> {"fraction"}, blue |-> {"fraction"}, alpha |-> {"fraction"}])
ColorInformation == Plain([range |-> {"Range"}, color |-> {"Color"}])
ColorPresentation ==
    LET fields == [label |-> String, textEdit |-> Opt({"TextEdit"}),
                   additionalTextEdits |-> Opt(ArrayOf("TextEdit"))]
        asked == Asks([f \in {"label", "additionalTextEdits"} |-> fields[f]])
    IN [holds |-> fields,
        is |-> {asked @@ [textEdit |-> {"absent"}], asked @@ [range |-> {"Range"}, newText |-> Words]}]
FoldingRange ==
    Partly([startLine |-> UInteger, endLine |-> UInteger, startCharacter |-> Opt(UInteger),
            endCharacter |-> Opt(UInteger), kind |-> Opt(String), collapsedText |-> Opt(String)],
           {"startLine", "startCharacter", "endCharacter", "kind"})
SelectionRange == Plain([range |-> {"Range"}, parent |-> Opt({"SelectionRange"})])

(* Diagnostics and commands.                                               *)
DiagnosticRelatedInformation == Plain([location |-> {"Location"}, message |-> String])
CodeDescription == Plain([href |-> String])
Diagnostic ==
    LET fields == [range |-> {"Range"}, severity |-> Opt({"enum"}), code |-> Opt(Integer \cup String),
                   codeDescription |-> Opt({"CodeDescription"}), source |-> Opt(String),
                   message |-> String \cup {"MarkupContent"}, tags |-> Opt({"enum[]"}),
                   relatedInformation |-> Opt(ArrayOf("DiagnosticRelatedInformation")),
                   data |-> Opt(LSPAny)]
    IN [holds |-> fields,
        is |-> {[severity |-> Opt(Numbers)] @@ Asks([f \in DOMAIN fields \ {"tags", "data"} |-> fields[f]])}]
Command ==
    Partly([title |-> String, tooltip |-> Opt(String), command |-> String, arguments |-> Opt({"array"})],
           {"title", "tooltip", "command"})

(* Edits of text.  An annotation is meant to be named by its identifier;   *)
(* the tests accept the annotation itself as well.                         *)
TextEdit == Plain([range |-> {"Range"}, newText |-> String])
ChangeAnnotation ==
    Plain([label |-> String, needsConfirmation |-> Opt(Boolean), description |-> Opt(String)])
AnnotatedTextEdit ==
    Unlike([range |-> {"Range"}, newText |-> String, annotationId |-> String],
           [annotationId |-> Words \cup {"ChangeAnnotation"}])
StringValue == Plain([kind |-> {"snippet"}, value |-> String])
SnippetTextEdit ==
    Unlike([range |-> {"Range"}, snippet |-> {"StringValue"}, annotationId |-> Opt(String)],
           [annotationId |-> Opt(Words \cup {"ChangeAnnotation"})])
\* Mutant of InsertReplaceEdit: the test does not look at the ranges.
InsertReplaceEditByText ==
    Partly([newText |-> String, insert |-> {"Range"}, replace |-> {"Range"}], {"newText"})

InsertReplaceEdit == Plain([newText |-> String, insert |-> {"Range"}, replace |-> {"Range"}])
EditRangeWithInsertReplace == Untested([insert |-> {"Range"}, replace |-> {"Range"}])

(* Edits of the workspace.  The options of a file operation are looked at  *)
(* field by field, whatever holds them; WorkspaceEdit.is wants changes or  *)
(* documentChanges, and looks at no more than the latter.                  *)
TextDocumentEdit ==
    Unlike([textDocument |-> {"OptionalVersionedTextDocumentIdentifier"},
            edits |-> ArrayOf("TextEdit") \cup ArrayOf("AnnotatedTextEdit") \cup ArrayOf("SnippetTextEdit")],
           [edits |-> {"array", "[]", "TextEdit[]", "AnnotatedTextEdit[]", "SnippetTextEdit[]"}])
FileOperation(uris, kind, options) ==
    Unlike(uris @@ [kind |-> {kind}, options |-> Opt({options}), annotationId |-> Opt(String)],
           [kind |-> {kind}, options |-> Opt(LSPAny \cup {options}) \ {"null"}])
CreateFile == FileOperation([uri |-> String], "create", "CreateFileOptions")
RenameFile == FileOperation([oldUri |-> String, newUri |-> String], "rename", "RenameFileOptions")
DeleteFile == FileOperation([uri |-> String], "delete", "DeleteFileOptions")
WorkspaceEdit ==
    LET fields == [changes |-> Opt({"object"}), documentChanges |-> Opt({"TextDocumentEdit[]", "CreateFile[]"}),
                   changeAnnotations |-> Opt({"object"})]
    IN [holds |-> fields,
        is |-> {[changes |-> Kinds \ {"absent"}, documentChanges |-> fields.documentChanges],
                [documentChanges |-> fields.documentChanges \ {"absent"}]}]

(* Documents.                                                              *)
TextDocumentIdentifier == Plain([uri |-> String])
VersionedTextDocumentIdentifier == Plain([uri |-> String, version |-> Integer])
OptionalVersionedTextDocumentIdentifier == Plain([uri |-> String, version |-> Integer \cup {"null"}])
TextDocumentItem ==
    Plain([uri |-> String, languageId |-> String, version |-> Integer, text |-> String])
WorkspaceFolder == Plain([uri |-> String, name |-> String])

(* Markup, hovers, signatures.                                             *)
MarkupContent == Plain([kind |-> {"plaintext", "markdown"}, value |-> String])
MarkedStringWithLanguage == Plain([language |-> String, value |-> String])
Documentation == Opt(String \cup {"MarkupContent"})
Hover ==
    Plain([contents |-> String \cup {"MarkupContent", "MarkedStringWithLanguage"} \cup ArrayOf("MarkedString"),
           range |-> Opt({"Range"})])
ParameterInformation == Untested([label |-> String \cup {"natural[]"}, documentation |-> Documentation])
SignatureInformation ==
    Untested([label |-> String, documentation |-> Documentation,
              parameters |-> Opt(ArrayOf("ParameterInformation")), activeParameter |-> Opt(UInteger \cup {"null"})])
SignatureHelp ==
    Untested([signatures |-> ArrayOf("SignatureInformation"), activeSignature |-> Opt(UInteger),
              activeParameter |-> Opt(UInteger \cup {"null"})])

(* Completions.                                                            *)
CompletionItemLabelDetails == Plain([detail |-> Opt(String), description |-> Opt(String)])
CompletionItem ==
    Untested([label |-> String, labelDetails |-> Opt({"CompletionItemLabelDetails"}), kind |-> Opt({"enum"}),
              tags |-> Opt({"enum[]"}), detail |-> Opt(String), documentation |-> Documentation,
              deprecated |-> Opt(Boolean), preselect |-> Opt(Boolean), sortText |-> Opt(String),
              filterText |-> Opt(String), insertText |-> Opt(String), insertTextFormat |-> Opt({"enum"}),
              insertTextMode |-> Opt({"enum"}), textEdit |-> Opt({"TextEdit", "InsertReplaceEdit"}),
              textEditText |-> Opt(String), additionalTextEdits |-> Opt(ArrayOf("TextEdit")),
              commitCharacters |-> Opt(ArrayOf("string")), command |-> Opt({"Command"}), data |-> Opt(LSPAny)])
CompletionItemDefaults ==
    Untested([commitCharacters |-> Opt(ArrayOf("string")),
              editRange |-> Opt({"Range", "EditRangeWithInsertReplace"}), insertTextFormat |-> Opt({"enum"}),
              insertTextMode |-> Opt({"enum"}), data |-> Opt(LSPAny)])
CompletionItemApplyKinds == Untested([commitCharacters |-> Opt({"enum"}), data |-> Opt({"enum"})])
CompletionList ==
    Untested([isIncomplete |-> Boolean, itemDefaults |-> Opt({"CompletionItemDefaults"}),
              applyKind |-> Opt({"CompletionItemApplyKinds"}), items |-> ArrayOf("CompletionItem")])
InlineCompletionItem ==
    Untested([insertText |-> String \cup {"StringValue"}, filterText |-> Opt(String),
              range |-> Opt({"Range"}), command |-> Opt({"Command"})])
InlineCompletionList == Untested([items |-> ArrayOf("InlineCompletionItem")])
SelectedCompletionInfo == Untested([range |-> {"Range"}, text |-> String])
InlineCompletionContext ==
    Untested([triggerKind |-> {"enum"}, selectedCompletionInfo |-> Opt({"SelectedCompletionInfo"})])

(* Symbols, highlights and hierarchies.  DocumentSymbol.is takes any       *)
(* number for a kind and any array for children and tags.                  *)
DocumentHighlight == Untested([range |-> {"Range"}, kind |-> Opt({"enum"})])
SymbolInformation ==
    Untested([name |-> String, kind |-> {"enum"}, tags |-> Opt({"enum[]"}), containerName |-> Opt(String),
              deprecated |-> Opt(Boolean), location |-> {"Location"}])
WorkspaceSymbol ==
    Untested([name |-> String, kind |-> {"enum"}, tags |-> Opt({"enum[]"}), containerName |-> Opt(String),
              location |-> {"Location", "LocationUriOnly"}, data |-> Opt(LSPAny)])
DocumentSymbol ==
    Unlike([name |-> String, detail |-> Opt(String), kind |-> {"enum"}, tags |-> Opt({"enum[]"}),
            deprecated |-> Opt(Boolean), range |-> {"Range"}, selectionRange |-> {"Range"},
            children |-> Opt(ArrayOf("DocumentSymbol"))],
           [kind |-> Numbers, tags |-> {"absent", "array", "enum[]"},
            children |-> {"absent", "array", "[]", "DocumentSymbol[]"}])
HierarchyItem ==
    [name |-> String, kind |-> {"enum"}, tags |-> Opt({"enum[]"}), detail |-> Opt(String),
     uri |-> String, range |-> {"Range"}, selectionRange |-> {"Range"}, data |-> Opt(LSPAny)]
CallHierarchyItem == Untested(HierarchyItem)
TypeHierarchyItem == Untested(HierarchyItem)
CallHierarchyIncomingCall == Untested([from |-> {"CallHierarchyItem"}, fromRanges |-> ArrayOf("Range")])
CallHierarchyOutgoingCall == Untested([to |-> {"CallHierarchyItem"}, fromRanges |-> ArrayOf("Range")])

(* Code actions, lenses and links.  CodeAction.is wants an edit or a       *)
(* command, which an action that is disabled, or resolved later, lacks.    *)
CodeActionContext ==
    Plain([diagnostics |-> ArrayOf("Diagnostic"), only |-> Opt(ArrayOf("string")), triggerKind |-> Opt({"enum"})])
CodeAction ==
    LET fields == [title |-> String, kind |-> Opt(String), diagnostics |-> Opt(ArrayOf("Diagnostic")),
                   isPreferred |-> Opt(Boolean), disabled |-> Opt({"CodeActionDisabled"}),
                   edit |-> Opt({"WorkspaceEdit", "EmptyWorkspaceEdit"}), command |-> Opt({"Command"}),
                   data |-> Opt(LSPAny),
                   tags |-> Opt(ArrayOf("enum"))]
        asked == [edit |-> Opt({"WorkspaceEdit"})]
                     @@ Asks([f \in {"title", "kind", "diagnostics", "isPreferred", "command", "tags"} |-> fields[f]])
    IN [holds |-> fields,
        is |-> {[edit |-> {"WorkspaceEdit"}] @@ asked, [command |-> {"Command"}] @@ asked}]
CodeLens ==
    Partly([range |-> {"Range"}, command |-> Opt({"Command"}), data |-> Opt(LSPAny)], {"range", "command"})
DocumentLink ==
    Partly([range |-> {"Range"}, target |-> Opt(String), tooltip |-> Opt(String), data |-> Opt(LSPAny)],
           {"range", "target"})
FormattingOptions ==
    Partly([tabSize |-> UInteger, insertSpaces |-> Boolean, trimTrailingWhitespace |-> Opt(Boolean),
            insertFinalNewline |-> Opt(Boolean), trimFinalNewlines |-> Opt(Boolean)],
           {"tabSize", "insertSpaces"})

(* Semantic tokens: the test looks at the first number only.               *)
SemanticTokensLegend == Untested([tokenTypes |-> ArrayOf("string"), tokenModifiers |-> ArrayOf("string")])
SemanticTokens ==
    Unlike([resultId |-> Opt(String), data |-> {"natural[]", "[]"}], [data |-> {"natural[]", "[]", "number, ..."}])
SemanticTokensEdit == Untested([start |-> UInteger, deleteCount |-> UInteger, data |-> Opt({"natural[]", "[]"})])
SemanticTokensDelta == Untested([resultId |-> Opt(String), edits |-> ArrayOf("SemanticTokensEdit")])

(* Inline values and inlay hints.  InlayHint.is mixes && and || without    *)
(* parentheses: a hint with textEdits is not asked about its position,     *)
(* label and kind, one without them about nothing that follows.            *)
InlineValueText == Plain([range |-> {"Range"}, text |-> String])
InlineValueVariableLookup ==
    Plain([range |-> {"Range"}, variableName |-> Opt(String), caseSensitiveLookup |-> Boolean])
InlineValueEvaluatableExpression == Plain([range |-> {"Range"}, expression |-> Opt(String)])
InlineValueContext == Partly([frameId |-> Integer, stoppedLocation |-> {"Range"}], {"stoppedLocation"})
InlayHintLabelPart ==
    Partly([value |-> String, tooltip |-> Documentation, location |-> Opt({"Location"}), command |-> Opt({"Command"})],
           {"tooltip", "location", "command"})
InlayHint ==
    LET fields == [position |-> {"Position"}, label |-> String \cup ArrayOf("InlayHintLabelPart"),
                   kind |-> Opt({"enum"}), textEdits |-> Opt(ArrayOf("TextEdit")), tooltip |-> Documentation,
                   paddingLeft |-> Opt(Boolean), paddingRight |-> Opt(Boolean), data |-> Opt(LSPAny)]
    IN [holds |-> fields,
        is |-> {[textEdits |-> {"absent"}] @@ Asks([f \in {"position", "label", "kind"} |-> fields[f]]),
                [textEdits |-> ArrayOf("TextEdit")]
                    @@ Asks([f \in {"tooltip", "paddingLeft", "paddingRight"} |-> fields[f]])}]

(* Filters of documents (protocol.ts).  A pattern is a string or relative  *)
(* to a folder.  A filter has one field at least, and the tests ask for    *)
(* one of them; NotebookDocumentFilter.is knows patterns that are strings  *)
(* only, so a cell filter whose notebook is given by a relative pattern    *)
(* and nothing else is none for it.                                        *)
GlobPattern == Words \cup {"RelativePattern"}
RelativePattern == Plain([baseUri |-> String \cup {"WorkspaceFolder"}, pattern |-> String])
OneOf(test) == {[n \in {f} |-> test[f]] : f \in DOMAIN test}
Filter(fields, required, patterns) ==
    [holds |-> [f \in fields \cup {"scheme", "pattern"} |->
                   LET kinds == IF f = "pattern" THEN {"string", "RelativePattern"} ELSE String
                   IN IF f = required THEN kinds ELSE Opt(kinds)],
     is |-> OneOf([f \in fields \cup {"scheme", "pattern"} |->
                      IF f = "pattern" THEN patterns ELSE Words])]
TextDocumentFilterLanguage == Filter({"language"}, "language", GlobPattern)
TextDocumentFilterScheme == Filter({"language"}, "scheme", GlobPattern)
TextDocumentFilterPattern == Filter({"language"}, "pattern", GlobPattern)
NotebookDocumentFilterNotebookType == Filter({"notebookType"}, "notebookType", Words)
NotebookDocumentFilterScheme == Filter({"notebookType"}, "scheme", Words)
NotebookDocumentFilterPattern ==
    [holds |-> [notebookType |-> Opt(String), scheme |-> Opt(String), pattern |-> String],
     is |-> NotebookDocumentFilterScheme.is]
NotebookFilterByRelativePattern ==
    [holds |-> [pattern |-> {"RelativePattern"}], is |-> NotebookDocumentFilterScheme.is]
NotebookFilters ==
    {"NotebookDocumentFilterNotebookType", "NotebookDocumentFilterScheme", "NotebookDocumentFilterPattern"}
NotebookCellTextDocumentFilter ==
    Plain([notebook |-> String \cup NotebookFilters, language |-> Opt(String)])
CellsByRelativePattern ==
    Unlike([notebook |-> {"NotebookFilterByRelativePattern"}, language |-> Opt(String)],
           [notebook |-> Words \cup NotebookFilters])

(* The results of a rename about to begin: a range, a range with a text to *)
(* begin with, or the word that the editor may look for itself.            *)
RangeAndPlaceholder == Untested([range |-> {"Range"}, placeholder |-> String])
DefaultBehavior == Plain([defaultBehavior |-> Boolean])

(* The options of a file operation or of what makes it.                    *)
CreateFileOptions == Untested([overwrite |-> Opt(Boolean), ignoreIfExists |-> Opt(Boolean)])
RenameFileOptions == CreateFileOptions
DeleteFileOptions == Untested([recursive |-> Opt(Boolean), ignoreIfNotExists |-> Opt(Boolean)])

-----------------------------------------------------------------------------
(* The kinds a value of type t may have in field f, and whether a test may *)
(* say yes, or no, to a value of the type.                                 *)
Held(t, f) == IF f \in DOMAIN t.holds THEN t.holds[f] ELSE {"absent"}
MayAccept(test, t) ==
    \E asked \in test.is : \A f \in DOMAIN asked : Held(t, f) \cap asked[f] # {}
MayReject(test, t) ==
    LET open == {f \in UNION {DOMAIN asked : asked \in test.is} :
                    \E asked \in test.is : f \in DOMAIN asked /\ ~(Held(t, f) \subseteq asked[f])}
    IN \E value \in [open -> UNION {Held(t, f) : f \in open}] :
          /\ \A f \in open : value[f] \in Held(t, f)
          /\ \A asked \in test.is : \E f \in DOMAIN asked \cap open : value[f] \notin asked[f]

(* Every type by its name.                                                 *)
Catalog ==
    [Position |-> Position, Range |-> Range, Location |-> Location, LocationLink |-> LocationLink,
     LocationUriOnly |-> LocationUriOnly, Color |-> Color, ColorInformation |-> ColorInformation,
     ColorPresentation |-> ColorPresentation, FoldingRange |-> FoldingRange,
     SelectionRange |-> SelectionRange,
     DiagnosticRelatedInformation |-> DiagnosticRelatedInformation,
     CodeDescription |-> CodeDescription, Diagnostic |-> Diagnostic, Command |-> Command,
     TextEdit |-> TextEdit, ChangeAnnotation |-> ChangeAnnotation,
     AnnotatedTextEdit |-> AnnotatedTextEdit, StringValue |-> StringValue,
     SnippetTextEdit |-> SnippetTextEdit, InsertReplaceEdit |-> InsertReplaceEdit,
     EditRangeWithInsertReplace |-> EditRangeWithInsertReplace,
     TextDocumentEdit |-> TextDocumentEdit, CreateFile |-> CreateFile, RenameFile |-> RenameFile,
     DeleteFile |-> DeleteFile, WorkspaceEdit |-> WorkspaceEdit,
     TextDocumentIdentifier |-> TextDocumentIdentifier,
     VersionedTextDocumentIdentifier |-> VersionedTextDocumentIdentifier,
     OptionalVersionedTextDocumentIdentifier |-> OptionalVersionedTextDocumentIdentifier,
     TextDocumentItem |-> TextDocumentItem, WorkspaceFolder |-> WorkspaceFolder,
     MarkupContent |-> MarkupContent, MarkedStringWithLanguage |-> MarkedStringWithLanguage,
     Hover |-> Hover, ParameterInformation |-> ParameterInformation,
     SignatureInformation |-> SignatureInformation, SignatureHelp |-> SignatureHelp,
     CompletionItemLabelDetails |-> CompletionItemLabelDetails, CompletionItem |-> CompletionItem,
     CompletionItemDefaults |-> CompletionItemDefaults,
     CompletionItemApplyKinds |-> CompletionItemApplyKinds, CompletionList |-> CompletionList,
     InlineCompletionItem |-> InlineCompletionItem, InlineCompletionList |-> InlineCompletionList,
     SelectedCompletionInfo |-> SelectedCompletionInfo,
     InlineCompletionContext |-> InlineCompletionContext, DocumentHighlight |-> DocumentHighlight,
     SymbolInformation |-> SymbolInformation, WorkspaceSymbol |-> WorkspaceSymbol,
     DocumentSymbol |-> DocumentSymbol, CallHierarchyItem |-> CallHierarchyItem,
     TypeHierarchyItem |-> TypeHierarchyItem,
     CallHierarchyIncomingCall |-> CallHierarchyIncomingCall,
     CallHierarchyOutgoingCall |-> CallHierarchyOutgoingCall,
     CodeActionContext |-> CodeActionContext, CodeAction |-> CodeAction, CodeLens |-> CodeLens,
     DocumentLink |-> DocumentLink, FormattingOptions |-> FormattingOptions,
     SemanticTokensLegend |-> SemanticTokensLegend, SemanticTokens |-> SemanticTokens,
     SemanticTokensEdit |-> SemanticTokensEdit, SemanticTokensDelta |-> SemanticTokensDelta,
     InlineValueText |-> InlineValueText, InlineValueVariableLookup |-> InlineValueVariableLookup,
     InlineValueEvaluatableExpression |-> InlineValueEvaluatableExpression,
     InlineValueContext |-> InlineValueContext, InlayHintLabelPart |-> InlayHintLabelPart,
     InlayHint |-> InlayHint, RelativePattern |-> RelativePattern,
     TextDocumentFilterLanguage |-> TextDocumentFilterLanguage,
     TextDocumentFilterScheme |-> TextDocumentFilterScheme,
     TextDocumentFilterPattern |-> TextDocumentFilterPattern,
     NotebookDocumentFilterNotebookType |-> NotebookDocumentFilterNotebookType,
     NotebookDocumentFilterScheme |-> NotebookDocumentFilterScheme,
     NotebookDocumentFilterPattern |-> NotebookDocumentFilterPattern,
     NotebookFilterByRelativePattern |-> NotebookFilterByRelativePattern,
     NotebookCellTextDocumentFilter |-> NotebookCellTextDocumentFilter,
     CellsByRelativePattern |-> CellsByRelativePattern,
     RangeAndPlaceholder |-> RangeAndPlaceholder, DefaultBehavior |-> DefaultBehavior,
     CreateFileOptions |-> CreateFileOptions, DeleteFileOptions |-> DeleteFileOptions,
     RenameFileOptions |-> RenameFileOptions]
=============================================================================

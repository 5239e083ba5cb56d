--------------------------- MODULE FeatureCatalog ---------------------------
(***************************************************************************)
(* What the three layers of the repository say about each language         *)
(* feature, one record per feature and layer:                              *)
(*                                                                         *)
(*   client     how a feature of the client registers its provider, which  *)
(*              requests the provider sends under which option, and        *)
(*              whether a refresh request of the server reaches it         *)
(*              (client/src/common/<feature>.ts);                          *)
(*   protocol   the method it is registered under, whether its static      *)
(*              capability may carry an id, its options, and the requests   *)
(*              each option permits (protocol.ts, protocol.<feature>.ts);  *)
(*   server     the requests the server's API has handlers for             *)
(*              (server.ts, server/src/common/<feature>.ts).               *)
(*                                                                         *)
(* The three are translated independently from their own files, so that a  *)
(* check of one against the other says something about the code.           *)
(***************************************************************************)
EXTENDS FiniteSets, Sequences

Editor == "editor"
Always == "always"

\* A request: its method, what it continues (Editor, or the method that
\* produced the item it is about), and the option it depends on.
Ask(m)             == [method |-> m, on |-> Editor, if |-> Always]
AskIf(m, flag)     == [method |-> m, on |-> Editor, if |-> flag]
Follow(m, of)      == [method |-> m, on |-> of, if |-> Always]
FollowIf(m, of, flag) == [method |-> m, on |-> of, if |-> flag]

\* The client's record.  how: "options" registers the static capability
\* through getRegistrationOptions, "registration" through getRegistration,
\* the others are registered by the feature's own initialize.
Client(how, asks, refreshed) ==
    [how |-> how, asks |-> asks, refreshed |-> refreshed]

\* The protocol's record.
Protocol(method, static, options, asks) ==
    [method |-> method, static |-> static, options |-> options, asks |-> asks]

-----------------------------------------------------------------------------
(* The client's features.                                                  *)

CompletionItemFeature ==
    Client("options", {Ask("textDocument/completion"),
        FollowIf("completionItem/resolve", "textDocument/completion", "resolve")}, FALSE)
HoverFeature == Client("options", {Ask("textDocument/hover")}, FALSE)
SignatureHelpFeature == Client("options", {Ask("textDocument/signatureHelp")}, FALSE)
DeclarationFeature == Client("registration", {Ask("textDocument/declaration")}, FALSE)
DefinitionFeature == Client("options", {Ask("textDocument/definition")}, FALSE)
TypeDefinitionFeature == Client("registration", {Ask("textDocument/typeDefinition")}, FALSE)
ImplementationFeature == Client("registration", {Ask("textDocument/implementation")}, FALSE)
ReferencesFeature == Client("options", {Ask("textDocument/references")}, FALSE)
DocumentHighlightFeature == Client("options", {Ask("textDocument/documentHighlight")}, FALSE)
DocumentSymbolFeature == Client("options", {Ask("textDocument/documentSymbol")}, FALSE)
CodeActionFeature ==
    Client("options", {Ask("textDocument/codeAction"),
        FollowIf("codeAction/resolve", "textDocument/codeAction", "resolve")}, FALSE)
CodeLensFeature ==
    Client("options", {Ask("textDocument/codeLens"),
        FollowIf("codeLens/resolve", "textDocument/codeLens", "resolve")}, TRUE)
DocumentLinkFeature ==
    Client("options", {Ask("textDocument/documentLink"),
        FollowIf("documentLink/resolve", "textDocument/documentLink", "resolve")}, FALSE)
ColorProviderFeature ==
    Client("registration", {Ask("textDocument/documentColor"),
        Follow("textDocument/colorPresentation", "textDocument/documentColor")}, FALSE)
DocumentFormattingFeature == Client("options", {Ask("textDocument/formatting")}, FALSE)
DocumentRangeFormattingFeature ==
    Client("options", {Ask("textDocument/rangeFormatting"),
        AskIf("textDocument/rangesFormatting", "ranges")}, FALSE)
DocumentOnTypeFormattingFeature ==
    Client("options", {Ask("textDocument/onTypeFormatting")}, FALSE)
RenameFeature ==
    Client("options", {Ask("textDocument/rename"),
        AskIf("textDocument/prepareRename", "prepare")}, FALSE)
FoldingRangeFeature == Client("registration", {Ask("textDocument/foldingRange")}, TRUE)
SelectionRangeFeature == Client("registration", {Ask("textDocument/selectionRange")}, FALSE)
LinkedEditingFeature == Client("registration", {Ask("textDocument/linkedEditingRange")}, FALSE)
CallHierarchyFeature ==
    Client("registration", {Ask("textDocument/prepareCallHierarchy"),
        Follow("callHierarchy/incomingCalls", "textDocument/prepareCallHierarchy"),
        Follow("callHierarchy/outgoingCalls", "textDocument/prepareCallHierarchy")}, FALSE)
TypeHierarchyFeature ==
    Client("registration", {Ask("textDocument/prepareTypeHierarchy"),
        Follow("typeHierarchy/supertypes", "textDocument/prepareTypeHierarchy"),
        Follow("typeHierarchy/subtypes", "textDocument/prepareTypeHierarchy")}, FALSE)
\* The delta request is made only by a provider of full tokens, and only when
\* "full" is an object with delta set; a "range" that is an object instead of
\* true makes no provider.
SemanticTokensFeature ==
    Client("registration", {AskIf("textDocument/semanticTokens/full", "full"),
        FollowIf("textDocument/semanticTokens/full/delta",
                 "textDocument/semanticTokens/full", "delta"),
        AskIf("textDocument/semanticTokens/range", "range")}, TRUE)
InlineValueFeature == Client("registration", {Ask("textDocument/inlineValue")}, TRUE)
InlayHintsFeature ==
    Client("registration", {Ask("textDocument/inlayHint"),
        FollowIf("inlayHint/resolve", "textDocument/inlayHint", "resolve")}, TRUE)
InlineCompletionItemFeature ==
    Client("options", {Ask("textDocument/inlineCompletion")}, FALSE)
WorkspaceSymbolFeature ==
    Client("workspace", {Ask("workspace/symbol"),
        FollowIf("workspaceSymbol/resolve", "workspace/symbol", "resolve")}, FALSE)
ExecuteCommandFeature == Client("command", {Ask("workspace/executeCommand")}, FALSE)
TextDocumentContentFeature ==
    Client("content", {Ask("workspace/textDocumentContent")}, TRUE)

-----------------------------------------------------------------------------
(* The protocol's records: the registration method, whether the static     *)
(* capability may be given as registration options with an id, the legal   *)
(* sets of options, and the requests.                                      *)

Resolvable == SUBSET {"resolve"}
Plain == {{}}

Completion ==
    Protocol("textDocument/completion", FALSE, Resolvable,
        {Ask("textDocument/completion"),
         FollowIf("completionItem/resolve", "textDocument/completion", "resolve")})
Hover == Protocol("textDocument/hover", FALSE, Plain, {Ask("textDocument/hover")})
SignatureHelp ==
    Protocol("textDocument/signatureHelp", FALSE, Plain, {Ask("textDocument/signatureHelp")})
Declaration ==
    Protocol("textDocument/declaration", TRUE, Plain, {Ask("textDocument/declaration")})
Definition ==
    Protocol("textDocument/definition", FALSE, Plain, {Ask("textDocument/definition")})
TypeDefinition ==
    Protocol("textDocument/typeDefinition", TRUE, Plain, {Ask("textDocument/typeDefinition")})
Implementation ==
    Protocol("textDocument/implementation", TRUE, Plain, {Ask("textDocument/implementation")})
References ==
    Protocol("textDocument/references", FALSE, Plain, {Ask("textDocument/references")})
DocumentHighlight ==
    Protocol("textDocument/documentHighlight", FALSE, Plain,
        {Ask("textDocument/documentHighlight")})
DocumentSymbol ==
    Protocol("textDocument/documentSymbol", FALSE, Plain, {Ask("textDocument/documentSymbol")})
CodeAction ==
    Protocol("textDocument/codeAction", FALSE, Resolvable,
        {Ask("textDocument/codeAction"),
         FollowIf("codeAction/resolve", "textDocument/codeAction", "resolve")})
CodeLens ==
    Protocol("textDocument/codeLens", FALSE, Resolvable,
        {Ask("textDocument/codeLens"),
         FollowIf("codeLens/resolve", "textDocument/codeLens", "resolve")})
DocumentLink ==
    Protocol("textDocument/documentLink", FALSE, Resolvable,
        {Ask("textDocument/documentLink"),
         FollowIf("documentLink/resolve", "textDocument/documentLink", "resolve")})
DocumentColor ==
    Protocol("textDocument/documentColor", TRUE, Plain,
        {Ask("textDocument/documentColor"),
         Follow("textDocument/colorPresentation", "textDocument/documentColor")})
DocumentFormatting ==
    Protocol("textDocument/formatting", FALSE, Plain, {Ask("textDocument/formatting")})
DocumentRangeFormatting ==
    Protocol("textDocument/rangeFormatting", FALSE, SUBSET {"ranges"},
        {Ask("textDocument/rangeFormatting"), AskIf("textDocument/rangesFormatting", "ranges")})
DocumentOnTypeFormatting ==
    Protocol("textDocument/onTypeFormatting", FALSE, Plain,
        {Ask("textDocument/onTypeFormatting")})
Rename ==
    Protocol("textDocument/rename", FALSE, SUBSET {"prepare"},
        {Ask("textDocument/rename"), AskIf("textDocument/prepareRename", "prepare")})
FoldingRange ==
    Protocol("textDocument/foldingRange", TRUE, Plain, {Ask("textDocument/foldingRange")})
SelectionRange ==
    Protocol("textDocument/selectionRange", TRUE, Plain, {Ask("textDocument/selectionRange")})
LinkedEditingRange ==
    Protocol("textDocument/linkedEditingRange", TRUE, Plain,
        {Ask("textDocument/linkedEditingRange")})
CallHierarchy ==
    Protocol("textDocument/prepareCallHierarchy", TRUE, Plain,
        {Ask("textDocument/prepareCallHierarchy"),
         Follow("callHierarchy/incomingCalls", "textDocument/prepareCallHierarchy"),
         Follow("callHierarchy/outgoingCalls", "textDocument/prepareCallHierarchy")})
TypeHierarchy ==
    Protocol("textDocument/prepareTypeHierarchy", TRUE, Plain,
        {Ask("textDocument/prepareTypeHierarchy"),
         Follow("typeHierarchy/supertypes", "textDocument/prepareTypeHierarchy"),
         Follow("typeHierarchy/subtypes", "textDocument/prepareTypeHierarchy")})
\* delta is a member of the object "full" may be.
SemanticTokens ==
    Protocol("textDocument/semanticTokens", TRUE,
        {o \in SUBSET {"full", "delta", "range"} : "delta" \in o => "full" \in o},
        {AskIf("textDocument/semanticTokens/full", "full"),
         FollowIf("textDocument/semanticTokens/full/delta",
                  "textDocument/semanticTokens/full", "delta"),
         AskIf("textDocument/semanticTokens/range", "range")})
InlineValue ==
    Protocol("textDocument/inlineValue", TRUE, Plain, {Ask("textDocument/inlineValue")})
InlayHint ==
    Protocol("textDocument/inlayHint", TRUE, Resolvable,
        {Ask("textDocument/inlayHint"),
         FollowIf("inlayHint/resolve", "textDocument/inlayHint", "resolve")})
InlineCompletion ==
    Protocol("textDocument/inlineCompletion", FALSE, Plain,
        {Ask("textDocument/inlineCompletion")})
WorkspaceSymbol ==
    Protocol("workspace/symbol", FALSE, Resolvable,
        {Ask("workspace/symbol"),
         FollowIf("workspaceSymbol/resolve", "workspace/symbol", "resolve")})
\* The options of executeCommand are the commands it contributes.
ExecuteCommand ==
    Protocol("workspace/executeCommand", FALSE, SUBSET {"c1", "c2"},
        {Ask("workspace/executeCommand")})
TextDocumentContent ==
    Protocol("workspace/textDocumentContent", TRUE, Plain,
        {Ask("workspace/textDocumentContent")})
\* The protocol and the server's API have it, the client has no feature for it.
Moniker == Protocol("textDocument/moniker", TRUE, Plain, {Ask("textDocument/moniker")})

-----------------------------------------------------------------------------
(* The requests the server's API answers, and the refreshes it can send.   *)

\* The on... functions of the connection itself.
ConnectionHandlers ==
    {"textDocument/hover", "textDocument/completion", "completionItem/resolve",
     "textDocument/signatureHelp", "textDocument/declaration", "textDocument/definition",
     "textDocument/typeDefinition", "textDocument/implementation", "textDocument/references",
     "textDocument/documentHighlight", "textDocument/documentSymbol", "workspace/symbol",
     "workspaceSymbol/resolve", "textDocument/codeAction", "codeAction/resolve",
     "textDocument/codeLens", "codeLens/resolve", "textDocument/formatting",
     "textDocument/rangeFormatting", "textDocument/onTypeFormatting", "textDocument/rename",
     "textDocument/prepareRename", "textDocument/documentLink", "documentLink/resolve",
     "textDocument/documentColor", "textDocument/colorPresentation",
     "textDocument/foldingRange", "textDocument/selectionRange", "workspace/executeCommand"}

\* The handlers under connection.languages and connection.workspace.
CallHierarchyHandlers ==
    {"textDocument/prepareCallHierarchy", "callHierarchy/incomingCalls",
     "callHierarchy/outgoingCalls"}
TypeHierarchyHandlers ==
    {"textDocument/prepareTypeHierarchy", "typeHierarchy/supertypes", "typeHierarchy/subtypes"}
SemanticTokensHandlers ==
    {"textDocument/semanticTokens/full", "textDocument/semanticTokens/full/delta",
     "textDocument/semanticTokens/range"}
LinkedEditingRangeHandlers == {"textDocument/linkedEditingRange"}
FoldingRangeHandlers == {"textDocument/foldingRange"}
InlineValueHandlers == {"textDocument/inlineValue"}
InlayHintHandlers == {"textDocument/inlayHint", "inlayHint/resolve"}
InlineCompletionHandlers == {"textDocument/inlineCompletion"}
MonikerHandlers == {"textDocument/moniker"}
TextDocumentContentHandlers == {"workspace/textDocumentContent"}

\* textDocument/rangesFormatting has no on... function: a server answers it
\* through the connection's general onRequest(type, handler).
ThroughOnRequest == {"textDocument/rangesFormatting"}

Handled ==
    UNION {ConnectionHandlers, CallHierarchyHandlers, TypeHierarchyHandlers,
           SemanticTokensHandlers, LinkedEditingRangeHandlers, FoldingRangeHandlers,
           InlineValueHandlers, InlayHintHandlers, InlineCompletionHandlers,
           MonikerHandlers, TextDocumentContentHandlers, ThroughOnRequest}

-----------------------------------------------------------------------------
(* The features by name.                                                   *)

Catalog ==
    [completion |-> [client |-> CompletionItemFeature, protocol |-> Completion],
     hover |-> [client |-> HoverFeature, protocol |-> Hover],
     signatureHelp |-> [client |-> SignatureHelpFeature, protocol |-> SignatureHelp],
     declaration |-> [client |-> DeclarationFeature, protocol |-> Declaration],
     definition |-> [client |-> DefinitionFeature, protocol |-> Definition],
     typeDefinition |-> [client |-> TypeDefinitionFeature, protocol |-> TypeDefinition],
     implementation |-> [client |-> ImplementationFeature, protocol |-> Implementation],
     references |-> [client |-> ReferencesFeature, protocol |-> References],
     documentHighlight |->
        [client |-> DocumentHighlightFeature, protocol |-> DocumentHighlight],
     documentSymbol |-> [client |-> DocumentSymbolFeature, protocol |-> DocumentSymbol],
     codeAction |-> [client |-> CodeActionFeature, protocol |-> CodeAction],
     codeLens |-> [client |-> CodeLensFeature, protocol |-> CodeLens],
     documentLink |-> [client |-> DocumentLinkFeature, protocol |-> DocumentLink],
     documentColor |-> [client |-> ColorProviderFeature, protocol |-> DocumentColor],
     formatting |-> [client |-> DocumentFormattingFeature, protocol |-> DocumentFormatting],
     rangeFormatting |->
        [client |-> DocumentRangeFormattingFeature, protocol |-> DocumentRangeFormatting],
     onTypeFormatting |->
        [client |-> DocumentOnTypeFormattingFeature, protocol |-> DocumentOnTypeFormatting],
     rename |-> [client |-> RenameFeature, protocol |-> Rename],
     foldingRange |-> [client |-> FoldingRangeFeature, protocol |-> FoldingRange],
     selectionRange |-> [client |-> SelectionRangeFeature, protocol |-> SelectionRange],
     linkedEditingRange |-> [client |-> LinkedEditingFeature, protocol |-> LinkedEditingRange],
     callHierarchy |-> [client |-> CallHierarchyFeature, protocol |-> CallHierarchy],
     typeHierarchy |-> [client |-> TypeHierarchyFeature, protocol |-> TypeHierarchy],
     semanticTokens |-> [client |-> SemanticTokensFeature, protocol |-> SemanticTokens],
     inlineValue |-> [client |-> InlineValueFeature, protocol |-> InlineValue],
     inlayHint |-> [client |-> InlayHintsFeature, protocol |-> InlayHint],
     inlineCompletion |->
        [client |-> InlineCompletionItemFeature, protocol |-> InlineCompletion],
     workspaceSymbol |-> [client |-> WorkspaceSymbolFeature, protocol |-> WorkspaceSymbol],
     executeCommand |-> [client |-> ExecuteCommandFeature, protocol |-> ExecuteCommand],
     textDocumentContent |->
        [client |-> TextDocumentContentFeature, protocol |-> TextDocumentContent]]

\* The requests a record's provider may make of a registration with options o.
Requests(record, o) == {a \in record.asks : a.if = Always \/ a.if \in o}
=============================================================================

----------------------- MODULE LanguageFeaturesProofs -----------------------
(***************************************************************************)
(* The registrations of a language feature are those both ends hold, and   *)
(* what it shows is fresh at rest, for every feature of the catalog, any   *)
(* number of registrations, starts, calls and refreshes.                   *)
(*   The catalog is gone through once (CatalogAgrees).  The rest is about   *)
(* one registration: its id is used once and is in one stage of its life   *)
(* (Life), and at each stage something stands for it on the other side     *)
(* (Handles).  Calls belong to an entry that makes them, and an answer is   *)
(* current or has a refresh behind it (CallsFit).                          *)
(***************************************************************************)
EXTENDS LanguageFeatures, SequenceLemmas, TLAPS

-----------------------------------------------------------------------------
(* The invariant.                                                           *)

\* The messages of a behaviour of feature f.
Own(f) ==
    [id : DynamicIds, method : {Catalog[f].protocol.method},
     options : Catalog[f].protocol.options, own : BOOLEAN]
Foreign == [id : {"other"}, method : {Moniker.method}, options : {{}}, own : BOOLEAN]
Alone(f) == {<<mine>> : mine \in Own(f)}
Paired(f) ==
    {<<mine, other>> : mine \in Own(f), other \in Foreign} \cup
    {<<other, mine>> : mine \in Own(f), other \in Foreign}

Register(f) ==
    [kind : {"register"}, list : Alone(f), via : {"one", "bulk"}] \cup
    [kind : {"register"}, list : Paired(f), via : {"many"}]
Unregister ==
    [kind : {"unregister"}, id : DynamicIds \cup {"static"}, via : {"handle", "all", "one"}]
Answer(f) ==
    [kind : {"answer"}, ask : Catalog[f].client.asks, id : Ids,
     code : {"ok", "ServerCancelled", "ContentModified", "InternalError"}, data : 0..MaxData]
Call(f) ==
    {m \in [kind : {"ask"}, ask : Catalog[f].client.asks, id : Ids,
            options : Catalog[f].protocol.options] :
        m.ask \in Requests(Catalog[f].client, m.options)}
Replies(f) == [kind : {"reply"}, ok : BOOLEAN, to : Register(f) \cup Unregister]
Refresh == [kind |-> "refresh"]

ToClient(f) == Register(f) \cup Unregister \cup Answer(f) \cup {Refresh, Cancelled}
ToServer(f) == Replies(f) \cup Call(f) \cup {Cancelled}
Messages == UNION {ToClient(f) \cup ToServer(f) : f \in DOMAIN Catalog}

\* The messages about a registration: its request and the answer to that, the
\* request to take it back and the answer, the calls of its provider.
Names(m, d) == m.kind = "register" /\ \E k \in DOMAIN m.list : m.list[k].id = d
Registers(d) == {m \in Messages : Names(m, d)}
Confirms(d) == {m \in Messages : m.kind = "reply" /\ Names(m.to, d)}
Accepts(d) == {m \in Confirms(d) : m.ok}
Unregisters(d) == {m \in Messages : m.kind = "unregister" /\ m.id = d}
Removes(d) == {m \in Messages : m.kind = "reply" /\ m.to.kind = "unregister" /\ m.to.id = d}
Calls(d) == {m \in Messages : m.kind \in {"ask", "answer"} /\ m.id = d}
EditorCalls(d) == {m \in Messages : EditorAsks(m, d)}

Has(wire, set) == \E i \in DOMAIN wire : wire[i] \in set
Once(wire, set) == \A i, j \in DOMAIN wire : wire[i] \in set /\ wire[j] \in set => i = j

Held(d) == d \in single \/ d = bulk
Uncalled(d) ==
    ~Has(toServer, Calls(d)) /\ ~Has(toClient, Calls(d)) /\ shown[d] = Nothing

\* A dynamic id is for one registration: it is asked for, the answer comes, the
\* server holds a handle, and it is taken back.
Life(d) ==
    /\ Once(toClient, Registers(d)) /\ Once(toServer, Confirms(d))
    /\ d \notin used => ~Has(toClient, Registers(d))
    /\ d \notin used \/ Has(toClient, Registers(d)) =>
          /\ ~Has(toServer, Confirms(d)) /\ ~Has(toClient, Unregisters(d))
          /\ ~Has(toServer, Removes(d)) /\ ~Held(d) /\ d \notin Registered /\ Uncalled(d)
    /\ Has(toServer, Confirms(d)) =>
          ~Has(toClient, Unregisters(d)) /\ ~Has(toServer, Removes(d)) /\ ~Held(d)
    /\ d \in single => d # bulk /\ ~Has(toClient, Unregisters(d))
    /\ Has(toServer, Removes(d)) => d \notin Registered

\* Where the handle of a registration is, and what a handle stands for.
Handles(d) ==
    /\ d \in Registered =>
          Held(d) \/ d \in lost \/ Has(toServer, Confirms(d)) \/ Has(toClient, Unregisters(d))
    /\ phase = "running" /\ (d \in single \/ Has(toServer, Accepts(d)))
          => d \in Registered \cup silent

FeatureTypeOK ==
    /\ feature \in Features /\ selector \in BOOLEAN /\ others \subseteq Commands
    /\ phase \in {"stopped", "running", "stopping"} /\ starts \in 0..MaxStarts
    /\ \A e \in table : e.id \in Ids /\ e.options \in This.protocol.options
    /\ \A e \in table : e = Entry(e.id, e.options)
    /\ IsFiniteSet(table)
    /\ stray \subseteq Commands /\ ignored \subseteq (Ids \cup {"other"})
    /\ shown \in [Ids -> [is : {"nothing", "value", "failed"}, data : 0..MaxData,
                          of : {Editor} \cup {a.method : a \in This.protocol.asks}]]
    /\ toClient \in Seq(ToClient(feature)) /\ toServer \in Seq(ToServer(feature))
    /\ used \subseteq DynamicIds /\ single \subseteq used /\ bulk \in used \cup {None}
    /\ silent \subseteq Ids /\ lost \subseteq DynamicIds
    /\ given \in BOOLEAN /\ data \in 0..MaxData

\* What a stop and the end of a session leave.
SessionFits ==
    /\ phase = "stopped" => toClient = <<>> /\ toServer = <<>> /\ used = {} /\ data = 0
                            /\ bulk = None /\ lost = {} /\ silent = {} /\ ~given
    /\ phase # "running" => table = {} /\ shown = [i \in Ids |-> Nothing]
    /\ phase # "stopping" => ignored = {}
    /\ This.client.how # "command" => stray = {}
    /\ given => "auto" \notin Registered

\* Who is called, or shows something, can be asked by the editor; and an answer
\* to the editor is current, or a refresh comes behind it.
Asking(id) == \E e \in CanAsk : e.id = id
Fresh(wire, now) ==
    \A i \in DOMAIN wire :
        wire[i].kind = "answer" /\ wire[i].ask.on = Editor =>
            wire[i].data = now \/ \E k \in DOMAIN wire : k > i /\ wire[k] = Refresh
CallsFit ==
    /\ \A id \in Registered :
          Has(toServer, Calls(id)) \/ Has(toClient, Calls(id)) \/ shown[id].is # "nothing"
              => Asking(id)
    /\ Fresh(toClient, data)

ShownFits ==
    \A id \in Registered :
        /\ This.client.refreshed /\ shown[id].is = "value"
        /\ ~Has(toServer, EditorCalls(id)) /\ ~Has(toClient, EditorCalls(id))
        /\ ~Has(toClient, {Refresh})
        => shown[id].data = data

FeatureInv ==
    /\ FeatureTypeOK /\ SessionFits /\ CallsFit /\ ShownFits
    /\ \A d \in DynamicIds : Life(d) /\ Handles(d)

-----------------------------------------------------------------------------
(* The catalog.                                                             *)

\* What the layers say of a feature agrees: the client asks what the protocol
\* has, the server's API handles it, no feature registered with its options
\* alone has an id, and none is that of monikers.
Agree(asker, protocol) ==
    /\ asker.asks \subseteq protocol.asks
    /\ \A a \in asker.asks : a.method \in Handled
    /\ asker.how \in {"options", "registration", "workspace", "command", "content"}
    /\ asker.how \in {"options", "workspace", "command"} => ~protocol.static
    /\ protocol.method # Moniker.method

\* Every feature of the catalog agrees with its protocol: one case per feature.
LEMMA CatalogAgrees == \A f \in DOMAIN Catalog : Agree(Catalog[f].client, Catalog[f].protocol)
<1> USE DEF Agree, Client, Protocol, Moniker, Ask, AskIf, Follow, FollowIf
<1>1. Agree(Catalog.completion.client, Catalog.completion.protocol)
  BY DEF Catalog, CompletionItemFeature, Completion, Handled, ConnectionHandlers
<1>2. Agree(Catalog.hover.client, Catalog.hover.protocol)
  BY DEF Catalog, HoverFeature, Hover, Handled, ConnectionHandlers
<1>3. Agree(Catalog.signatureHelp.client, Catalog.signatureHelp.protocol)
  BY DEF Catalog, SignatureHelpFeature, SignatureHelp, Handled, ConnectionHandlers
<1>4. Agree(Catalog.declaration.client, Catalog.declaration.protocol)
  BY DEF Catalog, DeclarationFeature, Declaration, Handled, ConnectionHandlers
<1>5. Agree(Catalog.definition.client, Catalog.definition.protocol)
  BY DEF Catalog, DefinitionFeature, Definition, Handled, ConnectionHandlers
<1>6. Agree(Catalog.typeDefinition.client, Catalog.typeDefinition.protocol)
  BY DEF Catalog, TypeDefinitionFeature, TypeDefinition, Handled, ConnectionHandlers
<1>7. Agree(Catalog.implementation.client, Catalog.implementation.protocol)
  BY DEF Catalog, ImplementationFeature, Implementation, Handled, ConnectionHandlers
<1>8. Agree(Catalog.references.client, Catalog.references.protocol)
  BY DEF Catalog, ReferencesFeature, References, Handled, ConnectionHandlers
<1>9. Agree(Catalog.documentHighlight.client, Catalog.documentHighlight.protocol)
  BY DEF Catalog, DocumentHighlightFeature, DocumentHighlight, Handled, ConnectionHandlers
<1>10. Agree(Catalog.documentSymbol.client, Catalog.documentSymbol.protocol)
  BY DEF Catalog, DocumentSymbolFeature, DocumentSymbol, Handled, ConnectionHandlers
<1>11. Agree(Catalog.codeAction.client, Catalog.codeAction.protocol)
  BY DEF Catalog, CodeActionFeature, CodeAction, Handled, ConnectionHandlers
<1>12. Agree(Catalog.codeLens.client, Catalog.codeLens.protocol)
  BY DEF Catalog, CodeLensFeature, CodeLens, Handled, ConnectionHandlers
<1>13. Agree(Catalog.documentLink.client, Catalog.documentLink.protocol)
  BY DEF Catalog, DocumentLinkFeature, DocumentLink, Handled, ConnectionHandlers
<1>14. Agree(Catalog.documentColor.client, Catalog.documentColor.protocol)
  BY DEF Catalog, ColorProviderFeature, DocumentColor, Handled, ConnectionHandlers
<1>15. Agree(Catalog.formatting.client, Catalog.formatting.protocol)
  BY DEF Catalog, DocumentFormattingFeature, DocumentFormatting, Handled,
         ConnectionHandlers
<1>16. Agree(Catalog.rangeFormatting.client, Catalog.rangeFormatting.protocol)
  BY DEF Catalog, DocumentRangeFormattingFeature, DocumentRangeFormatting, Handled,
         ConnectionHandlers, ThroughOnRequest
<1>17. Agree(Catalog.onTypeFormatting.client, Catalog.onTypeFormatting.protocol)
  BY DEF Catalog, DocumentOnTypeFormattingFeature, DocumentOnTypeFormatting, Handled,
         ConnectionHandlers
<1>18. Agree(Catalog.rename.client, Catalog.rename.protocol)
  BY DEF Catalog, RenameFeature, Rename, Handled, ConnectionHandlers
<1>19. Agree(Catalog.foldingRange.client, Catalog.foldingRange.protocol)
  BY DEF Catalog, FoldingRangeFeature, FoldingRange, Handled, ConnectionHandlers
<1>20. Agree(Catalog.selectionRange.client, Catalog.selectionRange.protocol)
  BY DEF Catalog, SelectionRangeFeature, SelectionRange, Handled, ConnectionHandlers
<1>21. Agree(Catalog.linkedEditingRange.client, Catalog.linkedEditingRange.protocol)
  BY DEF Catalog, LinkedEditingFeature, LinkedEditingRange, Handled,
         LinkedEditingRangeHandlers
<1>22. Agree(Catalog.callHierarchy.client, Catalog.callHierarchy.protocol)
  BY DEF Catalog, CallHierarchyFeature, CallHierarchy, Handled, CallHierarchyHandlers
<1>23. Agree(Catalog.typeHierarchy.client, Catalog.typeHierarchy.protocol)
  BY DEF Catalog, TypeHierarchyFeature, TypeHierarchy, Handled, TypeHierarchyHandlers
<1>24. Agree(Catalog.semanticTokens.client, Catalog.semanticTokens.protocol)
  BY DEF Catalog, SemanticTokensFeature, SemanticTokens, Handled, SemanticTokensHandlers
<1>25. Agree(Catalog.inlineValue.client, Catalog.inlineValue.protocol)
  BY DEF Catalog, InlineValueFeature, InlineValue, Handled, InlineValueHandlers
<1>26. Agree(Catalog.inlayHint.client, Catalog.inlayHint.protocol)
  BY DEF Catalog, InlayHintsFeature, InlayHint, Handled, InlayHintHandlers
<1>27. Agree(Catalog.inlineCompletion.client, Catalog.inlineCompletion.protocol)
  BY DEF Catalog, InlineCompletionItemFeature, InlineCompletion, Handled,
         InlineCompletionHandlers
<1>28. Agree(Catalog.workspaceSymbol.client, Catalog.workspaceSymbol.protocol)
  BY DEF Catalog, WorkspaceSymbolFeature, WorkspaceSymbol, Handled, ConnectionHandlers
<1>29. Agree(Catalog.executeCommand.client, Catalog.executeCommand.protocol)
  BY DEF Catalog, ExecuteCommandFeature, ExecuteCommand, Handled, ConnectionHandlers
<1>30. Agree(Catalog.textDocumentContent.client, Catalog.textDocumentContent.protocol)
  BY DEF Catalog, TextDocumentContentFeature, TextDocumentContent, Handled,
         TextDocumentContentHandlers
<1>31. DOMAIN Catalog = {"completion", "hover", "signatureHelp", "declaration",
         "definition", "typeDefinition", "implementation", "references",
         "documentHighlight", "documentSymbol", "codeAction", "codeLens", "documentLink",
         "documentColor", "formatting", "rangeFormatting", "onTypeFormatting", "rename",
         "foldingRange", "selectionRange", "linkedEditingRange", "callHierarchy",
         "typeHierarchy", "semanticTokens", "inlineValue", "inlayHint",
         "inlineCompletion", "workspaceSymbol", "executeCommand", "textDocumentContent"}
  BY DEF Catalog
<1> HIDE DEF Agree
<1> QED
  BY <1>1, <1>2, <1>3, <1>4, <1>5, <1>6, <1>7, <1>8, <1>9, <1>10, <1>11, <1>12, <1>13,
     <1>14, <1>15, <1>16, <1>17, <1>18, <1>19, <1>20, <1>21, <1>22, <1>23, <1>24, <1>25,
     <1>26, <1>27, <1>28, <1>29, <1>30, <1>31

-----------------------------------------------------------------------------
(* Wires.                                                                   *)

\* A message is put at the end of a wire.
LEMMA AppendHas ==
  ASSUME NEW S, NEW q \in Seq(S), NEW m \in S
  PROVE  /\ Append(q, m) \in Seq(S)
         /\ \A P : Has(Append(q, m), P) <=> Has(q, P) \/ m \in P
         /\ \A P : Once(q, P) /\ (m \in P => ~Has(q, P)) => Once(Append(q, m), P)
<1>1. /\ Append(q, m) \in Seq(S) /\ Len(q) \in Nat
      /\ DOMAIN q = 1..Len(q) /\ DOMAIN Append(q, m) = 1..(Len(q) + 1)
      /\ \A i \in 1..Len(q) : Append(q, m)[i] = q[i]
      /\ Append(q, m)[Len(q) + 1] = m
  BY AppendElements
<1>2. ASSUME NEW P PROVE Has(Append(q, m), P) <=> Has(q, P) \/ m \in P
  BY <1>1 DEF Has
<1>3. ASSUME NEW P, Once(q, P), m \in P => ~Has(q, P) PROVE Once(Append(q, m), P)
  BY <1>1, <1>3 DEF Has, Once
<1> QED
  BY <1>1, <1>2, <1>3

\* The first message is taken from a wire.
LEMMA TailHas ==
  ASSUME NEW S, NEW q \in Seq(S), q # <<>>
  PROVE  /\ Tail(q) \in Seq(S) /\ Head(q) \in S
         /\ \A P : Has(q, P) <=> Head(q) \in P \/ Has(Tail(q), P)
         /\ \A P : Once(q, P) => Once(Tail(q), P) /\ (Head(q) \in P => ~Has(Tail(q), P))
<1>1. /\ Tail(q) \in Seq(S) /\ Len(q) \in Nat \ {0} /\ Head(q) = q[1] /\ q[1] \in S
      /\ DOMAIN q = 1..Len(q) /\ DOMAIN Tail(q) = 1..(Len(q) - 1)
      /\ \A i \in 1..(Len(q) - 1) : Tail(q)[i] = q[i + 1]
  BY TailElements
<1>2. ASSUME NEW P, Has(q, P) PROVE Head(q) \in P \/ Has(Tail(q), P)
  <2>1. PICK i \in 1..Len(q) : q[i] \in P
    BY <1>1, <1>2 DEF Has
  <2>2. CASE i # 1
    <3>1. i - 1 \in 1..(Len(q) - 1) /\ Tail(q)[i - 1] = q[i]
      BY <1>1, <2>2
    <3> QED
      BY <1>1, <2>1, <3>1 DEF Has
  <2> QED
    BY <1>1, <2>1, <2>2
<1>3. ASSUME NEW P, Head(q) \in P \/ Has(Tail(q), P) PROVE Has(q, P)
  <2>1. \A i \in 1..(Len(q) - 1) : i + 1 \in 1..Len(q)
    BY <1>1
  <2>2. 1 \in 1..Len(q)
    BY <1>1
  <2> QED
    BY <1>1, <1>3, <2>1, <2>2 DEF Has
<1>4. ASSUME NEW P, Once(q, P)
      PROVE  Once(Tail(q), P) /\ (Head(q) \in P => ~Has(Tail(q), P))
  <2>1. \A i \in 1..(Len(q) - 1) : i + 1 \in 1..Len(q) /\ i + 1 # 1
    BY <1>1
  <2>2. 1 \in 1..Len(q)
    BY <1>1
  <2>3. \A i, j \in 1..(Len(q) - 1) : i + 1 = j + 1 => i = j
    BY <1>1
  <2>4. Once(Tail(q), P)
    BY <1>1, <1>4, <2>1, <2>3 DEF Once
  <2>5. Head(q) \in P => ~Has(Tail(q), P)
    BY <1>1, <1>4, <2>1, <2>2 DEF Once, Has
  <2> QED
    BY <2>4, <2>5
<1> QED
  BY <1>1, <1>2, <1>3, <1>4

\* Messages are put at the end of a wire.
LEMMA ConcatHas ==
  ASSUME NEW S, NEW q \in Seq(S), NEW r \in Seq(S)
  PROVE  /\ q \o r \in Seq(S)
         /\ \A P : Has(q \o r, P) <=> Has(q, P) \/ Has(r, P)
         /\ \A P : Once(q, P) /\ ~Has(r, P) => Once(q \o r, P)
<1>1. /\ q \o r \in Seq(S) /\ Len(q) \in Nat /\ Len(r) \in Nat
      /\ DOMAIN q = 1..Len(q) /\ DOMAIN r = 1..Len(r) /\ DOMAIN (q \o r) = 1..(Len(q) + Len(r))
      /\ \A i \in 1..Len(q) : (q \o r)[i] = q[i]
      /\ \A i \in 1..Len(r) : (q \o r)[Len(q) + i] = r[i]
  BY ConcatElements
<1> DEFINE s == q \o r
<1> HIDE DEF s
<1>2. \A i \in 1..(Len(q) + Len(r)) :
         \/ i \in 1..Len(q) /\ s[i] = q[i]
         \/ i - Len(q) \in 1..Len(r) /\ s[i] = r[i - Len(q)]
  <2> SUFFICES ASSUME NEW i \in 1..(Len(q) + Len(r))
               PROVE  \/ i \in 1..Len(q) /\ s[i] = q[i]
                      \/ i - Len(q) \in 1..Len(r) /\ s[i] = r[i - Len(q)]
    OBVIOUS
  <2>1. CASE i \in 1..Len(q)
    BY <1>1, <2>1 DEF s
  <2>2. CASE i \notin 1..Len(q)
    <3>1. i - Len(q) \in 1..Len(r) /\ Len(q) + (i - Len(q)) = i
      BY <1>1, <2>2
    <3> QED
      BY <1>1, <3>1 DEF s
  <2> QED
    BY <2>1, <2>2
<1>3. \A i \in 1..Len(r) : Len(q) + i \in 1..(Len(q) + Len(r)) /\ s[Len(q) + i] = r[i]
  BY <1>1 DEF s
<1>4. \A i \in 1..Len(q) : i \in 1..(Len(q) + Len(r)) /\ s[i] = q[i]
  BY <1>1 DEF s
<1>5. DOMAIN s = 1..(Len(q) + Len(r))
  BY <1>1 DEF s
<1>6. ASSUME NEW P PROVE Has(s, P) <=> Has(q, P) \/ Has(r, P)
  BY <1>1, <1>2, <1>3, <1>4, <1>5 DEF Has
<1>7. ASSUME NEW P, Once(q, P), ~Has(r, P) PROVE Once(s, P)
  BY <1>1, <1>2, <1>5, <1>7 DEF Has, Once
<1> QED
  BY <1>1, <1>6, <1>7 DEF s

\* Cancelled calls stay in their places.
LEMMA CancelledHas ==
  ASSUME NEW S, NEW q \in Seq(S), NEW ids, Cancelled \in S
  PROVE  /\ WithCancelled(q, ids) \in Seq(S) /\ DOMAIN WithCancelled(q, ids) = DOMAIN q
         /\ \A P : Cancelled \notin P =>
               /\ Has(WithCancelled(q, ids), P) => Has(q, P)
               /\ Once(q, P) => Once(WithCancelled(q, ids), P)
               /\ (\A m \in P : \A id \in ids : ~EditorAsks(m, id)) /\ Has(q, P)
                     => Has(WithCancelled(q, ids), P)
<1> DEFINE r == WithCancelled(q, ids)
<1>1. /\ r = [i \in 1..Len(q) |-> IF \E id \in ids : EditorAsks(q[i], id) THEN Cancelled ELSE q[i]]
      /\ Len(q) \in Nat /\ DOMAIN q = 1..Len(q) /\ \A i \in 1..Len(q) : q[i] \in S
  BY DEF WithCancelled
<1>2. \A i \in 1..Len(q) : r[i] \in S
  BY <1>1
<1>3. r \in Seq(S) /\ DOMAIN r = 1..Len(q)
  <2>1. r \in [1..Len(q) -> S]
    BY <1>1, <1>2
  <2> HIDE DEF r
  <2> QED
    BY <1>1, <2>1
<1>4. \A i \in 1..Len(q) :
         r[i] = Cancelled \/ (r[i] = q[i] /\ \A id \in ids : ~EditorAsks(q[i], id))
  BY <1>1
<1>5. \A i \in 1..Len(q) : (\A id \in ids : ~EditorAsks(q[i], id)) => r[i] = q[i]
  BY <1>1
<1> HIDE DEF r
<1>6. ASSUME NEW P, Cancelled \notin P
      PROVE  /\ Has(r, P) => Has(q, P)
             /\ Once(q, P) => Once(r, P)
             /\ (\A m \in P : \A id \in ids : ~EditorAsks(m, id)) /\ Has(q, P) => Has(r, P)
  BY <1>1, <1>3, <1>4, <1>5, <1>6 DEF Has, Once
<1> QED
  BY <1>1, <1>3, <1>6 DEF r

\* On an empty wire there is nothing.
LEMMA EmptyHas == \A P : ~Has(<<>>, P) /\ Once(<<>>, P)
<1>1. \A i : i \notin DOMAIN <<>>
  OBVIOUS
<1> QED
  BY <1>1 DEF Has, Once

-----------------------------------------------------------------------------
(* Messages.                                                                *)

\* A request of the server registers one id, alone or with one of another
\* feature.
LEMMA RegisterNames ==
  ASSUME FeaturesAssumption, NEW f \in DOMAIN Catalog, NEW m \in Register(f)
  PROVE  \E mine \in Own(f) :
            /\ \E k \in DOMAIN m.list : m.list[k] = mine
            /\ \A d \in DynamicIds : Names(m, d) <=> d = mine.id
            /\ \A k \in DOMAIN m.list : m.list[k] = mine \/ m.list[k] \in Foreign
            /\ m.via # "many" => m.list = <<mine>>
            /\ m.list = <<mine>> \/ \E other \in Foreign :
                                       m.list = <<mine, other>> \/ m.list = <<other, mine>>
<1>1. "other" \notin DynamicIds /\ \A o \in Foreign : o.id = "other"
  BY DEF FeaturesAssumption, Foreign
<1>2. m.kind = "register"
  BY DEF Register
<1>3. CASE m \in [kind : {"register"}, list : Alone(f), via : {"one", "bulk"}]
  <2>1. PICK mine \in Own(f) : m.list = <<mine>>
    BY <1>3 DEF Alone
  <2>2. DOMAIN m.list = {1} /\ m.list[1] = mine
    BY <2>1
  <2> QED
    BY <1>1, <1>2, <2>1, <2>2 DEF Names
<1>4. CASE m \in [kind : {"register"}, list : Paired(f), via : {"many"}]
  <2>1. m.list \in Paired(f) /\ m.via = "many"
    BY <1>4
  <2>2. PICK mine \in Own(f) : \E other \in Foreign :
               m.list = <<mine, other>> \/ m.list = <<other, mine>>
    BY <2>1 DEF Paired
  <2>3. PICK other \in Foreign : m.list = <<mine, other>> \/ m.list = <<other, mine>>
    BY <2>2
  <2>4. DOMAIN m.list = {1, 2} /\ {m.list[1], m.list[2]} = {mine, other}
    BY <2>3
  <2>5. \A k \in DOMAIN m.list : m.list[k] = mine \/ m.list[k] = other
    BY <2>4
  <2>6. \E k \in DOMAIN m.list : m.list[k] = mine
    BY <2>4
  <2>7. \A d \in DynamicIds : Names(m, d) <=> d = mine.id
    BY <1>1, <1>2, <2>5, <2>6 DEF Names
  <2> QED
    BY <2>1, <2>3, <2>5, <2>6, <2>7
<1> QED
  BY <1>3, <1>4 DEF Register

\* What a message is about.
LEMMA AboutNothing ==
  ASSUME NEW d
  PROVE  \A m \in {Refresh, Cancelled} :
            m \notin Registers(d) \cup Confirms(d) \cup Unregisters(d) \cup Removes(d)
                     \cup Calls(d) \cup EditorCalls(d)
BY DEF Refresh, Cancelled, Registers, Confirms, Unregisters, Removes, Calls, EditorCalls,
       Names, EditorAsks

\* A request to register is about its id, and nothing else.
LEMMA AboutRegister ==
  ASSUME NEW f \in DOMAIN Catalog, NEW m \in Register(f), NEW d
  PROVE  /\ m.kind = "register" /\ (m \in Registers(d) <=> Names(m, d))
         /\ m \notin Confirms(d) \cup Unregisters(d) \cup Removes(d)
                     \cup Calls(d) \cup EditorCalls(d) \cup {Refresh, Cancelled}
<1>1. m.kind = "register" /\ m \in Messages
  BY DEF Register, Messages, ToClient
<1> QED
  BY <1>1 DEF Refresh, Cancelled, Registers, Confirms, Unregisters, Removes, Calls, EditorCalls,
       EditorAsks

\* So is a request to unregister.
LEMMA AboutUnregister ==
  ASSUME NEW m \in Unregister, NEW d
  PROVE  /\ m.kind = "unregister" /\ (m \in Unregisters(d) <=> m.id = d)
         /\ m \notin Registers(d) \cup Confirms(d) \cup Removes(d)
                     \cup Calls(d) \cup EditorCalls(d) \cup {Refresh, Cancelled}
<1>1. m.kind = "unregister"
  BY DEF Unregister
<1>2. m \in Messages
  <2>1. "hover" \in DOMAIN Catalog
    BY DEF Catalog
  <2> QED
    BY <2>1 DEF Messages, ToClient
<1> QED
  BY <1>1, <1>2 DEF Refresh, Cancelled, Registers, Confirms, Unregisters, Removes, Calls,
       EditorCalls, EditorAsks, Names

\* A reply confirms what its request registers, or removes.
LEMMA AboutReply ==
  ASSUME NEW f \in DOMAIN Catalog, NEW m \in Replies(f), NEW d
  PROVE  /\ m.kind = "reply" /\ m.to \in Register(f) \cup Unregister
         /\ m \in Confirms(d) <=> m.to \in Registers(d)
         /\ m \in Accepts(d) <=> m.to \in Registers(d) /\ m.ok
         /\ m \in Removes(d) <=> m.to \in Unregisters(d)
         /\ m \notin Registers(d) \cup Unregisters(d)
                     \cup Calls(d) \cup EditorCalls(d) \cup {Refresh, Cancelled}
<1>1. m.kind = "reply" /\ m.to \in Register(f) \cup Unregister
  BY DEF Replies
<1>2. m \in Messages /\ m.to \in Messages
  BY DEF Messages, ToServer, ToClient, Replies
<1>3. m \in Confirms(d) <=> m.to \in Registers(d)
  BY <1>1, <1>2 DEF Confirms, Registers
<1>4. m \in Removes(d) <=> m.to \in Unregisters(d)
  BY <1>1, <1>2 DEF Removes, Unregisters
<1> QED
  BY <1>1, <1>2, <1>3, <1>4 DEF Refresh, Cancelled, Registers, Accepts, Unregisters, Calls,
       EditorCalls, EditorAsks, Names

\* A call and its answer are about the id of their provider.
LEMMA AboutCall ==
  ASSUME NEW f \in DOMAIN Catalog, NEW m \in Call(f) \cup Answer(f), NEW d
  PROVE  /\ m.kind \in {"ask", "answer"} /\ m.id \in Ids /\ m.ask \in Catalog[f].client.asks
         /\ m.kind = "ask" <=> m \in Call(f)
         /\ m \in Calls(d) <=> m.id = d
         /\ m \in EditorCalls(d) <=> m.id = d /\ m.ask.on = Editor
         /\ m \notin Registers(d) \cup Confirms(d) \cup Unregisters(d) \cup Removes(d)
                     \cup {Refresh, Cancelled}
<1>1. /\ m.kind \in {"ask", "answer"} /\ m.id \in Ids /\ m.ask \in Catalog[f].client.asks
      /\ m.kind = "ask" <=> m \in Call(f)
  BY DEF Call, Answer
<1>2. m \in Messages
  BY DEF Messages, ToServer, ToClient
<1> QED
  BY <1>1, <1>2 DEF Refresh, Cancelled, Registers, Confirms, Unregisters, Removes, Calls,
       EditorCalls, EditorAsks, Names

\* The kinds of messages on a wire.
LEMMA KindToClient ==
  ASSUME NEW f, NEW m \in ToClient(f)
  PROVE  /\ m.kind = "register" <=> m \in Register(f)
         /\ m.kind = "unregister" <=> m \in Unregister
         /\ m.kind = "answer" <=> m \in Answer(f)
         /\ m.kind = "refresh" <=> m = Refresh
         /\ m.kind = "cancelled" <=> m = Cancelled
         /\ m.kind \in {"register", "unregister", "answer", "refresh", "cancelled"}
<1>1. \A x \in Register(f) : x.kind = "register"
  BY DEF Register
<1>2. /\ \A x \in Unregister : x.kind = "unregister"
      /\ \A x \in Answer(f) : x.kind = "answer"
      /\ Refresh.kind = "refresh" /\ Cancelled.kind = "cancelled"
  BY DEF Unregister, Answer, Refresh, Cancelled
<1>3. m \in Register(f) \/ m \in Unregister \/ m \in Answer(f) \/ m = Refresh \/ m = Cancelled
  BY DEF ToClient
<1> QED
  BY <1>1, <1>2, <1>3

LEMMA KindToServer ==
  ASSUME NEW f, NEW m \in ToServer(f)
  PROVE  /\ m.kind = "reply" <=> m \in Replies(f)
         /\ m.kind = "ask" <=> m \in Call(f)
         /\ m.kind = "cancelled" <=> m = Cancelled
         /\ m.kind \in {"reply", "ask", "cancelled"}
<1>1. \A x \in Replies(f) : x.kind = "reply"
  BY DEF Replies
<1>2. (\A x \in Call(f) : x.kind = "ask") /\ Cancelled.kind = "cancelled"
  BY DEF Call, Cancelled
<1>3. m \in Replies(f) \/ m \in Call(f) \/ m = Cancelled
  BY DEF ToServer
<1> QED
  BY <1>1, <1>2, <1>3

\* The lists a request with the feature's own registration may carry, and what
\* the client does of one: its own registration or nothing, and all is well
\* only if that is the whole list.
ListsOf(mine, other) == {<<mine>>, <<mine, other>>, <<other, mine>>}
DoesItsOwn(list, mine) ==
    /\ ToSet(Doable(list)) \subseteq {mine}
    /\ Len(Doable(list)) \in Nat /\ Len(list) \in Nat
    /\ ~(Len(Doable(list)) < Len(list)) => ToSet(Doable(list)) = {mine}

\* The client does only its own registration of such a list.
LEMMA DoableList ==
  ASSUME FeaturesAssumption, feature \in DOMAIN Catalog,
         NEW mine, NEW other \in Foreign, NEW list \in ListsOf(mine, other)
  PROVE  DoesItsOwn(list, mine)
<1> USE DEF ListsOf, DoesItsOwn
<1> DEFINE bad == {i \in DOMAIN list : Refused(list[i])}
           first == CHOOSE i \in bad : \A j \in bad : i <= j
<1>1. Refused(other)
  <2>1. Catalog[feature].protocol.method # Moniker.method
    BY CatalogAgrees DEF Agree
  <2> QED
    BY <2>1 DEF Refused, This, Foreign
<1>2. ToSet(<<>>) = {} /\ ToSet(<<mine>>) = {mine} /\ Len(<<>>) = 0 /\ Len(<<mine>>) = 1
  BY DEF ToSet
<1>3. Doable(list) = IF bad = {} THEN list ELSE SubSeq(list, 1, first - 1)
  BY DEF Doable
<1>4. ASSUME bad # {}, bad \subseteq {1, 2}
      PROVE  first \in bad /\ \A j \in bad : first <= j
  <2>1. \E i \in bad : \A j \in bad : i <= j
    <3>1. CASE 1 \in bad
      BY <1>4, <3>1
    <3>2. CASE 1 \notin bad
      <4>1. bad = {2}
        BY <1>4, <3>2
      <4> HIDE DEF bad
      <4> QED
        BY <4>1
    <3> QED
      BY <3>1, <3>2
  <2> HIDE DEF bad
  <2> QED
    BY <2>1
<1>5. CASE list = <<mine>>
  <2>1. DOMAIN list = {1} /\ list[1] = mine /\ Len(list) = 1
    BY <1>5
  <2>2. CASE bad = {}
    BY <1>2, <1>3, <1>5, <2>2
  <2>3. CASE bad # {}
    <3>1. bad \subseteq {1}
      BY <2>1
    <3>2. first = 1
      BY <1>4, <2>3, <3>1
    <3>3. Doable(list) = <<>>
      BY <1>3, <1>5, <2>3, <3>2
    <3> QED
      BY <1>2, <2>1, <3>3
  <2> QED
    BY <2>2, <2>3
<1>6. CASE list = <<mine, other>>
  <2>1. DOMAIN list = {1, 2} /\ list[1] = mine /\ list[2] = other /\ Len(list) = 2
    BY <1>6
  <2>2. 2 \in bad /\ bad \subseteq {1, 2}
    BY <1>1, <2>1
  <2>3. first \in bad /\ first \in {1, 2}
    BY <1>4, <2>2
  <2>4. Doable(list) = SubSeq(list, 1, first - 1)
    BY <1>3, <2>2
  <2> HIDE DEF first
  <2>5. CASE first = 1
    <3>1. Doable(list) = <<>>
      BY <1>6, <2>4, <2>5
    <3> QED
      BY <1>2, <2>1, <3>1
  <2>6. CASE first = 2
    <3>1. Doable(list) = <<mine>>
      BY <1>6, <2>4, <2>6
    <3> QED
      BY <1>2, <2>1, <3>1
  <2> QED
    BY <2>3, <2>5, <2>6
<1>7. CASE list = <<other, mine>>
  <2>1. DOMAIN list = {1, 2} /\ list[1] = other /\ list[2] = mine /\ Len(list) = 2
    BY <1>7
  <2>2. 1 \in bad /\ bad \subseteq {1, 2}
    BY <1>1, <2>1
  <2>3. first = 1
    BY <1>4, <2>2
  <2>4. Doable(list) = SubSeq(list, 1, first - 1)
    BY <1>3, <2>2
  <2> HIDE DEF first
  <2>5. Doable(list) = <<>>
    BY <1>7, <2>3, <2>4
  <2> QED
    BY <1>2, <2>1, <2>5
<1> QED
  BY <1>5, <1>6, <1>7

\* What doRegisterCapability adds for a request.
LEMMA RegisterEffect ==
  ASSUME FeaturesAssumption, feature \in DOMAIN Catalog, NEW m \in Register(feature)
  PROVE  LET done == ToSet(Doable(m.list)) IN
         \E mine \in Own(feature) :
            /\ \A d \in DynamicIds : Names(m, d) <=> d = mine.id
            /\ done \subseteq {mine}
            /\ ~(Len(Doable(m.list)) < Len(m.list)) => done = {mine}
            /\ {r.id : r \in ToSet(m.list)} \cap DynamicIds = {mine.id}
            /\ {r.id : r \in ToSet(m.list)} \subseteq Ids \cup {"other"}
            /\ m.via # "many" => m.list[1] = mine
<1>1. PICK mine \in Own(feature) :
         /\ \E k \in DOMAIN m.list : m.list[k] = mine
         /\ \A d \in DynamicIds : Names(m, d) <=> d = mine.id
         /\ \A k \in DOMAIN m.list : m.list[k] = mine \/ m.list[k] \in Foreign
         /\ m.via # "many" => m.list = <<mine>>
         /\ m.list = <<mine>> \/ \E other \in Foreign :
                                       m.list = <<mine, other>> \/ m.list = <<other, mine>>
  BY RegisterNames
<1>2. \E o : o \in Foreign
  <2>1. [id |-> "other", method |-> Moniker.method, options |-> {}, own |-> TRUE] \in Foreign
    BY DEF Foreign
  <2> QED
    BY <2>1
<1>3. PICK other \in Foreign : m.list \in {<<mine>>, <<mine, other>>, <<other, mine>>}
  BY <1>1, <1>2
<1>4. /\ ToSet(Doable(m.list)) \subseteq {mine}
      /\ ~(Len(Doable(m.list)) < Len(m.list)) => ToSet(Doable(m.list)) = {mine}
  <2>1. m.list \in ListsOf(mine, other)
    BY <1>3 DEF ListsOf
  <2>2. DoesItsOwn(m.list, mine)
    BY <2>1, DoableList
  <2> QED
    BY <2>2 DEF DoesItsOwn
<1>5. mine.id \in DynamicIds /\ \A o \in Foreign : o.id = "other"
  BY DEF Own, Foreign
<1>6. \A r \in ToSet(m.list) : r = mine \/ r \in Foreign
  BY <1>1 DEF ToSet
<1>7. mine \in ToSet(m.list)
  BY <1>1 DEF ToSet
<1>8. {r.id : r \in ToSet(m.list)} \cap DynamicIds = {mine.id}
  BY <1>5, <1>6, <1>7 DEF FeaturesAssumption
<1>9. {r.id : r \in ToSet(m.list)} \subseteq Ids \cup {"other"}
  BY <1>5, <1>6 DEF Ids
<1>10. m.via # "many" => m.list[1] = mine
  BY <1>1
<1> QED
  BY <1>1, <1>4, <1>8, <1>9, <1>10

\* Answers on a wire that is added to, taken from or has calls cancelled.
LEMMA AppendFresh ==
  ASSUME NEW S, NEW q \in Seq(S), NEW m \in S, NEW now, Fresh(q, now),
         m.kind = "answer" => m.data = now
  PROVE  Fresh(Append(q, m), now)
<1>1. /\ Len(q) \in Nat
      /\ DOMAIN q = 1..Len(q) /\ DOMAIN Append(q, m) = 1..(Len(q) + 1)
      /\ \A i \in 1..Len(q) : Append(q, m)[i] = q[i]
      /\ Append(q, m)[Len(q) + 1] = m
  BY AppendElements
<1> QED
  BY <1>1 DEF Fresh

\* Behind every answer on a wire there is the refresh put at its end.
LEMMA RefreshFresh ==
  ASSUME NEW S, NEW q \in Seq(S), Refresh \in S, NEW now
  PROVE  Fresh(Append(q, Refresh), now)
<1>1. /\ Len(q) \in Nat
      /\ DOMAIN Append(q, Refresh) = 1..(Len(q) + 1)
      /\ Append(q, Refresh)[Len(q) + 1] = Refresh
  BY AppendElements
<1>2. Refresh.kind # "answer"
  BY DEF Refresh
<1> QED
  BY <1>1, <1>2 DEF Fresh

\* An answer taken off is current, unless a refresh is still on the wire.
LEMMA TailFresh ==
  ASSUME NEW S, NEW q \in Seq(S), q # <<>>, NEW now, Fresh(q, now)
  PROVE  /\ Fresh(Tail(q), now)
         /\ Head(q).kind = "answer" /\ Head(q).ask.on = Editor /\ ~Has(Tail(q), {Refresh})
               => Head(q).data = now
<1>1. /\ Tail(q) \in Seq(S) /\ Len(q) \in Nat \ {0} /\ Head(q) = q[1]
      /\ DOMAIN q = 1..Len(q) /\ DOMAIN Tail(q) = 1..(Len(q) - 1)
      /\ \A i \in 1..(Len(q) - 1) : Tail(q)[i] = q[i + 1]
  BY TailElements
<1>2. \A k \in 1..Len(q) : k > 1 => k - 1 \in 1..(Len(q) - 1) /\ Tail(q)[k - 1] = q[k]
  BY <1>1
<1>3. ASSUME NEW i \in 1..Len(q), NEW k \in 1..Len(q), k > i, q[k] = Refresh
      PROVE  k - 1 \in 1..(Len(q) - 1) /\ Tail(q)[k - 1] = Refresh
  BY <1>1, <1>2, <1>3
<1>4. ASSUME NEW i \in 1..(Len(q) - 1),
             Tail(q)[i].kind = "answer", Tail(q)[i].ask.on = Editor, Tail(q)[i].data # now
      PROVE  \E k \in 1..(Len(q) - 1) : k > i /\ Tail(q)[k] = Refresh
  <2>1. i + 1 \in 1..Len(q) /\ Tail(q)[i] = q[i + 1]
    BY <1>1
  <2>2. PICK k \in 1..Len(q) : k > i + 1 /\ q[k] = Refresh
    BY <1>1, <1>4, <2>1 DEF Fresh
  <2>3. k - 1 \in 1..(Len(q) - 1) /\ Tail(q)[k - 1] = Refresh
    BY <1>3, <2>1, <2>2
  <2>4. k - 1 > i
    BY <1>1, <2>2
  <2> QED
    BY <2>3, <2>4
<1>5. Fresh(Tail(q), now)
  BY <1>1, <1>4 DEF Fresh
<1>6. ASSUME Head(q).kind = "answer", Head(q).ask.on = Editor, Head(q).data # now
      PROVE  Has(Tail(q), {Refresh})
  <2>1. 1 \in 1..Len(q)
    BY <1>1
  <2>2. PICK k \in 1..Len(q) : k > 1 /\ q[k] = Refresh
    BY <1>1, <1>6, <2>1 DEF Fresh
  <2>3. k - 1 \in 1..(Len(q) - 1) /\ Tail(q)[k - 1] = Refresh
    BY <1>3, <2>1, <2>2
  <2> QED
    BY <1>1, <2>3 DEF Has
<1> QED
  BY <1>5, <1>6

\* A cancelled answer is none, and no refresh is cancelled.
LEMMA CancelledFresh ==
  ASSUME NEW S, NEW q \in Seq(S), NEW ids, NEW now, Fresh(q, now)
  PROVE  Fresh(WithCancelled(q, ids), now)
<1> DEFINE r == WithCancelled(q, ids)
<1>1. /\ DOMAIN r = DOMAIN q
      /\ \A i \in DOMAIN q : r[i] = Cancelled \/ r[i] = q[i]
      /\ \A i \in DOMAIN q : (\A id \in ids : ~EditorAsks(q[i], id)) => r[i] = q[i]
  BY DEF WithCancelled
<1>2. \A i \in DOMAIN q : q[i] = Refresh => r[i] = Refresh
  BY <1>1 DEF EditorAsks, Refresh
<1>3. Cancelled.kind # "answer"
  BY DEF Cancelled
<1> HIDE DEF r
<1>4. Fresh(r, now)
  BY <1>1, <1>2, <1>3 DEF Fresh
<1> QED
  BY <1>4 DEF r

LEMMA EmptyFresh == \A now : Fresh(<<>>, now)
<1>1. \A i : i \notin DOMAIN <<>>
  OBVIOUS
<1> QED
  BY <1>1 DEF Fresh
-----------------------------------------------------------------------------
(* The steps: the session.                                                  *)

\* At first nothing is registered and nothing is under way.
LEMMA FeatureInvInit == ASSUME FeaturesAssumption, Init PROVE FeatureInv
<1>1. feature \in DOMAIN Catalog
  BY DEF Init, FeaturesAssumption
<1>2. FeatureTypeOK
  <2>1. IsFiniteSet(table) /\ \A e \in table : FALSE
    BY FS_EmptySet DEF Init
  <2>2. toClient \in Seq(ToClient(feature)) /\ toServer \in Seq(ToServer(feature))
    BY DEF Init
  <2>3. shown \in [Ids -> [is : {"nothing", "value", "failed"}, data : 0..MaxData,
                          of : {Editor} \cup {a.method : a \in This.protocol.asks}]]
    BY DEF Init, Nothing, FeaturesAssumption
  <2>4. others \subseteq Commands
    BY DEF Init, Commands
  <2>5. starts \in 0..MaxStarts /\ data \in 0..MaxData
    BY DEF Init, FeaturesAssumption
  <2> QED
    BY <2>1, <2>2, <2>3, <2>4, <2>5 DEF FeatureTypeOK, Init
<1>3. SessionFits
  BY DEF SessionFits, Init, Registered
<1>4. CallsFit /\ ShownFits
  BY EmptyFresh DEF CallsFit, ShownFits, Init, Registered
<1>5. ASSUME NEW d \in DynamicIds PROVE Life(d) /\ Handles(d)
  <2>1. /\ Registered = {} /\ used = {} /\ single = {} /\ bulk = None /\ None # d
        /\ toClient = <<>> /\ toServer = <<>> /\ shown[d] = Nothing
    BY DEF Init, Registered, FeaturesAssumption, Ids
  <2> QED
    BY <2>1, EmptyHas DEF Life, Handles, Uncalled, Held
<1> QED
  BY <1>2, <1>3, <1>4, <1>5 DEF FeatureInv

\* The feature of a behaviour stays.
LEMMA FeatureKept ==
  ASSUME FeaturesAssumption, FeatureInv
  PROVE  feature \in DOMAIN Catalog /\ (Next => feature' = feature)
<1>1. feature \in DOMAIN Catalog
  BY DEF FeatureInv, FeatureTypeOK, FeaturesAssumption
<1>2. Next => feature' = feature
  BY DEF Next, StartSome, Start, Stop, Stopped, DoRegisterCapability, DoUnregisterCapability,
         ProvideSome, Provide, OnAnswer, DropAnswer, OnRefresh, AnswerSome, ServerAnswers,
         AnswersCancelled, ServerChanges, RegisterSome, RegisterSingle, RegisterMany,
         Dispose, DisposeHandle, DisposeBulk, DisposeSingle, UnregisterStatic,
         ServerOnReply, client
<1> QED
  BY <1>1, <1>2

\* A start registers a static capability under an id that is not dynamic.
LEMMA StartKeeps == ASSUME FeaturesAssumption, FeatureInv, StartSome PROVE FeatureInv'
<1>1. PICK present, named, own \in BOOLEAN, options \in This.protocol.options :
         /\ named => present /\ This.protocol.static
         /\ own => named /\ This.client.how = "registration"
         /\ Start(present, named, own, options)
  BY DEF StartSome
<1> DEFINE id == IF present THEN StaticId(named, own) ELSE None
<1>2. /\ feature' = feature /\ selector' = selector /\ others' = others
      /\ ignored' = ignored /\ shown' = shown
      /\ toClient' = toClient /\ toServer' = toServer
      /\ used' = used /\ single' = single /\ bulk' = bulk /\ lost' = lost /\ data' = data
      /\ silent' = silent /\ phase = "stopped" /\ starts < MaxStarts /\ starts' = starts + 1
      /\ given' = (present /\ named /\ phase' = "running")
      /\ \/ /\ id # None /\ Throws(options)
            /\ stray' = stray \cup LeftBehind(options) /\ phase' = phase /\ table' = table
         \/ /\ table' = IF id = None THEN {} ELSE {Entry(id, options)}
            /\ phase' = "running" /\ stray' = stray
  BY <1>1 DEF Start
<1>3. /\ toClient = <<>> /\ toServer = <<>> /\ used = {} /\ data = 0 /\ bulk = None
      /\ lost = {} /\ silent = {} /\ table = {} /\ shown = [i \in Ids |-> Nothing]
      /\ FeatureTypeOK
  BY <1>2 DEF FeatureInv, SessionFits
<1>4. id \in {"static", "auto", None}
  BY DEF StaticId, GetRegistration, GetRegistrationOptions
<1>5. feature \in DOMAIN Catalog /\ Agree(This.client, This.protocol)
  BY FeatureKept, CatalogAgrees DEF This
<1>6. present /\ named => id = None \/ id # "auto"
  BY <1>1, <1>5 DEF StaticId, GetRegistration, GetRegistrationOptions, Agree
<1> HIDE DEF id
<1>7. /\ Registered' \subseteq {"static", "auto"} /\ Registered' \subseteq {id}
      /\ id = None /\ phase' = "running" => Registered' = {}
      /\ \A e \in table' : e = Entry(id, options) /\ id \in {"static", "auto"}
  BY <1>2, <1>3, <1>4 DEF Registered, Entry
<1>8. IsFiniteSet(table')
  <2>1. IsFiniteSet({Entry(id, options)}) /\ IsFiniteSet({})
    BY FS_EmptySet, FS_Singleton
  <2> QED
    BY <1>2, <1>3, <2>1
<1>9. LeftBehind(options) \subseteq Commands
  BY DEF LeftBehind, Commands
<1>10. \A e \in table' : e.id \in Ids /\ e.options \in This.protocol.options
                         /\ e = Entry(e.id, e.options)
  BY <1>1, <1>7 DEF Entry, Ids
<1>11. FeatureTypeOK'
  <2>1. This' = This
    BY <1>2 DEF This
  <2>2. starts' \in 0..MaxStarts
    BY <1>2, <1>3 DEF FeatureTypeOK, FeaturesAssumption
  <2>3. given' \in BOOLEAN /\ phase' \in {"stopped", "running", "stopping"}
    BY <1>2, <1>3 DEF FeatureTypeOK
  <2>4. stray' \subseteq Commands
    BY <1>2, <1>3, <1>9 DEF FeatureTypeOK
  <2> QED
    BY <1>2, <1>3, <1>8, <1>10, <2>1, <2>2, <2>3, <2>4 DEF FeatureTypeOK, Entry
<1>12. SessionFits'
  <2>1. /\ phase' # "running" => table' = {} /\ ~given'
        /\ phase' # "stopping" => ignored' = {}
    BY <1>2, <1>3, <1>5 DEF FeatureInv, SessionFits
  <2>2. This'.client.how # "command" => stray' = {}
    BY <1>2 DEF FeatureInv, SessionFits, Throws, This
  <2>3. given' => "auto" \notin Registered'
    BY <1>2, <1>6, <1>7
  <2> QED
    BY <1>2, <1>3, <2>1, <2>2, <2>3 DEF SessionFits
<1>13. CallsFit' /\ ShownFits'
  <2>1. \A i \in Registered' : shown'[i] = Nothing
    BY <1>2, <1>3, <1>7 DEF Ids
  <2> QED
    BY <1>2, <1>3, <2>1, EmptyHas, EmptyFresh DEF CallsFit, ShownFits, Nothing
<1>14. ASSUME NEW d \in DynamicIds PROVE Life(d)' /\ Handles(d)'
  <2>1. /\ d \notin Registered' /\ d # None /\ used' = {} /\ single' = {} /\ bulk' = None
        /\ toClient' = <<>> /\ toServer' = <<>> /\ shown'[d] = Nothing
    BY <1>2, <1>3, <1>7 DEF FeatureTypeOK, FeaturesAssumption, Ids
  <2> QED
    BY <2>1, EmptyHas DEF Life, Handles, Uncalled, Held
<1> QED
  BY <1>11, <1>12, <1>13, <1>14 DEF FeatureInv

\* A stop clears the client's tables.
LEMMA StopKeeps == ASSUME FeaturesAssumption, FeatureInv, Stop PROVE FeatureInv'
<1>1. /\ feature' = feature /\ selector' = selector /\ others' = others /\ starts' = starts
      /\ used' = used /\ single' = single /\ bulk' = bulk /\ lost' = lost /\ given' = given
      /\ data' = data /\ stray' = stray /\ ignored' = ignored
      /\ toClient' = toClient /\ toServer' = toServer /\ silent' = silent
      /\ phase = "running" /\ phase' = "stopping" /\ table' = {}
      /\ shown' = [i \in Ids |-> Nothing]
  BY DEF Stop, client, server
<1>2. Registered' = {}
  BY <1>1 DEF Registered
<1>3. FeatureTypeOK'
  <2>1. shown' \in [Ids -> [is : {"nothing", "value", "failed"}, data : 0..MaxData,
                          of : {Editor} \cup {a.method : a \in This.protocol.asks}]]
    BY <1>1 DEF Nothing, FeaturesAssumption
  <2> QED
    BY <1>1, <2>1, FS_EmptySet DEF FeatureInv, FeatureTypeOK, This
<1>4. SessionFits' /\ CallsFit' /\ ShownFits'
  BY <1>1, <1>2 DEF FeatureInv, SessionFits, CallsFit, ShownFits, This
<1>5. ASSUME NEW d \in DynamicIds PROVE Life(d)' /\ Handles(d)'
  <2>1. Life(d) /\ Handles(d) /\ shown'[d] = Nothing
    BY <1>1 DEF FeatureInv, Ids
  <2> QED
    BY <1>1, <1>2, <2>1 DEF Life, Handles, Uncalled, Held
<1> QED
  BY <1>3, <1>4, <1>5 DEF FeatureInv

\* What was under way is lost with the server.
LEMMA StoppedKeeps == ASSUME FeaturesAssumption, FeatureInv, Stopped PROVE FeatureInv'
<1>1. /\ feature' = feature /\ selector' = selector /\ others' = others /\ starts' = starts
      /\ table' = table /\ stray' = stray /\ shown' = shown /\ ignored' = {}
      /\ toClient' = <<>> /\ toServer' = <<>>
      /\ used' = {} /\ single' = {} /\ bulk' = None /\ lost' = {} /\ silent' = {}
      /\ given' = FALSE /\ data' = 0
      /\ phase = "stopping" /\ phase' = "stopped"
  BY DEF Stopped, client, ForgetServer
<1>2. table' = {} /\ Registered' = {} /\ shown' = [i \in Ids |-> Nothing]
  BY <1>1 DEF Registered, FeatureInv, SessionFits
<1>3. FeatureTypeOK'
  <2>1. toClient' \in Seq(ToClient(feature)) /\ toServer' \in Seq(ToServer(feature))
    BY <1>1
  <2>2. data' \in 0..MaxData
    BY <1>1 DEF FeaturesAssumption
  <2> QED
    BY <1>1, <1>2, <2>1, <2>2, FS_EmptySet DEF FeatureInv, FeatureTypeOK, This
<1>4. SessionFits' /\ CallsFit' /\ ShownFits'
  BY <1>1, <1>2, EmptyFresh DEF FeatureInv, SessionFits, CallsFit, ShownFits, This
<1>5. ASSUME NEW d \in DynamicIds PROVE Life(d)' /\ Handles(d)'
  <2>1. shown'[d] = Nothing /\ d # None
    BY <1>2 DEF Ids, FeaturesAssumption
  <2> QED
    BY <1>1, <1>2, <2>1, EmptyHas DEF Life, Handles, Uncalled, Held
<1> QED
  BY <1>3, <1>4, <1>5 DEF FeatureInv
-----------------------------------------------------------------------------
(* The steps: the client registers and unregisters.                         *)

\* The shape of a state, for a request of any feature of the catalog.
LEMMA Wires ==
  ASSUME FeaturesAssumption, FeatureInv
  PROVE  /\ feature \in DOMAIN Catalog
         /\ toClient \in Seq(ToClient(feature)) /\ toServer \in Seq(ToServer(feature))
         /\ Refresh \in ToClient(feature) /\ Cancelled \in ToClient(feature)
         /\ Cancelled \in ToServer(feature)
BY FeatureKept DEF FeatureInv, FeatureTypeOK, ToClient, ToServer

\* The client registers the request's id, or not, and confirms it: what was
\* asked for becomes what the server is about to hold a handle for.
LEMMA DoRegisterKeeps ==
  ASSUME FeaturesAssumption, FeatureInv, DoRegisterCapability PROVE FeatureInv'
<1> DEFINE ok == RegistersNot \/ ~(Len(Doable(Head(toClient).list)) < Len(Head(toClient).list))
<1>1. /\ feature' = feature /\ selector' = selector /\ others' = others /\ starts' = starts
      /\ used' = used /\ single' = single /\ bulk' = bulk /\ lost' = lost /\ given' = given
      /\ data' = data /\ phase' = phase /\ shown' = shown /\ toClient' = Tail(toClient)
      /\ toClient # <<>> /\ Head(toClient).kind = "register"
      /\ toServer' = Append(toServer, Reply(ok, Head(toClient)))
  BY DEF DoRegisterCapability, client, server
<1>2. PICK f \in DOMAIN Catalog : f = feature
  BY FeatureKept
<1>3. PICK request : request = Head(toClient)
  OBVIOUS
<1>4. /\ toClient \in Seq(ToClient(f)) /\ toServer \in Seq(ToServer(f))
  BY <1>2, Wires
<1>5. request \in ToClient(f) /\ request \in Register(f)
  BY <1>1, <1>3, <1>4, TailHas, KindToClient
<1>6. PICK mine \in Own(f) :
         /\ \A d \in DynamicIds : Names(request, d) <=> d = mine.id
         /\ ToSet(Doable(request.list)) \subseteq {mine}
         /\ ~(Len(Doable(request.list)) < Len(request.list)) => ToSet(Doable(request.list)) = {mine}
         /\ {r.id : r \in ToSet(request.list)} \subseteq Ids \cup {"other"}
  BY <1>2, <1>5, RegisterEffect
<1>7. PICK reply : reply = Reply(ok, request)
  OBVIOUS
<1>8. /\ reply \in Replies(f) /\ reply \in ToServer(f) /\ reply.to = request /\ reply.ok = ok
  <2>1. ok \in BOOLEAN
    OBVIOUS
  <2> HIDE DEF ok
  <2> QED
    BY <1>5, <1>7, <2>1 DEF Reply, Replies, ToServer
<1>9. toServer' = Append(toServer, reply)
  BY <1>1, <1>3, <1>7
<1>10. /\ mine.id \in DynamicIds /\ mine.options \in This.protocol.options
  BY <1>2 DEF Own, This
\* What the tables become.
<1>11. \E add \in SUBSET {Entry(mine.id, mine.options)} :
          /\ table' = table \cup add /\ (phase # "running" => add = {})
          /\ silent' = silent \/ silent' = silent \cup {mine.id}
          /\ phase = "running" /\ ok => add # {} \/ mine.id \in silent'
          /\ phase # "running" => ignored' \subseteq ignored \cup Ids \cup {"other"}
          /\ phase = "running" => ignored' = ignored
          /\ stray' \subseteq stray \cup Commands
          /\ This.client.how # "command" => stray' \subseteq stray
  <2>1. CASE phase # "running"
    <3>1. /\ ignored' = ignored \cup {r.id : r \in ToSet(request.list)}
          /\ table' = table /\ stray' = stray /\ silent' = silent
      BY <1>3, <2>1 DEF DoRegisterCapability, RegistersNot
    <3>2. table' = table \cup {}
      BY <3>1
    <3>3. {} \in SUBSET {Entry(mine.id, mine.options)}
      OBVIOUS
    <3> QED
      BY <1>6, <2>1, <3>1, <3>2, <3>3
  <2>2. CASE phase = "running"
    <3> DEFINE done == ToSet(Doable(request.list))
               add == {Entry(r.id, r.options) : r \in {x \in done : Accepted(x)}}
               quiet == {r.id : r \in {x \in done : ~Accepted(x)}}
               failing == IF Len(Doable(request.list)) < Len(request.list)
                          THEN {request.list[Len(Doable(request.list)) + 1]} ELSE {}
    <3>1. /\ table' = table \cup add /\ silent' = silent \cup quiet /\ ignored' = ignored
          /\ stray' = stray \cup
                UNION {LeftBehind(r.options) : r \in {x \in failing : Throws(x.options)}}
      BY <1>3, <2>2 DEF DoRegisterCapability, RegistersNot
    <3>2. add \subseteq {Entry(mine.id, mine.options)} /\ quiet \subseteq {mine.id}
      BY <1>6
    <3>3. ok => add # {} \/ quiet = {mine.id}
      <4>1. ok => done = {mine}
        BY <1>3, <1>6, <2>2 DEF RegistersNot
      <4> QED
        BY <4>1
    <3>4. \A o : LeftBehind(o) \subseteq Commands
      BY DEF LeftBehind, Commands
    <3>5. stray' \subseteq stray \cup Commands
      BY <3>1, <3>4
    <3>6. This.client.how # "command" => stray' \subseteq stray
      BY <3>1 DEF Throws
    <3>7. silent' = silent \/ silent' = silent \cup {mine.id}
      BY <3>1, <3>2
    <3>8. ok => add # {} \/ mine.id \in silent'
      BY <3>1, <3>3
    <3> HIDE DEF add, quiet, ok
    <3> QED
      BY <2>2, <3>1, <3>2, <3>5, <3>6, <3>7, <3>8
  <2> QED
    BY <2>1, <2>2
<1>12. PICK add \in SUBSET {Entry(mine.id, mine.options)} :
          /\ table' = table \cup add /\ (phase # "running" => add = {})
          /\ silent' = silent \/ silent' = silent \cup {mine.id}
          /\ phase = "running" /\ ok => add # {} \/ mine.id \in silent'
          /\ phase # "running" => ignored' \subseteq ignored \cup Ids \cup {"other"}
          /\ phase = "running" => ignored' = ignored
          /\ stray' \subseteq stray \cup Commands
          /\ This.client.how # "command" => stray' \subseteq stray
  BY <1>11
<1> HIDE DEF ok
<1>13. /\ Registered \subseteq Registered' /\ Registered' \subseteq Registered \cup {mine.id}
       /\ phase = "running" /\ ok => mine.id \in Registered' \cup silent'
  BY <1>12 DEF Registered, Entry
\* What the wires become.
<1>14. /\ toClient' \in Seq(ToClient(f)) /\ toServer' \in Seq(ToServer(f))
       /\ \A P : Has(toClient, P) <=> request \in P \/ Has(toClient', P)
       /\ \A P : Once(toClient, P) => Once(toClient', P)
                                      /\ (request \in P => ~Has(toClient', P))
       /\ \A P : Has(toServer', P) <=> Has(toServer, P) \/ reply \in P
       /\ \A P : Once(toServer, P) /\ (reply \in P => ~Has(toServer, P)) => Once(toServer', P)
  BY <1>1, <1>3, <1>4, <1>8, <1>9, TailHas, AppendHas
<1>15. FeatureTypeOK'
  <2>1. FeatureTypeOK /\ This' = This
    BY <1>1 DEF FeatureInv, This
  <2>2. \A e \in table' : /\ e.id \in Ids /\ e.options \in This.protocol.options
                          /\ e = Entry(e.id, e.options)
    BY <1>10, <1>12, <2>1 DEF FeatureTypeOK, Entry, Ids
  <2>3. IsFiniteSet(table')
    <3>1. IsFiniteSet(add)
      <4>1. add = {} \/ add = {Entry(mine.id, mine.options)}
        OBVIOUS
      <4>2. IsFiniteSet({}) /\ IsFiniteSet({Entry(mine.id, mine.options)})
        BY FS_EmptySet, FS_Singleton
      <4> QED
        BY <4>1, <4>2
    <3> QED
      BY <1>12, <2>1, <3>1, FS_Union DEF FeatureTypeOK
  <2>4. stray' \subseteq Commands /\ ignored' \subseteq (Ids \cup {"other"}) /\ silent' \subseteq Ids
    BY <1>10, <1>12, <2>1 DEF FeatureTypeOK, Ids
  <2> QED
    BY <1>1, <1>2, <1>14, <2>1, <2>2, <2>3, <2>4 DEF FeatureTypeOK, Entry
<1>16. SessionFits'
  <2>1. SessionFits /\ This' = This
    BY <1>1 DEF FeatureInv, This
  <2>2. phase # "stopped"
    BY <1>1, <2>1 DEF SessionFits
  <2>3. "auto" \in Registered' => "auto" \in Registered
    BY <1>10, <1>13 DEF FeaturesAssumption
  <2>4. phase' # "running" => table' = {} /\ shown' = [i \in Ids |-> Nothing]
    BY <1>1, <1>12, <2>1 DEF SessionFits
  <2>5. /\ phase' # "stopped" /\ (phase' # "stopping" => ignored' = {})
        /\ This'.client.how # "command" => stray' = {}
    <3>1. phase \in {"stopped", "running", "stopping"}
      BY DEF FeatureInv, FeatureTypeOK
    <3> QED
      BY <1>1, <1>12, <2>1, <2>2, <3>1 DEF SessionFits
  <2>6. given' => "auto" \notin Registered'
    BY <1>1, <2>1, <2>3 DEF SessionFits
  <2> QED
    BY <2>4, <2>5, <2>6 DEF SessionFits
<1>17. \A d : /\ Has(toClient', Calls(d)) <=> Has(toClient, Calls(d))
              /\ Has(toServer', Calls(d)) <=> Has(toServer, Calls(d))
              /\ Has(toClient', EditorCalls(d)) <=> Has(toClient, EditorCalls(d))
              /\ Has(toServer', EditorCalls(d)) <=> Has(toServer, EditorCalls(d))
              /\ Has(toClient', {Refresh}) <=> Has(toClient, {Refresh})
  <2>1. \A d : request \notin Calls(d) \cup EditorCalls(d) \cup {Refresh}
    BY <1>5, AboutRegister
  <2>2. \A d : reply \notin Calls(d) \cup EditorCalls(d)
    BY <1>8, AboutReply
  <2> QED
    BY <1>14, <2>1, <2>2
<1>18. ASSUME mine.id \notin Registered PROVE Uncalled(mine.id) /\ shown[mine.id] = Nothing
  <2>1. Has(toClient, Registers(mine.id)) /\ Life(mine.id)
    BY <1>5, <1>6, <1>10, <1>14, AboutRegister DEF FeatureInv
  <2> QED
    BY <2>1 DEF Life, Uncalled
<1>19. CallsFit' /\ ShownFits'
  <2>1. Fresh(toClient', data')
    BY <1>1, <1>4, TailFresh DEF FeatureInv, CallsFit
  <2>2. \A i \in Ids : Asking(i) => Asking(i)'
    BY <1>1, <1>12 DEF Asking, CanAsk, This
  <2>3. ASSUME NEW i \in Registered', i \notin Registered
        PROVE  i = mine.id /\ Uncalled(i) /\ shown[i] = Nothing
    BY <1>13, <1>18, <2>3
  <2>4. \A i \in Registered' : i \in Ids
    <3>1. Registered \subseteq Ids /\ mine.id \in Ids
      BY <1>10 DEF FeatureInv, FeatureTypeOK, Registered, Ids
    <3> QED
      BY <1>13, <3>1
  <2>5. CallsFit'
    BY <1>1, <1>17, <2>1, <2>2, <2>3, <2>4
       DEF FeatureInv, CallsFit, Uncalled, Nothing
  <2>6. ShownFits'
    <3>1. \A i \in Registered : shown'[i].is = "value" =>
             (/\ This'.client.refreshed /\ ~Has(toServer', EditorCalls(i))
              /\ ~Has(toClient', EditorCalls(i)) /\ ~Has(toClient', {Refresh})
              => shown'[i].data = data')
      BY <1>1, <1>17 DEF FeatureInv, ShownFits, This
    <3>2. \A i \in Registered' : i \notin Registered => shown'[i].is # "value"
      BY <1>1, <2>3 DEF Nothing
    <3> QED
      BY <3>1, <3>2 DEF ShownFits
  <2> QED
    BY <2>5, <2>6
<1>20. ASSUME NEW d \in DynamicIds PROVE Life(d)' /\ Handles(d)'
  <2>1. Life(d) /\ Handles(d)
    BY DEF FeatureInv
  <2>2. /\ request \in Registers(d) <=> d = mine.id
        /\ request \notin Unregisters(d)
    BY <1>5, <1>6, AboutRegister
  <2>3. /\ reply \in Confirms(d) <=> d = mine.id
        /\ reply \in Accepts(d) <=> d = mine.id /\ ok
        /\ reply \notin Removes(d)
    <3>1. request \notin Unregisters(d)
      BY <1>5, AboutRegister
    <3> QED
      BY <1>8, <2>2, <3>1, AboutReply
  <2>4. (Held(d) <=> Held(d)') /\ Uncalled(d) = Uncalled(d)'
    BY <1>1, <1>17 DEF Held, Uncalled
  <2>5. CASE d # mine.id
    <3>1. (d \in Registered' <=> d \in Registered) /\ silent \subseteq silent'
      BY <1>12, <1>13, <2>5
    <3>2. /\ Has(toClient', Registers(d)) <=> Has(toClient, Registers(d))
          /\ Has(toClient', Unregisters(d)) <=> Has(toClient, Unregisters(d))
          /\ Has(toServer', Confirms(d)) <=> Has(toServer, Confirms(d))
          /\ Has(toServer', Accepts(d)) <=> Has(toServer, Accepts(d))
          /\ Has(toServer', Removes(d)) <=> Has(toServer, Removes(d))
          /\ Once(toClient, Registers(d)) => Once(toClient', Registers(d))
          /\ Once(toServer, Confirms(d)) => Once(toServer', Confirms(d))
      BY <1>14, <2>2, <2>3, <2>5
    <3> QED
      BY <1>1, <2>1, <2>4, <3>1, <3>2 DEF Life, Handles
  <2>6. CASE d = mine.id
    <3>1. Has(toClient, Registers(d)) /\ Once(toClient, Registers(d))
      BY <1>14, <2>1, <2>2, <2>6 DEF Life
    <3>2. /\ ~Has(toServer, Confirms(d)) /\ ~Has(toClient, Unregisters(d))
          /\ ~Has(toServer, Removes(d)) /\ ~Held(d) /\ d \notin Registered /\ d \in used
      BY <2>1, <3>1 DEF Life
    <3>3. /\ ~Has(toClient', Registers(d)) /\ Once(toClient', Registers(d))
          /\ Has(toServer', Confirms(d)) /\ Once(toServer', Confirms(d))
          /\ ~Has(toClient', Unregisters(d)) /\ ~Has(toServer', Removes(d))
      BY <1>14, <2>1, <2>2, <2>3, <2>6, <3>1, <3>2 DEF Life
    <3>4. ~Has(toServer, Accepts(d))
      BY <3>2 DEF Has, Accepts
    <3>5. Has(toServer', Accepts(d)) => ok
      BY <1>14, <2>3, <3>4
    <3> QED
      BY <1>1, <1>13, <2>4, <2>6, <3>2, <3>3, <3>5 DEF Life, Handles, Held
  <2> QED
    BY <2>5, <2>6
<1> QED
  BY <1>15, <1>16, <1>19, <1>20 DEF FeatureInv

\* The client lets go of the entries of an id; while it stops there are none.
LEMMA DoUnregisterKeeps ==
  ASSUME FeaturesAssumption, FeatureInv, DoUnregisterCapability PROVE FeatureInv'
<1>1. PICK request : request = Head(toClient)
  OBVIOUS
<1>2. PICK reply : reply = Reply(TRUE, request)
  OBVIOUS
<1>3. /\ feature' = feature /\ selector' = selector /\ others' = others /\ starts' = starts
      /\ used' = used /\ single' = single /\ bulk' = bulk /\ lost' = lost /\ given' = given
      /\ data' = data /\ phase' = phase /\ shown' = shown /\ toClient' = Tail(toClient)
      /\ stray' = stray /\ ignored' = ignored /\ silent' = silent
      /\ toClient # <<>> /\ request.kind = "unregister"
      /\ toServer' = Append(toServer, reply)
      /\ table' = IF request.id \in ignored THEN table ELSE Removed(request.id)
  BY <1>1, <1>2 DEF DoUnregisterCapability, client, server
<1>4. PICK f \in DOMAIN Catalog : f = feature
  BY FeatureKept
<1>5. /\ toClient \in Seq(ToClient(f)) /\ toServer \in Seq(ToServer(f))
      /\ FeatureTypeOK /\ SessionFits /\ CallsFit /\ ShownFits
  BY <1>4, Wires DEF FeatureInv
<1>6. request \in ToClient(f) /\ request \in Unregister
  BY <1>1, <1>3, <1>5, TailHas, KindToClient
<1>7. /\ reply \in Replies(f) /\ reply \in ToServer(f) /\ reply.to = request
  BY <1>2, <1>6 DEF Reply, Replies, ToServer
<1>8. /\ toClient' \in Seq(ToClient(f)) /\ toServer' \in Seq(ToServer(f))
      /\ \A P : Has(toClient, P) <=> request \in P \/ Has(toClient', P)
      /\ \A P : Once(toClient, P) => Once(toClient', P)
      /\ \A P : Has(toServer', P) <=> Has(toServer, P) \/ reply \in P
      /\ \A P : Once(toServer, P) /\ (reply \in P => ~Has(toServer, P)) => Once(toServer', P)
  BY <1>1, <1>3, <1>5, <1>7, TailHas, AppendHas
<1>9. /\ table' \subseteq table
      /\ \A i \in Registered' : i \in Registered /\ \A e \in table : e.id = i => e \in table'
      /\ \A i \in Registered : i # request.id => i \in Registered'
  BY <1>3 DEF Removed, Registered
<1>10. request.id \in DynamicIds => request.id \notin Registered'
  <2>1. CASE phase = "running"
    <3>1. ignored = {}
      BY <1>5, <2>1 DEF SessionFits
    <3> QED
      BY <1>3, <3>1 DEF Removed, Registered
  <2>2. CASE phase # "running"
    BY <1>5, <1>9, <2>2 DEF SessionFits, Registered
  <2> QED
    BY <2>1, <2>2
<1>11. FeatureTypeOK'
  <2>1. IsFiniteSet(table')
    BY <1>5, <1>9, FS_Subset DEF FeatureTypeOK
  <2> QED
    BY <1>3, <1>4, <1>5, <1>8, <1>9, <2>1 DEF FeatureTypeOK, This, Entry
<1>12. SessionFits'
  <2>1. phase # "stopped"
    BY <1>3, <1>5 DEF SessionFits
  <2>2. "auto" \in Registered' => "auto" \in Registered
    BY <1>9
  <2>3. phase' # "running" => table' = {}
    BY <1>3, <1>5, <1>9 DEF SessionFits
  <2> QED
    BY <1>3, <1>5, <2>1, <2>2, <2>3 DEF SessionFits, This
<1>13. \A d : /\ Has(toClient', Calls(d)) <=> Has(toClient, Calls(d))
              /\ Has(toServer', Calls(d)) <=> Has(toServer, Calls(d))
              /\ Has(toClient', EditorCalls(d)) <=> Has(toClient, EditorCalls(d))
              /\ Has(toServer', EditorCalls(d)) <=> Has(toServer, EditorCalls(d))
              /\ Has(toClient', {Refresh}) <=> Has(toClient, {Refresh})
  <2>1. \A d : request \notin Calls(d) \cup EditorCalls(d) \cup {Refresh}
    BY <1>6, AboutUnregister
  <2>2. \A d : reply \notin Calls(d) \cup EditorCalls(d)
    BY <1>7, AboutReply
  <2> QED
    BY <1>8, <2>1, <2>2
<1>14. CallsFit'
  <2>1. Fresh(toClient', data')
    BY <1>3, <1>5, TailFresh DEF CallsFit
  <2>2. \A i \in Registered' : Asking(i) => Asking(i)'
    BY <1>3, <1>9 DEF Asking, CanAsk, This
  <2> QED
    BY <1>3, <1>5, <1>9, <1>13, <2>1, <2>2 DEF CallsFit
<1>15. ShownFits'
  BY <1>3, <1>5, <1>9, <1>13 DEF ShownFits, This
<1>16. ASSUME NEW d \in DynamicIds PROVE Life(d)' /\ Handles(d)'
  <2>1. Life(d) /\ Handles(d)
    BY DEF FeatureInv
  <2>2. /\ request \notin Registers(d)
        /\ request \in Unregisters(d) <=> d = request.id
    BY <1>6, AboutUnregister
  <2>3. /\ reply \notin Confirms(d) /\ reply \notin Accepts(d)
        /\ reply \in Removes(d) <=> d = request.id
    BY <1>4, <1>7, <2>2, AboutReply
  <2>4. (Held(d) <=> Held(d)') /\ Uncalled(d) = Uncalled(d)'
    BY <1>3, <1>13 DEF Held, Uncalled
  <2>5. /\ Has(toClient', Registers(d)) <=> Has(toClient, Registers(d))
        /\ Has(toServer', Confirms(d)) <=> Has(toServer, Confirms(d))
        /\ Has(toServer', Accepts(d)) <=> Has(toServer, Accepts(d))
        /\ Once(toClient, Registers(d)) => Once(toClient', Registers(d))
        /\ Once(toServer, Confirms(d)) => Once(toServer', Confirms(d))
        /\ Has(toClient', Unregisters(d)) => Has(toClient, Unregisters(d))
    BY <1>8, <2>2, <2>3
  <2>6. CASE d # request.id
    <3>1. d \in Registered' <=> d \in Registered
      BY <1>9, <2>6
    <3>2. /\ Has(toClient', Unregisters(d)) <=> Has(toClient, Unregisters(d))
          /\ Has(toServer', Removes(d)) <=> Has(toServer, Removes(d))
      BY <1>8, <2>2, <2>3, <2>6
    <3> QED
      BY <1>3, <2>1, <2>4, <2>5, <3>1, <3>2 DEF Life, Handles
  <2>7. CASE d = request.id
    <3>1. Has(toClient, Unregisters(d)) /\ d \notin Registered'
      BY <1>8, <1>10, <2>2, <2>7
    <3>2. /\ ~Has(toClient, Registers(d)) /\ ~Has(toServer, Confirms(d))
          /\ d \in used /\ d \notin single
      BY <2>1, <3>1 DEF Life
    <3>3. ~Has(toServer, Accepts(d))
      BY <3>2 DEF Has, Accepts
    <3> QED
      BY <1>3, <2>1, <2>4, <2>5, <3>1, <3>2, <3>3 DEF Life, Handles
  <2> QED
    BY <2>6, <2>7
<1> QED
  BY <1>11, <1>12, <1>14, <1>15, <1>16 DEF FeatureInv
-----------------------------------------------------------------------------
(* The steps: the calls of the providers.                                   *)

\* What touches no message about a registration leaves its life as it is.
LEMMA LifeKept ==
  ASSUME NEW d \in DynamicIds, Life(d), Handles(d),
         used' = used, single' = single, bulk' = bulk, lost' = lost, silent' = silent,
         phase' = phase, Registered' = Registered,
         d \notin Registered /\ Uncalled(d) => Uncalled(d)',
         \A P \in {Registers(d), Unregisters(d)} :
            /\ Has(toClient', P) <=> Has(toClient, P)
            /\ Once(toClient, P) => Once(toClient', P),
         \A P \in {Confirms(d), Accepts(d), Removes(d)} :
            /\ Has(toServer', P) <=> Has(toServer, P)
            /\ Once(toServer, P) => Once(toServer', P)
  PROVE  Life(d)' /\ Handles(d)'
<1>1. /\ Has(toClient', Registers(d)) <=> Has(toClient, Registers(d))
      /\ Has(toClient', Unregisters(d)) <=> Has(toClient, Unregisters(d))
      /\ Has(toServer', Confirms(d)) <=> Has(toServer, Confirms(d))
      /\ Has(toServer', Accepts(d)) <=> Has(toServer, Accepts(d))
      /\ Has(toServer', Removes(d)) <=> Has(toServer, Removes(d))
      /\ Once(toClient, Registers(d)) => Once(toClient', Registers(d))
      /\ Once(toServer, Confirms(d)) => Once(toServer', Confirms(d))
  OBVIOUS
<1>2. Held(d) <=> Held(d)'
  BY DEF Held
<1> QED
  BY <1>1, <1>2 DEF Life, Handles

\* A call is of an entry that can be asked.
LEMMA ProvideKeeps == ASSUME FeaturesAssumption, FeatureInv, ProvideSome PROVE FeatureInv'
<1>1. PICK e \in table : \E a \in Requests(This.client, e.options) : Provide(e, a)
  BY DEF ProvideSome
<1>2. PICK a \in Requests(This.client, e.options) : Provide(e, a)
  BY <1>1
<1>3. PICK call : call = AskMessage(e, a)
  OBVIOUS
<1>4. /\ feature' = feature /\ selector' = selector /\ others' = others /\ starts' = starts
      /\ used' = used /\ single' = single /\ bulk' = bulk /\ lost' = lost /\ given' = given
      /\ data' = data /\ phase' = phase /\ shown' = shown /\ toClient' = toClient
      /\ stray' = stray /\ ignored' = ignored /\ silent' = silent /\ table' = table
      /\ phase = "running" /\ toServer' = Append(toServer, call)
      /\ a.on = Editor \/ shown[e.id].is = "value"
  BY <1>2, <1>3 DEF Provide, client, server
<1>5. PICK f \in DOMAIN Catalog : f = feature
  BY FeatureKept
<1>6. /\ toClient \in Seq(ToClient(f)) /\ toServer \in Seq(ToServer(f))
      /\ FeatureTypeOK /\ SessionFits /\ CallsFit /\ ShownFits
  BY <1>5, Wires DEF FeatureInv
<1>7. /\ call \in Call(f) /\ call \in ToServer(f) /\ call.id = e.id /\ call.ask = a
      /\ e.id \in Registered /\ e.id \in Ids
  <2>1. e.id \in Ids /\ e.options \in Catalog[f].protocol.options
    BY <1>5, <1>6 DEF FeatureTypeOK, This
  <2>2. a \in Catalog[f].client.asks /\ a \in Requests(Catalog[f].client, e.options)
    BY <1>5 DEF Requests, This
  <2> QED
    BY <1>3, <2>1, <2>2 DEF AskMessage, Call, ToServer, Registered
<1>8. /\ toServer' \in Seq(ToServer(f))
      /\ \A P : Has(toServer', P) <=> Has(toServer, P) \/ call \in P
      /\ \A P : Once(toServer, P) /\ (call \in P => ~Has(toServer, P)) => Once(toServer', P)
  BY <1>4, <1>6, <1>7, AppendHas
<1>9. FeatureTypeOK' /\ SessionFits'
  <2>1. Registered' = Registered
    BY <1>4 DEF Registered
  <2>2. FeatureTypeOK'
    BY <1>4, <1>5, <1>6, <1>8 DEF FeatureTypeOK, This
  <2>3. SessionFits'
    BY <1>4, <1>6, <2>1 DEF SessionFits, This
  <2> QED
    BY <2>2, <2>3
<1>10. /\ Registered' = Registered /\ \A i : Asking(i)' <=> Asking(i)
  BY <1>4 DEF Registered, Asking, CanAsk, This
<1>11. Asking(e.id)
  <2>1. CASE a.on = Editor
    BY <2>1 DEF Asking, CanAsk
  <2>2. CASE shown[e.id].is = "value"
    BY <1>6, <1>7, <2>2 DEF CallsFit
  <2> QED
    BY <1>4, <2>1, <2>2
<1>12. \A d : call \in Calls(d) => d = e.id
  BY <1>7, AboutCall
<1>13. CallsFit'
  BY <1>4, <1>6, <1>8, <1>10, <1>11, <1>12 DEF CallsFit
<1>14. ShownFits'
  BY <1>4, <1>6, <1>8, <1>10 DEF ShownFits, This
<1>15. ASSUME NEW d \in DynamicIds PROVE Life(d)' /\ Handles(d)'
  <2>1. Life(d) /\ Handles(d)
    BY DEF FeatureInv
  <2>2. call \notin Confirms(d) /\ call \notin Accepts(d) /\ call \notin Removes(d)
    BY <1>7, AboutCall DEF Accepts
  <2>3. d \notin Registered /\ Uncalled(d) => Uncalled(d)'
    BY <1>4, <1>7, <1>8, <1>12 DEF Uncalled
  <2>4. \A P \in {Confirms(d), Accepts(d), Removes(d)} :
            /\ Has(toServer', P) <=> Has(toServer, P)
            /\ Once(toServer, P) => Once(toServer', P)
    BY <1>8, <2>2
  <2> QED
    BY <1>4, <1>10, <2>1, <2>3, <2>4, LifeKept
<1> QED
  BY <1>9, <1>13, <1>14, <1>15 DEF FeatureInv

\* What is shown is from the answer, which is current or has a refresh behind it.
LEMMA OnAnswerKeeps == ASSUME FeaturesAssumption, FeatureInv, OnAnswer PROVE FeatureInv'
<1>1. PICK m : m = Head(toClient)
  OBVIOUS
<1> DEFINE outcome == IF m.code = "ok" THEN "value" ELSE HandleFailedRequest(m.ask.method, m.code)
           next == CASE outcome = "value" ->
                            [is |-> "value", data |-> m.data, of |-> m.ask.method]
                     [] outcome = "default" -> Nothing
                     [] OTHER -> [shown[m.id] EXCEPT !.is = "failed"]
<1>2. /\ feature' = feature /\ selector' = selector /\ others' = others /\ starts' = starts
      /\ used' = used /\ single' = single /\ bulk' = bulk /\ lost' = lost /\ given' = given
      /\ data' = data /\ phase' = phase /\ toServer' = toServer /\ toClient' = Tail(toClient)
      /\ stray' = stray /\ ignored' = ignored /\ silent' = silent /\ table' = table
      /\ toClient # <<>> /\ m.kind = "answer"
      /\ shown' = IF m.id \in Registered /\ m.ask.on = Editor
                  THEN [shown EXCEPT ![m.id] = next] ELSE shown
  BY <1>1 DEF OnAnswer, client, server
<1>3. PICK f \in DOMAIN Catalog : f = feature
  BY FeatureKept
<1>4. /\ toClient \in Seq(ToClient(f)) /\ toServer \in Seq(ToServer(f))
      /\ FeatureTypeOK /\ SessionFits /\ CallsFit /\ ShownFits
  BY <1>3, Wires DEF FeatureInv
<1>5. m \in ToClient(f) /\ m \in Answer(f)
  BY <1>1, <1>2, <1>4, TailHas, KindToClient
<1>6. /\ toClient' \in Seq(ToClient(f))
      /\ \A P : Has(toClient, P) <=> m \in P \/ Has(toClient', P)
      /\ \A P : Once(toClient, P) => Once(toClient', P)
  BY <1>1, <1>2, <1>4, TailHas
<1>7. /\ m.id \in Ids /\ m.data \in 0..MaxData
      /\ m.ask.method \in {a.method : a \in This.protocol.asks}
  <2>1. m.ask \in Catalog[f].client.asks /\ m.id \in Ids /\ m.data \in 0..MaxData
    BY <1>5 DEF Answer
  <2>2. Catalog[f].client.asks \subseteq Catalog[f].protocol.asks
    BY CatalogAgrees DEF Agree
  <2> QED
    BY <1>3, <2>1, <2>2 DEF This
<1> DEFINE Shows == [is : {"nothing", "value", "failed"}, data : 0..MaxData,
                     of : {Editor} \cup {a.method : a \in This.protocol.asks}]
<1>8. shown \in [Ids -> Shows] /\ shown[m.id] \in Shows
  BY <1>4, <1>7 DEF FeatureTypeOK
<1>9. next \in Shows /\ (next.is = "value" => next.data = m.data)
  <2>1. CASE outcome = "value"
    BY <1>7, <2>1
  <2>2. CASE outcome # "value" /\ outcome = "default"
    BY <2>2 DEF Nothing, FeaturesAssumption
  <2>3. CASE outcome # "value" /\ outcome # "default"
    <3>1. next = [shown[m.id] EXCEPT !.is = "failed"]
      BY <2>3
    <3> HIDE DEF next
    <3> QED
      BY <1>8, <3>1
  <2> QED
    BY <2>1, <2>2, <2>3
<1> HIDE DEF next
<1>10. /\ shown' \in [Ids -> Shows] /\ \A i \in Ids : i # m.id => shown'[i] = shown[i]
       /\ ~(m.id \in Registered /\ m.ask.on = Editor) => shown' = shown
       /\ m.id \in Registered /\ m.ask.on = Editor => shown'[m.id] = next
  <2> HIDE DEF Shows
  <2> QED
    BY <1>2, <1>7, <1>8, <1>9
<1>11. Registered' = Registered /\ Registered \subseteq Ids /\ \A i : Asking(i)' <=> Asking(i)
  BY <1>2, <1>4 DEF Registered, Asking, CanAsk, This, FeatureTypeOK
<1>12. FeatureTypeOK'
  BY <1>2, <1>3, <1>4, <1>6, <1>10 DEF FeatureTypeOK, This
<1>13. SessionFits'
  <2>1. phase # "stopped"
    BY <1>2, <1>4 DEF SessionFits
  <2>2. phase # "running" => shown' = shown
    BY <1>2, <1>4 DEF SessionFits, Registered
  <2> QED
    BY <1>2, <1>4, <1>11, <2>1, <2>2 DEF SessionFits, This
<1>14. \A d : m \in Calls(d) <=> d = m.id
  BY <1>5, AboutCall
<1>15. \A d : m \in EditorCalls(d) <=> d = m.id /\ m.ask.on = Editor
  BY <1>5, AboutCall
<1>16. m # Refresh /\ \A d : m \notin Registers(d) \cup Unregisters(d)
  BY <1>5, AboutCall
<1>17. CallsFit'
  <2>1. Fresh(toClient', data')
    BY <1>2, <1>4, TailFresh DEF CallsFit
  <2>2. ASSUME NEW i \in Registered,
               Has(toServer, Calls(i)) \/ Has(toClient', Calls(i)) \/ shown'[i].is # "nothing"
        PROVE  Asking(i)
    <3>1. CASE i = m.id
      BY <1>4, <1>6, <1>14, <3>1 DEF CallsFit
    <3>2. CASE i # m.id
      BY <1>4, <1>6, <1>10, <1>11, <2>2, <3>2 DEF CallsFit
    <3> QED
      BY <3>1, <3>2
  <2> QED
    BY <1>2, <1>11, <2>1, <2>2 DEF CallsFit
<1>18. ShownFits'
  <2> SUFFICES ASSUME NEW i \in Registered, This.client.refreshed, shown'[i].is = "value",
                      ~Has(toServer, EditorCalls(i)), ~Has(toClient', EditorCalls(i)),
                      ~Has(toClient', {Refresh})
               PROVE  shown'[i].data = data
    BY <1>2, <1>11 DEF ShownFits, This
  <2>1. CASE i = m.id /\ m.ask.on = Editor
    <3>1. m.data = data
      BY <1>1, <1>2, <1>4, <2>1, TailFresh DEF CallsFit
    <3> QED
      BY <1>9, <1>10, <2>1, <3>1
  <2>2. CASE ~(i = m.id /\ m.ask.on = Editor)
    <3>1. shown'[i] = shown[i]
      BY <1>10, <1>11, <2>2
    <3>2. ~Has(toClient, EditorCalls(i)) /\ ~Has(toClient, {Refresh})
      BY <1>6, <1>15, <1>16, <2>2
    <3> QED
      BY <1>4, <3>1, <3>2 DEF ShownFits
  <2> QED
    BY <2>1, <2>2
<1>19. ASSUME NEW d \in DynamicIds PROVE Life(d)' /\ Handles(d)'
  <2>1. Life(d) /\ Handles(d)
    BY DEF FeatureInv
  <2>2. d \notin Registered /\ Uncalled(d) => Uncalled(d)'
    BY <1>2, <1>6, <1>10 DEF Uncalled, Ids
  <2>3. \A P \in {Registers(d), Unregisters(d)} :
            /\ Has(toClient', P) <=> Has(toClient, P)
            /\ Once(toClient, P) => Once(toClient', P)
    BY <1>6, <1>16
  <2> QED
    BY <1>2, <1>11, <2>1, <2>2, <2>3, LifeKept
<1> QED
  BY <1>12, <1>13, <1>17, <1>18, <1>19 DEF FeatureInv

\* A cancelled call changes nothing.
LEMMA DropAnswerKeeps == ASSUME FeaturesAssumption, FeatureInv, DropAnswer PROVE FeatureInv'
<1>1. /\ feature' = feature /\ selector' = selector /\ others' = others /\ starts' = starts
      /\ used' = used /\ single' = single /\ bulk' = bulk /\ lost' = lost /\ given' = given
      /\ data' = data /\ phase' = phase /\ toServer' = toServer /\ toClient' = Tail(toClient)
      /\ stray' = stray /\ ignored' = ignored /\ silent' = silent /\ table' = table
      /\ shown' = shown /\ toClient # <<>> /\ Head(toClient) = Cancelled
  BY DEF DropAnswer, client, server
<1>2. PICK f \in DOMAIN Catalog : f = feature
  BY FeatureKept
<1>3. /\ toClient \in Seq(ToClient(f))
      /\ FeatureTypeOK /\ SessionFits /\ CallsFit /\ ShownFits
  BY <1>2, Wires DEF FeatureInv
<1>4. /\ toClient' \in Seq(ToClient(f))
      /\ \A P : Has(toClient, P) <=> Cancelled \in P \/ Has(toClient', P)
      /\ \A P : Once(toClient, P) => Once(toClient', P)
  BY <1>1, <1>3, TailHas
<1>5. Registered' = Registered /\ \A i : Asking(i)' <=> Asking(i)
  BY <1>1 DEF Registered, Asking, CanAsk, This
<1>6. FeatureTypeOK'
  BY <1>1, <1>2, <1>3, <1>4 DEF FeatureTypeOK, This
<1>7. SessionFits'
  <2>1. phase # "stopped"
    BY <1>1, <1>3 DEF SessionFits
  <2> QED
    BY <1>1, <1>3, <1>5, <2>1 DEF SessionFits, This
<1>8. \A d : Cancelled \notin Registers(d) \cup Unregisters(d) \cup Calls(d) \cup EditorCalls(d)
  BY AboutNothing
<1>9. Cancelled # Refresh
  BY DEF Cancelled, Refresh
<1>10. CallsFit'
  <2>1. Fresh(toClient', data')
    BY <1>1, <1>3, TailFresh DEF CallsFit
  <2> QED
    BY <1>1, <1>3, <1>4, <1>5, <1>8, <2>1 DEF CallsFit
<1>11. ShownFits'
  BY <1>1, <1>3, <1>4, <1>5, <1>8, <1>9 DEF ShownFits, This
<1>12. ASSUME NEW d \in DynamicIds PROVE Life(d)' /\ Handles(d)'
  <2>1. Life(d) /\ Handles(d)
    BY DEF FeatureInv
  <2>2. Uncalled(d) => Uncalled(d)'
    BY <1>1, <1>4, <1>8 DEF Uncalled
  <2>3. \A P \in {Registers(d), Unregisters(d)} :
            /\ Has(toClient', P) <=> Has(toClient, P)
            /\ Once(toClient, P) => Once(toClient', P)
    BY <1>4, <1>8
  <2> QED
    BY <1>1, <1>5, <2>1, <2>2, <2>3, LifeKept
<1> QED
  BY <1>6, <1>7, <1>10, <1>11, <1>12 DEF FeatureInv

\* A refresh: the calls under way of the providers that can be asked are
\* cancelled, and each is asked anew.
LEMMA OnRefreshKeeps == ASSUME FeaturesAssumption, FeatureInv, OnRefresh PROVE FeatureInv'
<1>1. PICK ids : ids = {e.id : e \in Fired}
  OBVIOUS
<1>2. PICK news : news = {AskMessage(e, FirstAsk(e)) : e \in Fired}
  OBVIOUS
<1>3. PICK asks : asks = SetToSeq(news)
  OBVIOUS
<1>4. /\ feature' = feature /\ selector' = selector /\ others' = others /\ starts' = starts
      /\ used' = used /\ single' = single /\ bulk' = bulk /\ lost' = lost /\ given' = given
      /\ data' = data /\ phase' = phase /\ shown' = shown
      /\ stray' = stray /\ ignored' = ignored /\ silent' = silent /\ table' = table
      /\ toClient # <<>> /\ Head(toClient).kind = "refresh"
      /\ toServer' = WithCancelled(toServer, ids) \o asks
      /\ toClient' = WithCancelled(Tail(toClient), ids)
  BY <1>1, <1>2, <1>3 DEF OnRefresh, client, server
<1>5. PICK f \in DOMAIN Catalog : f = feature
  BY FeatureKept
<1>6. /\ toClient \in Seq(ToClient(f)) /\ toServer \in Seq(ToServer(f))
      /\ Cancelled \in ToClient(f) /\ Cancelled \in ToServer(f)
      /\ FeatureTypeOK /\ SessionFits /\ CallsFit /\ ShownFits
  BY <1>5, Wires DEF FeatureInv
\* The new calls.
<1>7. \A e \in Fired : /\ e \in table /\ e.id \in Ids /\ e.id \in Registered
                       /\ AskMessage(e, FirstAsk(e)) \in Call(f)
                       /\ AskMessage(e, FirstAsk(e)) \in EditorCalls(e.id)
                       /\ AskMessage(e, FirstAsk(e)).id = e.id /\ Asking(e.id)
  <2> SUFFICES ASSUME NEW e \in Fired
               PROVE  /\ e \in table /\ e.id \in Ids /\ e.id \in Registered
                      /\ AskMessage(e, FirstAsk(e)) \in Call(f)
                      /\ AskMessage(e, FirstAsk(e)) \in EditorCalls(e.id)
                      /\ AskMessage(e, FirstAsk(e)).id = e.id /\ Asking(e.id)
    OBVIOUS
  <2>1. e \in table /\ \E a \in Requests(This.client, e.options) : a.on = Editor
    BY DEF Fired, CanAsk
  <2>2. e.id \in Ids /\ e.options \in Catalog[f].protocol.options
    BY <1>5, <1>6, <2>1 DEF FeatureTypeOK, This
  <2>3. FirstAsk(e) \in Requests(This.client, e.options) /\ FirstAsk(e).on = Editor
    BY <2>1 DEF FirstAsk
  <2>4. FirstAsk(e) \in Catalog[f].client.asks
        /\ FirstAsk(e) \in Requests(Catalog[f].client, e.options)
    BY <1>5, <2>3 DEF Requests, This
  <2>5. PICK a : a = FirstAsk(e)
    OBVIOUS
  <2>6. AskMessage(e, a) \in Call(f) /\ AskMessage(e, a).id = e.id /\ AskMessage(e, a).ask = a
    BY <2>2, <2>4, <2>5 DEF AskMessage, Call
  <2>7. AskMessage(e, a) \in EditorCalls(e.id)
    BY <2>3, <2>5, <2>6, AboutCall
  <2> QED
    BY <2>1, <2>2, <2>5, <2>6, <2>7 DEF Asking, Fired, Registered
<1>8. /\ news \subseteq Call(f) /\ IsFiniteSet(news)
      /\ \A m \in news : \E e \in Fired : m.id = e.id
      /\ \A e \in Fired : \E m \in news : m \in EditorCalls(e.id)
  <2>1. news \subseteq Call(f) /\ \A m \in news : \E e \in Fired : m.id = e.id
    BY <1>2, <1>7
  <2>2. \A e \in Fired : \E m \in news : m \in EditorCalls(e.id)
    BY <1>2, <1>7
  <2>3. IsFiniteSet(news)
    <3>1. IsFiniteSet(Fired)
      BY <1>6, FS_Subset DEF Fired, CanAsk, FeatureTypeOK
    <3> DEFINE g == [e \in Fired |-> AskMessage(e, FirstAsk(e))]
    <3>2. g \in [Fired -> news] /\ \A m \in news : \E e \in Fired : g[e] = m
      BY <1>2
    <3> HIDE DEF g
    <3>3. g \in Surjection(Fired, news)
      BY <3>2 DEF Surjection
    <3> QED
      BY <3>1, <3>3, FS_Surjection
  <2> QED
    BY <2>1, <2>2, <2>3
<1>9. /\ asks \in Seq(ToServer(f))
      /\ \A P : Has(asks, P) <=> \E m \in news : m \in P
  <2>1. asks \in Seq(news) /\ \A m \in news : \E i \in 1..Len(asks) : asks[i] = m
    BY <1>3, <1>8, SetToSeqElements
  <2>2. DOMAIN asks = 1..Len(asks) /\ \A i \in 1..Len(asks) : asks[i] \in news
    BY <2>1
  <2>3. asks \in Seq(ToServer(f))
    BY <1>8, <2>1 DEF ToServer
  <2> QED
    BY <2>1, <2>2, <2>3 DEF Has
\* What the wires become.
<1>10. \A P : (\A m \in P : \A id \in ids : ~EditorAsks(m, id)) /\ Cancelled \notin P =>
          /\ Has(toClient', P) <=> Has(Tail(toClient), P)
          /\ Once(Tail(toClient), P) => Once(toClient', P)
          /\ Has(WithCancelled(toServer, ids), P) <=> Has(toServer, P)
          /\ Once(toServer, P) => Once(WithCancelled(toServer, ids), P)
  <2>1. Tail(toClient) \in Seq(ToClient(f))
    BY <1>4, <1>6, TailHas
  <2> QED
    BY <1>4, <1>6, <2>1, CancelledHas
<1>11. /\ toClient' \in Seq(ToClient(f)) /\ toServer' \in Seq(ToServer(f))
       /\ \A P : Cancelled \notin P /\ Has(toClient', P) => Has(toClient, P)
       /\ \A P : Cancelled \notin P /\ Has(toServer', P) => Has(toServer, P) \/ Has(asks, P)
       /\ \A P : Has(asks, P) => Has(toServer', P)
  <2>1. /\ Tail(toClient) \in Seq(ToClient(f))
        /\ \A P : Has(Tail(toClient), P) => Has(toClient, P)
    BY <1>4, <1>6, TailHas
  <2>2. /\ toClient' \in Seq(ToClient(f))
        /\ \A P : Cancelled \notin P /\ Has(toClient', P) => Has(Tail(toClient), P)
    BY <1>4, <1>6, <2>1, CancelledHas
  <2>3. /\ WithCancelled(toServer, ids) \in Seq(ToServer(f))
        /\ \A P : Cancelled \notin P /\ Has(WithCancelled(toServer, ids), P) => Has(toServer, P)
    BY <1>6, CancelledHas
  <2>4. /\ toServer' \in Seq(ToServer(f))
        /\ \A P : Has(toServer', P) <=> Has(WithCancelled(toServer, ids), P) \/ Has(asks, P)
    BY <1>4, <1>9, <2>3, ConcatHas
  <2> QED
    BY <2>1, <2>2, <2>3, <2>4
<1>12. Registered' = Registered /\ \A i : Asking(i)' <=> Asking(i)
  BY <1>4 DEF Registered, Asking, CanAsk, This
<1>13. FeatureTypeOK' /\ SessionFits'
  <2>1. FeatureTypeOK'
    BY <1>4, <1>5, <1>6, <1>11 DEF FeatureTypeOK, This
  <2>2. phase # "stopped"
    BY <1>4, <1>6 DEF SessionFits
  <2>3. SessionFits'
    BY <1>4, <1>6, <1>12, <2>2 DEF SessionFits, This
  <2> QED
    BY <2>1, <2>3
<1>14. CallsFit'
  <2>1. Fresh(toClient', data')
    <3>1. Tail(toClient) \in Seq(ToClient(f)) /\ Fresh(Tail(toClient), data)
      BY <1>4, <1>6, TailHas, TailFresh DEF CallsFit
    <3> QED
      BY <1>4, <3>1, CancelledFresh
  <2>2. ASSUME NEW i \in Registered,
               Has(toServer', Calls(i)) \/ Has(toClient', Calls(i)) \/ shown[i].is # "nothing"
        PROVE  Asking(i)
    <3>1. Cancelled \notin Calls(i)
      BY AboutNothing
    <3>2. CASE Has(asks, Calls(i))
      <4>1. PICK m \in news : m \in Calls(i)
        BY <1>9, <3>2
      <4>2. m.id = i
        BY <1>8, <4>1, AboutCall
      <4> QED
        BY <1>7, <1>8, <4>1, <4>2
    <3>3. CASE ~Has(asks, Calls(i))
      <4>1. Has(toServer, Calls(i)) \/ Has(toClient, Calls(i)) \/ shown[i].is # "nothing"
        BY <1>11, <2>2, <3>1, <3>3
      <4> QED
        BY <1>6, <4>1 DEF CallsFit
    <3> QED
      BY <3>2, <3>3
  <2> QED
    BY <1>4, <1>12, <2>1, <2>2 DEF CallsFit
<1>15. ShownFits'
  <2> SUFFICES ASSUME NEW i \in Registered, shown[i].is = "value"
               PROVE  Has(toServer', EditorCalls(i))
    BY <1>4, <1>12 DEF ShownFits
  <2>1. PICK e \in Fired : e.id = i
    BY <1>6 DEF CallsFit, Asking, Fired
  <2> QED
    BY <1>8, <1>9, <1>11, <2>1
<1>16. ASSUME NEW d \in DynamicIds PROVE Life(d)' /\ Handles(d)'
  <2>1. Life(d) /\ Handles(d)
    BY DEF FeatureInv
  <2>2. d \notin Registered /\ Uncalled(d) => Uncalled(d)'
    <3>1. Cancelled \notin Calls(d)
      BY AboutNothing
    <3>2. d \notin Registered => ~Has(asks, Calls(d))
      BY <1>7, <1>8, <1>9, AboutCall
    <3> QED
      BY <1>4, <1>11, <3>1, <3>2 DEF Uncalled
  <2>3. /\ \A P \in {Registers(d), Unregisters(d), Confirms(d), Accepts(d), Removes(d)} :
              (\A m \in P : \A id \in ids : ~EditorAsks(m, id)) /\ Cancelled \notin P
        /\ Refresh \notin Registers(d) \cup Unregisters(d)
    BY DEF EditorAsks, Registers, Names, Unregisters, Confirms, Accepts, Removes, Cancelled,
           Refresh
  <2>4. \A P \in {Registers(d), Unregisters(d)} :
            /\ Has(toClient', P) <=> Has(toClient, P)
            /\ Once(toClient, P) => Once(toClient', P)
    <3>1. Head(toClient) = Refresh
      <4>1. Head(toClient) \in ToClient(f)
        BY <1>4, <1>6, TailHas
      <4> QED
        BY <1>4, <4>1, KindToClient
    <3>2. \A P \in {Registers(d), Unregisters(d)} :
            /\ Has(Tail(toClient), P) <=> Has(toClient, P)
            /\ Once(toClient, P) => Once(Tail(toClient), P)
      BY <1>4, <1>6, <2>3, <3>1, TailHas
    <3> QED
      BY <1>10, <2>3, <3>2
  <2>5. \A P \in {Confirms(d), Accepts(d), Removes(d)} :
            /\ Has(toServer', P) <=> Has(toServer, P)
            /\ Once(toServer, P) => Once(toServer', P)
    <3>1. \A P \in {Confirms(d), Accepts(d), Removes(d)} : ~Has(asks, P)
      <4>1. \A m \in news : m \notin Confirms(d) \cup Accepts(d) \cup Removes(d)
        BY <1>8, AboutCall DEF Accepts
      <4> QED
        BY <1>9, <4>1
    <3>2. WithCancelled(toServer, ids) \in Seq(ToServer(f))
      BY <1>6, CancelledHas
    <3> QED
      BY <1>4, <1>9, <1>10, <2>3, <3>1, <3>2, ConcatHas
  <2> QED
    BY <1>4, <1>12, <2>1, <2>2, <2>4, <2>5, LifeKept
<1> QED
  BY <1>13, <1>14, <1>15, <1>16 DEF FeatureInv
-----------------------------------------------------------------------------
(* The steps: the server.                                                   *)

\* An answer has the data of now.
LEMMA AnswerKeeps == ASSUME FeaturesAssumption, FeatureInv, AnswerSome PROVE FeatureInv'
<1>1. PICK code \in {"ok", "ServerCancelled", "ContentModified", "InternalError"} :
         ServerAnswers(code)
  BY DEF AnswerSome
<1>2. PICK m : m = Head(toServer)
  OBVIOUS
<1>3. PICK answer : answer = [kind |-> "answer", ask |-> m.ask, id |-> m.id,
                              code |-> code, data |-> data]
  OBVIOUS
<1>4. /\ feature' = feature /\ selector' = selector /\ others' = others /\ starts' = starts
      /\ used' = used /\ single' = single /\ bulk' = bulk /\ lost' = lost /\ given' = given
      /\ data' = data /\ phase' = phase /\ shown' = shown
      /\ stray' = stray /\ ignored' = ignored /\ silent' = silent /\ table' = table
      /\ toServer # <<>> /\ m.kind = "ask"
      /\ toServer' = Tail(toServer) /\ toClient' = Append(toClient, answer)
  BY <1>1, <1>2, <1>3 DEF ServerAnswers, client, server
<1>5. PICK f \in DOMAIN Catalog : f = feature
  BY FeatureKept
<1>6. /\ toClient \in Seq(ToClient(f)) /\ toServer \in Seq(ToServer(f))
      /\ FeatureTypeOK /\ SessionFits /\ CallsFit /\ ShownFits
  BY <1>5, Wires DEF FeatureInv
<1>7. m \in ToServer(f) /\ m \in Call(f)
  BY <1>2, <1>4, <1>6, TailHas, KindToServer
<1>8. /\ answer \in Answer(f) /\ answer \in ToClient(f) /\ answer.data = data
      /\ answer.id = m.id /\ answer.ask = m.ask
  <2>1. data \in 0..MaxData /\ m.ask \in Catalog[f].client.asks /\ m.id \in Ids
    BY <1>6, <1>7, AboutCall DEF FeatureTypeOK
  <2> QED
    BY <1>3, <2>1 DEF Answer, ToClient
<1>9. /\ toServer' \in Seq(ToServer(f)) /\ toClient' \in Seq(ToClient(f))
      /\ \A P : Has(toServer, P) <=> m \in P \/ Has(toServer', P)
      /\ \A P : Once(toServer, P) => Once(toServer', P)
      /\ \A P : Has(toClient', P) <=> Has(toClient, P) \/ answer \in P
      /\ \A P : Once(toClient, P) /\ (answer \in P => ~Has(toClient, P)) => Once(toClient', P)
  BY <1>2, <1>4, <1>6, <1>8, TailHas, AppendHas
<1>10. Registered' = Registered /\ \A i : Asking(i)' <=> Asking(i)
  BY <1>4 DEF Registered, Asking, CanAsk, This
<1>11. \A d : /\ answer \in Calls(d) <=> m \in Calls(d)
              /\ answer \in EditorCalls(d) <=> m \in EditorCalls(d)
              /\ m \notin Confirms(d) \cup Removes(d)
              /\ answer \notin Registers(d) \cup Unregisters(d) \cup {Refresh}
  BY <1>7, <1>8, AboutCall
<1>12. FeatureTypeOK' /\ SessionFits'
  <2>1. phase # "stopped"
    BY <1>4, <1>6 DEF SessionFits
  <2>2. SessionFits'
    BY <1>4, <1>6, <1>10, <2>1 DEF SessionFits, This
  <2>3. FeatureTypeOK'
    BY <1>4, <1>5, <1>6, <1>9 DEF FeatureTypeOK, This
  <2> QED
    BY <2>2, <2>3
<1>13. CallsFit' /\ ShownFits'
  <2>1. Fresh(toClient', data')
    BY <1>4, <1>6, <1>8, AppendFresh DEF CallsFit
  <2>2. CallsFit'
    BY <1>4, <1>6, <1>9, <1>10, <1>11, <2>1 DEF CallsFit
  <2>3. ShownFits'
    BY <1>4, <1>6, <1>9, <1>10, <1>11 DEF ShownFits, This
  <2> QED
    BY <2>2, <2>3
<1>14. ASSUME NEW d \in DynamicIds PROVE Life(d)' /\ Handles(d)'
  <2>1. Life(d) /\ Handles(d)
    BY DEF FeatureInv
  <2>2. Uncalled(d) => Uncalled(d)'
    BY <1>4, <1>9, <1>11 DEF Uncalled
  <2>3. \A P \in {Registers(d), Unregisters(d)} :
            /\ Has(toClient', P) <=> Has(toClient, P)
            /\ Once(toClient, P) => Once(toClient', P)
    BY <1>9, <1>11
  <2>4. \A P \in {Confirms(d), Accepts(d), Removes(d)} :
            /\ Has(toServer', P) <=> Has(toServer, P)
            /\ Once(toServer, P) => Once(toServer', P)
    BY <1>9, <1>11 DEF Accepts
  <2> QED
    BY <1>4, <1>10, <2>1, <2>2, <2>3, <2>4, LifeKept
<1> QED
  BY <1>12, <1>13, <1>14 DEF FeatureInv

\* A cancelled call travels back.
LEMMA AnswersCancelledKeeps ==
  ASSUME FeaturesAssumption, FeatureInv, AnswersCancelled PROVE FeatureInv'
<1>1. /\ feature' = feature /\ selector' = selector /\ others' = others /\ starts' = starts
      /\ used' = used /\ single' = single /\ bulk' = bulk /\ lost' = lost /\ given' = given
      /\ data' = data /\ phase' = phase /\ shown' = shown
      /\ stray' = stray /\ ignored' = ignored /\ silent' = silent /\ table' = table
      /\ toServer # <<>> /\ Head(toServer) = Cancelled
      /\ toServer' = Tail(toServer) /\ toClient' = Append(toClient, Cancelled)
  BY DEF AnswersCancelled, client, server
<1>2. PICK f \in DOMAIN Catalog : f = feature
  BY FeatureKept
<1>3. /\ toClient \in Seq(ToClient(f)) /\ toServer \in Seq(ToServer(f))
      /\ Cancelled \in ToClient(f)
      /\ FeatureTypeOK /\ SessionFits /\ CallsFit /\ ShownFits
  BY <1>2, Wires DEF FeatureInv
<1>4. /\ toServer' \in Seq(ToServer(f)) /\ toClient' \in Seq(ToClient(f))
      /\ \A P : Has(toServer, P) <=> Cancelled \in P \/ Has(toServer', P)
      /\ \A P : Once(toServer, P) => Once(toServer', P)
      /\ \A P : Has(toClient', P) <=> Has(toClient, P) \/ Cancelled \in P
      /\ \A P : Once(toClient, P) /\ (Cancelled \in P => ~Has(toClient, P))
                    => Once(toClient', P)
  BY <1>1, <1>3, TailHas, AppendHas
<1>5. Registered' = Registered /\ \A i : Asking(i)' <=> Asking(i)
  BY <1>1 DEF Registered, Asking, CanAsk, This
<1>6. /\ \A d : Cancelled \notin Registers(d) \cup Confirms(d) \cup Unregisters(d) \cup Removes(d)
                                 \cup Calls(d) \cup EditorCalls(d)
      /\ Cancelled # Refresh /\ Cancelled.kind # "answer"
  BY AboutNothing DEF Cancelled, Refresh
<1>7. FeatureTypeOK' /\ SessionFits'
  <2>1. phase # "stopped"
    BY <1>1, <1>3 DEF SessionFits
  <2>2. SessionFits'
    BY <1>1, <1>3, <1>5, <2>1 DEF SessionFits, This
  <2>3. FeatureTypeOK'
    BY <1>1, <1>2, <1>3, <1>4 DEF FeatureTypeOK, This
  <2> QED
    BY <2>2, <2>3
<1>8. CallsFit' /\ ShownFits'
  <2>1. Fresh(toClient', data')
    BY <1>1, <1>3, <1>6, AppendFresh DEF CallsFit
  <2>2. CallsFit'
    BY <1>1, <1>3, <1>4, <1>5, <1>6, <2>1 DEF CallsFit
  <2>3. ShownFits'
    BY <1>1, <1>3, <1>4, <1>5, <1>6 DEF ShownFits, This
  <2> QED
    BY <2>2, <2>3
<1>9. ASSUME NEW d \in DynamicIds PROVE Life(d)' /\ Handles(d)'
  <2>1. Life(d) /\ Handles(d)
    BY DEF FeatureInv
  <2>2. Uncalled(d) => Uncalled(d)'
    BY <1>1, <1>4, <1>6 DEF Uncalled
  <2>3. \A P \in {Registers(d), Unregisters(d)} :
            /\ Has(toClient', P) <=> Has(toClient, P)
            /\ Once(toClient, P) => Once(toClient', P)
    BY <1>4, <1>6
  <2>4. \A P \in {Confirms(d), Accepts(d), Removes(d)} :
            /\ Has(toServer', P) <=> Has(toServer, P)
            /\ Once(toServer, P) => Once(toServer', P)
    BY <1>4, <1>6 DEF Accepts
  <2> QED
    BY <1>1, <1>5, <2>1, <2>2, <2>3, <2>4, LifeKept
<1> QED
  BY <1>7, <1>8, <1>9 DEF FeatureInv

\* With the data changes a refresh is put behind all answers.
LEMMA ServerChangesKeeps ==
  ASSUME FeaturesAssumption, FeatureInv, ServerChanges PROVE FeatureInv'
<1>1. /\ feature' = feature /\ selector' = selector /\ others' = others /\ starts' = starts
      /\ used' = used /\ single' = single /\ bulk' = bulk /\ lost' = lost /\ given' = given
      /\ data' = data + 1 /\ data < MaxData /\ phase' = phase /\ shown' = shown
      /\ stray' = stray /\ ignored' = ignored /\ silent' = silent /\ table' = table
      /\ toServer' = toServer /\ toClient' = Append(toClient, Refresh)
      /\ phase = "running"
  BY DEF ServerChanges, client, Refresh
<1>2. PICK f \in DOMAIN Catalog : f = feature
  BY FeatureKept
<1>3. /\ toClient \in Seq(ToClient(f)) /\ Refresh \in ToClient(f)
      /\ FeatureTypeOK /\ SessionFits /\ CallsFit /\ ShownFits
  BY <1>2, Wires DEF FeatureInv
<1>4. /\ toClient' \in Seq(ToClient(f))
      /\ \A P : Has(toClient', P) <=> Has(toClient, P) \/ Refresh \in P
      /\ \A P : Once(toClient, P) /\ (Refresh \in P => ~Has(toClient, P)) => Once(toClient', P)
  BY <1>1, <1>3, AppendHas
<1>5. Registered' = Registered /\ \A i : Asking(i)' <=> Asking(i)
  BY <1>1 DEF Registered, Asking, CanAsk, This
<1>6. \A d : Refresh \notin Registers(d) \cup Unregisters(d) \cup Calls(d)
  BY AboutNothing
<1>7. FeatureTypeOK' /\ SessionFits'
  <2>1. data' \in 0..MaxData
    BY <1>1, <1>3 DEF FeatureTypeOK, FeaturesAssumption
  <2>2. SessionFits'
    BY <1>1, <1>3, <1>5 DEF SessionFits, This
  <2>3. FeatureTypeOK'
    BY <1>1, <1>2, <1>3, <1>4, <2>1 DEF FeatureTypeOK, This
  <2> QED
    BY <2>2, <2>3
<1>8. CallsFit' /\ ShownFits'
  <2>1. Fresh(toClient', data')
    BY <1>1, <1>3, RefreshFresh
  <2>2. CallsFit'
    BY <1>1, <1>3, <1>4, <1>5, <1>6, <2>1 DEF CallsFit
  <2>3. ShownFits'
    BY <1>4 DEF ShownFits
  <2> QED
    BY <2>2, <2>3
<1>9. ASSUME NEW d \in DynamicIds PROVE Life(d)' /\ Handles(d)'
  <2>1. Life(d) /\ Handles(d)
    BY DEF FeatureInv
  <2>2. Uncalled(d) => Uncalled(d)'
    BY <1>1, <1>4, <1>6 DEF Uncalled
  <2>3. \A P \in {Registers(d), Unregisters(d)} :
            /\ Has(toClient', P) <=> Has(toClient, P)
            /\ Once(toClient, P) => Once(toClient', P)
    BY <1>4, <1>6
  <2> QED
    BY <1>1, <1>5, <2>1, <2>2, <2>3, LifeKept
<1> QED
  BY <1>7, <1>8, <1>9 DEF FeatureInv

\* A registration the server sends is of an id it has not used.
LEMMA RegisterKeeps == ASSUME FeaturesAssumption, FeatureInv, RegisterSome PROVE FeatureInv'
<1>1. PICK id \in NewId, options \in This.protocol.options, own \in Selectors :
         \/ \E via \in {"one", "bulk"} : RegisterSingle(id, via, options, own)
         \/ \E first \in BOOLEAN : RegisterMany(id, first, options, own)
  BY DEF RegisterSome
<1>2. PICK f \in DOMAIN Catalog : f = feature
  BY FeatureKept
<1>3. /\ toClient \in Seq(ToClient(f))
      /\ FeatureTypeOK /\ SessionFits /\ CallsFit /\ ShownFits
  BY <1>2, Wires DEF FeatureInv
<1>4. id \in DynamicIds /\ id \notin used /\ own \in BOOLEAN
  BY <1>1, <1>3 DEF NewId, Selectors, FeatureTypeOK
<1>5. PICK mine : mine = Registration(id, This.protocol.method, options, own)
  OBVIOUS
<1>6. PICK unknown : unknown = Registration("other", Moniker.method, {}, own)
  OBVIOUS
<1>7. mine \in Own(f) /\ mine.id = id /\ unknown \in Foreign
  BY <1>1, <1>2, <1>4, <1>5, <1>6 DEF Registration, Own, Foreign, This
<1> DEFINE Sends(m) ==
         /\ feature' = feature /\ selector' = selector /\ others' = others /\ starts' = starts
         /\ used' = used \cup {id} /\ single' = single /\ bulk' = bulk /\ lost' = lost
         /\ given' = given /\ data' = data /\ phase' = phase /\ shown' = shown
         /\ stray' = stray /\ ignored' = ignored /\ silent' = silent /\ table' = table
         /\ toServer' = toServer /\ toClient' = Append(toClient, m)
         /\ phase # "stopped" /\ Names(m, id)
<1>8. \E m \in Register(f) : Sends(m)
  <2>1. ASSUME NEW via \in {"one", "bulk"}, RegisterSingle(id, via, options, own)
        PROVE  \E m \in Register(f) : Sends(m)
    <3>1. PICK m : m = [kind |-> "register", list |-> <<mine>>, via |-> via]
      OBVIOUS
    <3>2. m \in Register(f)
      BY <1>7, <3>1 DEF Register, Alone
    <3>3. Names(m, id)
      <4>1. 1 \in DOMAIN m.list /\ m.list[1] = mine
        BY <3>1
      <4> QED
        BY <1>7, <3>1, <4>1 DEF Names
    <3>4. Sends(m)
      BY <1>5, <2>1, <3>1, <3>3 DEF RegisterSingle, SendRegister, client
    <3> QED
      BY <3>2, <3>4
  <2>2. ASSUME NEW first \in BOOLEAN, RegisterMany(id, first, options, own)
        PROVE  \E m \in Register(f) : Sends(m)
    <3>1. PICK list : list = IF first THEN <<mine, unknown>> ELSE <<unknown, mine>>
      OBVIOUS
    <3>2. PICK m : m = [kind |-> "register", list |-> list, via |-> "many"]
      OBVIOUS
    <3>3. list \in Paired(f)
      BY <1>7, <3>1 DEF Paired
    <3>4. m \in Register(f)
      BY <3>2, <3>3 DEF Register
    <3>5. Names(m, id)
      <4>1. \E k \in DOMAIN list : list[k] = mine
        <5>1. CASE first
          <6>1. 1 \in DOMAIN list /\ list[1] = mine
            BY <3>1, <5>1
          <6> QED
            BY <6>1
        <5>2. CASE ~first
          <6>1. 2 \in DOMAIN list /\ list[2] = mine
            BY <3>1, <5>2
          <6> QED
            BY <6>1
        <5> QED
          BY <5>1, <5>2
      <4> QED
        BY <1>7, <3>2, <4>1 DEF Names
    <3>6. toClient' = Append(toClient, m) /\ phase # "stopped"
      BY <1>5, <1>6, <2>2, <3>1, <3>2 DEF RegisterMany, SendRegister
    <3>7. Sends(m)
      BY <2>2, <3>5, <3>6 DEF RegisterMany, client
    <3> QED
      BY <3>4, <3>7
  <2> QED
    <3> HIDE DEF Sends
    <3> QED
      BY <1>1, <2>1, <2>2
<1>9. PICK m \in Register(f) : Sends(m)
  BY <1>8
<1>10. /\ m \in ToClient(f) /\ m.kind = "register"
       /\ \A d \in DynamicIds : m \in Registers(d) <=> d = id
       /\ \A d : m \notin Unregisters(d) \cup Calls(d) \cup EditorCalls(d) \cup {Refresh}
  <2>1. \A d \in DynamicIds : Names(m, d) <=> d = id
    BY <1>2, <1>4, <1>9, RegisterNames
  <2> QED
    BY <2>1, AboutRegister DEF ToClient
<1>11. /\ toClient' \in Seq(ToClient(f))
       /\ \A P : Has(toClient', P) <=> Has(toClient, P) \/ m \in P
       /\ \A P : Once(toClient, P) /\ (m \in P => ~Has(toClient, P)) => Once(toClient', P)
  BY <1>3, <1>9, <1>10, AppendHas
<1>12. Registered' = Registered /\ \A i : Asking(i)' <=> Asking(i)
  BY <1>9 DEF Registered, Asking, CanAsk, This
<1>13. FeatureTypeOK' /\ SessionFits'
  <2>1. /\ used' \subseteq DynamicIds /\ single' \subseteq used' /\ bulk' \in used' \cup {None}
    BY <1>3, <1>4, <1>9 DEF FeatureTypeOK
  <2>2. SessionFits'
    BY <1>3, <1>9, <1>12 DEF SessionFits, This
  <2>3. FeatureTypeOK'
    BY <1>2, <1>3, <1>9, <1>11, <2>1 DEF FeatureTypeOK, This
  <2> QED
    BY <2>2, <2>3
<1>14. CallsFit' /\ ShownFits'
  <2>1. Fresh(toClient', data')
    BY <1>3, <1>9, <1>10, AppendFresh DEF CallsFit
  <2>2. CallsFit'
    BY <1>3, <1>9, <1>10, <1>11, <1>12, <2>1 DEF CallsFit
  <2>3. ShownFits'
    BY <1>3, <1>9, <1>10, <1>11, <1>12 DEF ShownFits, This
  <2> QED
    BY <2>2, <2>3
<1>15. ASSUME NEW d \in DynamicIds PROVE Life(d)' /\ Handles(d)'
  <2>1. Life(d) /\ Handles(d)
    BY DEF FeatureInv
  <2>2. Uncalled(d) <=> Uncalled(d)'
    BY <1>9, <1>10, <1>11 DEF Uncalled
  <2>3. /\ Has(toClient', Unregisters(d)) <=> Has(toClient, Unregisters(d))
        /\ Has(toClient', Registers(d)) <=> Has(toClient, Registers(d)) \/ d = id
    BY <1>10, <1>11
  <2>4. Held(d) <=> Held(d)'
    BY <1>9 DEF Held
  <2>5. CASE d = id
    <3>1. ~Has(toClient, Registers(d))
      BY <1>4, <2>1, <2>5 DEF Life
    <3>2. Once(toClient', Registers(d))
      BY <1>11, <2>1, <3>1 DEF Life
    <3> QED
      BY <1>4, <1>9, <1>12, <2>1, <2>2, <2>3, <2>4, <2>5, <3>2 DEF Life, Handles
  <2>6. CASE d # id
    <3>1. Once(toClient', Registers(d))
      BY <1>10, <1>11, <2>1, <2>6 DEF Life
    <3> QED
      BY <1>9, <1>12, <2>1, <2>2, <2>3, <2>4, <2>6, <3>1 DEF Life, Handles
  <2> QED
    BY <2>5, <2>6
<1> QED
  BY <1>13, <1>14, <1>15 DEF FeatureInv

\* A handle the server disposes, and the id of a capability it takes back.
LEMMA DisposeKeeps ==
  ASSUME FeaturesAssumption, FeatureInv, Dispose \/ UnregisterStatic PROVE FeatureInv'
<1>1. PICK f \in DOMAIN Catalog : f = feature
  BY FeatureKept
<1>2. /\ toClient \in Seq(ToClient(f))
      /\ FeatureTypeOK /\ SessionFits /\ CallsFit /\ ShownFits
  BY <1>1, Wires DEF FeatureInv
<1> DEFINE Sends(id, via) ==
             /\ feature' = feature /\ selector' = selector /\ others' = others
             /\ starts' = starts /\ used' = used /\ bulk' = bulk /\ lost' = lost
             /\ data' = data /\ phase' = phase /\ shown' = shown
             /\ stray' = stray /\ ignored' = ignored /\ silent' = silent /\ table' = table
             /\ toServer' = toServer /\ phase # "stopped"
             /\ toClient' = Append(toClient, [kind |-> "unregister", id |-> id, via |-> via])
           Gives(id) ==
             \/ id \in single /\ single' = single \ {id} /\ given' = given
             \/ id = bulk /\ bulk # None /\ single' = single /\ given' = given
             \/ id = "static" /\ single' = single /\ given' = FALSE
<1>3. \E id \in DynamicIds \cup {"static"}, via \in {"handle", "all", "one"} :
         Sends(id, via) /\ Gives(id)
  <2>1. CASE \E id \in single : DisposeHandle(id)
    <3>1. PICK id \in single : DisposeHandle(id)
      BY <2>1
    <3>2. id \in DynamicIds
      BY <1>2 DEF FeatureTypeOK
    <3>3. Sends(id, "handle") /\ Gives(id)
      BY <3>1 DEF DisposeHandle, SendUnregister, client
    <3> QED
      BY <3>2, <3>3
  <2>2. CASE DisposeBulk
    <3>1. bulk \in DynamicIds
      BY <1>2, <2>2 DEF FeatureTypeOK, DisposeBulk
    <3>2. Sends(bulk, "all") /\ Gives(bulk)
      BY <2>2 DEF DisposeBulk, SendUnregister, client, server
    <3> HIDE DEF Sends, Gives
    <3> QED
      BY <3>1, <3>2
  <2>3. CASE DisposeSingle
    <3>1. bulk \in DynamicIds
      BY <1>2, <2>3 DEF FeatureTypeOK, DisposeSingle
    <3>2. Sends(bulk, "one") /\ Gives(bulk)
      BY <2>3 DEF DisposeSingle, SendUnregister, client, server
    <3> HIDE DEF Sends, Gives
    <3> QED
      BY <3>1, <3>2
  <2>4. CASE UnregisterStatic
    <3>1. Sends("static", "handle") /\ Gives("static")
      BY <2>4 DEF UnregisterStatic, SendUnregister, client
    <3> HIDE DEF Sends, Gives
    <3> QED
      BY <3>1
  <2> QED
    BY <2>1, <2>2, <2>3, <2>4 DEF Dispose
<1>4. PICK id \in DynamicIds \cup {"static"}, via \in {"handle", "all", "one"} :
         Sends(id, via) /\ Gives(id)
  BY <1>3
<1>5. PICK m : m = [kind |-> "unregister", id |-> id, via |-> via]
  OBVIOUS
<1>6. /\ feature' = feature /\ selector' = selector /\ others' = others
      /\ starts' = starts /\ used' = used /\ bulk' = bulk /\ lost' = lost
      /\ data' = data /\ phase' = phase /\ shown' = shown
      /\ stray' = stray /\ ignored' = ignored /\ silent' = silent /\ table' = table
      /\ toServer' = toServer /\ phase # "stopped" /\ toClient' = Append(toClient, m)
      /\ single' \subseteq single /\ (given' => given) /\ given' \in BOOLEAN
      /\ \A d : d # id => (d \in single' <=> d \in single)
  <2>1. given \in BOOLEAN
    BY <1>2 DEF FeatureTypeOK
  <2>2. Gives(id)
    BY <1>4
  <2>3. /\ single' \subseteq single /\ \A d : d # id => (d \in single' <=> d \in single)
    BY <2>2
  <2>4. (given' => given) /\ given' \in BOOLEAN
    <3>1. given' = given \/ given' = FALSE
      BY <2>2
    <3>2. CASE given' = given
      BY <2>1, <3>2, Zenon
    <3>3. CASE given' = FALSE
      BY <3>3, Zenon
    <3> QED
      BY <3>1, <3>2, <3>3
  <2>5. Sends(id, via)
    BY <1>4
  <2> HIDE DEF Gives
  <2> QED
    BY <1>5, <2>3, <2>4, <2>5
<1>7. /\ m \in ToClient(f) /\ m.kind = "unregister"
      /\ \A d : m \in Unregisters(d) <=> d = id
      /\ \A d : m \notin Registers(d) \cup Calls(d) \cup EditorCalls(d) \cup {Refresh}
  <2>1. m \in Unregister /\ m.id = id
    BY <1>5 DEF Unregister
  <2> QED
    BY <2>1, AboutUnregister DEF ToClient
<1>8. /\ toClient' \in Seq(ToClient(f))
      /\ \A P : Has(toClient', P) <=> Has(toClient, P) \/ m \in P
      /\ \A P : Once(toClient, P) /\ (m \in P => ~Has(toClient, P)) => Once(toClient', P)
  BY <1>2, <1>6, <1>7, AppendHas
<1>9. Registered' = Registered /\ \A i : Asking(i)' <=> Asking(i)
  BY <1>6 DEF Registered, Asking, CanAsk, This
<1>10. FeatureTypeOK' /\ SessionFits'
  <2>1. SessionFits'
    BY <1>2, <1>6, <1>9 DEF SessionFits, This
  <2>2. single' \subseteq used'
    BY <1>2, <1>6 DEF FeatureTypeOK
  <2>3. FeatureTypeOK'
    BY <1>1, <1>2, <1>6, <1>8, <2>2 DEF FeatureTypeOK, This
  <2> QED
    BY <2>1, <2>3
<1>11. CallsFit' /\ ShownFits'
  <2>1. Fresh(toClient', data')
    BY <1>2, <1>6, <1>7, AppendFresh DEF CallsFit
  <2>2. CallsFit'
    BY <1>2, <1>6, <1>7, <1>8, <1>9, <2>1 DEF CallsFit
  <2>3. ShownFits'
    BY <1>2, <1>6, <1>7, <1>8, <1>9 DEF ShownFits, This
  <2> QED
    BY <2>2, <2>3
<1>12. ASSUME NEW d \in DynamicIds PROVE Life(d)' /\ Handles(d)'
  <2>1. Life(d) /\ Handles(d)
    BY DEF FeatureInv
  <2>2. Uncalled(d) <=> Uncalled(d)'
    BY <1>6, <1>7, <1>8 DEF Uncalled
  <2>3. /\ Has(toClient', Unregisters(d)) <=> Has(toClient, Unregisters(d)) \/ d = id
        /\ Has(toClient', Registers(d)) <=> Has(toClient, Registers(d))
        /\ Once(toClient, Registers(d)) => Once(toClient', Registers(d))
    BY <1>7, <1>8
  <2>4. CASE d # id
    <3>1. Held(d) <=> Held(d)'
      BY <1>6, <2>4 DEF Held
    <3> QED
      BY <1>6, <1>9, <2>1, <2>2, <2>3, <2>4, <3>1 DEF Life, Handles
  <2>5. CASE d = id
    <3>1. Held(d) /\ (d \in single' => d \in single /\ d = bulk)
      BY <1>4, <2>5 DEF Held, FeaturesAssumption
    <3>2. /\ d \in used /\ ~Has(toClient, Registers(d)) /\ ~Has(toServer, Confirms(d))
          /\ d \notin single'
      BY <2>1, <3>1 DEF Life
    <3>3. ~Has(toServer, Accepts(d))
      BY <3>2 DEF Has, Accepts
    <3> QED
      BY <1>6, <1>9, <2>1, <2>3, <2>5, <3>2, <3>3 DEF Life, Handles
  <2> QED
    BY <2>4, <2>5
<1> QED
  BY <1>10, <1>11, <1>12 DEF FeatureInv

\* What becomes of the handles when an answer comes.
LEMMA OnReplyKeeps == ASSUME FeaturesAssumption, FeatureInv, ServerOnReply PROVE FeatureInv'
<1>1. PICK reply : reply = Head(toServer)
  OBVIOUS
<1>2. PICK request : request = reply.to
  OBVIOUS
<1>3. /\ feature' = feature /\ selector' = selector /\ others' = others /\ starts' = starts
      /\ used' = used /\ given' = given /\ data' = data /\ phase' = phase /\ shown' = shown
      /\ stray' = stray /\ ignored' = ignored /\ silent' = silent /\ table' = table
      /\ toClient' = toClient /\ toServer # <<>> /\ reply.kind = "reply"
      /\ toServer' = Tail(toServer)
  BY <1>1 DEF ServerOnReply, client
<1>4. PICK f \in DOMAIN Catalog : f = feature
  BY FeatureKept
<1>5. /\ toServer \in Seq(ToServer(f))
      /\ FeatureTypeOK /\ SessionFits /\ CallsFit /\ ShownFits
  BY <1>4, Wires DEF FeatureInv
<1>6. reply \in Replies(f)
  BY <1>1, <1>3, <1>5, TailHas, KindToServer
<1>7. request \in Register(f) \cup Unregister /\ reply.ok \in BOOLEAN
  BY <1>2, <1>6 DEF Replies
<1>8. /\ toServer' \in Seq(ToServer(f))
      /\ \A P : Has(toServer, P) <=> reply \in P \/ Has(toServer', P)
      /\ \A P : Once(toServer, P) => Once(toServer', P)
                                     /\ (reply \in P => ~Has(toServer', P))
  BY <1>1, <1>3, <1>5, TailHas
<1>9. \A d : /\ reply \in Confirms(d) <=> request \in Registers(d)
             /\ reply \in Accepts(d) <=> request \in Registers(d) /\ reply.ok
             /\ reply \in Removes(d) <=> request \in Unregisters(d)
             /\ reply \notin Calls(d) \cup EditorCalls(d)
  BY <1>2, <1>6, AboutReply
<1>10. Registered' = Registered /\ \A i : Asking(i)' <=> Asking(i)
  BY <1>3 DEF Registered, Asking, CanAsk, This
<1>11. phase # "stopped"
  BY <1>3, <1>5 DEF SessionFits
<1>12. \A d : (d \notin Registered /\ Uncalled(d)) => Uncalled(d)'
  BY <1>3, <1>8, <1>9 DEF Uncalled
<1>13. bulk' \in used \cup {None} /\ single' \subseteq used /\ lost' \subseteq DynamicIds
       => FeatureTypeOK' /\ SessionFits' /\ CallsFit' /\ ShownFits'
  <2> SUFFICES ASSUME bulk' \in used \cup {None}, single' \subseteq used,
                      lost' \subseteq DynamicIds
               PROVE  FeatureTypeOK' /\ SessionFits' /\ CallsFit' /\ ShownFits'
    OBVIOUS
  <2>1. FeatureTypeOK'
    BY <1>3, <1>4, <1>5, <1>8 DEF FeatureTypeOK, This
  <2>2. SessionFits'
    BY <1>3, <1>5, <1>10, <1>11 DEF SessionFits, This
  <2>3. CallsFit'
    BY <1>3, <1>5, <1>8, <1>9, <1>10 DEF CallsFit
  <2>4. ShownFits'
    BY <1>3, <1>5, <1>8, <1>9, <1>10 DEF ShownFits, This
  <2> QED
    BY <2>1, <2>2, <2>3, <2>4
<1>14. CASE request \in Unregister
  <2>1. request.kind = "unregister"
    BY <1>14, AboutUnregister
  <2>2. /\ single' = single /\ lost \subseteq lost' /\ lost' \subseteq lost \cup ({bulk} \ {None})
        /\ bulk' \in {bulk, None}
        /\ bulk # None /\ bulk # bulk' /\ bulk # request.id => bulk \in lost'
    <3>1. CASE request.via = "one"
      <4>1. BulkDelete(request.id) /\ single' = single
        BY <1>1, <1>2, <2>1, <3>1 DEF ServerOnReply
      <4> QED
        BY <4>1 DEF BulkDelete
    <3>2. CASE request.via # "one"
      <4>1. single' = single /\ bulk' = bulk /\ lost' = lost
        BY <1>1, <1>2, <2>1, <3>2 DEF ServerOnReply
      <4> QED
        BY <4>1
    <3> QED
      BY <3>1, <3>2
  <2>3. bulk' \in used \cup {None} /\ single' \subseteq used /\ lost' \subseteq DynamicIds
    BY <1>5, <2>2 DEF FeatureTypeOK
  <2>4. ASSUME NEW d \in DynamicIds PROVE Life(d)' /\ Handles(d)'
    <3>1. Life(d) /\ Handles(d) /\ d # None
      BY DEF FeatureInv, FeaturesAssumption
    <3>2. /\ request \notin Registers(d)
          /\ request \in Unregisters(d) <=> d = request.id
      BY <1>14, AboutUnregister
    <3>3. /\ Has(toServer', Confirms(d)) <=> Has(toServer, Confirms(d))
          /\ Has(toServer', Accepts(d)) <=> Has(toServer, Accepts(d))
          /\ Has(toServer', Removes(d)) => Has(toServer, Removes(d))
          /\ d = request.id => Has(toServer, Removes(d))
          /\ Once(toServer, Confirms(d)) => Once(toServer', Confirms(d))
      BY <1>8, <1>9, <3>2
    <3>4. d = request.id => d \notin Registered
      BY <3>1, <3>3 DEF Life
    <3>5. (Held(d)' => Held(d)) /\ (Held(d) /\ ~Held(d)' /\ d # request.id => d \in lost')
      BY <2>2, <3>1 DEF Held
    <3>6. d \in single' => d # bulk'
      BY <2>2, <3>1 DEF Life
    <3> QED
      BY <1>3, <1>10, <1>12, <2>2, <3>1, <3>3, <3>4, <3>5, <3>6 DEF Life, Handles
  <2> QED
    BY <1>13, <2>3, <2>4 DEF FeatureInv
<1>15. CASE request \in Register(f)
  <2>1. request.kind = "register"
    BY <1>15, AboutRegister
  <2>2. PICK mine \in Own(f) :
           /\ \A d \in DynamicIds : Names(request, d) <=> d = mine.id
           /\ {r.id : r \in ToSet(request.list)} \cap DynamicIds = {mine.id}
           /\ request.via # "many" => request.list[1] = mine
    BY <1>4, <1>15, RegisterEffect
  <2>3. mine.id \in DynamicIds
    BY DEF Own
  <2>4. \A d \in DynamicIds : /\ request \in Registers(d) <=> d = mine.id
                              /\ request \notin Unregisters(d)
    BY <1>15, <2>2, AboutRegister
  <2>5. mine.id \in used
    <3>1. Has(toServer, Confirms(mine.id)) /\ Life(mine.id)
      BY <1>8, <1>9, <2>3, <2>4 DEF FeatureInv
    <3> QED
      BY <3>1 DEF Life
  \* The handle goes to the map of a bulk, is one of its own, or there is none.
  <2>6. \/ /\ reply.ok /\ single' = single /\ bulk' = mine.id /\ lost' = lost \cup ({bulk} \ {None})
        \/ /\ reply.ok /\ single' = single \cup {mine.id} /\ bulk' = bulk /\ lost' = lost
        \/ /\ ~reply.ok /\ single' = single /\ bulk' = bulk /\ lost' = lost \cup {mine.id}
    <3>1. CASE reply.ok /\ request.via = "bulk"
      <4>1. BulkAdd(request.list[1].id) /\ single' = single
        BY <1>1, <1>2, <2>1, <3>1 DEF ServerOnReply
      <4>2. request.list[1] = mine
        BY <2>2, <3>1
      <4> QED
        BY <3>1, <4>1, <4>2 DEF BulkAdd
    <3>2. CASE reply.ok /\ request.via # "bulk"
      <4>1. /\ single' = single \cup ({r.id : r \in ToSet(request.list)} \cap DynamicIds)
            /\ bulk' = bulk /\ lost' = lost
        BY <1>1, <1>2, <2>1, <3>2 DEF ServerOnReply
      <4> QED
        BY <2>2, <3>2, <4>1
    <3>3. CASE ~reply.ok
      <4>1. /\ lost' = lost \cup ({r.id : r \in ToSet(request.list)} \cap DynamicIds)
            /\ bulk' = bulk /\ single' = single
        BY <1>1, <1>2, <2>1, <3>3 DEF ServerOnReply
      <4> QED
        BY <2>2, <3>3, <4>1
    <3> QED
      BY <1>7, <3>1, <3>2, <3>3
  <2>7. bulk' \in used \cup {None} /\ single' \subseteq used /\ lost' \subseteq DynamicIds
    BY <1>5, <2>3, <2>5, <2>6 DEF FeatureTypeOK
  <2>8. ASSUME NEW d \in DynamicIds PROVE Life(d)' /\ Handles(d)'
    <3>1. Life(d) /\ Handles(d) /\ d # None
      BY DEF FeatureInv, FeaturesAssumption
    <3>2. Has(toServer', Removes(d)) <=> Has(toServer, Removes(d))
      BY <1>8, <1>9, <2>4
    <3>3. Once(toServer', Confirms(d))
      BY <1>8, <3>1 DEF Life
    <3>4. CASE d # mine.id
      <4>1. /\ Has(toServer', Confirms(d)) <=> Has(toServer, Confirms(d))
            /\ Has(toServer', Accepts(d)) <=> Has(toServer, Accepts(d))
        BY <1>8, <1>9, <2>4, <3>4
      <4>2. /\ (Held(d)' => Held(d)) /\ (Held(d) /\ ~Held(d)' => d \in lost')
            /\ lost \subseteq lost' /\ (d \in single' <=> d \in single)
            /\ bulk' = d => bulk = d
        BY <2>6, <3>1, <3>4 DEF Held
      <4> QED
        BY <1>3, <1>10, <1>12, <3>1, <3>2, <3>3, <4>1, <4>2 DEF Life, Handles
    <3>5. CASE d = mine.id
      <4>1. /\ Has(toServer, Confirms(d)) /\ ~Has(toServer', Confirms(d))
            /\ reply.ok => Has(toServer, Accepts(d))
        BY <1>8, <1>9, <2>4, <3>1, <3>5 DEF Life
      <4>2. ~Has(toServer', Accepts(d))
        BY <4>1 DEF Has, Accepts
      <4>3. /\ d \in used /\ ~Has(toClient, Registers(d)) /\ ~Has(toClient, Unregisters(d))
            /\ ~Has(toServer, Removes(d)) /\ ~Held(d)
        BY <3>1, <4>1 DEF Life
      <4>4. Held(d)' \/ d \in lost'
        BY <2>6, <3>5, <4>3 DEF Held
      <4>5. /\ d \in single' => d # bulk' /\ reply.ok
        BY <2>6, <3>5, <4>3 DEF Held
      <4> QED
        BY <1>3, <1>10, <3>1, <3>2, <3>3, <4>1, <4>2, <4>3, <4>4, <4>5 DEF Life, Handles
    <3> QED
      BY <3>4, <3>5
  <2> QED
    BY <1>13, <2>7, <2>8 DEF FeatureInv
<1> QED
  BY <1>7, <1>14, <1>15
-----------------------------------------------------------------------------
(* The theorems.                                                            *)

\* Each step keeps the invariant.
LEMMA FeatureInvNext == ASSUME FeaturesAssumption, FeatureInv, [Next]_vars PROVE FeatureInv'
<1>1. CASE Next
  BY <1>1, StartKeeps, StopKeeps, StoppedKeeps, DoRegisterKeeps, DoUnregisterKeeps,
     ProvideKeeps, OnAnswerKeeps, DropAnswerKeeps, OnRefreshKeeps, AnswerKeeps,
     AnswersCancelledKeeps, ServerChangesKeeps, RegisterKeeps, DisposeKeeps, OnReplyKeeps
     DEF Next
<1>2. CASE UNCHANGED vars
  <2>1. /\ feature' = feature /\ selector' = selector /\ others' = others /\ starts' = starts
        /\ used' = used /\ single' = single /\ bulk' = bulk /\ lost' = lost /\ given' = given
        /\ data' = data /\ phase' = phase /\ shown' = shown /\ toServer' = toServer
        /\ toClient' = toClient
        /\ stray' = stray /\ ignored' = ignored /\ silent' = silent /\ table' = table
    BY <1>2 DEF vars
  <2>2. Registered' = Registered /\ This' = This /\ \A i : Asking(i)' <=> Asking(i)
    BY <2>1 DEF Registered, Asking, CanAsk, This
  <2>3. FeatureTypeOK'
    BY <2>1, <2>2 DEF FeatureInv, FeatureTypeOK
  <2>4. SessionFits' /\ CallsFit' /\ ShownFits'
    BY <2>1, <2>2 DEF FeatureInv, SessionFits, CallsFit, ShownFits
  <2>5. \A d \in DynamicIds : Life(d)' /\ Handles(d)'
    BY <2>1, <2>2 DEF FeatureInv, Life, Handles, Held, Uncalled
  <2> QED
    BY <2>3, <2>4, <2>5 DEF FeatureInv
<1> QED
  BY <1>1, <1>2

\* The invariant says what RegisteredAsDeclared says.
LEMMA InvDeclared == ASSUME FeaturesAssumption, FeatureInv PROVE RegisteredAsDeclared
<1>1. PICK f \in DOMAIN Catalog : f = feature
  BY FeatureKept
<1>2. /\ toClient \in Seq(ToClient(f)) /\ toServer \in Seq(ToServer(f))
      /\ FeatureTypeOK /\ SessionFits
  BY <1>1, Wires DEF FeatureInv
<1>3. /\ \A m \in ToSet(toClient) : m \in ToClient(f) /\ m.kind \in MessagesToClient
      /\ \A m \in ToSet(toServer) : m \in ToServer(f) /\ m.kind \in {"ask", "reply", "cancelled"}
  <2>1. /\ \A m \in ToSet(toClient) : m \in ToClient(f)
        /\ \A m \in ToSet(toServer) : m \in ToServer(f)
    BY <1>2 DEF ToSet
  <2> QED
    BY <2>1, KindToClient, KindToServer DEF MessagesToClient
<1>4. TypeOK
  BY <1>2, <1>3 DEF TypeOK, FeatureTypeOK
<1>5. OnlyDeclared
  <2> SUFFICES ASSUME NEW m \in ToSet(toServer), m.kind = "ask"
               PROVE  /\ \E a \in Requests(This.protocol, m.options) :
                            a.method = m.ask.method /\ a.on = m.ask.on
                      /\ m.ask.method \in Handled
    BY DEF OnlyDeclared
  <2>1. m \in Call(f)
    BY <1>3, KindToServer
  <2>2. m.ask \in Requests(Catalog[f].client, m.options)
    BY <2>1 DEF Call
  <2>3. /\ Catalog[f].client.asks \subseteq Catalog[f].protocol.asks
        /\ \A a \in Catalog[f].client.asks : a.method \in Handled
    BY CatalogAgrees DEF Agree
  <2>4. m.ask \in Requests(Catalog[f].protocol, m.options) /\ m.ask.method \in Handled
    BY <2>2, <2>3 DEF Requests
  <2> QED
    BY <1>1, <2>4 DEF This
<1>6. ServerAndClientAgree
  <2> SUFFICES ASSUME Settled
               PROVE  /\ (Registered \cap DynamicIds) \subseteq (single \cup {bulk} \cup lost)
                      /\ single \subseteq (Registered \cup silent)
                      /\ given => "auto" \notin Registered
    BY DEF ServerAndClientAgree
  <2>1. phase = "running"
    BY DEF Settled
  <2>2. ASSUME NEW d \in DynamicIds
        PROVE  ~Has(toServer, Confirms(d)) /\ ~Has(toClient, Unregisters(d))
    BY DEF Settled, Has, ToSet, Confirms, Unregisters
  <2>3. ASSUME NEW d \in Registered \cap DynamicIds PROVE d \in single \cup {bulk} \cup lost
    BY <2>2 DEF FeatureInv, Handles, Held
  <2>4. ASSUME NEW d \in single PROVE d \in Registered \cup silent
    <3>1. d \in DynamicIds
      BY <1>2 DEF FeatureTypeOK
    <3> QED
      BY <2>1, <3>1 DEF FeatureInv, Handles
  <2> QED
    BY <1>2, <2>3, <2>4 DEF SessionFits
<1>7. NothingAfterStop
  BY <1>2 DEF NothingAfterStop, SessionFits
<1> QED
  BY <1>4, <1>5, <1>6, <1>7 DEF RegisteredAsDeclared

\* And what FreshAtRest says.
LEMMA InvFresh == ASSUME FeaturesAssumption, FeatureInv PROVE FreshAtRest
<1> SUFFICES ASSUME NEW e \in table, This.client.refreshed, ~Outstanding(e.id),
                    \A m \in ToSet(toClient) : m.kind # "refresh", shown[e.id].is = "value"
             PROVE  shown[e.id].data = data
  BY DEF FreshAtRest
<1>1. e.id \in Registered
  BY DEF Registered
<1>2. ~Has(toServer, EditorCalls(e.id)) /\ ~Has(toClient, EditorCalls(e.id))
  BY DEF Outstanding, Has, ToSet, EditorCalls
<1>3. ~Has(toClient, {Refresh})
  BY DEF Has, ToSet, Refresh
<1> QED
  BY <1>1, <1>2, <1>3 DEF FeatureInv, ShownFits

\* The invariant of any feature's registrations and calls.
THEOREM FeatureInvHolds == Spec => []FeatureInv
<1>1. Init => FeatureInv
  BY FeatureInvInit, FeaturesAssumption
<1>2. FeatureInv /\ [Next]_vars => FeatureInv'
  BY FeatureInvNext, FeaturesAssumption
<1> QED
  BY <1>1, <1>2, PTL DEF Spec

\* What both ends hold for registered agrees, a provider sends only what the
\* layers have, and it does not outlive the session (RegisteredAsDeclared): a
\* registration of doRegisterCapability has a handle the server holds, unless
\* the code lost it.
THEOREM RegisteredAsDeclaredHolds == Spec => []RegisteredAsDeclared
<1>1. FeatureInv => RegisteredAsDeclared
  BY InvDeclared, FeaturesAssumption
<1> QED
  BY <1>1, FeatureInvHolds, PTL

\* A refresh reaches every provider of the feature that can be asked, also when
\* answers of before it are still to come (FreshAtRest).
THEOREM FreshAtRestHolds == Spec => []FreshAtRest
<1>1. FeatureInv => FreshAtRest
  BY InvFresh, FeaturesAssumption
<1> QED
  BY <1>1, FeatureInvHolds, PTL

=============================================================================

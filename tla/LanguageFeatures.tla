-------------------------- MODULE LanguageFeatures --------------------------
(***************************************************************************)
(* One language feature of the client over its life: the registration of   *)
(* its provider from the server's static capabilities, the registrations a *)
(* server makes and takes back while it runs (client/registerCapability,   *)
(* client/unregisterCapability), the requests the provider sends for the   *)
(* editor, and the server's requests to refresh.  The feature is any of    *)
(* FeatureCatalog; the code they share is client/src/common/features.ts,   *)
(* client.ts (doRegisterCapability, doUnregisterCapability,                *)
(* handleFailedRequest) and, on the server's side, RemoteClientImpl and    *)
(* BulkUnregistrationImpl of server/src/common/server.ts.                  *)
(*                                                                         *)
(* The two directions of the connection are sequences.  A registration id  *)
(* is one of DynamicIds (made by the server's library), "static" (given by *)
(* the server in its capabilities) or "auto" (made by the client).         *)
(***************************************************************************)
EXTENDS Naturals, FeatureCatalog, SequencesExt

CONSTANTS Features,     \* names of the features explored, one per behaviour
          DynamicIds,   \* ids of dynamic registrations, per server session
          None,
          MaxStarts,    \* bound on the starts of the client
          MaxData,      \* bound on the changes of the data the server serves
          MaxWire       \* bound on the messages under way

ASSUME FeaturesAssumption ==
    /\ Features \subseteq DOMAIN Catalog
    /\ {"static", "auto", "other", None} \cap DynamicIds = {}
    /\ MaxStarts \in Nat /\ MaxData \in Nat /\ MaxWire \in Nat

VARIABLES
    feature,    \* the feature of this behaviour
    selector,   \* does clientOptions have a documentSelector?
    others,     \* commands other extensions have registered in the editor
    phase,      \* "stopped", "running" or "stopping"
    starts,
    table,      \* the feature's _registrations (or _commands)
    stray,      \* commands registered in the editor that no entry of table has
    ignored,    \* _ignoredRegistrations
    shown,      \* what the editor last got from the provider of an id
    toClient, toServer,
    used,       \* dynamic ids used in this session
    single,     \* ids the server holds a Disposable (or bulk of one) for
    bulk,       \* the id in the server's BulkUnregistration, or None
    silent,     \* history: ids the client acknowledged without registering
    lost,       \* history: ids registered at the client whose handle is gone
    given,      \* the server gave an id with its static capability
    data        \* the version of the data the server serves

vars == <<feature, selector, others, phase, starts, table, stray, ignored, shown,
          toClient, toServer, used, single, bulk, silent, lost, given, data>>

client   == <<feature, selector, others, starts>>
server   == <<used, single, bulk, lost, given, data>>

Ids == DynamicIds \cup {"static", "auto"}
This == Catalog[feature]
Commands == {"c1", "c2"}

\* What a text document feature has to have and the others do without.
NeedsSelector == This.client.how \in {"options", "registration"}

Nothing == [is |-> "nothing", data |-> 0, of |-> Editor]

-----------------------------------------------------------------------------
(* The client's tables.                                                    *)

Registered == {e.id : e \in table}
Taken == others \cup stray \cup UNION {e.options : e \in table}

\* The commands of one registration, in the order of the server's list, up to
\* the first the editor already has.
Throws(options) == This.client.how = "command" /\ options \cap Taken # {}
LeftBehind(options) ==
    IF "c1" \in options /\ "c1" \notin Taken THEN {"c1"} ELSE {}

\* register(data) of TextDocumentLanguageFeature, WorkspaceFeature,
\* ExecuteCommandFeature and TextDocumentContentFeature on a registration that
\* does not throw.
Entry(id, options) == [id |-> id, options |-> options]

\* Mutant of GetRegistration: the id of the options is not taken.
GetRegistrationFreshId(named, own) ==
    IF ~(named /\ own) /\ ~selector THEN None ELSE "auto"

\* getRegistration and getRegistrationOptions: the id a static capability is
\* registered under.  named: it has an id; own: it has a selector of its own.
GetRegistration(named, own) ==
    IF ~(named /\ own) /\ ~selector THEN None
    ELSE IF named THEN "static" ELSE "auto"
GetRegistrationOptions == IF selector THEN "auto" ELSE None

StaticId(named, own) ==
    CASE This.client.how = "registration" -> GetRegistration(named, own)
      [] This.client.how = "options" -> GetRegistrationOptions
      [] This.client.how = "content" -> IF named THEN "static" ELSE "auto"
      [] OTHER -> "auto"

Removed(id) == {e \in table : e.id # id}

\* handleFailedRequest, for a call the editor did not cancel.
CancelOnContentModified ==
    {"textDocument/semanticTokens/full", "textDocument/semanticTokens/range",
     "textDocument/semanticTokens/full/delta", "completionItem/resolve",
     "codeLens/resolve", "codeAction/resolve", "inlayHint/resolve",
     "documentLink/resolve", "workspaceSymbol/resolve"}
HandleFailedRequest(method, code) ==
    CASE code = "ServerCancelled" -> "cancelled"
      [] code = "ContentModified" ->
            IF method \in CancelOnContentModified THEN "cancelled" ELSE "default"
      [] OTHER -> "error"

-----------------------------------------------------------------------------
(* The client starts, stops and is told to register.                       *)

Room == Len(toClient) + Len(toServer) < MaxWire

\* The server's result of initialize and the features' initialize on it.  A
\* capability may be absent.  register throwing fails the start, which stops
\* the client again.
Start(present, named, own, options) ==
    /\ phase = "stopped" /\ starts < MaxStarts
    /\ starts' = starts + 1
    /\ LET id == IF present THEN StaticId(named, own) ELSE None
       IN IF id # None /\ Throws(options)
          THEN /\ stray' = stray \cup LeftBehind(options)
               /\ UNCHANGED <<phase, table>>
          ELSE /\ table' = IF id = None THEN {} ELSE {Entry(id, options)}
               /\ phase' = "running"
               /\ UNCHANGED stray
    /\ given' = (present /\ named /\ phase' = "running")
    /\ UNCHANGED <<feature, selector, others, ignored, shown, toClient, toServer,
                   used, single, bulk, lost, data, silent>>

\* shutdown: the state and cleanUp first, the connection stays for the answers.
Stop ==
    /\ phase = "running"
    /\ phase' = "stopping"
    /\ table' = {}
    /\ shown' = [i \in Ids |-> Nothing]
    /\ UNCHANGED <<client, server, stray, ignored, toClient, toServer, silent>>

\* A server that has gone takes with it what it knew.
ForgetServer ==
    /\ used' = {} /\ single' = {} /\ bulk' = None /\ lost' = {} /\ silent' = {}
    /\ given' = FALSE /\ data' = 0

\* The server has gone: what was under way is lost, the finally of shutdown.
Stopped ==
    /\ phase = "stopping"
    /\ phase' = "stopped"
    /\ ignored' = {}
    /\ toClient' = <<>> /\ toServer' = <<>>
    /\ ForgetServer
    /\ UNCHANGED <<client, table, stray, shown>>

\* The registrations of a list up to the first the client cannot do.
Refused(r) == r.method # This.protocol.method \/ Throws(r.options)
Doable(list) == LET bad == {i \in DOMAIN list : Refused(list[i])}
                IN IF bad = {} THEN list
                   ELSE SubSeq(list, 1, (CHOOSE i \in bad : \A j \in bad : i <= j) - 1)
Accepted(r) == NeedsSelector => (r.own \/ selector)

Reply(ok, request) == [kind |-> "reply", ok |-> ok, to |-> request]

\* The first test of doRegisterCapability.
RegistersNot == phase # "running"
DoRegisterCapability ==
    /\ toClient # <<>> /\ Head(toClient).kind = "register"
    /\ LET request == Head(toClient)
           list == request.list
           done == ToSet(Doable(list))
           refused == Len(Doable(list)) < Len(list)
           failing == IF refused THEN {list[Len(Doable(list)) + 1]} ELSE {}
       IN /\ IF RegistersNot
             THEN /\ ignored' = ignored \cup {r.id : r \in ToSet(list)}
                  /\ toServer' = Append(toServer, Reply(TRUE, request))
                  /\ UNCHANGED <<table, stray, silent>>
             ELSE /\ table' = table \cup {Entry(r.id, r.options) : r \in {x \in done : Accepted(x)}}
                  /\ silent' = silent \cup {r.id : r \in {x \in done : ~Accepted(x)}}
                  /\ stray' = stray \cup
                        UNION {LeftBehind(r.options) : r \in {x \in failing : Throws(x.options)}}
                  /\ toServer' = Append(toServer, Reply(~refused, request))
                  /\ UNCHANGED ignored
    /\ toClient' = Tail(toClient)
    /\ UNCHANGED <<client, server, phase, shown>>

DoUnregisterCapability ==
    /\ toClient # <<>> /\ Head(toClient).kind = "unregister"
    /\ LET request == Head(toClient)
       IN /\ table' = IF request.id \in ignored THEN table ELSE Removed(request.id)
          /\ toServer' = Append(toServer, Reply(TRUE, request))
    /\ toClient' = Tail(toClient)
    /\ UNCHANGED <<client, server, phase, stray, ignored, shown, silent>>

-----------------------------------------------------------------------------
(* Requests of the editor through a provider.                              *)

EditorAsks(m, id) == m.kind \in {"ask", "answer"} /\ m.id = id /\ m.ask.on = Editor
Outstanding(id) ==
    \E m \in ToSet(toServer) \cup ToSet(toClient) : EditorAsks(m, id)

\* The editor cancels its calls: they go on, and what comes back is dropped.
Cancelled == [kind |-> "cancelled"]
WithCancelled(wire, ids) ==
    [i \in DOMAIN wire |-> IF \E id \in ids : EditorAsks(wire[i], id) THEN Cancelled ELSE wire[i]]

AskMessage(e, a) == [kind |-> "ask", ask |-> a, id |-> e.id, options |-> e.options]

\* The editor asks for the feature's data, or goes on from an item it was given.
Provide(e, a) ==
    /\ phase = "running" /\ Room
    /\ IF a.on = Editor THEN ~Outstanding(e.id)
       ELSE shown[e.id].is = "value" /\ shown[e.id].of = a.on
    /\ toServer' = Append(toServer, AskMessage(e, a))
    /\ UNCHANGED <<client, server, phase, table, stray, ignored, shown, toClient, silent>>

\* A provider's answer or failure.  What the editor shows is that of its last
\* call: data, nothing (a default), or what it had, marked as failed.
OnAnswer ==
    /\ toClient # <<>> /\ Head(toClient).kind = "answer"
    /\ LET m == Head(toClient)
           outcome == IF m.code = "ok" THEN "value" ELSE HandleFailedRequest(m.ask.method, m.code)
           next == CASE outcome = "value" ->
                            [is |-> "value", data |-> m.data, of |-> m.ask.method]
                     [] outcome = "default" -> Nothing
                     [] OTHER -> [shown[m.id] EXCEPT !.is = "failed"]
       IN shown' = IF m.id \in Registered /\ m.ask.on = Editor
                   THEN [shown EXCEPT ![m.id] = next] ELSE shown
    /\ toClient' = Tail(toClient)
    /\ UNCHANGED <<client, server, phase, table, stray, ignored, toServer, silent>>

\* What a cancelled call brings is dropped.
DropAnswer ==
    /\ toClient # <<>> /\ Head(toClient) = Cancelled
    /\ toClient' = Tail(toClient)
    /\ UNCHANGED <<client, server, phase, table, stray, ignored, shown, toServer, silent>>

\* The refresh request: every provider of the feature fires its event, on
\* which the editor cancels its call and asks anew.
FirstAsk(e) == CHOOSE a \in Requests(This.client, e.options) : a.on = Editor
CanAsk == {e \in table : \E a \in Requests(This.client, e.options) : a.on = Editor}
\* Mutant of Fired: one provider is told.
FiredFirst == IF CanAsk = {} THEN {} ELSE {CHOOSE e \in CanAsk : TRUE}
Fired == CanAsk
OnRefresh ==
    /\ toClient # <<>> /\ Head(toClient).kind = "refresh"
    /\ LET ids == {e.id : e \in Fired}
           asks == SetToSeq({AskMessage(e, FirstAsk(e)) : e \in Fired})
       IN /\ toServer' = WithCancelled(toServer, ids) \o asks
          /\ toClient' = WithCancelled(Tail(toClient), ids)
    /\ UNCHANGED <<client, server, phase, table, stray, ignored, shown, silent>>

-----------------------------------------------------------------------------
(* The server.                                                             *)

\* It answers a request with its data, or fails it.
ServerAnswers(code) ==
    /\ toServer # <<>> /\ Head(toServer).kind = "ask"
    /\ LET m == Head(toServer)
       IN toClient' = Append(toClient, [kind |-> "answer", ask |-> m.ask, id |-> m.id,
                                        code |-> code, data |-> data])
    /\ toServer' = Tail(toServer)
    /\ UNCHANGED <<client, server, phase, table, stray, ignored, shown, silent>>

\* It answers a cancelled request too.
AnswersCancelled ==
    /\ toServer # <<>> /\ Head(toServer) = Cancelled
    /\ toClient' = Append(toClient, Cancelled)
    /\ toServer' = Tail(toServer)
    /\ UNCHANGED <<client, server, phase, table, stray, ignored, shown, silent>>

\* Its data changes and it asks the client to refresh.
ServerChanges ==
    /\ phase = "running" /\ This.client.refreshed
    /\ data < MaxData /\ Room
    /\ data' = data + 1
    /\ toClient' = Append(toClient, [kind |-> "refresh"])
    /\ UNCHANGED <<client, used, single, bulk, lost, given, phase, table, stray, ignored,
                   shown, toServer, silent>>

Registration(id, method, options, own) ==
    [id |-> id, method |-> method, options |-> options, own |-> own]

SendRegister(list, via) ==
    /\ phase # "stopped" /\ Room
    /\ toClient' = Append(toClient, [kind |-> "register", list |-> list, via |-> via])

SendUnregister(id, via) ==
    /\ phase # "stopped" /\ Room
    /\ toClient' = Append(toClient, [kind |-> "unregister", id |-> id, via |-> via])

\* register(type, options), and register(bulk, type, options).
RegisterSingle(id, via, options, own) ==
    /\ id \notin used
    /\ used' = used \cup {id}
    /\ SendRegister(<<Registration(id, This.protocol.method, options, own)>>, via)
    /\ UNCHANGED <<client, single, bulk, lost, given, data, phase, table, stray, ignored,
                   shown, toServer, silent>>

\* register(BulkRegistration): the feature with one the client does not know.
RegisterMany(id, first, options, own) ==
    /\ id \notin used
    /\ used' = used \cup {id}
    /\ LET mine == Registration(id, This.protocol.method, options, own)
           unknown == Registration("other", Moniker.method, {}, own)
       IN SendRegister(IF first THEN <<mine, unknown>> ELSE <<unknown, mine>>, "many")
    /\ UNCHANGED <<client, single, bulk, lost, given, data, phase, table, stray, ignored,
                   shown, toServer, silent>>

\* The dispose of a single registration's handle.
DisposeHandle(id) ==
    /\ id \in single
    /\ single' = single \ {id}
    /\ SendUnregister(id, "handle")
    /\ UNCHANGED <<client, used, bulk, lost, given, data, phase, table, stray, ignored,
                   shown, toServer, silent>>

\* BulkUnregistrationImpl: dispose leaves the map as it is, disposeSingle
\* deletes the method when the answer comes.
DisposeBulk ==
    /\ bulk # None
    /\ SendUnregister(bulk, "all")
    /\ UNCHANGED <<client, server, phase, table, stray, ignored, shown, toServer, silent>>
DisposeSingle ==
    /\ bulk # None
    /\ SendUnregister(bulk, "one")
    /\ UNCHANGED <<client, server, phase, table, stray, ignored, shown, toServer, silent>>

\* A server takes back the registration of its capability by the id it gave.
UnregisterStatic ==
    /\ given
    /\ given' = FALSE
    /\ SendUnregister("static", "handle")
    /\ UNCHANGED <<client, used, single, bulk, lost, data, phase, table, stray, ignored,
                   shown, toServer, silent>>

\* _unregistrations.set(method, ...) and .delete(method): the id that was
\* there under the method, if it was another, has no handle any more.
BulkAdd(id) == bulk' = id /\ lost' = lost \cup ({bulk} \ {None})
BulkDelete(id) == bulk' = None /\ lost' = lost \cup ({bulk} \ {None, id})

ServerOnReply ==
    /\ toServer # <<>> /\ Head(toServer).kind = "reply"
    /\ LET reply == Head(toServer)
           request == reply.to
       IN CASE request.kind = "unregister" /\ request.via = "one" ->
                    BulkDelete(request.id) /\ UNCHANGED single
            [] request.kind = "register" /\ reply.ok /\ request.via = "bulk" ->
                    BulkAdd(request.list[1].id) /\ UNCHANGED single
            [] request.kind = "register" /\ reply.ok /\ request.via # "bulk" ->
                    /\ single' = single \cup ({r.id : r \in ToSet(request.list)} \cap DynamicIds)
                    /\ UNCHANGED <<bulk, lost>>
            [] request.kind = "register" /\ ~reply.ok ->
                    /\ lost' = lost \cup ({r.id : r \in ToSet(request.list)} \cap DynamicIds)
                    /\ UNCHANGED <<single, bulk>>
            [] OTHER -> UNCHANGED <<single, bulk, lost>>
    /\ toServer' = Tail(toServer)
    /\ UNCHANGED <<client, used, given, data, phase, table, stray, ignored, shown,
                   toClient, silent>>

-----------------------------------------------------------------------------
Init ==
    /\ feature \in Features
    /\ selector \in BOOLEAN
    /\ others \in IF This.client.how = "command" THEN SUBSET {"c2"} ELSE {{}}
    /\ phase = "stopped" /\ starts = 0
    /\ table = {} /\ stray = {} /\ ignored = {}
    /\ shown = [i \in Ids |-> Nothing]
    /\ toClient = <<>> /\ toServer = <<>>
    /\ used = {} /\ single = {} /\ bulk = None /\ silent = {} /\ lost = {}
    /\ given = FALSE /\ data = 0

\* A capability can carry an id only if the protocol's type of it does.
StartSome ==
    \E present, named, own \in BOOLEAN, options \in This.protocol.options :
        /\ named => (present /\ This.protocol.static)
        /\ own => (named /\ This.client.how = "registration")
        /\ ~present => options = CHOOSE o \in This.protocol.options : TRUE
        /\ Start(present, named, own, options)
\* Ids are made up by the server's library: the next unused one stands for any.
NewId == IF used = DynamicIds THEN {} ELSE {CHOOSE i \in DynamicIds : i \notin used}
\* A registration's own selector changes nothing when the client has one.
Selectors == IF selector \/ ~NeedsSelector THEN {TRUE} ELSE BOOLEAN
RegisterSome ==
    \E id \in NewId, options \in This.protocol.options, own \in Selectors :
        \/ \E via \in {"one", "bulk"} : RegisterSingle(id, via, options, own)
        \/ \E first \in BOOLEAN : RegisterMany(id, first, options, own)
ProvideSome == \E e \in table : \E a \in Requests(This.client, e.options) : Provide(e, a)
AnswerSome ==
    \E code \in {"ok", "ServerCancelled", "ContentModified", "InternalError"} :
        ServerAnswers(code)
Dispose == (\E id \in single : DisposeHandle(id)) \/ DisposeBulk \/ DisposeSingle

Next ==
    \/ StartSome \/ Stop \/ Stopped
    \/ DoRegisterCapability \/ DoUnregisterCapability
    \/ ProvideSome \/ OnAnswer \/ DropAnswer \/ OnRefresh
    \/ AnswerSome \/ AnswersCancelled \/ ServerChanges
    \/ RegisterSome \/ Dispose \/ UnregisterStatic
    \/ ServerOnReply

Spec == Init /\ [][Next]_vars

-----------------------------------------------------------------------------
(* Properties.                                                             *)

MessagesToClient == {"register", "unregister", "refresh", "answer", "cancelled"}

\* The types of the variables.
TypeOK ==
    /\ feature \in Features /\ selector \in BOOLEAN /\ others \subseteq Commands
    /\ phase \in {"stopped", "running", "stopping"} /\ starts \in 0..MaxStarts
    /\ \A e \in table : e.id \in Ids /\ e.options \in This.protocol.options
    /\ stray \subseteq Commands /\ ignored \subseteq (Ids \cup {"other"})
    /\ shown \in [Ids -> [is : {"nothing", "value", "failed"}, data : 0..MaxData,
                          of : {Editor} \cup {a.method : a \in This.protocol.asks}]]
    /\ \A m \in ToSet(toClient) : m.kind \in MessagesToClient
    /\ \A m \in ToSet(toServer) : m.kind \in {"ask", "reply", "cancelled"}
    /\ used \subseteq DynamicIds /\ single \subseteq used /\ bulk \in used \cup {None}
    /\ silent \subseteq Ids /\ lost \subseteq DynamicIds
    /\ given \in BOOLEAN /\ data \in 0..MaxData

\* Every request a provider sends is one the protocol permits under the
\* options of its registration, and one the server's API has a handler for;
\* a call that continues an item goes to the provider the item came from.  The
\* three layers are written in three places (client/src/common/<feature>.ts,
\* protocol.<feature>.ts, server.ts).
OnlyDeclared ==
    \A m \in ToSet(toServer) : m.kind = "ask" =>
        /\ \E a \in Requests(This.protocol, m.options) :
              a.method = m.ask.method /\ a.on = m.ask.on
        /\ m.ask.method \in Handled

Settled ==
    /\ phase = "running"
    /\ \A m \in ToSet(toClient) : m.kind \notin {"register", "unregister"}
    /\ \A m \in ToSet(toServer) : m.kind # "reply"

\* With no registration under way, the client and the server agree on what is
\* registered: every dynamic registration the client has can be taken back by
\* a handle the server still holds, except those whose handle was lost in one
\* of the two ways the code loses one (a refused bulk, a method registered
\* twice in one BulkUnregistration); a handle held stands for a registration
\* the client acts on, unless it had no selector; and a capability given with
\* an id is registered under it.
ServerAndClientAgree ==
    Settled =>
        /\ (Registered \cap DynamicIds) \subseteq (single \cup {bulk} \cup lost)
        /\ single \subseteq (Registered \cup silent)
        /\ given => "auto" \notin Registered

\* Providers serve the editor only while the client runs: a registration that
\* arrives while it stops makes none, and of the commands none is left but
\* those whose registration threw half way.
NothingAfterStop ==
    phase # "running" => table = {} /\ (This.client.how # "command" => stray = {})

\* What the editor shows of a provider whose last call succeeded is the data
\* the server serves now, once no refresh and no call is under way: a refresh
\* reaches every provider of the feature, also the ones registered since.
FreshAtRest ==
    \A e \in table :
        (/\ This.client.refreshed /\ ~Outstanding(e.id)
         /\ \A m \in ToSet(toClient) : m.kind # "refresh"
         /\ shown[e.id].is = "value")
        => shown[e.id].data = data

\* The server is asked only for what it declared; providers are there for what
\* both ends hold for registered; and none outlives the session.
RegisteredAsDeclared ==
    TypeOK /\ OnlyDeclared /\ ServerAndClientAgree /\ NothingAfterStop
=============================================================================

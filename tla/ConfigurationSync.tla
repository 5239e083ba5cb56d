------------------------- MODULE ConfigurationSync -------------------------
(***************************************************************************)
(* How a server gets the settings: pushed by SyncConfigurationFeature of   *)
(* client/src/common/configuration.ts when a registration names sections,  *)
(* announced with null settings when it names none, and pulled with        *)
(* workspace/configuration, which ConfigurationFeature answers.  The       *)
(* server's program is taken to replace what it has by what it is given,   *)
(* and to pull when it has registered without sections and on every null.  *)
(*                                                                         *)
(* A setting is a number; 0 is a value JavaScript takes for false, and a   *)
(* section left out of a message is one to the program.  A push goes       *)
(* through sendNotification of the client: one that finds an open          *)
(* notification pending (delayOpenNotifications, not a full sync) sends it *)
(* and waits, and the pushes after it do not.  A response does not go that *)
(* way.                                                                    *)
(***************************************************************************)
EXTENDS Naturals, Sequences, FiniteSets

CONSTANTS Sections, Values, Registrations, None, MaxChanges, MaxSessions, MaxRegistrations

VARIABLES
    settings,       \* of the editor
    configurationSection,  \* synchronize.configurationSection of the options
    running,        \* is the client running?
    listeners,      \* _listeners: the sections of each, None for no listener
    openPending,    \* an open notification is pending
    waiting,        \* the push that waits for it, in a sequence
    toServer, toClient,
    has,            \* the settings the program has
    ids,            \* registrations the program has made and not ended
    overtaken,      \* history: a push was sent after what is newer
    changes, sessions, registrations  \* bounds

vars == <<settings, configurationSection, running, listeners, openPending, waiting,
          toServer, toClient, has, ids, overtaken, changes, sessions, registrations>>

Ids == Registrations \cup {"option"}
Bounds == <<changes, sessions, registrations>>

-----------------------------------------------------------------------------
(* The client.                                                             *)

\* extractSettingsInformation: false settings are left out.
ExtractSettingsInformation(sections, current) ==
    [s \in Sections |-> IF s \in sections THEN current[s] ELSE 0]

\* onDidChangeConfiguration, for a listener that its event affects.
Notification(sections, current) ==
    IF sections = {} THEN [kind |-> "null"]
    ELSE [kind |-> "settings",
          settings |-> ExtractSettingsInformation(sections, current)]

\* sendNotification of some notifications, in turn.
SendNotifications(sent) ==
    IF sent = <<>> THEN UNCHANGED <<openPending, waiting, toServer, overtaken>>
    ELSE IF openPending /\ waiting = <<>>
         THEN /\ waiting' = <<Head(sent)>> /\ openPending' = FALSE
              /\ toServer' = toServer \o Tail(sent)
              /\ overtaken' = (overtaken \/ Tail(sent) # <<>>)
         ELSE /\ toServer' = toServer \o sent
              /\ overtaken' = (overtaken \/ waiting # <<>>)
              /\ UNCHANGED <<openPending, waiting>>

\* The opens are sent, and so is the push that waited for them.
Waited ==
    /\ waiting # <<>>
    /\ toServer' = toServer \o waiting
    /\ waiting' = <<>>
    /\ UNCHANGED <<settings, configurationSection, running, listeners, openPending,
                   toClient, has, ids, overtaken, Bounds>>

\* A hidden document is opened.
OpenHidden ==
    /\ running /\ ~openPending /\ waiting = <<>>
    /\ openPending' = TRUE
    /\ UNCHANGED <<settings, configurationSection, running, listeners, waiting, toServer,
                   toClient, has, ids, overtaken, Bounds>>

\* register: the listener, and a first push if sections are named.
Register(id, sections) ==
    /\ listeners' = [listeners EXCEPT ![id] = sections]
    /\ SendNotifications(IF sections = {} THEN <<>> ELSE <<Notification(sections, settings)>>)

\* The client has started: initialize.
Start ==
    /\ ~running /\ sessions < MaxSessions
    /\ sessions' = sessions + 1
    /\ running' = TRUE
    /\ IF configurationSection = {}
       THEN UNCHANGED <<listeners, openPending, waiting, toServer, overtaken>>
       ELSE Register("option", configurationSection)
    /\ UNCHANGED <<settings, configurationSection, toClient, has, ids, changes, registrations>>

\* clear, and the end of the server.
Stop ==
    /\ running
    /\ running' = FALSE
    /\ listeners' = [i \in Ids |-> None]
    /\ openPending' = FALSE /\ waiting' = <<>> /\ toServer' = <<>> /\ toClient' = <<>>
    /\ has' = [s \in Sections |-> 0] /\ ids' = {}
    /\ overtaken' = FALSE /\ registrations' = 0
    /\ UNCHANGED <<settings, configurationSection, changes, sessions>>

\* The user sets a section: the listeners it affects send, in some order.
Affected(s) ==
    {i \in Ids : listeners[i] # None /\ (listeners[i] = {} \/ s \in listeners[i])}
Change(s, v) ==
    /\ v # settings[s] /\ changes < MaxChanges
    /\ changes' = changes + 1
    /\ settings' = [settings EXCEPT ![s] = v]
    /\ \E order \in [1..Cardinality(Affected(s)) -> Affected(s)] :
          /\ {order[k] : k \in DOMAIN order} = Affected(s)
          /\ SendNotifications([k \in DOMAIN order |-> Notification(listeners[order[k]], settings')])
    /\ UNCHANGED <<configurationSection, running, listeners, toClient, has, ids, sessions,
                   registrations>>

\* The client handles a request of the server.
Serve ==
    /\ running /\ toClient # <<>>
    /\ LET request == Head(toClient)
       IN CASE request.kind = "register" -> Register(request.id, request.sections)
            [] request.kind = "unregister" ->
                 /\ listeners' = [listeners EXCEPT ![request.id] = None]
                 /\ UNCHANGED <<openPending, waiting, toServer, overtaken>>
            [] request.kind = "pull" ->
                 /\ toServer' = Append(toServer, [kind |-> "answer", settings |-> settings])
                 /\ overtaken' = (overtaken \/ waiting # <<>>)
                 /\ UNCHANGED <<listeners, openPending, waiting>>
    /\ toClient' = Tail(toClient)
    /\ UNCHANGED <<settings, configurationSection, running, has, ids, Bounds>>

-----------------------------------------------------------------------------
(* The server.                                                             *)

Pull == [kind |-> "pull"]

\* The program registers, and pulls if it asked for no sections.
ServerRegister(id, sections) ==
    /\ running /\ id \notin ids /\ registrations < MaxRegistrations
    /\ registrations' = registrations + 1
    /\ ids' = ids \cup {id}
    /\ toClient' = Append(toClient, [kind |-> "register", id |-> id, sections |-> sections])
                   \o (IF sections = {} THEN <<Pull>> ELSE <<>>)
    /\ UNCHANGED <<settings, configurationSection, running, listeners, openPending, waiting,
                   toServer, has, overtaken, changes, sessions>>

ServerUnregister(id) ==
    /\ running /\ id \in ids
    /\ ids' = ids \ {id}
    /\ toClient' = Append(toClient, [kind |-> "unregister", id |-> id])
    /\ UNCHANGED <<settings, configurationSection, running, listeners, openPending, waiting,
                   toServer, has, overtaken, Bounds>>

Receive ==
    /\ toServer # <<>>
    /\ IF Head(toServer).kind = "null"
       THEN toClient' = Append(toClient, Pull) /\ UNCHANGED has
       ELSE has' = Head(toServer).settings /\ UNCHANGED toClient
    /\ toServer' = Tail(toServer)
    /\ UNCHANGED <<settings, configurationSection, running, listeners, openPending, waiting,
                   ids, overtaken, Bounds>>

-----------------------------------------------------------------------------
Init ==
    /\ settings \in [Sections -> Values]
    /\ configurationSection \in SUBSET Sections
    /\ running = FALSE /\ listeners = [i \in Ids |-> None]
    /\ openPending = FALSE /\ waiting = <<>> /\ toServer = <<>> /\ toClient = <<>>
    /\ has = [s \in Sections |-> 0] /\ ids = {} /\ overtaken = FALSE
    /\ changes = 0 /\ sessions = 0 /\ registrations = 0

Next ==
    \/ Start \/ Stop \/ Serve \/ Waited \/ OpenHidden
    \/ \E s \in Sections, v \in Values : Change(s, v)
    \/ \E id \in Registrations, sections \in SUBSET Sections : ServerRegister(id, sections)
    \/ \E id \in Registrations : ServerUnregister(id)
    \/ Receive

Spec == Init /\ [][Next]_vars

-----------------------------------------------------------------------------
(* Properties.                                                             *)

\* Once nothing is under way, the program of a server that listens has the
\* settings of the editor in the sections it asked for, and not the leftovers
\* of a push or of an answer that was already stale when it came.  Two cases
\* are left out, where the code promises less: a push overtaken in
\* sendNotification, and more than one listener, of the options or of a
\* registration, in a session: the server cannot tell the pushes of one from
\* those of another, and its program takes the sections that one leaves out
\* for unset.
Listening == {i \in Ids : listeners[i] # None}
OneSource == IF configurationSection = {} THEN registrations <= 1 ELSE registrations = 0
SettingsAgree ==
    /\ toServer = <<>> /\ toClient = <<>> /\ waiting = <<>> /\ ~overtaken
    /\ OneSource
    => \A i \in Listening : \A s \in Sections :
            listeners[i] = {} \/ s \in listeners[i] => has[s] = settings[s]
=============================================================================

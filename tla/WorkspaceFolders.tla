-------------------------- MODULE WorkspaceFolders --------------------------
(***************************************************************************)
(* How a server learns of the workspace folders of the editor: the folders *)
(* in the initialize request, the didChangeWorkspaceFolders notifications  *)
(* of the listeners registered, the difference a registration sends        *)
(* because folders may have changed since initialize, and                  *)
(* workspace/workspaceFolders on demand.                                   *)
(*                                                                         *)
(* client/src/common/workspaceFolder.ts is the client's side,              *)
(* server/src/common/workspaceFolder.ts the server's: it registers for the *)
(* notification by itself when the server's program first asks for the     *)
(* event, unless the server's capability did.  The program is taken to     *)
(* keep the folders it was given and to add and remove those it is told.   *)
(*                                                                         *)
(* No folder open (undefined) and an empty workspace are both {}: the      *)
(* client's code does the same for them.                                   *)
(***************************************************************************)
EXTENDS Naturals, Sequences, FiniteSets

CONSTANTS Folders, MaxChanges, MaxSessions, MaxUnregistrations

VARIABLES
    folders,         \* workspace.workspaceFolders of the editor
    phase,           \* "stopped", "initializing" or "running"
    initialFolders,  \* _initialFolders
    listeners,       \* _listeners: the ids registered
    toServer, toClient,
    known,           \* the folders the server's program knows of
    autoRegistered,  \* _notificationIsAutoRegistered
    unregistration,  \* _unregistration is set
    askedEarly,      \* history: the folders were asked for before any listener
    changes, sessions, unregistrations  \* bounds

vars == <<folders, phase, initialFolders, listeners, toServer, toClient, known,
          autoRegistered, unregistration, askedEarly, changes, sessions,
          unregistrations>>

Ids == {"static", "dynamic"}
ServerVars == <<known, autoRegistered, unregistration>>
Bounds == <<changes, sessions, unregistrations>>

Event(added, removed) == [kind |-> "event", added |-> added, removed |-> removed]

\* Mutant of SendInitialEvent: only what was added is told.
SendAddedOnly ==
    IF folders \ initialFolders = {} THEN <<>> ELSE <<Event(folders \ initialFolders, {})>>

\* sendInitialEvent: what changed since the folders were last remembered.
SendInitialEvent ==
    IF folders = initialFolders THEN <<>>
    ELSE <<Event(folders \ initialFolders, initialFolders \ folders)>>

-----------------------------------------------------------------------------
(* The client.                                                             *)

\* fillInitializeParams.
Start ==
    /\ phase = "stopped" /\ sessions < MaxSessions
    /\ phase' = "initializing" /\ sessions' = sessions + 1
    /\ initialFolders' = folders
    /\ toServer' = <<[kind |-> "initialize", folders |-> folders]>>
    /\ toClient' = <<>>
    /\ UNCHANGED <<folders, listeners, ServerVars, askedEarly, changes, unregistrations>>

\* register: the listener, then the initial event.
Register(id) ==
    /\ listeners' = listeners \cup {id}
    /\ toServer' = toServer \o SendInitialEvent

\* initialize, on the server's capabilities.
Initialize ==
    /\ phase = "initializing"
    /\ toClient # <<>> /\ Head(toClient).kind = "capabilities"
    /\ phase' = "running"
    /\ IF Head(toClient).changeNotifications THEN Register("static")
       ELSE UNCHANGED <<listeners, toServer>>
    /\ toClient' = Tail(toClient)
    /\ UNCHANGED <<folders, initialFolders, ServerVars, askedEarly, Bounds>>

\* A request of the server for the client: a registration, its end, or the
\* folders.
Serve ==
    /\ phase = "running" /\ toClient # <<>>
    /\ LET request == Head(toClient)
       IN CASE request.kind = "register" -> Register("dynamic")
            [] request.kind = "unregister" ->
                    listeners' = listeners \ {request.id} /\ UNCHANGED toServer
            [] request.kind = "getFolders" ->
                    /\ toServer' = Append(toServer, [kind |-> "folders", folders |-> folders])
                    /\ UNCHANGED listeners
    /\ askedEarly' = (askedEarly \/ (Head(toClient).kind = "getFolders" /\ listeners = {}))
    /\ toClient' = Tail(toClient)
    /\ UNCHANGED <<folders, phase, initialFolders, ServerVars, Bounds>>

\* The user adds or removes folders; every listener sends the event.
EventFor(l, e) == IF l \in listeners THEN <<e>> ELSE <<>>
Change(new) ==
    /\ new # folders /\ changes < MaxChanges
    /\ changes' = changes + 1
    /\ folders' = new
    /\ LET event == Event(new \ folders, folders \ new)
       IN toServer' = toServer \o EventFor("static", event) \o EventFor("dynamic", event)
    /\ UNCHANGED <<phase, initialFolders, listeners, toClient, ServerVars, askedEarly,
                   sessions, unregistrations>>

\* clear, and the end of the server.  The folders remembered are not reset.
Stop ==
    /\ phase = "running"
    /\ phase' = "stopped"
    /\ listeners' = {}
    /\ toServer' = <<>> /\ toClient' = <<>>
    /\ known' = {} /\ autoRegistered' = FALSE /\ unregistration' = FALSE
    /\ askedEarly' = FALSE /\ unregistrations' = 0
    /\ UNCHANGED <<folders, initialFolders, changes, sessions>>

-----------------------------------------------------------------------------
(* The server.                                                             *)

\* The initialize request, and fillServerCapabilities on the capabilities the
\* program returns.
ServerInitialize(changeNotifications) ==
    /\ toServer # <<>> /\ Head(toServer).kind = "initialize"
    /\ known' = Head(toServer).folders
    /\ autoRegistered' = changeNotifications
    /\ toClient' = Append(toClient, [kind |-> "capabilities",
                                     changeNotifications |-> changeNotifications])
    /\ toServer' = Tail(toServer)
    /\ UNCHANGED <<folders, phase, initialFolders, listeners, unregistration,
                   askedEarly, Bounds>>

Receive ==
    /\ toServer # <<>> /\ Head(toServer).kind # "initialize"
    /\ LET m == Head(toServer)
       IN known' = IF m.kind = "event" THEN (known \ m.removed) \cup m.added ELSE m.folders
    /\ toServer' = Tail(toServer)
    /\ UNCHANGED <<folders, phase, initialFolders, listeners, toClient, autoRegistered,
                   unregistration, askedEarly, Bounds>>

\* Has the program seen the initialize request?
Initialized == phase = "running"

\* The program asks for onDidChangeWorkspaceFolders.
RegistersNow == ~autoRegistered /\ ~unregistration
OnDidChangeWorkspaceFolders ==
    /\ Initialized /\ RegistersNow
    /\ unregistration' = TRUE
    /\ toClient' = Append(toClient, [kind |-> "register"])
    /\ UNCHANGED <<folders, phase, initialFolders, listeners, toServer, known,
                   autoRegistered, askedEarly, Bounds>>

\* The program waits for the answer before it asks again.
Awaited ==
    \/ \E i \in DOMAIN toClient : toClient[i].kind = "getFolders"
    \/ \E i \in DOMAIN toServer : toServer[i].kind = "folders"
GetWorkspaceFolders ==
    /\ Initialized /\ ~Awaited
    /\ toClient' = Append(toClient, [kind |-> "getFolders"])
    /\ UNCHANGED <<folders, phase, initialFolders, listeners, toServer, ServerVars, askedEarly,
                   Bounds>>

\* A program that gave its capability an id, or keeps the promise of a
\* registration of its own, can end it and register again.
Unregister(id) ==
    /\ Initialized /\ unregistrations < MaxUnregistrations
    /\ IF id = "static" THEN autoRegistered ELSE unregistration
    /\ unregistrations' = unregistrations + 1
    /\ autoRegistered' = (autoRegistered /\ id # "static")
    /\ unregistration' = (unregistration /\ id # "dynamic")
    /\ toClient' = Append(toClient, [kind |-> "unregister", id |-> id])
    /\ UNCHANGED <<folders, phase, initialFolders, listeners, toServer, known, askedEarly,
                   changes, sessions>>

-----------------------------------------------------------------------------
Init ==
    /\ folders \in SUBSET Folders
    /\ phase = "stopped" /\ initialFolders = {} /\ listeners = {}
    /\ toServer = <<>> /\ toClient = <<>>
    /\ known = {} /\ autoRegistered = FALSE /\ unregistration = FALSE
    /\ askedEarly = FALSE /\ changes = 0 /\ sessions = 0 /\ unregistrations = 0

Next ==
    \/ Start \/ Initialize \/ Serve \/ Stop
    \/ \E new \in SUBSET Folders : Change(new)
    \/ \E changeNotifications \in BOOLEAN : ServerInitialize(changeNotifications)
    \/ Receive \/ OnDidChangeWorkspaceFolders \/ GetWorkspaceFolders
    \/ \E id \in Ids : Unregister(id)

Spec == Init /\ [][Next]_vars

-----------------------------------------------------------------------------
(* Properties.                                                             *)

\* A server that listens knows the folders of the editor once nothing is
\* under way: changes made while it initialized and before it registered are
\* not lost, and an answer to a request for the folders that crosses events
\* does no harm.  It holds for a first registration, and if the program did
\* not ask for the folders before it: the difference a registration sends is
\* that to the folders of the initialize request.
FoldersAgree ==
    phase = "running" /\ listeners # {} /\ toServer = <<>>
    /\ unregistrations = 0 /\ ~askedEarly
        => known = folders

\* The library registers at most once, so that no event comes twice.
OneListener == unregistrations = 0 => Cardinality(listeners) <= 1
=============================================================================

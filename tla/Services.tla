------------------------------ MODULE Services ------------------------------
(***************************************************************************)
(* The smaller services of client and server, side by side: they do not    *)
(* depend on each other, so that a behaviour is one of one part and the    *)
(* variables of the others stay out of it.                                 *)
(***************************************************************************)
EXTENDS Integers, FiniteSets

CONSTANTS
    None,
    Paths, Filters, RegistrationIds,   \* FileOperations
    Folders,                           \* WorkspaceFolders
    Sections, Values, Registrations,   \* ConfigurationSync
    Percentages,                       \* WorkDoneProgress
    Documents,                         \* WorkspaceEdits, WorkspaceChange
    Annotations,                       \* WorkspaceChange
    Keys, Limits,                      \* LinkedMap
    \* bounds
    MaxOperations, MaxDisturbances, MaxChanges, MaxSessions, MaxUnregistrations, MaxRegistrations, MaxCalls,
    MaxVersion, MaxEdits, MaxOpens, MaxLaunches

(* None stands where a percentage, the sections of a listener, an           *)
(* annotation or a key may stand, and "option" beside the ids of            *)
(* registrations.  The editor has finitely many documents, and a server     *)
(* finitely many registrations.  A change may be built by at least one      *)
(* call.  The limit of a cache is a number, and a plain map has none.       *)
ASSUME ServicesAssumption ==
    /\ Percentages \subseteq Int /\ None \notin Percentages
    /\ \A sections \in SUBSET Sections : sections # None
    /\ None \notin Annotations /\ None \notin Keys
    /\ Limits \subseteq Nat \cup {None}
    /\ "option" \notin Registrations
    /\ IsFiniteSet(Registrations) /\ IsFiniteSet(Documents)
    /\ MaxCalls \in Nat \ {0}

VARIABLES
    part,
    \* FileOperations
    kind, role, disk, registered, listener, willListener, cache, running, op,
    disturbances,
    \* WorkspaceFolders
    folders, phase, initialFolders, listeners, toServer, toClient, known, autoRegistered,
    unregistration, askedEarly, changes, sessions, unregistrations,
    \* ConfigurationSync
    settings, configurationSection, synchronizing, watching, openPending, waiting, pushes,
    requests, has, ids, overtaken, edited, restarts, registrations,
    \* WorkDoneProgress
    origin, instance, cancelled, reports, cancels, listening, created, infinite, reported,
    window, windows, initializing, highest, lost, userAsked, calls,
    \* WorkspaceEdits
    version, opens, seen, notified, ordered, locked, converting, applied, stale, edits,
    \* ServerProcess
    launch, clientPhase, serverProcess, connection, checks, late, process, stopped, closedLate,
    \* WorkspaceChange
    form, entries, editsOf, defined, counter, size, begun, promised, read, built,
    \* LinkedMap
    list, limit, kept, iterator, order

FO == INSTANCE FileOperations
WF == INSTANCE WorkspaceFolders
CS == INSTANCE ConfigurationSync WITH
          running <- synchronizing, listeners <- watching, toServer <- pushes,
          toClient <- requests, changes <- edited, sessions <- restarts
WP == INSTANCE WorkDoneProgress WITH
          toServer <- cancels, toClient <- reports, asked <- userAsked
WE == INSTANCE WorkspaceEdits WITH
          toServer <- notified, toClient <- ordered, waiting <- locked
SP == INSTANCE ServerProcess WITH phase <- clientPhase
WC == INSTANCE WorkspaceChange WITH changes <- entries, calls <- built
LM == INSTANCE LinkedMap

(* The variables of each part.                                              *)
FOvars ==
    <<kind, role, disk, registered, listener, willListener, cache, running, op,
      disturbances>>
WFvars ==
    <<folders, phase, initialFolders, listeners, toServer, toClient, known, autoRegistered,
      unregistration, askedEarly, changes, sessions, unregistrations>>
CSvars ==
    <<settings, configurationSection, synchronizing, watching, openPending, waiting, pushes,
      requests, has, ids, overtaken, edited, restarts, registrations>>
WPvars ==
    <<origin, instance, cancelled, reports, cancels, listening, created, infinite, reported,
      window, windows, initializing, highest, lost, userAsked, calls>>
WEvars ==
    <<version, opens, seen, notified, ordered, locked, converting, applied, stale, edits>>
SPvars ==
    <<launch, clientPhase, serverProcess, connection, checks, late, process, stopped,
      closedLate>>
WCvars ==
    <<form, entries, editsOf, defined, counter, size, begun, promised, read, built>>
LMvars ==
    <<list, limit, kept, iterator, order>>

FileOperationsIdle ==
    /\ kind = None /\ role = None /\ disk = None /\ registered = None /\ listener = None
    /\ willListener = None /\ cache = None /\ running = None /\ op = None
    /\ disturbances = None
WorkspaceFoldersIdle ==
    /\ folders = None /\ phase = None /\ initialFolders = None /\ listeners = None
    /\ toServer = None /\ toClient = None /\ known = None /\ autoRegistered = None
    /\ unregistration = None /\ askedEarly = None /\ changes = None /\ sessions = None
    /\ unregistrations = None
ConfigurationSyncIdle ==
    /\ settings = None /\ configurationSection = None /\ synchronizing = None /\ watching = None
    /\ openPending = None /\ waiting = None /\ pushes = None /\ requests = None /\ has = None
    /\ ids = None /\ overtaken = None /\ edited = None /\ restarts = None
    /\ registrations = None
WorkDoneProgressIdle ==
    /\ origin = None /\ instance = None /\ cancelled = None /\ reports = None /\ cancels = None
    /\ listening = None /\ created = None /\ infinite = None /\ reported = None /\ window = None
    /\ windows = None /\ initializing = None /\ highest = None /\ lost = None
    /\ userAsked = None /\ calls = None
WorkspaceEditsIdle ==
    /\ version = None /\ opens = None /\ seen = None /\ notified = None /\ ordered = None
    /\ locked = None /\ converting = None /\ applied = None /\ stale = None /\ edits = None
ServerProcessIdle ==
    /\ launch = None /\ clientPhase = None /\ serverProcess = None /\ connection = None
    /\ checks = None /\ late = None /\ process = None /\ stopped = None /\ closedLate = None
WorkspaceChangeIdle ==
    /\ form = None /\ entries = None /\ editsOf = None /\ defined = None /\ counter = None
    /\ size = None /\ begun = None /\ promised = None /\ read = None /\ built = None
LinkedMapIdle ==
    /\ list = None /\ limit = None /\ kept = None /\ iterator = None /\ order = None

-----------------------------------------------------------------------------
Parts ==
    {"fileOperations", "folders", "configuration", "progress", "edits", "process", "change", "map"}

(* The initial states and the steps, of which a part takes only its own.    *)
PartsInit ==
    /\ IF part = "fileOperations" THEN FO!Init ELSE FileOperationsIdle
    /\ IF part = "folders" THEN WF!Init ELSE WorkspaceFoldersIdle
    /\ IF part = "configuration" THEN CS!Init ELSE ConfigurationSyncIdle
    /\ IF part = "progress" THEN WP!Init ELSE WorkDoneProgressIdle
    /\ IF part = "edits" THEN WE!Init ELSE WorkspaceEditsIdle
    /\ IF part = "process" THEN SP!Init ELSE ServerProcessIdle
    /\ IF part = "change" THEN WC!Init ELSE WorkspaceChangeIdle
    /\ IF part = "map" THEN LM!Init ELSE LinkedMapIdle

Init == part \in Parts /\ PartsInit

Next ==
    /\ UNCHANGED part
    /\ \/ /\ part = "fileOperations" /\ FO!Next
          /\ UNCHANGED <<WFvars, CSvars, WPvars, WEvars, SPvars, WCvars, LMvars>>
       \/ /\ part = "folders" /\ WF!Next
          /\ UNCHANGED <<FOvars, CSvars, WPvars, WEvars, SPvars, WCvars, LMvars>>
       \/ /\ part = "configuration" /\ CS!Next
          /\ UNCHANGED <<FOvars, WFvars, WPvars, WEvars, SPvars, WCvars, LMvars>>
       \/ /\ part = "progress" /\ WP!Next
          /\ UNCHANGED <<FOvars, WFvars, CSvars, WEvars, SPvars, WCvars, LMvars>>
       \/ /\ part = "edits" /\ WE!Next
          /\ UNCHANGED <<FOvars, WFvars, CSvars, WPvars, SPvars, WCvars, LMvars>>
       \/ /\ part = "process" /\ SP!Next
          /\ UNCHANGED <<FOvars, WFvars, CSvars, WPvars, WEvars, WCvars, LMvars>>
       \/ /\ part = "change" /\ WC!Next
          /\ UNCHANGED <<FOvars, WFvars, CSvars, WPvars, WEvars, SPvars, LMvars>>
       \/ /\ part = "map" /\ LM!Next
          /\ UNCHANGED <<FOvars, WFvars, CSvars, WPvars, WEvars, SPvars, WCvars>>

vars == <<part, FOvars, WFvars, CSvars, WPvars, WEvars, SPvars, WCvars, LMvars>>
Spec == Init /\ [][Next]_vars

-----------------------------------------------------------------------------
(* Of an operation nothing has interfered with, the server is told of the    *)
(* files that match its filters, except for patterns that need a slash and   *)
(* for files with a wrong entry in the cache, and the client listens while   *)
(* there are filters.                                                        *)
FilesTold ==
    part = "fileOperations" => FO!ToldWithoutSlash /\ FO!ListensWhileNeeded

(* The server's workspace folders are the editor's once all is told, one     *)
(* listener reports them, and the settings it has are the current ones.      *)
WorkspaceAgrees ==
    /\ part = "folders" => WF!FoldersAgree /\ WF!OneListener
    /\ part = "configuration" => CS!SettingsAgree

(* No progress window outlives its work, it shows what was reported last,    *)
(* and the user's cancel reaches the server.                                 *)
ProgressShown ==
    part = "progress" => WP!NoWindowLeft /\ WP!ShownIsReported /\ WP!CancelReachesServer

(* An edit the server sent is applied to the text it was computed for, or    *)
(* refused.                                                                  *)
AppliedAsSent == part = "edits" => WE!AppliedAsSent

(* The exit code of a server's process tells whether it was shut down, and   *)
(* none runs on that nobody looks at.                                        *)
ProcessesEnd == part = "process" => SP!ProcessesEnd

(* The edit that a WorkspaceChange builds defines the annotations it refers  *)
(* to and has one list of edits for each document.                           *)
ChangeBuilds == part = "change" => WC!AnnotationsDefined /\ WC!OneListPerDocument

(* The links of a map are the order its calls make, within the limit of a    *)
(* cache, and an iteration sees that order or is told.                       *)
ListExact == part = "map" => LM!LinksAgree /\ LM!WithinLimit /\ LM!IterationExact
=============================================================================

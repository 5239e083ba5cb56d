---------------------------- MODULE ClientEvents ----------------------------
(***************************************************************************)
(* client/src/common/client.ts: what the client passes on with a delay.    *)
(*   Diagnostics the server publishes go into a queue with one entry per   *)
(* document; one entry at a time is converted, and then shown.             *)
(*   File events of the registered watchers are collected, and sent when   *)
(* a Delayer (utils/async.ts) fires; pending full changes of documents are *)
(* flushed by a second Delayer, or before anything else is sent.           *)
(*   Meanwhile the client stops, loses its connection, and starts again.   *)
(* Left out: middleware, and the time between Starting and the features'   *)
(* registration, which ClientLifecycle has.                                *)
(***************************************************************************)
EXTENDS Integers, FiniteSets, SequencesExt

CONSTANTS
  Uris,           \* the documents
  Watchers,       \* ids of registrations of file watchers
  Kinds,          \* kinds of file events
  None,           \* undefined
  Limits,         \* bounds of a behaviour: [publishes, files, edits, sessions]
  MaxInFlight     \* bound: sends of file events under way

\* Diagnostics a server published, numbered in the order of their coming, and an
\* event of a file: one copy for each watcher that tells it.
Published == [uri : Uris, number : Nat, session : Nat, malformed : BOOLEAN]
Event == [number : Nat, copy : Nat, session : Nat]

ASSUME EventsAssumption ==
  /\ IsFiniteSet(Watchers) /\ MaxInFlight \in Nat
  /\ Limits \subseteq [publishes : Nat, files : Nat, edits : Nat, sessions : Nat]
  /\ None \notin Published
  /\ None \notin [entry : Published, cancelled : BOOLEAN]
  /\ None \notin [Uris -> Published \cup {None}]

VARIABLES
  limits,         \* the bounds of this behaviour
  client,         \* $state, as far as it matters here
  session,        \* connections so far
  shown,          \* the diagnostic collection, or None when it is null
  queue,          \* _diagnosticQueue, in insertion order
  work,           \* _diagnosticQueueState: None when idle
  kick,           \* workDiagnosticQueue is scheduled
  latest,         \* the last diagnostics published in this session
  publishes,      \* diagnostics published so far
  watchers,       \* FileSystemWatcherFeature._watchers
  fileEvents,     \* _fileEvents
  fileTimer,      \* _fileEventDelayer
  sending,        \* sends of file events under way, oldest first
  delivered,      \* file events the server of this session has received
  restored,       \* file events some failed send put back
  files,          \* file events so far
  before,         \* file events of the sessions before this one
  pending,        \* a pending full change waits to be sent
  pendingTimer,   \* _pendingChangeDelayer
  edits           \* edits so far

queueVars == <<shown, queue, work, kick, latest, publishes>>
fileVars == <<watchers, fileEvents, fileTimer, sending, delivered, restored, files, before>>
editVars == <<pending, pendingTimer, edits>>
vars == <<limits, client, session, queueVars, fileVars, editVars>>

Nothing == [u \in Uris |-> None]

-----------------------------------------------------------------------------
\* Delayer.  The task is the same at every call: whether there is one matters.

Delayed == [timer |-> FALSE, task |-> FALSE]

Trigger(d) == [timer |-> TRUE, task |-> TRUE]

\* The task is erased after it ran, also one that it set itself.
Ran(d, again) == [timer |-> again, task |-> FALSE]

Cancel(d) == [d EXCEPT !.timer = FALSE]

-----------------------------------------------------------------------------
\* Diagnostics.

\* Map.set: an entry keeps its place.
Put(q, e) ==
  IF \E i \in DOMAIN q: q[i].uri = e.uri
  THEN [i \in DOMAIN q |-> IF q[i].uri = e.uri THEN e ELSE q[i]]
  ELSE Append(q, e)

\* Mutant of HandleDiagnostics: the conversion under way goes on.
HandleDiagnosticsNoCancel(e) ==
  IF shown = None THEN UNCHANGED <<queue, work, kick, latest>>
  ELSE /\ queue' = Put(queue, e) /\ kick' = TRUE
       /\ latest' = [latest EXCEPT ![e.uri] = e]
       /\ UNCHANGED work

HandleDiagnostics(e) ==
  IF shown = None THEN UNCHANGED <<queue, work, kick, latest>>
  ELSE /\ work' = IF work = None THEN None
                  ELSE [work EXCEPT !.cancelled = @ \/ work.entry.uri = e.uri]
       /\ queue' = Put(queue, e) /\ kick' = TRUE
       /\ latest' = [latest EXCEPT ![e.uri] = e]

\* The server publishes diagnostics, possibly such as cannot be converted.
Publish ==
  /\ client \in {"running", "stopping"} /\ publishes < limits.publishes
  /\ \E u \in Uris, malformed \in BOOLEAN:
       HandleDiagnostics([uri |-> u, number |-> publishes + 1, session |-> session,
                          malformed |-> malformed])
  /\ publishes' = publishes + 1
  /\ UNCHANGED <<limits, client, session, shown, fileVars, editVars>>

WorkDiagnosticQueue ==
  /\ kick /\ kick' = FALSE
  /\ IF work # None \/ queue = <<>> THEN UNCHANGED <<queue, work>>
     ELSE /\ work' = [entry |-> Head(queue), cancelled |-> FALSE]
          /\ queue' = Tail(queue)
  /\ UNCHANGED <<limits, client, session, shown, latest, publishes, fileVars, editVars>>

SetDiagnostics(e) ==
  shown' = IF shown = None THEN None ELSE [shown EXCEPT ![e.uri] = e]

\* Mutant of Converted: the state is idle again only after a success.
ConvertedBusy ==
  /\ work # None /\ ~work.cancelled /\ ~work.entry.malformed
  /\ SetDiagnostics(work.entry)
  /\ work' = None /\ kick' = TRUE
  /\ UNCHANGED <<limits, client, session, queue, latest, publishes, fileVars, editVars>>

\* The conversion ends: it was cancelled, fails, or its result is shown.
Converted ==
  /\ work # None
  /\ IF work.cancelled \/ work.entry.malformed THEN UNCHANGED shown
     ELSE SetDiagnostics(work.entry)
  /\ work' = None /\ kick' = TRUE
  /\ UNCHANGED <<limits, client, session, queue, latest, publishes, fileVars, editVars>>

-----------------------------------------------------------------------------
\* File events.

Register ==
  /\ client = "running"
  /\ \E w \in Watchers, kinds \in SUBSET Kinds \ {{}}:
       /\ watchers[w] = {}
       /\ watchers' = [watchers EXCEPT ![w] = kinds]
  /\ UNCHANGED <<limits, client, session, queueVars, fileEvents, fileTimer, sending,
                 delivered, restored, files, before, editVars>>

Unregister ==
  /\ client = "running"
  /\ \E w \in Watchers: watchers[w] # {} /\ watchers' = [watchers EXCEPT ![w] = {}]
  /\ UNCHANGED <<limits, client, session, queueVars, fileEvents, fileTimer, sending,
                 delivered, restored, files, before, editVars>>

\* notifyFileEvent, once for each watcher of the kind.
FileEvent ==
  /\ files < limits.files
  /\ \E k \in Kinds:
       LET told == Cardinality({w \in Watchers: k \in watchers[w]})
       IN /\ told > 0
          /\ fileEvents' = fileEvents \o
               [i \in 1 .. told |-> [number |-> files + 1, copy |-> i, session |-> session]]
  /\ fileTimer' = Trigger(fileTimer)
  /\ files' = files + 1
  /\ UNCHANGED <<limits, client, session, queueVars, watchers, sending, delivered, restored,
                 before, editVars>>

\* The delayer's task: the collected events are taken, and their send begins on
\* the connection of this session.
FileTimerFires ==
  /\ fileTimer.timer /\ Len(sending) < MaxInFlight
  /\ fileTimer' = Ran(fileTimer, FALSE)
  /\ sending' = Append(sending, [events |-> fileEvents, session |-> session])
  /\ fileEvents' = <<>>
  /\ UNCHANGED <<limits, client, session, queueVars, watchers, delivered, restored, files, before,
                 editVars>>

Connected(s) == client = "running" /\ s = session

\* sendNotification: pending changes first, then the events, in the order sent.
FilesSent ==
  /\ sending # <<>> /\ Connected(Head(sending).session)
  /\ delivered' = delivered \o Head(sending).events
  /\ sending' = Tail(sending)
  /\ pending' = FALSE
  /\ UNCHANGED <<limits, client, session, queueVars, watchers, fileEvents, fileTimer, restored,
                 files, before, pendingTimer, edits>>

\* Mutant of Restore: the events of a failed send are gone.
RestoreNothing(collected, events) == collected

\* The events of a failed send go behind those collected since.
Restore(collected, events) == collected \o events

SendFails ==
  /\ sending # <<>>
  /\ fileEvents' = Restore(fileEvents, Head(sending).events)
  /\ restored' = restored \cup ToSet(Head(sending).events)
  /\ sending' = Tail(sending)
  /\ UNCHANGED <<limits, client, session, queueVars, watchers, fileTimer, delivered, files, before,
                 editVars>>

-----------------------------------------------------------------------------
\* Pending full changes.

Edit ==
  /\ client = "running" /\ edits < limits.edits
  /\ pending' = TRUE
  /\ pendingTimer' = Trigger(pendingTimer)
  /\ edits' = edits + 1
  /\ UNCHANGED <<limits, client, session, queueVars, fileVars>>

\* With no connection the task triggers the delayer again, and its new task is
\* erased: the next timer finds none, and fails.
PendingTimerFires ==
  /\ pendingTimer.timer
  /\ IF ~pendingTimer.task THEN pendingTimer' = Cancel(pendingTimer) /\ UNCHANGED pending
     ELSE IF client = "running" THEN pendingTimer' = Ran(pendingTimer, FALSE) /\ pending' = FALSE
     ELSE pendingTimer' = Ran(Trigger(pendingTimer), TRUE) /\ UNCHANGED pending
  /\ UNCHANGED <<limits, client, session, queueVars, fileVars, edits>>

-----------------------------------------------------------------------------
\* The client's life.

\* cleanUp, for a stop or a restart.  The queue of diagnostics, the conversion
\* under way and the sends under way are left alone.
CleanUp ==
  /\ fileEvents' = <<>> /\ fileTimer' = Cancel(fileTimer)
  /\ watchers' = [w \in Watchers |-> {}]
  /\ pending' = FALSE

\* start re-enables the collection.
Begin ==
  /\ client' = "starting" /\ session' = session + 1
  /\ shown' = Nothing /\ latest' = Nothing /\ delivered' = <<>> /\ before' = files

Start ==
  /\ client = "stopped" /\ session < limits.sessions
  /\ Begin
  /\ UNCHANGED <<limits, queue, work, kick, publishes, watchers, fileEvents, fileTimer,
                 sending, restored, files, editVars>>

Started ==
  /\ client = "starting" /\ client' = "running"
  /\ UNCHANGED <<limits, session, queueVars, fileVars, editVars>>

Stop ==
  /\ client = "running" /\ client' = "stopping"
  /\ CleanUp /\ shown' = None /\ latest' = Nothing
  /\ UNCHANGED <<limits, session, queue, work, kick, publishes, sending, delivered, restored,
                 files, before, pendingTimer, edits>>

Stopped ==
  /\ client = "stopping" /\ client' = "stopped"
  /\ UNCHANGED <<limits, session, queueVars, fileVars, editVars>>

\* handleConnectionClosed, when the error handler asks for a restart.
Restart ==
  /\ client = "running" /\ session < limits.sessions
  /\ CleanUp /\ Begin
  /\ UNCHANGED <<limits, queue, work, kick, publishes, sending, restored, files, pendingTimer,
                 edits>>

\* handleConnectionClosed, when it asks for none.
Closed ==
  /\ client = "running" /\ client' = "stopped"
  /\ CleanUp /\ shown' = None /\ latest' = Nothing
  /\ UNCHANGED <<limits, session, queue, work, kick, publishes, sending, delivered, restored,
                 files, before, pendingTimer, edits>>

-----------------------------------------------------------------------------
Init ==
  /\ limits \in Limits
  /\ client = "stopped" /\ session = 0
  /\ shown = Nothing /\ queue = <<>> /\ work = None /\ kick = FALSE
  /\ latest = Nothing /\ publishes = 0
  /\ watchers = [w \in Watchers |-> {}] /\ fileEvents = <<>> /\ fileTimer = Delayed
  /\ sending = <<>> /\ delivered = <<>> /\ restored = {} /\ files = 0 /\ before = 0
  /\ pending = FALSE /\ pendingTimer = Delayed /\ edits = 0

Next ==
  \/ Publish \/ WorkDiagnosticQueue \/ Converted
  \/ Register \/ Unregister \/ FileEvent \/ FileTimerFires \/ FilesSent \/ SendFails
  \/ Edit \/ PendingTimerFires
  \/ Start \/ Started \/ Stop \/ Stopped \/ Restart \/ Closed

Spec == Init /\ [][Next]_vars

\* Immediates run and conversions end.
LiveSpec == Spec /\ WF_vars(WorkDiagnosticQueue) /\ WF_vars(Converted)

-----------------------------------------------------------------------------
\* Properties.

\* A document has at most one entry in the queue; the bounds hold.
TypeOK ==
  /\ limits \in Limits
  /\ client \in {"stopped", "starting", "running", "stopping"}
  /\ session \in 0 .. limits.sessions
  /\ \A i, j \in DOMAIN queue: queue[i].uri = queue[j].uri => i = j
  /\ kick \in BOOLEAN /\ pending \in BOOLEAN
  /\ Len(sending) <= MaxInFlight

\* Once newer diagnostics of a document have arrived, a conversion that began
\* before, in this session or an earlier one, does not get to show its own.
OnlyTheLatest ==
  [][\A u \in Uris:
       shown # None /\ shown' # None /\ latest[u] # None =>
         shown'[u] \in {shown[u], latest[u], None}]_vars

\* Nothing waits for a wake-up that does not come: not an entry of the queue, not
\* a pending change of a document, not a file event that no send failed to send.
NothingStranded ==
  /\ queue # <<>> => kick \/ work # None
  /\ pending => client = "running" /\ pendingTimer.timer /\ pendingTimer.task
  /\ ~fileTimer.timer => ToSet(fileEvents) \subseteq restored

\* Where a file event may be: delivered, in a send under way, or collected, from
\* what left first to what came last.
Lanes == 0 .. Len(sending) + 1
Lane(l) ==
  IF l = 0 THEN delivered ELSE IF l <= Len(sending) THEN sending[l].events ELSE fileEvents

\* Each file event is in one place, once: collected, under way or delivered;
\* none of this session is lost, and only events of a failed send are delivered
\* after newer ones, or to another server than the one they were meant for.
FileEventsKept ==
  /\ \A l, m \in Lanes: \A i \in DOMAIN Lane(l): \A j \in DOMAIN Lane(m):
       Lane(l)[i] = Lane(m)[j] => l = m /\ i = j
  /\ client = "running" => \A n \in before + 1 .. files:
       \E l \in Lanes: \E i \in DOMAIN Lane(l): Lane(l)[i].number = n
  /\ \A i, j \in DOMAIN delivered:
       i < j /\ delivered[i].number > delivered[j].number => delivered[j] \in restored
  /\ \A i \in DOMAIN delivered:
       delivered[i].session # session => delivered[i] \in restored

\* From the stop on until the next start nothing is shown.
SilentWhenStopped ==
  client \in {"stopping", "stopped"} /\ session > 0 => shown = None

\* What the client collects and delays is not lost, reordered, stranded, sent
\* to another server or shown after the stop.
EventsKept == TypeOK /\ NothingStranded /\ FileEventsKept /\ SilentWhenStopped

\* What a server publishes is shown in the end, unless newer diagnostics replace
\* it, they cannot be converted, or the server goes.
PublishedIsShown ==
  \A u \in Uris, n \in 1 .. 3:
    (latest[u] # None /\ latest[u].number = n /\ ~latest[u].malformed)
      ~> (\/ shown = None
          \/ latest[u] = None
          \/ latest[u].number # n
          \/ shown[u] = latest[u])

\* Violated: what is shown was published by the server that runs.
ShownIsOfThisServer ==
  shown # None => \A u \in Uris: shown[u] # None => shown[u].session = session

\* Violated: file events purged with their session are not sent to the next one.
PurgedStayPurged == \A i \in DOMAIN delivered: delivered[i].session = session
=============================================================================

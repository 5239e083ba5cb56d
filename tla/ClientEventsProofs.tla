------------------------- MODULE ClientEventsProofs -------------------------
(***************************************************************************)
(* What the client delays is not lost, stranded, or shown after what is    *)
(* newer, for any number of documents, watchers, sessions and sends.       *)
(*   The invariant is a conjunction of four parts.  The types; that what   *)
(* waits for a conversion is the newest of its document; that the file     *)
(* events lie in their lanes - delivered, in a send, collected - in the     *)
(* order of their coming, but for those some failed send put back; and     *)
(* that a client that does not run listens to nothing.                     *)
(***************************************************************************)
EXTENDS ClientEvents, SequenceLemmas, TLAPS

-----------------------------------------------------------------------------
\* The invariant.

Timers == [timer : BOOLEAN, task : BOOLEAN]
Sends == [events : Seq(Event), session : Nat]

QueueTypes ==
  /\ shown \in [Uris -> Published \cup {None}] \cup {None}
  /\ latest \in [Uris -> Published \cup {None}]
  /\ queue \in Seq(Published)
  /\ work \in [entry : Published, cancelled : BOOLEAN] \cup {None}
  /\ publishes \in Nat
FileTypes ==
  /\ watchers \in [Watchers -> SUBSET Kinds]
  /\ fileTimer \in Timers
  /\ fileEvents \in Seq(Event) /\ delivered \in Seq(Event) /\ sending \in Seq(Sends)
  /\ restored \subseteq Event
  /\ files \in Nat /\ before \in Nat
EventsTypeOK ==
  /\ limits \in Limits
  /\ client \in {"stopped", "starting", "running", "stopping"}
  /\ session \in 0 .. limits.sessions
  /\ kick \in BOOLEAN /\ pending \in BOOLEAN /\ pendingTimer \in Timers
  /\ Len(sending) <= MaxInFlight
  /\ QueueTypes /\ FileTypes

\* What waits, and the conversion under way unless it was cancelled, is the
\* last that came for its document in this session, if any came.
Newest ==
  /\ \A i, j \in DOMAIN queue: queue[i].uri = queue[j].uri => i = j
  /\ \A i \in DOMAIN queue: latest[queue[i].uri] \in {None, queue[i]}
  /\ work # None /\ ~work.cancelled => latest[work.entry.uri] \in {None, work.entry}

\* The events in their lanes: each once, all counted, a later one older only
\* when a failed send put it back.
Once ==
  \A l, m \in Lanes: \A i \in DOMAIN Lane(l): \A j \in DOMAIN Lane(m):
    Lane(l)[i] = Lane(m)[j] => l = m /\ i = j
Counted == \A l \in Lanes: \A i \in DOMAIN Lane(l): Lane(l)[i].number <= files
Ordered ==
  \A l, m \in Lanes: \A i \in DOMAIN Lane(l): \A j \in DOMAIN Lane(m):
    /\ l < m \/ (l = m /\ i < j)
    /\ Lane(l)[i].number > Lane(m)[j].number
    => Lane(m)[j] \in restored
Kept ==
  client = "running" => \A n \in before + 1 .. files:
    \E l \in Lanes: \E i \in DOMAIN Lane(l): Lane(l)[i].number = n

\* The session an event came in is that of its lane, or it was put back.
LaneSession(l) == IF l = 0 \/ l > Len(sending) THEN session ELSE sending[l].session
Addressed ==
  \A l \in Lanes: \A i \in DOMAIN Lane(l):
    Lane(l)[i].session = LaneSession(l) \/ Lane(l)[i] \in restored

\* A client that does not run has no watchers, and no events but such as were
\* put back.
Quiet ==
  /\ client # "running" => watchers = [w \in Watchers |-> {}]
  /\ client # "running" => ToSet(fileEvents) \subseteq restored
  /\ client = "starting" => before = files

LanesInv == Once /\ Counted /\ Ordered /\ Kept /\ Addressed
EventsInv ==
  EventsTypeOK /\ Newest /\ LanesInv /\ Quiet /\ NothingStranded /\ SilentWhenStopped

-----------------------------------------------------------------------------
\* Operators of the model.

\* Put replaces the entry of a document in its place, or appends it: there is
\* one for each document, and it is the given one for the document of that.
LEMMA PutElements ==
  ASSUME NEW q \in Seq(Published), NEW e \in Published,
         \A i, j \in DOMAIN q : q[i].uri = q[j].uri => i = j
  PROVE  /\ Put(q, e) \in Seq(Published)
         /\ \A i, j \in DOMAIN Put(q, e) : Put(q, e)[i].uri = Put(q, e)[j].uri => i = j
         /\ \A i \in DOMAIN Put(q, e) :
              Put(q, e)[i] = e \/ (Put(q, e)[i].uri # e.uri /\ \E j \in DOMAIN q : Put(q, e)[i] = q[j])
<1>0. Len(q) \in Nat /\ DOMAIN q = 1..Len(q)
  OBVIOUS
<1>1. CASE \E i \in DOMAIN q : q[i].uri = e.uri
  <2>1. Put(q, e) = [i \in 1..Len(q) |-> IF q[i].uri = e.uri THEN e ELSE q[i]]
    BY <1>0, <1>1 DEF Put
  <2>2. \A i \in 1..Len(q) : q[i] \in Published
    BY <1>0
  <2>3. Put(q, e) \in Seq(Published)
    BY <1>0, <2>1, <2>2
  <2> QED
    BY <1>0, <2>1, <2>3
<1>2. CASE ~\E i \in DOMAIN q : q[i].uri = e.uri
  <2>1. Put(q, e) = Append(q, e)
    BY <1>2 DEF Put
  <2>2. /\ Put(q, e) \in Seq(Published)
        /\ Len(Put(q, e)) = Len(q) + 1
        /\ \A i \in 1..Len(q) : Put(q, e)[i] = q[i]
        /\ Put(q, e)[Len(q) + 1] = e
    BY <2>1, AppendElements
  <2>3. DOMAIN Put(q, e) = 1..(Len(q) + 1)
    BY <2>2
  <2> QED
    BY <1>0, <1>2, <2>2, <2>3
<1> QED
  BY <1>1, <1>2

\* The lanes hold file events.
LEMMA LanesTyped ==
  EventsTypeOK =>
    /\ Len(sending) \in Nat /\ Lanes = 0..(Len(sending) + 1)
    /\ \A l \in Lanes :
         /\ Lane(l) \in Seq(Event) /\ Len(Lane(l)) \in Nat /\ DOMAIN Lane(l) = 1..Len(Lane(l))
         /\ \A i \in DOMAIN Lane(l) : Lane(l)[i] \in Event
<1> SUFFICES ASSUME EventsTypeOK PROVE
      /\ Len(sending) \in Nat /\ Lanes = 0..(Len(sending) + 1)
      /\ \A l \in Lanes :
           /\ Lane(l) \in Seq(Event) /\ Len(Lane(l)) \in Nat /\ DOMAIN Lane(l) = 1..Len(Lane(l))
           /\ \A i \in DOMAIN Lane(l) : Lane(l)[i] \in Event
  OBVIOUS
<1>1. Len(sending) \in Nat /\ \A l \in 1..Len(sending) : sending[l] \in Sends
  BY DEF EventsTypeOK, FileTypes
<1>2. \A l \in Lanes : Lane(l) \in Seq(Event)
  <2> SUFFICES ASSUME NEW l \in Lanes PROVE Lane(l) \in Seq(Event)
    OBVIOUS
  <2>1. CASE l \in 1..Len(sending)
    BY <1>1, <2>1 DEF Lane, Sends
  <2>2. CASE l \notin 1..Len(sending)
    BY <1>1, <2>2 DEF Lane, Lanes, EventsTypeOK, FileTypes
  <2> QED
    BY <2>1, <2>2
<1>3. \A s \in Seq(Event) : Len(s) \in Nat /\ DOMAIN s = 1..Len(s) /\ \A i \in DOMAIN s : s[i] \in Event
  OBVIOUS
<1> QED
  BY <1>1, <1>2, <1>3 DEF Lanes

\* The diagnostics leave the file events alone.
LEMMA LanesUnchanged ==
  ASSUME LanesInv, Quiet,
         UNCHANGED <<client, session, watchers, fileEvents, sending, delivered, restored, files, before>>
  PROVE  LanesInv' /\ Quiet'
<1>1. Lanes' = Lanes
  BY DEF Lanes
<1>2. \A l : Lane(l)' = Lane(l) /\ LaneSession(l)' = LaneSession(l)
  BY DEF Lane, LaneSession
<1> QED
  BY <1>1, <1>2 DEF LanesInv, Once, Counted, Ordered, Kept, Addressed, Quiet

-----------------------------------------------------------------------------
\* The diagnostics.

\* Diagnostics that come replace those that wait for their document, and cancel
\* their conversion.
LEMMA PublishStep == EventsInv /\ Publish => EventsInv'
<1> SUFFICES ASSUME EventsInv, Publish PROVE EventsInv'
  OBVIOUS
<1> USE DEF EventsInv
<1>0. PICK u \in Uris, malformed \in BOOLEAN :
        HandleDiagnostics([uri |-> u, number |-> publishes + 1, session |-> session,
                           malformed |-> malformed])
  BY DEF Publish
<1> DEFINE e == [uri |-> u, number |-> publishes + 1, session |-> session, malformed |-> malformed]
<1>1. /\ publishes' = publishes + 1
      /\ UNCHANGED <<limits, client, session, shown, fileVars, editVars>>
  BY DEF Publish
<1>2. session \in Nat
  BY EventsAssumption DEF EventsTypeOK
<1>3. e \in Published /\ e.uri = u
  BY <1>2 DEF Published, EventsTypeOK, QueueTypes
<1>4. HandleDiagnostics(e)
  BY <1>0
<1> HIDE DEF e
<1>5. LanesInv' /\ Quiet'
  BY <1>1, LanesUnchanged DEF fileVars
<1>6. FileTypes' /\ SilentWhenStopped'
  BY <1>1 DEF EventsTypeOK, FileTypes, fileVars, SilentWhenStopped
<1>7. CASE shown = None
  <2>1. UNCHANGED <<queue, work, kick, latest>>
    BY <1>4, <1>7 DEF HandleDiagnostics
  <2>2. QueueTypes'
    BY <1>1, <2>1 DEF EventsTypeOK, QueueTypes
  <2>3. EventsTypeOK'
    BY <1>1, <1>6, <2>1, <2>2 DEF EventsTypeOK, fileVars, editVars
  <2>4. Newest' /\ NothingStranded'
    BY <1>1, <2>1 DEF Newest, NothingStranded, fileVars, editVars
  <2> QED
    BY <1>5, <1>6, <2>3, <2>4
<1>8. CASE shown # None
  <2>1. /\ work' = IF work = None THEN None
                   ELSE [work EXCEPT !.cancelled = @ \/ work.entry.uri = e.uri]
        /\ queue' = Put(queue, e) /\ kick' = TRUE
        /\ latest' = [latest EXCEPT ![e.uri] = e]
    BY <1>4, <1>8 DEF HandleDiagnostics
  <2>2. /\ queue' \in Seq(Published)
        /\ \A i, j \in DOMAIN queue' : queue'[i].uri = queue'[j].uri => i = j
        /\ \A i \in DOMAIN queue' :
             queue'[i] = e \/ (queue'[i].uri # e.uri /\ \E j \in DOMAIN queue : queue'[i] = queue[j])
    BY <1>3, <2>1, PutElements DEF EventsTypeOK, QueueTypes, Newest
  <2>3. latest' \in [Uris -> Published \cup {None}]
    BY <1>3, <2>1 DEF EventsTypeOK, QueueTypes
  <2>4. latest'[e.uri] = e /\ \A v \in Uris : v # e.uri => latest'[v] = latest[v]
    BY <1>3, <2>1 DEF EventsTypeOK, QueueTypes
  <2>5. work = None => work' = None
    BY <2>1
  <2>6. ASSUME work # None
        PROVE  /\ work' \in [entry : Published, cancelled : BOOLEAN]
               /\ work'.entry = work.entry /\ work.entry \in Published
               /\ ~work'.cancelled => ~work.cancelled /\ work.entry.uri # e.uri
    <3>1. work \in [entry : Published, cancelled : BOOLEAN]
      BY <2>6 DEF EventsTypeOK, QueueTypes
    <3>2. work' = [entry |-> work.entry, cancelled |-> work.cancelled \/ work.entry.uri = e.uri]
      BY <2>1, <2>6, <3>1
    <3> QED
      BY <3>1, <3>2
  <2>7. QueueTypes'
    BY <1>1, <2>2, <2>3, <2>5, <2>6 DEF EventsTypeOK, QueueTypes
  <2>8. EventsTypeOK'
    BY <1>1, <1>6, <2>1, <2>7 DEF EventsTypeOK, fileVars, editVars
  <2>9. \A i \in DOMAIN queue' : latest'[queue'[i].uri] \in {None, queue'[i]}
    <3> SUFFICES ASSUME NEW i \in DOMAIN queue' PROVE latest'[queue'[i].uri] \in {None, queue'[i]}
      OBVIOUS
    <3>1. CASE queue'[i] = e
      BY <2>4, <3>1
    <3>2. CASE queue'[i] # e
      <4>1. PICK j \in DOMAIN queue : queue'[i] = queue[j] /\ queue'[i].uri # e.uri
        BY <2>2, <3>2
      <4>2. queue[j] \in Published
        BY DEF EventsTypeOK, QueueTypes
      <4> QED
        BY <2>4, <4>1, <4>2 DEF Newest, Published
    <3> QED
      BY <3>1, <3>2
  <2>10. work' # None /\ ~work'.cancelled => latest'[work'.entry.uri] \in {None, work'.entry}
    <3> SUFFICES ASSUME work' # None, ~work'.cancelled
                 PROVE  latest'[work'.entry.uri] \in {None, work'.entry}
      OBVIOUS
    <3>1. /\ work # None /\ ~work.cancelled /\ work'.entry = work.entry
          /\ work.entry.uri # e.uri /\ work.entry.uri \in Uris
      BY <2>5, <2>6 DEF Published
    <3> QED
      BY <2>4, <3>1 DEF Newest
  <2>11. Newest'
    BY <2>2, <2>9, <2>10 DEF Newest
  <2>12. NothingStranded'
    BY <1>1, <2>1 DEF NothingStranded, fileVars, editVars
  <2> QED
    BY <1>5, <1>6, <2>8, <2>11, <2>12
<1> QED
  BY <1>7, <1>8

\* The first of the queue is converted, once the one before it is done.
LEMMA WorkStep == EventsInv /\ WorkDiagnosticQueue => EventsInv'
<1> SUFFICES ASSUME EventsInv, WorkDiagnosticQueue PROVE EventsInv'
  OBVIOUS
<1> USE DEF EventsInv
<1>1. /\ kick' = FALSE
      /\ UNCHANGED <<limits, client, session, shown, latest, publishes, fileVars, editVars>>
  BY DEF WorkDiagnosticQueue
<1>2. LanesInv' /\ Quiet'
  BY <1>1, LanesUnchanged DEF fileVars
<1>3. FileTypes' /\ SilentWhenStopped'
  BY <1>1 DEF EventsTypeOK, FileTypes, fileVars, SilentWhenStopped
<1>4. CASE work # None \/ queue = <<>>
  <2>1. UNCHANGED <<queue, work>>
    BY <1>4 DEF WorkDiagnosticQueue
  <2>2. QueueTypes'
    BY <1>1, <2>1 DEF EventsTypeOK, QueueTypes
  <2>3. EventsTypeOK'
    BY <1>1, <1>3, <2>1, <2>2 DEF EventsTypeOK, fileVars, editVars
  <2>4. Newest' /\ NothingStranded'
    BY <1>1, <1>4, <2>1 DEF Newest, NothingStranded, fileVars, editVars
  <2> QED
    BY <1>2, <1>3, <2>3, <2>4
<1>5. CASE work = None /\ queue # <<>>
  <2>1. work' = [entry |-> Head(queue), cancelled |-> FALSE] /\ queue' = Tail(queue)
    BY <1>5 DEF WorkDiagnosticQueue
  <2>2. queue \in Seq(Published) /\ queue # <<>>
    BY <1>5 DEF EventsTypeOK, QueueTypes
  <2>3. /\ queue' \in Seq(Published) /\ Head(queue) = queue[1] /\ queue[1] \in Published
        /\ Len(queue) \in Nat \ {0} /\ Len(queue') = Len(queue) - 1
        /\ \A i \in 1..Len(queue') : queue'[i] = queue[i + 1]
    BY <2>1, <2>2, TailElements
  <2>4. DOMAIN queue' = 1..Len(queue') /\ DOMAIN queue = 1..Len(queue)
    BY <2>2, <2>3
  <2>5. work' \in [entry : Published, cancelled : BOOLEAN]
    BY <2>1, <2>3
  <2>6. work' # None
    BY <2>5, EventsAssumption
  <2>7. QueueTypes'
    BY <1>1, <2>3, <2>5 DEF EventsTypeOK, QueueTypes
  <2>8. EventsTypeOK'
    BY <1>1, <1>3, <2>7 DEF EventsTypeOK, fileVars, editVars
  <2>9. \A i \in DOMAIN queue' : i + 1 \in DOMAIN queue /\ queue'[i] = queue[i + 1]
    BY <2>3, <2>4
  <2>10. 1 \in DOMAIN queue /\ work'.entry = queue[1]
    BY <2>1, <2>3, <2>4
  <2>11. \A i, j \in DOMAIN queue' : queue'[i].uri = queue'[j].uri => i = j
    <3> SUFFICES ASSUME NEW i \in DOMAIN queue', NEW j \in DOMAIN queue', queue'[i].uri = queue'[j].uri
                 PROVE  i = j
      OBVIOUS
    <3>1. i + 1 = j + 1
      BY <2>9 DEF Newest
    <3> QED
      BY <2>4, <3>1
  <2>12. Newest'
    BY <1>1, <2>9, <2>10, <2>11 DEF Newest
  <2>13. NothingStranded'
    BY <1>1, <2>6 DEF NothingStranded, fileVars, editVars
  <2> QED
    BY <1>2, <1>3, <2>8, <2>12, <2>13
<1> QED
  BY <1>4, <1>5

\* A conversion that ends is looked after by the next turn, whatever its outcome.
LEMMA ConvertedStep == EventsInv /\ Converted => EventsInv'
<1> SUFFICES ASSUME EventsInv, Converted PROVE EventsInv'
  OBVIOUS
<1> USE DEF EventsInv
<1>1. /\ work # None /\ work' = None /\ kick' = TRUE
      /\ UNCHANGED <<limits, client, session, queue, latest, publishes, fileVars, editVars>>
  BY DEF Converted
<1>2. LanesInv' /\ Quiet' /\ FileTypes'
  BY <1>1, LanesUnchanged DEF fileVars, EventsTypeOK, FileTypes
<1>3. work.entry \in Published
  BY <1>1 DEF EventsTypeOK, QueueTypes
<1>4. shown' = shown \/ shown' = IF shown = None THEN None ELSE [shown EXCEPT ![work.entry.uri] = work.entry]
  BY DEF Converted, SetDiagnostics
<1>5. shown' \in [Uris -> Published \cup {None}] \cup {None}
  BY <1>3, <1>4 DEF EventsTypeOK, QueueTypes
<1>6. QueueTypes'
  BY <1>1, <1>5 DEF EventsTypeOK, QueueTypes
<1>7. EventsTypeOK'
  BY <1>1, <1>2, <1>6 DEF EventsTypeOK, fileVars, editVars
<1>8. Newest' /\ NothingStranded'
  BY <1>1 DEF Newest, NothingStranded, fileVars, editVars
<1>9. SilentWhenStopped'
  BY <1>1, <1>4 DEF SilentWhenStopped
<1> QED
  BY <1>2, <1>7, <1>8, <1>9

-----------------------------------------------------------------------------
\* Watchers, pending changes, and events that come.

\* What a step leaves alone when it has to do with file events only.
LEMMA QueueUnchanged ==
  ASSUME EventsInv, UNCHANGED <<session, queueVars>>
  PROVE  QueueTypes' /\ Newest' /\ (queue' # <<>> => kick' \/ work' # None)
BY DEF EventsInv, EventsTypeOK, QueueTypes, Newest, NothingStranded, queueVars

\* Watchers come and go, and no event is touched.
LEMMA WatchersStep == EventsInv /\ (Register \/ Unregister) => EventsInv'
<1> SUFFICES ASSUME EventsInv, Register \/ Unregister PROVE EventsInv'
  OBVIOUS
<1> USE DEF EventsInv
<1>1. /\ client = "running"
      /\ UNCHANGED <<limits, client, session, queueVars, fileEvents, fileTimer, sending,
                     delivered, restored, files, before, editVars>>
  BY DEF Register, Unregister
<1>2. PICK w \in Watchers, kinds \in SUBSET Kinds : watchers' = [watchers EXCEPT ![w] = kinds]
  <2>1. CASE Register
    BY <2>1 DEF Register
  <2>2. CASE Unregister
    <3>1. PICK w \in Watchers : watchers' = [watchers EXCEPT ![w] = {}]
      BY <2>2 DEF Unregister
    <3> QED
      BY <3>1
  <2> QED
    BY <2>1, <2>2
<1>3. watchers' \in [Watchers -> SUBSET Kinds]
  BY <1>2 DEF EventsTypeOK, FileTypes
<1>4. Lanes' = Lanes /\ \A l : Lane(l)' = Lane(l) /\ LaneSession(l)' = LaneSession(l)
  BY <1>1 DEF Lanes, Lane, LaneSession
<1>5. LanesInv'
  BY <1>1, <1>4 DEF LanesInv, Once, Counted, Ordered, Kept, Addressed
<1>6. FileTypes'
  BY <1>1, <1>3 DEF EventsTypeOK, FileTypes
<1>7. EventsTypeOK'
  BY <1>1, <1>6, QueueUnchanged DEF EventsTypeOK, editVars, queueVars
<1>8. Quiet' /\ SilentWhenStopped' /\ NothingStranded'
  BY <1>1 DEF Quiet, SilentWhenStopped, NothingStranded, editVars, queueVars
<1> QED
  BY <1>1, <1>5, <1>7, <1>8, QueueUnchanged

\* Pending changes of documents wait for their own delayer.
LEMMA EditStep == EventsInv /\ (Edit \/ PendingTimerFires) => EventsInv'
<1> SUFFICES ASSUME EventsInv, Edit \/ PendingTimerFires PROVE EventsInv'
  OBVIOUS
<1> USE DEF EventsInv
<1>1. UNCHANGED <<limits, client, session, queueVars, fileVars>>
  BY DEF Edit, PendingTimerFires
<1>2. /\ pending' \in BOOLEAN /\ pendingTimer' \in Timers
      /\ pending' => client = "running" /\ pendingTimer'.timer /\ pendingTimer'.task
  <2>1. pendingTimer \in Timers /\ pending \in BOOLEAN
    BY DEF EventsTypeOK
  <2>2. CASE Edit
    <3>1. client = "running" /\ pending' = TRUE /\ pendingTimer' = [timer |-> TRUE, task |-> TRUE]
      BY <2>2 DEF Edit, Trigger
    <3> QED
      BY <3>1 DEF Timers
  <2>3. CASE PendingTimerFires
    <3>1. CASE ~pendingTimer.task
      <4>1. pendingTimer' = Cancel(pendingTimer) /\ pending' = pending
        BY <2>3, <3>1 DEF PendingTimerFires
      <4>2. ~pending
        BY <3>1 DEF NothingStranded
      <4> QED
        BY <2>1, <4>1, <4>2 DEF Cancel, Timers
    <3>2. CASE pendingTimer.task /\ client = "running"
      <4>1. pendingTimer' = Ran(pendingTimer, FALSE) /\ pending' = FALSE
        BY <2>3, <3>2 DEF PendingTimerFires
      <4> QED
        BY <2>1, <4>1 DEF Ran, Timers
    <3>3. CASE pendingTimer.task /\ client # "running"
      <4>1. pendingTimer' = Ran(Trigger(pendingTimer), TRUE) /\ pending' = pending
        BY <2>3, <3>3 DEF PendingTimerFires
      <4>2. ~pending
        BY <3>3 DEF NothingStranded
      <4> QED
        BY <2>1, <4>1, <4>2 DEF Ran, Timers
    <3> QED
      BY <3>1, <3>2, <3>3
  <2> QED
    BY <2>2, <2>3
<1>3. FileTypes'
  BY <1>1 DEF EventsTypeOK, FileTypes, fileVars
<1>4. EventsTypeOK'
  BY <1>1, <1>2, <1>3, QueueUnchanged DEF EventsTypeOK, queueVars, fileVars
<1>5. NothingStranded'
  BY <1>1, <1>2 DEF NothingStranded, queueVars, fileVars
<1>6. LanesInv' /\ Quiet' /\ SilentWhenStopped'
  BY <1>1, LanesUnchanged DEF fileVars, queueVars, SilentWhenStopped
<1> QED
  BY <1>1, <1>4, <1>5, <1>6, QueueUnchanged

\* An event comes once for each watcher of its kind, after all others.
LEMMA FileEventStep == EventsInv /\ FileEvent => EventsInv'
<1> SUFFICES ASSUME EventsInv, FileEvent PROVE EventsInv'
  OBVIOUS
<1> USE DEF EventsInv
<1>1. /\ fileTimer' = [timer |-> TRUE, task |-> TRUE] /\ files' = files + 1
      /\ UNCHANGED <<limits, client, session, queueVars, watchers, sending, delivered, restored,
                     before, editVars>>
  BY DEF FileEvent, Trigger
<1>2. PICK k \in Kinds :
        /\ Cardinality({w \in Watchers : k \in watchers[w]}) > 0
        /\ fileEvents' = fileEvents \o
             [i \in 1 .. Cardinality({w \in Watchers : k \in watchers[w]}) |->
                [number |-> files + 1, copy |-> i, session |-> session]]
  BY DEF FileEvent
<1> DEFINE telling == {w \in Watchers : k \in watchers[w]}
<1>3. IsFiniteSet(telling) /\ Cardinality(telling) \in Nat
  BY EventsAssumption, FS_Subset, FS_CardinalityType
<1>4. PICK told \in Nat : told = Cardinality(telling)
  BY <1>3
<1>5. session \in Nat /\ files \in Nat /\ fileEvents \in Seq(Event)
  BY EventsAssumption DEF EventsTypeOK, FileTypes
<1>6. \A i \in 1..told : [number |-> files + 1, copy |-> i, session |-> session] \in Event
  BY <1>5 DEF Event
<1>7. told > 0
  BY <1>2, <1>4
<1>8. PICK new \in Seq(Event) :
        /\ Len(new) = told /\ fileEvents' = fileEvents \o new
        /\ \A i \in 1..told : new[i] = [number |-> files + 1, copy |-> i, session |-> session]
  <2> DEFINE copies == [i \in 1..told |-> [number |-> files + 1, copy |-> i, session |-> session]]
  <2>1. copies \in Seq(Event) /\ Len(copies) = told
    BY <1>6
  <2>2. fileEvents' = fileEvents \o copies
    BY <1>2, <1>4
  <2> QED
    BY <2>1, <2>2
<1> HIDE DEF telling
<1>9. /\ fileEvents' \in Seq(Event) /\ Len(fileEvents) \in Nat /\ Len(fileEvents') = Len(fileEvents) + told
      /\ \A i \in 1..Len(fileEvents) : fileEvents'[i] = fileEvents[i]
      /\ \A i \in 1..told : fileEvents'[Len(fileEvents) + i] = new[i]
  <2>1. /\ fileEvents \o new \in Seq(Event) /\ Len(fileEvents) \in Nat
        /\ Len(fileEvents \o new) = Len(fileEvents) + Len(new)
        /\ \A i \in 1..Len(fileEvents) : (fileEvents \o new)[i] = fileEvents[i]
        /\ \A i \in 1..Len(new) : (fileEvents \o new)[Len(fileEvents) + i] = new[i]
    BY <1>5, ConcatElements
  <2> QED
    BY <1>8, <2>1
<1>10. CASE client # "running"
  <2>1. telling = {}
    BY <1>10 DEF Quiet, telling
  <2>2. Cardinality(telling) = 0
    BY <2>1, FS_EmptySet
  <2> QED
    BY <1>4, <1>7, <2>2
<1>11. CASE client = "running"
  <2>1. FileTypes'
    BY <1>1, <1>5, <1>9 DEF EventsTypeOK, FileTypes, Timers
  <2>2. EventsTypeOK'
    BY <1>1, <2>1, QueueUnchanged DEF EventsTypeOK, queueVars, editVars
  <2>3. NothingStranded'
    BY <1>1 DEF NothingStranded, queueVars, editVars
  <2>4. Quiet' /\ SilentWhenStopped'
    BY <1>1, <1>11 DEF Quiet, SilentWhenStopped, queueVars
  \* The last lane is longer.
  <2>0. PICK last \in Nat : last = Len(sending) + 1
    BY LanesTyped
  <2>5. /\ last \in Nat /\ Lanes = 0..last /\ Lanes' = 0..last
        /\ \A l \in Lanes : Len(Lane(l)) \in Nat /\ DOMAIN Lane(l) = 1..Len(Lane(l))
        /\ \A l \in Lanes' : LaneSession(l)' = LaneSession(l)
    BY <1>1, <2>0, LanesTyped DEF Lanes, LaneSession
  <2>6. Lane(last) = fileEvents /\ Lane(last)' = fileEvents'
    BY <1>1, <2>0, <2>5 DEF Lane
  <2>7. \A l \in Lanes : l # last => Lane(l)' = Lane(l)
    BY <1>1, <2>0, <2>5 DEF Lane
  <2>8. DOMAIN fileEvents' = 1..(Len(fileEvents) + told) /\ DOMAIN fileEvents = 1..Len(fileEvents)
    BY <1>5, <1>9
  <2>9. \A l \in Lanes : \A i \in DOMAIN Lane(l)' :
           \/ i \in DOMAIN Lane(l) /\ Lane(l)'[i] = Lane(l)[i]
           \/ /\ l = last /\ i > Len(Lane(l)) /\ i - Len(Lane(l)) \in 1..told
              /\ Lane(l)'[i] = [number |-> files + 1, copy |-> i - Len(Lane(l)), session |-> session]
    <3> SUFFICES ASSUME NEW l \in Lanes, NEW i \in DOMAIN Lane(l)'
                 PROVE  \/ i \in DOMAIN Lane(l) /\ Lane(l)'[i] = Lane(l)[i]
                        \/ /\ l = last /\ i > Len(Lane(l)) /\ i - Len(Lane(l)) \in 1..told
                           /\ Lane(l)'[i] = [number |-> files + 1, copy |-> i - Len(Lane(l)), session |-> session]
      OBVIOUS
    <3>1. CASE l # last
      BY <2>7, <3>1
    <3>2. CASE l = last /\ i \in 1..Len(fileEvents)
      BY <1>9, <2>6, <2>8, <3>2
    <3>3. CASE l = last /\ i \notin 1..Len(fileEvents)
      <4>1. i \in 1..(Len(fileEvents) + told)
        BY <2>6, <2>8, <3>3
      <4>2. PICK j \in 1..told : i = Len(fileEvents) + j
        <5>1. i - Len(fileEvents) \in 1..told /\ i = Len(fileEvents) + (i - Len(fileEvents))
          BY <1>9, <3>3, <4>1
        <5> QED
          BY <5>1
      <4>3. fileEvents'[i] = [number |-> files + 1, copy |-> j, session |-> session]
        BY <1>8, <1>9, <4>2
      <4>4. j = i - Len(fileEvents) /\ i > Len(fileEvents)
        BY <1>9, <4>2
      <4> QED
        BY <2>6, <3>3, <4>3, <4>4
    <3> QED
      BY <3>1, <3>2, <3>3
  <2>10. \A l \in Lanes : \A i \in DOMAIN Lane(l) : i \in DOMAIN Lane(l)' /\ Lane(l)'[i] = Lane(l)[i]
    <3> SUFFICES ASSUME NEW l \in Lanes, NEW i \in DOMAIN Lane(l)
                 PROVE  i \in DOMAIN Lane(l)' /\ Lane(l)'[i] = Lane(l)[i]
      OBVIOUS
    <3>1. CASE l # last
      BY <2>7, <3>1
    <3>2. CASE l = last
      <4>1. i \in 1..Len(fileEvents) /\ Lane(l)' = fileEvents' /\ Lane(l) = fileEvents
        BY <2>6, <2>8, <3>2
      <4>2. i \in 1..(Len(fileEvents) + told)
        BY <1>9, <4>1
      <4> QED
        BY <1>9, <2>8, <4>1, <4>2
    <3> QED
      BY <3>1, <3>2
  <2>11. \A l \in Lanes : \A i \in DOMAIN Lane(l) : Lane(l)[i] \in Event
    BY LanesTyped
  <2>12. Once'
    <3> SUFFICES ASSUME NEW l \in Lanes, NEW m \in Lanes,
                        NEW i \in DOMAIN Lane(l)', NEW j \in DOMAIN Lane(m)', Lane(l)'[i] = Lane(m)'[j]
                 PROVE  l = m /\ i = j
      BY <2>5 DEF Once
    <3>1. CASE i \in DOMAIN Lane(l) /\ j \in DOMAIN Lane(m)
      BY <2>10, <3>1 DEF LanesInv, Once
    <3>2. CASE i \in DOMAIN Lane(l) /\ j \notin DOMAIN Lane(m)
      <4>1. Lane(l)[i].number <= files /\ Lane(l)[i].number = files + 1 /\ Lane(l)[i] \in Event
        BY <2>9, <2>10, <2>11, <3>2 DEF LanesInv, Counted
      <4> QED
        BY <1>5, <4>1 DEF Event
    <3>3. CASE i \notin DOMAIN Lane(l) /\ j \in DOMAIN Lane(m)
      <4>1. Lane(m)[j].number <= files /\ Lane(m)[j].number = files + 1 /\ Lane(m)[j] \in Event
        BY <2>9, <2>10, <2>11, <3>3 DEF LanesInv, Counted
      <4> QED
        BY <1>5, <4>1 DEF Event
    <3>4. CASE i \notin DOMAIN Lane(l) /\ j \notin DOMAIN Lane(m)
      <4>1. l = last /\ m = last /\ i - Len(Lane(last)) = j - Len(Lane(last))
        BY <2>9, <3>4
      <4>2. i \in Nat /\ j \in Nat /\ Len(Lane(last)) \in Nat
        BY <2>6, <2>8, <1>9, <4>1
      <4> QED
        BY <4>1, <4>2
    <3> QED
      BY <3>1, <3>2, <3>3, <3>4
  <2>13. Counted'
    <3> SUFFICES ASSUME NEW l \in Lanes, NEW i \in DOMAIN Lane(l)' PROVE Lane(l)'[i].number <= files + 1
      BY <1>1, <2>5 DEF Counted
    <3>1. CASE i \in DOMAIN Lane(l)
      <4>1. Lane(l)[i].number <= files /\ Lane(l)[i].number \in Nat
        BY <2>11, <3>1 DEF LanesInv, Counted, Event
      <4> QED
        BY <1>5, <2>10, <3>1, <4>1
    <3>2. CASE i \notin DOMAIN Lane(l)
      <4>1. Lane(l)'[i].number = files + 1
        BY <2>9, <3>2
      <4> QED
        BY <1>5, <4>1
    <3> QED
      BY <3>1, <3>2
  <2>14. Ordered'
    <3> SUFFICES ASSUME NEW l \in Lanes, NEW m \in Lanes,
                        NEW i \in DOMAIN Lane(l)', NEW j \in DOMAIN Lane(m)',
                        l < m \/ (l = m /\ i < j), Lane(l)'[i].number > Lane(m)'[j].number
                 PROVE  Lane(m)'[j] \in restored
      BY <1>1, <2>5 DEF Ordered
    <3>1. CASE i \in DOMAIN Lane(l) /\ j \in DOMAIN Lane(m)
      BY <2>10, <3>1 DEF LanesInv, Ordered
    <3>2. CASE j \notin DOMAIN Lane(m)
      <4>1. Lane(m)'[j].number = files + 1
        BY <2>9, <3>2
      <4>2. Lane(l)'[i].number <= files + 1
        BY <1>1, <2>5, <2>13 DEF Counted
      <4>3. Lane(l)'[i].number \in Nat
        BY <1>5, <2>9, <2>11 DEF Event
      <4> QED
        BY <1>5, <4>1, <4>2, <4>3
    <3>3. CASE i \notin DOMAIN Lane(l) /\ j \in DOMAIN Lane(m)
      <4>1. l = last /\ i > Len(Lane(l)) /\ i \in Nat /\ Len(Lane(l)) \in Nat
        BY <2>5, <2>6, <2>8, <1>9, <2>9, <3>3
      <4>2. m <= last /\ m \in Nat /\ l \in Nat /\ last \in Nat
        BY <2>5
      <4>3. m = l /\ i < j
        BY <4>1, <4>2
      <4>4. j \in 1..Len(Lane(l))
        BY <2>5, <3>3, <4>3
      <4> QED
        BY <4>1, <4>3, <4>4
    <3> QED
      BY <3>1, <3>2, <3>3
  <2>15. Kept'
    <3> SUFFICES ASSUME NEW n \in before + 1 .. files + 1
                 PROVE  \E l \in Lanes : \E i \in DOMAIN Lane(l)' : Lane(l)'[i].number = n
      BY <1>1, <2>5 DEF Kept
    <3>1. CASE n \in before + 1 .. files
      <4>1. \E l \in Lanes : \E i \in DOMAIN Lane(l) : Lane(l)[i].number = n
        BY <1>11, <3>1 DEF LanesInv, Kept
      <4> QED
        BY <2>10, <4>1
    <3>2. CASE n \notin before + 1 .. files
      <4>1. n = files + 1
        BY <1>5, <3>2 DEF EventsTypeOK, FileTypes
      <4>2. 1 \in 1..told /\ last \in Lanes
        BY <1>7, <2>5
      <4>3. Len(fileEvents) + 1 \in DOMAIN Lane(last)' /\ Lane(last)'[Len(fileEvents) + 1] = new[1]
        BY <1>9, <2>6, <2>8, <4>2
      <4>4. new[1].number = n
        BY <1>8, <4>1, <4>2
      <4> QED
        BY <4>2, <4>3, <4>4
    <3> QED
      BY <3>1, <3>2
  <2>16. Addressed'
    <3> SUFFICES ASSUME NEW l \in Lanes, NEW i \in DOMAIN Lane(l)'
                 PROVE  Lane(l)'[i].session = LaneSession(l) \/ Lane(l)'[i] \in restored
      BY <1>1, <2>5 DEF Addressed
    <3>1. CASE i \in DOMAIN Lane(l)
      BY <2>10, <3>1 DEF LanesInv, Addressed
    <3>2. CASE i \notin DOMAIN Lane(l)
      <4>1. l = last /\ Lane(l)'[i].session = session
        BY <2>9, <3>2
      <4>2. LaneSession(last) = session
        BY <2>0, <2>5 DEF LaneSession
      <4> QED
        BY <4>1, <4>2
    <3> QED
      BY <3>1, <3>2
  <2> QED
    BY <1>1, <2>2, <2>3, <2>4, <2>12, <2>13, <2>14, <2>15, <2>16, QueueUnchanged DEF LanesInv
<1> QED
  BY <1>10, <1>11

-----------------------------------------------------------------------------
\* Sends.

\* The collected events become a lane of their own, behind those under way, and
\* the collection is empty.
LEMMA FileTimerStep == EventsInv /\ FileTimerFires => EventsInv'
<1> SUFFICES ASSUME EventsInv, FileTimerFires PROVE EventsInv'
  OBVIOUS
<1> USE DEF EventsInv
<1>1. /\ Len(sending) < MaxInFlight /\ fileTimer' = [timer |-> FALSE, task |-> FALSE]
      /\ sending' = Append(sending, [events |-> fileEvents, session |-> session])
      /\ fileEvents' = <<>>
      /\ UNCHANGED <<limits, client, session, queueVars, watchers, delivered, restored, files, before,
                     editVars>>
  BY DEF FileTimerFires, Ran
<1>2. [events |-> fileEvents, session |-> session] \in Sends /\ sending \in Seq(Sends)
  BY EventsAssumption DEF Sends, EventsTypeOK, FileTypes
<1>3. /\ sending' \in Seq(Sends) /\ Len(sending) \in Nat /\ Len(sending') = Len(sending) + 1
      /\ \A i \in 1..Len(sending) : sending'[i] = sending[i]
      /\ sending'[Len(sending) + 1] = [events |-> fileEvents, session |-> session]
  BY <1>1, <1>2, AppendElements
<1>4. FileTypes'
  BY <1>1, <1>3 DEF EventsTypeOK, FileTypes, Timers
<1>5. EventsTypeOK'
  BY <1>1, <1>3, <1>4, EventsAssumption, QueueUnchanged DEF EventsTypeOK, queueVars, editVars
<1>6. NothingStranded'
  BY <1>1 DEF NothingStranded, queueVars, editVars, ToSet
<1>7. Quiet' /\ SilentWhenStopped'
  BY <1>1 DEF Quiet, SilentWhenStopped, queueVars, ToSet
<1>8. /\ Lanes = 0..(Len(sending) + 1) /\ Lanes' = 0..(Len(sending) + 2)
      /\ \A l \in Lanes : l \in Lanes' /\ Lane(l)' = Lane(l) /\ LaneSession(l)' = LaneSession(l)
  <2>1. Lanes = 0..(Len(sending) + 1) /\ Lanes' = 0..(Len(sending) + 2)
    BY <1>3 DEF Lanes
  <2>2. ASSUME NEW l \in Lanes
        PROVE  l \in Lanes' /\ Lane(l)' = Lane(l) /\ LaneSession(l)' = LaneSession(l)
    <3>1. CASE l = 0
      BY <1>1, <1>3, <2>1, <3>1 DEF Lane, LaneSession
    <3>2. CASE l \in 1..Len(sending)
      BY <1>1, <1>3, <2>1, <3>2 DEF Lane, LaneSession
    <3>3. CASE l = Len(sending) + 1
      BY <1>1, <1>3, <2>1, <3>3 DEF Lane, LaneSession
    <3> QED
      BY <1>3, <2>1, <3>1, <3>2, <3>3
  <2> QED
    BY <2>1, <2>2
<1>9. \A l \in Lanes' : \A i \in DOMAIN Lane(l)' : l \in Lanes
  <2> SUFFICES ASSUME NEW l \in Lanes', NEW i \in DOMAIN Lane(l)', l \notin Lanes PROVE FALSE
    OBVIOUS
  <2>1. l = Len(sending) + 2
    BY <1>3, <1>8
  <2>2. Lane(l)' = <<>>
    <3>1. l \in Nat /\ l # 0 /\ ~(l <= Len(sending'))
      BY <1>3, <2>1
    <3> QED
      BY <1>1, <3>1 DEF Lane
  <2> QED
    BY <2>2
<1>10. Once' /\ Counted' /\ Ordered' /\ Addressed'
  BY <1>1, <1>8, <1>9 DEF LanesInv, Once, Counted, Ordered, Addressed
<1>11. Kept'
  BY <1>1, <1>8 DEF LanesInv, Kept
<1> QED
  BY <1>1, <1>5, <1>6, <1>7, <1>10, <1>11, QueueUnchanged DEF LanesInv

\* The send that began first arrives: its lane is joined to what was delivered.
LEMMA FilesSentStep == EventsInv /\ FilesSent => EventsInv'
<1> SUFFICES ASSUME EventsInv, FilesSent PROVE EventsInv'
  OBVIOUS
<1> USE DEF EventsInv
<1>1. /\ sending # <<>> /\ client = "running" /\ Head(sending).session = session
      /\ delivered' = delivered \o Head(sending).events /\ sending' = Tail(sending)
      /\ pending' = FALSE
      /\ UNCHANGED <<limits, client, session, queueVars, watchers, fileEvents, fileTimer, restored,
                     files, before, pendingTimer, edits>>
  BY DEF FilesSent, Connected
<1>2. sending \in Seq(Sends) /\ delivered \in Seq(Event)
  BY DEF EventsTypeOK, FileTypes
<1>3. /\ Tail(sending) \in Seq(Sends) /\ Head(sending) = sending[1] /\ sending[1] \in Sends
      /\ Len(sending) \in Nat \ {0} /\ Len(Tail(sending)) = Len(sending) - 1
      /\ \A i \in 1..Len(Tail(sending)) : Tail(sending)[i] = sending[i + 1]
  BY <1>1, <1>2, TailElements
<1>4. PICK n \in Nat, a \in Nat, first \in Seq(Event) :
        /\ n = Len(sending) /\ a = Len(delivered) /\ first = sending[1].events
  <2>1. sending[1].events \in Seq(Event)
    BY <1>3 DEF Sends
  <2>2. Len(delivered) \in Nat
    BY <1>2
  <2> QED
    BY <1>3, <2>1, <2>2
<1>5. /\ delivered \o first \in Seq(Event) /\ Len(delivered \o first) = a + Len(first)
      /\ Len(first) \in Nat
      /\ \A i \in 1..a : (delivered \o first)[i] = delivered[i]
      /\ \A i \in 1..Len(first) : (delivered \o first)[a + i] = first[i]
  BY <1>2, <1>4, ConcatElements
<1>6. delivered' = delivered \o first
  BY <1>1, <1>3, <1>4
<1>7. FileTypes'
  BY <1>1, <1>3, <1>5, <1>6 DEF EventsTypeOK, FileTypes
<1>8. EventsTypeOK'
  <2>1. Len(sending') <= MaxInFlight
    BY <1>1, <1>3, EventsAssumption DEF EventsTypeOK
  <2> QED
    BY <1>1, <1>7, <2>1, QueueUnchanged DEF EventsTypeOK, queueVars
<1>9. NothingStranded' /\ Quiet' /\ SilentWhenStopped'
  BY <1>1 DEF NothingStranded, Quiet, SilentWhenStopped, queueVars
\* Where an event of the lanes afterwards was before.
<1> DEFINE of(l, i) == IF l = 0 /\ i <= a THEN 0 ELSE l + 1
           at(l, i) == IF l = 0 /\ i > a THEN i - a ELSE i
<1>10. /\ n >= 1 /\ Lanes = 0..(n + 1) /\ Lanes' = 0..n
       /\ \A l \in 1..n : Lane(l)' = Lane(l + 1) /\ LaneSession(l)' = LaneSession(l + 1)
       /\ Lane(0) = delivered /\ Lane(1) = first /\ Lane(0)' = delivered \o first
       /\ LaneSession(0)' = session /\ LaneSession(0) = session /\ LaneSession(1) = session
  <2>1. n >= 1 /\ Lanes = 0..(n + 1) /\ Lanes' = 0..n
    BY <1>1, <1>3, <1>4 DEF Lanes
  <2>2. ASSUME NEW l \in 1..n PROVE Lane(l)' = Lane(l + 1) /\ LaneSession(l)' = LaneSession(l + 1)
    <3>1. CASE l = n
      BY <1>1, <1>3, <1>4, <3>1 DEF Lane, LaneSession
    <3>2. CASE l # n
      <4>1. Len(Tail(sending)) = n - 1
        BY <1>3, <1>4
      <4>2. l \in 1..(n - 1) /\ l + 1 \in 1..n
        BY <3>2
      <4>3. l \in 1..Len(sending') /\ l + 1 \in 1..Len(sending) /\ sending'[l] = sending[l + 1]
        BY <1>1, <1>3, <1>4, <4>1, <4>2
      <4> QED
        BY <4>3 DEF Lane, LaneSession
    <3> QED
      BY <3>1, <3>2
  <2> QED
    BY <1>1, <1>3, <1>4, <1>6, <2>1, <2>2 DEF Lane, LaneSession
<1>11. \A l \in Lanes : Len(Lane(l)) \in Nat /\ DOMAIN Lane(l) = 1..Len(Lane(l))
  BY LanesTyped
<1>12. ASSUME NEW l \in Lanes', NEW i \in DOMAIN Lane(l)'
       PROVE  /\ l \in Nat /\ i \in Nat \ {0}
              /\ of(l, i) \in Lanes /\ at(l, i) \in DOMAIN Lane(of(l, i))
              /\ Lane(l)'[i] = Lane(of(l, i))[at(l, i)]
              /\ LaneSession(l)' = LaneSession(of(l, i))
  <2>1. CASE l = 0
    <3>1. i \in 1..(a + Len(first))
      BY <1>5, <1>10, <2>1
    <3>2. CASE i <= a
      BY <1>2, <1>4, <1>5, <1>10, <2>1, <3>1, <3>2
    <3>3. CASE ~(i <= a)
      <4>1. i - a \in 1..Len(first) /\ a + (i - a) = i
        BY <1>5, <3>1, <3>3
      <4>2. (delivered \o first)[i] = first[i - a]
        BY <1>5, <4>1
      <4>3. of(l, i) = 1 /\ at(l, i) = i - a /\ 1 \in Lanes
        BY <1>10, <2>1, <3>1, <3>3
      <4>4. DOMAIN first = 1..Len(first)
        BY <1>5
      <4>5. Lane(of(l, i)) = first /\ LaneSession(of(l, i)) = session
        BY <1>10, <4>3
      <4>6. Lane(l)' = delivered \o first /\ LaneSession(l)' = session
        BY <1>10, <2>1
      <4>7. l \in Nat /\ i \in Nat \ {0}
        BY <1>5, <2>1, <3>1
      <4> HIDE DEF of, at
      <4> QED
        BY <4>1, <4>2, <4>3, <4>4, <4>5, <4>6, <4>7
    <3> QED
      BY <3>2, <3>3
  <2>2. CASE l # 0
    <3>1. l \in 1..n /\ l + 1 \in Lanes
      BY <1>10, <2>2
    <3> QED
      BY <1>10, <1>11, <2>2, <3>1
  <2> QED
    BY <2>1, <2>2
<1>13. ASSUME NEW l \in Lanes, NEW i \in DOMAIN Lane(l)
       PROVE  \E m \in Lanes' : \E j \in DOMAIN Lane(m)' : Lane(m)'[j] = Lane(l)[i]
  <2>1. DOMAIN Lane(0)' = 1..(a + Len(first)) /\ 0 \in Lanes'
    BY <1>5, <1>10
  <2>2. CASE l = 0
    <3>1. i \in 1..a
      BY <1>2, <1>4, <1>10, <2>2
    <3> QED
      BY <1>5, <1>10, <2>1, <2>2, <3>1
  <2>3. CASE l = 1
    <3>1. i \in 1..Len(first) /\ a + i \in 1..(a + Len(first))
      BY <1>5, <1>10, <2>3
    <3> QED
      BY <1>5, <1>10, <2>1, <2>3, <3>1
  <2>4. CASE l # 0 /\ l # 1
    <3>1. l - 1 \in 1..n /\ l - 1 \in Lanes' /\ (l - 1) + 1 = l
      BY <1>10, <2>4
    <3> QED
      BY <1>10, <3>1
  <2> QED
    BY <2>2, <2>3, <2>4
<1>14. Once'
  <2> SUFFICES ASSUME NEW l \in Lanes', NEW m \in Lanes', NEW i \in DOMAIN Lane(l)',
                      NEW j \in DOMAIN Lane(m)', Lane(l)'[i] = Lane(m)'[j]
               PROVE  l = m /\ i = j
    BY DEF Once
  <2>1. of(l, i) = of(m, j) /\ at(l, i) = at(m, j)
    BY <1>12 DEF LanesInv, Once
  <2> QED
    BY <1>12, <2>1
<1>15. Counted' /\ Addressed'
  <2>1. ASSUME NEW l \in Lanes', NEW i \in DOMAIN Lane(l)'
        PROVE  /\ Lane(l)'[i].number <= files'
               /\ Lane(l)'[i].session = LaneSession(l)' \/ Lane(l)'[i] \in restored'
    <3> DEFINE m == of(l, i)
               j == at(l, i)
    <3>1. /\ m \in Lanes /\ j \in DOMAIN Lane(m) /\ Lane(l)'[i] = Lane(m)[j]
          /\ LaneSession(l)' = LaneSession(m)
      BY <1>12
    <3> HIDE DEF m, j
    <3>2. Lane(m)[j].number <= files
      BY <3>1 DEF LanesInv, Counted
    <3>3. Lane(m)[j].session = LaneSession(m) \/ Lane(m)[j] \in restored
      BY <3>1 DEF LanesInv, Addressed
    <3> QED
      BY <1>1, <3>1, <3>2, <3>3
  <2> QED
    BY <2>1 DEF Counted, Addressed
<1>16. Ordered'
  <2> SUFFICES ASSUME NEW l \in Lanes', NEW m \in Lanes', NEW i \in DOMAIN Lane(l)',
                      NEW j \in DOMAIN Lane(m)', l < m \/ (l = m /\ i < j),
                      Lane(l)'[i].number > Lane(m)'[j].number
               PROVE  Lane(m)'[j] \in restored
    BY <1>1 DEF Ordered
  <2>1. of(l, i) < of(m, j) \/ (of(l, i) = of(m, j) /\ at(l, i) < at(m, j))
    BY <1>12
  <2> QED
    BY <1>12, <2>1 DEF LanesInv, Ordered
<1>17. Kept'
  BY <1>1, <1>13 DEF LanesInv, Kept
<1> QED
  BY <1>1, <1>8, <1>9, <1>14, <1>15, <1>16, <1>17, QueueUnchanged DEF LanesInv

\* A send that fails puts its events behind those collected since, and they are
\* known to be put back.
LEMMA SendFailsStep == EventsInv /\ SendFails => EventsInv'
<1> SUFFICES ASSUME EventsInv, SendFails PROVE EventsInv'
  OBVIOUS
<1> USE DEF EventsInv
<1>1. /\ sending # <<>> /\ sending' = Tail(sending)
      /\ fileEvents' = fileEvents \o Head(sending).events
      /\ restored' = restored \cup ToSet(Head(sending).events)
      /\ UNCHANGED <<limits, client, session, queueVars, watchers, fileTimer, delivered, files, before,
                     editVars>>
  BY DEF SendFails, Restore
<1>2. sending \in Seq(Sends) /\ fileEvents \in Seq(Event)
  BY DEF EventsTypeOK, FileTypes
<1>3. /\ Tail(sending) \in Seq(Sends) /\ Head(sending) = sending[1] /\ sending[1] \in Sends
      /\ Len(sending) \in Nat \ {0} /\ Len(Tail(sending)) = Len(sending) - 1
      /\ \A i \in 1..Len(Tail(sending)) : Tail(sending)[i] = sending[i + 1]
  BY <1>1, <1>2, TailElements
<1>4. PICK n \in Nat, a \in Nat, first \in Seq(Event) :
        /\ n = Len(sending) /\ a = Len(fileEvents) /\ first = sending[1].events
  <2>1. sending[1].events \in Seq(Event)
    BY <1>3 DEF Sends
  <2>2. Len(fileEvents) \in Nat
    BY <1>2
  <2> QED
    BY <1>3, <2>1, <2>2
<1>5. /\ fileEvents \o first \in Seq(Event) /\ Len(fileEvents \o first) = a + Len(first)
      /\ Len(first) \in Nat
      /\ \A i \in 1..a : (fileEvents \o first)[i] = fileEvents[i]
      /\ \A i \in 1..Len(first) : (fileEvents \o first)[a + i] = first[i]
  BY <1>2, <1>4, ConcatElements
<1>6. fileEvents' = fileEvents \o first
  BY <1>1, <1>3, <1>4
<1>7. /\ restored' = restored \cup ToSet(first) /\ ToSet(first) \subseteq Event
      /\ \A i \in 1..Len(first) : first[i] \in restored'
      /\ restored \subseteq restored'
  BY <1>1, <1>3, <1>4 DEF ToSet
<1>8. ToSet(fileEvents') \subseteq ToSet(fileEvents) \cup restored'
  <2> SUFFICES ASSUME NEW i \in 1..(a + Len(first)), (fileEvents \o first)[i] \notin ToSet(fileEvents)
               PROVE  (fileEvents \o first)[i] \in restored'
    BY <1>5, <1>6 DEF ToSet
  <2>1. CASE i <= a
    BY <1>2, <1>4, <1>5, <2>1 DEF ToSet
  <2>2. CASE ~(i <= a)
    <3>1. Len(first) \in Nat
      OBVIOUS
    <3>2. i - a \in 1..Len(first) /\ a + (i - a) = i
      BY <2>2, <3>1
    <3>3. (fileEvents \o first)[a + (i - a)] = first[i - a] /\ first[i - a] \in restored'
      BY <1>5, <1>7, <3>2
    <3> QED
      BY <3>2, <3>3
  <2> QED
    BY <2>1, <2>2
<1>9. FileTypes'
  BY <1>1, <1>3, <1>5, <1>6, <1>7 DEF EventsTypeOK, FileTypes
<1>10. EventsTypeOK'
  BY <1>1, <1>3, <1>9, EventsAssumption, QueueUnchanged DEF EventsTypeOK, queueVars, editVars
<1>11. NothingStranded' /\ Quiet' /\ SilentWhenStopped'
  BY <1>1, <1>7, <1>8 DEF NothingStranded, Quiet, SilentWhenStopped, queueVars, editVars
\* Where an event of the lanes afterwards was before.
<1> DEFINE of(l, i) == IF l = 0 THEN 0 ELSE IF l = n /\ i > a THEN 1 ELSE l + 1
           at(l, i) == IF l = n /\ i > a THEN i - a ELSE i
<1>12. /\ n >= 1 /\ Lanes = 0..(n + 1) /\ Lanes' = 0..n
       /\ \A l \in 1..(n - 1) : Lane(l)' = Lane(l + 1) /\ LaneSession(l)' = LaneSession(l + 1)
       /\ Lane(0)' = Lane(0) /\ Lane(1) = first /\ Lane(n + 1) = fileEvents
       /\ \A l \in Lanes' : l = n => Lane(l)' = fileEvents \o first /\ LaneSession(l)' = session
       /\ LaneSession(0)' = session /\ LaneSession(0) = session /\ LaneSession(n + 1) = session
  <2>1. n >= 1 /\ Lanes = 0..(n + 1) /\ Lanes' = 0..n
    BY <1>1, <1>3, <1>4 DEF Lanes
  <2>2. ASSUME NEW l \in 1..(n - 1) PROVE Lane(l)' = Lane(l + 1) /\ LaneSession(l)' = LaneSession(l + 1)
    <3>1. l \in 1..Len(sending') /\ l + 1 \in 1..Len(sending) /\ sending'[l] = sending[l + 1]
      BY <1>1, <1>3, <1>4
    <3> QED
      BY <3>1 DEF Lane, LaneSession
  <2>3. ASSUME NEW l \in Lanes', l = n
        PROVE  Lane(l)' = fileEvents \o first /\ LaneSession(l)' = session
    BY <1>1, <1>3, <1>4, <1>6, <2>3 DEF Lane, LaneSession
  <2>4. Lane(0)' = Lane(0) /\ LaneSession(0)' = session /\ LaneSession(0) = session
    BY <1>1 DEF Lane, LaneSession
  <2>5. Lane(1) = first
    BY <1>4, <2>1 DEF Lane
  <2>6. Lane(n + 1) = fileEvents /\ LaneSession(n + 1) = session
    <3>1. n + 1 # 0 /\ ~(n + 1 <= Len(sending)) /\ n + 1 > Len(sending)
      BY <1>4
    <3> QED
      BY <3>1 DEF Lane, LaneSession
  <2> QED
    BY <2>1, <2>2, <2>3, <2>4, <2>5, <2>6
<1>13. \A l \in Lanes : Len(Lane(l)) \in Nat /\ DOMAIN Lane(l) = 1..Len(Lane(l))
  BY LanesTyped
<1>14. ASSUME NEW l \in Lanes', NEW i \in DOMAIN Lane(l)'
       PROVE  /\ l \in 0..n /\ i \in Nat \ {0}
              /\ of(l, i) \in Lanes /\ at(l, i) \in DOMAIN Lane(of(l, i))
              /\ Lane(l)'[i] = Lane(of(l, i))[at(l, i)]
              /\ of(l, i) = 1 => Lane(l)'[i] \in restored'
              /\ of(l, i) # 1 => LaneSession(l)' = LaneSession(of(l, i))
  <2>1. CASE l = n
    <3>1. i \in 1..(a + Len(first)) /\ Lane(l)' = fileEvents \o first
      BY <1>5, <1>12, <2>1
    <3>2. CASE i <= a
      BY <1>2, <1>4, <1>5, <1>12, <2>1, <3>1, <3>2
    <3>3. CASE ~(i <= a)
      <4>1. i - a \in 1..Len(first) /\ a + (i - a) = i
        BY <1>5, <3>1, <3>3
      <4>2. (fileEvents \o first)[i] = first[i - a] /\ first[i - a] \in restored'
        BY <1>5, <1>7, <4>1
      <4> QED
        BY <1>12, <2>1, <3>1, <3>3, <4>1, <4>2
    <3> QED
      BY <3>2, <3>3
  <2>2. CASE l = 0
    <3>1. l # n /\ i \in DOMAIN Lane(0) /\ Lane(l)' = Lane(0) /\ 0 \in Lanes
      BY <1>12, <2>2
    <3> QED
      BY <1>12, <1>13, <2>2, <3>1
  <2>3. CASE l # 0 /\ l # n
    <3>1. l \in 1..(n - 1) /\ l + 1 \in Lanes
      BY <1>12, <2>3
    <3> QED
      BY <1>12, <1>13, <2>3, <3>1
  <2> QED
    BY <2>1, <2>2, <2>3
<1>15. ASSUME NEW l \in Lanes, NEW i \in DOMAIN Lane(l)
       PROVE  \E m \in Lanes' : \E j \in DOMAIN Lane(m)' : Lane(m)'[j] = Lane(l)[i]
  <2>1. \A m \in Lanes' : m = n => DOMAIN Lane(m)' = 1..(a + Len(first))
    BY <1>5, <1>12
  <2>2. n \in Lanes'
    BY <1>12
  <2>3. CASE l = 0
    <3>1. 0 \in Lanes'
      BY <1>12
    <3> QED
      BY <1>12, <2>3, <3>1
  <2>4. CASE l = 1
    <3>1. i \in 1..Len(first) /\ a + i \in 1..(a + Len(first))
      BY <1>5, <1>12, <2>4
    <3> QED
      BY <1>5, <1>12, <2>1, <2>2, <2>4, <3>1
  <2>5. CASE l = n + 1
    <3>1. i \in 1..a /\ i \in 1..(a + Len(first))
      BY <1>2, <1>4, <1>5, <1>12, <2>5
    <3> QED
      BY <1>5, <1>12, <2>1, <2>2, <2>5, <3>1
  <2>6. CASE l \notin {0, 1, n + 1}
    <3>1. l - 1 \in 1..(n - 1) /\ l - 1 \in Lanes' /\ (l - 1) + 1 = l
      BY <1>12, <2>6
    <3> QED
      BY <1>12, <3>1
  <2> QED
    BY <2>3, <2>4, <2>5, <2>6
<1>16. Once'
  <2> SUFFICES ASSUME NEW l \in Lanes', NEW m \in Lanes', NEW i \in DOMAIN Lane(l)',
                      NEW j \in DOMAIN Lane(m)', Lane(l)'[i] = Lane(m)'[j]
               PROVE  l = m /\ i = j
    BY DEF Once
  <2>1. of(l, i) = of(m, j) /\ at(l, i) = at(m, j)
    BY <1>14 DEF LanesInv, Once
  <2>2. n >= 1 /\ l \in 0..n /\ m \in 0..n /\ i \in Nat \ {0} /\ j \in Nat \ {0}
    BY <1>12, <1>14
  <2> QED
    BY <2>1, <2>2
<1>17. Counted'
  BY <1>1, <1>14 DEF LanesInv, Counted
<1>18. Addressed'
  <2> SUFFICES ASSUME NEW l \in Lanes', NEW i \in DOMAIN Lane(l)'
               PROVE  Lane(l)'[i].session = LaneSession(l)' \/ Lane(l)'[i] \in restored'
    BY DEF Addressed
  <2>1. CASE of(l, i) = 1
    BY <1>14, <2>1
  <2>2. CASE of(l, i) # 1
    BY <1>7, <1>14, <2>2 DEF LanesInv, Addressed
  <2> QED
    BY <2>1, <2>2
<1>19. Ordered'
  <2> SUFFICES ASSUME NEW l \in Lanes', NEW m \in Lanes', NEW i \in DOMAIN Lane(l)',
                      NEW j \in DOMAIN Lane(m)', l < m \/ (l = m /\ i < j),
                      Lane(l)'[i].number > Lane(m)'[j].number
               PROVE  Lane(m)'[j] \in restored'
    BY DEF Ordered
  <2>1. CASE of(m, j) = 1
    BY <1>14, <2>1
  <2>2. CASE of(m, j) # 1
    <3>1. n >= 1 /\ l \in 0..n /\ m \in 0..n /\ i \in Nat \ {0} /\ j \in Nat \ {0}
      BY <1>12, <1>14
    <3>2. of(l, i) < of(m, j) \/ (of(l, i) = of(m, j) /\ at(l, i) < at(m, j))
      BY <2>2, <3>1
    <3> QED
      BY <1>7, <1>14, <3>2 DEF LanesInv, Ordered
  <2> QED
    BY <2>1, <2>2
<1>20. Kept'
  BY <1>1, <1>15 DEF LanesInv, Kept
<1> QED
  BY <1>1, <1>10, <1>11, <1>16, <1>17, <1>18, <1>19, <1>20, QueueUnchanged DEF LanesInv

-----------------------------------------------------------------------------
\* The client's life.

\* Purging the collected and forgetting the delivered events of a session leaves
\* the rest as it was, wherever they were sent to.
LEMMA LanesPurged ==
  ASSUME EventsInv, client' # "running",
         UNCHANGED <<sending, restored, files>>,
         fileEvents' \in {fileEvents, <<>>}, delivered' \in {delivered, <<>>},
         session' = session \/ (delivered' = <<>> /\ ToSet(fileEvents') \subseteq restored)
  PROVE  LanesInv'
<1> USE DEF EventsInv
<1>1. Len(sending) \in Nat /\ Lanes = 0..(Len(sending) + 1) /\ Lanes' = Lanes
  BY LanesTyped DEF Lanes
<1>2. ASSUME NEW l \in Lanes
      PROVE  /\ Lane(l)' \in {Lane(l), <<>>}
             /\ l \in 1..Len(sending) => Lane(l)' = Lane(l) /\ LaneSession(l)' = LaneSession(l)
             /\ l \notin 1..Len(sending) => LaneSession(l)' = session' /\ LaneSession(l) = session
             /\ l = 0 => Lane(l)' = delivered'
             /\ l \notin 0..Len(sending) => Lane(l)' = fileEvents'
  <2>1. CASE l = 0
    BY <1>1, <2>1 DEF Lane, LaneSession
  <2>2. CASE l \in 1..Len(sending)
    BY <1>1, <2>2 DEF Lane, LaneSession
  <2>3. CASE l = Len(sending) + 1
    BY <1>1, <2>3 DEF Lane, LaneSession
  <2> QED
    BY <1>1, <2>1, <2>2, <2>3
<1>3. \A l \in Lanes : \A i \in DOMAIN Lane(l)' : Lane(l)' = Lane(l) /\ i \in DOMAIN Lane(l)
  <2> SUFFICES ASSUME NEW l \in Lanes, NEW i \in DOMAIN Lane(l)'
               PROVE  Lane(l)' = Lane(l) /\ i \in DOMAIN Lane(l)
    OBVIOUS
  <2>1. Lane(l)' # <<>>
    OBVIOUS
  <2> QED
    BY <1>2, <2>1
<1>4. Once' /\ Counted' /\ Ordered'
  BY <1>1, <1>3 DEF LanesInv, Once, Counted, Ordered
<1>5. Kept'
  BY DEF Kept
<1>6. Addressed'
  <2> SUFFICES ASSUME NEW l \in Lanes, NEW i \in DOMAIN Lane(l)'
               PROVE  Lane(l)'[i].session = LaneSession(l)' \/ Lane(l)'[i] \in restored'
    BY <1>1 DEF Addressed
  <2>1. Lane(l)' = Lane(l) /\ i \in DOMAIN Lane(l)
    BY <1>3
  <2>2. Lane(l)[i].session = LaneSession(l) \/ Lane(l)[i] \in restored
    BY <2>1 DEF LanesInv, Addressed
  <2>3. CASE l \in 1..Len(sending) \/ session' = session
    BY <1>2, <2>1, <2>2, <2>3
  <2>4. CASE l = 0 /\ delivered' = <<>>
    <3>1. Lane(l)' = <<>>
      BY <1>2, <2>4
    <3> QED
      BY <3>1
  <2>5. CASE l \notin 0..Len(sending) /\ ToSet(fileEvents') \subseteq restored
    <3>1. Lane(l)' = fileEvents'
      BY <1>2, <2>5
    <3> QED
      BY <2>5, <3>1 DEF ToSet
  <2> QED
    BY <1>1, <2>3, <2>4, <2>5
<1> QED
  BY <1>4, <1>5, <1>6 DEF LanesInv

\* Between the sessions no diagnostics are the last of a document.
LEMMA QueueOutlives ==
  ASSUME EventsInv, latest' = Nothing, UNCHANGED <<queue, work, kick, publishes>>,
         shown' \in {None, Nothing}
  PROVE  QueueTypes' /\ Newest' /\ (queue' # <<>> => kick' \/ work' # None)
<1> USE DEF EventsInv
<1>1. Nothing \in [Uris -> Published \cup {None}] /\ \A u \in Uris : Nothing[u] = None
  BY DEF Nothing
<1>2. QueueTypes'
  BY <1>1 DEF EventsTypeOK, QueueTypes
<1>3. \A i \in DOMAIN queue : queue[i] \in Published
  BY DEF EventsTypeOK, QueueTypes
<1>4. work # None => work.entry \in Published
  BY DEF EventsTypeOK, QueueTypes
<1>5. \A e \in Published : e.uri \in Uris
  BY DEF Published
<1>6. Newest'
  BY <1>1, <1>3, <1>4, <1>5 DEF Newest
<1> QED
  BY <1>2, <1>6 DEF NothingStranded

\* The purge of a stop or a restart.
LEMMA CleanUpStep ==
  ASSUME EventsInv, CleanUp
  PROVE  /\ fileEvents' = <<>> /\ fileTimer' \in Timers /\ pending' = FALSE
         /\ watchers' = [w \in Watchers |-> {}] /\ watchers' \in [Watchers -> SUBSET Kinds]
         /\ ToSet(fileEvents') = {}
<1>1. fileTimer \in Timers
  BY DEF EventsInv, EventsTypeOK, FileTypes
<1>2. fileEvents' = <<>> /\ fileTimer' = [fileTimer EXCEPT !.timer = FALSE]
  BY DEF CleanUp, Cancel
<1>3. ToSet(<<>>) = {}
  BY DEF ToSet
<1>4. watchers' = [w \in Watchers |-> {}] /\ pending' = FALSE
  BY DEF CleanUp
<1>5. fileTimer' \in Timers
  BY <1>1, <1>2 DEF Timers
<1> QED
  BY <1>2, <1>3, <1>4, <1>5

\* A start forgets the session before: what failed sends have put back since the
\* purge is all there is.
LEMMA StartStep == EventsInv /\ Start => EventsInv'
<1> SUFFICES ASSUME EventsInv, Start PROVE EventsInv'
  OBVIOUS
<1> USE DEF EventsInv
<1>1. /\ client = "stopped" /\ session < limits.sessions
      /\ client' = "starting" /\ session' = session + 1
      /\ shown' = Nothing /\ latest' = Nothing /\ delivered' = <<>> /\ before' = files
      /\ UNCHANGED <<limits, queue, work, kick, publishes, watchers, fileEvents, fileTimer,
                     sending, restored, files, pending, pendingTimer, edits>>
  BY DEF Start, Begin, editVars
<1>2. QueueTypes' /\ Newest' /\ (queue' # <<>> => kick' \/ work' # None)
  BY <1>1, QueueOutlives
<1>3. FileTypes'
  BY <1>1 DEF EventsTypeOK, FileTypes
<1>4. session' \in 0 .. limits'.sessions
  BY <1>1, EventsAssumption DEF EventsTypeOK
<1>5. EventsTypeOK'
  BY <1>1, <1>2, <1>3, <1>4 DEF EventsTypeOK
<1>6. ToSet(fileEvents) \subseteq restored
  BY <1>1 DEF Quiet
<1>7. LanesInv'
  BY <1>1, <1>6, LanesPurged
<1>8. Quiet' /\ SilentWhenStopped'
  BY <1>1 DEF Quiet, SilentWhenStopped
<1>9. NothingStranded'
  BY <1>1, <1>2 DEF NothingStranded
<1> QED
  BY <1>2, <1>5, <1>7, <1>8, <1>9

\* A client that runs listens to nothing yet, and a client that is stopped no
\* longer.
LEMMA StartedStep == EventsInv /\ (Started \/ Stopped) => EventsInv'
<1> SUFFICES ASSUME EventsInv, Started \/ Stopped PROVE EventsInv'
  OBVIOUS
<1> USE DEF EventsInv
<1>1. /\ UNCHANGED <<limits, session, queueVars, fileVars, editVars>>
      /\ \/ client = "starting" /\ client' = "running"
         \/ client = "stopping" /\ client' = "stopped"
  BY DEF Started, Stopped
<1>2. FileTypes'
  BY <1>1 DEF EventsTypeOK, FileTypes, fileVars
<1>3. EventsTypeOK'
  BY <1>1, <1>2, QueueUnchanged DEF EventsTypeOK, queueVars, fileVars, editVars
<1>4. Lanes' = Lanes /\ \A l : Lane(l)' = Lane(l) /\ LaneSession(l)' = LaneSession(l)
  BY <1>1 DEF Lanes, Lane, LaneSession, fileVars
<1>5. Once' /\ Counted' /\ Ordered' /\ Addressed'
  BY <1>1, <1>4 DEF LanesInv, Once, Counted, Ordered, Addressed, fileVars
<1>6. Kept'
  <2>1. client' = "running" => before' = files' /\ files' \in Nat
    BY <1>1 DEF Quiet, fileVars, EventsTypeOK, FileTypes
  <2>2. \A n \in Nat : n + 1 .. n = {}
    OBVIOUS
  <2> QED
    BY <2>1, <2>2 DEF Kept
<1>7. ~pending
  BY <1>1 DEF NothingStranded
<1>8. Quiet' /\ SilentWhenStopped' /\ NothingStranded'
  BY <1>1, <1>7 DEF Quiet, SilentWhenStopped, NothingStranded, queueVars, fileVars, editVars
<1> QED
  BY <1>1, <1>3, <1>5, <1>6, <1>8, QueueUnchanged DEF LanesInv

\* A client that stops, or whose connection closes, purges what it collected.
LEMMA StopStep == EventsInv /\ (Stop \/ Closed) => EventsInv'
<1> SUFFICES ASSUME EventsInv, Stop \/ Closed PROVE EventsInv'
  OBVIOUS
<1> USE DEF EventsInv
<1>1. /\ client' \in {"stopping", "stopped"} /\ CleanUp /\ shown' = None /\ latest' = Nothing
      /\ UNCHANGED <<limits, session, queue, work, kick, publishes, sending, delivered, restored,
                     files, before, pendingTimer, edits>>
  BY DEF Stop, Closed
<1>2. QueueTypes' /\ Newest' /\ (queue' # <<>> => kick' \/ work' # None)
  BY <1>1, QueueOutlives
<1>3. /\ fileEvents' = <<>> /\ fileTimer' \in Timers /\ pending' = FALSE
      /\ watchers' = [w \in Watchers |-> {}] /\ watchers' \in [Watchers -> SUBSET Kinds]
      /\ ToSet(fileEvents') = {}
  BY <1>1, CleanUpStep
<1>4. FileTypes'
  BY <1>1, <1>3 DEF EventsTypeOK, FileTypes
<1>5. EventsTypeOK'
  BY <1>1, <1>2, <1>3, <1>4 DEF EventsTypeOK
<1>6. LanesInv'
  BY <1>1, <1>3, LanesPurged
<1>7. Quiet' /\ SilentWhenStopped' /\ NothingStranded'
  BY <1>1, <1>2, <1>3 DEF Quiet, SilentWhenStopped, NothingStranded
<1> QED
  BY <1>2, <1>5, <1>6, <1>7

\* A restart is a purge and a start in one turn.
LEMMA RestartStep == EventsInv /\ Restart => EventsInv'
<1> SUFFICES ASSUME EventsInv, Restart PROVE EventsInv'
  OBVIOUS
<1> USE DEF EventsInv
<1>1. /\ session < limits.sessions /\ CleanUp
      /\ client' = "starting" /\ session' = session + 1
      /\ shown' = Nothing /\ latest' = Nothing /\ delivered' = <<>> /\ before' = files
      /\ UNCHANGED <<limits, queue, work, kick, publishes, sending, restored, files, pendingTimer,
                     edits>>
  BY DEF Restart, Begin
<1>2. QueueTypes' /\ Newest' /\ (queue' # <<>> => kick' \/ work' # None)
  BY <1>1, QueueOutlives
<1>3. /\ fileEvents' = <<>> /\ fileTimer' \in Timers /\ pending' = FALSE
      /\ watchers' = [w \in Watchers |-> {}] /\ watchers' \in [Watchers -> SUBSET Kinds]
      /\ ToSet(fileEvents') = {}
  BY <1>1, CleanUpStep
<1>4. FileTypes'
  BY <1>1, <1>3 DEF EventsTypeOK, FileTypes
<1>5. session' \in 0 .. limits'.sessions
  BY <1>1, EventsAssumption DEF EventsTypeOK
<1>6. EventsTypeOK'
  BY <1>1, <1>2, <1>3, <1>4, <1>5 DEF EventsTypeOK
<1>7. LanesInv'
  BY <1>1, <1>3, LanesPurged
<1>8. Quiet' /\ SilentWhenStopped' /\ NothingStranded'
  BY <1>1, <1>2, <1>3 DEF Quiet, SilentWhenStopped, NothingStranded
<1> QED
  BY <1>2, <1>6, <1>7, <1>8

-----------------------------------------------------------------------------
\* The theorems.

\* The invariant holds at the beginning.
LEMMA EventsInit == Init => EventsInv
<1> SUFFICES ASSUME Init PROVE EventsInv
  OBVIOUS
<1> USE DEF Init
<1>1. Nothing \in [Uris -> Published \cup {None}]
  BY DEF Nothing
<1>2. limits \in [publishes : Nat, files : Nat, edits : Nat, sessions : Nat]
  BY EventsAssumption
<1>3. QueueTypes
  BY <1>1 DEF QueueTypes
<1>4. FileTypes
  BY DEF FileTypes, Timers, Delayed
<1>5. EventsTypeOK
  <2>1. session \in 0 .. limits.sessions /\ limits \in Limits
    BY <1>2
  <2>2. Len(sending) <= MaxInFlight
    BY EventsAssumption
  <2>3. pendingTimer \in Timers /\ kick \in BOOLEAN /\ pending \in BOOLEAN
    BY DEF Timers, Delayed
  <2> QED
    BY <1>3, <1>4, <2>1, <2>2, <2>3 DEF EventsTypeOK
<1>6. Lanes = {0, 1} /\ Lane(0) = <<>> /\ Lane(1) = <<>>
  BY DEF Lanes, Lane
<1>7. \A l \in Lanes : DOMAIN Lane(l) = {}
  BY <1>6
<1>8. LanesInv
  BY <1>7 DEF LanesInv, Once, Counted, Ordered, Kept, Addressed
<1>9. Newest /\ Quiet /\ NothingStranded /\ SilentWhenStopped
  BY DEF Newest, Quiet, NothingStranded, SilentWhenStopped, ToSet
<1> QED
  BY <1>5, <1>8, <1>9 DEF EventsInv

\* Every step keeps it.
LEMMA EventsStep == EventsInv /\ [Next]_vars => EventsInv'
<1> SUFFICES ASSUME EventsInv, [Next]_vars PROVE EventsInv'
  OBVIOUS
<1>1. CASE Next
  BY <1>1, PublishStep, WorkStep, ConvertedStep, WatchersStep, FileEventStep, FileTimerStep,
     FilesSentStep, SendFailsStep, EditStep, StartStep, StartedStep, StopStep, RestartStep
     DEF Next
<1>2. CASE UNCHANGED vars
  <2>1. UNCHANGED <<limits, client, session, queueVars, fileVars, editVars>>
    BY <1>2 DEF vars
  <2>2. LanesInv' /\ Quiet'
    BY <2>1, LanesUnchanged DEF fileVars, EventsInv
  <2>3. FileTypes'
    BY <2>1 DEF EventsInv, EventsTypeOK, FileTypes, fileVars
  <2>4. EventsTypeOK'
    BY <2>1, <2>3, QueueUnchanged DEF EventsInv, EventsTypeOK, queueVars, fileVars, editVars
  <2>5. NothingStranded' /\ SilentWhenStopped'
    BY <2>1 DEF EventsInv, NothingStranded, SilentWhenStopped, queueVars, fileVars, editVars
  <2> QED
    BY <2>1, <2>2, <2>4, <2>5, QueueUnchanged DEF EventsInv
<1> QED
  BY <1>1, <1>2

\* The invariant holds in every reachable state.
LEMMA EventsHold == Spec => []EventsInv
  BY EventsInit, EventsStep, PTL DEF Spec

\* For any documents, watchers and bounds, and however sends fail and sessions
\* end: no entry of the queue, pending change or collected event waits for a
\* wake-up that does not come; each file event of a session is in one place,
\* once, and delivered in the order of its coming and to its own server, unless a
\* failed send put it back; and nothing is shown after a stop.
THEOREM EventsKeptHolds == Spec => []EventsKept
<1>1. EventsInv => EventsKept
  <2> SUFFICES ASSUME EventsInv PROVE EventsKept
    OBVIOUS
  <2> USE DEF EventsInv
  <2>1. TypeOK
    BY DEF EventsTypeOK, Newest, TypeOK
  <2>2. 0 \in Lanes /\ Lane(0) = delivered /\ LaneSession(0) = session
    BY LanesTyped DEF Lane, LaneSession
  <2>3. \A i \in DOMAIN delivered : delivered[i].session # session => delivered[i] \in restored
    BY <2>2 DEF LanesInv, Addressed
  <2>4. \A i, j \in DOMAIN delivered :
          i < j /\ delivered[i].number > delivered[j].number => delivered[j] \in restored
    BY <2>2 DEF LanesInv, Ordered
  <2>5. FileEventsKept
    BY <2>3, <2>4 DEF LanesInv, Once, Kept, FileEventsKept
  <2> QED
    BY <2>1, <2>5 DEF EventsKept
<1> QED
  BY <1>1, EventsHold, PTL

\* For any documents and any number of publications and sessions: a conversion
\* that began before newer diagnostics of its document came does not get to show
\* its own.
THEOREM OnlyTheLatestHolds == Spec => OnlyTheLatest
<1> DEFINE Shows ==
      \A u \in Uris :
        shown # None /\ shown' # None /\ latest[u] # None =>
          shown'[u] \in {shown[u], latest[u], None}
<1>1. EventsInv /\ [Next]_vars => [Shows]_vars
  <2> SUFFICES ASSUME EventsInv, Next, NEW u \in Uris,
                      shown # None, shown' # None, latest[u] # None
               PROVE  shown'[u] \in {shown[u], latest[u], None}
    OBVIOUS
  <2> USE DEF EventsInv
  <2>1. CASE Converted
    <3>1. CASE shown' = shown
      BY <3>1
    <3>2. CASE shown' # shown
      <4>1. /\ work # None /\ ~work.cancelled
            /\ shown' = [shown EXCEPT ![work.entry.uri] = work.entry]
        BY <2>1, <3>2 DEF Converted, SetDiagnostics
      <4>2. shown \in [Uris -> Published \cup {None}]
        BY DEF EventsTypeOK, QueueTypes
      <4>3. CASE u = work.entry.uri
        <5>1. latest[u] = work.entry
          BY <4>1, <4>3 DEF Newest
        <5>2. shown'[u] = work.entry
          BY <4>1, <4>2, <4>3
        <5> QED
          BY <5>1, <5>2
      <4>4. CASE u # work.entry.uri
        BY <4>1, <4>2, <4>4
      <4> QED
        BY <4>3, <4>4
    <3> QED
      BY <3>1, <3>2
  <2>2. CASE Start \/ Restart
    <3>1. shown' = Nothing
      BY <2>2 DEF Start, Restart, Begin
    <3> QED
      BY <3>1 DEF Nothing
  <2>3. CASE Stop \/ Closed
    BY <2>3 DEF Stop, Closed
  <2>4. CASE Publish \/ WorkDiagnosticQueue
    BY <2>4 DEF Publish, WorkDiagnosticQueue
  <2>5. CASE Register \/ Unregister \/ FileEvent \/ FileTimerFires \/ FilesSent \/ SendFails
    BY <2>5 DEF Register, Unregister, FileEvent, FileTimerFires, FilesSent, SendFails, queueVars
  <2>6. CASE Edit \/ PendingTimerFires \/ Started \/ Stopped
    BY <2>6 DEF Edit, PendingTimerFires, Started, Stopped, queueVars
  <2> QED
    BY <2>1, <2>2, <2>3, <2>4, <2>5, <2>6 DEF Next
<1>2. Spec => [][Shows]_vars
  BY <1>1, EventsHold, PTL DEF Spec
<1> QED
  BY <1>2 DEF OnlyTheLatest
=============================================================================

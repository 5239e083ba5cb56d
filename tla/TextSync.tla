------------------------------ MODULE TextSync ------------------------------
(***************************************************************************)
(* The document synchronisation of the language client: the open, change   *)
(* and close features of client/src/common/textSynchronization.ts with     *)
(* sendNotification and sendRequest of client/src/common/client.ts, and    *)
(* the server's TextDocuments at the other end of the wire.                *)
(*                                                                         *)
(* Every sendNotification and sendRequest is a task, an async function     *)
(* that runs up to its next await.  ready is the microtask queue: its head *)
(* runs first, and callbacks of the event loop (editor events, timers,     *)
(* finished writes) run only when it is empty.  A message reaches the      *)
(* server when its write settles; the writer settles writes in call order  *)
(* (see Semaphore) and stream and server keep that order.                  *)
(***************************************************************************)
EXTENDS TextDocuments, FiniteSets, SequencesExt

CONSTANTS Configs,     \* the configurations a behaviour may have
          MaxEvents,   \* bound: editor events and requests under way
          LastText     \* bound: a document's last text, in any configuration

(***************************************************************************)
(* A configuration: the synchronisation the server asked for,              *)
(* textSynchronization.delayOpenNotifications, the documents that are open *)
(* when the features register and those with a tab by then, whether the    *)
(* editor may reopen a document before its close was sent, and, as bounds, *)
(* the documents the user works on and the last text of a document.        *)
(***************************************************************************)
ASSUME ConfigAssumption ==
  /\ Configs \subseteq [sync : {"Incremental", "Full"}, delayOpen : BOOLEAN,
                         docs : SUBSET Docs, preopened : SUBSET Docs,
                         tabs : SUBSET Docs, rapidReopen : BOOLEAN,
                         maxText : 0..LastText]
  /\ MaxEvents \in Nat /\ LastText \in Nat

VARIABLES
  config,          \* the configuration, which does not change
  registered,      \* DidOpenTextDocumentFeature.register has run
  open, visible,   \* the editor: open documents, and those with a tab
  text,            \* the editor: the current text of each document
  pendingOpens,    \* _pendingOpenNotifications, in insertion order
  pendingChanges,  \* _pendingTextDocumentChanges, in insertion order
  inFlightOpens,   \* _inFlightOpenNotifications
  synced,          \* the client's _syncedDocuments
  tasks,           \* the calls of sendNotification and sendRequest under way
  ready,           \* tasks that continue, in order
  lockQueue,       \* _pendingChangeSemaphore: its holder, if locked, first
  locked,
  flushing,        \* the changes the holder has still to send
  timer,           \* _pendingChangeDelayer is armed
  writing          \* messages handed to the connection, write not settled

editor == <<config, registered, open, visible, text>>
semaphore == <<lockQueue, locked, flushing, timer>>
vars == <<editor, pendingOpens, pendingChanges, inFlightOpens, synced, tasks,
          ready, semaphore, writing, server>>

Full == config.sync = "Full"
Texts == 0..config.maxText
Delayer == 0            \* the delayed delivery among the users of the lock
Nobody == 0             \* the parent of a task that no task waits for
Ids == DOMAIN tasks
NewId == CHOOSE i \in 1..Cardinality(Ids) + 1 : i \notin Ids

Kinds == {"open", "change", "close", "request"}
PendingOpen == [doc : Docs, text : Texts, live : BOOLEAN]
Task == [kind : Kinds, doc : Docs, text : Texts, parent : Nat,
         pc : {"start", "draining", "drained", "opening", "locking",
               "send", "writing", "written"},
         rest : Seq(PendingOpen), dropped : BOOLEAN]
Message == [kind : Kinds, doc : Docs, text : Texts, task : Nat]

TypeOK == /\ config \in Configs
          /\ registered \in BOOLEAN
          /\ open \subseteq Docs
          /\ visible \subseteq Docs
          /\ text \in [Docs -> Texts]
          /\ pendingOpens \in Seq(PendingOpen)
          /\ pendingChanges \in Seq(Docs) /\ IsInjective(pendingChanges)
          /\ inFlightOpens \subseteq Docs
          /\ synced \subseteq Docs
          /\ Ids \subseteq Nat \ {0} /\ \A i \in Ids : tasks[i] \in Task
          /\ ready \in Seq(Ids) /\ IsInjective(ready)
          /\ lockQueue \in Seq(Ids \cup {Delayer})
          /\ locked \in BOOLEAN
          /\ flushing \in Seq(Docs)
          /\ timer \in BOOLEAN
          /\ writing \in Seq(Message)
          /\ server \in [Docs -> Texts \cup {Absent, Garbled}]

Init == /\ config \in Configs
        /\ registered = FALSE
        /\ open = config.preopened
        /\ visible = config.tabs
        /\ text = [d \in Docs |-> 0]
        /\ pendingOpens = <<>>
        /\ pendingChanges = <<>>
        /\ inFlightOpens = {}
        /\ synced = {}
        /\ tasks = <<>>
        /\ ready = <<>>
        /\ lockQueue = <<>>
        /\ locked = FALSE
        /\ flushing = <<>>
        /\ timer = FALSE
        /\ writing = <<>>
        /\ InitServer
-----------------------------------------------------------------------------
\* The elements of s that are in S, in their order: the n-th of them is the
\* one that has n of them up to it.  (What SelectSeq returns, in a form that
\* needs no recursion.)
Among(s, S) ==
  LET places == {n \in DOMAIN s : s[n] \in S}
      Place(n) == CHOOSE p \in places : Cardinality({q \in places : q <= p}) = n
  IN [n \in 1..Cardinality(places) |-> s[Place(n)]]

(***************************************************************************)
(* Tasks.                                                                  *)
(***************************************************************************)
NewTask(kind, d, t, parent) ==
  [kind |-> kind, doc |-> d, text |-> t, parent |-> parent,
   pc |-> "start", rest |-> <<>>, dropped |-> FALSE]

With(ts, id, task) ==
  [i \in DOMAIN ts \cup {id} |-> IF i = id THEN task ELSE ts[i]]

\* The synchronous part of sendNotification: an open of a document that is
\* synced in full mode keeps its pending changes back.
InFlightWith(kind, d) ==
  IF Full /\ kind = "open" THEN inFlightOpens \cup {d} ELSE inFlightOpens

\* An event listener calls sendNotification or sendRequest.
Call(kind, d, t) ==
  /\ tasks' = With(tasks, NewId, NewTask(kind, d, t, Nobody))
  /\ ready' = Append(ready, NewId)
  /\ inFlightOpens' = InFlightWith(kind, d)

Running(i, pcs) == ready # <<>> /\ i = Head(ready) /\ tasks[i].pc \in pcs
Continue(i, pc) == /\ tasks' = [tasks EXCEPT ![i].pc = pc]
                   /\ ready' = Append(Tail(ready), i)
Wait(i, pc) == /\ tasks' = [tasks EXCEPT ![i].pc = pc]
               /\ ready' = Tail(ready)

\* sendPendingOpenNotifications copies and clears the pending opens ...
Drain(i) ==
  /\ Running(i, {"start"})
  /\ tasks' = [tasks EXCEPT ![i].pc = "draining", ![i].rest = pendingOpens]
  /\ pendingOpens' = <<>>
  /\ UNCHANGED <<editor, pendingChanges, inFlightOpens, synced, ready,
                 semaphore, writing, server>>

\* ... drops the one whose document the caller closes ...
DropOpen(i) ==
  /\ Running(i, {"draining"})
  /\ tasks[i].rest # <<>>
  /\ tasks[i].kind = "close" /\ Head(tasks[i].rest).doc = tasks[i].doc
  /\ tasks' = [tasks EXCEPT ![i].rest = Tail(@), ![i].dropped = TRUE]
  /\ UNCHANGED <<editor, pendingOpens, pendingChanges, inFlightOpens, synced,
                 ready, semaphore, writing, server>>

TextToSend(p) == IF p.live THEN text[p.doc] ELSE p.text

\* ... and awaits the sending of each of the others.
SendOpen(i) ==
  LET p == Head(tasks[i].rest)
  IN /\ Running(i, {"draining"})
     /\ tasks[i].rest # <<>>
     /\ tasks[i].kind # "close" \/ p.doc # tasks[i].doc
     /\ tasks' = With([tasks EXCEPT ![i].pc = "opening", ![i].rest = Tail(@)],
                      NewId, NewTask("open", p.doc, TextToSend(p), i))
     /\ ready' = Append(Tail(ready), NewId)
     /\ inFlightOpens' = InFlightWith("open", p.doc)
     /\ UNCHANGED <<editor, pendingOpens, pendingChanges, synced, semaphore,
                    writing, server>>

Drained(i) ==
  /\ Running(i, {"draining"})
  /\ tasks[i].rest = <<>>
  /\ Continue(i, "drained")
  /\ UNCHANGED <<editor, pendingOpens, pendingChanges, inFlightOpens, synced,
                 semaphore, writing, server>>

\* An open of register that was called before the change feature knew how
\* documents are synced: it is not in flight, and it will not flush.
Unaware(i) == tasks[i].kind = "open" /\ tasks[i].doc \notin inFlightOpens

\* Mutant of Flushes: requests leave the pending changes alone.
FlushesUnlessRequest(i) ==
  tasks[i].pc = "drained" /\ Full /\ ~Unaware(i) /\ tasks[i].kind # "request"

\* sendPendingFullTextDocumentChanges is called before the message is sent.
Flushes(i) == tasks[i].pc = "drained" /\ Full /\ ~Unaware(i)

Lock(i) ==
  /\ Running(i, {"drained"})
  /\ ~tasks[i].dropped
  /\ Flushes(i)
  /\ lockQueue' = Append(lockQueue, i)
  /\ Wait(i, "locking")
  /\ UNCHANGED <<editor, pendingOpens, pendingChanges, inFlightOpens, synced,
                 locked, flushing, timer, writing, server>>

\* connection.sendNotification or sendRequest: the message is handed to the
\* writer without another await.
Send(i) ==
  LET t == tasks[i]
  IN /\ Running(i, {"drained", "send"})
     /\ ~t.dropped
     /\ ~Flushes(i)
     /\ inFlightOpens' = IF t.kind = "open" THEN inFlightOpens \ {t.doc}
                         ELSE inFlightOpens
     /\ writing' = Append(writing, [kind |-> t.kind, doc |-> t.doc,
                                    text |-> t.text, task |-> i])
     /\ Wait(i, "writing")
     /\ UNCHANGED <<editor, pendingOpens, pendingChanges, synced, semaphore,
                    server>>

\* notificationSent of the open and of the close feature.
SyncedAfter(t) == CASE t.kind = "open" -> synced \cup {t.doc}
                    [] t.kind = "close" -> synced \ {t.doc}
                    [] OTHER -> synced

\* The call returns: the feature's bookkeeping, then the caller continues.
Return(i) ==
  LET t == tasks[i]
      others == [j \in Ids \ {i} |-> tasks[j]]
  IN /\ \/ Running(i, {"written"})
        \/ Running(i, {"drained"}) /\ t.dropped
     /\ synced' = SyncedAfter(t)
     /\ pendingChanges' = IF t.kind = "close"
                          THEN Among(pendingChanges, Docs \ {t.doc})
                          ELSE pendingChanges
     /\ IF t.parent = Nobody
        THEN tasks' = others /\ ready' = Tail(ready)
        ELSE /\ tasks' = [others EXCEPT ![t.parent].pc = "draining"]
             /\ ready' = Append(Tail(ready), t.parent)
     /\ UNCHANGED <<editor, pendingOpens, inFlightOpens, semaphore, writing,
                    server>>
-----------------------------------------------------------------------------
(***************************************************************************)
(* Callbacks of the event loop: the semaphore, the timer, the writer.      *)
(***************************************************************************)
Idle == ready = <<>>

\* The holder of the lock sends the next change, as the document is by then,
\* or returns and lets its caller go on.
FlushOrRelease(holder, changes, outbox) ==
  IF changes # <<>>
  THEN /\ writing' = Append(outbox, [kind |-> "change", doc |-> Head(changes),
                                     text |-> text[Head(changes)],
                                     task |-> Delayer])
       /\ flushing' = Tail(changes)
       /\ locked' = TRUE
       /\ UNCHANGED <<lockQueue, tasks, ready>>
  ELSE /\ writing' = outbox
       /\ flushing' = <<>>
       /\ locked' = FALSE
       /\ lockQueue' = Tail(lockQueue)
       /\ IF holder = Delayer THEN UNCHANGED <<tasks, ready>>
          ELSE /\ tasks' = [tasks EXCEPT ![holder].pc = "send"]
               /\ ready' = <<holder>>

\* Mutant of Sendable: documents whose open is under way are not kept back.
SendableAll == pendingChanges

\* getPendingDocumentChanges: the pending changes, but for the documents
\* whose open notification is still to be sent.
Sendable == Among(pendingChanges, Docs \ inFlightOpens)

Excluded == Among(pendingChanges, inFlightOpens)

\* Mutant of TakeChanges: only the first change survives.
TakeFirstChange ==
  /\ Idle
  /\ lockQueue # <<>> /\ ~locked
  /\ pendingChanges' = Excluded
  /\ FlushOrRelease(Head(lockQueue),
                    SubSeq(Sendable, 1, IF Sendable = <<>> THEN 0 ELSE 1),
                    writing)
  /\ UNCHANGED <<editor, pendingOpens, inFlightOpens, synced, timer, server>>

\* The thunk of sendPendingFullTextDocumentChanges starts.
TakeChanges ==
  /\ Idle
  /\ lockQueue # <<>> /\ ~locked
  /\ pendingChanges' = Excluded
  /\ FlushOrRelease(Head(lockQueue), Sendable, writing)
  /\ UNCHANGED <<editor, pendingOpens, inFlightOpens, synced, timer, server>>

\* triggerPendingChangeDelivery's task.
TimerFires ==
  /\ Idle
  /\ timer
  /\ timer' = FALSE
  /\ lockQueue' = Append(lockQueue, Delayer)
  /\ UNCHANGED <<editor, pendingOpens, pendingChanges, inFlightOpens, synced,
                 tasks, ready, locked, flushing, writing, server>>

\* The server handles the message whose write settles.
ServerHandles(m) ==
  CASE m.kind = "open" -> OnDidOpen(m.doc, m.text)
    [] m.kind = "change" -> OnDidChange(m.doc, m.text, ~Full)
    [] m.kind = "close" -> OnDidClose(m.doc)
    [] OTHER -> UNCHANGED server

Written ==
  /\ Idle
  /\ writing # <<>>
  /\ ServerHandles(Head(writing))
  /\ IF Head(writing).task = Delayer
     THEN FlushOrRelease(Head(lockQueue), flushing, Tail(writing))
     ELSE /\ writing' = Tail(writing)
          /\ tasks' = [tasks EXCEPT ![Head(writing).task].pc = "written"]
          /\ ready' = <<Head(writing).task>>
          /\ UNCHANGED <<lockQueue, locked, flushing>>
  /\ UNCHANGED <<editor, pendingOpens, pendingChanges, inFlightOpens, synced,
                 timer>>
-----------------------------------------------------------------------------
(***************************************************************************)
(* Callbacks of the event loop: the editor and the client's user.          *)
(***************************************************************************)
MayCall == registered /\ Idle /\ Cardinality(Ids) < MaxEvents

Closing(d) == \E i \in Ids : tasks[i].kind = "close" /\ tasks[i].doc = d

\* TextDocumentSnapshot: the text when the document was opened.
Snapshot(d) == [doc |-> d, text |-> text[d], live |-> FALSE]

\* DidOpenTextDocumentFeature.callback.
Open(d) ==
  /\ MayCall
  /\ d \notin open
  /\ config.rapidReopen \/ ~Closing(d)
  /\ open' = open \cup {d}
  /\ IF config.delayOpen /\ d \notin visible
     THEN /\ pendingOpens' = Append(pendingOpens, Snapshot(d))
          /\ UNCHANGED <<tasks, ready, inFlightOpens>>
     ELSE /\ Call("open", d, text[d])
          /\ UNCHANGED pendingOpens
  /\ UNCHANGED <<config, registered, visible, text, pendingChanges, synced,
                 semaphore, writing, server>>

\* Mutant of EditFull: the delayed delivery is not triggered.
EditFullSilently(d) ==
  /\ pendingChanges' = IF d \in ToSet(pendingChanges) THEN pendingChanges
                       ELSE Append(pendingChanges, d)
  /\ UNCHANGED <<tasks, ready, inFlightOpens, timer>>

\* DidChangeTextDocumentFeature.callback for a full and for an incremental
\* registration.
EditFull(d) ==
  /\ pendingChanges' = IF d \in ToSet(pendingChanges) THEN pendingChanges
                       ELSE Append(pendingChanges, d)
  /\ timer' = TRUE
  /\ UNCHANGED <<tasks, ready, inFlightOpens>>

EditIncremental(d) ==
  /\ Call("change", d, text[d] + 1)
  /\ UNCHANGED <<pendingChanges, timer>>

Edit(d) ==
  /\ MayCall
  /\ d \in open
  /\ text[d] < config.maxText
  /\ text' = [text EXCEPT ![d] = @ + 1]
  /\ IF Full THEN EditFull(d) ELSE EditIncremental(d)
  /\ UNCHANGED <<config, registered, open, visible, pendingOpens, synced,
                 lockQueue, locked, flushing, writing, server>>

\* workspace.onDidCloseTextDocument fires both of its listeners: the one
\* register adds for delayed opens forgets the pending open, the close
\* feature sends its notification.
Close(d) ==
  /\ MayCall
  /\ d \in open
  /\ open' = open \ {d}
  /\ pendingOpens' = IF config.delayOpen
                     THEN SelectSeq(pendingOpens, LAMBDA p : p.doc # d)
                     ELSE pendingOpens
  /\ Call("close", d, text[d])
  /\ UNCHANGED <<config, registered, visible, text, pendingChanges, synced,
                 semaphore, writing, server>>

\* The visibleDocuments listeners that register adds for delayed opens: a
\* pending document that gets a tab is opened, one whose tab is closed is
\* forgotten.  Without delayed opens tabs do not matter after register.
Show(d) ==
  LET found == SelectSeq(pendingOpens, LAMBDA p : p.doc = d)
  IN /\ config.delayOpen
     /\ MayCall
     /\ d \in open \ visible
     /\ visible' = visible \cup {d}
     /\ IF found # <<>>
        THEN /\ pendingOpens' = SelectSeq(pendingOpens, LAMBDA p : p.doc # d)
             /\ Call("open", d, TextToSend(found[1]))
        ELSE UNCHANGED <<pendingOpens, tasks, ready, inFlightOpens>>
     /\ UNCHANGED <<config, registered, open, text, pendingChanges, synced,
                    semaphore, writing, server>>

Hide(d) ==
  /\ config.delayOpen
  /\ MayCall
  /\ d \in visible
  /\ visible' = visible \ {d}
  /\ pendingOpens' = SelectSeq(pendingOpens, LAMBDA p : p.doc # d)
  /\ UNCHANGED <<config, registered, open, text, pendingChanges,
                 inFlightOpens, synced, tasks, ready, semaphore, writing,
                 server>>

\* A language feature asks about an open document.
Request(d) ==
  /\ MayCall
  /\ d \in open
  /\ Call("request", d, text[d])
  /\ UNCHANGED <<editor, pendingOpens, pendingChanges, synced, semaphore,
                 writing, server>>

\* DidOpenTextDocumentFeature.register, for the documents that are open: one
\* with a tab is sent and counts as synced at once, the others are pending,
\* as they are and not as a snapshot.  The change feature, which knows how
\* documents are synced, registers after this one if the server's capabilities
\* are static, and before it if the server registers them in that order.
Register ==
  LET sent == SetToSeq(config.preopened \cap visible)
      kept == SetToSeq(config.preopened \ visible)
  IN /\ ~registered
     /\ registered' = TRUE
     /\ tasks' = [i \in DOMAIN sent |-> NewTask("open", sent[i], text[sent[i]],
                                               Nobody)]
     /\ ready' = [i \in DOMAIN sent |-> i]
     /\ \E aware \in BOOLEAN :
          inFlightOpens' = IF Full /\ aware THEN ToSet(sent) ELSE {}
     /\ synced' = ToSet(sent)
     /\ pendingOpens' = [i \in DOMAIN kept |->
                           [doc |-> kept[i], text |-> text[kept[i]],
                            live |-> TRUE]]
     /\ UNCHANGED <<config, open, visible, text, pendingChanges, semaphore,
                    writing, server>>
-----------------------------------------------------------------------------
Step(i) == \/ Drain(i) \/ DropOpen(i) \/ SendOpen(i) \/ Drained(i)
           \/ Lock(i) \/ Send(i) \/ Return(i)
System == (\E i \in Ids : Step(i)) \/ TakeChanges \/ Written \/ TimerFires
Editor == \E d \in config.docs : \/ Open(d) \/ Edit(d) \/ Close(d)
                                 \/ Show(d) \/ Hide(d) \/ Request(d)

Next == Register \/ System \/ Editor

Spec == Init /\ [][Next]_vars
\* The event loop runs what is due: microtasks, immediates, timers, writes.
Fairness == /\ WF_vars(\E i \in Ids : Step(i)) /\ WF_vars(TakeChanges)
            /\ WF_vars(Written) /\ WF_vars(TimerFires)

FairSpec == Spec /\ Fairness
-----------------------------------------------------------------------------
\* The next message the server will handle.
NextMessage(kind) == /\ writing # <<>>
                     /\ Head(writing).kind = kind

\* didOpen arrives only for a document the server does not hold: opens and
\* closes are balanced and the open count is at most one (sendNotification
\* sends in the order of the editor's events).
OpenOnlyWhenClosed ==
  NextMessage("open") => server[Head(writing).doc] = Absent

\* didClose arrives only for a document whose didOpen arrived before.
CloseOnlyWhenOpen ==
  NextMessage("close") => server[Head(writing).doc] # Absent

\* didChange, sent directly or by the delayed delivery, arrives only for a
\* document the server holds; the server ignores any other.
ChangeOnlyWhenOpen ==
  NextMessage("change") => server[Head(writing).doc] # Absent

\* An incremental change meets the text it was computed for, whichever text
\* the open notification carried.
NeverGarbled == \A d \in Docs : server[d] # Garbled

\* A request arrives when the server knows the document at least as the user
\* saw it: pending opens and pending full changes are flushed before it.  With
\* delayed opens two calls drain at once, and one can overtake the other.
RequestSeesLatest ==
  NextMessage("request") /\ ~config.delayOpen => server[Head(writing).doc] >= Head(writing).text

Quiet == /\ registered
         /\ Ids = {} /\ lockQueue = <<>> /\ writing = <<>>
         /\ pendingOpens = <<>> /\ ~timer

\* When the client has nothing left to do the server mirrors the editor: it
\* holds the open documents, with their current texts, and no others.
QuietInSync ==
  Quiet => \A d \in Docs : server[d] = IF d \in open THEN text[d] ELSE Absent

\* The client's _syncedDocuments then names the documents the server holds;
\* unregister relies on it to close them.
SyncedExact == Quiet => synced = {d \in Docs : server[d] # Absent}

\* Every notification fits what the server holds when it arrives: opens for
\* documents it does not hold, closes and changes for those it does, and each
\* incremental change for the text it was computed for.  (With delayed opens a
\* close and a change may arrive for a document that was not opened.)
NotificationsFit ==
  /\ TypeOK /\ OpenOnlyWhenClosed /\ NeverGarbled
  /\ ~config.delayOpen => CloseOnlyWhenOpen /\ ChangeOnlyWhenOpen

\* At rest the server holds the open documents with their texts, and the
\* client's _syncedDocuments names them.
MirrorsAtRest == QuietInSync /\ SyncedExact

\* In full mode every text of a document reaches the server, or a newer one
\* does, unless the document is closed: the delayer sees to it.
EditArrives ==
  \A d \in Docs : \A n \in 0..LastText :
    (Full /\ registered /\ d \in open /\ text[d] = n)
      ~> (server[d] >= n \/ d \notin open)
=============================================================================

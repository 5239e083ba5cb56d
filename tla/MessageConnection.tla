-------------------------- MODULE MessageConnection --------------------------
(***************************************************************************)
(* jsonrpc/src/common/connection.ts: one end of a JSON-RPC connection, as  *)
(* createMessageConnection builds it.                                      *)
(*                                                                         *)
(* The peer and the transport are the environment: the peer sends requests *)
(* (InRequests), notifications (Notes), cancellations, responses and       *)
(* malformed messages in any legal order; the message writer serialises    *)
(* the writes in call order (see Semaphore) and may fail those whose kind  *)
(* is in FailingWrites.  Handlers finish at any time with any outcome.     *)
(* One action is one callback of the event loop with the microtasks that   *)
(* follow from it.                                                         *)
(***************************************************************************)
EXTENDS Integers, Sequences, FiniteSets, SequencesExt

CONSTANTS InRequests,      \* ids of the requests the peer may send
          Notes,           \* the notifications the peer may send
          OutRequests,     \* ids of the requests this end may send
          MaxParallelism,  \* options.maxParallelism, -1 for no limit
          FailingWrites    \* the kinds of messages whose write may fail

Unlimited == -1

ASSUME ParallelismAssumption == MaxParallelism \in {Unlimited} \cup (Nat \ {0})

\* Ids of the two directions and notifications are told apart.
ASSUME DisjointAssumption == /\ InRequests \cap Notes = {}
                             /\ InRequests \cap OutRequests = {}
                             /\ Notes \cap OutRequests = {}

VARIABLES
  state,                  \* ConnectionState
  reading,                \* messageReader.listen has been called
  messageQueue,           \* received messages that are not dispatched
  timer,                  \* the setImmediate of triggerMessageQueue is pending
  inFlight,               \* dispatched messages whose result is awaited
  requestTokens,          \* ids with a cancellation token source
  knownCanceledRequests,  \* ids cancelled before they were dispatched
  task,                   \* what became of each received request and note
  cancelArrived,          \* requests whose $/cancelRequest was received
  cancelled,              \* requests whose handler token is cancelled
  replies,                \* how many responses the peer got for a request
  promise,                \* the promise sendRequest returned
  responsePromises,       \* ids with an entry in responsePromises
  outToken,               \* the caller's cancellation token
  signalled,              \* ids passed to the strategy's sendCancellation
  outbox,                 \* messages handed to messageWriter.write, unsettled
  onWire                  \* requests of this end that reached the peer

inbound == <<messageQueue, timer, inFlight, requestTokens,
             knownCanceledRequests, task, cancelArrived, cancelled, replies>>
outbound == <<promise, responsePromises, outToken, signalled, onWire>>
vars == <<state, reading, inbound, outbound, outbox>>

ConnectionState == {"New", "Listening", "Closed", "Disposed"}

Tasks == InRequests \cup Notes
Message(kind, id) == [kind |-> kind, id |-> id]
InMessages == [kind : {"request", "cancel"}, id : InRequests]
                \cup [kind : {"notification"}, id : Notes]
                \cup [kind : {"response", "invalid"}, id : OutRequests]
OutMessages == [kind : {"result", "error", "undispatched"}, id : InRequests]
                 \cup [kind : {"request", "cancel"}, id : OutRequests]

TaskStatus == {"absent", "queued", "running", "result", "error",
               "done", "lost", "dropped", "unqueued"}

TypeOK == /\ state \in ConnectionState
          /\ reading \in BOOLEAN
          /\ messageQueue \in Seq(InMessages)
          /\ timer \in BOOLEAN
          /\ inFlight \in Nat
          /\ requestTokens \subseteq InRequests
          /\ knownCanceledRequests \subseteq InRequests
          /\ task \in [Tasks -> TaskStatus]
          /\ cancelArrived \subseteq InRequests
          /\ cancelled \subseteq InRequests
          /\ replies \in [InRequests -> Nat]
          /\ promise \in [OutRequests ->
                            {"unsent", "pending", "resolved", "rejected"}]
          /\ responsePromises \subseteq OutRequests
          /\ outToken \in [OutRequests -> {"live", "precancelled", "cancelled"}]
          /\ signalled \subseteq OutRequests
          /\ outbox \in Seq(OutMessages)
          /\ onWire \subseteq OutRequests

Init == /\ state = "New"
        /\ reading = FALSE
        /\ messageQueue = <<>>
        /\ timer = FALSE
        /\ inFlight = 0
        /\ requestTokens = {}
        /\ knownCanceledRequests = {}
        /\ task = [t \in Tasks |-> "absent"]
        /\ cancelArrived = {}
        /\ cancelled = {}
        /\ replies = [r \in InRequests |-> 0]
        /\ promise = [o \in OutRequests |-> "unsent"]
        /\ responsePromises = {}
        /\ outToken = [o \in OutRequests |-> "live"]
        /\ signalled = {}
        /\ outbox = <<>>
        /\ onWire = {}
-----------------------------------------------------------------------------
isDisposed == state = "Disposed"

\* Mutant of Admits: off by one.
AdmitsOneMore(flying) ==
  MaxParallelism = Unlimited \/ flying <= MaxParallelism

\* There is room for one more dispatched message.
Admits(flying) == MaxParallelism = Unlimited \/ flying < MaxParallelism

\* triggerMessageQueue: whether a timer is pending after it.
Triggered(queue, flying, pendingTimer) ==
  pendingTimer \/ (queue # <<>> /\ Admits(flying))

Write(kind, id) == outbox' = Append(outbox, Message(kind, id))

\* addMessageToQueue, then triggerMessageQueue.
Enqueue(message) ==
  /\ messageQueue' = Append(messageQueue, message)
  /\ timer' = Triggered(messageQueue', inFlight, timer)

\* The promise of a request settles once; later settlements are ignored.
Settle(o, outcome) ==
  promise' = [promise EXCEPT ![o] = IF @ = "pending" THEN outcome ELSE @]

\* handleResponse
HandleResponse(o) ==
  IF o \in responsePromises /\ ~isDisposed
  THEN /\ responsePromises' = responsePromises \ {o}
       /\ \E outcome \in {"resolved", "rejected"} : Settle(o, outcome)
  ELSE UNCHANGED <<responsePromises, promise>>

\* handleInvalidMessage: the promise is rejected, its entry stays.
HandleInvalid(o) ==
  /\ IF o \in responsePromises THEN Settle(o, "rejected") ELSE UNCHANGED promise
  /\ UNCHANGED responsePromises

\* Mutant of Land: the slot is freed without triggerMessageQueue.
LandSilently == inFlight' = inFlight - 1 /\ UNCHANGED timer

\* The end of a message that was in flight.
Land == /\ inFlight' = inFlight - 1
        /\ timer' = Triggered(messageQueue, inFlight', timer)
-----------------------------------------------------------------------------
(* Received messages: the callback given to messageReader.listen.          *)

ReceiveTask(t) ==
  /\ reading
  /\ task[t] = "absent"
  /\ task' = [task EXCEPT ![t] = "queued"]
  /\ Enqueue(Message(IF t \in InRequests THEN "request" ELSE "notification", t))
  /\ UNCHANGED <<state, reading, inFlight, requestTokens, cancelArrived,
                 knownCanceledRequests, cancelled, replies, outbound, outbox>>

\* The peer cancels a request it has sent, once.
PeerCancels(r) == /\ reading
                  /\ task[r] # "absent" /\ r \notin cancelArrived
                  /\ cancelArrived' = cancelArrived \cup {r}

\* Mutant of ReceiveCancelUndispatched: the request stays in the queue.
CancelUndispatchedKeepsQueue(r) ==
  /\ PeerCancels(r)
  /\ \E i \in DOMAIN messageQueue : messageQueue[i] = Message("request", r)
  /\ requestTokens' = requestTokens \ {r}
  /\ Write("undispatched", r)
  /\ timer' = Triggered(messageQueue, inFlight, timer)
  /\ UNCHANGED <<state, reading, messageQueue, inFlight, task, outbound,
                 knownCanceledRequests, cancelled, replies>>

\* $/cancelRequest for a queued request that the connection strategy's
\* cancelUndispatched answers: the handler never runs.
ReceiveCancelUndispatched(r) ==
  /\ PeerCancels(r)
  /\ \E i \in DOMAIN messageQueue :
       /\ messageQueue[i] = Message("request", r)
       /\ messageQueue' = RemoveAt(messageQueue, i)
  /\ requestTokens' = requestTokens \ {r}
  /\ task' = [task EXCEPT ![r] = "unqueued"]
  /\ Write("undispatched", r)
  /\ timer' = Triggered(messageQueue', inFlight, timer)
  /\ UNCHANGED <<state, reading, inFlight, knownCanceledRequests, cancelled,
                 replies, outbound>>

\* $/cancelRequest for a running request: its token is cancelled at once.
ReceiveCancelRunning(r) ==
  /\ PeerCancels(r)
  /\ r \in requestTokens
  /\ cancelled' = cancelled \cup {r}
  /\ timer' = Triggered(messageQueue, inFlight, timer)
  /\ UNCHANGED <<state, reading, messageQueue, inFlight, requestTokens, task,
                 knownCanceledRequests, replies, outbound, outbox>>

\* $/cancelRequest for any other request: it is remembered, and queued behind
\* the request so that the memory is cleaned up in its turn.
ReceiveCancelEarly(r) ==
  /\ PeerCancels(r)
  /\ r \notin requestTokens
  /\ knownCanceledRequests' = knownCanceledRequests \cup {r}
  /\ Enqueue(Message("cancel", r))
  /\ UNCHANGED <<state, reading, inFlight, requestTokens, task, cancelled,
                 replies, outbound, outbox>>

\* The peer answers a request that reached it, once.  Without a limit the
\* response takes its turn in the queue.
ReceiveQueued(kind, o) ==
  /\ reading
  /\ o \in onWire
  /\ kind = "response" => MaxParallelism = Unlimited
  /\ onWire' = onWire \ {o}
  /\ Enqueue(Message(kind, o))
  /\ UNCHANGED <<state, reading, inFlight, requestTokens, cancelArrived, task,
                 knownCanceledRequests, cancelled, replies, promise,
                 responsePromises, outToken, signalled, outbox>>

\* With limited parallelism a response is handled in the callback itself.
ReceiveResponseDirectly(o) ==
  /\ reading
  /\ o \in onWire
  /\ MaxParallelism # Unlimited
  /\ onWire' = onWire \ {o}
  /\ HandleResponse(o)
  /\ timer' = Triggered(messageQueue, inFlight, timer)
  /\ UNCHANGED <<state, reading, messageQueue, inFlight, requestTokens, task,
                 knownCanceledRequests, cancelArrived, cancelled, replies,
                 outToken, signalled, outbox>>

Receive == \/ \E t \in Tasks : ReceiveTask(t)
           \/ \E r \in InRequests : \/ ReceiveCancelUndispatched(r)
                                    \/ ReceiveCancelRunning(r)
                                    \/ ReceiveCancelEarly(r)
           \/ \E o \in OutRequests : \/ ReceiveQueued("response", o)
                                     \/ ReceiveQueued("invalid", o)
                                     \/ ReceiveResponseDirectly(o)
-----------------------------------------------------------------------------
(* The setImmediate callback of triggerMessageQueue.                       *)

\* Its early returns: nothing is queued, or the limit has been reached.
TimerIdle == /\ timer
             /\ messageQueue = <<>> \/ ~Admits(inFlight)
             /\ timer' = FALSE
             /\ UNCHANGED <<state, reading, messageQueue, inFlight,
                            requestTokens, knownCanceledRequests, task,
                            cancelArrived, cancelled, replies, outbound, outbox>>

\* The message at the head of the queue is taken off it.
Take(kind, id) == /\ timer
                  /\ messageQueue # <<>> /\ Admits(inFlight)
                  /\ Head(messageQueue) = Message(kind, id)
                  /\ messageQueue' = Tail(messageQueue)
                  /\ UNCHANGED <<state, reading, cancelArrived, replies>>

\* Mutant of EndTurn: the callback does not call triggerMessageQueue again.
EndTurnWithoutTrigger(flying) == inFlight' = flying /\ timer' = FALSE

\* flying messages are in flight when the callback is through.
EndTurn(flying) == /\ inFlight' = flying
                   /\ timer' = Triggered(messageQueue', flying, FALSE)

\* handleRequest with a handler: it runs, with a token that is already
\* cancelled when the cancellation overtook the request.
DispatchRequest(r) ==
  /\ Take("request", r)
  /\ ~isDisposed
  /\ task' = [task EXCEPT ![r] = "running"]
  /\ requestTokens' = requestTokens \cup {r}
  /\ cancelled' = IF r \in knownCanceledRequests THEN cancelled \cup {r}
                  ELSE cancelled
  /\ EndTurn(inFlight + 1)
  /\ UNCHANGED <<knownCanceledRequests, outbound, outbox>>

\* Mutant of DispatchRefused: the promise of replyError is not returned.
DispatchRefusedUncounted(r) ==
  /\ Take("request", r)
  /\ ~isDisposed
  /\ task' = [task EXCEPT ![r] = "error"]
  /\ Write("error", r)
  /\ EndTurn(inFlight)
  /\ UNCHANGED <<requestTokens, cancelled, knownCanceledRequests, outbound>>

\* handleRequest without a handler, or with parameters the handler's type
\* refuses: an error is written at once.
DispatchRefused(r) ==
  /\ Take("request", r)
  /\ ~isDisposed
  /\ task' = [task EXCEPT ![r] = "error"]
  /\ Write("error", r)
  /\ EndTurn(inFlight + 1)
  /\ UNCHANGED <<requestTokens, cancelled, knownCanceledRequests, outbound>>

\* handleNotification, up to the first await of the handler.
DispatchNotification(n) ==
  /\ Take("notification", n)
  /\ ~isDisposed
  /\ task' = [task EXCEPT ![n] = "running"]
  /\ EndTurn(inFlight + 1)
  /\ UNCHANGED <<requestTokens, cancelled, knownCanceledRequests, outbound, outbox>>

\* handleRequest and handleNotification of a disposed connection.
DispatchDropped(kind, t) ==
  /\ Take(kind, t)
  /\ isDisposed
  /\ task' = [task EXCEPT ![t] = "dropped"]
  /\ EndTurn(inFlight)
  /\ UNCHANGED <<requestTokens, cancelled, knownCanceledRequests, outbound, outbox>>

\* handleNotification of $/cancelRequest: forget the cancellation.
DispatchCancel(r) ==
  /\ Take("cancel", r)
  /\ knownCanceledRequests' = IF isDisposed THEN knownCanceledRequests
                              ELSE knownCanceledRequests \ {r}
  /\ EndTurn(inFlight)
  /\ UNCHANGED <<requestTokens, task, cancelled, outbound, outbox>>

DispatchResponse(kind, o) ==
  /\ Take(kind, o)
  /\ IF kind = "invalid" THEN HandleInvalid(o) ELSE HandleResponse(o)
  /\ EndTurn(inFlight)
  /\ UNCHANGED <<requestTokens, task, cancelled, knownCanceledRequests,
                 outToken, signalled, onWire, outbox>>

Dispatch == \/ TimerIdle
            \/ \E r \in InRequests : \/ DispatchRequest(r)
                                     \/ DispatchRefused(r)
                                     \/ DispatchDropped("request", r)
                                     \/ DispatchCancel(r)
            \/ \E n \in Notes : \/ DispatchNotification(n)
                                \/ DispatchDropped("notification", n)
            \/ \E o \in OutRequests, kind \in {"response", "invalid"} :
                 DispatchResponse(kind, o)
-----------------------------------------------------------------------------
(* Handlers.                                                               *)

\* A request handler returns or throws: reply.
RequestHandled(r, kind) ==
  /\ task[r] = "running"
  /\ task' = [task EXCEPT ![r] = kind]
  /\ Write(kind, r)
  /\ UNCHANGED <<state, reading, messageQueue, timer, inFlight, requestTokens,
                 knownCanceledRequests, cancelArrived, cancelled, replies,
                 outbound>>

\* A notification handler settles; what it throws is logged.
NotificationHandled(n) ==
  /\ task[n] = "running"
  /\ task' = [task EXCEPT ![n] = "done"]
  /\ Land
  /\ UNCHANGED <<state, reading, messageQueue, requestTokens, cancelArrived,
                 knownCanceledRequests, cancelled, replies, outbound, outbox>>
-----------------------------------------------------------------------------
(* The promise of messageWriter.write settles; the writes settle in order. *)

WriteSettles(kind, id) == outbox # <<>> /\ Head(outbox) = Message(kind, id)

Delivered(r) == replies' = [replies EXCEPT ![r] = @ + 1]

\* handleRequest ends: the token goes, and the dispatcher is triggered.
ReplyWritten(r, kind) ==
  /\ WriteSettles(kind, r)
  /\ Delivered(r)
  /\ outbox' = Tail(outbox)
  /\ task' = [task EXCEPT ![r] = "done"]
  /\ requestTokens' = requestTokens \ {r}
  /\ Land
  /\ UNCHANGED <<state, reading, messageQueue, knownCanceledRequests,
                 cancelArrived, cancelled, outbound>>

\* Mutant of ResultNotWritten: no InternalError takes the result's place.
ResultGivenUp(r) ==
  /\ WriteSettles("result", r)
  /\ "result" \in FailingWrites
  /\ outbox' = Tail(outbox)
  /\ task' = [task EXCEPT ![r] = "done"]
  /\ requestTokens' = requestTokens \ {r}
  /\ Land
  /\ UNCHANGED <<state, reading, messageQueue, knownCanceledRequests,
                 cancelArrived, cancelled, replies, outbound>>

\* The result cannot be written: handleRequest catches that and writes an
\* InternalError instead.
ResultNotWritten(r) ==
  /\ WriteSettles("result", r)
  /\ "result" \in FailingWrites
  /\ outbox' = Append(Tail(outbox), Message("error", r))
  /\ task' = [task EXCEPT ![r] = "error"]
  /\ UNCHANGED <<state, reading, messageQueue, timer, inFlight, requestTokens,
                 knownCanceledRequests, cancelArrived, cancelled, replies,
                 outbound>>

\* The error cannot be written either: handleRequest rejects, which the
\* dispatcher logs.  Neither inFlight nor the timer is touched.
ErrorNotWritten(r) ==
  /\ WriteSettles("error", r)
  /\ "error" \in FailingWrites
  /\ outbox' = Tail(outbox)
  /\ task' = [task EXCEPT ![r] = "lost"]
  /\ requestTokens' = requestTokens \ {r}
  /\ UNCHANGED <<state, reading, messageQueue, timer, inFlight, cancelArrived,
                 knownCanceledRequests, cancelled, replies, outbound>>

\* The response cancelUndispatched gave is written; a failure is logged.
UndispatchedWritten(r) ==
  /\ WriteSettles("undispatched", r)
  /\ outbox' = Tail(outbox)
  /\ Delivered(r) \/ ("undispatched" \in FailingWrites /\ UNCHANGED replies)
  /\ UNCHANGED <<state, reading, messageQueue, timer, inFlight, requestTokens,
                 knownCanceledRequests, task, cancelArrived, cancelled, outbound>>

CanSend == state \notin {"Closed", "Disposed"}

\* sendRequest goes on after its write; a token that was cancelled before the
\* call is signalled now, and throwIfClosedOrDisposed rejects the request.
RequestWritten(o) ==
  /\ WriteSettles("request", o)
  /\ onWire' = onWire \cup {o}
  /\ IF outToken[o] = "precancelled"
     THEN /\ signalled' = signalled \cup {o}
          /\ outbox' = IF CanSend
                       THEN Append(Tail(outbox), Message("cancel", o))
                       ELSE Tail(outbox)
          /\ responsePromises' = IF CanSend THEN responsePromises
                                 ELSE responsePromises \ {o}
          /\ IF CanSend THEN UNCHANGED promise ELSE Settle(o, "rejected")
     ELSE /\ outbox' = Tail(outbox)
          /\ UNCHANGED <<signalled, responsePromises, promise>>
  /\ UNCHANGED <<state, reading, inbound, outToken>>

\* Mutant of RequestNotWritten: the entry goes before anyone rejects.
RequestForgotten(o) ==
  /\ WriteSettles("request", o)
  /\ "request" \in FailingWrites
  /\ outbox' = Tail(outbox)
  /\ responsePromises' = responsePromises \ {o}
  /\ UNCHANGED <<state, reading, inbound, promise, outToken, signalled, onWire>>

\* sendRequest after a failed write: the entry goes, the promise is rejected.
RequestNotWritten(o) ==
  /\ WriteSettles("request", o)
  /\ "request" \in FailingWrites
  /\ outbox' = Tail(outbox)
  /\ responsePromises' = responsePromises \ {o}
  /\ Settle(o, "rejected")
  /\ UNCHANGED <<state, reading, inbound, outToken, signalled, onWire>>

\* sendCancellation only logs a failure.
CancelWritten(o) == /\ WriteSettles("cancel", o)
                    /\ outbox' = Tail(outbox)
                    /\ UNCHANGED <<state, reading, inbound, outbound>>

Writer == \/ \E r \in InRequests : \/ ReplyWritten(r, "result")
                                   \/ ReplyWritten(r, "error")
                                   \/ ResultNotWritten(r)
                                   \/ ErrorNotWritten(r)
                                   \/ UndispatchedWritten(r)
          \/ \E o \in OutRequests : \/ RequestWritten(o)
                                    \/ RequestNotWritten(o)
                                    \/ CancelWritten(o)
-----------------------------------------------------------------------------
(* The owner of the connection.                                            *)

Listen == /\ state = "New"
          /\ state' = "Listening"
          /\ reading' = TRUE
          /\ UNCHANGED <<inbound, outbound, outbox>>

SendRequest(o) == /\ state = "Listening"
                  /\ promise[o] = "unsent"
                  /\ promise' = [promise EXCEPT ![o] = "pending"]
                  /\ responsePromises' = responsePromises \cup {o}
                  /\ Write("request", o)
                  /\ UNCHANGED <<state, reading, inbound, outToken, signalled,
                                 onWire>>

\* The caller cancels before sendRequest.
CancelBefore(o) == /\ outToken[o] = "live" /\ promise[o] = "unsent"
                   /\ outToken' = [outToken EXCEPT ![o] = "precancelled"]
                   /\ UNCHANGED <<state, reading, inbound, promise,
                                  responsePromises, signalled, onWire, outbox>>

\* The caller cancels a pending request; sendNotification throws, and the
\* emitter swallows that, unless the connection is open.
CancelPending(o) ==
  /\ outToken[o] = "live" /\ promise[o] = "pending"
  /\ outToken' = [outToken EXCEPT ![o] = "cancelled"]
  /\ signalled' = signalled \cup {o}
  /\ IF CanSend THEN Write("cancel", o) ELSE UNCHANGED outbox
  /\ UNCHANGED <<state, reading, inbound, promise, responsePromises, onWire>>

\* closeHandler: the reader or the writer closes.
Close == /\ state \in {"New", "Listening"}
         /\ state' = "Closed"
         /\ UNCHANGED <<reading, inbound, outbound, outbox>>

\* dispose: every pending promise is rejected, the maps and the queue are
\* replaced.  Running handlers, the timer and inFlight are left alone.
Dispose ==
  /\ ~isDisposed
  /\ state' = "Disposed"
  /\ promise' = [o \in OutRequests |->
                   IF o \in responsePromises /\ promise[o] = "pending"
                   THEN "rejected" ELSE promise[o]]
  /\ responsePromises' = {}
  /\ requestTokens' = {}
  /\ knownCanceledRequests' = {}
  /\ messageQueue' = <<>>
  /\ task' = [t \in Tasks |-> IF task[t] = "queued" THEN "dropped" ELSE task[t]]
  /\ UNCHANGED <<reading, timer, inFlight, cancelArrived, cancelled, replies,
                 outToken, signalled, onWire, outbox>>

Owner == \/ Listen
         \/ Close
         \/ Dispose
         \/ \E o \in OutRequests : SendRequest(o) \/ CancelBefore(o)
                                                  \/ CancelPending(o)

Handlers == \/ \E r \in InRequests, kind \in {"result", "error"} :
                 RequestHandled(r, kind)
            \/ \E n \in Notes : NotificationHandled(n)

Next == Receive \/ Dispatch \/ Handlers \/ Writer \/ Owner

Spec == Init /\ [][Next]_vars

\* Node runs every accepted immediate and settles every write, and handlers
\* return; nothing forces the peer or the owner.
Fairness ==
  /\ WF_vars(Dispatch)
  /\ WF_vars(Writer)
  /\ \A n \in Notes : WF_vars(NotificationHandled(n))
  /\ \A r \in InRequests :
       WF_vars(\E kind \in {"result", "error"} : RequestHandled(r, kind))

FairSpec == Spec /\ Fairness
-----------------------------------------------------------------------------
(* Properties.                                                             *)

\* No lost wakeup: a message that could be dispatched has a timer coming.
\* Every path that frees a slot or queues a message has to trigger.
NoLostWakeup == messageQueue # <<>> /\ Admits(inFlight) => timer

\* The handlers in progress and the requests whose error reply was lost.
Flying == {t \in Tasks : task[t] \in {"running", "result", "error", "lost"}}

\* inFlight counts the handlers in progress and, for ever, the requests whose
\* error reply could not be written; it respects the limit.
InFlightExact ==
  /\ inFlight = Cardinality(Flying)
  /\ MaxParallelism # Unlimited => inFlight <= MaxParallelism

\* A cancellation is never lost between the queue and the token table: a
\* handler whose request was cancelled, at any moment, sees a cancelled token.
CancelReachesHandler ==
  ~isDisposed =>
    \A r \in cancelArrived : task[r] = "running" => r \in cancelled

\* knownCanceledRequests remembers exactly the cancellations still queued:
\* nothing stays behind to cancel a later request, nothing is forgotten early.
NoStaleCancel ==
  ~isDisposed =>
    knownCanceledRequests = {r \in InRequests :
                               Contains(messageQueue, Message("cancel", r))}

\* A handler in progress can be cancelled, a finished one leaves no token.
TokensMatch ==
  LET with(statuses) == {r \in InRequests : task[r] \in statuses}
  IN  IF isDisposed THEN requestTokens = {}
      ELSE /\ with({"running", "result"}) \subseteq requestTokens
           /\ requestTokens \subseteq with({"running", "result", "error"})

\* Whatever fails, is cancelled or is disposed: the peer never gets a second
\* response to a request.
AtMostOneReply == \A r \in InRequests : replies[r] <= 1

\* A pending promise is always reachable through responsePromises, so that a
\* response, a failed write or dispose settles it; after dispose none is left.
NoOrphanPromise ==
  /\ \A o \in OutRequests : promise[o] = "pending" => o \in responsePromises
  /\ isDisposed => responsePromises = {}

\* $/cancelRequest never overtakes the request it cancels, not even when the
\* token was cancelled before the request was sent.
CancelNeverFirst ==
  \A i, j \in DOMAIN outbox :
    outbox[i].kind = "cancel" /\ outbox[j] = Message("request", outbox[i].id)
      => j < i

\* A cancellation reaches the handler it is meant for and no other, whenever
\* it arrives; this end's follow the requests they cancel; and no request gets
\* two responses.
CancelsAndRepliesExact ==
  /\ CancelReachesHandler /\ NoStaleCancel /\ TokensMatch /\ CancelNeverFirst
  /\ AtMostOneReply

\* Every request that is received gets its response unless the connection is
\* disposed of or an error reply cannot be written, to it or to another request:
\* that leaves its own request without one and, with a limit, a slot taken for
\* ever.  The limit itself, a failed write of a result and a cancellation leave
\* none without one.
RequestsAnswered ==
  \A r \in InRequests :
    task[r] = "queued"
      ~> (replies[r] = 1 \/ isDisposed \/ \E q \in InRequests : task[q] = "lost")

\* A response that was received settles the promise of its request.
ResponsesSettle ==
  \A o \in OutRequests :
    (promise[o] = "pending" /\ Contains(messageQueue, Message("response", o)))
      ~> promise[o] # "pending"

\* The comment on CancellationSenderStrategy.cleanup (connection.ts:434):
\* once it has been called, no cancellation is sent any more for the id.
NoCancelAfterCleanup ==
  [][\A o \in signalled' \ signalled : promise[o] = "pending"]_vars
=============================================================================

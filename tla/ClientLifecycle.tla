--------------------------- MODULE ClientLifecycle ---------------------------
(***************************************************************************)
(* client/src/common/client.ts: start, stop and restart of a language      *)
(* client (BaseLanguageClient), whose server may die at any time.          *)
(*                                                                         *)
(* Each run of start() is an attempt; it owns the promise start() returns  *)
(* and the connection it creates.  An action runs a callback of the event  *)
(* loop up to the awaits of the coroutines it enters: start (in            *)
(* createConnection, the initialize request and the initialized            *)
(* notification), shutdown, and handleConnectionClosed.  Rejections that   *)
(* dispose() causes are microtasks: nothing else runs before them.         *)
(***************************************************************************)
EXTENDS Naturals, FiniteSets

CONSTANTS MaxStarts,  \* bound: attempts to start
          Settings    \* the sets of circumstances to consider

(***************************************************************************)
(* Circumstances a behaviour may admit.                                    *)
(*   asyncClosed  errorHandler.closed() is asynchronous                    *)
(*   retry        initializationFailedHandler may ask to initialize again  *)
(*   stopFails    a shutdown may fail: the server ignores the request or   *)
(*                refuses it, or exit cannot be written                    *)
(*   lateClose    a connection that a failed shutdown has left open may    *)
(*                close when the client was started again                  *)
(*   earlyStop    stop() may be called before start() has resolved         *)
(*   earlyCrash   the server may die while "initialized" is written        *)
(***************************************************************************)
Circumstances == {"asyncClosed", "retry", "stopFails", "lateClose",
                  "earlyStop", "earlyCrash"}

ASSUME LifecycleAssumption == /\ MaxStarts \in Nat \ {0}
                              /\ Settings \subseteq SUBSET Circumstances

VARIABLES
  setting,     \* the circumstances of this behaviour, which do not change
  state,       \* _state
  disposed,    \* _disposed
  onStart,     \* _onStart: the attempt whose promise it is, or None
  connection,  \* _connection: the attempt that created it, or None
  pc,          \* where the coroutine of each attempt is
  promise,     \* the promise of each attempt
  conn,        \* the connection of each attempt
  retried,     \* attempts that initialize again, detached from start()
  stopping,    \* connections whose shutdown is under way
  left,        \* connections that a failed shutdown has left open
  deciding,    \* connections closed, errorHandler.closed() not settled
  hooked       \* attempts whose features are initialized and not cleared

vars == <<setting, state, disposed, onStart, connection, pc, promise, conn,
          retried, stopping, left, deciding, hooked>>

Attempts == 1..MaxStarts
None == 0
ClientState == {"Initial", "Starting", "StartFailed", "Running", "Stopping",
                "Stopped"}

TypeOK ==
  /\ setting \in Settings
  /\ state \in ClientState
  /\ disposed \in BOOLEAN
  /\ onStart \in Attempts \cup {None}
  /\ connection \in Attempts \cup {None}
  /\ pc \in [Attempts -> {"idle", "creating", "initializing", "notifying",
                          "done", "failed"}]
  /\ promise \in [Attempts -> {"none", "pending", "resolved", "rejected"}]
  /\ conn \in [Attempts -> {"none", "open", "closed", "disposed"}]
  /\ retried \subseteq Attempts
  /\ stopping \subseteq Attempts
  /\ left \subseteq Attempts
  /\ deciding \subseteq Attempts
  /\ hooked \subseteq Attempts
  /\ \A a \in Attempts :
       /\ pc[a] \in {"idle", "creating"} => conn[a] = "none"
       /\ promise[a] = "pending"
            => pc[a] \in {"creating", "initializing", "notifying"}

Init == /\ setting \in Settings
        /\ state = "Initial"
        /\ disposed = FALSE
        /\ onStart = None
        /\ connection = None
        /\ pc = [a \in Attempts |-> "idle"]
        /\ promise = [a \in Attempts |-> "none"]
        /\ conn = [a \in Attempts |-> "none"]
        /\ retried = {}
        /\ stopping = {}
        /\ left = {}
        /\ deciding = {}
        /\ hooked = {}
-----------------------------------------------------------------------------
\* Rejections that dispose() has caused and that are handled first.
InitializeRejected(a) == pc[a] = "initializing" /\ conn[a] = "disposed"
ShutdownRejected(c) == c \in stopping /\ conn[c] = "disposed"
Quiesced == \A a \in Attempts : ~InitializeRejected(a) /\ ~ShutdownRejected(a)

Fresh == {a \in Attempts : pc[a] = "idle" /\ \A b \in 1..a - 1 : pc[b] # "idle"}

\* The features, listeners and collections of the client are cleared.
CleanUp == hooked' = {}

\* initializeFeatures, and the hooks into the editor beside it.
InitializeFeatures(a) == hooked' = hooked \cup {a}

(***************************************************************************)
(* start.                                                                  *)
(***************************************************************************)
StartBody(a) == /\ a \in Fresh
                /\ onStart' = a
                /\ state' = "Starting"
                /\ pc' = [pc EXCEPT ![a] = "creating"]
                /\ promise' = [promise EXCEPT ![a] = "pending"]

\* Mutant of Start: the promise of a start under way is not looked at.
StartAgain ==
  /\ Quiesced
  /\ ~disposed
  /\ state # "Stopping"
  /\ \E a \in Fresh : StartBody(a)
  /\ UNCHANGED <<setting, disposed, connection, conn, retried, stopping,
                 left, deciding, hooked>>

\* The user calls start(), or sends a first request; in the other cases
\* start() throws or returns the promise it has.
Start ==
  /\ Quiesced
  /\ ~disposed
  /\ state # "Stopping"
  /\ onStart = None
  /\ \E a \in Fresh : StartBody(a)
  /\ UNCHANGED <<setting, disposed, connection, conn, retried, stopping,
                 left, deciding, hooked>>

\* createMessageTransports succeeds; initialize is sent.
Connect(a) ==
  /\ Quiesced
  /\ pc[a] = "creating"
  /\ connection' = a
  /\ conn' = [conn EXCEPT ![a] = "open"]
  /\ pc' = [pc EXCEPT ![a] = "initializing"]
  /\ UNCHANGED <<setting, state, disposed, onStart, promise, retried, stopping,
                 left, deciding, hooked>>

\* The catch of start.
ConnectFails(a) ==
  /\ Quiesced
  /\ pc[a] = "creating"
  /\ pc' = [pc EXCEPT ![a] = "failed"]
  /\ state' = "StartFailed"
  /\ promise' = [promise EXCEPT ![a] = "rejected"]
  /\ UNCHANGED <<setting, disposed, onStart, connection, conn, retried,
                 stopping, left, deciding, hooked>>

\* doInitialize: the server answers; the client is running before the
\* initialized notification is written.
Initialized(a) ==
  /\ Quiesced
  /\ pc[a] = "initializing"
  /\ conn[a] = "open"
  /\ state' = "Running"
  /\ pc' = [pc EXCEPT ![a] = "notifying"]
  /\ UNCHANGED <<setting, disposed, onStart, connection, promise, conn,
                 retried, stopping, left, deciding, hooked>>

\* The notification is written: the features are initialized, start resolves.
Notified(a) ==
  /\ Quiesced
  /\ pc[a] = "notifying"
  /\ pc' = [pc EXCEPT ![a] = "done"]
  /\ InitializeFeatures(a)
  /\ promise' = [promise EXCEPT
                   ![a] = IF a \in retried THEN @ ELSE "resolved"]
  /\ UNCHANGED <<setting, state, disposed, onStart, connection, conn, retried,
                 stopping, left, deciding>>

(***************************************************************************)
(* The catch of doInitialize: initialize again on the same connection, or  *)
(* stop(), which throws unless the client is running.  The error then      *)
(* reaches the catch of start, unless this is a retry already.             *)
(***************************************************************************)
InitializeCatch(a, again) ==
  LET stops == ~again /\ state = "Running" /\ connection # None
  IN /\ again => "retry" \in setting
     /\ pc' = [pc EXCEPT ![a] = IF again THEN "initializing" ELSE "failed"]
     /\ retried' = IF again THEN retried \cup {a} ELSE retried
     /\ stopping' = IF stops THEN stopping \cup {connection} ELSE stopping
     /\ IF stops THEN CleanUp ELSE UNCHANGED hooked
     /\ IF a \in retried
        THEN /\ state' = IF stops THEN "Stopping" ELSE state
             /\ UNCHANGED promise
        ELSE /\ state' = "StartFailed"
             /\ promise' = [promise EXCEPT ![a] = "rejected"]
     /\ UNCHANGED <<setting, disposed, onStart, connection, conn, left, deciding>>

\* The server answers initialize with an error.
InitializeFails(a) ==
  /\ Quiesced
  /\ pc[a] = "initializing"
  /\ conn[a] = "open"
  /\ \E again \in BOOLEAN : InitializeCatch(a, again)

\* The connection was disposed of while initialize was pending.  Asking again
\* on it would fail at once and ask the handler again: it is assumed to give up.
InitializeAborted(a) ==
  /\ InitializeRejected(a)
  /\ InitializeCatch(a, FALSE)

\* The initialized notification cannot be written.
NotifyFails(a) ==
  /\ Quiesced
  /\ pc[a] = "notifying"
  /\ conn[a] # "open"
  /\ InitializeCatch(a, FALSE)
-----------------------------------------------------------------------------
(***************************************************************************)
(* shutdown.                                                               *)
(***************************************************************************)
CanStop == state = "Running" /\ connection # None

StopBody == /\ state' = "Stopping"
            /\ stopping' = stopping \cup {connection}
            /\ CleanUp
            /\ UNCHANGED <<setting, onStart, connection, pc, promise, conn,
                           retried, left, deciding>>

StopAllowed ==
  Quiesced /\ ("earlyStop" \in setting \/ \A a \in Attempts : pc[a] # "notifying")

\* The user calls stop(); it has no effect, or throws, in other states.
Stop == /\ StopAllowed
        /\ CanStop
        /\ StopBody
        /\ UNCHANGED disposed

\* dispose(): the client counts as disposed even if stop() throws.
Dispose == /\ StopAllowed
           /\ ~disposed
           /\ disposed' = TRUE
           /\ IF CanStop THEN StopBody
              ELSE UNCHANGED <<setting, state, onStart, connection, pc, promise,
                               conn, retried, stopping, left, deciding, hooked>>

\* Mutant of StopFinally: the promise of the last start survives.
StopFinallyKeepsStart(c) ==
  /\ stopping' = stopping \ {c}
  /\ state' = "Stopped"
  /\ connection' = None
  /\ UNCHANGED <<setting, disposed, onStart, pc, promise, retried, deciding,
                 hooked>>

\* The finally of shutdown.
StopFinally(c) ==
  /\ stopping' = stopping \ {c}
  /\ state' = "Stopped"
  /\ onStart' = None
  /\ connection' = None
  /\ UNCHANGED <<setting, disposed, pc, promise, retried, deciding, hooked>>

MayFail(c) == \/ conn[c] = "closed"
              \/ conn[c] = "open" /\ "stopFails" \in setting

\* Mutant of ShutdownFails: the state of the client is left alone.
ShutdownFailsSilently(c) ==
  /\ Quiesced
  /\ c \in stopping
  /\ MayFail(c)
  /\ stopping' = stopping \ {c}
  /\ left' = IF conn[c] = "open" THEN left \cup {c} ELSE left
  /\ UNCHANGED <<setting, state, disposed, onStart, connection, conn, pc,
                 promise, retried, deciding, hooked>>

\* The server answers shutdown and exits; the connection is disposed of.  What
\* was written before the shutdown request has been written by then.
ShutdownDone(c) ==
  /\ Quiesced
  /\ c \in stopping
  /\ pc[c] # "notifying"
  /\ conn[c] = "open"
  /\ conn' = [conn EXCEPT ![c] = "disposed"]
  /\ StopFinally(c)
  /\ UNCHANGED left

\* The timeout wins the race, the server answers shutdown with an error, or
\* exit is not written: the connection stays as it is, with its handlers.
ShutdownFails(c) ==
  /\ Quiesced
  /\ c \in stopping
  /\ MayFail(c)
  /\ left' = IF conn[c] = "open" THEN left \cup {c} ELSE left
  /\ StopFinally(c)
  /\ UNCHANGED conn

\* The connection was disposed of: the promise of shutdown is rejected at once.
ShutdownAborted(c) ==
  /\ ShutdownRejected(c)
  /\ StopFinally(c)
  /\ UNCHANGED <<conn, left>>
-----------------------------------------------------------------------------
DoNotRestart ==
  /\ connection' = None
  /\ CleanUp
  /\ state' = IF state = "Starting" THEN "StartFailed" ELSE "Stopped"
  /\ onStart' = None
  /\ UNCHANGED <<pc, promise>>

\* start() throws if the client was disposed of in the meantime.
Restart ==
  /\ connection' = None
  /\ CleanUp
  /\ IF disposed
     THEN state' = "Initial" /\ onStart' = None /\ UNCHANGED <<pc, promise>>
     ELSE \E a \in Fresh : StartBody(a)

\* What the close handler disposes of is the client's current connection,
\* whichever connection was closed.
ClosedOrDisposed(c) ==
  [a \in Attempts |-> CASE a = connection -> "disposed"
                        [] a = c /\ a # connection -> "closed"
                        [] OTHER -> conn[a]]

MayDie(c) == /\ conn[c] = "open"
             /\ pc[c] = "notifying" => "earlyCrash" \in setting
             /\ c \in left /\ state # "Stopped" => "lateClose" \in setting

\* A stopped client takes no notice.
CloseIgnored(c) ==
  /\ Quiesced
  /\ MayDie(c)
  /\ state = "Stopped"
  /\ conn' = [conn EXCEPT ![c] = "closed"]
  /\ UNCHANGED <<setting, state, disposed, onStart, connection, pc, promise,
                 retried, stopping, left, deciding, hooked>>

CloseWhileStopping(c) ==
  /\ Quiesced
  /\ MayDie(c)
  /\ state = "Stopping"
  /\ conn' = ClosedOrDisposed(c)
  /\ DoNotRestart
  /\ UNCHANGED <<setting, disposed, retried, stopping, left, deciding>>

\* errorHandler.closed() answers at once, as the default handler does.
CloseNow(c) ==
  /\ Quiesced
  /\ MayDie(c)
  /\ state \notin {"Stopped", "Stopping"}
  /\ "asyncClosed" \notin setting
  /\ conn' = ClosedOrDisposed(c)
  /\ DoNotRestart \/ Restart
  /\ UNCHANGED <<setting, disposed, retried, stopping, left, deciding>>

CloseLater(c) ==
  /\ Quiesced
  /\ MayDie(c)
  /\ state \notin {"Stopped", "Stopping"}
  /\ "asyncClosed" \in setting
  /\ conn' = ClosedOrDisposed(c)
  /\ deciding' = deciding \cup {c}
  /\ UNCHANGED <<setting, state, disposed, onStart, connection, pc, promise,
                 retried, stopping, left, hooked>>

\* errorHandler.closed() settles; the state is not looked at again.
Decide(c) ==
  /\ Quiesced
  /\ c \in deciding
  /\ deciding' = deciding \ {c}
  /\ DoNotRestart \/ Restart
  /\ UNCHANGED <<setting, disposed, conn, retried, stopping, left>>
-----------------------------------------------------------------------------
Coroutines(a) ==
  \/ Connect(a) \/ ConnectFails(a)
  \/ Initialized(a) \/ InitializeFails(a) \/ InitializeAborted(a)
  \/ Notified(a) \/ NotifyFails(a)
  \/ ShutdownDone(a) \/ ShutdownFails(a) \/ ShutdownAborted(a)
  \/ Decide(a)
ServerDies(c) == \/ CloseIgnored(c) \/ CloseWhileStopping(c)
                 \/ CloseNow(c) \/ CloseLater(c)

Next == \/ Start \/ Stop \/ Dispose
        \/ \E a \in Attempts : Coroutines(a) \/ ServerDies(a)

Spec == Init /\ [][Next]_vars
\* Transports are created or fail, requests are answered or fail, handlers
\* settle.
Fairness == \A a \in Attempts : WF_vars(Coroutines(a))

FairSpec == Spec /\ Fairness
-----------------------------------------------------------------------------
\* A client that says it is running can be used: sendRequest finds an open
\* connection, and start(), which it awaits, was not rejected.
RunningUsable ==
  (Quiesced /\ state = "Running")
    => /\ connection # None /\ conn[connection] = "open"
       /\ onStart # None /\ promise[onStart] # "rejected"

\* No handler decides late, no server dies before "initialized" is written to
\* it, and no connection that a failed shutdown has left open closes when the
\* client was started again.
Orderly == setting \subseteq {"earlyStop", "retry", "stopFails"}

\* Only a late decision, a late close, a retried initialize or a crash before
\* "initialized" is written can make it unusable: other crashes do not, nor do
\* stops, however they end and whenever they come.
RunningUsableWhen == setting \subseteq {"earlyStop", "stopFails"} => RunningUsable

\* start() does not answer that the client was started when it is not: the
\* promise it returns again and again is forgotten whenever the client stops.
StartedRuns ==
  (Orderly /\ onStart # None /\ promise[onStart] = "resolved")
    => state \in {"Running", "Stopping"}

\* Features are initialized for the connection in use and for no other, and
\* only on a running client: cleanUp, which shutdown and a close call, took
\* away what earlier starts had hooked.
FeaturesMatch ==
  Quiesced => \A a \in hooked : state = "Running" /\ connection = a

\* That holds as long as neither a stop nor a crash comes between the state
\* change to Running and the features' initialization.
FeaturesMatchWhen == setting \subseteq {"retry", "stopFails"} => FeaturesMatch

\* Over all starts and restarts at most one server is connected, beside those
\* whose shutdown has failed: these are never disposed of.
OneServer ==
  Orderly => Cardinality({a \in Attempts : conn[a] = "open"} \ left) <= 1

\* A client that says it runs can be used, start() does not claim that a
\* stopped one runs, and its features are hooked while it runs and for the
\* connection in use only; what the client keeps has its types.
RunningFits == TypeOK /\ RunningUsableWhen /\ StartedRuns /\ FeaturesMatchWhen

\* A client that was stopped starts again only when the user asks for it: no
\* close handler and no late answer of a server revives it.
StoppedStays ==
  [][(Orderly /\ state = "Stopped")
       => Start \/ state' \in {"Stopped", "StartFailed"}]_vars

\* Every start() settles, unless the connection it waits on may be closed when
\* the client no longer knows it and cannot dispose of it, and every stop()
\* comes to an end.
StartSettles ==
  \A a \in Attempts :
    (Orderly /\ promise[a] = "pending") ~> promise[a] # "pending"
StopEnds == state = "Stopping" ~> state # "Stopping"
=============================================================================

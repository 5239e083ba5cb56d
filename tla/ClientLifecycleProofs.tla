------------------------ MODULE ClientLifecycleProofs ------------------------
(***************************************************************************)
(* What ClientLifecycle promises of every number of attempts and every     *)
(* choice of circumstances: RunningFits, OneServer and StoppedStays.       *)
(*                                                                         *)
(* The argument is about the one connection a client may use.  Without     *)
(* late decisions, late closes and crashes before "initialized" is         *)
(* written, an open connection is the client's current one or was left     *)
(* open by a shutdown that failed.  The current one belongs to the attempt *)
(* whose promise start() returns (OwnConnection), so that an attempt may   *)
(* connect only when there is no other (ConnectsAlone), and the state of   *)
(* the client says how far that attempt has come (StateFits); one that was *)
(* left has no more to do than to see its features initialized (LeftFits). *)
(***************************************************************************)
EXTENDS ClientLifecycle, FiniteSetTheorems, TLAPS

\* What holds in all circumstances: types, and that a connection in use was
\* made and a detached retry has answered the caller of start() before.
AnyInv ==
  /\ TypeOK
  /\ connection # None => conn[connection] # "none"
  /\ \A a \in retried : promise[a] = "rejected" /\ pc[a] \notin {"idle", "creating"}

\* The connection in use is open, is the only open one that was not left, and
\* is that of the attempt whose promise start() returns.
OwnConnection ==
  /\ \A a \in Attempts : conn[a] = "open" => a = connection \/ a \in left
  /\ connection # None
       => conn[connection] = "open" /\ connection \notin left /\ onStart = connection

\* A connection that a failed shutdown left is not stopped again; its attempt
\* was initialized, and if the notification is under way it is still open.
LeftFits ==
  \A a \in left :
    /\ a \notin stopping /\ a # onStart
    /\ \/ pc[a] = "notifying" /\ conn[a] = "open"
       \/ pc[a] = "done" /\ conn[a] \in {"open", "closed"}

\* An attempt that creates its transport is the last that was started, and
\* there is no other connection, not even one that is being shut down.
ConnectsAlone ==
  \A a \in Attempts : pc[a] = "creating"
    => onStart = a /\ connection = None /\ stopping = {}

\* The state follows the attempt that owns the connection.  An attempt whose
\* connection was disposed of may be about to learn it.
StateFits ==
  /\ deciding = {}
  /\ state \in {"Initial", "Stopped"} => connection = None /\ onStart = None
  /\ state \in {"Running", "Stopping"}
       => connection # None /\ pc[connection] \in {"notifying", "done"}
  /\ \A a \in Attempts :
       /\ pc[a] = "initializing"
            => /\ state \notin {"Running", "Stopping"}
               /\ connection = a \/ conn[a] = "disposed"
       /\ pc[a] = "notifying"
            => a \in left \/ (connection = a /\ state \in {"Running", "Stopping"})
       /\ a = connection /\ pc[a] = "done" => state \in {"Running", "Stopping"}
       /\ a = onStart /\ a # connection => pc[a] \in {"creating", "failed"}
       /\ promise[a] = "resolved" => pc[a] = "done"

\* A shutdown is that of the connection in use, or of one whose end it is
\* about to learn before anything else happens.
ShutdownFits ==
  \A c \in stopping :
    \/ c = connection /\ state = "Stopping"
    \/ conn[c] = "disposed" /\ connection = None /\ onStart = None

\* Only a retry makes a started client one whose start() was rejected.
NoRetryFits ==
  "retry" \notin setting
    => retried = {} /\ \A a \in Attempts : promise[a] = "rejected" => pc[a] = "failed"

\* Features are hooked after the initialized notification, and go first.
HookedFits ==
  "earlyStop" \notin setting
    => /\ \A a \in hooked : state = "Running" /\ connection = a
       /\ \A a \in Attempts : pc[a] = "notifying" => state = "Running" /\ a \notin left

OrderlyInv == /\ OwnConnection /\ LeftFits /\ ConnectsAlone /\ StateFits
              /\ ShutdownFits /\ NoRetryFits /\ HookedFits

IndInv == AnyInv /\ (Orderly => OrderlyInv)

-----------------------------------------------------------------------------
(* All circumstances.                                                       *)

\* Initially nothing was started.
LEMMA AnyInit == Init => AnyInv
BY LifecycleAssumption
   DEF Init, AnyInv, TypeOK, ClientState, Attempts, None

\* Every step keeps the types, and what retries and connections rely on.
LEMMA AnyStep == AnyInv /\ [Next]_vars => AnyInv'
<1> SUFFICES ASSUME AnyInv, [Next]_vars PROVE AnyInv'
  OBVIOUS
<1> USE LifecycleAssumption DEF AnyInv, TypeOK, ClientState, Attempts, None
<1>1. CASE Start
  BY <1>1 DEF Start, StartBody, Fresh
<1>2. CASE Stop
  BY <1>2 DEF Stop, StopAllowed, CanStop, StopBody, CleanUp
<1>3. CASE Dispose
  <2>1. CASE CanStop
    BY <1>3, <2>1 DEF Dispose, CanStop, StopBody, CleanUp
  <2>2. CASE ~CanStop
    BY <1>3, <2>2 DEF Dispose
  <2> QED
    BY <2>1, <2>2
<1>4. ASSUME NEW a \in Attempts, Connect(a) PROVE AnyInv'
  BY <1>4 DEF Connect
<1>5. ASSUME NEW a \in Attempts, ConnectFails(a) PROVE AnyInv'
  BY <1>5 DEF ConnectFails
<1>6. ASSUME NEW a \in Attempts, Initialized(a) PROVE AnyInv'
  BY <1>6 DEF Initialized
<1>7. ASSUME NEW a \in Attempts, InitializeFails(a) PROVE AnyInv'
  <2>1. PICK again \in BOOLEAN : InitializeCatch(a, again)
    BY <1>7 DEF InitializeFails
  <2>2. pc[a] = "initializing" /\ conn[a] = "open"
    BY <1>7 DEF InitializeFails
  <2>3. CASE again = TRUE
    <3>1. InitializeCatch(a, TRUE)
      BY <2>1, <2>3
    <3>2. /\ pc' = [pc EXCEPT ![a] = "initializing"]
          /\ retried' = retried \cup {a}
          /\ UNCHANGED <<setting, disposed, onStart, connection, conn, deciding,
                         stopping, left, hooked>>
      BY <3>1 DEF InitializeCatch
    <3>3. IF a \in retried THEN UNCHANGED <<state, promise>>
          ELSE state' = "StartFailed" /\ promise' = [promise EXCEPT ![a] = "rejected"]
      BY <3>1 DEF InitializeCatch
    <3> QED
      BY <2>2, <3>2, <3>3
  <2>4. CASE again = FALSE
    <3>1. InitializeCatch(a, FALSE)
      BY <2>1, <2>4
    <3> QED
      BY <2>2, <3>1 DEF InitializeCatch, CleanUp
  <2> QED
    BY <2>3, <2>4
<1>8. ASSUME NEW a \in Attempts, InitializeAborted(a) PROVE AnyInv'
  BY <1>8 DEF InitializeAborted, InitializeRejected, InitializeCatch, CleanUp
<1>9. ASSUME NEW a \in Attempts, Notified(a) PROVE AnyInv'
  BY <1>9 DEF Notified, InitializeFeatures
<1>10. ASSUME NEW a \in Attempts, NotifyFails(a) PROVE AnyInv'
  BY <1>10 DEF NotifyFails, InitializeCatch, CleanUp
<1>11. ASSUME NEW a \in Attempts, ShutdownDone(a) PROVE AnyInv'
  BY <1>11 DEF ShutdownDone, StopFinally
<1>12. ASSUME NEW a \in Attempts, ShutdownFails(a) PROVE AnyInv'
  BY <1>12 DEF ShutdownFails, StopFinally
<1>13. ASSUME NEW a \in Attempts, ShutdownAborted(a) PROVE AnyInv'
  BY <1>13 DEF ShutdownAborted, ShutdownRejected, StopFinally
<1>14. ASSUME NEW a \in Attempts, Decide(a) PROVE AnyInv'
  <2>1. CASE DoNotRestart
    BY <1>14, <2>1 DEF Decide, DoNotRestart, CleanUp
  <2>2. CASE Restart /\ disposed
    BY <1>14, <2>2 DEF Decide, Restart, CleanUp
  <2>3. CASE Restart /\ ~disposed
    <3>1. PICK b \in Fresh : StartBody(b)
      BY <2>3 DEF Restart
    <3> QED
      BY <1>14, <2>3, <3>1 DEF Decide, Restart, StartBody, Fresh, CleanUp
  <2> QED
    BY <1>14, <2>1, <2>2, <2>3 DEF Decide
<1>15. ASSUME NEW a \in Attempts, CloseIgnored(a) PROVE AnyInv'
  BY <1>15 DEF CloseIgnored, MayDie
<1>16. ASSUME NEW a \in Attempts, CloseWhileStopping(a) PROVE AnyInv'
  BY <1>16 DEF CloseWhileStopping, MayDie, ClosedOrDisposed, DoNotRestart, CleanUp
<1>17. ASSUME NEW a \in Attempts, CloseNow(a) PROVE AnyInv'
  <2>1. CASE DoNotRestart
    BY <1>17, <2>1 DEF CloseNow, MayDie, ClosedOrDisposed, DoNotRestart, CleanUp
  <2>2. CASE Restart /\ disposed
    BY <1>17, <2>2 DEF CloseNow, MayDie, ClosedOrDisposed, Restart, CleanUp
  <2>3. CASE Restart /\ ~disposed
    <3>1. PICK b \in Fresh : StartBody(b)
      BY <2>3 DEF Restart
    <3> QED
      BY <1>17, <2>3, <3>1 DEF CloseNow, MayDie, ClosedOrDisposed, Restart, StartBody,
         Fresh, CleanUp
  <2> QED
    BY <1>17, <2>1, <2>2, <2>3 DEF CloseNow
<1>18. ASSUME NEW a \in Attempts, CloseLater(a) PROVE AnyInv'
  BY <1>18 DEF CloseLater, MayDie, ClosedOrDisposed
<1>19. CASE UNCHANGED vars
  BY <1>19 DEF vars
<1> QED
  BY <1>1, <1>2, <1>3, <1>4, <1>5, <1>6, <1>7, <1>8, <1>9, <1>10, <1>11, <1>12, <1>13,
     <1>14, <1>15, <1>16, <1>17, <1>18, <1>19 DEF Next, Coroutines, ServerDies

-----------------------------------------------------------------------------
(* Orderly circumstances.                                                   *)

\* Nothing connects and nothing stops at first.
LEMMA OrderlyInit == Init => OrderlyInv
BY DEF Init, OrderlyInv, OwnConnection, LeftFits, ConnectsAlone, StateFits, ShutdownFits,
       NoRetryFits, HookedFits, Attempts, None

\* Under orderly use every step keeps OrderlyInv.
LEMMA OrderlyStep ==
  ASSUME AnyInv, OrderlyInv, Orderly, [Next]_vars
  PROVE  OrderlyInv'
<1> USE LifecycleAssumption
    DEF AnyInv, TypeOK, ClientState, Attempts, None, OrderlyInv, Orderly
<1>1. CASE Start
  <2>1. OwnConnection'
    BY <1>1 DEF Start, OwnConnection
  <2>2. ConnectsAlone'
    BY <1>1 DEF Start, Quiesced, ShutdownRejected, StartBody, OwnConnection,
       ConnectsAlone, ShutdownFits
  <2>3. StateFits'
    BY <1>1 DEF Start, StartBody, OwnConnection, StateFits
  <2>4. ShutdownFits'
    BY <1>1 DEF Start, Quiesced, ShutdownRejected, ShutdownFits
  <2>5. NoRetryFits'
    BY <1>1 DEF Start, StartBody, NoRetryFits
  <2>6. HookedFits'
    BY <1>1 DEF Start, StartBody, OwnConnection, StateFits, HookedFits
  <2>7. LeftFits'
    <3>1. PICK a \in Fresh : StartBody(a)
      BY <1>1 DEF Start
    <3>2. a \notin left /\ pc' = [pc EXCEPT ![a] = "creating"] /\ onStart' = a
      BY <3>1 DEF Fresh, StartBody, LeftFits
    <3>3. UNCHANGED <<conn, stopping, left>>
      BY <1>1 DEF Start
    <3> QED
      BY <3>1, <3>2, <3>3 DEF Fresh, LeftFits
  <2> QED
    BY <2>1, <2>2, <2>3, <2>4, <2>5, <2>6, <2>7
<1>2. CASE Stop
  <2>1. OwnConnection'
    BY <1>2 DEF Stop, StopBody, OwnConnection
  <2>2. ConnectsAlone'
    BY <1>2 DEF Stop, CanStop, StopBody, ConnectsAlone
  <2>3. StateFits'
    BY <1>2 DEF Stop, CanStop, StopBody, StateFits
  <2>4. ShutdownFits'
    BY <1>2 DEF Stop, StopBody, ShutdownFits
  <2>5. NoRetryFits'
    BY <1>2 DEF Stop, StopBody, NoRetryFits
  <2>6. HookedFits'
    BY <1>2 DEF Stop, StopAllowed, StopBody, CleanUp, HookedFits
  <2>7. LeftFits'
    BY <1>2 DEF Stop, CanStop, StopBody, OwnConnection, LeftFits
  <2> QED
    BY <2>1, <2>2, <2>3, <2>4, <2>5, <2>6, <2>7
<1>3. CASE Dispose
  <2>1. CASE CanStop
    <3>a. StopAllowed /\ StopBody
      BY <1>3, <2>1 DEF Dispose
    <3>1. OwnConnection'
      BY <3>a DEF StopBody, OwnConnection
    <3>2. ConnectsAlone'
      BY <2>1, <3>a DEF CanStop, StopBody, ConnectsAlone
    <3>3. StateFits'
      BY <2>1, <3>a DEF CanStop, StopBody, StateFits
    <3>4. ShutdownFits'
      BY <3>a DEF StopBody, ShutdownFits
    <3>5. NoRetryFits'
      BY <3>a DEF StopBody, NoRetryFits
    <3>6. HookedFits'
      BY <3>a DEF StopAllowed, StopBody, CleanUp, HookedFits
    <3>7. LeftFits'
      BY <2>1, <3>a DEF CanStop, StopBody, OwnConnection, LeftFits
    <3> QED
      BY <3>1, <3>2, <3>3, <3>4, <3>5, <3>6, <3>7
  <2>2. CASE ~CanStop
    <3>a. UNCHANGED <<setting, state, onStart, connection, pc, promise, conn, retried,
                      stopping, left, deciding, hooked>>
      BY <1>3, <2>2 DEF Dispose
    <3>1. OwnConnection'
      BY <3>a DEF OwnConnection
    <3>2. ConnectsAlone'
      BY <3>a DEF ConnectsAlone
    <3>3. StateFits'
      BY <3>a DEF StateFits
    <3>4. ShutdownFits'
      BY <3>a DEF ShutdownFits
    <3>5. NoRetryFits'
      BY <3>a DEF NoRetryFits
    <3>6. HookedFits'
      BY <3>a DEF HookedFits
    <3>7. LeftFits'
      BY <3>a DEF LeftFits
    <3> QED
      BY <3>1, <3>2, <3>3, <3>4, <3>5, <3>6, <3>7
  <2> QED
    BY <2>1, <2>2
<1>4. ASSUME NEW a \in Attempts, Connect(a) PROVE OrderlyInv'
  <2>1. OwnConnection'
    BY <1>4 DEF Connect, OwnConnection, LeftFits, ConnectsAlone
  <2>2. ConnectsAlone'
    BY <1>4 DEF Connect, ConnectsAlone
  <2>3. StateFits'
    BY <1>4 DEF Connect, ConnectsAlone, StateFits
  <2>4. ShutdownFits'
    BY <1>4 DEF Connect, ConnectsAlone, ShutdownFits
  <2>5. NoRetryFits'
    BY <1>4 DEF Connect, NoRetryFits
  <2>6. HookedFits'
    BY <1>4 DEF Connect, ConnectsAlone, HookedFits
  <2>7. LeftFits'
    BY <1>4 DEF Connect, LeftFits
  <2> QED
    BY <2>1, <2>2, <2>3, <2>4, <2>5, <2>6, <2>7
<1>5. ASSUME NEW a \in Attempts, ConnectFails(a) PROVE OrderlyInv'
  <2>1. OwnConnection'
    BY <1>5 DEF ConnectFails, OwnConnection
  <2>2. ConnectsAlone'
    BY <1>5 DEF ConnectFails, ConnectsAlone
  <2>3. StateFits'
    BY <1>5 DEF ConnectFails, ConnectsAlone, StateFits
  <2>4. ShutdownFits'
    BY <1>5 DEF ConnectFails, ConnectsAlone, ShutdownFits
  <2>5. NoRetryFits'
    BY <1>5 DEF ConnectFails, NoRetryFits
  <2>6. HookedFits'
    BY <1>5 DEF ConnectFails, ConnectsAlone, StateFits, HookedFits
  <2>7. LeftFits'
    BY <1>5 DEF ConnectFails, LeftFits
  <2> QED
    BY <2>1, <2>2, <2>3, <2>4, <2>5, <2>6, <2>7
<1>6. ASSUME NEW a \in Attempts, Initialized(a) PROVE OrderlyInv'
  <2>1. OwnConnection'
    BY <1>6 DEF Initialized, OwnConnection
  <2>2. ConnectsAlone'
    BY <1>6 DEF Initialized, ConnectsAlone
  <2>3. StateFits'
    BY <1>6 DEF Initialized, Quiesced, InitializeRejected, StateFits
  <2>4. ShutdownFits'
    BY <1>6 DEF Initialized, StateFits, ShutdownFits
  <2>5. NoRetryFits'
    BY <1>6 DEF Initialized, NoRetryFits
  <2>6. HookedFits'
    BY <1>6 DEF Initialized, StateFits, OwnConnection, LeftFits, HookedFits,
       Quiesced, InitializeRejected
  <2>7. LeftFits'
    BY <1>6 DEF Initialized, LeftFits
  <2> QED
    BY <2>1, <2>2, <2>3, <2>4, <2>5, <2>6, <2>7
<1>7. ASSUME NEW a \in Attempts, InitializeFails(a) PROVE OrderlyInv'
  <2>1. /\ pc[a] = "initializing" /\ a = connection
        /\ state \notin {"Running", "Stopping"}
    BY <1>7 DEF InitializeFails, StateFits
  <2>2. PICK again \in BOOLEAN : InitializeCatch(a, again)
    BY <1>7 DEF InitializeFails
  <2>3. /\ UNCHANGED <<setting, disposed, onStart, connection, conn, deciding,
                       stopping, left, hooked>>
        /\ pc' = [pc EXCEPT ![a] = IF again THEN "initializing" ELSE "failed"]
        /\ retried' = IF again THEN retried \cup {a} ELSE retried
        /\ again => "retry" \in setting
    BY <2>1, <2>2 DEF InitializeCatch
  <2>4. IF a \in retried THEN UNCHANGED <<state, promise>>
        ELSE state' = "StartFailed" /\ promise' = [promise EXCEPT ![a] = "rejected"]
    BY <2>1, <2>2 DEF InitializeCatch
  <2>5. OwnConnection'
    BY <2>3 DEF OwnConnection
  <2>6. ConnectsAlone'
    BY <2>3 DEF ConnectsAlone
  <2>7. StateFits'
    BY <2>1, <2>3, <2>4 DEF StateFits
  <2>8. ShutdownFits'
    BY <2>1, <2>3 DEF ShutdownFits
  <2>9. NoRetryFits'
    BY <2>3, <2>4 DEF NoRetryFits
  <2>10. HookedFits'
    BY <2>1, <2>3 DEF HookedFits
  <2>11. LeftFits'
    BY <2>1, <2>3 DEF LeftFits
  <2> QED
    BY <2>5, <2>6, <2>7, <2>8, <2>9, <2>10, <2>11
<1>8. ASSUME NEW a \in Attempts, InitializeAborted(a) PROVE OrderlyInv'
  <2>1. OwnConnection'
    BY <1>8 DEF InitializeAborted, InitializeCatch, OwnConnection
  <2>2. ConnectsAlone'
    BY <1>8 DEF InitializeAborted, InitializeCatch, ConnectsAlone
  <2>3. StateFits'
    BY <1>8 DEF InitializeAborted, InitializeRejected,
       InitializeCatch, StateFits
  <2>4. ShutdownFits'
    BY <1>8 DEF InitializeAborted, InitializeRejected,
       InitializeCatch, StateFits, ShutdownFits
  <2>5. NoRetryFits'
    BY <1>8 DEF InitializeAborted, InitializeCatch, NoRetryFits
  <2>6. HookedFits'
    <3>1. state \notin {"Running", "Stopping"}
      BY <1>8 DEF InitializeAborted, InitializeRejected, StateFits
    <3>2. hooked' = hooked /\ state' # "Running" /\ setting' = setting
      BY <1>8, <3>1 DEF InitializeAborted, InitializeCatch
    <3>3. \A b \in Attempts : pc'[b] = "notifying" => pc[b] = "notifying"
      BY <1>8 DEF InitializeAborted, InitializeCatch
    <3> QED
      BY <3>1, <3>2, <3>3 DEF HookedFits
  <2>7. LeftFits'
    BY <1>8 DEF InitializeAborted, InitializeRejected, InitializeCatch, StateFits, LeftFits
  <2> QED
    BY <2>1, <2>2, <2>3, <2>4, <2>5, <2>6, <2>7
<1>9. ASSUME NEW a \in Attempts, Notified(a) PROVE OrderlyInv'
  <2>1. OwnConnection'
    BY <1>9 DEF Notified, OwnConnection
  <2>2. ConnectsAlone'
    BY <1>9 DEF Notified, ConnectsAlone
  <2>3. StateFits'
    BY <1>9 DEF Notified, OwnConnection, LeftFits, StateFits
  <2>4. ShutdownFits'
    BY <1>9 DEF Notified, ShutdownFits
  <2>5. NoRetryFits'
    BY <1>9 DEF Notified, NoRetryFits
  <2>6. HookedFits'
    BY <1>9 DEF Notified, InitializeFeatures, StateFits, HookedFits
  <2>7. LeftFits'
    BY <1>9 DEF Notified, LeftFits
  <2> QED
    BY <2>1, <2>2, <2>3, <2>4, <2>5, <2>6, <2>7
<1>10. ASSUME NEW a \in Attempts, NotifyFails(a) PROVE OrderlyInv'
  <2>1. pc[a] = "notifying" /\ conn[a] # "open"
    BY <1>10 DEF NotifyFails
  <2> QED
    BY <2>1 DEF OwnConnection, LeftFits, StateFits
<1>11. ASSUME NEW a \in Attempts, ShutdownDone(a) PROVE OrderlyInv'
  <2>1. OwnConnection'
    BY <1>11 DEF ShutdownDone, StopFinally, ShutdownFits, OwnConnection
  <2>2. ConnectsAlone'
    BY <1>11 DEF ShutdownDone, StopFinally, ConnectsAlone
  <2>3. StateFits'
    BY <1>11 DEF ShutdownDone, StopFinally, StateFits, ShutdownFits
  <2>4. ShutdownFits'
    BY <1>11 DEF ShutdownDone, StopFinally, ShutdownFits
  <2>5. NoRetryFits'
    BY <1>11 DEF ShutdownDone, StopFinally, NoRetryFits
  <2>6. HookedFits'
    BY <1>11 DEF ShutdownDone, StopFinally, ShutdownFits, HookedFits
  <2>7. LeftFits'
    BY <1>11 DEF ShutdownDone, StopFinally, OwnConnection, ShutdownFits, LeftFits
  <2> QED
    BY <2>1, <2>2, <2>3, <2>4, <2>5, <2>6, <2>7
<1>12. ASSUME NEW a \in Attempts, ShutdownFails(a) PROVE OrderlyInv'
  <2>a. /\ a = connection /\ conn[a] = "open" /\ state = "Stopping"
        /\ pc[a] \in {"notifying", "done"}
    BY <1>12 DEF ShutdownFails, MayFail, OwnConnection, StateFits, ShutdownFits, Quiesced,
       ShutdownRejected
  <2>b. /\ stopping' = stopping \ {a} /\ left' = left \cup {a}
        /\ state' = "Stopped" /\ onStart' = None /\ connection' = None
        /\ UNCHANGED <<setting, disposed, pc, promise, conn, retried, deciding, hooked>>
    BY <1>12, <2>a DEF ShutdownFails, StopFinally
  <2>1. OwnConnection'
    BY <2>a, <2>b DEF OwnConnection
  <2>2. ConnectsAlone'
    BY <2>a, <2>b DEF ConnectsAlone
  <2>3. StateFits'
    BY <2>a, <2>b DEF StateFits
  <2>4. ShutdownFits'
    BY <2>a, <2>b DEF ShutdownFits
  <2>5. NoRetryFits'
    BY <2>b DEF NoRetryFits
  <2>6. HookedFits'
    BY <2>a, <2>b DEF HookedFits
  <2>7. LeftFits'
    BY <2>a, <2>b DEF LeftFits
  <2> QED
    BY <2>1, <2>2, <2>3, <2>4, <2>5, <2>6, <2>7
<1>13. ASSUME NEW a \in Attempts, ShutdownAborted(a) PROVE OrderlyInv'
  <2>1. OwnConnection'
    BY <1>13 DEF ShutdownAborted, ShutdownRejected, ShutdownRejected, StopFinally,
       OwnConnection, ShutdownFits
  <2>2. ConnectsAlone'
    BY <1>13 DEF ShutdownAborted, ShutdownRejected, ShutdownRejected, StopFinally,
       ConnectsAlone
  <2>3. StateFits'
    BY <1>13 DEF ShutdownAborted, ShutdownRejected, ShutdownRejected, StopFinally,
       OwnConnection, StateFits, ShutdownFits
  <2>4. ShutdownFits'
    BY <1>13 DEF ShutdownAborted, ShutdownRejected, ShutdownRejected, StopFinally,
       ShutdownFits
  <2>5. NoRetryFits'
    BY <1>13 DEF ShutdownAborted, StopFinally, NoRetryFits
  <2>6. HookedFits'
    BY <1>13 DEF ShutdownAborted, ShutdownRejected, ShutdownRejected, StopFinally,
       StateFits, ShutdownFits, HookedFits
  <2>7. LeftFits'
    BY <1>13 DEF ShutdownAborted, ShutdownRejected, StopFinally, LeftFits
  <2> QED
    BY <2>1, <2>2, <2>3, <2>4, <2>5, <2>6, <2>7
<1>14. ASSUME NEW a \in Attempts, Decide(a) PROVE OrderlyInv'
  <2>1. OwnConnection'
    BY <1>14 DEF Decide, StateFits
  <2>2. ConnectsAlone'
    BY <1>14 DEF Decide, StateFits
  <2>3. StateFits'
    BY <1>14 DEF Decide, StateFits
  <2>4. ShutdownFits'
    BY <1>14 DEF Decide, StateFits
  <2>5. NoRetryFits'
    BY <1>14 DEF Decide, StateFits
  <2>6. HookedFits'
    BY <1>14 DEF Decide, StateFits
  <2>7. LeftFits'
    BY <1>14 DEF Decide, StateFits
  <2> QED
    BY <2>1, <2>2, <2>3, <2>4, <2>5, <2>6, <2>7
<1>15. ASSUME NEW a \in Attempts, CloseIgnored(a) PROVE OrderlyInv'
  <2>1. OwnConnection'
    BY <1>15 DEF CloseIgnored, OwnConnection, StateFits
  <2>2. ConnectsAlone'
    BY <1>15 DEF CloseIgnored, ConnectsAlone
  <2>3. StateFits'
    BY <1>15 DEF CloseIgnored, MayDie, StateFits
  <2>4. ShutdownFits'
    BY <1>15 DEF CloseIgnored, MayDie, ShutdownFits
  <2>5. NoRetryFits'
    BY <1>15 DEF CloseIgnored, NoRetryFits
  <2>6. HookedFits'
    BY <1>15 DEF CloseIgnored, HookedFits
  <2>7. LeftFits'
    BY <1>15 DEF CloseIgnored, MayDie, LeftFits
  <2> QED
    BY <2>1, <2>2, <2>3, <2>4, <2>5, <2>6, <2>7
<1>16. ASSUME NEW a \in Attempts, CloseWhileStopping(a) PROVE OrderlyInv'
  <2>1. OwnConnection'
    BY <1>16 DEF CloseWhileStopping, ClosedOrDisposed, DoNotRestart, OwnConnection
  <2>2. ConnectsAlone'
    BY <1>16 DEF CloseWhileStopping, DoNotRestart, ConnectsAlone, StateFits
  <2>3. StateFits'
    BY <1>16 DEF CloseWhileStopping, MayDie, DoNotRestart, OwnConnection, StateFits
  <2>4. ShutdownFits'
    BY <1>16 DEF CloseWhileStopping, ClosedOrDisposed, DoNotRestart, StateFits,
       ShutdownFits
  <2>5. NoRetryFits'
    BY <1>16 DEF CloseWhileStopping, DoNotRestart, NoRetryFits
  <2>6. HookedFits'
    BY <1>16 DEF CloseWhileStopping, DoNotRestart, CleanUp, HookedFits
  <2>7. LeftFits'
    BY <1>16 DEF CloseWhileStopping, ClosedOrDisposed, MayDie, DoNotRestart, OwnConnection, LeftFits
  <2> QED
    BY <2>1, <2>2, <2>3, <2>4, <2>5, <2>6, <2>7
<1>17. ASSUME NEW a \in Attempts, CloseNow(a) PROVE OrderlyInv'
  <2>1. /\ a = connection /\ conn' = [conn EXCEPT ![a] = "disposed"]
        /\ pc[a] # "notifying" /\ stopping = {} /\ a \notin left
        /\ UNCHANGED <<setting, disposed, retried, stopping, left, deciding>>
    <3>1. conn[a] = "open" /\ pc[a] # "notifying" /\ a \notin left /\ a = connection
      BY <1>17 DEF CloseNow, MayDie, OwnConnection
    <3>2. stopping = {}
      BY <1>17 DEF CloseNow, ShutdownFits, Quiesced, ShutdownRejected
    <3> QED
      BY <1>17, <3>1, <3>2 DEF CloseNow, ClosedOrDisposed
  <2>2. CASE DoNotRestart
    <3>1. OwnConnection'
      BY <2>1, <2>2 DEF DoNotRestart, OwnConnection
    <3>2. ConnectsAlone'
      BY <2>1, <2>2 DEF DoNotRestart, ConnectsAlone
    <3>3. StateFits'
      BY <2>1, <2>2 DEF DoNotRestart, StateFits
    <3>4. ShutdownFits'
      BY <2>1 DEF ShutdownFits
    <3>5. NoRetryFits'
      BY <2>1, <2>2 DEF DoNotRestart, NoRetryFits
    <3>6. HookedFits'
      BY <2>1, <2>2 DEF DoNotRestart, CleanUp, StateFits, HookedFits
    <3>7. LeftFits'
      BY <2>1, <2>2 DEF DoNotRestart, LeftFits
    <3> QED
      BY <3>1, <3>2, <3>3, <3>4, <3>5, <3>6, <3>7
  <2>3. CASE Restart /\ disposed
    <3>1. OwnConnection'
      BY <2>1, <2>3 DEF Restart, OwnConnection
    <3>2. ConnectsAlone'
      BY <2>1, <2>3 DEF Restart, ConnectsAlone
    <3>3. StateFits'
      BY <2>1, <2>3 DEF Restart, StateFits
    <3>4. ShutdownFits'
      BY <2>1 DEF ShutdownFits
    <3>5. NoRetryFits'
      BY <2>1, <2>3 DEF Restart, NoRetryFits
    <3>6. HookedFits'
      BY <2>1, <2>3 DEF Restart, CleanUp, StateFits, HookedFits
    <3>7. LeftFits'
      BY <2>1, <2>3 DEF Restart, LeftFits
    <3> QED
      BY <3>1, <3>2, <3>3, <3>4, <3>5, <3>6, <3>7
  <2>4. CASE Restart /\ ~disposed
    <3>a. PICK b \in Fresh : StartBody(b)
      BY <2>4 DEF Restart
    <3>1. OwnConnection'
      BY <2>1, <2>4 DEF Restart, OwnConnection
    <3>2. ConnectsAlone'
      BY <2>1, <2>4 DEF Restart, StartBody, ConnectsAlone
    <3>3. StateFits'
      BY <2>1, <2>4 DEF Restart, StartBody, StateFits
    <3>4. ShutdownFits'
      BY <2>1 DEF ShutdownFits
    <3>5. NoRetryFits'
      BY <2>1, <3>a DEF StartBody, NoRetryFits
    <3>6. HookedFits'
      BY <2>1, <2>4 DEF Restart, StartBody, CleanUp, StateFits, HookedFits
    <3>7. LeftFits'
      BY <2>1, <3>a DEF StartBody, Fresh, LeftFits
    <3> QED
      BY <3>1, <3>2, <3>3, <3>4, <3>5, <3>6, <3>7
  <2> QED
    BY <1>17, <2>2, <2>3, <2>4 DEF CloseNow
<1>18. ASSUME NEW a \in Attempts, CloseLater(a) PROVE OrderlyInv'
  <2>1. OwnConnection'
    BY <1>18 DEF CloseLater
  <2>2. ConnectsAlone'
    BY <1>18 DEF CloseLater
  <2>3. StateFits'
    BY <1>18 DEF CloseLater
  <2>4. ShutdownFits'
    BY <1>18 DEF CloseLater
  <2>5. NoRetryFits'
    BY <1>18 DEF CloseLater
  <2>6. HookedFits'
    BY <1>18 DEF CloseLater
  <2>7. LeftFits'
    BY <1>18 DEF CloseLater
  <2> QED
    BY <2>1, <2>2, <2>3, <2>4, <2>5, <2>6, <2>7
<1>19. CASE UNCHANGED vars
  BY <1>19 DEF vars, OwnConnection, LeftFits, ConnectsAlone, StateFits, ShutdownFits, NoRetryFits,
     HookedFits
<1> QED
  BY <1>1, <1>2, <1>3, <1>4, <1>5, <1>6, <1>7, <1>8, <1>9, <1>10, <1>11, <1>12, <1>13,
     <1>14, <1>15, <1>16, <1>17, <1>18, <1>19 DEF Next, Coroutines, ServerDies

\* The circumstances of a behaviour do not change.
LEMMA SettingKept == [Next]_vars => setting' = setting
BY DEF Next, vars, Start, Stop, StopBody, Dispose, Coroutines, Connect, ConnectFails,
       Initialized, InitializeFails, InitializeAborted, InitializeCatch, Notified,
       NotifyFails, ShutdownDone, ShutdownFails, ShutdownAborted, StopFinally, Decide,
       ServerDies, CloseIgnored, CloseWhileStopping, CloseNow, CloseLater

\* A step that keeps everything keeps the invariant, and a step of circumstances
\* that are not orderly stays in them.
LEMMA IndInvariant == Spec => []IndInv
<1>1. Init => IndInv
  BY AnyInit, OrderlyInit DEF IndInv
<1>2. IndInv /\ [Next]_vars => IndInv'
  <2> SUFFICES ASSUME IndInv, [Next]_vars PROVE IndInv'
    OBVIOUS
  <2>1. AnyInv'
    BY AnyStep DEF IndInv
  <2>2. setting' = setting
    BY SettingKept
  <2>3. ASSUME Orderly' PROVE OrderlyInv'
    <3>1. Orderly
      BY <2>2, <2>3 DEF Orderly
    <3> QED
      BY <3>1, OrderlyStep DEF IndInv
  <2> QED
    BY <2>1, <2>3 DEF IndInv
<1> QED
  BY <1>1, <1>2, PTL DEF Spec

-----------------------------------------------------------------------------
(* The properties.                                                          *)

\* In every behaviour a client that says it runs can be used, start() does not
\* claim that a stopped client runs, and features are hooked for the connection
\* in use only; what the client keeps has its types.
THEOREM RunningFitsHolds == Spec => []RunningFits
<1>1. IndInv => RunningFits
  <2> SUFFICES ASSUME IndInv PROVE RunningFits
    OBVIOUS
  <2> USE DEF IndInv, OrderlyInv, AnyInv
  <2>1. TypeOK
    OBVIOUS
  <2>2. RunningUsableWhen
    <3> SUFFICES ASSUME setting \subseteq {"earlyStop", "stopFails"},
                        state = "Running"
                 PROVE  /\ connection # None /\ conn[connection] = "open"
                        /\ onStart # None /\ promise[onStart] # "rejected"
      BY DEF RunningUsableWhen, RunningUsable
    <3>1. Orderly /\ "retry" \notin setting
      BY DEF Orderly
    <3>2. /\ connection # None /\ connection \in Attempts
          /\ conn[connection] = "open" /\ onStart = connection
          /\ pc[connection] \in {"notifying", "done"}
      BY <3>1 DEF OwnConnection, StateFits, TypeOK, None
    <3> QED
      BY <3>1, <3>2 DEF NoRetryFits
  <2>3. StartedRuns
    <3> SUFFICES ASSUME Orderly, onStart # None, promise[onStart] = "resolved"
                 PROVE  state \in {"Running", "Stopping"}
      BY DEF StartedRuns
    <3>1. onStart \in Attempts /\ pc[onStart] = "done"
      BY DEF TypeOK, StateFits, None
    <3> QED
      BY <3>1 DEF StateFits
  <2>4. FeaturesMatchWhen
    <3> SUFFICES ASSUME setting \subseteq {"retry", "stopFails"}, NEW a \in hooked
                 PROVE  state = "Running" /\ connection = a
      BY DEF FeaturesMatchWhen, FeaturesMatch
    <3>1. Orderly /\ "earlyStop" \notin setting
      BY DEF Orderly
    <3> QED
      BY <3>1 DEF HookedFits
  <2> QED
    BY <2>1, <2>2, <2>3, <2>4 DEF RunningFits
<1> QED
  BY <1>1, IndInvariant, PTL

\* Over all starts, stops and crashes there is never a second open connection
\* beside those that failed shutdowns have left.
THEOREM OneServerHolds == Spec => []OneServer
<1>1. IndInv => OneServer
  <2> SUFFICES ASSUME IndInv, Orderly
               PROVE  Cardinality({a \in Attempts : conn[a] = "open"} \ left) <= 1
    BY DEF OneServer
  <2> DEFINE Open == {a \in Attempts : conn[a] = "open"} \ left
  <2>1. Open \subseteq {connection}
    BY DEF IndInv, OrderlyInv, OwnConnection
  <2>2. IsFiniteSet({connection}) /\ Cardinality({connection}) = 1
    BY FS_Singleton
  <2>3. Cardinality(Open) <= Cardinality({connection})
    BY <2>1, <2>2, FS_Subset
  <2> QED
    BY <2>2, <2>3
<1> QED
  BY <1>1, IndInvariant, PTL

\* No close handler and no late answer starts a stopped client again.
THEOREM StoppedStaysHolds == Spec => StoppedStays
<1>1. ASSUME IndInv, [Next]_vars, Orderly, state = "Stopped", ~Start
      PROVE  state' \in {"Stopped", "StartFailed"}
  <2>1. OrderlyInv /\ TypeOK
    BY <1>1 DEF IndInv, AnyInv
  <2>2. \A a \in Attempts : pc[a] = "initializing" => conn[a] # "open"
    BY <1>1, <2>1 DEF OrderlyInv, OwnConnection, LeftFits, StateFits, TypeOK, Attempts,
       None
  <2>3. deciding = {} /\ connection = None
    BY <1>1, <2>1 DEF OrderlyInv, StateFits
  <2>4. CASE Stop \/ Dispose \/ UNCHANGED vars
    BY <1>1, <2>3, <2>4 DEF Stop, Dispose, CanStop, vars
  <2>5. ASSUME NEW a \in Attempts, Coroutines(a) PROVE state' \in {"Stopped", "StartFailed"}
    BY <1>1, <2>2, <2>3, <2>5
       DEF Coroutines, Connect, ConnectFails, Initialized, InitializeFails, InitializeAborted,
           InitializeCatch, Notified, NotifyFails, ShutdownDone, ShutdownFails,
           ShutdownAborted, StopFinally, Decide
  <2>6. ASSUME NEW a \in Attempts, ServerDies(a) PROVE state' \in {"Stopped", "StartFailed"}
    BY <1>1, <2>6 DEF ServerDies, CloseIgnored, CloseWhileStopping, CloseNow, CloseLater
  <2> QED
    BY <1>1, <2>4, <2>5, <2>6 DEF Next
<1>2. IndInv /\ [Next]_vars
        => [(Orderly /\ state = "Stopped")
              => Start \/ state' \in {"Stopped", "StartFailed"}]_vars
  BY <1>1
<1> QED
  BY <1>2, IndInvariant, PTL DEF Spec, StoppedStays
==============================================================================

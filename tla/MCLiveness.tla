----------------------------- MODULE MCLiveness -----------------------------
(***************************************************************************)
(* TLC instance for what has to come to an end, in three parts that do not *)
(* depend on each other: the starts and stops of a client, the messages of *)
(* a connection, without limit or with room for one message, and the edits *)
(* of one document.  A behaviour is one of `part`; the other parts stay in *)
(* an initial state, where their fairness asks for nothing.                *)
(***************************************************************************)
EXTENDS ClientLifecycle, Integers, Sequences

CONSTANTS r1, r2, n1, o1, d1

VARIABLES
    part,
    \* MessageConnection
    connectionState, reading, messageQueue, messageTimer, inFlight, requestTokens,
    knownCanceledRequests, task, cancelArrived, cancelled, replies, sentPromise,
    responsePromises, outToken, signalled, outbox, onWire,
    \* TextSync
    config, registered, open, visible, text, pendingOpens, pendingChanges, inFlightOpens,
    synced, tasks, ready, lockQueue, locked, flushing, timer, writing, server

\* What the safety properties admit at most, none of it, and each of the rest.
MCSettings ==
  {{}, {"earlyStop", "stopFails"}, {"retry", "stopFails"}, {"earlyStop", "retry", "stopFails"},
   {"asyncClosed"}, {"earlyCrash"}, {"stopFails", "lateClose"}}

\* One document in full mode, opened by the user or open at registration.
FullSync ==
  [sync |-> "Full", delayOpen |-> FALSE, docs |-> {d1}, preopened |-> {},
   tabs |-> {d1}, rapidReopen |-> FALSE, maxText |-> 2]
SmallConfigs == {FullSync, [FullSync EXCEPT !.preopened = {d1}]}

Connection == INSTANCE MessageConnection WITH
    InRequests <- {r1, r2}, Notes <- {n1}, OutRequests <- {o1}, MaxParallelism <- -1,
    FailingWrites <- {"result", "error", "request"},
    state <- connectionState, timer <- messageTimer, promise <- sentPromise
Limited == INSTANCE MessageConnection WITH
    InRequests <- {r1, r2}, Notes <- {n1}, OutRequests <- {o1}, MaxParallelism <- 1,
    FailingWrites <- {"result", "error", "request"},
    state <- connectionState, timer <- messageTimer, promise <- sentPromise
Sync == INSTANCE TextSync WITH
    Docs <- {d1}, Configs <- SmallConfigs, MaxEvents <- 2, LastText <- 2

connectionVars ==
    <<connectionState, reading, messageQueue, messageTimer, inFlight, requestTokens,
      knownCanceledRequests, task, cancelArrived, cancelled, replies, sentPromise,
      responsePromises, outToken, signalled, outbox, onWire>>
syncVars ==
    <<config, registered, open, visible, text, pendingOpens, pendingChanges, inFlightOpens,
      synced, tasks, ready, lockQueue, locked, flushing, timer, writing, server>>

MCInit ==
    /\ part \in {"client", "unlimited", "limited", "document"}
    /\ Init /\ Connection!Init /\ Sync!Init
    /\ part # "client" => setting = {}
    /\ part # "document" => config = FullSync

\* Bounds of the connection: with a limit two requests and a notification come
\* and none is sent, without one a request comes and another is sent.
ConnectionNext ==
    \/ part = "unlimited" /\ Connection!Next /\ task'[r2] = "absent" /\ task'[n1] = "absent"
    \/ part = "limited" /\ Limited!Next /\ sentPromise'[o1] = "unsent"

MCNext ==
    /\ UNCHANGED part
    /\ \/ part = "client" /\ Next /\ UNCHANGED <<connectionVars, syncVars>>
       \/ ConnectionNext /\ UNCHANGED <<vars, syncVars>>
       \/ part = "document" /\ Sync!Next /\ UNCHANGED <<vars, connectionVars>>

\* The fairness of MessageConnection, for the limit of the behaviour.
Dispatch == \/ part = "unlimited" /\ Connection!Dispatch
            \/ part = "limited" /\ Limited!Dispatch
Writer == \/ part = "unlimited" /\ Connection!Writer
          \/ part = "limited" /\ Limited!Writer
Handled(r) == \E kind \in {"result", "error"} : Connection!RequestHandled(r, kind)
NoteHandled(n) == \/ part = "unlimited" /\ Connection!NotificationHandled(n)
                  \/ part = "limited" /\ Limited!NotificationHandled(n)
ConnectionFairness ==
    /\ WF_connectionVars(Dispatch) /\ WF_connectionVars(Writer)
    /\ \A r \in {r1, r2} : WF_connectionVars(Handled(r))
    /\ WF_connectionVars(NoteHandled(n1))

MCSpec ==
    /\ MCInit /\ [][MCNext]_<<part, vars, connectionVars, syncVars>>
    /\ Fairness /\ ConnectionFairness /\ Sync!Fairness

-----------------------------------------------------------------------------
(* Every start() and every stop() comes to an end, and what was stopped    *)
(* stays stopped until the user starts it again.                           *)
Settles == StoppedStays /\ StartSettles /\ StopEnds

(* Requests that are received are answered, with a limit and without, and  *)
(* the answers to this end's requests settle their promises: a result or a *)
(* request that cannot be written changes nothing of that.  Of an error    *)
(* reply that cannot be written nothing is claimed but that it is the only *)
(* reason, beside dispose, why a request goes without an answer.           *)
Answered == Connection!RequestsAnswered /\ Connection!ResponsesSettle

(* In full mode every edit reaches the server, or a newer one does.        *)
EditArrives == Sync!EditArrives
=============================================================================

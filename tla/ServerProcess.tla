--------------------------- MODULE ServerProcess ---------------------------
(***************************************************************************)
(* The process of a server: started and, if it does not go, terminated by  *)
(* the client (client/src/node/main.ts), and ended by itself, with an exit *)
(* code that tells whether it was shut down (server/src/node/main.ts and   *)
(* the handlers of initialize, shutdown and exit in                        *)
(* server/src/common/server.ts).  A process may crash, or hang in the      *)
(* program's code; the client's process may die.                           *)
(*                                                                         *)
(* What the client's states mean is ClientLifecycle's; a stop that waits   *)
(* no more than two seconds and the process being looked at two seconds    *)
(* later are two actions that may be taken at any time.  Launched here is  *)
(* a module or an executable; a process that a function of the options     *)
(* started is never the client's to end.                                   *)
(***************************************************************************)
EXTENDS Naturals, Sequences, FiniteSets

CONSTANT MaxLaunches

VARIABLES
    launch,         \* module or executable, transport and detached, of the options
    phase,          \* "off", "starting", "running", "stopping"; "dead"
    serverProcess,  \* _serverProcess, 0 for undefined
    connection,     \* the process the client's connection is to, or 0
    checks,         \* the processes checkProcessDied will look at
    late,           \* processes whose shutdown was given up waiting for
    process,        \* the processes
    stopped,        \* history: processes that were shut down in time
    closedLate      \* history: a given-up connection closed during a later one

vars == <<launch, phase, serverProcess, connection, checks, late, process, stopped, closedLate>>

Processes == 1..MaxLaunches

\* The ways to start a server; an executable cannot be talked to through ipc,
\* and only its options can say that it is detached.
Launches ==
    {l \in [kind : {"module", "executable"}, transport : {"ipc", "stream"}, detached : BOOLEAN] :
        l.kind = "module" \/ l.transport = "stream"}
Detached == launch.kind = "executable" /\ launch.detached

NoProcess == [stage |-> "none", code |-> 0, inbox |-> <<>>, outbox |-> <<>>,
              shutdownReceived |-> FALSE, watches |-> FALSE, ended |-> FALSE, hangs |-> FALSE]
Alive(i) == process[i].stage = "alive"
Fresh(i) == process[i].stage = "none" /\ \A j \in 1..i - 1 : process[j].stage # "none"

Receives(i, message) == [process EXCEPT ![i].inbox = Append(@, message)]

-----------------------------------------------------------------------------
(* The client.                                                             *)

\* createMessageTransports, and the initialize request.  A module gets the
\* client's process id as an argument.
Launch(i) ==
    /\ phase = "off" /\ Fresh(i)
    /\ phase' = "starting"
    /\ process' = [process EXCEPT ![i] =
            [NoProcess EXCEPT !.stage = "alive", !.inbox = <<"initialize">>,
                              !.watches = (launch.kind = "module")]]
    /\ serverProcess' = i /\ connection' = i
    /\ UNCHANGED <<launch, checks, late, stopped, closedLate>>

Answered(i, request) == process[i].outbox # <<>> /\ Head(process[i].outbox) = request
Initialized ==
    /\ phase = "starting" /\ Answered(connection, "initialize")
    /\ phase' = "running"
    /\ process' = [process EXCEPT ![connection].outbox = Tail(@)]
    /\ UNCHANGED <<launch, serverProcess, connection, checks, late, stopped, closedLate>>

\* Mutant of LetGo: nobody looks at the process any more.
LetGoUnchecked == serverProcess' = 0 /\ UNCHANGED checks

\* The finally of shutdown: the process is not the client's any more, and is
\* looked at later unless it is detached.
LetGo ==
    /\ serverProcess' = 0
    /\ checks' = IF serverProcess = 0 \/ Detached THEN checks ELSE checks \cup {serverProcess}

\* stop of a running client.
Stop ==
    /\ phase = "running"
    /\ phase' = "stopping"
    /\ process' = Receives(connection, "shutdown")
    /\ UNCHANGED <<launch, serverProcess, connection, checks, late, stopped, closedLate>>

\* stop of a client that is starting is refused, but its finally is run.
StopRefused ==
    /\ phase = "starting"
    /\ LetGo
    /\ UNCHANGED <<launch, phase, connection, late, process, stopped, closedLate>>

\* The shutdown request is answered in time: exit, and the end of the connection.
ShutdownAnswered ==
    /\ phase = "stopping" /\ Answered(connection, "shutdown")
    /\ process' = [process EXCEPT ![connection].outbox = Tail(@),
                                  ![connection].inbox = Append(@, "exit"),
                                  ![connection].ended = TRUE]
    /\ stopped' = stopped \cup {connection}
    /\ phase' = "off" /\ connection' = 0
    /\ LetGo
    /\ UNCHANGED <<launch, late, closedLate>>

StopTimesOut ==
    /\ phase = "stopping"
    /\ phase' = "off" /\ connection' = 0
    /\ late' = late \cup {connection}
    /\ LetGo
    /\ UNCHANGED <<launch, process, stopped, closedLate>>

\* An answer after that is still followed by exit.
LateAnswer(i) ==
    /\ phase # "dead" /\ i \in late /\ Answered(i, "shutdown")
    /\ process' = [process EXCEPT ![i].outbox = Tail(@), ![i].inbox = Append(@, "exit")]
    /\ UNCHANGED <<launch, phase, serverProcess, connection, checks, late, stopped, closedLate>>

\* handleConnectionClosed: the process at the other end is gone.  The client
\* may be restarted by Launch.
ConnectionClosed ==
    /\ phase \in {"starting", "running", "stopping"} /\ ~Alive(connection)
    /\ phase' = "off" /\ serverProcess' = 0 /\ connection' = 0
    /\ UNCHANGED <<launch, checks, late, process, stopped, closedLate>>

\* So is it for the connection of a stop that timed out, which nobody disposed:
\* whatever the client has now is taken for closed.
LateClosed(i) ==
    /\ i \in late /\ ~Alive(i) /\ phase # "dead"
    /\ late' = late \ {i}
    /\ serverProcess' = 0
    /\ closedLate' = (closedLate \/ phase # "off")
    /\ IF phase = "off" THEN UNCHANGED <<phase, connection, process>>
       ELSE /\ phase' = "off" /\ connection' = 0
            /\ process' = [process EXCEPT ![connection].ended = TRUE]
    /\ UNCHANGED <<launch, checks, stopped>>

\* checkProcessDied: terminate.
Check(i) ==
    /\ phase # "dead" /\ i \in checks
    /\ checks' = checks \ {i}
    /\ process' = IF Alive(i) THEN [process EXCEPT ![i].stage = "killed"] ELSE process
    /\ UNCHANGED <<launch, phase, serverProcess, connection, late, stopped, closedLate>>

ClientDies ==
    /\ phase # "dead"
    /\ phase' = "dead"
    /\ process' = [i \in Processes |-> [process[i] EXCEPT !.ended = TRUE]]
    /\ UNCHANGED <<launch, serverProcess, connection, checks, late, stopped, closedLate>>

-----------------------------------------------------------------------------
(* The server.                                                             *)

Server(i) == UNCHANGED <<launch, phase, serverProcess, connection, checks, late, stopped, closedLate>>
Runs(i) == Alive(i) /\ ~process[i].hangs

\* watchDog.exit and the other places that end the process.
Exit(i) == process' = [process EXCEPT ![i].stage = "exited",
                                      ![i].code = IF process[i].shutdownReceived THEN 0 ELSE 1]

\* The handlers of initialize, which starts the timer if there is none,
\* shutdown and exit.
Handle(i) ==
    /\ Runs(i) /\ process[i].inbox # <<>>
    /\ LET message == Head(process[i].inbox)
           handled == [process EXCEPT ![i].inbox = Tail(@)]
       IN CASE message = "initialize" ->
                 process' = [handled EXCEPT ![i].watches = TRUE,
                                            ![i].outbox = Append(@, "initialize")]
            [] message = "shutdown" ->
                 process' = [handled EXCEPT ![i].shutdownReceived = TRUE,
                                            ![i].outbox = Append(@, "shutdown")]
            [] message = "exit" -> Exit(i)
    /\ Server(i)

\* The end of the input stream, which may be seen before the messages that
\* came ahead of it are handled: they wait in the queue of the connection.
StreamEnds(i) ==
    /\ Runs(i) /\ launch.transport = "stream" /\ process[i].ended
    /\ Exit(i)
    /\ Server(i)

\* Mutant of ClientGone: the client is looked at with the messages, not by a timer.
ClientGoneWithMessage(i) ==
    /\ Runs(i) /\ process[i].watches /\ phase = "dead" /\ process[i].inbox # <<>>
    /\ Exit(i)
    /\ Server(i)

\* The exit timer finds that the client is dead.
ClientGone(i) ==
    /\ Runs(i) /\ process[i].watches /\ phase = "dead"
    /\ Exit(i)
    /\ Server(i)

Crash(i) ==
    /\ Alive(i) /\ i \notin stopped
    /\ process' = [process EXCEPT ![i].stage = "crashed"]
    /\ Server(i)

Hang(i) ==
    /\ Runs(i)
    /\ process' = [process EXCEPT ![i].hangs = TRUE]
    /\ Server(i)

-----------------------------------------------------------------------------
Init ==
    /\ launch \in Launches
    /\ phase = "off" /\ serverProcess = 0 /\ connection = 0
    /\ checks = {} /\ late = {} /\ stopped = {} /\ closedLate = FALSE
    /\ process = [i \in Processes |-> NoProcess]

ServerStep(i) == Handle(i) \/ StreamEnds(i) \/ ClientGone(i)

Next ==
    \/ \E i \in Processes : Launch(i)
    \/ Initialized \/ Stop \/ StopRefused \/ ShutdownAnswered \/ StopTimesOut
    \/ ConnectionClosed \/ ClientDies
    \/ \E i \in Processes : LateAnswer(i) \/ LateClosed(i) \/ Check(i)
    \/ \E i \in Processes : ServerStep(i) \/ Crash(i) \/ Hang(i)

\* Both processes run, and timers fire.
Fairness == \A i \in Processes : WF_vars(ServerStep(i)) /\ WF_vars(Check(i))
Spec == Init /\ [][Next]_vars /\ Fairness

-----------------------------------------------------------------------------
(* Properties.                                                             *)

\* A server that was shut down in time, and neither crashed nor was
\* terminated, says so with its exit code, also if it sees the end of its
\* input before the exit notification.
StoppedCleanly ==
    \A i \in stopped : process[i].stage = "exited" => process[i].code = 0

\* A client that is off has no process that it is not going to look at, not
\* even one that hangs, unless it is detached.  It has one when the connection
\* of a stop that timed out closed while the next server was there: the client
\* forgets the process of that one.
NothingLeftRunning ==
    phase = "off" /\ ~Detached /\ ~closedLate
        => \A i \in Processes : Alive(i) => i \in checks

\* The process of a server ends as its life went, and not without anybody
\* looking at it.
ProcessesEnd == StoppedCleanly /\ NothingLeftRunning

\* No server outlives a client that died, in whatever state it was, unless
\* its program hangs.
EndsWithClient ==
    \A i \in Processes : phase = "dead" ~> process[i].hangs \/ ~Alive(i)
=============================================================================

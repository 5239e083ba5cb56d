----------------------------- MODULE MCTransport -----------------------------
(***************************************************************************)
(* TLC instance of what carries messages: either the streams, with three   *)
(* messages, one with a longer body, or the process of the server at their *)
(* other end.  A behaviour is one of `part`; the other stays as it began.  *)
(***************************************************************************)
EXTENDS Transport

VARIABLES part, launch, clientPhase, serverProcess, connection, checks, late, process, stopped, closedLate

processVars == <<launch, clientPhase, serverProcess, connection, checks, late, process, stopped, closedLate>>
Server == INSTANCE ServerProcess WITH MaxLaunches <- 2, phase <- clientPhase

MCBodySize == <<1, 2, 1>>

MCInit ==
    /\ part \in {"streams", "process"}
    /\ StreamInit /\ Server!Init
    /\ part = "streams" => launch = CHOOSE l \in Server!Launches : TRUE
    /\ part = "process" => content = [m \in Messages |-> "plain"]
MCNext ==
    /\ UNCHANGED part
    /\ \/ part = "streams" /\ StreamNext /\ UNCHANGED processVars
       \/ part = "process" /\ Server!Next /\ UNCHANGED streamVars
MCSpec ==
    /\ MCInit /\ [][MCNext]_<<part, streamVars, processVars>>
    /\ StreamFairness /\ Server!Fairness

(* No server outlives a client that died, unless its program hangs.        *)
EndsWithClient == Server!EndsWithClient
=============================================================================

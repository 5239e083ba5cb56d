-------------------------- MODULE WorkDoneProgress --------------------------
(***************************************************************************)
(* Work done progress of one token.  ProgressPart of the client            *)
(* (client/src/common/progressPart.ts) turns the begin, report and end     *)
(* notifications of a server into a progress window of the editor; the     *)
(* reporters of server/src/common/progress.ts send them.  The token is     *)
(* made by the server (window/workDoneProgress/create, the part is then    *)
(* kept by ProgressFeature), or by the client for its initialize request   *)
(* (progressOnInitialization).                                             *)
(*                                                                         *)
(* Window.withProgress calls back later, so that a window is "starting",   *)
(* then "open" until its promise settles; window 0 stands for none.        *)
(* A percentage is a number, and None where the call gives none.           *)
(***************************************************************************)
EXTENDS Integers, Sequences, FiniteSets

CONSTANTS Percentages, None, MaxCalls

VARIABLES
    origin,       \* who made the token: "server" or "initialize"
    instance,     \* the reporter: "none", "kept" in Instances, or "done"
    cancelled,    \* the token of the server reporter is cancelled
    toClient, toServer,
    listening,    \* _lspProgressDisposable is set: the part is not finished
    created,      \* the part exists
    infinite, reported,      \* _infinite, _reported
    window,       \* whose _progress, cancel listener and _resolve it has, or 0
    windows,      \* the windows: stage, and the percentage shown
    initializing, \* the initialize request is not answered
    highest,      \* history: the highest percentage the part handled
    lost,         \* history: what of it was handled while a window started
    asked,        \* history: the user cancelled a window that listened
    calls         \* bound

vars == <<origin, instance, cancelled, toClient, toServer, listening, created, infinite,
          reported, window, windows, initializing, highest, lost, asked, calls>>

serverVars == <<instance, cancelled>>
partVars == <<listening, created, infinite, reported, window>>

-----------------------------------------------------------------------------
(* The server.                                                             *)

\* createWorkDoneProgress: the client handles the request with createHandler;
\* the reporter is made when the answer comes.  The two are one step: nothing
\* is sent for the token in between.
CreateWorkDoneProgress ==
    /\ origin = "server" /\ ~created
    /\ created' = TRUE /\ listening' = TRUE
    /\ instance' = "kept"
    /\ UNCHANGED <<origin, cancelled, toClient, toServer, infinite, reported, window,
                   windows, initializing, highest, lost, asked, calls>>

\* begin, report and done only send; done also forgets the reporter.  Nothing
\* stops a program from calling them twice or late.
Call(message) ==
    /\ created /\ instance # "none" /\ calls < MaxCalls
    /\ calls' = calls + 1
    /\ toClient' = Append(toClient, message)
    /\ instance' = IF message.kind = "end" THEN "done" ELSE instance
    /\ UNCHANGED <<origin, cancelled, toServer, partVars, windows, initializing, highest,
                   lost, asked>>
Messages == [kind : {"begin", "report"}, percentage : Percentages \cup {None},
             text : BOOLEAN]
            \cup {[kind |-> "end"]}

\* The cancel notification: only a reporter that createWorkDoneProgress made
\* has a token to cancel.
HandleCancel ==
    /\ toServer # <<>>
    /\ toServer' = Tail(toServer)
    /\ cancelled' = (cancelled \/ (instance = "kept" /\ origin = "server"))
    /\ UNCHANGED <<origin, instance, toClient, partVars, windows, initializing, highest,
                   lost, asked, calls>>

-----------------------------------------------------------------------------
(* The part.                                                               *)

Clamp(p) == IF p < 0 THEN 0 ELSE IF p > 100 THEN 100 ELSE p
Larger(a, b) == IF a > b THEN a ELSE b

\* report: a text goes alone when the progress began without percentage; else
\* only a percentage does, as the difference to what was reported, and only
\* to a window that is there.
Counts(m) == ~(infinite /\ m.text) /\ m.percentage # None
Delta(m) == IF Counts(m) THEN Larger(0, Clamp(m.percentage) - reported) ELSE 0
Report(m) ==
    /\ reported' = reported + Delta(m)
    /\ windows' = IF window = 0 THEN windows
                  ELSE [windows EXCEPT ![window].shown = @ + Delta(m)]
    /\ lost' = IF window = 0 THEN lost + Delta(m) ELSE lost

\* cleanup, and the end of the promise of the window resolve belongs to.
Finish ==
    /\ listening' = FALSE
    /\ window' = 0
    /\ windows' = IF window = 0 THEN windows
                  ELSE [windows EXCEPT ![window].stage = "closed"]
    /\ UNCHANGED <<created, infinite, reported>>

\* The handler the constructor registers for the token; what comes when it is
\* disposed is dropped.
HandleProgress ==
    /\ toClient # <<>>
    /\ toClient' = Tail(toClient)
    /\ LET m == Head(toClient)
       IN IF ~listening THEN UNCHANGED <<partVars, windows, highest, lost>>
          ELSE
             /\ CASE m.kind = "begin" ->
                       /\ infinite' = (m.percentage = None)
                       /\ windows' = Append(windows,
                              [stage |-> "starting", shown |-> 0, begin |-> m])
                       /\ UNCHANGED <<listening, created, reported, window, lost>>
                  [] m.kind = "report" ->
                       Report(m) /\ UNCHANGED <<listening, created, infinite, window>>
                  [] m.kind = "end" -> Finish /\ UNCHANGED lost
             /\ highest' = IF m.kind = "end" \/ (m.kind = "report" /\ ~Counts(m)) THEN highest
                           ELSE IF m.percentage = None THEN highest
                           ELSE Larger(highest, Clamp(m.percentage))
    /\ UNCHANGED <<origin, serverVars, toServer, initializing, asked, calls>>

\* Mutant of WindowReady: whether the part is done meanwhile is not looked at.
WindowReadyAlways(i) ==
    /\ windows[i].stage = "starting"
    /\ window' = i
    /\ reported' = reported + Delta(windows[i].begin)
    /\ windows' = [windows EXCEPT ![i].stage = "open", ![i].shown = Delta(windows[i].begin)]
    /\ UNCHANGED <<listening, created, infinite>>
    /\ UNCHANGED <<origin, serverVars, toClient, toServer, initializing, highest, lost,
                   asked, calls>>

\* The editor calls back for window i: it is opened with what the begin said,
\* unless the part is done.
WindowReady(i) ==
    /\ windows[i].stage = "starting"
    /\ IF listening
       THEN LET begin == windows[i].begin
            IN /\ window' = i
               /\ reported' = reported + Delta(begin)
               /\ windows' = [windows EXCEPT ![i].stage = "open", ![i].shown = Delta(begin)]
               /\ UNCHANGED <<listening, created, infinite>>
       ELSE windows' = [windows EXCEPT ![i].stage = "closed"] /\ UNCHANGED partVars
    /\ UNCHANGED <<origin, serverVars, toClient, toServer, initializing, highest, lost,
                   asked, calls>>

\* The user cancels an open window.  A window that a later one replaced has its
\* listener still.
UserCancels(i) ==
    /\ windows[i].stage = "open" /\ ~asked
    /\ asked' = TRUE
    /\ toServer' = Append(toServer, "cancel")
    /\ UNCHANGED <<origin, serverVars, toClient, partVars, windows, initializing, highest,
                   lost, calls>>

-----------------------------------------------------------------------------
(* Ends that do not come from the server's progress.                       *)

\* clear of ProgressFeature, on a part it still keeps.
Clear ==
    /\ origin = "server" /\ listening
    /\ Finish
    /\ UNCHANGED <<origin, serverVars, toClient, toServer, initializing, highest, lost,
                   asked, calls>>

\* The initialize request succeeded (done) or failed (cancel).
Initialized ==
    /\ origin = "initialize" /\ initializing
    /\ initializing' = FALSE
    /\ Finish
    /\ UNCHANGED <<origin, serverVars, toClient, toServer, highest, lost, asked, calls>>

-----------------------------------------------------------------------------
Init ==
    /\ origin \in {"server", "initialize"}
    /\ created = (origin = "initialize") /\ listening = created
    /\ initializing = created
    /\ instance = (IF origin = "initialize" THEN "kept" ELSE "none")
    /\ cancelled = FALSE /\ asked = FALSE
    /\ toClient = <<>> /\ toServer = <<>> /\ windows = <<>>
    /\ infinite = FALSE /\ reported = 0 /\ window = 0
    /\ highest = 0 /\ lost = 0 /\ calls = 0

Next ==
    \/ CreateWorkDoneProgress
    \/ \E m \in Messages : Call(m)
    \/ HandleCancel \/ HandleProgress
    \/ \E i \in DOMAIN windows : WindowReady(i) \/ UserCancels(i)
    \/ Clear \/ Initialized

Spec == Init /\ [][Next]_vars

-----------------------------------------------------------------------------
(* Properties.                                                             *)

\* A part that is finished, in whatever way and also while its window was
\* starting, leaves no window on the screen; a part that the server began
\* twice leaves all but the last.
NoWindowLeft ==
    created /\ ~listening /\ Len(windows) <= 1
        => \A i \in DOMAIN windows : windows[i].stage # "open"

\* A window shows the highest percentage the server has reported, less what
\* came while the window was starting: that is counted as reported and shown
\* to nobody.  It never shows more than 100.
ShownIsReported ==
    Len(windows) = 1 /\ windows[1].stage = "open"
        => windows[1].shown + lost = highest /\ windows[1].shown <= 100

\* When the user cancels, the server's token is cancelled, unless the server
\* was done by then.
CancelReachesServer ==
    asked /\ toServer = <<>> /\ origin = "server" /\ instance = "kept" => cancelled
=============================================================================

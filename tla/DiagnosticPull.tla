---------------------------- MODULE DiagnosticPull ----------------------------
(***************************************************************************)
(* The diagnostic pull model of the language client                        *)
(* (client/src/common/diagnostic.ts): the requestor that asks the server   *)
(* for the diagnostics of a document, the background scheduler that        *)
(* refreshes the documents depending on an edit, the pull of the whole     *)
(* workspace, and the editor events that drive them.                       *)
(*                                                                         *)
(* What a server reports for a document is the contents the diagnostics    *)
(* were computed from, and so is the result id of a report: two reports    *)
(* have the same id exactly if they hold the same diagnostics.  The server *)
(* sees an edit when its change notification was sent, which is when the   *)
(* pull is triggered (TextSync has the way in between).                    *)
(***************************************************************************)
EXTENDS Naturals, SequencesExt

CONSTANTS Docs,      \* the documents, all matched by the selector
          None,      \* no document, call, state, result id or diagnostics
          LastText,  \* bound: contents are 0..LastText, 0 is on disk
          MaxEvents, \* bound: editor and server events of a behaviour
          Configs    \* the configurations a behaviour may have

(***************************************************************************)
(* A configuration: the options interFileDependencies and                  *)
(* workspaceDiagnostics of the server and onChange and onFocus of the      *)
(* client; and of the environment, the documents there are, what answers   *)
(* but reports the server gives, whether the user switches editors,        *)
(* whether documents and tabs are closed, whether documents are open       *)
(* without a tab, and settled: whether a behaviour starts when the         *)
(* documents were pulled, none is opened later and the edits are those the *)
(* user types in the active editor.                                        *)
(***************************************************************************)
ASSUME DiagnosticAssumption ==
  /\ None \notin Docs
  /\ LastText \in Nat /\ MaxEvents \in Nat
  /\ Configs \subseteq [docs : SUBSET Docs,
                        interFile : BOOLEAN, workspace : BOOLEAN,
                        onChange : BOOLEAN, onFocus : BOOLEAN,
                        answers : SUBSET {"cancelled", "failed", "refused"},
                        switches : BOOLEAN, closes : BOOLEAN,
                        tabless : BOOLEAN, settled : BOOLEAN]

VARIABLES
  config,      \* the configuration, which does not change
  open, tabs,  \* the editor: open documents, and those with a tab
  active,      \* activeTextDocument
  text,        \* the contents of each document, 0 when it is closed
  version,     \* the version of each document since it was opened
  requestor,   \* per document: what DiagnosticRequestor keeps of it
  workspace,   \* the workspace pull
  errors,      \* workspaceErrorCounter
  background,  \* BackgroundScheduler
  disposed,    \* the provider is disposed
  events       \* bound: events left

editor == <<config, open, tabs, active, text, version>>
vars == <<editor, requestor, workspace, errors, background, disposed, events>>

Texts == 0..LastText
Reports == [Docs -> Texts]
Answers == {"pending", "report", "cancelled", "failed", "refused"}
MaxWorkspaceErrors == 5

\* What happens when a pull returned: add the document to the background,
\* trigger the background, go on with the background, forget the document.
Callbacks == {"none", "add", "trigger", "loop", "forget"}

\* A request to the server with the version and result id it was sent for;
\* own: the document's state is still the one the request will update.
Call == [version : Nat, id : Reports \cup {None}, own : BOOLEAN,
         cancelled : BOOLEAN, then : Callbacks,
         answer : Answers, report : Reports \cup {None}]
State == [version : Nat, id : Reports \cup {None}]
Requestor == [request : {"none", "active", "reschedule", "outDated"},
              call : Call \cup {None},
              state : State \cup {None},
              workspaceState : Reports \cup {None},
              shown : Reports \cup {None}]
Workspace == [phase : {"off", "waiting", "pending", "report", "failed"},
              ids : [Docs -> Reports \cup {None}],
              reports : [Docs -> Reports \cup {None}]]
Background == [documents : Seq(Docs), last : Docs \cup {None},
               handle : {"none", "armed", "fired"}, loose : Nat]

\* No state, call or report is None.
ASSUME NoneAssumption == None \notin State \cup Call \cup Reports

TypeOK == /\ config \in Configs
          /\ open \subseteq Docs
          /\ tabs \subseteq Docs
          /\ active \in Docs \cup {None}
          /\ text \in Reports
          /\ version \in [Docs -> Nat]
          /\ requestor \in [Docs -> Requestor]
          /\ workspace \in Workspace
          /\ errors \in 0..MaxWorkspaceErrors + 1
          /\ background \in Background
          /\ IsInjective(background.documents)
          /\ disposed \in BOOLEAN
          /\ events \in 0..MaxEvents
-----------------------------------------------------------------------------
(***************************************************************************)
(* The requestor.  An operator maps what it keeps of one document to what  *)
(* it keeps afterwards.                                                    *)
(***************************************************************************)
Tracks(r) == r.state # None
Knows(r) == Tracks(r) \/ r.request # "none"
KnowsSameVersion(r, v) ==
  \/ r.request = "none" /\ Tracks(r) /\ r.state.version = v
  \/ r.request = "reschedule"
  \/ r.request = "active" /\ r.call # None /\ r.call.version = v

\* documentStates.track keeps a state that is there.
Tracked(r, v) ==
  IF Tracks(r) THEN r ELSE [r EXCEPT !.state = [version |-> v, id |-> None]]

\* The call under way, if any, writes to a state object that is no longer
\* the document's.
Forgotten(r) ==
  [r EXCEPT !.state = None,
            !.call = IF @ = None THEN @ ELSE [@ EXCEPT !.own = FALSE]]

CancelCall(r) ==
  [r EXCEPT !.call = IF @ = None THEN @ ELSE [@ EXCEPT !.cancelled = TRUE]]

\* Mutant: a pull while a request is open does nothing.
PullOnce(r, v, then) ==
  LET t == Tracked(r, v) IN
    IF r.request = "none"
    THEN [t EXCEPT !.request = "active",
                   !.call = [version |-> v, id |-> t.state.id, own |-> TRUE,
                             cancelled |-> FALSE, then |-> then,
                             answer |-> "pending", report |-> None]]
    ELSE t

\* pull and the part of pullAsync up to its await.
Pull(r, v, then) ==
  LET t == Tracked(r, v) IN
    CASE r.request = "none" ->
           [t EXCEPT !.request = "active",
                     !.call = [version |-> v, id |-> t.state.id, own |-> TRUE,
                               cancelled |-> FALSE, then |-> then,
                               answer |-> "pending", report |-> None]]
      [] r.request = "active" ->
           [CancelCall(t) EXCEPT !.request = "reschedule"]
      [] OTHER -> [t EXCEPT !.request = "reschedule"]

\* Mutant: the diagnostics are cleared, their result id is kept.
ForgetDocumentKept(r, v) ==
  [r EXCEPT !.request = IF @ = "none" THEN @ ELSE "outDated",
            !.shown = None]

\* forgetDocument
ForgetDocument(r, v) ==
  IF config.workspace
  THEN LET pulled == IF r.request = "none" THEN Pull(r, v, "forget")
                     ELSE [r EXCEPT !.request = "reschedule"]
       IN [pulled EXCEPT !.workspaceState = None]
  ELSE LET cancelled == IF r.request = "active" THEN CancelCall(r) ELSE r
       IN Forgotten([cancelled EXCEPT
                      !.request = IF @ = "none" THEN @ ELSE "outDated",
                      !.shown = None])
-----------------------------------------------------------------------------
(***************************************************************************)
(* The background scheduler.  timeoutHandle is a timer that is armed or    *)
(* that fired and whose pull has not returned; loose are armed timers that *)
(* no handle denotes any more.                                             *)
(***************************************************************************)
Matches(d) == d \in tabs
FirstOf(b) == IF b.documents = <<>> THEN None ELSE Head(b.documents)
LastOf(b) == IF b.documents = <<>> THEN None ELSE Last(b.documents)
Without(q, d) ==
  IF Contains(q, d) THEN RemoveAt(q, CHOOSE i \in 1..Len(q) : q[i] = d) ELSE q
Touched(b, d) == [b EXCEPT !.documents = Append(Without(@, d), d)]

Stop(b) == [b EXCEPT !.handle = "none", !.last = None]

Add(b, d) ==
  IF disposed \/ Contains(b.documents, d) THEN b
  ELSE [Touched(b, d) EXCEPT !.last = d]

\* The document before one that was deleted from the list: undefined.
Before(b, d) ==
  IF Contains(b.documents, d) /\ FirstOf(b) # d
  THEN b.documents[IndexFirstSubSeq(<<d>>, b.documents) - 1] ELSE None

RemoveDoc(b, d) ==
  LET rest == [b EXCEPT !.documents = Without(@, d)]
      before == Before(rest, d)
  IN CASE rest.documents = <<>> -> Stop(rest)
       [] rest.documents # <<>> /\ d = b.last ->
            IF before = None THEN Stop(rest)
            ELSE [rest EXCEPT !.last = before]
       [] OTHER -> rest

RunLoop(b) ==
  CASE disposed -> b
    [] ~disposed /\ b.documents = <<>> -> Stop(b)
    [] OTHER -> IF b.last # None /\ b.handle = "none"
                THEN [b EXCEPT !.handle = "armed"] ELSE b

Trigger(b) == RunLoop([b EXCEPT !.last = LastOf(b)])

\* The pull of a timer returned.
LoopReturned(b, d) ==
  LET t == [Touched(b, d) EXCEPT !.handle = "none",
                                 !.loose = @ + (IF b.handle = "armed" THEN 1
                                                ELSE 0)]
  IN IF d = t.last THEN t ELSE RunLoop(t)

AddIfNeeded(b, d, current) ==
  IF Matches(d) /\ config.interFile /\ current # d /\ config.onChange
  THEN Add(b, d) ELSE b

CallBack(b, d, then) ==
  CASE then = "add" -> AddIfNeeded(b, d, active)
    [] then = "trigger" -> Trigger(b)
    [] then = "loop" -> LoopReturned(b, d)
    [] OTHER -> b

\* The background after a call of pull: pull returns at once if a request is
\* open, and its callback runs.
PullReturned(b, d, then) ==
  IF requestor[d].request = "none" THEN b ELSE CallBack(b, d, then)
-----------------------------------------------------------------------------
(***************************************************************************)
(* Events of the editor.                                                   *)
(***************************************************************************)
Fresh == [request |-> "none", call |-> None, state |-> None,
          workspaceState |-> None, shown |-> None]
NoReports == [d \in Docs |-> None]
WorkspacePull(phase, ids) ==
  [phase |-> phase, ids |-> ids, reports |-> NoReports]

OnDisk == [d \in Docs |-> 0]
Pulled == [Fresh EXCEPT !.state = [version |-> 1, id |-> OnDisk],
                        !.shown = OnDisk]
NewBackground(documents) ==
  [documents |-> documents, last |-> None, handle |-> "none", loose |-> 0]

\* The provider pulls the documents that are open; or has pulled them.
Init ==
  /\ config \in Configs
  /\ open \in SUBSET config.docs
  /\ tabs = open
  /\ active \in open \cup {None}
  /\ text = OnDisk
  /\ version = [d \in Docs |-> 1]
  /\ requestor = [d \in Docs |->
                    CASE d \notin open -> Fresh
                      [] d \in open /\ config.settled -> Pulled
                      [] OTHER -> Pull(Fresh, 1, "add")]
  /\ workspace = WorkspacePull(IF config.workspace THEN "pending" ELSE "off",
                               NoReports)
  /\ errors = 0
  /\ background = IF config.settled /\ config.interFile
                  THEN NewBackground(SetToSeq(open \ {active}))
                  ELSE NewBackground(<<>>)
  /\ disposed = FALSE
  /\ events = MaxEvents

Event == /\ ~disposed
         /\ events > 0
         /\ events' = events - 1
Rest == UNCHANGED <<config, workspace, errors, disposed>>

\* Document d is pulled by a listener.
PullBy(d, v, then) ==
  /\ requestor' = [requestor EXCEPT ![d] = Pull(@, v, then)]
  /\ background' = PullReturned(background, d, then)
NoPull == UNCHANGED <<requestor, background>>

\* A document opens and its open notification was sent.
OpenDoc(d) ==
  /\ Event /\ Rest
  /\ d \in config.docs \ open
  /\ ~config.settled
  /\ d \in tabs \/ config.tabless
  /\ open' = open \cup {d}
  /\ version' = [version EXCEPT ![d] = 1]
  /\ IF KnowsSameVersion(requestor[d], 1) \/ ~Matches(d) THEN NoPull
     ELSE PullBy(d, 1, "add")
  /\ UNCHANGED <<tabs, active, text>>

\* visibleDocuments.onOpen
ShowTab(d) ==
  /\ Event /\ Rest
  /\ d \in config.docs \ tabs
  /\ tabs' = tabs \cup {d}
  /\ IF Knows(requestor[d]) \/ d \notin open THEN NoPull
     ELSE PullBy(d, version[d], "add")
  /\ UNCHANGED <<open, active, text, version>>

CleanUpDocument(d) ==
  /\ background' = RemoveDoc(background, d)
  /\ requestor' = [requestor EXCEPT ![d] =
                     IF Knows(@) THEN ForgetDocument(@, version[d]) ELSE @]

\* visibleDocuments.onClose
HideTab(d) ==
  /\ Event /\ Rest
  /\ config.closes
  /\ d \in tabs
  /\ tabs' = tabs \ {d}
  /\ CleanUpDocument(d)
  /\ UNCHANGED <<open, active, text, version>>

\* A document closes, with or without its tab; what was not saved is lost.
CloseDoc(d) ==
  /\ Event /\ Rest
  /\ config.closes
  /\ d \in open
  /\ open' = open \ {d}
  /\ text' = [text EXCEPT ![d] = 0]
  /\ CleanUpDocument(d)
  /\ UNCHANGED <<tabs, active, version>>

\* onDidChangeActiveTextEditor
Activate(d) ==
  /\ Event /\ Rest
  /\ config.switches
  /\ d # active
  /\ d = None \/ d \in open \cap tabs
  /\ active' = d
  /\ LET left == IF active = None THEN background
                 ELSE AddIfNeeded(background, active, d)
     IN background' = IF d = None THEN left ELSE RemoveDoc(left, d)
  /\ requestor' =
       IF d # None /\ config.onFocus /\ Matches(d) /\ Knows(requestor[d])
       THEN [requestor EXCEPT ![d] = Pull(@, version[d], "none")]
       ELSE requestor
  /\ UNCHANGED <<open, tabs, text, version>>

\* An edit, and its change notification was sent.
Edit(d, t) ==
  /\ Event /\ Rest
  /\ d \in open /\ t # text[d]
  /\ config.settled => d = active
  /\ text' = [text EXCEPT ![d] = t]
  /\ version' = [version EXCEPT ![d] = @ + 1]
  /\ IF config.onChange /\ Knows(requestor[d])
     THEN PullBy(d, version[d] + 1, "trigger") ELSE NoPull
  /\ UNCHANGED <<open, tabs, active>>

\* The server asks for a refresh: onDidChangeDiagnosticsEmitter fires.
Refresh ==
  /\ Event /\ Rest
  /\ requestor' = [d \in Docs |-> IF d \in open /\ Matches(d)
                                  THEN Pull(requestor[d], version[d], "none")
                                  ELSE requestor[d]]
  /\ UNCHANGED <<open, tabs, active, text, version, background>>
-----------------------------------------------------------------------------
(***************************************************************************)
(* Answers.  The server computes a report at any time between request and  *)
(* answer.                                                                 *)
(***************************************************************************)
Analysis(d) == [e \in Docs |-> IF e = d \/ config.interFile THEN text[e]
                               ELSE 0]

ServerAnswers(d) ==
  /\ requestor[d].call # None /\ requestor[d].call.answer = "pending"
  /\ \/ /\ requestor' = [requestor EXCEPT ![d].call.answer = "report",
                                          ![d].call.report = Analysis(d)]
        /\ UNCHANGED events
     \/ /\ requestor[d].call.cancelled
        /\ requestor' = [requestor EXCEPT ![d].call.answer = "cancelled"]
        /\ UNCHANGED events
     \/ /\ events > 0 /\ events' = events - 1
        /\ \E a \in config.answers :
             requestor' = [requestor EXCEPT ![d].call.answer = a]
  /\ UNCHANGED <<editor, workspace, errors, background, disposed>>

\* Mutant: the visibility of the document is not looked at.
FinishedHidden(r, d, cancelled) ==
  LET done == [r EXCEPT !.request = "none", !.call = None] IN
    IF cancelled THEN Pull(done, version[d], "none")
    ELSE [done EXCEPT !.shown = r.call.report]

\* Mutant: the rescheduled pull is never done.
FinishedForGood(r, d, cancelled) ==
  LET done == [r EXCEPT !.request = "none", !.call = None] IN
    IF cancelled \/ d \notin tabs THEN [done EXCEPT !.state = None]
    ELSE [done EXCEPT !.shown = r.call.report]

\* The request returned a report, null for one that was cancelled: pullAsync
\* takes the request out, forgets a document that is not visible, and shows
\* and reschedules as the request's state says.
Finished(r, d, cancelled) ==
  LET after == IF cancelled THEN "reschedule" ELSE r.request
      done == [r EXCEPT !.request = "none", !.call = None]
      reported ==
        IF cancelled THEN done
        ELSE [done EXCEPT
               !.shown = IF r.call.report = r.call.id THEN @
                         ELSE r.call.report,
               !.state = IF r.call.own
                         THEN [version |-> r.call.version,
                               id |-> r.call.report]
                         ELSE @]
  IN CASE d \notin tabs -> [done EXCEPT !.state = None]
       [] d \in tabs /\ after = "outDated" -> done
       [] OTHER -> IF after = "reschedule" /\ ~disposed
                   THEN Pull(reported, version[d], "none") ELSE reported

Receive(d) ==
  LET r == requestor[d]
      cancelled == \/ r.call.cancelled /\ ~disposed
                   \/ r.call.answer = "cancelled"
      finished == Finished(r, d, cancelled)
  IN /\ r.call # None /\ r.call.answer \in {"report", "cancelled"}
     /\ requestor' = [requestor EXCEPT ![d] =
                        IF r.call.then = "forget" THEN Forgotten(finished)
                        ELSE finished]
     /\ background' = CallBack(background, d, r.call.then)
     /\ UNCHANGED <<editor, workspace, errors, disposed, events>>

\* An error that is not a plain cancellation, and the answer of a server that
\* does not want to be asked again, are thrown on: the open request stays.
ReceiveError(d) ==
  LET r == requestor[d] IN
    /\ r.call # None /\ r.call.answer \in {"failed", "refused"}
    /\ requestor' = [requestor EXCEPT ![d].call = None]
    /\ background' = IF r.call.then = "loop" THEN LoopReturned(background, d)
                     ELSE background
    /\ UNCHANGED <<editor, workspace, errors, disposed, events>>

\* The timer of the background fires: it pulls the first document.
Loop(b) ==
  LET d == FirstOf(b) IN
    IF d = None THEN /\ background' = b
                     /\ UNCHANGED requestor
    ELSE /\ requestor' = [requestor EXCEPT ![d] =
                            IF disposed THEN @
                            ELSE Pull(@, version[d], "loop")]
         /\ background' = IF disposed THEN LoopReturned(b, d)
                          ELSE PullReturned(b, d, "loop")

TimerFires ==
  /\ background.handle = "armed"
  /\ Loop([background EXCEPT !.handle = "fired"])
  /\ UNCHANGED <<editor, workspace, errors, disposed, events>>

LooseTimerFires ==
  /\ background.loose > 0
  /\ Loop([background EXCEPT !.loose = @ - 1])
  /\ UNCHANGED <<editor, workspace, errors, disposed, events>>
-----------------------------------------------------------------------------
(***************************************************************************)
(* The workspace pull: a call, then 2 s of rest, until it is disposed or   *)
(* failed too often.                                                       *)
(***************************************************************************)
\* getAllResultIds: the id of the document's pull comes before the one of
\* the workspace's.
PreviousIds ==
  [d \in Docs |-> LET r == requestor[d] IN
     CASE r.workspaceState = None -> None
       [] r.workspaceState # None /\ Tracks(r) -> r.state.id
       [] OTHER -> r.workspaceState]

PullWorkspace ==
  /\ workspace.phase = "waiting"
  /\ workspace' = WorkspacePull("pending", PreviousIds)
  /\ UNCHANGED <<editor, requestor, errors, background, disposed, events>>

ServerAnswersWorkspace ==
  /\ workspace.phase = "pending"
  /\ \/ /\ workspace' = [workspace EXCEPT
                            !.phase = "report",
                            !.reports = [d \in Docs |-> Analysis(d)]]
        /\ UNCHANGED events
     \/ /\ events > 0 /\ events' = events - 1
        /\ "failed" \in config.answers
        /\ workspace' = [workspace EXCEPT !.phase = "failed"]
  /\ UNCHANGED <<editor, requestor, errors, background, disposed>>

Waiting == WorkspacePull(IF disposed THEN "off" ELSE "waiting", NoReports)

\* A full report is shown unless the document's own pulls are; the id is
\* kept in any case.
ReceiveWorkspace ==
  /\ workspace.phase = "report"
  /\ workspace' = Waiting
  /\ requestor' =
       [d \in Docs |->
          LET r == requestor[d]
              report == workspace.reports[d]
              full == report # workspace.ids[d]
          IN IF disposed THEN r
             ELSE [r EXCEPT !.shown = IF full /\ ~Tracks(r) THEN report
                                      ELSE @,
                            !.workspaceState = report]]
  /\ UNCHANGED <<editor, errors, background, disposed, events>>

ReceiveWorkspaceError ==
  /\ workspace.phase = "failed"
  /\ errors' = errors + 1
  /\ workspace' = IF errors' > MaxWorkspaceErrors
                  THEN WorkspacePull("off", NoReports) ELSE Waiting
  /\ UNCHANGED <<editor, requestor, background, disposed, events>>

\* The feature is unregistered or the client stops.
Dispose ==
  /\ ~disposed
  /\ disposed' = TRUE
  /\ workspace' = IF workspace.phase = "waiting"
                  THEN WorkspacePull("off", NoReports) ELSE workspace
  /\ background' = [Stop(background) EXCEPT !.documents = <<>>]
  /\ requestor' =
       [d \in Docs |->
          LET r == requestor[d]
              c == IF r.request = "active" THEN CancelCall(r) ELSE r
          IN [c EXCEPT
              !.request = IF @ = "none" THEN @ ELSE "outDated",
              !.shown = None]]
  /\ UNCHANGED <<editor, errors, events>>

Next ==
  \/ \E d \in Docs : \/ OpenDoc(d) \/ ShowTab(d) \/ HideTab(d) \/ CloseDoc(d)
                     \/ ServerAnswers(d) \/ Receive(d) \/ ReceiveError(d)
                     \/ \E t \in Texts : Edit(d, t)
  \/ \E d \in Docs \cup {None} : Activate(d)
  \/ Refresh \/ TimerFires \/ LooseTimerFires
  \/ PullWorkspace \/ ServerAnswersWorkspace
  \/ ReceiveWorkspace \/ ReceiveWorkspaceError
  \/ Dispose

Spec == Init /\ [][Next]_vars

\* The server answers, the client handles answers, and timers fire.
FairSpec ==
  /\ Spec
  /\ \A d \in Docs : WF_vars(ServerAnswers(d)) /\ WF_vars(Receive(d))
  /\ WF_vars(TimerFires)
  /\ WF_vars(PullWorkspace \/ ServerAnswersWorkspace \/ ReceiveWorkspace)
-----------------------------------------------------------------------------
(***************************************************************************)
(* Properties.                                                             *)
(***************************************************************************)
Visible(d) == d \in open \cap tabs /\ ~disposed
Shown(d) == requestor[d].shown
AtRest(d) == requestor[d].call = None

\* What is shown for d was computed from its contents.
Current(d) == Shown(d) # None /\ Shown(d)[d] = text[d]

\* A server that answers every request or asks for another one, and edits
\* that are pulled; with workspace diagnostics, no document is closed.
Dependable == /\ config.answers \subseteq {"cancelled"}
              /\ config.onChange
              /\ ~(config.workspace /\ config.closes)

\* A visible document for which no request is under way shows the
\* diagnostics of its contents: no edit, open or tab is missed by the
\* cancelling and rescheduling of requests.
RestingIsCurrent ==
  Dependable => \A d \in Docs : Visible(d) /\ AtRest(d) => Current(d)

\* Without workspace diagnostics nothing is shown for a document without a
\* tab, whenever the answers to its requests arrive.
HiddenShowsNothing ==
  ~config.workspace => \A d \in Docs \ tabs : Shown(d) = None

\* The result id the next request of a document carries denotes the
\* diagnostics shown for it: an unchanged report leaves the right ones.
IdDenotesShown ==
  ~disposed => \A d \in Docs :
    requestor[d].state # None /\ requestor[d].state.id # None =>
      requestor[d].state.id = Shown(d)

\* Without workspace diagnostics nothing is shown for a document without a tab.
OnlyVisibleShown == TypeOK /\ HiddenShowsNothing

\* Once the provider is disposed it sends nothing and shows nothing, whatever
\* answers, callbacks and timers are still under way.
SilentWhenDisposed ==
  [][disposed => \A d \in Docs : /\ AtRest(d) => AtRest(d)'
                                 /\ UNCHANGED Shown(d)]_vars

\* A visible document comes to show the diagnostics of its contents.
BecomesCurrent ==
  \A d \in Docs : Visible(d) /\ Dependable ~> Current(d) \/ ~Visible(d)

\* diagnostic.ts:435: "Cancel the current request and reschedule a new one
\* when the old one returned."  A request is rescheduled only while the old
\* one is under way.
RescheduledIsPulled ==
  \A d \in Docs : requestor[d].request = "reschedule" => ~AtRest(d)

\* protocol.diagnostic.ts: with dependencies between files "editing code in
\* one file can result in a different diagnostic set in another file".  When
\* nothing is under way every visible document shows the diagnostics computed
\* from what all documents hold.
CurrentAcrossFiles ==
  (/\ Dependable
   /\ background.handle = "none" /\ background.loose = 0
   /\ \A d \in Docs : AtRest(d)) =>
  \A d \in Docs : Visible(d) => Shown(d) = Analysis(d)
=============================================================================

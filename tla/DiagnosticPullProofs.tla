------------------------ MODULE DiagnosticPullProofs ------------------------
(***************************************************************************)
(* DiagnosticPull, for any documents, texts, events and configurations:    *)
(* what is shown for a visible document without a request under way is     *)
(* current (RestingIsCurrent), the result id sent next denotes what is     *)
(* shown (IdDenotesShown), nothing is shown for a document without a tab   *)
(* (OnlyVisibleShown), and a disposed provider is silent                   *)
(* (SilentWhenDisposed).                                                   *)
(*                                                                         *)
(* All of it is about one document at a time: what the requestor keeps of  *)
(* it, whether it is open and has a tab, and its text.  Fits says what     *)
(* holds of these between two steps.                                       *)
(***************************************************************************)
EXTENDS DiagnosticPull, SequenceLemmas, TLAPS

\* The call under way is one of an open request.  Either the state it will
\* update is still the document's, which has kept its result id since, or the
\* document was forgotten and has no result id yet.
CallFits(r) ==
  r.call # None =>
    /\ r.request # "none"
    /\ r.call.then = "forget" => config.workspace /\ config.closes
    /\ IF r.call.own THEN Tracks(r) /\ r.state.id = r.call.id
       ELSE Tracks(r) => r.state.id = None

\* The result id of a document is that of the diagnostics shown for it.
IdFits(r) == Tracks(r) /\ r.state.id # None => r.state.id = r.shown

\* Nothing is shown for a document that has no tab, or that the requestor
\* does not know any more or will not know when its request has returned.
HiddenFits(r, hasTab) ==
  ~config.workspace =>
    /\ ~hasTab \/ ~Knows(r) \/ r.request = "outDated" => r.shown = None
    /\ r.request \in {"active", "reschedule"} => Tracks(r)

\* With a dependable server: a request is active until something happens
\* that cancels its call; if it is active, its report will be current; and
\* without a request, what is shown for a document that has a state is.
CurrentFits(d, r, isOpen, hasTab, t) ==
  Dependable =>
    /\ r.request = "none" <=> r.call = None
    /\ r.request = "none" /\ ~hasTab => ~Tracks(r)
    /\ isOpen /\ hasTab => Knows(r)
    /\ r.call # None =>
         /\ r.call.answer \in {"pending", "report", "cancelled"}
         /\ r.request = "active" <=> ~r.call.cancelled
         /\ r.request = "active" => r.call.own
    /\ r.request = "active" /\ r.call.answer = "report"
         => r.call.report # None /\ r.call.report[d] = t
    /\ r.request = "none" /\ Tracks(r) => r.shown # None /\ r.shown[d] = t

Fits(d, r, isOpen, hasTab, t) ==
  /\ CallFits(r) /\ IdFits(r) /\ HiddenFits(r, hasTab)
  /\ CurrentFits(d, r, isOpen, hasTab, t)

AllFit == \A d \in Docs : Fits(d, requestor[d], d \in open, d \in tabs, text[d])

\* Once the provider is disposed every request is outdated and nothing is shown.
DisposedFits ==
  \A d \in Docs : /\ requestor[d].request \in {"none", "outDated"}
                  /\ requestor[d].call # None => requestor[d].request # "none"
                  /\ requestor[d].shown = None

\* A server without workspace diagnostics is not asked for them, nor is one
\* that failed too often.
WorkspaceFits ==
  /\ ~config.workspace => workspace.phase = "off"
  /\ errors > MaxWorkspaceErrors => workspace.phase = "off"

\* TypeOK without the background, on which none of this depends.
Types == /\ config \in Configs
         /\ open \subseteq Docs /\ tabs \subseteq Docs
         /\ active \in Docs \cup {None}
         /\ text \in Reports /\ version \in [Docs -> Nat]
         /\ requestor \in [Docs -> Requestor]
         /\ workspace \in Workspace
         /\ errors \in 0..MaxWorkspaceErrors + 1
         /\ disposed \in BOOLEAN
         /\ events \in 0..MaxEvents

IndInv == /\ Types /\ WorkspaceFits
          /\ disposed => DisposedFits
          /\ ~disposed => AllFit
-----------------------------------------------------------------------------
(* What the operators make of what the requestor keeps of a document.       *)

\* The fields after a pull.
LEMMA PullFields ==
  ASSUME NEW r \in Requestor, NEW v \in Nat, NEW then \in Callbacks
  PROVE  LET p == Pull(r, v, then)
             s == IF Tracks(r) THEN r.state ELSE [version |-> v, id |-> None]
         IN /\ p \in Requestor
            /\ p.state = s /\ s \in State /\ s # None
            /\ p.shown = r.shown
            /\ r.request = "none"
                 => /\ p.request = "active"
                    /\ p.call = [version |-> v, id |-> s.id, own |-> TRUE,
                                 cancelled |-> FALSE, then |-> then,
                                 answer |-> "pending", report |-> None]
                    /\ p.call # None
            /\ r.request # "none" => p.request = "reschedule"
            /\ r.request = "active" /\ r.call # None
                 => p.call = [r.call EXCEPT !.cancelled = TRUE] /\ p.call # None
            /\ r.request = "active" /\ r.call = None => p.call = None
            /\ r.request \notin {"none", "active"} => p.call = r.call
  <1> DEFINE t == Tracked(r, v)
             s == IF Tracks(r) THEN r.state ELSE [version |-> v, id |-> None]
             p == Pull(r, v, then)
  <1>1. /\ t \in Requestor /\ t.state = s /\ s \in State /\ s # None
        /\ t.shown = r.shown /\ t.call = r.call /\ t.request = r.request
    BY NoneAssumption DEF Tracked, Tracks, Requestor, State
  <1> HIDE DEF t, s, p
  <1>2. CASE r.request = "none"
    <2> DEFINE c == [version |-> v, id |-> s.id, own |-> TRUE,
                     cancelled |-> FALSE, then |-> then,
                     answer |-> "pending", report |-> None]
    <2>1. p = [t EXCEPT !.request = "active", !.call = c]
      BY <1>1, <1>2 DEF Pull, p, t
    <2>2. s.id \in Reports \cup {None}
      BY <1>1 DEF State
    <2>3. c \in Call
      BY <2>2 DEF Call, Answers
    <2>4. c # None
      BY <2>3, NoneAssumption
    <2> HIDE DEF c
    <2>5. /\ p \in Requestor /\ p.state = s /\ p.shown = r.shown
          /\ p.request = "active" /\ p.call = c
      BY <1>1, <2>1, <2>3 DEF Requestor
    <2> QED
      BY <1>1, <1>2, <2>4, <2>5 DEF c, p, s
  <1>3. CASE r.request = "active" /\ r.call = None
    <2>1. p = [CancelCall(t) EXCEPT !.request = "reschedule"]
      BY <1>3 DEF Pull, p, t
    <2>2. CancelCall(t) = [t EXCEPT !.call = None]
      BY <1>1, <1>3 DEF CancelCall
    <2>3. /\ p \in Requestor /\ p.state = s /\ p.shown = r.shown
          /\ p.request = "reschedule" /\ p.call = None
      BY <1>1, <1>3, <2>1, <2>2 DEF Requestor
    <2> QED
      BY <1>1, <1>3, <2>3 DEF p, s
  <1>4. CASE r.request = "active" /\ r.call # None
    <2> DEFINE c == [r.call EXCEPT !.cancelled = TRUE]
    <2>1. p = [CancelCall(t) EXCEPT !.request = "reschedule"]
      BY <1>4 DEF Pull, p, t
    <2>2. c \in Call /\ c # None
      BY <1>4, NoneAssumption DEF Requestor, Call
    <2>3. CancelCall(t) = [t EXCEPT !.call = c]
      BY <1>1, <1>4 DEF CancelCall
    <2> HIDE DEF c
    <2>4. /\ p \in Requestor /\ p.state = s /\ p.shown = r.shown
          /\ p.request = "reschedule" /\ p.call = c
      BY <1>1, <2>1, <2>2, <2>3 DEF Requestor
    <2> QED
      BY <1>1, <1>4, <2>2, <2>4 DEF c, p, s
  <1>5. CASE r.request \notin {"none", "active"}
    <2>1. p = [t EXCEPT !.request = "reschedule"]
      BY <1>5 DEF Pull, p, t
    <2>2. /\ p \in Requestor /\ p.state = s /\ p.shown = r.shown
          /\ p.request = "reschedule" /\ p.call = r.call
      BY <1>1, <2>1 DEF Requestor
    <2> QED
      BY <1>1, <1>5, <2>2 DEF p, s
  <1> QED
    BY <1>2, <1>3, <1>4, <1>5

\* A pull that listeners and timers make keeps what holds of a document,
\* whatever has become of it since: the pull under way is cancelled.
LEMMA PullKeeps ==
  ASSUME NEW d \in Docs, NEW r \in Requestor, NEW v \in Nat, NEW then \in Callbacks,
         then = "forget" => config.workspace /\ config.closes,
         NEW o \in BOOLEAN, NEW h \in BOOLEAN, NEW t, Fits(d, r, o, h, t),
         NEW o2 \in BOOLEAN, NEW h2 \in BOOLEAN, NEW t2, HiddenFits(r, h2)
  PROVE  /\ Pull(r, v, then) \in Requestor
         /\ Fits(d, Pull(r, v, then), o2, h2, t2)
  <1> DEFINE p == Pull(r, v, then)
             s == IF Tracks(r) THEN r.state ELSE [version |-> v, id |-> None]
  <1>1. /\ p \in Requestor
        /\ p.state = s /\ s \in State /\ s # None
        /\ p.shown = r.shown
        /\ r.request = "none"
             => /\ p.request = "active"
                /\ p.call = [version |-> v, id |-> s.id, own |-> TRUE,
                             cancelled |-> FALSE, then |-> then,
                             answer |-> "pending", report |-> None]
                /\ p.call # None
        /\ r.request # "none" => p.request = "reschedule"
        /\ r.request = "active" /\ r.call # None
             => p.call = [r.call EXCEPT !.cancelled = TRUE] /\ p.call # None
        /\ r.request = "active" /\ r.call = None => p.call = None
        /\ r.request \notin {"none", "active"} => p.call = r.call
    BY PullFields
  <1> HIDE DEF p
  <1>2. /\ CallFits(r) /\ IdFits(r) /\ CurrentFits(d, r, o, h, t)
        /\ r.call = None \/ r.call \in Call
        /\ r.request \in {"none", "active", "reschedule", "outDated"}
    BY DEF Fits, Requestor
  <1>3. Tracks(p) /\ Knows(p) /\ p.request # "none"
    BY <1>1 DEF Tracks, Knows
  <1>4. CallFits(p)
    <2>1. CASE r.request = "none"
      BY <1>1, <1>3, <2>1 DEF CallFits
    <2>2. CASE r.request # "none" /\ r.call # None
      <3>1. /\ p.call # None /\ p.call.own = r.call.own /\ p.call.id = r.call.id
            /\ p.call.then = r.call.then
        BY <1>1, <1>2, <2>2 DEF Call
      <3>2. CASE r.call.own
        BY <1>1, <1>2, <1>3, <2>2, <3>1, <3>2 DEF CallFits
      <3>3. CASE ~r.call.own
        BY <1>1, <1>2, <1>3, <2>2, <3>1, <3>3 DEF CallFits
      <3> QED
        BY <3>2, <3>3
    <2>3. CASE r.request # "none" /\ r.call = None
      BY <1>1, <1>2, <2>3 DEF CallFits
    <2> QED
      BY <2>1, <2>2, <2>3
  <1>5. IdFits(p)
    BY <1>1, <1>2 DEF IdFits, Tracks
  <1>6. HiddenFits(p, h2)
    BY <1>1, <1>2, <1>3 DEF HiddenFits, Knows
  <1>7. ASSUME Dependable PROVE CurrentFits(d, p, o2, h2, t2)
    <2>1. CASE r.request = "none"
      BY <1>1, <1>3, <2>1 DEF CurrentFits
    <2>2. CASE r.request # "none"
      <3>1. r.call # None /\ r.call \in Call
        BY <1>2, <1>7, <2>2 DEF CurrentFits
      <3>2. /\ p.call # None /\ p.call.own = r.call.own
            /\ p.call.answer = r.call.answer /\ p.call.report = r.call.report
            /\ p.call.cancelled = (r.request = "active" \/ r.call.cancelled)
        BY <1>1, <1>2, <2>2, <3>1 DEF Call
      <3>3. p.call.cancelled /\ r.call.answer \in {"pending", "report", "cancelled"}
        BY <1>2, <1>7, <2>2, <3>1, <3>2 DEF CurrentFits
      <3> QED
        BY <1>1, <1>3, <2>2, <3>2, <3>3 DEF CurrentFits
    <2> QED
      BY <2>1, <2>2
  <1>8. CurrentFits(d, p, o2, h2, t2)
    BY <1>7 DEF CurrentFits
  <1> QED
    BY <1>1, <1>4, <1>5, <1>6, <1>8 DEF Fits, p

\* A document that the requestor does not know and that is not visible fits.
LEMMA UnknownFits ==
  ASSUME NEW d \in Docs, NEW r \in Requestor, ~Knows(r),
         NEW o \in BOOLEAN, NEW h \in BOOLEAN, NEW t, Fits(d, r, o, h, t),
         NEW o2 \in BOOLEAN, NEW h2 \in BOOLEAN, ~(o2 /\ h2), NEW t2
  PROVE  Fits(d, r, o2, h2, t2)
  BY DEF Fits, CallFits, IdFits, HiddenFits, CurrentFits, Knows

\* Forgetting leaves no state, and no claim of the call on the next one.
LEMMA ForgottenFields ==
  ASSUME NEW r \in Requestor
  PROVE  LET f == Forgotten(r)
         IN /\ f \in Requestor /\ f.state = None
            /\ f.request = r.request /\ f.shown = r.shown
            /\ r.call = None => f.call = None
            /\ r.call # None => f.call # None /\ f.call = [r.call EXCEPT !.own = FALSE]
  <1>1. CASE r.call = None
    BY <1>1 DEF Forgotten, Requestor
  <1>2. CASE r.call # None
    <2> DEFINE c == [r.call EXCEPT !.own = FALSE]
    <2>1. c \in Call /\ c # None
      BY <1>2, NoneAssumption DEF Requestor, Call
    <2>2. Forgotten(r) = [r EXCEPT !.state = None, !.call = c]
      BY <1>2 DEF Forgotten
    <2> HIDE DEF c
    <2>3. /\ Forgotten(r) \in Requestor /\ Forgotten(r).state = None
          /\ Forgotten(r).request = r.request /\ Forgotten(r).shown = r.shown
          /\ Forgotten(r).call = c
      BY <2>1, <2>2 DEF Requestor
    <2> QED
      BY <1>2, <2>1, <2>3 DEF c
  <1> QED
    BY <1>1, <1>2

\* Closing a document or its tab: with workspace diagnostics, its state is
\* pulled once more and then forgotten; without, it is forgotten at once and
\* what is shown for it goes.
LEMMA ForgetKeeps ==
  ASSUME NEW d \in Docs, NEW r \in Requestor, NEW v \in Nat,
         config.closes, Knows(r),
         NEW o \in BOOLEAN, NEW h \in BOOLEAN, NEW t, Fits(d, r, o, h, t),
         NEW o2 \in BOOLEAN, NEW h2 \in BOOLEAN, ~(o2 /\ h2), NEW t2
  PROVE  /\ ForgetDocument(r, v) \in Requestor
         /\ Fits(d, ForgetDocument(r, v), o2, h2, t2)
  <1> DEFINE f == ForgetDocument(r, v)
  <1>0. /\ CallFits(r) /\ IdFits(r) /\ CurrentFits(d, r, o, h, t)
        /\ r.call = None \/ r.call \in Call
        /\ r.request \in {"none", "active", "reschedule", "outDated"}
    BY DEF Fits, Requestor
  <1>1. CASE config.workspace
    <2> DEFINE p == IF r.request = "none" THEN Pull(r, v, "forget")
                    ELSE [r EXCEPT !.request = "reschedule"]
    <2>1. f = [p EXCEPT !.workspaceState = None]
      BY <1>1 DEF ForgetDocument
    <2>2. ~Dependable
      BY <1>1 DEF Dependable
    <2>3. p \in Requestor /\ CallFits(p) /\ IdFits(p)
      <3>1. CASE r.request = "none"
        <4>1. HiddenFits(r, h2) /\ "forget" \in Callbacks
          BY <1>1 DEF HiddenFits, Callbacks
        <4> QED
          BY <1>1, <3>1, <4>1, PullKeeps DEF Fits
      <3>2. CASE r.request # "none"
        BY <1>0, <3>2 DEF CallFits, IdFits, Tracks, Requestor
      <3> QED
        BY <3>1, <3>2
    <2> HIDE DEF p
    <2>4. /\ f \in Requestor /\ f.call = p.call /\ f.request = p.request
          /\ f.state = p.state /\ f.shown = p.shown
      BY <2>1, <2>3 DEF Requestor
    <2> QED
      BY <1>1, <2>2, <2>3, <2>4
         DEF Fits, CallFits, IdFits, HiddenFits, CurrentFits, Tracks
  <1>2. CASE ~config.workspace
    <2> DEFINE c == IF r.request = "active" THEN CancelCall(r) ELSE r
               e == [c EXCEPT !.request = IF @ = "none" THEN @ ELSE "outDated",
                              !.shown = None]
    <2>1. f = Forgotten(e)
      BY <1>2 DEF ForgetDocument
    <2>2. /\ c \in Requestor /\ c.request = r.request
          /\ r.call = None => c.call = None
          /\ r.call # None => /\ c.call # None /\ c.call \in Call
                              /\ c.call.answer = r.call.answer /\ c.call.then = r.call.then
                              /\ c.call.cancelled = (r.request = "active" \/ r.call.cancelled)
      <3>1. CASE r.request = "active" /\ r.call # None
        <4> DEFINE k == [r.call EXCEPT !.cancelled = TRUE]
        <4>1. k \in Call /\ k # None /\ k.answer = r.call.answer /\ k.cancelled
              /\ k.then = r.call.then
          BY <3>1, NoneAssumption DEF Requestor, Call
        <4>2. c = [r EXCEPT !.call = k]
          BY <3>1 DEF CancelCall
        <4> HIDE DEF k
        <4> QED
          BY <3>1, <4>1, <4>2 DEF Requestor
      <3>2. CASE r.request = "active" /\ r.call = None
        BY <3>2 DEF CancelCall, Requestor
      <3>3. CASE r.request # "active"
        BY <1>0, <3>3 DEF Requestor, Call
      <3> QED
        BY <3>1, <3>2, <3>3
    <2> HIDE DEF c
    <2>3. /\ e \in Requestor /\ e.call = c.call /\ e.shown = None
          /\ e.request = IF r.request = "none" THEN "none" ELSE "outDated"
      BY <2>2 DEF Requestor
    <2> HIDE DEF e
    <2>4. /\ f \in Requestor /\ f.state = None /\ f.request = e.request /\ f.shown = None
          /\ e.call = None => f.call = None
          /\ e.call # None => f.call # None /\ f.call = [e.call EXCEPT !.own = FALSE]
      BY <2>1, <2>3, ForgottenFields
    <2>5. /\ r.call = None => f.call = None
          /\ r.call # None => /\ f.call # None /\ f.call.own = FALSE
                              /\ f.call.answer = r.call.answer /\ f.call.then = r.call.then
                              /\ f.call.cancelled = (r.request = "active" \/ r.call.cancelled)
      BY <2>2, <2>3, <2>4 DEF Call
    <2> HIDE DEF f
    <2>6. CallFits(f)
      BY <1>0, <1>2, <2>3, <2>4, <2>5 DEF CallFits, Tracks
    <2>7. IdFits(f) /\ HiddenFits(f, h2)
      BY <2>3, <2>4 DEF IdFits, HiddenFits, Tracks
    <2>8. ASSUME Dependable PROVE CurrentFits(d, f, o2, h2, t2)
      <3>1. /\ r.request = "none" <=> r.call = None
            /\ r.call # None => /\ r.call.answer \in {"pending", "report", "cancelled"}
                                /\ r.request = "active" <=> ~r.call.cancelled
        BY <1>0, <2>8 DEF CurrentFits
      <3>2. /\ f.request = "none" <=> f.call = None
            /\ f.request # "active" /\ ~Tracks(f)
            /\ f.call # None => /\ f.call.answer \in {"pending", "report", "cancelled"}
                                /\ f.call.cancelled
        BY <2>3, <2>4, <2>5, <3>1 DEF Tracks
      <3> QED
        BY <3>2 DEF CurrentFits
    <2> QED
      BY <2>4, <2>6, <2>7, <2>8 DEF Fits, CurrentFits, f
  <1> QED
    BY <1>1, <1>2

\* A pull of a document that is at rest is a new request for it, which makes
\* no claim about what is shown.
LEMMA PullFromRest ==
  ASSUME NEW d \in Docs, NEW r \in Requestor, NEW v \in Nat, NEW then \in Callbacks,
         then = "forget" => config.workspace /\ config.closes,
         r.request = "none", r.call = None, IdFits(r),
         NEW o \in BOOLEAN, NEW h \in BOOLEAN, NEW t, HiddenFits(r, h)
  PROVE  /\ Pull(r, v, then) \in Requestor
         /\ Fits(d, Pull(r, v, then), o, h, t)
  <1> DEFINE p == Pull(r, v, then)
             s == IF Tracks(r) THEN r.state ELSE [version |-> v, id |-> None]
  <1>1. /\ p \in Requestor
        /\ p.state = s /\ s \in State /\ s # None
        /\ p.shown = r.shown
        /\ r.request = "none"
             => /\ p.request = "active"
                /\ p.call = [version |-> v, id |-> s.id, own |-> TRUE,
                             cancelled |-> FALSE, then |-> then,
                             answer |-> "pending", report |-> None]
                /\ p.call # None
        /\ r.request # "none" => p.request = "reschedule"
        /\ r.request = "active" /\ r.call # None
             => p.call = [r.call EXCEPT !.cancelled = TRUE] /\ p.call # None
        /\ r.request = "active" /\ r.call = None => p.call = None
        /\ r.request \notin {"none", "active"} => p.call = r.call
    BY PullFields
  <1> HIDE DEF p
  <1>2. Tracks(p) /\ Knows(p)
    BY <1>1 DEF Tracks, Knows
  <1>3. CallFits(p) /\ CurrentFits(d, p, o, h, t)
    BY <1>1, <1>2 DEF CallFits, CurrentFits
  <1>4. IdFits(p) /\ HiddenFits(p, h)
    BY <1>1, <1>2 DEF IdFits, HiddenFits, Tracks, Knows
  <1> QED
    BY <1>1, <1>3, <1>4 DEF Fits, p

\* What becomes of a document when its request has returned: without a tab it
\* is forgotten, a request that was cancelled is made again, and a report is
\* shown.
LEMMA FinishedKeeps ==
  ASSUME Types, ~disposed, NEW d \in Docs, NEW r \in Requestor,
         r.call # None, r.call.answer \in {"report", "cancelled"},
         Fits(d, r, d \in open, d \in tabs, text[d]),
         NEW cancelled \in BOOLEAN,
         cancelled <=> (r.call.cancelled \/ r.call.answer = "cancelled")
  PROVE  LET f == Finished(r, d, cancelled)
         IN /\ f \in Requestor
            /\ Fits(d, f, d \in open, d \in tabs, text[d])
  <1> DEFINE done == [r EXCEPT !.request = "none", !.call = None]
             after == IF cancelled THEN "reschedule" ELSE r.request
             shown == IF r.call.report = r.call.id THEN r.shown ELSE r.call.report
             state == IF r.call.own
                      THEN [version |-> r.call.version, id |-> r.call.report]
                      ELSE r.state
             reported == IF cancelled THEN done
                         ELSE [done EXCEPT !.shown = shown, !.state = state]
             f == Finished(r, d, cancelled)
  <1>0. /\ CallFits(r) /\ IdFits(r) /\ HiddenFits(r, d \in tabs)
        /\ CurrentFits(d, r, d \in open, d \in tabs, text[d])
        /\ r.call \in Call /\ r.request \in {"none", "active", "reschedule", "outDated"}
        /\ r.request # "none"
        /\ r.state = None \/ r.state \in State
    BY DEF Fits, Requestor, CallFits
  <1>1. /\ done \in Requestor /\ done.request = "none" /\ done.call = None
        /\ done.shown = r.shown /\ done.state = r.state
    BY DEF Requestor
  <1> HIDE DEF done
  <1>2. /\ state = None \/ state \in State
        /\ shown \in Reports \cup {None}
    BY <1>0 DEF Call, State, Requestor
  <1>3. /\ ~cancelled => state # None \/ ~r.call.own
        /\ ~cancelled /\ r.call.own
             => state # None /\ state.id = r.call.report
    BY <1>0, NoneAssumption DEF Call, State
  <1> HIDE DEF shown, state
  <1>4. /\ reported \in Requestor /\ reported.request = "none" /\ reported.call = None
        /\ reported.shown = IF cancelled THEN r.shown ELSE shown
        /\ reported.state = IF cancelled THEN r.state ELSE state
    <2>1. CASE cancelled
      BY <1>1, <2>1
    <2>2. CASE ~cancelled
      BY <1>1, <1>2, <2>2 DEF Requestor
    <2> QED
      BY <2>1, <2>2
  <1>5. f = CASE d \notin tabs -> [done EXCEPT !.state = None]
              [] d \in tabs /\ after = "outDated" -> done
              [] OTHER -> IF after = "reschedule" /\ ~disposed
                          THEN Pull(reported, version[d], "none") ELSE reported
    BY DEF Finished, done, reported, shown, state, after
  <1> HIDE DEF reported, f
  <1>6. CASE d \notin tabs
    <2>1. /\ f \in Requestor /\ f.request = "none" /\ f.call = None
          /\ f.shown = r.shown /\ f.state = None
      BY <1>1, <1>5, <1>6 DEF Requestor
    <2>2. HiddenFits(f, d \in tabs)
      BY <1>0, <1>6, <2>1 DEF HiddenFits
    <2> QED
      BY <1>6, <2>1, <2>2
         DEF f, Fits, CallFits, IdFits, CurrentFits, Tracks, Knows
  <1>7. CASE d \in tabs /\ after = "outDated"
    <2>1. f = done /\ ~cancelled /\ r.request = "outDated"
      BY <1>5, <1>7
    <2>2. ~Dependable
      BY <1>0, <2>1 DEF CurrentFits
    <2>3. HiddenFits(f, d \in tabs)
      BY <1>0, <1>1, <2>1 DEF HiddenFits
    <2>4. IdFits(f) /\ CallFits(f)
      BY <1>0, <1>1, <2>1 DEF IdFits, Tracks, CallFits
    <2> QED
      BY <1>1, <2>1, <2>2, <2>3, <2>4 DEF f, Fits, CurrentFits
  <1>8. CASE d \in tabs /\ after # "outDated"
    <2>1. f = IF after = "reschedule" THEN Pull(reported, version[d], "none")
              ELSE reported
      BY <1>5, <1>8
    <2>2. CallFits(reported) /\ HiddenFits(reported, d \in tabs)
      <3>1. HiddenFits(reported, d \in tabs)
        <4> SUFFICES ASSUME ~config.workspace PROVE HiddenFits(reported, d \in tabs)
          BY DEF HiddenFits
        <4>1. CASE r.request = "outDated"
          <5>1. cancelled /\ r.shown = None
            BY <1>0, <1>8, <4>1 DEF HiddenFits
          <5> QED
            BY <1>4, <1>8, <5>1 DEF HiddenFits
        <4>2. CASE r.request # "outDated"
          <5>1. Tracks(r)
            BY <1>0, <4>2 DEF HiddenFits
          <5>2. Tracks(reported)
            BY <1>3, <1>4, <5>1 DEF Tracks, state
          <5> QED
            BY <1>4, <1>8, <5>2 DEF HiddenFits, Knows
        <4> QED
          BY <4>1, <4>2
      <3> QED
        BY <1>4, <3>1 DEF CallFits
    <2>3. IdFits(reported)
      <3>1. CASE cancelled
        BY <1>0, <1>4, <3>1 DEF IdFits, Tracks
      <3>2. CASE ~cancelled /\ r.call.own
        <4>1. Tracks(r) /\ r.state.id = r.call.id
          BY <1>0, <3>2 DEF CallFits
        <4>2. reported.state.id = r.call.report /\ reported.shown = shown
          BY <1>3, <1>4, <3>2
        <4>3. CASE r.call.report = r.call.id
          BY <1>0, <4>1, <4>2, <4>3 DEF IdFits, shown
        <4>4. CASE r.call.report # r.call.id
          BY <4>2, <4>4 DEF IdFits, shown
        <4> QED
          BY <4>3, <4>4
      <3>3. CASE ~cancelled /\ ~r.call.own
        BY <1>0, <1>4, <3>3 DEF IdFits, CallFits, Tracks, state
      <3> QED
        BY <3>1, <3>2, <3>3
    <2>4. CASE after = "reschedule"
      <3>1. version[d] \in Nat /\ "none" \in Callbacks
        BY DEF Types, Callbacks
      <3>2. /\ f = Pull(reported, version[d], "none")
            /\ (d \in open) \in BOOLEAN /\ (d \in tabs) \in BOOLEAN
        BY <2>1, <2>4
      <3>3. f \in Requestor /\ Fits(d, f, d \in open, d \in tabs, text[d])
        BY <1>4, <2>2, <2>3, <3>1, <3>2, PullFromRest
      <3> QED
        BY <3>3 DEF f
    <2>5. CASE after # "reschedule"
      <3>1. f = reported /\ ~cancelled /\ r.request = "active"
        BY <1>0, <1>8, <2>1, <2>5
      <3>2. ASSUME Dependable
            PROVE  CurrentFits(d, f, d \in open, d \in tabs, text[d])
        <4>1. /\ r.call.answer = "report" /\ r.call.own
              /\ r.call.report # None /\ r.call.report[d] = text[d]
          BY <1>0, <3>1, <3>2 DEF CurrentFits
        <4>2. Tracks(f) /\ f.request = "none" /\ f.call = None
          BY <1>3, <1>4, <3>1, <4>1 DEF Tracks
        <4>3. f.shown # None /\ f.shown[d] = text[d]
          <5>1. f.shown = shown
            BY <1>4, <3>1
          <5>2. CASE r.call.report # r.call.id
            BY <4>1, <5>1, <5>2 DEF shown
          <5>3. CASE r.call.report = r.call.id
            <6>1. Tracks(r) /\ r.state.id = r.call.id /\ r.state.id # None
              BY <1>0, <4>1, <5>3 DEF CallFits
            <6> QED
              BY <1>0, <4>1, <5>1, <5>3, <6>1 DEF IdFits, shown
          <5> QED
            BY <5>2, <5>3
        <4> QED
          BY <1>8, <4>2, <4>3 DEF CurrentFits, Knows
      <3> QED
        BY <1>4, <1>8, <2>2, <2>3, <3>1, <3>2 DEF Fits, CurrentFits, f
    <2> QED
      BY <2>4, <2>5
  <1> QED
    BY <1>6, <1>7, <1>8
-----------------------------------------------------------------------------
(* Steps.                                                                   *)

\* What a step does to each document decides whether all fit after it.
LEMMA AllFitNext ==
  ASSUME config' = config,
         \A d \in Docs : Fits(d, requestor'[d], d \in open', d \in tabs', text'[d])
  PROVE  AllFit'
  BY DEF AllFit, Fits, CallFits, IdFits, HiddenFits, CurrentFits, Tracks, Knows, Dependable

\* A step that changes one document.
LEMMA OneDocument ==
  ASSUME Types, AllFit, config' = config, NEW d \in Docs, NEW n \in Requestor,
         requestor' = [requestor EXCEPT ![d] = n],
         Fits(d, n, d \in open', d \in tabs', text'[d]),
         \A e \in Docs \ {d} : /\ e \in open' <=> e \in open
                               /\ e \in tabs' <=> e \in tabs
                               /\ text'[e] = text[e]
  PROVE  requestor' \in [Docs -> Requestor] /\ AllFit'
  <1>1. requestor' \in [Docs -> Requestor]
    BY DEF Types
  <1>2. \A e \in Docs : Fits(e, requestor'[e], e \in open', e \in tabs', text'[e])
    <2> TAKE e \in Docs
    <2>1. CASE e = d
      BY <2>1 DEF Types
    <2>2. CASE e # d
      <3>1. /\ requestor'[e] = requestor[e] /\ text'[e] = text[e]
            /\ (e \in open') = (e \in open) /\ (e \in tabs') = (e \in tabs)
        BY <2>2 DEF Types
      <3>2. Fits(e, requestor[e], e \in open, e \in tabs, text[e])
        BY DEF AllFit
      <3> QED
        BY <3>1, <3>2
    <2> QED
      BY <2>1, <2>2
  <1> QED
    BY <1>1, <1>2, AllFitNext

\* A step that changes nothing that a document depends on.
LEMMA NoDocument ==
  ASSUME AllFit, UNCHANGED <<config, requestor, open, tabs, text>>
  PROVE  AllFit'
  BY AllFitNext DEF AllFit

\* A document as the invariant has it.
LEMMA DocumentFits ==
  ASSUME Types, AllFit, NEW d \in Docs
  PROVE  /\ requestor[d] \in Requestor /\ version[d] \in Nat
         /\ (d \in open) \in BOOLEAN /\ (d \in tabs) \in BOOLEAN
         /\ Fits(d, requestor[d], d \in open, d \in tabs, text[d])
         /\ HiddenFits(requestor[d], d \in tabs)
  BY DEF Types, AllFit, Fits

\* The listeners' pull in a step.
LEMMA PullByKeeps ==
  ASSUME Types, AllFit, config' = config, NEW d \in Docs, NEW v \in Nat,
         NEW then \in Callbacks, then # "forget",
         requestor' = [requestor EXCEPT ![d] = Pull(@, v, then)],
         HiddenFits(requestor[d], d \in tabs'),
         \A e \in Docs \ {d} : /\ e \in open' <=> e \in open
                               /\ e \in tabs' <=> e \in tabs
                               /\ text'[e] = text[e]
  PROVE  requestor' \in [Docs -> Requestor] /\ AllFit'
  <1> DEFINE p == Pull(requestor[d], v, then)
  <1>1. (d \in open') \in BOOLEAN /\ (d \in tabs') \in BOOLEAN
    OBVIOUS
  <1>2. p \in Requestor /\ Fits(d, p, d \in open', d \in tabs', text'[d])
    <2>1. /\ requestor[d] \in Requestor
          /\ (d \in open) \in BOOLEAN /\ (d \in tabs) \in BOOLEAN
          /\ Fits(d, requestor[d], d \in open, d \in tabs, text[d])
      BY DocumentFits
    <2> DEFINE r == requestor[d]
               o == d \in open
               h == d \in tabs
               o2 == d \in open'
               h2 == d \in tabs'
    <2>2. /\ r \in Requestor /\ o \in BOOLEAN /\ h \in BOOLEAN
          /\ o2 \in BOOLEAN /\ h2 \in BOOLEAN
          /\ Fits(d, r, o, h, text[d]) /\ HiddenFits(r, h2)
      BY <1>1, <2>1
    <2> HIDE DEF r, o, h, o2, h2
    <2>3. Pull(r, v, then) \in Requestor /\ Fits(d, Pull(r, v, then), o2, h2, text'[d])
      BY <2>2, PullKeeps
    <2> QED
      BY <2>3 DEF r, o2, h2
  <1>3. requestor' = [requestor EXCEPT ![d] = p]
    BY DEF Types
  <1> HIDE DEF p
  <1> QED
    BY <1>2, <1>3, OneDocument

\* The types of the editor and of what the server sends.
EditorTypes ==
  /\ config \in Configs
  /\ open \subseteq Docs /\ tabs \subseteq Docs
  /\ active \in Docs \cup {None}
  /\ text \in Reports /\ version \in [Docs -> Nat]
RestTypes ==
  /\ workspace \in Workspace /\ errors \in 0..MaxWorkspaceErrors + 1
  /\ disposed \in BOOLEAN /\ events \in 0..MaxEvents

\* The types of what the editor sets, of the rest, and of the requestor.
LEMMA TypesSplit ==
  Types <=> EditorTypes /\ RestTypes /\ requestor \in [Docs -> Requestor]
  BY DEF Types, EditorTypes, RestTypes

\* Events of the editor leave the workspace pull alone.
LEMMA EventRest ==
  ASSUME Types, WorkspaceFits, Event, Rest
  PROVE  /\ RestTypes' /\ WorkspaceFits' /\ config' = config
         /\ ~disposed /\ ~disposed'
  <1>1. events' \in 0..MaxEvents
    BY DiagnosticAssumption DEF Types, Event
  <1> QED
    BY <1>1 DEF Types, RestTypes, WorkspaceFits, Event, Rest

\* Opening a document keeps the invariant: it is pulled unless it was already.
LEMMA OpenDocFits ==
  ASSUME IndInv, NEW d \in Docs, OpenDoc(d)
  PROVE  IndInv'
  <1>1. /\ RestTypes' /\ WorkspaceFits' /\ config' = config
        /\ ~disposed /\ ~disposed' /\ Types /\ AllFit
    BY EventRest DEF IndInv, OpenDoc
  <1>2. EditorTypes'
    BY <1>1 DEF OpenDoc, Types, EditorTypes
  <1>3. /\ \A e \in Docs \ {d} : /\ e \in open' <=> e \in open
                                 /\ e \in tabs' <=> e \in tabs
                                 /\ text'[e] = text[e]
        /\ tabs' = tabs /\ d \in open' /\ d \notin open /\ text' = text
    BY DEF OpenDoc
  <1>4. requestor' \in [Docs -> Requestor] /\ AllFit'
    <2>1. CASE KnowsSameVersion(requestor[d], 1) \/ ~Matches(d)
      <3>1. requestor' = requestor
        BY <2>1 DEF OpenDoc, NoPull
      <3>2. d \in tabs => Knows(requestor[d])
        BY <2>1 DEF KnowsSameVersion, Matches, Knows
      <3>3. Fits(d, requestor[d], d \in open', d \in tabs', text'[d])
        BY <1>1, <1>3, <3>2, DocumentFits DEF Fits, CurrentFits
      <3>4. requestor' = [requestor EXCEPT ![d] = requestor[d]]
        BY <1>1, <3>1 DEF Types
      <3> QED
        BY <1>1, <1>3, <3>3, <3>4, DocumentFits, OneDocument
    <2>2. CASE ~(KnowsSameVersion(requestor[d], 1) \/ ~Matches(d))
      <3>1. requestor' = [requestor EXCEPT ![d] = Pull(@, 1, "add")]
        BY <2>2 DEF OpenDoc, PullBy
      <3>2. "add" \in Callbacks /\ "add" # "forget" /\ HiddenFits(requestor[d], d \in tabs')
        BY <1>1, <1>3, DocumentFits DEF Callbacks
      <3> QED
        BY <1>1, <1>3, <3>1, <3>2, PullByKeeps
    <2> QED
      BY <2>1, <2>2
  <1> QED
    BY <1>1, <1>2, <1>4, TypesSplit DEF IndInv, EditorTypes, RestTypes, Types

\* A step that leaves the requestor alone.
LEMMA RequestorKept ==
  ASSUME Types, AllFit, config' = config, NEW d \in Docs,
         requestor' = requestor,
         Fits(d, requestor[d], d \in open', d \in tabs', text'[d]),
         \A e \in Docs \ {d} : /\ e \in open' <=> e \in open
                               /\ e \in tabs' <=> e \in tabs
                               /\ text'[e] = text[e]
  PROVE  requestor' \in [Docs -> Requestor] /\ AllFit'
  <1>1. requestor' = [requestor EXCEPT ![d] = requestor[d]]
    BY DEF Types
  <1> QED
    BY <1>1, DocumentFits, OneDocument

\* So does a tab that is shown,
LEMMA ShowTabFits ==
  ASSUME IndInv, NEW d \in Docs, ShowTab(d)
  PROVE  IndInv'
  <1>1. /\ RestTypes' /\ WorkspaceFits' /\ config' = config
        /\ ~disposed /\ ~disposed' /\ Types /\ AllFit
    BY EventRest DEF IndInv, ShowTab
  <1>2. EditorTypes'
    <2>1. config \in Configs /\ config.docs \subseteq Docs
      BY <1>1, DiagnosticAssumption DEF Types
    <2> QED
      BY <1>1, <2>1 DEF ShowTab, Types, EditorTypes
  <1>3. /\ \A e \in Docs \ {d} : /\ e \in open' <=> e \in open
                                 /\ e \in tabs' <=> e \in tabs
                                 /\ text'[e] = text[e]
        /\ open' = open /\ d \in tabs' /\ d \notin tabs /\ text' = text
    BY DEF ShowTab
  <1>4. HiddenFits(requestor[d], d \in tabs')
    BY <1>1, <1>3, DocumentFits DEF HiddenFits
  <1>5. requestor' \in [Docs -> Requestor] /\ AllFit'
    <2>1. CASE Knows(requestor[d]) \/ d \notin open
      <3>1. requestor' = requestor
        BY <2>1 DEF ShowTab, NoPull
      <3>2. Fits(d, requestor[d], d \in open', d \in tabs', text'[d])
        BY <1>1, <1>3, <1>4, <2>1, DocumentFits DEF Fits, CurrentFits
      <3> QED
        BY <1>1, <1>3, <3>1, <3>2, RequestorKept
    <2>2. CASE ~(Knows(requestor[d]) \/ d \notin open)
      <3>1. requestor' = [requestor EXCEPT ![d] = Pull(@, version[d], "add")]
        BY <2>2 DEF ShowTab, PullBy
      <3>2. "add" \in Callbacks /\ "add" # "forget" /\ version[d] \in Nat
        BY <1>1, DocumentFits DEF Callbacks
      <3> QED
        BY <1>1, <1>3, <1>4, <3>1, <3>2, PullByKeeps
    <2> QED
      BY <2>1, <2>2
  <1> QED
    BY <1>1, <1>2, <1>5, TypesSplit DEF IndInv, EditorTypes, RestTypes, Types

\* A document that lost its tab or was closed.
LEMMA CleanUpKeeps ==
  ASSUME Types, AllFit, config' = config, config.closes, NEW d \in Docs, CleanUpDocument(d),
         ~(d \in open' /\ d \in tabs'),
         \A e \in Docs \ {d} : /\ e \in open' <=> e \in open
                               /\ e \in tabs' <=> e \in tabs
                               /\ text'[e] = text[e]
  PROVE  requestor' \in [Docs -> Requestor] /\ AllFit'
  <1> DEFINE r == requestor[d]
             o == d \in open
             h == d \in tabs
             o2 == d \in open'
             h2 == d \in tabs'
             n == IF Knows(r) THEN ForgetDocument(r, version[d]) ELSE r
  <1>1. /\ r \in Requestor /\ o \in BOOLEAN /\ h \in BOOLEAN /\ version[d] \in Nat
        /\ o2 \in BOOLEAN /\ h2 \in BOOLEAN /\ ~(o2 /\ h2)
        /\ Fits(d, r, o, h, text[d])
    BY DocumentFits
  <1>2. requestor' = [requestor EXCEPT ![d] = n]
    BY DEF CleanUpDocument, Types
  <1> HIDE DEF r, o, h, o2, h2
  <1>3. n \in Requestor /\ Fits(d, n, o2, h2, text'[d])
    <2>1. CASE Knows(r)
      BY <1>1, <2>1, ForgetKeeps
    <2>2. CASE ~Knows(r)
      BY <1>1, <2>2, UnknownFits
    <2> QED
      BY <2>1, <2>2
  <1> HIDE DEF n
  <1> QED
    BY <1>2, <1>3, OneDocument DEF o2, h2

\* and one that is hidden, whose document is forgotten,
LEMMA HideTabFits ==
  ASSUME IndInv, NEW d \in Docs, HideTab(d)
  PROVE  IndInv'
  <1>1. /\ RestTypes' /\ WorkspaceFits' /\ config' = config
        /\ ~disposed /\ ~disposed' /\ Types /\ AllFit
    BY EventRest DEF IndInv, HideTab
  <1>2. EditorTypes'
    BY <1>1 DEF HideTab, Types, EditorTypes
  <1>3. requestor' \in [Docs -> Requestor] /\ AllFit'
    BY <1>1, CleanUpKeeps DEF HideTab
  <1> QED
    BY <1>1, <1>2, <1>3, TypesSplit DEF IndInv, EditorTypes, RestTypes, Types

\* and a document that closes, which is forgotten with its text.
LEMMA CloseDocFits ==
  ASSUME IndInv, NEW d \in Docs, CloseDoc(d)
  PROVE  IndInv'
  <1>1. /\ RestTypes' /\ WorkspaceFits' /\ config' = config
        /\ ~disposed /\ ~disposed' /\ Types /\ AllFit
    BY EventRest DEF IndInv, CloseDoc
  <1>2. EditorTypes'
    <2>1. 0 \in Texts
      BY DiagnosticAssumption DEF Texts
    <2> QED
      BY <1>1, <2>1 DEF CloseDoc, Types, EditorTypes, Reports
  <1>3. \A e \in Docs \ {d} : /\ e \in open' <=> e \in open
                              /\ e \in tabs' <=> e \in tabs
                              /\ text'[e] = text[e]
    BY <1>1 DEF CloseDoc, Types, Reports
  <1>4. requestor' \in [Docs -> Requestor] /\ AllFit'
    BY <1>1, <1>3, CleanUpKeeps DEF CloseDoc
  <1> QED
    BY <1>1, <1>2, <1>4, TypesSplit DEF IndInv, EditorTypes, RestTypes, Types

\* Another editor becomes active: its document may be pulled again.
LEMMA ActivateFits ==
  ASSUME IndInv, NEW d \in Docs \cup {None}, Activate(d)
  PROVE  IndInv'
  <1>1. /\ RestTypes' /\ WorkspaceFits' /\ config' = config
        /\ ~disposed /\ ~disposed' /\ Types /\ AllFit
    BY EventRest DEF IndInv, Activate
  <1>2. EditorTypes'
    BY <1>1 DEF Activate, Types, EditorTypes
  <1>3. requestor' \in [Docs -> Requestor] /\ AllFit'
    <2>1. CASE d # None /\ config.onFocus /\ Matches(d) /\ Knows(requestor[d])
      <3>1. requestor' = [requestor EXCEPT ![d] = Pull(@, version[d], "none")]
        BY <2>1 DEF Activate
      <3>2. /\ d \in Docs /\ "none" \in Callbacks /\ "none" # "forget"
            /\ version[d] \in Nat /\ HiddenFits(requestor[d], d \in tabs)
        BY <1>1, <2>1, DocumentFits DEF Callbacks
      <3>3. tabs' = tabs /\ open' = open /\ text' = text
        BY DEF Activate
      <3> QED
        BY <1>1, <3>1, <3>2, <3>3, PullByKeeps
    <2>2. CASE ~(d # None /\ config.onFocus /\ Matches(d) /\ Knows(requestor[d]))
      BY <1>1, <2>2, NoDocument DEF Activate, Types
    <2> QED
      BY <2>1, <2>2
  <1> QED
    BY <1>1, <1>2, <1>3, TypesSplit DEF IndInv, EditorTypes, RestTypes, Types

\* An edit outdates what is shown, and pulls.
LEMMA EditFits ==
  ASSUME IndInv, NEW d \in Docs, NEW t \in Texts, Edit(d, t)
  PROVE  IndInv'
  <1>1. /\ RestTypes' /\ WorkspaceFits' /\ config' = config
        /\ ~disposed /\ ~disposed' /\ Types /\ AllFit
    BY EventRest DEF IndInv, Edit
  <1>2. EditorTypes'
    BY <1>1 DEF Edit, Types, EditorTypes, Reports
  <1>3. /\ \A e \in Docs \ {d} : /\ e \in open' <=> e \in open
                                 /\ e \in tabs' <=> e \in tabs
                                 /\ text'[e] = text[e]
        /\ tabs' = tabs /\ open' = open /\ d \in open
    BY <1>1 DEF Edit, Types, Reports
  <1>4. requestor' \in [Docs -> Requestor] /\ AllFit'
    <2>1. CASE config.onChange /\ Knows(requestor[d])
      <3>1. requestor' = [requestor EXCEPT ![d] = Pull(@, version[d] + 1, "trigger")]
        BY <2>1 DEF Edit, PullBy
      <3>2. /\ "trigger" \in Callbacks /\ "trigger" # "forget"
            /\ version[d] + 1 \in Nat /\ HiddenFits(requestor[d], d \in tabs')
        BY <1>1, <1>3, DocumentFits DEF Callbacks
      <3> QED
        BY <1>1, <1>3, <3>1, <3>2, PullByKeeps
    <2>2. CASE ~(config.onChange /\ Knows(requestor[d]))
      <3>1. requestor' = requestor
        BY <2>2 DEF Edit, NoPull
      <3>2. ~Dependable \/ ~Knows(requestor[d])
        BY <2>2 DEF Dependable
      <3>3. Fits(d, requestor[d], d \in open', d \in tabs', text'[d])
        BY <1>1, <1>3, <3>2, DocumentFits DEF Fits, CurrentFits, Knows
      <3> QED
        BY <1>1, <1>3, <3>1, <3>3, RequestorKept
    <2> QED
      BY <2>1, <2>2
  <1> QED
    BY <1>1, <1>2, <1>4, TypesSplit DEF IndInv, EditorTypes, RestTypes, Types

\* The server asks for a refresh: the visible documents are pulled.
LEMMA RefreshFits ==
  ASSUME IndInv, Refresh
  PROVE  IndInv'
  <1>1. /\ RestTypes' /\ WorkspaceFits' /\ config' = config
        /\ ~disposed /\ ~disposed' /\ Types /\ AllFit
    BY EventRest DEF IndInv, Refresh
  <1>2. EditorTypes' /\ open' = open /\ tabs' = tabs /\ text' = text
    BY <1>1 DEF Refresh, Types, EditorTypes
  <1>3. ASSUME NEW d \in Docs
        PROVE  /\ requestor'[d] \in Requestor
               /\ Fits(d, requestor'[d], d \in open, d \in tabs, text[d])
    <2> DEFINE r == requestor[d]
               o == d \in open
               h == d \in tabs
    <2>1. /\ r \in Requestor /\ o \in BOOLEAN /\ h \in BOOLEAN /\ version[d] \in Nat
          /\ Fits(d, r, o, h, text[d]) /\ HiddenFits(r, h)
      BY <1>1, DocumentFits
    <2>2. requestor'[d] = IF o /\ Matches(d) THEN Pull(r, version[d], "none") ELSE r
      BY DEF Refresh
    <2> HIDE DEF r, o, h
    <2>3. "none" \in Callbacks /\ "none" # "forget"
      BY DEF Callbacks
    <2>4. /\ Pull(r, version[d], "none") \in Requestor
          /\ Fits(d, Pull(r, version[d], "none"), o, h, text[d])
      BY <2>1, <2>3, PullKeeps
    <2>5. requestor'[d] \in Requestor /\ Fits(d, requestor'[d], o, h, text[d])
      BY <2>1, <2>2, <2>4
    <2> QED
      BY <2>5 DEF o, h
  <1>4. requestor' \in [Docs -> Requestor]
    BY <1>3 DEF Refresh
  <1>5. AllFit'
    BY <1>1, <1>2, <1>3, AllFitNext
  <1> QED
    BY <1>1, <1>2, <1>4, <1>5, TypesSplit DEF IndInv, EditorTypes, RestTypes, Types

\* A step in which neither the editor nor the workspace pull takes part.
LEMMA AnswerRest ==
  ASSUME Types, WorkspaceFits, UNCHANGED <<editor, workspace, errors, disposed>>,
         events' \in 0..MaxEvents
  PROVE  /\ EditorTypes' /\ RestTypes' /\ WorkspaceFits'
         /\ UNCHANGED <<config, open, tabs, text, disposed>>
  BY DEF Types, EditorTypes, RestTypes, WorkspaceFits, editor

\* The report that a server makes of a document is about its contents.
LEMMA ReportCurrent ==
  ASSUME Types, NEW d \in Docs
  PROVE  Analysis(d) \in Reports /\ Analysis(d) # None /\ Analysis(d)[d] = text[d]
  <1>1. 0 \in Texts
    BY DiagnosticAssumption DEF Texts
  <1>2. Analysis(d) \in Reports
    BY <1>1 DEF Analysis, Types, Reports
  <1> QED
    BY <1>2, NoneAssumption DEF Analysis

\* An answer does not touch what the requestor keeps but the call.
LEMMA AnswerKeeps ==
  ASSUME Types, ~disposed, NEW d \in Docs, NEW r \in Requestor, r.call # None,
         r.call.answer = "pending",
         Fits(d, r, d \in open, d \in tabs, text[d]),
         NEW a \in Answers, Dependable => a \in {"pending", "report", "cancelled"},
         NEW report \in Reports \cup {None},
         a = "report" => report # None /\ report[d] = text[d],
         NEW n, n = [r EXCEPT !.call = [r.call EXCEPT !.answer = a, !.report = report]]
  PROVE  n \in Requestor /\ Fits(d, n, d \in open, d \in tabs, text[d])
  <1> DEFINE c == [r.call EXCEPT !.answer = a, !.report = report]
  <1>1. /\ c \in Call /\ c # None /\ c.answer = a /\ c.report = report
        /\ c.own = r.call.own /\ c.cancelled = r.call.cancelled
        /\ c.id = r.call.id /\ c.then = r.call.then
    BY NoneAssumption DEF Requestor, Call
  <1>2. n = [r EXCEPT !.call = c]
    OBVIOUS
  <1> HIDE DEF c
  <1>3. /\ n \in Requestor /\ n.call = c /\ n.request = r.request
        /\ n.state = r.state /\ n.shown = r.shown
    BY <1>1, <1>2 DEF Requestor
  <1>4. /\ CallFits(r) /\ IdFits(r) /\ HiddenFits(r, d \in tabs)
        /\ CurrentFits(d, r, d \in open, d \in tabs, text[d])
    BY DEF Fits
  <1>5. CallFits(n)
    BY <1>1, <1>3, <1>4 DEF CallFits, Tracks
  <1>6. IdFits(n) /\ HiddenFits(n, d \in tabs)
    BY <1>3, <1>4 DEF IdFits, HiddenFits, Tracks, Knows
  <1>7. CurrentFits(d, n, d \in open, d \in tabs, text[d])
    BY <1>1, <1>3, <1>4 DEF CurrentFits, Tracks, Knows
  <1> QED
    BY <1>3, <1>5, <1>6, <1>7 DEF Fits

\* The server answers: a report is of the text there is now.
LEMMA ServerAnswersFits ==
  ASSUME IndInv, NEW d \in Docs, ServerAnswers(d)
  PROVE  IndInv'
  <1> DEFINE r == requestor[d]
  <1>0. Types /\ WorkspaceFits /\ r \in Requestor /\ r.call # None /\ r.call \in Call
        /\ r.call.answer = "pending"
    BY DEF IndInv, Types, ServerAnswers, Requestor
  <1>1. events' \in 0..MaxEvents
    BY <1>0, DiagnosticAssumption DEF Types, ServerAnswers
  <1>2. /\ EditorTypes' /\ RestTypes' /\ WorkspaceFits'
        /\ UNCHANGED <<config, open, tabs, text, disposed>>
    BY <1>0, <1>1, AnswerRest DEF ServerAnswers
  <1>3. PICK a \in Answers, report \in Reports \cup {None} :
          /\ Dependable => a \in {"pending", "report", "cancelled"}
          /\ a = "report" => report # None /\ report[d] = text[d]
          /\ requestor' = [requestor EXCEPT ![d] =
               [r EXCEPT !.call = [r.call EXCEPT !.answer = a, !.report = report]]]
    <2>0. /\ requestor \in [Docs -> Requestor]
          /\ r = [r EXCEPT !.call = r.call]
          /\ r.call.report \in Reports \cup {None}
      BY <1>0 DEF Types, Requestor, Call
    <2>1. CASE requestor' = [requestor EXCEPT ![d].call.answer = "report",
                                              ![d].call.report = Analysis(d)]
      <3>1. "report" \in Answers /\ Analysis(d) \in Reports /\ Analysis(d) # None
            /\ Analysis(d)[d] = text[d]
        BY <1>0, ReportCurrent DEF Answers
      <3>2. requestor' = [requestor EXCEPT ![d] =
               [r EXCEPT !.call = [r.call EXCEPT !.answer = "report",
                                                 !.report = Analysis(d)]]]
        <4> DEFINE q == [requestor EXCEPT ![d].call.answer = "report"]
        <4>1. requestor' = [q EXCEPT ![d].call.report = Analysis(d)]
          BY <2>1
        <4>2. /\ q = [requestor EXCEPT ![d] = q[d]]
              /\ q[d] = [r EXCEPT !.call = [r.call EXCEPT !.answer = "report"]]
              /\ DOMAIN q = Docs
          BY <2>0
        <4> HIDE DEF q
        <4>3. requestor' = [q EXCEPT ![d] = [q[d] EXCEPT !.call =
                                               [q[d].call EXCEPT !.report = Analysis(d)]]]
          BY <4>1, <4>2
        <4>4. q[d].call = [r.call EXCEPT !.answer = "report"]
          BY <1>0, <4>2 DEF Requestor
        <4>5. [q[d] EXCEPT !.call = [q[d].call EXCEPT !.report = Analysis(d)]]
                = [r EXCEPT !.call = [r.call EXCEPT !.answer = "report",
                                                    !.report = Analysis(d)]]
          BY <1>0, <4>2, <4>4 DEF Requestor
        <4> QED
          BY <2>0, <4>2, <4>3, <4>5
      <3> QED
        BY <3>1, <3>2
    <2>2. ASSUME NEW a \in Answers, a # "report",
                 Dependable => a \in {"pending", "report", "cancelled"},
                 requestor' = [requestor EXCEPT ![d].call.answer = a]
          PROVE  \E report \in Reports \cup {None} :
                   requestor' = [requestor EXCEPT ![d] =
                     [r EXCEPT !.call = [r.call EXCEPT !.answer = a, !.report = report]]]
      <3>1. [r.call EXCEPT !.answer = a]
              = [r.call EXCEPT !.answer = a, !.report = r.call.report]
        BY <1>0 DEF Call
      <3>2. requestor' = [requestor EXCEPT ![d] =
               [r EXCEPT !.call = [r.call EXCEPT !.answer = a]]]
        BY <2>0, <2>2
      <3> QED
        BY <2>0, <3>1, <3>2
    <2>3. CASE requestor' = [requestor EXCEPT ![d].call.answer = "cancelled"]
      <3>1. "cancelled" \in Answers /\ "cancelled" # "report"
        BY DEF Answers
      <3> QED
        BY <2>2, <2>3, <3>1
    <2>4. ASSUME NEW a \in config.answers,
                 requestor' = [requestor EXCEPT ![d].call.answer = a]
          PROVE  /\ a \in Answers /\ a # "report"
                 /\ Dependable => a \in {"pending", "report", "cancelled"}
      <3>1. config \in Configs /\ config.answers \subseteq {"cancelled", "failed", "refused"}
        BY <1>0, DiagnosticAssumption DEF Types
      <3> QED
        BY <3>1, <2>4 DEF Answers, Dependable
    <2>5. ASSUME NEW a \in config.answers,
                 requestor' = [requestor EXCEPT ![d].call.answer = a]
          PROVE  \E b \in Answers, report \in Reports \cup {None} :
            /\ Dependable => b \in {"pending", "report", "cancelled"}
            /\ b = "report" => report # None /\ report[d] = text[d]
            /\ requestor' = [requestor EXCEPT ![d] =
                 [r EXCEPT !.call = [r.call EXCEPT !.answer = b, !.report = report]]]
      <3>1. /\ a \in Answers /\ a # "report"
            /\ Dependable => a \in {"pending", "report", "cancelled"}
        BY <2>4, <2>5
      <3>2. PICK report \in Reports \cup {None} :
              requestor' = [requestor EXCEPT ![d] =
                [r EXCEPT !.call = [r.call EXCEPT !.answer = a, !.report = report]]]
        BY <2>2, <2>5, <3>1
      <3> QED
        BY <3>1, <3>2
    <2> QED
      BY <2>1, <2>3, <2>5 DEF ServerAnswers
  <1> DEFINE n == [r EXCEPT !.call = [r.call EXCEPT !.answer = a, !.report = report]]
  <1>4. CASE ~disposed
    <2>1. Types /\ AllFit /\ Fits(d, r, d \in open, d \in tabs, text[d])
      BY <1>0, <1>4 DEF IndInv, AllFit
    <2>2. n \in Requestor /\ Fits(d, n, d \in open, d \in tabs, text[d])
      BY <1>0, <1>3, <1>4, <2>1, AnswerKeeps
    <2>3. requestor' \in [Docs -> Requestor] /\ AllFit'
      BY <1>2, <1>3, <2>1, <2>2, OneDocument
    <2> QED
      BY <1>2, <1>4, <2>3, TypesSplit DEF IndInv, EditorTypes, RestTypes, Types
  <1>5. CASE disposed
    <2>1. [r.call EXCEPT !.answer = a, !.report = report] \in Call
      BY <1>0 DEF Call
    <2>2. n \in Requestor /\ n.request = r.request /\ n.shown = r.shown
      BY <1>0, <2>1 DEF Requestor
    <2> HIDE DEF n
    <2>3. requestor' = [requestor EXCEPT ![d] = n]
      BY <1>3 DEF n
    <2>4. requestor' \in [Docs -> Requestor]
      BY <1>0, <2>2, <2>3 DEF Types
    <2>5. DisposedFits'
      BY <1>0, <1>5, <2>2, <2>3 DEF DisposedFits, IndInv, Types
    <2> QED
      BY <1>2, <1>5, <2>4, <2>5, TypesSplit DEF IndInv, EditorTypes, RestTypes, Types
  <1> QED
    BY <1>4, <1>5

\* A document that is forgotten after its last pull.
LEMMA ForgottenFits ==
  ASSUME NEW d \in Docs, NEW r \in Requestor, config.workspace, config.closes,
         NEW o \in BOOLEAN, NEW h \in BOOLEAN, NEW t, Fits(d, r, o, h, t)
  PROVE  Forgotten(r) \in Requestor /\ Fits(d, Forgotten(r), o, h, t)
  <1> DEFINE f == Forgotten(r)
  <1>1. /\ f \in Requestor /\ f.state = None
        /\ f.request = r.request /\ f.shown = r.shown
        /\ r.call = None => f.call = None
        /\ r.call # None => f.call # None /\ f.call = [r.call EXCEPT !.own = FALSE]
    BY ForgottenFields
  <1> HIDE DEF f
  <1>2. r.call # None => f.call.own = FALSE /\ f.call.then = r.call.then
    BY <1>1 DEF Requestor, Call
  <1>3. CallFits(f)
    BY <1>1, <1>2 DEF Fits, CallFits, Tracks
  <1>4. ~Dependable /\ IdFits(f) /\ HiddenFits(f, h)
    BY <1>1 DEF Dependable, IdFits, HiddenFits, Tracks
  <1> QED
    BY <1>1, <1>3, <1>4 DEF Fits, CurrentFits, f

\* After disposal an answer only ends its request.
LEMMA FinishedSilent ==
  ASSUME disposed, NEW d \in Docs, NEW r \in Requestor, NEW cancelled \in BOOLEAN,
         r.request = "outDated"
  PROVE  LET f == Finished(r, d, cancelled)
         IN f \in Requestor /\ f.request = "none" /\ f.call = None /\ f.shown = r.shown
  <1> DEFINE done == [r EXCEPT !.request = "none", !.call = None]
             f == Finished(r, d, cancelled)
  <1>1. /\ done \in Requestor /\ done.request = "none" /\ done.call = None
        /\ done.shown = r.shown
    BY DEF Requestor
  <1>2. f = [done EXCEPT !.state = None] \/ f = done
    BY DEF Finished
  <1> HIDE DEF done, f
  <1>3. f \in Requestor /\ f.request = "none" /\ f.call = None /\ f.shown = r.shown
    BY <1>1, <1>2 DEF Requestor
  <1> QED
    BY <1>3 DEF f

\* The answer arrives, is shown or dropped, and its callback runs.
LEMMA ReceiveFits ==
  ASSUME IndInv, NEW d \in Docs, Receive(d)
  PROVE  IndInv'
  <1> DEFINE r == requestor[d]
             cancelled == \/ r.call.cancelled /\ ~disposed
                          \/ r.call.answer = "cancelled"
             finished == Finished(r, d, cancelled)
             n == IF r.call.then = "forget" THEN Forgotten(finished) ELSE finished
  <1>0. /\ Types /\ WorkspaceFits /\ r \in Requestor /\ r.call # None /\ r.call \in Call
        /\ r.call.answer \in {"report", "cancelled"} /\ events' = events
    BY DEF IndInv, Types, Receive, Requestor
  <1>1. /\ EditorTypes' /\ RestTypes' /\ WorkspaceFits'
        /\ UNCHANGED <<config, open, tabs, text, disposed>>
    BY <1>0, AnswerRest DEF Receive, Types
  <1>2. requestor' = [requestor EXCEPT ![d] = n]
    BY DEF Receive
  <1>3. cancelled \in BOOLEAN
    BY <1>0 DEF Call
  <1>4. CASE ~disposed
    <2>1. AllFit /\ Fits(d, r, d \in open, d \in tabs, text[d])
      BY <1>0, <1>4 DEF IndInv, AllFit
    <2>2. cancelled <=> (r.call.cancelled \/ r.call.answer = "cancelled")
      BY <1>4
    <2> HIDE DEF cancelled
    <2>3. finished \in Requestor /\ Fits(d, finished, d \in open, d \in tabs, text[d])
      BY <1>0, <1>3, <1>4, <2>1, <2>2, FinishedKeeps
    <2> HIDE DEF finished
    <2>4. n \in Requestor /\ Fits(d, n, d \in open, d \in tabs, text[d])
      <3>1. CASE r.call.then = "forget"
        <4>1. config.workspace /\ config.closes
          BY <1>0, <2>1, <3>1 DEF Fits, CallFits
        <4>2. (d \in open) \in BOOLEAN /\ (d \in tabs) \in BOOLEAN
          OBVIOUS
        <4>3. /\ Forgotten(finished) \in Requestor
              /\ Fits(d, Forgotten(finished), d \in open, d \in tabs, text[d])
          BY <2>3, <4>1, <4>2, ForgottenFits
        <4> QED
          BY <3>1, <4>3
      <3>2. CASE r.call.then # "forget"
        BY <2>3, <3>2
      <3> QED
        BY <3>1, <3>2
    <2> HIDE DEF n
    <2>5. requestor' \in [Docs -> Requestor] /\ AllFit'
      BY <1>0, <1>1, <1>2, <2>1, <2>4, OneDocument
    <2> QED
      BY <1>1, <1>4, <2>5, TypesSplit DEF IndInv, EditorTypes, RestTypes, Types
  <1>5. CASE disposed
    <2>1. r.request = "outDated" /\ r.shown = None /\ DisposedFits
      BY <1>0, <1>5 DEF IndInv, DisposedFits
    <2> HIDE DEF cancelled
    <2>2. /\ finished \in Requestor /\ finished.request = "none"
          /\ finished.call = None /\ finished.shown = None
      BY <1>0, <1>3, <1>5, <2>1, FinishedSilent
    <2> HIDE DEF finished
    <2>3. n \in Requestor /\ n.request = "none" /\ n.call = None /\ n.shown = None
      BY <2>2, ForgottenFields
    <2> HIDE DEF n
    <2>4. requestor' \in [Docs -> Requestor]
      BY <1>0, <1>2, <2>3 DEF Types
    <2>5. DisposedFits'
      BY <1>0, <1>2, <2>1, <2>3 DEF DisposedFits, Types
    <2> QED
      BY <1>1, <1>5, <2>4, <2>5, TypesSplit DEF IndInv, EditorTypes, RestTypes, Types
  <1> QED
    BY <1>4, <1>5

\* An error arrives, which a dependable server does not send.
LEMMA ReceiveErrorFits ==
  ASSUME IndInv, NEW d \in Docs, ReceiveError(d)
  PROVE  IndInv'
  <1> DEFINE r == requestor[d]
             n == [r EXCEPT !.call = None]
  <1>0. /\ Types /\ WorkspaceFits /\ r \in Requestor /\ r.call # None
        /\ r.call.answer \in {"failed", "refused"} /\ events' = events
    BY DEF IndInv, Types, ReceiveError
  <1>1. /\ EditorTypes' /\ RestTypes' /\ WorkspaceFits'
        /\ UNCHANGED <<config, open, tabs, text, disposed>>
    BY <1>0, AnswerRest DEF ReceiveError, Types
  <1>2. requestor' = [requestor EXCEPT ![d] = n]
    BY <1>0 DEF ReceiveError, Types
  <1>3. /\ n \in Requestor /\ n.call = None /\ n.request = r.request
        /\ n.shown = r.shown /\ n.state = r.state
    BY <1>0 DEF Requestor
  <1> HIDE DEF n
  <1>4. CASE ~disposed
    <2>1. AllFit /\ Fits(d, r, d \in open, d \in tabs, text[d])
      BY <1>0, <1>4 DEF IndInv, AllFit
    <2>2. ~Dependable
      BY <1>0, <2>1 DEF Fits, CurrentFits
    <2>3. Fits(d, n, d \in open, d \in tabs, text[d])
      BY <1>3, <2>1, <2>2
         DEF Fits, CallFits, IdFits, HiddenFits, CurrentFits, Tracks, Knows
    <2>4. requestor' \in [Docs -> Requestor] /\ AllFit'
      BY <1>0, <1>1, <1>2, <1>3, <2>1, <2>3, OneDocument
    <2> QED
      BY <1>1, <1>4, <2>4, TypesSplit DEF IndInv, EditorTypes, RestTypes, Types
  <1>5. CASE disposed
    <2>1. DisposedFits /\ requestor' \in [Docs -> Requestor]
      BY <1>0, <1>2, <1>3, <1>5 DEF IndInv, Types
    <2>2. DisposedFits'
      BY <1>0, <1>2, <1>3, <2>1 DEF DisposedFits, Types
    <2> QED
      BY <1>1, <1>5, <2>1, <2>2, TypesSplit DEF IndInv, EditorTypes, RestTypes, Types
  <1> QED
    BY <1>4, <1>5

\* The timer pulls the first document of the background's list, if any.
LEMMA LoopFits ==
  ASSUME IndInv, NEW b, Loop(b), UNCHANGED <<editor, workspace, errors, disposed, events>>
  PROVE  IndInv'
  <1> DEFINE d == FirstOf(b)
  <1>0. Types /\ WorkspaceFits
    BY DEF IndInv
  <1>1. /\ EditorTypes' /\ RestTypes' /\ WorkspaceFits'
        /\ UNCHANGED <<config, open, tabs, text, disposed>>
    BY <1>0, AnswerRest DEF Types
  <1>2. CASE requestor' = requestor
    <2>1. ~disposed => AllFit'
      BY <1>1, <1>2, NoDocument DEF IndInv
    <2>2. disposed => DisposedFits'
      BY <1>2 DEF IndInv, DisposedFits
    <2> QED
      BY <1>0, <1>1, <1>2, <2>1, <2>2, TypesSplit DEF IndInv, EditorTypes, RestTypes, Types
  <1>3. CASE /\ ~disposed /\ d \in Docs
             /\ requestor' = [requestor EXCEPT ![d] = Pull(@, version[d], "loop")]
    <2> HIDE DEF d
    <2>1. AllFit
      BY <1>3 DEF IndInv
    <2>2. "loop" \in Callbacks /\ "loop" # "forget"
      BY DEF Callbacks
    <2>3. version[d] \in Nat /\ HiddenFits(requestor[d], d \in tabs)
      BY <1>0, <1>3, <2>1, DocumentFits
    <2>4. requestor' \in [Docs -> Requestor] /\ AllFit'
      BY <1>0, <1>1, <1>3, <2>1, <2>2, <2>3, PullByKeeps
    <2> QED
      BY <1>1, <1>3, <2>4, TypesSplit DEF IndInv, EditorTypes, RestTypes, Types
  <1>4. requestor \in [Docs -> Requestor]
    BY <1>0 DEF Types
  <1>5. CASE d = None \/ disposed \/ d \notin Docs
    <2>1. requestor' = requestor
      BY <1>4, <1>5 DEF Loop
    <2> QED
      BY <1>2, <2>1
  <1>6. CASE d # None /\ ~disposed /\ d \in Docs
    <2>1. requestor' = [requestor EXCEPT ![d] = Pull(@, version[d], "loop")]
      BY <1>6 DEF Loop
    <2> QED
      BY <1>3, <1>6, <2>1
  <1> QED
    BY <1>5, <1>6

\* Steps of the workspace pull that leave the requestor alone.
LEMMA WorkspaceStep ==
  ASSUME IndInv, UNCHANGED <<editor, requestor, disposed>>,
         workspace' \in Workspace, errors' \in 0..MaxWorkspaceErrors + 1,
         events' \in 0..MaxEvents, WorkspaceFits'
  PROVE  IndInv'
  <1>1. UNCHANGED <<config, open, tabs, text, requestor, disposed>>
    BY DEF editor
  <1>2. Types'
    BY DEF IndInv, Types, editor
  <1>3. ~disposed => AllFit'
    BY <1>1, NoDocument DEF IndInv
  <1>4. disposed => DisposedFits'
    BY <1>1 DEF IndInv, DisposedFits
  <1> QED
    BY <1>1, <1>2, <1>3, <1>4 DEF IndInv

\* A workspace pull that begins or rests.
LEMMA WorkspacePullTypes ==
  /\ NoReports \in [Docs -> Reports \cup {None}]
  /\ \A phase \in {"off", "waiting", "pending", "report", "failed"},
        ids \in [Docs -> Reports \cup {None}] :
       /\ WorkspacePull(phase, ids) \in Workspace
       /\ WorkspacePull(phase, ids).phase = phase
  BY DEF NoReports, WorkspacePull, Workspace

\* The pull of the workspace starts a round,
LEMMA PullWorkspaceFits ==
  ASSUME IndInv, PullWorkspace
  PROVE  IndInv'
  <1>1. Types /\ WorkspaceFits /\ workspace.phase = "waiting"
    BY DEF IndInv, PullWorkspace
  <1>2. PreviousIds \in [Docs -> Reports \cup {None}]
    BY <1>1 DEF PreviousIds, Types, Requestor, State, Tracks
  <1>3. workspace' \in Workspace /\ workspace'.phase = "pending"
    BY <1>2, WorkspacePullTypes DEF PullWorkspace
  <1>4. WorkspaceFits'
    BY <1>1, <1>3 DEF WorkspaceFits, PullWorkspace, editor
  <1> QED
    BY <1>1, <1>3, <1>4, WorkspaceStep DEF PullWorkspace, Types, editor

\* the server answers it,
LEMMA ServerAnswersWorkspaceFits ==
  ASSUME IndInv, ServerAnswersWorkspace
  PROVE  IndInv'
  <1>1. Types /\ WorkspaceFits /\ workspace.phase = "pending"
    BY DEF IndInv, ServerAnswersWorkspace
  <1>2. events' \in 0..MaxEvents
    BY <1>1, DiagnosticAssumption DEF Types, ServerAnswersWorkspace
  <1>3. workspace' \in Workspace /\ workspace'.phase \in {"report", "failed"}
    <2>1. \A d \in Docs : Analysis(d) \in Reports
      BY <1>1, ReportCurrent
    <2> DEFINE all == [d \in Docs |-> Analysis(d)]
    <2>2. all \in [Docs -> Reports \cup {None}]
      BY <2>1
    <2> HIDE DEF all
    <2>3. /\ [workspace EXCEPT !.phase = "report", !.reports = all] \in Workspace
          /\ [workspace EXCEPT !.phase = "report", !.reports = all].phase = "report"
          /\ [workspace EXCEPT !.phase = "failed"] \in Workspace
          /\ [workspace EXCEPT !.phase = "failed"].phase = "failed"
      BY <1>1, <2>2 DEF Types, Workspace
    <2> QED
      BY <2>3 DEF ServerAnswersWorkspace, all
  <1>4. WorkspaceFits'
    BY <1>1, <1>3 DEF WorkspaceFits, ServerAnswersWorkspace, editor
  <1> QED
    BY <1>1, <1>2, <1>3, <1>4, WorkspaceStep DEF ServerAnswersWorkspace, Types, editor

\* and an error ends the pulls when there were too many.
LEMMA ReceiveWorkspaceErrorFits ==
  ASSUME IndInv, ReceiveWorkspaceError
  PROVE  IndInv'
  <1>1. Types /\ WorkspaceFits /\ workspace.phase = "failed"
    BY DEF IndInv, ReceiveWorkspaceError
  <1>2. errors' \in 0..MaxWorkspaceErrors + 1 /\ config.workspace
    BY <1>1 DEF Types, WorkspaceFits, ReceiveWorkspaceError, MaxWorkspaceErrors
  <1>3. /\ workspace' \in Workspace
        /\ errors' > MaxWorkspaceErrors => workspace'.phase = "off"
    BY <1>1, WorkspacePullTypes DEF ReceiveWorkspaceError, Waiting
  <1>4. WorkspaceFits'
    BY <1>2, <1>3 DEF WorkspaceFits, ReceiveWorkspaceError, editor
  <1> QED
    BY <1>1, <1>2, <1>3, <1>4, WorkspaceStep DEF ReceiveWorkspaceError, Types, editor

\* What the workspace reports is shown for documents without a state only.
LEMMA ReceiveWorkspaceFits ==
  ASSUME IndInv, ReceiveWorkspace
  PROVE  IndInv'
  <1>0. Types /\ WorkspaceFits /\ workspace.phase = "report"
    BY DEF IndInv, ReceiveWorkspace
  <1>1. /\ Types /\ WorkspaceFits /\ config.workspace
        /\ ~(errors > MaxWorkspaceErrors)
    BY <1>0 DEF WorkspaceFits
  <1>2. workspace' \in Workspace
    BY WorkspacePullTypes DEF ReceiveWorkspace, Waiting
  <1>3. EditorTypes' /\ RestTypes' /\ UNCHANGED <<config, open, tabs, text, disposed>>
    BY <1>1, <1>2 DEF ReceiveWorkspace, Types, EditorTypes, RestTypes, editor
  <1>4. WorkspaceFits'
    BY <1>1, <1>3 DEF WorkspaceFits, ReceiveWorkspace
  <1>5. CASE disposed
    <2>1. requestor' = requestor
      BY <1>1, <1>5 DEF ReceiveWorkspace, Types
    <2>2. DisposedFits'
      BY <1>5, <2>1 DEF IndInv, DisposedFits
    <2> QED
      BY <1>1, <1>3, <1>4, <1>5, <2>1, <2>2, TypesSplit
         DEF IndInv, EditorTypes, RestTypes, Types
  <1>6. CASE ~disposed
    <2>1. ASSUME NEW d \in Docs
          PROVE  /\ requestor'[d] \in Requestor
                 /\ Fits(d, requestor'[d], d \in open, d \in tabs, text[d])
      <3> DEFINE r == requestor[d]
                 report == workspace.reports[d]
                 shown == IF report # workspace.ids[d] /\ ~Tracks(r) THEN report ELSE r.shown
      <3>1. requestor'[d] = [r EXCEPT !.shown = shown, !.workspaceState = report]
        BY <1>6 DEF ReceiveWorkspace
      <3>2. /\ r \in Requestor /\ report \in Reports \cup {None}
            /\ shown \in Reports \cup {None}
            /\ Tracks(r) => shown = r.shown
        BY <1>1 DEF Types, Workspace, Requestor
      <3>3. Fits(d, r, d \in open, d \in tabs, text[d])
        BY <1>6 DEF IndInv, AllFit
      <3> HIDE DEF r, report, shown
      <3> DEFINE n == [r EXCEPT !.shown = shown, !.workspaceState = report]
      <3>4. n \in Requestor
        BY <3>2 DEF Requestor
      <3>5. /\ n.call = r.call /\ n.state = r.state /\ n.request = r.request
            /\ n.shown = shown
        BY <3>2 DEF Requestor
      <3>6. requestor'[d] = n
        BY <3>1
      <3> HIDE DEF n
      <3>7. Fits(d, n, d \in open, d \in tabs, text[d])
        BY <1>1, <3>2, <3>3, <3>5
           DEF Fits, CallFits, IdFits, HiddenFits, CurrentFits, Tracks, Knows
      <3> QED
        BY <3>4, <3>6, <3>7
    <2>2. requestor' \in [Docs -> Requestor]
      BY <2>1 DEF ReceiveWorkspace
    <2>3. AllFit'
      BY <1>3, <2>1, AllFitNext
    <2> QED
      BY <1>3, <1>4, <1>6, <2>2, <2>3, TypesSplit
         DEF IndInv, EditorTypes, RestTypes, Types
  <1> QED
    BY <1>5, <1>6

\* Disposing the provider outdates every request and shows nothing.
LEMMA DisposeFits ==
  ASSUME IndInv, Dispose
  PROVE  IndInv'
  <1>1. Types /\ WorkspaceFits /\ AllFit
    BY DEF IndInv, Dispose
  <1>2. workspace' \in Workspace /\ (workspace.phase = "off" => workspace'.phase = "off")
    BY <1>1, WorkspacePullTypes DEF Dispose, Types
  <1>3. EditorTypes' /\ RestTypes' /\ config' = config /\ disposed'
    BY <1>1, <1>2 DEF Dispose, Types, EditorTypes, RestTypes, editor
  <1>4. WorkspaceFits'
    BY <1>1, <1>2, <1>3 DEF WorkspaceFits, Dispose
  <1>5. ASSUME NEW d \in Docs
        PROVE  /\ requestor'[d] \in Requestor
               /\ requestor'[d].request \in {"none", "outDated"}
               /\ requestor'[d].call # None => requestor'[d].request # "none"
               /\ requestor'[d].shown = None
    <2> DEFINE r == requestor[d]
               c == IF r.request = "active" THEN CancelCall(r) ELSE r
               k == [r.call EXCEPT !.cancelled = TRUE]
               outdated == IF r.request = "none" THEN "none" ELSE "outDated"
    <2>1. r \in Requestor /\ (r.call # None => r.request # "none" /\ r.call \in Call)
      BY <1>1 DEF Types, AllFit, Fits, CallFits, Requestor
    <2>2. r.call # None => k \in Call /\ k # None
      BY <2>1, NoneAssumption DEF Call
    <2>3. /\ c \in Requestor /\ c.request = r.request
          /\ r.call = None => c.call = None
      <3>1. CancelCall(r) = [r EXCEPT !.call = IF r.call = None THEN None ELSE k]
        BY DEF CancelCall
      <3> HIDE DEF k
      <3> QED
        BY <2>1, <2>2, <3>1 DEF Requestor
    <2>4. requestor'[d] = [c EXCEPT !.request = IF c.request = "none" THEN "none"
                                                ELSE "outDated", !.shown = None]
      BY DEF Dispose
    <2> HIDE DEF c
    <2>5. /\ requestor'[d] \in Requestor /\ requestor'[d].call = c.call
          /\ requestor'[d].shown = None
          /\ requestor'[d].request = IF r.request = "none" THEN "none" ELSE "outDated"
      BY <2>3, <2>4 DEF Requestor
    <2> QED
      BY <2>1, <2>3, <2>5
  <1>6. requestor' \in [Docs -> Requestor]
    BY <1>5 DEF Dispose
  <1>7. DisposedFits'
    BY <1>5 DEF DisposedFits
  <1> QED
    BY <1>3, <1>4, <1>6, <1>7, TypesSplit DEF IndInv, EditorTypes, RestTypes, Types

\* The invariant holds when the provider is created.
LEMMA InitFits == Init => IndInv
  <1> SUFFICES ASSUME Init PROVE IndInv
    OBVIOUS
  <1>1. /\ config \in Configs /\ config.docs \subseteq Docs /\ 0 \in Texts
        /\ MaxEvents \in Nat /\ None \notin Docs
    BY DiagnosticAssumption DEF Init, Texts
  <1>2. OnDisk \in Reports /\ OnDisk # None /\ \A d \in Docs : OnDisk[d] = 0
    BY <1>1, NoneAssumption DEF OnDisk, Reports
  <1>3. workspace \in Workspace /\ (~config.workspace => workspace.phase = "off")
    BY WorkspacePullTypes DEF Init
  <1>4. Fresh \in Requestor /\ Fresh.call = None /\ Fresh.request = "none"
        /\ Fresh.state = None /\ Fresh.shown = None
    BY DEF Fresh, Requestor
  <1>5. ASSUME NEW d \in Docs, NEW h \in BOOLEAN
        PROVE  Fits(d, Fresh, FALSE, h, 0)
    BY <1>4 DEF Fits, CallFits, IdFits, HiddenFits, CurrentFits, Tracks, Knows
  <1>6. /\ Pulled \in Requestor /\ Pulled.call = None /\ Pulled.request = "none"
        /\ Pulled.state # None /\ Pulled.state.id = OnDisk /\ Pulled.shown = OnDisk
    <2> DEFINE s == [version |-> 1, id |-> OnDisk]
    <2>1. s \in State /\ s # None /\ s.id = OnDisk
      BY <1>2, NoneAssumption DEF State
    <2>2. Pulled = [Fresh EXCEPT !.state = s, !.shown = OnDisk]
      BY DEF Pulled
    <2> HIDE DEF s
    <2> QED
      BY <1>2, <1>4, <2>1, <2>2 DEF Requestor
  <1>7. ASSUME NEW d \in Docs, NEW o \in BOOLEAN
        PROVE  Fits(d, Pulled, o, TRUE, 0)
    BY <1>2, <1>6 DEF Fits, CallFits, IdFits, HiddenFits, CurrentFits, Tracks, Knows
  <1>8. ASSUME NEW d \in Docs
        PROVE  /\ requestor[d] \in Requestor
               /\ Fits(d, requestor[d], d \in open, d \in tabs, text[d])
    <2>0. text[d] = 0 /\ (d \in tabs) = (d \in open) /\ (d \in open) \in BOOLEAN
      BY <1>2 DEF Init
    <2>1. CASE d \notin open
      <3>1. requestor[d] = Fresh
        BY <2>1 DEF Init
      <3>2. Fits(d, Fresh, FALSE, FALSE, 0)
        BY <1>5
      <3>3. (d \in open) = FALSE /\ (d \in tabs) = FALSE
        BY <2>0, <2>1
      <3> QED
        BY <1>4, <2>0, <3>1, <3>2, <3>3
    <2>2. CASE d \in open /\ config.settled
      <3>1. requestor[d] = Pulled
        BY <2>2 DEF Init
      <3>2. Fits(d, Pulled, TRUE, TRUE, 0)
        BY <1>7
      <3>3. (d \in open) = TRUE /\ (d \in tabs) = TRUE
        BY <2>0, <2>2
      <3> QED
        BY <1>6, <2>0, <3>1, <3>2, <3>3
    <2>3. CASE d \in open /\ ~config.settled
      <3>1. requestor[d] = Pull(Fresh, 1, "add")
        BY <2>3 DEF Init
      <3>2. "add" \in Callbacks /\ "add" # "forget" /\ 1 \in Nat
        BY DEF Callbacks
      <3>3. Fits(d, Fresh, FALSE, TRUE, 0) /\ HiddenFits(Fresh, TRUE)
        BY <1>5 DEF Fits
      <3>4. /\ Pull(Fresh, 1, "add") \in Requestor
            /\ Fits(d, Pull(Fresh, 1, "add"), TRUE, TRUE, 0)
        BY <1>4, <3>2, <3>3, PullKeeps
      <3>5. (d \in open) = TRUE /\ (d \in tabs) = TRUE
        BY <2>0, <2>3
      <3> QED
        BY <2>0, <3>1, <3>4, <3>5
    <2> QED
      BY <2>1, <2>2, <2>3
  <1>9. requestor \in [Docs -> Requestor]
    BY <1>8 DEF Init
  <1>10. Types
    <2>1. errors = 0 /\ errors \in 0..MaxWorkspaceErrors + 1
      BY DEF Init, MaxWorkspaceErrors
    <2>2. events = MaxEvents /\ disposed = FALSE
      BY DEF Init
    <2>4. events \in 0..MaxEvents
      BY <1>1, <2>2
    <2>3. version \in [Docs -> Nat]
      BY DEF Init
    <2>5. /\ open \subseteq Docs /\ tabs \subseteq Docs
          /\ active \in Docs \cup {None} /\ text \in Reports
      BY <1>1, <1>2 DEF Init
    <2> QED
      BY <1>1, <1>3, <1>9, <2>1, <2>2, <2>3, <2>4, <2>5 DEF Types
  <1> QED
    BY <1>3, <1>8, <1>10 DEF Init, IndInv, WorkspaceFits, AllFit, MaxWorkspaceErrors

\* Every step keeps the invariant.
LEMMA NextFits == IndInv /\ [Next]_vars => IndInv'
  <1> SUFFICES ASSUME IndInv, [Next]_vars PROVE IndInv'
    OBVIOUS
  <1>1. ASSUME NEW d \in Docs,
               \/ OpenDoc(d) \/ ShowTab(d) \/ HideTab(d) \/ CloseDoc(d)
               \/ ServerAnswers(d) \/ Receive(d) \/ ReceiveError(d)
               \/ \E t \in Texts : Edit(d, t)
        PROVE  IndInv'
    BY <1>1, OpenDocFits, ShowTabFits, HideTabFits, CloseDocFits, EditFits,
       ServerAnswersFits, ReceiveFits, ReceiveErrorFits
  <1>2. CASE \E d \in Docs \cup {None} : Activate(d)
    BY <1>2, ActivateFits
  <1>3. CASE Refresh
    BY <1>3, RefreshFits
  <1>4. CASE TimerFires \/ LooseTimerFires
    BY <1>4, LoopFits DEF TimerFires, LooseTimerFires
  <1>5. CASE PullWorkspace
    BY <1>5, PullWorkspaceFits
  <1>6. CASE ServerAnswersWorkspace
    BY <1>6, ServerAnswersWorkspaceFits
  <1>7. CASE ReceiveWorkspace
    BY <1>7, ReceiveWorkspaceFits
  <1>8. CASE ReceiveWorkspaceError
    BY <1>8, ReceiveWorkspaceErrorFits
  <1>9. CASE Dispose
    BY <1>9, DisposeFits
  <1>10. CASE UNCHANGED vars
    <2>1. /\ UNCHANGED <<config, open, tabs, active, text, version>>
          /\ UNCHANGED <<requestor, workspace, errors, disposed, events>>
      BY <1>10 DEF vars, editor
    <2>2. WorkspaceFits'
      BY <2>1 DEF IndInv, WorkspaceFits
    <2> QED
      BY <2>1, <2>2, WorkspaceStep DEF IndInv, Types, editor
  <1> QED
    BY <1>1, <1>2, <1>3, <1>4, <1>5, <1>6, <1>7, <1>8, <1>9, <1>10 DEF Next

\* The invariant of one document after another is one of the specification.
LEMMA IndInvHolds == Spec => []IndInv
  BY InitFits, NextFits, PTL DEF Spec
-----------------------------------------------------------------------------
(* The background scheduler holds a document at most once, and everything   *)
(* that is done to it keeps it a background scheduler.                      *)

Distinct(q) == \A i, j \in 1..Len(q) : q[i] = q[j] => i = j
BackgroundFits(b) == b \in Background /\ Distinct(b.documents)

\* A list of different documents without one of them is such a list, and
\* does not contain it.
LEMMA WithoutDistinct ==
  ASSUME NEW q \in Seq(Docs), Distinct(q), NEW d \in Docs
  PROVE  /\ Without(q, d) \in Seq(Docs) /\ Distinct(Without(q, d))
         /\ ~Contains(Without(q, d), d)
  <1>1. CASE ~Contains(q, d)
    BY <1>1 DEF Without
  <1>2. CASE Contains(q, d)
    <2> DEFINE k == CHOOSE i \in 1..Len(q) : q[i] = d
               w == RemoveAt(q, k)
    <2>1. k \in 1..Len(q) /\ q[k] = d
      BY <1>2 DEF Contains
    <2> HIDE DEF k
    <2>2. /\ w \in Seq(Docs) /\ Len(q) \in Nat /\ Len(w) = Len(q) - 1
          /\ \A i \in 1..(Len(q) - 1) : w[i] = IF i < k THEN q[i] ELSE q[i + 1]
      BY <2>1, RemoveAtElements
    <2>3. Without(q, d) = w
      BY <1>2 DEF Without, k
    <2> HIDE DEF w
    <2>4. Distinct(w)
      <3> SUFFICES ASSUME NEW i \in 1..Len(w), NEW j \in 1..Len(w), w[i] = w[j]
                   PROVE  i = j
        BY DEF Distinct
      <3>1. /\ i \in 1..Len(q) /\ i + 1 \in 1..Len(q)
            /\ j \in 1..Len(q) /\ j + 1 \in 1..Len(q)
        BY <2>2
      <3> QED
        BY <2>1, <2>2, <3>1 DEF Distinct
    <2>5. ~Contains(w, d)
      <3> SUFFICES ASSUME NEW i \in 1..Len(w), w[i] = d
                   PROVE  FALSE
        BY DEF Contains
      <3>1. i \in 1..Len(q) /\ i + 1 \in 1..Len(q)
        BY <2>2
      <3> QED
        BY <2>1, <2>2, <3>1 DEF Distinct
    <2> QED
      BY <2>2, <2>3, <2>4, <2>5
  <1> QED
    BY <1>1, <1>2

\* A document is moved to the end of the list.
LEMMA TouchedFits ==
  ASSUME NEW b, BackgroundFits(b), NEW d \in Docs
  PROVE  /\ BackgroundFits(Touched(b, d))
         /\ Touched(b, d).last = b.last
         /\ Touched(b, d).handle = b.handle /\ Touched(b, d).loose = b.loose
  <1> DEFINE w == Without(b.documents, d)
             q == Append(w, d)
  <1>1. b \in Background /\ b.documents \in Seq(Docs) /\ Distinct(b.documents)
    BY DEF BackgroundFits, Background
  <1>2. w \in Seq(Docs) /\ Distinct(w) /\ ~Contains(w, d)
    BY <1>1, WithoutDistinct
  <1> HIDE DEF w
  <1>3. /\ q \in Seq(Docs) /\ Len(w) \in Nat /\ Len(q) = Len(w) + 1
        /\ \A i \in 1..Len(w) : q[i] = w[i]
        /\ q[Len(w) + 1] = d
    BY <1>2, AppendElements
  <1> HIDE DEF q
  <1>4. Distinct(q)
    <2> SUFFICES ASSUME NEW i \in 1..Len(q), NEW j \in 1..Len(q), q[i] = q[j]
                 PROVE  i = j
      BY DEF Distinct
    <2>1. /\ i \in 1..Len(w) \/ i = Len(w) + 1
          /\ j \in 1..Len(w) \/ j = Len(w) + 1
      BY <1>3
    <2>2. \A k \in 1..Len(w) : w[k] # d
      BY <1>2 DEF Contains
    <2> QED
      BY <1>2, <1>3, <2>1, <2>2 DEF Distinct
  <1>5. Touched(b, d) = [b EXCEPT !.documents = q]
    BY DEF Touched, q, w
  <1> QED
    BY <1>1, <1>3, <1>4, <1>5 DEF BackgroundFits, Background

\* The fields of a background scheduler may change within their types.
LEMMA BackgroundFields ==
  ASSUME NEW b, BackgroundFits(b), NEW l \in Docs \cup {None},
         NEW h \in {"none", "armed", "fired"}, NEW n \in Nat
  PROVE  /\ BackgroundFits([b EXCEPT !.last = l])
         /\ BackgroundFits([b EXCEPT !.handle = h])
         /\ BackgroundFits([b EXCEPT !.loose = n])
         /\ BackgroundFits([b EXCEPT !.handle = h, !.last = l])
         /\ BackgroundFits([b EXCEPT !.handle = h, !.loose = n])
         /\ b.last \in Docs \cup {None} /\ b.handle \in {"none", "armed", "fired"}
         /\ b.loose \in Nat /\ b.documents \in Seq(Docs)
  BY DEF BackgroundFits, Background

\* Adding, triggering and stopping.
LEMMA SchedulerFits ==
  ASSUME NEW b, BackgroundFits(b), NEW d \in Docs
  PROVE  /\ BackgroundFits(Stop(b)) /\ BackgroundFits(Add(b, d))
         /\ BackgroundFits(RunLoop(b)) /\ BackgroundFits(Trigger(b))
         /\ FirstOf(b) \in Docs \cup {None}
  <1>1. \A c : BackgroundFits(c) => BackgroundFits(Stop(c))
    BY BackgroundFields DEF Stop
  <1>2. \A c : BackgroundFits(c) => BackgroundFits(RunLoop(c))
    BY <1>1, BackgroundFields DEF RunLoop
  <1>3. BackgroundFits(Add(b, d))
    BY TouchedFits, BackgroundFields DEF Add
  <1>4. LastOf(b) \in Docs \cup {None} /\ FirstOf(b) \in Docs \cup {None}
    <2>1. b.documents \in Seq(Docs)
      BY BackgroundFields
    <2>2. CASE b.documents # <<>>
      BY <2>1, <2>2 DEF LastOf, FirstOf, Last
    <2> QED
      BY <2>2 DEF LastOf, FirstOf
  <1> QED
    BY <1>1, <1>2, <1>3, <1>4, BackgroundFields DEF Trigger

\* The document before one that was taken out of the list is undefined.
LEMMA RemoveDocFits ==
  ASSUME NEW b, BackgroundFits(b), NEW d \in Docs
  PROVE  BackgroundFits(RemoveDoc(b, d))
  <1> DEFINE rest == [b EXCEPT !.documents = Without(@, d)]
  <1>1. b \in Background /\ b.documents \in Seq(Docs) /\ Distinct(b.documents)
    BY DEF BackgroundFits, Background
  <1>2. /\ BackgroundFits(rest) /\ rest.documents = Without(b.documents, d)
        /\ ~Contains(rest.documents, d)
    BY <1>1, WithoutDistinct DEF BackgroundFits, Background
  <1> HIDE DEF rest
  <1>3. Before(rest, d) = None
    BY <1>2 DEF Before
  <1>4. BackgroundFits(Stop(rest))
    BY <1>2, SchedulerFits
  <1> QED
    BY <1>2, <1>3, <1>4 DEF RemoveDoc, rest

\* A pull of the background returned, and the callback of any pull.
LEMMA CallBackFits ==
  ASSUME NEW b, BackgroundFits(b), NEW d \in Docs
  PROVE  /\ BackgroundFits(LoopReturned(b, d))
         /\ \A current : BackgroundFits(AddIfNeeded(b, d, current))
         /\ \A then : BackgroundFits(CallBack(b, d, then))
         /\ \A then : BackgroundFits(PullReturned(b, d, then))
  <1> DEFINE n == b.loose + (IF b.handle = "armed" THEN 1 ELSE 0)
             t == [Touched(b, d) EXCEPT !.handle = "none", !.loose = n]
  <1>0. b.loose \in Nat
    BY BackgroundFields
  <1>1. BackgroundFits(Touched(b, d)) /\ n \in Nat
    BY <1>0, TouchedFits
  <1>2. BackgroundFits(t)
    BY <1>1, BackgroundFields
  <1>3. LoopReturned(b, d) = IF d = t.last THEN t ELSE RunLoop(t)
    BY TouchedFits DEF LoopReturned
  <1> HIDE DEF t
  <1>4. BackgroundFits(LoopReturned(b, d))
    BY <1>2, <1>3, SchedulerFits
  <1>5. \A current : BackgroundFits(AddIfNeeded(b, d, current))
    BY SchedulerFits DEF AddIfNeeded
  <1>6. \A then : BackgroundFits(CallBack(b, d, then))
    BY <1>4, <1>5, SchedulerFits DEF CallBack
  <1> QED
    BY <1>4, <1>5, <1>6 DEF PullReturned

\* A timer fires: the background pulls its first document.
LEMMA LoopScheduled ==
  ASSUME NEW b, BackgroundFits(b), Loop(b)
  PROVE  BackgroundFits(background')
  <1>1. CASE FirstOf(b) = None
    BY <1>1 DEF Loop
  <1>2. CASE FirstOf(b) # None
    <2> DEFINE d == FirstOf(b)
    <2>1. d \in Docs
      <3>1. b.documents \in Seq(Docs)
        BY BackgroundFields DEF BackgroundFits, Background
      <3> QED
        BY <1>2, <3>1 DEF FirstOf
    <2>2. \/ background' = LoopReturned(b, d)
          \/ background' = PullReturned(b, d, "loop")
      BY <1>2 DEF Loop
    <2> QED
      BY <2>1, <2>2, CallBackFits
  <1> QED
    BY <1>1, <1>2

\* Every step keeps the background scheduler one.
LEMMA BackgroundNext ==
  ASSUME Types, BackgroundFits(background), [Next]_vars
  PROVE  BackgroundFits(background')
  <1>1. ASSUME NEW d \in Docs, OpenDoc(d) \/ ShowTab(d) \/ \E t \in Texts : Edit(d, t)
        PROVE  BackgroundFits(background')
    <2>1. \/ background' = background
          \/ \E then \in Callbacks : background' = PullReturned(background, d, then)
      BY <1>1 DEF OpenDoc, ShowTab, Edit, NoPull, PullBy, Callbacks
    <2> QED
      BY <2>1, CallBackFits
  <1>2. ASSUME NEW d \in Docs, HideTab(d) \/ CloseDoc(d)
        PROVE  BackgroundFits(background')
    BY <1>2, RemoveDocFits DEF HideTab, CloseDoc, CleanUpDocument
  <1>3. ASSUME NEW d \in Docs, Receive(d)
        PROVE  BackgroundFits(background')
    BY <1>3, CallBackFits DEF Receive
  <1>4. ASSUME NEW d \in Docs, ReceiveError(d)
        PROVE  BackgroundFits(background')
    BY <1>4, CallBackFits DEF ReceiveError
  <1>5. ASSUME NEW d \in Docs \cup {None}, Activate(d)
        PROVE  BackgroundFits(background')
    <2> DEFINE left == IF active = None THEN background
                       ELSE AddIfNeeded(background, active, d)
    <2>1. background' = IF d = None THEN left ELSE RemoveDoc(left, d)
      BY <1>5 DEF Activate
    <2>2. BackgroundFits(left)
      BY CallBackFits DEF Types
    <2> HIDE DEF left
    <2> QED
      BY <2>1, <2>2, RemoveDocFits
  <1>6. CASE TimerFires
    <2>1. BackgroundFits([background EXCEPT !.handle = "fired"])
      BY BackgroundFields
    <2> QED
      BY <1>6, <2>1, LoopScheduled DEF TimerFires
  <1>7. CASE LooseTimerFires
    <2>1. background.loose \in Nat
      BY BackgroundFields
    <2>2. background.loose - 1 \in Nat
      BY <1>7, <2>1 DEF LooseTimerFires
    <2>3. BackgroundFits([background EXCEPT !.loose = @ - 1])
      BY <2>2, BackgroundFields
    <2> QED
      BY <1>7, <2>3, LoopScheduled DEF LooseTimerFires
  <1>8. CASE Dispose
    <2>1. BackgroundFits(Stop(background))
      BY BackgroundFields DEF Stop
    <2>2. background' = [Stop(background) EXCEPT !.documents = <<>>]
      BY <1>8 DEF Dispose
    <2>3. Distinct(<<>>) /\ <<>> \in Seq(Docs)
      BY DEF Distinct
    <2> QED
      BY <2>1, <2>2, <2>3 DEF BackgroundFits, Background
  <1>9. CASE \E d \in Docs : ServerAnswers(d)
    BY <1>9 DEF ServerAnswers
  <1>10. CASE \/ Refresh \/ PullWorkspace \/ ServerAnswersWorkspace
              \/ ReceiveWorkspace \/ ReceiveWorkspaceError \/ UNCHANGED vars
    BY <1>10 DEF Refresh, PullWorkspace, ServerAnswersWorkspace,
                 ReceiveWorkspace, ReceiveWorkspaceError, vars
  <1> QED
    BY <1>1, <1>2, <1>3, <1>4, <1>5, <1>6, <1>7, <1>8, <1>9, <1>10 DEF Next

\* The documents that were pulled when a behaviour starts are finitely many.
LEMMA BackgroundInit ==
  ASSUME IsFiniteSet(Docs), Init
  PROVE  BackgroundFits(background)
  <1>1. ASSUME NEW q \in Seq(Docs), Distinct(q)
        PROVE  BackgroundFits(NewBackground(q))
    BY <1>1 DEF BackgroundFits, NewBackground, Background
  <1>2. <<>> \in Seq(Docs) /\ Distinct(<<>>)
    BY DEF Distinct
  <1> DEFINE S == open \ {active}
             q == SetToSeq(S)
  <1>3. S \subseteq Docs
    BY DiagnosticAssumption DEF Init
  <1> HIDE DEF S
  <1>4. IsFiniteSet(S)
    BY <1>3, FS_Subset
  <1>5. /\ q \in Seq(S)
        /\ \A i, j \in 1..Len(q) : q[i] = q[j] => i = j
    BY <1>4, SetToSeqElements
  <1> HIDE DEF q
  <1>6. q \in Seq(Docs) /\ Distinct(q)
    BY <1>3, <1>5 DEF Distinct
  <1>7. background = NewBackground(q) \/ background = NewBackground(<<>>)
    BY DEF Init, q, S
  <1> QED
    BY <1>1, <1>2, <1>6, <1>7
-----------------------------------------------------------------------------
\* RestingIsCurrent: however edits, tabs, opens, cancellations and answers are
\* interleaved, a visible document for which no request is under way shows the
\* diagnostics of its contents, if the server is dependable (pullAsync,
\* onChange, onOpen and cleanUpDocument of diagnostic.ts).
THEOREM RestingIsCurrentHolds == Spec => []RestingIsCurrent
  <1>1. IndInv => RestingIsCurrent
    <2> SUFFICES ASSUME IndInv, Dependable, NEW d \in Docs, Visible(d), AtRest(d)
                 PROVE  Current(d)
      BY DEF RestingIsCurrent
    <2> DEFINE r == requestor[d]
    <2>1. d \in open /\ d \in tabs /\ ~disposed /\ r.call = None
      BY DEF Visible, AtRest
    <2>2. CurrentFits(d, r, TRUE, TRUE, text[d])
      BY <2>1 DEF IndInv, AllFit, Fits
    <2> HIDE DEF r
    <2>3. r.shown # None /\ r.shown[d] = text[d]
      BY <2>1, <2>2 DEF CurrentFits, Knows
    <2> QED
      BY <2>3 DEF Current, Shown, r
  <1> QED
    BY <1>1, IndInvHolds, PTL

\* IdDenotesShown: the result id the next request of a document will carry is
\* that of the diagnostics shown for it, so that an unchanged report, which
\* leaves them as they are, leaves the right ones.
THEOREM IdDenotesShownHolds == Spec => []IdDenotesShown
  <1>1. IndInv => IdDenotesShown
    <2> SUFFICES ASSUME IndInv, ~disposed, NEW d \in Docs,
                        requestor[d].state # None, requestor[d].state.id # None
                 PROVE  requestor[d].state.id = Shown(d)
      BY DEF IdDenotesShown
    <2>1. IdFits(requestor[d])
      BY DEF IndInv, AllFit, Fits
    <2> QED
      BY <2>1 DEF IdFits, Tracks, Shown
  <1> QED
    BY <1>1, IndInvHolds, PTL

\* OnlyVisibleShown, for finitely many documents: everything has its type, and
\* without workspace diagnostics nothing is shown for a document without a tab,
\* whenever the answers to its requests arrive (forgetDocument, and the test of
\* the visible documents after the await of pullAsync).
THEOREM OnlyVisibleShownHolds ==
  ASSUME IsFiniteSet(Docs)
  PROVE  Spec => []OnlyVisibleShown
  <1> DEFINE Inv == IndInv /\ BackgroundFits(background)
  <1>1. Init => Inv
    BY InitFits, BackgroundInit
  <1>2. Inv /\ [Next]_vars => Inv'
    BY NextFits, BackgroundNext DEF IndInv
  <1>3. Inv => OnlyVisibleShown
    <2> SUFFICES ASSUME Inv PROVE OnlyVisibleShown
      OBVIOUS
    <2>1. IsInjective(background.documents)
      <3>1. background.documents \in Seq(Docs)
        BY BackgroundFields
      <3>2. DOMAIN background.documents = 1..Len(background.documents)
        BY <3>1
      <3> QED
        BY <3>2 DEF IsInjective, BackgroundFits, Distinct
    <2>2. TypeOK
      BY <2>1 DEF TypeOK, IndInv, Types, BackgroundFits
    <2>3. HiddenShowsNothing
      <3> SUFFICES ASSUME ~config.workspace, NEW d \in Docs, d \notin tabs
                   PROVE  requestor[d].shown = None
        BY DEF HiddenShowsNothing, Shown
      <3>1. CASE disposed
        BY <3>1 DEF IndInv, DisposedFits
      <3>2. CASE ~disposed
        <4>1. HiddenFits(requestor[d], d \in tabs)
          BY <3>2 DEF IndInv, AllFit, Fits
        <4> QED
          BY <4>1 DEF HiddenFits
      <3> QED
        BY <3>1, <3>2
    <2> QED
      BY <2>2, <2>3 DEF OnlyVisibleShown
  <1> HIDE DEF Inv
  <1> QED
    BY <1>1, <1>2, <1>3, PTL DEF Spec

\* A disposed provider makes no request: a document at rest stays at rest.
LEMMA DisposedAtRest ==
  ASSUME IndInv, disposed, [Next]_vars, NEW d \in Docs, AtRest(d)
  PROVE  AtRest(d)' /\ disposed'
  <1>0. requestor \in [Docs -> Requestor]
    BY DEF IndInv, Types
  <1>1. ~Event /\ ~Dispose
    BY DEF Event, Dispose
  <1>2. ASSUME NEW e \in Docs, ServerAnswers(e) \/ Receive(e) \/ ReceiveError(e)
        PROVE  AtRest(d)' /\ disposed'
    <2>1. disposed' = disposed /\ e # d
      BY <1>2 DEF ServerAnswers, Receive, ReceiveError, AtRest
    <2>2. requestor'[d] = requestor[d]
      BY <1>0, <1>2, <2>1 DEF ServerAnswers, Receive, ReceiveError
    <2> QED
      BY <2>1, <2>2 DEF AtRest
  <1>3. ASSUME NEW b, Loop(b), disposed' = disposed
        PROVE  AtRest(d)' /\ disposed'
    <2>1. requestor'[d] = requestor[d]
      BY <1>0, <1>3 DEF Loop
    <2> QED
      BY <1>3, <2>1 DEF AtRest
  <1>4. CASE TimerFires \/ LooseTimerFires
    BY <1>3, <1>4 DEF TimerFires, LooseTimerFires
  <1>5. CASE ReceiveWorkspace
    BY <1>0, <1>5 DEF ReceiveWorkspace, AtRest
  <1>6. CASE \/ PullWorkspace \/ ServerAnswersWorkspace
             \/ ReceiveWorkspaceError \/ UNCHANGED vars
    BY <1>6 DEF PullWorkspace, ServerAnswersWorkspace, ReceiveWorkspaceError,
                vars, AtRest
  <1> QED
    BY <1>1, <1>2, <1>4, <1>5, <1>6
       DEF Next, OpenDoc, ShowTab, HideTab, CloseDoc, Edit, Activate, Refresh

\* SilentWhenDisposed: once the provider is disposed it sends no request and
\* shows nothing, whatever answers, callbacks and timers are still under way.
THEOREM SilentWhenDisposedHolds == Spec => SilentWhenDisposed
  <1>1. /\ IndInv /\ [Next]_vars
        => (disposed => \A d \in Docs : /\ AtRest(d) => AtRest(d)'
                                        /\ UNCHANGED Shown(d))
    <2> SUFFICES ASSUME IndInv, [Next]_vars, disposed, NEW d \in Docs
                 PROVE  /\ AtRest(d) => AtRest(d)'
                        /\ UNCHANGED Shown(d)
      OBVIOUS
    <2>1. IndInv'
      BY NextFits
    <2>2. disposed'
      <3>1. ~Event /\ ~Dispose
        BY DEF Event, Dispose
      <3> QED
        BY <3>1
           DEF Next, vars, OpenDoc, ShowTab, HideTab, CloseDoc, Edit, Activate,
               Refresh, ServerAnswers, Receive, ReceiveError, TimerFires,
               LooseTimerFires, PullWorkspace, ServerAnswersWorkspace,
               ReceiveWorkspace, ReceiveWorkspaceError
    <2>3. requestor[d].shown = None /\ requestor'[d].shown = None
      BY <2>1, <2>2 DEF IndInv, DisposedFits
    <2> QED
      BY <2>3, DisposedAtRest DEF Shown
  <1>2. /\ IndInv /\ [Next]_vars
        => [disposed => \A d \in Docs : /\ AtRest(d) => AtRest(d)'
                                        /\ UNCHANGED Shown(d)]_vars
    BY <1>1
  <1> QED
    BY <1>2, IndInvHolds, PTL DEF Spec, SilentWhenDisposed
=============================================================================

--------------------------- MODULE MCDiagnosticPull ---------------------------
\* TLC instances of DiagnosticPull.
EXTENDS DiagnosticPull

CONSTANTS d1, d2

\* Two documents, with everything a user may do to them.
Plain == [docs |-> {d1, d2}, interFile |-> FALSE, workspace |-> FALSE,
          onChange |-> TRUE, onFocus |-> TRUE, answers |-> {"cancelled"},
          switches |-> TRUE, closes |-> TRUE, tabless |-> TRUE,
          settled |-> FALSE]

\* The background at work.
Background1 == [Plain EXCEPT !.interFile = TRUE, !.onFocus = FALSE,
                             !.closes = FALSE, !.tabless = FALSE,
                             !.answers = {}]

\* One document, with workspace diagnostics and a server that fails or
\* refuses requests.
Workspace1 == [Plain EXCEPT !.docs = {d1}, !.workspace = TRUE,
                            !.tabless = FALSE,
                            !.answers = {"failed", "refused"}]
Workspace2 == [Workspace1 EXCEPT !.closes = FALSE, !.answers = {"cancelled"}]

PullConfigs == {Plain, Background1, Workspace1, Workspace2}
-----------------------------------------------------------------------------
\* A visible document comes to show the diagnostics of its contents, unless the
\* provider is disposed of: then nothing is sent or shown any more.
CurrentInTheEnd == BecomesCurrent /\ SilentWhenDisposed
=============================================================================

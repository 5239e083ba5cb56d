--------------------------- MODULE MCClientEvents ---------------------------
\* TLC instances of ClientEvents.
EXTENDS ClientEvents

CONSTANTS u1, u2, w1, w2

\* The queue of diagnostics, the file events and the pending changes meet only
\* in the client's life and in the send of file events.
Separately ==
  {[publishes |-> 3, files |-> 0, edits |-> 1, sessions |-> 2],
   [publishes |-> 0, files |-> 3, edits |-> 1, sessions |-> 2]}
=============================================================================

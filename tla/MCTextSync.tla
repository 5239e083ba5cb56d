----------------------------- MODULE MCTextSync -----------------------------
\* TLC instances of TextSync.
EXTENDS TextSync

CONSTANTS d1, d2

Incremental ==
  [sync |-> "Incremental", delayOpen |-> FALSE, docs |-> Docs, preopened |-> {d1},
   tabs |-> {d1, d2}, rapidReopen |-> TRUE, maxText |-> 2]
FullSync == [Incremental EXCEPT !.sync = "Full", !.rapidReopen = FALSE,
                                !.maxText = 1]

\* One document, edited once, whose open waits for a tab.
Delayed == [Incremental EXCEPT !.delayOpen = TRUE, !.docs = {d1}, !.preopened = {},
                               !.tabs = {}, !.maxText = 1]

\* Both kinds of synchronisation; every document open at the start has a tab.
PlainConfigs == {Incremental, FullSync, Delayed}

\* A document that is open, without a tab, when the client starts.
HiddenConfigs == {[Incremental EXCEPT !.tabs = {}]}
=============================================================================

--------------------------- MODULE MCNotebookSync ---------------------------
\* TLC instances of NotebookSync.
EXTENDS NotebookSync, TLC

CONSTANTS c1, c2, c3, python, jython, markdown

\* Cells differ in nothing: any permutation of them gives the same behaviours.
Symmetry == Permutations(Docs)
-----------------------------------------------------------------------------
\* Every notification fits the notebook the server holds when it arrives, and
\* once all have arrived it holds the cells, data and texts the client synced;
\* no text of a cell that is gone stays behind.
ServerFollows == TypeOK /\ NotificationsFit /\ ServerHasSynced /\ NothingLeftBehind
=============================================================================

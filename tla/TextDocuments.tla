---------------------------- MODULE TextDocuments ----------------------------
(***************************************************************************)
(* server/src/common/textDocuments.ts: the documents a server holds, kept  *)
(* up to date by the notifications that TextDocuments.listen subscribes    *)
(* to.  A text is a number: the n-th state of the document in the editor.  *)
(* An incremental change is the step from text n - 1 to text n, and gives  *)
(* Garbled on any other base.                                              *)
(***************************************************************************)
EXTENDS Integers

CONSTANT Docs        \* the documents

Absent == -1
Garbled == -2

VARIABLE server      \* _syncedDocuments: the text held for each document

InitServer == server = [d \in Docs |-> Absent]

\* TextDocument.update: full changes replace the text, others patch it.
Updated(text, incremental, base) ==
  IF incremental /\ base # text - 1 THEN Garbled ELSE text

\* The documents held, after a notification about one of them.
Opened(held, d, text) == [held EXCEPT ![d] = text]

\* A change of a document that is not open is dropped without a word.
Changed(held, d, text, incremental) ==
  IF held[d] = Absent THEN held
  ELSE [held EXCEPT ![d] = Updated(text, incremental, @)]

Closed(held, d) == [held EXCEPT ![d] = Absent]

OnDidOpen(d, text) == server' = Opened(server, d, text)

OnDidChange(d, text, incremental) == server' = Changed(server, d, text, incremental)

OnDidClose(d) == server' = Closed(server, d)
=============================================================================

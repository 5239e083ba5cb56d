--------------------------- MODULE WorkspaceEdits ---------------------------
(***************************************************************************)
(* workspace/applyEdit: the client (client/src/common/client.ts) converts  *)
(* the edits of a server one after the other, behind a semaphore, checks   *)
(* that the documents still have the versions the edit was computed for,   *)
(* and applies it.  Meanwhile the user types, and opens and closes the     *)
(* documents.  A conversion takes as long as it does: it is asynchronous,  *)
(* in slices (Convert).  A document that is not open has no version, and   *)
(* one that is opened again starts again with version 1.                   *)
(***************************************************************************)
EXTENDS Naturals, Sequences, SequencesExt

CONSTANTS Documents, None, MaxVersion, MaxEdits, MaxOpens

VARIABLES
    version,     \* the version of a document, 0 when it is not open
    opens,       \* how often it was opened: versions are of one opening
    seen,        \* the version, and its opening, that the server knows of
    toServer, toClient,
    waiting,     \* the edits that wait in workspaceEditLock, in order
    converting,  \* the edits being converted
    applied,     \* history: the edits applied, in order
    stale,       \* history: an edit was applied to another version
    edits        \* bound: the number of the last edit sent

vars == <<version, opens, seen, toServer, toClient, waiting, converting, applied, stale, edits>>

-----------------------------------------------------------------------------
(* The editor and the server.                                              *)

Tells(d) == toServer' = Append(toServer, [document |-> d, at |-> <<opens'[d], version'[d]>>])

Open(d) ==
    /\ version[d] = 0 /\ opens[d] < MaxOpens
    /\ version' = [version EXCEPT ![d] = 1]
    /\ opens' = [opens EXCEPT ![d] = @ + 1]
    /\ Tells(d)
    /\ UNCHANGED <<seen, toClient, waiting, converting, applied, stale, edits>>

Type(d) ==
    /\ version[d] \in 1..MaxVersion - 1
    /\ version' = [version EXCEPT ![d] = @ + 1]
    /\ UNCHANGED opens
    /\ Tells(d)
    /\ UNCHANGED <<seen, toClient, waiting, converting, applied, stale, edits>>

Close(d) ==
    /\ version[d] # 0
    /\ version' = [version EXCEPT ![d] = 0]
    /\ UNCHANGED <<opens, seen, toServer, toClient, waiting, converting, applied, stale, edits>>

ServerLearns ==
    /\ toServer # <<>>
    /\ seen' = [seen EXCEPT ![Head(toServer).document] = Head(toServer).at]
    /\ toServer' = Tail(toServer)
    /\ UNCHANGED <<version, opens, toClient, waiting, converting, applied, stale, edits>>

\* An edit names the versions it is for, or None for a document it does not
\* touch or whose version it does not care about.
ServerSends(documents) ==
    /\ edits < MaxEdits /\ \A d \in documents : seen[d] # <<0, 0>>
    /\ edits' = edits + 1
    /\ toClient' = Append(toClient,
           [id |-> edits', at |-> [d \in Documents |-> IF d \in documents THEN seen[d] ELSE None]])
    /\ UNCHANGED <<version, opens, seen, toServer, waiting, converting, applied, stale>>

-----------------------------------------------------------------------------
(* doHandleApplyWorkspaceEdit.                                             *)

\* The request comes: it queues for the lock.
Receive ==
    /\ toClient # <<>>
    /\ waiting' = Append(waiting, Head(toClient))
    /\ toClient' = Tail(toClient)
    /\ UNCHANGED <<version, opens, seen, toServer, converting, applied, stale, edits>>

\* Mutant of Capacity: two edits are converted side by side.
CapacityTwo == 2

\* workspaceEditLock is a Semaphore(1).
Capacity == 1

\* The semaphore has room: the conversion starts.
Convert ==
    /\ waiting # <<>> /\ Len(converting) < Capacity
    /\ converting' = Append(converting, Head(waiting))
    /\ waiting' = Tail(waiting)
    /\ UNCHANGED <<version, opens, seen, toServer, toClient, applied, stale, edits>>

\* validateWorkspaceEdit.
ValidateWorkspaceEdit(edit) ==
    \A d \in Documents : version[d] # 0 /\ edit.at[d] # None
                            => version[d] = edit.at[d][2]

\* One is converted: its lock is released, it is checked and, with nothing in
\* between, applied; the open documents it touches get a new version.
Outdated(d, edit) == opens[d] = edit.at[d][1] /\ version[d] # edit.at[d][2]
Converted(i) ==
    LET edit == converting[i]
        touched == {d \in Documents : edit.at[d] # None /\ version[d] # 0}
    IN /\ converting' = RemoveAt(converting, i)
       /\ IF ValidateWorkspaceEdit(edit)
          THEN /\ applied' = Append(applied, edit.id)
               /\ stale' = (stale \/ \E d \in touched : Outdated(d, edit))
               /\ version' = [d \in Documents |-> IF d \in touched THEN version[d] + 1 ELSE version[d]]
               /\ toServer' = toServer \o
                     SetToSeq({[document |-> d, at |-> <<opens[d], version'[d]>>] : d \in touched})
          ELSE UNCHANGED <<applied, stale, version, toServer>>
       /\ UNCHANGED <<opens, seen, toClient, waiting, edits>>

-----------------------------------------------------------------------------
Init ==
    /\ version = [d \in Documents |-> 0] /\ opens = version
    /\ seen = [d \in Documents |-> <<0, 0>>]
    /\ toServer = <<>> /\ toClient = <<>> /\ waiting = <<>> /\ converting = <<>>
    /\ applied = <<>> /\ stale = FALSE /\ edits = 0

Next ==
    \/ \E d \in Documents : Open(d) \/ Type(d) \/ Close(d)
    \/ ServerLearns
    \/ \E documents \in SUBSET Documents : ServerSends(documents)
    \/ Receive \/ Convert
    \/ \E i \in DOMAIN converting : Converted(i)

Spec == Init /\ [][Next]_vars

-----------------------------------------------------------------------------
(* Properties.                                                             *)

\* Edits are applied in the order the server sent them, however long their
\* conversions take, and none to another version of an open document than the
\* one it was computed for, whatever the user types meanwhile: the comment
\* marked CRITICAL in doHandleApplyWorkspaceEdit.  A document that was closed
\* and opened again meanwhile is excepted: its versions start again.
AppliedAsSent ==
    /\ ~stale
    /\ \A i, j \in DOMAIN applied : i < j => applied[i] < applied[j]
=============================================================================

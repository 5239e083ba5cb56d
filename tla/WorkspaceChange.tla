--------------------------- MODULE WorkspaceChange ---------------------------
(***************************************************************************)
(* The helper class WorkspaceChange (types/src/main.ts), with which a      *)
(* server builds the edit it answers or asks the client to apply: edits of *)
(* documents, operations on files, and annotations that explain them and   *)
(* are named by identifiers.  It may be begun over an edit that exists.    *)
(*                                                                         *)
(* An edit has the form `changes`, a list of edits per document, or the    *)
(* form `documentChanges`, one list of documents and files in order.  The  *)
(* first call decides.  A call the form does not allow throws.             *)
(***************************************************************************)
EXTENDS Naturals, Sequences

CONSTANTS
    Documents,
    Annotations,  \* the annotations callers have
    None,
    MaxCalls

VARIABLES
    form,      \* "undecided", "changes" or "documentChanges"
    changes,   \* the edit: entries [of, uri, ids]; `of` is "edits" or a file operation
    editsOf,   \* document -> position of the entry its TextEditChange adds to; 0 for none
    defined,   \* _annotations: identifier -> annotation or None
    counter, size,
    begun,     \* identifiers that were defined when the change was begun
    promised,  \* ghost: identifier -> the annotation a caller was told it names
    read,      \* whether the edit was read after the last call, with its changeAnnotations
    calls

vars == <<form, changes, editsOf, defined, counter, size, begun, promised, read, calls>>

Ids == 1..MaxCalls
Nothing == [id \in Ids |-> None]
Entry(of, uri, ids) == [of |-> of, uri |-> uri, ids |-> ids]

(* Begun over nothing, or over an edit of either form; one with document   *)
(* changes may define annotations, the first ones of another change.  The  *)
(* counter and the size start at nothing in any case.                      *)
Init ==
    /\ counter = 0 /\ size = 0 /\ calls = 0 /\ promised = Nothing
    /\ read = [fresh |-> FALSE, annotations |-> Nothing]
    /\ \/ /\ form = "undecided"
          /\ changes = <<>> /\ editsOf = [d \in Documents |-> 0]
          /\ defined = Nothing
       \/ \E d \in Documents : \E a \in Annotations \cup {None} :
             /\ form \in {"changes", "documentChanges"}
             /\ form = "changes" => a = None
             /\ changes = <<Entry("edits", d, IF a = None THEN {} ELSE {1})>>
             /\ editsOf = [e \in Documents |-> IF e = d THEN 1 ELSE 0]
             /\ defined = [Nothing EXCEPT ![1] = a]
    /\ begun = {id \in Ids : defined[id] # None}

-----------------------------------------------------------------------------
Called ==
    /\ calls < MaxCalls
    /\ calls' = calls + 1
    /\ read' = [fresh |-> FALSE, annotations |-> Nothing]
    /\ UNCHANGED begun

Decided(default) == IF form = "undecided" THEN default ELSE form

(* manage(annotation): the next identifier, unless an annotation the       *)
(* change was begun with has it: then the call throws, and the next one    *)
(* gets the next.  nextId has counted either way.                          *)
Free(id) == defined[id] = None
Managed(annotation) ==
    LET id == counter + 1 IN
    /\ counter' = id
    /\ IF Free(id)
       THEN /\ defined' = [defined EXCEPT ![id] = annotation]
            /\ size' = size + 1
            /\ promised' = [promised EXCEPT ![id] = annotation]
       ELSE UNCHANGED <<defined, size, promised>>

(* The annotation of a call: none, one to be managed, or an identifier the *)
(* caller was told or found defined.  The call puts what it is about, with *)
(* the identifiers `ids`, if `put` is true; it has thrown if not.          *)
Named == {{}} \cup {{id} : id \in Ids}
Annotated(ids, put) ==
    \/ /\ ids = {} /\ put
       /\ UNCHANGED <<defined, counter, size, promised>>
    \/ /\ ids = {counter + 1} /\ put = Free(counter + 1)
       /\ \E a \in Annotations : Managed(a)
    \/ \E id \in Ids :
          /\ promised[id] # None \/ id \in begun
          /\ ids = {id} /\ put
          /\ UNCHANGED <<defined, counter, size, promised>>

\* Mutant of GetTextEditChange: the change made for the document is not kept.
GetTextEditChangeAnew(d, wanted) ==
    /\ Called
    /\ form' = Decided(wanted)
    /\ IF form' # wanted THEN UNCHANGED <<changes, editsOf>>
       ELSE /\ changes' = Append(changes, Entry("edits", d, {}))
            /\ editsOf' = [editsOf EXCEPT ![d] = Len(changes) + 1]
    /\ UNCHANGED <<defined, counter, size, promised>>

(* getTextEditChange with a document and a version, or with a URI.         *)
GetTextEditChange(d, wanted) ==
    /\ Called
    /\ form' = Decided(wanted)
    /\ IF form' # wanted \/ editsOf[d] > 0
       THEN UNCHANGED <<changes, editsOf>>
       ELSE /\ changes' = Append(changes, Entry("edits", d, {}))
            /\ editsOf' = [editsOf EXCEPT ![d] = Len(changes) + 1]
    /\ UNCHANGED <<defined, counter, size, promised>>

(* insert, replace, delete and add of a TextEditChange.  With changes the  *)
(* TextEditChange has no annotations to manage, and throws.                *)
PutEdit(d, ids) == [changes EXCEPT ![editsOf[d]].ids = @ \cup ids]
Edit(d) ==
    /\ Called
    /\ editsOf[d] > 0
    /\ IF form = "documentChanges"
       THEN \E ids \in Named, put \in BOOLEAN :
               /\ Annotated(ids, put)
               /\ changes' = IF put THEN PutEdit(d, ids) ELSE changes
       ELSE UNCHANGED <<changes, defined, counter, size, promised>>
    /\ UNCHANGED <<form, editsOf>>
Clear(d) ==
    /\ Called
    /\ editsOf[d] > 0
    /\ changes' = [changes EXCEPT ![editsOf[d]].ids = {}]
    /\ UNCHANGED <<form, editsOf, defined, counter, size, promised>>

(* createFile, renameFile and deleteFile.                                  *)
FileOperation(of, d) ==
    /\ Called
    /\ form' = Decided("documentChanges")
    /\ IF form' = "documentChanges"
       THEN \E ids \in Named, put \in BOOLEAN :
               /\ Annotated(ids, put)
               /\ changes' = IF put THEN Append(changes, Entry(of, d, ids)) ELSE changes
       ELSE UNCHANGED <<changes, defined, counter, size, promised>>
    /\ UNCHANGED editsOf

(* The property `edit`: annotations are left out when none was counted.    *)
ReadEdit ==
    /\ ~read.fresh
    /\ form' = Decided("documentChanges")
    /\ read' = [fresh |-> TRUE, annotations |-> IF size = 0 THEN Nothing ELSE defined]
    /\ UNCHANGED <<changes, editsOf, defined, counter, size, begun, promised, calls>>

Next ==
    \/ \E d \in Documents :
          \/ \E wanted \in {"changes", "documentChanges"} : GetTextEditChange(d, wanted)
          \/ Edit(d)
          \/ Clear(d)
          \/ \E of \in {"create", "rename", "delete"} : FileOperation(of, d)
    \/ ReadEdit
Spec == Init /\ [][Next]_vars

-----------------------------------------------------------------------------
(* What is read defines every annotation its entries name, and as the      *)
(* annotation the caller gave for it: no identifier is given twice, none   *)
(* is forgotten.  A change begun over an edit with annotations forgets     *)
(* them until one more is managed, as the count starts at nothing.         *)
AnnotationsDefined ==
    read.fresh /\ (begun = {} \/ size > 0) =>
        \A k \in DOMAIN changes : \A id \in changes[k].ids :
            /\ read.annotations[id] # None
            /\ promised[id] # None => read.annotations[id] = promised[id]

(* A document has one list of edits, whatever the order of the calls, and  *)
(* it is the document's.                                                   *)
OneListPerDocument ==
    \A k, m \in DOMAIN changes :
        changes[k].of = "edits" =>
            /\ editsOf[changes[k].uri] = k
            /\ changes[m].of = "edits" /\ changes[m].uri = changes[k].uri => k = m
=============================================================================

--------------------------- MODULE FileOperations ---------------------------
(***************************************************************************)
(* The file operation features of client/src/common/fileOperations.ts.     *)
(* The editor creates, renames or deletes files: it announces the          *)
(* operation (onWill...), waits for who asked it to wait but not for ever, *)
(* changes the disk and announces that it did (onDid...).  A feature       *)
(* listens to one of the announcements and tells the server of the files   *)
(* its filters match: the will features with a request, which the editor   *)
(* waits for, the did features with a notification.  A filter may ask for  *)
(* a file or a folder: the feature then has to stat the path, after a      *)
(* rename or a delete too late.  So the did features of these two listen   *)
(* to the will event as well and keep the types they found in a cache.     *)
(*                                                                         *)
(* Nobody waits for what a did feature does: the next operation may begin  *)
(* while the files of the last one are still looked at, and so may one on  *)
(* other paths at any time.  Nor do the looks stop that the editor did not *)
(* wait for.  All of them share the cache, which whoever notifies clears.  *)
(*                                                                         *)
(* A look stats the path and stores the type in one step.                  *)
(*                                                                         *)
(* A behaviour explores one feature.  A rename is modelled by what happens *)
(* to the old path, the one that the filters see: as a delete, whose       *)
(* features do the same.                                                   *)
(***************************************************************************)
EXTENDS Naturals, FiniteSets

CONSTANTS Paths, Filters, RegistrationIds,
          \* bounds: operations of the editor, and what may come between them
          MaxOperations, MaxDisturbances

Kinds == {"file", "folder"}
Operations == 1..MaxOperations

VARIABLES
    kind,        \* "create", or "remove": a rename or a delete
    role,        \* "will" or "did"
    disk,        \* the type of what is at a path, or "none"
    registered,  \* _filters: the filters of the registrations, by id
    listener, willListener,
    cache,       \* _fsPathFileTypes, "none" for no entry
    running,     \* does the client run?
    op,          \* the operations
    disturbances \* registrations, stops, starts and appearances so far

vars == <<kind, role, disk, registered, listener, willListener, cache, running, op, disturbances>>

\* Only these two extend CachingNotificationFileOperationFeature.
Caches == role = "did" /\ kind = "remove"

(***************************************************************************)
(* An operation is announced ("will"), carried out ("did") and over when   *)
(* the feature is through with it.  Of its files, `caching` are those that *)
(* cacheFileTypes still looks at, `matching` those that the filter of send *)
(* or waitUntil looks at, and `matched` those it found to match; `sent`    *)
(* are those the server is told of.                                        *)
(*                                                                         *)
(* For the properties: what the files were, whether the cache was right    *)
(* about them when it began, and whether nothing has come between.         *)
(***************************************************************************)
Idle == [stage |-> "idle", files |-> {}, caching |-> {}, matching |-> {}, matched |-> {},
         told |-> FALSE, sent |-> {}, were |-> [p \in Paths |-> "none"],
         trusted |-> FALSE, undisturbed |-> FALSE]

InForce == UNION {registered[i] : i \in RegistrationIds}

Disturb(disturbed) ==
    [n \in Operations |-> [op[n] EXCEPT !.undisturbed = @ /\ n \notin disturbed]]

-----------------------------------------------------------------------------
(* Registration.                                                           *)

\* A filter whose glob is no pattern makes register throw; the listeners are
\* there already.
Invalid(filters) == \E f \in filters : f.form = "invalid"
Register(id, filters) ==
    /\ running /\ registered[id] = {}
    /\ listener' = TRUE
    /\ willListener' = Caches
    /\ registered' = IF Invalid(filters) THEN registered
                     ELSE [registered EXCEPT ![id] = filters]
    /\ op' = Disturb(Operations)
    /\ UNCHANGED <<kind, role, disk, cache, running>>

Unregister(id) ==
    /\ running
    /\ registered' = [registered EXCEPT ![id] = {}]
    /\ LET last == \A i \in RegistrationIds : registered'[i] = {}
       IN /\ listener' = (listener /\ ~last)
          /\ willListener' = (willListener /\ ~last)
    /\ op' = Disturb(Operations)
    /\ UNCHANGED <<kind, role, disk, cache, running>>

\* The client stops.
Clear ==
    /\ running
    /\ running' = FALSE
    /\ registered' = [i \in RegistrationIds |-> {}]
    /\ listener' = FALSE /\ willListener' = FALSE
    /\ op' = Disturb(Operations)
    /\ UNCHANGED <<kind, role, disk, cache>>

Start ==
    /\ ~running
    /\ running' = TRUE
    /\ UNCHANGED <<kind, role, disk, registered, listener, willListener, cache, op>>

-----------------------------------------------------------------------------
(* Matching.                                                               *)

\* Mutant of GetFileType: the types kept from before the operation are not used.
GetFileTypeNow(p) == disk[p]

\* getFileType, the caching one where the feature has it.
GetFileType(p) == IF Caches /\ cache[p] # "none" THEN cache[p] ELSE disk[p]

\* The type of the path does not matter to a filter without kind; a type that
\* cannot be determined is taken for a match.
MatchesPath(f, p) ==
    f.form = "path" /\ p \in f.paths
    /\ (f.kind = "any" \/ GetFileType(p) \in {"none", f.kind})
\* A folder is tried again with a slash at the end; its type is read from the
\* disk, by the static getFileType.
MatchesSlash(f, p) ==
    f.form = "slash" /\ p \in f.paths /\ f.kind = "folder" /\ disk[p] = "folder"
Match(p) == \E f \in InForce : MatchesPath(f, p) \/ MatchesSlash(f, p)

\* getFileType is called only when no filter before it decided.
AsksType(p) ==
    \E f \in InForce : f.form = "path" /\ p \in f.paths /\ f.kind # "any"
Remember(p) ==
    cache' = IF Caches /\ AsksType(p) /\ disk[p] # "none" /\ cache[p] = "none"
             THEN [cache EXCEPT ![p] = disk[p]] ELSE cache

\* cacheFileTypes and filter: the files are looked at together, each answered
\* in its own time.
CacheOne(n, p) ==
    /\ p \in op[n].caching
    /\ op' = [op EXCEPT ![n].caching = @ \ {p}]
    /\ Remember(p)
    /\ UNCHANGED <<kind, role, disk, registered, listener, willListener, running>>

MatchOne(n, p) ==
    /\ p \in op[n].matching
    /\ op' = [op EXCEPT ![n].matching = @ \ {p},
                        ![n].matched = IF Match(p) THEN @ \cup {p} ELSE @]
    /\ Remember(p)
    /\ UNCHANGED <<kind, role, disk, registered, listener, willListener, running>>

-----------------------------------------------------------------------------
(* The editor's operations.                                                *)

\* The paths an operation can be on: no other is about to change them.
Operable(p) ==
    /\ IF kind = "create" THEN disk[p] = "none" ELSE disk[p] # "none"
    /\ \A m \in Operations : op[m].stage = "will" => p \notin op[m].files

\* The types of the created things are chosen by the user.
TypesOf(files, types) ==
    [p \in Paths |-> IF p \notin files THEN "none"
                     ELSE IF kind = "create" THEN types[p] ELSE disk[p]]

Begin(n, files, types) ==
    /\ op[n].stage = "idle" /\ \A m \in 1..n - 1 : op[m].stage # "idle"
    /\ files # {} /\ \A p \in files : Operable(p)
    /\ op' = [op EXCEPT ![n] =
           [stage |-> "will", files |-> files,
            caching |-> IF willListener THEN files ELSE {},
            matching |-> IF role = "will" /\ listener THEN files ELSE {},
            matched |-> {}, told |-> FALSE, sent |-> {},
            were |-> TypesOf(files, types),
            trusted |-> \A p \in files : cache[p] \in {"none", disk[p]},
            undisturbed |-> TRUE]]
    /\ UNCHANGED <<kind, role, disk, registered, listener, willListener, cache, running>>

\* waitUntil of the will feature, once its files are filtered: it asks the
\* server if any matched, late if the editor has not waited for it.
Ask(n) ==
    /\ role = "will" /\ op[n].stage \in {"will", "did"} /\ ~op[n].told
    /\ op[n].matching = {}
    /\ op' = [op EXCEPT ![n].told = TRUE,
                        ![n].sent = IF running THEN op[n].matched ELSE {}]
    /\ UNCHANGED <<kind, role, disk, registered, listener, willListener, cache, running>>

\* The editor goes on when all it waits for is done, or when it has waited
\* long enough: then not all the files have been looked at.
Carry(n) ==
    /\ op[n].stage = "will"
    /\ disk' = [p \in Paths |-> IF p \notin op[n].files THEN disk[p]
                                ELSE IF kind = "create" THEN op[n].were[p] ELSE "none"]
    /\ op' = [op EXCEPT ![n].stage = "did",
                        ![n].matching = IF role = "will" THEN @
                                        ELSE IF listener THEN op[n].files ELSE {},
                        ![n].undisturbed = @ /\ op[n].caching = {} /\ op[n].matching = {}]
    /\ UNCHANGED <<kind, role, registered, listener, willListener, cache, running>>

\* send of the did feature once its files are filtered: doSend clears the
\* cache, and is called only if there is something to send.  The operations
\* whose files are still to be looked at lose what was kept for them.
ClearCache == cache' = [p \in Paths |-> "none"]
Looking(m) == op[m].stage = "will" \/ op[m].matching # {}
Send(n) ==
    LET clears == Caches /\ op[n].matched # {}
        others == {m \in Operations \ {n} : clears /\ Looking(m)}
    IN /\ role = "did" /\ op[n].stage = "did" /\ ~op[n].told
       /\ op[n].matching = {}
       /\ IF clears THEN ClearCache ELSE UNCHANGED cache
       /\ op' = [Disturb(others) EXCEPT ![n].told = TRUE,
                                        ![n].sent = IF running THEN op[n].matched ELSE {}]
       /\ UNCHANGED <<kind, role, disk, registered, listener, willListener, running>>

\* The looks for the cache may go on.
End(n) ==
    /\ op[n].stage = "did" /\ op[n].told
    /\ op' = [op EXCEPT ![n] = [Idle EXCEPT !.stage = "over", !.caching = op[n].caching]]
    /\ UNCHANGED <<kind, role, disk, registered, listener, willListener, cache, running>>

\* Something else than the editor's operations makes a thing at a free path.
Appear(p, type) ==
    /\ disk[p] = "none" /\ kind # "create"
    /\ disk' = [disk EXCEPT ![p] = type]
    /\ op' = Disturb({n \in Operations : p \in op[n].matching})
    /\ UNCHANGED <<kind, role, registered, listener, willListener, cache, running>>

-----------------------------------------------------------------------------
Init ==
    /\ kind \in {"create", "remove"} /\ role \in {"will", "did"}
    /\ disk \in [Paths -> Kinds \cup {"none"}]
    /\ registered = [i \in RegistrationIds |-> {}]
    /\ listener = FALSE /\ willListener = FALSE
    /\ cache = [p \in Paths |-> "none"]
    /\ running = TRUE
    /\ op = [n \in Operations |-> Idle] /\ disturbances = 0

Surroundings ==
    \/ \E id \in RegistrationIds, filters \in Filters : Register(id, filters)
    \/ \E id \in RegistrationIds : Unregister(id)
    \/ Clear \/ Start
    \/ \E p \in Paths, type \in Kinds : Appear(p, type)

Operating(n) ==
    \/ \E files \in SUBSET Paths, types \in [Paths -> Kinds] : Begin(n, files, types)
    \/ \E p \in Paths : CacheOne(n, p) \/ MatchOne(n, p)
    \/ Ask(n) \/ Carry(n) \/ Send(n) \/ End(n)

Next ==
    \/ /\ disturbances < MaxDisturbances /\ disturbances' = disturbances + 1
       /\ Surroundings
    \/ UNCHANGED disturbances /\ \E n \in Operations : Operating(n)

Spec == Init /\ [][Next]_vars

-----------------------------------------------------------------------------
(* Properties.                                                             *)

\* What the filters ask for, of things that are or were of these types.
Wanted(were) ==
    {p \in Paths : \E f \in InForce :
        /\ p \in f.paths
        /\ \/ f.form = "path" /\ f.kind \in {"any", were[p]}
           \/ f.form = "slash" /\ f.kind = "folder" /\ were[p] = "folder"}

\* The server has been told of an operation with which nothing interfered: the
\* editor waited for the feature, no registration came or went and the client
\* did not stop, nothing appeared at a path that was still to be looked at, and
\* no other operation's notification cleared the cache before that.
Told(n) == op[n].told /\ op[n].undisturbed

\* The server is notified of exactly the things its filters ask for, as they
\* were before a rename or a delete and as they are after a creation.  The
\* comment in cacheFileTypes claims it: the types are kept "so that when
\* onDidRename fires, it can still be checked even though the item no longer
\* exists".
ToldAsItWas ==
    \A n \in Operations :
        Told(n) /\ role = "did" => op[n].sent = Wanted(op[n].were) \cap op[n].files

\* What is true of it, operations that overlap included.  The server is asked
\* about exactly the things that a rename or a delete is going to change and its
\* filters ask for, and notified of exactly the created ones they ask for.  Of
\* what was renamed or deleted it is told of nothing that no filter asks for,
\* and of all that a filter without a slash asks for, if the paths had no entry
\* in the cache that an earlier operation left behind and that is wrong by now.
ToldWithoutSlash ==
    \A n \in Operations :
        LET o == op[n]
            wanted == Wanted(o.were) \cap o.files
            slash == {p \in o.files : \E f \in InForce : f.form = "slash" /\ p \in f.paths}
        IN /\ Told(n) /\ (role = "did") = (kind = "create") => o.sent = wanted
           /\ Told(n) /\ Caches /\ o.trusted
                => o.sent \subseteq wanted /\ wanted \ slash \subseteq o.sent

\* A client that has stopped listens to nothing and tells nobody, and one
\* with filters listens: also after registrations that threw.
ListensWhileNeeded ==
    /\ ~running => ~listener /\ ~willListener /\ InForce = {}
    /\ InForce # {} => listener /\ willListener = Caches
=============================================================================

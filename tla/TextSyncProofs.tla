---------------------------- MODULE TextSyncProofs ----------------------------
(***************************************************************************)
(* TextSync without delayed opens: for any finite set of documents, any    *)
(* edits and any number of calls under way, in incremental and in full     *)
(* mode, what arrives at the server fits what it holds (NotificationsFit), *)
(* requests see what the user saw (RequestSeesLatest), and at rest the     *)
(* server mirrors the editor (MirrorsAtRest).                              *)
(***************************************************************************)
EXTENDS TextSync, SequenceLemmas, FiniteSetTheorems, TLAPS

\* The configurations meant: opens are not delayed, a document that is open
\* when the client starts has a tab, and in full mode a document is reopened
\* only when its close has been sent.
Plain == /\ ~config.delayOpen
         /\ config.preopened \subseteq config.tabs
         /\ Full => ~config.rapidReopen

Early == {"start", "draining", "drained"}
Unsent(i) == tasks[i].pc \in Early \cup {"locking", "send"}
UnsentOf(kind, d) ==
  \E i \in Ids : Unsent(i) /\ tasks[i].kind = kind /\ tasks[i].doc = d
Holder(i) == tasks[i].pc = "send" \/ (locked /\ i = lockQueue[1])
-----------------------------------------------------------------------------
(* Where tasks are.                                                         *)

\* A text, or none, for each document.
Held == [Docs -> Texts \cup {Absent}]

PCs == Early \cup {"locking", "send", "writing", "written"}

TasksFit ==
  /\ IsFiniteSet(Ids) /\ Ids \subseteq Nat \ {0}
  /\ \A i \in Ids : /\ tasks[i] \in Task /\ tasks[i].pc \in PCs
                    /\ tasks[i].parent = Nobody /\ tasks[i].rest = <<>>
                    /\ tasks[i].dropped = FALSE
                    /\ tasks[i].kind = "change" => ~Full
                    /\ tasks[i].pc \in {"locking", "send"} => Full

\* A task that was given the lock, or whose message has arrived, runs alone.
ReadyFits ==
  /\ ready \in Seq(Ids) /\ IsInjective(ready)
  /\ \A i \in Ids :
       /\ i \in ToSet(ready) <=> tasks[i].pc \in Early \cup {"send", "written"}
       /\ tasks[i].pc \in {"send", "written"} => ToSet(ready) = {i}

LockFits ==
  /\ lockQueue \in Seq(Ids \cup {Delayer})
  /\ \A i \in Ids : tasks[i].pc = "locking" <=> i \in ToSet(lockQueue)
  /\ \A m, n \in 1..Len(lockQueue) :
       lockQueue[m] = lockQueue[n] /\ lockQueue[m] # Delayer => m = n
  /\ locked \in BOOLEAN /\ flushing \in Seq(Docs)
  /\ ~locked => flushing = <<>>
  /\ locked => lockQueue # <<>> /\ \A i \in Ids : tasks[i].pc # "send"

WritingFits ==
  /\ writing \in Seq(Message)
  /\ \A n \in 1..Len(writing) :
       LET m == writing[n]
       IN IF m.task = Delayer THEN locked /\ m.kind = "change" /\ Full
          ELSE /\ m.task \in Ids /\ tasks[m.task].pc = "writing"
               /\ m.kind = tasks[m.task].kind /\ m.doc = tasks[m.task].doc
  /\ \A m, n \in 1..Len(writing) : writing[m].task = writing[n].task => m = n

RestFits ==
  /\ config \in Configs /\ registered \in BOOLEAN /\ timer \in BOOLEAN
  /\ open \subseteq Docs /\ visible = config.tabs
  /\ text \in [Docs -> Texts]
  /\ pendingOpens = <<>>
  /\ pendingChanges \in Seq(Docs) /\ IsInjective(pendingChanges)
  /\ inFlightOpens \subseteq Docs /\ synced \subseteq Docs
  /\ server \in Held
  /\ ~Full => /\ lockQueue = <<>> /\ ~locked /\ pendingChanges = <<>> /\ ~timer
              /\ inFlightOpens = {}
  /\ ~registered => /\ Ids = {} /\ open = config.preopened /\ synced = {}
                    /\ lockQueue = <<>> /\ pendingChanges = <<>> /\ writing = <<>>
                    /\ ~timer /\ ~locked
                    /\ \A d \in Docs : server[d] = Absent

Places == TasksFit /\ ReadyFits /\ LockFits /\ WritingFits /\ RestFits
-----------------------------------------------------------------------------
(* In which order tasks of a document are sent.                             *)

OrderFits ==
  /\ \A m, n \in 1..Len(lockQueue) :
       (/\ m # n /\ lockQueue[m] # Delayer /\ lockQueue[n] # Delayer
        /\ tasks[lockQueue[m]].doc = tasks[lockQueue[n]].doc)
         => /\ tasks[lockQueue[m]].kind = "open" => m < n
            /\ tasks[lockQueue[n]].kind = "close" => m < n
  /\ \A i, j \in Ids :
       i # j /\ tasks[i].doc = tasks[j].doc
         => /\ tasks[i].pc \in Early
                 => /\ tasks[j].pc \notin Early
                    /\ tasks[j].pc = "locking"
                         => tasks[i].kind # "open" /\ tasks[j].kind # "close"
            /\ tasks[i].pc = "send" /\ tasks[j].pc = "locking"
                 => tasks[i].kind # "close" /\ tasks[j].kind # "open"
-----------------------------------------------------------------------------
(* What the server will hold.                                               *)

\* What it holds after a message.
After(held, m) ==
  CASE m.kind = "open" -> Opened(held, m.doc, m.text)
    [] m.kind = "change" -> Changed(held, m.doc, m.text, ~Full)
    [] m.kind = "close" -> Closed(held, m.doc)
    [] OTHER -> held

\* What a message expects the server to hold.
Fits(held, m) ==
  /\ m.kind = "open" => held[m.doc] = Absent
  /\ m.kind = "close" => held[m.doc] # Absent
  /\ m.kind = "change" => /\ held[m.doc] # Absent
                          /\ ~Full => held[m.doc] = m.text - 1
  /\ m.kind = "request" => held[m.doc] >= m.text

\* A server that holds `start` accepts the messages of w one after another and
\* then holds `end`: h is what it holds before each of them, and after.
Leads(start, w, end) ==
  \E h \in [1..Len(w) + 1 -> Held] :
    /\ h[1] = start /\ h[Len(w) + 1] = end
    /\ \A n \in 1..Len(w) : Fits(h[n], w[n]) /\ h[n + 1] = After(h[n], w[n])
-----------------------------------------------------------------------------
(* What follows after those, with `held` what the server will hold then.    *)

\* Which documents the server will hold.
PresenceFits(held) ==
  \A d \in Docs :
    /\ UnsentOf("open", d) => held[d] = Absent
    /\ UnsentOf("close", d) => d \notin open
    /\ UnsentOf("close", d) /\ ~UnsentOf("open", d) => held[d] # Absent
    /\ UnsentOf("open", d) /\ ~UnsentOf("close", d) => d \in open
    /\ registered /\ ~UnsentOf("open", d) /\ ~UnsentOf("close", d)
         => (held[d] # Absent <=> d \in open)

\* In incremental mode a call is sent before the next event.
IncrementalFits(held) ==
  ~Full =>
    /\ \A i \in Ids :
         LET t == tasks[i]
         IN t.pc \in Early /\ t.kind # "close"
              => /\ t.doc \in open /\ t.text = text[t.doc]
                 /\ t.kind = "change" => held[t.doc] = t.text - 1
                 /\ t.kind = "request" => held[t.doc] = t.text
    /\ \A d \in open :
         (registered /\ \A i \in Ids : tasks[i].pc \in Early => tasks[i].doc # d)
           => held[d] = text[d]

\* In full mode a close is sent after everything else about its document.
ClosesLast ==
  \A i \in Ids : tasks[i].kind = "close"
    => /\ tasks[i].doc \notin open
       /\ ~Unsent(i) => \A j \in Ids : tasks[j].doc = tasks[i].doc => ~Unsent(j)

\* The changes of a document are kept back while its open is unsent; but for
\* the opens of register, which are sent before anything changes.
KeptBack ==
  /\ \A d \in Docs : d \in inFlightOpens => UnsentOf("open", d)
  /\ \A i \in Ids : Unsent(i) /\ Unaware(i) => tasks[i].pc \in Early /\ ~locked

\* The text of an open document is sent, or it will be.
TextSentOrPending(held) ==
  \A d \in open : registered /\ ~UnsentOf("open", d)
    => held[d] = text[d] \/ d \in ToSet(pendingChanges) \/ d \in ToSet(flushing)

\* Changes are sent about documents the server will hold.
ChangesHaveDocument(held) ==
  /\ \A d \in ToSet(pendingChanges) : held[d] # Absent \/ UnsentOf("open", d)
  /\ \A d \in ToSet(flushing) : held[d] # Absent

\* What an unsent call relies on: an open is the newest text or a change will
\* follow, a close leaves no change behind, and the text a request knows is
\* sent before it.
CallFits(i, held) ==
  LET t == tasks[i]
      d == t.doc
  IN /\ t.kind = "open" => \/ t.text = text[d]
                           \/ d \in ToSet(pendingChanges)
     /\ t.kind = "open" /\ t.pc \in Early => d \notin ToSet(pendingChanges)
     /\ t.kind = "close" /\ Holder(i) => d \notin ToSet(pendingChanges)
     /\ t.kind = "request"
          => /\ t.text <= text[d]
             /\ \/ UnsentOf("open", d)
                \/ held[d] >= t.text
                \/ d \in ToSet(flushing)
                \/ d \in ToSet(pendingChanges) /\ ~Holder(i)

\* In full mode a text is sent or pending.
PendingFits(held) ==
  Full => /\ ClosesLast /\ KeptBack
          /\ TextSentOrPending(held) /\ ChangesHaveDocument(held)
          /\ \A i \in Ids : Unsent(i) => CallFits(i, held)

\* A pending change has somebody to send it.
TriggerFits ==
  \A d \in ToSet(pendingChanges) :
    \/ timer
    \/ \E n \in 1..Len(lockQueue) :
         /\ lockQueue[n] = Delayer
         /\ locked => n # 1
         /\ \A m \in 1..Len(lockQueue) :
              (/\ lockQueue[m] # Delayer
               /\ tasks[lockQueue[m]].kind = "open" /\ tasks[lockQueue[m]].doc = d)
                => m < n

\* _syncedDocuments follows the server, but for what is about to return and for
\* the opens of register.
SyncedFits ==
  /\ \A i \in Ids : tasks[i].pc = "written"
       => /\ tasks[i].kind = "open" => server[tasks[i].doc] # Absent
          /\ tasks[i].kind = "close" => server[tasks[i].doc] = Absent
  /\ \A d \in Docs :
       \/ d \in synced <=> server[d] # Absent
       \/ \E i \in Ids : tasks[i].pc = "written" /\ tasks[i].doc = d
                         /\ tasks[i].kind \in {"open", "close"}
       \/ d \in synced /\ \E i \in Ids : tasks[i].kind = "open" /\ tasks[i].doc = d

\* All of it, with `held` what the server will hold when everything that was
\* handed to the writer has arrived.
InvWith(held) ==
  /\ Places /\ OrderFits /\ TriggerFits /\ SyncedFits
  /\ held \in Held
  /\ Leads(server, writing, held)
  /\ PresenceFits(held) /\ IncrementalFits(held) /\ PendingFits(held)

PlainInv == \E held \in Held : InvWith(held)
-----------------------------------------------------------------------------
(* Sequences, and the operators the model builds tasks and sequences with.  *)

\* Among keeps the elements that are in S, each once if they were distinct.
LEMMA AmongElements ==
  ASSUME NEW D, NEW s \in Seq(D), NEW S
  PROVE  /\ Among(s, S) \in Seq(D)
         /\ ToSet(Among(s, S)) = ToSet(s) \cap S
         /\ IsInjective(s) => IsInjective(Among(s, S))
  <1> DEFINE places == {n \in DOMAIN s : s[n] \in S}
             upTo(p) == {q \in places : q <= p}
             Place(n) == CHOOSE p \in places : Cardinality(upTo(p)) = n
             last == Cardinality(places)
             rank == [p \in places |-> Cardinality(upTo(p))]
  <1>1. DOMAIN s = 1..Len(s) /\ Len(s) \in Nat
    OBVIOUS
  <1>2. IsFiniteSet(places) /\ last \in Nat
    <2>1. IsFiniteSet(1..Len(s)) /\ places \in SUBSET (1..Len(s))
      BY <1>1, FS_Interval
    <2> QED
      BY <2>1, FS_Subset, FS_CardinalityType
  <1>3. ASSUME NEW p \in places
        PROVE  /\ IsFiniteSet(upTo(p))
               /\ Cardinality(upTo(p)) \in 1..last
    <2>1. upTo(p) \in SUBSET places
      OBVIOUS
    <2>2. IsFiniteSet(upTo(p)) /\ Cardinality(upTo(p)) <= last /\ Cardinality(upTo(p)) \in Nat
      BY <1>2, <2>1, FS_Subset, FS_CardinalityType
    <2>3. p \in upTo(p)
      BY <1>1
    <2>4. Cardinality(upTo(p)) # 0
      BY <2>2, <2>3, FS_EmptySet
    <2> QED
      BY <1>2, <2>2, <2>4
  <1>4. ASSUME NEW p \in places, NEW q \in places, p < q
        PROVE  Cardinality(upTo(p)) # Cardinality(upTo(q))
    <2>1. upTo(p) \in SUBSET upTo(q)
      BY <1>1, <1>4
    <2>2. q \in upTo(q) /\ q \notin upTo(p)
      BY <1>1, <1>4
    <2> QED
      BY <1>3, <2>1, <2>2, FS_Subset
  <1>5. rank \in Injection(places, 1..last)
    <2>1. rank \in [places -> 1..last]
      BY <1>3
    <2>2. ASSUME NEW p \in places, NEW q \in places, rank[p] = rank[q] PROVE p = q
      <3>1. p \in Nat /\ q \in Nat
        BY <1>1
      <3>2. ~(p < q) /\ ~(q < p)
        BY <1>4, <2>2
      <3> QED
        BY <3>1, <3>2
    <2> QED
      BY <2>1, <2>2 DEF Injection, IsInjective
  <1>6. rank \in Surjection(places, 1..last)
    <2>1. IsFiniteSet(1..last) /\ Cardinality(1..last) = last
      BY <1>2, FS_Interval
    <2> QED
      BY <1>5, <2>1, FS_Injection
  <1>7. \A n \in 1..last : Place(n) \in places /\ Cardinality(upTo(Place(n))) = n
    <2> TAKE n \in 1..last
    <2>1. PICK p \in places : rank[p] = n
      BY <1>6 DEF Surjection
    <2>2. Cardinality(upTo(p)) = n
      BY <2>1
    <2> QED
      BY <2>2
  <1> DEFINE place == [n \in 1..last |-> Place(n)]
  <1>8. /\ place \in [1..last -> places]
        /\ \A n \in 1..last : rank[place[n]] = n
    BY <1>7
  <1>9. Among(s, S) = [n \in 1..last |-> s[place[n]]]
    BY DEF Among
  <1>10. \A p \in places : \E n \in 1..last : place[n] = p
    <2> TAKE p \in places
    <2>1. rank[p] \in 1..last /\ \A q \in places : rank[q] = rank[p] => q = p
      BY <1>5 DEF Injection, IsInjective
    <2> QED
      BY <1>8, <2>1
  <1>11. places = {n \in DOMAIN s : s[n] \in S}
    OBVIOUS
  <1> HIDE DEF places, last, place, rank
  <1>12. Among(s, S) \in Seq(D)
    <2>1. \A n \in 1..last : s[place[n]] \in D
      BY <1>1, <1>8, <1>11
    <2> QED
      BY <1>2, <1>9, <2>1
  <1>13. ToSet(Among(s, S)) = ToSet(s) \cap S
    <2>1. ToSet(Among(s, S)) = {s[place[n]] : n \in 1..last}
      BY <1>9 DEF ToSet
    <2>2. ToSet(s) = {s[n] : n \in DOMAIN s}
      BY DEF ToSet
    <2>3. {s[place[n]] : n \in 1..last} = {s[p] : p \in places}
      BY <1>8, <1>10
    <2> QED
      BY <1>11, <2>1, <2>2, <2>3
  <1>14. ASSUME IsInjective(s) PROVE IsInjective(Among(s, S))
    <2>1. \A m, n \in 1..last : s[place[m]] = s[place[n]] => place[m] = place[n]
      BY <1>8, <1>11, <1>14 DEF IsInjective
    <2>2. \A m, n \in 1..last : place[m] = place[n] => m = n
      BY <1>8
    <2>3. DOMAIN Among(s, S) = 1..last /\ \A n \in 1..last : Among(s, S)[n] = s[place[n]]
      BY <1>9
    <2> QED
      BY <2>1, <2>2, <2>3 DEF IsInjective
  <1> QED
    BY <1>12, <1>13, <1>14

\* The elements of a sequence as a set.
LEMMA ToSetElements ==
  ASSUME NEW D, NEW s \in Seq(D)
  PROVE  /\ ToSet(s) \subseteq D
         /\ \A e \in D : ToSet(Append(s, e)) = ToSet(s) \cup {e}
         /\ s = <<>> <=> ToSet(s) = {}
         /\ s # <<>> => ToSet(s) = {Head(s)} \cup ToSet(Tail(s))
  <1>1. Len(s) \in Nat /\ DOMAIN s = 1..Len(s) /\ ToSet(s) \subseteq D
    BY DEF ToSet
  <1>2. ASSUME NEW e \in D PROVE ToSet(Append(s, e)) = ToSet(s) \cup {e}
    <2>1. DOMAIN Append(s, e) = 1..(Len(s) + 1)
      BY AppendElements
    <2>2. Len(s) + 1 \in 1..(Len(s) + 1) /\ \A i \in 1..Len(s) : i \in 1..(Len(s) + 1)
      BY <1>1
    <2>3. \A i \in 1..(Len(s) + 1) : i \in 1..Len(s) \/ i = Len(s) + 1
      BY <1>1
    <2> QED
      BY <1>1, <2>1, <2>2, <2>3, AppendElements DEF ToSet
  <1>3. s = <<>> <=> ToSet(s) = {}
    <2>1. s = <<>> <=> Len(s) = 0
      OBVIOUS
    <2>2. Len(s) # 0 => 1 \in 1..Len(s)
      BY <1>1
    <2>3. Len(s) = 0 => 1..Len(s) = {}
      BY <1>1
    <2> QED
      BY <1>1, <2>1, <2>2, <2>3 DEF ToSet
  <1>4. ASSUME s # <<>> PROVE ToSet(s) = {Head(s)} \cup ToSet(Tail(s))
    <2>1. /\ DOMAIN Tail(s) = 1..(Len(s) - 1) /\ Head(s) = s[1] /\ 1 \in 1..Len(s)
          /\ \A i \in 1..(Len(s) - 1) : Tail(s)[i] = s[i + 1]
      BY <1>4, TailElements
    <2>2. \A i \in 1..(Len(s) - 1) : i + 1 \in 1..Len(s)
      BY <1>1
    <2>3. \A i \in 1..Len(s) : i = 1 \/ \E k \in 1..(Len(s) - 1) : k + 1 = i
      <3> TAKE i \in 1..Len(s)
      <3>1. i # 1 => i - 1 \in 1..(Len(s) - 1) /\ (i - 1) + 1 = i
        BY <1>1
      <3> QED
        BY <3>1
    <2>4. ToSet(s) = {s[i] : i \in 1..Len(s)}
      BY <1>1 DEF ToSet
    <2>5. ToSet(Tail(s)) = {Tail(s)[i] : i \in 1..(Len(s) - 1)}
      BY <2>1 DEF ToSet
    <2>6. \A e \in ToSet(s) : e = s[1] \/ e \in ToSet(Tail(s))
      <3> TAKE e \in ToSet(s)
      <3>1. PICK i \in 1..Len(s) : s[i] = e
        BY <2>4
      <3>2. ASSUME i # 1 PROVE e \in ToSet(Tail(s))
        <4>1. PICK k \in 1..(Len(s) - 1) : k + 1 = i
          BY <2>3, <3>2
        <4> QED
          BY <2>1, <2>5, <3>1, <4>1
      <3> QED
        BY <3>1, <3>2
    <2>7. s[1] \in ToSet(s)
      BY <2>1, <2>4
    <2>8. \A e \in ToSet(Tail(s)) : e \in ToSet(s)
      <3> TAKE e \in ToSet(Tail(s))
      <3>1. PICK k \in 1..(Len(s) - 1) : Tail(s)[k] = e
        BY <2>5
      <3>2. s[k + 1] = e /\ k + 1 \in 1..Len(s)
        BY <2>1, <2>2, <3>1
      <3> QED
        BY <2>4, <3>2
    <2> QED
      BY <2>1, <2>6, <2>7, <2>8
  <1> QED
    BY <1>1, <1>2, <1>3, <1>4

\* The id of a new task is free.
LEMMA NewIdFree ==
  ASSUME IsFiniteSet(Ids)
  PROVE  NewId \in Nat \ {0} /\ NewId \notin Ids
  <1> DEFINE n == Cardinality(Ids)
  <1>1. n \in Nat
    BY FS_CardinalityType
  <1>2. \E i \in 1..(n + 1) : i \notin Ids
    <2> SUFFICES ASSUME 1..(n + 1) \subseteq Ids PROVE FALSE
      OBVIOUS
    <2>1. Cardinality(1..(n + 1)) = n + 1
      BY <1>1, FS_Interval
    <2>2. Cardinality(1..(n + 1)) <= n
      BY FS_Subset
    <2> QED
      BY <1>1, <2>1, <2>2
  <1>3. NewId \in 1..(n + 1) /\ NewId \notin Ids
    BY <1>2 DEF NewId
  <1> QED
    BY <1>1, <1>3
-----------------------------------------------------------------------------
(* Messages on their way.                                                   *)

\* A text is a number, and no text is Absent.
LEMMA TextsAreNumbers ==
  ASSUME config \in Configs
  PROVE  /\ config.maxText \in Nat
         /\ \A t \in Texts : t \in Nat /\ t # Absent
         /\ Absent \in Int
  BY ConfigAssumption DEF Texts, Absent

\* A message that fits leaves the server with a text, or none, per document.
LEMMA AfterFits ==
  ASSUME config \in Configs, NEW held \in Held, NEW m \in Message, Fits(held, m)
  PROVE  After(held, m) \in Held
  <1>1. m.text \in Texts /\ m.doc \in Docs /\ m.kind \in Kinds
    BY DEF Message
  <1>2. CASE m.kind = "open"
    BY <1>1, <1>2 DEF After, Opened, Held
  <1>3. CASE m.kind = "close"
    BY <1>1, <1>3 DEF After, Closed, Held
  <1>4. CASE m.kind = "change"
    <2>1. Updated(m.text, ~Full, held[m.doc]) = m.text
      BY <1>4 DEF Updated, Fits
    <2> QED
      BY <1>1, <1>4, <2>1 DEF After, Changed, Held
  <1> QED
    BY <1>1, <1>2, <1>3, <1>4 DEF After, Kinds

\* Nothing on its way changes nothing.
LEMMA LeadsNowhere ==
  ASSUME NEW start \in Held
  PROVE  /\ Leads(start, <<>>, start)
         /\ \A end \in Held : Leads(start, <<>>, end) => end = start
  <1> DEFINE only == [n \in 1..1 |-> start]
  <1>1. Len(<<>>) = 0 /\ only \in [1..1 -> Held] /\ only[1] = start
    OBVIOUS
  <1>2. 0 + 1 = 1 /\ 1..0 = {}
    OBVIOUS
  <1>3. Leads(start, <<>>, start)
    <2> HIDE DEF only
    <2>1. \E g \in [1..0 + 1 -> Held] :
            /\ g[1] = start /\ g[0 + 1] = start
            /\ \A n \in 1..0 : Fits(g[n], <<>>[n]) /\ g[n + 1] = After(g[n], <<>>[n])
      BY <1>1, <1>2
    <2> QED
      BY <1>1, <2>1 DEF Leads
  <1>4. \A end \in Held : Leads(start, <<>>, end) => end = start
    BY <1>1, <1>2 DEF Leads
  <1> QED
    BY <1>3, <1>4

\* A message that fits in the end may follow.
LEMMA LeadsAppend ==
  ASSUME config \in Configs, NEW start \in Held, NEW end \in Held,
         NEW w \in Seq(Message), Leads(start, w, end),
         NEW m \in Message, Fits(end, m)
  PROVE  Leads(start, Append(w, m), After(end, m))
  <1> DEFINE l == Len(w)
  <1>1. PICK h \in [1..l + 1 -> Held] :
          /\ h[1] = start /\ h[l + 1] = end
          /\ \A n \in 1..l : Fits(h[n], w[n]) /\ h[n + 1] = After(h[n], w[n])
    BY DEF Leads, Held
  <1>2. /\ l \in Nat /\ Len(Append(w, m)) = l + 1
        /\ \A n \in 1..l : Append(w, m)[n] = w[n]
        /\ Append(w, m)[l + 1] = m
    BY AppendElements
  <1>3. After(end, m) \in Held
    BY AfterFits
  <1> DEFINE g == [n \in 1..(l + 1) + 1 |-> IF n = l + 2 THEN After(end, m) ELSE h[n]]
  <1>4. g \in [1..(l + 1) + 1 -> Held]
    BY <1>2, <1>3
  <1>5. /\ g[1] = start /\ g[l + 1] = end /\ g[(l + 1) + 1] = After(end, m)
        /\ \A n \in 1..l : g[n] = h[n] /\ g[n + 1] = h[n + 1]
    BY <1>1, <1>2
  <1>6. ASSUME NEW n \in 1..l + 1
        PROVE  Fits(g[n], Append(w, m)[n]) /\ g[n + 1] = After(g[n], Append(w, m)[n])
    <2>1. CASE n = l + 1
      BY <1>2, <1>5, <2>1
    <2>2. CASE n \in 1..l
      BY <1>1, <1>2, <1>5, <2>2
    <2> QED
      BY <1>2, <2>1, <2>2
  <1> HIDE DEF g
  <1>7. \E f \in [1..Len(Append(w, m)) + 1 -> Held] :
          /\ f[1] = start /\ f[Len(Append(w, m)) + 1] = After(end, m)
          /\ \A n \in 1..Len(Append(w, m)) :
               Fits(f[n], Append(w, m)[n]) /\ f[n + 1] = After(f[n], Append(w, m)[n])
    BY <1>2, <1>4, <1>5, <1>6
  <1> QED
    BY <1>7 DEF Leads, Held

\* The next message fits, and the others lead on from there.
LEMMA LeadsTail ==
  ASSUME config \in Configs, NEW start \in Held, NEW end \in Held,
         NEW w \in Seq(Message), w # <<>>, Leads(start, w, end)
  PROVE  /\ Fits(start, Head(w))
         /\ After(start, Head(w)) \in Held
         /\ Leads(After(start, Head(w)), Tail(w), end)
  <1> DEFINE l == Len(w)
  <1>1. PICK h \in [1..l + 1 -> Held] :
          /\ h[1] = start /\ h[l + 1] = end
          /\ \A n \in 1..l : Fits(h[n], w[n]) /\ h[n + 1] = After(h[n], w[n])
    BY DEF Leads, Held
  <1>2. /\ l \in Nat \ {0} /\ Len(Tail(w)) = l - 1 /\ Head(w) = w[1]
        /\ \A n \in 1..l - 1 : Tail(w)[n] = w[n + 1]
        /\ 1 \in 1..l
    BY TailElements
  <1> DEFINE g == [n \in 1..(l - 1) + 1 |-> h[n + 1]]
  <1>3. g \in [1..(l - 1) + 1 -> Held]
    BY <1>2
  <1>4. g[1] = After(start, Head(w)) /\ g[(l - 1) + 1] = end
    BY <1>1, <1>2
  <1>5. ASSUME NEW n \in 1..l - 1
        PROVE  Fits(g[n], Tail(w)[n]) /\ g[n + 1] = After(g[n], Tail(w)[n])
    <2>1. n + 1 \in 1..l /\ n \in 1..(l - 1) + 1 /\ n + 1 \in 1..(l - 1) + 1
      BY <1>2
    <2> QED
      BY <1>1, <1>2, <2>1
  <1>6. After(start, Head(w)) \in Held
    BY <1>1, <1>2
  <1> HIDE DEF g
  <1>7. \E f \in [1..Len(Tail(w)) + 1 -> Held] :
          /\ f[1] = After(start, Head(w)) /\ f[Len(Tail(w)) + 1] = end
          /\ \A n \in 1..Len(Tail(w)) :
               Fits(f[n], Tail(w)[n]) /\ f[n + 1] = After(f[n], Tail(w)[n])
    BY <1>2, <1>3, <1>4, <1>5
  <1>8. Fits(start, Head(w)) /\ After(start, Head(w)) \in Held
    BY <1>1, <1>2, <1>6
  <1> QED
    BY <1>7, <1>8 DEF Leads, Held

\* The configuration does not change, and with it the kinds of messages and
\* what they do.
LEMMA ConfigKept ==
  ASSUME UNCHANGED config
  PROVE  /\ Full' = Full /\ Plain' = Plain /\ Texts' = Texts
         /\ Task' = Task /\ Message' = Message /\ Held' = Held
         /\ \A held \in Held : Leads(server', writing', held) => Leads(server, writing, held)'
  <1>1. /\ Full' = Full /\ Plain' = Plain /\ Texts' = Texts
        /\ Task' = Task /\ Message' = Message /\ Held' = Held
    BY DEF Full, Plain, Texts, Task, Message, Held, PendingOpen
  <1>2. ASSUME NEW held \in Held, Leads(server', writing', held)
        PROVE  Leads(server, writing, held)'
    BY <1>1, <1>2 DEF Leads, Fits, After, Changed
  <1> QED
    BY <1>1, <1>2
-----------------------------------------------------------------------------
(* Tasks come, move on and go.                                              *)

\* The task j is about the same thing after the step.
Same(j) == /\ tasks'[j].kind = tasks[j].kind
           /\ tasks'[j].doc = tasks[j].doc
           /\ tasks'[j].text = tasks[j].text

\* A task goes on to another stage.
LEMMA TaskMoves ==
  ASSUME TasksFit, UNCHANGED config, NEW i \in Ids, NEW pc \in PCs,
         pc \in {"locking", "send"} => Full,
         tasks' = [tasks EXCEPT ![i].pc = pc]
  PROVE  /\ TasksFit' /\ Ids' = Ids
         /\ \A j \in Ids : Same(j) /\ tasks'[j].pc = IF j = i THEN pc ELSE tasks[j].pc
  <1>1. tasks' = [tasks EXCEPT ![i] = [tasks[i] EXCEPT !.pc = pc]]
    OBVIOUS
  <1>2. tasks[i] \in Task /\ \A j \in Ids : tasks[j] \in Task
    BY DEF TasksFit
  <1> DEFINE t == [tasks[i] EXCEPT !.pc = pc]
  <1>3. /\ t \in Task /\ t.pc = pc /\ t.kind = tasks[i].kind /\ t.doc = tasks[i].doc
        /\ t.text = tasks[i].text /\ t.parent = tasks[i].parent /\ t.rest = tasks[i].rest
        /\ t.dropped = tasks[i].dropped
    BY <1>2 DEF Task, PCs, Early
  <1>4. Ids' = Ids /\ tasks'[i] = t /\ \A j \in Ids : j # i => tasks'[j] = tasks[j]
    BY <1>1 DEF Ids
  <1> HIDE DEF t
  <1>5. \A j \in Ids : Same(j) /\ tasks'[j].pc = IF j = i THEN pc ELSE tasks[j].pc
    BY <1>3, <1>4 DEF Same
  <1>6. TasksFit'
    BY <1>2, <1>3, <1>4, ConfigKept DEF TasksFit
  <1> QED
    BY <1>4, <1>5, <1>6

\* An event listener starts a call.
LEMMA TaskStarts ==
  ASSUME TasksFit, UNCHANGED config,
         NEW kind \in Kinds, NEW d \in Docs, NEW t \in Texts, kind = "change" => ~Full,
         tasks' = With(tasks, NewId, NewTask(kind, d, t, Nobody))
  PROVE  /\ TasksFit' /\ NewId \notin Ids /\ Ids' = Ids \cup {NewId}
         /\ \A j \in Ids : tasks'[j] = tasks[j]
         /\ tasks'[NewId].kind = kind /\ tasks'[NewId].doc = d
         /\ tasks'[NewId].text = t /\ tasks'[NewId].pc = "start"
  <1>1. NewId \notin Ids /\ NewId \in Nat \ {0}
    BY NewIdFree DEF TasksFit
  <1> DEFINE n == NewId
             new == NewTask(kind, d, t, Nobody)
  <1>2. /\ new \in Task /\ new.kind = kind /\ new.doc = d /\ new.text = t
        /\ new.pc = "start" /\ new.parent = Nobody /\ new.rest = <<>> /\ new.dropped = FALSE
    <2>1. <<>> \in Seq(PendingOpen)
      OBVIOUS
    <2> QED
      BY <2>1 DEF NewTask, Task, Nobody
  <1> HIDE DEF n, new
  <1>3. Ids' = Ids \cup {n} /\ tasks'[n] = new /\ \A j \in Ids : tasks'[j] = tasks[j]
    BY <1>1 DEF With, Ids, n, new
  <1>4. IsFiniteSet(Ids')
    BY <1>3, FS_AddElement DEF TasksFit
  <1>5. TasksFit'
    <2>1. /\ new.pc \in PCs /\ new.pc \notin {"locking", "send"}
          /\ new.kind = "change" => ~Full
      BY <1>2 DEF PCs, Early
    <2>2. n \in Nat \ {0}
      BY <1>1 DEF n
    <2> QED
      BY <1>2, <1>3, <1>4, <2>1, <2>2, ConfigKept DEF TasksFit
  <1> QED
    BY <1>1, <1>2, <1>3, <1>5 DEF n

\* A call returns.
LEMMA TaskReturns ==
  ASSUME TasksFit, UNCHANGED config, NEW i \in Ids,
         tasks' = [j \in Ids \ {i} |-> tasks[j]]
  PROVE  /\ TasksFit' /\ Ids' = Ids \ {i}
         /\ \A j \in Ids' : tasks'[j] = tasks[j]
  <1>1. Ids' = Ids \ {i} /\ \A j \in Ids' : tasks'[j] = tasks[j]
    BY DEF Ids
  <1>2. IsFiniteSet(Ids')
    BY <1>1, FS_RemoveElement DEF TasksFit
  <1>3. \A j \in Ids' : j \in Ids /\ tasks'[j] = tasks[j]
    BY <1>1
  <1> HIDE DEF Ids
  <1>4. TasksFit'
    <2>1. IsFiniteSet(Ids') /\ Ids' \subseteq Nat \ {0}
      BY <1>1, <1>2 DEF TasksFit
    <2>2. Task' = Task /\ Full' = Full
      BY ConfigKept
    <2>3. ASSUME NEW j \in Ids'
          PROVE  /\ tasks'[j] \in Task /\ tasks'[j].pc \in PCs
                 /\ tasks'[j].parent = Nobody /\ tasks'[j].rest = <<>>
                 /\ tasks'[j].dropped = FALSE
                 /\ tasks'[j].kind = "change" => ~Full
                 /\ tasks'[j].pc \in {"locking", "send"} => Full
      <3>1. j \in Ids /\ tasks'[j] = tasks[j]
        BY <1>3, <2>3
      <3> QED
        BY <3>1 DEF TasksFit
    <2> QED
      BY <2>1, <2>2, <2>3 DEF TasksFit
  <1> QED
    BY <1>1, <1>4

\* What is about to be sent does not change when the stages say so.
LEMMA UnsentKept ==
  ASSUME Ids' = Ids, \A j \in Ids : Same(j) /\ (Unsent(j)' <=> Unsent(j))
  PROVE  \A kind \in Kinds, d \in Docs : UnsentOf(kind, d)' <=> UnsentOf(kind, d)
  BY DEF UnsentOf, Same

\* What is kept back stays so while no open becomes unaware, and those that are
\* unaware stay early until they are sent.
LEMMA KeptBackKept ==
  ASSUME KeptBack, UNCHANGED inFlightOpens, Ids' \subseteq Ids,
         \A d \in Docs : UnsentOf("open", d) => UnsentOf("open", d)',
         \A j \in Ids' :
           /\ Same(j) /\ (Unsent(j)' => Unsent(j))
           /\ Unaware(j) /\ tasks[j].pc \in Early
                => tasks'[j].pc \in Early /\ (locked' => locked)
  PROVE  KeptBack'
  <1>1. \A d \in Docs : d \in inFlightOpens' => UnsentOf("open", d)'
    BY DEF KeptBack
  <1>2. ASSUME NEW j \in Ids', Unsent(j)', Unaware(j)'
        PROVE  tasks'[j].pc \in Early /\ ~locked'
    <2>1. Unsent(j) /\ Unaware(j) /\ j \in Ids
      BY <1>2 DEF Unaware, Same
    <2> QED
      BY <1>2, <2>1 DEF KeptBack
  <1> QED
    BY <1>1, <1>2 DEF KeptBack

\* A sequence without repetitions, with an element more or less.
LEMMA InjectiveSequences ==
  ASSUME NEW D, NEW s \in Seq(D), IsInjective(s)
  PROVE  /\ \A e \in D : e \notin ToSet(s) => IsInjective(Append(s, e))
         /\ s # <<>> => IsInjective(Tail(s)) /\ Head(s) \notin ToSet(Tail(s))
  <1>1. Len(s) \in Nat /\ DOMAIN s = 1..Len(s)
    OBVIOUS
  <1>2. ASSUME NEW e \in D, e \notin ToSet(s) PROVE IsInjective(Append(s, e))
    <2>1. DOMAIN Append(s, e) = 1..(Len(s) + 1)
      BY AppendElements
    <2>2. \A i \in 1..(Len(s) + 1) : i \in 1..Len(s) \/ i = Len(s) + 1
      BY <1>1
    <2>3. \A i \in 1..Len(s) : Append(s, e)[i] = s[i] /\ s[i] # e
      BY <1>1, <1>2, AppendElements DEF ToSet
    <2>4. Append(s, e)[Len(s) + 1] = e
      BY <1>2, AppendElements
    <2> QED
      BY <1>1, <2>1, <2>2, <2>3, <2>4 DEF IsInjective
  <1>3. ASSUME s # <<>> PROVE IsInjective(Tail(s)) /\ Head(s) \notin ToSet(Tail(s))
    <2>1. /\ DOMAIN Tail(s) = 1..(Len(s) - 1) /\ Head(s) = s[1] /\ 1 \in 1..Len(s)
          /\ \A i \in 1..(Len(s) - 1) : Tail(s)[i] = s[i + 1]
      BY <1>3, TailElements
    <2>2. \A i \in 1..(Len(s) - 1) : i + 1 \in 1..Len(s) /\ i + 1 # 1 /\ i \in Nat
      BY <1>1
    <2>3. \A i \in 1..(Len(s) - 1) : s[i + 1] # s[1]
      BY <1>1, <2>1, <2>2 DEF IsInjective
    <2>4. \A i, j \in 1..(Len(s) - 1) : i + 1 = j + 1 => i = j
      BY <1>1
    <2>5. \A i, j \in 1..(Len(s) - 1) : s[i + 1] = s[j + 1] => i = j
      BY <1>1, <2>2, <2>4 DEF IsInjective
    <2> QED
      BY <2>1, <2>3, <2>5 DEF IsInjective, ToSet
  <1> QED
    BY <1>2, <1>3

\* The microtask queue loses its head; it may get a task at its end.
LEMMA ReadyMoves ==
  ASSUME ReadyFits, ready # <<>>
  PROVE  /\ Head(ready) \in Ids
         /\ Tail(ready) \in Seq(Ids) /\ IsInjective(Tail(ready))
         /\ ToSet(Tail(ready)) = ToSet(ready) \ {Head(ready)}
         /\ \A i \in Ids \ ToSet(Tail(ready)) :
              /\ Append(Tail(ready), i) \in Seq(Ids)
              /\ IsInjective(Append(Tail(ready), i))
              /\ ToSet(Append(Tail(ready), i)) = (ToSet(ready) \ {Head(ready)}) \cup {i}
  <1>1. ready \in Seq(Ids) /\ IsInjective(ready)
    BY DEF ReadyFits
  <1>2. Head(ready) \in Ids /\ Tail(ready) \in Seq(Ids)
    BY <1>1, TailElements
  <1>3. IsInjective(Tail(ready)) /\ Head(ready) \notin ToSet(Tail(ready))
    BY <1>1, InjectiveSequences
  <1>4. ToSet(ready) = {Head(ready)} \cup ToSet(Tail(ready))
    BY <1>1, ToSetElements
  <1>5. ASSUME NEW i \in Ids, i \notin ToSet(Tail(ready))
        PROVE  /\ Append(Tail(ready), i) \in Seq(Ids)
               /\ IsInjective(Append(Tail(ready), i))
               /\ ToSet(Append(Tail(ready), i)) = ToSet(Tail(ready)) \cup {i}
    <2> DEFINE rest == Tail(ready)
    <2>1. rest \in Seq(Ids) /\ IsInjective(rest) /\ i \notin ToSet(rest)
      BY <1>2, <1>3, <1>5
    <2> HIDE DEF rest
    <2>2. Append(rest, i) \in Seq(Ids)
      BY <2>1
    <2>3. IsInjective(Append(rest, i))
      BY <2>1, InjectiveSequences
    <2>4. ToSet(Append(rest, i)) = ToSet(rest) \cup {i}
      BY <2>1, ToSetElements
    <2> QED
      BY <2>2, <2>3, <2>4 DEF rest
  <1> QED
    BY <1>2, <1>3, <1>4, <1>5

\* Who is in line for the lock, but for the delayer, is a task.
LEMMA TasksInLine ==
  ASSUME LockFits
  PROVE  \A k \in 1..Len(lockQueue) : lockQueue[k] # Delayer
           => lockQueue[k] \in Ids /\ tasks[lockQueue[k]].pc = "locking"
  <1> TAKE k \in 1..Len(lockQueue)
  <1>1. lockQueue[k] \in Ids \cup {Delayer} /\ lockQueue[k] \in ToSet(lockQueue)
    BY DEF LockFits, ToSet
  <1> QED
    BY <1>1 DEF LockFits
-----------------------------------------------------------------------------
(* The microtasks of a call.                                                *)

\* A call whose pending opens are drained (there are none) stays in front of
\* the lock.
LEMMA EarlyStep ==
  ASSUME NEW held \in Held, InvWith(held), NEW i \in Ids, Drain(i) \/ Drained(i)
  PROVE  InvWith(held)'
  <1>1. /\ UNCHANGED <<editor, pendingOpens, pendingChanges, inFlightOpens, synced,
                       semaphore, writing, server>>
        /\ UNCHANGED <<config, registered, open, visible, text, lockQueue, locked,
                       flushing, timer>>
    BY DEF Drain, Drained, InvWith, Places, RestFits, editor, semaphore
  <1>2. /\ ready # <<>> /\ i = Head(ready) /\ tasks[i].pc \in Early
        /\ TasksFit /\ ReadyFits /\ tasks[i].rest = <<>> /\ pendingOpens = <<>>
    BY DEF Drain, Drained, Running, Early, InvWith, Places, RestFits, TasksFit
  <1>3. PICK pc \in Early : tasks' = [tasks EXCEPT ![i].pc = pc]
    <2>1. CASE Drain(i)
      <3>1. tasks' = [tasks EXCEPT ![i].pc = "draining", ![i].rest = <<>>]
        BY <1>2, <2>1 DEF Drain
      <3>2. [tasks[i] EXCEPT !.pc = "draining", !.rest = <<>>]
              = [tasks[i] EXCEPT !.pc = "draining"]
        BY <1>2 DEF TasksFit, Task
      <3>3. tasks' = [tasks EXCEPT ![i].pc = "draining"]
        BY <3>1, <3>2
      <3> QED
        BY <3>3 DEF Early
    <2>2. CASE Drained(i)
      BY <2>2 DEF Drained, Continue, Early
    <2> QED
      BY <2>1, <2>2
  <1>4. /\ TasksFit' /\ Ids' = Ids
        /\ \A j \in Ids : Same(j) /\ tasks'[j].pc = IF j = i THEN pc ELSE tasks[j].pc
    BY <1>1, <1>2, <1>3, TaskMoves DEF PCs, Early
  <1>5. \A j \in Ids : \/ tasks'[j].pc \in Early /\ tasks[j].pc \in Early
                       \/ tasks'[j].pc = tasks[j].pc
    BY <1>2, <1>3, <1>4
  <1> HIDE DEF Early
  <1>6. /\ \A j \in Ids : /\ tasks'[j].kind = tasks[j].kind
                          /\ tasks'[j].doc = tasks[j].doc
                          /\ tasks'[j].text = tasks[j].text
                          /\ tasks'[j].pc \in Early <=> tasks[j].pc \in Early
                          /\ \A p \in {"locking", "send", "writing", "written"} :
                               tasks'[j].pc = p <=> tasks[j].pc = p
    BY <1>4, <1>5 DEF Same, Early
  <1>7. /\ \A kind \in Kinds, d \in Docs : UnsentOf(kind, d)' <=> UnsentOf(kind, d)
        /\ \A j \in Ids : (Unsent(j)' <=> Unsent(j)) /\ (Holder(j)' <=> Holder(j))
    <2>1. \A j \in Ids : (Unsent(j)' <=> Unsent(j)) /\ (Holder(j)' <=> Holder(j))
      BY <1>1, <1>6 DEF Unsent, Holder
    <2> QED
      BY <1>4, <2>1, UnsentKept
  <1>8. ReadyFits'
    <2>1. CASE Drain(i)
      BY <1>2, <1>4, <1>6, <2>1 DEF ReadyFits, Drain
    <2>2. CASE Drained(i)
      <3>1. ready' = Append(Tail(ready), i)
        BY <2>2 DEF Drained, Continue
      <3>2. i \in Ids /\ i \in ToSet(ready) /\ i \notin ToSet(Tail(ready))
        BY <1>2, ReadyMoves, ToSetElements DEF ReadyFits
      <3>3. ready' \in Seq(Ids) /\ IsInjective(ready') /\ ToSet(ready') = ToSet(ready)
        <4>1. i \in Ids \ ToSet(Tail(ready))
          BY <3>2
        <4>2. /\ ready' \in Seq(Ids) /\ IsInjective(ready')
              /\ ToSet(ready') = (ToSet(ready) \ {Head(ready)}) \cup {i}
          BY <1>2, <3>1, <4>1, ReadyMoves
        <4> QED
          BY <1>2, <3>2, <4>2
      <3> QED
        BY <1>4, <1>6, <1>2, <3>3 DEF ReadyFits
    <2> QED
      BY <2>1, <2>2
  <1>9. LockFits'
    BY <1>1, <1>4, <1>6 DEF InvWith, Places, LockFits
  <1>10. WritingFits'
    BY <1>1, <1>4, <1>6, ConfigKept DEF InvWith, Places, WritingFits
  <1>11. RestFits'
    BY <1>1, <1>4, ConfigKept DEF InvWith, Places, RestFits
  <1>12. OrderFits'
    BY <1>1, <1>4, <1>6 DEF InvWith, OrderFits, Places, LockFits
  <1>13. TriggerFits'
    BY <1>1, <1>4, <1>6 DEF InvWith, TriggerFits, Places, LockFits
  <1>14. SyncedFits'
    BY <1>1, <1>4, <1>6 DEF InvWith, SyncedFits
  <1>15. Leads(server, writing, held)' /\ held \in Held'
    BY <1>1, ConfigKept DEF InvWith
  <1>16. PresenceFits(held)'
    BY <1>1, <1>7 DEF InvWith, PresenceFits, Kinds
  <1>17. IncrementalFits(held)'
    BY <1>1, <1>4, <1>6, ConfigKept DEF InvWith, IncrementalFits
  <1>18. PendingFits(held)'
    <2> SUFFICES ASSUME Full
                 PROVE  /\ ClosesLast' /\ KeptBack'
                        /\ TextSentOrPending(held)' /\ ChangesHaveDocument(held)'
                        /\ \A j \in Ids : Unsent(j) => CallFits(j, held)'
      BY <1>1, <1>4, <1>7, ConfigKept DEF PendingFits
    <2>1. PendingFits(held) /\ Full
      BY DEF InvWith
    <2>2. ClosesLast'
      BY <1>4, <1>1, <1>6, <1>7, <2>1 DEF PendingFits, ClosesLast
    <2>3. KeptBack'
      BY <1>1, <1>4, <1>6, <1>7, <2>1 DEF PendingFits, KeptBack, Unaware, Kinds
    <2>4. TextSentOrPending(held)' /\ ChangesHaveDocument(held)'
      <3>1. /\ open \subseteq Docs /\ ToSet(pendingChanges) \subseteq Docs
            /\ \A d \in Docs : UnsentOf("open", d)' <=> UnsentOf("open", d)
        BY <1>7, ToSetElements DEF InvWith, Places, RestFits, Kinds
      <3> QED
        BY <1>1, <2>1, <3>1 DEF PendingFits, TextSentOrPending, ChangesHaveDocument
    <2>5. ASSUME NEW j \in Ids, Unsent(j) PROVE CallFits(j, held)'
      <3>1. CallFits(j, held) /\ tasks[j].doc \in Docs
        BY <2>1, <2>5 DEF PendingFits, InvWith, Places, TasksFit, Task
      <3> QED
        BY <1>1, <1>6, <1>7, <2>5, <3>1 DEF CallFits, Kinds
    <2> QED
      BY <2>2, <2>3, <2>4, <2>5
  <1> QED
    BY <1>4, <1>8, <1>9, <1>10, <1>11, <1>12, <1>13, <1>14, <1>15, <1>16, <1>17, <1>18
       DEF InvWith, Places

\* A call gets in line for the lock, behind the others about its document:
\* only closes come after others, only opens before others.
LEMMA LockStep ==
  ASSUME NEW held \in Held, InvWith(held), NEW i \in Ids, Lock(i)
  PROVE  InvWith(held)'
  <1>1. UNCHANGED <<config, registered, open, visible, text, pendingOpens, pendingChanges,
                    inFlightOpens, synced, locked, flushing, timer, writing, server>>
    BY DEF Lock, editor
  <1>2. /\ ready # <<>> /\ i = Head(ready) /\ tasks[i].pc = "drained" /\ Full
        /\ TasksFit /\ ReadyFits /\ LockFits
        /\ tasks' = [tasks EXCEPT ![i].pc = "locking"]
        /\ ready' = Tail(ready) /\ lockQueue' = Append(lockQueue, i)
    BY DEF Lock, Running, Flushes, Wait, InvWith, Places
  <1>3. /\ TasksFit' /\ Ids' = Ids
        /\ \A j \in Ids : Same(j) /\ tasks'[j].pc = IF j = i THEN "locking" ELSE tasks[j].pc
    BY <1>1, <1>2, TaskMoves DEF PCs
  <1>4. /\ ready' \in Seq(Ids) /\ IsInjective(ready') /\ ToSet(ready') = ToSet(ready) \ {i}
        /\ i \in ToSet(ready)
    BY <1>2, ReadyMoves, ToSetElements DEF ReadyFits, Early
  <1> DEFINE n == Len(lockQueue)
  <1>5. lockQueue \in Seq(Ids \cup {Delayer}) /\ i \notin ToSet(lockQueue) /\ i # Delayer
    BY <1>2 DEF LockFits, TasksFit, Delayer
  <1>6. /\ n \in Nat /\ Len(lockQueue') = n + 1
        /\ \A k \in 1..n : lockQueue'[k] = lockQueue[k] /\ lockQueue[k] # i
        /\ lockQueue'[n + 1] = i /\ lockQueue' # <<>>
        /\ lockQueue' \in Seq(Ids \cup {Delayer})
        /\ ToSet(lockQueue') = ToSet(lockQueue) \cup {i}
    <2>1. \A k \in 1..n : lockQueue[k] # i
      BY <1>5 DEF ToSet
    <2>2. ToSet(lockQueue') = ToSet(lockQueue) \cup {i}
      BY <1>2, <1>5, ToSetElements
    <2> QED
      BY <1>2, <1>5, <2>1, <2>2, AppendElements
  <1>7. \A k \in 1..(n + 1) : k \in 1..n \/ k = n + 1
    BY <1>6
  <1>8. locked => n # 0 /\ lockQueue'[1] = lockQueue[1] /\ lockQueue[1] # i
    <2>1. ASSUME locked PROVE n # 0 /\ 1 \in 1..n
      BY <1>2, <1>6, <2>1 DEF LockFits
    <2> QED
      BY <1>6, <2>1
  <1> HIDE DEF n
  <1>9. \A j \in Ids : (Unsent(j)' <=> Unsent(j)) /\ (Holder(j)' <=> Holder(j))
    BY <1>1, <1>2, <1>3, <1>8 DEF Unsent, Holder, Early
  <1>10. \A kind \in Kinds, d \in Docs : UnsentOf(kind, d)' <=> UnsentOf(kind, d)
    BY <1>3, <1>9, UnsentKept
  <1>11. ReadyFits'
    BY <1>2, <1>3, <1>4 DEF ReadyFits, Early
  <1>12. LockFits'
    <2>1. \A k, l \in 1..(n + 1) :
            lockQueue'[k] = lockQueue'[l] /\ lockQueue'[k] # Delayer => k = l
      BY <1>2, <1>6, <1>7 DEF LockFits, n
    <2>2. \A j \in Ids : tasks'[j].pc = "locking" <=> j \in ToSet(lockQueue')
      BY <1>2, <1>3, <1>6 DEF LockFits
    <2> QED
      BY <1>1, <1>2, <1>3, <1>6, <2>1, <2>2 DEF LockFits
  <1>13. WritingFits'
    BY <1>1, <1>2, <1>3, ConfigKept DEF InvWith, Places, WritingFits, Same
  <1>14. RestFits'
    BY <1>1, <1>2, <1>3, ConfigKept DEF InvWith, Places, RestFits
  <1>15. OrderFits'
    <2>1. \A k \in 1..n : lockQueue[k] # Delayer
            => /\ lockQueue[k] \in Ids /\ tasks[lockQueue[k]].pc = "locking"
      BY <1>2, <1>5 DEF LockFits, ToSet, n
    <2>2. \A k \in 1..n : lockQueue[k] # Delayer /\ tasks[lockQueue[k]].doc = tasks[i].doc
            => tasks[i].kind # "open" /\ tasks[lockQueue[k]].kind # "close"
      BY <1>2, <2>1, <1>6 DEF InvWith, OrderFits, Early
    <2>3. \A k, l \in 1..Len(lockQueue') :
            (/\ k # l /\ lockQueue'[k] # Delayer /\ lockQueue'[l] # Delayer
             /\ tasks'[lockQueue'[k]].doc = tasks'[lockQueue'[l]].doc)
              => /\ tasks'[lockQueue'[k]].kind = "open" => k < l
                 /\ tasks'[lockQueue'[l]].kind = "close" => k < l
      BY <1>3, <1>6, <1>7, <2>1, <2>2 DEF InvWith, OrderFits, n, Same
    <2>4. ASSUME NEW j \in Ids, NEW k \in Ids, j # k, tasks'[j].doc = tasks'[k].doc
          PROVE  /\ tasks'[j].pc \in Early
                      => /\ tasks'[k].pc \notin Early
                         /\ tasks'[k].pc = "locking"
                              => tasks'[j].kind # "open" /\ tasks'[k].kind # "close"
                 /\ tasks'[j].pc = "send" /\ tasks'[k].pc = "locking"
                      => tasks'[j].kind # "close" /\ tasks'[k].kind # "open"
      <3>1. tasks[i].pc \in Early /\ "locking" \notin Early /\ "send" \notin Early
        BY <1>2 DEF Early
      <3>2. tasks[j].pc # "send"
        <4>1. ASSUME tasks[j].pc = "send" PROVE FALSE
          BY <1>2, <1>4, <4>1 DEF ReadyFits
        <4> QED
          BY <4>1
      <3> QED
        BY <1>3, <2>4, <3>1, <3>2 DEF InvWith, OrderFits, Same
    <2> QED
      BY <1>3, <2>3, <2>4 DEF OrderFits
  <1>16. TriggerFits'
    <2> SUFFICES ASSUME NEW d \in ToSet(pendingChanges), ~timer
                 PROVE  \E k \in 1..Len(lockQueue') :
                          /\ lockQueue'[k] = Delayer
                          /\ locked => k # 1
                          /\ \A m \in 1..Len(lockQueue') :
                               (/\ lockQueue'[m] # Delayer
                                /\ tasks'[lockQueue'[m]].kind = "open"
                                /\ tasks'[lockQueue'[m]].doc = d)
                                 => m < k
      BY <1>1 DEF TriggerFits
    <2>1. PICK k \in 1..n :
            /\ lockQueue[k] = Delayer
            /\ locked => k # 1
            /\ \A m \in 1..n :
                 (/\ lockQueue[m] # Delayer
                  /\ tasks[lockQueue[m]].kind = "open" /\ tasks[lockQueue[m]].doc = d) => m < k
      BY <1>1 DEF InvWith, TriggerFits, n
    <2>2. tasks[i].kind = "open" => tasks[i].doc # d
      <3>1. PendingFits(held) /\ Unsent(i)
        BY <1>2 DEF InvWith, Unsent, Early
      <3> QED
        BY <1>2, <3>1 DEF PendingFits, CallFits, Early
    <2>3. \A m \in 1..n : lockQueue[m] # Delayer => lockQueue[m] \in Ids
      BY <1>5 DEF n
    <2> QED
      BY <1>3, <1>6, <1>7, <2>1, <2>2, <2>3 DEF Same
  <1>17. SyncedFits'
    BY <1>1, <1>2, <1>3 DEF InvWith, SyncedFits, Same
  <1>18. Leads(server, writing, held)' /\ held \in Held'
    BY <1>1, ConfigKept DEF InvWith
  <1>19. PresenceFits(held)'
    BY <1>1, <1>10 DEF InvWith, PresenceFits, Kinds
  <1>20. IncrementalFits(held)'
    BY <1>1, <1>2, ConfigKept DEF IncrementalFits
  <1>21. PendingFits(held)'
    <2>1. PendingFits(held) /\ Full
      BY <1>2 DEF InvWith
    <2>2. ClosesLast'
      BY <1>1, <1>3, <1>9, <2>1 DEF PendingFits, ClosesLast, Same
    <2>3. KeptBack'
      <3>1. ~Unaware(i) /\ \A j \in Ids : j # i => tasks'[j].pc = tasks[j].pc
        BY <1>3 DEF Lock, Flushes
      <3> QED
        BY <1>1, <1>3, <1>9, <1>10, <2>1, <3>1, KeptBackKept DEF PendingFits, Kinds
    <2>4. TextSentOrPending(held)' /\ ChangesHaveDocument(held)'
      <3>1. /\ open \subseteq Docs /\ ToSet(pendingChanges) \subseteq Docs
            /\ \A d \in Docs : UnsentOf("open", d)' <=> UnsentOf("open", d)
        BY <1>10, ToSetElements DEF InvWith, Places, RestFits, Kinds
      <3> QED
        BY <1>1, <2>1, <3>1 DEF PendingFits, TextSentOrPending, ChangesHaveDocument
    <2>5. ASSUME NEW j \in Ids, Unsent(j) PROVE CallFits(j, held)'
      <3>1. CallFits(j, held) /\ tasks[j].doc \in Docs
        BY <1>2, <2>1, <2>5 DEF PendingFits, TasksFit, Task
      <3>2. tasks'[j].pc \in Early => tasks[j].pc \in Early
        BY <1>3 DEF Early
      <3> QED
        BY <1>1, <1>3, <1>9, <1>10, <3>1, <3>2 DEF CallFits, Kinds, Same
    <2> QED
      BY <1>3, <1>9, <2>2, <2>3, <2>4, <2>5 DEF PendingFits
  <1> QED
    BY <1>3, <1>11, <1>12, <1>13, <1>14, <1>15, <1>16, <1>17, <1>18, <1>19, <1>20, <1>21
       DEF InvWith, Places

\* A call hands its message to the writer, while nothing about its document
\* waits before it.
LEMMA SendStep ==
  ASSUME NEW held \in Held, InvWith(held), NEW i \in Ids, Send(i)
  PROVE  \E end \in Held : InvWith(end)'
  <1>0. PICK t \in Task : t = tasks[i]
    BY DEF InvWith, Places, TasksFit
  <1> DEFINE d == t.doc
             m == [kind |-> t.kind, doc |-> t.doc, text |-> t.text, task |-> i]
  <1>1. UNCHANGED <<config, registered, open, visible, text, pendingOpens, pendingChanges,
                    synced, lockQueue, locked, flushing, timer, server>>
    BY DEF Send, editor, semaphore
  <1>2. /\ ready # <<>> /\ i = Head(ready) /\ TasksFit /\ ReadyFits /\ LockFits
        /\ \/ t.pc = "drained" /\ ~Full
           \/ t.pc = "drained" /\ Full /\ t.kind = "open" /\ d \notin inFlightOpens
           \/ t.pc = "send" /\ Full
        /\ t = tasks[i]
        /\ t.kind \in Kinds /\ d \in Docs /\ t.text \in Texts /\ i \in Nat \ {0}
        /\ t.kind = "change" => ~Full
    <2>1. /\ ready # <<>> /\ i = Head(ready) /\ TasksFit /\ ReadyFits /\ LockFits
          /\ t.pc \in {"drained", "send"}
          /\ t.pc = "drained" /\ Full => t.kind = "open" /\ d \notin inFlightOpens
      BY <1>0 DEF Send, Running, Flushes, Unaware, InvWith, Places
    <2>2. t.pc = "send" => Full
      BY <1>0, <2>1 DEF TasksFit
    <2>3. /\ t.kind \in Kinds /\ d \in Docs /\ t.text \in Texts /\ i \in Nat \ {0}
          /\ t.kind = "change" => ~Full
      BY <1>0, <2>1 DEF TasksFit, Task
    <2> QED
      BY <1>0, <2>1, <2>2, <2>3
  <1>3. /\ tasks' = [tasks EXCEPT ![i].pc = "writing"] /\ ready' = Tail(ready)
        /\ writing' = Append(writing, m)
        /\ inFlightOpens' = IF t.kind = "open" THEN inFlightOpens \ {d} ELSE inFlightOpens
    BY <1>0 DEF Send, Wait
  <1>4. /\ TasksFit' /\ Ids' = Ids
        /\ \A j \in Ids : Same(j) /\ tasks'[j].pc = IF j = i THEN "writing" ELSE tasks[j].pc
    <2>1. UNCHANGED config /\ TasksFit /\ "writing" \in PCs
      BY <1>1, <1>2 DEF PCs
    <2> QED
      BY <1>3, <2>1, TaskMoves
  <1>5. /\ ready' \in Seq(Ids) /\ IsInjective(ready') /\ ToSet(ready') = ToSet(ready) \ {i}
        /\ i \in ToSet(ready)
    BY <1>2, <1>3, ReadyMoves, ToSetElements DEF ReadyFits, Early
  <1>6. m \in Message /\ m.kind = t.kind /\ m.doc = d /\ m.text = t.text /\ m.task = i
    BY <1>2 DEF Message
  <1> HIDE DEF m
  <1>7. Unsent(i) /\ registered /\ config \in Configs
    BY <1>2 DEF Unsent, Early, InvWith, Places, RestFits
  <1>8. \A j \in Ids : j # i /\ Unsent(j) /\ tasks[j].doc = d
          => Full /\ tasks[j].pc = "locking" /\ t.kind # "close" /\ tasks[j].kind # "open"
    <2> SUFFICES ASSUME NEW j \in Ids, j # i, Unsent(j), tasks[j].doc = d
                 PROVE  /\ Full /\ tasks[j].pc = "locking"
                        /\ t.kind # "close" /\ tasks[j].kind # "open"
      OBVIOUS
    <2>1. CASE t.pc = "drained" /\ ~Full
      BY <1>2, <2>1 DEF Unsent, TasksFit, InvWith, OrderFits, Early
    <2>2. CASE t.pc = "drained" /\ Full /\ t.kind = "open" /\ d \notin inFlightOpens
      <3>1. tasks[j].pc # "send"
        BY <1>2, <1>5, <2>2 DEF ReadyFits
      <3>2. tasks[j].pc \notin Early /\ tasks[j].pc # "locking"
        BY <1>2, <2>2 DEF InvWith, OrderFits, Early
      <3> QED
        BY <3>1, <3>2 DEF Unsent
    <2>3. CASE t.pc = "send" /\ Full
      <3>1. ToSet(ready) = {i}
        BY <1>2, <2>3 DEF ReadyFits
      <3>2. tasks[j].pc = "locking"
        BY <1>2, <3>1 DEF ReadyFits, Unsent
      <3> QED
        BY <1>2, <2>3, <3>2 DEF InvWith, OrderFits
    <2> QED
      BY <1>2, <2>1, <2>2, <2>3
  <1>9. \A j \in Ids : Unsent(j)' <=> j # i /\ Unsent(j)
    BY <1>4 DEF Unsent, Early
  <1>10. \A j \in Ids : j # i => (Holder(j)' <=> Holder(j))
    BY <1>1, <1>4 DEF Holder
  <1>11. /\ \A kind \in Kinds, c \in Docs : c # d \/ kind # t.kind
              => (UnsentOf(kind, c)' <=> UnsentOf(kind, c))
         /\ ~UnsentOf("open", d)' /\ UnsentOf(t.kind, d)
         /\ UnsentOf("open", d) <=> t.kind = "open"
         /\ t.kind = "close" => \A kind \in Kinds : ~UnsentOf(kind, d)'
    <2>1. i \in Ids /\ tasks[i] = t /\ \A j \in Ids : Same(j)
      BY <1>2, <1>4
    <2>2. UnsentOf(t.kind, d)
      BY <1>7, <2>1 DEF UnsentOf
    <2>3. \A kind \in Kinds, c \in Docs : UnsentOf(kind, c)'
            <=> \E j \in Ids : j # i /\ Unsent(j) /\ tasks[j].kind = kind /\ tasks[j].doc = c
      BY <1>4, <1>9, <2>1 DEF UnsentOf, Same
    <2>4. \A kind \in Kinds, c \in Docs : c # d \/ kind # t.kind
              => (UnsentOf(kind, c)' <=> UnsentOf(kind, c))
      BY <1>7, <2>1, <2>3 DEF UnsentOf
    <2>5. ~UnsentOf("open", d)'
      BY <1>2, <1>8, <2>3 DEF Kinds
    <2>6. UnsentOf("open", d) => t.kind = "open"
      BY <1>2, <2>4, <2>5 DEF Kinds
    <2>7. t.kind = "close" => \A kind \in Kinds : ~UnsentOf(kind, d)'
      BY <1>2, <1>8, <2>3
    <2> QED
      BY <2>2, <2>4, <2>5, <2>6, <2>7
  <1>12. \A c \in Docs : /\ UnsentOf("open", c) => held[c] = Absent
                         /\ UnsentOf("close", c) => c \notin open
                         /\ UnsentOf("close", c) /\ ~UnsentOf("open", c) => held[c] # Absent
                         /\ UnsentOf("open", c) /\ ~UnsentOf("close", c) => c \in open
                         /\ ~UnsentOf("open", c) /\ ~UnsentOf("close", c)
                              => (held[c] # Absent <=> c \in open)
    BY <1>7 DEF InvWith, PresenceFits
  <1>13. ASSUME ~Full
         PROVE  /\ ~UnsentOf("close", d) \/ t.kind = "close"
                /\ t.kind # "close" => d \in open /\ t.text = text[d]
                /\ t.kind = "change" => held[d] = t.text - 1
                /\ t.kind = "request" => held[d] = t.text
    <2>1. ~UnsentOf("close", d) \/ t.kind = "close"
      BY <1>2, <1>8, <1>13 DEF UnsentOf
    <2> QED
      BY <1>2, <1>13, <2>1 DEF InvWith, IncrementalFits, Early
  <1>14. ASSUME Full
         PROVE  /\ CallFits(i, held) /\ flushing = <<>> /\ ~locked
                /\ ToSet(flushing) = {} /\ (t.kind # "open" => Holder(i))
    <2>1. t.kind # "open" => t.pc = "send"
      BY <1>2, <1>14
    <2>2. ~locked /\ flushing = <<>>
      <3>1. CASE t.pc = "send"
        BY <1>2, <3>1 DEF LockFits
      <3>2. CASE t.pc = "drained" /\ t.kind = "open" /\ d \notin inFlightOpens
        <4>1. KeptBack /\ Unaware(i)
          BY <1>2, <1>14, <3>2 DEF InvWith, PendingFits, Unaware
        <4> QED
          BY <1>2, <1>7, <4>1 DEF KeptBack, LockFits
      <3> QED
        BY <1>2, <1>14, <3>1, <3>2
    <2>3. ToSet(flushing) = {}
      BY <2>2, ToSetElements DEF ToSet
    <2>4. CallFits(i, held)
      BY <1>7, <1>14 DEF InvWith, PendingFits
    <2> QED
      BY <1>2, <2>1, <2>2, <2>3, <2>4 DEF Holder, ReadyFits
  <1>15. Fits(held, m)
    <2>1. CASE t.kind = "open"
      BY <1>6, <1>11, <1>12, <2>1, <1>2 DEF Fits
    <2>2. CASE t.kind = "close"
      BY <1>6, <1>11, <1>12, <2>2, <1>2 DEF Fits
    <2>3. CASE t.kind = "change"
      BY <1>2, <1>6, <1>11, <1>12, <1>13, <2>3 DEF Fits
    <2>4. CASE t.kind = "request"
      <3>1. held[d] >= t.text
        <4>1. CASE Full
          BY <1>2, <1>11, <1>14, <2>4, <4>1 DEF CallFits
        <4>2. CASE ~Full
          BY <1>2, <1>7, <1>13, <2>4, <4>2, TextsAreNumbers
        <4> QED
          BY <4>1, <4>2
      <3> QED
        BY <1>6, <2>4, <3>1 DEF Fits
    <2> QED
      BY <1>2, <2>1, <2>2, <2>3, <2>4 DEF Kinds
  <1>29. PICK end \in Held : end = After(held, m)
    BY <1>6, <1>7, <1>15, AfterFits
  <1>16. Leads(server, writing, end)'
    <2>1. writing \in Seq(Message) /\ server \in Held /\ Leads(server, writing, held)
      BY DEF InvWith, Places, WritingFits, RestFits
    <2>3. Leads(server, Append(writing, m), end)
      BY <1>6, <1>7, <1>15, <1>29, <2>1, LeadsAppend
    <2>4. Leads(server', writing', end)
      BY <1>1, <1>3, <2>3
    <2> QED
      BY <1>1, <2>4, ConfigKept
  <1>17. /\ \A c \in Docs : c # d => end[c] = held[c]
         /\ t.kind \in {"open", "change"} => end[d] = t.text /\ end[d] # Absent
         /\ t.kind = "close" => end[d] = Absent
         /\ t.kind = "request" => end = held
    <2>0. t.text # Absent /\ held \in [Docs -> Texts \cup {Absent}]
      BY <1>2, <1>7, TextsAreNumbers DEF Held
    <2>1. CASE t.kind = "open"
      BY <1>2, <1>6, <2>0, <2>1, <1>29 DEF After, Opened
    <2>2. CASE t.kind = "close"
      BY <1>2, <1>6, <2>0, <2>2, <1>29 DEF After, Closed
    <2>3. CASE t.kind = "change"
      <3>1. Updated(t.text, ~Full, held[d]) = t.text /\ held[d] # Absent
        BY <1>6, <1>15, <2>3 DEF Fits, Updated
      <3> QED
        BY <1>2, <1>6, <2>0, <2>3, <3>1, <1>29 DEF After, Changed
    <2>4. CASE t.kind = "request"
      BY <1>6, <2>4, <1>29 DEF After
    <2> QED
      BY <1>2, <2>1, <2>2, <2>3, <2>4 DEF Kinds
  <1>18. ReadyFits'
    BY <1>2, <1>4, <1>5 DEF ReadyFits, Early
  <1>19. LockFits'
    <2>1. \A j \in Ids : tasks'[j].pc = "locking" <=> tasks[j].pc = "locking"
      BY <1>2, <1>4
    <2>2. \A j \in Ids : tasks'[j].pc = "send" => tasks[j].pc = "send"
      BY <1>4
    <2> QED
      BY <1>1, <1>2, <1>4, <2>1, <2>2 DEF LockFits
  <1>20. WritingFits'
    <2> DEFINE n == Len(writing)
    <2>1. WritingFits /\ writing \in Seq(Message)
      BY DEF InvWith, Places, WritingFits
    <2>2. /\ n \in Nat /\ Len(writing') = n + 1 /\ writing' \in Seq(Message)
          /\ \A k \in 1..n : writing'[k] = writing[k]
          /\ writing'[n + 1] = m
      BY <1>3, <1>6, <2>1, AppendElements
    <2>3. \A k \in 1..(n + 1) : k \in 1..n \/ k = n + 1
      BY <2>2
    <2>4. \A k \in 1..n : writing[k].task # i
      BY <1>2, <2>1 DEF WritingFits, TasksFit, Delayer
    <2> HIDE DEF n
    <2>5. \A k, l \in 1..(n + 1) : writing'[k].task = writing'[l].task => k = l
      BY <1>6, <2>1, <2>2, <2>3, <2>4 DEF WritingFits, n
    <2>6. ASSUME NEW k \in 1..(n + 1)
          PROVE  IF writing'[k].task = Delayer
                 THEN locked /\ writing'[k].kind = "change" /\ Full
                 ELSE /\ writing'[k].task \in Ids /\ tasks'[writing'[k].task].pc = "writing"
                      /\ writing'[k].kind = tasks'[writing'[k].task].kind
                      /\ writing'[k].doc = tasks'[writing'[k].task].doc
      <3>1. CASE k = n + 1
        BY <1>2, <1>4, <1>6, <2>2, <3>1 DEF Same, Delayer
      <3>2. CASE k \in 1..n
        BY <1>4, <2>1, <2>2, <2>4, <3>2 DEF WritingFits, Same, n
      <3> QED
        BY <2>3, <3>1, <3>2
    <2> QED
      BY <1>1, <1>4, <2>2, <2>5, <2>6, ConfigKept DEF WritingFits
  <1>21. RestFits'
    BY <1>1, <1>3, <1>4, <1>7, ConfigKept DEF InvWith, Places, RestFits
  <1>22. OrderFits'
    <2>1. \A k \in 1..Len(lockQueue) : lockQueue[k] # Delayer
            => lockQueue[k] \in Ids /\ Same(lockQueue[k])
      BY <1>2, <1>4, TasksInLine
    <2>2. \A j \in Ids : /\ tasks'[j].pc \in Early => tasks[j].pc \in Early
                         /\ tasks'[j].pc = "send" => tasks[j].pc = "send"
                         /\ tasks'[j].pc = "locking" => tasks[j].pc = "locking"
                         /\ j # i => tasks'[j].pc = tasks[j].pc
                         /\ tasks'[i].pc \notin Early
      BY <1>4 DEF Early
    <2>3. \A k, l \in 1..Len(lockQueue') :
            (/\ k # l /\ lockQueue'[k] # Delayer /\ lockQueue'[l] # Delayer
             /\ tasks'[lockQueue'[k]].doc = tasks'[lockQueue'[l]].doc)
              => /\ tasks'[lockQueue'[k]].kind = "open" => k < l
                 /\ tasks'[lockQueue'[l]].kind = "close" => k < l
      BY <1>1, <2>1 DEF InvWith, OrderFits, Same
    <2>4. ASSUME NEW j \in Ids, NEW k \in Ids, j # k, tasks'[j].doc = tasks'[k].doc
          PROVE  /\ tasks'[j].pc \in Early
                      => /\ tasks'[k].pc \notin Early
                         /\ tasks'[k].pc = "locking"
                              => tasks'[j].kind # "open" /\ tasks'[k].kind # "close"
                 /\ tasks'[j].pc = "send" /\ tasks'[k].pc = "locking"
                      => tasks'[j].kind # "close" /\ tasks'[k].kind # "open"
      BY <1>4, <2>2, <2>4 DEF InvWith, OrderFits, Same
    <2> QED
      BY <1>4, <2>3, <2>4 DEF OrderFits
  <1>23. TriggerFits'
    <2>1. \A k \in 1..Len(lockQueue) : lockQueue[k] # Delayer
            => lockQueue[k] \in Ids /\ Same(lockQueue[k])
      BY <1>2, <1>4, TasksInLine
    <2> QED
      BY <1>1, <2>1 DEF InvWith, TriggerFits, Same
  <1>24. SyncedFits'
    <2>1. \A j \in Ids : /\ tasks'[j].pc = "written" <=> tasks[j].pc = "written"
                         /\ tasks'[j].kind = tasks[j].kind /\ tasks'[j].doc = tasks[j].doc
      BY <1>2, <1>4 DEF Same
    <2> QED
      BY <1>1, <1>4, <2>1 DEF InvWith, SyncedFits
  <1>25. PresenceFits(end)'
    <2> SUFFICES ASSUME NEW c \in Docs
                 PROVE  /\ UnsentOf("open", c)' => end[c] = Absent
                        /\ UnsentOf("close", c)' => c \notin open
                        /\ UnsentOf("close", c)' /\ ~UnsentOf("open", c)' => end[c] # Absent
                        /\ UnsentOf("open", c)' /\ ~UnsentOf("close", c)' => c \in open
                        /\ ~UnsentOf("open", c)' /\ ~UnsentOf("close", c)'
                             => (end[c] # Absent <=> c \in open)
      BY <1>1 DEF PresenceFits
    <2>1. CASE c # d
      BY <1>11, <1>12, <1>17, <2>1 DEF Kinds
    <2>2. CASE c = d /\ t.kind = "open"
      BY <1>11, <1>12, <1>17, <2>2 DEF Kinds
    <2>3. CASE c = d /\ t.kind = "close"
      BY <1>11, <1>12, <1>17, <2>3 DEF Kinds
    <2>4. CASE c = d /\ t.kind \notin {"open", "close"}
      <3>1. UnsentOf("close", d)' <=> UnsentOf("close", d)
        BY <1>11, <2>4, <1>2 DEF Kinds
      <3>2. end[d] = Absent <=> held[d] = Absent
        <4>1. t.kind = "change" => held[d] # Absent
          BY <1>6, <1>15 DEF Fits
        <4> QED
          BY <1>2, <1>17, <2>4, <4>1 DEF Kinds
      <3> QED
        BY <1>11, <1>12, <2>4, <3>1, <3>2
    <2> QED
      BY <2>1, <2>2, <2>3, <2>4
  <1>26. IncrementalFits(end)'
    <2> SUFFICES ASSUME ~Full
                 PROVE  /\ \A j \in Ids : tasks'[j].pc \in Early /\ tasks'[j].kind # "close"
                             => /\ tasks'[j].doc \in open
                                /\ tasks'[j].text = text[tasks'[j].doc]
                                /\ tasks'[j].kind = "change"
                                     => end[tasks'[j].doc] = tasks'[j].text - 1
                                /\ tasks'[j].kind = "request"
                                     => end[tasks'[j].doc] = tasks'[j].text
                        /\ \A c \in open :
                             (\A j \in Ids : tasks'[j].pc \in Early => tasks'[j].doc # c)
                               => end[c] = text[c]
      BY <1>1, <1>4, ConfigKept DEF IncrementalFits
    <2>1. \A j \in Ids : tasks'[j].pc \in Early
            => j # i /\ tasks[j].pc \in Early /\ tasks[j].doc # d /\ tasks[j].doc \in Docs
      BY <1>2, <1>4, <1>8 DEF Early, Unsent, TasksFit, Task
    <2>2. \A j \in Ids : tasks[j].pc \in Early => j = i \/ tasks'[j].pc \in Early
      BY <1>4
    <2>3. d \in open => end[d] = text[d]
      BY <1>2, <1>7, <1>11, <1>12, <1>13, <1>17 DEF Kinds
    <2>4. open \subseteq Docs
      BY DEF InvWith, Places, RestFits
    <2>5. \A j \in Ids : Same(j)
      BY <1>4
    <2> QED
      <3>1. IncrementalFits(held)
        BY DEF InvWith
      <3>2. \A c \in open : c # d => end[c] = held[c]
        BY <1>17, <2>4
      <3>3. ASSUME NEW c \in open, c # d,
                   \A j \in Ids : tasks'[j].pc \in Early => tasks'[j].doc # c
            PROVE  end[c] = text[c]
        <4>1. \A j \in Ids : tasks[j].pc \in Early => tasks[j].doc # c
          BY <1>2, <2>2, <2>5, <3>3 DEF Same
        <4> QED
          BY <1>7, <3>1, <3>2, <3>3, <4>1 DEF IncrementalFits
      <3>4. ASSUME NEW j \in Ids, tasks'[j].pc \in Early, tasks'[j].kind # "close"
            PROVE  /\ tasks'[j].doc \in open
                   /\ tasks'[j].text = text[tasks'[j].doc]
                   /\ tasks'[j].kind = "change" => end[tasks'[j].doc] = tasks'[j].text - 1
                   /\ tasks'[j].kind = "request" => end[tasks'[j].doc] = tasks'[j].text
        BY <1>17, <2>1, <2>5, <3>1, <3>4 DEF IncrementalFits, Same
      <3> QED
        BY <2>3, <3>3, <3>4
  <1>27. PendingFits(end)'
    <2> SUFFICES ASSUME Full
                 PROVE  /\ ClosesLast' /\ KeptBack'
                        /\ TextSentOrPending(end)' /\ ChangesHaveDocument(end)'
                        /\ \A j \in Ids : j # i /\ Unsent(j) => CallFits(j, end)'
      BY <1>1, <1>4, <1>9, ConfigKept DEF PendingFits
    <2>1. PendingFits(held) /\ Full /\ t.kind # "change"
      BY <1>2 DEF InvWith
    <2>2. /\ open \subseteq Docs /\ ToSet(pendingChanges) \subseteq Docs
          /\ \A c \in open : text[c] \in Nat
      BY <1>7, ToSetElements, TextsAreNumbers DEF InvWith, Places, RestFits
    <2>3. ClosesLast'
      <3>1. ClosesLast /\ \A j \in Ids : Same(j)
        BY <1>4, <2>1 DEF PendingFits
      <3>2. ASSUME NEW j \in Ids, tasks[j].kind = "close", ~(j # i /\ Unsent(j)),
                   NEW k \in Ids, tasks[k].doc = tasks[j].doc
            PROVE  ~(k # i /\ Unsent(k))
        BY <1>2, <1>7, <1>8, <3>1, <3>2 DEF ClosesLast
      <3> QED
        BY <1>1, <1>4, <1>9, <3>1, <3>2 DEF ClosesLast, Same
    <2>4. KeptBack'
      <3>1. KeptBack
        BY <2>1 DEF PendingFits
      <3>2. ASSUME NEW c \in Docs, c \in inFlightOpens' PROVE UnsentOf("open", c)'
        BY <1>3, <1>11, <3>1, <3>2 DEF KeptBack, Kinds
      <3>3. ASSUME NEW j \in Ids', Unsent(j)', Unaware(j)'
            PROVE  tasks'[j].pc \in Early /\ ~locked'
        <4>1. j \in Ids /\ j # i /\ Unsent(j) /\ Same(j) /\ tasks'[j].pc = tasks[j].pc
          BY <1>4, <1>9, <3>3
        <4>2. tasks[j].kind = "open" /\ tasks[j].doc \notin inFlightOpens'
          BY <3>3, <4>1 DEF Unaware, Same
        <4>3. t.kind = "open" => tasks[j].doc # d
          BY <1>8, <4>1, <4>2
        <4>4. Unaware(j)
          BY <1>3, <4>2, <4>3 DEF Unaware
        <4> QED
          BY <1>1, <3>1, <4>1, <4>4 DEF KeptBack
      <3> QED
        BY <3>2, <3>3 DEF KeptBack
    <2>5. t.kind = "open" => t.text = text[d] \/ d \in ToSet(pendingChanges)
      BY <1>2, <1>14 DEF CallFits
    <2>6. t.kind = "close" => d \notin ToSet(pendingChanges) /\ d \notin open
      BY <1>2, <1>14, <2>1 DEF CallFits, PendingFits, ClosesLast
    <2>7. TextSentOrPending(end)'
      <3> SUFFICES ASSUME NEW c \in open, ~UnsentOf("open", c)'
                   PROVE  \/ end[c] = text[c]
                          \/ c \in ToSet(pendingChanges) \/ c \in ToSet(flushing)
        BY <1>1 DEF TextSentOrPending
      <3>1. CASE c # d
        BY <1>7, <1>11, <1>17, <2>1, <2>2, <3>1 DEF PendingFits, TextSentOrPending, Kinds
      <3>2. CASE c = d
        BY <1>2, <1>7, <1>11, <1>17, <2>1, <2>2, <2>5, <2>6, <3>2
           DEF PendingFits, TextSentOrPending, Kinds
      <3> QED
        BY <3>1, <3>2
    <2>8. ChangesHaveDocument(end)'
      <3>1. ASSUME NEW c \in ToSet(pendingChanges)
            PROVE  end[c] # Absent \/ UnsentOf("open", c)'
        <4>1. CASE c # d
          BY <1>11, <1>17, <2>1, <2>2, <4>1, <3>1 DEF PendingFits, ChangesHaveDocument, Kinds
        <4>2. CASE c = d
          BY <1>2, <1>11, <1>17, <2>1, <2>6, <4>2, <3>1
             DEF PendingFits, ChangesHaveDocument, Kinds
        <4> QED
          BY <4>1, <4>2
      <3> QED
        BY <1>1, <1>14, <3>1 DEF ChangesHaveDocument
    <2>9. ASSUME NEW j \in Ids, j # i, Unsent(j) PROVE CallFits(j, end)'
      <3>1. CallFits(j, held) /\ tasks[j].doc \in Docs /\ tasks[j].text \in Nat
        BY <1>2, <1>7, <2>1, <2>9, TextsAreNumbers DEF PendingFits, TasksFit, Task
      <3>2. Same(j) /\ tasks'[j].pc = tasks[j].pc /\ (Holder(j)' <=> Holder(j))
        BY <1>4, <1>10, <2>9
      <3>3. CASE tasks[j].doc # d
        BY <1>1, <1>11, <1>17, <3>1, <3>2, <3>3 DEF CallFits, Kinds, Same
      <3>4. CASE tasks[j].doc = d
        <4>1. tasks[j].pc = "locking" /\ t.kind # "close" /\ tasks[j].kind # "open"
          BY <1>8, <2>9, <3>4
        <4>2. ~Holder(j)
          BY <1>14, <4>1 DEF Holder
        <4>3. tasks[j].kind = "request" =>
                \/ end[d] >= tasks[j].text
                \/ d \in ToSet(flushing) \/ d \in ToSet(pendingChanges)
          BY <1>2, <1>11, <1>17, <2>1, <2>5, <3>1, <3>4, <4>1 DEF CallFits, Kinds
        <4> QED
          BY <1>1, <3>1, <3>2, <3>4, <4>1, <4>2, <4>3 DEF CallFits, Same
      <3> QED
        BY <3>3, <3>4
    <2> QED
      BY <2>3, <2>4, <2>7, <2>8, <2>9
  <1>28. end \in Held'
    BY <1>1, ConfigKept
  <1> QED
    BY <1>4, <1>16, <1>18, <1>19, <1>20, <1>21, <1>22, <1>23, <1>24, <1>25, <1>26, <1>27,
       <1>28 DEF InvWith, Places

\* A call returns when its message has arrived: the feature notes what the
\* server holds now, and a close forgets the changes of its document.
LEMMA ReturnStep ==
  ASSUME NEW held \in Held, InvWith(held), NEW i \in Ids, Return(i)
  PROVE  InvWith(held)'
  <1>0. PICK t \in Task : t = tasks[i]
    BY DEF InvWith, Places, TasksFit
  <1> DEFINE d == t.doc
  <1>1. UNCHANGED <<config, registered, open, visible, text, pendingOpens, inFlightOpens,
                    lockQueue, locked, flushing, timer, writing, server>>
    BY DEF Return, editor, semaphore
  <1>2. /\ TasksFit /\ ReadyFits /\ LockFits /\ t = tasks[i] /\ i # Delayer
        /\ t.kind \in Kinds /\ d \in Docs
        /\ t.parent = Nobody /\ t.dropped = FALSE
    BY <1>0 DEF InvWith, Places, TasksFit, Task, Delayer
  <1>3. /\ ready # <<>> /\ i = Head(ready) /\ t.pc = "written"
        /\ tasks' = [j \in Ids \ {i} |-> tasks[j]] /\ ready' = Tail(ready)
        /\ synced' = SyncedAfter(t)
        /\ t.kind = "close" => pendingChanges' = Among(pendingChanges, Docs \ {d})
        /\ t.kind # "close" => pendingChanges' = pendingChanges
    BY <1>2 DEF Return, Running
  <1>4. TasksFit' /\ Ids' = Ids \ {i} /\ \A j \in Ids \ {i} : tasks'[j] = tasks[j]
    BY <1>1, <1>2, <1>3, TaskReturns
  <1>5. /\ ready' \in Seq(Ids) /\ IsInjective(ready') /\ ToSet(ready') = {}
        /\ ToSet(ready) = {i}
    BY <1>2, <1>3, ReadyMoves DEF ReadyFits
  <1>6. /\ ready' = <<>> /\ ready' \in Seq(Ids')
        /\ \A j \in Ids \ {i} : tasks[j].pc \notin Early \cup {"send", "written"}
    BY <1>2, <1>5, ToSetElements DEF ReadyFits
  <1>7. /\ pendingChanges' \in Seq(Docs) /\ IsInjective(pendingChanges')
        /\ t.kind = "close" => ToSet(pendingChanges') = ToSet(pendingChanges) \ {d}
        /\ t.kind # "close" => ToSet(pendingChanges') = ToSet(pendingChanges)
        /\ ToSet(pendingChanges) \subseteq Docs
    <2>1. pendingChanges \in Seq(Docs) /\ IsInjective(pendingChanges)
      BY DEF InvWith, Places, RestFits
    <2>2. ToSet(pendingChanges) \subseteq Docs
      BY <2>1, ToSetElements
    <2> QED
      BY <1>3, <2>1, <2>2, AmongElements
  <1>8. /\ ~Unsent(i) /\ \A j \in Ids \ {i} : Unsent(j)' <=> Unsent(j)
        /\ \A j \in Ids \ {i} : Holder(j)' <=> Holder(j)
    BY <1>1, <1>2, <1>3, <1>4 DEF Unsent, Early, Holder
  <1>9. \A kind \in Kinds, c \in Docs : UnsentOf(kind, c)' <=> UnsentOf(kind, c)
    BY <1>4, <1>8 DEF UnsentOf
  <1>10. \A k \in 1..Len(lockQueue) : lockQueue[k] # Delayer
           => lockQueue[k] \in Ids \ {i} /\ tasks'[lockQueue[k]] = tasks[lockQueue[k]]
    BY <1>2, <1>3, <1>4, TasksInLine
  <1>11. ReadyFits'
    BY <1>4, <1>5, <1>6 DEF ReadyFits
  <1>12. LockFits'
    <2>1. lockQueue \in Seq(Ids' \cup {Delayer})
      <3>1. \A k \in 1..Len(lockQueue) : lockQueue[k] \in Ids' \cup {Delayer}
        BY <1>4, <1>10
      <3>2. lockQueue \in Seq(Ids \cup {Delayer})
        BY <1>2 DEF LockFits
      <3> QED
        BY <3>1, <3>2
    <2>2. \A j \in Ids' : tasks'[j].pc = tasks[j].pc /\ j \in Ids
      BY <1>4
    <2> QED
      BY <1>1, <1>2, <2>1, <2>2 DEF LockFits
  <1>13. WritingFits'
    <2>1. \A k \in 1..Len(writing) : writing[k].task # Delayer
            => writing[k].task \in Ids \ {i}
      BY <1>2, <1>3 DEF InvWith, Places, WritingFits
    <2> QED
      BY <1>1, <1>4, <2>1, ConfigKept DEF InvWith, Places, WritingFits
  <1>14. RestFits'
    <2>1. ~Full => pendingChanges' = <<>>
      <3>1. ASSUME ~Full PROVE pendingChanges = <<>> /\ pendingChanges \in Seq(Docs)
        BY <3>1 DEF InvWith, Places, RestFits
      <3>2. ASSUME ~Full PROVE ToSet(pendingChanges') = {}
        BY <1>7, <3>1, <3>2, ToSetElements
      <3> QED
        BY <1>7, <3>2, ToSetElements
    <2>2. synced' \subseteq Docs
      BY <1>2, <1>3 DEF SyncedAfter, InvWith, Places, RestFits, Kinds
    <2>3. registered /\ registered'
      BY <1>1 DEF InvWith, Places, RestFits
    <2> QED
      BY <1>1, <1>7, <2>1, <2>2, <2>3, ConfigKept DEF InvWith, Places, RestFits
  <1>15. OrderFits'
    <2>1. \A j \in Ids' : tasks'[j] = tasks[j] /\ j \in Ids
      BY <1>4
    <2> QED
      BY <1>1, <1>10, <2>1 DEF InvWith, OrderFits
  <1>16. TriggerFits'
    <2>1. ToSet(pendingChanges') \subseteq ToSet(pendingChanges)
      BY <1>7
    <2> QED
      BY <1>1, <1>10, <2>1 DEF InvWith, TriggerFits
  <1>17. SyncedFits'
    <2>1. SyncedFits
      BY DEF InvWith
    <2>2. \A j \in Ids' : tasks'[j].pc # "written"
      BY <1>4, <1>6
    <2>3. ASSUME NEW c \in Docs
          PROVE  \/ c \in synced' <=> server[c] # Absent
                 \/ c \in synced' /\ \E j \in Ids' : tasks'[j].kind = "open" /\ tasks'[j].doc = c
      <3>1. \A j \in Ids : tasks[j].pc = "written" => j = i
        BY <1>6
      <3>2. CASE t.kind = "open" /\ c = d
        BY <1>2, <1>3, <2>1, <3>2 DEF SyncedFits, SyncedAfter
      <3>3. CASE t.kind = "close" /\ c = d
        BY <1>2, <1>3, <2>1, <3>3 DEF SyncedFits, SyncedAfter
      <3>4. CASE t.kind \notin {"open", "close"} \/ c # d
        <4>1. c \in synced' <=> c \in synced
          BY <1>2, <1>3, <3>4 DEF SyncedAfter, Kinds
        <4>2. \A j \in Ids : tasks[j].kind = "open" /\ tasks[j].doc = c
                => j \in Ids' /\ tasks'[j] = tasks[j]
          BY <1>2, <1>4, <3>4
        <4>3. ~\E j \in Ids : /\ tasks[j].pc = "written" /\ tasks[j].doc = c
                              /\ tasks[j].kind \in {"open", "close"}
          BY <1>2, <3>1, <3>4
        <4> QED
          BY <2>1, <4>1, <4>2, <4>3 DEF SyncedFits
      <3> QED
        BY <3>2, <3>3, <3>4
    <2> QED
      BY <1>1, <2>2, <2>3 DEF SyncedFits
  <1>18. Leads(server, writing, held)' /\ held \in Held'
    BY <1>1, ConfigKept DEF InvWith
  <1>19. PresenceFits(held)'
    BY <1>1, <1>9 DEF InvWith, PresenceFits, Kinds
  <1>20. IncrementalFits(held)'
    <2>1. \A j \in Ids' : tasks'[j] = tasks[j] /\ j \in Ids
      BY <1>4
    <2>2. \A j \in Ids : tasks[j].pc \in Early => j \in Ids'
      BY <1>2, <1>3, <1>4 DEF Early
    <2> QED
      BY <1>1, <2>1, <2>2, ConfigKept DEF InvWith, IncrementalFits
  <1>21. PendingFits(held)'
    <2> SUFFICES ASSUME Full
                 PROVE  /\ ClosesLast' /\ KeptBack'
                        /\ TextSentOrPending(held)' /\ ChangesHaveDocument(held)'
                        /\ \A j \in Ids \ {i} : Unsent(j) => CallFits(j, held)'
      BY <1>1, <1>4, <1>8, ConfigKept DEF PendingFits
    <2>1. PendingFits(held) /\ Full
      BY DEF InvWith
    <2>2. ClosesLast'
      <3>1. ClosesLast
        BY <2>1 DEF PendingFits
      <3> QED
        BY <1>1, <1>4, <1>8, <3>1 DEF ClosesLast
    <2>3. KeptBack'
      <3>1. \A j \in Ids' : Same(j) /\ (Unsent(j)' => Unsent(j)) /\ tasks'[j].pc = tasks[j].pc
        BY <1>4, <1>8 DEF Same
      <3> QED
        BY <1>1, <1>4, <1>9, <2>1, <3>1, KeptBackKept DEF PendingFits, Kinds
    <2>4. t.kind = "close" => d \notin open /\ \A j \in Ids : Unsent(j) => tasks[j].doc # d
      BY <1>2, <1>8, <2>1 DEF PendingFits, ClosesLast
    <2>5. open \subseteq Docs /\ \A c \in Docs : UnsentOf("open", c)' <=> UnsentOf("open", c)
      BY <1>9 DEF InvWith, Places, RestFits, Kinds
    <2>6. \A c \in Docs : (t.kind = "close" => c # d)
            => (c \in ToSet(pendingChanges') <=> c \in ToSet(pendingChanges))
      BY <1>7
    <2>7. TextSentOrPending(held)'
      BY <1>1, <2>1, <2>4, <2>5, <2>6 DEF PendingFits, TextSentOrPending
    <2>8. ChangesHaveDocument(held)'
      <3>1. ToSet(pendingChanges') \subseteq ToSet(pendingChanges)
        BY <1>7
      <3> QED
        BY <1>1, <1>7, <2>1, <2>5, <3>1 DEF PendingFits, ChangesHaveDocument
    <2>9. ASSUME NEW j \in Ids \ {i}, Unsent(j) PROVE CallFits(j, held)'
      <3>1. CallFits(j, held) /\ tasks[j].doc \in Docs /\ tasks'[j] = tasks[j]
        BY <1>2, <1>4, <2>1, <2>9 DEF PendingFits, TasksFit, Task
      <3>2. tasks[j].doc \in ToSet(pendingChanges') <=> tasks[j].doc \in ToSet(pendingChanges)
        BY <2>4, <2>6, <2>9, <3>1
      <3> QED
        BY <1>1, <1>8, <2>5, <3>1, <3>2 DEF CallFits
    <2> QED
      BY <2>2, <2>3, <2>7, <2>8, <2>9
  <1> QED
    BY <1>4, <1>11, <1>12, <1>13, <1>14, <1>15, <1>16, <1>17, <1>18, <1>19, <1>20, <1>21
       DEF InvWith, Places
-----------------------------------------------------------------------------
(* The calls that the editor's events and the user start.                   *)

\* What a new call finds, and what it leaves alone.
Started(n, kind, d, t) ==
  /\ n \notin Ids /\ n # Delayer /\ Ids' = Ids \cup {n}
  /\ tasks'[n].kind = kind /\ tasks'[n].doc = d
  /\ tasks'[n].text = t /\ tasks'[n].pc = "start"
  /\ \A j \in Ids : /\ tasks'[j] = tasks[j]
                    /\ tasks[j].pc \in {"locking", "writing"}
                    /\ (Unsent(j)' <=> Unsent(j)) /\ (Holder(j)' <=> Holder(j))
  /\ Unsent(n)' /\ ~Holder(n)'
  /\ \A k \in Kinds, c \in Docs :
       UnsentOf(k, c)' <=> UnsentOf(k, c) \/ (k = kind /\ c = d)

\* A call starts when no microtask is left; an open or a close must not find
\* calls in line for the lock that belong to its other side.
LEMMA CallStep ==
  ASSUME NEW held \in Held, InvWith(held), MayCall,
         NEW kind \in Kinds, NEW d \in Docs, NEW t \in Texts, kind = "change" => ~Full,
         \A j \in Ids : tasks[j].pc = "locking" /\ tasks[j].doc = d
                          => kind # "open" /\ tasks[j].kind # "close",
         Call(kind, d, t), UNCHANGED <<config, registered, lockQueue, locked, flushing, writing>>
  PROVE  /\ \E n : Started(n, kind, d, t)
         /\ TasksFit' /\ ReadyFits' /\ LockFits' /\ WritingFits' /\ OrderFits'
  <1>1. /\ ready = <<>> /\ registered /\ TasksFit /\ ReadyFits /\ LockFits /\ WritingFits
        /\ OrderFits /\ UNCHANGED config
    BY DEF MayCall, Idle, InvWith, Places
  <1>2. /\ tasks' = With(tasks, NewId, NewTask(kind, d, t, Nobody))
        /\ ready' = Append(ready, NewId)
    BY DEF Call
  <1>3. PICK n \in Nat \ {0} : n = NewId
    BY <1>1, NewIdFree DEF TasksFit
  <1>4. /\ TasksFit' /\ n \notin Ids /\ Ids' = Ids \cup {n}
        /\ \A j \in Ids : tasks'[j] = tasks[j]
        /\ tasks'[n].kind = kind /\ tasks'[n].doc = d
        /\ tasks'[n].text = t /\ tasks'[n].pc = "start"
    BY <1>1, <1>2, <1>3, TaskStarts
  <1>5. ToSet(ready) = {}
    BY <1>1, ToSetElements DEF ReadyFits
  <1>6. \A j \in Ids : tasks[j].pc \in {"locking", "writing"}
    BY <1>1, <1>5 DEF ReadyFits, TasksFit, PCs
  <1>7. ReadyFits'
    <2>1. ready \in Seq(Ids') /\ n \in Ids' /\ IsInjective(ready)
      BY <1>1, <1>4 DEF IsInjective
    <2>2. ready' \in Seq(Ids') /\ IsInjective(ready') /\ ToSet(ready') = {n}
      <3>1. ready' = Append(ready, n)
        BY <1>2, <1>3
      <3>2. n \notin ToSet(ready) /\ ToSet(Append(ready, n)) = ToSet(ready) \cup {n}
        BY <1>5, <2>1, ToSetElements
      <3>3. IsInjective(Append(ready, n))
        BY <2>1, <3>2, InjectiveSequences
      <3>4. Append(ready, n) \in Seq(Ids')
        BY <2>1, AppendElements
      <3> QED
        BY <1>5, <3>1, <3>2, <3>3, <3>4
    <2>3. \A j \in Ids' : j = n \/ j \in Ids
      BY <1>4
    <2> QED
      BY <1>4, <1>6, <2>2, <2>3 DEF ReadyFits, Early
  <1>8. \A k \in 1..Len(lockQueue) : lockQueue[k] # Delayer
          => lockQueue[k] \in Ids /\ lockQueue[k] # n /\ tasks'[lockQueue[k]] = tasks[lockQueue[k]]
    BY <1>1, <1>4, TasksInLine
  <1>9. n \notin ToSet(lockQueue) /\ n # Delayer
    BY <1>3, <1>8 DEF ToSet, Delayer
  <1>10. LockFits'
    <2>1. lockQueue \in Seq(Ids' \cup {Delayer})
      BY <1>1, <1>4 DEF LockFits
    <2>2. \A j \in Ids' : tasks'[j].pc = "locking" <=> j \in ToSet(lockQueue)
      BY <1>1, <1>4, <1>9 DEF LockFits
    <2>3. locked => \A j \in Ids' : tasks'[j].pc # "send"
      BY <1>4, <1>6
    <2> QED
      BY <1>1, <2>1, <2>2, <2>3 DEF LockFits
  <1>11. WritingFits'
    <2>1. \A k \in 1..Len(writing) : writing[k].task # Delayer
            => writing[k].task \in Ids /\ writing[k].task \in Ids'
      BY <1>1, <1>4 DEF WritingFits
    <2> QED
      BY <1>1, <1>4, <2>1, ConfigKept DEF WritingFits
  <1>12. OrderFits'
    <2>1. \A k, l \in 1..Len(lockQueue') :
            (/\ k # l /\ lockQueue'[k] # Delayer /\ lockQueue'[l] # Delayer
             /\ tasks'[lockQueue'[k]].doc = tasks'[lockQueue'[l]].doc)
              => /\ tasks'[lockQueue'[k]].kind = "open" => k < l
                 /\ tasks'[lockQueue'[l]].kind = "close" => k < l
      BY <1>1, <1>8 DEF OrderFits
    <2>2. ASSUME NEW j \in Ids', NEW k \in Ids', j # k, tasks'[j].doc = tasks'[k].doc
          PROVE  /\ tasks'[j].pc \in Early
                      => /\ tasks'[k].pc \notin Early
                         /\ tasks'[k].pc = "locking"
                              => tasks'[j].kind # "open" /\ tasks'[k].kind # "close"
                 /\ tasks'[j].pc = "send" /\ tasks'[k].pc = "locking"
                      => tasks'[j].kind # "close" /\ tasks'[k].kind # "open"
      BY <1>4, <1>6, <2>2 DEF Early
    <2> QED
      BY <2>1, <2>2 DEF OrderFits
  <1>13. Started(n, kind, d, t)
    <2>1. \A j \in Ids : (Unsent(j)' <=> Unsent(j)) /\ (Holder(j)' <=> Holder(j))
      BY <1>4 DEF Unsent, Holder
    <2>2. Unsent(n)' /\ ~Holder(n)'
      <3>1. locked => lockQueue[1] # n
        <4>1. ASSUME locked PROVE 1 \in 1..Len(lockQueue)
          BY <1>1, <4>1, TailElements DEF LockFits
        <4> QED
          BY <1>8, <1>9, <4>1
      <3> QED
        BY <1>4, <3>1 DEF Unsent, Holder, Early
    <2>3. \A k \in Kinds, c \in Docs :
            UnsentOf(k, c)' <=> UnsentOf(k, c) \/ (k = kind /\ c = d)
      BY <1>4, <2>1, <2>2 DEF UnsentOf
    <2> QED
      BY <1>4, <1>6, <1>9, <2>1, <2>2, <2>3 DEF Started
  <1> QED
    BY <1>4, <1>7, <1>10, <1>11, <1>12, <1>13

\* What happens to the rest when a call starts and the queue for the lock, the
\* wire and the server stay as they are.
LEMMA CallRest ==
  ASSUME NEW held \in Held, InvWith(held), NEW n, NEW kind, NEW d, NEW t,
         Started(n, kind, d, t), UNCHANGED <<config, lockQueue, locked, timer, pendingChanges,
                                             writing, server, synced>>
  PROVE  /\ TriggerFits' /\ SyncedFits' /\ Leads(server, writing, held)' /\ held \in Held'
  <1>1. \A k \in 1..Len(lockQueue) : lockQueue[k] # Delayer
          => tasks'[lockQueue[k]] = tasks[lockQueue[k]]
    BY TasksInLine DEF Started, InvWith, Places
  <1>2. TriggerFits'
    BY <1>1 DEF InvWith, TriggerFits
  <1>3. SyncedFits'
    <2>1. \A j \in Ids' : tasks'[j].pc # "written"
      BY DEF Started
    <2>2. \A j \in Ids : tasks[j].pc # "written" /\ j \in Ids' /\ tasks'[j] = tasks[j]
      BY DEF Started
    <2>3. SyncedFits
      BY DEF InvWith
    <2> QED
      BY <2>1, <2>2, <2>3 DEF SyncedFits
  <1>4. Leads(server, writing, held)' /\ held \in Held'
    BY ConfigKept DEF InvWith
  <1> QED
    BY <1>2, <1>3, <1>4

\* When no microtask is left, calls are in line for the lock or on the wire,
\* and in incremental mode all of them are on the wire.
LEMMA WhenIdle ==
  ASSUME NEW held \in Held, InvWith(held), Idle
  PROVE  /\ \A j \in Ids : /\ tasks[j].pc \in {"locking", "writing"}
                           /\ Unsent(j) <=> tasks[j].pc = "locking"
                           /\ Unsent(j) => Full
         /\ ~Full => \A kind \in Kinds, d \in Docs : ~UnsentOf(kind, d)
         /\ ToSet(ready) = {}
  <1>1. TasksFit /\ ReadyFits /\ ToSet(ready) = {}
    BY ToSetElements DEF InvWith, Places, ReadyFits, Idle
  <1>2. ASSUME NEW j \in Ids
        PROVE  /\ tasks[j].pc \in {"locking", "writing"}
               /\ Unsent(j) <=> tasks[j].pc = "locking"
               /\ Unsent(j) => Full
    <2>1. tasks[j].pc \in {"locking", "writing"}
      BY <1>1 DEF ReadyFits, TasksFit, PCs
    <2> QED
      BY <1>1, <2>1 DEF Unsent, Early, TasksFit
  <1> QED
    BY <1>1, <1>2 DEF UnsentOf

\* A document that is closed and not about to be closed, opened or changed is
\* not mentioned anywhere.
LEMMA WhenClosed ==
  ASSUME NEW held \in Held, InvWith(held), registered, NEW d \in Docs, d \notin open,
         ~UnsentOf("close", d)
  PROVE  /\ held[d] = Absent /\ ~UnsentOf("open", d)
         /\ Full => /\ d \notin ToSet(pendingChanges)
                    /\ \A j \in Ids : Unsent(j) => tasks[j].doc # d
  <1>1. ~UnsentOf("open", d) /\ held[d] = Absent
    BY DEF InvWith, PresenceFits
  <1>2. ASSUME Full PROVE d \notin ToSet(pendingChanges) /\ d \notin ToSet(flushing)
    BY <1>1, <1>2 DEF InvWith, PendingFits, ChangesHaveDocument
  <1>3. ASSUME Full, NEW j \in Ids, Unsent(j), tasks[j].doc = d PROVE FALSE
    <2>1. /\ tasks[j].kind \in Kinds /\ tasks[j].kind # "change"
          /\ tasks[j].text \in Texts /\ config \in Configs
      BY <1>3 DEF InvWith, Places, TasksFit, RestFits, Task
    <2>2. tasks[j].kind = "request"
      BY <1>1, <1>3, <2>1 DEF UnsentOf, Kinds
    <2>3. CallFits(j, held)
      BY <1>3 DEF InvWith, PendingFits
    <2>4. held[d] >= tasks[j].text
      BY <1>1, <1>2, <1>3, <2>2, <2>3 DEF CallFits
    <2> QED
      BY <1>1, <2>1, <2>4, TextsAreNumbers DEF Absent
  <1> QED
    BY <1>1, <1>2, <1>3

\* What changes, in full mode, for the calls under way when one more starts:
\* nothing.
LEMMA CallOthers ==
  ASSUME NEW held \in Held, InvWith(held), NEW n, NEW kind \in Kinds, NEW d \in Docs, NEW t,
         Started(n, kind, d, t), Full,
         UNCHANGED <<config, text, pendingChanges, flushing>>,
         inFlightOpens' = InFlightWith(kind, d)
  PROVE  /\ KeptBack' /\ ChangesHaveDocument(held)'
         /\ \A j \in Ids : Unsent(j) => CallFits(j, held)'
  <1>1. /\ PendingFits(held) /\ ToSet(pendingChanges) \subseteq Docs
        /\ \A c \in Docs : UnsentOf("open", c) => UnsentOf("open", c)'
    BY ToSetElements DEF InvWith, Places, RestFits, Started, Kinds
  <1>2. KeptBack'
    <2>1. \A j \in Ids : tasks[j].pc \notin Early
      BY DEF Started, Early
    <2>2. \A j \in Ids : Unsent(j) => ~Unaware(j)
      BY <1>1, <2>1 DEF PendingFits, KeptBack
    <2>3. \A c \in Docs : c \in inFlightOpens' => UnsentOf("open", c)'
      BY <1>1 DEF PendingFits, KeptBack, InFlightWith, Started, Kinds
    <2>4. inFlightOpens \subseteq inFlightOpens' /\ (kind = "open" => d \in inFlightOpens')
      BY DEF InFlightWith, InvWith, Places, RestFits
    <2>5. ASSUME NEW j \in Ids', Unsent(j)' PROVE ~Unaware(j)'
      BY <2>2, <2>4, <2>5 DEF Started, Unaware
    <2> QED
      BY <2>3, <2>5 DEF KeptBack
  <1>3. ChangesHaveDocument(held)'
    BY <1>1 DEF PendingFits, ChangesHaveDocument
  <1>4. ASSUME NEW j \in Ids, Unsent(j) PROVE CallFits(j, held)'
    <2>1. /\ CallFits(j, held) /\ tasks[j].doc \in Docs /\ tasks'[j] = tasks[j]
          /\ (Holder(j)' <=> Holder(j))
      BY <1>1, <1>4 DEF PendingFits, InvWith, Places, TasksFit, Task, Started
    <2> QED
      BY <1>1, <2>1 DEF CallFits
  <1> QED
    BY <1>2, <1>3, <1>4

\* Opening a document: nothing is left of its last close.
LEMMA OpenStep ==
  ASSUME NEW held \in Held, InvWith(held), Plain, NEW d \in config.docs, Open(d)
  PROVE  InvWith(held)'
  <1>1. /\ UNCHANGED <<config, registered, visible, text, pendingOpens, pendingChanges, synced,
                       lockQueue, locked, flushing, timer, writing, server>>
        /\ MayCall /\ Idle /\ registered /\ d \notin open /\ open' = open \cup {d}
        /\ Call("open", d, text[d])
    BY DEF Open, Plain, MayCall, semaphore
  <1>2. config \in Configs /\ d \in Docs /\ text[d] \in Texts /\ open \subseteq Docs
    BY ConfigAssumption DEF InvWith, Places, RestFits
  <1>3. ~UnsentOf("close", d) /\ (Full => \A j \in Ids : tasks[j].kind = "close" => tasks[j].doc # d)
    BY <1>1, WhenIdle DEF Open, Plain, Closing, UnsentOf, Kinds
  <1>4. /\ held[d] = Absent /\ ~UnsentOf("open", d)
        /\ Full => /\ d \notin ToSet(pendingChanges)
                   /\ \A j \in Ids : Unsent(j) => tasks[j].doc # d
    BY <1>1, <1>2, <1>3, WhenClosed
  <1>5. \A j \in Ids : tasks[j].pc \in {"locking", "writing"} /\ (Unsent(j) => Full)
                       /\ (tasks[j].pc = "locking" => Unsent(j))
    BY <1>1, WhenIdle
  <1>6. /\ \E n : Started(n, "open", d, text[d])
        /\ TasksFit' /\ ReadyFits' /\ LockFits' /\ WritingFits' /\ OrderFits'
    BY <1>1, <1>2, <1>4, <1>5, CallStep DEF Kinds
  <1>7. PICK n : Started(n, "open", d, text[d])
    BY <1>6
  <1>8. TriggerFits' /\ SyncedFits' /\ Leads(server, writing, held)' /\ held \in Held'
    BY <1>1, <1>7, CallRest
  <1>9. inFlightOpens' = InFlightWith("open", d)
    BY <1>1 DEF Call
  <1>10. RestFits'
    BY <1>1, <1>2, <1>9, ConfigKept DEF InvWith, Places, RestFits, InFlightWith
  <1>11. \A c \in Docs : /\ UnsentOf("open", c)' <=> UnsentOf("open", c) \/ c = d
                         /\ UnsentOf("close", c)' <=> UnsentOf("close", c)
    BY <1>7 DEF Started, Kinds
  <1>12. PresenceFits(held)'
    BY <1>1, <1>3, <1>4, <1>11 DEF InvWith, PresenceFits
  <1>13. IncrementalFits(held)'
    <2>1. /\ Ids' = Ids \cup {n} /\ tasks'[n].kind = "open" /\ tasks'[n].doc = d
          /\ tasks'[n].text = text[d] /\ tasks'[n].pc = "start"
          /\ \A j \in Ids : tasks'[j] = tasks[j] /\ tasks[j].pc \notin Early
      BY <1>7 DEF Started, Early
    <2>2. "start" \in Early
      BY DEF Early
    <2> QED
      BY <1>1, <2>1, <2>2, ConfigKept DEF InvWith, IncrementalFits
  <1>14. PendingFits(held)'
    <2> SUFFICES ASSUME Full
                 PROVE  /\ ClosesLast' /\ KeptBack'
                        /\ TextSentOrPending(held)' /\ ChangesHaveDocument(held)'
                        /\ \A j \in Ids' : Unsent(j)' => CallFits(j, held)'
      BY <1>1, ConfigKept DEF PendingFits
    <2>1. /\ KeptBack' /\ ChangesHaveDocument(held)'
          /\ \A j \in Ids : Unsent(j) => CallFits(j, held)'
      BY <1>1, <1>2, <1>7, <1>9, CallOthers DEF Kinds
    <2>2. PendingFits(held) /\ Full
      BY DEF InvWith
    <2>3. ClosesLast'
      BY <1>1, <1>3, <1>7, <2>2 DEF PendingFits, ClosesLast, Started
    <2>4. TextSentOrPending(held)'
      BY <1>1, <1>2, <1>11, <2>2 DEF PendingFits, TextSentOrPending
    <2>5. CallFits(n, held)'
      BY <1>1, <1>4, <1>7 DEF CallFits, Started
    <2> QED
      BY <1>7, <2>1, <2>3, <2>4, <2>5 DEF Started
  <1> QED
    BY <1>6, <1>8, <1>10, <1>12, <1>13, <1>14 DEF InvWith, Places

\* Closing a document: its close goes after whatever is said about it.
LEMMA CloseStep ==
  ASSUME NEW held \in Held, InvWith(held), Plain, NEW d \in config.docs, Close(d)
  PROVE  InvWith(held)'
  <1>1. /\ UNCHANGED <<config, registered, visible, text, pendingOpens, pendingChanges, synced,
                       lockQueue, locked, flushing, timer, writing, server>>
        /\ MayCall /\ Idle /\ registered /\ d \in open /\ open' = open \ {d}
        /\ Call("close", d, text[d])
    BY DEF Close, Plain, MayCall, semaphore
  <1>2. config \in Configs /\ d \in Docs /\ text[d] \in Texts /\ open \subseteq Docs
    BY ConfigAssumption DEF InvWith, Places, RestFits
  <1>3. ~UnsentOf("close", d)
    BY <1>1, <1>2 DEF InvWith, PresenceFits
  <1>4. \A j \in Ids : tasks[j].pc = "locking" /\ tasks[j].doc = d => tasks[j].kind # "close"
    BY <1>1, <1>3, WhenIdle DEF UnsentOf
  <1>5. /\ \E n : Started(n, "close", d, text[d])
        /\ TasksFit' /\ ReadyFits' /\ LockFits' /\ WritingFits' /\ OrderFits'
    BY <1>1, <1>2, <1>4, CallStep DEF Kinds
  <1>6. PICK n : Started(n, "close", d, text[d])
    BY <1>5
  <1>7. TriggerFits' /\ SyncedFits' /\ Leads(server, writing, held)' /\ held \in Held'
    BY <1>1, <1>6, CallRest
  <1>8. inFlightOpens' = InFlightWith("close", d) /\ inFlightOpens' = inFlightOpens
    BY <1>1 DEF Call, InFlightWith
  <1>9. RestFits'
    BY <1>1, <1>2, <1>8, ConfigKept DEF InvWith, Places, RestFits
  <1>10. \A c \in Docs : /\ UnsentOf("open", c)' <=> UnsentOf("open", c)
                         /\ UnsentOf("close", c)' <=> UnsentOf("close", c) \/ c = d
    BY <1>6 DEF Started, Kinds
  <1>11. PresenceFits(held)'
    BY <1>1, <1>2, <1>3, <1>10 DEF InvWith, PresenceFits
  <1>12. IncrementalFits(held)'
    <2>1. /\ Ids' = Ids \cup {n} /\ tasks'[n].kind = "close"
          /\ \A j \in Ids : tasks'[j] = tasks[j] /\ tasks[j].pc \notin Early
      BY <1>6 DEF Started, Early
    <2> QED
      BY <1>1, <2>1, ConfigKept DEF InvWith, IncrementalFits
  <1>13. PendingFits(held)'
    <2> SUFFICES ASSUME Full
                 PROVE  /\ ClosesLast' /\ KeptBack'
                        /\ TextSentOrPending(held)' /\ ChangesHaveDocument(held)'
                        /\ \A j \in Ids' : Unsent(j)' => CallFits(j, held)'
      BY <1>1, ConfigKept DEF PendingFits
    <2>1. /\ KeptBack' /\ ChangesHaveDocument(held)'
          /\ \A j \in Ids : Unsent(j) => CallFits(j, held)'
      BY <1>1, <1>2, <1>6, <1>8, CallOthers DEF Kinds
    <2>2. PendingFits(held) /\ Full
      BY DEF InvWith
    <2>3. ClosesLast'
      BY <1>1, <1>6, <2>2 DEF PendingFits, ClosesLast, Started
    <2>4. TextSentOrPending(held)'
      BY <1>1, <1>2, <1>10, <2>2 DEF PendingFits, TextSentOrPending
    <2>5. CallFits(n, held)'
      BY <1>6 DEF CallFits, Started
    <2> QED
      BY <1>6, <2>1, <2>3, <2>4, <2>5 DEF Started
  <1> QED
    BY <1>5, <1>7, <1>9, <1>11, <1>12, <1>13 DEF InvWith, Places

\* A request knows the text its user saw: it is sent, or it will be.
LEMMA RequestStep ==
  ASSUME NEW held \in Held, InvWith(held), NEW d \in config.docs, Request(d)
  PROVE  InvWith(held)'
  <1>1. /\ UNCHANGED <<config, registered, open, visible, text, pendingOpens, pendingChanges,
                       synced, lockQueue, locked, flushing, timer, writing, server>>
        /\ MayCall /\ Idle /\ registered /\ d \in open /\ Call("request", d, text[d])
    BY DEF Request, MayCall, semaphore, editor
  <1>2. config \in Configs /\ d \in Docs /\ text[d] \in Texts /\ open \subseteq Docs
    BY ConfigAssumption DEF InvWith, Places, RestFits
  <1>3. ~UnsentOf("close", d)
    BY <1>1, <1>2 DEF InvWith, PresenceFits
  <1>4. \A j \in Ids : tasks[j].pc = "locking" /\ tasks[j].doc = d => tasks[j].kind # "close"
    BY <1>1, <1>3, WhenIdle DEF UnsentOf
  <1>5. /\ \E n : Started(n, "request", d, text[d])
        /\ TasksFit' /\ ReadyFits' /\ LockFits' /\ WritingFits' /\ OrderFits'
    BY <1>1, <1>2, <1>4, CallStep DEF Kinds
  <1>6. PICK n : Started(n, "request", d, text[d])
    BY <1>5
  <1>7. TriggerFits' /\ SyncedFits' /\ Leads(server, writing, held)' /\ held \in Held'
    BY <1>1, <1>6, CallRest
  <1>8. inFlightOpens' = InFlightWith("request", d) /\ inFlightOpens' = inFlightOpens
    BY <1>1 DEF Call, InFlightWith
  <1>9. RestFits'
    BY <1>1, <1>2, <1>8, ConfigKept DEF InvWith, Places, RestFits
  <1>10. \A c \in Docs : /\ UnsentOf("open", c)' <=> UnsentOf("open", c)
                         /\ UnsentOf("close", c)' <=> UnsentOf("close", c)
    BY <1>6 DEF Started, Kinds
  <1>11. PresenceFits(held)'
    BY <1>1, <1>10 DEF InvWith, PresenceFits
  <1>12. IncrementalFits(held)'
    <2>1. /\ Ids' = Ids \cup {n} /\ tasks'[n].kind = "request" /\ tasks'[n].doc = d
          /\ tasks'[n].text = text[d] /\ tasks'[n].pc = "start"
          /\ \A j \in Ids : tasks'[j] = tasks[j] /\ tasks[j].pc \notin Early
      BY <1>6 DEF Started, Early
    <2>2. "start" \in Early
      BY DEF Early
    <2> QED
      BY <1>1, <2>1, <2>2, ConfigKept DEF InvWith, IncrementalFits
  <1>13. PendingFits(held)'
    <2> SUFFICES ASSUME Full
                 PROVE  /\ ClosesLast' /\ KeptBack'
                        /\ TextSentOrPending(held)' /\ ChangesHaveDocument(held)'
                        /\ \A j \in Ids' : Unsent(j)' => CallFits(j, held)'
      BY <1>1, ConfigKept DEF PendingFits
    <2>1. /\ KeptBack' /\ ChangesHaveDocument(held)'
          /\ \A j \in Ids : Unsent(j) => CallFits(j, held)'
      BY <1>1, <1>2, <1>6, <1>8, CallOthers DEF Kinds
    <2>2. PendingFits(held) /\ Full
      BY DEF InvWith
    <2>3. ClosesLast'
      BY <1>1, <1>6, <2>2 DEF PendingFits, ClosesLast, Started
    <2>4. TextSentOrPending(held)'
      BY <1>1, <1>2, <1>10, <2>2 DEF PendingFits, TextSentOrPending
    <2>5. CallFits(n, held)'
      <3>1. /\ tasks'[n].kind = "request" /\ tasks'[n].doc = d /\ tasks'[n].text = text[d]
            /\ ~Holder(n)'
        BY <1>6 DEF Started
      <3>2. UnsentOf("open", d) \/ held[d] = text[d]
              \/ d \in ToSet(pendingChanges) \/ d \in ToSet(flushing)
        BY <1>1, <2>2 DEF PendingFits, TextSentOrPending
      <3>3. text[d] \in Nat
        BY <1>2, TextsAreNumbers
      <3> QED
        BY <1>1, <1>2, <1>10, <3>1, <3>2, <3>3 DEF CallFits
    <2> QED
      BY <1>6, <2>1, <2>3, <2>4, <2>5 DEF Started
  <1> QED
    BY <1>5, <1>7, <1>9, <1>11, <1>12, <1>13 DEF InvWith, Places

\* An edit in incremental mode is sent from the text that was sent before.
LEMMA EditIncrementalStep ==
  ASSUME NEW held \in Held, InvWith(held), NEW d \in config.docs, Edit(d), ~Full
  PROVE  InvWith(held)'
  <1>1. /\ UNCHANGED <<config, registered, open, visible, pendingOpens, pendingChanges,
                       synced, lockQueue, locked, flushing, timer, writing, server>>
        /\ MayCall /\ Idle /\ registered /\ d \in open /\ Call("change", d, text[d] + 1)
        /\ text[d] < config.maxText /\ text' = [text EXCEPT ![d] = @ + 1]
    BY DEF Edit, EditIncremental, MayCall
  <1>2. /\ config \in Configs /\ d \in Docs /\ text[d] \in Texts /\ open \subseteq Docs
        /\ text \in [Docs -> Texts]
    BY ConfigAssumption DEF InvWith, Places, RestFits
  <1>3. text[d] + 1 \in Texts /\ text' \in [Docs -> Texts] /\ text'[d] = text[d] + 1
        /\ \A c \in Docs : c # d => text'[c] = text[c]
    <2>1. text[d] + 1 \in Texts
      BY <1>1, <1>2, TextsAreNumbers DEF Texts
    <2> QED
      BY <1>1, <1>2, <2>1
  <1>4. \A j \in Ids : tasks[j].pc # "locking" /\ tasks[j].pc \notin Early
    BY <1>1, WhenIdle DEF Early
  <1>5. /\ \E n : Started(n, "change", d, text[d] + 1)
        /\ TasksFit' /\ ReadyFits' /\ LockFits' /\ WritingFits' /\ OrderFits'
    BY <1>1, <1>2, <1>3, <1>4, CallStep DEF Kinds
  <1>6. PICK n : Started(n, "change", d, text[d] + 1)
    BY <1>5
  <1>7. TriggerFits' /\ SyncedFits' /\ Leads(server, writing, held)' /\ held \in Held'
    BY <1>1, <1>6, CallRest
  <1>8. inFlightOpens' = inFlightOpens
    BY <1>1 DEF Call, InFlightWith
  <1>9. RestFits'
    BY <1>1, <1>2, <1>3, <1>8, ConfigKept DEF InvWith, Places, RestFits
  <1>10. \A c \in Docs : /\ UnsentOf("open", c)' <=> UnsentOf("open", c)
                         /\ UnsentOf("close", c)' <=> UnsentOf("close", c)
    BY <1>6 DEF Started, Kinds
  <1>11. PresenceFits(held)'
    BY <1>1, <1>10 DEF InvWith, PresenceFits
  <1>12. IncrementalFits(held)'
    <2>1. /\ Ids' = Ids \cup {n} /\ tasks'[n].kind = "change" /\ tasks'[n].doc = d
          /\ tasks'[n].text = text[d] + 1 /\ tasks'[n].pc = "start"
          /\ \A j \in Ids : tasks'[j] = tasks[j]
      BY <1>6 DEF Started
    <2>2. "start" \in Early /\ (text[d] + 1) - 1 = text[d]
      BY <1>2, TextsAreNumbers DEF Early
    <2>3. \A c \in open : held[c] = text[c]
      BY <1>1, <1>4 DEF InvWith, IncrementalFits
    <2>4. \A j \in Ids' : tasks'[j].pc \in Early => j = n
      BY <1>4, <2>1
    <2>5. \A c \in open : c # d => held[c] = text'[c]
      BY <1>2, <1>3, <2>3
    <2> QED
      BY <1>1, <1>3, <2>1, <2>2, <2>3, <2>4, <2>5, ConfigKept DEF IncrementalFits
  <1>13. PendingFits(held)'
    BY <1>1, ConfigKept DEF PendingFits
  <1> QED
    BY <1>5, <1>7, <1>9, <1>11, <1>12, <1>13 DEF InvWith, Places

\* An edit in full mode leaves a change to send, and arms the timer for it.
LEMMA EditFullStep ==
  ASSUME NEW held \in Held, InvWith(held), NEW d \in config.docs, Edit(d), Full
  PROVE  InvWith(held)'
  <1>1. /\ UNCHANGED <<config, registered, open, visible, pendingOpens, inFlightOpens, synced,
                       tasks, ready, lockQueue, locked, flushing, writing, server>>
        /\ Idle /\ registered /\ d \in open /\ timer' = TRUE
        /\ text[d] < config.maxText /\ text' = [text EXCEPT ![d] = @ + 1]
        /\ d \in ToSet(pendingChanges) => pendingChanges' = pendingChanges
        /\ d \notin ToSet(pendingChanges) => pendingChanges' = Append(pendingChanges, d)
    BY DEF Edit, EditFull, MayCall
  <1>2. /\ config \in Configs /\ d \in Docs /\ text[d] \in Texts /\ open \subseteq Docs
        /\ text \in [Docs -> Texts]
        /\ pendingChanges \in Seq(Docs) /\ IsInjective(pendingChanges)
    BY ConfigAssumption DEF InvWith, Places, RestFits
  <1>3. text[d] + 1 \in Texts /\ text' \in [Docs -> Texts] /\ text'[d] = text[d] + 1
        /\ \A c \in Docs : c # d => text'[c] = text[c]
    <2>1. text[d] + 1 \in Texts
      BY <1>1, <1>2, TextsAreNumbers DEF Texts
    <2> QED
      BY <1>1, <1>2, <2>1
  <1>4. /\ pendingChanges' \in Seq(Docs) /\ IsInjective(pendingChanges')
        /\ ToSet(pendingChanges') = ToSet(pendingChanges) \cup {d}
        /\ ToSet(pendingChanges) \subseteq Docs
    <2>1. CASE d \in ToSet(pendingChanges)
      BY <1>1, <1>2, <2>1, ToSetElements
    <2>2. CASE d \notin ToSet(pendingChanges)
      <3>0. pendingChanges' = Append(pendingChanges, d)
        BY <1>1, <2>2
      <3>1. pendingChanges' \in Seq(Docs) /\ IsInjective(pendingChanges')
        <4>1. Append(pendingChanges, d) \in Seq(Docs)
          BY <1>2
        <4>2. IsInjective(Append(pendingChanges, d))
          BY <1>2, <2>2, InjectiveSequences
        <4> QED
          BY <3>0, <4>1, <4>2
      <3>2. /\ ToSet(pendingChanges') = ToSet(pendingChanges) \cup {d}
            /\ ToSet(pendingChanges) \subseteq Docs
        BY <1>1, <1>2, <2>2, ToSetElements
      <3> QED
        BY <3>1, <3>2
    <2> QED
      BY <2>1, <2>2
  <1>5. \A c \in Docs : text'[c] \in Nat /\ text[c] \in Nat /\ text'[c] >= text[c]
    <2>1. \A c \in Docs : text'[c] \in Nat /\ text[c] \in Nat
      BY <1>2, <1>3, TextsAreNumbers
    <2> TAKE c \in Docs
    <2>2. CASE c = d
      BY <1>3, <2>1, <2>2
    <2>3. CASE c # d
      BY <1>3, <2>1, <2>3
    <2> QED
      BY <2>1, <2>2, <2>3
  <1>6. TasksFit' /\ ReadyFits' /\ LockFits' /\ WritingFits' /\ OrderFits'
    <2>1. TasksFit' /\ ReadyFits' /\ LockFits'
      BY <1>1, ConfigKept DEF InvWith, Places, TasksFit, ReadyFits, LockFits, Ids
    <2>2. WritingFits' /\ OrderFits'
      BY <1>1, ConfigKept DEF InvWith, Places, WritingFits, OrderFits, Ids
    <2> QED
      BY <2>1, <2>2
  <1>7. RestFits'
    BY <1>1, <1>2, <1>3, <1>4, ConfigKept DEF InvWith, Places, RestFits
  <1>8. TriggerFits'
    BY <1>1 DEF TriggerFits
  <1>9. SyncedFits' /\ Leads(server, writing, held)' /\ held \in Held'
    BY <1>1, ConfigKept DEF InvWith, SyncedFits, Ids
  <1>10. /\ Ids' = Ids
         /\ \A j \in Ids : (Unsent(j)' <=> Unsent(j)) /\ (Holder(j)' <=> Holder(j))
         /\ \A kind \in Kinds, c \in Docs : UnsentOf(kind, c)' <=> UnsentOf(kind, c)
    BY <1>1 DEF Ids, Unsent, Holder, UnsentOf
  <1>11. PresenceFits(held)'
    BY <1>1, <1>10 DEF InvWith, PresenceFits, Kinds
  <1>12. IncrementalFits(held)'
    BY <1>1, ConfigKept DEF IncrementalFits
  <1>13. PendingFits(held)'
    <2>1. PendingFits(held)
      BY DEF InvWith
    <2>2. ClosesLast'
      BY <1>1, <1>10, <2>1 DEF PendingFits, ClosesLast
    <2>3. KeptBack'
      BY <1>1, <1>10, <2>1, KeptBackKept DEF PendingFits, Kinds, Same
    <2>4. TextSentOrPending(held)'
      BY <1>1, <1>2, <1>3, <1>4, <1>10, <2>1 DEF PendingFits, TextSentOrPending, Kinds
    <2>5. ChangesHaveDocument(held)'
      <3>1. held[d] # Absent \/ UnsentOf("open", d)
        BY <1>1, <1>2 DEF InvWith, PresenceFits
      <3> QED
        BY <1>1, <1>2, <1>4, <1>10, <2>1, <3>1 DEF PendingFits, ChangesHaveDocument, Kinds
    <2>6. ASSUME NEW j \in Ids, Unsent(j) PROVE CallFits(j, held)'
      <3>1. /\ CallFits(j, held) /\ tasks[j].doc \in Docs /\ tasks[j].text \in Nat
            /\ tasks[j].pc \notin Early
            /\ tasks[j].kind = "close" => tasks[j].doc # d
        <4>1. tasks[j].doc \in Docs /\ tasks[j].text \in Nat
          BY <1>2, <2>6, TextsAreNumbers DEF InvWith, Places, TasksFit, Task
        <4>2. tasks[j].pc \notin Early
          BY <1>1, <2>6, WhenIdle DEF Early
        <4> QED
          BY <1>1, <2>1, <2>6, <4>1, <4>2 DEF PendingFits, ClosesLast
      <3> QED
        BY <1>1, <1>3, <1>4, <1>5, <1>10, <2>6, <3>1 DEF CallFits, Kinds
    <2> QED
      BY <1>10, <2>2, <2>3, <2>4, <2>5, <2>6 DEF PendingFits
  <1> QED
    BY <1>6, <1>7, <1>8, <1>9, <1>11, <1>12, <1>13 DEF InvWith, Places

\* The delayer gets in line behind everybody, and so behind the opens of the
\* documents whose changes it is to send.
LEMMA TimerStep ==
  ASSUME NEW held \in Held, InvWith(held), TimerFires
  PROVE  InvWith(held)'
  <1>1. /\ UNCHANGED <<config, registered, open, visible, text, pendingOpens, pendingChanges,
                       inFlightOpens, synced, tasks, ready, locked, flushing, writing, server>>
        /\ timer /\ timer' = FALSE /\ lockQueue' = Append(lockQueue, Delayer)
    BY DEF TimerFires, editor
  <1>2. Full /\ registered /\ LockFits /\ TasksFit
    BY <1>1 DEF InvWith, Places, RestFits
  <1> DEFINE n == Len(lockQueue)
  <1>3. lockQueue \in Seq(Ids \cup {Delayer}) /\ \A j \in Ids : j # Delayer
    BY <1>2 DEF LockFits, TasksFit, Delayer
  <1>4. /\ n \in Nat /\ Len(lockQueue') = n + 1
        /\ \A k \in 1..n : lockQueue'[k] = lockQueue[k]
        /\ lockQueue'[n + 1] = Delayer /\ lockQueue' # <<>>
        /\ lockQueue' \in Seq(Ids \cup {Delayer})
        /\ ToSet(lockQueue') = ToSet(lockQueue) \cup {Delayer}
    BY <1>1, <1>3, ToSetElements, AppendElements
  <1>5. \A k \in 1..(n + 1) : k \in 1..n \/ k = n + 1
    BY <1>4
  <1>6. locked => 1 \in 1..n /\ n # 0 /\ lockQueue'[1] = lockQueue[1]
    BY <1>2, <1>4 DEF LockFits
  <1> HIDE DEF n
  <1>7. /\ Ids' = Ids
        /\ \A j \in Ids : (Unsent(j)' <=> Unsent(j)) /\ (Holder(j)' <=> Holder(j))
        /\ \A kind \in Kinds, c \in Docs : UnsentOf(kind, c)' <=> UnsentOf(kind, c)
    BY <1>1, <1>6 DEF Ids, Unsent, Holder, UnsentOf
  <1>8. TasksFit' /\ ReadyFits' /\ WritingFits'
    BY <1>1, <1>7, ConfigKept DEF InvWith, Places, TasksFit, ReadyFits, WritingFits
  <1>9. LockFits'
    <2>1. \A k, l \in 1..(n + 1) :
            lockQueue'[k] = lockQueue'[l] /\ lockQueue'[k] # Delayer => k = l
      BY <1>2, <1>4, <1>5 DEF LockFits, n
    <2>2. \A j \in Ids : tasks'[j].pc = "locking" <=> j \in ToSet(lockQueue')
      BY <1>1, <1>2, <1>3, <1>4 DEF LockFits
    <2> QED
      BY <1>1, <1>2, <1>4, <1>7, <2>1, <2>2 DEF LockFits
  <1>10. RestFits'
    BY <1>1, <1>2, <1>7, ConfigKept DEF InvWith, Places, RestFits
  <1>11. OrderFits'
    <2>1. \A k, l \in 1..Len(lockQueue') :
            (/\ k # l /\ lockQueue'[k] # Delayer /\ lockQueue'[l] # Delayer
             /\ tasks'[lockQueue'[k]].doc = tasks'[lockQueue'[l]].doc)
              => /\ tasks'[lockQueue'[k]].kind = "open" => k < l
                 /\ tasks'[lockQueue'[l]].kind = "close" => k < l
      BY <1>1, <1>4, <1>5 DEF InvWith, OrderFits, n
    <2> QED
      BY <1>1, <1>7, <2>1 DEF InvWith, OrderFits
  <1>12. TriggerFits'
    <2>1. n + 1 \in 1..Len(lockQueue') /\ (locked => n + 1 # 1)
      BY <1>4, <1>6
    <2>2. \A k \in 1..Len(lockQueue') : lockQueue'[k] # Delayer => k < n + 1
      BY <1>4, <1>5
    <2> QED
      BY <1>1, <1>4, <2>1, <2>2 DEF TriggerFits
  <1>13. SyncedFits' /\ Leads(server, writing, held)' /\ held \in Held'
    BY <1>1, ConfigKept DEF InvWith, SyncedFits, Ids
  <1>14. PresenceFits(held)'
    BY <1>1, <1>7 DEF InvWith, PresenceFits, Kinds
  <1>15. IncrementalFits(held)'
    BY <1>1, <1>2, ConfigKept DEF IncrementalFits
  <1>16. PendingFits(held)'
    <2>1. PendingFits(held)
      BY DEF InvWith
    <2>2. ClosesLast' /\ KeptBack'
      BY <1>1, <1>2, <1>7, <2>1, KeptBackKept DEF PendingFits, ClosesLast, Kinds, Same
    <2>3. TextSentOrPending(held)' /\ ChangesHaveDocument(held)'
      <3>1. /\ open \subseteq Docs /\ ToSet(pendingChanges) \subseteq Docs
            /\ \A d \in Docs : UnsentOf("open", d)' <=> UnsentOf("open", d)
        BY <1>7, ToSetElements DEF InvWith, Places, RestFits, Kinds
      <3> QED
        BY <1>1, <1>2, <2>1, <3>1 DEF PendingFits, TextSentOrPending, ChangesHaveDocument
    <2>4. ASSUME NEW j \in Ids, Unsent(j) PROVE CallFits(j, held)'
      <3>1. CallFits(j, held) /\ tasks[j].doc \in Docs
        BY <1>2, <2>1, <2>4 DEF PendingFits, TasksFit, Task
      <3> QED
        BY <1>1, <1>7, <2>4, <3>1 DEF CallFits, Kinds
    <2> QED
      BY <1>7, <2>2, <2>3, <2>4 DEF PendingFits
  <1> QED
    BY <1>8, <1>9, <1>10, <1>11, <1>12, <1>13, <1>14, <1>15, <1>16 DEF InvWith, Places

\* The features register: the documents that are open are sent at once.
LEMMA RegisterStep ==
  ASSUME IsFiniteSet(Docs), NEW held \in Held, InvWith(held), Plain, Register
  PROVE  InvWith(held)'
  <1> DEFINE sent == SetToSeq(config.preopened \cap visible)
             kept == SetToSeq(config.preopened \ visible)
  <1>1. /\ UNCHANGED <<config, open, visible, text, pendingChanges, lockQueue, locked, flushing,
                       timer, writing, server>>
        /\ ~registered /\ registered' = TRUE
        /\ tasks' = [i \in DOMAIN sent |-> NewTask("open", sent[i], text[sent[i]], Nobody)]
        /\ ready' = [i \in DOMAIN sent |-> i]
        /\ \/ inFlightOpens' = {}
           \/ Full /\ inFlightOpens' = ToSet(sent)
        /\ synced' = ToSet(sent)
        /\ pendingOpens' = [i \in DOMAIN kept |-> [doc |-> kept[i], text |-> text[kept[i]],
                                                   live |-> TRUE]]
    BY DEF Register, semaphore
  <1>2. /\ config \in Configs /\ config.preopened \subseteq Docs
        /\ open = config.preopened /\ open \subseteq Docs /\ text \in [Docs -> Texts]
        /\ config.preopened \cap visible = open /\ config.preopened \ visible = {}
        /\ lockQueue = <<>> /\ pendingChanges = <<>> /\ writing = <<>> /\ ~timer /\ ~locked
        /\ flushing = <<>> /\ \A d \in Docs : server[d] = Absent
        /\ server \in Held /\ visible = config.tabs
    BY <1>1 DEF Plain, InvWith, Places, RestFits, LockFits
  <1>3. /\ sent \in Seq(open)
        /\ \A i, j \in 1..Len(sent) : sent[i] = sent[j] => i = j
        /\ \A d \in open : \E i \in 1..Len(sent) : sent[i] = d
    <2>1. IsFiniteSet(open)
      BY <1>2, FS_Subset
    <2> QED
      BY <1>2, <2>1, SetToSeqElements
  <1>4. pendingOpens' = <<>>
    <2>1. IsFiniteSet({})
      BY FS_EmptySet
    <2>2. kept = SetToSeq({})
      BY <1>2
    <2>3. kept \in Seq({})
      BY <2>1, <2>2, SetToSeqElements
    <2>4. kept = <<>>
      BY <2>3
    <2>5. DOMAIN kept = {}
      BY <2>4
    <2> HIDE DEF kept
    <2> QED
      BY <1>1, <2>5
  <1> DEFINE n == Len(sent)
  <1> HIDE DEF sent, kept
  <1>5. /\ n \in Nat /\ DOMAIN sent = 1..n /\ \A i \in 1..n : sent[i] \in open
    BY <1>3
  <1>6. \A i, j \in 1..n : sent[i] = sent[j] => i = j
    BY <1>3
  <1>7. \A d \in open : \E i \in 1..n : sent[i] = d
    BY <1>3
  <1> HIDE DEF n
  <1>8. ToSet(sent) = open
    BY <1>3, <1>5 DEF ToSet, n
  <1>9. held = server
    BY <1>2, LeadsNowhere DEF InvWith
  <1>10. /\ Ids' = 1..n
        /\ \A i \in 1..n : tasks'[i] = NewTask("open", sent[i], text[sent[i]], Nobody)
    BY <1>1, <1>5 DEF Ids
  <1>11. ASSUME NEW i \in 1..n
        PROVE  /\ tasks'[i] \in Task /\ tasks'[i].kind = "open" /\ tasks'[i].doc = sent[i]
               /\ tasks'[i].text = text[sent[i]] /\ tasks'[i].pc = "start"
               /\ tasks'[i].parent = Nobody /\ tasks'[i].rest = <<>> /\ tasks'[i].dropped = FALSE
    <2>1. sent[i] \in Docs /\ text[sent[i]] \in Texts /\ <<>> \in Seq(PendingOpen)
      BY <1>2, <1>5
    <2>2. PICK d \in Docs : d = sent[i]
      BY <2>1
    <2>3. PICK t \in Texts : t = text[sent[i]]
      BY <2>1
    <2>4. tasks'[i] = NewTask("open", d, t, Nobody)
      BY <1>10, <2>2, <2>3
    <2>5. NewTask("open", d, t, Nobody) \in Task
      BY <2>1 DEF NewTask, Task, Kinds, Nobody
    <2> QED
      BY <2>2, <2>3, <2>4, <2>5 DEF NewTask
  <1>12. \A i \in 1..n : /\ tasks'[i].kind = "open" /\ tasks'[i].doc = sent[i]
                         /\ tasks'[i].text = text[sent[i]] /\ tasks'[i].pc = "start"
    BY <1>11
  <1>13. "start" \in Early /\ "start" \in PCs
    BY DEF Early, PCs
  <1>14. TasksFit'
    <2>1. IsFiniteSet(Ids') /\ Ids' \subseteq Nat \ {0}
      <3>1. IsFiniteSet(1..n)
        BY <1>5, FS_Interval
      <3>2. 1..n \subseteq Nat \ {0}
        BY <1>5
      <3> QED
        BY <1>10, <3>1, <3>2
    <2>2. \A i \in Ids' : tasks'[i] \in Task' /\ tasks'[i].kind # "change"
      BY <1>1, <1>10, <1>11, ConfigKept
    <2> QED
      BY <1>10, <1>11, <1>13, <2>1, <2>2 DEF TasksFit
  <1>15. ReadyFits'
    <2>1. ready' \in Seq(Ids') /\ IsInjective(ready') /\ ToSet(ready') = Ids'
      BY <1>1, <1>5, <1>10 DEF IsInjective, ToSet
    <2> QED
      BY <1>10, <1>11, <1>13, <2>1 DEF ReadyFits
  <1>16. LockFits'
    <2>1. lockQueue' = <<>> /\ ToSet(lockQueue') = {} /\ Len(lockQueue') = 0
      BY <1>1, <1>2 DEF ToSet
    <2>2. \A i \in Ids' : tasks'[i].pc # "locking"
      BY <1>10, <1>11
    <2> QED
      <3>1. <<>> \in Seq(Ids' \cup {Delayer}) /\ <<>> \in Seq(Docs)
        OBVIOUS
      <3>2. \A k, l \in 1..Len(lockQueue') : k = l
        BY <2>1
      <3> QED
        BY <1>1, <1>2, <2>1, <2>2, <3>1, <3>2 DEF LockFits, Places, InvWith
  <1>17. WritingFits'
    BY <1>1, <1>2 DEF WritingFits
  <1>18. RestFits'
    BY <1>1, <1>2, <1>4, <1>8, ConfigKept DEF InvWith, Places, RestFits
  <1>19. OrderFits'
    <2>1. Len(lockQueue') = 0
      BY <1>1, <1>2
    <2>2. \A i, j \in Ids' : i # j => tasks'[i].doc # tasks'[j].doc
      BY <1>10, <1>6, <1>12
    <2> QED
      BY <2>1, <2>2 DEF OrderFits
  <1>20. TriggerFits'
    BY <1>1, <1>2, ToSetElements DEF TriggerFits, ToSet
  <1>21. \A d \in Docs : /\ UnsentOf("open", d)' <=> d \in open
                         /\ ~UnsentOf("close", d)'
    <2>1. \A i \in Ids' : Unsent(i)' /\ tasks'[i].kind = "open" /\ tasks'[i].doc = sent[i]
      BY <1>10, <1>12, <1>13 DEF Unsent
    <2> QED
      BY <1>7, <1>5, <1>10, <2>1 DEF UnsentOf
  <1>22. SyncedFits'
    <2>1. \A d \in open : \E i \in Ids' : tasks'[i].kind = "open" /\ tasks'[i].doc = d
      BY <1>10, <1>7, <1>12
    <2>2. \A i \in Ids' : tasks'[i].pc # "written"
      BY <1>10, <1>12
    <2> QED
      BY <1>1, <1>2, <1>8, <2>1, <2>2 DEF SyncedFits
  <1>23. Leads(server, writing, held)' /\ held \in Held'
    BY <1>1, ConfigKept DEF InvWith
  <1>24. PresenceFits(held)'
    BY <1>1, <1>2, <1>9, <1>21 DEF PresenceFits
  <1>25. IncrementalFits(held)'
    <2>1. \A d \in open : \E i \in Ids' : tasks'[i].pc \in Early /\ tasks'[i].doc = d
      BY <1>10, <1>13, <1>7, <1>12
    <2>2. \A i \in Ids' : /\ tasks'[i].kind = "open" /\ tasks'[i].doc \in open
                          /\ tasks'[i].text = text[tasks'[i].doc]
      BY <1>5, <1>10, <1>12
    <2> QED
      BY <1>1, <2>1, <2>2 DEF IncrementalFits
  <1>26. PendingFits(held)'
    <2> SUFFICES ASSUME Full PROVE PendingFits(held)'
      BY <1>1, ConfigKept DEF PendingFits
    <2>1. ToSet(pendingChanges') = {} /\ ToSet(flushing') = {} /\ inFlightOpens' \subseteq open
      BY <1>1, <1>2, <1>8 DEF ToSet
    <2>2. \A i \in Ids' : /\ tasks'[i].kind = "open" /\ tasks'[i].doc \in open
                          /\ tasks'[i].text = text[tasks'[i].doc]
      BY <1>5, <1>10, <1>12
    <2>3. ClosesLast'
      BY <2>2 DEF ClosesLast
    <2>4. KeptBack'
      BY <1>1, <1>2, <1>10, <1>12, <1>13, <1>21, <2>1 DEF KeptBack
    <2>5. TextSentOrPending(held)' /\ ChangesHaveDocument(held)'
      BY <1>1, <1>2, <1>21, <2>1 DEF TextSentOrPending, ChangesHaveDocument
    <2>6. \A i \in Ids' : CallFits(i, held)'
      BY <1>1, <2>1, <2>2 DEF CallFits
    <2> QED
      BY <2>3, <2>4, <2>5, <2>6 DEF PendingFits
  <1> QED
    BY <1>14, <1>15, <1>16, <1>17, <1>18, <1>19, <1>20, <1>22, <1>23, <1>24, <1>25, <1>26
       DEF InvWith, Places
-----------------------------------------------------------------------------
(* The holder of the lock sends the changes, one after another.             *)

\* What a message does to the documents held.
LEMMA AfterHolds ==
  ASSUME config \in Configs, NEW held \in Held, NEW m \in Message, Fits(held, m)
  PROVE  /\ \A c \in Docs : c # m.doc => After(held, m)[c] = held[c]
         /\ m.kind \in {"open", "change"}
              => After(held, m)[m.doc] = m.text /\ After(held, m)[m.doc] # Absent
         /\ m.kind = "close" => After(held, m)[m.doc] = Absent
         /\ m.kind = "change" => held[m.doc] # Absent
         /\ m.kind = "request" => After(held, m) = held
  <1>1. m.doc \in Docs /\ m.text # Absent /\ held \in [Docs -> Texts \cup {Absent}]
    BY TextsAreNumbers DEF Message, Held
  <1>2. CASE m.kind = "open"
    BY <1>1, <1>2 DEF After, Opened
  <1>3. CASE m.kind = "close"
    BY <1>1, <1>3 DEF After, Closed
  <1>4. CASE m.kind = "change"
    <2>1. Updated(m.text, ~Full, held[m.doc]) = m.text /\ held[m.doc] # Absent
      BY <1>4 DEF Fits, Updated
    <2> QED
      BY <1>1, <1>4, <2>1 DEF After, Changed
  <1>5. CASE m.kind = "request"
    BY <1>5 DEF After
  <1> QED
    BY <1>2, <1>3, <1>4, <1>5 DEF Message, Kinds

\* Messages of calls that wait for them, and none of the holder.
OutboxFits(w) ==
  /\ w \in Seq(Message)
  /\ \A n \in 1..Len(w) :
       /\ w[n].task # Delayer /\ w[n].task \in Ids /\ tasks[w[n].task].pc = "writing"
       /\ w[n].kind = tasks[w[n].task].kind /\ w[n].doc = tasks[w[n].task].doc
  /\ \A m, n \in 1..Len(w) : w[m].task = w[n].task => m = n

\* Before the holder sends, and while its last message arrives, all other
\* messages are of calls.
LEMMA OutboxFree ==
  ASSUME WritingFits
  PROVE  /\ ~locked => OutboxFits(writing)
         /\ writing # <<>>
              => /\ Head(writing) \in Message
                 /\ Head(writing).task = Delayer => OutboxFits(Tail(writing))
                 /\ \A n \in 1..Len(Tail(writing)) : Tail(writing)[n].task # Head(writing).task
                 /\ \A m, n \in 1..Len(Tail(writing)) :
                      Tail(writing)[m].task = Tail(writing)[n].task => m = n
  <1>1. CASE ~locked
    BY <1>1 DEF WritingFits, OutboxFits
  <1>2. ASSUME writing # <<>>
        PROVE  /\ Head(writing) \in Message
               /\ Head(writing).task = Delayer => OutboxFits(Tail(writing))
               /\ \A n \in 1..Len(Tail(writing)) : Tail(writing)[n].task # Head(writing).task
               /\ \A m, n \in 1..Len(Tail(writing)) :
                    Tail(writing)[m].task = Tail(writing)[n].task => m = n
    <2> DEFINE l == Len(Tail(writing))
    <2>1. /\ Tail(writing) \in Seq(Message) /\ Head(writing) = writing[1]
          /\ writing[1] \in Message /\ Len(writing) \in Nat \ {0} /\ l = Len(writing) - 1
          /\ \A n \in 1..l : Tail(writing)[n] = writing[n + 1]
      BY <1>2, TailElements DEF WritingFits
    <2>2. /\ 1 \in 1..Len(writing)
          /\ \A n \in 1..l : n + 1 \in 1..Len(writing) /\ n + 1 # 1
          /\ \A m, n \in 1..l : m + 1 = n + 1 => m = n
      BY <2>1
    <2> HIDE DEF l
    <2>3. \A n \in 1..l : Tail(writing)[n].task # Head(writing).task
      BY <2>1, <2>2 DEF WritingFits
    <2>4. \A m, n \in 1..l : Tail(writing)[m].task = Tail(writing)[n].task => m = n
      BY <2>1, <2>2 DEF WritingFits
    <2>5. Head(writing).task = Delayer => OutboxFits(Tail(writing))
      BY <2>1, <2>2, <2>3, <2>4 DEF WritingFits, OutboxFits, l
    <2> QED
      BY <2>1, <2>3, <2>4, <2>5 DEF l
  <1> QED
    BY <1>1, <1>2

\* The open of a document whose changes are kept back is in line, so the
\* first in line neither closes the document nor is the delayer that sends
\* its changes.
LEMMA HeldBackInLine ==
  ASSUME NEW held \in Held, InvWith(held), Idle, Full, NEW d \in inFlightOpens
  PROVE  /\ UnsentOf("open", d)
         /\ \A h \in Ids : h = lockQueue[1] /\ lockQueue # <<>> /\ tasks[h].doc = d
                             => tasks[h].kind # "close"
         /\ \A n \in 1..Len(lockQueue) :
              (\A m \in 1..Len(lockQueue) :
                 (/\ lockQueue[m] # Delayer
                  /\ tasks[lockQueue[m]].kind = "open" /\ tasks[lockQueue[m]].doc = d) => m < n)
                => n # 1
  <1>1. UnsentOf("open", d)
    BY DEF InvWith, Places, RestFits, PendingFits, KeptBack
  <1>2. PICK j \in Ids : Unsent(j) /\ tasks[j].kind = "open" /\ tasks[j].doc = d
    BY <1>1 DEF UnsentOf
  <1>3. /\ tasks[j].pc = "locking" /\ j \in ToSet(lockQueue) /\ j # Delayer
        /\ Len(lockQueue) \in Nat /\ \A i \in Ids : i # Delayer
    <2>1. tasks[j].pc = "locking"
      BY <1>2, WhenIdle
    <2>2. TasksFit /\ LockFits
      BY DEF InvWith, Places
    <2>3. \A i \in Ids : i # Delayer
      BY <2>2 DEF TasksFit, Delayer
    <2>4. lockQueue \in Seq(Ids \cup {Delayer})
      BY <2>2 DEF LockFits
    <2> QED
      BY <2>1, <2>2, <2>3, <2>4 DEF LockFits
  <1>4. PICK m \in 1..Len(lockQueue) : lockQueue[m] = j
    BY <1>3 DEF ToSet
  <1>5. ASSUME NEW h \in Ids, h = lockQueue[1], tasks[h].doc = d, tasks[h].kind = "close"
        PROVE  FALSE
    <2>1. m # 1 /\ 1 \in 1..Len(lockQueue) /\ ~(m < 1)
      BY <1>2, <1>3, <1>4, <1>5
    <2> QED
      BY <1>2, <1>3, <1>4, <1>5, <2>1 DEF InvWith, OrderFits
  <1> QED
    BY <1>1, <1>2, <1>3, <1>4, <1>5

\* When the holder goes on, a change that stays pending has a delayer behind
\* the holder.
LEMMA DelayerBehind ==
  ASSUME NEW held \in Held, InvWith(held), Idle, Full, ~timer,
         NEW d \in ToSet(pendingChanges), locked \/ d \in inFlightOpens
  PROVE  \E n \in 1..Len(lockQueue) :
           /\ lockQueue[n] = Delayer /\ n # 1
           /\ \A m \in 1..Len(lockQueue) :
                (/\ lockQueue[m] # Delayer
                 /\ tasks[lockQueue[m]].kind = "open" /\ tasks[lockQueue[m]].doc = d) => m < n
  BY HeldBackInLine DEF InvWith, TriggerFits

\* The holder goes on with the changes that were taken from the pending ones.
DeliveryFits(held, changes, outbox) ==
  /\ Idle /\ lockQueue # <<>>
  /\ UNCHANGED <<config, registered, open, visible, text, pendingOpens, inFlightOpens,
                 synced, timer>>
  /\ changes \in Seq(Docs)
  /\ pendingChanges' \in Seq(Docs) /\ IsInjective(pendingChanges')
  /\ ToSet(pendingChanges') \subseteq ToSet(pendingChanges)
  /\ ToSet(pendingChanges) \cap inFlightOpens \subseteq ToSet(pendingChanges')
  /\ ToSet(pendingChanges) \subseteq ToSet(pendingChanges') \cup ToSet(changes)
  /\ ToSet(flushing) \subseteq ToSet(changes)
  /\ ToSet(changes) \subseteq ToSet(flushing) \cup (ToSet(pendingChanges) \ inFlightOpens)
  /\ locked \/ ToSet(pendingChanges') \subseteq inFlightOpens
  /\ server' \in Held
  /\ \A c \in Docs : server'[c] # Absent <=> server[c] # Absent
  /\ OutboxFits(outbox) /\ Leads(server', outbox, held)

\* What is the same when the holder sends a change and when it is done.
LEMMA DeliveryRest ==
  ASSUME NEW held \in Held, InvWith(held), NEW changes, NEW outbox,
         DeliveryFits(held, changes, outbox)
  PROVE  /\ Full /\ registered /\ config \in Configs
         /\ TasksFit /\ ReadyFits /\ LockFits /\ PendingFits(held)
         /\ \A j \in Ids : tasks[j].pc \in {"locking", "writing"} /\ j # Delayer
         /\ ToSet(pendingChanges) \subseteq Docs
         /\ \A d \in Docs : d \in inFlightOpens <=> UnsentOf("open", d)
         /\ \A d \in ToSet(changes) : d \in Docs /\ held[d] # Absent
         /\ (Ids' = Ids /\ \A j \in Ids : Same(j) /\ tasks'[j].pc # "written") => SyncedFits'
         /\ (Ids' = Ids) => RestFits'
  <1>1. /\ Full /\ registered /\ config \in Configs /\ Idle
        /\ TasksFit /\ ReadyFits /\ LockFits /\ PendingFits(held)
        /\ ToSet(pendingChanges) \subseteq Docs
        /\ \A d \in Docs : d \in inFlightOpens <=> UnsentOf("open", d)
    <2>1. Full /\ registered /\ config \in Configs /\ Idle
      BY DEF DeliveryFits, InvWith, Places, RestFits
    <2>2. TasksFit /\ ReadyFits /\ LockFits /\ PendingFits(held)
      BY DEF InvWith, Places
    <2>3. ToSet(pendingChanges) \subseteq Docs
      BY ToSetElements DEF InvWith, Places, RestFits
    <2> QED
      <3>1. \A j \in Ids : tasks[j].pc \notin Early
        BY <2>1, WhenIdle DEF Early
      <3>2. KeptBack
        BY <2>1, <2>2 DEF PendingFits
      <3>3. ASSUME NEW d \in Docs, UnsentOf("open", d) PROVE d \in inFlightOpens
        BY <3>1, <3>2, <3>3 DEF KeptBack, UnsentOf, Unaware
      <3> QED
        BY <2>1, <2>2, <2>3, <3>2, <3>3 DEF KeptBack
  <1>2. \A j \in Ids : tasks[j].pc \in {"locking", "writing"} /\ j # Delayer
    BY <1>1, WhenIdle DEF TasksFit, Delayer
  <1>3. \A d \in ToSet(changes) : d \in Docs /\ held[d] # Absent
    <2>1. ToSet(changes) \subseteq Docs
      BY ToSetElements DEF DeliveryFits
    <2> QED
      BY <1>1, <2>1 DEF DeliveryFits, PendingFits, ChangesHaveDocument
  <1>4. ASSUME Ids' = Ids, \A j \in Ids : Same(j) /\ tasks'[j].pc # "written" PROVE SyncedFits'
    <2>1. SyncedFits /\ \A j \in Ids : tasks[j].pc # "written"
      BY <1>2 DEF InvWith
    <2> QED
      BY <1>4, <2>1 DEF SyncedFits, DeliveryFits, Same
  <1>5. ASSUME Ids' = Ids PROVE RestFits'
    BY <1>1, ConfigKept DEF InvWith, Places, RestFits, DeliveryFits
  <1> QED
    BY <1>1, <1>2, <1>3, <1>4, <1>5

\* The holder sends the next change, with the text as it is now.
LEMMA FlushStep ==
  ASSUME NEW held \in Held, InvWith(held), NEW changes, NEW outbox,
         DeliveryFits(held, changes, outbox), changes # <<>>,
         FlushOrRelease(Head(lockQueue), changes, outbox)
  PROVE  \E end \in Held : InvWith(end)'
  <1>1. PICK c \in Docs : c = Head(changes) /\ c \in ToSet(changes)
    BY ToSetElements, TailElements DEF DeliveryFits
  <1> DEFINE m == [kind |-> "change", doc |-> c, text |-> text[c], task |-> Delayer]
  <1>2. /\ writing' = Append(outbox, m) /\ flushing' = Tail(changes) /\ locked' = TRUE
        /\ UNCHANGED <<lockQueue, tasks, ready>> /\ Idle /\ lockQueue # <<>>
        /\ UNCHANGED <<config, registered, open, visible, text, pendingOpens, inFlightOpens,
                       synced, timer>>
    BY <1>1 DEF FlushOrRelease, DeliveryFits
  <1>3. /\ Full /\ registered /\ config \in Configs
        /\ TasksFit /\ ReadyFits /\ LockFits /\ PendingFits(held)
        /\ \A j \in Ids : tasks[j].pc \in {"locking", "writing"} /\ j # Delayer
        /\ ToSet(pendingChanges) \subseteq Docs
        /\ \A d \in Docs : d \in inFlightOpens <=> UnsentOf("open", d)
        /\ \A d \in ToSet(changes) : d \in Docs /\ held[d] # Absent
    BY DeliveryRest
  <1>4. /\ Ids' = Ids /\ Full'
        /\ \A j \in Ids : (Unsent(j)' <=> Unsent(j))
        /\ \A j \in Ids : (Holder(j)' <=> j = lockQueue[1]) /\ (Holder(j) <=> locked /\ j = lockQueue[1])
        /\ \A kind \in Kinds, d \in Docs : UnsentOf(kind, d)' <=> UnsentOf(kind, d)
    BY <1>2, <1>3, ConfigKept DEF Ids, Unsent, Holder, UnsentOf
  <1>5. text \in [Docs -> Texts] /\ text[c] \in Texts /\ m \in Message
    BY <1>1 DEF InvWith, Places, RestFits, Message, Kinds, Delayer
  <1>6. m.kind = "change" /\ m.doc = c /\ m.text = text[c] /\ m.task = Delayer
    OBVIOUS
  <1> HIDE DEF m
  <1>7. Fits(held, m)
    BY <1>1, <1>3, <1>6 DEF Fits
  <1>8. PICK end \in Held : end = After(held, m)
    BY <1>3, <1>5, <1>7, AfterFits
  <1>9. /\ end[c] = text[c] /\ \A d \in Docs : d # c => end[d] = held[d]
        /\ \A d \in Docs : end[d] # Absent <=> held[d] # Absent
    BY <1>1, <1>3, <1>5, <1>6, <1>7, <1>8, AfterHolds
  <1>10. Leads(server, writing, end)'
    <2>1. server' \in Held /\ outbox \in Seq(Message) /\ Leads(server', outbox, held)
      BY DEF DeliveryFits, OutboxFits
    <2>2. PICK start \in Held : start = server'
      BY <2>1
    <2>3. Leads(start, Append(outbox, m), end)
      BY <1>3, <1>5, <1>7, <1>8, <2>1, <2>2, LeadsAppend
    <2>4. Leads(server', writing', end)
      BY <1>2, <2>2, <2>3
    <2> QED
      BY <1>2, <2>4, ConfigKept
  <1>11. /\ ToSet(changes) = {c} \cup ToSet(flushing') /\ flushing' \in Seq(Docs)
    BY <1>1, <1>2, ToSetElements, TailElements DEF DeliveryFits
  <1>12. TasksFit' /\ ReadyFits' /\ OrderFits'
    <2>1. TasksFit'
      BY <1>2, <1>3, <1>4, ConfigKept DEF TasksFit
    <2>2. ReadyFits'
      BY <1>2, <1>3, <1>4 DEF ReadyFits
    <2>3. OrderFits'
      BY <1>2, <1>4 DEF InvWith, OrderFits
    <2> QED
      BY <2>1, <2>2, <2>3
  <1>13. LockFits'
    BY <1>2, <1>3, <1>4, <1>11 DEF LockFits
  <1>14. WritingFits'
    <2> DEFINE n == Len(outbox)
    <2>1. OutboxFits(outbox)
      BY DEF DeliveryFits
    <2>2. /\ n \in Nat /\ Len(writing') = n + 1 /\ writing' \in Seq(Message)
          /\ \A k \in 1..n : writing'[k] = outbox[k]
          /\ writing'[n + 1] = m
      BY <1>2, <1>5, <2>1, AppendElements DEF OutboxFits
    <2>3. \A k \in 1..(n + 1) : k \in 1..n \/ k = n + 1
      BY <2>2
    <2> HIDE DEF n
    <2>4. \A k, l \in 1..(n + 1) : writing'[k].task = writing'[l].task => k = l
      BY <1>6, <2>1, <2>2, <2>3 DEF OutboxFits, n
    <2>5. ASSUME NEW k \in 1..(n + 1)
          PROVE  IF writing'[k].task = Delayer
                 THEN locked' /\ writing'[k].kind = "change" /\ Full
                 ELSE /\ writing'[k].task \in Ids /\ tasks'[writing'[k].task].pc = "writing"
                      /\ writing'[k].kind = tasks'[writing'[k].task].kind
                      /\ writing'[k].doc = tasks'[writing'[k].task].doc
      <3>1. CASE k = n + 1
        BY <1>2, <1>3, <1>6, <2>2, <3>1
      <3>2. CASE k \in 1..n
        BY <1>2, <2>1, <2>2, <3>2 DEF OutboxFits, n
      <3> QED
        BY <2>3, <3>1, <3>2
    <2> QED
      BY <1>2, <1>4, <2>2, <2>4, <2>5, ConfigKept DEF WritingFits
  <1>15. RestFits'
    BY <1>4, DeliveryRest
  <1>16. SyncedFits'
    <2>1. \A j \in Ids : Same(j) /\ tasks'[j].pc # "written"
      BY <1>2, <1>3 DEF Same
    <2> QED
      BY <1>4, <2>1, DeliveryRest
  <1>17. TriggerFits'
    <2> SUFFICES ASSUME NEW d \in ToSet(pendingChanges'), ~timer
                 PROVE  \E n \in 1..Len(lockQueue) :
                          /\ lockQueue[n] = Delayer /\ n # 1
                          /\ \A k \in 1..Len(lockQueue) :
                               (/\ lockQueue[k] # Delayer
                                /\ tasks[lockQueue[k]].kind = "open"
                                /\ tasks[lockQueue[k]].doc = d) => k < n
      BY <1>2 DEF TriggerFits
    <2>1. d \in ToSet(pendingChanges) /\ (locked \/ d \in inFlightOpens)
      BY DEF DeliveryFits
    <2> QED
      BY <1>2, <1>3, <2>1, DelayerBehind
  <1>18. PresenceFits(end)'
    BY <1>2, <1>4, <1>9 DEF InvWith, PresenceFits, Kinds
  <1>19. IncrementalFits(end)'
    BY <1>4 DEF IncrementalFits
  <1>20. PendingFits(end)'
    <2>1. ClosesLast' /\ KeptBack'
      BY <1>2, <1>3, <1>4, KeptBackKept DEF PendingFits, ClosesLast, Kinds, Same, Early, DeliveryFits
    <2>2. open \subseteq Docs
      BY DEF InvWith, Places, RestFits
    <2>3. /\ ToSet(pendingChanges') \subseteq ToSet(pendingChanges)
          /\ ToSet(pendingChanges) \cap inFlightOpens \subseteq ToSet(pendingChanges')
          /\ ToSet(pendingChanges) \subseteq ToSet(pendingChanges') \cup {c} \cup ToSet(flushing')
          /\ ToSet(flushing) \subseteq {c} \cup ToSet(flushing')
          /\ locked \/ ToSet(pendingChanges') \subseteq inFlightOpens
      BY <1>11 DEF DeliveryFits
    <2>4. TextSentOrPending(end)'
      BY <1>2, <1>3, <1>4, <1>9, <2>2, <2>3 DEF PendingFits, TextSentOrPending, Kinds
    <2>5. ChangesHaveDocument(end)'
      <3>1. \A d \in ToSet(pendingChanges') : end[d] # Absent \/ UnsentOf("open", d)'
        BY <1>3, <1>4, <1>9, <2>3 DEF PendingFits, ChangesHaveDocument, Kinds
      <3>2. \A d \in ToSet(flushing') : end[d] # Absent
        BY <1>3, <1>9, <1>11
      <3> QED
        BY <3>1, <3>2 DEF ChangesHaveDocument
    <2>6. ASSUME NEW j \in Ids, Unsent(j) PROVE CallFits(j, end)'
      <3>1. PICK d \in Docs : d = tasks[j].doc
        BY <1>3 DEF TasksFit, Task
      <3>2. CallFits(j, held) /\ tasks[j].text \in Nat /\ text[d] \in Nat
        BY <1>3, <1>5, <2>6, TextsAreNumbers DEF PendingFits, TasksFit, Task
      <3>3. UnsentOf("open", d)' <=> d \in inFlightOpens
        BY <1>3, <1>4 DEF Kinds
      <3>4. tasks[j].kind = "open" => d \in inFlightOpens
        BY <1>3, <2>6, <3>1 DEF UnsentOf
      <3>5. ASSUME tasks[j].kind = "close", j = lockQueue[1] PROVE d \notin ToSet(pendingChanges')
        <4>1. CASE locked
          BY <1>4, <2>3, <3>1, <3>2, <3>5, <4>1 DEF CallFits
        <4>2. CASE ~locked
          BY <1>2, <1>3, <2>3, <3>1, <3>5, <4>2, HeldBackInLine
        <4> QED
          BY <4>1, <4>2
      <3>6. ASSUME tasks[j].kind = "request"
            PROVE  /\ tasks[j].text <= text[d]
                   /\ \/ d \in inFlightOpens
                      \/ end[d] >= tasks[j].text
                      \/ d \in ToSet(flushing')
                      \/ d \in ToSet(pendingChanges') /\ j # lockQueue[1]
        BY <1>3, <1>4, <1>9, <2>3, <3>1, <3>2, <3>6 DEF CallFits
      <3>7. tasks[j].kind = "open" => tasks[j].text = text[d] \/ d \in ToSet(pendingChanges')
        BY <2>3, <3>1, <3>2, <3>4 DEF CallFits
      <3>8. tasks[j].pc \notin Early
        BY <1>3 DEF Early
      <3> QED
        BY <1>2, <1>4, <3>1, <3>3, <3>5, <3>6, <3>7, <3>8 DEF CallFits
    <2> QED
      BY <1>4, <2>1, <2>4, <2>5, <2>6 DEF PendingFits
  <1>21. end \in Held'
    BY <1>2, ConfigKept
  <1> QED
    BY <1>10, <1>12, <1>13, <1>14, <1>15, <1>16, <1>17, <1>18, <1>19, <1>20, <1>21
       DEF InvWith, Places

\* The holder has nothing left to send and hands on the lock; if it is a call,
\* its message is next.
LEMMA ReleaseStep ==
  ASSUME NEW held \in Held, InvWith(held), NEW outbox, DeliveryFits(held, <<>>, outbox),
         FlushOrRelease(Head(lockQueue), <<>>, outbox)
  PROVE  InvWith(held)'
  <1>1. /\ writing' = outbox /\ flushing' = <<>> /\ locked' = FALSE
        /\ lockQueue' = Tail(lockQueue) /\ Idle /\ lockQueue # <<>>
        /\ UNCHANGED <<config, registered, open, visible, text, pendingOpens, inFlightOpens,
                       synced, timer>>
        /\ IF Head(lockQueue) = Delayer THEN UNCHANGED <<tasks, ready>>
           ELSE /\ tasks' = [tasks EXCEPT ![Head(lockQueue)].pc = "send"]
                /\ ready' = <<Head(lockQueue)>>
    BY DEF FlushOrRelease, DeliveryFits
  <1>2. /\ Full /\ registered /\ config \in Configs
        /\ TasksFit /\ ReadyFits /\ LockFits /\ PendingFits(held)
        /\ \A j \in Ids : tasks[j].pc \in {"locking", "writing"} /\ j # Delayer
        /\ ToSet(pendingChanges) \subseteq Docs
        /\ \A d \in Docs : d \in inFlightOpens <=> UnsentOf("open", d)
    BY DeliveryRest
  <1> DEFINE l == Len(lockQueue')
  <1>3. /\ lockQueue \in Seq(Ids \cup {Delayer}) /\ Head(lockQueue) = lockQueue[1]
        /\ lockQueue' \in Seq(Ids \cup {Delayer}) /\ l \in Nat /\ Len(lockQueue) = l + 1
        /\ \A n \in 1..l : lockQueue'[n] = lockQueue[n + 1]
        /\ lockQueue[1] \in Ids \cup {Delayer} /\ 1 \in 1..Len(lockQueue)
    <2>1. lockQueue \in Seq(Ids \cup {Delayer})
      BY <1>2 DEF LockFits
    <2> QED
      BY <1>1, <2>1, TailElements
  <1>4. PICK h \in Ids \cup {Delayer} : h = lockQueue[1] /\ h = Head(lockQueue)
    BY <1>3
  <1>5. h # Delayer => h \in Ids /\ tasks[h].pc = "locking"
    BY <1>2, <1>3, <1>4, TasksInLine
  <1>6. /\ TasksFit' /\ Ids' = Ids
        /\ \A j \in Ids : Same(j) /\ tasks'[j].pc = IF j = h THEN "send" ELSE tasks[j].pc
    <2>1. CASE h = Delayer
      <3>1. tasks' = tasks
        BY <1>1, <1>4, <2>1
      <3>2. TasksFit' /\ Ids' = Ids
        BY <1>1, <1>2, <3>1, ConfigKept DEF TasksFit, Ids
      <3>3. \A j \in Ids : Same(j) /\ tasks'[j].pc = IF j = h THEN "send" ELSE tasks[j].pc
        BY <1>2, <2>1, <3>1 DEF Same
      <3> QED
        BY <3>2, <3>3
    <2>2. CASE h # Delayer
      <3>1. tasks' = [tasks EXCEPT ![h].pc = "send"] /\ h \in Ids /\ "send" \in PCs
        BY <1>1, <1>4, <1>5, <2>2 DEF PCs
      <3> QED
        BY <1>1, <1>2, <3>1, TaskMoves
    <2> QED
      BY <2>1, <2>2
  <1>7. /\ \A n \in 1..l : n + 1 \in 1..Len(lockQueue) /\ n + 1 # 1 /\ n \in Nat
        /\ \A n \in 1..Len(lockQueue) : n = 1 \/ \E k \in 1..l : k + 1 = n
    <2>1. \A n \in 1..l : n + 1 \in 1..Len(lockQueue) /\ n + 1 # 1 /\ n \in Nat
      BY <1>3
    <2>2. ASSUME NEW n \in 1..Len(lockQueue), n # 1 PROVE \E k \in 1..l : k + 1 = n
      <3>1. n - 1 \in 1..l /\ (n - 1) + 1 = n
        BY <1>3, <2>2
      <3> QED
        BY <3>1
    <2> QED
      BY <2>1, <2>2
  <1> HIDE DEF l
  <1>8. \A j \in Ids : (Unsent(j)' <=> Unsent(j)) /\ (Holder(j)' <=> j = h)
                       /\ (Holder(j) <=> locked /\ j = h)
    BY <1>1, <1>2, <1>4, <1>5, <1>6 DEF Unsent, Holder
  <1>9. \A kind \in Kinds, d \in Docs : UnsentOf(kind, d)' <=> UnsentOf(kind, d)
    BY <1>6, <1>8, UnsentKept
  <1>10. ReadyFits'
    <2>1. CASE h = Delayer
      BY <1>1, <1>2, <1>4, <1>6, <2>1 DEF ReadyFits
    <2>2. CASE h # Delayer
      <3>1. ready' = <<h>> /\ h \in Ids
        BY <1>1, <1>4, <1>5, <2>2
      <3>2. ready' \in Seq(Ids') /\ ToSet(ready') = {h} /\ IsInjective(ready')
        BY <1>6, <3>1 DEF ToSet, IsInjective
      <3> QED
        BY <1>2, <1>6, <3>2 DEF ReadyFits, Early
    <2> QED
      BY <2>1, <2>2
  <1>11. LockFits'
    <2>1. \A m, n \in 1..l : lockQueue'[m] = lockQueue'[n] /\ lockQueue'[m] # Delayer => m = n
      <3> TAKE m, n \in 1..l
      <3>1. /\ m + 1 = n + 1 => m = n
            /\ m + 1 \in 1..Len(lockQueue) /\ n + 1 \in 1..Len(lockQueue)
            /\ lockQueue'[m] = lockQueue[m + 1] /\ lockQueue'[n] = lockQueue[n + 1]
        BY <1>3, <1>7
      <3>2. lockQueue[m + 1] = lockQueue[n + 1] /\ lockQueue[m + 1] # Delayer => m + 1 = n + 1
        BY <1>2, <3>1 DEF LockFits
      <3> QED
        BY <3>1, <3>2
    <2>2. \A n \in 1..l : lockQueue'[n] # Delayer => lockQueue'[n] # h
      BY <1>2, <1>3, <1>4, <1>7 DEF LockFits
    <2>3. \A j \in Ids : j \in ToSet(lockQueue') <=> j # h /\ j \in ToSet(lockQueue)
      <3>1. ToSet(lockQueue) = {h} \cup ToSet(lockQueue')
        BY <1>1, <1>3, <1>4, ToSetElements
      <3>2. h # Delayer => h \notin ToSet(lockQueue')
        BY <1>3, <2>2 DEF ToSet, l
      <3> QED
        BY <1>2, <3>1, <3>2
    <2>4. \A j \in Ids : tasks'[j].pc = "locking" <=> j \in ToSet(lockQueue')
      BY <1>2, <1>6, <2>3 DEF LockFits
    <2> QED
      <3>1. flushing' \in Seq(Docs) /\ ~locked' /\ locked' \in BOOLEAN
        <4>1. <<>> \in Seq(Docs)
          OBVIOUS
        <4> QED
          BY <1>1, <4>1
      <3>2. lockQueue' \in Seq(Ids' \cup {Delayer})
        BY <1>3, <1>6
      <3> QED
        BY <1>1, <1>6, <2>1, <2>4, <3>1, <3>2 DEF LockFits, l
  <1>12. WritingFits'
    <2>1. OutboxFits(outbox)
      BY DEF DeliveryFits
    <2>2. \A n \in 1..Len(outbox) : outbox[n].task # h
      BY <1>5, <2>1 DEF OutboxFits
    <2> QED
      BY <1>1, <1>6, <2>1, <2>2, ConfigKept DEF WritingFits, OutboxFits, Same
  <1>13. RestFits'
    BY <1>6, DeliveryRest
  <1>14. SyncedFits'
    <2>1. \A j \in Ids : Same(j) /\ tasks'[j].pc # "written"
      BY <1>2, <1>6
    <2> QED
      BY <1>6, <2>1, DeliveryRest
  <1>15. \A n \in 1..Len(lockQueue) : lockQueue[n] # Delayer => lockQueue[n] \in Ids /\ Same(lockQueue[n])
    BY <1>2, <1>6, TasksInLine
  <1>16. OrderFits'
    <2>1. \A m, n \in 1..l :
            (/\ m # n /\ lockQueue'[m] # Delayer /\ lockQueue'[n] # Delayer
             /\ tasks'[lockQueue'[m]].doc = tasks'[lockQueue'[n]].doc)
              => /\ tasks'[lockQueue'[m]].kind = "open" => m < n
                 /\ tasks'[lockQueue'[n]].kind = "close" => m < n
      <3> SUFFICES ASSUME NEW m \in 1..l, NEW n \in 1..l,
                          m # n, lockQueue'[m] # Delayer, lockQueue'[n] # Delayer,
                          tasks'[lockQueue'[m]].doc = tasks'[lockQueue'[n]].doc
                   PROVE  /\ tasks'[lockQueue'[m]].kind = "open" => m < n
                          /\ tasks'[lockQueue'[n]].kind = "close" => m < n
        OBVIOUS
      <3>1. /\ m + 1 # n + 1 /\ (m + 1 < n + 1 => m < n)
            /\ lockQueue'[m] = lockQueue[m + 1] /\ lockQueue'[n] = lockQueue[n + 1]
            /\ m + 1 \in 1..Len(lockQueue) /\ n + 1 \in 1..Len(lockQueue)
        BY <1>3, <1>7
      <3>2. Same(lockQueue[m + 1]) /\ Same(lockQueue[n + 1])
        BY <1>15, <3>1
      <3>3. /\ tasks[lockQueue[m + 1]].doc = tasks[lockQueue[n + 1]].doc
            /\ tasks'[lockQueue'[m]].kind = tasks[lockQueue[m + 1]].kind
            /\ tasks'[lockQueue'[n]].kind = tasks[lockQueue[n + 1]].kind
        BY <3>1, <3>2 DEF Same
      <3> QED
        BY <3>1, <3>3 DEF InvWith, OrderFits
    <2>2. ASSUME NEW k \in Ids, k # h, h # Delayer, tasks[k].pc = "locking",
                 tasks[k].doc = tasks[h].doc
          PROVE  tasks[h].kind # "close" /\ tasks[k].kind # "open"
      <3>1. k \in ToSet(lockQueue)
        BY <1>2, <2>2 DEF LockFits
      <3>2. PICK m \in 1..Len(lockQueue) : lockQueue[m] = k
        BY <3>1 DEF ToSet
      <3>3. m # 1 /\ ~(m < 1) /\ k # Delayer
        BY <1>2, <1>3, <1>4, <2>2, <3>2
      <3> QED
        BY <1>3, <1>4, <2>2, <3>2, <3>3 DEF InvWith, OrderFits
    <2>3. \A j \in Ids : tasks'[j].pc \notin Early
      BY <1>2, <1>6 DEF Early
    <2>4. ASSUME NEW j \in Ids, NEW k \in Ids, j # k, tasks'[j].doc = tasks'[k].doc,
                 tasks'[j].pc = "send", tasks'[k].pc = "locking"
          PROVE  tasks'[j].kind # "close" /\ tasks'[k].kind # "open"
      <3>1. j = h /\ j # Delayer /\ k # h /\ tasks[k].pc = "locking"
        BY <1>2, <1>6, <2>4
      <3>2. tasks[k].doc = tasks[h].doc
        BY <1>6, <2>4, <3>1 DEF Same
      <3> QED
        BY <1>6, <2>2, <3>1, <3>2 DEF Same
    <2> QED
      BY <1>6, <2>1, <2>3, <2>4 DEF OrderFits, l
  <1>17. TriggerFits'
    <2> SUFFICES ASSUME NEW d \in ToSet(pendingChanges'), ~timer
                 PROVE  \E n \in 1..l :
                          /\ lockQueue'[n] = Delayer
                          /\ \A m \in 1..l :
                               (/\ lockQueue'[m] # Delayer
                                /\ tasks'[lockQueue'[m]].kind = "open"
                                /\ tasks'[lockQueue'[m]].doc = d) => m < n
      BY <1>1 DEF TriggerFits, l
    <2>1. d \in ToSet(pendingChanges) /\ (locked \/ d \in inFlightOpens)
      BY DEF DeliveryFits
    <2>2. PICK k \in 1..Len(lockQueue) :
            /\ lockQueue[k] = Delayer /\ k # 1
            /\ \A m \in 1..Len(lockQueue) :
                 (/\ lockQueue[m] # Delayer
                  /\ tasks[lockQueue[m]].kind = "open" /\ tasks[lockQueue[m]].doc = d) => m < k
      BY <1>1, <1>2, <2>1, DelayerBehind
    <2>3. PICK n \in 1..l : n + 1 = k
      BY <1>7, <2>2
    <2>4. ASSUME NEW m \in 1..l, lockQueue'[m] # Delayer, tasks'[lockQueue'[m]].kind = "open",
                 tasks'[lockQueue'[m]].doc = d
          PROVE  m < n
      <3>1. lockQueue'[m] = lockQueue[m + 1] /\ m + 1 \in 1..Len(lockQueue) /\ (m + 1 < n + 1 => m < n)
        BY <1>3, <1>7
      <3>2. Same(lockQueue[m + 1])
        BY <1>15, <2>4, <3>1
      <3> QED
        BY <2>2, <2>3, <2>4, <3>1, <3>2 DEF Same
    <2>5. lockQueue'[n] = Delayer
      BY <1>3, <2>2, <2>3
    <2> QED
      BY <2>4, <2>5
  <1>18. Leads(server, writing, held)' /\ held \in Held'
    <2>1. Leads(server', writing', held)
      BY <1>1 DEF DeliveryFits
    <2> QED
      BY <1>1, <2>1, ConfigKept
  <1>19. PresenceFits(held)'
    BY <1>1, <1>9 DEF InvWith, PresenceFits, Kinds
  <1>20. IncrementalFits(held)'
    BY <1>1, <1>2, ConfigKept DEF IncrementalFits
  <1>21. PendingFits(held)'
    <2>1. ClosesLast'
      BY <1>1, <1>2, <1>6, <1>8 DEF PendingFits, ClosesLast, Same
    <2>2. KeptBack'
      BY <1>1, <1>2, <1>6, <1>8, <1>9, KeptBackKept DEF PendingFits, Kinds, Early, DeliveryFits
    <2>3. open \subseteq Docs
      BY DEF InvWith, Places, RestFits
    <2>4. /\ ToSet(pendingChanges') = ToSet(pendingChanges)
          /\ ToSet(flushing) = {} /\ ToSet(flushing') = {}
          /\ locked \/ ToSet(pendingChanges) \subseteq inFlightOpens
      <3>1. ToSet(<<>>) = {}
        BY DEF ToSet
      <3>2. ToSet(flushing) \subseteq ToSet(<<>>)
        BY DEF DeliveryFits
      <3>3. ToSet(pendingChanges) \subseteq ToSet(pendingChanges') \cup ToSet(<<>>)
        BY DEF DeliveryFits
      <3>4. /\ ToSet(pendingChanges') \subseteq ToSet(pendingChanges)
            /\ locked \/ ToSet(pendingChanges') \subseteq inFlightOpens
        BY DEF DeliveryFits
      <3> QED
        BY <1>1, <3>1, <3>2, <3>3, <3>4
    <2>5. TextSentOrPending(held)' /\ ChangesHaveDocument(held)'
      BY <1>1, <1>2, <1>9, <2>3, <2>4
         DEF PendingFits, TextSentOrPending, ChangesHaveDocument, Kinds
    <2>6. ASSUME NEW j \in Ids, Unsent(j) PROVE CallFits(j, held)'
      <3>1. PICK d \in Docs : d = tasks[j].doc
        BY <1>2 DEF TasksFit, Task
      <3>2. CallFits(j, held)
        BY <1>2, <2>6 DEF PendingFits
      <3>3. UnsentOf("open", d)' <=> d \in inFlightOpens
        BY <1>2, <1>9 DEF Kinds
      <3>4. ASSUME tasks[j].kind = "close", j = h PROVE d \notin ToSet(pendingChanges)
        <4>1. CASE locked
          BY <1>8, <3>1, <3>2, <3>4, <4>1 DEF CallFits
        <4>2. CASE ~locked
          BY <1>1, <1>2, <1>4, <2>4, <3>1, <3>4, <4>2, HeldBackInLine
        <4> QED
          BY <4>1, <4>2
      <3>5. ASSUME tasks[j].kind = "request"
            PROVE  /\ tasks[j].text <= text[d]
                   /\ \/ d \in inFlightOpens
                      \/ held[d] >= tasks[j].text
                      \/ d \in ToSet(pendingChanges) /\ j # h
        BY <1>2, <1>8, <2>4, <3>1, <3>2, <3>5 DEF CallFits
      <3>6. tasks[j].kind = "open" => tasks[j].text = text[d] \/ d \in ToSet(pendingChanges)
        BY <3>1, <3>2 DEF CallFits
      <3>7. tasks'[j].pc \notin Early /\ Same(j)
        BY <1>2, <1>6 DEF Early
      <3> QED
        BY <1>1, <1>8, <2>4, <3>1, <3>3, <3>4, <3>5, <3>6, <3>7 DEF CallFits, Same
    <2> QED
      BY <1>6, <1>8, <2>1, <2>2, <2>5, <2>6 DEF PendingFits
  <1> QED
    BY <1>6, <1>10, <1>11, <1>12, <1>13, <1>14, <1>16, <1>17, <1>18, <1>19, <1>20, <1>21
       DEF InvWith, Places

\* The thunk takes the pending changes, but for those that are kept back.
LEMMA TakeStep ==
  ASSUME NEW held \in Held, InvWith(held), TakeChanges
  PROVE  \E end \in Held : InvWith(end)'
  <1>1. /\ Idle /\ lockQueue # <<>> /\ ~locked /\ flushing = <<>>
        /\ UNCHANGED <<config, registered, open, visible, text, pendingOpens, inFlightOpens,
                       synced, timer, server>>
        /\ pendingChanges' = Among(pendingChanges, inFlightOpens)
        /\ FlushOrRelease(Head(lockQueue), Sendable, writing)
    BY DEF TakeChanges, Excluded, editor, InvWith, Places, LockFits
  <1>2. /\ pendingChanges \in Seq(Docs) /\ IsInjective(pendingChanges)
        /\ ToSet(pendingChanges) \subseteq Docs
    BY ToSetElements DEF InvWith, Places, RestFits
  <1>3. /\ pendingChanges' \in Seq(Docs) /\ IsInjective(pendingChanges')
        /\ ToSet(pendingChanges') = ToSet(pendingChanges) \cap inFlightOpens
    BY <1>1, <1>2, AmongElements
  <1>4. /\ Sendable \in Seq(Docs)
        /\ ToSet(Sendable) = ToSet(pendingChanges) \cap (Docs \ inFlightOpens)
    BY <1>2, AmongElements DEF Sendable
  <1>5. PICK changes \in Seq(Docs) : changes = Sendable
    BY <1>4
  <1>6. ToSet(flushing) = {}
    BY <1>1 DEF ToSet
  <1>7. /\ server' \in Held /\ OutboxFits(writing) /\ Leads(server', writing, held)
    BY <1>1, OutboxFree DEF InvWith, Places, RestFits
  <1>8. DeliveryFits(held, changes, writing)
    BY <1>1, <1>2, <1>3, <1>4, <1>5, <1>6, <1>7 DEF DeliveryFits
  <1>9. CASE changes = <<>>
    BY <1>1, <1>5, <1>8, <1>9, ReleaseStep
  <1>10. CASE changes # <<>>
    BY <1>1, <1>5, <1>8, <1>10, FlushStep
  <1> QED
    BY <1>9, <1>10

\* A message arrives, and fits what the server holds; its sender goes on.
LEMMA WrittenStep ==
  ASSUME NEW held \in Held, InvWith(held), Written
  PROVE  \E end \in Held : InvWith(end)'
  <1>0. PICK m \in Message : m = Head(writing)
    BY OutboxFree DEF Written, InvWith, Places
  <1>1. /\ Idle /\ writing # <<>> /\ ServerHandles(m)
        /\ UNCHANGED <<config, registered, open, visible, text, pendingOpens, pendingChanges,
                       inFlightOpens, synced, timer>>
        /\ IF m.task = Delayer
           THEN FlushOrRelease(Head(lockQueue), flushing, Tail(writing))
           ELSE /\ writing' = Tail(writing)
                /\ tasks' = [tasks EXCEPT ![m.task].pc = "written"]
                /\ ready' = <<m.task>>
                /\ UNCHANGED <<lockQueue, locked, flushing>>
    BY <1>0 DEF Written, editor
  <1>2. /\ config \in Configs /\ server \in Held /\ TasksFit /\ ReadyFits /\ LockFits
        /\ WritingFits /\ writing \in Seq(Message) /\ Leads(server, writing, held)
    BY DEF InvWith, Places, RestFits, WritingFits
  <1>3. /\ Fits(server, m) /\ After(server, m) \in Held
        /\ Leads(After(server, m), Tail(writing), held)
    BY <1>0, <1>1, <1>2, LeadsTail
  <1>4. server' = After(server, m)
    BY <1>1 DEF ServerHandles, After, OnDidOpen, OnDidChange, OnDidClose
  <1>5. /\ m.kind \in Kinds /\ m.doc \in Docs
        /\ writing[1] = m /\ 1 \in 1..Len(writing) /\ Tail(writing) \in Seq(Message)
    BY <1>0, <1>1, <1>2, TailElements DEF Message
  <1>6. /\ \A c \in Docs : c # m.doc => server'[c] = server[c]
        /\ m.kind = "open" => server'[m.doc] # Absent
        /\ m.kind = "close" => server'[m.doc] = Absent
        /\ m.kind = "change" => server'[m.doc] # Absent /\ server[m.doc] # Absent
        /\ m.kind = "request" => server' = server
    BY <1>2, <1>3, <1>4, AfterHolds
  <1>7. ASSUME m.task = Delayer PROVE \E end \in Held : InvWith(end)'
    <2>1. locked /\ m.kind = "change"
      BY <1>2, <1>5, <1>7 DEF WritingFits
    <2>2. lockQueue # <<>> /\ flushing \in Seq(Docs)
      BY <1>2, <2>1 DEF LockFits
    <2>3. OutboxFits(Tail(writing))
      BY <1>0, <1>1, <1>2, <1>7, OutboxFree
    <2>4. /\ pendingChanges' \in Seq(Docs) /\ IsInjective(pendingChanges')
      BY <1>1 DEF InvWith, Places, RestFits
    <2>5. \A c \in Docs : server'[c] # Absent <=> server[c] # Absent
      BY <1>6, <2>1
    <2>6. server' \in Held /\ Leads(server', Tail(writing), held)
      BY <1>3, <1>4
    <2>7. DeliveryFits(held, flushing, Tail(writing))
      BY <1>1, <2>1, <2>2, <2>3, <2>4, <2>5, <2>6 DEF DeliveryFits
    <2>8. FlushOrRelease(Head(lockQueue), flushing, Tail(writing))
      BY <1>1, <1>7
    <2>9. CASE flushing = <<>>
      BY <2>7, <2>8, <2>9, ReleaseStep
    <2>10. CASE flushing # <<>>
      BY <2>7, <2>8, <2>10, FlushStep
    <2> QED
      BY <2>9, <2>10
  <1>8. ASSUME m.task # Delayer PROVE InvWith(held)'
    <2>0. PICK i \in Ids : i = m.task
      BY <1>2, <1>5, <1>8 DEF WritingFits
    <2>1. /\ tasks[i].pc = "writing" /\ tasks[i].kind = m.kind /\ tasks[i].doc = m.doc
          /\ writing' = Tail(writing) /\ ready' = <<i>>
          /\ tasks' = [tasks EXCEPT ![i].pc = "written"]
          /\ UNCHANGED <<lockQueue, locked, flushing>>
      BY <1>1, <1>2, <1>5, <1>8, <2>0 DEF WritingFits
    <2>2. /\ TasksFit' /\ Ids' = Ids
          /\ \A j \in Ids : Same(j) /\ tasks'[j].pc = IF j = i THEN "written" ELSE tasks[j].pc
      <3>1. "written" \in PCs /\ UNCHANGED config
        BY <1>1 DEF PCs
      <3> QED
        BY <1>2, <2>1, <3>1, TaskMoves
    <2>3. \A j \in Ids : /\ tasks[j].pc \in {"locking", "writing"}
                         /\ tasks[j].pc \notin Early /\ tasks'[j].pc \notin Early
                         /\ tasks'[j].pc = "locking" <=> tasks[j].pc = "locking"
                         /\ tasks'[j].pc # "send"
      BY <1>1, <2>1, <2>2, WhenIdle DEF Early
    <2>4. \A j \in Ids : (Unsent(j)' <=> Unsent(j)) /\ (Holder(j)' <=> Holder(j))
      BY <2>1, <2>2, <2>3 DEF Unsent, Holder
    <2>5. \A kind \in Kinds, d \in Docs : UnsentOf(kind, d)' <=> UnsentOf(kind, d)
      BY <2>2, <2>4, UnsentKept
    <2>6. ReadyFits'
      <3>1. ready' \in Seq(Ids') /\ IsInjective(ready') /\ ToSet(ready') = {i}
        BY <2>1, <2>2 DEF IsInjective, ToSet
      <3> QED
        BY <2>2, <2>3, <3>1 DEF ReadyFits
    <2>7. LockFits'
      BY <1>2, <2>1, <2>2, <2>3 DEF LockFits
    <2>8. WritingFits'
      <3> DEFINE l == Len(Tail(writing))
      <3>1. /\ \A n \in 1..l : Tail(writing)[n].task # i
            /\ \A k, n \in 1..l : Tail(writing)[k].task = Tail(writing)[n].task => k = n
        BY <1>0, <1>1, <1>2, <2>0, OutboxFree
      <3>2. \A n \in 1..l : Tail(writing)[n] = writing[n + 1] /\ n + 1 \in 1..Len(writing)
        <4>1. /\ Len(writing) \in Nat \ {0} /\ l = Len(writing) - 1
              /\ \A n \in 1..l : Tail(writing)[n] = writing[n + 1]
          BY <1>1, <1>2, TailElements
        <4> QED
          BY <4>1
      <3> HIDE DEF l
      <3>3. ASSUME NEW n \in 1..l
            PROVE  IF writing'[n].task = Delayer
                   THEN locked' /\ writing'[n].kind = "change" /\ Full
                   ELSE /\ writing'[n].task \in Ids /\ tasks'[writing'[n].task].pc = "writing"
                        /\ writing'[n].kind = tasks'[writing'[n].task].kind
                        /\ writing'[n].doc = tasks'[writing'[n].task].doc
        BY <1>2, <2>1, <2>2, <3>1, <3>2 DEF WritingFits, Same
      <3> QED
        BY <1>1, <1>5, <2>1, <2>2, <3>1, <3>3, ConfigKept DEF WritingFits, l
    <2>9. RestFits'
      <3>1. registered
        BY <2>0 DEF InvWith, Places, RestFits
      <3> QED
        BY <1>1, <1>3, <1>4, <2>1, <3>1, ConfigKept DEF InvWith, Places, RestFits
    <2>10. \A n \in 1..Len(lockQueue) : lockQueue[n] # Delayer
             => lockQueue[n] \in Ids /\ Same(lockQueue[n])
      BY <1>2, <2>2, TasksInLine
    <2>11. OrderFits'
      <3>1. \A k, n \in 1..Len(lockQueue') :
              (/\ k # n /\ lockQueue'[k] # Delayer /\ lockQueue'[n] # Delayer
               /\ tasks'[lockQueue'[k]].doc = tasks'[lockQueue'[n]].doc)
                => /\ tasks'[lockQueue'[k]].kind = "open" => k < n
                   /\ tasks'[lockQueue'[n]].kind = "close" => k < n
        BY <2>1, <2>10 DEF InvWith, OrderFits, Same
      <3> QED
        BY <2>2, <2>3, <3>1 DEF OrderFits
    <2>12. TriggerFits'
      BY <1>1, <2>1, <2>10 DEF InvWith, TriggerFits, Same
    <2>13. SyncedFits'
      <3>1. SyncedFits /\ \A j \in Ids : tasks[j].pc # "written"
        BY <2>3 DEF InvWith
      <3>2. \A j \in Ids : tasks'[j].pc = "written" => j = i
        BY <2>2, <2>3
      <3>3. ASSUME NEW c \in Docs
            PROVE  \/ c \in synced <=> server'[c] # Absent
                   \/ \E j \in Ids : tasks'[j].pc = "written" /\ tasks'[j].doc = c
                                     /\ tasks'[j].kind \in {"open", "close"}
                   \/ c \in synced /\ \E j \in Ids : tasks'[j].kind = "open" /\ tasks'[j].doc = c
        <4>1. CASE c = m.doc /\ m.kind \in {"open", "close"}
          BY <2>1, <2>2, <4>1 DEF Same
        <4>2. CASE ~(c = m.doc /\ m.kind \in {"open", "close"})
          <5>1. server'[c] # Absent <=> server[c] # Absent
            BY <1>5, <1>6, <4>2 DEF Kinds
          <5> QED
            BY <2>2, <3>1, <5>1 DEF SyncedFits, Same
        <4> QED
          BY <4>1, <4>2
      <3>4. /\ tasks'[i].kind = "open" => server'[tasks'[i].doc] # Absent
            /\ tasks'[i].kind = "close" => server'[tasks'[i].doc] = Absent
        BY <1>6, <2>1, <2>2 DEF Same
      <3> QED
        BY <1>1, <2>2, <3>2, <3>3, <3>4 DEF SyncedFits
    <2>14. Leads(server, writing, held)' /\ held \in Held'
      BY <1>1, <1>3, <1>4, <2>1, ConfigKept
    <2>15. PresenceFits(held)'
      BY <1>1, <2>5 DEF InvWith, PresenceFits, Kinds
    <2>16. IncrementalFits(held)'
      BY <1>1, <2>2, <2>3, ConfigKept DEF InvWith, IncrementalFits
    <2>17. PendingFits(held)'
      <3> SUFFICES ASSUME Full
                   PROVE  /\ ClosesLast' /\ KeptBack'
                          /\ TextSentOrPending(held)' /\ ChangesHaveDocument(held)'
                          /\ \A j \in Ids : Unsent(j) => CallFits(j, held)'
        BY <1>1, <2>2, <2>4, ConfigKept DEF PendingFits
      <3>1. PendingFits(held) /\ Full
        BY DEF InvWith
      <3>2. ClosesLast'
        BY <1>1, <2>2, <2>4, <3>1 DEF PendingFits, ClosesLast, Same
      <3>3. KeptBack'
        BY <1>1, <2>1, <2>2, <2>3, <2>4, <2>5, <3>1, KeptBackKept DEF PendingFits, Kinds
      <3>4. TextSentOrPending(held)' /\ ChangesHaveDocument(held)'
        <4>1. /\ open \subseteq Docs /\ ToSet(pendingChanges) \subseteq Docs
              /\ \A d \in Docs : UnsentOf("open", d)' <=> UnsentOf("open", d)
          BY <2>5, ToSetElements DEF InvWith, Places, RestFits, Kinds
        <4> QED
          BY <1>1, <2>1, <3>1, <4>1 DEF PendingFits, TextSentOrPending, ChangesHaveDocument
      <3>5. ASSUME NEW j \in Ids, Unsent(j) PROVE CallFits(j, held)'
        <4>1. CallFits(j, held) /\ tasks[j].doc \in Docs
          BY <1>2, <3>1, <3>5 DEF PendingFits, TasksFit, Task
        <4> QED
          BY <1>1, <2>1, <2>2, <2>3, <2>4, <2>5, <4>1 DEF CallFits, Kinds, Same
      <3> QED
        BY <3>2, <3>3, <3>4, <3>5
    <2> QED
      BY <2>2, <2>6, <2>7, <2>8, <2>9, <2>11, <2>12, <2>13, <2>14, <2>15, <2>16, <2>17
         DEF InvWith, Places
  <1> QED
    BY <1>7, <1>8
-----------------------------------------------------------------------------
(* The invariant, and what it means.                                        *)

\* At first there is nothing to send and the server holds nothing.
LEMMA InitPlain == Init /\ Plain => PlainInv
  <1> SUFFICES ASSUME Init, Plain PROVE PlainInv
    OBVIOUS
  <1>1. /\ config \in Configs /\ registered = FALSE /\ open = config.preopened
        /\ visible = config.tabs /\ text = [d \in Docs |-> 0] /\ pendingOpens = <<>>
        /\ pendingChanges = <<>> /\ inFlightOpens = {} /\ synced = {} /\ tasks = <<>>
        /\ ready = <<>> /\ lockQueue = <<>> /\ locked = FALSE /\ flushing = <<>>
        /\ timer = FALSE /\ writing = <<>> /\ server = [d \in Docs |-> Absent]
    BY DEF Init, InitServer
  <1>2. /\ Ids = {} /\ ToSet(ready) = {} /\ ToSet(pendingChanges) = {}
        /\ ToSet(lockQueue) = {} /\ ToSet(flushing) = {}
        /\ Len(lockQueue) = 0 /\ Len(writing) = 0
    BY <1>1 DEF Ids, ToSet
  <1>3. \A kind \in Kinds, d \in Docs : ~UnsentOf(kind, d)
    BY <1>2 DEF UnsentOf
  <1>4. server \in Held /\ text \in [Docs -> Texts] /\ config.preopened \subseteq Docs
    BY <1>1, ConfigAssumption DEF Held, Texts
  <1>5. TasksFit
    BY <1>2, FS_EmptySet DEF TasksFit
  <1>6. ReadyFits
    <2>1. ready \in Seq(Ids) /\ IsInjective(ready)
      BY <1>1 DEF IsInjective
    <2> QED
      BY <1>2, <2>1 DEF ReadyFits
  <1>7. LockFits
    <2>1. lockQueue \in Seq(Ids \cup {Delayer}) /\ flushing \in Seq(Docs)
      BY <1>1
    <2>2. ~locked /\ locked \in BOOLEAN /\ flushing = <<>>
      BY <1>1
    <2>3. \A m, n \in 1..Len(lockQueue) :
            lockQueue[m] = lockQueue[n] /\ lockQueue[m] # Delayer => m = n
      BY <1>2
    <2> QED
      BY <1>2, <2>1, <2>2, <2>3 DEF LockFits
  <1>8. WritingFits
    <2>1. writing \in Seq(Message)
      BY <1>1
    <2> QED
      BY <1>2, <2>1 DEF WritingFits
  <1>9. RestFits
    <2>1. pendingChanges \in Seq(Docs) /\ IsInjective(pendingChanges)
      BY <1>1 DEF IsInjective
    <2> QED
      BY <1>1, <1>2, <1>4, <2>1 DEF RestFits
  <1>10. OrderFits /\ TriggerFits /\ SyncedFits
    BY <1>1, <1>2 DEF OrderFits, TriggerFits, SyncedFits
  <1>11. Leads(server, writing, server)
    BY <1>1, <1>4, LeadsNowhere
  <1>12. PresenceFits(server)
    BY <1>1, <1>3 DEF PresenceFits, Kinds
  <1>13. IncrementalFits(server)
    BY <1>1, <1>2 DEF IncrementalFits
  <1>14. PendingFits(server)
    BY <1>1, <1>2, <1>3
       DEF PendingFits, ClosesLast, KeptBack, Unsent, TextSentOrPending, ChangesHaveDocument, Kinds
  <1>15. InvWith(server)
    BY <1>4, <1>5, <1>6, <1>7, <1>8, <1>9, <1>10, <1>11, <1>12, <1>13, <1>14
       DEF InvWith, Places
  <1> QED
    BY <1>4, <1>15 DEF PlainInv

\* Nothing happens.
LEMMA Stutter ==
  ASSUME NEW held \in Held, InvWith(held), UNCHANGED vars
  PROVE  InvWith(held)'
  <1>1. UNCHANGED <<config, registered, open, visible, text, pendingOpens, pendingChanges,
                    inFlightOpens, synced, tasks, ready, lockQueue, locked, flushing, timer,
                    writing, server>>
    BY DEF vars, editor, semaphore
  <1>2. Ids' = Ids /\ Full' = Full
    BY <1>1 DEF Ids, Full
  <1>3. /\ \A kind \in Kinds, d \in Docs : UnsentOf(kind, d)' <=> UnsentOf(kind, d)
        /\ \A j \in Ids : (Unsent(j)' <=> Unsent(j)) /\ (Holder(j)' <=> Holder(j))
    BY <1>1, <1>2 DEF Unsent, Holder, UnsentOf
  <1>4. TasksFit' /\ ReadyFits' /\ LockFits'
    BY <1>1, <1>2, ConfigKept DEF InvWith, Places, TasksFit, ReadyFits, LockFits
  <1>5. WritingFits' /\ RestFits'
    BY <1>1, <1>2, ConfigKept DEF InvWith, Places, WritingFits, RestFits
  <1>6. OrderFits' /\ TriggerFits' /\ SyncedFits'
    BY <1>1, <1>2 DEF InvWith, OrderFits, TriggerFits, SyncedFits
  <1>7. Leads(server, writing, held)' /\ held \in Held'
    BY <1>1, ConfigKept DEF InvWith
  <1>8. PresenceFits(held)' /\ IncrementalFits(held)'
    BY <1>1, <1>2, <1>3 DEF InvWith, PresenceFits, IncrementalFits, Kinds
  <1>9. PendingFits(held)'
    <2> SUFFICES ASSUME Full
                 PROVE  /\ ClosesLast' /\ KeptBack'
                        /\ TextSentOrPending(held)' /\ ChangesHaveDocument(held)'
                        /\ \A j \in Ids : Unsent(j) => CallFits(j, held)'
      BY <1>2, <1>3 DEF PendingFits
    <2>1. PendingFits(held) /\ Full
      BY DEF InvWith
    <2>2. ClosesLast' /\ KeptBack'
      BY <1>1, <1>2, <1>3, <2>1, KeptBackKept DEF PendingFits, ClosesLast, Kinds, Same
    <2>3. TextSentOrPending(held)' /\ ChangesHaveDocument(held)'
      <3>1. /\ open \subseteq Docs /\ ToSet(pendingChanges) \subseteq Docs
            /\ \A d \in Docs : UnsentOf("open", d)' <=> UnsentOf("open", d)
        BY <1>3, ToSetElements DEF InvWith, Places, RestFits, Kinds
      <3> QED
        BY <1>1, <2>1, <3>1 DEF PendingFits, TextSentOrPending, ChangesHaveDocument
    <2>4. ASSUME NEW j \in Ids, Unsent(j) PROVE CallFits(j, held)'
      <3>1. CallFits(j, held) /\ tasks[j].doc \in Docs
        BY <2>1, <2>4 DEF PendingFits, InvWith, Places, TasksFit, Task
      <3> QED
        BY <1>1, <1>3, <2>4, <3>1 DEF CallFits, Kinds
    <2> QED
      BY <2>2, <2>3, <2>4
  <1> QED
    BY <1>4, <1>5, <1>6, <1>7, <1>8, <1>9 DEF InvWith, Places

\* Every step keeps the invariant.
LEMMA NextPlain ==
  ASSUME IsFiniteSet(Docs), PlainInv, Plain, [Next]_vars
  PROVE  PlainInv'
  <1>1. PICK held \in Held : InvWith(held)
    BY DEF PlainInv
  <1>2. UNCHANGED config => Held' = Held
    BY ConfigKept
  <1>3. ASSUME InvWith(held)', UNCHANGED config PROVE PlainInv'
    <2>1. held \in Held'
      BY <1>2, <1>3
    <2> QED
      BY <1>3, <2>1 DEF PlainInv
  <1>4. ASSUME \E end \in Held : InvWith(end)', UNCHANGED config PROVE PlainInv'
    BY <1>2, <1>4 DEF PlainInv
  <1>5. CASE Register
    <2>1. UNCHANGED config
      BY <1>5 DEF Register
    <2> QED
      BY <1>1, <1>3, <1>5, <2>1, RegisterStep
  <1>6. ASSUME NEW i \in Ids, Step(i) PROVE PlainInv'
    <2>1. tasks[i].rest = <<>>
      BY <1>1 DEF InvWith, Places, TasksFit
    <2>2. CASE Drain(i) \/ Drained(i)
      <3>1. UNCHANGED config
        BY <2>2 DEF Drain, Drained, editor
      <3> QED
        BY <1>1, <1>3, <2>2, <3>1, EarlyStep
    <2>3. CASE DropOpen(i) \/ SendOpen(i)
      BY <2>1, <2>3 DEF DropOpen, SendOpen
    <2>4. CASE Lock(i)
      <3>1. UNCHANGED config
        BY <2>4 DEF Lock, editor
      <3> QED
        BY <1>1, <1>3, <2>4, <3>1, LockStep
    <2>5. CASE Send(i)
      <3>1. UNCHANGED config
        BY <2>5 DEF Send, editor
      <3> QED
        BY <1>1, <1>4, <2>5, <3>1, SendStep
    <2>6. CASE Return(i)
      <3>1. UNCHANGED config
        BY <2>6 DEF Return, editor
      <3> QED
        BY <1>1, <1>3, <2>6, <3>1, ReturnStep
    <2> QED
      BY <1>6, <2>2, <2>3, <2>4, <2>5, <2>6 DEF Step
  <1>7. CASE TakeChanges
    <2>1. UNCHANGED config
      BY <1>7 DEF TakeChanges, editor
    <2> QED
      BY <1>1, <1>4, <1>7, <2>1, TakeStep
  <1>8. CASE Written
    <2>1. UNCHANGED config
      BY <1>8 DEF Written, editor
    <2> QED
      BY <1>1, <1>4, <1>8, <2>1, WrittenStep
  <1>9. CASE TimerFires
    <2>1. UNCHANGED config
      BY <1>9 DEF TimerFires, editor
    <2> QED
      BY <1>1, <1>3, <1>9, <2>1, TimerStep
  <1>10. ASSUME NEW d \in config.docs,
                Open(d) \/ Edit(d) \/ Close(d) \/ Show(d) \/ Hide(d) \/ Request(d)
         PROVE  PlainInv'
    <2>1. UNCHANGED config
      BY <1>10 DEF Open, Edit, Close, Show, Hide, Request, editor
    <2>2. CASE Open(d)
      BY <1>1, <1>3, <2>1, <2>2, OpenStep
    <2>3. CASE Edit(d) /\ Full
      BY <1>1, <1>3, <2>1, <2>3, EditFullStep
    <2>4. CASE Edit(d) /\ ~Full
      BY <1>1, <1>3, <2>1, <2>4, EditIncrementalStep
    <2>5. CASE Close(d)
      BY <1>1, <1>3, <2>1, <2>5, CloseStep
    <2>6. CASE Show(d) \/ Hide(d)
      BY <2>6 DEF Show, Hide, Plain
    <2>7. CASE Request(d)
      BY <1>1, <1>3, <2>1, <2>7, RequestStep
    <2> QED
      BY <1>10, <2>2, <2>3, <2>4, <2>5, <2>6, <2>7
  <1>11. CASE UNCHANGED vars
    <2>1. UNCHANGED config
      BY <1>11 DEF vars, editor
    <2> QED
      BY <1>1, <1>3, <1>11, <2>1, Stutter
  <1> QED
    BY <1>5, <1>6, <1>7, <1>8, <1>9, <1>10, <1>11 DEF Next, System, Editor

\* The configuration is never changed.
LEMMA PlainStays == ASSUME [Next]_vars PROVE Plain' = Plain
  <1>1. UNCHANGED config
    BY DEF Next, System, Editor, Step, Register, Drain, DropOpen, SendOpen, Drained, Lock, Send,
           Return, TakeChanges, Written, TimerFires, Open, Edit, Close, Show, Hide, Request,
           vars, editor
  <1> QED
    BY <1>1, ConfigKept

\* The invariant holds in every state of every behaviour of a plain
\* configuration.
LEMMA PlainInvariant == IsFiniteSet(Docs) => (Spec => [](Plain => PlainInv))
  <1> SUFFICES ASSUME IsFiniteSet(Docs) PROVE Spec => [](Plain => PlainInv)
    OBVIOUS
  <1>1. Init => (Plain => PlainInv)
    BY InitPlain
  <1>2. (Plain => PlainInv) /\ [Next]_vars => (Plain => PlainInv)'
    BY NextPlain, PlainStays
  <1> QED
    BY <1>1, <1>2, PTL DEF Spec

\* The next message fits what the server holds.
LEMMA NextFits ==
  ASSUME PlainInv, writing # <<>>
  PROVE  Fits(server, Head(writing)) /\ Head(writing) \in Message /\ server \in Held
  <1>1. PICK held \in Held : InvWith(held)
    BY DEF PlainInv
  <1>2. /\ config \in Configs /\ server \in Held /\ writing \in Seq(Message)
        /\ Leads(server, writing, held)
    BY <1>1 DEF InvWith, Places, RestFits, WritingFits
  <1>3. Head(writing) \in Message
    BY <1>2, TailElements
  <1> QED
    BY <1>2, <1>3, LeadsTail

\* Every notification fits what the server holds when it arrives: opens and
\* closes alternate, changes come for open documents, and an incremental
\* change meets the text it was computed for (textSynchronization.ts,
\* sendNotification of client.ts, textDocuments.ts), for any number of
\* documents, events and calls under way.
THEOREM NotificationsFitHolds ==
  IsFiniteSet(Docs) => (Spec => [](Plain => NotificationsFit))
  <1> SUFFICES ASSUME IsFiniteSet(Docs) PROVE Spec => [](Plain => NotificationsFit)
    OBVIOUS
  <1>1. ASSUME PlainInv, Plain PROVE NotificationsFit
    <2>1. PICK held \in Held : InvWith(held)
      BY <1>1 DEF PlainInv
    <2>2. TasksFit /\ ReadyFits /\ LockFits /\ WritingFits /\ RestFits
      BY <2>1 DEF InvWith, Places
    <2>3. TypeOK
      <3>1. /\ config \in Configs /\ registered \in BOOLEAN /\ open \subseteq Docs
            /\ visible \subseteq Docs /\ text \in [Docs -> Texts]
            /\ pendingOpens \in Seq(PendingOpen)
            /\ pendingChanges \in Seq(Docs) /\ IsInjective(pendingChanges)
            /\ inFlightOpens \subseteq Docs /\ synced \subseteq Docs /\ timer \in BOOLEAN
        BY <2>2, ConfigAssumption DEF RestFits
      <3>2. Ids \subseteq Nat \ {0} /\ \A i \in Ids : tasks[i] \in Task
        BY <2>2 DEF TasksFit
      <3>3. /\ ready \in Seq(Ids) /\ IsInjective(ready)
            /\ lockQueue \in Seq(Ids \cup {Delayer}) /\ locked \in BOOLEAN
            /\ flushing \in Seq(Docs) /\ writing \in Seq(Message)
        BY <2>2 DEF ReadyFits, LockFits, WritingFits
      <3>4. server \in [Docs -> Texts \cup {Absent, Garbled}]
        BY <2>2 DEF RestFits, Held
      <3> QED
        BY <3>1, <3>2, <3>3, <3>4 DEF TypeOK
    <2>4. OpenOnlyWhenClosed /\ CloseOnlyWhenOpen /\ ChangeOnlyWhenOpen
      BY <1>1, NextFits DEF OpenOnlyWhenClosed, CloseOnlyWhenOpen, ChangeOnlyWhenOpen,
                            NextMessage, Fits
    <2>5. NeverGarbled
      <3>1. server \in Held /\ Garbled # Absent /\ \A t \in Texts : t # Garbled
        BY <2>2, TextsAreNumbers DEF RestFits, Garbled, Absent
      <3> QED
        BY <3>1 DEF NeverGarbled, Held
    <2> QED
      BY <2>3, <2>4, <2>5 DEF NotificationsFit
  <1>2. Spec => [](Plain => PlainInv)
    BY PlainInvariant
  <1>3. (Plain => PlainInv) => (Plain => NotificationsFit)
    BY <1>1
  <1> QED
    BY <1>2, <1>3, PTL

\* A request arrives when the server knows the document at least as its user
\* saw it: sendRequest flushes the pending changes first.
THEOREM RequestSeesLatestHolds ==
  IsFiniteSet(Docs) => (Spec => [](Plain => RequestSeesLatest))
  <1> SUFFICES ASSUME IsFiniteSet(Docs) PROVE Spec => [](Plain => RequestSeesLatest)
    OBVIOUS
  <1>1. Spec => [](Plain => PlainInv)
    BY PlainInvariant
  <1>2. (Plain => PlainInv) => (Plain => RequestSeesLatest)
    BY NextFits DEF RequestSeesLatest, NextMessage, Fits
  <1> QED
    BY <1>1, <1>2, PTL

\* When the client has nothing left to do the server holds the open documents
\* with their texts, and _syncedDocuments names them.
THEOREM MirrorsAtRestHolds ==
  IsFiniteSet(Docs) => (Spec => [](Plain => MirrorsAtRest))
  <1> SUFFICES ASSUME IsFiniteSet(Docs) PROVE Spec => [](Plain => MirrorsAtRest)
    OBVIOUS
  <1>1. Spec => [](Plain => PlainInv)
    BY PlainInvariant
  <1>2. ASSUME PlainInv, Quiet
        PROVE  /\ \A d \in Docs : server[d] = IF d \in open THEN text[d] ELSE Absent
               /\ synced = {d \in Docs : server[d] # Absent}
    <2>1. PICK held \in Held : InvWith(held)
      BY <1>2 DEF PlainInv
    <2>2. registered /\ Ids = {} /\ lockQueue = <<>> /\ writing = <<>> /\ ~timer
      BY <1>2 DEF Quiet
    <2>3. server \in Held /\ synced \subseteq Docs /\ held = server
      BY <2>1, <2>2, LeadsNowhere DEF InvWith, Places, RestFits
    <2>4. \A kind \in Kinds, d \in Docs : ~UnsentOf(kind, d)
      BY <2>2 DEF UnsentOf
    <2>5. \A d \in Docs : server[d] # Absent <=> d \in open
      BY <2>1, <2>2, <2>3, <2>4 DEF InvWith, PresenceFits, Kinds
    <2>6. ToSet(pendingChanges) = {} /\ ToSet(flushing) = {}
      <3>1. ~locked /\ flushing = <<>> /\ Len(lockQueue) = 0
        BY <2>1, <2>2 DEF InvWith, Places, LockFits
      <3>2. ToSet(flushing) = {}
        BY <3>1 DEF ToSet
      <3> QED
        BY <2>1, <2>2, <3>1, <3>2 DEF InvWith, TriggerFits
    <2>7. \A d \in open : server[d] = text[d]
      <3>1. open \subseteq Docs
        BY <2>1 DEF InvWith, Places, RestFits
      <3>2. CASE Full
        BY <2>1, <2>2, <2>3, <2>4, <2>6, <3>1, <3>2
           DEF InvWith, PendingFits, TextSentOrPending, Kinds
      <3>3. CASE ~Full
        BY <2>1, <2>2, <2>3, <3>3 DEF InvWith, IncrementalFits
      <3> QED
        BY <3>2, <3>3
    <2>8. synced = {d \in Docs : server[d] # Absent}
      BY <2>1, <2>2, <2>3 DEF InvWith, SyncedFits
    <2> QED
      BY <2>5, <2>7, <2>8
  <1>3. (Plain => PlainInv) => (Plain => MirrorsAtRest)
    BY <1>2 DEF MirrorsAtRest, QuietInSync, SyncedExact
  <1> QED
    BY <1>1, <1>3, PTL
==============================================================================

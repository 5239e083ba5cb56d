---------------------------- MODULE NotebookSync ----------------------------
(***************************************************************************)
(* client/src/common/notebook.ts with server/src/common/notebook.ts: one   *)
(* notebook of the editor, the cells of it the client synchronises, and    *)
(* the notebook and cell texts the server builds from the notifications.   *)
(* The cells are the documents Docs of TextDocuments.  text[c] numbers the *)
(* states of the cell's document, its contents and its language; data[c]   *)
(* those of its metadata and execution summary.  Contents are read when an *)
(* event is handled, and notifications arrive in the order they are sent.  *)
(* Left out: saves, the notebook's metadata, the filterCells option, which *)
(* may hide a cell for any reason, and middleware that delays a send.      *)
(***************************************************************************)
EXTENDS TextDocuments, FiniteSets, SequencesExt

CONSTANTS
  None,           \* undefined
  Languages,      \* the languages a cell can have
  Selected,       \* the languages of the registration's cell selector
  MaxCells,       \* bound: cells in the notebook
  MaxEvents,      \* bound: events of the editor
  MaxWire,        \* bound: notifications under way
  MaxRegistered   \* bound: registrations of the feature

ASSUME SelectedAssumption == Selected \subseteq Languages

VARIABLES
  editor,         \* the notebook in the editor
  provider,       \* the registered provider, [seen, sync], or None
  registered,     \* registrations so far
  wire,           \* notifications sent and not handled
  notebook,       \* server: the notebook document's cells, or None
  cellMap,        \* server: notebookCellMap, the cell of each document
  events          \* events of the editor so far

vars == <<editor, provider, registered, wire, notebook, cellMap, events, server>>

-----------------------------------------------------------------------------
\* The client.  p is what a handler may change: the provider's seen (the
\* notebook is in notebookDidOpen), its sync (notebookSyncInfo) and the
\* notifications sent.  e is the editor the handler looks at.

Matches(e, c) == e.lang[c] \in Selected

OrNone(s) == IF s = <<>> THEN None ELSE s

GetMatchingCells(e) == OrNone(SelectSeq(e.cells, LAMBDA c: Matches(e, c)))

\* The cells of the notebook that are in the set, in the notebook's order.
Among(e, S) == SelectSeq(e.cells, LAMBDA c: c \in S)

Cell(e, c) == [cell |-> c, data |-> e.data[c]]
Cells(e, s) == [i \in DOMAIN s |-> Cell(e, s[i])]
Items(e, S) == {[cell |-> c, text |-> e.text[c]]: c \in S}

NoChange == [structure |-> None, data |-> {}, textContent |-> {}]

Send(p, m) == [p EXCEPT !.sent = Append(@, m)]

DoSendOpen(p, e, cells) ==
  Send([p EXCEPT !.sync = cells],
       [type |-> "open", cells |-> Cells(e, cells), items |-> Items(e, ToSet(cells))])

\* Only a change of the structure updates the synced cells.
DoSendChange(p, change, cells) ==
  Send([p EXCEPT !.sync = IF change.structure # None THEN cells ELSE @],
       [type |-> "change", change |-> change])

DoSendClose(p, cells) ==
  Send([p EXCEPT !.sync = None], [type |-> "close", items |-> ToSet(cells)])

\* The longest n for which the first (last) n elements agree.
Agreeing(limit, Same(_)) == CHOOSE n \in 0 .. limit:
  Same(n) /\ \A m \in n + 1 .. limit: ~Same(m)

\* Mutant of ComputeDiff: the elements after the common end are kept.
ComputeDiffShort(old, new) ==
  IF old = new THEN None
  ELSE LET short == IF Len(old) < Len(new) THEN Len(old) ELSE Len(new)
           start == Agreeing(short, LAMBDA n: SubSeq(old, 1, n) = SubSeq(new, 1, n))
       IN [start |-> start, deleteCount |-> short - start,
           cells |-> SubSeq(new, start + 1, Len(new))]

\* computeDiff: what lies between the common start and the common end.
ComputeDiff(old, new) ==
  IF old = new THEN None
  ELSE LET short == IF Len(old) < Len(new) THEN Len(old) ELSE Len(new)
           start == Agreeing(short, LAMBDA n: SubSeq(old, 1, n) = SubSeq(new, 1, n))
           end == Agreeing(short - start, LAMBDA n:
                    SubSeq(old, Len(old) - n + 1, Len(old)) =
                    SubSeq(new, Len(new) - n + 1, Len(new)))
       IN [start |-> start, deleteCount |-> Len(old) - end - start,
           cells |-> SubSeq(new, start + 1, Len(new) - end)]

\* The splice that turns the cells the server has into the new ones; cells
\* that are deleted and inserted again are neither opened nor closed.
Structure(e, old, new) ==
  LET diff == ComputeDiff(old, new)
  IN IF diff = None THEN None
     ELSE [start |-> diff.start, deleteCount |-> diff.deleteCount,
           cells |-> Cells(e, diff.cells),
           didOpen |-> Items(e, ToSet(new) \ ToSet(old)),
           didClose |-> ToSet(old) \ ToSet(new)]

\* event is [content, changed, removed, added] or None for the cells as they are.
AsNotebookDocumentChangeEvent(e, event, sync, matching) ==
  [NoChange EXCEPT
     !.data = IF event = None THEN {}
              ELSE {Cell(e, c): c \in event.changed \cap ToSet(matching)},
     !.structure = IF event = None THEN Structure(e, sync, matching)
                   ELSE IF event.content THEN Structure(e, sync, matching) ELSE None]

SendChanged(p, e, event, matching) ==
  LET change == AsNotebookDocumentChangeEvent(e, event, p.sync, matching)
  IN IF change = NoChange THEN p ELSE DoSendChange(p, change, matching)

DidOpen(p, e) ==
  IF p.sync # None THEN SendChanged(p, e, None, p.sync)
  ELSE LET matching == GetMatchingCells(e)
       IN IF matching = None THEN p ELSE DoSendOpen(p, e, matching)

DidOpenCell(p, e, c) ==
  IF ~Matches(e, c) \/ ~p.seen THEN p
  ELSE IF p.sync = None THEN DoSendOpen(p, e, <<c>>)
  ELSE IF c \in ToSet(p.sync) THEN p
  ELSE SendChanged(p, e, None, Among(e, ToSet(p.sync) \cup {c}))

DidChangeCell(p, e, c) ==
  IF ~Matches(e, c) \/ p.sync = None THEN p
  ELSE IF c \notin ToSet(p.sync) THEN p
  ELSE DoSendChange(p, [NoChange EXCEPT !.textContent = Items(e, {c})], p.sync)

\* Mutant of DidCloseCell: the synced cells keep the closed one.
DidCloseCellKeeps(p, c) ==
  IF p.sync = None THEN p
  ELSE IF c \notin ToSet(p.sync) THEN p
  ELSE IF Len(p.sync) = 1 THEN DoSendClose(p, p.sync)
  ELSE DoSendChange(p, [NoChange EXCEPT !.structure =
         [start |-> SelectInSeq(p.sync, LAMBDA x: x = c) - 1, deleteCount |-> 1,
          cells |-> <<>>, didOpen |-> {}, didClose |-> {c}]], p.sync)

DidCloseCell(p, c) ==
  IF p.sync = None THEN p
  ELSE IF c \notin ToSet(p.sync) THEN p
  ELSE IF Len(p.sync) = 1 THEN DoSendClose(p, p.sync)
  ELSE DoSendChange(p, [NoChange EXCEPT !.structure =
         [start |-> SelectInSeq(p.sync, LAMBDA x: x = c) - 1, deleteCount |-> 1,
          cells |-> <<>>, didOpen |-> {}, didClose |-> {c}]], Remove(p.sync, c))

\* The synced cells after the event, in the notebook's order.  The list may be
\* empty: it is not undefined then.
GetMatchingCellsFromEvent(e, sync, event) ==
  LET filtered == {c \in event.changed: Matches(e, c)}
      kept == IF filtered = event.changed THEN ToSet(sync)
              ELSE (ToSet(sync) \ event.changed) \cup filtered
  IN IF ~event.content
     THEN IF filtered = event.changed THEN sync ELSE Among(e, kept)
     ELSE Among(e, (kept \ event.removed) \cup {c \in event.added: Matches(e, c)})

DidChange(p, e, event) ==
  IF p.sync = None
  THEN IF ~event.content \/ GetMatchingCells(e) = None THEN p ELSE DidOpen(p, e)
  ELSE SendChanged(p, e, event, GetMatchingCellsFromEvent(e, p.sync, event))

DidClose(p, e) ==
  IF p.sync = None THEN p ELSE DoSendClose(p, Among(e, ToSet(p.sync)))

\* An event of the editor runs handlers of the provider, when there is one.
Handle(p) ==
  /\ provider' = [seen |-> p.seen, sync |-> p.sync]
  /\ wire' = wire \o p.sent

WithProvider(Handlers(_)) ==
  IF provider = None THEN UNCHANGED <<provider, wire>>
  ELSE Handle(Handlers([seen |-> provider.seen, sync |-> provider.sync, sent |-> <<>>]))

-----------------------------------------------------------------------------
\* The editor.

InEditor == editor.open /\ events < MaxEvents /\ Len(wire) < MaxWire

UnchangedServer == UNCHANGED <<notebook, cellMap, server>>

CellSeqs == UNION {SetToSeqs(S): S \in {T \in SUBSET Docs: Cardinality(T) <= MaxCells}}

\* The documents of the cells are opened before the notebook.
OpenNotebook ==
  /\ ~editor.open /\ events < MaxEvents /\ Len(wire) < MaxWire
  /\ \E cells \in CellSeqs, lang \in [Docs -> Languages]:
       /\ \A c \in Docs \ ToSet(cells): lang[c] = editor.lang[c]
       /\ editor' = [editor EXCEPT !.open = TRUE, !.cells = cells, !.lang = lang]
       /\ WithProvider(LAMBDA p:
            DidOpen([FoldLeft(LAMBDA q, c: DidOpenCell(q, editor', c), p, cells)
                     EXCEPT !.seen = TRUE], editor'))
  /\ events' = events + 1
  /\ UNCHANGED registered /\ UnchangedServer

\* Cells are inserted, removed and moved, and the metadata of some changed.
\* The documents of new cells open before or after the event of the notebook;
\* those of removed cells are no longer found when they close.
ChangeNotebook ==
  /\ InEditor
  /\ \E cells \in CellSeqs, changed \in SUBSET Docs, documentsFirst \in BOOLEAN,
        lang \in [Docs -> Languages]:
       LET old == ToSet(editor.cells)
           new == ToSet(cells)
           moved == IF SelectSeq(editor.cells, LAMBDA c: c \in new) =
                       SelectSeq(cells, LAMBDA c: c \in old)
                    THEN {} ELSE old \cap new
           opened == SelectSeq(cells, LAMBDA c: c \notin old)
           event == [content |-> cells # editor.cells, changed |-> changed,
                     removed |-> (old \ new) \cup moved, added |-> (new \ old) \cup moved]
       IN /\ changed \subseteq new /\ Cardinality(changed) <= 1
          /\ cells # editor.cells \/ changed # {}
          /\ \A c \in Docs \ (new \ old): lang[c] = editor.lang[c]
          /\ documentsFirst => opened # <<>>
          /\ editor' = [editor EXCEPT !.cells = cells, !.lang = lang,
                !.data = [c \in Docs |-> editor.data[c] + IF c \in changed THEN 1 ELSE 0]]
          /\ WithProvider(LAMBDA p:
               IF documentsFirst
               THEN DidChange(FoldLeft(LAMBDA q, c: DidOpenCell(q, editor', c), p, opened),
                              editor', event)
               ELSE FoldLeft(LAMBDA q, c: DidOpenCell(q, editor', c),
                             DidChange(p, editor', event), opened))
  /\ events' = events + 1
  /\ UNCHANGED registered /\ UnchangedServer

EditCell ==
  /\ InEditor
  /\ \E c \in ToSet(editor.cells):
       /\ editor' = [editor EXCEPT !.text[c] = @ + 1]
       /\ WithProvider(LAMBDA p: DidChangeCell(p, editor', c))
  /\ events' = events + 1
  /\ UNCHANGED registered /\ UnchangedServer

\* A change of language closes the cell's document and opens it again.
ChangeLanguage ==
  /\ InEditor
  /\ \E c \in ToSet(editor.cells), l \in Languages:
       /\ l # editor.lang[c]
       /\ editor' = [editor EXCEPT !.lang[c] = l, !.text[c] = @ + 1]
       /\ WithProvider(LAMBDA p: DidOpenCell(DidCloseCell(p, c), editor', c))
  /\ events' = events + 1
  /\ UNCHANGED registered /\ UnchangedServer

\* The documents of the cells close before or after the notebook is gone from
\* the editor's list: only then are their cells found.
CloseNotebook ==
  /\ InEditor
  /\ \E cellsFound \in BOOLEAN:
       WithProvider(LAMBDA p:
         [DidClose(IF cellsFound
                   THEN FoldLeft(LAMBDA q, c: DidCloseCell(q, c), p, editor.cells)
                   ELSE p, editor) EXCEPT !.seen = FALSE])
  /\ editor' = [editor EXCEPT !.open = FALSE, !.cells = <<>>]
  /\ events' = events + 1
  /\ UNCHANGED registered /\ UnchangedServer

\* register: the provider's constructor opens the notebooks that are open.
Register ==
  /\ provider = None /\ registered < MaxRegistered /\ Len(wire) < MaxWire
  /\ LET p == [seen |-> editor.open, sync |-> None, sent |-> <<>>]
     IN Handle(IF editor.open THEN DidOpen(p, editor) ELSE p)
  /\ registered' = registered + 1
  /\ UNCHANGED <<editor, events>> /\ UnchangedServer

\* unregister and clear: nothing is closed on the server.
Unregister ==
  /\ provider # None /\ events < MaxEvents
  /\ provider' = None
  /\ events' = events + 1
  /\ UNCHANGED <<editor, registered, wire>> /\ UnchangedServer

-----------------------------------------------------------------------------
\* The server: NotebookDocuments.  The awaits in its handlers end before the
\* next message is taken from the queue.

Splice(s, diff) ==
  SubSeq(s, 1, diff.start) \o diff.cells
    \o SubSeq(s, diff.start + diff.deleteCount + 1, Len(s))

\* updateCellMap: cells are added, never removed.
UpdatedCellMap(cells) ==
  [c \in Docs |-> LET at == SelectInSeq(cells, LAMBDA x: x.cell = c)
                  IN IF at = 0 THEN cellMap[c] ELSE cells[at].data]

OpenAll(held, items) == [c \in Docs |->
  IF \E i \in items: i.cell = c THEN (CHOOSE i \in items: i.cell = c).text ELSE held[c]]
CloseAll(held, cells) == [c \in Docs |-> IF c \in cells THEN Closed(held, c)[c] ELSE held[c]]
ChangeAll(held, items) == FoldSet(LAMBDA i, h: Changed(h, i.cell, i.text, TRUE), held, items)

OnDidOpenNotebook(m) ==
  /\ notebook' = m.cells
  /\ server' = OpenAll(server, m.items)
  /\ cellMap' = UpdatedCellMap(m.cells)

\* The splice, the cell documents it opens and closes, the data of cells, the
\* texts, and the map.  Data of a cell that is not there reads past the array:
\* the handler fails before texts and map.
OnDidChangeNotebook(m) ==
  LET c == m.change
      spliced == IF c.structure = None THEN notebook ELSE Splice(notebook, c.structure)
      Fresh(x) == IF \E d \in c.data: d.cell = x.cell
                  THEN CHOOSE d \in c.data: d.cell = x.cell ELSE x
      cells == [i \in DOMAIN spliced |-> Fresh(spliced[i])]
      held == IF c.structure = None THEN server
              ELSE CloseAll(OpenAll(server, c.structure.didOpen), c.structure.didClose)
      found == \A d \in c.data: \E i \in DOMAIN spliced: spliced[i].cell = d.cell
  IN IF notebook = None THEN UNCHANGED <<notebook, server, cellMap>>
     ELSE /\ notebook' = cells
          /\ server' = IF found THEN ChangeAll(held, c.textContent) ELSE held
          /\ cellMap' = IF found THEN UpdatedCellMap(cells) ELSE cellMap

\* The map loses the cells the notebook has at the end.
OnDidCloseNotebook(m) ==
  IF notebook = None THEN UNCHANGED <<notebook, server, cellMap>>
  ELSE /\ notebook' = None
       /\ server' = CloseAll(server, m.items)
       /\ cellMap' = [c \in Docs |-> IF \E i \in DOMAIN notebook: notebook[i].cell = c
                                     THEN None ELSE cellMap[c]]

ServerHandles ==
  /\ wire # <<>>
  /\ LET m == Head(wire)
     IN \/ m.type = "open" /\ OnDidOpenNotebook(m)
        \/ m.type = "change" /\ OnDidChangeNotebook(m)
        \/ m.type = "close" /\ OnDidCloseNotebook(m)
  /\ wire' = Tail(wire)
  /\ UNCHANGED <<editor, provider, registered, events>>

-----------------------------------------------------------------------------
Init ==
  /\ \E lang \in [Docs -> Languages]:
       /\ \A c, d \in Docs: lang[c] = lang[d]
       /\ editor = [open |-> FALSE, cells |-> <<>>, lang |-> lang,
                    data |-> [c \in Docs |-> 0], text |-> [c \in Docs |-> 0]]
  /\ provider = None /\ registered = 0 /\ wire = <<>> /\ events = 0
  /\ notebook = None /\ cellMap = [c \in Docs |-> None]
  /\ InitServer

Next ==
  \/ OpenNotebook \/ ChangeNotebook \/ EditCell \/ ChangeLanguage \/ CloseNotebook
  \/ Register \/ Unregister
  \/ ServerHandles

Spec == Init /\ [][Next]_vars

-----------------------------------------------------------------------------
\* Properties.

Quiet == wire = <<>> /\ provider # None

\* The synced cells are cells, without repetition; the bounds hold.
TypeOK ==
  /\ editor.cells \in CellSeqs
  /\ provider # None =>
       /\ provider.seen \in BOOLEAN
       /\ provider.sync # None => provider.sync \in CellSeqs
  /\ server \in [Docs -> {Absent, Garbled} \cup Nat]
  /\ notebook # None => IsInjective([i \in DOMAIN notebook |-> notebook[i].cell])
  /\ events \in 0 .. MaxEvents /\ registered \in 0 .. MaxRegistered

\* After every event the client synchronises exactly the matching cells of the
\* notebook, in its order: whichever way a cell came, left, moved or changed its
\* language, and in whichever order the editor announced it.
SyncedAreTheMatching ==
  provider # None =>
    /\ provider.sync = None => GetMatchingCells(editor) = None
    /\ provider.sync # None =>
         editor.open /\ provider.sync = SelectSeq(editor.cells, LAMBDA c: Matches(editor, c))

\* The next notification fits what the server has: it opens cells that are not
\* open, closes, changes and replaces only cells that are there, splices within
\* the notebook, and patches the text it was computed against.
NotificationsFit ==
  wire # <<>> /\ registered <= 1 =>
    LET m == Head(wire)
    IN CASE m.type = "open" ->
              notebook = None /\ \A i \in m.items: server[i.cell] = Absent
         [] m.type = "close" ->
              notebook # None /\ m.items = {c \in Docs: server[c] # Absent}
         [] m.type = "change" ->
              LET c == m.change IN
              /\ notebook # None
              /\ c.structure # None =>
                   /\ c.structure.start + c.structure.deleteCount <= Len(notebook)
                   /\ \A i \in c.structure.didOpen: server[i.cell] = Absent
                   /\ \A d \in c.structure.didClose: server[d] # Absent
              /\ \A i \in c.textContent: server[i.cell] = i.text - 1

\* When no notification is under way the server's notebook, its map and the texts
\* of its cells are those of the synced cells.
ServerHasSynced ==
  Quiet /\ provider.sync # None =>
    /\ notebook = Cells(editor, provider.sync)
    /\ \A c \in ToSet(provider.sync):
         server[c] = editor.text[c] /\ cellMap[c] = editor.data[c]

\* And it has nothing else, as long as the feature was not unregistered: no
\* notebook that is not synced, no text of a cell that is not.
NothingLeftBehind ==
  Quiet /\ registered = 1 =>
    /\ provider.sync = None => notebook = None
    /\ \A c \in Docs: server[c] # Absent =>
         provider.sync # None /\ c \in ToSet(provider.sync)

\* Violated: a notebook without a matching cell is closed on the server.
SyncedHasCells == provider # None => provider.sync # <<>>
=============================================================================

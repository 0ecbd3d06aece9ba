----------------------------- MODULE ObjectSync -----------------------------
(***************************************************************************)
(* How the layout of a tab is kept in step between the page and the        *)
(* database: the object cache of frontend/app/store/wos.ts, the queue of   *)
(* layout actions that the backend appends to the layout object, and the   *)
(* delayed saves of the layout model (layoutModel.ts:357-433, 576-609).    *)
(*                                                                         *)
(* The tree is the set of its blocks here; LayoutModel has its shape.  A   *)
(* block is inserted by one action, whose id is the block's.  A handler of *)
(* the backend reads the layout object, writes it and publishes its updates *)
(* in steps that others come between (layout.go:65-88, dshserver.go:203-275 *)
(* and 441-464).  Events arrive in the order they are published; HTTP       *)
(* requests and answers overtake them and each other.                      *)
(***************************************************************************)
EXTENDS Integers, FiniteSets, SequencesExt

CONSTANTS
    Base,         \* the block the tab starts with, never closed
    NewBlocks,    \* blocks created later
    Scenarios,    \* sets of kinds of events: a behaviour has those of one
    MaxVersion    \* bound on the versions of the layout object

ASSUME BaseAssumption == Base \notin NewBlocks

VARIABLES
    db,           \* the layout object as stored: [ver, tree, pending]
    tab,          \* the tab as stored: [ver, blocks]
    ops,          \* handlers of the backend that queue an action
    sent,         \* what has been told of the layout, in which order
    events,       \* updates on their way over the web socket
    http,         \* requests and answers on their way
    cache,        \* the page's copy of the layout object, or NoRow
    tabCache,     \* the page's copy of the tab
    model,        \* the page's LayoutModel
    closed,       \* blocks the user has closed since the page was loaded
    asked,        \* what has been asked for so far, each thing once
    does          \* the scenario, which never changes
syncVars == <<db, tab, ops, sent, events, http, cache, tabCache, model, closed, asked, does>>

NoRow == [ver |-> 0, tree |-> {}, pending |-> <<>>]
NoTab == [ver |-> 0, blocks |-> {}]
NoModel == [on |-> FALSE, tree |-> {}, processed |-> {}, batches |-> {}, timer |-> FALSE]
Action(type, b) == [type |-> type, block |-> b]     \* the record is its id as well
Cleanup == Action("cleanup", Base)

----------------------------------------------------------------------------
(* A batch of actions.  It runs on until it awaits an answer of the         *)
(* backend.  A batch that waits is [dels, rest]: the blocks it has yet to   *)
(* have deleted, one by one, and the actions after that.                    *)

NoBatch == [dels |-> {}, rest |-> <<>>]
ByUser == [dels |-> {Base}, rest |-> <<>>]      \* a deletion that no batch awaits

\* The blocks of the tab that are not in the tree.
cleanupOrphanedBlocks(m) == tabCache.blocks \ m.tree

\* handleBackendAction: [m: the model afterwards, dels: what it has deleted].
handleBackendAction(m, a) ==
    CASE a.type = "insert"  -> [m |-> [m EXCEPT !.tree = @ \cup {a.block}], dels |-> {}]
      [] a.type = "delete"  -> IF a.block \in m.tree
                               THEN [m |-> [m EXCEPT !.tree = @ \ {a.block}, !.timer = TRUE],
                                     dels |-> {a.block}]
                               ELSE [m |-> m, dels |-> {}]
      [] a.type = "cleanup" -> [m |-> m, dels |-> cleanupOrphanedBlocks(m)]

\* Mutant: actions are not remembered.
TakenNever(m, a) == FALSE
Taken(m, a) == a \in m.processed

\* The loop of processPendingBackendActions; its end arms the timer of the save.
RECURSIVE RunBatch(_, _)
RunBatch(m, actions) ==
    IF actions = <<>> THEN [m |-> [m EXCEPT !.timer = TRUE], batch |-> NoBatch]
    ELSE LET a == Head(actions)
             r == handleBackendAction([m EXCEPT !.processed = @ \cup {a}], a)
         IN  IF Taken(m, a) THEN RunBatch(m, Tail(actions))
             ELSE IF r.dels = {} THEN RunBatch(r.m, Tail(actions))
             ELSE [m |-> r.m, batch |-> [dels |-> r.dels, rest |-> Tail(actions)]]

processPendingBackendActions(m, row) ==
    IF ~m.on \/ row.pending = <<>> THEN [m |-> m, batch |-> NoBatch] ELSE RunBatch(m, row.pending)

\* The model after r, and the request for the deletion it now waits for; the
\* messages in `taken` were received.
Goes(r, taken) ==
    IF r.batch.dels = {} THEN model' = r.m /\ http' = http \ taken
    ELSE \E b \in r.batch.dels :
            LET left == [r.batch EXCEPT !.dels = @ \ {b}]
            IN  /\ model' = [r.m EXCEPT !.batches = @ \cup {left}]
                /\ http' = (http \ taken) \cup {[type |-> "delete", block |-> b, batch |-> left]}

\* A new value in the cache: the model looks for actions.
SetLayout(row, taken) == cache' = row /\ Goes(processPendingBackendActions(model, row), taken)
\* Mutant: only the next version is taken.
IsNext(old, new) == old.ver + 1 = new.ver
IsNewer(old, new) == old.ver < new.ver
updateDoraObject(row, taken) ==
    IF IsNewer(cache, row) THEN SetLayout(row, taken)
    ELSE cache' = cache /\ model' = model /\ http' = http \ taken
updatedTab(t) == IF IsNewer(tabCache, t) THEN t ELSE tabCache

----------------------------------------------------------------------------
(* The backend                                                              *)

(* What has been told so far: the newest version, the actions of the rows   *)
(* that were the newest when they were published, whether every row was, and *)
(* the actions of rows that were overtaken by newer ones without them.      *)
NothingSent == [ver |-> 0, actions |-> {}, inOrder |-> TRUE, unheard |-> {}]
Told(row, a) ==
    IF row.ver > sent.ver
    THEN [sent EXCEPT !.ver = row.ver, !.actions = @ \cup Range(row.pending)]
    ELSE [sent EXCEPT !.inOrder = FALSE, !.unheard = @ \cup ({a} \ sent.actions)]

\* A handler has a context of its own that collects the updates it will publish.
Queueing(a, updates) == [action |-> a, at |-> "start", read |-> NoRow, updates |-> updates]
TabUpdate(t) == [type |-> "tab", tab |-> t]
Asks(kind, a) == /\ kind \in does
                 /\ a \notin asked
                 /\ asked' = asked \cup {a}

\* CreateBlock, then its layout action.
CreateBlock(b) ==
    LET t == [ver |-> tab.ver + 1, blocks |-> tab.blocks \cup {b}]
    IN  /\ Asks("create", Action("insert", b))
        /\ tab' = t
        /\ ops' = ops \cup {Queueing(Action("insert", b), {TabUpdate(t)})}
        /\ UNCHANGED <<db, sent, events, http, cache, tabCache, model, closed, does>>
\* DeleteBlockCommand, from a command line.
DeleteBlockCommand(b) ==
    LET t == [ver |-> tab.ver + 1, blocks |-> tab.blocks \ {b}]
    IN  /\ Asks("command", Action("delete", b))
        /\ b \in tab.blocks
        /\ \A o \in ops : o.action.block # b      \* CreateBlock has returned its id
        /\ tab' = t
        /\ ops' = ops \cup {Queueing(Action("delete", b), {TabUpdate(t)})}
        /\ UNCHANGED <<db, sent, events, http, cache, tabCache, model, closed, does>>

\* QueueLayoutAction reads the object and writes it back in two transactions.
QueueRead(o) ==
    /\ o.at = "start"
    /\ ops' = (ops \ {o}) \cup {[o EXCEPT !.at = "read", !.read = db]}
    /\ UNCHANGED <<db, tab, sent, events, http, cache, tabCache, model, closed, asked, does>>
QueueWrite(o) ==
    LET row == [ver |-> db.ver + 1, tree |-> o.read.tree,
                pending |-> Append(o.read.pending, o.action)]
    IN  /\ o.at = "read"
        /\ db.ver < MaxVersion
        /\ db' = row
        /\ ops' = (ops \ {o}) \cup {[o EXCEPT !.at = "written", !.read = NoRow,
                                          !.updates = @ \cup {[type |-> "layout", row |-> row]}]}
        /\ UNCHANGED <<tab, sent, events, http, cache, tabCache, model, closed, asked, does>>
\* SendUpdateEvents publishes the handler's updates in any order; other handlers
\* come between them, which only a clean-up can tell.  The clean-up's own service
\* has them in its answer instead.
InOrder(updates) ==
    IF "cleanup" \in does THEN {<<u>> : u \in updates}
    ELSE {SetToSeq(updates)}
SendUpdateEvents(o) ==
    /\ o.at = "written"
    /\ \E us \in InOrder(o.updates) :
          LET left == o.updates \ Range(us)
              rows == {u \in Range(us) : u.type = "layout"}
          IN  /\ ops' = (ops \ {o}) \cup
                        (IF left = {} THEN {} ELSE {[o EXCEPT !.updates = left]})
              /\ IF o.action = Cleanup
                 THEN http' = http \cup {[type |-> "answer", row |-> us[1].row]} /\ UNCHANGED events
                 ELSE events' = events \o us /\ UNCHANGED http
              /\ sent' = IF rows = {} THEN sent ELSE Told((CHOOSE u \in rows : TRUE).row, o.action)
    /\ UNCHANGED <<db, tab, cache, tabCache, model, closed, asked, does>>

\* UpdateObject replaces the whole object, whatever its version.
UpdateObject(m) ==
    /\ m.type = "save"
    /\ db.ver < MaxVersion
    /\ db' = [m.row EXCEPT !.ver = db.ver + 1]
    /\ http' = http \ {m}
    /\ UNCHANGED <<sent, tab, ops, events, cache, tabCache, model, closed, asked, does>>
DeleteBlock(m) ==
    LET there == m.block \in tab.blocks        \* or there is nothing to do nor to tell
        t == [ver |-> tab.ver + 1, blocks |-> tab.blocks \ {m.block}]
    IN  /\ m.type = "delete"
        /\ tab' = IF there THEN t ELSE tab
        /\ http' = (http \ {m}) \cup
                    {[type |-> "deleted", tab |-> IF there THEN t ELSE NoTab, batch |-> m.batch]}
        /\ UNCHANGED <<sent, db, ops, events, cache, tabCache, model, closed, asked, does>>
GetObject(m) ==
    /\ m.type = "fetch"
    /\ http' = (http \ {m}) \cup {[type |-> "fetched", row |-> db, tab |-> tab]}
    /\ UNCHANGED <<sent, db, tab, ops, events, cache, tabCache, model, closed, asked, does>>

----------------------------------------------------------------------------
(* The page                                                                 *)

\* wpsSubscribeToObject and the subscription of initGlobalDoraEventSubs.
ReceiveEvent ==
    /\ events # <<>>
    /\ events' = Tail(events)
    /\ IF Head(events).type = "tab"
       THEN tabCache' = updatedTab(Head(events).tab) /\ UNCHANGED <<cache, model, http>>
       ELSE updateDoraObject(Head(events).row, {}) /\ UNCHANGED tabCache
    /\ UNCHANGED <<sent, db, tab, ops, closed, asked, does>>
\* callBackendService applies the updates that come with an answer.
ReceiveAnswer(m) ==
    /\ m.type = "answer"
    /\ updateDoraObject(m.row, {m})
    /\ UNCHANGED <<sent, db, tab, ops, events, tabCache, closed, asked, does>>
\* A fetched value replaces the cached one, whatever that has become meanwhile.
ReceiveFetched(m) ==
    /\ m.type = "fetched"
    /\ tabCache' = m.tab
    /\ SetLayout(m.row, {m})
    /\ UNCHANGED <<sent, db, tab, ops, events, closed, asked, does>>
\* Mutant: the end of the last deletion does not let the batch go on.
ReceiveDeletedForgets(m) ==
    /\ m.type = "deleted"
    /\ tabCache' = updatedTab(m.tab)
    /\ IF m.batch \notin model.batches \/ m.batch.dels = {}
       THEN model' = model /\ http' = http \ {m}
       ELSE Goes([m |-> [model EXCEPT !.batches = @ \ {m.batch}], batch |-> m.batch], {m})
    /\ UNCHANGED <<sent, db, tab, ops, events, cache, closed, asked, does>>
\* onNodeDelete is done: the batch that waited for it goes on.
ReceiveDeleted(m) ==
    /\ m.type = "deleted"
    /\ tabCache' = updatedTab(m.tab)
    /\ IF m.batch \notin model.batches THEN model' = model /\ http' = http \ {m}
       ELSE LET freed == [model EXCEPT !.batches = @ \ {m.batch}]
            IN  Goes(IF m.batch.dels # {} THEN [m |-> freed, batch |-> m.batch]
                     ELSE RunBatch(freed, m.batch.rest), {m})
    /\ UNCHANGED <<sent, db, tab, ops, events, cache, closed, asked, does>>

closeNode(b) ==
    /\ "close" \in does
    /\ b \in model.tree \ {Base}
    /\ model' = [model EXCEPT !.tree = @ \ {b}, !.timer = TRUE]
    /\ closed' = closed \cup {b}
    /\ http' = http \cup {[type |-> "delete", block |-> b, batch |-> ByUser]}
    /\ UNCHANGED <<sent, db, tab, ops, events, cache, tabCache, asked, does>>

\* The timer of persistToBackend: the cached object itself gets the tree, loses
\* the actions and is sent.  Without "overlap" a save is through before the next.
Saved(row) == [row EXCEPT !.tree = model.tree, !.pending = <<>>]
persistToBackend ==
    /\ model.timer
    /\ cache # NoRow
    /\ "overlap" \in does \/ \A m \in http : m.type # "save"
    /\ cache' = Saved(cache)
    /\ model' = [model EXCEPT !.timer = FALSE]
    /\ http' = http \cup {[type |-> "save", row |-> Saved(cache)]}
    /\ UNCHANGED <<sent, db, tab, ops, events, tabCache, closed, asked, does>>

\* registerTileLayout has the backend queue a cleanup.
registerTileLayout ==
    /\ model.on
    /\ Asks("cleanup", Cleanup)
    /\ ops' = ops \cup {Queueing(Cleanup, {})}
    /\ UNCHANGED <<sent, db, tab, events, http, cache, tabCache, model, closed, does>>
\* The tab is shown again: reinitDora reloads the tab and its layout.
reinitDora ==
    /\ model.on
    /\ Asks("reinit", Action("reinit", Base))
    /\ http' = http \cup {[type |-> "fetch"]}
    /\ UNCHANGED <<sent, db, tab, ops, events, cache, tabCache, model, closed, does>>
\* The page is loaded anew: what it held is gone, requests it has sent arrive.
ReloadPage ==
    LET given == {m \in http : m.type = "delete"}
        gone == {m.block : m \in given} \cap tab.blocks
    IN  /\ model.on
        /\ Asks("crash", Action("crash", Base))
        /\ model' = NoModel
        /\ cache' = NoRow
        /\ tabCache' = NoTab
        /\ events' = <<>>
        /\ closed' = {}
        /\ tab' = [ver |-> tab.ver + Cardinality(gone), blocks |-> tab.blocks \ gone]
        /\ http' = {m \in http : m.type = "save"} \cup {[type |-> "fetch"]}
        /\ UNCHANGED <<sent, db, ops, does>>
\* The layout is loaded: initializeFromDoraObject.
StartModel ==
    /\ ~model.on
    /\ cache # NoRow
    /\ \A m \in http : m.type \notin {"fetch", "fetched"}
    /\ Goes(processPendingBackendActions([NoModel EXCEPT !.on = TRUE, !.tree = cache.tree], cache), {})
    /\ UNCHANGED <<sent, db, tab, ops, events, cache, tabCache, closed, asked, does>>

----------------------------------------------------------------------------
SyncInit ==
    /\ db = [ver |-> 1, tree |-> {Base}, pending |-> <<>>]
    /\ tab = [ver |-> 1, blocks |-> {Base}]
    /\ ops = {} /\ sent = NothingSent /\ events = <<>> /\ http = {}
    /\ cache = db /\ tabCache = tab
    /\ model = [NoModel EXCEPT !.on = TRUE, !.tree = {Base}]
    /\ closed = {} /\ asked = {}
    /\ does \in Scenarios
\* What somebody may ask for, and what then happens by itself.
SomebodyActs ==
    \/ \E b \in NewBlocks : CreateBlock(b) \/ DeleteBlockCommand(b) \/ closeNode(b)
    \/ registerTileLayout \/ reinitDora \/ ReloadPage
SystemStep ==
    \/ \E o \in ops : QueueRead(o) \/ QueueWrite(o) \/ SendUpdateEvents(o)
    \/ \E m \in http : \/ UpdateObject(m) \/ DeleteBlock(m) \/ GetObject(m)
                       \/ ReceiveAnswer(m) \/ ReceiveFetched(m) \/ ReceiveDeleted(m)
    \/ ReceiveEvent \/ persistToBackend \/ StartModel
SyncNext == SomebodyActs \/ SystemStep
\* Requests are answered and timers run out; what is asked for is bounded, and any
\* order of the steps under way comes to an end, so that one fairness will do.
SyncSpec == SyncInit /\ [][SyncNext]_syncVars /\ WF_syncVars(SystemStep)

----------------------------------------------------------------------------
(* Properties.  Nothing is on its way, nobody waits and no timer runs:      *)

Quiet == /\ ops = {} /\ events = <<>> /\ http = {}
         /\ model.on /\ model.batches = {} /\ ~model.timer

\* What the user sees is what is stored, in spite of the backend's reads and writes
\* of a stale object and of answers that overtake updates (layoutModel.ts:576-594,
\* wos.ts:257-316).  A page that is loaded anew and saves that overlap are left out:
\* with them it does not hold.
SavedWhenQuiet ==
    does \cap {"crash", "overlap"} = {} => (Quiet => db.tree = model.tree)

\* Every block of the tab is shown, though a save or another handler may overwrite
\* its action in the database (layout.go:65-88).  The exception: two handlers
\* overlap, the later to write lacks the action of the other and is the first to
\* publish, and the page drops the older row (dshserver.go:273, wos.ts:272).  With a
\* fetch or an answer that overtakes the updates, it does not hold.
NoBlockMissing ==
    does \cap {"crash", "reinit", "cleanup"} = {}
        => (Quiet => \A b \in tab.blocks \ model.tree : Action("insert", b) \in sent.unheard)

\* Every block that is shown exists, as long as rows are published in the order
\* of their versions: otherwise a removal may stay unheard, or pass an insertion
\* that waits in its batch for another removal.  With a cleanup it does not hold:
\* it deletes a block whose action is queued behind it (layoutModel.ts:394-433).
NoDeadNode ==
    "cleanup" \notin does /\ sent.inOrder => (Quiet => model.tree \subseteq tab.blocks)

\* A block the user has closed does not come back, though its action is delivered
\* again with every update until a save has cleared it (layoutModel.ts:394-403).
ClosedStaysClosed ==
    [][model.on /\ model'.on => \A b \in closed : b \notin model'.tree]_syncVars

\* Whatever is asked for, everything comes to rest: no batch waits for ever and no
\* save or update gives rise to another without end.
Settles == <>[]Quiet

\* The page's tree, what is stored of it and the backend's tab name the same blocks
\* at rest, each pair of them in the scenarios that the three above name.
BlocksAgree == SavedWhenQuiet /\ NoBlockMissing /\ NoDeadNode
=============================================================================

--------------------------- MODULE BrowserWindows ---------------------------
(***************************************************************************)
(* The windows of the Electron shell (emain-window.ts): each serialises    *)
(* what changes its contents in a queue of at most two actions, of which   *)
(* the first is in process and the second may be replaced.  Tabs,          *)
(* workspaces and windows live in the backend, which is external: its      *)
(* services as the shell calls them, and the events it sends back.         *)
(*                                                                         *)
(* el is the state of the main process, a record whose fields TabViews and *)
(* NewWindow name.  The process has one thread: a window whose loop is     *)
(* about to look at its queue (pc = "take") does so before anything else.  *)
(***************************************************************************)
EXTENDS TabViews

CONSTANTS
    MaxTab, MaxWs, MaxWin,  \* bounds on the tabs, workspaces and windows ever created
    MaxBw,                  \* bound on the browser windows ever created
    Named,                  \* the workspaces that have a name and an icon
    SaveLastWindow,         \* the setting window:savelastwindow
    Scenarios               \* sets of [ops: kinds of events, start: windows, size: bound on events]

VARIABLES
    el,      \* the main process
    be,      \* the backend: [ws, win, order, tab, nws, nwin]
    controls,  \* electron:control events on their way, in order
    jobs,    \* asynchronous functions that await something
    left,    \* how many more events of the user there may be
    does     \* the scenario's kinds of events, which never change
winVars == <<el, be, controls, jobs, left, does>>

----------------------------------------------------------------------------
(* The backend.  ws: tabs and active tab of each workspace; win: the        *)
(* workspace of each window; order: client.windowids.                       *)

NewTab(b, ws) ==
    LET t == b.tab + 1 IN
    [b EXCEPT !.tab = t, !.ws[ws] = [tabs |-> Append(@.tabs, t), active |-> t]]
NewWorkspace(b) ==
    LET w == b.nws + 1 IN
    NewTab([b EXCEPT !.nws = w, !.ws = With(@, w, [tabs |-> <<>>, active |-> 0])], w)
NewBackendWindow(b, ws) ==
    LET n == b.nwin + 1 IN [b EXCEPT !.nwin = n, !.win = With(@, n, ws), !.order = Append(@, n)]
DropWorkspace(b, ws, force) ==
    IF ws \in DOMAIN b.ws /\ (force \/ ws \notin Named \/ b.ws[ws].tabs = <<>>)
    THEN [b EXCEPT !.ws = Without(@, ws)] ELSE b
CloseWindow(b, n) ==
    IF n \notin DOMAIN b.win THEN b
    ELSE [DropWorkspace(b, b.win[n], FALSE) EXCEPT !.win = Without(@, n), !.order = Remove(@, n)]
WindowsOf(b, ws) == {n \in DOMAIN b.win : b.win[n] = ws}

MinWin(S) == CHOOSE n \in S : \A m \in S : n <= m

\* CloseTab: the new active tab, or 0 if the window was closed with its last tab.
DeleteTab(b, ws, t) ==
    LET tabs == b.ws[ws].tabs
        i    == CHOOSE j \in DOMAIN tabs : tabs[j] = t
        rest == RemoveAt(tabs, i)
        act  == IF b.ws[ws].active # t THEN b.ws[ws].active
                ELSE IF rest = <<>> THEN 0 ELSE rest[IF i = 1 THEN 1 ELSE i - 1]
    IN  [b EXCEPT !.ws[ws] = [tabs |-> rest, active |-> act]]

----------------------------------------------------------------------------
(* The queue of a window.                                                   *)

NewWindow(id, ws) ==
    [open |-> TRUE, id |-> id, ws |-> ws, loaded |-> <<>>, active |-> 0, queue |-> <<>>,
     pc |-> "idle", tab |-> 0, canClose |-> FALSE, deleteAllowed |-> FALSE]
Entry(op, x, setInBackend) == [op |-> op, x |-> x, setInBackend |-> setInBackend]

\* _queueActionInternal: the second entry is replaced, and whoever finds the
\* queue empty processes it.
QueueAction(e, o, entry) ==
    LET q == e.wins[o].queue IN
    IF Len(q) >= 2 THEN [e EXCEPT !.wins[o].queue[2] = entry]
    ELSE [e EXCEPT !.wins[o].queue = Append(@, entry),
                   !.wins[o].pc = IF q = <<>> THEN "take" ELSE @]

Goto(e, o, pc) == [e EXCEPT !.wins[o].pc = pc]
\* The entry in process is done, or has failed: the loop goes on ...
Shift(e, o) == [e EXCEPT !.wins[o].queue = Tail(@), !.wins[o].pc = "take"]
\* Mutant: a return skips what takes the entry off.
LeaveStuck(e, o) == [e EXCEPT !.wins[o].pc = "idle"]
\* ... or the function returns: "finally" takes the entry off all the same.
Leave(e, o) == [e EXCEPT !.wins[o].queue = Tail(@), !.wins[o].pc = "idle"]

\* setTabViewIntoWindow: a view that was used before is told its tab again; a
\* new one has to be initialised.
setTabViewIntoWindow(e, o, v, initialized) ==
    LET old == e.wins[o].active
        e0  == IF old = 0 THEN e ELSE Mark(e, old, "isActive", FALSE)
        e1  == [e0 EXCEPT !.views[v].isActive = TRUE, !.wins[o].active = v,
                          !.wins[o].loaded = With(@, e.views[v].tab, v)]
    IN  IF old = v THEN Shift(e, o)
        ELSE IF initialized THEN Shift(Mark(e1, v, "told", e1.views[v].opts), o)
        ELSE Goto(e1, o, "init")

\* getOrCreateWebViewForTab up to its await, and what follows a hit.
Obtain(e, o, tab) ==
    IF tab \in DOMAIN e.cache THEN setTabViewIntoWindow(e, o, e.cache[tab], TRUE)
    ELSE [e EXCEPT !.wins[o].pc = "config", !.wins[o].tab = tab]

\* The views that the windows os have loaded are destroyed.
removeAllChildViews(e, os) == DestroyAll(e, UNION {Range(e.wins[o].loaded) : o \in os})

----------------------------------------------------------------------------
(* Closing a window.                                                        *)

\* The "closed" handler of each window of os.  A backend call is due if the window
\* may be deleted.
ClosedAll(e, os) ==
    LET e1 == [e EXCEPT !.wins = [o \in DOMAIN @ |->
                  IF o \in os THEN Changed(@[o], "open", FALSE) ELSE @[o]]]
    IN  IF e.quitting \/ e.installing THEN e1
        ELSE removeAllChildViews([e1 EXCEPT !.map = WithoutAll(@, {e.wins[o].id : o \in os})], os)
Closed(e, o) == ClosedAll(e, {o})
\* Mutant: a relaunch deletes the windows it closes.
DeletionAlways(e, o) ==
    IF e.wins[o].deleteAllowed \/ e.relaunching
    THEN <<[kind |-> "delete", n |-> e.wins[o].id, o |-> 0]>> ELSE <<>>
Deletion(e, o) ==
    IF e.wins[o].deleteAllowed /\ ~e.relaunching /\ ~e.quitting /\ ~e.installing
    THEN <<[kind |-> "delete", n |-> e.wins[o].id, o |-> 0]>> ELSE <<>>

\* close(): the "close" handler asks first, unless the whole application goes.
AsksFirst(e, o) == ~e.wins[o].canClose /\ ~e.quitting /\ ~e.installing /\ ~e.relaunching
closeWindow(e, o) == IF ~e.wins[o].open \/ AsksFirst(e, o) THEN e ELSE Closed(e, o)
closeJobs(e, o) ==
    IF ~e.wins[o].open THEN <<>>
    ELSE IF AsksFirst(e, o) THEN <<[kind |-> "close", n |-> Cardinality(DOMAIN e.map), o |-> o]>>
    ELSE Deletion(e, o)
\* destroy(): does not ask.
Allowed(e, o) == [e EXCEPT !.wins[o].deleteAllowed = TRUE]
destroyWindow(e, o) == IF e.wins[o].open THEN Closed(Allowed(e, o), o) ELSE e
destroyJobs(e, o) == IF e.wins[o].open THEN Deletion(Allowed(e, o), o) ELSE <<>>

----------------------------------------------------------------------------
(* processActionQueue, from one await to the next.                          *)

Quiet == \A o \in DOMAIN el.wins : el.wins[o].pc # "take"
\* An answer arrives.  Events of the backend and the end of a view's contents are
\* late only where the scenario says so.
Answered ==
    /\ Quiet
    /\ "late" \in does \/ (controls = <<>> /\ \A v \in DOMAIN el.views : el.views[v].st # "closing")
InProcess(o) == el.wins[o].queue[1]
Processing(o, pc) == o \in DOMAIN el.wins /\ el.wins[o].pc = pc

TakeEntry(o) ==
    /\ Processing(o, "take")
    /\ LET w == el.wins[o]
           a == InProcess(o)
       IN  \/ w.queue = <<>> /\ el' = Goto(el, o, "idle")
           \/ w.queue # <<>> /\ ~w.open /\ el' = Leave(el, o)
           \/ /\ w.queue # <<>> /\ w.open
              /\ \/ a.op = "createtab" /\ el' = Goto(el, o, "create")
                 \/ a.op = "closetab" /\ el' = Goto(el, o, "close")
                 \/ a.op = "switchworkspace" /\ el' = Goto(el, o, "switch")
                 \/ /\ a.op = "switchtab"
                    /\ el' = IF w.active # 0 /\ el.views[w.active].tab = a.x THEN Shift(el, o)
                             ELSE IF a.setInBackend THEN Goto(el, o, "setactive") ELSE Obtain(el, o, a.x)
    /\ UNCHANGED <<be, controls, jobs, left, does>>

TabCreated(o) ==
    /\ Answered /\ Processing(o, "create") /\ be.tab < MaxTab
    /\ el.wins[o].ws \in DOMAIN be.ws
    /\ be' = NewTab(be, el.wins[o].ws)
    /\ el' = Obtain(el, o, be.tab + 1)
    /\ UNCHANGED <<controls, jobs, left, does>>

\* The active tab is set and everybody who shows the workspace is told.
ActiveTabSet(o) ==
    /\ Answered /\ Processing(o, "setactive")
    /\ LET ws == el.wins[o].ws
           t  == InProcess(o).x
       IN  /\ ws \in DOMAIN be.ws /\ t \in ToSet(be.ws[ws].tabs)
           /\ be' = [be EXCEPT !.ws[ws].active = t]
           /\ controls' = Append(controls, [kind |-> "active", n |-> ws, x |-> t])
           /\ el' = Obtain(el, o, t)
    /\ UNCHANGED <<jobs, left, does>>

\* The new active tab is shown.
AfterClose(e, o, b) == Obtain(e, o, b.ws[e.wins[o].ws].active)
TabClosed(o) ==
    /\ Answered /\ Processing(o, "close")
    /\ LET ws == el.wins[o].ws
           t  == InProcess(o).x
           b  == DeleteTab(be, ws, t)
           e1 == [el EXCEPT !.removals = @ \cup {<<o, t>>}]
       IN  /\ ws \in DOMAIN be.ws /\ t \in ToSet(be.ws[ws].tabs)
           /\ IF b.ws[ws].tabs # <<>>
              THEN /\ be' = b /\ el' = AfterClose(e1, o, b)
                   /\ UNCHANGED <<controls, jobs>>
              ELSE /\ \E n \in WindowsOf(be, ws) :
                         /\ be' = CloseWindow(b, n)
                         /\ controls' = Append(controls, [kind |-> "close", n |-> n, x |-> 0])
                   /\ el' = Leave(closeWindow(e1, o), o)
                   /\ jobs' = jobs \o closeJobs(e1, o)
    /\ UNCHANGED <<left, does>>

\* Another window has the workspace, or this one has it already: nothing is
\* returned.  Otherwise the window's views go and it shows the workspace.
WorkspaceSwitched(o) ==
    /\ Answered /\ Processing(o, "switch")
    /\ LET n  == el.wins[o].id
           ws == InProcess(o).x
           e1 == removeAllChildViews(el, {o})
           e2 == [e1 EXCEPT !.wins[o].ws = ws, !.wins[o].loaded = <<>>]
       IN  /\ n \in DOMAIN be.win /\ ws \in DOMAIN be.ws
           /\ IF WindowsOf(be, ws) # {}
              THEN /\ el' = Leave(el, o) /\ UNCHANGED be
                   /\ controls' = IF be.win[n] = ws THEN controls
                                ELSE Append(controls, [kind |-> "focus", n |-> MinWin(WindowsOf(be, ws)), x |-> 0])
              ELSE /\ be' = DropWorkspace([be EXCEPT !.win[n] = ws], be.win[n], FALSE)
                   /\ el' = Obtain(e2, o, be.ws[ws].active)
                   /\ UNCHANGED controls
    /\ UNCHANGED <<jobs, left, does>>

\* The backend refuses: the error is caught and the entry dropped.
CallRefused(o) ==
    /\ Answered
    /\ LET ws == el.wins[o].ws IN
       \/ Processing(o, "create") /\ ws \notin DOMAIN be.ws
       \/ /\ el.wins[o].pc \in {"setactive", "close"}
          /\ ws \in DOMAIN be.ws => InProcess(o).x \notin ToSet(be.ws[ws].tabs)
       \/ Processing(o, "switch") /\ (el.wins[o].id \notin DOMAIN be.win \/ InProcess(o).x \notin DOMAIN be.ws)
    /\ el' = Shift(el, o)
    /\ UNCHANGED <<be, controls, jobs, left, does>>

\* The configuration has arrived and the tab gets its view.
ConfigArrives(o) ==
    /\ Answered /\ Processing(o, "config") /\ (el.hot # 0 \/ RoomForView(el))
    /\ \E e1 \in getSpareTab(el, el.wins[o].tab, el.wins[o].id) :
          el' = setTabViewIntoWindow(e1, o, SpareView(el), FALSE)
    /\ UNCHANGED <<be, controls, jobs, left, does>>

\* initializeTab after initPromise: a window that is destroyed throws.
InitResolved(o) ==
    /\ Quiet /\ Processing(o, "init") /\ el.views[el.wins[o].active].init
    /\ LET v == el.wins[o].active IN
       el' = IF ~el.wins[o].open THEN Shift(el, o)
             ELSE Goto([el EXCEPT !.views[v].opts = TRUE, !.views[v].told = TRUE], o, "ready")
    /\ UNCHANGED <<be, controls, jobs, left, does>>
ReadyResolved(o) ==
    /\ Quiet /\ Processing(o, "ready") /\ el.views[el.wins[o].active].ready
    /\ el' = Shift(el, o)
    /\ UNCHANGED <<be, controls, jobs, left, does>>
\* awaitWithDevTimeout gives up: the error is caught and the loop goes on.
InitTimeout(o) ==
    /\ Quiet /\ o \in DOMAIN el.wins /\ el.wins[o].pc \in {"init", "ready"}
    /\ "slow" \in does \/ ~Live(el, el.wins[o].active)
    /\ el' = Shift(el, o)
    /\ UNCHANGED <<be, controls, jobs, left, does>>

----------------------------------------------------------------------------
(* Pages and timers.                                                        *)

Page(v) ==
    /\ Quiet /\ v \in DOMAIN el.views
    /\ \/ Live(el, v) /\ ~el.views[v].init /\ el' = PageReady(el, v) /\ left' = left
       \/ Live(el, v) /\ el.views[v].told /\ ~el.views[v].ready /\ el' = PageDoraReady(el, v) /\ left' = left
       \/ Live(el, v) /\ el.views[v].opts /\ ~el.views[v].told /\ el' = PageReady(el, v) /\ left' = left
       \/ /\ "reload" \in does /\ left > 0 /\ Live(el, v) /\ el.views[v].ready /\ el.views[v].told
          /\ el' = PageReloads(el, v) /\ left' = left - 1
       \/ el.views[v].st = "closing" /\ el' = ContentsDestroyed(el, v) /\ left' = left
    /\ UNCHANGED <<be, controls, jobs, does>>

RemovalDue ==
    /\ Quiet
    /\ \E r \in el.removals :
          el' = removeTabView([el EXCEPT !.removals = @ \ {r}], r[1], r[2])
    /\ UNCHANGED <<be, controls, jobs, left, does>>

HotSpareDue ==
    /\ Quiet /\ el.hotTimer /\ RoomForView(el)
    /\ el' = ensureHotSpareTab(el)
    /\ UNCHANGED <<be, controls, jobs, left, does>>
=============================================================================

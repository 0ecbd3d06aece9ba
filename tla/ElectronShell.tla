--------------------------- MODULE ElectronShell ---------------------------
(***************************************************************************)
(* The Electron main process around its windows: what opens, closes and    *)
(* relaunches them (emain-window.ts, emain-dsh.ts), the requests of pages  *)
(* and menus, the events of the backend and the end of the application     *)
(* (emain.ts).                                                             *)
(*                                                                         *)
(* An asynchronous function is an entry of jobs that names what it awaits; *)
(* a job of kind K goes on when the answer to its last call has arrived.   *)
(***************************************************************************)
EXTENDS BrowserWindows

ASSUME ScenariosAssumption == \A s \in Scenarios : s.start \in Seq(1 .. 2)

Job(kind, n, o) == [kind |-> kind, n |-> n, o |-> o]
Awaits(i, kind) == Answered /\ i \in DOMAIN jobs /\ jobs[i].kind = kind
Others(i) == RemoveAt(jobs, i)
Becomes(i, job) == jobs' = [jobs EXCEPT ![i] = job]
JobEnds(i) == jobs' = Others(i)
WindowOfWorkspace(ws) == {el.map[n] : n \in {m \in DOMAIN el.map : el.wins[el.map[m]].ws = ws}}
WindowOfTab(t) == {el.map[n] : n \in {m \in DOMAIN el.map : t \in DOMAIN el.wins[el.map[m]].loaded}}
Idle(o) == el.wins[o].pc = "idle"
\* The user does something: while windows are being relaunched where the scenario
\* says so.
Spent ==
    /\ left > 0 /\ left' = left - 1
    /\ "early" \in does \/ \A i \in DOMAIN jobs : jobs[i].kind \notin {"relaunchwait", "relaunch"}

----------------------------------------------------------------------------
(* Opening a window.                                                        *)

RoomForWindow == Len(el.wins) < MaxBw
\* The constructor, and setActiveTab with the workspace's active tab.
Constructed(e, b, n) ==
    LET o  == Len(e.wins) + 1
        ws == b.win[n]
        e1 == [e EXCEPT !.wins = Append(@, NewWindow(n, ws)), !.map = With(@, n, o)]
    IN  IF b.ws[ws].active = 0 THEN e1 ELSE QueueAction(e1, o, Entry("switchtab", b.ws[ws].active, FALSE))
\* createBrowserWindow: no window, or one whose workspace is gone, is replaced by
\* a new window with a new workspace.
BackendForWindow(b, n) ==
    IF n \in DOMAIN b.win /\ b.win[n] \in DOMAIN b.ws THEN b
    ELSE LET b1 == NewWorkspace(CloseWindow(b, n)) IN NewBackendWindow(b1, b1.nws)
WindowFor(b, n) == IF n \in DOMAIN b.win /\ b.win[n] \in DOMAIN b.ws THEN n ELSE b.nwin + 1
RoomFor(n) == WindowFor(be, n) = n \/ (be.nwin < MaxWin /\ be.nws < MaxWs /\ be.tab < MaxTab)

createBrowserWindow(i) ==
    /\ Awaits(i, "open") /\ RoomForWindow /\ RoomFor(jobs[i].n)
    /\ be' = BackendForWindow(be, jobs[i].n)
    /\ el' = Constructed(el, be', WindowFor(be, jobs[i].n))
    /\ JobEnds(i)
    /\ UNCHANGED <<controls, left, does>>

\* createNewDoraWindow: the first window of the client's list is opened again if
\* there is none, unless it has gone meanwhile; otherwise a new one is made.
ClientDataArrives(i) ==
    /\ Awaits(i, "new")
    /\ Becomes(i, Job("newconfig", IF be.order = <<>> THEN 0 ELSE be.order[1], 0))
    /\ UNCHANGED <<el, be, controls, left, does>>
createNewDoraWindow(i) ==
    /\ Awaits(i, "newconfig")
    /\ Becomes(i, Job("open", IF DOMAIN el.map = {} THEN jobs[i].n ELSE 0, 0))
    /\ UNCHANGED <<el, be, controls, left, does>>

\* createWindowForWorkspace.
createWindowForWorkspace(i) ==
    /\ Awaits(i, "openws")
    /\ IF jobs[i].n \in DOMAIN be.ws
       THEN /\ be.nwin < MaxWin
            /\ be' = NewBackendWindow(be, jobs[i].n) /\ Becomes(i, Job("open", be.nwin + 1, 0))
       ELSE JobEnds(i) /\ UNCHANGED be
    /\ UNCHANGED <<el, controls, left, does>>

\* switchWorkspace: a workspace that no window has is opened in a new window if the
\* current one has no name and several tabs, which would be lost.
KeepsWorkspace(ws) == ws \in DOMAIN be.ws /\ ws \notin Named /\ Len(be.ws[ws].tabs) > 1
switchWorkspace(i) ==
    /\ Awaits(i, "switch")
    /\ LET o  == jobs[i].o
           ws == jobs[i].n
       IN  IF WindowsOf(be, ws) = {} /\ KeepsWorkspace(el.wins[o].ws)
           THEN Becomes(i, Job("openws", ws, 0)) /\ UNCHANGED el
           ELSE JobEnds(i) /\ el' = QueueAction(el, o, Entry("switchworkspace", ws, FALSE))
    /\ UNCHANGED <<be, controls, left, does>>
\* How a switch begins: not at all if the window shows the workspace.
SwitchJobs(o, ws) == IF el.wins[o].ws = ws THEN <<>> ELSE <<Job("switch", ws, o)>>

createWorkspace(i) ==
    /\ Awaits(i, "newws") /\ be.nws < MaxWs /\ be.tab < MaxTab
    /\ be' = NewWorkspace(be)
    /\ jobs' = Others(i) \o SwitchJobs(jobs[i].o, be.nws + 1)
    /\ UNCHANGED <<el, controls, left, does>>

\* "delete-workspace", once the user has agreed: the window goes on with a saved
\* workspace that no window has, and closes if there is none.
Unclaimed(b) == {ws \in DOMAIN b.ws \cap Named : WindowsOf(b, ws) = {}}
deleteWorkspace(i) ==
    /\ Awaits(i, "deletews")
    /\ LET o   == jobs[i].o
           ws  == jobs[i].n
           own == WindowsOf(be, ws)
           b   == DropWorkspace(be, ws, TRUE)
           to  == IF own = {} THEN {} ELSE Unclaimed(b)
           ends == own # {} /\ to = {}
       IN  /\ be' = IF ends THEN CloseWindow(b, MinWin(own)) ELSE b
           /\ controls' = IF ends THEN Append(controls, [kind |-> "close", n |-> MinWin(own), x |-> 0]) ELSE controls
           /\ IF el.wins[o].ws # ws THEN JobEnds(i) /\ UNCHANGED el
              ELSE IF to # {} THEN jobs' = Others(i) \o SwitchJobs(o, MinWin(to)) /\ UNCHANGED el
              ELSE el' = destroyWindow(el, o) /\ jobs' = Others(i) \o destroyJobs(el, o)
    /\ UNCHANGED <<left, does>>

----------------------------------------------------------------------------
(* Closing and relaunching.                                                 *)

\* The windows were counted before the configuration was fetched.
LastOne(i) == jobs[i].n <= 1 /\ SaveLastWindow
\* The rest of the "close" handler; the user may say no if tabs would be lost.
CloseConfirmed(i) ==
    /\ Awaits(i, "close")
    /\ LET o  == jobs[i].o
           e1 == [el EXCEPT !.wins[o].canClose = TRUE, !.wins[o].deleteAllowed = @ \/ ~LastOne(i)]
       IN  \/ el' = closeWindow(e1, o) /\ jobs' = Others(i) \o closeJobs(e1, o)
           \/ ~LastOne(i) /\ KeepsWorkspace(el.wins[o].ws) /\ JobEnds(i) /\ UNCHANGED el
    /\ UNCHANGED <<be, controls, left, does>>

CloseInBackend(i) ==
    /\ Awaits(i, "delete")
    /\ be' = CloseWindow(be, jobs[i].n) /\ JobEnds(i)
    /\ UNCHANGED <<el, controls, left, does>>

CloseAll(e, os) == ClosedAll(e, {o \in os : e.wins[o].open /\ ~AsksFirst(e, o)})
CloseAllJobs(e, os) == SetToSeq(UNION {ToSet(closeJobs(e, o)) : o \in os})

\* relaunchBrowserWindows: all windows close without a question ...
Relaunch ==
    /\ "relaunch" \in does /\ Quiet /\ Spent
    /\ LET e  == [el EXCEPT !.relaunching = TRUE]
           os == {el.map[n] : n \in DOMAIN el.map}
       IN  /\ el' = CloseAll(e, os)
           /\ jobs' = Append(jobs \o CloseAllJobs(e, os), Job("relaunchwait", 0, 0))
    /\ UNCHANGED <<be, controls, does>>
\* ... and after a while the client's windows are opened again, the last first.
RelaunchGoesOn(i) ==
    /\ Awaits(i, "relaunchwait")
    /\ el' = [el EXCEPT !.relaunching = FALSE]
    /\ Becomes(i, [kind |-> "relaunch", n |-> 0, o |-> 0, ids |-> Reverse(be.order)])
    /\ UNCHANGED <<be, controls, left, does>>
RelaunchOne(i) ==
    /\ Awaits(i, "relaunch")
    /\ jobs[i].o # 0 => Idle(jobs[i].o)
    /\ LET ids == jobs[i].ids IN
       \/ ids = <<>> /\ JobEnds(i) /\ UNCHANGED <<el, be>>
       \/ /\ ids # <<>> /\ ids[1] \notin DOMAIN be.win
          /\ be' = CloseWindow(be, ids[1])
          /\ Becomes(i, [jobs[i] EXCEPT !.ids = Tail(@), !.o = 0]) /\ UNCHANGED el
       \/ /\ ids # <<>> /\ ids[1] \in DOMAIN be.win /\ RoomForWindow /\ RoomFor(ids[1])
          /\ be' = BackendForWindow(be, ids[1])
          /\ el' = Constructed(el, be', WindowFor(be, ids[1]))
          /\ Becomes(i, [jobs[i] EXCEPT !.ids = Tail(@), !.o = Len(el'.wins)])
    /\ UNCHANGED <<controls, left, does>>

----------------------------------------------------------------------------
(* What pages, menus and the backend ask for.                               *)

Sender(v, o) == v \in DOMAIN el.views /\ Live(el, v) /\ el.views[v].ready /\ o \in WindowOfTab(el.views[v].tab)
KnownTabs(o) == IF el.wins[o].ws \in DOMAIN be.ws THEN ToSet(be.ws[el.wins[o].ws].tabs) ELSE {}

SetActiveTabIpc ==
    /\ "switchtab" \in does /\ Quiet /\ Spent
    /\ \E v \in DOMAIN el.views, o \in DOMAIN el.wins : \E t \in KnownTabs(o) :
          /\ Sender(v, o) /\ el' = QueueAction(el, o, Entry("switchtab", t, TRUE))
    /\ UNCHANGED <<be, controls, jobs, does>>
CreateTabIpc ==
    /\ "createtab" \in does /\ Quiet /\ Spent
    /\ \E v \in DOMAIN el.views, o \in DOMAIN el.wins :
          Sender(v, o) /\ el' = QueueAction(el, o, Entry("createtab", 0, FALSE))
    /\ UNCHANGED <<be, controls, jobs, does>>
\* close-tab finds the window by the workspace; the user may be asked first.
CloseTabIpc ==
    /\ "closetab" \in does /\ Quiet /\ Spent
    /\ \E ws \in DOMAIN be.ws : \E t \in ToSet(be.ws[ws].tabs), o \in WindowOfWorkspace(ws) :
          el' = QueueAction(el, o, Entry("closetab", t, FALSE))
    /\ UNCHANGED <<be, controls, jobs, does>>
SwitchWorkspaceIpc ==
    /\ "workspace" \in does /\ Quiet /\ Spent
    /\ \E v \in DOMAIN el.views, o \in DOMAIN el.wins, ws \in DOMAIN be.ws :
          Sender(v, o) /\ jobs' = jobs \o SwitchJobs(o, ws)
    /\ UNCHANGED <<el, be, controls, does>>
CreateWorkspaceIpc ==
    /\ "workspace" \in does /\ Quiet /\ Spent /\ be.nws < MaxWs
    /\ \E v \in DOMAIN el.views, o \in DOMAIN el.wins :
          Sender(v, o) /\ jobs' = Append(jobs, Job("newws", 0, o))
    /\ UNCHANGED <<el, be, controls, does>>
DeleteWorkspaceIpc ==
    /\ "deletews" \in does /\ Quiet /\ Spent
    /\ \E v \in DOMAIN el.views, o \in DOMAIN el.wins, ws \in DOMAIN be.ws :
          Sender(v, o) /\ jobs' = Append(jobs, Job("deletews", ws, o))
    /\ UNCHANGED <<el, be, controls, does>>
\* A second instance, the menu, a page or the dock ask for a window.
NewWindowAsked ==
    /\ "newwindow" \in does /\ Quiet /\ Spent
    /\ jobs' = Append(jobs, Job("new", 0, 0))
    /\ UNCHANGED <<el, be, controls, does>>
UserClosesWindow ==
    /\ "closewindow" \in does /\ Quiet /\ Spent
    /\ \E o \in DOMAIN el.wins :
          /\ el.wins[o].open
          /\ el' = closeWindow(el, o) /\ jobs' = jobs \o closeJobs(el, o)
    /\ UNCHANGED <<be, controls, does>>
ClearTabCache ==
    /\ "evict" \in does /\ Quiet /\ Spent
    /\ el' \in clearTabCache(el)
    /\ UNCHANGED <<be, controls, jobs, does>>

\* handleWSEvent.  A window to be focused is opened if it is not.
HandleWSEvent ==
    /\ Quiet /\ controls # <<>>
    /\ controls' = Tail(controls)
    /\ LET ev == controls[1] IN
       \/ /\ ev.kind = "active"
          /\ el' = IF WindowOfWorkspace(ev.n) = {} THEN el
                   ELSE QueueAction(el, MinWin(WindowOfWorkspace(ev.n)), Entry("switchtab", ev.x, FALSE))
          /\ UNCHANGED jobs
       \/ /\ ev.kind = "close"
          /\ IF ev.n \in DOMAIN el.map
             THEN /\ el' = destroyWindow(el, el.map[ev.n])
                  /\ jobs' = jobs \o destroyJobs(el, el.map[ev.n])
             ELSE UNCHANGED <<el, jobs>>
       \/ /\ ev.kind = "focus"
          /\ jobs' = IF ev.n \in DOMAIN el.map \/ ev.n \notin DOMAIN be.win THEN jobs
                     ELSE Append(jobs, Job("open", ev.n, 0))
          /\ UNCHANGED el
    /\ UNCHANGED <<be, left, does>>

\* The web socket is lost and back: events are lost, and every window is aligned
\* with its workspace.
Reconnect ==
    /\ "reconnect" \in does /\ Quiet /\ Spent
    /\ controls' = <<>>
    /\ jobs' = Append(jobs, [kind |-> "align", n |-> 0, o |-> 0,
                             ids |-> SetToSeq({el.map[n] : n \in DOMAIN el.map})])
    /\ UNCHANGED <<el, be, does>>
AlignOne(i) ==
    /\ Awaits(i, "align")
    /\ jobs[i].o # 0 => Idle(jobs[i].o)
    /\ IF jobs[i].ids = <<>> THEN JobEnds(i) /\ UNCHANGED el
       ELSE LET o  == jobs[i].ids[1]
                w  == el.wins[o]
                t  == IF w.ws \in DOMAIN be.ws THEN be.ws[w.ws].active ELSE 0
            IN  /\ Becomes(i, [jobs[i] EXCEPT !.ids = Tail(@), !.o = o])
                /\ el' = IF t = 0 \/ (w.active # 0 /\ el.views[w.active].tab = t) THEN el
                         ELSE QueueAction(el, o, Entry("switchtab", t, FALSE))
    /\ UNCHANGED <<be, controls, left, does>>

----------------------------------------------------------------------------
EmptyBackend == [ws |-> <<>>, win |-> <<>>, order |-> <<>>, tab |-> 0, nws |-> 0, nwin |-> 0]
\* One more window, with a workspace of its own that has one tab or two.
OneMore(b, tabs) ==
    LET w == NewWorkspace(b) IN NewBackendWindow(IF tabs = 2 THEN NewTab(w, w.nws) ELSE w, w.nws)
\* The backend as an earlier session left it: a window for each number of tabs.
Backend(start) ==
    LET b[k \in 0 .. Len(start)] == IF k = 0 THEN EmptyBackend ELSE OneMore(b[k - 1], start[k])
    IN  b[Len(start)]
ShellInit ==
    \E s \in Scenarios :
        LET b1 == Backend(s.start)
        IN  /\ be = b1
            /\ el = [views |-> <<>>, cache |-> <<>>, hot |-> 0, hotTimer |-> FALSE, wins |-> <<>>,
                     map |-> <<>>, removals |-> {}, relaunching |-> FALSE, quitting |-> FALSE,
                     installing |-> FALSE]
            /\ jobs = <<[kind |-> "relaunch", n |-> 0, o |-> 0, ids |-> Reverse(b1.order)]>>
            /\ controls = <<>> /\ left = s.size /\ does = s.ops

WindowStep(o) ==
    \/ TakeEntry(o) \/ TabCreated(o) \/ ActiveTabSet(o) \/ TabClosed(o) \/ WorkspaceSwitched(o)
    \/ CallRefused(o) \/ ConfigArrives(o) \/ InitResolved(o) \/ ReadyResolved(o) \/ InitTimeout(o)
JobStep(i) ==
    \/ createBrowserWindow(i) \/ ClientDataArrives(i) \/ createNewDoraWindow(i) \/ createWindowForWorkspace(i)
    \/ switchWorkspace(i) \/ createWorkspace(i) \/ deleteWorkspace(i) \/ CloseConfirmed(i) \/ CloseInBackend(i)
    \/ RelaunchGoesOn(i) \/ RelaunchOne(i) \/ AlignOne(i)
UserStep ==
    \/ SetActiveTabIpc \/ CreateTabIpc \/ CloseTabIpc \/ SwitchWorkspaceIpc \/ CreateWorkspaceIpc \/ DeleteWorkspaceIpc
    \/ NewWindowAsked \/ UserClosesWindow \/ ClearTabCache \/ Relaunch \/ Reconnect
ShellNext ==
    \/ \E o \in DOMAIN el.wins : WindowStep(o)
    \/ \E i \in DOMAIN jobs : JobStep(i)
    \/ \E v \in DOMAIN el.views : Page(v)
    \/ RemovalDue \/ HotSpareDue \/ HandleWSEvent \/ UserStep
\* Answers come, loops go on, timers fire: what the user asks for is left to the user.
ShellFairness ==
    /\ WF_winVars(\E o \in DOMAIN el.wins : WindowStep(o))
    /\ WF_winVars(\E i \in DOMAIN jobs : JobStep(i))
    /\ WF_winVars(\E v \in DOMAIN el.views : Page(v))
    /\ WF_winVars(HandleWSEvent)
ShellSpec == ShellInit /\ [][ShellNext]_winVars /\ ShellFairness

----------------------------------------------------------------------------
OpenWins == {o \in DOMAIN el.wins : el.wins[o].open}

\* One browser window for each window of the backend.
OneBrowserWindow == \A o, p \in OpenWins : el.wins[o].id = el.wins[p].id => o = p

\* A window that is not busy shows a live page, its own, which the cache finds.
ShowsLivePage ==
    \A o \in OpenWins : Idle(o) /\ el.wins[o].active # 0 =>
        LET v == el.wins[o].active
            t == el.views[v].tab
        IN  Live(el, v) /\ t \in DOMAIN el.cache /\ el.cache[t] = v /\ el.wins[o].loaded[t] = v

\* An action in the queue is in process or waits for one that is.
InProcessMeansRunning == \A o \in OpenWins : el.wins[o].queue # <<>> => ~Idle(o)

\* When everything has come to rest, a window shows the active tab of its workspace.
AtRest == /\ controls = <<>> /\ jobs = <<>> /\ Quiet
          /\ \A o \in OpenWins : el.wins[o].queue = <<>>
ShowsActiveTab ==
    AtRest => \A o \in OpenWins :
        /\ el.wins[o].ws \in DOMAIN be.ws
        /\ el.wins[o].active # 0
        /\ el.views[el.wins[o].active].tab = be.ws[el.wins[o].ws].active

\* A window may leave the client's list once its workspace is lost or is being deleted,
\* its last tab is being closed, or its BrowserWindow was closed for good.
MayGo(n) ==
    \/ be.win[n] \notin DOMAIN be.ws
    \/ \E i \in DOMAIN jobs : jobs[i].kind = "deletews" /\ jobs[i].n = be.win[n]
    \/ /\ Len(be.ws[be.win[n]].tabs) = 1
       /\ \E o \in DOMAIN el.wins : el.wins[o].pc = "close" /\ el.wins[o].ws = be.win[n]
    \/ \E o \in DOMAIN el.wins : el.wins[o].id = n /\ ~el.wins[o].open /\ el.wins[o].deleteAllowed
\* Only such windows do: a relaunch closes all windows and keeps them
\* (relaunchBrowserWindows, the "closed" handler of emain-window.ts).
OnlyClosedWindowsGo == [][\A n \in DOMAIN be.win \ DOMAIN be'.win : MayGo(n)]_winVars

\* Whatever fails on the way, every queue is worked off (processActionQueue's finally).
ComesToRest == <>[]AtRest

\* Every window has one BrowserWindow, and in it the live page of its active tab (the three above).
WindowsShow == OneBrowserWindow /\ ShowsLivePage /\ ShowsActiveTab
=============================================================================

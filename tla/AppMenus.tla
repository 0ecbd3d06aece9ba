------------------------------- MODULE AppMenus -------------------------------
(***************************************************************************)
(* The application's menu and the context menus (emain/emain-menu.ts,      *)
(* emain/emain.ts, emain/emain-util.ts, frontend/app/store/contextmenu.ts, *)
(* frontend/dora.ts): the menu is made again, from two answers of the      *)
(* server, when a workspace or the number of windows changes; a page keeps *)
(* the handlers of the context menu it asked for, and the main process     *)
(* tells what was clicked to the page that is active in the window.        *)
(*                                                                         *)
(* The server (pkg/dcore/workspace.go) changes the list of workspaces and  *)
(* publishes an event in two steps; of a new workspace it publishes first. *)
(*                                                                         *)
(* External: the server's answers, in any order; Electron, which tells a   *)
(* click before it tells that the menu was closed, and keeps the messages  *)
(* to a page in order; Chromium, which zooms all pages of one origin alike.*)
(***************************************************************************)
EXTENDS Integers, SequencesExt

CONSTANTS
    MenuPages,      \* pages of the window, each a tab's
    MenuShapes,     \* context menus: for each item that is no submenu, has it a click?
    MaxMenus,       \* bound on the context menus
    MaxSpaces,      \* bound on the changes of workspaces and windows
    MaxBuilds,      \* bound on the builds of the menu under way
    Darwin          \* is it macOS?

ASSUME PagesAssumption == 0 \notin MenuPages
ASSUME ShapesAssumption == \A shape \in MenuShapes : "none" \notin DOMAIN shape /\ shape \in [DOMAIN shape -> BOOLEAN]

VARIABLES
    server,    \* [spaces: version of the list of workspaces, count: how many there are, due: changes
               \*  whose event is to be published, unnamed: new ones that are not listed yet,
               \*  unheard: how many were listed since an event was last published]
    events,    \* [spaces: workspace:update events under way, windows: "windows-updated" events that are due,
               \*  flapped: did windows come and go before theirs, with a build begun between?]
    windows,   \* number of windows
    lastCount, \* lastDoraWindowCount
    builds,    \* makeFullAppMenu under way: [pc, windows, count, spaces], in the order they began
    appMenu,   \* the application's menu: [build: the one that made it, windows, count, spaces: -1 without]
    built,     \* number of builds begun
    newest,    \* the latest build that set its menu
    activePage,\* the page that is active in the window, or 0
    pages,     \* each page's ContextMenuModel: [handlers: ids, opts: the menu they are of, or 0]
    requests,      \* contextmenu-show messages of each page: [n, shape]
    open,      \* native menus: [page: whose webContents, clicked: hasClick]
    tells,     \* contextmenu-click messages to each page: [n: of which menu, id: the item, or "none"]
    popups,     \* what each menu is: [page, shape]
    clicks,    \* what was clicked: <<n, item>>
    ran,       \* whose click ran
    closes,    \* what each menu's onClose was told
    crossed,   \* menus that another came across, or whose page was not the active one
    zoom       \* [factor: in tenths, told: messages to each page, pages: what each page goes by]

buildVars == <<server, events, windows, lastCount, builds, appMenu, built, newest>>
menuVars2 == <<pages, requests, open, tells, popups, clicks, ran, closes, crossed>>
appMenuVars == <<buildVars, activePage, menuVars2, zoom>>

----------------------------------------------------------------------------
(* What the menu holds: <<label, accelerator>>; an accelerator is a set of *)
(* modifiers and a key, or none                                            *)

None == <<>>
Accel(modifiers, key) == <<modifiers, key>>
CommandOrControl == IF Darwin THEN "Command" ELSE "Control"
OnDarwin(modifiers, key) == IF Darwin THEN Accel(modifiers, key) ELSE None

makeAppMenuItems ==
    {<<"About Dora Terminal", None>>, <<"Check for Updates", None>>, <<"quit", Accel({CommandOrControl}, "Q")>>}
    \cup (IF Darwin THEN {<<"services", None>>, <<"hide", Accel({"Command"}, "H")>>, <<"hideOthers", Accel({"Command", "Alt"}, "H")>>} ELSE {})
\* Without a window the keys that make blocks and tabs make one.
makeFileMenu(n) ==
    {<<"New Window", Accel({CommandOrControl, "Shift"}, "N")>>, <<"close", None>>}
    \cup (IF n = 0
          THEN {<<"New Window (hidden-1)", Accel({IF Darwin THEN "Command" ELSE "Alt"}, "N")>>,
                <<"New Window (hidden-2)", Accel({IF Darwin THEN "Command" ELSE "Alt"}, "T")>>}
          ELSE {})
makeEditMenu ==
    {<<"undo", OnDarwin({"Command"}, "Z")>>, <<"redo", OnDarwin({"Command", "Shift"}, "Z")>>, <<"cut", OnDarwin({"Command"}, "X")>>,
     <<"copy", OnDarwin({"Command"}, "C")>>, <<"paste", Accel({IF Darwin THEN "Command" ELSE "Control"}, "V")>>,
     <<"pasteAndMatchStyle", OnDarwin({"Command", "Shift"}, "V")>>, <<"delete", None>>, <<"selectAll", OnDarwin({"Command"}, "A")>>}
makeViewMenu ==
    {<<"Reload Tab", Accel({CommandOrControl, "Shift"}, "R")>>, <<"Relaunch All Windows", None>>, <<"Clear Tab Cache", None>>,
     <<"Toggle DevTools", Accel(IF Darwin THEN {"Alt", "Command"} ELSE {"Alt", "Shift"}, "I")>>,
     <<"Reset Zoom", Accel({CommandOrControl}, "0")>>, <<"Zoom In", Accel({CommandOrControl}, "=")>>,
     <<"Zoom In (hidden)", Accel({CommandOrControl, "Shift"}, "=")>>, <<"Zoom Out", Accel({CommandOrControl}, "-")>>,
     <<"Zoom Out (hidden)", Accel({CommandOrControl, "Shift"}, "-")>>, <<"On", None>>, <<"Off", None>>,
     <<"togglefullscreen", IF Darwin THEN Accel({"Control", "Command"}, "F") ELSE Accel({}, "F11")>>, <<"Toggle Widgets Bar", None>>}
Digits == <<"1", "2", "3", "4", "5", "6", "7", "8", "9">>
getWorkspaceMenu(count) ==
    {<<"Create Workspace", None>>}
    \cup {<<"workspace", i, IF i > 9 THEN None ELSE Accel({"Control", IF Darwin THEN "Command" ELSE "Alt"}, Digits[i])>> : i \in 1..count}
MenuItems(m) ==
    makeAppMenuItems \cup makeFileMenu(m.windows) \cup makeEditMenu \cup makeViewMenu
    \cup (IF m.spaces = -1 THEN {} ELSE getWorkspaceMenu(m.count)) \cup {<<"minimize", None>>, <<"zoom", None>>, <<"front", None>>}

----------------------------------------------------------------------------
(* Making it *)

\* makeAndSetAppMenu; there is none on Windows.
Begun(before) == Append(before, [pc |-> "config", n |-> built + 1, windows |-> windows, count |-> 0, spaces |-> -1])
\* The configuration came, or did not: the list is asked for.
ConfigAnswers(i) ==
    /\ builds[i].pc = "config"
    /\ builds' = [builds EXCEPT ![i].pc = "list"]
    /\ UNCHANGED <<server, events, windows, lastCount, appMenu, built, newest, activePage, menuVars2, zoom>>
\* The server reads its list.
ListRead(i) ==
    /\ builds[i].pc = "list"
    /\ builds' = [builds EXCEPT ![i].pc = "answered", ![i].spaces = server.spaces, ![i].count = server.count]
    /\ UNCHANGED <<server, events, windows, lastCount, appMenu, built, newest, activePage, menuVars2, zoom>>
\* The answer comes, or an error does: the menu is made and set.
SetApplicationMenu(i) ==
    /\ builds[i].pc \in {"list", "answered"}
    /\ appMenu' = [build |-> builds[i].n, windows |-> builds[i].windows, count |-> builds[i].count, spaces |-> builds[i].spaces]
    /\ newest' = IF builds[i].n > newest THEN builds[i].n ELSE newest
    /\ builds' = RemoveAt(builds, i)
    /\ UNCHANGED <<server, events, windows, lastCount, built, activePage, menuVars2, zoom>>

\* UpdateWorkspace, DeleteWorkspace or UpdateObject has written a change of the list ...
SpacesChange(count) ==
    /\ server.spaces + server.unnamed < MaxSpaces
    /\ server' = [server EXCEPT !.spaces = @ + 1, !.count = count, !.due = @ + 1]
    /\ UNCHANGED <<events, windows, lastCount, builds, appMenu, built, newest, activePage, menuVars2, zoom>>
PublishesUpdate(srv) ==
    /\ server' = [srv EXCEPT !.unheard = 0]
    /\ events' = [events EXCEPT !.spaces = @ + 1]
    /\ UNCHANGED <<windows, lastCount, builds, appMenu, built, newest, activePage, menuVars2, zoom>>
\* ... and publishes its event.
ChangePublished == server.due > 0 /\ PublishesUpdate([server EXCEPT !.due = @ - 1])
\* A new workspace has no name, so it is not listed when its event is published ...
CreateWorkspace ==
    /\ server.spaces + server.unnamed < MaxSpaces
    /\ PublishesUpdate([server EXCEPT !.unnamed = @ + 1])
\* ... but after it has name, icon and color.
NamesWorkspace ==
    /\ server.unnamed > 0
    /\ server' = [server EXCEPT !.unnamed = @ - 1, !.spaces = @ + 1, !.count = @ + 1, !.unheard = @ + 1]
    /\ UNCHANGED <<events, windows, lastCount, builds, appMenu, built, newest, activePage, menuVars2, zoom>>
\* workspace:update
SpacesEvent ==
    /\ events.spaces > 0 /\ Len(builds) < MaxBuilds
    /\ events' = [events EXCEPT !.spaces = @ - 1, !.flapped = FALSE]
    /\ builds' = Begun(builds) /\ built' = built + 1
    /\ UNCHANGED <<server, windows, lastCount, appMenu, newest, activePage, menuVars2, zoom>>
\* A window is made or closed; "windows-updated" follows 50 ms later.
WindowsChange(n) ==
    /\ built + events.windows + events.spaces < MaxSpaces + 1
    /\ n \in {windows - 1, windows + 1} \cap 0..2
    /\ windows' = n
    /\ events' = [events EXCEPT !.windows = @ + 1]
    /\ UNCHANGED <<server, lastCount, builds, appMenu, built, newest, activePage, menuVars2, zoom>>
\* Mutant: the menu is not made again when the last window is closed.
WindowsEventMakes(n) == n # lastCount /\ n # 0
WindowsEventMakesMenu(n) == n # lastCount
WindowsEvent ==
    /\ events.windows > 0
    /\ events' = [events EXCEPT !.windows = @ - 1,
                                !.flapped = windows = lastCount /\ (@ \/ \E m \in Range(builds) \cup {appMenu} : m.windows # windows)]
    /\ lastCount' = windows
    /\ IF WindowsEventMakesMenu(windows)
       THEN Len(builds) < MaxBuilds /\ builds' = Begun(builds) /\ built' = built + 1
       ELSE UNCHANGED <<builds, built>>
    /\ UNCHANGED <<server, windows, appMenu, newest, activePage, menuVars2, zoom>>

----------------------------------------------------------------------------
(* Context menus *)

\* _convertAndRegisterMenu gives every item an id of its own; those with a click are kept.
Registered2(n, shape) == {<<n, item>> : item \in {i \in DOMAIN shape : shape[i]}}
showContextMenu(p, shape) ==
    LET n == Len(popups) + 1
    IN  /\ n <= MaxMenus
        /\ popups' = Append(popups, [page |-> p, shape |-> shape])
        /\ pages' = [pages EXCEPT ![p] = [handlers |-> Registered2(n, shape), opts |-> n]]
        /\ requests' = [requests EXCEPT ![p] = Append(@, n)]
        /\ closes' = Append(closes, <<>>)
        /\ crossed' = crossed \cup (IF pages[p].opts # 0 THEN {n, pages[p].opts} ELSE {})
        /\ UNCHANGED <<buildVars, activePage, open, tells, clicks, ran, zoom>>

Tell(p, n, id) == tells' = [tells EXCEPT ![p] = Append(@, [n |-> n, id |-> id])]
\* contextmenu-show: the menu is of the window's active page; without one it is dropped.
ContextMenuShow(p) ==
    /\ requests[p] # <<>>
    /\ requests' = [requests EXCEPT ![p] = Tail(@)]
    /\ LET n == Head(requests[p])
       IN  /\ IF activePage # 0 /\ DOMAIN popups[n].shape = {} THEN Tell(activePage, n, "none") ELSE UNCHANGED tells
           /\ open' = IF activePage # 0 /\ DOMAIN popups[n].shape # {} THEN [m \in DOMAIN open \cup {n} |-> IF m = n THEN [page |-> activePage, clicked |-> FALSE] ELSE open[m]] ELSE open
           /\ crossed' = crossed \cup (IF activePage # p THEN {n} ELSE {})
    /\ UNCHANGED <<buildVars, activePage, pages, popups, clicks, ran, closes, zoom>>
ClickItem(n, item) ==
    /\ n \in DOMAIN open /\ ~open[n].clicked
    /\ open' = [open EXCEPT ![n].clicked = TRUE]
    /\ clicks' = clicks \cup {<<n, item>>}
    /\ Tell(open[n].page, n, item)
    /\ UNCHANGED <<buildVars, activePage, pages, requests, popups, ran, closes, crossed, zoom>>
MenuCloses(n) ==
    /\ n \in DOMAIN open
    /\ open' = [m \in DOMAIN open \ {n} |-> open[m]]
    /\ IF ~open[n].clicked THEN Tell(open[n].page, n, "none") ELSE UNCHANGED tells
    /\ UNCHANGED <<buildVars, activePage, pages, requests, popups, clicks, ran, closes, crossed, zoom>>

\* The page: every message takes the handlers and the options it has.
handleContextMenuClick(p) ==
    LET told == Head(tells[p])
        opts == pages[p].opts
        found == told.id # "none" /\ <<told.n, told.id>> \in pages[p].handlers
    IN  /\ tells[p] # <<>>
        /\ tells' = [tells EXCEPT ![p] = Tail(@)]
        /\ pages' = [pages EXCEPT ![p] = [handlers |-> {}, opts |-> 0]]
        /\ ran' = IF found THEN Append(ran, <<told.n, told.id>>) ELSE ran
        /\ closes' = IF opts = 0 THEN closes ELSE [closes EXCEPT ![opts] = Append(@, IF found THEN told.id ELSE "none")]
        /\ crossed' = crossed \cup (IF opts # told.n THEN {opts, told.n} ELSE {})
        /\ UNCHANGED <<buildVars, activePage, requests, open, popups, clicks, zoom>>

ActivateTab(p) ==
    /\ p # activePage
    /\ activePage' = p
    /\ UNCHANGED <<buildVars, menuVars2, zoom>>

----------------------------------------------------------------------------
(* Zooming, of the menu's window or of the page that the menu was made for *)

MinZoomLevel == 4
MaxZoomLevel == 26
ZoomDelta == 2
increaseZoomLevel(z) == IF z + ZoomDelta > MaxZoomLevel THEN MaxZoomLevel ELSE z + ZoomDelta
decreaseZoomLevel(z) == IF z - ZoomDelta < MinZoomLevel THEN MinZoomLevel ELSE z - ZoomDelta
\* setZoomFactor, and broadcastZoomFactorChanged.
ClickZoom(factor) ==
    /\ activePage # 0
    /\ \A p \in MenuPages : Len(zoom.told[p]) < 2
    /\ zoom' = [zoom EXCEPT !.factor = factor, !.told = [p \in MenuPages |-> Append(@[p], factor)]]
    /\ UNCHANGED <<buildVars, activePage, menuVars2>>
updateZoomFactor(p) ==
    /\ zoom.told[p] # <<>>
    /\ zoom' = [zoom EXCEPT !.told[p] = Tail(@), !.pages[p] = Head(zoom.told[p])]
    /\ UNCHANGED <<buildVars, activePage, menuVars2>>
\* A page is loaded again: it asks for the factor; what was sent to it is gone.
PageZoomLoads(p) ==
    /\ zoom' = [zoom EXCEPT !.told[p] = <<>>, !.pages[p] = zoom.factor]
    /\ UNCHANGED <<buildVars, activePage, menuVars2>>

AppMenuInit ==
    /\ server = [spaces |-> 0, count |-> 1, due |-> 0, unnamed |-> 0, unheard |-> 0]
    /\ events = [spaces |-> 0, windows |-> 0, flapped |-> FALSE]
    /\ windows = 1 /\ lastCount = 1 /\ builds = <<>> /\ built = 0 /\ newest = 0
    /\ appMenu = [build |-> 0, windows |-> 1, count |-> 1, spaces |-> 0]
    /\ activePage \in MenuPages
    /\ pages = [p \in MenuPages |-> [handlers |-> {}, opts |-> 0]]
    /\ requests = [p \in MenuPages |-> <<>>] /\ tells = [p \in MenuPages |-> <<>>]
    /\ open = <<>> /\ popups = <<>> /\ clicks = {} /\ ran = <<>> /\ closes = <<>> /\ crossed = {}
    /\ zoom = [factor |-> 10, told |-> [p \in MenuPages |-> <<>>], pages |-> [p \in MenuPages |-> 10]]

Building ==
    \/ \E count \in {2, 10} : SpacesChange(count)
    \/ ChangePublished \/ CreateWorkspace \/ NamesWorkspace \/ SpacesEvent \/ WindowsEvent
    \/ \E n \in 0..2 : WindowsChange(n)
    \/ \E i \in DOMAIN builds : ConfigAnswers(i) \/ ListRead(i) \/ SetApplicationMenu(i)
ContextMenus ==
    \/ \E p \in MenuPages : ContextMenuShow(p) \/ handleContextMenuClick(p) \/ \E shape \in MenuShapes : showContextMenu(p, shape)
    \/ \E n \in DOMAIN open : MenuCloses(n) \/ \E item \in DOMAIN popups[n].shape : ClickItem(n, item)
    \/ \E p \in MenuPages \cup {0} : ActivateTab(p)
Zooming ==
    \/ \E factor \in {increaseZoomLevel(zoom.factor), decreaseZoomLevel(zoom.factor), 10} : ClickZoom(factor)
    \/ \E p \in MenuPages : updateZoomFactor(p) \/ PageZoomLoads(p)
AppMenuNext == Building \/ ContextMenus \/ Zooming
AppMenuSpec == AppMenuInit /\ [][AppMenuNext]_appMenuVars

----------------------------------------------------------------------------
\* The list of version v lacks no more than the new workspaces that no event followed.
Knows(v) == v <= server.spaces /\ server.spaces <= v + server.unheard
\* Once all is answered, the menu lists the workspaces there are (or none, when
\* the list failed) but for new ones that were named after the last event, and
\* has the keys of a window only without one, unless a build came in after the
\* latest, or was begun while a window came and went.
MenuCurrent ==
    (builds = <<>> /\ server.due = 0 /\ events.spaces = 0 /\ events.windows = 0) =>
        \/ appMenu.build # newest \/ events.flapped
        \/ /\ appMenu.spaces = -1 \/ Knows(appMenu.spaces)
           /\ appMenu.windows = windows
\* No two items of a menu that was built have the same accelerator.
AcceleratorsApart ==
    LET items == IF appMenu.build = 0 THEN {} ELSE MenuItems(appMenu)
    IN  \A i, j \in items : (i # j /\ i[Len(i)] # None) => i[Len(i)] # j[Len(j)]
\* A click runs once, and only of the item that was clicked; a menu's end is told
\* at most once; when no other menu came across, exactly once and as it was.
ClicksRun ==
    /\ \A i, j \in DOMAIN ran : ran[i] \in clicks /\ (ran[i] = ran[j] => i = j)
    /\ \A n \in DOMAIN closes :
           /\ Len(closes[n]) <= 1
           /\ closes[n] # <<>> /\ n \notin crossed =>
                 /\ closes[n][1] # "none" <=> \E c \in clicks : c[1] = n /\ popups[n].shape[c[2]]
                 /\ closes[n][1] # "none" => <<n, closes[n][1]>> \in Range(ran)
    /\ (open = <<>> /\ \A p \in MenuPages : requests[p] = <<>> /\ tells[p] = <<>>) =>
           \A n \in DOMAIN popups \ crossed : closes[n] # <<>>
\* A page that was told everything goes by the factor that is set, which has bounds.
ZoomAgrees ==
    /\ zoom.factor \in MinZoomLevel..MaxZoomLevel
    /\ \A p \in MenuPages : zoom.told[p] = <<>> => zoom.pages[p] = zoom.factor
\* The menus tell what there is, and do what is clicked.
MenusTell == MenuCurrent /\ AcceleratorsApart /\ ClicksRun /\ ZoomAgrees
=============================================================================

-------------------------------- MODULE TabBar --------------------------------
(***************************************************************************)
(* The bars in which the tabs of a workspace are shown and moved           *)
(* (frontend/app/tab/tabbar.tsx, vtabbar.tsx, tab.tsx).  Every tab's page  *)
(* has a bar of its own over its own copy of the workspace.  The bar at    *)
(* the top moves tabs in the array that is the copy while a tab is         *)
(* dragged, and sends the array 300 ms after it is let go; the one at the  *)
(* left sends a new array when it is dropped.                              *)
(*                                                                         *)
(* External: the backend, which takes the order it is sent as it is, makes *)
(* and deletes tabs, and sends the workspace to all pages.                 *)
(***************************************************************************)
EXTENDS Integers, SequencesExt

CONSTANTS
    Pages2,     \* the pages that are loaded
    TabIds,     \* the tabs there may be
    MaxDrags,   \* bound on drags
    MaxChanges, \* bound on tabs made and deleted
    CalmTabs    \* are tabs only made and deleted when no order is under way?

VARIABLES
    order,   \* the workspace's tabids in the backend
    copies,  \* per page: the array in its object store
    bars,    \* per page: the tabs shown, tabIds or orderedTabIds
    drag,    \* the drag under way: [page, tab, at: tabIndex, ids: the array of its handlers, live: is it the
             \*  page's present array?, dragged]; page = NoPage when there is none
    late,    \* per page: the array setUpdatedTabsDebounced will send, and whether it is the present one
    orders,  \* UpdateWorkspaceTabIds calls under way
    wsNews,  \* per page: workspaces on their way
    drags, tabChanges,
    left     \* is the bar at the left? (app:tabbar)
barVars == <<order, copies, bars, drag, late, orders, wsNews, drags, tabChanges, left>>

NoPage == 0 \* not the number of a page
NoDrag == [page |-> NoPage, tab |-> "", at |-> 0, ids |-> <<>>, live |-> FALSE, dragged |-> FALSE]
NotLate == [on |-> FALSE, ids |-> <<>>, live |-> FALSE]
Broadcast(ids) == [p \in Pages2 |-> Append(wsNews[p], ids)]

----------------------------------------------------------------------------
(* Moving a tab in an array *)

\* reorder: a tab dropped before position to, which shifts when it is taken out before it.
Moved(ids, from, to) ==
    LET at == IF from < to THEN to - 1 ELSE to IN InsertAt(RemoveAt(ids, from), at, ids[from])
\* handleMouseMove: the dragged tab is taken out and put in at its new index.
Spliced(ids, tab, at) == InsertAt(Remove(ids, tab), at, tab)

----------------------------------------------------------------------------
(* tabbar.tsx *)

handleDragStart(p, t) ==
    /\ ~left /\ drag = NoDrag /\ drags < MaxDrags
    /\ drag' = [page |-> p, tab |-> t, at |-> SelectInSeq(bars[p], LAMBDA x : x = t), ids |-> bars[p],
                live |-> TRUE, dragged |-> FALSE]
    /\ drags' = drags + 1
    /\ UNCHANGED <<order, copies, bars, late, orders, wsNews, tabChanges, left>>
\* Mutant: a tab is moved before the drag counts.
CountsNot(at) == at > 2
\* A move of 50 pixels or more counts as a drag; one past half a tab, which is more, moves it.
Counts(at) == TRUE
handleMouseMove(at) ==
    LET p == drag.page
        ids == Spliced(drag.ids, drag.tab, at)
    IN
    /\ ~left /\ drag # NoDrag
    /\ at \in DOMAIN drag.ids /\ at # drag.at
    /\ drag' = [drag EXCEPT !.at = at, !.ids = ids, !.dragged = @ \/ Counts(at)]
    /\ IF drag.live
       THEN /\ copies' = [copies EXCEPT ![p] = ids]
            /\ bars' = [bars EXCEPT ![p] = ids]
            /\ late' = [late EXCEPT ![p].ids = IF late[p].live THEN ids ELSE @]
       ELSE UNCHANGED <<copies, bars, late>>
    /\ UNCHANGED <<order, orders, wsNews, drags, tabChanges, left>>
handleMouseUp ==
    /\ ~left /\ drag # NoDrag
    /\ late' = IF drag.dragged THEN [late EXCEPT ![drag.page] = [on |-> TRUE, ids |-> drag.ids, live |-> drag.live]]
               ELSE late
    /\ drag' = NoDrag
    /\ UNCHANGED <<order, copies, bars, orders, wsNews, drags, tabChanges, left>>
setUpdatedTabsDebounced(p) ==
    /\ late[p].on
    /\ orders' = Append(orders, late[p].ids)
    /\ late' = [late EXCEPT ![p] = NotLate]
    /\ UNCHANGED <<order, copies, bars, drag, wsNews, drags, tabChanges, left>>

----------------------------------------------------------------------------
(* vtabbar.tsx *)

DropTab(p, t, to) ==
    LET from == SelectInSeq(bars[p], LAMBDA x : x = t)
        ids == Moved(bars[p], from, to)
    IN
    /\ left /\ drags < MaxDrags
    /\ ids # bars[p]
    /\ bars' = [bars EXCEPT ![p] = ids]
    /\ orders' = Append(orders, ids)
    /\ drags' = drags + 1
    /\ UNCHANGED <<order, copies, drag, late, wsNews, tabChanges, left>>

\* The effects of both bars: a new workspace replaces what is shown; a drag goes on with
\* the array it began with.
WorkspaceArrives(p) ==
    /\ wsNews[p] # <<>>
    /\ copies' = [copies EXCEPT ![p] = Head(wsNews[p])]
    /\ bars' = [bars EXCEPT ![p] = Head(wsNews[p])]
    /\ wsNews' = [wsNews EXCEPT ![p] = Tail(@)]
    /\ drag' = IF drag.page = p THEN [drag EXCEPT !.live = FALSE] ELSE drag
    /\ late' = [late EXCEPT ![p].live = FALSE]
    /\ UNCHANGED <<order, orders, drags, tabChanges, left>>

----------------------------------------------------------------------------
(* External: the backend. *)

UpdateWorkspaceTabIds ==
    /\ orders # <<>>
    /\ order' = Head(orders)
    /\ orders' = Tail(orders)
    /\ wsNews' = Broadcast(order')
    /\ UNCHANGED <<copies, bars, drag, late, drags, tabChanges, left>>
Underway == drag # NoDrag \/ orders # <<>> \/ \E p \in Pages2 : late[p].on
ChangeTabs(ids) ==
    /\ tabChanges < MaxChanges
    /\ CalmTabs => ~Underway
    /\ order' = ids
    /\ wsNews' = Broadcast(ids)
    /\ tabChanges' = tabChanges + 1
    /\ UNCHANGED <<copies, bars, drag, late, orders, drags, left>>
CreateTab(t) == t \notin ToSet(order) /\ ChangeTabs(Append(order, t))
CloseTab(t) == t \in ToSet(order) /\ Len(order) > 1 /\ ChangeTabs(Remove(order, t))
\* A drag with the bar of a page that has not got the workspace's tabs yet is not begun.
UpToDate(p) == CalmTabs => wsNews[p] = <<>>

BarInit ==
    /\ \E t \in TabIds : order = SetToSeq(TabIds \ {t})
    /\ copies = [p \in Pages2 |-> order] /\ bars = copies
    /\ drag = NoDrag /\ late = [p \in Pages2 |-> NotLate]
    /\ orders = <<>> /\ wsNews = [p \in Pages2 |-> <<>>]
    /\ drags = 0 /\ tabChanges = 0 /\ left \in BOOLEAN
BarNext ==
    \/ handleMouseUp \/ UpdateWorkspaceTabIds
    \/ \E at \in 1..Cardinality(TabIds) : handleMouseMove(at)
    \/ \E p \in Pages2 :
        \/ setUpdatedTabsDebounced(p) \/ WorkspaceArrives(p)
        \/ UpToDate(p) /\ \E t \in ToSet(bars[p]) :
            handleDragStart(p, t) \/ \E to \in 1..Len(bars[p]) + 1 : DropTab(p, t, to)
    \/ \E t \in TabIds : CreateTab(t) \/ CloseTab(t)
BarSpec == BarInit /\ [][BarNext]_barVars

----------------------------------------------------------------------------
(* Properties *)

BarsSettled == ~Underway /\ \A p \in Pages2 : wsNews[p] = <<>>
\* When all has arrived every page shows the tabs in the order that is stored, also when
\* drags overlapped the orders sent before them and the array was changed under the copy
\* (tabbar.tsx:94-105, 350-376, 380-424; vtabbar.tsx:271-290).
BarsAgree == BarsSettled => \A p \in Pages2 : bars[p] = order /\ copies[p] = order
=============================================================================

------------------------------- MODULE PageFocus -------------------------------
(***************************************************************************)
(* The focus of a tab's page (frontend/app/block/block.tsx,                *)
(* app/store/focusManager.ts, keymodel.ts, global.ts, app/element/         *)
(* search.tsx): the focused node of the layout, which commands and keys    *)
(* act on, and the element that has the browser's focus, which is typed    *)
(* into.  Each pulls the other after it: a focused node takes the focus    *)
(* when React commits, an element that is focused makes its node focused.  *)
(*                                                                         *)
(* External: the layout, which focuses, adds and removes nodes, and the    *)
(* browser.  Of what happens between a change of the focused node and its  *)
(* commit only the timers are modelled, and nothing is selected outside    *)
(* the focused element.                                                    *)
(***************************************************************************)
EXTENDS Integers, FiniteSets

CONSTANTS
    Panes,     \* the blocks
    MaxMoves,  \* bound on what the user and the backend do
    Body       \* the browser's focus when no element has it
ASSUME FocusAssumption == Body \notin Panes

VARIABLES
    panes,    \* the blocks of the tab, all of them terminals
    node,     \* the block of the layout's focused node, Body when there is none
    seen,     \* the one of the last commit: isFocused of each block
    clicked,  \* blocks whose blockClicked is set
    dom,      \* the element with the browser's focus: [at: "block", "search", "modal" or "body", of: its block]
    finding,  \* blocks whose search is open
    dialogs,  \* modals open
    wakes,    \* timers set: for refocusNode of a block; Body: for globalRefocus
    moves
focusVars == <<panes, node, seen, clicked, dom, finding, dialogs, wakes, moves>>

NoElement == [at |-> "body", of |-> Body]
In(b) == [at |-> "block", of |-> b]
SearchOf(b) == [at |-> "search", of |-> b]
Committed0 == seen = node /\ clicked = {}
Act == moves < MaxMoves /\ Committed0 /\ moves' = moves + 1
UserActs == Act /\ dialogs = 0

\* Mutant: a focused element does not focus its block.
handleChildFocusNot(e, n) == n
\* handleChildFocus, also for the search box, which is in a portal but below the block for
\* React: an element of a block that was not focused when it was last rendered.
handleChildFocus(e, n) == IF e.at \in {"block", "search"} /\ seen # e.of THEN e.of ELSE n

\* term-model.ts: while its search is open a terminal is not focused, and says it was.
giveFocus(b) == IF b \in finding THEN dom ELSE In(b)
\* The element is focused, and the node is n unless the focused element changes it.
Focuses(e, n) ==
    /\ dom' = e
    /\ node' = IF e # dom THEN handleChildFocus(e, n) ELSE n

----------------------------------------------------------------------------
(* block.tsx *)

\* The layout effects of a commit.  A block that became focused is treated as clicked; a
\* clicked block takes the focus unless it has it, and focuses its node.
BecomesClicked == IF seen # node /\ node # Body THEN {node} ELSE {}
Target(b) == IF dom = In(b) THEN dom ELSE giveFocus(b)
Commit ==
    /\ ~Committed0
    /\ seen' = node
    /\ clicked' = BecomesClicked \ clicked
    /\ IF clicked = {} THEN UNCHANGED <<node, dom>>
       ELSE \E b \in clicked : node' = b /\ dom' = Target(b)
    /\ UNCHANGED <<panes, finding, dialogs, wakes, moves>>

\* A press of the button focuses what can be focused under it; the click marks the block.
MouseDown(b) ==
    /\ UserActs
    /\ \E e \in {In(b), NoElement} : Focuses(e, node)
    /\ UNCHANGED <<panes, seen, clicked, finding, dialogs, wakes>>
ClickBlock(b) ==
    /\ UserActs
    /\ clicked' = {b}
    /\ UNCHANGED <<panes, node, seen, dom, finding, dialogs, wakes>>
\* app:focusfollowscursor.
focusFromPointerEnter(b) ==
    /\ UserActs
    /\ ~(seen = b /\ dom = In(b))
    /\ dom' = giveFocus(b)
    /\ node' = IF giveFocus(b) # dom \/ seen # b THEN b ELSE node
    /\ UNCHANGED <<panes, seen, clicked, finding, dialogs, wakes>>
\* The Tab key, or a program of the page, focuses an element of a block.
ElementFocused(b) ==
    /\ UserActs
    /\ Focuses(In(b), node)
    /\ UNCHANGED <<panes, seen, clicked, finding, dialogs, wakes>>

----------------------------------------------------------------------------
(* keymodel.ts, global.ts *)

\* switchBlockByBlockNum, switchBlockInDirection.
switchBlock(b) ==
    /\ UserActs
    /\ node' = b
    /\ wakes' = wakes \cup {Body}
    /\ UNCHANGED <<panes, seen, clicked, dom, finding, dialogs>>
\* The timers set after a tab was renamed, a block was unmagnified, or its window was
\* focused by a click.
RefocusLater(b) ==
    /\ UserActs
    /\ wakes' = wakes \cup {b}
    /\ UNCHANGED <<panes, node, seen, clicked, dom, finding, dialogs>>
\* The element of a block takes the focus, and its node with it.
refocusNode(t) == IF t \in panes THEN Focuses(giveFocus(t), t) ELSE UNCHANGED <<node, dom>>
\* Without a focused node the first one is focused.
globalRefocus ==
    IF node = Body /\ panes # {} THEN (\E f \in panes : node' = f) /\ UNCHANGED dom
    ELSE refocusNode(node)
TimerFires(b) ==
    /\ clicked = {}
    /\ wakes' = wakes \ {b}
    /\ IF b = Body THEN globalRefocus ELSE refocusNode(b)
    /\ UNCHANGED <<panes, seen, clicked, finding, dialogs, moves>>

\* activateSearch: it opens and its input takes the focus, or an open one's input does.
activateSearch ==
    /\ UserActs
    /\ node \in panes
    /\ finding' = finding \cup {node}
    /\ Focuses(SearchOf(node), node)
    /\ UNCHANGED <<panes, seen, clicked, dialogs, wakes>>
\* Closed by Escape in the focused block, or by its own button: the terminal is focused.
CloseSearch(b) ==
    /\ UserActs
    /\ b \in finding
    /\ finding' = finding \ {b}
    /\ Focuses(In(b), node)
    /\ UNCHANGED <<panes, seen, clicked, dialogs, wakes>>

\* modalmodel.ts: a modal takes the focus, and Escape closes the topmost.
pushModal ==
    /\ Act /\ dialogs < 1
    /\ dialogs' = dialogs + 1
    /\ dom' = [at |-> "modal", of |-> Body]
    /\ UNCHANGED <<panes, node, seen, clicked, finding, wakes>>
popModal ==
    /\ Act /\ dialogs > 0
    /\ dialogs' = dialogs - 1
    /\ dom' = NoElement
    /\ UNCHANGED <<panes, node, seen, clicked, finding, wakes>>

----------------------------------------------------------------------------
(* External: the layout of the tab. *)

AddPane(b) ==
    /\ Act
    /\ b \notin panes
    /\ panes' = panes \cup {b}
    /\ node' \in {node, b}
    /\ UNCHANGED <<seen, clicked, dom, finding, dialogs, wakes>>
RemovePane(b) ==
    /\ Act
    /\ panes' = panes \ {b}
    /\ node' \in IF node # b THEN {node} ELSE IF panes = {b} THEN {Body} ELSE panes \ {b}
    /\ dom' = IF dom.of = b THEN NoElement ELSE dom
    /\ finding' = finding \ {b}
    /\ UNCHANGED <<seen, clicked, dialogs, wakes>>
FocusMoves(b) ==
    /\ Act
    /\ node' = b
    /\ UNCHANGED <<panes, seen, clicked, dom, finding, dialogs, wakes>>

FocusInit ==
    /\ \E b \in Panes : panes = Panes \ {b} /\ node \in panes
    /\ seen = node /\ clicked = {} /\ dom = NoElement /\ finding = {} /\ dialogs = 0
    /\ wakes = {Body}   \* dora.ts: 50 ms after the page was initialized
    /\ moves = 0
FocusNext ==
    \/ Commit \/ activateSearch \/ pushModal \/ popModal
    \/ \E b \in panes :
        \/ MouseDown(b) \/ ClickBlock(b) \/ focusFromPointerEnter(b) \/ ElementFocused(b)
        \/ switchBlock(b) \/ RefocusLater(b) \/ CloseSearch(b) \/ RemovePane(b) \/ FocusMoves(b)
    \/ \E b \in Panes : AddPane(b)
    \/ \E b \in wakes : TimerFires(b)
FocusSpec == FocusInit /\ [][FocusNext]_focusVars

----------------------------------------------------------------------------
(* Properties *)

\* When all is committed what is typed does not go to another block than the focused one
\* (block.tsx:116-133, 168-178), unless that one's search is open: then it keeps the focus
\* from being given (term-model.ts:493-497), wherever that is.
FocusAgrees ==
    (Committed0 /\ dom.of # Body) => dom.of = node \/ node \in finding
=============================================================================

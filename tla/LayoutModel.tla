----------------------------- MODULE LayoutModel -----------------------------
(***************************************************************************)
(* The layout model of a tab: frontend/layout/lib/layoutModel.ts with what *)
(* TileLayout.tsx and layoutModelHooks.ts call on it.                      *)
(*                                                                         *)
(* The user's events and the timers are one task each.  Actions that the   *)
(* backend queued are handled in batches: a batch runs without             *)
(* interruption until it awaits the deletion of a block, and other events  *)
(* happen while it waits.  An exception ends the task where it is thrown,  *)
(* with the changes made so far; `err` names what the last task threw.     *)
(*                                                                         *)
(* Left out: pixel rectangles, z-order and animation, and writing the      *)
(* result back to the backend, which is in ObjectSync.                     *)
(***************************************************************************)
EXTENDS LayoutTree

CONSTANTS
    MaxWaiting,   \* batches waiting for a deletion at once
    Scenarios     \* sets of kinds of events: a behaviour has those of one

VARIABLES
    lm,           \* the LayoutModel object
    phase,        \* "idle", or "batch" inside a batch of backend actions
    waiting,      \* batches that await onNodeDelete
    does          \* the scenario, which never changes
layoutVars == <<lm, phase, waiting, does>>

NoDrag == [type |-> "none"]

Empty == [tree |-> NoTree,        \* treeState.rootNode
          focused |-> None,       \* treeState.focusedNodeId
          magnified |-> None,     \* treeState.magnifiedNodeId
          modelMagnified |-> None,\* this.magnifiedNodeId
          stack |-> <<>>,         \* focusedNodeIdStack
          leafs |-> {},           \* the leafs atom
          leafOrder |-> <<>>,
          ephemeral |-> None,     \* the floating node
          pending |-> NoMove,     \* pendingTreeAction
          resizing |-> NoDrag,    \* resizeContext
          mounted |-> FALSE,      \* displayContainerRef.current
          err |-> "none"]

Failed(S, e) == [S EXCEPT !.err = e]
Went(S) == S.err = "none"

NoEphemeral(S) == S.ephemeral = None
Floating(S) == {S.ephemeral} \ {None}
PendingIds(a) ==
    CASE a.type = "move"   -> {a.parent, a.node}
      [] a.type = "swap"   -> {a.node1, a.node2}
      [] a.type = "resize" -> a.nodes
      [] OTHER             -> {}
UsedIds(S) ==
    DOMAIN S.tree.node \cup {S.focused, S.magnified, S.modelMagnified} \cup ToSet(S.stack)
    \cup S.leafs \cup Floating(S) \cup PendingIds(S.pending)
    \cup (IF S.resizing = NoDrag THEN {} ELSE {S.resizing.parent, S.resizing.before, S.resizing.after})
NewGroupId(S) == Min(GroupIds \ UsedIds(S))

----------------------------------------------------------------------------
(* updateTree and what it calls *)

getLeafOrder(t, eph) ==
    LET floating == IF eph = None THEN <<>> ELSE <<eph>>
    IN  IF t.root # None /\ IsLeaf(t.root) THEN Leaves(t) \o floating
        ELSE floating \o Leaves(t)       \* its tree key, "-1", sorts first

\* The focus stack is rebuilt when the focus is not its top: a lost focus goes to
\* the latest node still shown, or to the first leaf.
validateFocusedNode(S) ==
    LET top == IF S.stack = <<>> THEN None ELSE S.stack[1]
        shown(i) == S.stack[i] \in ToSet(S.leafOrder)
        keep == {i \in DOMAIN S.stack : shown(i) /\ \A j \in 1..(i - 1) : S.stack[j] # S.stack[i]}
        kept == [k \in 1..Cardinality(keep) |->
                    S.stack[CHOOSE i \in keep : Cardinality({j \in keep : j < i}) = k - 1]]
        foc  == IF S.focused # None THEN S.focused
                ELSE IF kept # <<>> THEN kept[1]
                ELSE IF S.leafOrder # <<>> THEN S.leafOrder[1] ELSE None
        rest == IF S.focused = None /\ kept # <<>> THEN Tail(kept) ELSE kept
    IN  IF S.focused = top THEN S
        ELSE [S EXCEPT !.focused = foc, !.stack = <<foc>> \o rest]

validateMagnifiedNode(S) ==
    IF Len(S.leafOrder) = 1 THEN [S EXCEPT !.magnified = None, !.modelMagnified = None] ELSE S

Ordered(S, order) ==
    [validateMagnifiedNode(validateFocusedNode([S EXCEPT !.leafOrder = order]))
        EXCEPT !.leafs = ToSet(order)]
Laid(S, t) == Ordered([S EXCEPT !.tree = t], getLeafOrder(t, S.ephemeral))
updateTree(S, balance) ==
    IF ~S.mounted THEN S
    ELSE IF BalanceThrows(S.tree) THEN Failed(S, "invalid_node")
    ELSE Laid(S, IF balance THEN balanceNode(S.tree) ELSE S.tree)

----------------------------------------------------------------------------
(* treeReducer *)

\* The node of an insertion takes the focus when it is magnified beside others,
\* or when it asks for it.
FocusInserted(S, T, n, a) ==
    LET mag == a.magnified /\ S.tree.root # None
    IN  [S EXCEPT !.tree = T,
                  !.magnified = IF mag THEN n ELSE @,
                  !.focused = IF mag \/ a.focused THEN n ELSE @]

ReduceInsert(S, a) ==
    FocusInserted(S, insertNode(S.tree, a.id, NewGroupId(S)), a.id, a)
ReduceInsertAtIndex(S, a) ==
    IF S.tree.root # None /\ a.indexArr = <<>> THEN S
    ELSE FocusInserted(S, insertNodeAtIndex(S.tree, a.id, a.indexArr, NewGroupId(S)), a.id, a)
ReduceMove(S, a) ==
    IF MoveThrows(S.tree, a) THEN Failed(S, "invalid_insert")
    ELSE [S EXCEPT !.tree = moveNode(S.tree, a, NewGroupId(S))]
ReduceSwap(S, a) ==
    IF SwapThrows(S.tree, a.node1, a.node2) THEN Failed(S, "swap_missing")
    ELSE [S EXCEPT !.tree = swapNode(S.tree, a.node1, a.node2)]
ReduceDelete(S, n) ==
    [S EXCEPT !.tree = deleteNode(S.tree, n),
              !.focused = IF @ = n /\ S.tree.root # n /\ IsIn(S.tree, n) THEN None ELSE @]
\* Only that both nodes are there matters: sizes are not modelled.
ReduceResize(S, a) ==
    IF \E n \in a.nodes : ~IsIn(S.tree, n) THEN Failed(S, "resize_missing") ELSE S
ReduceMagnify(S, n) ==
    IF S.tree.root = n THEN S
    ELSE IF S.magnified = n THEN [S EXCEPT !.magnified = None]
    ELSE [S EXCEPT !.magnified = n, !.focused = n]
ReduceClear(S) ==
    [S EXCEPT !.tree = NoTree, !.leafOrder = <<>>, !.focused = None, !.magnified = None]
ReduceReplace(S, a) ==
    IF S.tree.root = None THEN Failed(S, "no_root")
    ELSE [S EXCEPT !.tree = replaceNode(S.tree, a.target, a.id),
                   !.focused = IF a.focused /\ IsIn(S.tree, a.target) THEN a.id ELSE @]
ReduceSplit(S, a) ==
    [S EXCEPT !.tree = IF a.dir = "row"
                       THEN splitHorizontal(S.tree, a.target, a.id, a.before, NewGroupId(S))
                       ELSE splitVertical(S.tree, a.target, a.id, a.before, NewGroupId(S)),
              !.focused = IF a.focused /\ IsIn(S.tree, a.target) THEN a.id ELSE @]

Reduce(S, a) ==
    CASE a.type = "computeMove" ->
            [S EXCEPT !.pending = computeMoveNode(S.tree, a.over, a.drag, a.outer, a.side)]
      [] a.type = "move"         -> ReduceMove(S, a)
      [] a.type = "insert"       -> ReduceInsert(S, a)
      [] a.type = "insertAt"     -> ReduceInsertAtIndex(S, a)
      [] a.type = "delete"       -> ReduceDelete(S, a.id)
      [] a.type = "swap"         -> ReduceSwap(S, a)
      [] a.type = "resize"       -> ReduceResize(S, a)
      [] a.type = "setPending"   -> [S EXCEPT !.pending = a.action]
      [] a.type = "clearPending" -> [S EXCEPT !.pending = NoMove]
      [] a.type = "focus"        -> [S EXCEPT !.focused = a.id]
      [] a.type = "magnify"      -> ReduceMagnify(S, a.id)
      [] a.type = "clear"        -> ReduceClear(S)
      [] a.type = "replace"      -> ReduceReplace(S, a)
      [] a.type = "split"        -> ReduceSplit(S, a)

Reduced(R, setState) ==
    IF ~Went(R) THEN R
    ELSE IF setState THEN updateTree([R EXCEPT !.modelMagnified = R.magnified], TRUE)
    ELSE [R EXCEPT !.modelMagnified = R.magnified]
treeReducer(S, a, setState) == Reduced(Reduce(S, a), setState)

Committed(R) == IF Went(R) THEN updateTree([R EXCEPT !.pending = NoMove], TRUE) ELSE R
\* A commit runs the pending action as an action of its own, then forgets it and
\* updates once more.
commitPending(S) ==
    IF S.pending = NoMove THEN updateTree(S, TRUE)
    ELSE Committed(treeReducer(S, S.pending, TRUE))

----------------------------------------------------------------------------
(* The model's operations *)

focusNode(S, n) ==
    IF (S.stack # <<>> /\ S.stack[1] = n) \/ ~(IsIn(S.tree, n) \/ n \in Floating(S)) THEN S
    ELSE treeReducer(S, [type |-> "focus", id |-> n], TRUE)

magnifyNodeToggle(S, n, setState) == treeReducer(S, [type |-> "magnify", id |-> n], setState)

Deleted(U, n) == IF Went(U) THEN treeReducer(U, [type |-> "delete", id |-> n], TRUE) ELSE U
\* closeNode up to its await.
closeNode(S, n) ==
    IF IsIn(S.tree, n)
    THEN Deleted(IF n = S.modelMagnified THEN magnifyNodeToggle(S, n, TRUE) ELSE S, n)
    ELSE IF n \in Floating(S)
    THEN updateTree([S EXCEPT !.ephemeral = None, !.focused = None], FALSE)
    ELSE S

Floated(S, b) ==
    IF ~S.mounted THEN Failed([S EXCEPT !.ephemeral = b], "no_container")
    ELSE focusNode([S EXCEPT !.ephemeral = b, !.leafs = @ \cup {b}], b)
\* Without a container getBoundingRect throws, after the node was set.
newEphemeralNode(S, b) ==
    Floated(IF NoEphemeral(S) THEN S ELSE closeNode(S, S.ephemeral), b)

addEphemeralNodeToLayout(S) ==
    LET U   == [S EXCEPT !.ephemeral = None]
        V   == IF U.modelMagnified = None THEN U ELSE magnifyNodeToggle(U, U.modelMagnified, FALSE)
    IN  treeReducer(V, [type |-> "insert", id |-> S.ephemeral,
                        magnified |-> FALSE, focused |-> FALSE], TRUE)

\* The lookup goes through the leafs that the last updateTree left.
getNodeByBlockId(S, b) == IF b \in S.leafs THEN b ELSE None

----------------------------------------------------------------------------
(* Actions of the backend *)

Fresh(S) == Blocks \ UsedIds(S)         \* block and node ids are never used again

Task(S) == lm' = S
Start(S) == [S EXCEPT !.err = "none"]

\* One action of a batch, the first (phase "idle") or a later one.  Afterwards
\* the batch goes on, ends by an exception, or waits.
BatchGoesOn(S) ==
    /\ Task(S)
    /\ phase' = IF S.err = "none" THEN "batch" ELSE "idle"
    /\ UNCHANGED <<waiting, does>>

HandleInsert(b, magnified, focused) ==
    LET S == Start(lm)
    IN  /\ b \in Fresh(S)
        /\ BatchGoesOn(treeReducer(S, [type |-> "insert", id |-> b,
                                       magnified |-> magnified, focused |-> focused], FALSE))
HandleInsertEphemeral(b) ==
    LET S == Start(lm)
    IN  /\ b \in Fresh(S)
        /\ BatchGoesOn(newEphemeralNode(S, b))
HandleInsertAtIndex(b, indexArr) ==
    LET S == Start(lm)
    IN  /\ b \in Fresh(S)
        /\ BatchGoesOn(treeReducer(S, [type |-> "insertAt", id |-> b,
                            indexArr |-> indexArr, magnified |-> FALSE, focused |-> FALSE], FALSE))
BatchWaits(S) ==
    /\ waiting < MaxWaiting
    /\ Task(S)
    /\ phase' = "idle"
    /\ waiting' = IF Went(S) THEN waiting + 1 ELSE waiting
    /\ UNCHANGED does
HandleDelete(b) ==
    LET S  == Start(lm)
        n  == getNodeByBlockId(S, b)
    IN  IF n = None THEN BatchGoesOn(S)
        ELSE BatchWaits(closeNode(S, n))
HandleClear == BatchGoesOn(treeReducer(Start(lm), [type |-> "clear"], FALSE))
HandleReplace(target, b) ==
    LET S  == Start(lm)
        n  == getNodeByBlockId(S, target)
    IN  /\ b \in Fresh(S)
        /\ IF n = None THEN BatchGoesOn(S)
           ELSE BatchGoesOn(treeReducer(S, [type |-> "replace", target |-> n,
                                            id |-> b, focused |-> FALSE], FALSE))
HandleSplit(target, b, dir, before) ==
    LET S  == Start(lm)
        n  == getNodeByBlockId(S, target)
    IN  /\ b \in Fresh(S)
        /\ IF n = None THEN BatchGoesOn(S)
           ELSE BatchGoesOn(treeReducer(S, [type |-> "split", target |-> n,
                               id |-> b, dir |-> dir, before |-> before, focused |-> FALSE], FALSE))

\* processPendingBackendActions: handleBackendAction for each, then one update.
HandleBackendAction ==
    \/ \E b \in Blocks : \/ "insert" \in does /\ \E m, f \in BOOLEAN : HandleInsert(b, m, f)
                         \/ "ephemeral" \in does /\ HandleInsertEphemeral(b)
                         \/ "insertAt" \in does /\ \E i, j \in 0..1 : HandleInsertAtIndex(b, <<i, j>>)
                         \/ "delete" \in does /\ HandleDelete(b)
    \/ "clear" \in does /\ HandleClear
    \/ \E b, target \in Blocks :
         /\ target \in UsedIds(lm)
         /\ \/ "replace" \in does /\ HandleReplace(target, b)
            \/ "split" \in does /\ \E dir \in {"row", "column"}, before \in BOOLEAN :
                                     HandleSplit(target, b, dir, before)

FinishBatch ==
    /\ phase = "batch"
    /\ Task(updateTree(Start(lm), TRUE))
    /\ phase' = "idle"
    /\ UNCHANGED <<waiting, does>>

\* onNodeDelete answered: the batch goes on with its next action.
ResumeBatch ==
    /\ phase = "idle"
    /\ waiting > 0
    /\ phase' = "batch"
    /\ waiting' = waiting - 1
    /\ Task(Start(lm))
    /\ UNCHANGED does

----------------------------------------------------------------------------
(* The user and the page *)

UserEvent(kind, S) ==
    /\ kind \in does
    /\ phase = "idle"
    /\ Task(S)
    /\ UNCHANGED <<phase, waiting, does>>

\* onTreeStateAtomUpdated(true) when TileLayout is mounted.
Mount ==
    /\ phase = "idle"
    /\ ~lm.mounted
    /\ Task(updateTree([Start(lm) EXCEPT !.mounted = TRUE], TRUE))
    /\ UNCHANGED <<phase, waiting, does>>

Draggable(n) == n # lm.magnified /\ n \notin Floating(lm)

\* The drop targets and the dragged node are leaves as last displayed; the
\* dragged one may have been closed meanwhile.
DragOver(n, m, outer, side) ==
    /\ lm.mounted
    /\ {n, m} \subseteq lm.leafs
    /\ n # m
    /\ Draggable(m)
    /\ UserEvent("drag", treeReducer(Start(lm),
           [type |-> "computeMove", over |-> n, drag |-> m, outer |-> outer, side |-> side], TRUE))
DragLeaves ==
    /\ lm.pending.type \in {"move", "swap"}
    /\ UserEvent("drag", treeReducer(Start(lm), [type |-> "clearPending"], TRUE))
Drop ==
    /\ lm.pending.type \in {"move", "swap"}
    /\ UserEvent("drag", commitPending(Start(lm)))

ResizeContext(p, i) ==
    LET kids == lm.tree.node[p].kids
    IN  [parent |-> p, index |-> i, before |-> kids[i], after |-> kids[i + 1]]
Settled(S) == IF Went(S) THEN updateTree(S, FALSE) ELSE S
\* A handle keeps the nodes that were beside it when its drag began.
ResizeMove(p, i) ==
    LET ctx == IF lm.resizing # NoDrag /\ lm.resizing.parent = p /\ lm.resizing.index = i
               THEN lm.resizing ELSE ResizeContext(p, i)
        act == [type |-> "resize", nodes |-> {ctx.before, ctx.after}]
        S   == treeReducer([Start(lm) EXCEPT !.resizing = ctx],
                           [type |-> "setPending", action |-> act], TRUE)
    IN  /\ lm.mounted
        /\ UserEvent("resize", Settled(S))
ResizeEnd ==
    /\ lm.resizing # NoDrag
    /\ UserEvent("resize", commitPending([Start(lm) EXCEPT !.resizing = NoDrag]))

FocusClick(n) ==
    /\ n \in lm.leafs
    /\ UserEvent("focus", focusNode(Start(lm), n))
\* switchNodeFocusByBlockNum; the direction keys pick by position instead.
FocusByNumber(num) ==
    /\ num \in DOMAIN lm.leafOrder
    /\ UserEvent("focus", focusNode(Start(lm), lm.leafOrder[num]))
FocusInDirection(n) ==
    /\ lm.stack # <<>>
    /\ lm.stack[1] \in DOMAIN lm.tree.node
    /\ n \in lm.leafs \ (Floating(lm) \cup {lm.stack[1]})
    /\ UserEvent("focus", focusNode(Start(lm), n))

ToggleMagnify(n) ==
    /\ lm.tree.root # None
    /\ n \in (lm.leafs \ Floating(lm)) \cup ({lm.magnified} \ {None})
    /\ UserEvent("magnify", magnifyNodeToggle(Start(lm), n, TRUE))
UserClose(n) ==
    /\ n \in lm.leafs
    /\ UserEvent("close", closeNode(Start(lm), n))
KeepEphemeral ==
    /\ ~NoEphemeral(lm)
    /\ UserEvent("ephemeral", addEphemeralNodeToLayout(Start(lm)))
ContainerResize ==
    /\ lm.mounted
    /\ UserEvent("container", updateTree(Start(lm), TRUE))

\* The server answered a request of the page to make a block, for its layout, beside
\* another block or in the place of one, which may have been closed meanwhile: then
\* the call throws, and the new block is in no layout.
createBlock(b, magnified, ephemeral) ==
    LET S == Start(lm)
    IN  /\ b \in Fresh(S)
        /\ UserEvent("create", IF ephemeral THEN newEphemeralNode(S, b)
                               ELSE treeReducer(S, [type |-> "insert", id |-> b, magnified |-> magnified, focused |-> TRUE], TRUE))
createBlockSplit(target, b, dir, before) ==
    LET S == Start(lm)
        n == getNodeByBlockId(S, target)
    IN  /\ b \in Fresh(S)
        /\ UserEvent("create", IF n = None THEN Failed(S, "no_target")
                               ELSE treeReducer(S, [type |-> "split", target |-> n, id |-> b, dir |-> dir,
                                                    before |-> before, focused |-> TRUE], TRUE))
replaceBlock(target, b, focus) ==
    LET S == Start(lm)
        n == getNodeByBlockId(S, target)
    IN  /\ b \in Fresh(S)
        /\ UserEvent("create", IF n = None THEN Failed(S, "no_target")
                               ELSE treeReducer(S, [type |-> "replace", target |-> n, id |-> b, focused |-> focus], TRUE))

UserNext ==
    \/ Mount \/ DragLeaves \/ Drop \/ ResizeEnd \/ KeepEphemeral \/ ContainerResize
    \/ \E n, m \in lm.leafs :
         \/ DragOver(n, m, FALSE, "center")
         \/ \E outer \in BOOLEAN, side \in {"top", "bottom", "left", "right"} :
               DragOver(n, m, outer, side)
    \/ \E p \in DOMAIN lm.tree.node : \E i \in 1..(Len(lm.tree.node[p].kids) - 1) : ResizeMove(p, i)
    \/ \E n \in Blocks : \/ FocusClick(n) \/ FocusInDirection(n)
                         \/ ToggleMagnify(n) \/ UserClose(n)
    \/ \E num \in 1..Cardinality(Blocks) : FocusByNumber(num)
    \/ "create" \in does /\ \E b \in Blocks :
         \/ \E m, e \in BOOLEAN : createBlock(b, m, e)
         \/ \E target \in Blocks \ {b}, f \in BOOLEAN :
                \/ replaceBlock(target, b, f)
                \/ \E dir \in {"row", "column"} : createBlockSplit(target, b, dir, f)

\* initializeFromDoraObject with a stored tree, not yet displayed.
\* They have none, one, two or three leaves.
Column == [Leaf EXCEPT !.dir = "column"]
StoredTrees ==
    {NoTree} \cup {[root |-> b, node |-> (b :> Leaf)] : b \in Blocks}
    \cup {[root |-> 1, node |-> (1 :> Group("row", p)) @@ (p[1] :> Column) @@ (p[2] :> Column)] :
             p \in {q \in Blocks \X Blocks : q[1] # q[2]}}
    \cup {[root |-> 1, node |-> (1 :> Group("row", <<p[1], 2>>)) @@ (2 :> Group("column", <<p[2], p[3]>>))
                                @@ (p[1] :> Column) @@ (p[2] :> Leaf) @@ (p[3] :> Leaf)] :
             p \in {q \in Blocks \X Blocks \X Blocks : Cardinality({q[1], q[2], q[3]}) = 3}}
LayoutInit ==
    /\ \E t \in StoredTrees :
         lm = [Empty EXCEPT !.tree = t,
                            !.focused = IF t.root = None THEN None ELSE Leaves(t)[1]]
    /\ phase = "idle"
    /\ waiting = 0
    /\ does \in Scenarios
LayoutNext == HandleBackendAction \/ FinishBatch \/ ResumeBatch \/ UserNext
LayoutSpec == LayoutInit /\ [][LayoutNext]_layoutVars

----------------------------------------------------------------------------
(* Properties.  The model is quiet when the last task ended without an      *)
(* exception and no batch is half done.                                     *)

Refs(t, n) == {pi \in (DOMAIN t.node) \X (1..Cardinality(Blocks)) :
                  pi[2] \in DOMAIN t.node[pi[1]].kids /\ t.node[pi[1]].kids[pi[2]] = n}
Quiet == phase = "idle" /\ lm.mounted /\ lm.err = "none"

\* At every moment the nodes form one tree: each but the root is the kid of exactly
\* one node, leaves have no kids and groups are never empty, whatever is moved,
\* swapped, split, replaced or deleted (layoutTree.ts), so that balanceNode never
\* throws "Invalid node".
TreeSound ==
    /\ (lm.tree.root = None) <=> (DOMAIN lm.tree.node = {})
    /\ \A n \in DOMAIN lm.tree.node :
         /\ Cardinality(Refs(lm.tree, n)) = IF n = lm.tree.root THEN 0 ELSE 1
         /\ validateNode(lm.tree, n)
    /\ lm.err # "invalid_node"

\* Once an update is through rows hold columns and columns hold rows
\* (layoutNode.ts:43-91, 182-214): no group sits in a group that runs the same way.
\* A leaf may for one update: one that a split put below a group that is given up.
Balanced ==
    Quiet => \A p \in DOMAIN lm.tree.node : \A k \in ToSet(lm.tree.node[p].kids) \ Blocks :
                lm.tree.node[k].dir # lm.tree.node[p].dir

\* A step that ends a drag, also by a drop at a place computed from a tree that has
\* changed since, loses no block, and adds none but those the pending action names
\* (layoutModel.ts:659-668, layoutTree.ts:230-277).  The focus or the magnification
\* comes to name a node that is gone only when the node was replaced, or was the
\* only one (layoutTree.ts:354-377, 426-450).
Stranded(S) == {S.focused, S.magnified} \ (DOMAIN S.tree.node \cup Floating(S) \cup {None})
Replaces == \E b, target \in Blocks : HandleReplace(target, b) \/ \E f \in BOOLEAN : replaceBlock(target, b, f)
StepsKeep ==
    [][/\ lm.pending # NoMove /\ lm'.pending = NoMove =>
             /\ BlocksOf(lm.tree) \subseteq BlocksOf(lm'.tree)
             /\ BlocksOf(lm'.tree) \subseteq BlocksOf(lm.tree) \cup PendingIds(lm.pending)
       /\ Stranded(lm') \subseteq Stranded(lm) \/ Replaces \/ lm.tree.root \in Blocks]_layoutVars

\* What the comment at layoutModel.ts:905 says: when the focused node was deleted
\* the focus goes to one that is shown.  The code does so unless the node was the
\* only one, or was replaced.
DeletedFocusPops == Quiet => lm.focused \in {None} \cup lm.leafs

----------------------------------------------------------------------------
(* Properties that do not hold; the README says what happens instead.       *)

\* A drop whose target was closed during the drag throws "Invalid InsertOperation",
\* and the pending action stays.
StaleDropRefused == lm.err # "invalid_insert"
\* So does a swap with a node that was closed.
StaleSwapRefused == lm.err # "swap_missing"
\* And the end of a resize beside a node that was closed.
StaleResizeRefused == lm.err # "resize_missing"
\* A queued "replace" behind a queued "clear" throws and ends its batch.
ReplaceAfterClear == lm.err # "no_root"
\* An ephemeral block for a tab that is not displayed throws and ends its batch.
EphemeralBeforeMount == lm.err # "no_container"
\* A block asked for beside one that was closed meanwhile is made, and shown nowhere.
SplitTargetStays == lm.err # "no_target"
\* Dropping a block that was closed during the drag brings it back.
ClosedStaysClosed == [][Drop => BlocksOf(lm'.tree) \subseteq BlocksOf(lm.tree)]_layoutVars

\* The tree is well formed and balanced whatever was done to it (both above).
TreeKept == TreeSound /\ Balanced

\* The blocks are alike, for the model checker.
BlockSymmetry == Permutations(Blocks)
=============================================================================

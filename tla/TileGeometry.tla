------------------------------ MODULE TileGeometry ------------------------------
(***************************************************************************)
(* Where the tiles of a layout are (frontend/layout/lib/layoutModel.ts,    *)
(* utils.ts, layoutTree.ts, TileLayout.tsx): the rectangles that follow    *)
(* from the tree and the sizes of its nodes, the drag of a resize handle,  *)
(* the place at which a dragged tile is shown and dropped, and the moves   *)
(* of the focus in a direction.                                            *)
(*                                                                         *)
(* Trees and their operations are those of LayoutTree.  A size of 10 is    *)
(* 1200 here, and rectangles end at whole pixels; resizeNode's limit of    *)
(* 100 is out of reach.  The 30 ms before a released handle is let go, the *)
(* rounding of transforms and the tiles that float are left out.           *)
(***************************************************************************)
EXTENDS Integers, SequencesExt, FiniteSetsExt

CONSTANTS
    MaxGestures,    \* bound on handles taken, tiles dropped and changes of the container's size
    MaxHandleMoves  \* bound on moves of a handle taken

VARIABLES
    tiles,     \* the tree
    size,      \* per node: its size
    container, \* [width, height]
    rects,     \* additionalProps: per node: its rectangle
    handle,    \* no resizeContext or one; `rects` are the tiles when it was made, `at` the pointer
               \* when it was last followed
    pendingSizes, \* the pending resize: the sizes of up to two nodes
    calm,      \* has the container kept its size since the handle was taken?
    dropped,   \* the last tile dropped: [target, moved, x, y: the point, shown: the placeholder,
               \* rects: the tiles before]
    gestures, handleMoves
tileVars == <<tiles, size, container, rects, handle, pendingSizes, calm, dropped, gestures, handleMoves>>

LT == INSTANCE LayoutTree WITH Blocks <- 11..14, GroupIds <- 1..6, None <- 0, MaxChildren <- 5

DefaultNodeSize == 1200
MinNodeSizePx == 40
WindowLeft == 30 \* where the container is in the window
WindowTop == 40

----------------------------------------------------------------------------
(* updateTreeHelper *)

TotalSize(sizes, ns) == FoldLeft(LAMBDA sum, n : sum + sizes[n], 0, ns)

\* The rectangle of n in a tree with these sizes in a container.
RECURSIVE Rect(_, _, _, _)
Rect(tree, sizes, within, n) ==
    IF n = tree.root THEN [left |-> 0, top |-> 0, width |-> within.width, height |-> within.height]
    ELSE LET p == LT!ParentOf(tree, n)
             kids == tree.node[p].kids
             around == Rect(tree, sizes, within, p)
             row == tree.node[p].dir = "row"
             \* The border after the first k kids.
             edge(k) == (TotalSize(sizes, SubSeq(kids, 1, k)) * (IF row THEN around.width ELSE around.height))
                            \div TotalSize(sizes, kids)
             i == LT!IndexIn(tree, p, n)
         IN  IF row THEN [around EXCEPT !.left = @ + edge(i - 1), !.width = edge(i) - edge(i - 1)]
             ELSE [around EXCEPT !.top = @ + edge(i - 1), !.height = edge(i) - edge(i - 1)]
updateTree(tree, sizes, within) == rects' = [n \in DOMAIN tree.node |-> Rect(tree, sizes, within, n)]

IsRow(p) == tiles.node[p].dir = "row"
Leafs == DOMAIN tiles.node \cap 11..14
Right(r) == r.left + r.width
Bottom(r) == r.top + r.height
\* The pixels of p along its direction, and the border after its i-th kid.
NodePixels(p) == IF IsRow(p) THEN rects[p].width ELSE rects[p].height
CenterPx(p, i) == LET r == rects[tiles.node[p].kids[i]] IN IF IsRow(p) THEN Right(r) ELSE Bottom(r)

----------------------------------------------------------------------------
(* Resizing *)

Gesture == gestures < MaxGestures /\ gestures' = gestures + 1

\* resizeContext: what is true when the handle after p's i-th kid is first moved.
ResizeContextOf(p, i) ==
    LET kids == tiles.node[p].kids IN
    [parent |-> p, before |-> kids[i], after |-> kids[i + 1], start |-> CenterPx(p, i),
     beforeSize |-> size[kids[i]], afterSize |-> size[kids[i + 1]],
     total |-> TotalSize(size, kids), pixels |-> NodePixels(p), rects |-> rects, at |-> CenterPx(p, i)]
TooSmall(ctx, before, after) ==
    before * ctx.pixels < MinNodeSizePx * ctx.total \/ after * ctx.pixels < MinNodeSizePx * ctx.total
onResizeMove(p, i, to) ==
    LET ctx == IF handle = {} THEN ResizeContextOf(p, i) ELSE CHOOSE c \in handle : TRUE
        diff == ((ctx.start - to) * ctx.total) \div ctx.pixels
        before == ctx.beforeSize - diff
        after == ctx.afterSize + diff
    IN
    /\ IF handle = {} THEN Gesture /\ handleMoves' = 1
       ELSE handleMoves < MaxHandleMoves /\ handleMoves' = handleMoves + 1 /\ UNCHANGED gestures
    /\ handle # {} => ctx.parent = p /\ ctx.before = tiles.node[p].kids[i]
    /\ calm' = (handle = {} \/ calm)
    /\ IF TooSmall(ctx, before, after) THEN handle' = {ctx} /\ UNCHANGED <<pendingSizes, rects>>
       ELSE /\ handle' = {[ctx EXCEPT !.at = to]}
            /\ pendingSizes' = (ctx.before :> before @@ ctx.after :> after)
            /\ updateTree(tiles, pendingSizes' @@ size, container)
    /\ dropped' = {}
    /\ UNCHANGED <<tiles, size, container>>
onResizeEnd ==
    /\ handle # {}
    /\ handle' = {} /\ pendingSizes' = <<>>
    /\ size' = pendingSizes @@ size
    /\ updateTree(tiles, size', container)
    /\ UNCHANGED <<tiles, container, calm, dropped, gestures, handleMoves>>
onContainerResize(w, h) ==
    /\ Gesture
    /\ container' = [width |-> w, height |-> h] /\ container' # container
    /\ updateTree(tiles, pendingSizes @@ size, container')
    /\ calm' = FALSE
    /\ dropped' = {}
    /\ UNCHANGED <<tiles, size, handle, pendingSizes, handleMoves>>

----------------------------------------------------------------------------
(* Dragging a tile *)

\* Mutant: the diagonals are mixed up.
DirectionMixed(x, y) ==
    LET outer == y < 2 \/ y > 8 \/ x < 2 \/ x > 8
        side == IF y > x THEN (IF x + y > 10 THEN "right" ELSE "left")
                ELSE IF x + y > 10 THEN "bottom" ELSE "top"
    IN  IF x = 5 /\ y = 5 THEN [side |-> "center", outer |-> FALSE]
        ELSE IF y = x \/ x + y = 10 THEN [side |-> "", outer |-> FALSE]
        ELSE [side |-> side, outer |-> outer]
\* determineDropDirection for a point of the tile, in fifths and halves of fifths of it:
\* 0 <= x, y <= 10.  "" is undefined.
determineDropDirection(x, y) ==
    LET outer == y < 2 \/ y > 8 \/ x < 2 \/ x > 8
        side == IF y > x THEN (IF x + y > 10 THEN "bottom" ELSE "left")
                ELSE IF x + y > 10 THEN "right" ELSE "top"
    IN  IF x = 5 /\ y = 5 THEN [side |-> "center", outer |-> FALSE]
        ELSE IF y = x \/ x + y = 10 THEN [side |-> "", outer |-> FALSE]
        ELSE [side |-> side, outer |-> outer]

\* getPlaceholderTransform: half of the node before the place, of the first node for the
\* first place; its second half for the last place, and else astride its end.
Part(r, row, from) ==
    IF row THEN [r EXCEPT !.width = @ \div 2, !.left = @ + ((from * r.width) \div 4)]
    ELSE [r EXCEPT !.height = @ \div 2, !.top = @ + ((from * r.height) \div 4)]
Placeholder(op) ==
    IF op.type = "swap" THEN rects[op.node1]
    ELSE LET kids == tiles.node[op.parent].kids
             last == IF kids = <<>> THEN 0 ELSE Len(kids) - 1
             target == IF op.index - 1 < 0 THEN 0 ELSE IF op.index - 1 > last THEN last ELSE op.index - 1
             node == IF kids = <<>> THEN op.parent ELSE kids[target + 1]
             from == IF op.index <= target THEN 0 ELSE IF op.index > last THEN 2 ELSE 3
         IN  Part(rects[node], IsRow(op.parent), from)

\* The sizes after op made the tree `new`: a tile that comes to another parent starts anew,
\* a group that takes a tile's place takes its size, and the other way around.
MovedSizes(op, new) ==
    LET fresh == (DOMAIN new.node) \ DOMAIN tiles.node
        lone == {g \in (DOMAIN tiles.node) \ DOMAIN new.node : TRUE}
        only(n) == {g \in lone : n \in ToSet(tiles.node[g].kids) /\ LT!IsLeaf(n)
                                 /\ ToSet(tiles.node[g].kids) \ {op.node} = {n}}
    IN  [n \in DOMAIN new.node |->
            IF n \in fresh THEN size[op.parent]
            ELSE IF n = op.node THEN (IF LT!ParentOf(tiles, n) = op.parent THEN size[n] ELSE DefaultNodeSize)
            ELSE IF n = op.parent /\ LT!IsLeaf(n) THEN DefaultNodeSize
            ELSE IF only(n) # {} THEN size[CHOOSE g \in only(n) : TRUE]
            ELSE size[n]]
SwappedSizes(op) == [size EXCEPT ![op.node1] = size[op.node2], ![op.node2] = size[op.node1]]

\* Tile m is dropped on tile n, at a point of it.
DropTile(n, m, x, y) ==
    LET dir == determineDropDirection(x, y)
        op == LT!computeMoveNode(tiles, n, m, dir.outer, dir.side)
        new == LT!balanceNode(IF op.type = "swap" THEN LT!swapNode(tiles, n, m)
                              ELSE LT!moveNode(tiles, op, CHOOSE g \in 1..6 : g \notin DOMAIN tiles.node))
    IN
    /\ Gesture
    /\ handle = {} /\ n # m
    /\ dir.side # "" /\ op # LT!NoMove
    /\ tiles' = new
    /\ size' = IF op.type = "swap" THEN SwappedSizes(op) ELSE MovedSizes(op, new)
    /\ dropped' = {[target |-> n, moved |-> m, x |-> x, y |-> y, shown |-> Placeholder(op), rects |-> rects]}
    /\ updateTree(new, size', container)
    /\ UNCHANGED <<container, handle, pendingSizes, calm, handleMoves>>

----------------------------------------------------------------------------
(* switchNodeFocusInDirection *)

navigateDirectionToOffset(d) ==
    CASE d = "up" -> <<0, -1>> [] d = "down" -> <<0, 1>> [] d = "left" -> <<-1, 0>> [] d = "right" -> <<1, 0>>
getCenter(r) == <<r.left + (r.width \div 2), r.top + (r.height \div 2)>>
HasPoint(r, p) == p[1] >= r.left /\ p[1] <= Right(r) /\ p[2] >= r.top /\ p[2] <= Bottom(r)
\* From p on in steps of ten pixels to the first other tile, or out of the container; its
\* right and bottom are taken where they are in the window.
RECURSIVE Walk(_, _, _)
Walk(n, p, offset) ==
    LET q == <<p[1] + 10 * offset[1], p[2] + 10 * offset[2]>>
        hits == {m \in Leafs \ {n} : HasPoint(rects[m], q)}
    IN  IF q[1] < 0 \/ q[1] > WindowLeft + container.width \/ q[2] < 0 \/ q[2] > WindowTop + container.height THEN {}
        ELSE IF hits # {} THEN {Min(hits)}
        ELSE Walk(n, q, offset)
\* The tile, if any, that the focus goes to from n.
switchNodeFocusInDirection(n, d) == Walk(n, getCenter(rects[n]), navigateDirectionToOffset(d))

----------------------------------------------------------------------------

\* A tree of the groups 1, 2, ... with their kids.
TreeOf(groups) ==
    LET leaves == UNION {ToSet(groups[g].kids) : g \in DOMAIN groups} \ DOMAIN groups
        above(n) == groups[CHOOSE g \in DOMAIN groups : n \in ToSet(groups[g].kids)]
    IN  [root |-> 1, node |-> [n \in leaves \cup DOMAIN groups |->
            IF n \in leaves THEN [dir |-> LT!Reverse2(above(n).dir), kids |-> <<>>] ELSE groups[n]]]
Row2(kids) == LT!Group("row", kids)
Column2(kids) == LT!Group("column", kids)
Lone == [root |-> 11, node |-> 11 :> LT!Group("row", <<>>)]
StartTrees == {
    Lone,
    TreeOf(<<Row2(<<11, 12>>)>>),
    TreeOf(<<Row2(<<11, 12, 13>>)>>),
    TreeOf(<<Row2(<<2, 3>>), Column2(<<11, 12>>), Column2(<<13, 14>>)>>),
    TreeOf(<<Column2(<<11, 2>>), Row2(<<12, 3>>), Column2(<<13, 14>>)>>)}

TileInit ==
    /\ tiles \in StartTrees
    /\ size = [n \in DOMAIN tiles.node |-> DefaultNodeSize]
    /\ container = [width |-> 240, height |-> 240]
    /\ rects = [n \in DOMAIN tiles.node |-> Rect(tiles, size, container, n)]
    /\ handle = {} /\ pendingSizes = <<>> /\ calm = TRUE /\ dropped = {}
    /\ gestures = 0 /\ handleMoves = 0
TileNext ==
    \/ onResizeEnd
    \/ \E p \in DOMAIN tiles.node \cap 1..6 : \E i \in 1..(Len(tiles.node[p].kids) - 1), to \in {10, 120, 170} :
            onResizeMove(p, i, to)
    \/ \E w, h \in {240, 480} : onContainerResize(w, h)
    \/ \E n, m \in Leafs, x, y \in {1, 3, 5, 7, 9} : 5 \in {x, y} /\ DropTile(n, m, x, y)

----------------------------------------------------------------------------
(* Properties *)

Near(x, y) == x - y \in -2..2
\* While a handle is dragged the border follows the pointer, both nodes next to it keep
\* their least size, and every tile outside them stays where it was, for the container's
\* size at which the drag began (layoutModel.ts:1415-1478, 796-887).
ResizeMovesOneEdge == \A c \in handle : calm /\ pendingSizes # <<>> =>
    LET inside(n) == \E k \in {c.before, c.after} : n \in LT!SubtreeIds(tiles.node, k) IN
    /\ \A n \in DOMAIN tiles.node : ~inside(n) => rects[n] = c.rects[n]
    /\ LET r1 == rects[c.before]
           r2 == rects[c.after]
       IN  IF IsRow(c.parent) THEN Near(Right(r1), c.at) /\ r1.width >= MinNodeSizePx /\ r2.width >= MinNodeSizePx
           ELSE Near(Bottom(r1), c.at) /\ r1.height >= MinNodeSizePx /\ r2.height >= MinNodeSizePx

\* A dropped tile comes to lie at the side of the target that the pointer was nearest to, or
\* in its place for the middle, and the placeholder was shown at that side or in that place
\* (utils.ts:12-60, layoutModel.ts:946-1030, layoutTree.ts:43-228).
DropsWhereShown == \A d \in dropped :
    LET m == rects[d.moved]
        n == rects[d.target]
        shown == getCenter(d.shown)
        middle == getCenter(d.rects[d.target])
        nearest == Min({d.x, d.y, 10 - d.x, 10 - d.y})
    IN  IF d.x = 5 /\ d.y = 5
        THEN m = d.rects[d.target] /\ n = d.rects[d.moved] /\ d.shown = d.rects[d.target]
        ELSE CASE nearest = d.x -> Right(m) <= n.left /\ shown[1] < middle[1]
               [] nearest = 10 - d.x -> m.left >= Right(n) /\ shown[1] > middle[1]
               [] nearest = d.y -> Bottom(m) <= n.top /\ shown[2] < middle[2]
               [] nearest = 10 - d.y -> m.top >= Bottom(n) /\ shown[2] > middle[2]

\* From a tile of several that is not at the edge the focus goes to a tile that touches it there, and
\* from one at the edge to none (layoutModel.ts:1117-1205).
FocusGoesNextDoor == tiles # Lone => \A n \in Leafs, d \in {"up", "down", "left", "right"} :
    LET r == rects[n]
        edge == CASE d = "up" -> r.top = 0 [] d = "left" -> r.left = 0
                  [] d = "down" -> Bottom(r) = container.height [] d = "right" -> Right(r) = container.width
        touches(s) == CASE d = "up" -> Bottom(s) = r.top [] d = "left" -> Right(s) = r.left
                        [] d = "down" -> s.top = Bottom(r) [] d = "right" -> s.left = Right(r)
    IN  /\ switchNodeFocusInDirection(n, d) = {} <=> edge
        /\ \A m \in switchNodeFocusInDirection(n, d) : touches(rects[m])

\* What the user does with the pointer and the keys happens to the tile that is seen there
\* (the three above).
TilesAsShown == ResizeMovesOneEdge /\ DropsWhereShown /\ FocusGoesNextDoor
=============================================================================

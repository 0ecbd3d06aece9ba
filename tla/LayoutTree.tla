------------------------------ MODULE LayoutTree ------------------------------
(***************************************************************************)
(* The tree of a tab's tile layout and the operations on it:               *)
(* frontend/layout/lib/layoutNode.ts and layoutTree.ts.                    *)
(*                                                                         *)
(* A tree is [root, node]: `node` maps the id of each node that hangs from *)
(* `root` to [dir, kids].  A leaf shows a block; node and block are created *)
(* together, each with an id of its own that it keeps, so the block's id   *)
(* stands for both.  A group has kids.  Sizes are left out: no property    *)
(* depends on them.  The program changes node objects in place and moves   *)
(* their ids between objects; here a node is its id, so that the exchange  *)
(* of ids in addIntermediateNode is the insertion of a new id above the    *)
(* leaf's.                                                                 *)
(***************************************************************************)
EXTENDS Integers, FiniteSets, SequencesExt

CONSTANTS
    Blocks,       \* the ids of blocks and of the leaves that show them
    GroupIds,     \* the ids of groups, 1..n: the least unused one is taken
    None,         \* undefined
    MaxChildren   \* DEFAULT_MAX_CHILDREN, smaller in the runs so that groups fill up

ASSUME GroupIdsAssumption == GroupIds = 1..Cardinality(GroupIds) /\ Blocks \cap GroupIds = {}
ASSUME MaxChildrenAssumption == MaxChildren \in Nat \ {0}


NoTree == [root |-> None, node |-> <<>>]

Reverse2(dir) == IF dir = "row" THEN "column" ELSE "row"
Leaf == [dir |-> "row", kids |-> <<>>]
Group(dir, kids) == [dir |-> dir, kids |-> kids]

IsLeaf(n) == n \in Blocks
IsIn(t, n) == n \in DOMAIN t.node            \* findNode

RECURSIVE SubtreeIds(_, _)
SubtreeIds(node, n) ==
    {n} \cup UNION {SubtreeIds(node, k) : k \in ToSet(node[n].kids)}

\* The tree from root r: the nodes that no longer hang from it are gone.
Rooted(r, node) ==
    IF r = None THEN NoTree
    ELSE [root |-> r, node |-> [n \in SubtreeIds(node, r) |-> node[n]]]

\* The node whose kids hold n; None for the root and for an id not in the tree.
ParentOf(t, n) ==
    LET ps == {p \in DOMAIN t.node : n \in ToSet(t.node[p].kids)}
    IN  IF ps = {} THEN None ELSE CHOOSE p \in ps : TRUE
IndexIn(t, p, n) == CHOOSE i \in DOMAIN t.node[p].kids : t.node[p].kids[i] = n

\* The leaves from left to right.
RECURSIVE LeavesFrom(_, _)
LeavesFrom(t, n) ==
    IF IsLeaf(n) THEN <<n>>
    ELSE FlattenSeq([i \in DOMAIN t.node[n].kids |-> LeavesFrom(t, t.node[n].kids[i])])
Leaves(t) == IF t.root = None THEN <<>> ELSE LeavesFrom(t, t.root)
BlocksOf(t) == DOMAIN t.node \cap Blocks

\* n replaced by m where the tree refers to n.
Redirect(t, n, m, node) ==
    LET swap(k) == IF k = n THEN m ELSE k
    IN  [root |-> swap(t.root),
         node |-> [x \in DOMAIN node |->
                      IF x = m THEN node[x]
                      ELSE [node[x] EXCEPT !.kids = [i \in DOMAIN @ |-> swap(@[i])]]]]

With(node, n, rec) == [x \in DOMAIN node \cup {n} |-> IF x = n THEN rec ELSE node[x]]

----------------------------------------------------------------------------
(* layoutNode.ts *)

\* A leaf p gets a group g above it, which takes its place and its direction.
addIntermediateNode(t, p, g) ==
    LET dir == t.node[p].dir
    IN  Redirect(t, p, g,
            With([t.node EXCEPT ![p].dir = Reverse2(dir)], g, Group(dir, <<p>>)))

\* n under p at index idx (from 0).  A group of p's direction is replaced by its
\* kids, a leaf of p's direction is turned.  p must be a group.
AddUnder(t, p, idx, n) ==
    LET sameDir == t.node[n].dir = t.node[p].dir
        added   == IF sameDir /\ ~IsLeaf(n) THEN t.node[n].kids ELSE <<n>>
        turned  == IF sameDir /\ IsLeaf(n)
                   THEN [t.node EXCEPT ![n].dir = Reverse2(@)] ELSE t.node
        kids    == t.node[p].kids
        at      == IF Len(kids) <= idx THEN Len(kids) ELSE idx
    IN  [t EXCEPT !.node = [turned EXCEPT ![p].kids =
            SubSeq(kids, 1, at) \o added \o SubSeq(kids, at + 1, Len(kids))]]

\* g is the id for the group that a leaf p needs.
addChildAt(t, p, idx, n, g) ==
    IF IsLeaf(p) THEN AddUnder(addIntermediateNode(t, p, g), g, idx, n)
    ELSE AddUnder(t, p, idx, n)

\* The first n at or after index start is taken from the kids of p.
removeChild(t, p, n, start) ==
    LET kids == t.node[p].kids
        at   == {i \in DOMAIN kids : kids[i] = n /\ i > start}
    IN  IF at = {} THEN t
        ELSE [t EXCEPT !.node[p].kids = RemoveAt(kids, Min(at))]

validateNode(t, n) == IsLeaf(n) # (t.node[n].kids # <<>>)

\* Where findNextInsertLocation puts a new node: [node, index, depth] in the
\* subtree of n; a full group offers the best place of its kids, last kid first.
Earlier(a, b) == a.depth ^ (a.index + MaxChildren) <= b.depth ^ (b.index + MaxChildren)
RECURSIVE InsertPlace(_, _, _)
InsertPlace(t, n, depth) ==
    IF IsLeaf(n) THEN [node |-> n, index |-> 1, depth |-> depth]
    ELSE LET kids   == t.node[n].kids
             below  == [i \in DOMAIN kids |-> InsertPlace(t, kids[Len(kids) + 1 - i], depth + 1)]
             places == (IF Len(kids) < MaxChildren
                        THEN <<[node |-> n, index |-> Len(kids), depth |-> depth]>>
                        ELSE <<>>) \o below
         IN  places[CHOOSE i \in DOMAIN places :
                /\ \A j \in DOMAIN places : Earlier(places[i], places[j])
                /\ \A j \in 1..(i - 1) : ~Earlier(places[j], places[i])]
findNextInsertLocation(t) == InsertPlace(t, t.root, 1)

\* The place an array of indices leads to.  A negative index is meant to count
\* from the end; what the code computes is childrenLength + |index|.
RECURSIVE findInsertLocationFromIndexArr(_, _, _)
findInsertLocationFromIndexArr(t, n, indexArr) ==
    LET len  == IF IsLeaf(n) THEN 1 ELSE Len(t.node[n].kids)
        i    == Head(indexArr)
        next == IF i < 0 THEN len - (IF i > -len THEN i ELSE -len)
                ELSE IF i < len - 1 THEN i ELSE len - 1
    IN  IF Len(indexArr) = 1 \/ IsLeaf(n) THEN [node |-> n, index |-> next]
        ELSE findInsertLocationFromIndexArr(t, t.node[n].kids[next + 1], Tail(indexArr))

\* Mutant: the kids keep their directions.
FlattenKidsUnturned(t, n) ==
    LET kids    == t.node[n].kids
        only(k) == Len(t.node[k].kids) = 1 /\ ~IsLeaf(t.node[k].kids[1])
        with(k) == IF only(k) THEN t.node[t.node[k].kids[1]].kids ELSE <<k>>
    IN  [t EXCEPT !.node[n].kids = FlattenSeq([i \in DOMAIN kids |-> with(kids[i])])]
\* balanceNode before its callback: the kids of n are turned across n, and a kid
\* with one group below it gives way to that group's kids.
FlattenKids(t, n) ==
    LET kids   == t.node[n].kids
        turned == [x \in DOMAIN t.node |->
                      IF x \in ToSet(kids) /\ t.node[x].dir = t.node[n].dir
                      THEN [t.node[x] EXCEPT !.dir = Reverse2(@)] ELSE t.node[x]]
        only(k) == Len(turned[k].kids) = 1 /\ ~IsLeaf(turned[k].kids[1])
        with(k) == IF only(k) THEN turned[turned[k].kids[1]].kids ELSE <<k>>
    IN  [t EXCEPT !.node = [turned EXCEPT ![n].kids =
            FlattenSeq([i \in DOMAIN kids |-> with(kids[i])])]]

\* balanceNode after the kids are done: a group with one leaf becomes that leaf,
\* in its own direction.
CollapseToLeaf(t, n) ==
    LET kids == t.node[n].kids
    IN  IF Len(kids) = 1 /\ IsLeaf(kids[1])
        THEN LET k == kids[1]
             IN  Redirect(t, n, k, [t.node EXCEPT ![k].dir = t.node[n].dir])
        ELSE t

RECURSIVE BalanceFrom(_, _), BalanceKids(_, _), BalanceWithin(_, _)
BalanceKids(t, ks) ==
    IF ks = <<>> THEN t ELSE BalanceKids(BalanceFrom(t, Head(ks)), Tail(ks))
BalanceWithin(t, n) == CollapseToLeaf(BalanceKids(t, t.node[n].kids), n)
BalanceFrom(t, n) == BalanceWithin(FlattenKids(t, n), n)

\* The walk throws on an invalid node, and on the hole an empty kid leaves.
BalanceThrows(t) == \E n \in DOMAIN t.node : ~validateNode(t, n)
Trimmed(t) == Rooted(t.root, t.node)
balanceNode(t) ==
    IF t.root = None THEN t
    ELSE Trimmed(BalanceFrom(t, t.root))

----------------------------------------------------------------------------
(* layoutTree.ts.  An action that the tree no longer fits may throw: the    *)
(* ...Throws operators say when.                                            *)

NoMove == [type |-> "none"]
MoveTo(t, p, i, n) == [type |-> "move", parent |-> p, index |-> i, node |-> n, leaf |-> t.node[n]]

Across(dir, side) == \/ dir = "column" /\ side \in {"top", "bottom"}
                     \/ dir = "row" /\ side \in {"left", "right"}

\* Drop m at a side of the leaf n: beside n's group for an outer side, under a new
\* group for a side n's direction runs across, else beside n in its parent.
DropPlace(t, n, m, outer, side) ==
    LET p     == ParentOf(t, n)
        gp    == IF p = None THEN None ELSE ParentOf(t, p)
        past  == IF side \in {"bottom", "right"} THEN 1 ELSE 0
        along == Across(t.node[n].dir, side)
    IN  CASE outer /\ along /\ gp # None -> MoveTo(t, gp, IndexIn(t, gp, p) - 1 + past, m)
          [] along /\ ~(outer /\ gp # None) -> MoveTo(t, n, past, m)
          [] ~along /\ p # None -> MoveTo(t, p, IndexIn(t, p, n) - 1 + past, m)
          [] OTHER -> NoMove      \* a root that is a leaf has nothing to be moved next to it

\* The pending action that dragging m over n computes.
computeMoveNode(t, n, m, outer, side) ==
    IF n = m \/ ~IsIn(t, n) \/ ~IsIn(t, m) THEN NoMove
    ELSE IF side = "center"
    THEN IF t.root \in {n, m} THEN NoMove ELSE [type |-> "swap", node1 |-> n, node2 |-> m]
    ELSE LET op == DropPlace(t, n, m, outer, side)
             mp == ParentOf(t, m)
             mi == IndexIn(t, mp, m) - 1
         IN  IF op = NoMove \/ (op.parent = mp /\ op.index \in {mi, mi + 1}) THEN NoMove ELSE op

MoveThrows(t, a) == ~IsIn(t, a.parent)      \* "Invalid InsertOperation"
\* Mutant: the old place is cleared after the new parent's kids have moved up.
MoveNodeByIndex(t, a, g) ==
    LET old == ParentOf(t, a.node)
        put == addChildAt(IF IsIn(t, a.node) THEN t
                          ELSE [t EXCEPT !.node = With(@, a.node, a.leaf)], a.parent, a.index, a.node, g)
    IN  Trimmed(IF old = None THEN put
                ELSE [put EXCEPT !.node[old].kids = RemoveAt(@, IndexIn(t, old, a.node))])
\* The node goes to its new place first and then leaves the old one; a node that
\* was deleted since the action was computed is put back from the action.
moveNode(t, a, g) ==
    LET t0    == IF IsIn(t, a.node) THEN t
                 ELSE [t EXCEPT !.node = With(@, a.node, a.leaf)]
        old   == ParentOf(t, a.node)
        start == IF old = a.parent /\ IndexIn(t, old, a.node) - 1 >= a.index
                 THEN a.index + 1 ELSE 0
        put   == addChildAt(t0, a.parent, a.index, a.node, g)
    IN  Trimmed(IF old = None THEN put ELSE removeChild(put, old, a.node, start))

insertNode(t, n, g) ==
    IF t.root = None THEN [root |-> n, node |-> (n :> Leaf)]
    ELSE LET loc == findNextInsertLocation(t)
         IN  addChildAt([t EXCEPT !.node = With(@, n, Leaf)], loc.node, loc.index, n, g)

insertNodeAtIndex(t, n, indexArr, g) ==
    IF t.root = None THEN [root |-> n, node |-> (n :> Leaf)]
    ELSE IF indexArr = <<>> THEN t
    ELSE LET loc == findInsertLocationFromIndexArr(t, t.root, indexArr)
         IN  addChildAt([t EXCEPT !.node = With(@, n, Leaf)], loc.node, loc.index + 1, n, g)

SwapRefused(t, n, m) == t.root \in {n, m} \/ n = m
SwapThrows(t, n, m) == ~SwapRefused(t, n, m) /\ (ParentOf(t, n) = None \/ ParentOf(t, m) = None)
swapNode(t, n, m) ==
    IF SwapRefused(t, n, m) THEN t
    ELSE LET p == ParentOf(t, n)
             q == ParentOf(t, m)
             i == IndexIn(t, p, n)
             j == IndexIn(t, q, m)
             once == [t EXCEPT !.node[p].kids[i] = m]
         IN  [once EXCEPT !.node[q].kids[j] = n]

\* The ids given up with it are those below n.
deleteNode(t, n) ==
    IF t.root = n THEN NoTree
    ELSE IF ParentOf(t, n) = None THEN t
    ELSE Trimmed(removeChild(t, ParentOf(t, n), n, 0))

\* m in n's place.
replaceNode(t, n, m) ==
    IF t.root = n THEN [root |-> m, node |-> (m :> Leaf)]
    ELSE IF ParentOf(t, n) = None THEN t
    ELSE Trimmed(Redirect(t, n, m, With(t.node, m, Leaf)))

\* m beside n, in n's parent when that runs in direction dir and
\* else in a new group g around both.
SplitNode(t, dir, n, m, before, g) ==
    LET p    == ParentOf(t, n)
        pair == IF before THEN <<m, n>> ELSE <<n, m>>
        node == With(t.node, m, Leaf)
    IN  IF ~IsIn(t, n) THEN t
        ELSE IF p # None /\ t.node[p].dir = dir
        THEN LET i    == IndexIn(t, p, n)
                 kids == t.node[p].kids
             IN  [t EXCEPT !.node = [node EXCEPT ![p].kids =
                    SubSeq(kids, 1, i - 1) \o pair \o SubSeq(kids, i + 1, Len(kids))]]
        ELSE Redirect(t, n, g, With(node, g, Group(dir, pair)))
splitHorizontal(t, n, m, before, g) == SplitNode(t, "row", n, m, before, g)
splitVertical(t, n, m, before, g) == SplitNode(t, "column", n, m, before, g)
=============================================================================

------------------------------- MODULE TreeView -------------------------------
(***************************************************************************)
(* The tree of files (frontend/app/treeview/treeview.tsx): directories are *)
(* listed when they are first expanded, while the user goes on to expand,  *)
(* collapse and select, and while the owner of the tree replaces its       *)
(* initial nodes.  A node's number stands for its label.                   *)
(*                                                                         *)
(* External: fetchDir and the files there are.                             *)
(***************************************************************************)
EXTENDS Integers, SequencesExt

CONSTANTS
    Parent,        \* External: the files, numbered; the directory of each, 0 of the root, 1
    Directories,   \* those that are directories
    MaxDirEntries, \* entries that fetchDir lists of a directory
    MaxMovesInTree \* bound on what the user and the owner do

Nodes == DOMAIN Parent
ASSUME FilesAssumption ==
    /\ Parent \in Seq(Nat) /\ 1 \in Nodes /\ Directories \subseteq Nodes
    /\ Parent[1] = 0 /\ \A id \in Nodes \ {1} : Parent[id] \in Directories /\ Parent[id] < id

VARIABLES
    nodesById, expandedIds, selectedId, \* the component's state
    fetching,  \* per node: the calls of fetchDir under way for it
    replaced,  \* were the initial nodes replaced?
    treeMoves
treeVars == <<nodesById, expandedIds, selectedId, fetching, replaced, treeMoves>>

IsDirectory(id) == id \in Directories
Entries(id) == {c \in Nodes : Parent[c] = id}

Node(id) == [here |-> TRUE, status |-> IF IsDirectory(id) THEN "unloaded" ELSE "loaded", kids |-> <<>>, failed |-> FALSE]
Missing == [here |-> FALSE, status |-> "unloaded", kids |-> <<>>, failed |-> FALSE]
initialNodes == [id \in Nodes |-> IF id = 1 THEN Node(id) ELSE Missing]

\* Directories first, then by label.
sortIdsByNode(ids) ==
    SetToSortSeq(ids, LAMBDA l, r : IF IsDirectory(l) = IsDirectory(r) THEN l < r ELSE IsDirectory(l))

\* A row of a node, or of the note that its children are loading, could not be loaded, or
\* are not all listed.
Row(id, kind) == [id |-> id, kind |-> kind]
appendNode[id \in Nodes] ==
    LET node == nodesById[id]
        shut == id \notin expandedIds \/ ~IsDirectory(id)
    IN  CASE ~node.here -> <<>>
          [] node.here /\ shut -> <<Row(id, "node")>>
          [] node.here /\ ~shut /\ node.status \in {"loading", "error"} -> <<Row(id, "node"), Row(id, node.status)>>
          [] OTHER ->
                <<Row(id, "node")>>
                \o FlattenSeq([i \in DOMAIN node.kids |-> appendNode[node.kids[i]]])
                \o (IF node.status = "capped" THEN <<Row(id, "capped")>> ELSE <<>>)
buildVisibleRows == appendNode[1]
Visible(id) == Row(id, "node") \in ToSet(buildVisibleRows)

----------------------------------------------------------------------------
(* Loading *)

\* The children are loaded once.
Loads(id) == ~nodesById[id].failed /\ nodesById[id].status = "unloaded"
loadChildren(id) ==
    IF Loads(id)
    THEN /\ nodesById' = [nodesById EXCEPT ![id].status = "loading"]
         /\ fetching' = [fetching EXCEPT ![id] = @ + 1]
    ELSE UNCHANGED <<nodesById, fetching>>

\* The answer: new nodes for what is listed, and the list, in the node as it is then.
Source(id) == IF nodesById[id].here THEN nodesById[id] ELSE Node(id)
Listed(id) == LET all == sortIdsByNode(Entries(id)) IN
    SubSeq(all, 1, IF Len(all) > MaxDirEntries THEN MaxDirEntries ELSE Len(all))
FetchAnswers(id) ==
    LET kids == Listed(id)
        status == IF Len(kids) < Cardinality(Entries(id)) THEN "capped" ELSE "loaded"
    IN
    /\ fetching[id] > 0
    /\ fetching' = [fetching EXCEPT ![id] = @ - 1]
    /\ nodesById' = [n \in Nodes |->
            IF n = id THEN [Source(id) EXCEPT !.kids = kids, !.status = status]
            ELSE IF n \in Entries(id) /\ Contains(kids, n) THEN Node(n) ELSE nodesById[n]]
    /\ UNCHANGED <<expandedIds, selectedId, replaced, treeMoves>>
\* Mutant: a failure is only noted.
Unlisted(n) == [n EXCEPT !.failed = TRUE]
Failed(n) == [n EXCEPT !.status = "error", !.failed = TRUE]
FetchFails(id) ==
    /\ fetching[id] > 0
    /\ fetching' = [fetching EXCEPT ![id] = @ - 1]
    /\ nodesById' = [nodesById EXCEPT ![id] = Failed(Source(id))]
    /\ UNCHANGED <<expandedIds, selectedId, replaced, treeMoves>>

----------------------------------------------------------------------------
(* The user *)

MovesInTree == treeMoves < MaxMovesInTree /\ treeMoves' = treeMoves + 1

LoadsOnToggle(expanded) == ~expanded
\* A directory that failed stays as it is.
toggleExpand(id) ==
    IF IsDirectory(id) /\ nodesById[id].here /\ ~nodesById[id].failed
    THEN LET expanded == id \in expandedIds IN
         /\ expandedIds' = IF expanded THEN expandedIds \ {id} ELSE expandedIds \cup {id}
         /\ IF LoadsOnToggle(expanded) THEN loadChildren(id) ELSE UNCHANGED <<nodesById, fetching>>
    ELSE UNCHANGED <<nodesById, expandedIds, fetching>>
commitSelection(id) ==
    /\ selectedId' = IF nodesById[id].here THEN id ELSE selectedId
    /\ UNCHANGED <<nodesById, expandedIds, fetching>>

\* By its chevron or a double click.
Toggle(id) ==
    /\ MovesInTree /\ Visible(id)
    /\ toggleExpand(id)
    /\ UNCHANGED <<selectedId, replaced>>
ClickRow(id) ==
    /\ MovesInTree /\ Visible(id)
    /\ commitSelection(id)
    /\ UNCHANGED replaced

\* ArrowDown and ArrowUp go to the next row of a node, past notes; from a selection that is
\* not shown, to the first or last row.
Step(down) ==
    LET rows == buildVisibleRows
        at == SelectInSeq(rows, LAMBDA r : r = Row(selectedId, "node"))
        next == {i \in DOMAIN rows : rows[i].kind = "node" /\
                    IF down THEN i > at ELSE at = 0 \/ i < at}
        to == IF down THEN CHOOSE i \in next : \A j \in next : i <= j ELSE CHOOSE i \in next : \A j \in next : i >= j
    IN IF next # {} THEN commitSelection(rows[to].id) ELSE UNCHANGED <<nodesById, expandedIds, selectedId, fetching>>
ArrowVertical(down) == MovesInTree /\ Step(down) /\ UNCHANGED replaced
\* ArrowLeft collapses, or goes to the parent; ArrowRight expands, or goes to the first child.
ArrowLeft ==
    /\ MovesInTree /\ nodesById[selectedId].here
    /\ IF IsDirectory(selectedId) /\ selectedId \in expandedIds
       THEN toggleExpand(selectedId) /\ UNCHANGED selectedId
       ELSE Parent[selectedId] # 0 /\ commitSelection(Parent[selectedId])
    /\ UNCHANGED replaced
ArrowRight ==
    /\ MovesInTree /\ nodesById[selectedId].here /\ IsDirectory(selectedId)
    /\ IF selectedId \notin expandedIds
       THEN toggleExpand(selectedId) /\ UNCHANGED selectedId
       ELSE nodesById[selectedId].kids # <<>> /\ commitSelection(nodesById[selectedId].kids[1])
    /\ UNCHANGED replaced

\* The owner gives new initial nodes: what is expanded and selected stays.
ReplaceNodes ==
    /\ MovesInTree
    /\ nodesById' = initialNodes
    /\ replaced' = TRUE
    /\ UNCHANGED <<expandedIds, selectedId, fetching>>

TreeInit ==
    /\ nodesById = initialNodes /\ expandedIds = {} /\ selectedId = 1
    /\ fetching = [id \in Nodes |-> 0] /\ replaced = FALSE /\ treeMoves = 0
TreeNext ==
    \/ ReplaceNodes \/ ArrowLeft \/ ArrowRight
    \/ \E down \in BOOLEAN : ArrowVertical(down)
    \/ \E id \in Nodes : FetchAnswers(id) \/ FetchFails(id) \/ Toggle(id) \/ ClickRow(id)
TreeSpec == TreeInit /\ [][TreeNext]_treeVars

----------------------------------------------------------------------------
(* Properties *)

\* A directory is shown as loading only while it is: its listing ends the note however it
\* was collapsed, expanded and replaced meanwhile.  Unless the initial nodes were replaced,
\* a directory shown open was listed, failed, or is being listed, once
\* (treeview.tsx:284-356).
OpenIsListed == \A id \in Nodes :
    /\ nodesById[id].status = "loading" => fetching[id] > 0
    /\ ~replaced /\ id \in expandedIds => nodesById[id].status # "unloaded"
    /\ ~replaced => fetching[id] <= 1 /\ (fetching[id] = 1 => nodesById[id].status = "loading")
=============================================================================

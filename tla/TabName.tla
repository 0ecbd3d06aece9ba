-------------------------------- MODULE TabName --------------------------------
(***************************************************************************)
(* The renaming of a tab in the bars of the pages of its workspace         *)
(* (frontend/app/tab/tab.tsx, vtab.tsx): a name is typed into the element  *)
(* that shows it, which React also writes when the tab's name changes.     *)
(* React may commit several updates at once, and one that a newer one      *)
(* overtook is dropped (wos.ts:272): the page then never shows that name.  *)
(*                                                                         *)
(* Calls and updates are each handled in their own goroutine               *)
(* (pkg/dshrpc/dshserver/dshserver.go:136-144).                            *)
(***************************************************************************)
EXTENDS Integers, SequencesExt

CONSTANTS
    NamePages,  \* the pages
    MaxRenames, \* bound on names edited
    MaxRefused  \* bound on calls that fail

VARIABLES
    name,         \* the tab's name in the backend
    known,        \* per page: the name in its object store
    shown,        \* per page: the text of the element
    originalName, \* per page: the name that is put back
    editing,      \* pages where the element is editable
    renames,      \* UpdateTabNameCommand calls under way
    nameNews,     \* per page: names on their way
    vertical,     \* are the bars at the left?
    passedOver,   \* pages that never showed a name other than theirs, and have not written one since
    edited, refused
nameVars == <<name, known, shown, originalName, editing, renames, nameNews, vertical, passedOver, edited, refused>>

\* "long" is longer than 14 characters, and begins with "x".
Names == {"x", "y", "long"}
truncateTabName(n) == IF n = "long" /\ ~vertical THEN "x" ELSE n

startRename(p) ==
    /\ p \notin editing /\ edited < MaxRenames
    /\ editing' = editing \cup {p}
    /\ edited' = edited + 1
    /\ UNCHANGED <<name, known, shown, originalName, renames, nameNews, vertical, passedOver, refused>>
TypeName(p, t) ==
    /\ p \in editing
    /\ shown' = [shown EXCEPT ![p] = t] /\ shown' # shown
    /\ UNCHANGED <<name, known, originalName, editing, renames, nameNews, vertical, passedOver, edited, refused>>

NewText(text, original) == IF text = "" THEN original ELSE text
\* Mutant: the bar at the left sends a name that is the old one, not the others.
SendsOld(text, original) == ~vertical \/ text = original
\* The bar at the top sends the name even if it is the old one.
Sends(text, original) == ~vertical \/ text # original
handleBlur(p, text) ==
    LET new == NewText(text, originalName[p]) IN
    /\ p \in editing
    /\ editing' = editing \ {p}
    /\ shown' = [shown EXCEPT ![p] = new]
    /\ renames' = IF Sends(new, originalName[p]) THEN Append(renames, new) ELSE renames
    /\ UNCHANGED <<name, known, originalName, nameNews, vertical, passedOver, edited, refused>>
\* Enter, or the focus goes elsewhere.
Blur(p) == handleBlur(p, shown[p])
Escape(p) == handleBlur(p, originalName[p])

\* React writes the element when the text it last wrote is another.
Differs(p, n) == truncateTabName(n) # truncateTabName(known[p])
NameArrives(p) ==
    LET new == Head(nameNews[p]) IN
    /\ nameNews[p] # <<>>
    /\ nameNews' = [nameNews EXCEPT ![p] = Tail(@)]
    /\ known' = [known EXCEPT ![p] = new]
    /\ shown' = [shown EXCEPT ![p] = IF Differs(p, new) THEN truncateTabName(new) ELSE @]
    /\ passedOver' = IF Differs(p, new) THEN passedOver \ {p} ELSE passedOver
    /\ originalName' = [originalName EXCEPT ![p] = truncateTabName(new)]
    /\ UNCHANGED <<name, editing, renames, vertical, edited, refused>>
\* A name that is committed together with a later one, or comes after it.
NamePasses(p) ==
    /\ Len(nameNews[p]) > 1
    /\ nameNews' = [nameNews EXCEPT ![p] = Tail(@)]
    /\ passedOver' = IF Differs(p, Head(nameNews[p])) THEN passedOver \cup {p} ELSE passedOver
    /\ UNCHANGED <<name, known, shown, originalName, editing, renames, vertical, edited, refused>>

\* Calls are handled in any order, and may fail.
UpdateTabName(i) ==
    /\ i \in DOMAIN renames
    /\ name' = renames[i]
    /\ renames' = RemoveAt(renames, i)
    /\ nameNews' = [p \in NamePages |-> Append(nameNews[p], name')]
    /\ UNCHANGED <<known, shown, originalName, editing, vertical, passedOver, edited, refused>>
RenameRefused(i) ==
    /\ i \in DOMAIN renames /\ refused < MaxRefused
    /\ renames' = RemoveAt(renames, i)
    /\ refused' = refused + 1
    /\ UNCHANGED <<name, known, shown, originalName, editing, nameNews, vertical, passedOver, edited>>

NameInit ==
    /\ name \in Names /\ vertical \in BOOLEAN
    /\ known = [p \in NamePages |-> name]
    /\ shown = [p \in NamePages |-> truncateTabName(name)] /\ originalName = shown
    /\ editing = {} /\ renames = <<>> /\ nameNews = [p \in NamePages |-> <<>>]
    /\ passedOver = {} /\ edited = 0 /\ refused = 0
NameNext ==
    \/ \E p \in NamePages :
        \/ startRename(p) \/ Blur(p) \/ Escape(p) \/ NameArrives(p) \/ NamePasses(p)
        \/ \E t \in Names \cup {""} : TypeName(p, t)
    \/ \E i \in 1..MaxRenames : UpdateTabName(i) \/ RenameRefused(i)
NameSpec == NameInit /\ [][NameNext]_nameVars

----------------------------------------------------------------------------
(* Properties *)

\* When all has arrived and nobody edits, every page shows the name that is stored, as far
\* as it is shown, though what is typed, put back and written by React meet in one element;
\* a name that was refused stays shown (tab.tsx:67-72, 120-157; vtab.tsx:69-150), as does one
\* typed where a page passed over another name on the way back to the one it knew.
NamesAgree ==
    (editing = {} /\ renames = <<>> /\ refused = 0 /\ \A p \in NamePages : nameNews[p] = <<>>)
        => \A p \in NamePages \ passedOver : truncateTabName(shown[p]) = truncateTabName(name)
=============================================================================

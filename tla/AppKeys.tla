------------------------------- MODULE AppKeys -------------------------------
(***************************************************************************)
(* Which key does what in a page (frontend/util/keyutil.ts,                *)
(* app/store/keymodel.ts, app/store/modalmodel.ts, the keys of the         *)
(* terminal in app/view/term/term-model.ts): the modifiers as a platform   *)
(* names them, the tables of keys, the order in which the terminal, the    *)
(* application and the focused block are asked, and closing, searching and *)
(* typing into several terminals by key.                                   *)
(*                                                                         *)
(* Chords and the main process's part are in PageKeys, what a block's      *)
(* creation and removal do to the layout in LayoutModel and ObjectSync.    *)
(* Of the digits there are 1 and 2, of the other characters those that a   *)
(* table names and "q".  The settings that switch keys off are not set.    *)
(***************************************************************************)
EXTENDS Integers, SequencesExt, FiniteSetsExt

CONSTANTS
    AppBlocks,   \* blocks, of which TermBlocks are terminals
    TermBlocks,
    MaxKeys      \* bound on keys pressed

ASSUME AppBlocksAssumption == IsFiniteSet(AppBlocks)

VARIABLES
    platform,  \* PLATFORM
    pressed,   \* the last key: [mods, key, code, at], or NoKey
    did,       \* what came of it
    leaves,    \* blocks of the page's layout
    focused,   \* blocks, at most one: the one that has the focus
    tabBlocks, \* the page's copy of Tab.blockids
    backendBlocks,    \* the backend's
    deletes,   \* blocks whose deletion is on its way
    modals,    \* open modals
    search,    \* blocks whose search is open
    multi,     \* isTermMultiInput
    tabClosed,
    hasty,     \* was a block closed while tabBlocks was not what is shown?
    keys
appVars == <<platform, pressed, did, leaves, focused, tabBlocks, backendBlocks, deletes, modals, search, multi, tabClosed, hasty, keys>>

----------------------------------------------------------------------------
(* keyutil.ts *)

Mac == platform = "darwin"
UpperOf == [w |-> "W", v |-> "V", c |-> "C", i |-> "I", x |-> "X", d |-> "D", n |-> "N", s |-> "S", h |-> "H", q |-> "Q"]
Uppers == Range(UpperOf)
IsUpper(k) == k \in Uppers
Lower(k) == IF IsUpper(k) THEN CHOOSE l \in DOMAIN UpperOf : UpperOf[l] = k ELSE k

\* Each modifier has two names on a platform, and the keyboard's brings the other one.
Partner ==
    IF Mac THEN [Cmd |-> "Meta", Meta |-> "Cmd", Option |-> "Alt", Alt |-> "Option"]
    ELSE [Cmd |-> "Alt", Alt |-> "Cmd", Option |-> "Meta", Meta |-> "Option"]
Named(mods) == mods \cup {Partner[m] : m \in mods \cap DOMAIN Partner}
parseKeyDescription(d) == [d EXCEPT !.mods = Named(@) \cup (IF IsUpper(d.key) THEN {"Shift"} ELSE {})]
adaptFromReactOrNativeKeyEvent(held, key, code) == [mods |-> Named(held), key |-> key, code |-> code]
SameKey(e, d) ==
    IF d.key = "" THEN e.code = d.code
    ELSE IF IsUpper(e.key) THEN Lower(e.key) = Lower(d.key)
    ELSE (IF e.key = " " THEN "Space" ELSE e.key) = (IF d.key = " " THEN "Space" ELSE d.key)
checkKeyPressed(e, d) == SameKey(e, d) /\ e.mods = parseKeyDescription(d).mods

Key(mods, key) == [mods |-> mods, key |-> key, code |-> ""]
Code(mods, code) == [mods |-> mods, key |-> "", code |-> code]
Chars == DOMAIN UpperOf \cup Uppers \cup {"]", "[", "t", "m", "g", "f", "1", "a", "z", " ", "j", "k", "l", "r"}
isCharacterKeyEvent(e) == e.mods \cap {"Alt", "Meta", "Ctrl"} = {} /\ e.key \in Chars
Arrows == {"ArrowLeft", "ArrowRight", "ArrowUp", "ArrowDown"}
inputKeyMap ==
    {Key({}, k) : k \in Arrows \cup {"Backspace", "Delete", "Enter", "Space", "Tab", "Home", "End", "PageUp", "PageDown"}}
    \cup {Key({"Cmd"}, k) : k \in {"a", "c", "v", "x", "z", "ArrowLeft", "ArrowRight", "Backspace", "Delete"}}
    \cup {Key({"Shift"}, k) : k \in Arrows \cup {"Home", "End"}} \cup {Key({"Cmd", "Shift"}, k) : k \in Arrows \cup {"z"}}
isInputEvent(e) == isCharacterKeyEvent(e) \/ \E d \in inputKeyMap : checkKeyPressed(e, d)

----------------------------------------------------------------------------
(* The tables *)

CtrlShift == {"Ctrl", "Shift"}
Bind(d, does) == [desc |-> d, does |-> does]
\* registerGlobalKeys, in the order of its entries.
globalKeyMap == <<
    Bind(Key({"Cmd"}, "]"), "next tab"), Bind(Key({"Shift", "Cmd"}, "]"), "next tab"),
    Bind(Key({"Cmd"}, "["), "previous tab"), Bind(Key({"Shift", "Cmd"}, "["), "previous tab"),
    Bind(Key({"Cmd"}, "n"), "new block"), Bind(Key({"Cmd"}, "d"), "new block"), Bind(Key({"Shift", "Cmd"}, "d"), "new block"),
    Bind(Key({"Cmd"}, "i"), "refocus"), Bind(Key({"Cmd"}, "t"), "new tab"),
    Bind(Key({"Cmd"}, "w"), "close"), Bind(Key({"Cmd", "Shift"}, "w"), "close tab"), Bind(Key({"Cmd"}, "m"), "magnify"),
    Bind(Key(CtrlShift, "ArrowUp"), "up"), Bind(Key(CtrlShift, "ArrowDown"), "down"),
    Bind(Key(CtrlShift, "ArrowLeft"), "left"), Bind(Key(CtrlShift, "ArrowRight"), "right"),
    Bind(Key(CtrlShift, "h"), "left"), Bind(Key(CtrlShift, "j"), "down"),
    Bind(Key(CtrlShift, "k"), "up"), Bind(Key(CtrlShift, "l"), "right"),
    Bind(Key(CtrlShift, "x"), "to launcher"), Bind(Key({}, "F2"), "rename tab"), Bind(Key({"Cmd"}, "g"), "connections"),
    Bind(Key(CtrlShift, "i"), "multi"),
    Bind(Key({"Cmd"}, "1"), "tab 1"), Bind(Code(CtrlShift, "Digit1"), "block 1"), Bind(Code(CtrlShift, "Numpad1"), "block 1"),
    Bind(Key({"Cmd"}, "2"), "tab 2"), Bind(Code(CtrlShift, "Digit2"), "block 2"), Bind(Code(CtrlShift, "Numpad2"), "block 2"),
    Bind(Key({"Cmd"}, "f"), "search"), Bind(Key({}, "Escape"), "escape")>>
ChordKey == Key(CtrlShift, "s")
\* The keys that TermViewModel takes before the application.
TermKeys ==
    {Bind(Key({"Shift"}, k), "scroll") : k \in {"End", "Home", "PageDown", "PageUp"}}
    \cup (IF Mac THEN {Bind(Key({"Cmd"}, k), "scroll") : k \in {"End", "Home"}}
                      \cup {Bind(Key({"Cmd"}, k), "edit") : k \in {"ArrowLeft", "ArrowRight"}}
          ELSE {Bind(Key({"Ctrl"}, "v"), "paste")})
    \cup {Bind(Key({"Shift"}, "Enter"), "newline"), Bind(Key(CtrlShift, "v"), "paste"), Bind(Key(CtrlShift, "c"), "copy"),
          Bind(Key({"Cmd"}, "k"), "clear")}
Matches(e, bindings) == {b \in bindings : checkKeyPressed(e, b.desc)}
\* checkKeyMap: the first entry that matches.
checkKeyMap(e) ==
    LET fit == {i \in DOMAIN globalKeyMap : checkKeyPressed(e, globalKeyMap[i].desc)}
    IN  IF fit = {} THEN "none" ELSE globalKeyMap[Min(fit)].does

----------------------------------------------------------------------------
(* keymodel.ts *)

layoutVars2 == <<leaves, focused, tabBlocks, backendBlocks, deletes>>
Elsewhere == UNCHANGED <<layoutVars2, modals, search, multi, tabClosed, hasty>>

\* The main process closes the tab, unless its user does not confirm.
simpleCloseStaticTab == tabClosed' \in BOOLEAN /\ UNCHANGED <<layoutVars2, modals, search, multi>>
closeNode(b) ==
    /\ leaves' = leaves \ {b} /\ search' = search \ {b}
    /\ focused' \in {{f} : f \in leaves'} \cup (IF leaves' = {} THEN {{}} ELSE {})
    /\ deletes' = deletes \cup {b}
    /\ UNCHANGED <<tabBlocks, backendBlocks, modals, multi, tabClosed>>
\* Mutant: only an empty tab is closed.
genericCloseLate ==
    /\ hasty' = (hasty \/ tabBlocks # leaves)
    /\ IF tabBlocks = {} THEN simpleCloseStaticTab
       ELSE IF focused # {} THEN \E b \in focused : closeNode(b)
       ELSE UNCHANGED <<layoutVars2, modals, search, multi, tabClosed>>
genericClose ==
    /\ hasty' = (hasty \/ tabBlocks # leaves)
    /\ IF Cardinality(tabBlocks) <= 1 THEN simpleCloseStaticTab
       ELSE IF focused # {} THEN \E b \in focused : closeNode(b)
       ELSE UNCHANGED <<layoutVars2, modals, search, multi, tabClosed>>
uxCloseBlock(b) ==
    /\ b \in leaves
    /\ hasty' = (hasty \/ tabBlocks # leaves)
    /\ IF Cardinality(tabBlocks) = 1 THEN simpleCloseStaticTab ELSE closeNode(b)
countTermBlocks == Cardinality(leaves \cap TermBlocks)
\* What the handler of a binding changes; FALSE for one that does not take the key.
RunBinding(does) ==
    CASE does = "close"     -> genericClose
      [] does = "close tab" -> simpleCloseStaticTab /\ UNCHANGED hasty
      [] does = "multi"     -> /\ multi' = (IF ~multi /\ countTermBlocks <= 1 THEN multi ELSE ~multi)
                               /\ UNCHANGED <<layoutVars2, modals, search, tabClosed, hasty>>
      [] does = "new block" -> /\ \E b \in AppBlocks \ (backendBlocks \cup leaves \cup deletes) : backendBlocks' = backendBlocks \cup {b}
                               /\ UNCHANGED <<leaves, focused, tabBlocks, deletes, modals, search, multi, tabClosed, hasty>>
      [] does = "search"    -> /\ search' = search \cup focused
                               /\ UNCHANGED <<layoutVars2, modals, multi, tabClosed, hasty>>
      [] does = "escape"    -> IF modals > 0
                               THEN modals' = modals - 1 /\ UNCHANGED <<layoutVars2, search, multi, tabClosed, hasty>>
                               ELSE /\ search' = search \ focused
                                    /\ UNCHANGED <<layoutVars2, modals, multi, tabClosed, hasty>>
      [] does \in {"left", "right", "up", "down", "block 1", "block 2"} ->
                               /\ focused' \in {focused} \cup {{f} : f \in leaves}
                               /\ UNCHANGED <<leaves, tabBlocks, backendBlocks, deletes, modals, search, multi, tabClosed, hasty>>
      [] OTHER              -> Elsewhere
\* Does the handler of a binding leave the key to the block?
Passes(does) == does = "none" \/ (does = "escape" /\ modals = 0 /\ search \cap focused = {})
\* shouldDispatchToBlock, with the browser's focus `at` an input, a terminal or elsewhere.
shouldDispatchToBlock(e, at) == modals = 0 /\ (at = "input" => ~isInputEvent(e))

\* appHandleKeyDown outside a chord.
AppTakes(e, at) ==
    LET does == checkKeyMap(e) IN
    IF checkKeyPressed(e, ChordKey) THEN did' = "chord" /\ Elsewhere
    ELSE IF ~Passes(does) THEN did' = does /\ RunBinding(does)
    ELSE /\ did' = IF focused # {} /\ shouldDispatchToBlock(e, at) /\ focused \subseteq TermBlocks
                      /\ \E b \in Matches(e, TermKeys) : b.does = "scroll" THEN "scroll" ELSE "typed"
         /\ Elsewhere
\* A key that goes down: in a terminal handleTerminalKeydown is asked first.
KeyDown(held, key, code, at) ==
    LET e == adaptFromReactOrNativeKeyEvent(held, key, code) IN
    /\ keys < MaxKeys /\ ~tabClosed
    /\ at = "term" => modals = 0 /\ focused # {} /\ focused \subseteq TermBlocks
    /\ at = "input" => modals > 0 \/ search # {}
    /\ pressed' = [mods |-> e.mods, key |-> key, code |-> code, at |-> at]
    /\ IF at = "term" /\ Matches(e, TermKeys) # {}
       THEN (\E b \in Matches(e, TermKeys) : did' = b.does) /\ Elsewhere
       ELSE AppTakes(e, at)
    /\ keys' = keys + 1
    /\ UNCHANGED platform
ClickClose(b) ==
    /\ keys < MaxKeys /\ ~tabClosed /\ modals = 0
    /\ uxCloseBlock(b)
    /\ did' = "close" /\ keys' = keys + 1
    /\ UNCHANGED <<platform, pressed>>

----------------------------------------------------------------------------
(* The rest of the page and the backend *)

Still == ~tabClosed /\ UNCHANGED <<platform, pressed, did, keys, tabClosed, multi, hasty>>
ModalOpens == modals = 0 /\ modals' = 1 /\ Still /\ UNCHANGED <<layoutVars2, search>>
DeleteArrives(b) ==
    /\ b \in deletes
    /\ deletes' = deletes \ {b} /\ backendBlocks' = backendBlocks \ {b}
    /\ Still /\ UNCHANGED <<leaves, focused, tabBlocks, modals, search>>
TabArrives == tabBlocks # backendBlocks /\ tabBlocks' = backendBlocks /\ Still /\ UNCHANGED <<leaves, focused, backendBlocks, deletes, modals, search>>
\* The insertion that the backend queued for a block it made.
InsertArrives(b) ==
    /\ b \in backendBlocks \ (leaves \cup deletes)
    /\ leaves' = leaves \cup {b} /\ focused' = {b}
    /\ Still /\ UNCHANGED <<tabBlocks, backendBlocks, deletes, modals, search>>

NoKey == [mods |-> {}, key |-> "", code |-> "", at |-> "page"]
AppInit ==
    /\ platform \in {"darwin", "linux"}
    /\ pressed = NoKey /\ did = ""
    /\ leaves \in SUBSET AppBlocks /\ Cardinality(leaves) = 2 /\ focused \in {{b} : b \in leaves}
    /\ tabBlocks = leaves /\ backendBlocks = leaves /\ deletes = {}
    /\ modals = 0 /\ search = {} /\ multi = FALSE /\ tabClosed = FALSE /\ hasty = FALSE /\ keys = 0
\* Any key comes first; after it those that lead on.
HeldSets == SUBSET {"Ctrl", "Shift", "Alt", "Meta"}
CmdMod == IF Mac THEN "Meta" ELSE "Alt"
LeadsOn == pressed.key \in {"", "w", "n", "f", "i", "h", "Escape"}
AppNext ==
    \/ \E held \in HeldSets, at \in {"page", "term"} :
        \/ \E key \in Chars \cup Arrows \cup {"Enter", "Escape", "F2", "Home", "End", "PageUp", "Backspace", "Tab"} :
            keys = 0 /\ backendBlocks = leaves /\ KeyDown(held, key, "", at)
        \/ \E code \in {"Digit1", "Numpad1"} : keys = 0 /\ KeyDown(held, "", code, at)
    \/ LeadsOn /\ \E key \in {"w", "n", "f"}, at \in {"page", "term", "input"} : KeyDown({CmdMod}, key, "", at)
    \/ LeadsOn /\ \E key \in {"i", "h"} : KeyDown(CtrlShift, key, "", "page")
    \/ LeadsOn /\ \E at \in {"page", "input"} : KeyDown({}, "Escape", "", at)
    \/ \E b \in AppBlocks : (LeadsOn /\ ClickClose(b)) \/ DeleteArrives(b) \/ InsertArrives(b)
    \/ ModalOpens \/ TabArrives
AppSpec == AppInit /\ [][AppNext]_appVars

----------------------------------------------------------------------------
(* Properties *)

\* No key means two things: all entries that match it do the same, on either platform;
\* none of them is a key with which text is entered or edited; and none is hidden by the
\* chord or by a key of the terminal (keymodel.ts:431-660, keyutil.ts:150-188,
\* term-model.ts:505-640).
KeyMeansOne == keys > 0 =>
    LET matched == Matches(pressed, Range(globalKeyMap))
        chord == checkKeyPressed(pressed, ChordKey)
    IN  matched # {} \/ chord =>
        /\ Cardinality({b.does : b \in matched}) + (IF chord THEN 1 ELSE 0) = 1
        /\ ~isInputEvent(pressed)
        /\ Matches(pressed, TermKeys) \subseteq {b \in TermKeys : b.does = "edit"}
\* A tab goes with its last block: closing blocks leaves no tab without any, and the tab is
\* not closed while it shows two, when the page's copy of the tab was up to date at every
\* close (keymodel.ts:143-173).
TabGoesWithLastBlock == ~hasty =>
    /\ tabClosed /\ did = "close" => Cardinality(leaves) <= 1
    /\ leaves # {} \/ tabClosed

\* What a key does is what its binding says, and closing by key or click keeps the tab and
\* its blocks together (both above).
AppKeysHold == KeyMeansOne /\ TabGoesWithLastBlock
=============================================================================

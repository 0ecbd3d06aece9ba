------------------------------- MODULE PageKeys -------------------------------
(***************************************************************************)
(* The keyboard of two pages of one application (frontend/app/store/       *)
(* keymodel.ts, app.tsx, view/term/term-model.ts; emain/emain-util.ts,     *)
(* emain-tabview.ts, emain-ipc.ts): the main process sees every key first, *)
(* tells a page when Ctrl and Shift are held and, in chord mode, takes a   *)
(* key away from the page and gives it back to it as a message.            *)
(*                                                                         *)
(* Presses other than modifiers are of the kinds "first" (Ctrl:Shift:s),   *)
(* "second" (the arrows), "global" (the other keys of globalKeyMap),       *)
(* "block" (keys of the terminal's own keyDownHandler) and "text".         *)
(* External: the browser, which delivers the keys and messages of a page   *)
(* in order, and the desktop, which moves the focus between windows.       *)
(***************************************************************************)
EXTENDS Integers, SequencesExt

CONSTANTS
    Pages,
    MaxPresses,  \* bound on keys that are no modifiers
    MaxHolds     \* bound on modifiers pressed or released, and on moves of the focus

VARIABLES
    held,      \* modifiers held down
    front,     \* the page with the focus
    lastState, \* lastCtrlShiftSate, one for all pages
    chordMode, \* keyboardChordMode of each page's view
    inbox,     \* what is on its way to each page: keys, reinjected keys and states
    asks,      \* pages whose set-keyboard-chord-mode is on its way
    chord,     \* activeChord of each page
    simple,    \* simpleControlShiftAtom
    delayed,   \* controlShiftDelayAtom: the block numbers are shown
    overlays,  \* pages with a timer of setControlShift under way
    fate,      \* per press: what came of it
    holds
keyVars == <<held, front, lastState, chordMode, inbox, asks, chord, simple, delayed, overlays, fate, holds>>
pageVars == <<chord, simple, delayed, overlays>>

Both == {"Control", "Shift"} \subseteq held'

----------------------------------------------------------------------------
(* emain-util.ts, emain-tabview.ts *)

Give(p, m) == [inbox EXCEPT ![p] = Append(@, m)]
StateOf(on) == [what |-> "state", on |-> on]
setCtrlShift(p, on) == lastState' = on /\ inbox' = Give(p, StateOf(on))
\* handleCtrlShiftState of a key that goes up, with the modifiers still held.
Up(key) ==
    CASE key = "Meta" /\ Both -> [tells |-> TRUE, on |-> TRUE]
      [] key \in {"Control", "Shift"} \/ (lastState /\ ~Both) -> [tells |-> TRUE, on |-> FALSE]
      [] OTHER -> [tells |-> FALSE, on |-> FALSE]
HoldDown(key) ==
    /\ holds < MaxHolds /\ key \notin held
    /\ held' = held \cup {key}
    /\ setCtrlShift(front, Both /\ "Meta" \notin held')
    /\ holds' = holds + 1
    /\ UNCHANGED <<front, chordMode, asks, pageVars, fate>>
LetGo(key) ==
    /\ key \in held
    /\ held' = held \ {key}
    /\ IF Up(key).tells THEN setCtrlShift(front, Up(key).on) ELSE UNCHANGED <<lastState, inbox>>
    /\ UNCHANGED <<front, chordMode, asks, pageVars, fate, holds>>
\* handleCtrlShiftFocus
BlurTells(p) == setCtrlShift(p, FALSE)
FrontMoves(p) ==
    /\ holds < MaxHolds /\ p # front
    /\ front' = p
    /\ BlurTells(front)
    /\ holds' = holds + 1
    /\ UNCHANGED <<held, chordMode, asks, pageVars, fate>>

\* Mutant: the key that is given back is not kept from the page.
SentTwice(k) == <<[what |-> "reinject", key |-> k], [what |-> "key", key |-> k]>>
SentInChord(k) == <<[what |-> "reinject", key |-> k]>>
\* before-input-event: the key goes to the page, or is prevented and given back.
PressKey(kind) ==
    LET i == Len(fate) + 1
        k == [kind |-> kind, id |-> i]
    IN
    /\ Len(fate) < MaxPresses
    /\ fate' = Append(fate, <<>>)
    /\ chordMode' = [chordMode EXCEPT ![front] = FALSE]
    /\ inbox' = [inbox EXCEPT ![front] =
                    @ \o (IF chordMode[front] THEN SentInChord(k) ELSE <<[what |-> "key", key |-> k]>>)]
    /\ UNCHANGED <<held, front, lastState, asks, pageVars, holds>>
setKeyboardChordMode(p) ==
    /\ p \in asks
    /\ asks' = asks \ {p}
    /\ chordMode' = [chordMode EXCEPT ![p] = TRUE]
    /\ UNCHANGED <<held, front, lastState, inbox, pageVars, fate, holds>>
ChordModeTimeout(p) ==
    /\ chordMode[p]
    /\ chordMode' = [chordMode EXCEPT ![p] = FALSE]
    /\ UNCHANGED <<held, front, lastState, inbox, asks, pageVars, fate, holds>>

----------------------------------------------------------------------------
(* keymodel.ts, term-model.ts *)

Becomes(k, outcome) == fate' = [fate EXCEPT ![k.id] = Append(@, outcome)]
\* What appHandleKeyDown makes of a key: "none" when it is not handled.
Handled(p, k) ==
    CASE chord[p] /\ k.kind = "second"         -> "split"
      [] chord[p] /\ k.kind # "second"         -> "swallowed"
      [] ~chord[p] /\ k.kind = "first"         -> "chord"
      [] ~chord[p] /\ k.kind = "global"        -> "global"
      [] ~chord[p] /\ k.kind = "block"         -> "block"
      [] OTHER                                 -> "none"
appHandleKeyDown(p, k, otherwise) ==
    LET h == Handled(p, k) IN
    /\ chord' = [chord EXCEPT ![p] = h = "chord"]
    /\ asks' = IF h = "chord" THEN asks \cup {p} ELSE asks
    /\ Becomes(k, IF h = "none" THEN otherwise ELSE h)
    /\ UNCHANGED <<simple, delayed, overlays>>
\* A terminal that has the focus tries its own keys before the application's.
handleTerminalKeydown(p, k) ==
    IF k.kind = "block" THEN Becomes(k, "block") /\ UNCHANGED <<asks, pageVars>>
    ELSE appHandleKeyDown(p, k, "text")
setControlShift(p) ==
    /\ simple' = [simple EXCEPT ![p] = TRUE]
    /\ overlays' = overlays \cup {p}
    /\ UNCHANGED <<chord, delayed, fate, asks>>
unsetControlShift(p) ==
    /\ simple' = [simple EXCEPT ![p] = FALSE]
    /\ delayed' = [delayed EXCEPT ![p] = FALSE]
    /\ UNCHANGED <<chord, overlays, fate, asks>>

PageTakes(p) ==
    /\ inbox[p] # <<>>
    /\ LET m == Head(inbox[p]) IN
        CASE m.what = "key"      -> handleTerminalKeydown(p, m.key) \/ appHandleKeyDown(p, m.key, "text")
          [] m.what = "reinject" -> appHandleKeyDown(p, m.key, "swallowed")
          [] m.what = "state"    -> IF m.on THEN setControlShift(p) ELSE unsetControlShift(p)
    /\ inbox' = [inbox EXCEPT ![p] = Tail(@)]
    /\ UNCHANGED <<held, front, lastState, chordMode, holds>>
OverlayTimer(p) ==
    /\ p \in overlays
    /\ overlays' = overlays \ {p}
    /\ delayed' = [delayed EXCEPT ![p] = @ \/ simple[p]]
    /\ UNCHANGED <<held, front, lastState, chordMode, inbox, asks, chord, simple, fate, holds>>
ChordTimeout(p) ==
    /\ chord[p]
    /\ chord' = [chord EXCEPT ![p] = FALSE]
    /\ UNCHANGED <<held, front, lastState, chordMode, inbox, asks, simple, delayed, overlays, fate, holds>>
\* keyboardMouseDownHandler
keyboardMouseDownHandler ==
    /\ ~({"Control", "Shift"} \subseteq held)
    /\ simple[front] \/ delayed[front]
    /\ unsetControlShift(front)
    /\ UNCHANGED <<held, front, lastState, chordMode, inbox, holds>>

KeysInit ==
    /\ held = {} /\ front \in Pages /\ lastState = FALSE
    /\ chordMode = [p \in Pages |-> FALSE] /\ inbox = [p \in Pages |-> <<>>] /\ asks = {}
    /\ chord = [p \in Pages |-> FALSE] /\ simple = chord /\ delayed = chord /\ overlays = {}
    /\ fate = <<>> /\ holds = 0
KeysNext ==
    \/ \E key \in {"Control", "Shift", "Meta"} : HoldDown(key) \/ LetGo(key)
    \/ \E kind \in {"first", "second", "global", "block", "text"} : PressKey(kind)
    \/ keyboardMouseDownHandler
    \/ \E p \in Pages :
        \/ FrontMoves(p) \/ setKeyboardChordMode(p) \/ ChordModeTimeout(p)
        \/ PageTakes(p) \/ OverlayTimer(p) \/ ChordTimeout(p)
KeysSpec == KeysInit /\ [][KeysNext]_keyVars

----------------------------------------------------------------------------
(* Properties *)

\* The block numbers are shown in no page but the one with the focus, and only while Ctrl and
\* Shift are held without Meta (emain-util.ts:62-95), once it took what it was sent:
\* neither a timer of an earlier press (keymodel.ts:76-83) nor the state shared by the
\* pages leaves them.
OverlayReleased ==
    \A p \in Pages : delayed[p] /\ inbox[p] = <<>> =>
        p = front /\ {"Control", "Shift"} \subseteq held /\ "Meta" \notin held
\* One thing comes of each press that reached the page: a key that main takes away for a
\* chord (emain-tabview.ts:330-335) is neither lost nor typed as well.
EachKeyOnce ==
    \A i \in DOMAIN fate :
        Len(fate[i]) = (IF \E p \in Pages : \E j \in DOMAIN inbox[p] :
                            inbox[p][j].what # "state" /\ inbox[p][j].key.id = i THEN 0 ELSE 1)

\* No key is lost to an overlay or a chord, nor given twice (both above).
KeysArrive == OverlayReleased /\ EachKeyOnce
=============================================================================

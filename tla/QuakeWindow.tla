----------------------------- MODULE QuakeWindow -----------------------------
(***************************************************************************)
(* The window that a global hotkey shows and hides                         *)
(* (emain/emain-window.ts: quakeToggle, registerGlobalHotkey,              *)
(* moveWindowToDisplay, calculateWindowBounds; emain/emain-util.ts:        *)
(* ensureBoundsAreVisible, doraKeyToElectronKey; the "activate" handler of *)
(* emain/emain.ts): a toggle waits for the window to leave or enter        *)
(* fullscreen, for 2 s at most, while the key is pressed again, the window *)
(* is closed or shown by another way, and the hotkey is configured anew.   *)
(*                                                                         *)
(* External: the windows of the operating system, whose changes to and     *)
(* from fullscreen take a while or never happen; its shortcuts, one        *)
(* program's each; createNewDoraWindow (BrowserWindows).                   *)
(***************************************************************************)
EXTENDS Integers, SequencesExt

CONSTANTS
    Displays,     \* the displays, the primary first: [bounds, area: rectangles [x, y, width, height]]
    MaxQuakes,    \* bound on the presses of the hotkey and on the windows made
    MaxHotKeys,   \* bound on the hotkeys configured
    RawKeys,      \* hotkeys that are configured: sequences of parts, <<>> for none
    IsDarwin,     \* is it macOS?
    WinPlaces,    \* rectangles of windows
    WinSizes      \* sizes and positions that are asked for: [width, height, x, y, dims], 0 where not set

Rectangle == [x: Int, y: Int, width: Nat, height: Nat]
ASSUME DisplaysAssumption ==
    Displays # <<>> /\ Displays \in Seq([bounds: Rectangle, area: Rectangle])
ASSUME PlacesAssumption ==
    WinPlaces \subseteq Rectangle /\ WinSizes \subseteq [width: Nat, height: Nat, x: Int, y: Int, dims: Nat \X Nat]
KeyParts == STRING \X STRING
ASSUME KeysAssumption == RawKeys \subseteq Seq(KeyParts)

VARIABLES
    quake,     \* the quake window: [n: its number, 0 for none, visible, full, focused]
    turning,   \* what it is changing to: "full", "normal" or "none"
    inProgress,\* quakeToggleInProgress
    restoreFull, \* quakeRestoreFullscreenOnShow
    toggles,   \* toggles under way: [win, pc, before: was it visible?, late: did it wait in vain?]
    presses,   \* number of presses
    hidFull,   \* did the hotkey take the window out of fullscreen to hide it?
    strayed,   \* was restoreFull left set when its window was closed or shown by another way?
    toggled,   \* what the last toggle did: [before, after, full: it should be fullscreen, isFull, calm] or <<>>
    hotkey,    \* [raw: currentRawGlobalHotKey, key: currentGlobalHotKey, sent: keys configured, conf: the last one,
               \*  own: shortcuts registered for the program, taken: by others, refused: was the last one?]
    placed     \* a placement of a window that is looked at: <<>> or <<kind, ...>>

quakeVars == <<quake, turning, inProgress, restoreFull, toggles, presses, hidFull, strayed, toggled, hotkey, placed>>
toggleVars == <<quake, turning, inProgress, restoreFull, toggles, presses, hidFull, strayed, toggled>>

NoWindow == [n |-> 0, visible |-> FALSE, full |-> FALSE, focused |-> FALSE]

----------------------------------------------------------------------------
(* Placing a window *)

Inside(x, y, r) == x >= r.x /\ x < r.x + r.width /\ y >= r.y /\ y < r.y + r.height
isPointInDisplay(x, y) == \E d \in DOMAIN Displays : Inside(x, y, Displays[d].bounds)
isWindowFullyVisible(b) ==
    /\ isPointInDisplay(b.x, b.y) /\ isPointInDisplay(b.x + b.width, b.y)
    /\ isPointInDisplay(b.x, b.y + b.height) /\ isPointInDisplay(b.x + b.width, b.y + b.height)
Least(i, j) == IF i < j THEN i ELSE j
Most(i, j) == IF i < j THEN j ELSE i
OverlapArea(b, r) ==
    Most(0, Least(b.x + b.width, r.x + r.width) - Most(b.x, r.x)) * Most(0, Least(b.y + b.height, r.y + r.height) - Most(b.y, r.y))
\* The first of those with the most area, 0 when no display shows any of it.
findDisplayWithMostArea(b) ==
    LET Area(d) == OverlapArea(b, Displays[d].bounds)
        best == {d \in DOMAIN Displays : Area(d) > 0 /\ \A e \in DOMAIN Displays : Area(e) < Area(d) \/ (Area(e) = Area(d) /\ d <= e)}
    IN  IF best = {} THEN 0 ELSE CHOOSE d \in best : TRUE
\* Along one axis: not before the area, and not past its end.
Fitted(at, size, from, length) == IF at < from THEN from ELSE IF at + size > from + length THEN from + length - size ELSE at
adjustBoundsToFitDisplay(b, area) ==
    LET width == Least(b.width, area.width)
        height == Least(b.height, area.height)
    IN  [x |-> Fitted(b.x, width, area.x, area.width), y |-> Fitted(b.y, height, area.y, area.height), width |-> width, height |-> height]
ensureBoundsAreVisible(b) ==
    IF isWindowFullyVisible(b) THEN b ELSE adjustBoundsToFitDisplay(b, Displays[Most(1, findDisplayWithMostArea(b))].area)

\* "dims" are those of the setting window:dimensions, taken when a side is missing.
calculateWindowBounds(s) ==
    LET byDims == s.width = 0 \/ s.height = 0
        Side(given, dim, screen, at, most) ==
            IF given # 0 THEN given ELSE IF byDims /\ dim # 0 THEN dim ELSE Least(screen - at - 100, most)
        width == Side(s.width, s.dims[1], Displays[1].area.width, s.x, 2000)
        height == Side(s.height, s.dims[2], Displays[1].area.height, s.y, 1200)
    IN  ensureBoundsAreVisible([x |-> s.x, y |-> s.y, width |-> Most(width, 800), height |-> Most(height, 500)])

\* From the display it is on (the one with the most of it; the primary when none shows it) to another.
moveWindowToDisplay(b, target) ==
    LET source == Most(1, findDisplayWithMostArea(b))
        from == Displays[source].area
        to == Displays[target].area
        width == Least(b.width, to.width)
        height == Least(b.height, to.height)
    IN  IF source = target THEN b
        ELSE [x |-> to.x + Least(Most(b.x - from.x, 0), Most(0, to.width - width)),
              y |-> to.y + Least(Most(b.y - from.y, 0), Most(0, to.height - height)), width |-> width, height |-> height]

----------------------------------------------------------------------------
(* The toggle; a promise that was resolved goes on before anything else *)

Waits(pc) == \E t \in DOMAIN toggles : toggles[t].pc = pc
NothingResolved == ~Waits("left") /\ ~Waits("entered")
Alive(t) == quake.n # 0 /\ quake.n = toggles[t].win
Ends(t, after) ==
    /\ toggles' = [u \in DOMAIN toggles \ {t} |-> toggles[u]]
    /\ inProgress' = FALSE
    /\ toggled' = after

\* The hotkey is pressed. (A toggle that is under way takes no other press.)
PressGuard == ~inProgress
Press ==
    LET t == presses + 1
        toggle(pc) == [win |-> quake.n, pc |-> pc, before |-> quake.visible, late |-> FALSE]
        Begins(pc) == toggles' = [u \in DOMAIN toggles \cup {t} |-> IF u = t THEN toggle(pc) ELSE toggles[u]]
    IN  /\ hotkey.own # {} /\ NothingResolved
        /\ presses < MaxQuakes
        /\ presses' = t
        /\ IF ~PressGuard THEN UNCHANGED <<quake, turning, inProgress, restoreFull, toggles, hidFull, strayed, toggled>>
           ELSE /\ inProgress' = TRUE
                /\ hidFull' = (quake.full \/ (hidFull /\ ~quake.visible))
                /\ strayed' = (strayed /\ ~quake.full)
                /\ restoreFull' = IF quake.full THEN ~IsDarwin ELSE restoreFull
                /\ turning' = IF quake.full THEN "normal" ELSE turning
                /\ Begins(IF quake.n = 0 THEN "creating" ELSE IF quake.full THEN "leaving" ELSE "left")
                /\ UNCHANGED <<quake, toggled>>
        /\ UNCHANGED <<hotkey, placed>>

\* What follows once the window is not fullscreen, or does not get out of it.
HideOrShow(t) ==
    /\ toggles[t].pc = "left"
    /\ IF ~Alive(t)
       THEN Ends(t, <<>>) /\ UNCHANGED <<quake, turning, restoreFull>>
       ELSE IF quake.visible
       THEN /\ quake' = [quake EXCEPT !.visible = FALSE, !.focused = FALSE]
            /\ Ends(t, [before |-> toggles[t].before, after |-> FALSE, full |-> FALSE, isFull |-> FALSE, calm |-> ~toggles[t].late])
            /\ UNCHANGED <<turning, restoreFull>>
       ELSE IF restoreFull /\ ~quake.full
       THEN /\ quake' = [quake EXCEPT !.visible = TRUE]
            /\ turning' = "full"
            /\ toggles' = [toggles EXCEPT ![t].pc = "entering"]
            /\ UNCHANGED <<inProgress, toggled, restoreFull>>
       ELSE /\ quake' = [quake EXCEPT !.visible = TRUE]
            /\ turning' = IF restoreFull THEN "full" ELSE turning
            /\ toggles' = [toggles EXCEPT ![t].pc = "entered"]
            /\ UNCHANGED <<inProgress, toggled, restoreFull>>
    /\ UNCHANGED <<presses, hidFull, strayed, hotkey, placed>>
\* The end of a showing; the focus of a window that was closed throws.
ShownNow(t) ==
    /\ toggles[t].pc = "entered"
    /\ restoreFull' = FALSE
    /\ strayed' = FALSE
    /\ hidFull' = FALSE
    /\ quake' = IF Alive(t) THEN [quake EXCEPT !.focused = TRUE] ELSE quake
    /\ Ends(t, IF ~Alive(t) THEN <<>>
               ELSE [before |-> toggles[t].before, after |-> quake.visible, full |-> hidFull /\ ~IsDarwin, isFull |-> quake.full,
                     calm |-> ~toggles[t].late /\ ~strayed])
    /\ UNCHANGED <<turning, presses, hotkey, placed>>

\* The window came to what it was changing to; those that wait for it go on.
Turned ==
    /\ turning # "none" /\ NothingResolved
    /\ turning' = "none"
    /\ quake' = [quake EXCEPT !.full = turning = "full"]
    /\ toggles' = [t \in DOMAIN toggles |->
           IF toggles[t].pc = "leaving" /\ turning = "normal" THEN [toggles[t] EXCEPT !.pc = "left"]
           ELSE IF toggles[t].pc = "entering" /\ turning = "full" THEN [toggles[t] EXCEPT !.pc = "entered"] ELSE toggles[t]]
    /\ UNCHANGED <<inProgress, restoreFull, presses, hidFull, strayed, toggled, hotkey, placed>>
\* 2 s passed first.
TurnTimeout(t) ==
    /\ NothingResolved
    /\ toggles[t].pc \in {"leaving", "entering"}
    /\ toggles' = [toggles EXCEPT ![t].pc = IF @ = "leaving" THEN "left" ELSE "entered", ![t].late = TRUE]
    /\ UNCHANGED <<quake, turning, inProgress, restoreFull, presses, hidFull, strayed, toggled, hotkey, placed>>

\* createNewDoraWindow returns, with the window it made or without.
WindowMade(t, made) ==
    /\ NothingResolved
    /\ toggles[t].pc = "creating"
    /\ quake' = IF made /\ quake.n = 0 THEN [n |-> t, visible |-> TRUE, full |-> FALSE, focused |-> TRUE] ELSE quake
    /\ Ends(t, <<>>)
    /\ UNCHANGED <<turning, restoreFull, presses, hidFull, strayed, hotkey, placed>>

----------------------------------------------------------------------------
(* What else happens to the window *)

CloseQuake ==
    /\ NothingResolved /\ quake.n # 0 /\ quake.visible
    /\ quake' = NoWindow /\ turning' = "none"
    /\ hidFull' = FALSE
    /\ strayed' = restoreFull
    /\ UNCHANGED <<inProgress, restoreFull, toggles, presses, toggled, hotkey, placed>>
\* "activate": the application is asked for while no window is visible.
Activate ==
    /\ NothingResolved /\ quake.n # 0 /\ ~quake.visible
    /\ quake' = [quake EXCEPT !.visible = TRUE, !.focused = TRUE]
    /\ hidFull' = FALSE
    /\ strayed' = restoreFull
    /\ toggles' = [t \in DOMAIN toggles |-> [toggles[t] EXCEPT !.late = TRUE]]
    /\ UNCHANGED <<turning, inProgress, restoreFull, presses, toggled, hotkey, placed>>
UserTurns ==
    /\ NothingResolved /\ quake.visible /\ turning = "none"
    /\ turning' = IF quake.full THEN "normal" ELSE "full"
    /\ UNCHANGED <<quake, inProgress, restoreFull, toggles, presses, hidFull, strayed, toggled, hotkey, placed>>

----------------------------------------------------------------------------
(* The hotkey *)

\* A part of a key: <<kind, name>>, of kind "lower" or "upper" (letters),
\* "digit", "numpad" or "word".
Renamed ==
    [ArrowUp |-> "Up", ArrowDown |-> "Down", ArrowLeft |-> "Left", ArrowRight |-> "Right", Soft1 |-> "F21", Soft2 |-> "F22",
     Soft3 |-> "F23", Soft4 |-> "F24", CapsLock |-> "Capslock", NumLock |-> "Numlock", ScrollLock |-> "Scrolllock",
     AudioVolumeUp |-> "VolumeUp", AudioVolumeDown |-> "VolumeDown", AudioVolumeMute |-> "VolumeMute",
     MediaTrackNext |-> "MediaNextTrack", MediaTrackPrevious |-> "MediaPreviousTrack", Decimal |-> "numdec", Add |-> "numadd",
     Subtract |-> "numsub", Multiply |-> "nummult", Divide |-> "numdiv"]
ElectronPart(part) ==
    CASE part[1] = "lower" -> <<"upper", part[2]>>
      [] part[1] = "digit" -> <<"word", part[2]>>
      [] part[1] = "word" /\ part[2] \in DOMAIN Renamed -> <<"word", Renamed[part[2]]>>
      [] OTHER -> part
doraKeyToElectronKey(raw) == [i \in DOMAIN raw |-> ElectronPart(raw[i])]
\* Electron throws for what is no key.
IsKey(raw) == \A i \in DOMAIN raw : raw[i][2] # "nokey"

NoHotKey == <<>>
Unregistered(h) == [h EXCEPT !.own = @ \ {h.key}, !.key = NoHotKey, !.raw = IF h.key = NoHotKey THEN @ ELSE NoHotKey]
Registered(h, raw) ==
    LET key == doraKeyToElectronKey(raw)
    IN  IF ~IsKey(raw) THEN [h EXCEPT !.refused = FALSE]
        ELSE [h EXCEPT !.own = @ \cup ({key} \ h.taken), !.refused = key \in h.taken \cup h.own, !.raw = raw, !.key = key]
\* Mutant: the new one is registered before the old one is given up.
registerGlobalHotkeyFirst(h, raw) ==
    IF raw = h.raw THEN h
    ELSE LET new == IF raw = NoHotKey THEN [h EXCEPT !.raw = NoHotKey, !.key = NoHotKey] ELSE Registered(h, raw)
         IN  [new EXCEPT !.own = IF h.key = NoHotKey THEN @ ELSE @ \ {h.key}]
registerGlobalHotkey(h, raw) ==
    IF raw = h.raw THEN h
    ELSE IF raw = NoHotKey THEN [Unregistered(h) EXCEPT !.refused = FALSE]
    ELSE Registered(Unregistered(h), raw)

\* At startup, from the launch settings, and for every configuration that is sent.
Configured(raw) ==
    /\ NothingResolved
    /\ hotkey.sent < MaxHotKeys
    /\ hotkey' = [registerGlobalHotkey(hotkey, raw) EXCEPT !.sent = @ + 1, !.conf = raw]
    /\ UNCHANGED <<toggleVars, placed>>
\* Another program registers a shortcut.
OthersTake(raw) ==
    LET key == doraKeyToElectronKey(raw)
    IN  /\ NothingResolved
        /\ key \notin hotkey.own \cup hotkey.taken
        /\ hotkey' = [hotkey EXCEPT !.taken = @ \cup {key}]
        /\ UNCHANGED <<toggleVars, placed>>

----------------------------------------------------------------------------
Untouched == presses = 0 /\ hotkey.sent = 0 /\ placed = <<>>
PlacesWindow(s) ==
    /\ Untouched
    /\ placed' = <<"made", s, calculateWindowBounds(s)>>
    /\ UNCHANGED <<toggleVars, hotkey>>
MovesWindow(b, target) ==
    /\ Untouched
    /\ placed' = <<"moved", b, moveWindowToDisplay(b, target), target>>
    /\ UNCHANGED <<toggleVars, hotkey>>

QuakeInit ==
    /\ quake = [n |-> -1, visible |-> TRUE, full |-> FALSE, focused |-> FALSE]
    /\ turning = "none" /\ inProgress = FALSE /\ restoreFull = FALSE
    /\ toggles = <<>> /\ presses = 0 /\ hidFull = FALSE /\ strayed = FALSE /\ toggled = <<>>
    /\ hotkey = [raw |-> NoHotKey, key |-> NoHotKey, sent |-> 0, conf |-> NoHotKey, own |-> {}, taken |-> {}, refused |-> FALSE]
    /\ placed = <<>>

QuakeNext ==
    \/ Press
    \/ \E t \in DOMAIN toggles : HideOrShow(t) \/ ShownNow(t) \/ TurnTimeout(t) \/ \E made \in BOOLEAN : WindowMade(t, made)
    \/ Turned \/ CloseQuake \/ Activate \/ UserTurns
    \/ \E raw \in RawKeys : Configured(raw) \/ (raw # NoHotKey /\ OthersTake(raw))
    \/ \E s \in WinSizes : PlacesWindow(s)
    \/ \E r \in WinPlaces, d \in DOMAIN Displays : MovesWindow(r, d)
QuakeSpec == QuakeInit /\ [][QuakeNext]_quakeVars

----------------------------------------------------------------------------
\* A toggle that was not disturbed leaves the window shown if it was hidden and
\* hidden if it was shown, and as much in fullscreen as the hotkey found it when
\* it hid it; on macOS never in fullscreen.
TogglesOnce ==
    (toggled # <<>> /\ toggled.calm) => (toggled.after = ~toggled.before /\ toggled.isFull = toggled.full)
\* The shortcut of the last configuration, and no other, is registered, unless
\* another program had it or it is none.
HotkeyStands ==
    hotkey.own = IF hotkey.conf = NoHotKey \/ ~IsKey(hotkey.conf) \/ hotkey.refused THEN {} ELSE {doraKeyToElectronKey(hotkey.conf)}
Within2(b, r) == b.x >= r.x /\ b.x + b.width <= r.x + r.width /\ b.y >= r.y /\ b.y + b.height <= r.y + r.height
\* A window is made where all its corners show, of the least size where the
\* display allows it; one that is moved lies on the display it is moved to, as
\* large as it was where that has room.
PlacedWell ==
    placed # <<>> =>
        LET r == placed[3]
        IN  /\ placed[1] = "made" =>
                   \/ isWindowFullyVisible(r) /\ r.width >= 800 /\ r.height >= 500
                   \/ \E d \in DOMAIN Displays :
                          /\ Within2(r, Displays[d].area)
                          /\ r.width >= 800 \/ r.width = Displays[d].area.width
                          /\ r.height >= 500 \/ r.height = Displays[d].area.height
            /\ placed[1] = "moved" =>
                   \/ r = placed[2]
                   \/ LET area == Displays[placed[4]].area
                      IN  /\ Within2(r, area)
                          /\ r.width = placed[2].width \/ r.width = area.width
                          /\ r.height = placed[2].height \/ r.height = area.height
\* The hotkey does what it is for: it toggles, is registered, and finds its window a place.
QuakeHolds == TogglesOnce /\ HotkeyStands /\ PlacedWell
=============================================================================

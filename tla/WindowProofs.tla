---------------------------- MODULE WindowProofs ----------------------------
(***************************************************************************)
(* Proofs about the application's windows and menus: the window that a     *)
(* hotkey shows and hides, with its hotkey and its place; the application's*)
(* menu, context menus and zooming; and the windows of the Electron shell, *)
(* which go from the list of the backend only when they were closed.       *)
(***************************************************************************)
EXTENDS QuakeWindow, AppMenus, ElectronShell, DataLemmas

-----------------------------------------------------------------------------
(* QuakeWindow: one toggle at a time, which knows the window as it found it *)

Stages == {"creating", "leaving", "left", "entering", "entered"}
ToggleType ==
  /\ quake \in [n: Int, visible: BOOLEAN, full: BOOLEAN, focused: BOOLEAN]
  /\ turning \in {"none", "full", "normal"}
  /\ inProgress \in BOOLEAN /\ restoreFull \in BOOLEAN /\ hidFull \in BOOLEAN /\ strayed \in BOOLEAN
  /\ presses \in Nat
  /\ toggles = [t \in DOMAIN toggles |-> toggles[t]]
  /\ \A t \in DOMAIN toggles:
       /\ t \in Nat \ {0}
       /\ toggles[t] \in [win: Int, pc: Stages, before: BOOLEAN, late: BOOLEAN]
\* What a toggle that is under way may count on, as long as its window is there and it did
\* not wait in vain.
Relies(g) ==
  /\ g.pc \in {"leaving", "left"} => quake.visible = g.before
  /\ g.pc = "left" => ~quake.full
  /\ g.pc \in {"entering", "entered"} => quake.visible /\ ~g.before
  /\ g.pc = "entering" => restoreFull
  /\ g.pc = "entered" => quake.full = restoreFull
ToggleInv ==
  /\ ToggleType /\ TogglesOnce
  /\ quake.n = 0 => ~quake.visible /\ ~quake.full /\ turning = "none"
  /\ inProgress <=> DOMAIN toggles # {}
  /\ \A t, u \in DOMAIN toggles: t = u
  /\ \A t \in DOMAIN toggles:
       /\ quake.n \in {0, toggles[t].win} /\ (toggles[t].pc = "creating" => toggles[t].win = 0)
       /\ Alive(t) /\ ~toggles[t].late => Relies(toggles[t])
  \* The fullscreen that is to be restored is the one the hotkey took away.
  /\ (~inProgress /\ quake.visible) \/ quake.n = 0 => (restoreFull => strayed)
  /\ ~strayed => (restoreFull <=> hidFull /\ ~IsDarwin)

-----------------------------------------------------------------------------
(* QuakeWindow: the hotkey *)

HotKeys == RawKeys \cup {NoHotKey}
ElectronKeys == {doraKeyToElectronKey(raw): raw \in HotKeys}
HotkeyType ==
  hotkey \in [raw: HotKeys, key: ElectronKeys, sent: Nat, conf: HotKeys, own: SUBSET ElectronKeys,
              taken: SUBSET ElectronKeys, refused: BOOLEAN]
HotkeyInv ==
  /\ HotkeyType
  /\ hotkey.raw = NoHotKey =>
       hotkey.key = NoHotKey /\ hotkey.own = {} /\ (hotkey.conf = NoHotKey \/ ~IsKey(hotkey.conf))
  /\ hotkey.raw # NoHotKey =>
       /\ hotkey.conf = hotkey.raw /\ IsKey(hotkey.raw)
       /\ hotkey.key = doraKeyToElectronKey(hotkey.raw)
       /\ hotkey.own = IF hotkey.refused THEN {} ELSE {hotkey.key}
QuakeInv == ToggleInv /\ HotkeyInv /\ PlacedWell

LEMMA QuakeInitInv ==
  ASSUME QuakeInit
  PROVE  ToggleInv
<1>1. DOMAIN toggles = {} /\ toggles = [t \in DOMAIN toggles |-> toggles[t]]
  BY DEF QuakeInit
<1>2. quake \in [n: Int, visible: BOOLEAN, full: BOOLEAN, focused: BOOLEAN]
  BY DEF QuakeInit
<1>3. ToggleType /\ TogglesOnce
  BY <1>1, <1>2 DEF QuakeInit, ToggleType, TogglesOnce
<1>4. quake.n # 0 /\ ~restoreFull /\ ~hidFull /\ ~inProgress
  BY DEF QuakeInit
<1> QED
  BY <1>1, <1>3, <1>4 DEF ToggleInv

\* All toggles under way are one.
LEMMA OneToggle ==
  ASSUME ToggleInv, NEW t \in DOMAIN toggles
  PROVE  /\ DOMAIN toggles = {t} /\ inProgress
         /\ t \in Nat \ {0} /\ toggles[t] \in [win: Int, pc: Stages, before: BOOLEAN, late: BOOLEAN]
         /\ quake.n \in {0, toggles[t].win} /\ (toggles[t].pc = "creating" => toggles[t].win = 0)
         /\ Alive(t) /\ ~toggles[t].late => Relies(toggles[t])
  BY DEF ToggleInv, ToggleType

\* What follows when a toggle ends, or does not.
LEMMA EndsInv ==
  ASSUME ToggleInv, NEW t \in DOMAIN toggles, NEW after, Ends(t, after)
  PROVE  /\ DOMAIN toggles' = {} /\ inProgress' = FALSE /\ toggled' = after
         /\ toggles' = [u \in DOMAIN toggles' |-> toggles'[u]]
<1>1. DOMAIN toggles = {t}
  BY OneToggle
<1> QED
  BY <1>1 DEF Ends

LEMMA ToggleFrame ==
  ASSUME ToggleInv, presses' \in Nat,
         UNCHANGED <<quake, turning, inProgress, restoreFull, toggles, hidFull, strayed, toggled>>
  PROVE  ToggleInv'
<1>1. ToggleType' /\ TogglesOnce'
  BY DEF ToggleInv, ToggleType, TogglesOnce
<1>2. \A t \in DOMAIN toggles': (Alive(t) /\ ~toggles[t].late => Relies(toggles[t]))'
  BY DEF ToggleInv, Alive, Relies
<1> QED
  BY <1>1, <1>2 DEF ToggleInv

LEMMA PressInv ==
  ASSUME ToggleInv, Press
  PROVE  ToggleInv'
<1> USE DEF Stages
<1>1. presses' = presses + 1 /\ presses' \in Nat \ {0}
  BY DEF Press, ToggleInv, ToggleType
<1>2. CASE inProgress
  <2>1. UNCHANGED <<quake, turning, inProgress, restoreFull, toggles, hidFull, strayed, toggled>>
    BY <1>2 DEF Press, PressGuard
  <2> QED
    BY <1>1, <2>1, ToggleFrame
<1>3. CASE ~inProgress
  <2>1. DOMAIN toggles = {} /\ ToggleType
    BY <1>3 DEF ToggleInv
  <2>2. /\ inProgress' = TRUE
        /\ hidFull' = (quake.full \/ (hidFull /\ ~quake.visible))
        /\ strayed' = (strayed /\ ~quake.full)
        /\ restoreFull' = IF quake.full THEN ~IsDarwin ELSE restoreFull
        /\ turning' = IF quake.full THEN "normal" ELSE turning
        /\ quake' = quake /\ toggled' = toggled
    BY <1>3 DEF Press, PressGuard
  <2>3. PICK pc: pc = IF quake.n = 0 THEN "creating" ELSE IF quake.full THEN "leaving" ELSE "left"
    OBVIOUS
  <2>4. toggles' = [u \in DOMAIN toggles \cup {presses + 1} |->
                      IF u = presses + 1 THEN [win |-> quake.n, pc |-> pc, before |-> quake.visible, late |-> FALSE] ELSE toggles[u]]
    BY <1>3, <2>3 DEF Press, PressGuard
  <2>5. toggles' = [u \in {presses + 1} |-> [win |-> quake.n, pc |-> pc, before |-> quake.visible, late |-> FALSE]]
    BY <2>1, <2>4
  <2>6. quake \in [n: Int, visible: BOOLEAN, full: BOOLEAN, focused: BOOLEAN] /\ pc \in Stages
    BY <2>1, <2>3 DEF ToggleType
  <2>7. ToggleType'
    <3>1. toggles' = [t \in DOMAIN toggles' |-> toggles'[t]]
      BY <2>5
    <3>2. \A t \in DOMAIN toggles': t \in Nat \ {0} /\ toggles'[t] \in [win: Int, pc: Stages, before: BOOLEAN, late: BOOLEAN]
      BY <1>1, <2>5, <2>6
    <3> QED
      BY <1>1, <2>1, <2>2, <3>1, <3>2 DEF ToggleType
  <2>8. TogglesOnce'
    BY <2>2 DEF ToggleInv, TogglesOnce
  <2>9. \A t \in DOMAIN toggles': (Alive(t) /\ ~toggles[t].late => Relies(toggles[t]))'
    BY <2>2, <2>3, <2>5 DEF Alive, Relies
  <2>10. /\ quake'.n = 0 => ~quake'.visible /\ ~quake'.full /\ turning' = "none"
         /\ quake'.n = 0 => (restoreFull' => strayed')
         /\ \A t \in DOMAIN toggles': quake'.n \in {0, toggles'[t].win} /\ (toggles'[t].pc = "creating" => toggles'[t].win = 0)
    BY <2>2, <2>3, <2>5 DEF ToggleInv
  <2>12. ~strayed' => (restoreFull' <=> hidFull' /\ ~IsDarwin)
    <3>1. quake.visible => (restoreFull => strayed)
      BY <1>3 DEF ToggleInv
    <3>2. ~strayed => (restoreFull <=> hidFull /\ ~IsDarwin)
      BY DEF ToggleInv
    <3>3. restoreFull \in BOOLEAN /\ hidFull \in BOOLEAN /\ strayed \in BOOLEAN
      BY <2>1 DEF ToggleType
    <3> QED
      BY <2>2, <3>1, <3>2, <3>3
  <2>13. DOMAIN toggles' = {presses + 1}
    BY <2>5
  <2> QED
    BY <2>2, <2>7, <2>8, <2>9, <2>10, <2>12, <2>13 DEF ToggleInv
<1> QED
  BY <1>2, <1>3

LEMMA HideOrShowInv ==
  ASSUME ToggleInv, NEW t \in DOMAIN toggles, HideOrShow(t)
  PROVE  ToggleInv'
<1> USE DEF Stages
<1>1. toggles[t].pc = "left" /\ UNCHANGED <<presses, hidFull, strayed>>
  BY DEF HideOrShow
<1>2. ToggleType /\ quake \in [n: Int, visible: BOOLEAN, full: BOOLEAN, focused: BOOLEAN] /\ restoreFull \in BOOLEAN
  BY DEF ToggleInv, ToggleType
<1>3. /\ DOMAIN toggles = {t} /\ t \in Nat \ {0} /\ inProgress
      /\ toggles[t] \in [win: Int, pc: Stages, before: BOOLEAN, late: BOOLEAN]
      /\ quake.n \in {0, toggles[t].win}
      /\ Alive(t) /\ ~toggles[t].late => quake.visible = toggles[t].before /\ ~quake.full
  BY <1>1, OneToggle DEF Relies
<1>4. quake.n = 0 => ~quake.visible /\ ~quake.full /\ turning = "none" /\ (restoreFull => strayed)
  BY DEF ToggleInv
<1>5. ~strayed => (restoreFull <=> hidFull /\ ~IsDarwin)
  BY DEF ToggleInv
<1>6. CASE ~Alive(t)
  <2>1. Ends(t, <<>>) /\ UNCHANGED <<quake, turning, restoreFull>>
    BY <1>6 DEF HideOrShow
  <2>2. DOMAIN toggles' = {} /\ inProgress' = FALSE /\ toggled' = <<>> /\ toggles' = [u \in DOMAIN toggles' |-> toggles'[u]]
    BY <2>1, EndsInv
  <2>3. ToggleType'
    BY <1>1, <1>2, <2>1, <2>2 DEF ToggleType
  <2>4. quake.n = 0
    BY <1>3, <1>6 DEF Alive
  <2> QED
    BY <1>1, <1>4, <1>5, <2>1, <2>2, <2>3, <2>4 DEF ToggleInv, TogglesOnce
<1>7. CASE Alive(t) /\ quake.visible
  <2>1. /\ quake' = [quake EXCEPT !.visible = FALSE, !.focused = FALSE]
        /\ Ends(t, [before |-> toggles[t].before, after |-> FALSE, full |-> FALSE, isFull |-> FALSE, calm |-> ~toggles[t].late])
        /\ UNCHANGED <<turning, restoreFull>>
    BY <1>7 DEF HideOrShow
  <2>2. /\ DOMAIN toggles' = {} /\ inProgress' = FALSE /\ toggles' = [u \in DOMAIN toggles' |-> toggles'[u]]
        /\ toggled' = [before |-> toggles[t].before, after |-> FALSE, full |-> FALSE, isFull |-> FALSE, calm |-> ~toggles[t].late]
    BY <2>1, EndsInv
  <2>3. /\ quake' \in [n: Int, visible: BOOLEAN, full: BOOLEAN, focused: BOOLEAN]
        /\ quake'.n = quake.n /\ ~quake'.visible /\ quake'.full = quake.full
    BY <1>2, <2>1
  <2>4. ToggleType'
    BY <1>1, <1>2, <2>1, <2>2, <2>3 DEF ToggleType
  <2>5. TogglesOnce'
    BY <1>3, <1>7, <2>2 DEF TogglesOnce
  <2>6. quake.n # 0
    BY <1>7 DEF Alive
  <2> QED
    BY <1>1, <1>5, <2>1, <2>2, <2>3, <2>4, <2>5, <2>6 DEF ToggleInv
<1>8. CASE Alive(t) /\ ~quake.visible
  <2>1. PICK pc \in {"entering", "entered"}:
          /\ toggles' = [toggles EXCEPT ![t].pc = pc]
          /\ pc = "entering" <=> restoreFull /\ ~quake.full
    BY <1>8, <1>2 DEF HideOrShow
  <2>2. /\ quake' = [quake EXCEPT !.visible = TRUE]
        /\ turning' \in {turning, "full"}
        /\ UNCHANGED <<inProgress, toggled, restoreFull>>
    BY <1>8 DEF HideOrShow
  <2>3. /\ quake' \in [n: Int, visible: BOOLEAN, full: BOOLEAN, focused: BOOLEAN]
        /\ quake'.n = quake.n /\ quake'.visible = TRUE /\ quake'.full = quake.full
    BY <1>2, <2>2
  <2>4. /\ DOMAIN toggles' = {t} /\ toggles' = [u \in DOMAIN toggles' |-> toggles'[u]]
        /\ toggles'[t] \in [win: Int, pc: Stages, before: BOOLEAN, late: BOOLEAN]
        /\ toggles'[t].win = toggles[t].win /\ toggles'[t].pc = pc
        /\ toggles'[t].before = toggles[t].before /\ toggles'[t].late = toggles[t].late
    BY <1>2, <1>3, <2>1 DEF ToggleType
  <2>5. ToggleType'
    BY <1>1, <1>2, <1>3, <2>2, <2>3, <2>4 DEF ToggleType
  <2>6. TogglesOnce'
    BY <2>2 DEF ToggleInv, TogglesOnce
  <2>7. \A u \in DOMAIN toggles': (Alive(u) /\ ~toggles[u].late => Relies(toggles[u]))'
    BY <1>2, <1>3, <1>8, <2>1, <2>2, <2>3, <2>4 DEF Alive, Relies
  <2>8. quake.n # 0
    BY <1>8 DEF Alive
  <2>9. pc # "creating" /\ \A u \in DOMAIN toggles': quake'.n \in {0, toggles'[u].win} /\ (toggles'[u].pc = "creating" => toggles'[u].win = 0)
    BY <1>3, <2>3, <2>4
  <2> QED
    BY <1>1, <1>3, <1>5, <2>2, <2>3, <2>4, <2>5, <2>6, <2>7, <2>8, <2>9 DEF ToggleInv
<1> QED
  BY <1>6, <1>7, <1>8

LEMMA ShownNowInv ==
  ASSUME ToggleInv, NEW t \in DOMAIN toggles, ShownNow(t)
  PROVE  ToggleInv'
<1> USE DEF Stages
<1>1. /\ toggles[t].pc = "entered" /\ restoreFull' = FALSE /\ strayed' = FALSE /\ hidFull' = FALSE
      /\ turning' = turning /\ presses' = presses
      /\ quake' = IF Alive(t) THEN [quake EXCEPT !.focused = TRUE] ELSE quake
  BY DEF ShownNow
<1>2. /\ ToggleType /\ quake \in [n: Int, visible: BOOLEAN, full: BOOLEAN, focused: BOOLEAN]
      /\ restoreFull \in BOOLEAN /\ hidFull \in BOOLEAN
  BY DEF ToggleInv, ToggleType
<1>3. /\ toggles[t] \in [win: Int, pc: Stages, before: BOOLEAN, late: BOOLEAN]
      /\ Alive(t) /\ ~toggles[t].late => quake.visible /\ ~toggles[t].before /\ quake.full = restoreFull
  BY <1>1, OneToggle DEF Relies
<1>4. quake.n = 0 => ~quake.visible /\ ~quake.full /\ turning = "none"
  BY DEF ToggleInv
<1>5. ~strayed => (restoreFull <=> hidFull /\ ~IsDarwin)
  BY DEF ToggleInv
<1>6. PICK after: after = IF ~Alive(t) THEN <<>>
               ELSE [before |-> toggles[t].before, after |-> quake.visible, full |-> hidFull /\ ~IsDarwin, isFull |-> quake.full,
                     calm |-> ~toggles[t].late /\ ~strayed]
  OBVIOUS
<1>7. Ends(t, after)
  BY <1>6 DEF ShownNow
<1>8. DOMAIN toggles' = {} /\ inProgress' = FALSE /\ toggled' = after /\ toggles' = [u \in DOMAIN toggles' |-> toggles'[u]]
  BY <1>7, EndsInv
<1>9. /\ quake' \in [n: Int, visible: BOOLEAN, full: BOOLEAN, focused: BOOLEAN]
      /\ quake'.n = quake.n /\ quake'.visible = quake.visible /\ quake'.full = quake.full
  BY <1>1, <1>2
<1>10. ToggleType'
  BY <1>1, <1>2, <1>8, <1>9 DEF ToggleType
<1>11. TogglesOnce'
  BY <1>2, <1>3, <1>5, <1>6, <1>8 DEF TogglesOnce
<1> QED
  BY <1>1, <1>4, <1>8, <1>9, <1>10, <1>11 DEF ToggleInv

LEMMA WindowMadeInv ==
  ASSUME ToggleInv, NEW t \in DOMAIN toggles, NEW made \in BOOLEAN, WindowMade(t, made)
  PROVE  ToggleInv'
<1> USE DEF Stages
<1>1. /\ toggles[t].pc = "creating" /\ Ends(t, <<>>)
      /\ quake' = IF made /\ quake.n = 0 THEN [n |-> t, visible |-> TRUE, full |-> FALSE, focused |-> TRUE] ELSE quake
      /\ UNCHANGED <<turning, restoreFull, presses, hidFull, strayed>>
  BY DEF WindowMade
<1>2. ToggleType /\ quake \in [n: Int, visible: BOOLEAN, full: BOOLEAN, focused: BOOLEAN]
  BY DEF ToggleInv, ToggleType
<1>3. t \in Nat \ {0} /\ quake.n = 0
  BY <1>1, OneToggle
<1>4. quake.n = 0 => ~quake.visible /\ ~quake.full /\ turning = "none" /\ (restoreFull => strayed)
  BY DEF ToggleInv
<1>5. ~strayed => (restoreFull <=> hidFull /\ ~IsDarwin)
  BY DEF ToggleInv
<1>6. DOMAIN toggles' = {} /\ inProgress' = FALSE /\ toggled' = <<>> /\ toggles' = [u \in DOMAIN toggles' |-> toggles'[u]]
  BY <1>1, EndsInv
<1>7. quake' \in [n: Int, visible: BOOLEAN, full: BOOLEAN, focused: BOOLEAN]
  BY <1>1, <1>2, <1>3
<1>8. ToggleType'
  BY <1>1, <1>2, <1>6, <1>7 DEF ToggleType
<1>9. quake'.n = 0 => ~quake'.visible /\ ~quake'.full
  BY <1>1, <1>3, <1>4
<1> QED
  BY <1>1, <1>3, <1>4, <1>5, <1>6, <1>8, <1>9 DEF ToggleInv, TogglesOnce

LEMMA TurnTimeoutInv ==
  ASSUME ToggleInv, NEW t \in DOMAIN toggles, TurnTimeout(t)
  PROVE  ToggleInv'
<1> USE DEF Stages
<1>1. UNCHANGED <<quake, turning, inProgress, restoreFull, presses, hidFull, strayed, toggled>>
  BY DEF TurnTimeout
<1>2. ToggleType /\ DOMAIN toggles = {t} /\ toggles[t] \in [win: Int, pc: Stages, before: BOOLEAN, late: BOOLEAN] /\ t \in Nat \ {0}
  BY OneToggle DEF ToggleInv
<1>3. PICK pc \in {"left", "entered"}: toggles' = [toggles EXCEPT ![t].pc = pc, ![t].late = TRUE]
  BY DEF TurnTimeout
<1>4. /\ DOMAIN toggles' = {t} /\ toggles' = [u \in DOMAIN toggles' |-> toggles'[u]]
      /\ toggles'[t] \in [win: Int, pc: Stages, before: BOOLEAN, late: BOOLEAN]
      /\ toggles'[t].win = toggles[t].win /\ toggles'[t].pc = pc /\ toggles'[t].late = TRUE
  BY <1>2, <1>3 DEF ToggleType
<1>5. ToggleType'
  BY <1>1, <1>2, <1>4 DEF ToggleType
<1>6. TogglesOnce'
  BY <1>1 DEF ToggleInv, TogglesOnce
<1>7. quake.n \in {0, toggles[t].win} /\ pc # "creating"
  BY OneToggle, <1>3
<1> QED
  BY <1>1, <1>2, <1>4, <1>5, <1>6, <1>7 DEF ToggleInv

LEMMA TurnedInv ==
  ASSUME ToggleInv, Turned
  PROVE  ToggleInv'
<1> USE DEF Stages
<1>1. /\ turning # "none" /\ turning' = "none" /\ quake' = [quake EXCEPT !.full = turning = "full"] /\ NothingResolved
      /\ UNCHANGED <<inProgress, restoreFull, presses, hidFull, strayed, toggled>>
  BY DEF Turned
<1>2. ToggleType /\ quake \in [n: Int, visible: BOOLEAN, full: BOOLEAN, focused: BOOLEAN]
  BY DEF ToggleInv, ToggleType
<1>3. /\ quake' \in [n: Int, visible: BOOLEAN, full: BOOLEAN, focused: BOOLEAN]
      /\ quake'.n = quake.n /\ quake'.visible = quake.visible /\ quake'.full = (turning = "full")
  BY <1>1, <1>2
<1>4. TogglesOnce'
  BY <1>1 DEF ToggleInv, TogglesOnce
<1>5. DOMAIN toggles' = DOMAIN toggles /\ toggles' = [u \in DOMAIN toggles' |-> toggles'[u]]
  BY DEF Turned
<1>6. ASSUME NEW t \in DOMAIN toggles
      PROVE  /\ t \in Nat \ {0} /\ toggles'[t] \in [win: Int, pc: Stages, before: BOOLEAN, late: BOOLEAN]
             /\ quake'.n \in {0, toggles'[t].win} /\ (toggles'[t].pc = "creating" => toggles'[t].win = 0)
             /\ (Alive(t) /\ ~toggles[t].late => Relies(toggles[t]))'
  <2>1. /\ t \in Nat \ {0} /\ toggles[t] \in [win: Int, pc: Stages, before: BOOLEAN, late: BOOLEAN]
        /\ quake.n \in {0, toggles[t].win} /\ (toggles[t].pc = "creating" => toggles[t].win = 0)
        /\ Alive(t) /\ ~toggles[t].late => Relies(toggles[t])
    BY OneToggle
  <2>2. toggles[t].pc \notin {"left", "entered"}
    BY <1>1 DEF NothingResolved, Waits
  <2>3. PICK pc: pc = IF toggles[t].pc = "leaving" /\ turning = "normal" THEN "left"
                      ELSE IF toggles[t].pc = "entering" /\ turning = "full" THEN "entered" ELSE toggles[t].pc
    OBVIOUS
  <2>4. toggles'[t] = [toggles[t] EXCEPT !.pc = pc]
    BY <2>1, <2>3 DEF Turned
  <2>5. /\ toggles'[t] \in [win: Int, pc: Stages, before: BOOLEAN, late: BOOLEAN]
        /\ toggles'[t].win = toggles[t].win /\ toggles'[t].pc = pc
        /\ toggles'[t].before = toggles[t].before /\ toggles'[t].late = toggles[t].late
    BY <2>1, <2>3, <2>4
  <2>6. restoreFull' = restoreFull
    BY <1>1
  <2>7. Alive(t)' /\ ~toggles'[t].late => Alive(t) /\ Relies(toggles[t])
    BY <1>3, <2>1, <2>5 DEF Alive
  <2>8. (Alive(t) /\ ~toggles[t].late => Relies(toggles[t]))'
    BY <1>1, <1>2, <1>3, <2>2, <2>3, <2>5, <2>6, <2>7 DEF Relies, ToggleType
  <2> QED
    BY <1>3, <2>1, <2>2, <2>3, <2>5, <2>8
<1>7. ToggleType'
  BY <1>1, <1>2, <1>3, <1>5, <1>6 DEF ToggleType
<1>8. quake.n # 0
  BY <1>1 DEF ToggleInv
<1> QED
  BY <1>1, <1>3, <1>4, <1>5, <1>6, <1>7, <1>8 DEF ToggleInv

LEMMA UserInv ==
  ASSUME ToggleInv, CloseQuake \/ Activate \/ UserTurns
  PROVE  ToggleInv'
<1> USE DEF Stages
<1>1. ToggleType /\ quake \in [n: Int, visible: BOOLEAN, full: BOOLEAN, focused: BOOLEAN] /\ restoreFull \in BOOLEAN
  BY DEF ToggleInv, ToggleType
<1>2. UNCHANGED <<inProgress, restoreFull, presses, toggled>>
  BY DEF CloseQuake, Activate, UserTurns
<1>3. TogglesOnce'
  BY <1>2 DEF ToggleInv, TogglesOnce
<1>4. CASE CloseQuake
  <2>1. quake' = NoWindow /\ turning' = "none" /\ hidFull' = FALSE /\ strayed' = restoreFull /\ toggles' = toggles
    BY <1>4 DEF CloseQuake
  <2>2. quake' \in [n: Int, visible: BOOLEAN, full: BOOLEAN, focused: BOOLEAN] /\ quake'.n = 0 /\ ~quake'.visible /\ ~quake'.full
    BY <2>1 DEF NoWindow
  <2>3. ToggleType'
    <3>1. strayed' \in BOOLEAN /\ hidFull' \in BOOLEAN /\ turning' \in {"none", "full", "normal"}
      BY <1>1, <2>1
    <3>2. toggles' = toggles
      BY <2>1
    <3> QED
      BY <1>1, <1>2, <2>2, <3>1, <3>2 DEF ToggleType
  <2>4. \A t \in DOMAIN toggles': ~Alive(t)' /\ (toggles'[t].pc = "creating" => toggles'[t].win = 0)
    BY <2>1, <2>2 DEF ToggleInv, Alive
  <2>5. inProgress' <=> DOMAIN toggles' # {}
    BY <1>2, <2>1 DEF ToggleInv
  <2>6. \A t, u \in DOMAIN toggles': t = u
    BY <2>1 DEF ToggleInv
  <2> QED
    BY <1>2, <1>3, <2>1, <2>2, <2>3, <2>4, <2>5, <2>6 DEF ToggleInv
<1>5. CASE Activate
  <2>1. /\ quake.n # 0 /\ quake' = [quake EXCEPT !.visible = TRUE, !.focused = TRUE]
        /\ hidFull' = FALSE /\ strayed' = restoreFull /\ turning' = turning
        /\ toggles' = [t \in DOMAIN toggles |-> [toggles[t] EXCEPT !.late = TRUE]]
    BY <1>5 DEF Activate
  <2>2. quake' \in [n: Int, visible: BOOLEAN, full: BOOLEAN, focused: BOOLEAN] /\ quake'.n = quake.n
    BY <1>1, <2>1
  <2>3. ASSUME NEW t \in DOMAIN toggles
        PROVE  /\ t \in Nat \ {0} /\ toggles'[t] \in [win: Int, pc: Stages, before: BOOLEAN, late: BOOLEAN] /\ toggles'[t].late
               /\ quake.n \in {0, toggles'[t].win} /\ (toggles'[t].pc = "creating" => toggles'[t].win = 0)
    BY <2>1, OneToggle
  <2>4. DOMAIN toggles' = DOMAIN toggles /\ toggles' = [u \in DOMAIN toggles' |-> toggles'[u]]
    BY <2>1
  <2>5. ToggleType'
    BY <1>1, <1>2, <2>1, <2>2, <2>3, <2>4 DEF ToggleType
  <2>6. inProgress' <=> DOMAIN toggles' # {}
    BY <1>2, <2>4 DEF ToggleInv
  <2>7. \A t, u \in DOMAIN toggles': t = u
    BY <2>4 DEF ToggleInv
  <2> QED
    BY <1>2, <1>3, <2>1, <2>2, <2>3, <2>4, <2>5, <2>6, <2>7 DEF ToggleInv
<1>6. CASE UserTurns
  <2>1. quake.visible /\ turning' \in {"normal", "full"} /\ UNCHANGED <<quake, hidFull, strayed, toggles>>
    BY <1>6 DEF UserTurns
  <2>2. ToggleType'
    BY <1>1, <1>2, <2>1 DEF ToggleType
  <2>3. \A t \in DOMAIN toggles': (Alive(t) /\ ~toggles[t].late => Relies(toggles[t]))'
    BY <1>2, <2>1 DEF ToggleInv, Alive, Relies
  <2>4. quake.n # 0
    BY <2>1 DEF ToggleInv
  <2> QED
    BY <1>2, <1>3, <2>1, <2>2, <2>3, <2>4 DEF ToggleInv
<1> QED
  BY <1>4, <1>5, <1>6

LEMMA ToggleStepInv ==
  ASSUME ToggleInv, [QuakeNext]_quakeVars
  PROVE  ToggleInv'
<1>1. CASE UNCHANGED toggleVars
  BY <1>1, ToggleFrame DEF toggleVars, ToggleInv, ToggleType
<1>2. CASE \E t \in DOMAIN toggles : HideOrShow(t) \/ ShownNow(t) \/ TurnTimeout(t) \/ \E made \in BOOLEAN : WindowMade(t, made)
  BY <1>2, HideOrShowInv, ShownNowInv, TurnTimeoutInv, WindowMadeInv
<1>3. CASE \E raw \in RawKeys : Configured(raw) \/ (raw # NoHotKey /\ OthersTake(raw))
  BY <1>1, <1>3 DEF Configured, OthersTake
<1>4. CASE \E s \in WinSizes : PlacesWindow(s)
  BY <1>1, <1>4 DEF PlacesWindow
<1>5. CASE \E r \in WinPlaces, d \in DOMAIN Displays : MovesWindow(r, d)
  BY <1>1, <1>5 DEF MovesWindow
<1>6. CASE UNCHANGED quakeVars
  BY <1>1, <1>6 DEF quakeVars, toggleVars
<1> QED
  BY <1>2, <1>3, <1>4, <1>5, <1>6, PressInv, TurnedInv, UserInv DEF QuakeNext

-----------------------------------------------------------------------------
(* QuakeWindow: the hotkey *)

\* A key is none in both notations, or in neither.
LEMMA ElectronKeyOf ==
  ASSUME NEW raw \in HotKeys
  PROVE  /\ doraKeyToElectronKey(raw) = NoHotKey <=> raw = NoHotKey
         /\ doraKeyToElectronKey(raw) \in ElectronKeys
<1>1. raw \in Seq(KeyParts)
  <2>1. <<>> \in Seq(KeyParts)
    OBVIOUS
  <2> QED
    BY <2>1, KeysAssumption DEF HotKeys, NoHotKey
<1>2. doraKeyToElectronKey(raw) \in ElectronKeys
  BY DEF ElectronKeys
<1>3. PICK key: key = doraKeyToElectronKey(raw) /\ key = [i \in 1 .. Len(raw) |-> ElectronPart(raw[i])]
  <2>1. DOMAIN raw = 1 .. Len(raw)
    BY <1>1
  <2> QED
    BY <2>1 DEF doraKeyToElectronKey
<1>4. Len(raw) \in Nat /\ (Len(raw) = 0 <=> raw = <<>>)
  BY <1>1
<1>5. key = <<>> <=> Len(raw) = 0
  <2>1. DOMAIN <<>> = {}
    OBVIOUS
  <2>2. DOMAIN key = 1 .. Len(raw)
    BY <1>3
  <2>3. ASSUME key = <<>> PROVE Len(raw) = 0
    BY <1>4, <2>1, <2>2, <2>3
  <2>4. ASSUME Len(raw) = 0 PROVE key = <<>>
    <3>1. key \in Seq({})
      BY <1>3, <1>4, <2>2, <2>4
    <3> QED
      BY <2>2, <2>4, <3>1
  <2> QED
    BY <2>3, <2>4
<1> QED
  BY <1>2, <1>3, <1>4, <1>5 DEF NoHotKey

\* The hotkey after it is configured.
LEMMA RegisteredWell ==
  ASSUME HotkeyInv, NEW raw \in HotKeys
  PROVE  LET h == registerGlobalHotkey(hotkey, raw)
         IN  /\ h \in [raw: HotKeys, key: ElectronKeys, sent: Nat, conf: HotKeys, own: SUBSET ElectronKeys,
                       taken: SUBSET ElectronKeys, refused: BOOLEAN]
             /\ h.raw = NoHotKey => h.key = NoHotKey /\ h.own = {} /\ (raw = NoHotKey \/ ~IsKey(raw))
             /\ h.raw # NoHotKey =>
                  /\ raw = h.raw /\ IsKey(h.raw) /\ h.key = doraKeyToElectronKey(h.raw)
                  /\ h.own = IF h.refused THEN {} ELSE {h.key}
<1> DEFINE Type == [raw: HotKeys, key: ElectronKeys, sent: Nat, conf: HotKeys, own: SUBSET ElectronKeys,
                    taken: SUBSET ElectronKeys, refused: BOOLEAN]
<1>1. hotkey \in Type
  BY DEF HotkeyInv, HotkeyType
<1>2. NoHotKey \in HotKeys /\ doraKeyToElectronKey(NoHotKey) = NoHotKey /\ NoHotKey \in ElectronKeys
  <2>1. NoHotKey \in HotKeys
    BY DEF HotKeys
  <2> QED
    BY <2>1, ElectronKeyOf
<1>3. PICK key: key = doraKeyToElectronKey(raw) /\ key \in ElectronKeys /\ (key = NoHotKey <=> raw = NoHotKey)
  BY ElectronKeyOf
<1>4. /\ hotkey.raw = NoHotKey <=> hotkey.key = NoHotKey
      /\ hotkey.own \subseteq {hotkey.key}
      /\ hotkey.raw = NoHotKey => hotkey.own = {}
  BY <1>1, ElectronKeyOf DEF HotkeyInv
<1>5. PICK g: /\ g = Unregistered(hotkey)
              /\ g = [hotkey EXCEPT !.own = hotkey.own \ {hotkey.key}, !.key = NoHotKey,
                                    !.raw = IF hotkey.key = NoHotKey THEN hotkey.raw ELSE NoHotKey]
  BY DEF Unregistered
<1>6. g \in Type /\ g.raw = NoHotKey /\ g.key = NoHotKey /\ g.own = {}
  BY <1>1, <1>2, <1>4, <1>5
<1>7. CASE raw = hotkey.raw
  BY <1>1, <1>7 DEF HotkeyInv, registerGlobalHotkey
<1>8. CASE raw # hotkey.raw /\ raw = NoHotKey
  <2>1. PICK h: h = registerGlobalHotkey(hotkey, raw) /\ h = [g EXCEPT !.refused = FALSE]
    BY <1>5, <1>8 DEF registerGlobalHotkey
  <2>2. h \in Type /\ h.raw = NoHotKey /\ h.key = NoHotKey /\ h.own = {}
    BY <1>6, <2>1
  <2> QED
    BY <1>8, <2>1, <2>2
<1>9. CASE raw # hotkey.raw /\ raw # NoHotKey /\ ~IsKey(raw)
  <2>1. PICK h: h = registerGlobalHotkey(hotkey, raw) /\ h = [g EXCEPT !.refused = FALSE]
    BY <1>5, <1>9 DEF registerGlobalHotkey, Registered
  <2>2. h \in Type /\ h.raw = NoHotKey /\ h.key = NoHotKey /\ h.own = {}
    BY <1>6, <2>1
  <2> QED
    BY <1>9, <2>1, <2>2
<1>10. CASE raw # hotkey.raw /\ raw # NoHotKey /\ IsKey(raw)
  <2>1. PICK own, refused: own = g.own \cup ({key} \ g.taken) /\ refused = (key \in g.taken \cup g.own)
    OBVIOUS
  <2>2. PICK h: h = registerGlobalHotkey(hotkey, raw) /\ h = [g EXCEPT !.own = own, !.refused = refused, !.raw = raw, !.key = key]
    BY <1>3, <1>5, <1>10, <2>1 DEF registerGlobalHotkey, Registered
  <2>3. own \subseteq ElectronKeys /\ refused \in BOOLEAN /\ own = IF refused THEN {} ELSE {key}
    <3>1. own = {key} \ g.taken /\ refused = (key \in g.taken)
      BY <1>6, <2>1
    <3>2. CASE key \in g.taken
      BY <3>1, <3>2
    <3>3. CASE key \notin g.taken
      <4>1. ~refused /\ refused \in BOOLEAN
        <5>1. (key \in g.taken) = FALSE
          BY <3>3
        <5> QED
          BY <3>1, <5>1, Zenon
      <4>2. {key} \ g.taken = {key}
        BY <3>3
      <4>3. key \in ElectronKeys
        BY <1>3
      <4> QED
        BY <3>1, <4>1, <4>2, <4>3
    <3> QED
      BY <3>2, <3>3
  <2>4. h \in Type /\ h.raw = raw /\ h.key = key /\ h.own = own /\ h.refused = refused
    BY <1>3, <1>6, <2>2, <2>3
  <2> QED
    BY <1>3, <1>10, <2>2, <2>3, <2>4
<1> QED
  BY <1>7, <1>8, <1>9, <1>10

LEMMA HotkeyStepInv ==
  ASSUME HotkeyInv, [QuakeNext]_quakeVars
  PROVE  HotkeyInv'
<1>1. CASE UNCHANGED hotkey
  BY <1>1 DEF HotkeyInv, HotkeyType
<1>2. ASSUME NEW raw \in RawKeys, Configured(raw)
      PROVE  HotkeyInv'
  <2>1. raw \in HotKeys
    BY DEF HotKeys
  <2>2. PICK h: /\ h = registerGlobalHotkey(hotkey, raw)
                /\ hotkey' = [h EXCEPT !.sent = h.sent + 1, !.conf = raw]
    BY <1>2 DEF Configured
  <2>3. /\ h \in [raw: HotKeys, key: ElectronKeys, sent: Nat, conf: HotKeys, own: SUBSET ElectronKeys,
                  taken: SUBSET ElectronKeys, refused: BOOLEAN]
        /\ h.raw = NoHotKey => h.key = NoHotKey /\ h.own = {} /\ (raw = NoHotKey \/ ~IsKey(raw))
        /\ h.raw # NoHotKey =>
             /\ raw = h.raw /\ IsKey(h.raw) /\ h.key = doraKeyToElectronKey(h.raw)
             /\ h.own = IF h.refused THEN {} ELSE {h.key}
    BY <2>1, <2>2, RegisteredWell
  <2>4. h.sent + 1 \in Nat
    BY <2>3
  <2>5. PICK sent \in Nat: hotkey' = [h EXCEPT !.sent = sent, !.conf = raw]
    BY <2>2, <2>4
  <2>6. /\ HotkeyType' /\ hotkey'.raw = h.raw /\ hotkey'.key = h.key /\ hotkey'.own = h.own /\ hotkey'.refused = h.refused
        /\ hotkey'.conf = raw
    BY <2>1, <2>3, <2>5 DEF HotkeyType
  <2> QED
    BY <2>3, <2>6 DEF HotkeyInv
<1>3. ASSUME NEW raw \in RawKeys, OthersTake(raw)
      PROVE  HotkeyInv'
  <2>1. doraKeyToElectronKey(raw) \in ElectronKeys
    BY DEF HotKeys, ElectronKeys
  <2>2. PICK taken: taken = hotkey.taken \cup {doraKeyToElectronKey(raw)}
    OBVIOUS
  <2>3. hotkey' = [hotkey EXCEPT !.taken = taken]
    BY <1>3, <2>2 DEF OthersTake
  <2>4. HotkeyType
    BY DEF HotkeyInv
  <2>5. taken \subseteq ElectronKeys
    BY <2>1, <2>2, <2>4 DEF HotkeyType
  <2>6. /\ HotkeyType' /\ hotkey'.raw = hotkey.raw /\ hotkey'.key = hotkey.key /\ hotkey'.own = hotkey.own
        /\ hotkey'.refused = hotkey.refused /\ hotkey'.conf = hotkey.conf
    BY <2>3, <2>4, <2>5 DEF HotkeyType
  <2> QED
    BY <2>6 DEF HotkeyInv
<1>4. CASE \E t \in DOMAIN toggles : HideOrShow(t) \/ ShownNow(t) \/ TurnTimeout(t) \/ \E made \in BOOLEAN : WindowMade(t, made)
  BY <1>1, <1>4 DEF HideOrShow, ShownNow, TurnTimeout, WindowMade
<1>5. CASE Press \/ Turned \/ CloseQuake \/ Activate \/ UserTurns
  BY <1>1, <1>5 DEF Press, Turned, CloseQuake, Activate, UserTurns
<1>6. CASE \E s \in WinSizes : PlacesWindow(s)
  BY <1>1, <1>6 DEF PlacesWindow
<1>7. CASE \E r \in WinPlaces, d \in DOMAIN Displays : MovesWindow(r, d)
  BY <1>1, <1>7 DEF MovesWindow
<1>8. CASE UNCHANGED quakeVars
  BY <1>1, <1>8 DEF quakeVars
<1> QED
  BY <1>2, <1>3, <1>4, <1>5, <1>6, <1>7, <1>8 DEF QuakeNext

-----------------------------------------------------------------------------
(* QuakeWindow: where windows are placed *)

\* A size that fits an area is placed in it.
LEMMA FittedInside ==
  ASSUME NEW at \in Int, NEW from \in Int, NEW size \in Nat, NEW length \in Nat, size <= length
  PROVE  /\ Fitted(at, size, from, length) \in Int
         /\ Fitted(at, size, from, length) >= from /\ Fitted(at, size, from, length) + size <= from + length
  BY DEF Fitted

LEMMA AdjustedInside ==
  ASSUME NEW b \in Rectangle, NEW area \in Rectangle
  PROVE  /\ Within2(adjustBoundsToFitDisplay(b, area), area)
         /\ adjustBoundsToFitDisplay(b, area).width \in {b.width, area.width}
         /\ adjustBoundsToFitDisplay(b, area).width <= b.width
         /\ adjustBoundsToFitDisplay(b, area).height \in {b.height, area.height}
<1>1. /\ b.x \in Int /\ b.y \in Int /\ b.width \in Nat /\ b.height \in Nat
      /\ area.x \in Int /\ area.y \in Int /\ area.width \in Nat /\ area.height \in Nat
  BY DEF Rectangle
<1>2. PICK width, height: width = Least(b.width, area.width) /\ height = Least(b.height, area.height)
  OBVIOUS
<1>3. /\ width \in {b.width, area.width} /\ width \in Nat /\ width <= area.width /\ width <= b.width
      /\ height \in {b.height, area.height} /\ height \in Nat /\ height <= area.height
  BY <1>1, <1>2 DEF Least
<1>4. PICK x, y: x = Fitted(b.x, width, area.x, area.width) /\ y = Fitted(b.y, height, area.y, area.height)
  OBVIOUS
<1>5. x \in Int /\ x >= area.x /\ x + width <= area.x + area.width
  BY <1>1, <1>3, <1>4, FittedInside
<1>6. y \in Int /\ y >= area.y /\ y + height <= area.y + area.height
  BY <1>1, <1>3, <1>4, FittedInside
<1>7. adjustBoundsToFitDisplay(b, area) = [x |-> x, y |-> y, width |-> width, height |-> height]
  BY <1>2, <1>4 DEF adjustBoundsToFitDisplay
<1> QED
  BY <1>3, <1>5, <1>6, <1>7 DEF Within2

LEMMA DisplayOf ==
  ASSUME NEW b
  PROVE  /\ Most(1, findDisplayWithMostArea(b)) \in DOMAIN Displays
         /\ \A d \in DOMAIN Displays: Displays[d].bounds \in Rectangle /\ Displays[d].area \in Rectangle
<1>1. Len(Displays) \in Nat \ {0} /\ DOMAIN Displays = 1 .. Len(Displays)
  BY DisplaysAssumption
<1>2. \A d \in DOMAIN Displays: Displays[d].bounds \in Rectangle /\ Displays[d].area \in Rectangle
  <2>1. PICK S: S = [bounds: Rectangle, area: Rectangle] /\ Displays \in Seq(S)
    BY DisplaysAssumption
  <2>2. \A T, q: q \in Seq(T) => \A d \in DOMAIN q: q[d] \in T
    OBVIOUS
  <2>3. \A d \in DOMAIN Displays: Displays[d] \in S
    BY <2>1, <2>2, Zenon
  <2> QED
    BY <2>1, <2>3
<1>3. findDisplayWithMostArea(b) \in {0} \cup DOMAIN Displays
  BY DEF findDisplayWithMostArea
<1> QED
  BY <1>1, <1>2, <1>3 DEF Most

\* A place that was made sure to be visible is, or lies on the display with the most of it.
LEMMA EnsuredVisible ==
  ASSUME NEW b \in Rectangle
  PROVE  LET r == ensureBoundsAreVisible(b)
         IN  \/ r = b /\ isWindowFullyVisible(r)
             \/ \E d \in DOMAIN Displays:
                  /\ Within2(r, Displays[d].area)
                  /\ r.width \in {b.width, Displays[d].area.width} /\ r.height \in {b.height, Displays[d].area.height}
<1>1. CASE isWindowFullyVisible(b)
  BY <1>1 DEF ensureBoundsAreVisible
<1>2. CASE ~isWindowFullyVisible(b)
  <2>1. PICK d: d = Most(1, findDisplayWithMostArea(b))
    OBVIOUS
  <2>2. d \in DOMAIN Displays /\ Displays[d].area \in Rectangle
    BY <2>1, DisplayOf
  <2>3. ensureBoundsAreVisible(b) = adjustBoundsToFitDisplay(b, Displays[d].area)
    BY <1>2, <2>1 DEF ensureBoundsAreVisible
  <2> QED
    BY <2>2, <2>3, AdjustedInside
<1> QED
  BY <1>1, <1>2

LEMMA MadeWell ==
  ASSUME NEW s \in WinSizes, placed' = <<"made", s, calculateWindowBounds(s)>>
  PROVE  PlacedWell'
<1>2. /\ s.width \in Nat /\ s.height \in Nat /\ s.x \in Int /\ s.y \in Int
      /\ s.dims[1] \in Nat /\ s.dims[2] \in Nat
  BY PlacesAssumption
<1>3. 1 \in DOMAIN Displays /\ Displays[1].area.width \in Nat /\ Displays[1].area.height \in Nat
  <2>1. 1 \in DOMAIN Displays
    BY DisplaysAssumption
  <2> QED
    BY <2>1, DisplayOf DEF Rectangle
<1>4. PICK width, height:
        /\ width = IF s.width # 0 THEN s.width ELSE IF (s.width = 0 \/ s.height = 0) /\ s.dims[1] # 0 THEN s.dims[1] ELSE Least(Displays[1].area.width - s.x - 100, 2000)
        /\ height = IF s.height # 0 THEN s.height ELSE IF (s.width = 0 \/ s.height = 0) /\ s.dims[2] # 0 THEN s.dims[2] ELSE Least(Displays[1].area.height - s.y - 100, 1200)
  OBVIOUS
<1>5. width \in Int /\ height \in Int
  BY <1>2, <1>3, <1>4 DEF Least
<1>6. PICK b: b = [x |-> s.x, y |-> s.y, width |-> Most(width, 800), height |-> Most(height, 500)]
  OBVIOUS
<1>7. Most(width, 800) \in Nat /\ Most(width, 800) >= 800 /\ Most(height, 500) \in Nat /\ Most(height, 500) >= 500
  BY <1>5 DEF Most
<1>8. b \in Rectangle /\ b.width >= 800 /\ b.height >= 500
  BY <1>2, <1>6, <1>7 DEF Rectangle
<1>9. PICK r: r = ensureBoundsAreVisible(b)
  OBVIOUS
<1>10. calculateWindowBounds(s) = r
  BY <1>4, <1>6, <1>9 DEF calculateWindowBounds
<1>11. placed' = <<"made", s, r>>
  BY <1>10
<1>12. \/ r = b /\ isWindowFullyVisible(r)
       \/ \E d \in DOMAIN Displays:
            /\ Within2(r, Displays[d].area)
            /\ r.width \in {b.width, Displays[d].area.width} /\ r.height \in {b.height, Displays[d].area.height}
  BY <1>8, <1>9, EnsuredVisible
<1>13. \/ isWindowFullyVisible(r) /\ r.width >= 800 /\ r.height >= 500
       \/ \E d \in DOMAIN Displays :
            /\ Within2(r, Displays[d].area)
            /\ r.width >= 800 \/ r.width = Displays[d].area.width
            /\ r.height >= 500 \/ r.height = Displays[d].area.height
  BY <1>8, <1>12
<1> QED
  BY <1>11, <1>13 DEF PlacedWell

LEMMA MovedWell ==
  ASSUME NEW b \in WinPlaces, NEW target \in DOMAIN Displays,
         placed' = <<"moved", b, moveWindowToDisplay(b, target), target>>
  PROVE  PlacedWell'
<1>1. PICK source: source = Most(1, findDisplayWithMostArea(b))
  OBVIOUS
<1>2. PICK from, to: from = Displays[source].area /\ to = Displays[target].area
  OBVIOUS
<1>3. from \in Rectangle /\ to \in Rectangle /\ b \in Rectangle
  BY <1>1, <1>2, DisplayOf, PlacesAssumption
<1>4. /\ b.x \in Int /\ b.y \in Int /\ b.width \in Nat /\ b.height \in Nat
      /\ from.x \in Int /\ from.y \in Int
      /\ to.x \in Int /\ to.y \in Int /\ to.width \in Nat /\ to.height \in Nat
  BY <1>3 DEF Rectangle
<1>5. PICK width, height: width = Least(b.width, to.width) /\ height = Least(b.height, to.height)
  OBVIOUS
<1>6. PICK x, y: /\ x = to.x + Least(Most(b.x - from.x, 0), Most(0, to.width - width))
                 /\ y = to.y + Least(Most(b.y - from.y, 0), Most(0, to.height - height))
  OBVIOUS
<1>7. PICK r: r = moveWindowToDisplay(b, target)
  OBVIOUS
<1>8. CASE source = target
  <2>1. r = b
    BY <1>1, <1>7, <1>8 DEF moveWindowToDisplay
  <2>2. placed' = <<"moved", b, b, target>>
    BY <1>7, <2>1
  <2>3. placed'[1] = "moved" /\ placed'[3] = placed'[2]
    BY <2>2
  <2> QED
    BY <2>3 DEF PlacedWell
<1>9. CASE source # target
  <2>1. r = [x |-> x, y |-> y, width |-> width, height |-> height]
    BY <1>1, <1>2, <1>5, <1>6, <1>7, <1>9 DEF moveWindowToDisplay
  <2>2. width \in Nat /\ width \in {b.width, to.width} /\ width <= to.width
    BY <1>4, <1>5 DEF Least
  <2>3. height \in Nat /\ height \in {b.height, to.height} /\ height <= to.height
    BY <1>4, <1>5 DEF Least
  <2>4. x >= to.x /\ x + width <= to.x + to.width
    BY <1>4, <1>6, <2>2 DEF Least, Most
  <2>5. y >= to.y /\ y + height <= to.y + to.height
    BY <1>4, <1>6, <2>3 DEF Least, Most
  <2>6. Within2(r, to) /\ (r.width = b.width \/ r.width = to.width) /\ (r.height = b.height \/ r.height = to.height)
    BY <2>1, <2>2, <2>3, <2>4, <2>5 DEF Within2
  <2>7. placed' = <<"moved", b, r, target>>
    BY <1>7
  <2> QED
    BY <1>2, <2>6, <2>7 DEF PlacedWell
<1> QED
  BY <1>8, <1>9

LEMMA PlaceStepInv ==
  ASSUME PlacedWell, [QuakeNext]_quakeVars
  PROVE  PlacedWell'
<1>1. CASE UNCHANGED placed
  BY <1>1 DEF PlacedWell
<1>2. CASE \E t \in DOMAIN toggles : HideOrShow(t) \/ ShownNow(t) \/ TurnTimeout(t) \/ \E made \in BOOLEAN : WindowMade(t, made)
  BY <1>1, <1>2 DEF HideOrShow, ShownNow, TurnTimeout, WindowMade
<1>3. CASE Press \/ Turned \/ CloseQuake \/ Activate \/ UserTurns
  BY <1>1, <1>3 DEF Press, Turned, CloseQuake, Activate, UserTurns
<1>4. CASE \E raw \in RawKeys : Configured(raw) \/ (raw # NoHotKey /\ OthersTake(raw))
  BY <1>1, <1>4 DEF Configured, OthersTake
<1>5. CASE \E s \in WinSizes : PlacesWindow(s)
  BY <1>5, MadeWell DEF PlacesWindow
<1>6. CASE \E r \in WinPlaces, d \in DOMAIN Displays : MovesWindow(r, d)
  BY <1>6, MovedWell DEF MovesWindow
<1>7. CASE UNCHANGED quakeVars
  BY <1>1, <1>7 DEF quakeVars
<1> QED
  BY <1>2, <1>3, <1>4, <1>5, <1>6, <1>7 DEF QuakeNext

\* However the hotkey is pressed and configured, the window changed and others take keys, a
\* toggle that was left alone shows what was hidden and hides what was shown, as much in
\* fullscreen as the hotkey found it; the shortcut of the last configuration alone is
\* registered; and windows are placed where they show, on any displays.
THEOREM QuakeAlwaysHolds == QuakeSpec => []QuakeHolds
<1>1. QuakeInit => QuakeInv
  <2> SUFFICES ASSUME QuakeInit PROVE QuakeInv
    OBVIOUS
  <2>1. HotkeyInv
    <3>1. NoHotKey \in HotKeys
      BY DEF HotKeys
    <3>2. NoHotKey \in ElectronKeys
      BY <3>1, ElectronKeyOf
    <3> QED
      BY <3>1, <3>2 DEF QuakeInit, HotkeyInv, HotkeyType
  <2>2. PlacedWell
    BY DEF QuakeInit, PlacedWell
  <2> QED
    BY <2>1, <2>2, QuakeInitInv DEF QuakeInv
<1>2. QuakeInv /\ [QuakeNext]_quakeVars => QuakeInv'
  BY ToggleStepInv, HotkeyStepInv, PlaceStepInv DEF QuakeInv
<1>3. QuakeInv => QuakeHolds
  <2>1. HotkeyInv => HotkeyStands
    BY DEF HotkeyInv, HotkeyStands, HotkeyType
  <2> QED
    BY <2>1 DEF QuakeInv, ToggleInv, QuakeHolds
<1> QED
  BY <1>1, <1>2, <1>3, PTL DEF QuakeSpec

-----------------------------------------------------------------------------
(* AppMenus: the build that was begun last knows what there is *)

Build == [pc: {"config", "list", "answered"}, n: Nat, windows: Int, count: Nat, spaces: Int]
Server == [spaces: Nat, count: Nat, due: Nat, unnamed: Nat, unheard: Nat]
BuildType ==
  /\ server \in Server /\ events \in [spaces: Nat, windows: Nat, flapped: BOOLEAN]
  /\ windows \in Int /\ lastCount \in Int /\ built \in Nat /\ newest \in Nat /\ builds \in Seq(Build)
  /\ appMenu \in [build: Nat, windows: Int, count: Nat, spaces: Int]
BuildInv ==
  /\ BuildType
  /\ \A i \in 1 .. Len(builds): builds[i].n <= built /\ (builds[i].pc # "answered" => builds[i].spaces = -1)
  /\ appMenu.build <= newest /\ newest <= built
  /\ newest = built \/ \E i \in 1 .. Len(builds): builds[i].n = built
  /\ events.windows = 0 => lastCount = windows
  \* The last build is asked for after the last change, or will be.
  /\ events.spaces = 0 /\ server.due = 0 =>
       /\ \A i \in 1 .. Len(builds): builds[i].n = built /\ builds[i].pc = "answered" => Knows(builds[i].spaces)
       /\ appMenu.build = built => (appMenu.spaces = -1 \/ Knows(appMenu.spaces))
  /\ events.windows = 0 /\ ~events.flapped =>
       /\ \A i \in 1 .. Len(builds): builds[i].n = built => builds[i].windows = windows
       /\ appMenu.build = built => appMenu.windows = windows

-----------------------------------------------------------------------------
(* AppMenus: the factor that a page was told last is the one that is set *)

ZoomInv ==
  /\ zoom \in [factor: MinZoomLevel .. MaxZoomLevel, told: [MenuPages -> Seq(Int)], pages: [MenuPages -> Int]]
  /\ \A p \in MenuPages:
       zoom.factor = IF zoom.told[p] = <<>> THEN zoom.pages[p] ELSE zoom.told[p][Len(zoom.told[p])]

-----------------------------------------------------------------------------
(* AppMenus: what becomes of a context menu *)

Ids == {"none"} \cup UNION {DOMAIN shape: shape \in MenuShapes}
Message2 == [n: Nat, id: Ids]
OfMenu(n) == {m \in Message2: m.n = n}
MenuType ==
  /\ popups \in Seq([page: MenuPages, shape: MenuShapes])
  /\ requests \in [MenuPages -> Seq(Nat)] /\ tells \in [MenuPages -> Seq(Message2)]
  /\ open = [n \in DOMAIN open |-> open[n]]
  /\ \A n \in DOMAIN open: open[n] \in [page: MenuPages, clicked: BOOLEAN]
  /\ pages \in [MenuPages -> [handlers: SUBSET (Nat \X Ids), opts: Nat]]
  /\ clicks \subseteq Nat \X Ids /\ ran \in Seq(Nat \X Ids)
  /\ closes \in Seq(Seq(Ids)) /\ Len(closes) = Len(popups) /\ activePage \in MenuPages \cup {0}
Popups == 1 .. Len(popups)

\* A menu was asked for, and the main process does not know; it is open; what comes of it is
\* on its way to a page.
Asked(n) == \E p \in MenuPages: Occurs(requests[p], {n})
Opened(n) == n \in DOMAIN open /\ ~open[n].clicked
Told(n) == \E p \in MenuPages: Occurs(tells[p], OfMenu(n))
Under(n) == Asked(n) \/ Opened(n) \/ Told(n)
\* Its request, and its message, are there once.
OnceEach(n) ==
  /\ \A p \in MenuPages: Occurs(requests[p], {n}) => p = popups[n].page
  /\ \A p \in MenuPages: NoneAfter(requests[p], {n}, {n}) /\ NoneAfter(tells[p], OfMenu(n), OfMenu(n))
  /\ \A p, q \in MenuPages: Occurs(tells[p], OfMenu(n)) /\ Occurs(tells[q], OfMenu(n)) => p = q
  /\ Asked(n) => n \notin DOMAIN open /\ ~Told(n)
  /\ Opened(n) => ~Told(n)
Clicked(n) == {c \in clicks: c[1] = n}
\* What was clicked is what the message says.
ClickOf(n) ==
  /\ Asked(n) \/ Opened(n) => Clicked(n) = {}
  /\ \A p \in MenuPages: \A i \in 1 .. Len(tells[p]): tells[p][i].n = n =>
       Clicked(n) = IF tells[p][i].id = "none" THEN {} ELSE {<<n, tells[p][i].id>>}
  /\ \A c, d \in Clicked(n): c = d
  /\ \A c \in Clicked(n): c[2] \in DOMAIN popups[n].shape
\* What it came to is told when nothing is under way any more, unless another came across.
CloseOf(n) ==
  /\ Len(closes[n]) <= 1
  /\ Under(n) => \A i \in 1 .. Len(ran): ran[i][1] # n
  /\ n \notin crossed => (closes[n] = <<>> <=> Under(n))
  /\ n \notin crossed /\ closes[n] # <<>> =>
       /\ closes[n][1] # "none" <=> \E c \in Clicked(n): popups[n].shape[c[2]]
       /\ closes[n][1] # "none" => \E i \in 1 .. Len(ran): ran[i] = <<n, closes[n][1]>>
PageKnows(p) ==
  LET n == pages[p].opts
  IN  IF n = 0 THEN pages[p].handlers = {}
      ELSE n \in Popups /\ closes[n] = <<>> /\ popups[n].page = p /\ pages[p].handlers = Registered2(n, popups[n].shape)
PopupsInv ==
  /\ MenuType
  /\ \A p \in MenuPages: \A i \in 1 .. Len(requests[p]): requests[p][i] \in Popups
  /\ \A p \in MenuPages: \A i \in 1 .. Len(tells[p]): tells[p][i].n \in Popups
  /\ DOMAIN open \subseteq Popups
  /\ \A c \in clicks: c[1] \in Popups
  /\ \A n \in Popups: OnceEach(n) /\ ClickOf(n) /\ CloseOf(n)
  /\ \A n \in DOMAIN open: n \notin crossed => open[n].page = popups[n].page
  /\ \A p \in MenuPages: PageKnows(p)
  /\ \A i \in 1 .. Len(ran): ran[i] \in clicks
  /\ \A i, j \in 1 .. Len(ran): ran[i] = ran[j] => i = j


LEMMA BuildInitInv ==
  ASSUME AppMenuInit
  PROVE  BuildInv
<1>1. builds \in Seq(Build) /\ Len(builds) = 0
  BY DEF AppMenuInit
<1>2. server \in Server /\ events \in [spaces: Nat, windows: Nat, flapped: BOOLEAN] /\ appMenu \in [build: Nat, windows: Int, count: Nat, spaces: Int]
  BY DEF AppMenuInit, Server
<1>3. Knows(appMenu.spaces)
  BY DEF AppMenuInit, Knows
<1> QED
  BY <1>1, <1>2, <1>3 DEF AppMenuInit, BuildInv, BuildType

\* A build that begins is the last one, and no menu is of it yet.
LEMMA BegunInv ==
  ASSUME BuildInv, UNCHANGED <<server, windows, appMenu, newest>>,
         builds' = Begun(builds), built' = built + 1,
         events' \in [spaces: Nat, windows: Nat, flapped: BOOLEAN],
         lastCount' \in Int, events'.windows = 0 => lastCount' = windows
  PROVE  BuildInv'
<1>1. /\ builds \in Seq(Build) /\ built \in Nat /\ newest \in Nat /\ windows \in Int /\ BuildType
      /\ appMenu.build \in Nat /\ appMenu.build <= newest /\ newest <= built
  BY DEF BuildInv, BuildType
<1>2. PICK new: new = [pc |-> "config", n |-> built + 1, windows |-> windows, count |-> 0, spaces |-> -1]
  OBVIOUS
<1>3. new \in Build /\ new.n = built + 1 /\ new.windows = windows /\ new.spaces = -1 /\ new.pc = "config"
  <2>1. built + 1 \in Nat /\ -1 \in Int
    BY <1>1
  <2> QED
    BY <1>1, <1>2, <2>1 DEF Build
<1>4. builds' = Append(builds, new)
  BY <1>2 DEF Begun
<1>5. /\ builds' \in Seq(Build) /\ Len(builds) + 1 \in 1 .. Len(builds') /\ builds'[Len(builds) + 1] = new
      /\ \A i \in 1 .. Len(builds): builds'[i] = builds[i]
      /\ \A i \in 1 .. Len(builds'): i \in 1 .. Len(builds) \/ i = Len(builds) + 1
  BY <1>1, <1>3, <1>4, Appended
<1>6. \A i \in 1 .. Len(builds'): \/ builds'[i] = new
                                  \/ builds'[i].n <= built /\ builds'[i].n \in Nat /\ (builds'[i].pc # "answered" => builds'[i].spaces = -1)
  <2>1. \A i \in 1 .. Len(builds): builds[i] \in Build
    BY <1>1
  <2>2. \A i \in 1 .. Len(builds): builds[i].n \in Nat /\ builds[i].n <= built /\ (builds[i].pc # "answered" => builds[i].spaces = -1)
    BY <2>1 DEF BuildInv, Build
  <2> QED
    BY <1>5, <2>2
<1>7. \A i \in 1 .. Len(builds'): builds'[i].n <= built' /\ (builds'[i].n = built' => builds'[i] = new)
                                  /\ (builds'[i].pc # "answered" => builds'[i].spaces = -1)
  BY <1>1, <1>3, <1>6
<1>8. BuildType'
  BY <1>1, <1>5 DEF BuildType
<1>9. built' # appMenu'.build /\ newest' <= built'
  BY <1>1
<1>10. \A v: Knows(v)' <=> Knows(v)
  BY DEF Knows
<1> QED
  BY <1>1, <1>3, <1>5, <1>7, <1>8, <1>9, <1>10 DEF BuildInv

\* The build that set its menu is no longer under way.
LEMMA SetMenuInv ==
  ASSUME BuildInv, NEW i \in 1 .. Len(builds), SetApplicationMenu(i)
  PROVE  BuildInv'
<1>1. /\ builds \in Seq(Build) /\ built \in Nat /\ newest \in Nat /\ newest <= built /\ BuildType /\ appMenu.build \in Nat /\ appMenu.build <= newest
  BY DEF BuildInv, BuildType
<1>2. PICK b: b = builds[i]
  OBVIOUS
<1>3. b \in Build /\ b.n \in Nat /\ b.n <= built /\ b.windows \in Int /\ b.count \in Nat /\ b.spaces \in Int
  <2>1. b \in Build
    BY <1>1, <1>2
  <2>2. b.n <= built
    BY <1>2 DEF BuildInv
  <2> QED
    BY <2>1, <2>2 DEF Build
<1>4. /\ builds' = RemoveAt(builds, i) /\ newest' = IF b.n > newest THEN b.n ELSE newest
      /\ appMenu' = [build |-> b.n, windows |-> b.windows, count |-> b.count, spaces |-> b.spaces]
      /\ UNCHANGED <<server, events, windows, lastCount, built>>
  BY <1>2 DEF SetApplicationMenu
<1>5. /\ builds' \in Seq(Build)
      /\ \A j \in 1 .. Len(builds'): \E k \in 1 .. Len(builds): builds'[j] = builds[k]
      /\ \A k \in 1 .. Len(builds): k # i => \E j \in 1 .. Len(builds'): builds'[j] = builds[k]
  BY <1>1, <1>4, RemoveAtFacts
<1>6. appMenu' \in [build: Nat, windows: Int, count: Nat, spaces: Int] /\ appMenu'.build = b.n /\ appMenu'.windows = b.windows /\ appMenu'.spaces = b.spaces
  BY <1>3, <1>4
<1>7. newest' \in Nat /\ newest' <= built /\ b.n <= newest' /\ (b.n = built => newest' = built) /\ (newest = built => newest' = built)
  BY <1>1, <1>3, <1>4
<1>8. BuildType'
  BY <1>1, <1>4, <1>5, <1>6, <1>7 DEF BuildType
<1>9. newest' = built \/ \E j \in 1 .. Len(builds'): builds'[j].n = built
  <2>1. newest = built \/ \E k \in 1 .. Len(builds): builds[k].n = built
    BY DEF BuildInv
  <2> QED
    BY <1>2, <1>5, <1>7, <2>1
<1>10. \A j \in 1 .. Len(builds'): builds'[j].n <= built /\ (builds'[j].pc # "answered" => builds'[j].spaces = -1)
  BY <1>5 DEF BuildInv
<1>11. ASSUME events.spaces = 0, server.due = 0
       PROVE  /\ \A j \in 1 .. Len(builds'): builds'[j].n = built /\ builds'[j].pc = "answered" => Knows(builds'[j].spaces)
              /\ b.n = built => (b.spaces = -1 \/ Knows(b.spaces))
  <2>1. \A k \in 1 .. Len(builds): builds[k].n = built /\ builds[k].pc = "answered" => Knows(builds[k].spaces)
    BY <1>11 DEF BuildInv
  <2>2. b.pc # "answered" => b.spaces = -1
    BY <1>2 DEF BuildInv
  <2>3. ASSUME NEW j \in 1 .. Len(builds'), builds'[j].n = built, builds'[j].pc = "answered" PROVE Knows(builds'[j].spaces)
    <3>1. PICK k \in 1 .. Len(builds): builds'[j] = builds[k]
      BY <1>5
    <3> QED
      BY <2>1, <2>3, <3>1
  <2>4. b.n = built => (b.spaces = -1 \/ Knows(b.spaces))
    BY <1>2, <2>1, <2>2
  <2> QED
    BY <2>3, <2>4
<1>12. ASSUME events.windows = 0, ~events.flapped
       PROVE  /\ \A j \in 1 .. Len(builds'): builds'[j].n = built => builds'[j].windows = windows
              /\ b.n = built => b.windows = windows
  <2>1. \A k \in 1 .. Len(builds): builds[k].n = built => builds[k].windows = windows
    BY <1>12 DEF BuildInv
  <2>2. ASSUME NEW j \in 1 .. Len(builds'), builds'[j].n = built PROVE builds'[j].windows = windows
    <3>1. PICK k \in 1 .. Len(builds): builds'[j] = builds[k]
      BY <1>5
    <3> QED
      BY <2>1, <2>2, <3>1
  <2>3. b.n = built => b.windows = windows
    BY <1>2, <2>1
  <2> QED
    BY <2>2, <2>3
<1>13. events.windows = 0 => lastCount = windows
  BY DEF BuildInv
<1>14. \A v: Knows(v)' <=> Knows(v)
  BY <1>4 DEF Knows
<1> QED
  BY <1>4, <1>6, <1>7, <1>8, <1>9, <1>10, <1>11, <1>12, <1>13, <1>14 DEF BuildInv

\* What is said of a build that goes on is said of it still.
LEMMA BuildGoesOn ==
  ASSUME BuildInv, NEW i \in 1 .. Len(builds), ConfigAnswers(i) \/ ListRead(i)
  PROVE  BuildInv'
<1>1. builds \in Seq(Build) /\ BuildType /\ server.spaces \in Nat /\ server.count \in Nat /\ server.unheard \in Nat
  BY DEF BuildInv, BuildType, Server
<1>2. builds[i] \in Build
  BY <1>1
<1>3. UNCHANGED <<server, events, windows, lastCount, appMenu, built, newest>>
  BY DEF ConfigAnswers, ListRead
<1>4. PICK b: b = IF builds[i].pc = "config" THEN [builds[i] EXCEPT !.pc = "list"]
                  ELSE [builds[i] EXCEPT !.pc = "answered", !.spaces = server.spaces, !.count = server.count]
  OBVIOUS
<1>5. builds' = [builds EXCEPT ![i] = b] /\ builds[i].pc \in {"config", "list"}
  BY <1>2, <1>4 DEF ConfigAnswers, ListRead, Build
<1>6. /\ b \in Build /\ b.n = builds[i].n /\ b.windows = builds[i].windows
      /\ b.pc = "answered" => b.spaces = server.spaces
      /\ b.pc # "answered" => b.spaces = builds[i].spaces
  <2>1. PICK spaces, count: spaces \in Nat /\ count \in Nat /\ spaces = server.spaces /\ count = server.count
    BY <1>1
  <2>2. CASE builds[i].pc = "config"
    <3>1. b = [builds[i] EXCEPT !.pc = "list"]
      BY <1>4, <2>2
    <3> QED
      BY <1>2, <3>1 DEF Build
  <2>3. CASE builds[i].pc = "list"
    <3>1. b = [builds[i] EXCEPT !.pc = "answered", !.spaces = spaces, !.count = count] /\ spaces \in Int
      BY <1>4, <2>1, <2>3
    <3>2. b \in Build /\ b.n = builds[i].n /\ b.windows = builds[i].windows /\ b.spaces = spaces /\ b.pc = "answered"
      BY <1>2, <2>1, <3>1 DEF Build
    <3> QED
      BY <2>1, <3>2
  <2> QED
    BY <1>5, <2>2, <2>3
<1>7. /\ builds' \in Seq(Build) /\ Len(builds') = Len(builds)
      /\ \A j \in 1 .. Len(builds): builds'[j] = IF j = i THEN b ELSE builds[j]
  BY <1>1, <1>5, <1>6
<1>8. BuildType'
  BY <1>1, <1>3, <1>7 DEF BuildType
<1>9. b.pc # "answered" => b.spaces = -1
  BY <1>5, <1>6 DEF BuildInv
<1>10. newest = built \/ \E j \in 1 .. Len(builds'): builds'[j].n = built
  BY <1>6, <1>7 DEF BuildInv
<1>11. \A j \in 1 .. Len(builds'): builds'[j].n <= built /\ (builds'[j].pc # "answered" => builds'[j].spaces = -1)
  BY <1>6, <1>7, <1>9 DEF BuildInv
<1>14. Knows(server.spaces) /\ \A v: Knows(v)' <=> Knows(v)
  BY <1>1, <1>3 DEF Knows
<1>12. events.spaces = 0 /\ server.due = 0 =>
         \A j \in 1 .. Len(builds'): builds'[j].n = built /\ builds'[j].pc = "answered" => Knows(builds'[j].spaces)
  BY <1>6, <1>7, <1>14 DEF BuildInv
<1>13. events.windows = 0 /\ ~events.flapped => \A j \in 1 .. Len(builds'): builds'[j].n = built => builds'[j].windows = windows
  BY <1>6, <1>7 DEF BuildInv
<1> QED
  BY <1>3, <1>8, <1>10, <1>11, <1>12, <1>13, <1>14 DEF BuildInv

LEMMA EventsInv ==
  ASSUME BuildInv,
         \/ \E count \in {2, 10} : SpacesChange(count)
         \/ ChangePublished \/ CreateWorkspace \/ NamesWorkspace \/ SpacesEvent \/ WindowsEvent
         \/ \E n \in 0..2 : WindowsChange(n)
  PROVE  BuildInv'
<1>1. /\ BuildType /\ events \in [spaces: Nat, windows: Nat, flapped: BOOLEAN]
      /\ events.spaces \in Nat /\ events.windows \in Nat /\ events.flapped \in BOOLEAN /\ windows \in Int
      /\ server \in Server /\ server.spaces \in Nat /\ server.count \in Nat /\ server.due \in Nat /\ server.unnamed \in Nat
      /\ server.unheard \in Nat /\ builds \in Seq(Build) /\ appMenu.spaces \in Int
  BY DEF BuildInv, BuildType, Server
<1>2. ASSUME NEW count \in {2, 10}, SpacesChange(count) PROVE BuildInv'
  <2>0. PICK v, n: v = server.spaces + 1 /\ n = server.due + 1
    OBVIOUS
  <2>1. v \in Nat /\ n \in Nat /\ n # 0 /\ count \in Nat
    <3>1. server.spaces \in Nat /\ server.due \in Nat
      BY <1>1
    <3>2. v \in Nat /\ n \in Nat /\ n # 0
      BY <2>0, <3>1
    <3>3. count \in Nat
      OBVIOUS
    <3> QED
      BY <3>2, <3>3
  <2>2. /\ server' = [server EXCEPT !.spaces = v, !.count = count, !.due = n]
        /\ UNCHANGED <<events, windows, lastCount, builds, appMenu, built, newest>>
    BY <1>2, <2>0 DEF SpacesChange
  <2>3. server' \in Server /\ server'.due # 0
    <3>1. server \in Server /\ v \in Nat /\ n \in Nat /\ count \in Nat
      BY <1>1, <2>1
    <3>2. server' \in Server /\ server'.due = n
      BY <2>2, <3>1 DEF Server
    <3> QED
      BY <2>1, <3>2
  <2>4. BuildType'
    BY <1>1, <2>2, <2>3 DEF BuildType
  <2> QED
    BY <2>2, <2>3, <2>4 DEF BuildInv
<1>6. ASSUME NEW srv \in Server, PublishesUpdate(srv) PROVE BuildInv'
  <2>1. PICK n \in Nat: n = events.spaces + 1 /\ n # 0
    BY <1>1
  <2>2. /\ server' = [srv EXCEPT !.unheard = 0] /\ events' = [events EXCEPT !.spaces = n]
        /\ UNCHANGED <<windows, lastCount, builds, appMenu, built, newest>>
    BY <1>6, <2>1 DEF PublishesUpdate
  <2>3. server' \in Server
    BY <2>2 DEF Server
  <2>4. events' \in [spaces: Nat, windows: Nat, flapped: BOOLEAN] /\ events'.spaces # 0 /\ events'.windows = events.windows /\ events'.flapped = events.flapped
    BY <1>1, <2>1, <2>2
  <2>5. BuildType'
    BY <1>1, <2>2, <2>3, <2>4 DEF BuildType
  <2> QED
    BY <2>2, <2>4, <2>5 DEF BuildInv
<1>7. CASE ChangePublished
  <2>1. PICK n \in Nat: n = server.due - 1
    BY <1>1, <1>7 DEF ChangePublished
  <2>2. PICK srv: srv = [server EXCEPT !.due = n]
    OBVIOUS
  <2>3. srv \in Server /\ PublishesUpdate(srv)
    BY <1>1, <1>7, <2>1, <2>2 DEF ChangePublished, Server
  <2> QED
    BY <1>6, <2>3
<1>8. CASE CreateWorkspace
  <2>1. PICK n \in Nat: n = server.unnamed + 1
    BY <1>1
  <2>2. PICK srv: srv = [server EXCEPT !.unnamed = n]
    OBVIOUS
  <2>3. srv \in Server /\ PublishesUpdate(srv)
    BY <1>1, <1>8, <2>1, <2>2 DEF CreateWorkspace, Server
  <2> QED
    BY <1>6, <2>3
<1>9. CASE NamesWorkspace
  <2>0. PICK u, v, c, k: u = server.unnamed - 1 /\ v = server.spaces + 1 /\ c = server.count + 1 /\ k = server.unheard + 1
    OBVIOUS
  <2>1. u \in Nat /\ v \in Nat /\ c \in Nat /\ k \in Nat
    <3>1. server.unnamed > 0
      BY <1>9 DEF NamesWorkspace
    <3>2. server.unnamed \in Nat /\ server.spaces \in Nat /\ server.count \in Nat /\ server.unheard \in Nat
      BY <1>1
    <3>3. u \in Nat
      BY <2>0, <3>1, <3>2
    <3> QED
      BY <2>0, <3>2, <3>3
  <2>2. /\ server' = [server EXCEPT !.unnamed = u, !.spaces = v, !.count = c, !.unheard = k]
        /\ UNCHANGED <<events, windows, lastCount, builds, appMenu, built, newest>>
    BY <1>9, <2>0 DEF NamesWorkspace
  <2>3. server' \in Server /\ server'.due = server.due /\ server'.spaces = v /\ server'.unheard = k
    BY <1>1, <2>1, <2>2 DEF Server
  <2>4. ASSUME NEW m \in Int, Knows(m) PROVE Knows(m)'
    <3>1. PICK a \in Nat, b \in Nat: a = server.spaces /\ b = server.unheard
      BY <1>1
    <3>2. v = a + 1 /\ k = b + 1 /\ m <= a /\ a <= m + b
      BY <2>0, <2>4, <3>1 DEF Knows
    <3>3. m <= v /\ v <= m + k
      BY <3>2
    <3> QED
      BY <2>3, <3>3 DEF Knows
  <2>5. \A i \in 1 .. Len(builds): builds[i].spaces \in Int
    <3>1. \A i \in 1 .. Len(builds): builds[i] \in Build
      BY <1>1
    <3> QED
      BY <3>1 DEF Build
  <2>6. BuildType'
    BY <1>1, <2>2, <2>3 DEF BuildType
  <2>7. events'.spaces = 0 /\ server'.due = 0 =>
          /\ (\A i \in 1 .. Len(builds): builds[i].n = built /\ builds[i].pc = "answered" => Knows(builds[i].spaces))'
          /\ (appMenu.build = built => (appMenu.spaces = -1 \/ Knows(appMenu.spaces)))'
    BY <1>1, <2>2, <2>3, <2>4, <2>5 DEF BuildInv
  <2> QED
    BY <2>2, <2>6, <2>7 DEF BuildInv
<1>3. CASE SpacesEvent
  <2>1. PICK n \in Nat: n = events.spaces - 1
    BY <1>1, <1>3 DEF SpacesEvent
  <2>2. /\ events' = [events EXCEPT !.spaces = n, !.flapped = FALSE]
        /\ builds' = Begun(builds) /\ built' = built + 1 /\ UNCHANGED <<server, windows, lastCount, appMenu, newest>>
    BY <1>3, <2>1 DEF SpacesEvent
  <2>3. events' \in [spaces: Nat, windows: Nat, flapped: BOOLEAN] /\ events'.windows = events.windows
    BY <1>1, <2>1, <2>2
  <2>4. lastCount' \in Int /\ (events'.windows = 0 => lastCount' = windows)
    BY <2>2, <2>3 DEF BuildInv, BuildType
  <2> QED
    BY <2>2, <2>3, <2>4, BegunInv
<1>4. CASE WindowsEvent
  <2>1. PICK n, f: n = events.windows - 1 /\ f = (windows = lastCount /\ (events.flapped \/ \E m \in Range(builds) \cup {appMenu} : m.windows # windows))
    OBVIOUS
  <2>2. n \in Nat /\ f \in BOOLEAN
    BY <1>1, <1>4, <2>1 DEF WindowsEvent
  <2>7. \A v: server' = server => (Knows(v)' <=> Knows(v))
    BY DEF Knows
  <2>3. events' = [events EXCEPT !.windows = n, !.flapped = f] /\ lastCount' = windows /\ UNCHANGED <<server, windows, appMenu, newest>>
    BY <1>4, <2>1 DEF WindowsEvent
  <2>4. events' \in [spaces: Nat, windows: Nat, flapped: BOOLEAN] /\ events'.spaces = events.spaces /\ events'.flapped = f
    BY <1>1, <2>2, <2>3
  <2>5. CASE windows # lastCount
    <3>1. builds' = Begun(builds) /\ built' = built + 1
      BY <1>4, <2>5 DEF WindowsEvent, WindowsEventMakesMenu
    <3> QED
      BY <1>1, <2>3, <2>4, <3>1, BegunInv
  <2>6. CASE windows = lastCount
    <3>1. UNCHANGED <<builds, built>>
      BY <1>4, <2>6 DEF WindowsEvent, WindowsEventMakesMenu
    <3>2. ~f => \A m \in Range(builds) \cup {appMenu} : m.windows = windows
      BY <2>1, <2>6
    <3>3. \A i \in 1 .. Len(builds): builds[i] \in Range(builds)
      BY <1>1 DEF Range
    <3>4. BuildType'
      BY <1>1, <2>3, <2>4, <3>1 DEF BuildType
    <3> QED
      BY <2>3, <2>4, <2>7, <3>1, <3>2, <3>3, <3>4 DEF BuildInv
  <2> QED
    BY <2>5, <2>6
<1>5. ASSUME NEW n \in 0 .. 2, WindowsChange(n) PROVE BuildInv'
  <2>1. PICK k \in Nat: k = events.windows + 1 /\ k # 0
    BY <1>1
  <2>2. windows' = n /\ events' = [events EXCEPT !.windows = k] /\ UNCHANGED <<server, lastCount, builds, appMenu, built, newest>>
    BY <1>5, <2>1 DEF WindowsChange
  <2>3. events' \in [spaces: Nat, windows: Nat, flapped: BOOLEAN] /\ events'.windows # 0 /\ events'.spaces = events.spaces
    BY <1>1, <2>1, <2>2
  <2>4. BuildType'
    BY <1>1, <2>2, <2>3 DEF BuildType
  <2> QED
    BY <2>2, <2>3, <2>4 DEF BuildInv, Knows
<1> QED
  BY <1>2, <1>3, <1>4, <1>5, <1>7, <1>8, <1>9

LEMMA BuildStepInv ==
  ASSUME BuildInv, [AppMenuNext]_appMenuVars
  PROVE  BuildInv'
<1>1. CASE UNCHANGED buildVars
  BY <1>1 DEF buildVars, BuildInv, BuildType, Knows
<1>2. CASE Building
  <2>1. builds \in Seq(Build)
    BY DEF BuildInv, BuildType
  <2>2. DOMAIN builds = 1 .. Len(builds)
    BY <2>1
  <2> QED
    BY <1>2, <2>2, EventsInv, BuildGoesOn, SetMenuInv DEF Building
<1>3. CASE ContextMenus
  BY <1>1, <1>3 DEF ContextMenus, ContextMenuShow, handleContextMenuClick, showContextMenu, MenuCloses, ClickItem, ActivateTab
<1>4. CASE Zooming
  BY <1>1, <1>4 DEF Zooming, ClickZoom, updateZoomFactor, PageZoomLoads
<1>5. CASE UNCHANGED appMenuVars
  BY <1>1, <1>5 DEF appMenuVars
<1> QED
  BY <1>2, <1>3, <1>4, <1>5 DEF AppMenuNext

LEMMA ZoomStepInv ==
  ASSUME ZoomInv, [AppMenuNext]_appMenuVars
  PROVE  ZoomInv'
<1> DEFINE Zoom == [factor: MinZoomLevel .. MaxZoomLevel, told: [MenuPages -> Seq(Int)], pages: [MenuPages -> Int]]
<1> USE DEF MinZoomLevel, MaxZoomLevel
<1>1. CASE UNCHANGED zoom
  BY <1>1 DEF ZoomInv
<1>2. /\ zoom \in Zoom /\ zoom.factor \in 4 .. 26 /\ zoom.told \in [MenuPages -> Seq(Int)] /\ zoom.pages \in [MenuPages -> Int]
      /\ \A p \in MenuPages: zoom.told[p] \in Seq(Int)
  BY DEF ZoomInv
<1>3. ASSUME NEW factor \in {increaseZoomLevel(zoom.factor), decreaseZoomLevel(zoom.factor), 10}, ClickZoom(factor)
      PROVE  ZoomInv'
  <2>1. factor \in 4 .. 26 /\ factor \in Int
    <3>1. \A z \in 4 .. 26: increaseZoomLevel(z) \in 4 .. 26 /\ decreaseZoomLevel(z) \in 4 .. 26
      BY DEF increaseZoomLevel, decreaseZoomLevel, ZoomDelta
    <3>2. factor = increaseZoomLevel(zoom.factor) \/ factor = decreaseZoomLevel(zoom.factor) \/ factor = 10
      OBVIOUS
    <3>3. factor \in 4 .. 26
      BY <1>2, <3>1, <3>2
    <3> QED
      BY <3>3
  <2>2. PICK told: told = [p \in MenuPages |-> Append(zoom.told[p], factor)]
    OBVIOUS
  <2>3. \A p \in MenuPages: Append(zoom.told[p], factor) \in Seq(Int) /\ Append(zoom.told[p], factor) # <<>>
                            /\ Append(zoom.told[p], factor)[Len(Append(zoom.told[p], factor))] = factor
    BY <1>2, <2>1, Appended
  <2>4. told \in [MenuPages -> Seq(Int)] /\ \A p \in MenuPages: told[p] # <<>> /\ told[p][Len(told[p])] = factor
    BY <2>2, <2>3
  <2>5. zoom' = [zoom EXCEPT !.factor = factor, !.told = told]
    BY <1>3, <2>2 DEF ClickZoom
  <2>6. zoom' \in Zoom /\ zoom'.factor = factor /\ zoom'.told = told
    BY <1>2, <2>1, <2>4, <2>5
  <2> QED
    BY <2>4, <2>6 DEF ZoomInv
<1>4. ASSUME NEW p \in MenuPages, updateZoomFactor(p)
      PROVE  ZoomInv'
  <2>1. PICK q: q = zoom.told[p] /\ q \in Seq(Int) /\ q # <<>>
    BY <1>2, <1>4 DEF updateZoomFactor
  <2>2. zoom' = [zoom EXCEPT !.told[p] = Tail(q), !.pages[p] = Head(q)]
    BY <1>4, <2>1 DEF updateZoomFactor
  <2>3. /\ Head(q) \in Int /\ Tail(q) \in Seq(Int) /\ Len(Tail(q)) = Len(q) - 1 /\ (Tail(q) = <<>> <=> Len(q) = 1)
        /\ Head(q) = q[1] /\ \A i \in 1 .. Len(Tail(q)): Tail(q)[i] = q[i + 1]
        /\ Len(q) \in Nat \ {0}
    BY <2>1, Shortened
  <2>4. /\ zoom' \in Zoom /\ zoom'.factor = zoom.factor
        /\ \A r \in MenuPages: zoom'.told[r] = (IF r = p THEN Tail(q) ELSE zoom.told[r]) /\ zoom'.pages[r] = (IF r = p THEN Head(q) ELSE zoom.pages[r])
    BY <1>2, <2>2, <2>3
  <2>5. zoom.factor = q[Len(q)]
    BY <2>1 DEF ZoomInv
  <2>6. zoom.factor = IF Tail(q) = <<>> THEN Head(q) ELSE Tail(q)[Len(Tail(q))]
    <3>1. CASE Len(q) = 1
      BY <2>3, <2>5, <3>1
    <3>2. CASE Len(q) # 1
      <4>1. Len(Tail(q)) \in 1 .. Len(Tail(q)) /\ Len(Tail(q)) + 1 = Len(q)
        BY <2>3, <3>2
      <4> QED
        BY <2>3, <2>5, <3>2, <4>1
    <3> QED
      BY <3>1, <3>2
  <2> QED
    BY <2>4, <2>6 DEF ZoomInv
<1>5. ASSUME NEW p \in MenuPages, PageZoomLoads(p)
      PROVE  ZoomInv'
  <2>0. PICK f, none: f = zoom.factor /\ none = <<>>
    OBVIOUS
  <2>1. zoom' = [zoom EXCEPT !.told[p] = none, !.pages[p] = f]
    BY <1>5, <2>0 DEF PageZoomLoads
  <2>2. none \in Seq(Int) /\ f \in Int
    BY <1>2, <2>0
  <2>3. /\ zoom' \in Zoom /\ zoom'.factor = zoom.factor
        /\ \A r \in MenuPages: zoom'.told[r] = (IF r = p THEN none ELSE zoom.told[r]) /\ zoom'.pages[r] = (IF r = p THEN f ELSE zoom.pages[r])
    BY <1>2, <2>1, <2>2
  <2> QED
    BY <2>0, <2>3 DEF ZoomInv
<1>6. CASE Building
  BY <1>1, <1>6 DEF Building, SpacesChange, ChangePublished, CreateWorkspace, PublishesUpdate, NamesWorkspace, SpacesEvent, WindowsEvent, WindowsChange, ConfigAnswers, ListRead, SetApplicationMenu
<1>7. CASE ContextMenus
  BY <1>1, <1>7 DEF ContextMenus, ContextMenuShow, handleContextMenuClick, showContextMenu, MenuCloses, ClickItem, ActivateTab
<1>8. CASE UNCHANGED appMenuVars
  BY <1>1, <1>8 DEF appMenuVars
<1> QED
  BY <1>3, <1>4, <1>5, <1>6, <1>7, <1>8 DEF AppMenuNext, Zooming

\* What is added to a queue, or taken from its front, leaves what else is in it.
SameBut(s, t, E) ==
  /\ Occurs(t, E) <=> Occurs(s, E)
  /\ NoneAfter(s, E, E) => NoneAfter(t, E, E)
  /\ \A i \in 1 .. Len(t): t[i] \in E => \E j \in 1 .. Len(s): t[i] = s[j]
LEMMA OthersAdded ==
  ASSUME NEW S, NEW s \in Seq(S), NEW e \in S, NEW E, e \notin E
  PROVE  SameBut(s, Append(s, e), E)
<1>1. PICK t: t = Append(s, e)
  OBVIOUS
<1>2. /\ \A i \in 1 .. Len(s): i \in 1 .. Len(t) /\ t[i] = s[i]
      /\ \A i \in 1 .. Len(t): i \in 1 .. Len(s) \/ t[i] = e
  BY <1>1, Appended
<1>3. Occurs(t, E) <=> Occurs(s, E)
  BY <1>1, AppendTimes
<1>4. NoneAfter(s, E, E) => NoneAfter(t, E, E)
  BY <1>1, AppendNoneAfter
<1> QED
  BY <1>1, <1>2, <1>3, <1>4 DEF SameBut
LEMMA OthersTaken ==
  ASSUME NEW S, NEW s \in Seq(S), s # <<>>, NEW E, Head(s) \notin E
  PROVE  SameBut(s, Tail(s), E)
<1>1. PICK t: t = Tail(s)
  OBVIOUS
<1>2. /\ s[1] = Head(s) /\ \A i \in 1 .. Len(t): i + 1 \in 1 .. Len(s) /\ t[i] = s[i + 1]
  BY <1>1, Shortened
<1>3. Occurs(t, E) <=> Occurs(s, E)
  BY <1>1, <1>2, TailTimes
<1>4. NoneAfter(s, E, E) => NoneAfter(t, E, E)
  BY <1>1, TailNoneAfter
<1> QED
  BY <1>1, <1>2, <1>3, <1>4 DEF SameBut
LEMMA SameButItself ==
  ASSUME NEW s, NEW E
  PROVE  SameBut(s, s, E)
BY DEF SameBut

\* What is added to a queue is in it, once.
LEMMA AddedToQueue ==
  ASSUME NEW S, NEW s \in Seq(S), NEW e \in S, NEW E, e \in E, ~Occurs(s, E)
  PROVE  /\ Occurs(Append(s, e), E) /\ NoneAfter(Append(s, e), E, E)
         /\ \A i \in 1 .. Len(Append(s, e)): Append(s, e)[i] \in E => Append(s, e)[i] = e
<1>1. Occurs(Append(s, e), E)
  BY AppendTimes
<1>2. NoneAfter(s, E, E)
  BY DEF NoneAfter, Occurs
<1>3. NoneAfter(Append(s, e), E, E)
  BY <1>2, AppendNoneAfter
<1>4. PICK t: t = Append(s, e)
  OBVIOUS
<1>5. \A i \in 1 .. Len(t): (i \in 1 .. Len(s) /\ t[i] = s[i]) \/ t[i] = e
  BY <1>4, Appended
<1>6. \A i \in 1 .. Len(t): t[i] \in E => t[i] = e
  BY <1>5 DEF Occurs
<1> QED
  BY <1>1, <1>3, <1>4, <1>6

\* A menu of which nothing changes is as it should be still.
LEMMA UnderFrame ==
  ASSUME NEW m, OnceEach(m), ClickOf(m), popups'[m] = popups[m], Clicked(m)' = Clicked(m),
         tells' \in [MenuPages -> Seq(Message2)],
         \A p \in MenuPages: SameBut(requests[p], requests'[p], {m}) /\ SameBut(tells[p], tells'[p], OfMenu(m)),
         m \in DOMAIN open' => m \in DOMAIN open, Opened(m)' <=> Opened(m)
  PROVE  OnceEach(m)' /\ ClickOf(m)' /\ (Under(m)' <=> Under(m))
<1>6. \A p \in MenuPages: /\ Occurs(requests'[p], {m}) <=> Occurs(requests[p], {m})
                          /\ NoneAfter(requests[p], {m}, {m}) => NoneAfter(requests'[p], {m}, {m})
  BY DEF SameBut
<1>7. \A p \in MenuPages: /\ Occurs(tells'[p], OfMenu(m)) <=> Occurs(tells[p], OfMenu(m))
                          /\ NoneAfter(tells[p], OfMenu(m), OfMenu(m)) => NoneAfter(tells'[p], OfMenu(m), OfMenu(m))
  BY DEF SameBut
<1>8. \A p \in MenuPages: \A i \in 1 .. Len(tells'[p]): tells'[p][i].n = m => tells'[p][i] \in OfMenu(m)
  <2>1. \A p \in MenuPages: \A i \in 1 .. Len(tells'[p]): tells'[p][i] \in Message2
    OBVIOUS
  <2> QED
    BY <2>1 DEF OfMenu
<1>9. \A p \in MenuPages: \A i \in 1 .. Len(tells'[p]): tells'[p][i].n = m => \E j \in 1 .. Len(tells[p]): tells'[p][i] = tells[p][j]
  BY <1>8 DEF SameBut
<1>1. (Asked(m)' <=> Asked(m)) /\ (Opened(m)' <=> Opened(m)) /\ (Told(m)' <=> Told(m))
  BY <1>6, <1>7 DEF Asked, Told
<1>2. Under(m)' <=> Under(m)
  BY <1>1 DEF Under
<1>3. OnceEach(m)'
  BY <1>1, <1>6, <1>7 DEF OnceEach
<1>4. ClickOf(m)'
  <2>1. ASSUME NEW p \in MenuPages, NEW i \in 1 .. Len(tells'[p]), tells'[p][i].n = m
        PROVE  Clicked(m)' = IF tells'[p][i].id = "none" THEN {} ELSE {<<m, tells'[p][i].id>>}
    <3>1. PICK j \in 1 .. Len(tells[p]): tells'[p][i] = tells[p][j]
      BY <1>9, <2>1
    <3>2. Clicked(m) = IF tells[p][j].id = "none" THEN {} ELSE {<<m, tells[p][j].id>>}
      BY <2>1, <3>1 DEF ClickOf
    <3> QED
      BY <3>1, <3>2
  <2> QED
    BY <1>1, <2>1 DEF ClickOf
<1> QED
  BY <1>2, <1>3, <1>4

LEMMA PopupFrame ==
  ASSUME NEW m, OnceEach(m), ClickOf(m), CloseOf(m),
         popups'[m] = popups[m], closes'[m] = closes[m], crossed \subseteq crossed', Clicked(m)' = Clicked(m),
         tells' \in [MenuPages -> Seq(Message2)],
         \A p \in MenuPages: SameBut(requests[p], requests'[p], {m}) /\ SameBut(tells[p], tells'[p], OfMenu(m)),
         m \in DOMAIN open' => m \in DOMAIN open, Opened(m)' <=> Opened(m),
         \A i \in 1 .. Len(ran'): ran'[i][1] = m => \E j \in 1 .. Len(ran): ran'[i] = ran[j],
         \A j \in 1 .. Len(ran): \E i \in 1 .. Len(ran'): ran'[i] = ran[j]
  PROVE  OnceEach(m)' /\ ClickOf(m)' /\ CloseOf(m)'
<1>1. OnceEach(m)' /\ ClickOf(m)' /\ (Under(m)' <=> Under(m))
  BY UnderFrame
<1>5. CloseOf(m)'
  <2>1. Under(m)' => \A i \in 1 .. Len(ran'): ran'[i][1] # m
    BY <1>1 DEF CloseOf
  <2>2. m \notin crossed' => m \notin crossed
    OBVIOUS
  <2>3. ASSUME m \notin crossed', closes'[m] # <<>>
        PROVE  /\ closes'[m][1] # "none" <=> \E c \in Clicked(m)': popups'[m].shape[c[2]]
               /\ closes'[m][1] # "none" => \E i \in 1 .. Len(ran'): ran'[i] = <<m, closes'[m][1]>>
    <3>1. /\ closes[m][1] # "none" <=> \E c \in Clicked(m): popups[m].shape[c[2]]
          /\ closes[m][1] # "none" => \E i \in 1 .. Len(ran): ran[i] = <<m, closes[m][1]>>
      BY <2>2, <2>3 DEF CloseOf
    <3>2. closes'[m][1] # "none" => \E i \in 1 .. Len(ran'): ran'[i] = <<m, closes'[m][1]>>
      <4>1. ASSUME closes[m][1] # "none" PROVE \E i \in 1 .. Len(ran'): ran'[i] = <<m, closes'[m][1]>>
        <5>1. PICK j \in 1 .. Len(ran): ran[j] = <<m, closes[m][1]>>
          BY <3>1, <4>1
        <5> QED
          BY <5>1
      <4> QED
        BY <4>1
    <3> QED
      BY <3>1, <3>2
  <2> QED
    BY <1>1, <2>1, <2>2, <2>3 DEF CloseOf
<1> QED
  BY <1>1, <1>5

\* A menu that was under way and still is.
LEMMA StillUnder ==
  ASSUME NEW m, CloseOf(m), Under(m), Under(m)', UNCHANGED <<closes, ran>>, crossed \subseteq crossed'
  PROVE  CloseOf(m)'
<1>1. Len(closes'[m]) <= 1 /\ \A i \in 1 .. Len(ran'): ran'[i][1] # m
  BY DEF CloseOf
<1>2. m \notin crossed' => closes'[m] = <<>>
  BY DEF CloseOf
<1> QED
  BY <1>1, <1>2 DEF CloseOf

\* What is there once is gone when it is taken.
LEMMA TakenFromQueue ==
  ASSUME NEW S, NEW s \in Seq(S), s # <<>>, NEW E, Head(s) \in E, NoneAfter(s, E, E)
  PROVE  ~Occurs(Tail(s), E) /\ NoneAfter(Tail(s), E, E)
<1>1. s[1] = Head(s)
  BY Shortened
<1> QED
  BY <1>1, TailNoneAfter


LEMMA PopupsInitInv ==
  ASSUME AppMenuInit
  PROVE  PopupsInv
<1>1. /\ popups = <<>> /\ closes = <<>> /\ ran = <<>> /\ clicks = {} /\ DOMAIN open = {} /\ open = [n \in DOMAIN open |-> open[n]]
      /\ Len(popups) = 0 /\ Len(closes) = 0 /\ Len(ran) = 0
      /\ activePage \in MenuPages \cup {0}
  BY DEF AppMenuInit
<1>2. /\ \A S: <<>> \in Seq(S)
  OBVIOUS
<1>3. /\ requests = [p \in MenuPages |-> <<>>] /\ tells = [p \in MenuPages |-> <<>>]
      /\ pages = [p \in MenuPages |-> [handlers |-> {}, opts |-> 0]]
  BY DEF AppMenuInit
<1>4. requests \in [MenuPages -> Seq(Nat)] /\ tells \in [MenuPages -> Seq(Message2)]
  BY <1>2, <1>3
<1>5. pages \in [MenuPages -> [handlers: SUBSET (Nat \X Ids), opts: Nat]]
  BY <1>3
<1>6. MenuType
  BY <1>1, <1>2, <1>4, <1>5 DEF MenuType
<1>7. \A p \in MenuPages: Len(requests[p]) = 0 /\ Len(tells[p]) = 0
  BY <1>3
<1>8. \A p \in MenuPages: PageKnows(p)
  BY <1>3 DEF PageKnows
<1> QED
  BY <1>1, <1>6, <1>7, <1>8 DEF PopupsInv, Popups

LEMMA ShowMenuInv ==
  ASSUME PopupsInv, NEW p \in MenuPages, NEW shape \in MenuShapes, showContextMenu(p, shape)
  PROVE  PopupsInv'
<1>1. MenuType /\ popups \in Seq([page: MenuPages, shape: MenuShapes]) /\ requests \in [MenuPages -> Seq(Nat)]
      /\ closes \in Seq(Seq(Ids)) /\ Len(closes) = Len(popups) /\ pages \in [MenuPages -> [handlers: SUBSET (Nat \X Ids), opts: Nat]]
      /\ Len(popups) \in Nat
  BY DEF PopupsInv, MenuType
<1>2. PICK n: n = Len(popups) + 1
  OBVIOUS
<1>3. n \in Nat \ {0} /\ n \notin Popups /\ \A m \in Popups: m \in 1 .. Len(popups) /\ m # n
  BY <1>1, <1>2 DEF Popups
<1>4. PICK new: new = [page |-> p, shape |-> shape]
  OBVIOUS
<1>21. new \in [page: MenuPages, shape: MenuShapes] /\ new.page = p /\ new.shape = shape
  BY <1>4
<1>22. requests[p] \in Seq(Nat)
  BY <1>1
<1>5. /\ popups' = Append(popups, new) /\ closes' = Append(closes, <<>>)
      /\ requests' = [requests EXCEPT ![p] = Append(requests[p], n)]
      /\ crossed \subseteq crossed' /\ (\A m \in Nat: m # 0 /\ m = pages[p].opts => m \in crossed')
      /\ UNCHANGED <<activePage, open, tells, clicks, ran>>
  BY <1>2, <1>4 DEF showContextMenu
<1>6. pages' = [pages EXCEPT ![p] = [handlers |-> Registered2(n, shape), opts |-> n]]
  BY <1>2 DEF showContextMenu
<1>7. /\ popups' \in Seq([page: MenuPages, shape: MenuShapes]) /\ Len(popups') = n /\ popups'[n] = new
      /\ \A m \in Popups: popups'[m] = popups[m]
  <2>1. PICK s: s = popups
    OBVIOUS
  <2>2. s \in Seq([page: MenuPages, shape: MenuShapes]) /\ popups' = Append(s, new) /\ Popups = 1 .. Len(s) /\ n = Len(s) + 1
    BY <1>1, <1>2, <1>5, <2>1 DEF Popups
  <2> QED
    BY <1>21, <2>1, <2>2, Appended
<1>8. /\ closes' \in Seq(Seq(Ids)) /\ Len(closes') = n /\ closes'[n] = <<>>
      /\ \A m \in Popups: closes'[m] = closes[m]
  <2>1. <<>> \in Seq(Ids)
    OBVIOUS
  <2> QED
    BY <1>1, <1>2, <1>5, <2>1, Appended DEF Popups
<1>9. Popups' = Popups \cup {n}
  BY <1>1, <1>2, <1>7 DEF Popups
<1>10. /\ requests' \in [MenuPages -> Seq(Nat)]
       /\ \A q \in MenuPages: \A i \in 1 .. Len(requests'[q]): requests'[q][i] \in Popups'
  <2>1. Append(requests[p], n) \in Seq(Nat) /\ \A i \in 1 .. Len(Append(requests[p], n)): (i \in 1 .. Len(requests[p]) /\ Append(requests[p], n)[i] = requests[p][i]) \/ Append(requests[p], n)[i] = n
    BY <1>3, <1>22, Appended
  <2>2. \A q \in MenuPages: requests'[q] = IF q = p THEN Append(requests[p], n) ELSE requests[q]
    BY <1>1, <1>5
  <2>3. \A q \in MenuPages: \A i \in 1 .. Len(requests[q]): requests[q][i] \in Popups
    BY DEF PopupsInv
  <2>4. requests' \in [MenuPages -> Seq(Nat)]
    BY <1>1, <1>5, <2>1
  <2> QED
    BY <1>9, <2>1, <2>2, <2>3, <2>4
<1>11. Registered2(n, shape) \subseteq Nat \X Ids
  <2>1. \A item \in DOMAIN shape: item \in Ids
    BY DEF Ids
  <2> QED
    BY <1>3, <2>1 DEF Registered2
<1>12. /\ pages' \in [MenuPages -> [handlers: SUBSET (Nat \X Ids), opts: Nat]]
       /\ pages'[p].opts = n /\ pages'[p].handlers = Registered2(n, shape) /\ \A q \in MenuPages: q # p => pages'[q] = pages[q]
  BY <1>1, <1>3, <1>6, <1>11
<1>13. MenuType'
  BY <1>1, <1>5, <1>7, <1>8, <1>10, <1>12 DEF MenuType
<1>14. \A q \in MenuPages: PageKnows(q)'
  <2>1. PageKnows(p)'
    BY <1>3, <1>21, <1>7, <1>8, <1>9, <1>12 DEF PageKnows
  <2>2. ASSUME NEW q \in MenuPages, q # p PROVE PageKnows(q)'
    <3>1. PageKnows(q) /\ pages'[q] = pages[q]
      BY <1>12, <2>2 DEF PopupsInv
    <3>2. CASE pages[q].opts = 0
      BY <3>1, <3>2 DEF PageKnows
    <3>3. CASE pages[q].opts # 0
      <4>1. PICK m: m = pages[q].opts
        OBVIOUS
      <4>2. m # 0 /\ m \in Popups /\ closes[m] = <<>> /\ popups[m].page = q /\ pages[q].handlers = Registered2(m, popups[m].shape)
        BY <3>1, <3>3, <4>1 DEF PageKnows
      <4>3. m \in Popups' /\ closes'[m] = <<>> /\ popups'[m] = popups[m]
        BY <1>7, <1>8, <1>9, <4>2
      <4> QED
        BY <3>1, <4>1, <4>2, <4>3 DEF PageKnows
    <3> QED
      BY <3>2, <3>3
  <2> QED
    BY <2>1, <2>2
<1>15. /\ \A q \in MenuPages: ~Occurs(requests[q], {n}) /\ ~Occurs(tells[q], OfMenu(n))
       /\ n \notin DOMAIN open /\ Clicked(n) = {} /\ \A i \in 1 .. Len(ran): ran[i][1] # n
  BY <1>3 DEF PopupsInv, Occurs, OfMenu, Clicked
<1>16. ASSUME NEW m \in Popups PROVE OnceEach(m)' /\ ClickOf(m)' /\ CloseOf(m)'
  <2>1. OnceEach(m) /\ ClickOf(m) /\ CloseOf(m)
    BY DEF PopupsInv
  <2>2. n \notin {m}
    BY <1>3
  <2>3. \A q \in MenuPages: SameBut(requests[q], requests'[q], {m}) /\ SameBut(tells[q], tells'[q], OfMenu(m))
    <3>1. SameBut(requests[p], Append(requests[p], n), {m})
      BY <1>3, <1>22, <2>2, OthersAdded
    <3>2. \A q \in MenuPages: requests'[q] = IF q = p THEN Append(requests[p], n) ELSE requests[q]
      BY <1>1, <1>5
    <3> QED
      BY <1>5, <3>1, <3>2, SameButItself
  <2>5. tells' \in [MenuPages -> Seq(Message2)]
    BY <1>13 DEF MenuType
  <2>4. Clicked(m)' = Clicked(m)
    BY <1>5 DEF Clicked
  <2> QED
    <3>1. Opened(m)' <=> Opened(m)
      BY <1>5 DEF Opened
    <3> QED
      BY <1>5, <1>7, <1>8, <2>1, <2>3, <2>4, <2>5, <3>1, PopupFrame
<1>17. OnceEach(n)' /\ ClickOf(n)' /\ CloseOf(n)'
  <2>1. /\ \A q \in MenuPages: Occurs(requests'[q], {n}) <=> q = p
        /\ \A q \in MenuPages: NoneAfter(requests'[q], {n}, {n})
    <3>1. Occurs(requests'[p], {n}) /\ NoneAfter(requests'[p], {n}, {n})
      <4>1. requests'[p] = Append(requests[p], n) /\ n \in Nat /\ n \in {n} /\ ~Occurs(requests[p], {n})
        BY <1>1, <1>3, <1>5, <1>15
      <4> QED
        BY <1>22, <4>1, AddedToQueue
    <3>2. \A q \in MenuPages: q # p => requests'[q] = requests[q]
      BY <1>1, <1>5
    <3>3. \A q \in MenuPages: NoneAfter(requests[q], {n}, {n})
      BY <1>15 DEF NoneAfter, Occurs
    <3> QED
      BY <1>15, <3>1, <3>2, <3>3
  <2>2. \A q \in MenuPages: ~Occurs(tells'[q], OfMenu(n)) /\ NoneAfter(tells'[q], OfMenu(n), OfMenu(n))
    BY <1>5, <1>15 DEF NoneAfter, Occurs
  <2>3. Asked(n)' /\ ~Opened(n)' /\ ~Told(n)' /\ Under(n)'
    BY <1>5, <1>15, <2>1, <2>2 DEF Asked, Opened, Told, Under
  <2>4. OnceEach(n)'
    BY <1>21, <1>5, <1>7, <1>15, <2>1, <2>2, <2>3 DEF OnceEach
  <2>5. Clicked(n)' = {}
    BY <1>5, <1>15 DEF Clicked
  <2>6. \A q \in MenuPages: \A i \in 1 .. Len(tells'[q]): tells'[q][i].n # n
    BY <1>3, <1>5 DEF PopupsInv
  <2>7. ClickOf(n)'
    BY <2>5, <2>6 DEF ClickOf
  <2>8. Len(closes'[n]) = 0
    BY <1>8
  <2>9. CloseOf(n)'
    BY <1>5, <1>8, <1>15, <2>3, <2>8 DEF CloseOf
  <2> QED
    BY <2>4, <2>7, <2>9
<1>18. \A m \in DOMAIN open': m \notin crossed' => open'[m].page = popups'[m].page
  BY <1>5, <1>7 DEF PopupsInv
<1>19. \A i \in 1 .. Len(ran'): ran'[i] \in clicks'
  BY <1>5 DEF PopupsInv
<1>20. /\ \A q \in MenuPages: \A i \in 1 .. Len(tells'[q]): tells'[q][i].n \in Popups'
       /\ DOMAIN open' \subseteq Popups' /\ \A c \in clicks': c[1] \in Popups'
       /\ \A i, j \in 1 .. Len(ran'): ran'[i] = ran'[j] => i = j
  BY <1>5, <1>9 DEF PopupsInv
<1> QED
  BY <1>9, <1>10, <1>13, <1>14, <1>16, <1>17, <1>18, <1>19, <1>20 DEF PopupsInv

\* A message that is sent about a menu of which none was under way.
LEMMA ToldInv ==
  ASSUME PopupsInv, NEW n \in Popups, NEW q \in MenuPages, NEW id \in Ids, Tell(q, n, id), ~Told(n)
  PROVE  /\ tells' \in [MenuPages -> Seq(Message2)]
         /\ \A p \in MenuPages: \A i \in 1 .. Len(tells'[p]): tells'[p][i].n \in Popups
         /\ \A p \in MenuPages: NoneAfter(tells'[p], OfMenu(n), OfMenu(n)) /\ (Occurs(tells'[p], OfMenu(n)) <=> p = q)
         /\ \A p \in MenuPages: \A i \in 1 .. Len(tells'[p]): tells'[p][i].n = n => tells'[p][i].id = id
         /\ \A m \in Popups: m # n => \A p \in MenuPages: SameBut(tells[p], tells'[p], OfMenu(m))
<1>15. Len(popups) \in Nat
  BY DEF PopupsInv, MenuType
<1>1. tells \in [MenuPages -> Seq(Message2)] /\ Popups \subseteq Nat /\ tells[q] \in Seq(Message2)
  <2>1. tells \in [MenuPages -> Seq(Message2)]
    BY DEF PopupsInv, MenuType
  <2>2. Popups \subseteq Nat
    BY <1>15 DEF Popups
  <2> QED
    BY <2>1, <2>2
<1>16. PICK e: e = [n |-> n, id |-> id]
  OBVIOUS
<1>2. e = [n |-> n, id |-> id] /\ e.n = n /\ e.id = id
  BY <1>16
<1>3. e \in Message2 /\ e \in OfMenu(n) /\ \A m \in Popups: m # n => e \notin OfMenu(m)
  BY <1>1, <1>2 DEF Message2, OfMenu
<1>4. tells' = [tells EXCEPT ![q] = Append(tells[q], e)]
  BY <1>2 DEF Tell
<1>5. /\ \A p \in MenuPages: tells'[p] = IF p = q THEN Append(tells[q], e) ELSE tells[p]
      /\ Append(tells[q], e) \in Seq(Message2)
      /\ \A i \in 1 .. Len(Append(tells[q], e)): (i \in 1 .. Len(tells[q]) /\ Append(tells[q], e)[i] = tells[q][i]) \/ Append(tells[q], e)[i] = e
  BY <1>1, <1>3, <1>4, Appended
<1>6. tells' \in [MenuPages -> Seq(Message2)]
  BY <1>1, <1>4, <1>5
<1>7. \A p \in MenuPages: \A i \in 1 .. Len(tells'[p]): tells'[p][i] \in Message2
  BY <1>6
<1>8. \A p \in MenuPages: ~Occurs(tells[p], OfMenu(n)) /\ NoneAfter(tells[p], OfMenu(n), OfMenu(n))
  BY DEF Told, NoneAfter, Occurs
<1>9. Occurs(tells'[q], OfMenu(n)) /\ NoneAfter(tells'[q], OfMenu(n), OfMenu(n))
      /\ \A i \in 1 .. Len(tells'[q]): tells'[q][i] \in OfMenu(n) => tells'[q][i] = e
  <2>1. tells'[q] = Append(tells[q], e) /\ tells[q] \in Seq(Message2) /\ e \in Message2 /\ e \in OfMenu(n) /\ ~Occurs(tells[q], OfMenu(n))
    BY <1>1, <1>3, <1>5, <1>8
  <2> QED
    BY <2>1, AddedToQueue
<1>10. \A p \in MenuPages: NoneAfter(tells'[p], OfMenu(n), OfMenu(n)) /\ (Occurs(tells'[p], OfMenu(n)) <=> p = q)
  BY <1>5, <1>8, <1>9
<1>11. ASSUME NEW p \in MenuPages, NEW i \in 1 .. Len(tells'[p]), tells'[p][i].n = n PROVE tells'[p][i].id = id
  <2>1. tells'[p][i] \in OfMenu(n)
    BY <1>7, <1>11 DEF OfMenu
  <2>2. p = q
    BY <1>10, <2>1 DEF Occurs
  <2> QED
    BY <1>2, <1>9, <2>1, <2>2
<1>12. ASSUME NEW m \in Popups, m # n PROVE \A p \in MenuPages: SameBut(tells[p], tells'[p], OfMenu(m))
  <2>1. SameBut(tells[q], Append(tells[q], e), OfMenu(m))
    BY <1>1, <1>3, <1>12, OthersAdded
  <2> QED
    BY <1>5, <2>1, SameButItself
<1>14. \A p \in MenuPages: \A i \in 1 .. Len(tells'[p]): tells'[p][i].n \in Popups
  <2>1. \A p \in MenuPages: \A i \in 1 .. Len(tells[p]): tells[p][i].n \in Popups
    BY DEF PopupsInv
  <2> QED
    BY <1>2, <1>5, <2>1
<1> QED
  BY <1>6, <1>10, <1>11, <1>12, <1>14

\* contextmenu-show: the request is taken, and the menu opens, or ends, or is dropped.
LEMMA ContextMenuShowInv ==
  ASSUME PopupsInv, NEW p \in MenuPages, ContextMenuShow(p)
  PROVE  PopupsInv'
<1>1. PICK n: n = Head(requests[p])
  OBVIOUS
<1>2. MenuType /\ requests \in [MenuPages -> Seq(Nat)] /\ requests[p] \in Seq(Nat) /\ tells \in [MenuPages -> Seq(Message2)] /\ Len(popups) \in Nat
  <2>1. requests \in [MenuPages -> Seq(Nat)] /\ MenuType
    BY DEF PopupsInv, MenuType
  <2> QED
    BY <2>1 DEF MenuType
<1>3. requests[p] # <<>> /\ requests' = [requests EXCEPT ![p] = Tail(requests[p])]
  BY DEF ContextMenuShow
<1>4. requests[p][1] = n /\ Tail(requests[p]) \in Seq(Nat) /\ 1 \in 1 .. Len(requests[p])
      /\ \A i \in 1 .. Len(Tail(requests[p])): i + 1 \in 1 .. Len(requests[p]) /\ Tail(requests[p])[i] = requests[p][i + 1]
  BY <1>1, <1>2, <1>3, Shortened
<1>5. n \in Popups /\ n \in Nat
  <2>1. n \in Popups
    BY <1>4 DEF PopupsInv
  <2> QED
    BY <1>2, <2>1 DEF Popups
<1>6. OnceEach(n) /\ ClickOf(n) /\ CloseOf(n)
  BY <1>5 DEF PopupsInv
<1>7. Asked(n) /\ Under(n) /\ p = popups[n].page
  <2>1. Occurs(requests[p], {n})
    BY <1>4 DEF Occurs
  <2> QED
    BY <1>6, <2>1 DEF Asked, Under, OnceEach
<1>8. n \notin DOMAIN open /\ ~Told(n) /\ Clicked(n) = {}
  BY <1>6, <1>7 DEF OnceEach, ClickOf
<1>9. /\ UNCHANGED <<activePage, pages, popups, clicks, ran, closes>> /\ crossed \subseteq crossed'
      /\ activePage # p => n \in crossed'
  BY <1>1 DEF ContextMenuShow
<1>10. \A q \in MenuPages: requests'[q] = IF q = p THEN Tail(requests[p]) ELSE requests[q]
  BY <1>2, <1>3
<1>11. requests' \in [MenuPages -> Seq(Nat)]
  BY <1>2, <1>3, <1>4
<1>12. Popups' = Popups
  BY <1>9 DEF Popups
<1>13. \A q \in MenuPages: \A i \in 1 .. Len(requests'[q]): requests'[q][i] \in Popups'
  <2>1. \A q \in MenuPages: \A i \in 1 .. Len(requests[q]): requests[q][i] \in Popups
    BY DEF PopupsInv
  <2> QED
    BY <1>4, <1>10, <1>12, <2>1
<1>14. \A q \in MenuPages: ~Occurs(requests'[q], {n}) /\ NoneAfter(requests'[q], {n}, {n})
  <2>1. NoneAfter(requests[p], {n}, {n}) /\ Head(requests[p]) \in {n}
    BY <1>1, <1>6 DEF OnceEach
  <2>2. ~Occurs(Tail(requests[p]), {n}) /\ NoneAfter(Tail(requests[p]), {n}, {n})
    BY <1>2, <1>3, <2>1, TakenFromQueue
  <2>3. ASSUME NEW q \in MenuPages, q # p PROVE ~Occurs(requests[q], {n}) /\ NoneAfter(requests[q], {n}, {n})
    BY <1>6, <1>7, <2>3 DEF OnceEach
  <2> QED
    BY <1>10, <2>2, <2>3
<1>15. ~Asked(n)'
  BY <1>14 DEF Asked
<1>16. ASSUME NEW m \in Popups, m # n PROVE \A q \in MenuPages: SameBut(requests[q], requests'[q], {m})
  <2>1. Head(requests[p]) \notin {m}
    BY <1>1, <1>16
  <2>2. SameBut(requests[p], Tail(requests[p]), {m})
    BY <1>2, <1>3, <2>1, OthersTaken
  <2> QED
    BY <1>10, <2>2, SameButItself
<1>17. \A m \in Popups: Clicked(m)' = Clicked(m)
  BY <1>9 DEF Clicked
<1>18. \/ /\ open' = open /\ Tell(activePage, n, "none") /\ activePage \in MenuPages
       \/ /\ tells' = tells /\ open' = [m \in DOMAIN open \cup {n} |-> IF m = n THEN [page |-> activePage, clicked |-> FALSE] ELSE open[m]]
          /\ activePage \in MenuPages
       \/ open' = open /\ tells' = tells /\ activePage = 0
  <2>1. activePage \in MenuPages \/ activePage = 0
    BY <1>2 DEF MenuType
  <2> QED
    BY <1>1, <2>1, PagesAssumption DEF ContextMenuShow
<1>19. /\ tells' \in [MenuPages -> Seq(Message2)]
       /\ \A q \in MenuPages: \A i \in 1 .. Len(tells'[q]): tells'[q][i].n \in Popups'
       /\ \A m \in Popups: m # n => \A q \in MenuPages: SameBut(tells[q], tells'[q], OfMenu(m))
       /\ open' = [m \in DOMAIN open' |-> open'[m]]
       /\ \A m \in DOMAIN open': open'[m] \in [page: MenuPages, clicked: BOOLEAN]
       /\ DOMAIN open' \subseteq Popups'
       /\ \A m \in DOMAIN open': m # n => m \in DOMAIN open /\ open'[m] = open[m]
       /\ \A m \in Popups: m # n => (Opened(m)' <=> Opened(m))
       /\ n \in DOMAIN open' => open'[n].page = activePage
       /\ OnceEach(n)' /\ ClickOf(n)' /\ CloseOf(n)'
  <2>1. /\ \A q \in MenuPages: \A i \in 1 .. Len(tells[q]): tells[q][i].n \in Popups
        /\ DOMAIN open \subseteq Popups
        /\ open = [m \in DOMAIN open |-> open[m]]
        /\ \A m \in DOMAIN open: open[m] \in [page: MenuPages, clicked: BOOLEAN]
    BY <1>2 DEF PopupsInv, MenuType
  <2>9. Clicked(n)' = {}
    BY <1>5, <1>8, <1>17
  <2>2. CASE open' = open /\ Tell(activePage, n, "none") /\ activePage \in MenuPages
    <3>1. "none" \in Ids
      BY DEF Ids
    <3>2. /\ tells' \in [MenuPages -> Seq(Message2)]
          /\ \A q \in MenuPages: \A i \in 1 .. Len(tells'[q]): tells'[q][i].n \in Popups
          /\ \A q \in MenuPages: NoneAfter(tells'[q], OfMenu(n), OfMenu(n)) /\ (Occurs(tells'[q], OfMenu(n)) <=> q = activePage)
          /\ \A q \in MenuPages: \A i \in 1 .. Len(tells'[q]): tells'[q][i].n = n => tells'[q][i].id = "none"
          /\ \A m \in Popups: m # n => \A q \in MenuPages: SameBut(tells[q], tells'[q], OfMenu(m))
      BY <1>5, <1>8, <2>2, <3>1, ToldInv
    <3>3. \A m \in Popups: Opened(m)' <=> Opened(m)
      BY <2>2 DEF Opened
    <3>4. Told(n)' /\ Under(n)' /\ ~Opened(n)'
      BY <1>8, <2>2, <3>2 DEF Told, Under, Opened
    <3>5. OnceEach(n)'
      BY <1>14, <1>15, <3>2, <3>4 DEF OnceEach
    <3>6. ClickOf(n)'
      BY <1>15, <2>9, <3>2, <3>4 DEF ClickOf
    <3>7. CloseOf(n)'
      BY <1>6, <1>7, <1>9, <3>4, StillUnder
    <3> QED
      BY <1>8, <1>12, <2>1, <2>2, <3>2, <3>3, <3>5, <3>6, <3>7
  <2>3. CASE /\ tells' = tells /\ open' = [m \in DOMAIN open \cup {n} |-> IF m = n THEN [page |-> activePage, clicked |-> FALSE] ELSE open[m]]
             /\ activePage \in MenuPages
    <3>1. PICK o: o = [page |-> activePage, clicked |-> FALSE]
      OBVIOUS
    <3>2. o \in [page: MenuPages, clicked: BOOLEAN] /\ o.page = activePage /\ o.clicked = FALSE
      BY <2>3, <3>1
    <3>3. DOMAIN open' = DOMAIN open \cup {n} /\ open'[n] = o /\ \A m \in DOMAIN open: open'[m] = open[m]
      BY <1>8, <2>3, <3>1
    <3>4. open' = [m \in DOMAIN open' |-> open'[m]]
      BY <2>3
    <3>5. Opened(n)' /\ Under(n)' /\ \A m \in Popups: m # n => (Opened(m)' <=> Opened(m))
      BY <3>2, <3>3 DEF Opened, Under
    <3>6. ~Told(n)' /\ \A q \in MenuPages: ~Occurs(tells'[q], OfMenu(n))
      BY <1>8, <2>3 DEF Told
    <3>7. OnceEach(n)'
      BY <1>14, <1>15, <3>6 DEF OnceEach, NoneAfter, Occurs
    <3>8. \A q \in MenuPages: \A i \in 1 .. Len(tells'[q]): tells'[q][i].n # n
      <4>1. \A q \in MenuPages: \A i \in 1 .. Len(tells'[q]): tells'[q][i] \in Message2
        BY <1>2, <2>3
      <4> QED
        BY <3>6, <4>1 DEF Occurs, OfMenu
    <3>9. ClickOf(n)'
      BY <2>9, <3>8 DEF ClickOf
    <3>10. CloseOf(n)'
      BY <1>6, <1>7, <1>9, <3>5, StillUnder
    <3>11. \A m \in DOMAIN open': open'[m] \in [page: MenuPages, clicked: BOOLEAN]
      BY <2>1, <3>2, <3>3
    <3>12. \A m \in Popups: \A q \in MenuPages: SameBut(tells[q], tells'[q], OfMenu(m))
      BY <2>3, SameButItself
    <3> QED
      BY <1>2, <1>5, <1>12, <2>1, <2>3, <3>2, <3>3, <3>4, <3>5, <3>7, <3>9, <3>10, <3>11, <3>12
  <2>4. CASE open' = open /\ tells' = tells /\ activePage = 0
    <3>1. \A m \in Popups: Opened(m)' <=> Opened(m)
      BY <2>4 DEF Opened
    <3>2. ~Told(n)' /\ ~Opened(n)' /\ ~Under(n)' /\ \A q \in MenuPages: ~Occurs(tells'[q], OfMenu(n))
      BY <1>8, <1>15, <2>4 DEF Told, Opened, Under
    <3>3. OnceEach(n)'
      BY <1>14, <1>15, <3>2 DEF OnceEach, NoneAfter, Occurs
    <3>4. \A q \in MenuPages: \A i \in 1 .. Len(tells'[q]): tells'[q][i].n # n
      <4>1. \A q \in MenuPages: \A i \in 1 .. Len(tells'[q]): tells'[q][i] \in Message2
        BY <1>2, <2>4
      <4> QED
        BY <3>2, <4>1 DEF Occurs, OfMenu
    <3>5. ClickOf(n)'
      BY <2>9, <3>4 DEF ClickOf
    <3>6. n \in crossed'
      BY <1>9, <2>4, PagesAssumption
    <3>7. Len(closes'[n]) <= 1
      BY <1>6, <1>9 DEF CloseOf
    <3>8. CloseOf(n)'
      BY <3>2, <3>6, <3>7 DEF CloseOf
    <3>9. \A m \in Popups: \A q \in MenuPages: SameBut(tells[q], tells'[q], OfMenu(m))
      BY <2>4, SameButItself
    <3> QED
      BY <1>2, <1>8, <1>12, <2>1, <2>4, <3>1, <3>3, <3>5, <3>8, <3>9
  <2> QED
    BY <1>18, <2>2, <2>3, <2>4
<1>20. ASSUME NEW m \in Popups PROVE OnceEach(m)' /\ ClickOf(m)' /\ CloseOf(m)'
  <2>1. CASE m = n
    BY <1>19, <2>1
  <2>2. CASE m # n
    <3>1. OnceEach(m) /\ ClickOf(m) /\ CloseOf(m)
      BY DEF PopupsInv
    <3>2. \A q \in MenuPages: SameBut(requests[q], requests'[q], {m}) /\ SameBut(tells[q], tells'[q], OfMenu(m))
      BY <1>16, <1>19, <2>2
    <3>3. m \in DOMAIN open' => m \in DOMAIN open
      BY <1>19, <2>2
    <3>4. Opened(m)' <=> Opened(m)
      BY <1>19, <2>2
    <3>5. Clicked(m)' = Clicked(m) /\ tells' \in [MenuPages -> Seq(Message2)]
      BY <1>17, <1>19
    <3> QED
      BY <1>9, <3>1, <3>2, <3>3, <3>4, <3>5, PopupFrame
  <2> QED
    BY <2>1, <2>2
<1>21. MenuType'
  BY <1>2, <1>9, <1>11, <1>19 DEF MenuType
<1>22. \A q \in MenuPages: PageKnows(q)'
  BY <1>9, <1>12 DEF PopupsInv, PageKnows
<1>23. \A m \in DOMAIN open': m \notin crossed' => open'[m].page = popups'[m].page
  <2>1. \A m \in DOMAIN open: m \notin crossed => open[m].page = popups[m].page
    BY DEF PopupsInv
  <2> QED
    BY <1>7, <1>9, <1>19, <2>1
<1>24. /\ \A i \in 1 .. Len(ran'): ran'[i] \in clicks'
       /\ \A i, j \in 1 .. Len(ran'): ran'[i] = ran'[j] => i = j
       /\ \A c \in clicks': c[1] \in Popups'
  BY <1>9, <1>12 DEF PopupsInv
<1> QED
  BY <1>12, <1>13, <1>19, <1>20, <1>21, <1>22, <1>23, <1>24 DEF PopupsInv

\* An item is clicked: the message tells it to the page the menu is of.
LEMMA ClickItemInv ==
  ASSUME PopupsInv, NEW n \in DOMAIN open, NEW item \in DOMAIN popups[n].shape, ClickItem(n, item)
  PROVE  PopupsInv'
<1>1. MenuType /\ open = [m \in DOMAIN open |-> open[m]] /\ Len(popups) \in Nat
  BY DEF PopupsInv, MenuType
<1>2. \A m \in DOMAIN open: open[m] \in [page: MenuPages, clicked: BOOLEAN]
  BY <1>1 DEF MenuType
<1>3. n \in Popups /\ n \in Nat
  <2>1. n \in Popups
    BY DEF PopupsInv
  <2> QED
    BY <1>1, <2>1 DEF Popups
<1>4. ~open[n].clicked /\ open' = [open EXCEPT ![n].clicked = TRUE] /\ clicks' = clicks \cup {<<n, item>>}
      /\ Tell(open[n].page, n, item) /\ UNCHANGED <<activePage, pages, requests, popups, ran, closes, crossed>>
  BY DEF ClickItem
<1>5. OnceEach(n) /\ ClickOf(n) /\ CloseOf(n)
  BY <1>3 DEF PopupsInv
<1>6. Opened(n) /\ Under(n) /\ ~Asked(n) /\ ~Told(n) /\ Clicked(n) = {}
  BY <1>4, <1>5 DEF Opened, Under, OnceEach, ClickOf
<1>7. item \in Ids /\ item # "none"
  <2>1. popups[n] \in [page: MenuPages, shape: MenuShapes]
    <3>1. popups \in Seq([page: MenuPages, shape: MenuShapes]) /\ n \in 1 .. Len(popups)
      BY <1>1, <1>3 DEF MenuType, Popups
    <3>2. \A S: \A s \in Seq(S): \A i \in 1 .. Len(s): s[i] \in S
      OBVIOUS
    <3> QED
      BY <3>1, <3>2, Zenon
  <2>2. popups[n].shape \in MenuShapes
    BY <2>1
  <2> QED
    BY <2>2, ShapesAssumption DEF Ids
<1>8. open[n].page \in MenuPages
  BY <1>2
<1>9. /\ tells' \in [MenuPages -> Seq(Message2)]
      /\ \A q \in MenuPages: \A i \in 1 .. Len(tells'[q]): tells'[q][i].n \in Popups
      /\ \A q \in MenuPages: NoneAfter(tells'[q], OfMenu(n), OfMenu(n)) /\ (Occurs(tells'[q], OfMenu(n)) <=> q = open[n].page)
      /\ \A q \in MenuPages: \A i \in 1 .. Len(tells'[q]): tells'[q][i].n = n => tells'[q][i].id = item
      /\ \A m \in Popups: m # n => \A q \in MenuPages: SameBut(tells[q], tells'[q], OfMenu(m))
  <2>1. PICK q: q = open[n].page
    OBVIOUS
  <2>2. q \in MenuPages /\ Tell(q, n, item)
    BY <1>4, <1>8, <2>1
  <2> QED
    BY <1>3, <1>6, <1>7, <2>1, <2>2, ToldInv
<1>10. PICK o: o = [open[n] EXCEPT !.clicked = TRUE]
  OBVIOUS
<1>11. o \in [page: MenuPages, clicked: BOOLEAN] /\ o.page = open[n].page /\ o.clicked = TRUE
  BY <1>2, <1>10
<1>12. DOMAIN open' = DOMAIN open /\ open'[n] = o /\ (\A m \in DOMAIN open: m # n => open'[m] = open[m])
       /\ open' = [m \in DOMAIN open' |-> open'[m]]
  BY <1>1, <1>4, <1>10
<1>13. \A m \in DOMAIN open': open'[m] \in [page: MenuPages, clicked: BOOLEAN]
  BY <1>2, <1>11, <1>12
<1>14. ~Opened(n)' /\ \A m \in Popups: m # n => (Opened(m)' <=> Opened(m))
  BY <1>11, <1>12 DEF Opened
<1>15. Told(n)' /\ Under(n)' /\ ~Asked(n)'
  BY <1>4, <1>6, <1>8, <1>9 DEF Told, Under, Asked
<1>16. Clicked(n)' = {<<n, item>>} /\ \A m \in Popups: m # n => Clicked(m)' = Clicked(m)
  BY <1>4, <1>6 DEF Clicked
<1>17. OnceEach(n)'
  <2>1. \A q \in MenuPages: NoneAfter(requests'[q], {n}, {n}) /\ (Occurs(requests'[q], {n}) => q = popups'[n].page)
    BY <1>4, <1>5 DEF OnceEach
  <2> QED
    BY <1>9, <1>14, <1>15, <2>1 DEF OnceEach
<1>18. ClickOf(n)'
  BY <1>4, <1>7, <1>9, <1>14, <1>15, <1>16 DEF ClickOf
<1>19. CloseOf(n)'
  BY <1>4, <1>5, <1>6, <1>15, StillUnder
<1>20. Popups' = Popups
  BY <1>4 DEF Popups
<1>21. ASSUME NEW m \in Popups PROVE OnceEach(m)' /\ ClickOf(m)' /\ CloseOf(m)'
  <2>1. CASE m = n
    BY <1>17, <1>18, <1>19, <2>1
  <2>2. CASE m # n
    <3>1. OnceEach(m) /\ ClickOf(m) /\ CloseOf(m)
      BY DEF PopupsInv
    <3>2. \A q \in MenuPages: SameBut(requests[q], requests'[q], {m}) /\ SameBut(tells[q], tells'[q], OfMenu(m))
      BY <1>4, <1>9, <2>2, SameButItself
    <3>3. m \in DOMAIN open' => m \in DOMAIN open
      BY <1>12
    <3>4. (Opened(m)' <=> Opened(m)) /\ Clicked(m)' = Clicked(m) /\ tells' \in [MenuPages -> Seq(Message2)]
      BY <1>9, <1>14, <1>16, <2>2
    <3>5. popups'[m] = popups[m] /\ closes'[m] = closes[m] /\ crossed \subseteq crossed' /\ ran' = ran
      BY <1>4
    <3> QED
      BY <3>1, <3>2, <3>3, <3>4, <3>5, PopupFrame
  <2> QED
    BY <2>1, <2>2
<1>22. MenuType'
  <2>1. clicks' \subseteq Nat \X Ids
    BY <1>1, <1>3, <1>4, <1>7 DEF MenuType
  <2> QED
    BY <1>1, <1>4, <1>9, <1>12, <1>13, <2>1 DEF MenuType
<1>23. \A q \in MenuPages: PageKnows(q)'
  BY <1>4, <1>20 DEF PopupsInv, PageKnows
<1>24. \A m \in DOMAIN open': m \notin crossed' => open'[m].page = popups'[m].page
  <2>1. \A m \in DOMAIN open: m \notin crossed => open[m].page = popups[m].page
    BY DEF PopupsInv
  <2> QED
    BY <1>4, <1>11, <1>12, <2>1
<1>25. /\ \A i \in 1 .. Len(ran'): ran'[i] \in clicks'
       /\ \A i, j \in 1 .. Len(ran'): ran'[i] = ran'[j] => i = j
  BY <1>4 DEF PopupsInv
<1>26. \A c \in clicks': c[1] \in Popups'
  <2>1. \A c \in clicks: c[1] \in Popups
    BY DEF PopupsInv
  <2> QED
    BY <1>3, <1>4, <1>20, <2>1
<1>27. DOMAIN open' \subseteq Popups' /\ \A q \in MenuPages: \A i \in 1 .. Len(requests'[q]): requests'[q][i] \in Popups'
  BY <1>4, <1>12, <1>20 DEF PopupsInv
<1> QED
  BY <1>9, <1>20, <1>21, <1>22, <1>23, <1>24, <1>25, <1>26, <1>27 DEF PopupsInv

\* A menu closes: its end is told, unless a click was.
LEMMA MenuClosesInv ==
  ASSUME PopupsInv, NEW n \in DOMAIN open, MenuCloses(n)
  PROVE  PopupsInv'
<1>1. MenuType /\ Len(popups) \in Nat
  BY DEF PopupsInv, MenuType
<1>2. \A m \in DOMAIN open: open[m] \in [page: MenuPages, clicked: BOOLEAN]
  BY <1>1 DEF MenuType
<1>3. n \in Popups
  BY DEF PopupsInv
<1>4. open' = [m \in DOMAIN open \ {n} |-> open[m]] /\ UNCHANGED <<activePage, pages, requests, popups, clicks, ran, closes, crossed>>
  BY DEF MenuCloses
<1>5. OnceEach(n) /\ ClickOf(n) /\ CloseOf(n)
  BY <1>3 DEF PopupsInv
<1>6. ~Asked(n) /\ ~Asked(n)' /\ ~Opened(n)'
  BY <1>4, <1>5 DEF OnceEach, Asked, Opened
<1>7. DOMAIN open' = DOMAIN open \ {n} /\ (\A m \in DOMAIN open': open'[m] = open[m]) /\ open' = [m \in DOMAIN open' |-> open'[m]]
  BY <1>4
<1>8. \A m \in Popups: m # n => (Opened(m)' <=> Opened(m))
  BY <1>7 DEF Opened
<1>9. Popups' = Popups /\ \A m \in Popups: Clicked(m)' = Clicked(m)
  BY <1>4 DEF Popups, Clicked
<1>10. /\ tells' \in [MenuPages -> Seq(Message2)]
       /\ \A q \in MenuPages: \A i \in 1 .. Len(tells'[q]): tells'[q][i].n \in Popups
       /\ \A m \in Popups: m # n => \A q \in MenuPages: SameBut(tells[q], tells'[q], OfMenu(m))
       /\ OnceEach(n)' /\ ClickOf(n)' /\ CloseOf(n)'
  <2>1. CASE open[n].clicked
    <3>1. tells' = tells
      BY <2>1 DEF MenuCloses
    <3>2. tells' \in [MenuPages -> Seq(Message2)] /\ \A q \in MenuPages: \A i \in 1 .. Len(tells'[q]): tells'[q][i].n \in Popups
      BY <1>1, <3>1 DEF PopupsInv, MenuType
    <3>3. \A m \in Popups: \A q \in MenuPages: SameBut(tells[q], tells'[q], OfMenu(m))
      BY <3>1, SameButItself
    <3>4. Opened(n)' <=> Opened(n)
      BY <1>6, <2>1 DEF Opened
    <3>5. \A q \in MenuPages: SameBut(requests[q], requests'[q], {n}) /\ SameBut(tells[q], tells'[q], OfMenu(n))
      BY <1>3, <1>4, <3>3, SameButItself
    <3>6. popups'[n] = popups[n] /\ closes'[n] = closes[n] /\ crossed \subseteq crossed' /\ ran' = ran /\ Clicked(n)' = Clicked(n)
          /\ (n \in DOMAIN open' => n \in DOMAIN open)
      BY <1>3, <1>4, <1>9
    <3>7. OnceEach(n)' /\ ClickOf(n)' /\ CloseOf(n)'
      BY <1>5, <3>2, <3>4, <3>5, <3>6, PopupFrame
    <3> QED
      BY <3>2, <3>3, <3>7
  <2>2. CASE ~open[n].clicked
    <3>1. Opened(n) /\ Under(n) /\ ~Told(n) /\ Clicked(n) = {} /\ Clicked(n)' = {}
      BY <1>3, <1>5, <1>9, <2>2 DEF Opened, Under, OnceEach, ClickOf
    <3>2. "none" \in Ids /\ open[n].page \in MenuPages
      BY <1>2 DEF Ids
    <3>3. PICK q: q = open[n].page
      OBVIOUS
    <3>4. q \in MenuPages /\ Tell(q, n, "none")
      BY <2>2, <3>2, <3>3 DEF MenuCloses
    <3>5. /\ tells' \in [MenuPages -> Seq(Message2)]
          /\ \A p \in MenuPages: \A i \in 1 .. Len(tells'[p]): tells'[p][i].n \in Popups
          /\ \A p \in MenuPages: NoneAfter(tells'[p], OfMenu(n), OfMenu(n)) /\ (Occurs(tells'[p], OfMenu(n)) <=> p = q)
          /\ \A p \in MenuPages: \A i \in 1 .. Len(tells'[p]): tells'[p][i].n = n => tells'[p][i].id = "none"
          /\ \A m \in Popups: m # n => \A p \in MenuPages: SameBut(tells[p], tells'[p], OfMenu(m))
      BY <1>3, <3>1, <3>2, <3>4, ToldInv
    <3>6. Told(n)' /\ Under(n)'
      BY <3>4, <3>5 DEF Told, Under
    <3>7. OnceEach(n)'
      <4>1. \A p \in MenuPages: NoneAfter(requests'[p], {n}, {n}) /\ (Occurs(requests'[p], {n}) => p = popups'[n].page)
        BY <1>4, <1>5 DEF OnceEach
      <4> QED
        BY <1>6, <3>5, <3>6, <4>1 DEF OnceEach
    <3>8. ClickOf(n)'
      BY <1>6, <3>1, <3>5 DEF ClickOf
    <3>9. CloseOf(n)'
      BY <1>4, <1>5, <3>1, <3>6, StillUnder
    <3> QED
      BY <3>5, <3>7, <3>8, <3>9
  <2> QED
    BY <2>1, <2>2
<1>11. ASSUME NEW m \in Popups PROVE OnceEach(m)' /\ ClickOf(m)' /\ CloseOf(m)'
  <2>1. CASE m = n
    BY <1>10, <2>1
  <2>2. CASE m # n
    <3>1. OnceEach(m) /\ ClickOf(m) /\ CloseOf(m)
      BY DEF PopupsInv
    <3>2. \A q \in MenuPages: SameBut(requests[q], requests'[q], {m}) /\ SameBut(tells[q], tells'[q], OfMenu(m))
      BY <1>4, <1>10, <2>2, SameButItself
    <3>3. (m \in DOMAIN open' => m \in DOMAIN open) /\ (Opened(m)' <=> Opened(m)) /\ Clicked(m)' = Clicked(m)
          /\ tells' \in [MenuPages -> Seq(Message2)]
      BY <1>7, <1>8, <1>9, <1>10, <2>2
    <3>4. popups'[m] = popups[m] /\ closes'[m] = closes[m] /\ crossed \subseteq crossed' /\ ran' = ran
      BY <1>4
    <3> QED
      BY <3>1, <3>2, <3>3, <3>4, PopupFrame
  <2> QED
    BY <2>1, <2>2
<1>12. MenuType'
  <2>1. \A m \in DOMAIN open': open'[m] \in [page: MenuPages, clicked: BOOLEAN]
    BY <1>2, <1>7
  <2> QED
    BY <1>1, <1>4, <1>7, <1>10, <2>1 DEF MenuType
<1>13. \A q \in MenuPages: PageKnows(q)'
  BY <1>4, <1>9 DEF PopupsInv, PageKnows
<1>14. /\ \A m \in DOMAIN open': m \notin crossed' => open'[m].page = popups'[m].page
       /\ \A i \in 1 .. Len(ran'): ran'[i] \in clicks'
       /\ \A i, j \in 1 .. Len(ran'): ran'[i] = ran'[j] => i = j
       /\ \A c \in clicks': c[1] \in Popups'
       /\ DOMAIN open' \subseteq Popups'
       /\ \A q \in MenuPages: \A i \in 1 .. Len(requests'[q]): requests'[q][i] \in Popups'
  BY <1>4, <1>7, <1>9 DEF PopupsInv
<1> QED
  BY <1>9, <1>10, <1>11, <1>12, <1>13, <1>14 DEF PopupsInv

\* A page is told what a menu came to: it runs the click, and ends the menu it knows.
LEMMA HandleInv ==
  ASSUME PopupsInv, NEW p \in MenuPages, handleContextMenuClick(p)
  PROVE  PopupsInv'
<1>1. PICK told: told = Head(tells[p])
  OBVIOUS
<1>2. PICK o: o = pages[p].opts
  OBVIOUS
<1>3. PICK n, id: n = told.n /\ id = told.id
  OBVIOUS
<1>4. PICK found \in BOOLEAN: found <=> id # "none" /\ <<n, id>> \in pages[p].handlers
  OBVIOUS
<1>5. MenuType /\ Len(popups) \in Nat /\ tells \in [MenuPages -> Seq(Message2)] /\ tells[p] \in Seq(Message2)
      /\ pages \in [MenuPages -> [handlers: SUBSET (Nat \X Ids), opts: Nat]]
  <2>1. MenuType /\ tells \in [MenuPages -> Seq(Message2)] /\ pages \in [MenuPages -> [handlers: SUBSET (Nat \X Ids), opts: Nat]]
    BY DEF PopupsInv, MenuType
  <2> QED
    BY <2>1 DEF MenuType
<1>6. /\ tells[p] # <<>> /\ tells' = [tells EXCEPT ![p] = Tail(tells[p])]
      /\ pages' = [pages EXCEPT ![p] = [handlers |-> {}, opts |-> 0]]
      /\ ran' = IF found THEN Append(ran, <<n, id>>) ELSE ran
      /\ closes' = IF o = 0 THEN closes ELSE [closes EXCEPT ![o] = Append(closes[o], IF found THEN id ELSE "none")]
      /\ crossed' = crossed \cup (IF o # n THEN {o, n} ELSE {})
      /\ UNCHANGED <<activePage, requests, open, popups, clicks>>
  BY <1>1, <1>2, <1>3, <1>4 DEF handleContextMenuClick
<1>7. /\ told \in Message2 /\ tells[p][1] = told /\ Tail(tells[p]) \in Seq(Message2) /\ 1 \in 1 .. Len(tells[p])
      /\ \A i \in 1 .. Len(Tail(tells[p])): i + 1 \in 1 .. Len(tells[p]) /\ Tail(tells[p])[i] = tells[p][i + 1]
  BY <1>1, <1>5, <1>6, Shortened
<1>8. n \in Nat /\ id \in Ids /\ n \in Popups /\ told \in OfMenu(n)
  <2>1. n \in Nat /\ id \in Ids /\ told \in OfMenu(n)
    BY <1>3, <1>7 DEF Message2, OfMenu
  <2> QED
    BY <1>3, <1>7, <2>1 DEF PopupsInv
<1>9. OnceEach(n) /\ ClickOf(n) /\ CloseOf(n)
  BY <1>8 DEF PopupsInv
<1>10. Occurs(tells[p], OfMenu(n)) /\ Told(n) /\ Under(n) /\ ~Asked(n) /\ ~Opened(n)
  <2>1. Occurs(tells[p], OfMenu(n))
    BY <1>7, <1>8 DEF Occurs
  <2> QED
    BY <1>9, <2>1 DEF Told, Under, OnceEach
<1>11. Clicked(n) = IF id = "none" THEN {} ELSE {<<n, id>>}
  BY <1>3, <1>7, <1>9 DEF ClickOf
<1>12. \A i \in 1 .. Len(ran): ran[i][1] # n
  BY <1>9, <1>10 DEF CloseOf
<1>13. PageKnows(p)
  BY DEF PopupsInv
<1>14. o \in Nat /\ (o # 0 => o \in Popups /\ closes[o] = <<>> /\ popups[o].page = p /\ pages[p].handlers = Registered2(o, popups[o].shape))
       /\ (o = 0 => pages[p].handlers = {})
  <2>1. o \in Nat
    BY <1>2, <1>5
  <2> QED
    BY <1>2, <1>13, <2>1 DEF PageKnows
<1>15. found => o = n /\ o # 0 /\ id # "none" /\ id \in DOMAIN popups[n].shape /\ popups[n].shape[id] /\ <<n, id>> \in clicks
  <2>1. ASSUME found PROVE o = n /\ o # 0 /\ id # "none" /\ id \in DOMAIN popups[n].shape /\ popups[n].shape[id]
    <3>1. id # "none" /\ <<n, id>> \in pages[p].handlers
      BY <1>4, <2>1
    <3>2. o # 0
      BY <1>14, <3>1
    <3>3. <<n, id>> \in Registered2(o, popups[o].shape)
      BY <1>14, <3>1, <3>2
    <3> QED
      BY <3>1, <3>2, <3>3 DEF Registered2
  <2>2. id # "none" => <<n, id>> \in clicks
    <3>1. id # "none" => <<n, id>> \in Clicked(n)
      BY <1>11
    <3> QED
      BY <3>1 DEF Clicked
  <2> QED
    BY <2>1, <2>2
<1>16. crossed \subseteq crossed' /\ (o # n => o \in crossed' /\ n \in crossed')
  BY <1>6
<1>17. Popups' = Popups /\ \A m \in Popups: Clicked(m)' = Clicked(m)
  BY <1>6 DEF Popups, Clicked
<1>18. \A m \in Popups: (Asked(m)' <=> Asked(m)) /\ (Opened(m)' <=> Opened(m))
  BY <1>6 DEF Asked, Opened
<1>19. \A q \in MenuPages: tells'[q] = IF q = p THEN Tail(tells[p]) ELSE tells[q]
  BY <1>5, <1>6
<1>20. tells' \in [MenuPages -> Seq(Message2)]
  BY <1>5, <1>6, <1>7
<1>21. \A q \in MenuPages: \A i \in 1 .. Len(tells'[q]): tells'[q][i].n \in Popups'
  <2>1. \A q \in MenuPages: \A i \in 1 .. Len(tells[q]): tells[q][i].n \in Popups
    BY DEF PopupsInv
  <2> QED
    BY <1>7, <1>17, <1>19, <2>1
<1>22. \A q \in MenuPages: ~Occurs(tells'[q], OfMenu(n)) /\ NoneAfter(tells'[q], OfMenu(n), OfMenu(n))
  <2>1. NoneAfter(tells[p], OfMenu(n), OfMenu(n)) /\ Head(tells[p]) \in OfMenu(n)
    BY <1>1, <1>8, <1>9 DEF OnceEach
  <2>2. ~Occurs(Tail(tells[p]), OfMenu(n)) /\ NoneAfter(Tail(tells[p]), OfMenu(n), OfMenu(n))
    BY <1>5, <1>6, <2>1, TakenFromQueue
  <2>3. ASSUME NEW q \in MenuPages, q # p PROVE ~Occurs(tells[q], OfMenu(n)) /\ NoneAfter(tells[q], OfMenu(n), OfMenu(n))
    BY <1>9, <1>10, <2>3 DEF OnceEach
  <2> QED
    BY <1>19, <2>2, <2>3
<1>23. ~Told(n)' /\ ~Under(n)' /\ ~Asked(n)' /\ ~Opened(n)'
  BY <1>8, <1>10, <1>18, <1>22 DEF Told, Under
<1>24. ASSUME NEW m \in Popups, m # n
       PROVE  \A q \in MenuPages: SameBut(requests[q], requests'[q], {m}) /\ SameBut(tells[q], tells'[q], OfMenu(m))
  <2>1. Head(tells[p]) \notin OfMenu(m)
    BY <1>1, <1>3, <1>24 DEF OfMenu
  <2>2. SameBut(tells[p], Tail(tells[p]), OfMenu(m))
    BY <1>5, <1>6, <2>1, OthersTaken
  <2>3. \A q \in MenuPages: SameBut(requests[q], requests'[q], {m})
    BY <1>6, SameButItself
  <2>4. \A q \in MenuPages: SameBut(tells[q], tells'[q], OfMenu(m))
    BY <1>19, <2>2, SameButItself
  <2> QED
    BY <2>3, <2>4
<1>25. ran \in Seq(Nat \X Ids) /\ ran' \in Seq(Nat \X Ids) /\ Len(ran) \in Nat
       /\ (\A i \in 1 .. Len(ran): i \in 1 .. Len(ran') /\ ran'[i] = ran[i])
       /\ (\A i \in 1 .. Len(ran'): i \in 1 .. Len(ran) \/ (found /\ i = Len(ran) + 1 /\ ran'[i] = <<n, id>>))
       /\ (found => Len(ran) + 1 \in 1 .. Len(ran') /\ ran'[Len(ran) + 1] = <<n, id>>)
       /\ (~found => ran' = ran)
  <2>1. ran \in Seq(Nat \X Ids)
    BY <1>5 DEF MenuType
  <2>2. PICK c: c = <<n, id>>
    OBVIOUS
  <2>3. c \in Nat \X Ids
    BY <1>8, <2>2
  <2>4. CASE found
    <3>1. ran' = Append(ran, c)
      BY <1>6, <2>2, <2>4
    <3>2. /\ Append(ran, c) \in Seq(Nat \X Ids) /\ Len(ran) \in Nat /\ Len(Append(ran, c)) = Len(ran) + 1
          /\ Len(ran) + 1 \in 1 .. Len(Append(ran, c)) /\ Append(ran, c)[Len(ran) + 1] = c
          /\ \A i \in 1 .. Len(ran): i \in 1 .. Len(Append(ran, c)) /\ Append(ran, c)[i] = ran[i]
      BY <2>1, <2>3, Appended
    <3>3. \A i \in 1 .. Len(ran'): i \in 1 .. Len(ran) \/ i = Len(ran) + 1
      BY <3>1, <3>2
    <3> QED
      BY <2>1, <2>2, <2>4, <3>1, <3>2, <3>3
  <2>5. CASE ~found
    <3>1. ran' = ran
      BY <1>6, <2>5
    <3>2. Len(ran) \in Nat
      BY <2>1
    <3> QED
      BY <2>1, <2>5, <3>1, <3>2
  <2> QED
    BY <2>4, <2>5
<1>26. /\ \A i \in 1 .. Len(ran'): ran'[i] \in clicks'
       /\ \A i, j \in 1 .. Len(ran'): ran'[i] = ran'[j] => i = j
  <2>1. \A i \in 1 .. Len(ran): ran[i] \in clicks
    BY DEF PopupsInv
  <2>2. \A i, j \in 1 .. Len(ran): ran[i] = ran[j] => i = j
    BY DEF PopupsInv
  <2>3. clicks' = clicks /\ (found => <<n, id>> \in clicks)
    BY <1>6, <1>15
  <2>4. ASSUME NEW i \in 1 .. Len(ran') PROVE ran'[i] \in clicks'
    <3>1. CASE i \in 1 .. Len(ran)
      BY <1>25, <2>1, <2>3, <3>1
    <3>2. CASE found /\ ran'[i] = <<n, id>>
      BY <2>3, <3>2
    <3> QED
      BY <1>25, <3>1, <3>2
  <2>5. \A i \in 1 .. Len(ran): ran'[i] # <<n, id>>
    <3>1. <<n, id>>[1] = n
      OBVIOUS
    <3> QED
      BY <1>12, <1>25, <3>1
  <2>6. ASSUME NEW i \in 1 .. Len(ran'), NEW j \in 1 .. Len(ran'), ran'[i] = ran'[j] PROVE i = j
    <3>1. CASE i \in 1 .. Len(ran) /\ j \in 1 .. Len(ran)
      BY <1>25, <2>2, <2>6, <3>1
    <3>2. CASE i \notin 1 .. Len(ran)
      <4>1. i = Len(ran) + 1 /\ ran'[i] = <<n, id>>
        BY <1>25, <3>2
      <4>2. j \notin 1 .. Len(ran)
        BY <2>5, <2>6, <4>1
      <4> QED
        BY <1>25, <4>1, <4>2
    <3>3. CASE j \notin 1 .. Len(ran)
      <4>1. j = Len(ran) + 1 /\ ran'[j] = <<n, id>>
        BY <1>25, <3>3
      <4>2. i \notin 1 .. Len(ran)
        BY <2>5, <2>6, <4>1
      <4> QED
        BY <1>25, <4>1, <4>2
    <3> QED
      BY <3>1, <3>2, <3>3
  <2> QED
    BY <2>4, <2>6
<1>27. PICK x: x = IF found THEN id ELSE "none"
  OBVIOUS
<1>28. x \in Ids /\ (x # "none" <=> found) /\ (found => x = id)
  BY <1>8, <1>15, <1>27 DEF Ids
<1>29. closes' \in Seq(Seq(Ids)) /\ Len(closes') = Len(closes)
       /\ (\A m \in Popups: m # o => closes'[m] = closes[m])
       /\ (o # 0 => closes'[o] = <<x>>)
  <2>1. closes \in Seq(Seq(Ids)) /\ Len(closes) = Len(popups)
    BY <1>5 DEF MenuType
  <2>2. CASE o = 0
    BY <1>6, <2>1, <2>2
  <2>3. CASE o # 0
    <3>1. o \in 1 .. Len(closes) /\ closes[o] = <<>>
      BY <1>14, <2>1, <2>3 DEF Popups
    <3>2. Append(<<>>, x) = <<x>> /\ <<x>> \in Seq(Ids)
      BY <1>28
    <3>3. closes' = [closes EXCEPT ![o] = <<x>>]
      BY <1>6, <1>27, <2>3, <3>1, <3>2
    <3> QED
      BY <1>14, <2>1, <2>3, <3>1, <3>2, <3>3 DEF Popups
  <2> QED
    BY <2>2, <2>3
<1>30. OnceEach(n)'
  <2>1. \A q \in MenuPages: NoneAfter(requests'[q], {n}, {n}) /\ (Occurs(requests'[q], {n}) => q = popups'[n].page)
    BY <1>6, <1>9 DEF OnceEach
  <2> QED
    BY <1>22, <1>23, <2>1 DEF OnceEach
<1>31. ClickOf(n)'
  <2>1. \A q \in MenuPages: \A i \in 1 .. Len(tells'[q]): tells'[q][i].n # n
    <3>1. \A q \in MenuPages: \A i \in 1 .. Len(tells'[q]): tells'[q][i] \in Message2
      BY <1>20
    <3> QED
      BY <1>22, <3>1 DEF Occurs, OfMenu
  <2>2. \A c, d \in Clicked(n)': c = d
    BY <1>8, <1>9, <1>17 DEF ClickOf
  <2>3. \A c \in Clicked(n)': c[2] \in DOMAIN popups'[n].shape
    BY <1>6, <1>8, <1>9, <1>17 DEF ClickOf
  <2> QED
    BY <1>23, <2>1, <2>2, <2>3 DEF ClickOf
<1>32. CloseOf(n)'
  <2>1. CASE o = n
    <3>1. closes'[n] = <<x>> /\ n # 0 /\ Len(<<x>>) = 1 /\ <<x>># <<>> /\ <<x>>[1] = x
      <4>1. o # 0
        BY <1>5, <1>8, <2>1 DEF Popups
      <4> QED
        BY <1>29, <2>1, <4>1
    <3>2. x # "none" <=> \E c \in Clicked(n)': popups'[n].shape[c[2]]
      <4>1. popups' = popups /\ Clicked(n)' = Clicked(n)
        BY <1>6, <1>8, <1>17
      <4>2. pages[p].handlers = Registered2(n, popups[n].shape)
        BY <1>14, <2>1, <3>1
      <4>3. CASE id = "none"
        <5>1. Clicked(n) = {} /\ ~found
          BY <1>4, <1>11, <4>3
        <5> QED
          BY <1>28, <4>1, <5>1
      <4>4. CASE id # "none"
        <5>1. Clicked(n) = {<<n, id>>} /\ id \in DOMAIN popups[n].shape
          <6>1. Clicked(n) = {<<n, id>>}
            BY <1>11, <4>4
          <6> QED
            BY <1>9, <6>1 DEF ClickOf
        <5>2. found <=> popups[n].shape[id]
          BY <1>4, <4>2, <4>4, <5>1 DEF Registered2
        <5> QED
          BY <1>28, <4>1, <5>1, <5>2
      <4> QED
        BY <4>3, <4>4
    <3>3. x # "none" => \E i \in 1 .. Len(ran'): ran'[i] = <<n, x>>
      BY <1>25, <1>28
    <3> QED
      BY <1>23, <3>1, <3>2, <3>3 DEF CloseOf
  <2>2. CASE o # n
    <3>1. closes'[n] = closes[n] /\ n \in crossed'
      BY <1>8, <1>16, <1>29, <2>2
    <3> QED
      BY <1>9, <1>23, <3>1 DEF CloseOf
  <2> QED
    BY <2>1, <2>2
<1>33. ASSUME NEW m \in Popups PROVE OnceEach(m)' /\ ClickOf(m)' /\ CloseOf(m)'
  <2>1. CASE m = n
    BY <1>30, <1>31, <1>32, <2>1
  <2>2. CASE m # n
    <3>1. OnceEach(m) /\ ClickOf(m) /\ CloseOf(m)
      BY DEF PopupsInv
    <3>2. \A q \in MenuPages: SameBut(requests[q], requests'[q], {m}) /\ SameBut(tells[q], tells'[q], OfMenu(m))
      BY <1>24, <2>2
    <3>3. popups'[m] = popups[m] /\ Clicked(m)' = Clicked(m) /\ (m \in DOMAIN open' => m \in DOMAIN open) /\ (Opened(m)' <=> Opened(m))
      BY <1>6, <1>17, <1>18
    <3>4. CASE m = o
      <4>1. OnceEach(m)' /\ ClickOf(m)' /\ (Under(m)' <=> Under(m))
        BY <1>20, <3>1, <3>2, <3>3, UnderFrame
      <4>2. ran' = ran /\ m \in crossed' /\ m # 0
        <5>1. m # 0
          BY <1>5 DEF Popups
        <5> QED
          BY <1>15, <1>16, <1>25, <2>2, <3>4, <5>1
      <4>3. Len(closes'[m]) <= 1
        <5>1. closes'[m] = <<x>> /\ Len(<<x>>) = 1
          BY <1>29, <3>4, <4>2
        <5> QED
          BY <5>1
      <4>4. CloseOf(m)'
        BY <3>1, <4>1, <4>2, <4>3 DEF CloseOf
      <4> QED
        BY <4>1, <4>4
    <3>5. CASE m # o
      <4>1. closes'[m] = closes[m]
        BY <1>29, <3>5
      <4>2. \A i \in 1 .. Len(ran'): ran'[i][1] = m => \E j \in 1 .. Len(ran): ran'[i] = ran[j]
        <5>1. <<n, id>>[1] # m
          BY <2>2
        <5> QED
          BY <1>25, <5>1
      <4>3. \A j \in 1 .. Len(ran): \E i \in 1 .. Len(ran'): ran'[i] = ran[j]
        BY <1>25
      <4> QED
        BY <1>16, <1>20, <3>1, <3>2, <3>3, <4>1, <4>2, <4>3, PopupFrame
    <3> QED
      BY <3>4, <3>5
  <2> QED
    BY <2>1, <2>2
<1>34. pages' \in [MenuPages -> [handlers: SUBSET (Nat \X Ids), opts: Nat]] /\ pages'[p] = [handlers |-> {}, opts |-> 0]
       /\ \A q \in MenuPages: q # p => pages'[q] = pages[q]
  BY <1>5, <1>6
<1>35. MenuType'
  <2>1. ran' \in Seq(Nat \X Ids)
    BY <1>25
  <2>2. closes' \in Seq(Seq(Ids)) /\ Len(closes') = Len(popups')
    BY <1>5, <1>6, <1>29 DEF MenuType
  <2>3. /\ popups' \in Seq([page: MenuPages, shape: MenuShapes])
        /\ requests' \in [MenuPages -> Seq(Nat)]
        /\ open' = [m \in DOMAIN open' |-> open'[m]]
        /\ \A m \in DOMAIN open': open'[m] \in [page: MenuPages, clicked: BOOLEAN]
        /\ clicks' \subseteq Nat \X Ids /\ activePage' \in MenuPages \cup {0}
    BY <1>5, <1>6 DEF MenuType
  <2>4. pages' \in [MenuPages -> [handlers: SUBSET (Nat \X Ids), opts: Nat]]
    BY <1>34
  <2> QED
    BY <1>20, <2>1, <2>2, <2>3, <2>4 DEF MenuType
<1>36. \A q \in MenuPages: PageKnows(q)'
  <2>1. PageKnows(p)'
    BY <1>34 DEF PageKnows
  <2>2. ASSUME NEW q \in MenuPages, q # p PROVE PageKnows(q)'
    <3>1. PageKnows(q) /\ pages'[q] = pages[q]
      BY <1>34, <2>2 DEF PopupsInv
    <3>2. CASE pages[q].opts = 0
      BY <3>1, <3>2 DEF PageKnows
    <3>3. CASE pages[q].opts # 0
      <4>1. PICK m: m = pages[q].opts
        OBVIOUS
      <4>2. m # 0 /\ m \in Popups /\ closes[m] = <<>> /\ popups[m].page = q /\ pages[q].handlers = Registered2(m, popups[m].shape)
        BY <3>1, <3>3, <4>1 DEF PageKnows
      <4>3. m # o
        BY <1>14, <2>2, <4>2
      <4>4. m \in Popups' /\ closes'[m] = <<>> /\ popups'[m] = popups[m]
        BY <1>6, <1>17, <1>29, <4>2, <4>3
      <4> QED
        BY <3>1, <4>1, <4>2, <4>4 DEF PageKnows
    <3> QED
      BY <3>2, <3>3
  <2> QED
    BY <2>1, <2>2
<1>37. /\ \A m \in DOMAIN open': m \notin crossed' => open'[m].page = popups'[m].page
       /\ \A c \in clicks': c[1] \in Popups'
       /\ DOMAIN open' \subseteq Popups'
       /\ \A q \in MenuPages: \A i \in 1 .. Len(requests'[q]): requests'[q][i] \in Popups'
  BY <1>6, <1>16, <1>17 DEF PopupsInv
<1> QED
  BY <1>17, <1>21, <1>26, <1>33, <1>35, <1>36, <1>37 DEF PopupsInv

\* Nothing happens to the context menus.
LEMMA PopupsStutter ==
  ASSUME PopupsInv, UNCHANGED menuVars2, activePage' \in MenuPages \cup {0}
  PROVE  PopupsInv'
<1>1. UNCHANGED <<pages, requests, open, tells, popups, clicks, ran, closes, crossed>>
  BY DEF menuVars2
<1>2. Popups' = Popups /\ (\A n: Clicked(n)' = Clicked(n)) /\ (\A n: Asked(n)' <=> Asked(n)) /\ (\A n: Opened(n)' <=> Opened(n)) /\ (\A n: Told(n)' <=> Told(n))
  BY <1>1 DEF Popups, Clicked, Asked, Opened, Told
<1>3. \A n: Under(n)' <=> Under(n)
  BY <1>2 DEF Under
<1>4. \A n \in Popups: OnceEach(n)' /\ ClickOf(n)' /\ CloseOf(n)'
  <2>1. ASSUME NEW n \in Popups PROVE OnceEach(n)' /\ ClickOf(n)' /\ CloseOf(n)'
    <3>1. OnceEach(n) /\ ClickOf(n) /\ CloseOf(n)
      BY DEF PopupsInv
    <3>2. OnceEach(n)'
      BY <1>1, <1>2, <3>1 DEF OnceEach
    <3>3. ClickOf(n)'
      BY <1>1, <1>2, <3>1 DEF ClickOf
    <3>4. CloseOf(n)'
      BY <1>1, <1>2, <1>3, <3>1 DEF CloseOf
    <3> QED
      BY <3>2, <3>3, <3>4
  <2> QED
    BY <2>1
<1>5. MenuType'
  BY <1>1 DEF MenuType, PopupsInv
<1>6. \A p \in MenuPages: PageKnows(p)'
  BY <1>1, <1>2 DEF PopupsInv, PageKnows
<1> QED
  BY <1>1, <1>2, <1>4, <1>5, <1>6 DEF PopupsInv

LEMMA PopupsStepInv ==
  ASSUME PopupsInv, [AppMenuNext]_appMenuVars
  PROVE  PopupsInv'
<1>1. activePage \in MenuPages \cup {0}
  BY DEF PopupsInv, MenuType
<1>2. CASE ContextMenus
  <2>1. ASSUME NEW p \in MenuPages, ContextMenuShow(p) PROVE PopupsInv'
    BY <2>1, ContextMenuShowInv
  <2>2. ASSUME NEW p \in MenuPages, handleContextMenuClick(p) PROVE PopupsInv'
    BY <2>2, HandleInv
  <2>3. ASSUME NEW p \in MenuPages, NEW shape \in MenuShapes, showContextMenu(p, shape) PROVE PopupsInv'
    BY <2>3, ShowMenuInv
  <2>4. ASSUME NEW n \in DOMAIN open, MenuCloses(n) PROVE PopupsInv'
    BY <2>4, MenuClosesInv
  <2>5. ASSUME NEW n \in DOMAIN open, NEW item \in DOMAIN popups[n].shape, ClickItem(n, item) PROVE PopupsInv'
    BY <2>5, ClickItemInv
  <2>6. ASSUME NEW p \in MenuPages \cup {0}, ActivateTab(p) PROVE PopupsInv'
    <3>1. UNCHANGED menuVars2 /\ activePage' \in MenuPages \cup {0}
      BY <2>6 DEF ActivateTab
    <3> QED
      BY <3>1, PopupsStutter
  <2> QED
    BY <1>2, <2>1, <2>2, <2>3, <2>4, <2>5, <2>6 DEF ContextMenus
<1>3. CASE Building
  <2>1. UNCHANGED <<activePage, menuVars2>>
    BY <1>3 DEF Building, SpacesChange, ChangePublished, CreateWorkspace, PublishesUpdate, NamesWorkspace, SpacesEvent, WindowsEvent, WindowsChange, ConfigAnswers, ListRead, SetApplicationMenu
  <2> QED
    BY <1>1, <2>1, PopupsStutter
<1>4. CASE Zooming
  <2>1. UNCHANGED <<activePage, menuVars2>>
    BY <1>4 DEF Zooming, ClickZoom, updateZoomFactor, PageZoomLoads
  <2> QED
    BY <1>1, <2>1, PopupsStutter
<1>5. CASE UNCHANGED appMenuVars
  <2>1. UNCHANGED <<activePage, menuVars2>>
    BY <1>5 DEF appMenuVars
  <2> QED
    BY <1>1, <2>1, PopupsStutter
<1> QED
  BY <1>2, <1>3, <1>4, <1>5 DEF AppMenuNext

\* What became of the menus is what the property says.
LEMMA PopupsRun ==
  ASSUME PopupsInv
  PROVE  ClicksRun
<1>1. MenuType /\ ran \in Seq(Nat \X Ids) /\ closes \in Seq(Seq(Ids)) /\ Len(closes) = Len(popups) /\ popups \in Seq([page: MenuPages, shape: MenuShapes])
  BY DEF PopupsInv, MenuType
<1>2. DOMAIN ran = 1 .. Len(ran) /\ DOMAIN closes = Popups /\ DOMAIN popups = Popups
  BY <1>1 DEF Popups
<1>3. \A i, j \in DOMAIN ran: ran[i] \in clicks /\ (ran[i] = ran[j] => i = j)
  BY <1>2 DEF PopupsInv
<1>4. ASSUME NEW n \in DOMAIN closes
      PROVE  /\ Len(closes[n]) <= 1
             /\ closes[n] # <<>> /\ n \notin crossed =>
                   /\ closes[n][1] # "none" <=> \E c \in clicks : c[1] = n /\ popups[n].shape[c[2]]
                   /\ closes[n][1] # "none" => <<n, closes[n][1]>> \in Range(ran)
  <2>1. CloseOf(n)
    BY <1>2 DEF PopupsInv
  <2>2. Len(closes[n]) <= 1
    BY <2>1 DEF CloseOf
  <2>3. ASSUME closes[n] # <<>>, n \notin crossed
        PROVE  /\ closes[n][1] # "none" <=> \E c \in clicks : c[1] = n /\ popups[n].shape[c[2]]
               /\ closes[n][1] # "none" => <<n, closes[n][1]>> \in Range(ran)
    <3>1. /\ closes[n][1] # "none" <=> \E c \in Clicked(n): popups[n].shape[c[2]]
          /\ closes[n][1] # "none" => \E i \in 1 .. Len(ran): ran[i] = <<n, closes[n][1]>>
      BY <2>1, <2>3 DEF CloseOf
    <3>2. (\E c \in Clicked(n): popups[n].shape[c[2]]) <=> \E c \in clicks : c[1] = n /\ popups[n].shape[c[2]]
      BY DEF Clicked
    <3>3. \A i \in 1 .. Len(ran): ran[i] \in Range(ran)
      BY <1>2 DEF Range
    <3>4. closes[n][1] # "none" => <<n, closes[n][1]>> \in Range(ran)
      BY <3>1, <3>3
    <3> QED
      BY <3>1, <3>2, <3>4
  <2> QED
    BY <2>2, <2>3
<1>5. ASSUME open = <<>>, \A p \in MenuPages : requests[p] = <<>> /\ tells[p] = <<>>
      PROVE  \A n \in DOMAIN popups \ crossed : closes[n] # <<>>
  <2>1. ASSUME NEW n \in DOMAIN popups \ crossed PROVE closes[n] # <<>>
    <3>1. DOMAIN open = {} /\ \A p \in MenuPages: Len(requests[p]) = 0 /\ Len(tells[p]) = 0
      <4>1. DOMAIN open = 1 .. Len(open) /\ Len(open) = 0
        BY <1>5
      <4> QED
        BY <1>5, <4>1
    <3>2. ~Under(n)
      BY <3>1 DEF Under, Asked, Opened, Told, Occurs
    <3>3. CloseOf(n)
      BY <1>2, <2>1 DEF PopupsInv
    <3> QED
      BY <2>1, <3>2, <3>3 DEF CloseOf
  <2> QED
    BY <2>1
<1> QED
  BY <1>3, <1>4, <1>5 DEF ClicksRun

LEMMA BuildCurrent ==
  ASSUME BuildInv
  PROVE  MenuCurrent
<1>1. builds = <<>> => Len(builds) = 0
  OBVIOUS
<1>2. BuildType
  BY DEF BuildInv
<1> QED
  BY <1>1, <1>2 DEF BuildInv, BuildType, MenuCurrent

LEMMA ZoomInitInv ==
  ASSUME AppMenuInit
  PROVE  ZoomInv
<1>1. zoom = [factor |-> 10, told |-> [p \in MenuPages |-> <<>>], pages |-> [p \in MenuPages |-> 10]]
  BY DEF AppMenuInit
<1>2. [p \in MenuPages |-> <<>>] \in [MenuPages -> Seq(Int)] /\ [p \in MenuPages |-> 10] \in [MenuPages -> Int]
  <2>1. <<>> \in Seq(Int)
    OBVIOUS
  <2> QED
    BY <2>1
<1>3. 10 \in MinZoomLevel .. MaxZoomLevel
  BY DEF MinZoomLevel, MaxZoomLevel
<1>4. zoom \in [factor: MinZoomLevel .. MaxZoomLevel, told: [MenuPages -> Seq(Int)], pages: [MenuPages -> Int]]
  BY <1>1, <1>2, <1>3
<1>5. zoom.factor = 10 /\ \A p \in MenuPages: zoom.told[p] = <<>> /\ zoom.pages[p] = 10
  BY <1>1
<1> QED
  BY <1>4, <1>5 DEF ZoomInv

LEMMA ZoomHolds ==
  ASSUME ZoomInv
  PROVE  ZoomAgrees
<1>1. zoom.factor \in MinZoomLevel .. MaxZoomLevel
  BY DEF ZoomInv
<1>2. \A p \in MenuPages: zoom.told[p] = <<>> => zoom.pages[p] = zoom.factor
  BY DEF ZoomInv
<1> QED
  BY <1>1, <1>2 DEF ZoomAgrees


-----------------------------------------------------------------------------
(* AppMenus: whose an accelerator is *)

KeyNumber(k) ==
  IF k = "1" THEN 1 ELSE IF k = "2" THEN 2 ELSE IF k = "3" THEN 3 ELSE IF k = "4" THEN 4 ELSE IF k = "5" THEN 5
  ELSE IF k = "6" THEN 6 ELSE IF k = "7" THEN 7 ELSE IF k = "8" THEN 8 ELSE IF k = "9" THEN 9 ELSE 0
KeyLabel(k, shift, alt) ==
  IF k = "Q" THEN "quit" ELSE IF k = "H" THEN (IF alt THEN "hideOthers" ELSE "hide")
  ELSE IF k = "N" THEN (IF shift THEN "New Window" ELSE "New Window (hidden-1)") ELSE IF k = "T" THEN "New Window (hidden-2)"
  ELSE IF k = "Z" THEN (IF shift THEN "redo" ELSE "undo") ELSE IF k = "X" THEN "cut" ELSE IF k = "C" THEN "copy"
  ELSE IF k = "V" THEN (IF shift THEN "pasteAndMatchStyle" ELSE "paste") ELSE IF k = "A" THEN "selectAll"
  ELSE IF k = "R" THEN "Reload Tab" ELSE IF k = "I" THEN "Toggle DevTools" ELSE IF k = "0" THEN "Reset Zoom"
  ELSE IF k = "=" THEN (IF shift THEN "Zoom In (hidden)" ELSE "Zoom In")
  ELSE IF k = "-" THEN (IF shift THEN "Zoom Out (hidden)" ELSE "Zoom Out") ELSE "togglefullscreen"
\* The only item that may have an accelerator.
Owner(a) ==
  IF KeyNumber(a[2]) # 0 THEN <<"workspace", KeyNumber(a[2]), a>> ELSE <<KeyLabel(a[2], "Shift" \in a[1], "Alt" \in a[1]), a>>
Owned(item) == item[Len(item)] = None \/ item = Owner(item[Len(item)])

LEMMA OwnedItem ==
  ASSUME NEW label, NEW modifiers, NEW key, KeyNumber(key) = 0, label = KeyLabel(key, "Shift" \in modifiers, "Alt" \in modifiers)
  PROVE  Owned(<<label, Accel(modifiers, key)>>)
<1>1. PICK a: a = Accel(modifiers, key)
  OBVIOUS
<1>2. a[1] = modifiers /\ a[2] = key
  BY <1>1 DEF Accel
<1>3. Owner(a) = <<label, a>>
  BY <1>2 DEF Owner
<1>4. PICK item: item = <<label, a>>
  OBVIOUS
<1>5. Len(item) = 2 /\ item[2] = a
  BY <1>4
<1> QED
  BY <1>1, <1>3, <1>4, <1>5 DEF Owned
LEMMA OwnedNone ==
  ASSUME NEW label
  PROVE  Owned(<<label, None>>)
<1>1. PICK item: item = <<label, None>>
  OBVIOUS
<1>2. Len(item) = 2 /\ item[2] = None
  BY <1>1
<1> QED
  BY <1>1, <1>2 DEF Owned

LEMMA AppItems == \A item \in makeAppMenuItems: Owned(item)
<1>1. Owned(<<"About Dora Terminal", None>>)
  BY OwnedNone
<1>2. Owned(<<"Check for Updates", None>>)
  BY OwnedNone
<1>3. Owned(<<"quit", Accel({CommandOrControl}, "Q")>>)
  <2>1. KeyNumber("Q") = 0
    BY DEF KeyNumber
  <2>2. KeyLabel("Q", "Shift" \in {CommandOrControl}, "Alt" \in {CommandOrControl}) = "quit"
    BY DEF KeyLabel, CommandOrControl
  <2> QED
    BY <2>1, <2>2, OwnedItem
<1>4. Owned(<<"services", None>>)
  BY OwnedNone
<1>5. Owned(<<"hide", Accel({"Command"}, "H")>>)
  <2>1. KeyNumber("H") = 0
    BY DEF KeyNumber
  <2>2. KeyLabel("H", "Shift" \in {"Command"}, "Alt" \in {"Command"}) = "hide"
    BY DEF KeyLabel, CommandOrControl
  <2> QED
    BY <2>1, <2>2, OwnedItem
<1>6. Owned(<<"hideOthers", Accel({"Command", "Alt"}, "H")>>)
  <2>1. KeyNumber("H") = 0
    BY DEF KeyNumber
  <2>2. KeyLabel("H", "Shift" \in {"Command", "Alt"}, "Alt" \in {"Command", "Alt"}) = "hideOthers"
    BY DEF KeyLabel, CommandOrControl
  <2> QED
    BY <2>1, <2>2, OwnedItem
<1> QED
  BY <1>1, <1>2, <1>3, <1>4, <1>5, <1>6 DEF makeAppMenuItems

LEMMA FileItems == \A n: \A item \in makeFileMenu(n): Owned(item)
<1>1. Owned(<<"New Window", Accel({CommandOrControl, "Shift"}, "N")>>)
  <2>1. KeyNumber("N") = 0
    BY DEF KeyNumber
  <2>2. KeyLabel("N", "Shift" \in {CommandOrControl, "Shift"}, "Alt" \in {CommandOrControl, "Shift"}) = "New Window"
    BY DEF KeyLabel, CommandOrControl
  <2> QED
    BY <2>1, <2>2, OwnedItem
<1>2. Owned(<<"close", None>>)
  BY OwnedNone
<1>3. Owned(<<"New Window (hidden-1)", Accel({IF Darwin THEN "Command" ELSE "Alt"}, "N")>>)
  <2>1. KeyNumber("N") = 0
    BY DEF KeyNumber
  <2>2. KeyLabel("N", "Shift" \in {IF Darwin THEN "Command" ELSE "Alt"}, "Alt" \in {IF Darwin THEN "Command" ELSE "Alt"}) = "New Window (hidden-1)"
    BY DEF KeyLabel, CommandOrControl
  <2> QED
    BY <2>1, <2>2, OwnedItem
<1>4. Owned(<<"New Window (hidden-2)", Accel({IF Darwin THEN "Command" ELSE "Alt"}, "T")>>)
  <2>1. KeyNumber("T") = 0
    BY DEF KeyNumber
  <2>2. KeyLabel("T", "Shift" \in {IF Darwin THEN "Command" ELSE "Alt"}, "Alt" \in {IF Darwin THEN "Command" ELSE "Alt"}) = "New Window (hidden-2)"
    BY DEF KeyLabel, CommandOrControl
  <2> QED
    BY <2>1, <2>2, OwnedItem
<1> QED
  BY <1>1, <1>2, <1>3, <1>4 DEF makeFileMenu

LEMMA EditItems == \A item \in makeEditMenu: Owned(item)
<1>1. Owned(<<"undo", Accel({"Command"}, "Z")>>)
  <2>1. KeyNumber("Z") = 0
    BY DEF KeyNumber
  <2>2. KeyLabel("Z", "Shift" \in {"Command"}, "Alt" \in {"Command"}) = "undo"
    BY DEF KeyLabel, CommandOrControl
  <2> QED
    BY <2>1, <2>2, OwnedItem
<1>2. Owned(<<"undo", None>>)
  BY OwnedNone
<1>3. Owned(<<"redo", Accel({"Command", "Shift"}, "Z")>>)
  <2>1. KeyNumber("Z") = 0
    BY DEF KeyNumber
  <2>2. KeyLabel("Z", "Shift" \in {"Command", "Shift"}, "Alt" \in {"Command", "Shift"}) = "redo"
    BY DEF KeyLabel, CommandOrControl
  <2> QED
    BY <2>1, <2>2, OwnedItem
<1>4. Owned(<<"redo", None>>)
  BY OwnedNone
<1>5. Owned(<<"cut", Accel({"Command"}, "X")>>)
  <2>1. KeyNumber("X") = 0
    BY DEF KeyNumber
  <2>2. KeyLabel("X", "Shift" \in {"Command"}, "Alt" \in {"Command"}) = "cut"
    BY DEF KeyLabel, CommandOrControl
  <2> QED
    BY <2>1, <2>2, OwnedItem
<1>6. Owned(<<"cut", None>>)
  BY OwnedNone
<1>7. Owned(<<"copy", Accel({"Command"}, "C")>>)
  <2>1. KeyNumber("C") = 0
    BY DEF KeyNumber
  <2>2. KeyLabel("C", "Shift" \in {"Command"}, "Alt" \in {"Command"}) = "copy"
    BY DEF KeyLabel, CommandOrControl
  <2> QED
    BY <2>1, <2>2, OwnedItem
<1>8. Owned(<<"copy", None>>)
  BY OwnedNone
<1>9. Owned(<<"paste", Accel({IF Darwin THEN "Command" ELSE "Control"}, "V")>>)
  <2>1. KeyNumber("V") = 0
    BY DEF KeyNumber
  <2>2. KeyLabel("V", "Shift" \in {IF Darwin THEN "Command" ELSE "Control"}, "Alt" \in {IF Darwin THEN "Command" ELSE "Control"}) = "paste"
    BY DEF KeyLabel, CommandOrControl
  <2> QED
    BY <2>1, <2>2, OwnedItem
<1>10. Owned(<<"pasteAndMatchStyle", Accel({"Command", "Shift"}, "V")>>)
  <2>1. KeyNumber("V") = 0
    BY DEF KeyNumber
  <2>2. KeyLabel("V", "Shift" \in {"Command", "Shift"}, "Alt" \in {"Command", "Shift"}) = "pasteAndMatchStyle"
    BY DEF KeyLabel, CommandOrControl
  <2> QED
    BY <2>1, <2>2, OwnedItem
<1>11. Owned(<<"pasteAndMatchStyle", None>>)
  BY OwnedNone
<1>12. Owned(<<"delete", None>>)
  BY OwnedNone
<1>13. Owned(<<"selectAll", Accel({"Command"}, "A")>>)
  <2>1. KeyNumber("A") = 0
    BY DEF KeyNumber
  <2>2. KeyLabel("A", "Shift" \in {"Command"}, "Alt" \in {"Command"}) = "selectAll"
    BY DEF KeyLabel, CommandOrControl
  <2> QED
    BY <2>1, <2>2, OwnedItem
<1>14. Owned(<<"selectAll", None>>)
  BY OwnedNone
<1> QED
  BY <1>1, <1>2, <1>3, <1>4, <1>5, <1>6, <1>7, <1>8, <1>9, <1>10, <1>11, <1>12, <1>13, <1>14 DEF makeEditMenu, OnDarwin

LEMMA ViewItems == \A item \in makeViewMenu: Owned(item)
<1>1. Owned(<<"Reload Tab", Accel({CommandOrControl, "Shift"}, "R")>>)
  <2>1. KeyNumber("R") = 0
    BY DEF KeyNumber
  <2>2. KeyLabel("R", "Shift" \in {CommandOrControl, "Shift"}, "Alt" \in {CommandOrControl, "Shift"}) = "Reload Tab"
    BY DEF KeyLabel, CommandOrControl
  <2> QED
    BY <2>1, <2>2, OwnedItem
<1>2. Owned(<<"Relaunch All Windows", None>>)
  BY OwnedNone
<1>3. Owned(<<"Clear Tab Cache", None>>)
  BY OwnedNone
<1>4. Owned(<<"Toggle DevTools", Accel(IF Darwin THEN {"Alt", "Command"} ELSE {"Alt", "Shift"}, "I")>>)
  <2>1. KeyNumber("I") = 0
    BY DEF KeyNumber
  <2>2. KeyLabel("I", "Shift" \in (IF Darwin THEN {"Alt", "Command"} ELSE {"Alt", "Shift"}), "Alt" \in (IF Darwin THEN {"Alt", "Command"} ELSE {"Alt", "Shift"})) = "Toggle DevTools"
    BY DEF KeyLabel, CommandOrControl
  <2> QED
    BY <2>1, <2>2, OwnedItem
<1>5. Owned(<<"Reset Zoom", Accel({CommandOrControl}, "0")>>)
  <2>1. KeyNumber("0") = 0
    BY DEF KeyNumber
  <2>2. KeyLabel("0", "Shift" \in {CommandOrControl}, "Alt" \in {CommandOrControl}) = "Reset Zoom"
    BY DEF KeyLabel, CommandOrControl
  <2> QED
    BY <2>1, <2>2, OwnedItem
<1>6. Owned(<<"Zoom In", Accel({CommandOrControl}, "=")>>)
  <2>1. KeyNumber("=") = 0
    BY DEF KeyNumber
  <2>2. KeyLabel("=", "Shift" \in {CommandOrControl}, "Alt" \in {CommandOrControl}) = "Zoom In"
    BY DEF KeyLabel, CommandOrControl
  <2> QED
    BY <2>1, <2>2, OwnedItem
<1>7. Owned(<<"Zoom In (hidden)", Accel({CommandOrControl, "Shift"}, "=")>>)
  <2>1. KeyNumber("=") = 0
    BY DEF KeyNumber
  <2>2. KeyLabel("=", "Shift" \in {CommandOrControl, "Shift"}, "Alt" \in {CommandOrControl, "Shift"}) = "Zoom In (hidden)"
    BY DEF KeyLabel, CommandOrControl
  <2> QED
    BY <2>1, <2>2, OwnedItem
<1>8. Owned(<<"Zoom Out", Accel({CommandOrControl}, "-")>>)
  <2>1. KeyNumber("-") = 0
    BY DEF KeyNumber
  <2>2. KeyLabel("-", "Shift" \in {CommandOrControl}, "Alt" \in {CommandOrControl}) = "Zoom Out"
    BY DEF KeyLabel, CommandOrControl
  <2> QED
    BY <2>1, <2>2, OwnedItem
<1>9. Owned(<<"Zoom Out (hidden)", Accel({CommandOrControl, "Shift"}, "-")>>)
  <2>1. KeyNumber("-") = 0
    BY DEF KeyNumber
  <2>2. KeyLabel("-", "Shift" \in {CommandOrControl, "Shift"}, "Alt" \in {CommandOrControl, "Shift"}) = "Zoom Out (hidden)"
    BY DEF KeyLabel, CommandOrControl
  <2> QED
    BY <2>1, <2>2, OwnedItem
<1>10. Owned(<<"On", None>>)
  BY OwnedNone
<1>11. Owned(<<"Off", None>>)
  BY OwnedNone
<1>12. Owned(<<"togglefullscreen", Accel({"Control", "Command"}, "F")>>)
  <2>1. KeyNumber("F") = 0
    BY DEF KeyNumber
  <2>2. KeyLabel("F", "Shift" \in {"Control", "Command"}, "Alt" \in {"Control", "Command"}) = "togglefullscreen"
    BY DEF KeyLabel, CommandOrControl
  <2> QED
    BY <2>1, <2>2, OwnedItem
<1>13. Owned(<<"togglefullscreen", Accel({}, "F11")>>)
  <2>1. KeyNumber("F11") = 0
    BY DEF KeyNumber
  <2>2. KeyLabel("F11", "Shift" \in {}, "Alt" \in {}) = "togglefullscreen"
    BY DEF KeyLabel, CommandOrControl
  <2> QED
    BY <2>1, <2>2, OwnedItem
<1>14. Owned(<<"Toggle Widgets Bar", None>>)
  BY OwnedNone
<1> QED
  BY <1>1, <1>2, <1>3, <1>4, <1>5, <1>6, <1>7, <1>8, <1>9, <1>10, <1>11, <1>12, <1>13, <1>14 DEF makeViewMenu

LEMMA WorkspaceItems ==
  ASSUME NEW count \in Nat
  PROVE  \A item \in getWorkspaceMenu(count): Owned(item)
<1>1. \A i \in 1 .. 9: KeyNumber(Digits[i]) = i
  BY DEF KeyNumber, Digits
<1>2. ASSUME NEW i \in 1 .. 9, NEW modifiers PROVE Owned(<<"workspace", i, Accel(modifiers, Digits[i])>>)
  <2>1. PICK a: a = Accel(modifiers, Digits[i])
    OBVIOUS
  <2>2. a[2] = Digits[i]
    BY <2>1 DEF Accel
  <2>3. KeyNumber(a[2]) = i /\ i # 0
    BY <1>1, <2>2
  <2>4. Owner(a) = <<"workspace", i, a>>
    BY <2>3 DEF Owner
  <2>5. PICK item: item = <<"workspace", i, a>>
    OBVIOUS
  <2>6. Len(item) = 3 /\ item[3] = a
    BY <2>5
  <2> QED
    BY <2>1, <2>4, <2>5, <2>6 DEF Owned
<1>3. ASSUME NEW i PROVE Owned(<<"workspace", i, None>>)
  <2>1. PICK item: item = <<"workspace", i, None>>
    OBVIOUS
  <2>2. Len(item) = 3 /\ item[3] = None
    BY <2>1
  <2> QED
    BY <2>1, <2>2 DEF Owned
<1>4. ASSUME NEW i \in 1 .. count, NEW modifiers
      PROVE  Owned(<<"workspace", i, IF i > 9 THEN None ELSE Accel(modifiers, Digits[i])>>)
  <2>1. CASE i > 9
    BY <1>3, <2>1
  <2>2. CASE ~(i > 9)
    <3>1. i \in 1 .. 9
      BY <2>2
    <3> QED
      BY <1>2, <2>2, <3>1
  <2> QED
    BY <2>1, <2>2
<1>5. Owned(<<"Create Workspace", None>>)
  BY OwnedNone
<1> QED
  BY <1>4, <1>5 DEF getWorkspaceMenu

LEMMA AcceleratorsAlwaysApart ==
  ASSUME appMenu.count \in Nat
  PROVE  AcceleratorsApart
<1>2. Owned(<<"minimize", None>>) /\ Owned(<<"zoom", None>>) /\ Owned(<<"front", None>>)
  BY OwnedNone
<1>3. \A item \in getWorkspaceMenu(appMenu.count): Owned(item)
  BY WorkspaceItems
<1>4. \A item \in MenuItems(appMenu): Owned(item)
  BY <1>2, <1>3, AppItems, FileItems, EditItems, ViewItems DEF MenuItems
<1>5. ASSUME NEW i, NEW j, Owned(i), Owned(j), i # j, i[Len(i)] # None
      PROVE  i[Len(i)] # j[Len(j)]
  BY <1>5 DEF Owned
<1> QED
  BY <1>4, <1>5 DEF AcceleratorsApart

-----------------------------------------------------------------------------
(* AppMenus: the theorem *)

\* The application's menu lists the workspaces there are, but for new ones that were named
\* after the last event, and has the keys of a window only without one, unless a build came in
\* after the latest; no two of its items share a key; a
\* click in a context menu runs once and its end is told once; the pages go by the zoom
\* factor that is set: with any number of pages, menus, builds and changes.
THEOREM MenusAlwaysTell == AppMenuSpec => []MenusTell
<1>1. AppMenuInit => BuildInv /\ PopupsInv /\ ZoomInv
  BY BuildInitInv, PopupsInitInv, ZoomInitInv
<1>2. BuildInv /\ PopupsInv /\ ZoomInv /\ [AppMenuNext]_appMenuVars => (BuildInv /\ PopupsInv /\ ZoomInv)'
  BY BuildStepInv, PopupsStepInv, ZoomStepInv
<1>3. BuildInv /\ PopupsInv /\ ZoomInv => MenusTell
  <2>1. BuildInv => appMenu.count \in Nat
    BY DEF BuildInv, BuildType
  <2> QED
    BY <2>1, BuildCurrent, AcceleratorsAlwaysApart, PopupsRun, ZoomHolds DEF MenusTell
<1> QED
  BY <1>1, <1>2, <1>3, PTL DEF AppMenuSpec

-----------------------------------------------------------------------------
(* ElectronShell: what a step of the main process keeps of its windows *)

PlainSeq(s) == \E S: s \in Seq(S)
WinOk(w) == /\ {"id", "open", "deleteAllowed"} \subseteq DOMAIN w
            /\ w.open \in BOOLEAN /\ w.deleteAllowed \in BOOLEAN
ShellOk(e) ==
  /\ {"wins", "map", "cache", "relaunching"} \subseteq DOMAIN e
  /\ PlainSeq(e.wins)
  /\ \A o \in DOMAIN e.wins: WinOk(e.wins[o])
  /\ \A n \in DOMAIN e.map: e.map[n] \in DOMAIN e.wins
  /\ IsFiniteSet(DOMAIN e.cache)
\* A window keeps its number, stays closed and may still be deleted.
WinKept(w, x) ==
  /\ WinOk(x) /\ x.id = w.id
  /\ x.open => w.open
  /\ w.deleteAllowed => x.deleteAllowed
Keeps(e, f) ==
  /\ ShellOk(f) /\ DOMAIN e.wins \subseteq DOMAIN f.wins
  /\ \A o \in DOMAIN e.wins: WinKept(e.wins[o], f.wins[o])

\* A function on 1 .. n is a sequence.
LEMMA FunctionIsSeq ==
  ASSUME NEW f, NEW n \in Nat, f = [i \in 1 .. n |-> f[i]]
  PROVE  PlainSeq(f)
<1> DEFINE S == {f[i]: i \in 1 .. n}
<1>1. f \in [1 .. n -> S]
  OBVIOUS
<1>2. f \in Seq(S)
  BY <1>1
<1> QED
  BY <1>2 DEF PlainSeq

LEMMA SeqIsFunction ==
  ASSUME NEW s, PlainSeq(s)
  PROVE  Len(s) \in Nat /\ DOMAIN s = 1 .. Len(s) /\ s = [i \in 1 .. Len(s) |-> s[i]]
<1>1. PICK S: s \in Seq(S)
  BY DEF PlainSeq
<1> QED
  BY <1>1

LEMMA KeepsTrans ==
  ASSUME NEW e, NEW f, NEW g, Keeps(e, f), Keeps(f, g)
  PROVE  Keeps(e, g)
<1>1. ShellOk(g) /\ DOMAIN e.wins \subseteq DOMAIN g.wins
  BY DEF Keeps
<1>2. ASSUME NEW o \in DOMAIN e.wins PROVE WinKept(e.wins[o], g.wins[o])
  BY DEF Keeps, WinKept, WinOk
<1> QED
  BY <1>1, <1>2 DEF Keeps

LEMMA KeepsSame ==
  ASSUME NEW e, ShellOk(e)
  PROVE  Keeps(e, e)
BY DEF Keeps, WinKept, ShellOk

\* What has to be seen of a change that leaves the number of windows as it is.
LEMMA KeepsBy ==
  ASSUME NEW e, ShellOk(e), NEW f, {"wins", "map", "cache", "relaunching"} \subseteq DOMAIN f,
         f.wins = [o \in DOMAIN e.wins |-> f.wins[o]],
         \A o \in DOMAIN e.wins: WinKept(e.wins[o], f.wins[o]),
         \A n \in DOMAIN f.map: n \in DOMAIN e.map /\ f.map[n] = e.map[n],
         IsFiniteSet(DOMAIN f.cache)
  PROVE  Keeps(e, f)
<1>1. Len(e.wins) \in Nat /\ DOMAIN e.wins = 1 .. Len(e.wins)
  BY SeqIsFunction DEF ShellOk
<1>2. PlainSeq(f.wins)
  <2>1. f.wins = [o \in 1 .. Len(e.wins) |-> f.wins[o]]
    BY <1>1
  <2> QED
    BY <1>1, <2>1, FunctionIsSeq
<1>3. DOMAIN f.wins = DOMAIN e.wins
  OBVIOUS
<1>4. \A n \in DOMAIN f.map: f.map[n] \in DOMAIN f.wins
  BY <1>3 DEF ShellOk
<1>5. \A o \in DOMAIN f.wins: WinOk(f.wins[o])
  BY <1>3 DEF WinKept
<1>6. ShellOk(f)
  BY <1>2, <1>4, <1>5 DEF ShellOk
<1> QED
  BY <1>3, <1>6 DEF Keeps

\* One window changes.
LEMMA WindowChanged ==
  ASSUME NEW e, ShellOk(e), NEW o, NEW w, NEW f, DOMAIN f = DOMAIN e,
         f.wins = [e.wins EXCEPT ![o] = w], f.map = e.map, f.cache = e.cache,
         o \in DOMAIN e.wins => WinKept(e.wins[o], w)
  PROVE  Keeps(e, f)
<1>1. f.wins = [p \in DOMAIN e.wins |-> f.wins[p]]
  OBVIOUS
<1>2. ASSUME NEW p \in DOMAIN e.wins PROVE WinKept(e.wins[p], f.wins[p])
  <2>1. CASE p = o
    BY <2>1
  <2>2. CASE p # o
    <3>1. f.wins[p] = e.wins[p]
      BY <2>2
    <3> QED
      BY <3>1 DEF WinKept, ShellOk
  <2> QED
    BY <2>1, <2>2
<1>3. /\ {"wins", "map", "cache", "relaunching"} \subseteq DOMAIN f
      /\ \A n \in DOMAIN f.map: n \in DOMAIN e.map /\ f.map[n] = e.map[n]
      /\ IsFiniteSet(DOMAIN f.cache)
  BY DEF ShellOk
<1> QED
  BY <1>1, <1>2, <1>3, KeepsBy

\* No window changes.
LEMMA OtherChanged ==
  ASSUME NEW e, ShellOk(e), NEW f, DOMAIN f = DOMAIN e,
         f.wins = e.wins, f.map = e.map, IsFiniteSet(DOMAIN f.cache)
  PROVE  Keeps(e, f)
<1>1. PlainSeq(f.wins) /\ \A o \in DOMAIN f.wins: WinOk(f.wins[o])
  BY DEF ShellOk
<1>2. ShellOk(f)
  BY <1>1 DEF ShellOk
<1> QED
  BY <1>1, <1>2 DEF Keeps, WinKept

-----------------------------------------------------------------------------
(* ElectronShell: views and the queues of windows *)

\* Changes to a window's own state.
LEMMA WindowFields ==
  ASSUME NEW w, WinOk(w), NEW a, NEW b
  PROVE  /\ WinKept(w, [w EXCEPT !.queue = a, !.pc = b]) /\ WinKept(w, [w EXCEPT !.pc = b])
         /\ WinKept(w, [w EXCEPT !.queue = a]) /\ WinKept(w, [w EXCEPT !.pc = b, !.tab = a])
         /\ WinKept(w, [w EXCEPT !.active = a, !.loaded = b]) /\ WinKept(w, [w EXCEPT !.loaded = a])
         /\ WinKept(w, [w EXCEPT !.ws = a, !.loaded = b])
BY DEF WinKept, WinOk

LEMMA DestroyKeeps ==
  ASSUME NEW e, ShellOk(e), NEW vs
  PROVE  Keeps(e, DestroyAll(e, vs))
<1> DEFINE f == DestroyAll(e, vs)
<1>1. DOMAIN f = DOMAIN e /\ f.wins = e.wins /\ f.map = e.map
  BY DEF DestroyAll, ShellOk
<1>2. DOMAIN f.cache \subseteq DOMAIN e.cache
  BY DEF DestroyAll, ShellOk, WithoutAll
<1>3. IsFiniteSet(DOMAIN f.cache)
  BY <1>2, FS_Subset DEF ShellOk
<1> HIDE DEF f
<1>4. Keeps(e, f)
  BY <1>1, <1>3, OtherChanged
<1> QED
  BY <1>4 DEF f

LEMMA MarkKeeps ==
  ASSUME NEW e, ShellOk(e), NEW v, NEW field, NEW value
  PROVE  Keeps(e, Mark(e, v, field, value))
<1> DEFINE f == Mark(e, v, field, value)
<1>1. DOMAIN f = DOMAIN e /\ f.wins = e.wins /\ f.map = e.map /\ f.cache = e.cache
  BY DEF Mark, ShellOk
<1>2. IsFiniteSet(DOMAIN f.cache)
  BY <1>1 DEF ShellOk
<1> HIDE DEF f
<1>3. Keeps(e, f)
  BY <1>1, <1>2, OtherChanged
<1> QED
  BY <1>3 DEF f

LEMMA GotoKeeps ==
  ASSUME NEW e, ShellOk(e), NEW o, NEW pc
  PROVE  Keeps(e, Goto(e, o, pc))
<1> DEFINE f == Goto(e, o, pc)
           w == [e.wins[o] EXCEPT !.pc = pc]
<1>1. DOMAIN f = DOMAIN e /\ f.wins = [e.wins EXCEPT ![o] = w] /\ f.map = e.map /\ f.cache = e.cache
  BY DEF Goto, ShellOk
<1>2. o \in DOMAIN e.wins => WinKept(e.wins[o], w)
  BY WindowFields DEF ShellOk
<1> HIDE DEF f, w
<1>3. Keeps(e, f)
  BY <1>1, <1>2, WindowChanged
<1> QED
  BY <1>3 DEF f

\* An entry leaves the queue, whether the loop goes on or not.
LEMMA ShiftKeeps ==
  ASSUME NEW e, ShellOk(e), NEW o
  PROVE  Keeps(e, Shift(e, o)) /\ Keeps(e, Leave(e, o))
<1> DEFINE s == Shift(e, o)
           l == Leave(e, o)
           q == Tail(e.wins[o].queue)
           w == [e.wins[o] EXCEPT !.queue = q, !.pc = "take"]
           x == [e.wins[o] EXCEPT !.queue = q, !.pc = "idle"]
<1>1. /\ DOMAIN s = DOMAIN e /\ s.map = e.map /\ s.cache = e.cache
      /\ DOMAIN l = DOMAIN e /\ l.map = e.map /\ l.cache = e.cache
  BY DEF Shift, Leave, ShellOk
<1>2. s.wins = [e.wins EXCEPT ![o] = w]
  BY DEF Shift, ShellOk
<1>3. l.wins = [e.wins EXCEPT ![o] = x]
  BY DEF Leave, ShellOk
<1>4. o \in DOMAIN e.wins => WinKept(e.wins[o], w) /\ WinKept(e.wins[o], x)
  BY WindowFields DEF ShellOk
<1> HIDE DEF s, l, w, x
<1>5. Keeps(e, s)
  BY <1>1, <1>2, <1>4, WindowChanged
<1>6. Keeps(e, l)
  BY <1>1, <1>3, <1>4, WindowChanged
<1> QED
  BY <1>5, <1>6 DEF s, l

LEMMA QueueActionKeeps ==
  ASSUME NEW e, ShellOk(e), NEW o, NEW entry
  PROVE  Keeps(e, QueueAction(e, o, entry))
<1> DEFINE f == QueueAction(e, o, entry)
           q == e.wins[o].queue
           w == IF Len(q) >= 2 THEN [e.wins[o] EXCEPT !.queue = [q EXCEPT ![2] = entry]]
                ELSE [e.wins[o] EXCEPT !.queue = Append(q, entry),
                                       !.pc = IF q = <<>> THEN "take" ELSE @]
<1>1. DOMAIN f = DOMAIN e /\ f.map = e.map /\ f.cache = e.cache
  BY DEF QueueAction, ShellOk
<1>2. f.wins = [e.wins EXCEPT ![o] = w]
  BY DEF QueueAction, ShellOk
<1>3. o \in DOMAIN e.wins => WinKept(e.wins[o], w)
  BY WindowFields DEF ShellOk
<1> HIDE DEF f, w
<1>4. Keeps(e, f)
  BY <1>1, <1>2, <1>3, WindowChanged
<1> QED
  BY <1>4 DEF f

LEMMA SetViewKeeps ==
  ASSUME NEW e, ShellOk(e), NEW o, NEW v, NEW initialized
  PROVE  Keeps(e, setTabViewIntoWindow(e, o, v, initialized))
<1> DEFINE old == e.wins[o].active
           e0 == IF old = 0 THEN e ELSE Mark(e, old, "isActive", FALSE)
           l == With(e0.wins[o].loaded, e.views[v].tab, v)
           e1 == [e0 EXCEPT !.views[v].isActive = TRUE, !.wins[o].active = v,
                            !.wins[o].loaded = With(@, e.views[v].tab, v)]
           w == [e0.wins[o] EXCEPT !.active = v, !.loaded = l]
           told == Mark(e1, v, "told", e1.views[v].opts)
           f == setTabViewIntoWindow(e, o, v, initialized)
<1>1. f = IF old = v THEN Shift(e, o) ELSE IF initialized THEN Shift(told, o) ELSE Goto(e1, o, "init")
  BY DEF setTabViewIntoWindow
<1>2. Keeps(e, e0)
  BY MarkKeeps, KeepsSame
<1>3. Keeps(e0, e1)
  <2> HIDE DEF e0
  <2>1. ShellOk(e0)
    BY <1>2 DEF Keeps
  <2>2. /\ DOMAIN e1 = DOMAIN e0 /\ e1.wins = [e0.wins EXCEPT ![o] = w]
        /\ e1.map = e0.map /\ e1.cache = e0.cache
    BY <2>1 DEF ShellOk
  <2>3. o \in DOMAIN e0.wins => WinKept(e0.wins[o], w)
    BY <2>1, WindowFields DEF ShellOk
  <2> HIDE DEF e1, w
  <2> QED
    BY <2>1, <2>2, <2>3, WindowChanged
<1> HIDE DEF e0, e1, f, old
<1>4. Keeps(e, e1) /\ ShellOk(e1)
  BY <1>2, <1>3, KeepsTrans DEF Keeps
<1>5. Keeps(e1, told) /\ ShellOk(told)
  BY <1>4, MarkKeeps DEF Keeps
<1> HIDE DEF told
<1>6. Keeps(told, Shift(told, o)) /\ Keeps(e1, Goto(e1, o, "init")) /\ Keeps(e, Shift(e, o))
  BY <1>4, <1>5, ShiftKeeps, GotoKeeps
<1>7. Keeps(e, told)
  BY <1>4, <1>5, KeepsTrans
<1>8. Keeps(e, Shift(told, o)) /\ Keeps(e, Goto(e1, o, "init"))
  BY <1>4, <1>6, <1>7, KeepsTrans
<1>9. Keeps(e, f)
  BY <1>1, <1>6, <1>8
<1> QED
  BY <1>9 DEF f

LEMMA ObtainKeeps ==
  ASSUME NEW e, ShellOk(e), NEW o, NEW tab
  PROVE  Keeps(e, Obtain(e, o, tab))
<1> DEFINE w == [e.wins[o] EXCEPT !.pc = "config", !.tab = tab]
           f == [e EXCEPT !.wins[o].pc = "config", !.wins[o].tab = tab]
<1>1. DOMAIN f = DOMAIN e /\ f.wins = [e.wins EXCEPT ![o] = w] /\ f.map = e.map /\ f.cache = e.cache
  BY DEF ShellOk
<1>2. o \in DOMAIN e.wins => WinKept(e.wins[o], w)
  BY WindowFields DEF ShellOk
<1> HIDE DEF f, w
<1>3. Keeps(e, f)
  BY <1>1, <1>2, WindowChanged
<1>4. Keeps(e, setTabViewIntoWindow(e, o, e.cache[tab], TRUE))
  BY SetViewKeeps
<1> QED
  BY <1>3, <1>4 DEF Obtain, f

LEMMA RemoveViewKeeps ==
  ASSUME NEW e, ShellOk(e), NEW o, NEW tab
  PROVE  Keeps(e, removeTabView(e, o, tab))
<1> DEFINE l == Without(e.wins[o].loaded, tab)
           w == [e.wins[o] EXCEPT !.loaded = l]
           f == [e EXCEPT !.wins[o].loaded = Without(@, tab)]
           v == e.wins[o].loaded[tab]
<1>1. DOMAIN f = DOMAIN e /\ f.wins = [e.wins EXCEPT ![o] = w] /\ f.map = e.map /\ f.cache = e.cache
  BY DEF ShellOk
<1>2. o \in DOMAIN e.wins => WinKept(e.wins[o], w)
  BY WindowFields DEF ShellOk
<1> HIDE DEF f, w
<1>3. Keeps(e, f) /\ ShellOk(f)
  BY <1>1, <1>2, WindowChanged DEF Keeps
<1>4. Keeps(f, DestroyAll(f, {v}))
  BY <1>3, DestroyKeeps
<1>5. Keeps(e, Destroy(f, v)) /\ Keeps(e, e)
  BY <1>3, <1>4, KeepsTrans, KeepsSame DEF Destroy
<1>6. removeTabView(e, o, tab) = e \/ removeTabView(e, o, tab) = Destroy(f, v)
  BY DEF removeTabView, f
<1> QED
  BY <1>5, <1>6

LEMMA TryEvictKeeps ==
  ASSUME NEW e, ShellOk(e), NEW tab
  PROVE  Keeps(e, tryEvictEntry(e, tab))
<1> DEFINE v == e.cache[tab]
           w == e.views[v].win
<1>1. Keeps(e, Destroy(e, v))
  BY DestroyKeeps DEF Destroy
<1>2. Keeps(e, removeTabView(e, e.map[w], tab))
  BY RemoveViewKeeps
<1> QED
  BY <1>1, <1>2 DEF tryEvictEntry

\* EvictAll, a fold, as the function on sets of tabs that it defines.
One(s) == CHOOSE x \in s: TRUE
Evicts(g, e, D) ==
  g = [s \in D |-> IF s = {} THEN e ELSE tryEvictEntry(g[s \ {One(s)}], One(s))]
LEMMA EvictAllIs ==
  ASSUME NEW e, NEW tabs
  PROVE  EvictAll(e, tabs) = (CHOOSE g: Evicts(g, e, SUBSET tabs))[tabs]
BY Zenon DEF EvictAll, FoldSet, MapThenFoldSet, Evicts, One

\* The sets of n tabs or fewer.
UpToSize(tabs, n) == {s \in SUBSET tabs: Cardinality(s) <= n}
LEMMA OneLess ==
  ASSUME NEW tabs, IsFiniteSet(tabs), NEW n \in Nat, NEW s \in UpToSize(tabs, n + 1), s # {}
  PROVE  One(s) \in s /\ s \ {One(s)} \in UpToSize(tabs, n)
<1>1. One(s) \in s
  BY DEF One
<1>2. s \subseteq tabs /\ IsFiniteSet(s) /\ Cardinality(s) <= n + 1
  BY FS_Subset DEF UpToSize
<1>3. Cardinality(s) \in Nat /\ Cardinality(s \ {One(s)}) = Cardinality(s) - 1
  BY <1>1, <1>2, FS_CardinalityType, FS_RemoveElement
<1> QED
  BY <1>1, <1>2, <1>3 DEF UpToSize

LEMMA EvictsUpTo ==
  ASSUME NEW e, NEW tabs, IsFiniteSet(tabs), NEW n \in Nat
  PROVE  \E g: Evicts(g, e, UpToSize(tabs, n))
<1> DEFINE P == {k \in Nat: \E g: Evicts(g, e, UpToSize(tabs, k))}
<1>1. 0 \in P
  <2> DEFINE g == [s \in UpToSize(tabs, 0) |-> e]
  <2>1. ASSUME NEW s \in UpToSize(tabs, 0) PROVE s = {}
    <3>1. IsFiniteSet(s) /\ Cardinality(s) <= 0
      BY FS_Subset DEF UpToSize
    <3>2. Cardinality(s) = 0
      BY <3>1, FS_CardinalityType
    <3> QED
      BY <3>1, <3>2, FS_EmptySet
  <2>2. Evicts(g, e, UpToSize(tabs, 0))
    BY <2>1 DEF Evicts
  <2> QED
    BY <2>2
<1>2. ASSUME NEW k \in P PROVE k + 1 \in P
  <2>1. PICK g: Evicts(g, e, UpToSize(tabs, k))
    OBVIOUS
  <2> DEFINE U == UpToSize(tabs, k)
             V == UpToSize(tabs, k + 1)
             h == [s \in V |-> IF s = {} THEN e ELSE tryEvictEntry(g[s \ {One(s)}], One(s))]
  <2>2. U \subseteq V
    <3>1. ASSUME NEW s \in U PROVE s \in V
      <4>1. IsFiniteSet(s)
        BY FS_Subset DEF UpToSize
      <4>2. Cardinality(s) \in Nat
        BY <4>1, FS_CardinalityType
      <4> QED
        BY <4>2 DEF UpToSize
    <3> QED
      BY <3>1
  <2>3. \A s \in V: s # {} => s \ {One(s)} \in U
    BY OneLess
  <2>4. \A s \in U: g[s] = IF s = {} THEN e ELSE tryEvictEntry(g[s \ {One(s)}], One(s))
    BY <2>1 DEF Evicts
  <2> HIDE DEF U, V
  <2>5. \A s \in U: h[s] = g[s]
    BY <2>2, <2>4
  <2>6. \A s \in V: s # {} => h[s \ {One(s)}] = g[s \ {One(s)}]
    BY <2>3, <2>5
  <2>7. h = [s \in V |-> IF s = {} THEN e ELSE tryEvictEntry(h[s \ {One(s)}], One(s))]
    <3> DEFINE j == [s \in V |-> IF s = {} THEN e ELSE tryEvictEntry(h[s \ {One(s)}], One(s))]
    <3>1. ASSUME NEW s \in V PROVE h[s] = j[s]
      <4>1. CASE s = {}
        BY <4>1
      <4>2. CASE s # {}
        <5>1. h[s \ {One(s)}] = g[s \ {One(s)}]
          BY <2>6, <4>2
        <5>2. h[s] = tryEvictEntry(g[s \ {One(s)}], One(s))
          BY <4>2
        <5>3. j[s] = tryEvictEntry(h[s \ {One(s)}], One(s))
          BY <4>2
        <5> HIDE DEF h, j
        <5> QED
          BY <5>1, <5>2, <5>3
      <4> QED
        BY <4>1, <4>2
    <3>2. h = [s \in V |-> h[s]] /\ j = [s \in V |-> j[s]]
      OBVIOUS
    <3> HIDE DEF h, j
    <3>3. h = j
      BY <3>1, <3>2
    <3> QED
      BY <3>3 DEF j
  <2>8. Evicts(h, e, V)
    BY <2>7 DEF Evicts
  <2> QED
    BY <2>8 DEF V
<1> HIDE DEF P
<1>3. P \in SUBSET Nat
  BY DEF P
<1>4. P = Nat
  BY <1>1, <1>2, <1>3, InductionBySet
<1> QED
  BY <1>4 DEF P

LEMMA EvictAllKeeps ==
  ASSUME NEW e, ShellOk(e), NEW tabs, IsFiniteSet(tabs)
  PROVE  Keeps(e, EvictAll(e, tabs))
<1> DEFINE n == Cardinality(tabs)
<1>1. n \in Nat
  BY FS_CardinalityType
<1>2. UpToSize(tabs, n) = SUBSET tabs
  BY FS_Subset DEF UpToSize
<1>3. \E g: Evicts(g, e, SUBSET tabs)
  <2>1. \E g: Evicts(g, e, UpToSize(tabs, n))
    BY <1>1, EvictsUpTo
  <2> QED
    BY <1>2, <2>1
<1>4. PICK g: Evicts(g, e, SUBSET tabs) /\ EvictAll(e, tabs) = g[tabs]
  BY <1>3, EvictAllIs
<1>5. \A s \in SUBSET tabs: g[s] = IF s = {} THEN e ELSE tryEvictEntry(g[s \ {One(s)}], One(s))
  BY <1>4 DEF Evicts
<1> DEFINE P == {k \in Nat: \A s \in UpToSize(tabs, k): Keeps(e, g[s])}
<1>6. 0 \in P
  <2>1. ASSUME NEW s \in UpToSize(tabs, 0) PROVE Keeps(e, g[s])
    <3>1. IsFiniteSet(s) /\ Cardinality(s) <= 0
      BY FS_Subset DEF UpToSize
    <3>2. Cardinality(s) = 0
      BY <3>1, FS_CardinalityType
    <3>3. s = {} /\ s \in SUBSET tabs
      BY <3>1, <3>2, FS_EmptySet
    <3>4. g[s] = e
      BY <1>5, <3>3
    <3> QED
      BY <3>4, KeepsSame
  <2> QED
    BY <2>1
<1>7. ASSUME NEW k \in P PROVE k + 1 \in P
  <2>1. ASSUME NEW s \in UpToSize(tabs, k + 1) PROVE Keeps(e, g[s])
    <3>0. s \in SUBSET tabs
      BY DEF UpToSize
    <3>1. CASE s = {}
      <4>1. g[s] = e
        BY <1>5, <3>0, <3>1
      <4> QED
        BY <4>1, KeepsSame
    <3>2. CASE s # {}
      <4>1. s \ {One(s)} \in UpToSize(tabs, k)
        BY <3>2, OneLess
      <4>2. PICK f: f = g[s \ {One(s)}]
        OBVIOUS
      <4>3. Keeps(e, f)
        BY <4>1, <4>2
      <4>4. ShellOk(f)
        BY <4>3 DEF Keeps
      <4>5. Keeps(f, tryEvictEntry(f, One(s)))
        BY <4>4, TryEvictKeeps
      <4>6. g[s] = tryEvictEntry(f, One(s))
        BY <1>5, <3>0, <3>2, <4>2
      <4> QED
        BY <4>3, <4>5, <4>6, KeepsTrans
    <3> QED
      BY <3>1, <3>2
  <2> QED
    BY <2>1
<1> HIDE DEF P
<1>8. P \in SUBSET Nat
  BY DEF P
<1>9. n \in P
  BY <1>1, <1>6, <1>7, <1>8, InductionBySet
<1>10. tabs \in UpToSize(tabs, n)
  BY <1>2
<1> QED
  BY <1>4, <1>9, <1>10 DEF P

LEMMA EvictKeeps ==
  ASSUME NEW e, ShellOk(e), NEW made
  PROVE  /\ \A f \in checkAndEvictCache(e, made): Keeps(e, f)
         /\ \A f \in clearTabCache(e): Keeps(e, f)
<1>1. ASSUME NEW T \in SUBSET Evictable(e) PROVE Keeps(e, EvictAll(e, T))
  <2>1. IsFiniteSet(T)
    BY FS_Subset DEF Evictable, ShellOk
  <2> QED
    BY <2>1, EvictAllKeeps
<1>2. \A f \in clearTabCache(e): \E T \in SUBSET Evictable(e): f = EvictAll(e, T)
  BY DEF clearTabCache
<1>3. \A f \in checkAndEvictCache(e, made): \E T \in SUBSET Evictable(e): f = EvictAll(e, T)
  BY DEF checkAndEvictCache
<1> QED
  BY <1>1, <1>2, <1>3

LEMMA GetSpareKeeps ==
  ASSUME NEW e, ShellOk(e), NEW tab, NEW win
  PROVE  \A f \in getSpareTab(e, tab, win): Keeps(e, f)
<1> DEFINE t == TakeSpare(e, tab, win)
<1>1. DOMAIN t = DOMAIN e /\ t.wins = e.wins /\ t.map = e.map
  BY DEF TakeSpare, ShellOk
<1>2. DOMAIN t.cache = DOMAIN e.cache \cup {tab}
  BY DEF TakeSpare, ShellOk, With
<1>3. IsFiniteSet(DOMAIN t.cache)
  BY <1>2, FS_AddElement DEF ShellOk
<1> HIDE DEF t
<1>4. Keeps(e, t) /\ ShellOk(t)
  BY <1>1, <1>3, OtherChanged DEF Keeps
<1>5. \A f \in checkAndEvictCache(t, tab): Keeps(t, f)
  BY <1>4, EvictKeeps
<1>6. \A f \in checkAndEvictCache(t, tab): Keeps(e, f)
  BY <1>4, <1>5, KeepsTrans
<1> QED
  BY <1>6 DEF getSpareTab, t

\* What the pages and the timers do.
LEMMA PagesKeep ==
  ASSUME NEW e, ShellOk(e), NEW v
  PROVE  /\ Keeps(e, PageReady(e, v)) /\ Keeps(e, PageDoraReady(e, v)) /\ Keeps(e, PageReloads(e, v))
         /\ Keeps(e, ContentsDestroyed(e, v)) /\ Keeps(e, ensureHotSpareTab(e))
<1>1. Keeps(e, PageDoraReady(e, v)) /\ Keeps(e, PageReloads(e, v))
  BY MarkKeeps DEF PageDoraReady, PageReloads
<1>2. Keeps(e, PageReady(e, v))
  <2> DEFINE f == PageReady(e, v)
  <2>1. DOMAIN f = DOMAIN e /\ f.wins = e.wins /\ f.map = e.map /\ f.cache = e.cache
    BY DEF PageReady, ShellOk
  <2>2. IsFiniteSet(DOMAIN f.cache)
    BY <2>1 DEF ShellOk
  <2> HIDE DEF f
  <2>3. Keeps(e, f)
    BY <2>1, <2>2, OtherChanged
  <2> QED
    BY <2>3 DEF f
<1>3. Keeps(e, ContentsDestroyed(e, v))
  <2> DEFINE f == ContentsDestroyed(e, v)
  <2>1. DOMAIN f = DOMAIN e /\ f.wins = e.wins /\ f.map = e.map
    BY DEF ContentsDestroyed, ShellOk
  <2>2. DOMAIN f.cache \subseteq DOMAIN e.cache
    BY DEF ContentsDestroyed, ShellOk, Without, WithoutAll
  <2>3. IsFiniteSet(DOMAIN f.cache)
    BY <2>2, FS_Subset DEF ShellOk
  <2> HIDE DEF f
  <2>4. Keeps(e, f)
    BY <2>1, <2>3, OtherChanged
  <2> QED
    BY <2>4 DEF f
<1>4. Keeps(e, ensureHotSpareTab(e))
  <2> DEFINE f == ensureHotSpareTab(e)
  <2>1. DOMAIN f = DOMAIN e /\ f.wins = e.wins /\ f.map = e.map /\ f.cache = e.cache
    BY DEF ensureHotSpareTab, ShellOk
  <2>2. IsFiniteSet(DOMAIN f.cache)
    BY <2>1 DEF ShellOk
  <2> HIDE DEF f
  <2>3. Keeps(e, f)
    BY <2>1, <2>2, OtherChanged
  <2> QED
    BY <2>3 DEF f
<1> QED
  BY <1>1, <1>2, <1>3, <1>4

-----------------------------------------------------------------------------
(* ElectronShell: windows open and close *)

LEMMA ClosedKeeps ==
  ASSUME NEW e, ShellOk(e), NEW os
  PROVE  /\ Keeps(e, ClosedAll(e, os))
         /\ \A o \in os \cap DOMAIN e.wins: ~ClosedAll(e, os).wins[o].open
<1> DEFINE ws == [o \in DOMAIN e.wins |-> IF o \in os THEN Changed(e.wins[o], "open", FALSE) ELSE e.wins[o]]
           e1 == [e EXCEPT !.wins = [o \in DOMAIN @ |-> IF o \in os THEN Changed(@[o], "open", FALSE) ELSE @[o]]]
           m == WithoutAll(e1.map, {e.wins[o].id: o \in os})
           e2 == [e1 EXCEPT !.map = WithoutAll(@, {e.wins[o].id: o \in os})]
           vs == UNION {Range(e.wins[o].loaded): o \in os}
           f == ClosedAll(e, os)
<1>1. \A o \in DOMAIN e.wins: WinKept(e.wins[o], ws[o]) /\ (o \in os => ~ws[o].open)
  <2>1. ASSUME NEW o \in DOMAIN e.wins PROVE WinKept(e.wins[o], ws[o]) /\ (o \in os => ~ws[o].open)
    <3>1. PICK w: w = e.wins[o]
      OBVIOUS
    <3>2. WinOk(w) /\ WinKept(w, w)
      BY <3>1 DEF ShellOk, WinKept
    <3>3. PICK x: x = Changed(w, "open", FALSE)
      OBVIOUS
    <3>4. WinKept(w, x) /\ ~x.open
      BY <3>2, <3>3 DEF Changed, WinKept, WinOk
    <3>5. ws[o] = IF o \in os THEN x ELSE w
      BY <3>1, <3>3
    <3> QED
      BY <3>1, <3>2, <3>4, <3>5
  <2> QED
    BY <2>1
<1>2. /\ DOMAIN e1 = DOMAIN e /\ e1.wins = ws /\ e1.map = e.map /\ e1.cache = e.cache
      /\ DOMAIN e2 = DOMAIN e /\ e2.wins = ws /\ e2.map = m /\ e2.cache = e.cache
  BY DEF ShellOk
<1>3. \A n \in DOMAIN m: n \in DOMAIN e.map /\ m[n] = e.map[n]
  BY <1>2 DEF WithoutAll
<1>4. ws = [o \in DOMAIN e.wins |-> ws[o]]
  OBVIOUS
<1>5. f = IF e.quitting \/ e.installing THEN e1 ELSE removeAllChildViews(e2, os)
  <2>1. removeAllChildViews([e1 EXCEPT !.map = WithoutAll(@, {e.wins[o].id: o \in os})], os) = removeAllChildViews(e2, os)
    OBVIOUS
  <2> QED
    BY DEF ClosedAll
<1> DEFINE vs2 == UNION {Range(e2.wins[o].loaded): o \in os}
           f2 == DestroyAll(e2, vs2)
<1>6. f = e1 \/ f = f2
  BY <1>5 DEF removeAllChildViews
<1> HIDE DEF ws, e1, e2, f, m, vs2, f2
<1>7. {"wins", "map", "cache", "relaunching"} \subseteq DOMAIN e1 /\ {"wins", "map", "cache", "relaunching"} \subseteq DOMAIN e2
  BY <1>2 DEF ShellOk
<1>8. IsFiniteSet(DOMAIN e1.cache) /\ IsFiniteSet(DOMAIN e2.cache)
  BY <1>2 DEF ShellOk
<1>9. Keeps(e, e1)
  <2>1. e1.wins = [o \in DOMAIN e.wins |-> e1.wins[o]] /\ \A o \in DOMAIN e.wins: WinKept(e.wins[o], e1.wins[o])
    BY <1>1, <1>2, <1>4
  <2>2. \A n \in DOMAIN e1.map: n \in DOMAIN e.map /\ e1.map[n] = e.map[n]
    BY <1>2
  <2> QED
    BY <1>7, <1>8, <2>1, <2>2, KeepsBy
<1>10. Keeps(e, e2) /\ ShellOk(e2)
  <2>1. e2.wins = [o \in DOMAIN e.wins |-> e2.wins[o]] /\ \A o \in DOMAIN e.wins: WinKept(e.wins[o], e2.wins[o])
    BY <1>1, <1>2, <1>4
  <2>2. \A n \in DOMAIN e2.map: n \in DOMAIN e.map /\ e2.map[n] = e.map[n]
    BY <1>2, <1>3
  <2> QED
    BY <1>7, <1>8, <2>1, <2>2, KeepsBy DEF Keeps
<1>11. Keeps(e2, f2)
  BY <1>10, DestroyKeeps DEF f2
<1>12. Keeps(e, f)
  BY <1>6, <1>9, <1>10, <1>11, KeepsTrans
<1>13. f.wins = ws
  <2>1. f2.wins = e2.wins
    BY <1>10 DEF f2, DestroyAll, ShellOk
  <2> QED
    BY <1>2, <1>6, <2>1
<1>14. \A o \in os \cap DOMAIN e.wins: ~f.wins[o].open
  BY <1>1, <1>13
<1> QED
  BY <1>12, <1>14 DEF f

\* A job that is to delete a window in the backend does so for one that was closed for
\* good, and one that closes or deletes knows a window.
JobOk(e, x) ==
  /\ x.kind = "delete" =>
       \E o \in DOMAIN e.wins: e.wins[o].id = x.n /\ ~e.wins[o].open /\ e.wins[o].deleteAllowed
  /\ x.kind \in {"close", "deletews"} => x.o \in DOMAIN e.wins
JobsOk(e, js) == \E S: js \in Seq(S) /\ \A x \in S: JobOk(e, x)

LEMMA JobsKeep ==
  ASSUME NEW e, NEW f, Keeps(e, f), NEW js, JobsOk(e, js)
  PROVE  JobsOk(f, js)
<1>1. PICK S: js \in Seq(S) /\ \A x \in S: JobOk(e, x)
  BY DEF JobsOk
<1>2. ASSUME NEW x \in S PROVE JobOk(f, x)
  <2>1. JobOk(e, x)
    BY <1>1
  <2>2. \A o \in DOMAIN e.wins:
          /\ o \in DOMAIN f.wins /\ f.wins[o].id = e.wins[o].id
          /\ ~e.wins[o].open => ~f.wins[o].open
          /\ e.wins[o].deleteAllowed => f.wins[o].deleteAllowed
    BY DEF Keeps, WinKept
  <2> QED
    BY <2>1, <2>2 DEF JobOk
<1> QED
  BY <1>1, <1>2 DEF JobsOk

LEMMA JobsOf ==
  ASSUME NEW e, NEW js, JobsOk(e, js)
  PROVE  /\ \A i \in DOMAIN js: JobOk(e, js[i]) /\ JobsOk(e, RemoveAt(js, i))
         /\ \A x: JobOk(e, x) => JobsOk(e, Append(js, x)) /\ \A i \in DOMAIN js: JobsOk(e, [js EXCEPT ![i] = x])
         /\ \A ks: JobsOk(e, ks) => JobsOk(e, js \o ks)
<1>1. PICK S: js \in Seq(S) /\ \A x \in S: JobOk(e, x)
  BY DEF JobsOk
<1>2. DOMAIN js = 1 .. Len(js) /\ \A i \in DOMAIN js: js[i] \in S
  BY <1>1
<1>3. ASSUME NEW i \in DOMAIN js PROVE JobsOk(e, RemoveAt(js, i))
  <2>1. RemoveAt(js, i) \in Seq(S)
    BY <1>1, <1>2, RemoveAtFacts
  <2> QED
    BY <1>1, <2>1 DEF JobsOk
<1>4. ASSUME NEW x, JobOk(e, x)
      PROVE JobsOk(e, Append(js, x)) /\ \A i \in DOMAIN js: JobsOk(e, [js EXCEPT ![i] = x])
  <2> DEFINE T == S \cup {x}
  <2>1. js \in Seq(T) /\ \A y \in T: JobOk(e, y)
    BY <1>1, <1>4
  <2>2. x \in T
    OBVIOUS
  <2> HIDE DEF T
  <2>3. Append(js, x) \in Seq(T)
    BY <2>1, <2>2
  <2>4. ASSUME NEW i \in DOMAIN js PROVE [js EXCEPT ![i] = x] \in Seq(T)
    BY <2>1, <2>2
  <2> QED
    BY <2>1, <2>3, <2>4 DEF JobsOk
<1>5. ASSUME NEW ks, JobsOk(e, ks) PROVE JobsOk(e, js \o ks)
  <2>1. PICK T: ks \in Seq(T) /\ \A x \in T: JobOk(e, x)
    BY <1>5 DEF JobsOk
  <2>2. PICK U: U = S \cup T
    OBVIOUS
  <2>3. js \in Seq(U) /\ ks \in Seq(U) /\ \A x \in U: JobOk(e, x)
    BY <1>1, <2>1, <2>2
  <2>4. js \o ks \in Seq(U)
    BY <2>3
  <2> QED
    BY <2>3, <2>4 DEF JobsOk
<1> QED
  BY <1>1, <1>2, <1>3, <1>4, <1>5

LEMMA FewJobs ==
  ASSUME NEW e
  PROVE  JobsOk(e, <<>>) /\ \A x: JobOk(e, x) => JobsOk(e, <<x>>)
<1>1. JobsOk(e, <<>>)
  <2>1. PICK S: S = {}
    OBVIOUS
  <2>2. <<>> \in Seq(S) /\ \A x \in S: JobOk(e, x)
    BY <2>1
  <2> QED
    BY <2>2 DEF JobsOk
<1>2. ASSUME NEW x, JobOk(e, x) PROVE JobsOk(e, <<x>>)
  <2>1. PICK S: S = {x}
    OBVIOUS
  <2>2. x \in S /\ \A y \in S: JobOk(e, y)
    BY <1>2, <2>1
  <2>3. <<x>> \in Seq(S)
    BY <2>2
  <2> QED
    BY <2>2, <2>3 DEF JobsOk
<1> QED
  BY <1>1, <1>2

\* The jobs that a window leaves when it is closed.
LEMMA DeletionOk ==
  ASSUME NEW e, ShellOk(e), NEW o \in DOMAIN e.wins
  PROVE  Keeps(e, Closed(e, o)) /\ JobsOk(Closed(e, o), Deletion(e, o))
<1>1. PICK f: f = Closed(e, o)
  OBVIOUS
<1>2. Keeps(e, f) /\ ~f.wins[o].open
  BY <1>1, ClosedKeeps DEF Closed
<1>3. CASE Deletion(e, o) = <<>>
  BY <1>1, <1>2, <1>3, FewJobs
<1>4. CASE Deletion(e, o) # <<>>
  <2>1. PICK x: x = [kind |-> "delete", n |-> e.wins[o].id, o |-> 0]
    OBVIOUS
  <2>2. e.wins[o].deleteAllowed /\ Deletion(e, o) = <<x>>
    BY <1>4, <2>1 DEF Deletion
  <2>3. o \in DOMAIN f.wins /\ f.wins[o].id = e.wins[o].id /\ f.wins[o].deleteAllowed
    BY <1>2, <2>2 DEF Keeps, WinKept
  <2>4. JobOk(f, x)
    BY <1>2, <2>1, <2>3 DEF JobOk
  <2> QED
    BY <1>1, <1>2, <2>2, <2>4, FewJobs
<1> QED
  BY <1>3, <1>4

LEMMA CloseOk ==
  ASSUME NEW e, ShellOk(e), NEW o \in DOMAIN e.wins
  PROVE  Keeps(e, closeWindow(e, o)) /\ JobsOk(closeWindow(e, o), closeJobs(e, o))
<1>1. Keeps(e, e) /\ JobsOk(e, <<>>)
  BY KeepsSame, FewJobs
<1>2. PICK x: x = [kind |-> "close", n |-> Cardinality(DOMAIN e.map), o |-> o]
  OBVIOUS
<1>3. JobsOk(e, <<x>>)
  <2>1. JobOk(e, x)
    BY <1>2 DEF JobOk
  <2> QED
    BY <2>1, FewJobs
<1>4. Keeps(e, Closed(e, o)) /\ JobsOk(Closed(e, o), Deletion(e, o))
  BY DeletionOk
<1>5. CASE ~e.wins[o].open
  BY <1>1, <1>5 DEF closeWindow, closeJobs
<1>6. CASE e.wins[o].open /\ AsksFirst(e, o)
  BY <1>1, <1>2, <1>3, <1>6 DEF closeWindow, closeJobs
<1>7. CASE e.wins[o].open /\ ~AsksFirst(e, o)
  BY <1>4, <1>7 DEF closeWindow, closeJobs
<1> QED
  BY <1>5, <1>6, <1>7

LEMMA DestroyWindowOk ==
  ASSUME NEW e, ShellOk(e), NEW o \in DOMAIN e.wins
  PROVE  Keeps(e, destroyWindow(e, o)) /\ JobsOk(destroyWindow(e, o), destroyJobs(e, o))
<1> DEFINE a == Allowed(e, o)
           w == [e.wins[o] EXCEPT !.deleteAllowed = TRUE]
<1>1. DOMAIN a = DOMAIN e /\ a.wins = [e.wins EXCEPT ![o] = w] /\ a.map = e.map /\ a.cache = e.cache
  BY DEF Allowed, ShellOk
<1>2. WinKept(e.wins[o], w)
  BY DEF ShellOk, WinKept, WinOk
<1> HIDE DEF a, w
<1>3. Keeps(e, a) /\ ShellOk(a) /\ o \in DOMAIN a.wins
  BY <1>1, <1>2, WindowChanged DEF Keeps
<1>4. Keeps(a, Closed(a, o)) /\ JobsOk(Closed(a, o), Deletion(a, o))
  BY <1>3, DeletionOk
<1>5. Keeps(e, Closed(a, o)) /\ Keeps(e, e) /\ JobsOk(e, <<>>)
  BY <1>3, <1>4, KeepsTrans, KeepsSame, FewJobs
<1> QED
  BY <1>4, <1>5 DEF destroyWindow, destroyJobs, a

\* A relaunch asks nobody and deletes no window.
LEMMA RelaunchOk ==
  ASSUME NEW e, ShellOk(e), NEW os
  PROVE  LET f == [e EXCEPT !.relaunching = TRUE]
         IN  Keeps(e, CloseAll(f, os)) /\ CloseAllJobs(f, os) = <<>>
<1> DEFINE f == [e EXCEPT !.relaunching = TRUE]
           cs == {o \in os: f.wins[o].open /\ ~AsksFirst(f, o)}
<1>1. DOMAIN f = DOMAIN e /\ f.wins = e.wins /\ f.map = e.map /\ f.cache = e.cache /\ f.relaunching
  BY DEF ShellOk
<1>2. IsFiniteSet(DOMAIN f.cache)
  BY <1>1 DEF ShellOk
<1> HIDE DEF f
<1>3. Keeps(e, f) /\ ShellOk(f)
  BY <1>1, <1>2, OtherChanged DEF Keeps
<1>4. Keeps(f, ClosedAll(f, cs))
  BY <1>3, ClosedKeeps
<1>5. Keeps(e, CloseAll(f, os))
  BY <1>3, <1>4, KeepsTrans DEF CloseAll
<1>6. \A o \in os: closeJobs(f, o) = <<>>
  BY <1>1 DEF closeJobs, AsksFirst, Deletion
<1>7. UNION {ToSet(closeJobs(f, o)): o \in os} = {}
  <2>1. ToSet(<<>>) = {}
    BY DEF ToSet
  <2> QED
    BY <1>6, <2>1
<1>8. SetToSeq({}) = <<>>
  <2>1. Cardinality({}) = 0 /\ 1 .. 0 = {}
    BY FS_EmptySet
  <2>2. IsInjective(<<>>)
    BY DEF IsInjective
  <2>3. <<>> \in [1 .. 0 -> {}] /\ \A h \in [1 .. 0 -> {}]: h = <<>>
    BY <2>1
  <2> QED
    BY <2>1, <2>2, <2>3 DEF SetToSeq
<1>9. CloseAllJobs(f, os) = <<>>
  BY <1>7, <1>8 DEF CloseAllJobs
<1> QED
  BY <1>5, <1>9 DEF f

LEMMA ConstructedKeeps ==
  ASSUME NEW e, ShellOk(e), NEW b, NEW n
  PROVE  Keeps(e, Constructed(e, b, n))
<1> DEFINE o == Len(e.wins) + 1
           x == NewWindow(n, b.win[n])
           f == [e EXCEPT !.wins = Append(@, x), !.map = With(@, n, o)]
<1>1. Len(e.wins) \in Nat /\ DOMAIN e.wins = 1 .. Len(e.wins)
  BY SeqIsFunction DEF ShellOk
<1>2. PICK S: e.wins \in Seq(S)
  BY DEF ShellOk, PlainSeq
<1>3. WinOk(x)
  BY DEF NewWindow, WinOk
<1>4. f.wins = Append(e.wins, x) /\ f.map = With(e.map, n, o) /\ f.cache = e.cache /\ DOMAIN f = DOMAIN e
  BY DEF ShellOk
<1> HIDE DEF x, f
<1>5. PICK T: T = S \cup {x}
  OBVIOUS
<1>6. e.wins \in Seq(T) /\ x \in T
  BY <1>2, <1>5
<1>7. /\ f.wins \in Seq(T) /\ Len(f.wins) = o /\ f.wins[o] = x
      /\ \A p \in 1 .. Len(e.wins): f.wins[p] = e.wins[p]
  BY <1>4, <1>6, Appended
<1>8. DOMAIN f.wins = 1 .. o
  BY <1>7
<1>9. \A p \in DOMAIN f.wins: p = o \/ p \in DOMAIN e.wins
  BY <1>1, <1>8
<1>10. o \in DOMAIN f.wins /\ DOMAIN e.wins \subseteq DOMAIN f.wins
  BY <1>1, <1>8
<1>11. \A p \in DOMAIN f.wins: WinOk(f.wins[p])
  BY <1>1, <1>3, <1>7, <1>9 DEF ShellOk
<1>12. \A m \in DOMAIN f.map: f.map[m] \in DOMAIN f.wins
  <2>1. ASSUME NEW m \in DOMAIN f.map PROVE f.map[m] \in DOMAIN f.wins
    <3>1. m \in DOMAIN With(e.map, n, o) /\ f.map[m] = With(e.map, n, o)[m]
      BY <1>4
    <3>2. f.map[m] = o \/ (m \in DOMAIN e.map /\ f.map[m] = e.map[m])
      BY <3>1 DEF With
    <3> QED
      BY <1>10, <3>2 DEF ShellOk
  <2> QED
    BY <2>1
<1>13. ShellOk(f)
  BY <1>4, <1>7, <1>11, <1>12 DEF ShellOk, PlainSeq
<1>14. Keeps(e, f)
  BY <1>1, <1>7, <1>10, <1>11, <1>13 DEF Keeps, WinKept
<1>15. \A t: Keeps(f, QueueAction(f, o, Entry("switchtab", t, FALSE)))
  BY <1>13, QueueActionKeeps
<1>16. \A t: Keeps(e, QueueAction(f, o, Entry("switchtab", t, FALSE)))
  BY <1>14, <1>15, KeepsTrans
<1> QED
  BY <1>14, <1>16 DEF Constructed, f, x

-----------------------------------------------------------------------------
(* ElectronShell: the windows that the backend knows *)

BackOk(b) ==
  /\ {"ws", "win", "nwin"} \subseteq DOMAIN b
  /\ b.nwin \in Nat /\ DOMAIN b.win \subseteq Nat
  /\ \A ws \in DOMAIN b.ws: "tabs" \in DOMAIN b.ws[ws] /\ PlainSeq(b.ws[ws].tabs)
SameWindows(b, c) == BackOk(c) /\ c.win = b.win
\* Of the windows, those of N may go.
OnlyGo(b, c, N) == BackOk(c) /\ \A n \in DOMAIN b.win \ DOMAIN c.win: n \in N

LEMMA SeqChanges ==
  ASSUME NEW s, PlainSeq(s), NEW x
  PROVE  PlainSeq(Append(s, x)) /\ \A i \in DOMAIN s: PlainSeq(RemoveAt(s, i)) /\ (RemoveAt(s, i) = <<>> => Len(s) = 1)
<1>1. PICK S: s \in Seq(S)
  BY DEF PlainSeq
<1>2. DOMAIN s = 1 .. Len(s) /\ Len(s) \in Nat
  BY <1>1
<1>3. PlainSeq(Append(s, x))
  <2>1. PICK T: T = S \cup {x}
    OBVIOUS
  <2>2. s \in Seq(T) /\ x \in T
    BY <1>1, <2>1
  <2>3. Append(s, x) \in Seq(T)
    BY <2>2
  <2> QED
    BY <2>3 DEF PlainSeq
<1>4. ASSUME NEW i \in DOMAIN s PROVE PlainSeq(RemoveAt(s, i)) /\ (RemoveAt(s, i) = <<>> => Len(s) = 1)
  <2>1. PICK r: r = RemoveAt(s, i)
    OBVIOUS
  <2>0. i \in 1 .. Len(s)
    BY <1>2
  <2>2. /\ r \in Seq(S)
        /\ \A k \in 1 .. Len(s): k # i => \E j \in 1 .. Len(r): r[j] = s[k]
    <3>1. /\ RemoveAt(s, i) \in Seq(S)
          /\ \A k \in 1 .. Len(s): k # i => \E j \in 1 .. Len(RemoveAt(s, i)): RemoveAt(s, i)[j] = s[k]
      BY <1>1, <2>0, RemoveAtFacts
    <3> QED
      BY <2>1, <3>1
  <2>3. ASSUME r = <<>> PROVE Len(s) = 1
    <3>1. Len(r) = 0
      BY <2>3
    <3>2. \A k \in 1 .. Len(s): k = i
      BY <2>2, <3>1
    <3>3. 1 \in 1 .. Len(s) /\ Len(s) \in 1 .. Len(s)
      BY <1>2, <2>0
    <3> QED
      BY <3>2, <3>3
  <2> QED
    BY <2>1, <2>2, <2>3 DEF PlainSeq
<1> QED
  BY <1>3, <1>4

\* A workspace's tabs change.
LEMMA TabsChanged ==
  ASSUME NEW b, BackOk(b), NEW c, DOMAIN c = DOMAIN b, c.win = b.win, c.nwin = b.nwin,
         NEW ws, NEW x, c.ws = [b.ws EXCEPT ![ws] = x],
         ws \in DOMAIN b.ws => "tabs" \in DOMAIN x /\ PlainSeq(x.tabs)
  PROVE  SameWindows(b, c)
<1>1. ASSUME NEW w \in DOMAIN c.ws PROVE "tabs" \in DOMAIN c.ws[w] /\ PlainSeq(c.ws[w].tabs)
  <2>1. w \in DOMAIN b.ws /\ (w = ws => c.ws[w] = x) /\ (w # ws => c.ws[w] = b.ws[w])
    OBVIOUS
  <2> QED
    BY <2>1 DEF BackOk
<1> QED
  BY <1>1 DEF BackOk, SameWindows

LEMMA NewTabOk ==
  ASSUME NEW b, BackOk(b), NEW ws
  PROVE  SameWindows(b, NewTab(b, ws))
<1> DEFINE t == b.tab + 1
           x == [tabs |-> Append(b.ws[ws].tabs, t), active |-> t]
           c == NewTab(b, ws)
<1>1. DOMAIN c = DOMAIN b /\ c.win = b.win /\ c.nwin = b.nwin /\ c.ws = [b.ws EXCEPT ![ws] = x]
  BY DEF NewTab, BackOk
<1>2. ws \in DOMAIN b.ws => "tabs" \in DOMAIN x /\ PlainSeq(x.tabs)
  BY SeqChanges DEF BackOk
<1> HIDE DEF c, x
<1>3. SameWindows(b, c)
  BY <1>1, <1>2, TabsChanged
<1> QED
  BY <1>3 DEF c

LEMMA NewWorkspaceOk ==
  ASSUME NEW b, BackOk(b)
  PROVE  SameWindows(b, NewWorkspace(b))
<1> DEFINE w == b.nws + 1
           x == [tabs |-> <<>>, active |-> 0]
           c == [b EXCEPT !.nws = w, !.ws = With(@, w, x)]
<1>1. c.win = b.win /\ c.nwin = b.nwin /\ c.ws = With(b.ws, w, x) /\ DOMAIN c = DOMAIN b
  BY DEF BackOk
<1>2. "tabs" \in DOMAIN x /\ PlainSeq(x.tabs)
  <2>1. <<>> \in Seq({})
    OBVIOUS
  <2> QED
    BY <2>1 DEF PlainSeq
<1> HIDE DEF c, x
<1>3. ASSUME NEW v \in DOMAIN c.ws PROVE "tabs" \in DOMAIN c.ws[v] /\ PlainSeq(c.ws[v].tabs)
  <2>1. v \in DOMAIN With(b.ws, w, x) /\ c.ws[v] = With(b.ws, w, x)[v]
    BY <1>1
  <2>2. c.ws[v] = x \/ (v \in DOMAIN b.ws /\ c.ws[v] = b.ws[v])
    BY <2>1 DEF With
  <2> QED
    BY <1>2, <2>2 DEF BackOk
<1>4. BackOk(c)
  BY <1>1, <1>3 DEF BackOk
<1>5. SameWindows(c, NewTab(c, w))
  BY <1>4, NewTabOk
<1>6. SameWindows(b, NewTab(c, w))
  BY <1>1, <1>5 DEF SameWindows
<1> QED
  BY <1>6 DEF NewWorkspace, c, x

LEMMA NewWindowOk ==
  ASSUME NEW b, BackOk(b), NEW ws
  PROVE  OnlyGo(b, NewBackendWindow(b, ws), {})
<1> DEFINE n == b.nwin + 1
           c == NewBackendWindow(b, ws)
<1>1. c.win = With(b.win, n, ws) /\ c.nwin = n /\ c.ws = b.ws /\ DOMAIN c = DOMAIN b
  BY DEF NewBackendWindow, BackOk
<1>2. DOMAIN c.win = DOMAIN b.win \cup {n}
  BY <1>1 DEF With
<1> HIDE DEF c
<1>3. BackOk(c)
  BY <1>1, <1>2 DEF BackOk
<1> QED
  BY <1>2, <1>3 DEF OnlyGo, c

LEMMA DropWorkspaceOk ==
  ASSUME NEW b, BackOk(b), NEW ws, NEW force
  PROVE  SameWindows(b, DropWorkspace(b, ws, force))
<1> DEFINE c == [b EXCEPT !.ws = Without(@, ws)]
<1>1. c.win = b.win /\ c.nwin = b.nwin /\ c.ws = Without(b.ws, ws) /\ DOMAIN c = DOMAIN b
  BY DEF BackOk
<1> HIDE DEF c
<1>2. \A v \in DOMAIN c.ws: v \in DOMAIN b.ws /\ c.ws[v] = b.ws[v]
  BY <1>1 DEF Without, WithoutAll
<1>3. SameWindows(b, c)
  BY <1>1, <1>2 DEF BackOk, SameWindows
<1>4. SameWindows(b, b)
  BY DEF SameWindows
<1> QED
  BY <1>3, <1>4 DEF DropWorkspace, c

LEMMA CloseWindowOk ==
  ASSUME NEW b, BackOk(b), NEW n
  PROVE  OnlyGo(b, CloseWindow(b, n), {n})
<1> DEFINE d == DropWorkspace(b, b.win[n], FALSE)
           c == [d EXCEPT !.win = Without(@, n), !.order = Remove(@, n)]
<1>1. SameWindows(b, d)
  BY DropWorkspaceOk
<1> HIDE DEF d
<1>2. c.win = Without(d.win, n) /\ c.nwin = d.nwin /\ c.ws = d.ws /\ DOMAIN c = DOMAIN d
  BY <1>1 DEF SameWindows, BackOk
<1> HIDE DEF c
<1>3. DOMAIN c.win = DOMAIN b.win \ {n}
  BY <1>1, <1>2 DEF SameWindows, Without, WithoutAll
<1>4. OnlyGo(b, c, {n})
  BY <1>1, <1>2, <1>3 DEF OnlyGo, SameWindows, BackOk
<1>5. OnlyGo(b, b, {n})
  BY DEF OnlyGo
<1> QED
  BY <1>4, <1>5 DEF CloseWindow, c, d

\* A window whose workspace is gone may be replaced.
LEMMA BackendForWindowOk ==
  ASSUME NEW b, BackOk(b), NEW n
  PROVE  OnlyGo(b, BackendForWindow(b, n), {m \in DOMAIN b.win: b.win[m] \notin DOMAIN b.ws})
<1> DEFINE N == {m \in DOMAIN b.win: b.win[m] \notin DOMAIN b.ws}
           c == CloseWindow(b, n)
           b1 == NewWorkspace(c)
           d == NewBackendWindow(b1, b1.nws)
<1>1. CASE n \in DOMAIN b.win /\ b.win[n] \in DOMAIN b.ws
  BY <1>1 DEF BackendForWindow, OnlyGo
<1>2. CASE ~(n \in DOMAIN b.win /\ b.win[n] \in DOMAIN b.ws)
  <2>1. OnlyGo(b, c, {n})
    BY CloseWindowOk
  <2> HIDE DEF c
  <2>2. BackOk(c)
    BY <2>1 DEF OnlyGo
  <2>3. SameWindows(c, b1)
    BY <2>2, NewWorkspaceOk
  <2> HIDE DEF b1
  <2>4. OnlyGo(b1, d, {})
    BY <2>3, NewWindowOk DEF SameWindows
  <2> HIDE DEF d
  <2>5. OnlyGo(b, d, N)
    BY <1>2, <2>1, <2>3, <2>4 DEF OnlyGo, SameWindows
  <2>6. BackendForWindow(b, n) = d
    BY <1>2 DEF BackendForWindow, b1, c, d
  <2> QED
    BY <2>5, <2>6
<1> QED
  BY <1>1, <1>2

\* A window that is closed with its last tab had only that one.
LEMMA DeleteTabOk ==
  ASSUME NEW b, BackOk(b), NEW ws \in DOMAIN b.ws, NEW t \in ToSet(b.ws[ws].tabs)
  PROVE  /\ SameWindows(b, DeleteTab(b, ws, t))
         /\ DeleteTab(b, ws, t).ws[ws].tabs = <<>> => Len(b.ws[ws].tabs) = 1
<1> DEFINE tabs == b.ws[ws].tabs
           i == CHOOSE j \in DOMAIN tabs: tabs[j] = t
           rest == RemoveAt(tabs, i)
           act == IF b.ws[ws].active # t THEN b.ws[ws].active
                  ELSE IF rest = <<>> THEN 0 ELSE rest[IF i = 1 THEN 1 ELSE i - 1]
           x == [tabs |-> rest, active |-> act]
           c == DeleteTab(b, ws, t)
<1>1. i \in DOMAIN tabs
  BY DEF ToSet
<1>2. PlainSeq(tabs)
  BY DEF BackOk
<1> HIDE DEF tabs, i
<1>3. PlainSeq(rest) /\ (rest = <<>> => Len(tabs) = 1)
  BY <1>1, <1>2, SeqChanges
<1>4. c = [b EXCEPT !.ws[ws] = x]
  BY DEF DeleteTab, tabs, i
<1> HIDE DEF act
<1>5. "tabs" \in DOMAIN x /\ x.tabs = rest
  OBVIOUS
<1> HIDE DEF rest, x, c
<1>6. DOMAIN c = DOMAIN b /\ c.win = b.win /\ c.nwin = b.nwin /\ c.ws = [b.ws EXCEPT ![ws] = x]
  BY <1>4 DEF BackOk
<1>7. SameWindows(b, c)
  <2>1. ws \in DOMAIN b.ws => "tabs" \in DOMAIN x /\ PlainSeq(x.tabs)
    BY <1>3, <1>5
  <2> QED
    BY <1>6, <2>1, TabsChanged
<1>8. c.ws[ws].tabs = rest
  BY <1>5, <1>6
<1> QED
  BY <1>3, <1>7, <1>8 DEF c, tabs

-----------------------------------------------------------------------------
(* ElectronShell: the invariant, and what it takes for a step to keep it *)

ShellInv == ShellOk(el) /\ BackOk(be) /\ JobsOk(el, jobs)
Goers == {n \in DOMAIN be.win: MayGo(n)}
\* A step keeps the invariant, and only windows that may go do.
ShellStep == ShellInv' /\ OnlyGo(be, be', Goers)

LEMMA StepBy ==
  ASSUME ShellInv, Keeps(el, el'), OnlyGo(be, be', Goers), JobsOk(el', jobs')
  PROVE  ShellStep
<1>1. ShellOk(el') /\ BackOk(be')
  BY DEF Keeps, OnlyGo
<1> QED
  BY <1>1 DEF ShellStep, ShellInv

\* Windows and jobs stay as they are, or one of the two.
LEMMA StaysOk ==
  ASSUME ShellInv
  PROVE  /\ OnlyGo(be, be, Goers) /\ \A b: SameWindows(be, b) => OnlyGo(be, b, Goers)
         /\ \A b: OnlyGo(be, b, {}) => OnlyGo(be, b, Goers)
         /\ Keeps(el, el) /\ JobsOk(el, jobs) /\ \A e: Keeps(el, e) => JobsOk(e, jobs)
<1>1. OnlyGo(be, be, Goers) /\ \A b: SameWindows(be, b) => OnlyGo(be, b, Goers)
  BY DEF ShellInv, OnlyGo, SameWindows
<1>2. Keeps(el, el)
  BY KeepsSame DEF ShellInv
<1>3. \A e: Keeps(el, e) => JobsOk(e, jobs)
  BY JobsKeep DEF ShellInv
<1>4. \A b: OnlyGo(be, b, {}) => OnlyGo(be, b, Goers)
  BY DEF OnlyGo
<1> QED
  BY <1>1, <1>2, <1>3, <1>4 DEF ShellInv

LEMMA ElStep ==
  ASSUME ShellInv, Keeps(el, el'), UNCHANGED <<be, jobs>>
  PROVE  ShellStep
<1>1. OnlyGo(be, be', Goers) /\ JobsOk(el', jobs')
  BY StaysOk
<1> QED
  BY <1>1, StepBy

\* A job ends or becomes another; nothing else changes.
LEMMA JobStepBy ==
  ASSUME ShellInv, UNCHANGED <<el, be>>, JobsOk(el, jobs')
  PROVE  ShellStep
<1>1. OnlyGo(be, be', Goers) /\ JobsOk(el', jobs') /\ Keeps(el, el')
  BY StaysOk
<1> QED
  BY <1>1, StepBy

LEMMA JobChanges ==
  ASSUME ShellInv, NEW e, Keeps(el, e), NEW i \in DOMAIN jobs
  PROVE  /\ JobOk(el, jobs[i]) /\ JobsOk(e, Others(i))
         /\ \A x: JobOk(e, x) => JobsOk(e, [jobs EXCEPT ![i] = x]) /\ JobsOk(e, Append(jobs, x))
         /\ \A ks: JobsOk(e, ks) => JobsOk(e, Others(i) \o ks) /\ JobsOk(e, jobs \o ks)
<1>1. JobsOk(e, jobs) /\ JobsOk(el, jobs)
  BY StaysOk
<1>2. JobsOk(e, RemoveAt(jobs, i)) /\ JobOk(el, jobs[i])
  BY <1>1, JobsOf
<1>3. \A ks: JobsOk(e, ks) => JobsOk(e, RemoveAt(jobs, i) \o ks) /\ JobsOk(e, jobs \o ks)
  BY <1>1, <1>2, JobsOf
<1>4. \A x: JobOk(e, x) => JobsOk(e, [jobs EXCEPT ![i] = x]) /\ JobsOk(e, Append(jobs, x))
  BY <1>1, JobsOf
<1> QED
  BY <1>2, <1>3, <1>4 DEF Others

-----------------------------------------------------------------------------
(* ElectronShell: processActionQueue *)

LEMMA TakeEntrySteps ==
  ASSUME ShellInv, NEW o, TakeEntry(o)
  PROVE  ShellStep
<1>1. \A pc: Keeps(el, Goto(el, o, pc))
  BY GotoKeeps DEF ShellInv
<1>2. Keeps(el, Shift(el, o)) /\ Keeps(el, Leave(el, o))
  BY ShiftKeeps DEF ShellInv
<1>3. \A t: Keeps(el, Obtain(el, o, t))
  BY ObtainKeeps DEF ShellInv
<1>4. \/ \E pc: el' = Goto(el, o, pc)
      \/ el' = Shift(el, o) \/ el' = Leave(el, o) \/ \E t: el' = Obtain(el, o, t)
  BY DEF TakeEntry
<1>5. Keeps(el, el')
  BY <1>1, <1>2, <1>3, <1>4
<1> QED
  BY <1>5, ElStep DEF TakeEntry

LEMMA TabCreatedSteps ==
  ASSUME ShellInv, NEW o, TabCreated(o)
  PROVE  ShellStep
<1>1. Keeps(el, el')
  BY ObtainKeeps DEF TabCreated, ShellInv
<1>2. SameWindows(be, be')
  BY NewTabOk DEF TabCreated, ShellInv
<1>3. OnlyGo(be, be', Goers) /\ JobsOk(el', jobs')
  BY <1>1, <1>2, StaysOk DEF TabCreated
<1> QED
  BY <1>1, <1>3, StepBy

LEMMA ActiveTabSetSteps ==
  ASSUME ShellInv, NEW o, ActiveTabSet(o)
  PROVE  ShellStep
<1>1. Keeps(el, el')
  BY ObtainKeeps DEF ActiveTabSet, ShellInv
<1>2. SameWindows(be, be')
  <2>1. PICK ws, t: be' = [be EXCEPT !.ws[ws].active = t]
    BY DEF ActiveTabSet
  <2>2. PICK x: x = [be.ws[ws] EXCEPT !.active = t]
    OBVIOUS
  <2>3. /\ BackOk(be) /\ DOMAIN be' = DOMAIN be /\ be'.win = be.win /\ be'.nwin = be.nwin
        /\ be'.ws = [be.ws EXCEPT ![ws] = x]
    BY <2>1, <2>2 DEF ShellInv, BackOk
  <2>4. ws \in DOMAIN be.ws => "tabs" \in DOMAIN x /\ PlainSeq(x.tabs)
    BY <2>2 DEF ShellInv, BackOk
  <2> QED
    BY <2>3, <2>4, TabsChanged
<1>3. OnlyGo(be, be', Goers) /\ JobsOk(el', jobs')
  BY <1>1, <1>2, StaysOk DEF ActiveTabSet
<1> QED
  BY <1>1, <1>3, StepBy

LEMMA TabClosedSteps ==
  ASSUME ShellInv, NEW o, TabClosed(o)
  PROVE  ShellStep
<1>1. PICK ws, t: ws = el.wins[o].ws /\ t = InProcess(o).x
  OBVIOUS
<1>2. PICK b: b = DeleteTab(be, ws, t)
  OBVIOUS
<1>3. PICK e1: e1 = [el EXCEPT !.removals = @ \cup {<<o, t>>}]
  OBVIOUS
<1>4. o \in DOMAIN el.wins /\ el.wins[o].pc = "close" /\ ws \in DOMAIN be.ws /\ t \in ToSet(be.ws[ws].tabs)
  BY <1>1 DEF TabClosed, Processing
<1>5. SameWindows(be, b) /\ (b.ws[ws].tabs = <<>> => Len(be.ws[ws].tabs) = 1)
  BY <1>2, <1>4, DeleteTabOk DEF ShellInv
<1>6. Keeps(el, e1) /\ ShellOk(e1) /\ o \in DOMAIN e1.wins
  <2>1. DOMAIN e1 = DOMAIN el /\ e1.wins = el.wins /\ e1.map = el.map /\ e1.cache = el.cache
    BY <1>3 DEF ShellInv, ShellOk
  <2>2. IsFiniteSet(DOMAIN e1.cache)
    BY <2>1 DEF ShellInv, ShellOk
  <2>3. Keeps(el, e1)
    BY <2>1, <2>2, OtherChanged DEF ShellInv
  <2> QED
    BY <1>4, <2>3 DEF Keeps
<1>7. CASE b.ws[ws].tabs # <<>>
  <2>1. be' = b /\ el' = AfterClose(e1, o, b) /\ jobs' = jobs
    BY <1>1, <1>2, <1>3, <1>7 DEF TabClosed
  <2>2. Keeps(e1, el')
    BY <1>6, <2>1, ObtainKeeps DEF AfterClose
  <2>3. Keeps(el, el')
    BY <1>6, <2>2, KeepsTrans
  <2>4. OnlyGo(be, be', Goers) /\ JobsOk(el', jobs')
    BY <1>5, <2>1, <2>3, StaysOk
  <2> QED
    BY <2>3, <2>4, StepBy
<1>8. CASE b.ws[ws].tabs = <<>>
  <2>1. PICK n \in WindowsOf(be, ws): be' = CloseWindow(b, n)
    BY <1>1, <1>2, <1>8 DEF TabClosed
  <2>2. PICK f: f = closeWindow(e1, o)
    OBVIOUS
  <2>3. el' = Leave(f, o) /\ jobs' = jobs \o closeJobs(e1, o)
    BY <1>1, <1>2, <1>3, <1>8, <2>2 DEF TabClosed
  <2>4. Keeps(e1, f) /\ JobsOk(f, closeJobs(e1, o)) /\ ShellOk(f)
    BY <1>6, <2>2, CloseOk DEF Keeps
  <2>5. Keeps(f, el')
    BY <2>3, <2>4, ShiftKeeps
  <2>6. Keeps(el, f) /\ Keeps(el, el')
    BY <1>6, <2>4, <2>5, KeepsTrans
  <2>7. JobsOk(el', jobs) /\ JobsOk(el', closeJobs(e1, o))
    BY <2>4, <2>5, <2>6, StaysOk, JobsKeep
  <2>8. JobsOk(el', jobs')
    BY <2>3, <2>7, JobsOf
  <2>9. n \in Goers
    BY <1>1, <1>4, <1>5, <1>8, <2>1 DEF Goers, MayGo, WindowsOf
  <2>10. OnlyGo(b, be', {n})
    BY <1>5, <2>1, CloseWindowOk DEF SameWindows
  <2>11. OnlyGo(be, be', Goers)
    BY <1>5, <2>9, <2>10 DEF OnlyGo, SameWindows
  <2> QED
    BY <2>6, <2>8, <2>11, StepBy
<1> QED
  BY <1>7, <1>8

LEMMA WorkspaceSwitchedSteps ==
  ASSUME ShellInv, NEW o, WorkspaceSwitched(o)
  PROVE  ShellStep
<1>1. PICK n, ws: n = el.wins[o].id /\ ws = InProcess(o).x
  OBVIOUS
<1>2. n \in DOMAIN be.win /\ jobs' = jobs
  BY <1>1 DEF WorkspaceSwitched
<1>3. CASE WindowsOf(be, ws) # {}
  <2>1. el' = Leave(el, o) /\ be' = be
    BY <1>1, <1>3 DEF WorkspaceSwitched
  <2>2. Keeps(el, el')
    BY <2>1, ShiftKeeps DEF ShellInv
  <2> QED
    BY <1>2, <2>1, <2>2, ElStep
<1>4. CASE WindowsOf(be, ws) = {}
  <2>1. PICK e1, e2, c: /\ e1 = removeAllChildViews(el, {o})
                        /\ e2 = [e1 EXCEPT !.wins[o].ws = ws, !.wins[o].loaded = <<>>]
                        /\ c = [be EXCEPT !.win[n] = ws]
    OBVIOUS
  <2>2. be' = DropWorkspace(c, be.win[n], FALSE) /\ el' = Obtain(e2, o, be.ws[ws].active)
    BY <1>1, <1>4, <2>1 DEF WorkspaceSwitched
  <2>3. Keeps(el, e1) /\ ShellOk(e1)
    BY <2>1, DestroyKeeps DEF removeAllChildViews, ShellInv, Keeps
  <2>4. Keeps(e1, e2)
    <3>1. PICK w: w = [e1.wins[o] EXCEPT !.ws = ws, !.loaded = <<>>]
      OBVIOUS
    <3>2. /\ DOMAIN e2 = DOMAIN e1 /\ e2.wins = [e1.wins EXCEPT ![o] = w]
          /\ e2.map = e1.map /\ e2.cache = e1.cache
      BY <2>1, <2>3, <3>1 DEF ShellOk
    <3>3. o \in DOMAIN e1.wins => WinKept(e1.wins[o], w)
      BY <2>3, <3>1, WindowFields DEF ShellOk
    <3> QED
      BY <2>3, <3>2, <3>3, WindowChanged
  <2>5. Keeps(e2, el')
    BY <2>2, <2>4, ObtainKeeps DEF Keeps
  <2>6. Keeps(el, el')
    BY <2>3, <2>4, <2>5, KeepsTrans
  <2>7. BackOk(c) /\ DOMAIN c.win = DOMAIN be.win
    BY <2>1 DEF ShellInv, BackOk
  <2>8. SameWindows(c, be')
    BY <2>2, <2>7, DropWorkspaceOk
  <2>9. OnlyGo(be, be', Goers)
    BY <2>7, <2>8 DEF OnlyGo, SameWindows
  <2>10. JobsOk(el', jobs')
    BY <1>2, <2>6, StaysOk
  <2> QED
    BY <2>6, <2>9, <2>10, StepBy
<1> QED
  BY <1>3, <1>4

\* What only works on views and the queue.
LEMMA QuietSteps ==
  ASSUME ShellInv, NEW o,
         \/ CallRefused(o) \/ ConfigArrives(o) \/ InitResolved(o) \/ ReadyResolved(o) \/ InitTimeout(o)
  PROVE  ShellStep
<1>1. Keeps(el, Shift(el, o)) /\ ShellOk(el)
  BY ShiftKeeps DEF ShellInv
<1>2. CASE CallRefused(o) \/ ReadyResolved(o) \/ InitTimeout(o)
  BY <1>1, <1>2, ElStep DEF CallRefused, ReadyResolved, InitTimeout
<1>3. CASE ConfigArrives(o)
  <2>1. PICK t, n, v, e1: e1 \in getSpareTab(el, t, n) /\ el' = setTabViewIntoWindow(e1, o, v, FALSE)
    BY <1>3 DEF ConfigArrives
  <2>2. Keeps(el, e1)
    BY <1>1, <2>1, GetSpareKeeps
  <2>3. Keeps(e1, el')
    BY <2>1, <2>2, SetViewKeeps DEF Keeps
  <2>4. Keeps(el, el')
    BY <2>2, <2>3, KeepsTrans
  <2> QED
    BY <1>3, <2>4, ElStep DEF ConfigArrives
<1>4. CASE InitResolved(o)
  <2>1. PICK v, f: /\ f = [el EXCEPT !.views[v].opts = TRUE, !.views[v].told = TRUE]
                   /\ el' = Shift(el, o) \/ el' = Goto(f, o, "ready")
    BY <1>4 DEF InitResolved
  <2>2. DOMAIN f = DOMAIN el /\ f.wins = el.wins /\ f.map = el.map /\ f.cache = el.cache
    BY <1>1, <2>1 DEF ShellOk
  <2>3. IsFiniteSet(DOMAIN f.cache)
    BY <1>1, <2>2 DEF ShellOk
  <2>4. Keeps(el, f) /\ ShellOk(f)
    BY <1>1, <2>2, <2>3, OtherChanged DEF Keeps
  <2>5. Keeps(f, Goto(f, o, "ready"))
    BY <2>4, GotoKeeps
  <2>6. Keeps(el, el')
    BY <1>1, <2>1, <2>4, <2>5, KeepsTrans
  <2> QED
    BY <1>4, <2>6, ElStep DEF InitResolved
<1> QED
  BY <1>2, <1>3, <1>4

LEMMA WindowSteps ==
  ASSUME ShellInv, NEW o, WindowStep(o)
  PROVE  ShellStep
BY TakeEntrySteps, TabCreatedSteps, ActiveTabSetSteps, TabClosedSteps, WorkspaceSwitchedSteps, QuietSteps
DEF WindowStep

LEMMA PageSteps ==
  ASSUME ShellInv, (\E v \in DOMAIN el.views: Page(v)) \/ RemovalDue \/ HotSpareDue
  PROVE  ShellStep
<1>1. ShellOk(el)
  BY DEF ShellInv
<1>2. CASE \E v \in DOMAIN el.views: Page(v)
  <2>1. PICK v: Page(v)
    BY <1>2
  <2>2. Keeps(el, el')
    BY <1>1, <2>1, PagesKeep DEF Page
  <2> QED
    BY <2>1, <2>2, ElStep DEF Page
<1>3. CASE RemovalDue
  <2>1. PICK r, f: f = [el EXCEPT !.removals = @ \ {r}] /\ el' = removeTabView(f, r[1], r[2])
    BY <1>3 DEF RemovalDue
  <2>2. DOMAIN f = DOMAIN el /\ f.wins = el.wins /\ f.map = el.map /\ f.cache = el.cache
    BY <1>1, <2>1 DEF ShellOk
  <2>3. IsFiniteSet(DOMAIN f.cache)
    BY <1>1, <2>2 DEF ShellOk
  <2>4. Keeps(el, f) /\ ShellOk(f)
    BY <1>1, <2>2, <2>3, OtherChanged DEF Keeps
  <2>5. Keeps(f, el')
    BY <2>1, <2>4, RemoveViewKeeps
  <2>6. Keeps(el, el')
    BY <2>4, <2>5, KeepsTrans
  <2> QED
    BY <1>3, <2>6, ElStep DEF RemovalDue
<1>4. CASE HotSpareDue
  <2>1. Keeps(el, el')
    BY <1>1, <1>4, PagesKeep DEF HotSpareDue
  <2> QED
    BY <1>4, <2>1, ElStep DEF HotSpareDue
<1> QED
  BY <1>2, <1>3, <1>4

-----------------------------------------------------------------------------
(* ElectronShell: the jobs *)

\* A job that neither deletes nor closes a window asks nothing of one.
LEMMA HarmlessJob ==
  ASSUME NEW e, NEW x, x.kind \notin {"delete", "close", "deletews"}
  PROVE  JobOk(e, x)
BY DEF JobOk

LEMMA SwitchJobsOk ==
  ASSUME NEW e, NEW o, NEW ws
  PROVE  JobsOk(e, SwitchJobs(o, ws))
<1>1. PICK x: x = Job("switch", ws, o)
  OBVIOUS
<1>2. JobOk(e, x)
  BY <1>1, HarmlessJob DEF Job
<1>3. JobsOk(e, <<x>>) /\ JobsOk(e, <<>>)
  BY <1>2, FewJobs
<1> QED
  BY <1>1, <1>3 DEF SwitchJobs

LEMMA OpeningSteps ==
  ASSUME ShellInv, NEW i, createBrowserWindow(i)
  PROVE  ShellStep
<1>1. i \in DOMAIN jobs
  BY DEF createBrowserWindow, Awaits
<1>2. Keeps(el, el')
  BY ConstructedKeeps DEF createBrowserWindow, ShellInv
<1>3. OnlyGo(be, be', {n \in DOMAIN be.win: be.win[n] \notin DOMAIN be.ws})
  BY BackendForWindowOk DEF createBrowserWindow, ShellInv
<1>4. OnlyGo(be, be', Goers)
  BY <1>3 DEF OnlyGo, Goers, MayGo
<1>5. JobsOk(el', jobs')
  <2>1. jobs' = Others(i)
    BY DEF createBrowserWindow, JobEnds
  <2> QED
    BY <1>1, <1>2, <2>1, JobChanges
<1> QED
  BY <1>2, <1>4, <1>5, StepBy

LEMMA AskingSteps ==
  ASSUME ShellInv, NEW i,
         ClientDataArrives(i) \/ createNewDoraWindow(i) \/ createWindowForWorkspace(i) \/ createWorkspace(i)
  PROVE  ShellStep
<1>1. i \in DOMAIN jobs
  BY DEF ClientDataArrives, createNewDoraWindow, createWindowForWorkspace, createWorkspace, Awaits
<1>2. Keeps(el, el) /\ OnlyGo(be, be, Goers)
  BY StaysOk
<1>3. \A k \in {"newconfig", "open", "switch"}: \A n, o: JobsOk(el, [jobs EXCEPT ![i] = Job(k, n, o)])
  <2>1. \A k \in {"newconfig", "open", "switch"}: \A n, o: JobOk(el, Job(k, n, o))
    BY HarmlessJob DEF Job
  <2> QED
    BY <1>1, <1>2, <2>1, JobChanges
<1>4. JobsOk(el, Others(i))
  BY <1>1, <1>2, JobChanges
<1>5. CASE ClientDataArrives(i)
  <2>1. JobsOk(el, jobs')
    BY <1>3, <1>5 DEF ClientDataArrives, Becomes
  <2> QED
    BY <1>5, <2>1, JobStepBy DEF ClientDataArrives
<1>6. CASE createNewDoraWindow(i)
  <2>1. JobsOk(el, jobs')
    BY <1>3, <1>6 DEF createNewDoraWindow, Becomes
  <2> QED
    BY <1>6, <2>1, JobStepBy DEF createNewDoraWindow
<1>7. CASE createWindowForWorkspace(i)
  <2>1. JobsOk(el, jobs') /\ el' = el
    BY <1>3, <1>4, <1>7 DEF createWindowForWorkspace, Becomes, JobEnds
  <2>2. be' = be \/ be' = NewBackendWindow(be, jobs[i].n)
    BY <1>7 DEF createWindowForWorkspace
  <2>3. OnlyGo(be, NewBackendWindow(be, jobs[i].n), {})
    BY NewWindowOk DEF ShellInv
  <2>4. OnlyGo(be, be', Goers)
    BY <1>2, <2>2, <2>3, StaysOk
  <2>5. JobsOk(el', jobs') /\ Keeps(el, el')
    BY <1>2, <2>1
  <2> QED
    BY <2>4, <2>5, StepBy
<1>8. CASE createWorkspace(i)
  <2>1. /\ el' = el /\ be' = NewWorkspace(be)
        /\ jobs' = Others(i) \o SwitchJobs(jobs[i].o, be.nws + 1)
    BY <1>8 DEF createWorkspace
  <2>2. JobsOk(el, jobs')
    BY <1>1, <1>2, <2>1, JobChanges, SwitchJobsOk
  <2>3. SameWindows(be, be')
    BY <2>1, NewWorkspaceOk DEF ShellInv
  <2>4. OnlyGo(be, be', Goers)
    BY <2>3, StaysOk
  <2>5. JobsOk(el', jobs') /\ Keeps(el, el')
    BY <1>2, <2>1, <2>2
  <2> QED
    BY <2>4, <2>5, StepBy
<1> QED
  BY <1>5, <1>6, <1>7, <1>8

LEMMA SwitchSteps ==
  ASSUME ShellInv, NEW i, switchWorkspace(i)
  PROVE  ShellStep
<1>1. i \in DOMAIN jobs /\ be' = be
  BY DEF switchWorkspace, Awaits
<1>2. Keeps(el, el)
  BY StaysOk
<1>3. CASE el' = el /\ jobs' = [jobs EXCEPT ![i] = Job("openws", jobs[i].n, 0)]
  <2>1. JobOk(el, Job("openws", jobs[i].n, 0))
    BY HarmlessJob DEF Job
  <2>2. JobsOk(el, jobs')
    BY <1>1, <1>2, <1>3, <2>1, JobChanges
  <2> QED
    BY <1>1, <1>3, <2>2, JobStepBy
<1>4. CASE jobs' = Others(i) /\ el' = QueueAction(el, jobs[i].o, Entry("switchworkspace", jobs[i].n, FALSE))
  <2>1. Keeps(el, el')
    BY <1>4, QueueActionKeeps DEF ShellInv
  <2>2. JobsOk(el', jobs')
    BY <1>1, <1>4, <2>1, JobChanges
  <2>3. OnlyGo(be, be', Goers)
    BY <1>1, StaysOk
  <2> QED
    BY <2>1, <2>2, <2>3, StepBy
<1> QED
  BY <1>3, <1>4 DEF switchWorkspace, Becomes, JobEnds

\* The least of some windows is one of them.
LEMMA MinWinIn ==
  ASSUME NEW S \in SUBSET Nat, S # {}
  PROVE  MinWin(S) \in S
<1>1. \E n \in S: \A m \in S: n <= m
  BY LeastNumber
<1> QED
  BY <1>1 DEF MinWin

LEMMA DeleteWorkspaceSteps ==
  ASSUME ShellInv, NEW i, deleteWorkspace(i)
  PROVE  ShellStep
<1>1. PICK o, ws, own, b, to:
        /\ o = jobs[i].o /\ ws = jobs[i].n /\ own = WindowsOf(be, ws) /\ b = DropWorkspace(be, ws, TRUE)
        /\ to = IF own = {} THEN {} ELSE Unclaimed(b)
  OBVIOUS
<1>2. i \in DOMAIN jobs /\ jobs[i].kind = "deletews"
  BY DEF deleteWorkspace, Awaits
<1>3. o \in DOMAIN el.wins /\ Keeps(el, el)
  <2>1. Keeps(el, el)
    BY StaysOk
  <2>2. JobOk(el, jobs[i])
    BY <1>2, <2>1, JobChanges
  <2> QED
    BY <1>1, <1>2, <2>1, <2>2 DEF JobOk
<1>4. SameWindows(be, b)
  BY <1>1, DropWorkspaceOk DEF ShellInv
<1>5. OnlyGo(be, be', Goers)
  <2>1. CASE be' = b
    BY <1>4, <2>1, StaysOk
  <2>2. CASE own # {} /\ be' = CloseWindow(b, MinWin(own))
    <3>1. MinWin(own) \in own
      <4>1. own \in SUBSET Nat
        BY <1>1 DEF WindowsOf, ShellInv, BackOk
      <4> QED
        BY <2>2, <4>1, MinWinIn
    <3>2. MinWin(own) \in Goers
      BY <1>1, <1>2, <3>1 DEF WindowsOf, Goers, MayGo
    <3>3. OnlyGo(b, be', {MinWin(own)})
      BY <1>4, <2>2, CloseWindowOk DEF SameWindows
    <3> QED
      BY <1>4, <3>2, <3>3 DEF OnlyGo, SameWindows
  <2>3. be' = b \/ (own # {} /\ be' = CloseWindow(b, MinWin(own)))
    BY <1>1 DEF deleteWorkspace
  <2> QED
    BY <2>1, <2>2, <2>3
<1>6. Keeps(el, el') /\ JobsOk(el', jobs')
  <2>1. CASE el' = el /\ jobs' = Others(i)
    BY <1>2, <1>3, <2>1, JobChanges
  <2>2. CASE el' = el /\ jobs' = Others(i) \o SwitchJobs(o, MinWin(to))
    BY <1>2, <1>3, <2>2, JobChanges, SwitchJobsOk
  <2>3. CASE el' = destroyWindow(el, o) /\ jobs' = Others(i) \o destroyJobs(el, o)
    <3>1. Keeps(el, el') /\ JobsOk(el', destroyJobs(el, o))
      BY <1>3, <2>3, DestroyWindowOk DEF ShellInv
    <3> QED
      BY <1>2, <2>3, <3>1, JobChanges
  <2> QED
    BY <1>1, <2>1, <2>2, <2>3 DEF deleteWorkspace, JobEnds
<1> QED
  BY <1>5, <1>6, StepBy

LEMMA CloseConfirmedSteps ==
  ASSUME ShellInv, NEW i, CloseConfirmed(i)
  PROVE  ShellStep
<1>1. PICK o, e1: /\ o = jobs[i].o
                  /\ e1 = [el EXCEPT !.wins[o].canClose = TRUE, !.wins[o].deleteAllowed = @ \/ ~LastOne(i)]
  OBVIOUS
<1>2. i \in DOMAIN jobs /\ jobs[i].kind = "close" /\ be' = be
  BY DEF CloseConfirmed, Awaits
<1>3. o \in DOMAIN el.wins /\ Keeps(el, el)
  <2>1. Keeps(el, el)
    BY StaysOk
  <2>2. JobOk(el, jobs[i])
    BY <1>2, <2>1, JobChanges
  <2> QED
    BY <1>1, <1>2, <2>1, <2>2 DEF JobOk
<1>4. Keeps(el, e1) /\ ShellOk(e1) /\ o \in DOMAIN e1.wins
  <2>1. PICK w: w = [el.wins[o] EXCEPT !.canClose = TRUE, !.deleteAllowed = @ \/ ~LastOne(i)]
    OBVIOUS
  <2>2. DOMAIN e1 = DOMAIN el /\ e1.wins = [el.wins EXCEPT ![o] = w] /\ e1.map = el.map /\ e1.cache = el.cache
    BY <1>1, <2>1 DEF ShellInv, ShellOk
  <2>3. WinKept(el.wins[o], w)
    BY <1>3, <2>1 DEF ShellInv, ShellOk, WinKept, WinOk
  <2>4. Keeps(el, e1)
    BY <2>2, <2>3, WindowChanged DEF ShellInv
  <2> QED
    BY <1>3, <2>4 DEF Keeps
<1>5. OnlyGo(be, be', Goers)
  BY <1>2, StaysOk
<1>6. CASE el' = closeWindow(e1, o) /\ jobs' = Others(i) \o closeJobs(e1, o)
  <2>1. Keeps(e1, el') /\ JobsOk(el', closeJobs(e1, o))
    BY <1>4, <1>6, CloseOk
  <2>2. Keeps(el, el')
    BY <1>4, <2>1, KeepsTrans
  <2>3. JobsOk(el', jobs')
    BY <1>2, <1>6, <2>1, <2>2, JobChanges
  <2> QED
    BY <1>5, <2>2, <2>3, StepBy
<1>7. CASE el' = el /\ jobs' = Others(i)
  <2>1. JobsOk(el, jobs')
    BY <1>2, <1>3, <1>7, JobChanges
  <2> QED
    BY <1>2, <1>7, <2>1, JobStepBy
<1> QED
  BY <1>1, <1>6, <1>7 DEF CloseConfirmed, JobEnds

LEMMA CloseInBackendSteps ==
  ASSUME ShellInv, NEW i, CloseInBackend(i)
  PROVE  ShellStep
<1>1. i \in DOMAIN jobs /\ jobs[i].kind = "delete" /\ el' = el /\ jobs' = Others(i)
  BY DEF CloseInBackend, Awaits, JobEnds
<1>2. Keeps(el, el)
  BY StaysOk
<1>3. JobOk(el, jobs[i]) /\ JobsOk(el, jobs')
  BY <1>1, <1>2, JobChanges
<1>4. OnlyGo(be, be', {jobs[i].n})
  BY CloseWindowOk DEF CloseInBackend, ShellInv
<1>5. \A n \in DOMAIN be.win: n = jobs[i].n => n \in Goers
  BY <1>1, <1>3 DEF JobOk, Goers, MayGo
<1>6. OnlyGo(be, be', Goers)
  BY <1>4, <1>5 DEF OnlyGo
<1>7. JobsOk(el', jobs') /\ Keeps(el, el')
  BY <1>1, <1>2, <1>3
<1> QED
  BY <1>6, <1>7, StepBy

LEMMA RelaunchGoesOnSteps ==
  ASSUME ShellInv, NEW i, RelaunchGoesOn(i)
  PROVE  ShellStep
<1>1. i \in DOMAIN jobs /\ be' = be /\ el' = [el EXCEPT !.relaunching = FALSE]
  BY DEF RelaunchGoesOn, Awaits
<1>2. PICK x: jobs' = [jobs EXCEPT ![i] = x] /\ x.kind = "relaunch"
  <2>1. PICK x: x = [kind |-> "relaunch", n |-> 0, o |-> 0, ids |-> Reverse(be.order)]
    OBVIOUS
  <2>2. jobs' = [jobs EXCEPT ![i] = x]
    BY <2>1 DEF RelaunchGoesOn, Becomes
  <2>3. x.kind = "relaunch"
    BY <2>1
  <2> QED
    BY <2>2, <2>3
<1>3. Keeps(el, el')
  <2>1. PICK f: f = el'
    OBVIOUS
  <2>2. ShellOk(el) /\ DOMAIN f = DOMAIN el /\ f.wins = el.wins /\ f.map = el.map /\ f.cache = el.cache
    BY <1>1, <2>1 DEF ShellInv, ShellOk
  <2>3. IsFiniteSet(DOMAIN f.cache)
    BY <2>2 DEF ShellOk
  <2> QED
    BY <2>1, <2>2, <2>3, OtherChanged
<1>4. JobOk(el', x)
  BY <1>2, HarmlessJob
<1>5. JobsOk(el', jobs')
  BY <1>1, <1>2, <1>3, <1>4, JobChanges
<1>6. OnlyGo(be, be', Goers)
  BY <1>1, StaysOk
<1> QED
  BY <1>3, <1>5, <1>6, StepBy

\* The job that goes on with the next window is of the same kind.
LEMMA RelaunchOneSteps ==
  ASSUME ShellInv, NEW i, RelaunchOne(i)
  PROVE  ShellStep
<1>1. i \in DOMAIN jobs /\ jobs[i].kind = "relaunch"
  BY DEF RelaunchOne, Awaits
<1>2. Keeps(el, el) /\ OnlyGo(be, be, Goers)
  BY StaysOk
<1>3. \A e, ids, o: Keeps(el, e) => JobsOk(e, [jobs EXCEPT ![i] = [jobs[i] EXCEPT !.ids = ids, !.o = o]])
  <2>1. ASSUME NEW e, NEW ids, NEW o, Keeps(el, e)
        PROVE  JobsOk(e, [jobs EXCEPT ![i] = [jobs[i] EXCEPT !.ids = ids, !.o = o]])
    <3>1. PICK x: x = [jobs[i] EXCEPT !.ids = ids, !.o = o]
      OBVIOUS
    <3>2. JobOk(el, jobs[i]) /\ JobOk(e, x)
      <4>1. x.kind = jobs[i].kind
        BY <3>1
      <4> QED
        BY <1>1, <1>2, <4>1, HarmlessJob
    <3>3. JobsOk(e, [jobs EXCEPT ![i] = x])
      BY <1>1, <2>1, <3>2, JobChanges
    <3> QED
      BY <3>1, <3>3
  <2> QED
    BY <2>1
<1>4. CASE jobs' = Others(i) /\ UNCHANGED <<el, be>>
  <2>1. JobsOk(el, jobs')
    BY <1>1, <1>2, <1>4, JobChanges
  <2> QED
    BY <1>4, <2>1, JobStepBy
<1>5. ASSUME NEW n, n \notin DOMAIN be.win, be' = CloseWindow(be, n), el' = el,
             jobs' = [jobs EXCEPT ![i] = [jobs[i] EXCEPT !.ids = Tail(jobs[i].ids), !.o = 0]]
      PROVE  ShellStep
  <2>1. be' = be
    BY <1>5 DEF CloseWindow
  <2>2. JobsOk(el, jobs')
    BY <1>2, <1>3, <1>5
  <2> QED
    BY <1>5, <2>1, <2>2, JobStepBy
<1>6. ASSUME NEW n, be' = BackendForWindow(be, n), el' = Constructed(el, be', WindowFor(be, n)),
             jobs' = [jobs EXCEPT ![i] = [jobs[i] EXCEPT !.ids = Tail(jobs[i].ids), !.o = Len(el'.wins)]]
      PROVE  ShellStep
  <2>1. Keeps(el, el')
    BY <1>6, ConstructedKeeps DEF ShellInv
  <2>2. OnlyGo(be, be', {m \in DOMAIN be.win: be.win[m] \notin DOMAIN be.ws})
    BY <1>6, BackendForWindowOk DEF ShellInv
  <2>3. OnlyGo(be, be', Goers)
    BY <2>2 DEF OnlyGo, Goers, MayGo
  <2>4. JobsOk(el', jobs')
    BY <1>3, <1>6, <2>1
  <2> QED
    BY <2>1, <2>3, <2>4, StepBy
<1> QED
  BY <1>4, <1>5, <1>6 DEF RelaunchOne, Becomes, JobEnds

LEMMA AlignSteps ==
  ASSUME ShellInv, NEW i, AlignOne(i)
  PROVE  ShellStep
<1>1. i \in DOMAIN jobs /\ jobs[i].kind = "align" /\ be' = be
  BY DEF AlignOne, Awaits
<1>2. Keeps(el, el')
  <2>1. el' = el \/ \E o, x: el' = QueueAction(el, o, x)
    BY DEF AlignOne
  <2>2. \A o, x: Keeps(el, QueueAction(el, o, x))
    BY QueueActionKeeps DEF ShellInv
  <2> QED
    BY <2>1, <2>2, StaysOk
<1>3. JobsOk(el', jobs')
  <2>1. CASE jobs' = Others(i)
    BY <1>1, <1>2, <2>1, JobChanges
  <2>2. ASSUME NEW x, x.kind = jobs[i].kind, jobs' = [jobs EXCEPT ![i] = x] PROVE JobsOk(el', jobs')
    <3>1. JobOk(el', x)
      BY <1>1, <2>2, HarmlessJob
    <3> QED
      BY <1>1, <1>2, <2>2, <3>1, JobChanges
  <2>3. jobs' = Others(i) \/ \E x: x.kind = jobs[i].kind /\ jobs' = [jobs EXCEPT ![i] = x]
    <3>1. PICK x: x = [jobs[i] EXCEPT !.ids = Tail(@), !.o = jobs[i].ids[1]]
      OBVIOUS
    <3>2. x.kind = jobs[i].kind
      BY <3>1
    <3>3. jobs' = Others(i) \/ jobs' = [jobs EXCEPT ![i] = x]
      BY <3>1 DEF AlignOne, Becomes, JobEnds
    <3> QED
      BY <3>2, <3>3
  <2> QED
    BY <2>1, <2>2, <2>3
<1>4. OnlyGo(be, be', Goers)
  BY <1>1, StaysOk
<1> QED
  BY <1>2, <1>3, <1>4, StepBy

LEMMA JobSteps ==
  ASSUME ShellInv, NEW i, JobStep(i)
  PROVE  ShellStep
BY OpeningSteps, AskingSteps, SwitchSteps, DeleteWorkspaceSteps, CloseConfirmedSteps, CloseInBackendSteps,
   RelaunchGoesOnSteps, RelaunchOneSteps, AlignSteps DEF JobStep

-----------------------------------------------------------------------------
(* ElectronShell: the user and the backend *)

LEMMA AskedSteps ==
  ASSUME ShellInv, SetActiveTabIpc \/ CreateTabIpc \/ CloseTabIpc \/ ClearTabCache
  PROVE  ShellStep
<1>1. \A o, x: Keeps(el, QueueAction(el, o, x))
  BY QueueActionKeeps DEF ShellInv
<1>2. \A f \in clearTabCache(el): Keeps(el, f)
  BY EvictKeeps DEF ShellInv
<1>3. Keeps(el, el')
  BY <1>1, <1>2 DEF SetActiveTabIpc, CreateTabIpc, CloseTabIpc, ClearTabCache
<1> QED
  BY <1>3, ElStep DEF SetActiveTabIpc, CreateTabIpc, CloseTabIpc, ClearTabCache

LEMMA NewJobSteps ==
  ASSUME ShellInv,
         SwitchWorkspaceIpc \/ CreateWorkspaceIpc \/ DeleteWorkspaceIpc \/ NewWindowAsked \/ Reconnect
  PROVE  ShellStep
<1>1. JobsOk(el, jobs) /\ UNCHANGED <<el, be>>
  BY StaysOk DEF SwitchWorkspaceIpc, CreateWorkspaceIpc, DeleteWorkspaceIpc, NewWindowAsked, Reconnect
<1>2. \A x: JobOk(el, x) => JobsOk(el, Append(jobs, x))
  BY <1>1, JobsOf
<1>3. JobsOk(el, jobs')
  <2>1. CASE SwitchWorkspaceIpc
    <3>1. PICK o, ws: jobs' = jobs \o SwitchJobs(o, ws)
      BY <2>1 DEF SwitchWorkspaceIpc
    <3>2. JobsOk(el, SwitchJobs(o, ws))
      BY SwitchJobsOk
    <3> QED
      BY <1>1, <3>1, <3>2, JobsOf
  <2>2. CASE CreateWorkspaceIpc
    <3>1. PICK x, o: x = Job("newws", 0, o) /\ jobs' = Append(jobs, x)
      BY <2>2 DEF CreateWorkspaceIpc
    <3>2. JobOk(el, x)
      BY <3>1, HarmlessJob DEF Job
    <3> QED
      BY <1>2, <3>1, <3>2
  <2>3. CASE DeleteWorkspaceIpc
    <3>1. PICK o, x, ws: o \in DOMAIN el.wins /\ x = Job("deletews", ws, o) /\ jobs' = Append(jobs, x)
      BY <2>3 DEF DeleteWorkspaceIpc
    <3>2. JobOk(el, x)
      BY <3>1 DEF Job, JobOk
    <3> QED
      BY <1>2, <3>1, <3>2
  <2>4. CASE NewWindowAsked
    <3>1. PICK x: x = Job("new", 0, 0) /\ jobs' = Append(jobs, x)
      BY <2>4 DEF NewWindowAsked
    <3>2. JobOk(el, x)
      BY <3>1, HarmlessJob DEF Job
    <3> QED
      BY <1>2, <3>1, <3>2
  <2>5. CASE Reconnect
    <3>1. PICK x: /\ x = [kind |-> "align", n |-> 0, o |-> 0, ids |-> SetToSeq({el.map[n]: n \in DOMAIN el.map})]
                  /\ jobs' = Append(jobs, x)
      BY <2>5 DEF Reconnect
    <3>2. JobOk(el, x)
      BY <3>1, HarmlessJob
    <3> QED
      BY <1>2, <3>1, <3>2
  <2> QED
    BY <2>1, <2>2, <2>3, <2>4, <2>5
<1> QED
  BY <1>1, <1>3, JobStepBy

LEMMA UserClosesSteps ==
  ASSUME ShellInv, UserClosesWindow
  PROVE  ShellStep
<1>1. PICK o \in DOMAIN el.wins: el' = closeWindow(el, o) /\ jobs' = jobs \o closeJobs(el, o)
  BY DEF UserClosesWindow
<1>2. Keeps(el, el') /\ JobsOk(el', closeJobs(el, o))
  BY <1>1, CloseOk DEF ShellInv
<1>3. JobsOk(el', jobs)
  BY <1>2, StaysOk
<1>4. JobsOk(el', jobs')
  BY <1>1, <1>2, <1>3, JobsOf
<1>5. OnlyGo(be, be', Goers)
  BY StaysOk DEF UserClosesWindow
<1> QED
  BY <1>2, <1>4, <1>5, StepBy

LEMMA RelaunchSteps ==
  ASSUME ShellInv, Relaunch
  PROVE  ShellStep
<1>1. PICK e, os, x: /\ e = [el EXCEPT !.relaunching = TRUE] /\ os = {el.map[n]: n \in DOMAIN el.map}
                     /\ x = Job("relaunchwait", 0, 0)
  OBVIOUS
<1>2. el' = CloseAll(e, os) /\ jobs' = Append(jobs \o CloseAllJobs(e, os), x) /\ be' = be
  BY <1>1 DEF Relaunch
<1>3. Keeps(el, el') /\ CloseAllJobs(e, os) = <<>>
  BY <1>1, <1>2, RelaunchOk DEF ShellInv
<1>4. JobsOk(el', jobs) /\ JobsOk(el', <<>>)
  BY <1>3, StaysOk, FewJobs
<1>5. JobsOk(el', jobs \o CloseAllJobs(e, os))
  BY <1>3, <1>4, JobsOf
<1>6. JobOk(el', x)
  BY <1>1, HarmlessJob DEF Job
<1>7. JobsOk(el', jobs')
  BY <1>2, <1>5, <1>6, JobsOf
<1>8. OnlyGo(be, be', Goers)
  BY <1>2, StaysOk
<1> QED
  BY <1>3, <1>7, <1>8, StepBy

LEMMA EventSteps ==
  ASSUME ShellInv, HandleWSEvent
  PROVE  ShellStep
<1>1. PICK ev: ev = controls[1]
  OBVIOUS
<1>2. be' = be /\ OnlyGo(be, be', Goers) /\ Keeps(el, el)
  BY StaysOk DEF HandleWSEvent
<1>3. CASE jobs' = jobs /\ (el' = el \/ \E o, x: el' = QueueAction(el, o, x))
  <2>1. Keeps(el, el')
    BY <1>2, <1>3, QueueActionKeeps DEF ShellInv
  <2> QED
    BY <1>2, <1>3, <2>1, ElStep
<1>4. ASSUME NEW n \in DOMAIN el.map, el' = destroyWindow(el, el.map[n]), jobs' = jobs \o destroyJobs(el, el.map[n])
      PROVE  ShellStep
  <2>1. el.map[n] \in DOMAIN el.wins
    BY DEF ShellInv, ShellOk
  <2>2. Keeps(el, el') /\ JobsOk(el', destroyJobs(el, el.map[n]))
    BY <1>4, <2>1, DestroyWindowOk DEF ShellInv
  <2>3. JobsOk(el', jobs)
    BY <2>2, StaysOk
  <2>4. JobsOk(el', jobs')
    BY <1>4, <2>2, <2>3, JobsOf
  <2> QED
    BY <1>2, <2>2, <2>4, StepBy
<1>5. ASSUME NEW n, el' = el, jobs' = Append(jobs, Job("open", n, 0)) PROVE ShellStep
  <2>1. JobOk(el, Job("open", n, 0)) /\ JobsOk(el, jobs)
    BY HarmlessJob, StaysOk DEF Job
  <2>2. JobsOk(el, jobs')
    BY <1>5, <2>1, JobsOf
  <2> QED
    BY <1>2, <1>5, <2>2, JobStepBy
<1> QED
  BY <1>1, <1>3, <1>4, <1>5 DEF HandleWSEvent

LEMMA ShellSteps ==
  ASSUME ShellInv, ShellNext
  PROVE  ShellStep
<1>1. UserStep => ShellStep
  BY AskedSteps, NewJobSteps, UserClosesSteps, RelaunchSteps DEF UserStep
<1>2. (\E o \in DOMAIN el.wins: WindowStep(o)) => ShellStep
  BY WindowSteps
<1>3. (\E i \in DOMAIN jobs: JobStep(i)) => ShellStep
  BY JobSteps
<1> QED
  BY <1>1, <1>2, <1>3, PageSteps, EventSteps DEF ShellNext

-----------------------------------------------------------------------------
(* ElectronShell: the backend of an earlier session *)

\* Backend, a recursive function, as the function it defines.
Builds(g, start, n) == g = [k \in 0 .. n |-> IF k = 0 THEN EmptyBackend ELSE OneMore(g[k - 1], start[k])]
LEMMA BackendIs ==
  ASSUME NEW start
  PROVE  Backend(start) = (CHOOSE g: Builds(g, start, Len(start)))[Len(start)]
BY Zenon DEF Backend, Builds

LEMMA BuildsExists ==
  ASSUME NEW start, NEW n \in Nat
  PROVE  \E g: Builds(g, start, n)
<1> DEFINE P == {k \in Nat: \E g: Builds(g, start, k)}
<1>1. 0 \in P
  <2> DEFINE g == [k \in 0 .. 0 |-> EmptyBackend]
  <2>1. g = [k \in 0 .. 0 |-> IF k = 0 THEN EmptyBackend ELSE OneMore(g[k - 1], start[k])]
    OBVIOUS
  <2> QED
    BY <2>1 DEF Builds
<1>2. ASSUME NEW k \in P PROVE k + 1 \in P
  <2>1. PICK g: Builds(g, start, k)
    OBVIOUS
  <2> DEFINE h == [m \in 0 .. k + 1 |-> IF m = 0 THEN EmptyBackend ELSE OneMore(g[m - 1], start[m])]
             j == [m \in 0 .. k + 1 |-> IF m = 0 THEN EmptyBackend ELSE OneMore(h[m - 1], start[m])]
  <2>2. \A m \in 0 .. k: g[m] = IF m = 0 THEN EmptyBackend ELSE OneMore(g[m - 1], start[m])
    BY <2>1 DEF Builds
  <2>3. \A m \in 0 .. k: h[m] = g[m]
    BY <2>2
  <2>4. ASSUME NEW m \in 0 .. k + 1 PROVE h[m] = j[m]
    <3>1. CASE m = 0
      BY <3>1
    <3>2. CASE m # 0
      <4>1. m - 1 \in 0 .. k
        BY <3>2
      <4>2. h[m - 1] = g[m - 1]
        BY <2>3, <4>1
      <4>3. h[m] = OneMore(g[m - 1], start[m]) /\ j[m] = OneMore(h[m - 1], start[m])
        BY <3>2
      <4> HIDE DEF h, j
      <4> QED
        BY <4>2, <4>3
    <3> QED
      BY <3>1, <3>2
  <2>5. h = [m \in 0 .. k + 1 |-> h[m]] /\ j = [m \in 0 .. k + 1 |-> j[m]]
    OBVIOUS
  <2>6. h = j
    <3> HIDE DEF h, j
    <3> QED
      BY <2>4, <2>5
  <2>7. Builds(h, start, k + 1)
    BY <2>6 DEF Builds
  <2> QED
    BY <2>7
<1> HIDE DEF P
<1>3. P \in SUBSET Nat
  BY DEF P
<1>4. P = Nat
  BY <1>1, <1>2, <1>3, InductionBySet
<1> QED
  BY <1>4 DEF P

LEMMA OneMoreOk ==
  ASSUME NEW b, BackOk(b), NEW tabs
  PROVE  BackOk(OneMore(b, tabs))
<1> DEFINE w == NewWorkspace(b)
           c == IF tabs = 2 THEN NewTab(w, w.nws) ELSE w
<1>1. BackOk(w)
  BY NewWorkspaceOk DEF SameWindows
<1> HIDE DEF w
<1>2. BackOk(c)
  BY <1>1, NewTabOk DEF SameWindows
<1> HIDE DEF c
<1>3. BackOk(NewBackendWindow(c, w.nws))
  BY <1>2, NewWindowOk DEF OnlyGo
<1> QED
  BY <1>3 DEF OneMore, c, w

LEMMA BackendOk ==
  ASSUME NEW start, Len(start) \in Nat
  PROVE  BackOk(Backend(start))
<1> DEFINE n == Len(start)
<1>1. \E g: Builds(g, start, n)
  BY BuildsExists
<1>2. PICK g: Builds(g, start, n) /\ Backend(start) = g[n]
  BY <1>1, BackendIs
<1>3. \A k \in 0 .. n: g[k] = IF k = 0 THEN EmptyBackend ELSE OneMore(g[k - 1], start[k])
  BY <1>2 DEF Builds
<1> DEFINE P == {k \in Nat: k <= n => BackOk(g[k])}
<1>4. 0 \in P
  <2>1. BackOk(EmptyBackend)
    BY DEF EmptyBackend, BackOk
  <2>2. g[0] = EmptyBackend
    BY <1>3
  <2> QED
    BY <2>1, <2>2
<1>5. ASSUME NEW k \in P PROVE k + 1 \in P
  <2>1. ASSUME k + 1 <= n PROVE BackOk(g[k + 1])
    <3>1. BackOk(g[k]) /\ k + 1 \in 0 .. n /\ k + 1 # 0 /\ k + 1 - 1 = k
      BY <2>1
    <3>2. g[k + 1] = OneMore(g[k], start[k + 1])
      BY <1>3, <3>1
    <3> QED
      BY <3>1, <3>2, OneMoreOk
  <2> QED
    BY <2>1
<1> HIDE DEF P
<1>6. P \in SUBSET Nat
  BY DEF P
<1>7. n \in P
  BY <1>4, <1>5, <1>6, InductionBySet
<1> QED
  BY <1>2, <1>7 DEF P

LEMMA ShellInitInv ==
  ASSUME ShellInit
  PROVE  ShellInv
<1>1. PICK s, x:
        /\ s \in Scenarios /\ be = Backend(s.start) /\ jobs = <<x>> /\ x.kind = "relaunch"
        /\ el = [views |-> <<>>, cache |-> <<>>, hot |-> 0, hotTimer |-> FALSE, wins |-> <<>>,
                 map |-> <<>>, removals |-> {}, relaunching |-> FALSE, quitting |-> FALSE,
                 installing |-> FALSE]
  <2>1. PICK s \in Scenarios:
          /\ be = Backend(s.start)
          /\ jobs = <<[kind |-> "relaunch", n |-> 0, o |-> 0, ids |-> Reverse(Backend(s.start).order)]>>
          /\ el = [views |-> <<>>, cache |-> <<>>, hot |-> 0, hotTimer |-> FALSE, wins |-> <<>>,
                   map |-> <<>>, removals |-> {}, relaunching |-> FALSE, quitting |-> FALSE,
                   installing |-> FALSE]
    BY DEF ShellInit
  <2>2. PICK x: x = [kind |-> "relaunch", n |-> 0, o |-> 0, ids |-> Reverse(Backend(s.start).order)]
    OBVIOUS
  <2>3. jobs = <<x>> /\ x.kind = "relaunch"
    BY <2>1, <2>2
  <2> QED
    BY <2>1, <2>3
<1>2. BackOk(be)
  <2>1. Len(s.start) \in Nat
    BY ScenariosAssumption
  <2> QED
    BY <1>1, <2>1, BackendOk
<1>3. ShellOk(el)
  <2>1. {"wins", "map", "cache", "relaunching"} \subseteq DOMAIN el /\ el.wins = <<>> /\ el.map = <<>> /\ el.cache = <<>>
    BY <1>1
  <2>2. DOMAIN <<>> = {} /\ IsFiniteSet({}) /\ PlainSeq(<<>>)
    <3>1. <<>> \in Seq({})
      OBVIOUS
    <3> QED
      BY <3>1, FS_EmptySet DEF PlainSeq
  <2> QED
    BY <2>1, <2>2 DEF ShellOk
<1>4. JobsOk(el, jobs)
  <2>1. JobOk(el, x)
    BY <1>1, HarmlessJob
  <2> QED
    BY <1>1, <2>1, FewJobs
<1> QED
  BY <1>2, <1>3, <1>4 DEF ShellInv

\* A window leaves the list of the backend, which is what a relaunch and the next start
\* open again, only when its workspace is lost or is being deleted, its last tab is being
\* closed, or its BrowserWindow was closed for good: never because it was relaunched.
THEOREM WindowsAlwaysStay == ShellSpec => OnlyClosedWindowsGo
<1>1. ShellInit => ShellInv
  BY ShellInitInv
<1>2. ShellInv /\ [ShellNext]_winVars => ShellInv'
  <2>1. ASSUME ShellInv, ShellNext PROVE ShellInv'
    BY <2>1, ShellSteps DEF ShellStep
  <2>2. ASSUME ShellInv, UNCHANGED winVars PROVE ShellInv'
    BY <2>2 DEF ShellInv, winVars
  <2> QED
    BY <2>1, <2>2
<1>3. ShellInv /\ [ShellNext]_winVars => [\A n \in DOMAIN be.win \ DOMAIN be'.win: MayGo(n)]_winVars
  <2>1. ASSUME ShellInv, ShellNext PROVE \A n \in DOMAIN be.win \ DOMAIN be'.win: MayGo(n)
    <3>1. OnlyGo(be, be', Goers)
      BY <2>1, ShellSteps DEF ShellStep
    <3> QED
      BY <3>1 DEF OnlyGo, Goers
  <2> QED
    BY <2>1
<1> QED
  BY <1>1, <1>2, <1>3, PTL DEF ShellSpec, OnlyClosedWindowsGo

=============================================================================

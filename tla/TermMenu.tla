------------------------------- MODULE TermMenu -------------------------------
(***************************************************************************)
(* The options of one terminal (frontend/app/view/term/term-model.ts,      *)
(* term.tsx, termtheme.tsx): its menu, whose items set keys of the block's *)
(* meta, and the terminal, which takes its options when it is made, by     *)
(* subscription, and when React commits.                                   *)
(*                                                                         *)
(* Of the keys of a terminal those are here that the menu sets; a value is *)
(* Unset when the meta or the settings have none.                          *)
(* External: the backend, which merges what is set and sends the block     *)
(* back, and other programs that set meta or settings.                     *)
(***************************************************************************)
EXTENDS Integers, FiniteSets, Sequences

CONSTANTS
    MaxChoices,  \* bound on choices of the menu
    MaxForeign   \* bound on what others set
Unset == "unset"

VARIABLES
    meta,     \* the block's meta in the backend
    pageMeta, \* the page's copy
    settings, \* the user's settings in the page
    setting,  \* SetMeta calls and the updates they cause, in order
    menu,     \* the meta the open menu was made of, or Closed
    options,  \* the options of the terminal
    drawn,    \* [font, settings] of the last commit
    choices, foreign
menuVars == <<meta, pageMeta, settings, setting, menu, options, drawn, choices, foreign>>

----------------------------------------------------------------------------
(* The menu *)

Offered ==
    [theme |-> {Unset, "dark"}, font |-> {Unset, "6px", "18px"}, transparency |-> {Unset, "half", "none"},
     bpm |-> {Unset, "on", "off"}, clearonstart |-> {"on", "off"}, runonstart |-> {"on", "off"},
     conndebug |-> {Unset, "info", "debug"}]
CursorItems ==
    {[cursor |-> Unset, blink |-> Unset]} \cup [cursor : {"block", "underline", "bar"}, blink : {"on", "off"}]
Submenus == DOMAIN Offered \cup {"cursors"}
Keys == DOMAIN Offered \cup {"cursor", "blink"}
\* The items of a submenu: what each one sets.
Items(g) == IF g = "cursors" THEN CursorItems ELSE {[k \in {g} |-> v] : v \in Offered[g]}

normalizeCursorStyle(style) == IF style \in {"underline", "bar"} THEN style ELSE "block"
\* Which items are checked.  The cursor's are compared by what they look like.
Checked(g, item, m) ==
    CASE g = "cursors" -> IF m.cursor = Unset /\ m.blink = Unset THEN item.cursor = Unset
                          ELSE /\ item.cursor = normalizeCursorStyle(m.cursor) /\ item.cursor # Unset
                               /\ item.blink = "on" <=> m.blink = "on"
      [] g \in {"clearonstart", "runonstart"} -> item[g] = "on" <=> m[g] = "on"
      [] OTHER -> item[g] = m[g]

\* getContextMenuItems, getSettingsMenuItems: made of the page's copy when it is opened.
OpenMenu ==
    /\ menu = {}
    /\ menu' = {pageMeta}
    /\ UNCHANGED <<meta, pageMeta, settings, setting, options, drawn, choices, foreign>>
\* An item is chosen: what it was made with is sent, whatever became of the block since.
Choose(item) ==
    /\ menu # {} /\ choices < MaxChoices
    /\ menu' = {}
    /\ setting' = Append(setting, [is |-> "set", keys |-> item])
    /\ choices' = choices + 1
    /\ UNCHANGED <<meta, pageMeta, settings, options, drawn, foreign>>
CloseMenu ==
    /\ menu # {}
    /\ menu' = {}
    /\ UNCHANGED <<meta, pageMeta, settings, setting, options, drawn, choices, foreign>>

----------------------------------------------------------------------------
(* External: the backend and others. *)

Merged(m, keys) == [k \in DOMAIN m \cup DOMAIN keys |-> IF k \in DOMAIN keys THEN keys[k] ELSE m[k]]
SetMeta ==
    /\ setting # <<>> /\ Head(setting).is = "set"
    /\ meta' = Merged(meta, Head(setting).keys)
    /\ setting' = Append(Tail(setting), [is |-> "update", keys |-> meta'])
    /\ UNCHANGED <<pageMeta, settings, menu, options, drawn, choices, foreign>>
OthersSetMeta(keys) ==
    /\ foreign < MaxForeign
    /\ meta' = Merged(meta, keys)
    /\ setting' = Append(setting, [is |-> "update", keys |-> meta'])
    /\ foreign' = foreign + 1
    /\ UNCHANGED <<pageMeta, settings, menu, options, drawn, choices>>

----------------------------------------------------------------------------
(* The terminal *)

Options == {"theme", "transparency", "font", "bpm", "cursor", "blink"}
BuiltIn == [theme |-> "default", transparency |-> "half", font |-> "12px", bpm |-> "on", cursor |-> "block", blink |-> "off"]
\* getOverrideConfigAtom, fontSizeAtom: the block's own value, then the settings'.
Effective(k, m, s) == IF m[k] # Unset THEN m[k] ELSE IF s[k] # Unset THEN s[k] ELSE BuiltIn[k]
\* The options of a new terminal.
MadeWith(m, s) == [k \in Options |-> Effective(k, m, s)]
\* The subscriptions of the model, which act as soon as the page's copy changes.
Subscribed == {"bpm", "cursor", "blink"}
\* Mutant: the subscription looks at the block alone.
NotifiedByMeta(o, m, s) == [k \in Options |-> IF k \in Subscribed THEN (IF m[k] = Unset THEN BuiltIn[k] ELSE m[k]) ELSE o[k]]
Notified(o, m, s) == [k \in Options |-> IF k \in Subscribed THEN Effective(k, m, s) ELSE o[k]]

UpdateArrives ==
    /\ setting # <<>> /\ Head(setting).is = "update"
    /\ pageMeta' = Head(setting).keys
    /\ setting' = Tail(setting)
    /\ options' = Notified(options, pageMeta', settings)
    /\ UNCHANGED <<meta, settings, menu, drawn, choices, foreign>>
SettingsChange(k, v) ==
    /\ foreign < MaxForeign
    /\ settings[k] # v
    /\ settings' = [settings EXCEPT ![k] = v]
    /\ options' = Notified(options, pageMeta, settings')
    /\ foreign' = foreign + 1
    /\ UNCHANGED <<meta, pageMeta, setting, menu, drawn, choices>>
\* What the effects of TerminalView and TermThemeUpdater depend on.
Look(m, s) == [font |-> Effective("font", m, s), settings |-> s,
               theme |-> <<Effective("theme", m, s), Effective("transparency", m, s)>>]
\* A terminal is made again when its font or the settings changed; else only the theme is set.
CommitOptions ==
    LET now == Look(pageMeta, settings) IN
    /\ drawn # now
    /\ drawn' = now
    /\ options' = IF now.font # drawn.font \/ now.settings # drawn.settings THEN MadeWith(pageMeta, settings)
                  ELSE [options EXCEPT !.theme = now.theme[1], !.transparency = now.theme[2]]
    /\ UNCHANGED <<meta, pageMeta, settings, setting, menu, choices, foreign>>

NoMeta == [k \in Keys |-> Unset]
MenuInit ==
    /\ meta = NoMeta /\ pageMeta = NoMeta /\ settings = [k \in Options |-> Unset]
    /\ setting = <<>> /\ menu = {}
    /\ options = MadeWith(NoMeta, settings) /\ drawn = Look(NoMeta, settings)
    /\ choices = 0 /\ foreign = 0
MenuNext ==
    \/ OpenMenu \/ CloseMenu \/ SetMeta \/ UpdateArrives \/ CommitOptions
    \/ \E g \in Submenus : \E item \in Items(g) : Choose(item)
    \/ \E v \in {"block", "bar"} : OthersSetMeta([cursor |-> v])
    \/ OthersSetMeta([blink |-> "on"])
    \/ SettingsChange("cursor", "underline") \/ SettingsChange("bpm", "off")
MenuSpec == MenuInit /\ [][MenuNext]_menuVars

----------------------------------------------------------------------------
(* Properties *)

\* An open menu has one item of each submenu checked (term-model.ts:850-1009, 1029-1165),
\* also for a block whose cursor was set by half, so that the user can tell and undo a choice.
OneChecked ==
    \A m \in menu, g \in Submenus : Cardinality({i \in Items(g) : Checked(g, i, m)}) = 1
\* When all has arrived and is committed the terminal has the options that the block, and
\* after it the settings, ask for, whichever of its three ways each one took
\* (term-model.ts:306-331, term.tsx:146-235).
TermApplies ==
    (setting = <<>> /\ drawn = Look(pageMeta, settings)) => options = MadeWith(meta, settings)

\* The menu shows what applies, and what applies is what was chosen (both above).
MenuTells == OneChecked /\ TermApplies
=============================================================================

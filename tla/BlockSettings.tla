---------------------------- MODULE BlockSettings ----------------------------
(***************************************************************************)
(* The settings of a terminal block (frontend/app/store/global.ts,         *)
(* frontend/app/view/term/term-model.ts, term.tsx, termtheme.ts,           *)
(* termutil.ts, frontend/util/util.ts): an option is looked up in the      *)
(* block's meta, its connection's configuration and the settings, and      *)
(* reaches the terminal by one of three ways, a subscription, a render or  *)
(* making the terminal again, while all of them change; and what draws it, *)
(* WebGL or the page, which a button switches and a lost context ends.     *)
(*                                                                         *)
(* External: jotai, which runs a subscription when a derived value         *)
(* changes and marks the components that use it; React, which renders      *)
(* those and runs their effects later, before the next render; the         *)
(* server's rules for a block's durability and for merging meta.           *)
(***************************************************************************)
EXTENDS Integers, SequencesExt

CONSTANTS
    Settings,         \* the values of each setting, by its name after "term:"
    ConnNames,        \* connections a block may have
    MaxConfChanges,   \* bound on the changes
    MaxAddons,        \* bound on the WebGL addons made
    Metas, MetaPrefixes   \* meta maps to merge, and prefixes

SettingKeys == DOMAIN Settings
ASSUME SettingsAssumption ==
    /\ {"allowbracketedpaste", "cursor", "cursorblink", "theme", "transparency", "fontsize", "scrollback",
        "fontfamily", "macoptionismeta", "disablewebgl", "durable"} \subseteq SettingKeys
    /\ \A k \in SettingKeys : Settings[k] \subseteq Int
ASSUME MetasAssumption == MetaPrefixes \subseteq Seq(STRING) /\ \A meta \in Metas : DOMAIN meta \subseteq Seq(STRING)

VARIABLES
    conf,     \* [meta, settings: values, conns: values of each connection, connection, themes: those configured]
    termObj,  \* number of the object of the "term:" settings: deepCompareReturnPrev keeps it while they are equal
    renders,  \* components to be rendered: "view" (TerminalView), "theme" (TermThemeUpdater)
    handed,   \* what the last render hands to its effects, if they did not run yet
    term,     \* the terminal: [deps: what it was made for, opts: its options]
    made,     \* number of terminals made for the block
    causes,   \* number of changes that call for another
    changes,  \* number of changes
    unseen,   \* options that changed by a way nothing watches since
    merging,  \* a meta update that is looked at: <<>> or <<meta, update>>
    gl        \* [supported: WebGLSupported, addon: webglAddon or 0, heard: that whose lost context is heard, or 0,
              \*  shown: webglEnabledAtom, alive: addons in use, last: number of those made, asked: what was last asked for]

settingVars == <<conf, termObj, renders, handed, term, made, causes, unseen, changes>>
blockSettingVars == <<settingVars, merging, gl>>

NotSet == -1
NoConn == ""
SettingValues == [SettingKeys -> Int]
NoValues == [k \in SettingKeys |-> NotSet]
Or(v, default) == IF v = NotSet THEN default ELSE v

----------------------------------------------------------------------------
(* global.ts and util.ts: looking up *)

isLocalConn(c) == c \in {NoConn, "local"}
isWslConnName(c) == c = "wsl"
getBlockMetaKeyAtom(c, k) == c.meta[k]
getConnConfigKeyAtom(c, k) == IF c.connection = NoConn THEN NotSet ELSE c.conns[c.connection][k]
getSettingsKeyAtom(c, k) == c.settings[k]
getOverrideConfigAtom(c, k) ==
    Or(getBlockMetaKeyAtom(c, k), Or(getConnConfigKeyAtom(c, k), getSettingsKeyAtom(c, k)))

\* Is a block kept on by its job? "none" when it cannot be; b: [term, shell, job].
getBlockTermDurableAtom(c, b) ==
    IF ~b.term \/ ~b.shell THEN "none"
    ELSE IF b.job THEN "yes"
    ELSE IF isLocalConn(c.connection) \/ isWslConnName(c.connection) THEN "none"
    ELSE IF Or(getOverrideConfigAtom(c, "durable"), 1) = 1 THEN "yes" ELSE "no"
\* The server's rule, under which a connection without a job is never durable.
IsBlockTermDurable(b) == b.term /\ b.shell /\ b.job

getPrefixedSettings(settings) == [k \in SettingKeys |-> settings[k]]
boundNumber(n, low, high) == IF n < low THEN low ELSE IF n > high THEN high ELSE n

----------------------------------------------------------------------------
(* util.ts: merging; a key is the sequence of its parts, "bg:*" <<"bg", "*">> *)

HasPrefix(k, prefix) == Len(k) > Len(prefix) /\ IsPrefix(prefix, k)
shouldIncludeKey(k, prefix) ==
    CASE prefix = <<"any">> -> TRUE
      [] prefix = <<>> -> Len(k) = 1
      [] OTHER -> HasPrefix(k, prefix)
IsSection(k) == Len(k) > 1 /\ k[Len(k)] = "*"
Section(k) == Front(k)
InSection(k, section) == k = section \/ HasPrefix(k, section)
\* In an update, 0 is null (or false, of a section) and deletes its key.
MergedSection(meta, update, sections, keys) ==
    LET gone == {k \in DOMAIN meta : \E s \in sections : InSection(k, Section(s))}
        set == {k \in DOMAIN update \cap keys : ~IsSection(k)}
    IN  [k \in {k \in ((DOMAIN meta \cap keys) \ gone) \cup set : k \in set => update[k] # 0} |->
            IF k \in set THEN update[k] ELSE meta[k]]
mergeMeta(meta, update, prefix) ==
    MergedSection(meta, update,
           {k \in DOMAIN update : IsSection(k) /\ update[k] # 0 /\ Section(k) # <<"">> /\ shouldIncludeKey(Section(k), prefix)},
           {k \in DOMAIN meta \cup DOMAIN update : shouldIncludeKey(k, prefix)})
\* The server's, with mergeSpecial.
MergeMeta(meta, update) ==
    MergedSection(meta, update, {k \in DOMAIN update : IsSection(k) /\ update[k] # 0 /\ Section(k) # <<"">>}, DOMAIN meta \cup DOMAIN update)

----------------------------------------------------------------------------
(* term-model.ts and term.tsx: the options of a terminal *)

normalizeCursor(v) == IF v \in {1, 2} THEN v ELSE 0
allowBPM(c) == Or(getOverrideConfigAtom(c, "allowbracketedpaste"), 1)
cursorStyle(c) == normalizeCursor(getOverrideConfigAtom(c, "cursor"))
cursorBlink(c) == Or(getOverrideConfigAtom(c, "cursorblink"), 0)
termThemeName(c) == Or(getOverrideConfigAtom(c, "theme"), 0)
termTransparency(c) == boundNumber(Or(getOverrideConfigAtom(c, "transparency"), 50), 0, 100)
fontSize(c) == LET size == Or(getOverrideConfigAtom(c, "fontsize"), 12) IN IF size < 4 \/ size > 64 THEN 12 ELSE size
macOptionIsMeta(c) == Or(getOverrideConfigAtom(c, "macoptionismeta"), 0)
connFontFamily(c) == getConnConfigKeyAtom(c, "fontfamily")
\* The default theme, 0, is always there.
computeTheme(c) == <<IF termThemeName(c) \in c.themes THEN termThemeName(c) ELSE 0, termTransparency(c)>>
\* From the settings and the meta of the render.
scrollback(settings, meta) ==
    boundNumber(IF meta["scrollback"] \notin {NotSet, 0} THEN meta["scrollback"]
                ELSE IF settings["scrollback"] \notin {NotSet, 0} THEN settings["scrollback"] ELSE 2000, 0, 50000)
fontFamily(settings, family) == Or(settings["fontfamily"], Or(family, 0))

Deps(c, obj) == <<obj, fontSize(c), connFontFamily(c)>>
Drawn(c, obj) == [view |-> "view" \in renders, deps |-> Deps(c, obj), settings |-> getPrefixedSettings(c.settings), meta |-> c.meta, theme |-> computeTheme(c)]
\* The effect that makes the terminal takes some options from the render, the others from now.
Made(c, d) ==
    [deps |-> d.deps,
     opts |-> [theme |-> computeTheme(c), size |-> d.deps[2], family |-> fontFamily(d.settings, d.deps[3]),
               scroll |-> scrollback(d.settings, d.meta), bpm |-> allowBPM(c), mac |-> macOptionIsMeta(c),
               cursor |-> cursorStyle(c), blink |-> cursorBlink(c), webgl |-> Or(d.settings["disablewebgl"], 0) = 0]]

----------------------------------------------------------------------------
(* Changes: of the block, or of the configuration as a whole *)

\* Mutant: every configuration that is sent has an object of its own.
deepCompareReturnPrevNever(prev, new) == termObj + 1
\* The previous object when the new one is equal to it.
deepCompareReturnPrev(prev, new) == IF new = prev THEN termObj ELSE termObj + 1
getSettingsPrefixAtom(old, new) == deepCompareReturnPrev(getPrefixedSettings(old.settings), getPrefixedSettings(new.settings))
\* Subscriptions to derived values.
Watched(opts, old, new) ==
    LET Looked(k, have, now) == IF getOverrideConfigAtom(new, k) # getOverrideConfigAtom(old, k) THEN now ELSE have
    IN  [opts EXCEPT !.bpm = Looked("allowbracketedpaste", @, allowBPM(new)),
                     !.cursor = Looked("cursor", @, cursorStyle(new)),
                     !.blink = Looked("cursorblink", @, cursorBlink(new))]
Marked(old, new, byBlock) ==
    (IF byBlock \/ getSettingsPrefixAtom(old, new) # termObj \/ fontSize(new) # fontSize(old) THEN {"view"} ELSE {})
    \cup (IF ~byBlock \/ termThemeName(new) # termThemeName(old) \/ termTransparency(new) # termTransparency(old)
          THEN {"theme"} ELSE {})
\* Options that nothing watches: a terminal has them from when it was made.
Unwatched(old, new) ==
    {o \in {"mac", "scroll", "family"} :
        CASE o = "mac" -> macOptionIsMeta(new) # macOptionIsMeta(old)
          [] o = "scroll" -> new.meta["scrollback"] # old.meta["scrollback"]
          [] o = "family" -> connFontFamily(new) # connFontFamily(old)}

Changes(new, byBlock) ==
    /\ changes < MaxConfChanges
    /\ changes' = changes + 1
    /\ conf' = new
    /\ termObj' = getSettingsPrefixAtom(conf, new)
    /\ renders' = renders \cup Marked(conf, new, byBlock)
    /\ term' = [term EXCEPT !.opts = Watched(@, conf, new)]
    /\ unseen' = unseen \cup Unwatched(conf, new)
    /\ causes' = causes + (IF (\E k \in SettingKeys : new.settings[k] # conf.settings[k]) \/ fontSize(new) # fontSize(conf) \/ connFontFamily(new) # connFontFamily(conf)
                           THEN 1 ELSE 0)
    /\ UNCHANGED <<handed, made, merging, gl>>

ChangeMeta(k, v) == Changes([conf EXCEPT !.meta[k] = v], TRUE)
ChangeConnection(c) == Changes([conf EXCEPT !.connection = c], TRUE)
ChangeConn(c, k, v) == Changes([conf EXCEPT !.conns[c][k] = v], FALSE)
ChangeSetting(k, v) == Changes([conf EXCEPT !.settings[k] = v], FALSE)
ChangeThemes(themes) == Changes([conf EXCEPT !.themes = themes], FALSE)
\* The configuration is sent again, a setting of other parts changed in it or none.
ChangeOther(v) == Changes([conf EXCEPT !.settings["other"] = v], FALSE)

----------------------------------------------------------------------------
(* Rendering *)

NotDrawn == [view |-> FALSE, deps |-> <<>>, settings |-> NoValues, meta |-> NoValues, theme |-> <<>>]
Render ==
    /\ renders # {} /\ handed = NotDrawn
    /\ handed' = Drawn(conf, termObj)
    /\ renders' = {}
    /\ UNCHANGED <<conf, termObj, term, made, causes, unseen, changes, merging, gl>>

\* setTermRenderer: nothing is done when it is what is used.
getTermRenderer(g) == IF g.addon # 0 THEN "webgl" ELSE "dom"
WithoutAddon(g) == [g EXCEPT !.alive = @ \ {g.addon}, !.addon = 0, !.heard = 0, !.shown = FALSE]
setTermRenderer(g, renderer) ==
    IF renderer = getTermRenderer(g) THEN g
    ELSE IF renderer = "webgl" /\ g.supported
    THEN [g EXCEPT !.last = @ + 1, !.addon = g.last + 1, !.heard = g.last + 1, !.alive = @ \cup {g.last + 1}, !.shown = TRUE]
    ELSE WithoutAddon(g)
\* dispose, which leaves the addon to xterm, and the constructor of the next terminal.
Renewed(g, disabled) ==
    LET renderer == IF g.supported /\ ~disabled THEN "webgl" ELSE "dom"
    IN  setTermRenderer([WithoutAddon(g) EXCEPT !.asked = renderer], renderer)
getWebGlIconButton(g) == IF ~g.supported THEN "not supported" ELSE IF g.shown THEN "enabled" ELSE "disabled"
toggleWebGl ==
    LET renderer == IF getTermRenderer(gl) = "webgl" THEN "dom" ELSE "webgl"
    IN  /\ getWebGlIconButton(gl) # "not supported"
        /\ gl.last < MaxAddons
        /\ gl' = setTermRenderer([gl EXCEPT !.asked = IF gl.shown THEN "dom" ELSE "webgl"], renderer)
        /\ UNCHANGED <<settingVars, merging>>
\* External: the context of an addon in use is lost for good.
ContextLost(n) ==
    /\ n \in gl.alive
    /\ gl' = IF n = gl.heard THEN setTermRenderer([gl EXCEPT !.asked = "dom"], "dom") ELSE gl
    /\ UNCHANGED <<settingVars, merging>>

\* The child's effect sets the theme, the parent's makes another terminal when
\* what it depends on is not what it was.
SettingEffects ==
    LET again == handed.view /\ handed.deps # term.deps
    IN  /\ handed # NotDrawn
        /\ term' = IF again THEN Made(conf, handed) ELSE [term EXCEPT !.opts.theme = handed.theme]
        /\ made' = made + (IF again THEN 1 ELSE 0)
        /\ unseen' = IF ~again THEN unseen
                     ELSE (Unwatched([conf EXCEPT !.meta = handed.meta], conf) \ {"mac"})
                          \cup (IF handed.deps[3] # connFontFamily(conf) THEN {"family"} ELSE {})
        /\ handed' = NotDrawn
        /\ gl' = IF again THEN Renewed(gl, Or(handed.settings["disablewebgl"], 0) # 0) ELSE gl
        /\ UNCHANGED <<conf, termObj, renders, causes, changes, merging>>

\* An update is merged into the meta of an object; this stands for every such one.
AtStart == changes = 0 /\ conf.connection = NoConn /\ merging = <<>> /\ gl.addon = 1
Merging(meta, update) ==
    /\ AtStart
    /\ merging' = <<meta, update>>
    /\ UNCHANGED <<settingVars, gl>>

SettingsInit ==
    /\ conf \in {[meta |-> NoValues, settings |-> [k \in SettingKeys \cup {"other"} |-> NotSet], conns |-> [n \in ConnNames |-> NoValues], connection |-> c,
                  themes |-> {1}] : c \in ConnNames \cup {NoConn}}
    /\ termObj = 1 /\ renders = {} /\ handed = NotDrawn
    /\ term = Made(conf, [Drawn(conf, 1) EXCEPT !.view = TRUE])
    /\ made = 1 /\ causes = 0 /\ unseen = {} /\ changes = 0 /\ merging = <<>>
    /\ gl \in {Renewed([supported |-> s, addon |-> 0, heard |-> 0, shown |-> FALSE, alive |-> {}, last |-> 0, asked |-> "dom"], FALSE) : s \in BOOLEAN}

SettingsNext ==
    \/ \E k \in SettingKeys : \E v \in Settings[k] \cup {NotSet} :
           \/ ChangeMeta(k, v)
           \/ ChangeSetting(k, v)
           \/ \E c \in ConnNames : ChangeConn(c, k, v)
    \/ \E c \in ConnNames \cup {NoConn} : ChangeConnection(c)
    \/ \E themes \in SUBSET {1, 2} : ChangeThemes(themes)
    \/ \E v \in {NotSet, 0} : ChangeOther(v)
    \/ Render
    \/ SettingEffects
    \/ toggleWebGl
    \/ \E n \in gl.alive : ContextLost(n)
    \/ AtStart /\ \E meta, update \in Metas : Merging(meta, update)
SettingsSpec == SettingsInit /\ [][SettingsNext]_blockSettingVars

----------------------------------------------------------------------------
(* What the options should be *)

FirstSet(values, default) ==
    LET set == {i \in DOMAIN values : values[i] # NotSet} IN IF set = {} THEN default ELSE values[Min(set)]
ByRank(k, default) ==
    FirstSet(IF conf.connection = NoConn THEN <<conf.meta[k], conf.settings[k]>>
             ELSE <<conf.meta[k], conf.conns[conf.connection][k], conf.settings[k]>>, default)
NotZero(n) == IF n = 0 THEN NotSet ELSE n
Within(n, low, high) == Max({low, Min({n, high})})
WantedOptions ==
    [theme |-> <<IF ByRank("theme", 0) \in conf.themes THEN ByRank("theme", 0) ELSE 0, Within(ByRank("transparency", 50), 0, 100)>>,
     size |-> IF ByRank("fontsize", 12) \in 4..64 THEN ByRank("fontsize", 12) ELSE 12,
     family |-> FirstSet(<<conf.settings["fontfamily"], IF conf.connection = NoConn THEN NotSet ELSE conf.conns[conf.connection]["fontfamily"]>>, 0),
     scroll |-> Within(FirstSet(<<NotZero(conf.meta["scrollback"]), NotZero(conf.settings["scrollback"])>>, 2000), 0, 50000),
     bpm |-> ByRank("allowbracketedpaste", 1), mac |-> ByRank("macoptionismeta", 0),
     cursor |-> IF ByRank("cursor", 0) \in {1, 2} THEN ByRank("cursor", 0) ELSE 0,
     blink |-> ByRank("cursorblink", 0), webgl |-> conf.settings["disablewebgl"] \in {NotSet, 0}]

\* The terminal has the options of the configuration once everything was drawn,
\* those of subscriptions at any time; those that nothing watches until they
\* change by the block or the connection.
OptionsShown ==
    LET wanted == WantedOptions
    IN  /\ \A o \in {"bpm", "cursor", "blink"} : term.opts[o] = wanted[o]
        /\ (renders = {} /\ handed = NotDrawn) => \A o \in DOMAIN wanted \ unseen : term.opts[o] = wanted[o]
\* It is made again only when a setting of terminals, its font's size or its
\* connection's font changed: not when other settings did.
MadeForCause == made <= 1 + causes
\* The page says that a block is durable just when the server does ("should be kept up
\* to date with", of both): they differ on a connection of a block that has no job yet.
DurableKeptUpToDate ==
    \A b \in [term : BOOLEAN, shell : BOOLEAN, job : BOOLEAN] : IsBlockTermDurable(b) <=> getBlockTermDurableAtom(conf, b) = "yes"
\* Merging the keys of a prefix is the part of the server's merge with that
\* prefix, unless the update drops the prefix's own section.
MergeAgrees ==
    merging # <<>> =>
        \A p \in MetaPrefixes :
            LET meta == merging[1]
                update == merging[2]
                all == MergeMeta(meta, update)
            IN  \/ \E s \in DOMAIN update : IsSection(s) /\ update[s] # 0 /\ p # <<>> /\ InSection(p, Section(s))
                \/ mergeMeta(meta, update, p) = [k \in {k \in DOMAIN all : shouldIncludeKey(k, p)} |-> all[k]]
\* One addon at most is in use, that of the terminal, and its lost context is heard; the
\* button says which one draws: WebGL when that was last asked for, by the setting, the
\* button or a lost context, and there is such a thing.
RendererTells ==
    /\ gl.alive = {gl.addon} \ {0} /\ gl.heard = gl.addon
    /\ getTermRenderer(gl) = (IF gl.supported THEN gl.asked ELSE "dom")
    /\ getWebGlIconButton(gl) = (IF ~gl.supported THEN "not supported" ELSE IF gl.addon # 0 THEN "enabled" ELSE "disabled")
\* A terminal's options are those of its block, its connection and the settings.
SettingsTell == OptionsShown /\ MadeForCause /\ MergeAgrees /\ RendererTells
=============================================================================

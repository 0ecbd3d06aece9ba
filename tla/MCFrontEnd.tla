----------------------------- MODULE MCFrontEnd -----------------------------
(***************************************************************************)
(* Small instances of the parts of a page.  They share no state; each      *)
(* behavior is one of the part that its first state names, the others      *)
(* stay as they begin.                                                     *)
(***************************************************************************)
EXTENDS TermOutput, TermControl, TermShell, TermMenu, PageFocus, PageKeys,
        TabBar, TreeView, ConfigEditor, Badges, TabName, TileGeometry,
        AppKeys, IJson, TermClip, BlockSettings, QuakeWindow, AppMenus
CONSTANTS a, b, body, p1, p2

\* Either the status of the job is followed or the controller's.
JobsStill == job'.changes = 0 /\ job'.stamp = 0 /\ jobView'.asked # "failed"
\* One command at a time: then one of a command that fails, another connection and a process
\* that fails; or two of them at a time.
CtlOdd ==
    {x \in {"fails", "conn", "code"} :
        CASE x = "fails" -> fails' > 0
          [] x = "conn"  -> {view'.conn, view'.lastConn} # {"local"} \/ \E k \in DOMAIN shells' : shells'[k].conn # "local"
          [] OTHER       -> \E k \in DOMAIN shells' : shells'[k].code # 0}
OneCommand ==
    /\ Len(tasks') <= 1 /\ (view'.busy => tasks' # <<>>) /\ (view'.sized => ~view'.asked)
    /\ Cardinality(CtlOdd) <= 1 /\ Cardinality(CtlOdd) + Cardinality(told') <= 2
TwoCommands ==
    /\ CtlOdd = {} /\ ~view'.busy /\ Cardinality(told') <= 1
    /\ tasks' # <<>> => ~view'.asked /\ view'.sized
CtlStill ==
    /\ UNCHANGED <<shells, ctl, tasks, fails>> /\ ~view'.sized /\ ctl.said.version = 1 /\ Runs(ctl.reg)
    /\ told' = {} /\ (Open => view'.asked) /\ ~view'.busy /\ view'.conn = "local"

\* What is on the clipboard, and the buffers and clipboards that are read.
It(k, t, v) == [kind |-> k, type |-> t, val |-> v]
MCContents ==
    {Text("x"), <<It("string", "html", "h"), It("string", "plain", "x"),
                  It("file", "image", "i1"), It("file", "image", "i2")>>}
Its == {It("file", "image", "i"), It("file", "pdf", "p"), It("string", "plain", "x"), It("string", "html", "h"),
        It("string", "plain", ""), It("string", "html", ""), It("string", "", "g"), It("string", "pdf", "r")}
MCClipboards == UNION {[1..n -> Its] : n \in 0..2}
Rows == {[text |-> t, wraps |-> w] : t \in {<<>>, <<"x">>}, w \in BOOLEAN}
MCBuffers == UNION {[1..n -> Rows] : n \in 0..2}
\* One of: pastes, what programs ask for, searches and selections, colors.
Pasting ==
    /\ output' = <<>> /\ sel' = NoSel /\ ~selTimer' /\ ~find'.open /\ paint' = NoPaint
    /\ (wrap'.mirrors => Len(asked') < 2) /\ Len(sent') + Len(pastes') < 3
Asking ==
    /\ asked' = <<>> /\ sel' = NoSel /\ ~selTimer' /\ ~find'.open /\ paint' = NoPaint
    /\ InputValues(sent') \in {<<>>, <<"answer">>, <<"answer", "answer">>}
Searching ==
    /\ asked' = <<>> /\ sent' = <<>> /\ output' = <<>> /\ paint' = NoPaint /\ wrap'.gen = 1 /\ ~wrap'.mirrors
Painting ==
    /\ asked' = <<>> /\ sent' = <<>> /\ output' = <<>> /\ sel' = NoSel /\ ~selTimer' /\ ~find'.open
    /\ wrap'.gen = 1 /\ ~wrap'.mirrors

MCParent == <<0, 1, 1, 1, 2, 2>>

MCSettings ==
    [allowbracketedpaste |-> {0, 1}, cursor |-> {1, 3}, cursorblink |-> {1}, theme |-> {1, 2},
     transparency |-> {0, 120}, fontsize |-> {3, 20}, scrollback |-> {0, 60000}, fontfamily |-> {1},
     macoptionismeta |-> {1}, disablewebgl |-> {0, 1}, durable |-> {0, 1}]
MetaKeys == {<<"view">>, <<"bg">>, <<"bg", "a">>, <<"bg", "*">>, <<"", "*">>}
MCMetas == UNION {[ks -> {0, 1}] : ks \in {ks \in SUBSET MetaKeys : Cardinality(ks) <= 2}}
MCPrefixes == {<<"any">>, <<>>, <<"bg">>, <<"view">>}
\* One key is set anywhere, and changed twice; or meta maps are merged.
ChangedKeys(c) ==
    {k \in SettingKeys : c.meta[k] # NotSet \/ c.settings[k] # NotSet \/ \E n \in ConnNames : c.conns[n][k] # NotSet}
OneOption ==
    /\ Cardinality(ChangedKeys(conf')) <= 1
    /\ merging' # <<>> =>
          /\ changes' = 0 /\ renders' = {} /\ conf.connection = NoConn
          /\ \A k \in DOMAIN merging'[1] : merging'[1][k] = 1 /\ ~IsSection(k)
    /\ gl' # gl => ((ChangedKeys(conf) \subseteq {"disablewebgl"} /\ merging = <<>>) \/ made' > made)
    /\ ~gl.supported => (changes' <= 1 /\ merging' = <<>>)

Box(x, y, w, h) == [x |-> x, y |-> y, width |-> w, height |-> h]
MCDisplays ==
    <<[bounds |-> Box(0, 0, 1920, 1080), area |-> Box(0, 25, 1920, 1055)],
      [bounds |-> Box(1920, 200, 700, 600), area |-> Box(1920, 200, 700, 560)]>>
MCRawKeys ==
    {<<>>, <<<<"word", "Cmd">>, <<"lower", "a">>>>, <<<<"word", "Cmd">>, <<"upper", "a">>>>,
     <<<<"word", "ArrowUp">>>>, <<<<"digit", "1">>>>, <<<<"word", "nokey">>>>}
MCPlaces ==
    {Box(x, y, w, h) : x \in {-3000, -100, 1500, 2000}, y \in {-100, 0, 500, 2000},
                        w \in {600, 2500}, h \in {400, 1080}}
MCSizes ==
    {[width |-> w, height |-> h, x |-> x, y |-> y, dims |-> d] :
        w \in {0, 500, 2500}, h \in {0, 400, 1200}, x \in {-100, 100, 2000, 5000},
        y \in {100, 700}, d \in {<<0, 0>>, <<1000, 700>>}}

\* Context menus: one without items, one with an item that does something and one without.
MCShapes == {<<>>, [i |-> TRUE, j |-> FALSE]}
\* One of: builds of the menu, context menus, zooming.
NoBuilding == UNCHANGED server /\ built' = 0 /\ events'.spaces = 0 /\ events'.windows = 0
NoZoom == zoom'.factor = 10 /\ \A p \in MenuPages : zoom'.told[p] = <<>>
BuildsMenu == popups' = <<>> /\ NoZoom /\ activePage' = 1 /\ built' + events'.spaces + events'.windows + server'.due <= 3
ShowsMenus == NoBuilding /\ NoZoom
Zooms == NoBuilding /\ popups' = <<>> /\ UNCHANGED activePage

VARIABLE part \* the part that runs

\* One of the first states of each part that does not run.
MCInit ==
    /\ part \in {"output", "control", "restarts", "shell", "menu", "focus", "keys", "bar", "tree",
                "config", "badges", "name", "tiles", "app", "ijson", "clip", "settings",
                "quake", "menus"}
    /\ TermOutputInit
    /\ CtlInit /\ (part \in {"control", "restarts"} \/ Runs(ctl.reg))
    /\ ShellInit
    /\ MenuInit
    /\ FocusInit /\ panes = {a}
    /\ KeysInit /\ front = p1
    /\ BarInit /\ order = <<"a", "b", "c">> /\ (part = "bar" \/ left)
    /\ TreeInit
    /\ ConfInit /\ (part = "config" \/ (metaFile = NoFile /\ disk = [f \in ConfFiles |-> ""]))
    /\ BadgesInit
    /\ NameInit /\ (part = "name" \/ (name = "x" /\ vertical))
    /\ TileInit /\ (part = "tiles" \/ tiles = Lone)
    /\ AppInit /\ leaves = {1, 2} /\ (part = "app" \/ (platform = "linux" /\ focused = {1}))
    /\ IJsonInit /\ (part = "ijson" \/ doc = Null)
    /\ ClipInit /\ clip.items = Text("x")
    /\ SettingsInit /\ (part = "settings" \/ (gl.supported /\ conf.connection = NoConn))
    /\ QuakeInit
    /\ AppMenuInit /\ activePage = 1

MCNext ==
    \/ part = "output" /\ ~spoiled /\ TermOutputNext
       /\ UNCHANGED <<part, ctlVars, shellVars, menuVars, focusVars, keyVars, barVars, treeVars, confVars,
                      badgeVars, nameVars, tileVars, appVars, ijsonVars, clipVars, blockSettingVars,
                      quakeVars, appMenuVars>>
    \/ part \in {"control", "restarts"} /\ CtlNext
       /\ (IF part = "control" THEN CtlStill \/ (JobsStill /\ OneCommand) ELSE JobsStill /\ TwoCommands)
       /\ UNCHANGED <<part, termVars, shellVars, menuVars, focusVars, keyVars, barVars, treeVars, confVars,
                      badgeVars, nameVars, tileVars, appVars, ijsonVars, clipVars, blockSettingVars,
                      quakeVars, appMenuVars>>
    \/ part = "shell" /\ ShellNext
       /\ UNCHANGED <<part, termVars, ctlVars, menuVars, focusVars, keyVars, barVars, treeVars, confVars,
                      badgeVars, nameVars, tileVars, appVars, ijsonVars, clipVars, blockSettingVars,
                      quakeVars, appMenuVars>>
    \/ part = "menu" /\ MenuNext
       /\ UNCHANGED <<part, termVars, ctlVars, shellVars, focusVars, keyVars, barVars, treeVars, confVars,
                      badgeVars, nameVars, tileVars, appVars, ijsonVars, clipVars, blockSettingVars,
                      quakeVars, appMenuVars>>
    \/ part = "focus" /\ FocusNext
       /\ UNCHANGED <<part, termVars, ctlVars, shellVars, menuVars, keyVars, barVars, treeVars, confVars,
                      badgeVars, nameVars, tileVars, appVars, ijsonVars, clipVars, blockSettingVars,
                      quakeVars, appMenuVars>>
    \* Either modifiers are pressed or other keys: their models share only the page.
    \/ part = "keys" /\ KeysNext /\ (holds' = 0 \/ fate' = <<>>)
       /\ UNCHANGED <<part, termVars, ctlVars, shellVars, menuVars, focusVars, barVars, treeVars, confVars,
                      badgeVars, nameVars, tileVars, appVars, ijsonVars, clipVars, blockSettingVars,
                      quakeVars, appMenuVars>>
    \/ part = "bar" /\ BarNext /\ drags' + tabChanges' <= 2
       /\ UNCHANGED <<part, termVars, ctlVars, shellVars, menuVars, focusVars, keyVars, treeVars, confVars,
                      badgeVars, nameVars, tileVars, appVars, ijsonVars, clipVars, blockSettingVars,
                      quakeVars, appMenuVars>>
    \/ part = "tree" /\ TreeNext
       /\ UNCHANGED <<part, termVars, ctlVars, shellVars, menuVars, focusVars, keyVars, barVars, confVars,
                      badgeVars, nameVars, tileVars, appVars, ijsonVars, clipVars, blockSettingVars,
                      quakeVars, appMenuVars>>
    \/ part = "config" /\ ConfNext /\ confFails' + edits' <= 2
       /\ UNCHANGED <<part, termVars, ctlVars, shellVars, menuVars, focusVars, keyVars, barVars, treeVars,
                      badgeVars, nameVars, tileVars, appVars, ijsonVars, clipVars, blockSettingVars,
                      quakeVars, appMenuVars>>
    \/ part = "badges" /\ BadgesNext /\ Len(toPage') <= 2 /\ Len(toStore') <= 2 /\ badgeIds' + badgeActs' <= 2
       /\ UNCHANGED <<part, termVars, ctlVars, shellVars, menuVars, focusVars, keyVars, barVars, treeVars,
                      confVars, nameVars, tileVars, appVars, ijsonVars, clipVars, blockSettingVars, quakeVars,
                      appMenuVars>>
    \/ part = "name" /\ NameNext
       /\ UNCHANGED <<part, termVars, ctlVars, shellVars, menuVars, focusVars, keyVars, barVars, treeVars,
                      confVars, badgeVars, tileVars, appVars, ijsonVars, clipVars, blockSettingVars,
                      quakeVars, appMenuVars>>
    \/ part = "tiles" /\ dropped = {} /\ TileNext
       /\ UNCHANGED <<part, termVars, ctlVars, shellVars, menuVars, focusVars, keyVars, barVars, treeVars,
                      confVars, badgeVars, nameVars, appVars, ijsonVars, clipVars, blockSettingVars,
                      quakeVars, appMenuVars>>
    \/ part = "app" /\ (keys < 2 \/ (pressed.key = "w" /\ pressed.at = "page"))
       /\ AppNext /\ (keys' <= 2 \/ pressed'.key = "w")
       /\ UNCHANGED <<part, termVars, ctlVars, shellVars, menuVars, focusVars, keyVars, barVars, treeVars,
                      confVars, badgeVars, nameVars, tileVars, ijsonVars, clipVars, blockSettingVars,
                      quakeVars, appMenuVars>>
    \/ part = "ijson" /\ IJsonNext /\ (last'.n < 2 \/ last'.value \in {Leaf, Null})
       /\ UNCHANGED <<part, termVars, ctlVars, shellVars, menuVars, focusVars, keyVars, barVars, treeVars,
                      confVars, badgeVars, nameVars, tileVars, appVars, clipVars, blockSettingVars, quakeVars,
                      appMenuVars>>
    \/ part = "clip" /\ ClipNext /\ (Pasting \/ Asking \/ Searching \/ Painting)
       /\ UNCHANGED <<part, termVars, ctlVars, shellVars, menuVars, focusVars, keyVars, barVars, treeVars,
                      confVars, badgeVars, nameVars, tileVars, appVars, ijsonVars, blockSettingVars,
                      quakeVars, appMenuVars>>
    \/ part = "settings" /\ SettingsNext /\ OneOption
       /\ UNCHANGED <<part, termVars, ctlVars, shellVars, menuVars, focusVars, keyVars, barVars, treeVars,
                      confVars, badgeVars, nameVars, tileVars, appVars, ijsonVars, clipVars, quakeVars,
                      appMenuVars>>
    \/ part = "quake" /\ QuakeNext /\ placed = <<>> /\ (hotkey'.sent < 2 \/ presses' = 0) /\ (hotkey'.taken = {} \/ presses' = 0)
       /\ UNCHANGED <<part, termVars, ctlVars, shellVars, menuVars, focusVars, keyVars, barVars, treeVars,
                      confVars, badgeVars, nameVars, tileVars, appVars, ijsonVars, clipVars, blockSettingVars,
                      appMenuVars>>
    \/ part = "menus" /\ AppMenuNext /\ (BuildsMenu \/ ShowsMenus \/ Zooms)
       /\ UNCHANGED <<part, termVars, ctlVars, shellVars, menuVars, focusVars, keyVars, barVars, treeVars,
                      confVars, badgeVars, nameVars, tileVars, appVars, ijsonVars, clipVars, blockSettingVars,
                      quakeVars>>
MCVars == <<part, termVars, ctlVars, shellVars, menuVars, focusVars, keyVars, barVars, treeVars,
            confVars, badgeVars, nameVars, tileVars, appVars, ijsonVars, clipVars, blockSettingVars,
            quakeVars, appMenuVars>>
MCSpec == MCInit /\ [][MCNext]_MCVars
=============================================================================

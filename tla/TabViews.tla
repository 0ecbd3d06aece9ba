------------------------------ MODULE TabViews ------------------------------
(***************************************************************************)
(* The views of the Electron shell and their cache (emain-tabview.ts).  A  *)
(* view is a web page that shows one tab for good; the cache finds the view *)
(* of a tab, a hot spare waits for the next tab, and views that are not in *)
(* use are destroyed when there are too many.                              *)
(*                                                                         *)
(* The definitions are functions on the record e of the shell's state, of  *)
(* which this module uses the fields                                       *)
(*   views   all views ever made, by number: see NewRecord                 *)
(*   cache   wcvCache, a function from tabs to views                       *)
(*   hot     HotSpareTab, 0 for none; hotTimer: ensureHotSpareTab is due   *)
(*   wins    the browser windows (BrowserWindows)                          *)
(*   map     doraWindowMap, a function from window ids to browser windows  *)
(***************************************************************************)
EXTENDS Integers, FiniteSets, SequencesExt

CONSTANTS
    MaxViews,       \* bound on the views of a behaviour
    MaxCacheSize    \* setMaxTabCacheSize

ASSUME CacheSizeAssumption == MaxCacheSize \in Nat

\* A view.  st: "live", "closing" once destroy was called, "gone" once the
\* page's contents are.  init and ready: the two promises have been resolved.
\* opts: savedInitOpts is set.  told: the page has its dora-init.
NewRecord == [tab |-> 0, win |-> 0, isActive |-> FALSE, st |-> "live",
              init |-> FALSE, ready |-> FALSE, opts |-> FALSE, told |-> FALSE]

WithoutAll(f, xs) == [y \in DOMAIN f \ xs |-> f[y]]
Without(f, x) == WithoutAll(f, {x})
Changed(r, field, value) == [r EXCEPT ![field] = value]
With(f, x, v) == [y \in DOMAIN f \cup {x} |-> IF y = x THEN v ELSE f[y]]
Mark(e, v, field, value) == [e EXCEPT !.views[v][field] = value]
Live(e, v) == v # 0 /\ e.views[v].st = "live"
RoomForView(e) == Len(e.views) < MaxViews

\* destroy, for each view of vs: the entry of the cache goes by the name of the
\* tab, whoever's it is.
DestroyAll(e, vs) ==
    [e EXCEPT !.cache = WithoutAll(@, {e.views[v].tab : v \in vs}),
              !.views = [v \in DOMAIN @ |->
                  IF v \in vs /\ @[v].st = "live" THEN Changed(@[v], "st", "closing") ELSE @[v]]]
Destroy(e, v) == DestroyAll(e, {v})

\* The contents of a view that was destroyed are gone: the listener removes the
\* entry of its tab once more.
ContentsDestroyed(e, v) ==
    [e EXCEPT !.cache = Without(@, e.views[v].tab), !.views[v].st = "gone"]

\* Mutant: the active tab goes as well.
removeTabViewAny(e, o, tab) ==
    LET w == e.wins[o] IN
    IF tab \notin DOMAIN w.loaded \/ ~w.open THEN e
    ELSE Destroy([e EXCEPT !.wins[o].loaded = Without(@, tab)], w.loaded[tab])
\* removeTabView of the window o: the active tab stays.
removeTabView(e, o, tab) ==
    LET w == e.wins[o] IN
    IF (w.active # 0 /\ e.views[w.active].tab = tab) \/ tab \notin DOMAIN w.loaded \/ ~w.open THEN e
    ELSE Destroy([e EXCEPT !.wins[o].loaded = Without(@, tab)], w.loaded[tab])

\* tryEvictEntry spares active views, and those used in the last second.
Evictable(e) == {t \in DOMAIN e.cache : ~e.views[e.cache[t]].isActive}

tryEvictEntry(e, tab) ==
    LET v == e.cache[tab]
        w == e.views[v].win
    IN  IF w \in DOMAIN e.map THEN removeTabView(e, e.map[w], tab) ELSE Destroy(e, v)

EvictAll(e, tabs) == FoldSet(LAMBDA t, acc : tryEvictEntry(acc, t), e, tabs)

\* checkAndEvictCache tries as many entries as are too many, in the order of
\* their last use; which ones those are, and which are too young, is left open,
\* but for the entry just made, which is.
checkAndEvictCache(e, made) ==
    {EvictAll(e, tabs) : tabs \in {T \in SUBSET (Evictable(e) \ {made}) :
        Cardinality(T) <= Cardinality(DOMAIN e.cache) - MaxCacheSize \/ T = {}}}

clearTabCache(e) == {EvictAll(e, tabs) : tabs \in SUBSET Evictable(e)}

ensureHotSpareTab(e) ==
    IF e.hot # 0 THEN [e EXCEPT !.hotTimer = FALSE]
    ELSE [e EXCEPT !.hotTimer = FALSE, !.views = Append(@, NewRecord), !.hot = Len(e.views) + 1]

\* getSpareTab, and the rest of getOrCreateWebViewForTab after the await: the
\* spare or a new view becomes the tab's, and the cache may shed others.
SpareView(e) == IF e.hot # 0 THEN e.hot ELSE Len(e.views) + 1
TakeSpare(e, tab, win) ==
    LET v  == SpareView(e)
        e1 == IF e.hot # 0 THEN e ELSE [e EXCEPT !.views = Append(@, NewRecord)]
    IN  [e1 EXCEPT !.hot = 0, !.hotTimer = TRUE, !.views[v].win = win,
                   !.views[v].tab = tab, !.cache = With(@, tab, v)]
getSpareTab(e, tab, win) == checkAndEvictCache(TakeSpare(e, tab, win), tab)

\* set-window-init-status "ready": a page that was initialised before, and was
\* reloaded, gets its dora-init again.
PageReady(e, v) == [e EXCEPT !.views[v].init = TRUE, !.views[v].told = e.views[v].opts]
PageDoraReady(e, v) == Mark(e, v, "ready", TRUE)
PageReloads(e, v) == Mark(e, v, "told", FALSE)
=============================================================================

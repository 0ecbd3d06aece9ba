-------------------------------- MODULE Badges --------------------------------
(***************************************************************************)
(* The badges of blocks and tabs in a page (frontend/app/store/badge.ts,   *)
(* app.tsx, dora.ts).  A badge is set and cleared by events, which the     *)
(* page and the store of the backend each apply; a page that is loaded     *)
(* takes over the store's badges, then subscribes to the events, and while *)
(* it has the focus it clears the badges of what is focused.               *)
(*                                                                         *)
(* The broker (pkg/dps/dps.go) publishes each event in a goroutine of its  *)
(* own and sends it to the page and to the store (pkg/dcore/badge.go) one  *)
(* after the other, so that they may get two events in different orders.   *)
(* Equal events that are sent at the same time count as one.               *)
(***************************************************************************)
EXTENDS Integers, Sequences, FiniteSets, SequencesExt

CONSTANTS
    BadgeBlocks, \* the blocks of the page's tab
    TabRef,      \* the tab
    MaxBadges,   \* bound on badges set
    MaxBadgeActs \* bound on what the user and programs do besides
ASSUME BadgesAssumption == BadgeBlocks # {}

VARIABLES
    badges,    \* BadgeMap: per block or tab, no badge or one: [id, priority, linked: pidlinked]
    kept,      \* the store's badges
    toPage,    \* events and the answer of GetAllBadges on their way to the page
    toStore,   \* events on their way to the store
    published, \* EventPublishCommand calls under way
    sending,   \* what Publish has read the receivers of: [event, to: the receivers left]
    loading,   \* loadBadges and the subscription: "asked", "answered", "subscribes" or "done"
    attends,   \* what the page shows: [block: the focused one, focus: documentHasFocus]
    committed, \* what the effects of BadgeAutoClearing last ran with
    due,       \* blocks and the tab whose timer is set
    parted,    \* blocks and the tab of which the page misses an event that the store got, or two
               \* events were sent at the same time, so that they may have come in two orders
    badgeIds, badgeActs
badgeVars == <<badges, kept, toPage, toStore, published, sending, loading, attends, committed, due,
               parted, badgeIds, badgeActs>>

Refs == BadgeBlocks \cup {TabRef}
Event(kind, ref, set, all) == [kind |-> kind, ref |-> ref, set |-> set, all |-> all]
NoBadges == [r \in Refs |-> {}]

\* cmpBadge.
Above(x, y) == x.priority > y.priority \/ (x.priority = y.priority /\ x.id > y.id)
\* What an event changes: the badge of one block or tab, or all.
Touches(e, ref) == e.kind = "clearall" \/ e.ref = ref
\* The badge after an event that touches it: a badge gives way to one above it.
AppliedAt(held, e) ==
    CASE e.kind \in {"clearall", "clear"} -> {}
      [] e.kind = "clearbyid" -> held \ {x \in held : \E y \in e.set : x.id = y.id}
      [] e.kind = "set" -> IF \E x \in held, y \in e.set : ~Above(y, x) THEN held ELSE e.set
\* The handler of setupBadgesSubscription, and that of the store.
Applied(map, e) == [r \in Refs |-> IF Touches(e, r) THEN AppliedAt(map[r], e) ELSE map[r]]
\* loadBadges: the answer replaces the badges of what has one in the store.
TakenOver(map, all) == [r \in Refs |-> IF all[r] # {} THEN all[r] ELSE map[r]]

publishBadgeEvent(e) == published' = published \cup {e}

----------------------------------------------------------------------------
(* Events *)

\* Broker.Publish reads who has subscribed, the store or the store and the page ...
Publish(e) ==
    /\ e \in published
    /\ published' = published \ {e}
    /\ sending' = sending \cup {[event |-> e, to |-> IF loading = "done" THEN {"page", "store"} ELSE {"store"}]}
    /\ parted' = parted \cup {r \in Refs : loading \in {"answered", "subscribes"} /\ Touches(e, r)}
    /\ UNCHANGED <<badges, kept, toPage, toStore, loading, attends, committed, due, badgeIds, badgeActs>>
\* ... and calls SendEvent for each, in any order.
SendEvent(x, to) ==
    /\ x \in sending /\ to \in x.to
    /\ sending' = (sending \ {x}) \cup {[event |-> x.event, to |-> others] : others \in {x.to \ {to}} \ {{}}}
    /\ toPage' = IF to = "page" THEN Append(toPage, x.event) ELSE toPage
    /\ toStore' = IF to = "store" THEN Append(toStore, x.event) ELSE toStore
    /\ parted' = parted \cup
          {r \in Refs : loading = "done" /\ Touches(x.event, r)
                      /\ \E y \in sending \ {x} : y.to # {"page", "store"} /\ Touches(y.event, r)}
    /\ UNCHANGED <<badges, kept, published, loading, attends, committed, due, badgeIds, badgeActs>>
StoreTakes ==
    /\ toStore # <<>>
    /\ kept' = Applied(kept, Head(toStore))
    /\ toStore' = Tail(toStore)
    /\ UNCHANGED <<badges, toPage, published, sending, loading, attends, committed, due, parted, badgeIds, badgeActs>>
GetAllBadges ==
    /\ loading = "asked"
    /\ loading' = "answered"
    /\ toPage' = Append(toPage, Event("loaded", TabRef, {}, kept))
    /\ parted' = {r \in Refs : \E e \in ToSet(toStore) \cup {x.event : x \in sending} : Touches(e, r)}
    /\ UNCHANGED <<badges, kept, toStore, published, sending, attends, committed, due, badgeIds, badgeActs>>
loadBadges ==
    /\ loading = "answered"
    /\ loading' = "subscribes"
    /\ badges' = TakenOver(badges, Head(toPage).all)
    /\ toPage' = <<>>
    /\ UNCHANGED <<kept, toStore, published, sending, attends, committed, due, parted, badgeIds, badgeActs>>
setupBadgesSubscription ==
    /\ loading = "subscribes"
    /\ loading' = "done"
    /\ UNCHANGED <<badges, kept, toPage, toStore, published, sending, attends, committed, due, parted, badgeIds, badgeActs>>
EventArrives ==
    /\ loading = "done" /\ toPage # <<>>
    /\ badges' = Applied(badges, Head(toPage))
    /\ toPage' = Tail(toPage)
    /\ UNCHANGED <<kept, toStore, published, sending, loading, attends, committed, due, parted, badgeIds, badgeActs>>

\* setBadge, by the bell of a terminal or a program.
setBadge(ref, priority, linked) ==
    /\ badgeIds < MaxBadges
    /\ badgeIds' = badgeIds + 1
    /\ publishBadgeEvent(Event("set", ref, {[id |-> badgeIds', priority |-> priority, linked |-> linked]}, NoBadges))
    /\ UNCHANGED <<badges, kept, toPage, toStore, sending, loading, attends, committed, due, parted, badgeActs>>
\* clearBadgeById, when a program ends, and clearAllBadges.
ClearsBadges(e) ==
    /\ badgeActs < MaxBadgeActs
    /\ badgeActs' = badgeActs + 1
    /\ publishBadgeEvent(e)
    /\ UNCHANGED <<badges, kept, toPage, toStore, sending, loading, attends, committed, due, parted, badgeIds>>
clearBadgeById(ref, id) ==
    ClearsBadges(Event("clearbyid", ref, {[id |-> id, priority |-> 0, linked |-> FALSE]}, NoBadges))
clearAllBadges == ClearsBadges(Event("clearall", TabRef, {}, NoBadges))

----------------------------------------------------------------------------
(* BadgeAutoClearing *)

\* Another block or another program has the focus.
FocusChanges(blk, focus) ==
    /\ badgeActs < MaxBadgeActs
    /\ badgeActs' = badgeActs + 1
    /\ attends' = [block |-> blk, focus |-> focus] /\ attends' # attends
    /\ UNCHANGED <<badges, kept, toPage, toStore, published, sending, loading, committed, due, parted, badgeIds>>

\* Mutant: the effect does not depend on the badge.
DependsNotOnBadge(ref) == <<attends, ref, {}>>
\* What the effect for a block or the tab depends on.
DependsOn(ref) == <<attends, ref, badges[ref]>>
Attended == {attends.block, TabRef}
Effects == [r \in Attended |-> DependsOn(r)]
\* The effects that have to run cancel their timers and set new ones.
Commits ==
    LET run == {r \in Attended : r \notin DOMAIN committed \/ committed[r] # Effects[r]} IN
    /\ loading = "done" /\ committed # Effects \* the page is rendered after it subscribed
    /\ committed' = Effects
    /\ due' = (due \cap (Attended \ run)) \cup {r \in run : attends.focus /\ badges[r] # {}}
    /\ UNCHANGED <<badges, kept, toPage, toStore, published, sending, loading, attends, parted, badgeIds, badgeActs>>
\* clearBadgesForBlockOnFocus and clearBadgesForTabOnFocus.  React commits a change of the
\* focus with the event that makes it, before a timer.
TimerDue(r) ==
    /\ r \in due
    /\ \A q \in DOMAIN committed : committed[q][1] = attends
    /\ due' = due \ {r}
    /\ IF attends.focus /\ r \in Attended /\ (\E x \in badges[r] : ~x.linked)
       THEN publishBadgeEvent(Event("clear", r, {}, NoBadges)) ELSE UNCHANGED published
    /\ UNCHANGED <<badges, kept, toPage, toStore, sending, loading, attends, committed, parted, badgeIds, badgeActs>>

BadgesInit ==
    /\ badges = NoBadges /\ kept = NoBadges
    /\ toPage = <<>> /\ toStore = <<>> /\ published = {} /\ loading = "asked"
    /\ attends = [block |-> CHOOSE x \in BadgeBlocks : TRUE, focus |-> TRUE] /\ committed = <<>> /\ due = {}
    /\ sending = {} /\ parted = {} /\ badgeIds = 0 /\ badgeActs = 0
BadgesNext ==
    \/ StoreTakes \/ GetAllBadges \/ loadBadges \/ setupBadgesSubscription \/ EventArrives \/ Commits \/ clearAllBadges
    \/ \E e \in published : Publish(e)
    \/ \E x \in sending, to \in {"page", "store"} : SendEvent(x, to)
    \/ \E r \in Refs : TimerDue(r) \/ (\E i \in 1..MaxBadges : i <= badgeIds /\ clearBadgeById(r, i))
    \/ \E r \in Refs, p \in 1..2, l \in BOOLEAN : (l => p = 1 /\ r # TabRef) /\ setBadge(r, p, l)
    \/ \E blk \in BadgeBlocks, f \in BOOLEAN : FocusChanges(blk, f)
BadgesSpec == BadgesInit /\ [][BadgesNext]_badgeVars

----------------------------------------------------------------------------
(* Properties *)

BadgesQuiet ==
    /\ toPage = <<>> /\ toStore = <<>> /\ published = {} /\ sending = {}
    /\ due = {} /\ committed = Effects /\ loading = "done"
\* When all has arrived the page shows the badges that are stored, but for blocks and tabs of
\* which it missed an event or got two that were sent at the same time, and, always, none but
\* those of a running program on the block and tab that have the focus, whatever was set,
\* cleared and focused while the clearing of others was under way and in whatever order the
\* events came (badge.ts:148-160, 192-225; badge.go:94-126; app.tsx:291-336).
BadgesSettle == BadgesQuiet =>
    /\ \A r \in Refs \ parted : badges[r] = kept[r]
    /\ attends.focus => \A r \in Attended : \A x \in badges[r] : x.linked
=============================================================================

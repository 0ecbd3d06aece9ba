------------------------------- MODULE WebLink -------------------------------
(***************************************************************************)
(* A page's link to the backend: the web socket that reconnects (ws.ts),   *)
(* the router and the calls over it (wshrouter.ts, dshclient.ts,           *)
(* dshrpcutil-base.ts), and the subscriptions to events (wps.ts).  The     *)
(* backend handles every request in a goroutine of its own (dshrpc.go:437), *)
(* answers on the link it came by and forgets a link with its routes,      *)
(* subscriptions and requests when the link is lost (dshrouter.go:750);    *)
(* a handler that is under way then does not notice.                       *)
(***************************************************************************)
EXTENDS Integers, FiniteSets, SequencesExt

CONSTANTS
    Calls,          \* the requests made, each once: [kind: "call" or "stream", timed: BOOLEAN, big: BOOLEAN]
    Scopes, All,    \* scopes of the event the page subscribes to; All subscribes to every scope
    GiveUp,         \* after how many attempts reconnect gives up: 20
    Calm,           \* are subscriptions left alone while queued messages are sent?
    MaxLosses,      \* bound on the failures of the network
    MaxSubs,        \* bound on changes of the subscriptions
    MaxConts,       \* bound on the responses to a stream before the last
    MaxAsks         \* bound on the backend's own requests

ASSUME LinkAssumption == All \notin Scopes /\ GiveUp \in Nat /\ Calm \in BOOLEAN

VARIABLES
    conn,           \* WSControl: [open, opening, tries, sleeping, fresh, draining]
    msgQueue,       \* messages pushed while the socket was not open
    up, down,       \* messages on their way, lost with the socket
    subjects,       \* doraEventSubjects of the event: the scopes of the handlers, in order
    rpcMap,         \* requests whose way back the router knows
    openRpcs,       \* requests whose generator is registered
    queue,          \* per request: the generator's msgQueue
    stage, got,     \* per request: where its caller is, and the data it was given
    handler,        \* the page's work on a request of the backend: "none", "running" or "replied"; "off": it makes none
    server,         \* the backend: [routed, sub, active: requests, sent: responses so far, asked, answers],
                    \* binding: the route is about to be known, subs: subscriptions received but not
                    \* made, in order, and of the last one received: settled, it is made or its link
                    \* is lost, and crossed, an earlier one was made after that
    losses, changes \* counters of the bounds
linkVars == <<conn, msgQueue, up, down, subjects, rpcMap, openRpcs, queue, stage, got, handler, server, losses, changes>>
callVars == <<rpcMap, openRpcs, queue, stage, got, handler>>

CallIds == DOMAIN Calls

----------------------------------------------------------------------------
(* ws.ts.                                                                   *)

Announce == [kind |-> "announce"]
\* pushMessage: announcements are made anew when the socket opens.
Pushed(q, msg) == IF msg.kind = "announce" THEN q ELSE Append(q, msg)
\* sendMessage: a message that is too large is dropped.
TooLarge(msg) == msg.kind = "req" /\ Calls[msg.id].big
Sent(msg) == IF TooLarge(msg) THEN <<>> ELSE <<msg>>
pushMessage(msg) ==
    IF conn.open THEN up' = up \o Sent(msg) /\ UNCHANGED msgQueue
    ELSE msgQueue' = Pushed(msgQueue, msg) /\ UNCHANGED up

\* updateDoraEventSub: the whole subscription, by what the subjects are now.
Subscription(s) ==
    [kind |-> "sub", scopes |-> IF All \in ToSet(s) THEN {All} ELSE ToSet(s)]
\* Mutant: the subscriptions are left to the queue.
ResubscribedNot(s) == <<Announce>>
\* reannounceRoutes and wpsReconnectHandler, in the order they were added.
Resubscribed(s) == IF s = <<>> THEN <<Announce>> ELSE <<Announce, Subscription(s)>>

\* onopen; runMsgQueue sends the first message at once.
FirstOf(q) == IF q = <<>> THEN <<>> ELSE Sent(q[1])
Opened ==
    /\ conn.opening
    /\ conn' = [conn EXCEPT !.open = TRUE, !.opening = FALSE, !.fresh = TRUE,
                            !.draining = IF msgQueue = <<>> THEN @ ELSE @ + 1]
    /\ up' = Resubscribed(subjects) \o FirstOf(msgQueue)
    /\ msgQueue' = IF msgQueue = <<>> THEN <<>> ELSE Tail(msgQueue)
    /\ UNCHANGED <<down, subjects, callVars, server, losses, changes>>

\* A timer of runMsgQueue; timers of earlier connections may still be pending.
runMsgQueue ==
    /\ conn.draining > 0
    /\ IF conn.open /\ msgQueue # <<>>
       THEN up' = up \o FirstOf(msgQueue) /\ msgQueue' = Tail(msgQueue) /\ UNCHANGED conn
       ELSE conn' = [conn EXCEPT !.draining = @ - 1] /\ UNCHANGED <<up, msgQueue>>
    /\ UNCHANGED <<down, subjects, callVars, server, losses, changes>>

\* Two seconds after it was opened.
Stable ==
    /\ conn.fresh
    /\ conn' = [conn EXCEPT !.tries = 0, !.fresh = FALSE]
    /\ UNCHANGED <<msgQueue, up, down, subjects, callVars, server, losses, changes>>

\* onclose, of an open socket or of an attempt, and reconnect.
Retried(c) ==
    [c EXCEPT !.open = FALSE, !.opening = FALSE, !.fresh = FALSE, !.tries = @ + 1,
              !.sleeping = c.tries < GiveUp]
Closed ==
    /\ (conn.open \/ conn.opening) /\ losses < MaxLosses
    /\ conn' = Retried(conn)
    /\ up' = <<>> /\ down' = <<>>
    /\ server' = [server EXCEPT !.routed = FALSE, !.binding = FALSE, !.sub = {}, !.active = {},
                                !.settled = TRUE, !.crossed = FALSE]
    /\ losses' = losses + 1
    /\ UNCHANGED <<msgQueue, subjects, callVars, changes>>
connectNow ==
    /\ conn.sleeping
    /\ conn' = [conn EXCEPT !.sleeping = FALSE, !.opening = TRUE]
    /\ UNCHANGED <<msgQueue, up, down, subjects, callVars, server, losses, changes>>

----------------------------------------------------------------------------
(* wps.ts.                                                                  *)

MayChange == changes < MaxSubs /\ (Calm /\ conn.open => msgQueue = <<>>)
doraEventSubscribeSingle ==
    /\ MayChange
    /\ \E s \in Scopes \cup {All} :
          /\ subjects' = Append(subjects, s)
          /\ pushMessage(Subscription(Append(subjects, s)))
    /\ changes' = changes + 1
    /\ UNCHANGED <<conn, down, callVars, server, losses>>
doraEventUnsubscribe ==
    /\ MayChange
    /\ \E i \in DOMAIN subjects :
          /\ subjects' = RemoveAt(subjects, i)
          /\ pushMessage(Subscription(RemoveAt(subjects, i)))
    /\ changes' = changes + 1
    /\ UNCHANGED <<conn, down, callVars, server, losses>>

----------------------------------------------------------------------------
(* Calls: the router notes where the answer goes, the generator waits.      *)

sendRpcCommand(c) ==
    /\ stage[c] = "new"
    /\ rpcMap' = rpcMap \cup {c} /\ openRpcs' = openRpcs \cup {c}
    /\ stage' = [stage EXCEPT ![c] = "waiting"]
    /\ pushMessage([kind |-> "req", id |-> c])
    /\ UNCHANGED <<conn, down, subjects, queue, got, handler, server, losses, changes>>

\* Mutant: the router forgets the request at the first response.
ForgetsFirst(m) == rpcMap \ {m.id}
\* recvRpcMessage of the router: the last response ends the entry.
RouterKeeps(m) == IF m.cont THEN rpcMap ELSE rpcMap \ {m.id}
ReceiveResponse ==
    /\ down # <<>> /\ down[1].kind # "cmd"
    /\ LET m == down[1] IN
       /\ rpcMap' = RouterKeeps(m)
       /\ queue' = IF m.id \in rpcMap /\ m.id \in openRpcs THEN [queue EXCEPT ![m.id] = Append(@, m)] ELSE queue
    /\ down' = Tail(down)
    /\ UNCHANGED <<conn, msgQueue, up, subjects, openRpcs, stage, got, handler, server, losses, changes>>

\* Mutant: the timer reports to the router, which knows the request no more.
TimeoutReports(c) == queue
TimeoutQueues(c) == [queue EXCEPT ![c] = Append(@, [kind |-> "timeout"])]
\* The timer is cleared when the generator ends.
Timeout(c) ==
    /\ Calls[c].timed /\ c \in openRpcs
    /\ \A i \in DOMAIN queue[c] : queue[c][i].kind # "timeout"
    /\ queue' = TimeoutQueues(c)
    /\ UNCHANGED <<conn, msgQueue, up, down, subjects, rpcMap, openRpcs, stage, got, handler, server, losses, changes>>

Ends(c, how) == stage' = [stage EXCEPT ![c] = how] /\ openRpcs' = openRpcs \ {c}
\* The generator takes a message: an error is thrown, a last message without data
\* ends it, data is yielded.  What calls next(true) for the first response leaves
\* the generator where it is, and registered.
GeneratorTakes(c) ==
    /\ stage[c] = "waiting" /\ queue[c] # <<>>
    /\ queue' = [queue EXCEPT ![c] = Tail(@)]
    /\ LET m == queue[c][1] IN
       IF m.kind # "resp" THEN Ends(c, "failed") /\ UNCHANGED got
       ELSE IF ~m.cont /\ ~m.data THEN Ends(c, "done") /\ UNCHANGED got
       ELSE /\ got' = [got EXCEPT ![c] = @ + 1]
            /\ stage' = [stage EXCEPT ![c] = IF Calls[c].kind = "call" THEN "done"
                                             ELSE IF m.cont THEN "yielded" ELSE "last"]
            /\ UNCHANGED openRpcs
    /\ UNCHANGED <<conn, msgQueue, up, down, subjects, rpcMap, handler, server, losses, changes>>
\* The consumer of a stream asks for more, or has had enough.
ConsumerGoesOn(c) ==
    /\ stage[c] \in {"yielded", "last"}
    /\ \/ stage[c] = "yielded" /\ stage' = [stage EXCEPT ![c] = "waiting"] /\ UNCHANGED openRpcs
       \/ stage[c] = "last" /\ Ends(c, "done")
       \/ stage[c] = "yielded" /\ Ends(c, "left")
    /\ UNCHANGED <<conn, msgQueue, up, down, subjects, rpcMap, queue, got, handler, server, losses, changes>>

\* handleIncomingCommand: a handler that is awaited.
ReceiveCommand ==
    /\ down # <<>> /\ down[1].kind = "cmd" /\ handler = "none"
    /\ handler' = "running" /\ down' = Tail(down)
    /\ UNCHANGED <<conn, msgQueue, up, subjects, rpcMap, openRpcs, queue, stage, got, server, losses, changes>>
\* sendResponse, by the handler itself or with its result or its error; done stops a second one.
Replies(replied) == IF replied THEN <<>> ELSE <<[kind |-> "answer"]>>
sendResponse(done) ==
    /\ handler \in {"running", "replied"}
    /\ LET msgs == Replies(handler = "replied") IN
       IF conn.open THEN up' = up \o msgs /\ UNCHANGED msgQueue
       ELSE msgQueue' = msgQueue \o msgs /\ UNCHANGED up
    /\ handler' = IF done THEN "none" ELSE "replied"
    /\ UNCHANGED <<conn, down, subjects, rpcMap, openRpcs, queue, stage, got, server, losses, changes>>

----------------------------------------------------------------------------
(* The backend.                                                             *)

ServerReceives ==
    /\ conn.open /\ up # <<>>
    /\ LET m == up[1] IN
       server' = CASE m.kind = "announce" -> [server EXCEPT !.binding = TRUE]
                   [] m.kind = "sub"      -> [server EXCEPT !.subs = Append(@, m.scopes), !.settled = FALSE]
                   [] m.kind = "req"      -> [server EXCEPT !.active = @ \cup {m.id}]
                   [] m.kind = "answer"   -> [server EXCEPT !.answers = @ + 1]
    /\ up' = Tail(up)
    /\ UNCHANGED <<conn, msgQueue, down, subjects, callVars, losses, changes>>
\* RouteAnnounceCommand, on a link that still exists.
RouteAnnounceCommand ==
    /\ server.binding
    /\ server' = [server EXCEPT !.routed = TRUE, !.binding = FALSE]
    /\ UNCHANGED <<conn, msgQueue, up, down, subjects, callVars, losses, changes>>
\* EventSubCommand and EventUnsubCommand replace the whole subscription; whichever
\* goroutine is first.
EventSubCommand ==
    /\ \E i \in DOMAIN server.subs :
          LET last == i = Len(server.subs) /\ ~server.settled
          IN  server' = [server EXCEPT !.sub = server.subs[i], !.subs = RemoveAt(@, i),
                                       !.settled = @ \/ last, !.crossed = (@ \/ server.settled) /\ ~last]
    /\ UNCHANGED <<conn, msgQueue, up, down, subjects, callVars, losses, changes>>
ServerResponds ==
    \E c \in server.active, cont, data \in BOOLEAN, kind \in {"resp", "error"} :
        /\ conn.open
        /\ kind = "error" => ~cont /\ ~data
        /\ cont => data /\ Calls[c].kind = "stream" /\ server.sent[c] < MaxConts
        /\ down' = Append(down, [kind |-> kind, id |-> c, cont |-> cont, data |-> data])
        /\ server' = [server EXCEPT !.active = IF cont THEN @ ELSE @ \ {c},
                                    !.sent[c] = IF data THEN @ + 1 ELSE @]
        /\ UNCHANGED <<conn, msgQueue, up, subjects, callVars, losses, changes>>
ServerAsks ==
    /\ conn.open /\ server.routed /\ handler # "off" /\ server.asked < MaxAsks
    /\ down' = Append(down, [kind |-> "cmd"])
    /\ server' = [server EXCEPT !.asked = @ + 1]
    /\ UNCHANGED <<conn, msgQueue, up, subjects, callVars, losses, changes>>

----------------------------------------------------------------------------
LinkInit ==
    /\ conn = [open |-> FALSE, opening |-> TRUE, tries |-> 0, sleeping |-> FALSE, fresh |-> FALSE, draining |-> 0]
    /\ msgQueue = <<>> /\ up = <<>> /\ down = <<>> /\ subjects = <<>>
    /\ rpcMap = {} /\ openRpcs = {} /\ queue = [c \in CallIds |-> <<>>]
    /\ stage \in [CallIds -> {"new", "unmade"}] /\ got = [c \in CallIds |-> 0]
    /\ server = [routed |-> FALSE, binding |-> FALSE, sub |-> {}, subs |-> <<>>, settled |-> TRUE,
                 crossed |-> FALSE, active |-> {}, sent |-> [c \in CallIds |-> 0],
                 asked |-> 0, answers |-> 0]
    /\ handler \in {"none", "off"}
    /\ losses = 0 /\ changes \in {0, MaxSubs}
CallStep(c) == sendRpcCommand(c) \/ Timeout(c) \/ GeneratorTakes(c) \/ ConsumerGoesOn(c)
LinkNext ==
    \/ Opened \/ runMsgQueue \/ Stable \/ Closed \/ connectNow
    \/ doraEventSubscribeSingle \/ doraEventUnsubscribe
    \/ ReceiveResponse \/ ReceiveCommand \/ (\E done \in BOOLEAN : sendResponse(done))
    \/ ServerReceives \/ RouteAnnounceCommand \/ EventSubCommand \/ ServerResponds \/ ServerAsks
    \/ \E c \in CallIds : CallStep(c)
LinkFairness == \A c \in CallIds : WF_linkVars(Timeout(c)) /\ WF_linkVars(GeneratorTakes(c))
LinkSpec == LinkInit /\ [][LinkNext]_linkVars /\ LinkFairness

----------------------------------------------------------------------------
\* When everything sent has arrived and is handled the backend knows the page's route
\* and sends it the events of its handlers, whatever was changed while the socket was
\* closed, unless an earlier subscription was made after the last one, or after its
\* link was lost: nothing keeps the goroutines in order (dshrpc.go:437-443, dps.go:75).
AllArrived == /\ conn.open /\ up = <<>> /\ msgQueue = <<>>
              /\ ~server.binding /\ server.subs = <<>>
SubscriptionHolds ==
    AllArrived => server.routed /\ (server.crossed \/ server.sub = Subscription(subjects).scopes)

\* Every request of the backend is answered once at most, and one whose handler has ended
\* is answered unless the socket was lost (RpcResponseHelper, handleIncomingCommand).
AnsweredOnce ==
    LET onWay == Cardinality({i \in DOMAIN up : up[i].kind = "answer"})
                 + Cardinality({i \in DOMAIN msgQueue : msgQueue[i].kind = "answer"})
        asking == Cardinality({i \in DOMAIN down : down[i].kind = "cmd"}) + (IF handler = "running" THEN 1 ELSE 0)
    IN  server.answers + onWay + asking \in
            (IF losses = 0 THEN server.asked ELSE 0) .. server.asked

\* A stream that ends without an error has given its consumer every response, and one
\* that waits has been given all that arrived: none is lost on the way while others
\* arrive (the router's rpcMap, the generator's queue).
Arrived(c) == queue[c] = <<>> /\ \A i \in DOMAIN down : down[i].kind = "cmd"
StreamComplete ==
    \A c \in CallIds :
        /\ Calls[c].kind = "stream"
        /\ \/ stage[c] = "done"
           \/ stage[c] = "waiting" /\ losses = 0 /\ Arrived(c)
        => got[c] = server.sent[c]

\* A request with a timeout comes back to its caller, also when the socket is lost, the
\* message was too large or nobody answers (rpcResponseGenerator).
TimedCallsEnd ==
    \A c \in CallIds : Calls[c].timed /\ stage[c] = "waiting" ~> stage[c] # "waiting"

\* What is asked over the link is answered once and in full (both above).
AnswersKept == AnsweredOnce /\ StreamComplete
=============================================================================

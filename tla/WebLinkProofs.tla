---------------------------- MODULE WebLinkProofs ----------------------------
(***************************************************************************)
(* Proofs about WebLink, for every set of calls and scopes and any number  *)
(* of losses.  The backend ends up with the page's subscription because    *)
(* each message states the whole of it and the last one on its way, or the *)
(* last one queued, is the one that holds: a socket that opens is told the *)
(* subscription of the moment before anything queued is sent, and of the   *)
(* handlers under way the last one counts unless an earlier one is slower. *)
(* Calls and answers are counted: a request is in one place at most, and   *)
(* what was sent was taken, is queued or on its way, unless a socket was   *)
(* lost.                                                                   *)
(***************************************************************************)
EXTENDS WebLink, DataLemmas

-----------------------------------------------------------------------------
(* The inductive invariant *)

AnyScope == Scopes \cup {All}
Messages ==
  {Announce} \cup [kind: {"sub"}, scopes: SUBSET AnyScope] \cup [kind: {"req"}, id: CallIds]
    \cup [kind: {"answer"}]

ConnType ==
  [open: BOOLEAN, opening: BOOLEAN, tries: Nat, sleeping: BOOLEAN, fresh: BOOLEAN, draining: Int]

ServerType ==
  [routed: BOOLEAN, binding: BOOLEAN, sub: SUBSET AnyScope, subs: Seq(SUBSET AnyScope),
   settled: BOOLEAN, crossed: BOOLEAN, active: SUBSET CallIds,
   sent: [CallIds -> Nat], asked: Nat, answers: Nat]

LinkType ==
  /\ conn \in ConnType
  /\ up \in Seq(Messages) /\ msgQueue \in Seq(Messages)
  /\ subjects \in Seq(AnyScope)
  /\ server \in ServerType

\* The last subscription in a queue of messages, if there is one, states these scopes.
HasSub(q) == \E i \in 1 .. Len(q): q[i].kind = "sub"
LastSubIs(q, scopes) ==
  \A i \in 1 .. Len(q):
    q[i].kind = "sub" /\ (\A j \in i + 1 .. Len(q): q[j].kind # "sub") => q[i].scopes = scopes
Announces(q) == \E i \in 1 .. Len(q): q[i].kind = "announce"

Current == Subscription(subjects).scopes

\* What the backend will hold once everything received is handled, unless crossed, and
\* once everything under way has arrived.
Waits(srv) == srv.settled \/ srv.subs # <<>>
Makes(srv, scopes) ==
  IF srv.settled THEN srv.crossed \/ srv.sub = scopes ELSE srv.subs[Len(srv.subs)] = scopes
WillHold ==
  IF HasSub(up) THEN LastSubIs(up, Current) ELSE Makes(server, Current)

LinkInv ==
  /\ LinkType
  /\ LastSubIs(msgQueue, Current)
  /\ conn.open /\ ~HasSub(msgQueue) => WillHold
  /\ Waits(server)
  /\ conn.open => server.routed \/ server.binding \/ Announces(up)
  /\ ~conn.open =>
       /\ up = <<>> /\ ~server.routed /\ ~server.binding
       /\ server.settled /\ Makes(server, {})
  /\ conn.open \/ conn.opening => ~conn.sleeping
  /\ conn.open => ~conn.opening

-----------------------------------------------------------------------------
(* Lemmas about queues of messages *)

LEMMA NoSubIsLast ==
  ASSUME NEW q, NEW scopes, ~HasSub(q) PROVE LastSubIs(q, scopes)
  BY DEF HasSub, LastSubIs

LEMMA AppendFacts ==
  ASSUME NEW q \in Seq(Messages), NEW m \in Messages
  PROVE  /\ Append(q, m) \in Seq(Messages)
         /\ HasSub(Append(q, m)) <=> HasSub(q) \/ m.kind = "sub"
         /\ \A scopes: m.kind = "sub" /\ m.scopes = scopes => LastSubIs(Append(q, m), scopes)
         /\ \A scopes: m.kind # "sub" /\ LastSubIs(q, scopes) => LastSubIs(Append(q, m), scopes)
         /\ Announces(q) => Announces(Append(q, m))
<1> DEFINE a == Append(q, m)
           n == Len(q)
<1>1. /\ a \in Seq(Messages) /\ n \in Nat /\ Len(a) = n + 1 /\ a[n + 1] = m
      /\ \A i \in 1 .. n: a[i] = q[i]
  BY AppendProperties
<1> HIDE DEF a, n
<1>2. \A i \in 1 .. Len(a): i = n + 1 \/ i \in 1 .. n
  BY <1>1
<1>3. n + 1 \in 1 .. Len(a) /\ \A i \in 1 .. n: i \in 1 .. Len(a)
  BY <1>1
<1>4. HasSub(a) <=> HasSub(q) \/ m.kind = "sub"
  BY <1>1, <1>2, <1>3 DEF HasSub, n
<1>5. ASSUME NEW scopes, m.kind = "sub", m.scopes = scopes PROVE LastSubIs(a, scopes)
  <2>1. \A i \in 1 .. n: n + 1 \in i + 1 .. Len(a)
    BY <1>1
  <2> QED
    BY <1>1, <1>2, <1>5, <2>1 DEF LastSubIs
<1>6. ASSUME NEW scopes, m.kind # "sub", LastSubIs(q, scopes) PROVE LastSubIs(a, scopes)
  <2> SUFFICES ASSUME NEW i \in 1 .. Len(a), a[i].kind = "sub",
                      \A j \in i + 1 .. Len(a): a[j].kind # "sub"
               PROVE  a[i].scopes = scopes
    BY DEF LastSubIs
  <2>1. i \in 1 .. n /\ a[i] = q[i]
    BY <1>1, <1>2, <1>6
  <2>2. \A j \in i + 1 .. n: j \in i + 1 .. Len(a) /\ j \in 1 .. n
    BY <1>1, <2>1
  <2>3. \A j \in i + 1 .. n: q[j].kind # "sub"
    BY <1>1, <2>2
  <2> QED
    BY <1>6, <2>1, <2>3 DEF LastSubIs, n
<1>7. Announces(q) => Announces(a)
  BY <1>1, <1>3 DEF Announces, n
<1> QED
  BY <1>1, <1>4, <1>5, <1>6, <1>7 DEF a

LEMMA TailFacts ==
  ASSUME NEW q \in Seq(Messages), q # <<>>
  PROVE  /\ Tail(q) \in Seq(Messages) /\ q[1] \in Messages
         /\ HasSub(q) <=> q[1].kind = "sub" \/ HasSub(Tail(q))
         /\ \A scopes: LastSubIs(q, scopes) => LastSubIs(Tail(q), scopes)
         /\ \A scopes: LastSubIs(q, scopes) /\ q[1].kind = "sub" /\ ~HasSub(Tail(q)) =>
              q[1].scopes = scopes
         /\ Announces(q) => q[1].kind = "announce" \/ Announces(Tail(q))
<1> DEFINE t == Tail(q)
           n == Len(q)
<1>1. /\ t \in Seq(Messages) /\ n \in Nat \ {0} /\ Len(t) = n - 1
      /\ \A i \in 1 .. Len(t): t[i] = q[i + 1]
  BY HeadTailProperties, EmptySeq, LenProperties
<1>2. 1 \in 1 .. n /\ q[1] \in Messages
  BY <1>1, ElementOfSeq
<1> HIDE DEF t, n
<1>3. /\ \A i \in 1 .. Len(t): i + 1 \in 1 .. n
      /\ \A i \in 1 .. n: i = 1 \/ i - 1 \in 1 .. Len(t)
      /\ \A i \in 1 .. n: i - 1 + 1 = i
  BY <1>1
<1>4. \A i \in 1 .. n: i # 1 => q[i] = t[i - 1]
  BY <1>1, <1>3
<1>5. HasSub(q) <=> q[1].kind = "sub" \/ HasSub(t)
  <2>1. HasSub(t) => HasSub(q)
    BY <1>1, <1>3 DEF HasSub, n
  <2>2. q[1].kind = "sub" => HasSub(q)
    BY <1>2 DEF HasSub, n
  <2>3. HasSub(q) /\ q[1].kind # "sub" => HasSub(t)
    BY <1>3, <1>4 DEF HasSub, n
  <2> QED
    BY <2>1, <2>2, <2>3
<1>6. ASSUME NEW scopes, LastSubIs(q, scopes) PROVE LastSubIs(t, scopes)
  <2> SUFFICES ASSUME NEW i \in 1 .. Len(t), t[i].kind = "sub",
                      \A j \in i + 1 .. Len(t): t[j].kind # "sub"
               PROVE  t[i].scopes = scopes
    BY DEF LastSubIs
  <2>1. t[i] = q[i + 1] /\ i + 1 \in 1 .. n
    BY <1>1, <1>3
  <2>2. \A j \in i + 1 + 1 .. n: j - 1 \in i + 1 .. Len(t) /\ j \in 1 .. n /\ j # 1
    BY <1>1, <2>1
  <2>3. \A j \in i + 1 + 1 .. n: q[j].kind # "sub"
    BY <1>4, <2>2
  <2> QED
    BY <1>6, <2>1, <2>3 DEF LastSubIs, n
<1>7. ASSUME NEW scopes, LastSubIs(q, scopes), q[1].kind = "sub", ~HasSub(t) PROVE q[1].scopes = scopes
  <2>1. \A j \in 1 + 1 .. n: j \in 1 .. n /\ j # 1 /\ j - 1 \in 1 .. Len(t)
    BY <1>1
  <2>2. \A j \in 1 + 1 .. n: q[j].kind # "sub"
    BY <1>4, <1>7, <2>1 DEF HasSub
  <2> QED
    BY <1>2, <1>7, <2>2 DEF LastSubIs, n
<1>8. Announces(q) => q[1].kind = "announce" \/ Announces(t)
  BY <1>3, <1>4 DEF Announces, n
<1> QED
  BY <1>1, <1>2, <1>5, <1>6, <1>7, <1>8 DEF t

\* Messages that are sent: all but those that are too large, which are requests.
LEMMA SentFacts ==
  ASSUME NEW q \in Seq(Messages), NEW m \in Messages
  PROVE  \/ q \o Sent(m) = Append(q, m)
         \/ q \o Sent(m) = q /\ m.kind = "req"
<1>1. CASE TooLarge(m)
  BY <1>1, ConcatEmptySeq DEF Sent, TooLarge
<1>2. CASE ~TooLarge(m)
  <2>1. q \o <<m>> = Append(q, m)
    BY AppendIsConcat
  <2> QED
    BY <1>2, <2>1 DEF Sent
<1> QED
  BY <1>1, <1>2

LEMMA SubscriptionFacts ==
  ASSUME NEW s \in Seq(AnyScope)
  PROVE  Subscription(s) \in Messages /\ Subscription(s).kind = "sub"
<1>1. ToSet(s) \subseteq AnyScope
  BY ElementOfSeq, LenProperties DEF ToSet
<1> QED
  BY <1>1 DEF Subscription, Messages, AnyScope

LEMMA KindFacts ==
  ASSUME NEW m \in Messages
  PROVE  /\ m.kind \in {"announce", "sub", "req", "answer"}
         /\ m.kind = "sub" => m.scopes \in SUBSET AnyScope
         /\ m.kind = "req" => m.id \in CallIds
  BY DEF Messages, Announce

-----------------------------------------------------------------------------
(* Lemmas about the backend *)

LEMMA BackendReceives ==
  ASSUME server \in ServerType, up \in Seq(Messages), ServerReceives
  PROVE  LET m == up[1] IN
         /\ server' \in ServerType
         /\ server'.routed = server.routed
         /\ server'.binding <=> server.binding \/ m.kind = "announce"
         /\ m.kind = "sub" => Waits(server') /\ Makes(server', m.scopes)
         /\ m.kind # "sub" => /\ server'.settled = server.settled /\ server'.subs = server.subs
                              /\ server'.crossed = server.crossed /\ server'.sub = server.sub
         /\ server'.active = IF m.kind = "req" THEN server.active \cup {m.id} ELSE server.active
         /\ server'.sent = server.sent /\ server'.asked = server.asked
         /\ server'.answers = server.answers + (IF m.kind = "answer" THEN 1 ELSE 0)
<1> DEFINE m == up[1]
           active == server.active \cup {m.id}
           answers == server.answers + 1
           subs == Append(server.subs, m.scopes)
<1>1. /\ m.kind = "announce" => server' = [server EXCEPT !.binding = TRUE]
      /\ m.kind = "sub" => server' = [server EXCEPT !.subs = subs, !.settled = FALSE]
      /\ m.kind = "req" => server' = [server EXCEPT !.active = active]
      /\ m.kind = "answer" => server' = [server EXCEPT !.answers = answers]
  BY DEF ServerReceives
<1>2. m \in Messages
  BY Shortened DEF ServerReceives
<1>3. /\ m.kind \in {"announce", "sub", "req", "answer"}
      /\ m.kind = "sub" => m.scopes \in SUBSET AnyScope
      /\ m.kind = "req" => m.id \in CallIds
  <2> HIDE DEF m
  <2> QED
    BY <1>2, KindFacts
<1>4. /\ server.answers \in Nat /\ answers \in Nat /\ server.answers + 0 = server.answers
      /\ m.kind = "req" => active \in SUBSET CallIds
  BY <1>3 DEF ServerType
<1>9. m.kind = "sub" =>
        subs \in Seq(SUBSET AnyScope) /\ subs # <<>> /\ subs[Len(subs)] = m.scopes
  <2> DEFINE x == m.scopes
             q == server.subs
  <2>1. q \in Seq(SUBSET AnyScope)
    BY DEF ServerType
  <2> HIDE DEF x, q
  <2>2. ASSUME x \in SUBSET AnyScope
        PROVE  Append(q, x) \in Seq(SUBSET AnyScope) /\ Append(q, x) # <<>>
               /\ Append(q, x)[Len(Append(q, x))] = x
    BY <2>1, <2>2, AppendProperties, EmptySeq
  <2> QED
    BY <1>3, <2>2 DEF x, q
<1> HIDE DEF active, answers, subs, m
<1> DEFINE Received ==
         /\ server' \in ServerType
         /\ server'.routed = server.routed
         /\ server'.binding <=> server.binding \/ m.kind = "announce"
         /\ m.kind = "sub" => server'.subs = subs /\ ~server'.settled
         /\ m.kind # "sub" => /\ server'.settled = server.settled /\ server'.subs = server.subs
                              /\ server'.crossed = server.crossed /\ server'.sub = server.sub
         /\ server'.active = IF m.kind = "req" THEN active ELSE server.active
         /\ server'.sent = server.sent /\ server'.asked = server.asked
         /\ server'.answers = IF m.kind = "answer" THEN answers ELSE server.answers
<1>5. ASSUME m.kind = "announce" PROVE Received
  BY <1>1, <1>5 DEF ServerType
<1>6. ASSUME m.kind = "sub" PROVE Received
  BY <1>1, <1>9, <1>6 DEF ServerType
<1>7. ASSUME m.kind = "req" PROVE Received
  BY <1>1, <1>4, <1>7 DEF ServerType
<1>8. ASSUME m.kind = "answer" PROVE Received
  BY <1>1, <1>4, <1>8 DEF ServerType
<1>10. Received
  BY <1>3, <1>5, <1>6, <1>7, <1>8
<1>11. m.kind = "sub" => Waits(server') /\ Makes(server', m.scopes)
  BY <1>9, <1>10 DEF Waits, Makes
<1> QED
  BY <1>4, <1>10, <1>11 DEF m, active, answers

\* What tells of the link on the backend's side, untouched.
LinkKept ==
  /\ server'.routed = server.routed /\ server'.binding = server.binding
  /\ server'.sub = server.sub /\ server'.subs = server.subs
  /\ server'.settled = server.settled /\ server'.crossed = server.crossed

\* Of two subscriptions that wait the last one keeps its place.
LEMMA RemovesEarlier ==
  ASSUME NEW S, NEW q \in Seq(S), NEW i \in 1 .. Len(q)
  PROVE  /\ RemoveAt(q, i) \in Seq(S)
         /\ i # Len(q) => /\ RemoveAt(q, i) # <<>>
                          /\ RemoveAt(q, i)[Len(RemoveAt(q, i))] = q[Len(q)]
<1> DEFINE a == SubSeq(q, 1, i - 1)
           b == SubSeq(q, i + 1, Len(q))
<1>1. a \in Seq(S) /\ Len(a) = i - 1
  OBVIOUS
<1>2. b \in Seq(S) /\ Len(b) = Len(q) - i /\ \A j \in 1 .. Len(b): b[j] = q[i + j]
  OBVIOUS
<1>3. RemoveAt(q, i) = a \o b
  BY DEF RemoveAt
<1>4. PICK n \in Nat: n = Len(q)
  BY LenProperties
<1> HIDE DEF a, b
<1>5. /\ a \o b \in Seq(S) /\ Len(a \o b) = n - 1
      /\ \A j \in 1 .. n - 1: (a \o b)[j] = IF j <= i - 1 THEN a[j] ELSE b[j - (i - 1)]
  <2>1. /\ a \o b \in Seq(S) /\ Len(a \o b) = Len(a) + Len(b)
        /\ \A j \in 1 .. Len(a) + Len(b):
             (a \o b)[j] = IF j <= Len(a) THEN a[j] ELSE b[j - Len(a)]
    BY <1>1, <1>2, ConcatProperties
  <2>2. Len(a) + Len(b) = n - 1 /\ Len(a) = i - 1
    BY <1>1, <1>2, <1>4
  <2> QED
    BY <2>1, <2>2
<1>6. ASSUME i # n PROVE a \o b # <<>> /\ (a \o b)[n - 1] = q[n]
  <2>1. n - 1 \in 1 .. n - 1 /\ ~(n - 1 <= i - 1) /\ n - 1 - (i - 1) = n - i /\ n - i \in 1 .. n - i
        /\ i + (n - i) = n /\ n - 1 # 0
    BY <1>4, <1>6
  <2>2. (a \o b)[n - 1] = b[n - i] /\ b[n - i] = q[n]
    BY <1>2, <1>4, <1>5, <2>1
  <2> QED
    BY <1>5, <2>1, <2>2, EmptySeq
<1> QED
  BY <1>3, <1>4, <1>5, <1>6

LEMMA BackendHandles ==
  ASSUME server \in ServerType, RouteAnnounceCommand \/ EventSubCommand
  PROVE  /\ server' \in ServerType
         /\ Waits(server) => Waits(server')
         /\ \A scopes: Makes(server, scopes) => Makes(server', scopes)
         /\ server.routed \/ server.binding => server'.routed \/ server'.binding
         /\ ~server.routed /\ ~server.binding => ~server'.routed /\ ~server'.binding
         /\ server.settled => server'.settled
         /\ server'.active = server.active /\ server'.sent = server.sent
         /\ server'.asked = server.asked /\ server'.answers = server.answers
<1>1. CASE RouteAnnounceCommand
  <2>1. server' = [server EXCEPT !.routed = TRUE, !.binding = FALSE] /\ server.binding
    BY <1>1 DEF RouteAnnounceCommand
  <2>2. /\ server' \in ServerType /\ server'.routed /\ server'.sub = server.sub
        /\ server'.subs = server.subs /\ server'.settled = server.settled
        /\ server'.crossed = server.crossed /\ server'.active = server.active
        /\ server'.sent = server.sent /\ server'.asked = server.asked
        /\ server'.answers = server.answers
    BY <2>1 DEF ServerType
  <2> QED
    BY <2>1, <2>2 DEF Waits, Makes
<1>2. CASE EventSubCommand
  <2>1. PICK i \in DOMAIN server.subs:
          LET last == i = Len(server.subs) /\ ~server.settled
          IN  server' = [server EXCEPT !.sub = server.subs[i], !.subs = RemoveAt(@, i),
                                       !.settled = @ \/ last, !.crossed = (@ \/ server.settled) /\ ~last]
    BY <1>2 DEF EventSubCommand
  <2> DEFINE q == server.subs
             left == RemoveAt(q, i)
             scope == q[i]
             last == i = Len(q) /\ ~server.settled
             settled == server.settled \/ last
             crossed == (server.crossed \/ server.settled) /\ ~last
  <2>2. server' = [server EXCEPT !.sub = scope, !.subs = left, !.settled = settled, !.crossed = crossed]
    BY <2>1
  <2>3. q \in Seq(SUBSET AnyScope) /\ i \in 1 .. Len(q)
    BY LenProperties DEF ServerType
  <2>4. /\ left \in Seq(SUBSET AnyScope) /\ scope \in SUBSET AnyScope
        /\ i # Len(q) => left # <<>> /\ left[Len(left)] = q[Len(q)]
    <3> HIDE DEF q
    <3> QED
      BY <2>3, RemovesEarlier, ElementOfSeq
  <2>5. last \in BOOLEAN /\ settled \in BOOLEAN /\ crossed \in BOOLEAN
    BY DEF ServerType
  <2>6. /\ last => settled /\ ~crossed /\ scope = q[Len(q)] /\ ~server.settled
        /\ server.settled => settled /\ crossed
        /\ ~last /\ ~server.settled => ~settled /\ i # Len(q)
    OBVIOUS
  <2> HIDE DEF left, scope, last, settled, crossed
  <2>7. /\ server' \in ServerType /\ server'.sub = scope /\ server'.subs = left
        /\ server'.settled = settled /\ server'.crossed = crossed
        /\ server'.routed = server.routed /\ server'.binding = server.binding
        /\ server'.active = server.active /\ server'.sent = server.sent
        /\ server'.asked = server.asked /\ server'.answers = server.answers
    BY <2>2, <2>4, <2>5 DEF ServerType
  <2>8. Waits(server) => Waits(server')
    BY <2>4, <2>5, <2>6, <2>7 DEF Waits
  <2>9. ASSUME NEW scopes, Makes(server, scopes) PROVE Makes(server', scopes)
    <3>1. IF server.settled THEN TRUE ELSE q[Len(q)] = scopes
      BY <2>9 DEF Makes
    <3> HIDE DEF q
    <3> QED
      BY <2>4, <2>5, <2>6, <2>7, <3>1 DEF Makes
  <2> QED
    BY <2>6, <2>7, <2>8, <2>9
<1> QED
  BY <1>1, <1>2

LEMMA BackendAsks ==
  ASSUME server \in ServerType, ServerAsks
  PROVE  /\ server' \in ServerType /\ LinkKept
         /\ server'.active = server.active /\ server'.sent = server.sent
         /\ server'.asked = server.asked + 1 /\ server'.answers = server.answers
<1> DEFINE asked == server.asked + 1
<1>1. server' = [server EXCEPT !.asked = asked] /\ asked \in Nat
  BY DEF ServerAsks, ServerType
<1> HIDE DEF asked
<1>2. server' \in ServerType
  BY <1>1 DEF ServerType
<1>3. /\ LinkKept
      /\ server'.active = server.active /\ server'.sent = server.sent
      /\ server'.asked = asked /\ server'.answers = server.answers
  BY <1>1 DEF ServerType, LinkKept
<1> QED
  BY <1>2, <1>3 DEF asked

LEMMA LinkLost ==
  ASSUME conn \in ConnType, server \in ServerType, Closed
  PROVE  /\ conn' \in ConnType /\ ~conn'.open /\ ~conn'.opening
         /\ server' \in ServerType /\ ~server'.routed /\ ~server'.binding /\ server'.settled
         /\ server'.sub = {} /\ server'.active = {}
         /\ server'.sent = server.sent /\ server'.asked = server.asked /\ server'.answers = server.answers
<1> DEFINE tries == conn.tries + 1
           sleeping == conn.tries < GiveUp
<1>1. conn' = [conn EXCEPT !.open = FALSE, !.opening = FALSE, !.fresh = FALSE, !.tries = tries,
                           !.sleeping = sleeping]
  BY DEF Closed, Retried
<1>2. tries \in Nat /\ sleeping \in BOOLEAN
  BY DEF ConnType
<1> HIDE DEF tries, sleeping
<1>3. conn' \in ConnType /\ ~conn'.open /\ ~conn'.opening
  BY <1>1, <1>2 DEF ConnType
<1>4. server' = [server EXCEPT !.routed = FALSE, !.binding = FALSE, !.sub = {}, !.active = {},
                               !.settled = TRUE, !.crossed = FALSE]
  BY DEF Closed
<1>5. /\ server' \in ServerType /\ ~server'.routed /\ ~server'.binding /\ server'.settled
      /\ server'.sub = {} /\ server'.active = {}
      /\ server'.sent = server.sent /\ server'.asked = server.asked /\ server'.answers = server.answers
  BY <1>4 DEF ServerType
<1> QED
  BY <1>3, <1>5

\* A response to request c, whether more are to come or not, with data or without.
Responds(c, kind, cont, data) ==
  /\ kind = "error" => ~cont /\ ~data
  /\ cont => data
  /\ down' = Append(down, [kind |-> kind, id |-> c, cont |-> cont, data |-> data])
  /\ server'.active = IF cont THEN server.active ELSE server.active \ {c}
  /\ server'.sent = [server.sent EXCEPT ![c] = IF data THEN @ + 1 ELSE @]

LEMMA BackendResponds ==
  ASSUME server \in ServerType, ServerResponds
  PROVE  /\ server' \in ServerType /\ LinkKept
         /\ server'.asked = server.asked /\ server'.answers = server.answers
         /\ \E c \in server.active, cont, data \in BOOLEAN, kind \in {"resp", "error"}:
              Responds(c, kind, cont, data)
<1>1. PICK c \in server.active, cont, data \in BOOLEAN, kind \in {"resp", "error"}:
        /\ conn.open
        /\ kind = "error" => ~cont /\ ~data
        /\ cont => data /\ Calls[c].kind = "stream" /\ server.sent[c] < MaxConts
        /\ down' = Append(down, [kind |-> kind, id |-> c, cont |-> cont, data |-> data])
        /\ server' = [server EXCEPT !.active = IF cont THEN @ ELSE @ \ {c},
                                    !.sent[c] = IF data THEN @ + 1 ELSE @]
        /\ UNCHANGED <<conn, msgQueue, up, subjects, callVars, losses, changes>>
  BY Zenon DEF ServerResponds
<1> DEFINE active == IF cont THEN server.active ELSE server.active \ {c}
           sent == [server.sent EXCEPT ![c] = IF data THEN @ + 1 ELSE @]
<1>2. server' = [server EXCEPT !.active = active, !.sent = sent]
  BY <1>1
<1>3. active \in SUBSET CallIds /\ sent \in [CallIds -> Nat]
  BY DEF ServerType
<1> HIDE DEF active, sent
<1>4. /\ server' \in ServerType /\ LinkKept
      /\ server'.asked = server.asked /\ server'.answers = server.answers
      /\ server'.active = active /\ server'.sent = sent
  BY <1>2, <1>3 DEF ServerType, LinkKept
<1>5. Responds(c, kind, cont, data)
  BY <1>1, <1>4 DEF Responds, active, sent
<1> QED
  BY <1>4, <1>5

-----------------------------------------------------------------------------
(* The steps *)

LEMMA LinkInitInv == LinkInit => LinkInv
<1> SUFFICES ASSUME LinkInit PROVE LinkInv
  OBVIOUS
<1>1. /\ up = <<>> /\ msgQueue = <<>> /\ subjects = <<>>
      /\ conn \in ConnType /\ ~conn.open /\ ~conn.sleeping
  BY DEF LinkInit, ConnType
<1>2. /\ server \in ServerType /\ ~server.routed /\ ~server.binding
      /\ server.settled /\ Makes(server, {}) /\ Waits(server)
  BY EmptySeq DEF LinkInit, ServerType, Makes, Waits
<1>3. LinkType
  BY <1>1, <1>2 DEF LinkType
<1>4. LastSubIs(msgQueue, Current)
  BY <1>1 DEF LastSubIs
<1> QED
  BY <1>1, <1>2, <1>3, <1>4 DEF LinkInv

\* A message the page pushes that is no subscription.
LEMMA PushOther ==
  ASSUME LinkInv, NEW m \in Messages, m.kind \in {"req", "answer"}, pushMessage(m),
         UNCHANGED <<conn, subjects, server>>
  PROVE  LinkInv'
<1>1. CASE conn.open
  <2>1. up' = up \o Sent(m) /\ msgQueue' = msgQueue
    BY <1>1 DEF pushMessage
  <2>2. up \in Seq(Messages)
    BY DEF LinkInv, LinkType
  <2>3. CASE up' = up
    BY <2>1, <2>3 DEF LinkInv, LinkType, WillHold, Current
  <2>4. CASE up' = Append(up, m)
    <3>1. /\ up' \in Seq(Messages) /\ (HasSub(up') <=> HasSub(up))
          /\ LastSubIs(up, Current) => LastSubIs(up', Current)
          /\ Announces(up) => Announces(up')
      BY <2>2, <2>4, AppendFacts
    <3> QED
      BY <1>1, <2>1, <3>1 DEF LinkInv, LinkType, WillHold, Current
  <2> QED
    BY <2>1, <2>2, <2>3, <2>4, SentFacts
<1>2. CASE ~conn.open
  <2>1. msgQueue' = Append(msgQueue, m) /\ up' = up
    BY <1>2 DEF pushMessage, Pushed
  <2>2. msgQueue' \in Seq(Messages) /\ LastSubIs(msgQueue', Current)
    BY <2>1, AppendFacts DEF LinkInv, LinkType
  <2> QED
    BY <1>2, <2>1, <2>2 DEF LinkInv, LinkType, Current
<1> QED
  BY <1>1, <1>2

\* A change of the subscription.
LEMMA PushSubscription ==
  ASSUME Calm, LinkInv, MayChange, NEW s \in Seq(AnyScope), subjects' = s,
         pushMessage(Subscription(s)), UNCHANGED <<conn, server>>
  PROVE  LinkInv'
<1> DEFINE m == Subscription(s)
<1>1. m \in Messages /\ m.kind = "sub" /\ m.scopes = Current'
  BY SubscriptionFacts DEF Current
<1>2. up \in Seq(Messages) /\ msgQueue \in Seq(Messages)
  BY DEF LinkInv, LinkType
<1> HIDE DEF m
<1>3. CASE conn.open
  <2>1. up' = up \o Sent(m) /\ msgQueue' = msgQueue
    BY <1>3 DEF pushMessage, m
  <2>2. up' = Append(up, m)
    BY <1>1, <1>2, <2>1, SentFacts
  <2>3. /\ up' \in Seq(Messages) /\ HasSub(up') /\ LastSubIs(up', Current')
        /\ Announces(up) => Announces(up')
    BY <1>1, <1>2, <2>2, AppendFacts
  <2>4. msgQueue' = <<>>
    BY <1>3, <2>1 DEF MayChange
  <2>5. LastSubIs(msgQueue', Current')
    BY <2>4 DEF LastSubIs
  <2> QED
    BY <1>3, <2>1, <2>3, <2>4, <2>5 DEF LinkInv, LinkType, WillHold
<1>4. CASE ~conn.open
  <2>1. msgQueue' = Append(msgQueue, m) /\ up' = up
    BY <1>1, <1>4 DEF pushMessage, Pushed, m
  <2>2. msgQueue' \in Seq(Messages) /\ LastSubIs(msgQueue', Current')
    BY <1>1, <1>2, <2>1, AppendFacts
  <2> QED
    BY <1>4, <2>1, <2>2 DEF LinkInv, LinkType
<1> QED
  BY <1>3, <1>4

\* The socket opens.
LEMMA OpenedInv ==
  ASSUME LinkInv, Opened PROVE LinkInv'
<1> DEFINE a == <<Announce>>
           sub == Subscription(subjects)
           again == Resubscribed(subjects)
<1>0. conn'.open /\ ~conn'.opening /\ ~conn'.sleeping /\ conn' \in ConnType
  <2> DEFINE n == IF msgQueue = <<>> THEN conn.draining ELSE conn.draining + 1
  <2>1. /\ conn' = [conn EXCEPT !.open = TRUE, !.opening = FALSE, !.fresh = TRUE, !.draining = n]
        /\ n \in Int /\ conn.opening
    BY DEF Opened, LinkInv, LinkType, ConnType
  <2> HIDE DEF n
  <2> QED
    BY <2>1 DEF LinkInv, LinkType, ConnType
<1>1. /\ conn'.open /\ up' = again \o FirstOf(msgQueue)
      /\ msgQueue' = IF msgQueue = <<>> THEN <<>> ELSE Tail(msgQueue)
      /\ UNCHANGED <<subjects, server>>
  BY <1>0 DEF Opened
<1>2. sub \in Messages /\ sub.kind = "sub" /\ sub.scopes = Current
  BY SubscriptionFacts DEF LinkInv, LinkType, Current
<1>3. a \in Seq(Messages) /\ ~HasSub(a) /\ Announces(a)
  BY DEF Messages, Announce, HasSub, Announces
<1>4. ~conn.open
  BY DEF Opened, LinkInv
<1>5. /\ again \in Seq(Messages) /\ Announces(again)
      /\ IF HasSub(again) THEN LastSubIs(again, Current) ELSE Makes(server, Current)
  <2>1. CASE subjects = <<>>
    <3>1. again = a
      BY <2>1 DEF Resubscribed
    <3>2. ToSet(subjects) = {}
      BY <2>1 DEF ToSet
    <3>3. Current = {}
      BY <3>2 DEF Current, Subscription
    <3> QED
      BY <1>3, <1>4, <3>1, <3>3 DEF LinkInv
  <2>2. CASE subjects # <<>>
    <3>1. again = Append(a, sub)
      BY <2>2 DEF Resubscribed
    <3> QED
      BY <1>2, <1>3, <3>1, AppendFacts
  <2> QED
    BY <2>1, <2>2
<1> HIDE DEF again, a, sub
<1>6. CASE msgQueue = <<>>
  <2>1. up' = again /\ msgQueue' = msgQueue
    BY <1>1, <1>5, <1>6, ConcatEmptySeq DEF FirstOf
  <2> QED
    BY <1>0, <1>1, <1>5, <2>1 DEF LinkInv, LinkType, WillHold, Current
<1>7. CASE msgQueue # <<>>
  <2> DEFINE m == msgQueue[1]
  <2>0. msgQueue \in Seq(Messages) /\ LastSubIs(msgQueue, Current)
    BY DEF LinkInv, LinkType
  <2>1. /\ m \in Messages /\ msgQueue' \in Seq(Messages) /\ LastSubIs(msgQueue', Current)
        /\ m.kind = "sub" /\ ~HasSub(msgQueue') => m.scopes = Current
    BY <1>1, <1>7, <2>0, TailFacts
  <2>2. up' = again \o Sent(m)
    BY <1>1, <1>7 DEF FirstOf
  <2> HIDE DEF m
  <2>3. up' = Append(again, m) \/ (up' = again /\ m.kind = "req")
    BY <1>5, <2>1, <2>2, SentFacts
  <2>4. /\ up' \in Seq(Messages) /\ Announces(up')
        /\ ~HasSub(msgQueue') => IF HasSub(up') THEN LastSubIs(up', Current) ELSE Makes(server, Current)
    <3>1. CASE up' = again
      BY <1>5, <3>1
    <3>2. CASE up' = Append(again, m)
      <4>1. CASE m.kind = "sub"
        BY <1>5, <2>1, <3>2, <4>1, AppendFacts
      <4>2. CASE m.kind # "sub"
        BY <1>5, <2>1, <3>2, <4>2, AppendFacts
      <4> QED
        BY <4>1, <4>2
    <3> QED
      BY <2>3, <3>1, <3>2
  <2> QED
    BY <1>0, <1>1, <2>1, <2>4 DEF LinkInv, LinkType, WillHold, Current
<1> QED
  BY <1>6, <1>7

\* A queued message is sent.
LEMMA RunMsgQueueInv ==
  ASSUME LinkInv, runMsgQueue PROVE LinkInv'
<1>0. UNCHANGED <<subjects, server>>
  BY DEF runMsgQueue
<1>1. CASE ~(conn.open /\ msgQueue # <<>>)
  <2>1. conn' = [conn EXCEPT !.draining = @ - 1] /\ conn.draining > 0 /\ UNCHANGED <<up, msgQueue>>
    BY <1>1 DEF runMsgQueue
  <2>2. /\ conn' \in ConnType
        /\ conn'.open = conn.open /\ conn'.opening = conn.opening /\ conn'.sleeping = conn.sleeping
    <3> DEFINE n == conn.draining - 1
    <3>1. conn' = [conn EXCEPT !.draining = n] /\ n \in Int
      BY <2>1 DEF LinkInv, LinkType, ConnType
    <3> HIDE DEF n
    <3> QED
      BY <3>1 DEF LinkInv, LinkType, ConnType
  <2> QED
    BY <1>0, <2>1, <2>2 DEF LinkInv, LinkType, WillHold, Current
<1>2. CASE conn.open /\ msgQueue # <<>>
  <2> DEFINE m == msgQueue[1]
  <2>0. msgQueue \in Seq(Messages) /\ LastSubIs(msgQueue, Current) /\ up \in Seq(Messages)
    BY DEF LinkInv, LinkType
  <2>1. conn' = conn /\ up' = up \o Sent(m) /\ msgQueue' = Tail(msgQueue)
    BY <1>2 DEF runMsgQueue, FirstOf
  <2>2. /\ m \in Messages /\ msgQueue' \in Seq(Messages) /\ LastSubIs(msgQueue', Current)
        /\ m.kind = "sub" /\ ~HasSub(msgQueue') => m.scopes = Current
        /\ HasSub(msgQueue) <=> m.kind = "sub" \/ HasSub(msgQueue')
    BY <1>2, <2>0, <2>1, TailFacts
  <2> HIDE DEF m
  <2>3. up' = Append(up, m) \/ (up' = up /\ m.kind = "req")
    BY <2>0, <2>1, <2>2, SentFacts
  <2>4. ~HasSub(msgQueue) => IF HasSub(up) THEN LastSubIs(up, Current) ELSE Makes(server, Current)
    BY <1>2 DEF LinkInv, WillHold
  <2>5. /\ up' \in Seq(Messages) /\ (Announces(up) => Announces(up'))
        /\ ~HasSub(msgQueue') => IF HasSub(up') THEN LastSubIs(up', Current) ELSE Makes(server, Current)
    <3>1. CASE up' = up /\ m.kind = "req"
      BY <2>0, <2>2, <2>4, <3>1
    <3>2. CASE up' = Append(up, m)
      <4>1. CASE m.kind = "sub"
        BY <2>0, <2>2, <3>2, <4>1, AppendFacts
      <4>2. CASE m.kind # "sub"
        BY <2>0, <2>2, <2>4, <3>2, <4>2, AppendFacts
      <4> QED
        BY <4>1, <4>2
    <3> QED
      BY <2>3, <3>1, <3>2
  <2> QED
    BY <1>0, <1>2, <2>1, <2>2, <2>5 DEF LinkInv, LinkType, WillHold, Current
<1> QED
  BY <1>1, <1>2

\* The socket is lost, and the backend with it forgets the route and its subscription.
LEMMA ClosedInv ==
  ASSUME LinkInv, Closed PROVE LinkInv'
<1>1. up' = <<>> /\ UNCHANGED <<msgQueue, subjects>>
  BY DEF Closed
<1>2. conn \in ConnType /\ server \in ServerType
  BY DEF LinkInv, LinkType
<1>3. /\ conn' \in ConnType /\ ~conn'.open /\ ~conn'.opening
      /\ server' \in ServerType /\ ~server'.routed /\ ~server'.binding
      /\ server'.settled /\ Makes(server', {}) /\ Waits(server')
  BY <1>2, LinkLost DEF Makes, Waits
<1>4. up' \in Seq(Messages)
  BY <1>1
<1> QED
  BY <1>1, <1>3, <1>4 DEF LinkInv, LinkType, Current

\* The backend takes a message.
LEMMA ServerReceivesInv ==
  ASSUME LinkInv, ServerReceives PROVE LinkInv'
<1> DEFINE m == up[1]
<1>1. conn.open /\ up # <<>> /\ up' = Tail(up) /\ UNCHANGED <<conn, msgQueue, subjects>>
  BY DEF ServerReceives
<1>2. up \in Seq(Messages) /\ server \in ServerType
  BY DEF LinkInv, LinkType
<1>3. /\ m \in Messages /\ up' \in Seq(Messages)
      /\ HasSub(up) <=> m.kind = "sub" \/ HasSub(up')
      /\ LastSubIs(up, Current) => LastSubIs(up', Current)
      /\ LastSubIs(up, Current) /\ m.kind = "sub" /\ ~HasSub(up') => m.scopes = Current
      /\ Announces(up) => m.kind = "announce" \/ Announces(up')
  BY <1>1, <1>2, TailFacts
<1>5. /\ server' \in ServerType
      /\ server'.routed = server.routed
      /\ server'.binding <=> server.binding \/ m.kind = "announce"
      /\ m.kind = "sub" => Waits(server') /\ Makes(server', m.scopes)
      /\ m.kind # "sub" => Waits(server') /\ (Makes(server, Current) => Makes(server', Current))
  BY <1>2, BackendReceives DEF LinkInv, Waits, Makes
<1> HIDE DEF m
<1>6. ASSUME ~HasSub(msgQueue)
      PROVE  IF HasSub(up') THEN LastSubIs(up', Current) ELSE Makes(server', Current)
  <2>1. IF HasSub(up) THEN LastSubIs(up, Current) ELSE Makes(server, Current)
    BY <1>1, <1>6 DEF LinkInv, WillHold
  <2> QED
    BY <1>3, <1>5, <2>1
<1>7. server'.routed \/ server'.binding \/ Announces(up')
  BY <1>1, <1>3, <1>5 DEF LinkInv
<1>8. Waits(server')
  BY <1>5
<1> QED
  BY <1>1, <1>3, <1>5, <1>6, <1>7, <1>8 DEF LinkInv, LinkType, WillHold, Current

\* One of the handlers under way on the backend makes its subscription, or the route known.
LEMMA BackendHandlesInv ==
  ASSUME LinkInv, RouteAnnounceCommand \/ EventSubCommand PROVE LinkInv'
<1>1. UNCHANGED <<conn, up, msgQueue, subjects>>
  BY DEF RouteAnnounceCommand, EventSubCommand
<1>2. server \in ServerType /\ Waits(server)
  BY DEF LinkInv, LinkType
<1>3. /\ server' \in ServerType /\ Waits(server')
      /\ \A scopes: Makes(server, scopes) => Makes(server', scopes)
      /\ server.routed \/ server.binding => server'.routed \/ server'.binding
      /\ ~server.routed /\ ~server.binding => ~server'.routed /\ ~server'.binding
      /\ server.settled => server'.settled
  BY <1>2, BackendHandles
<1> QED
  BY <1>1, <1>3 DEF LinkInv, LinkType, WillHold, Current

\* The backend answers or asks, which concerns neither route nor subscription.
LEMMA ServerSendsInv ==
  ASSUME LinkInv, ServerResponds \/ ServerAsks PROVE LinkInv'
<1>1. UNCHANGED <<conn, up, msgQueue, subjects>>
  BY Zenon DEF ServerResponds, ServerAsks
<1>2. server \in ServerType
  BY DEF LinkInv, LinkType
<1>3. server' \in ServerType /\ LinkKept
  BY <1>2, BackendAsks, BackendResponds
<1>4. Waits(server') <=> Waits(server)
  BY <1>3 DEF LinkKept, Waits
<1>5. \A scopes: Makes(server', scopes) <=> Makes(server, scopes)
  BY <1>3 DEF LinkKept, Makes
<1> QED
  BY <1>1, <1>3, <1>4, <1>5 DEF LinkInv, LinkType, LinkKept, WillHold, Current

\* A handler that is added or removed: the whole subscription is pushed.
LEMMA Subscribed ==
  ASSUME subjects \in Seq(AnyScope), doraEventSubscribeSingle \/ doraEventUnsubscribe
  PROVE  subjects' \in Seq(AnyScope) /\ pushMessage(Subscription(subjects'))
<1>1. CASE doraEventSubscribeSingle
  <2>1. PICK s \in Scopes \cup {All} :
          subjects' = Append(subjects, s) /\ pushMessage(Subscription(Append(subjects, s)))
    BY <1>1 DEF doraEventSubscribeSingle
  <2>2. Append(subjects, s) \in Seq(AnyScope)
    BY DEF AnyScope
  <2> QED
    BY <2>1, <2>2
<1>2. CASE doraEventUnsubscribe
  <2>1. PICK i \in DOMAIN subjects :
          subjects' = RemoveAt(subjects, i) /\ pushMessage(Subscription(RemoveAt(subjects, i)))
    BY <1>2 DEF doraEventUnsubscribe
  <2>2. i \in 1 .. Len(subjects)
    BY LenProperties
  <2>3. RemoveAt(subjects, i) \in Seq(AnyScope)
    BY <2>2, RemoveAtFacts
  <2> QED
    BY <2>1, <2>3
<1> QED
  BY <1>1, <1>2

\* A handler responds: its answer is pushed unless it was before.
LEMMA Responded ==
  ASSUME up \in Seq(Messages), msgQueue \in Seq(Messages), NEW done \in BOOLEAN, sendResponse(done)
  PROVE  /\ handler = "replied" => up' = up /\ msgQueue' = msgQueue
         /\ handler # "replied" => pushMessage([kind |-> "answer"])
<1> DEFINE m == [kind |-> "answer"]
<1>1. CASE handler = "replied"
  BY <1>1, ConcatEmptySeq DEF sendResponse, Replies
<1>2. CASE handler # "replied"
  <2>1. IF conn.open THEN up' = up \o <<m>> /\ UNCHANGED msgQueue
        ELSE msgQueue' = msgQueue \o <<m>> /\ UNCHANGED up
    BY <1>2 DEF sendResponse, Replies
  <2>2. Sent(m) = <<m>> /\ m \in Messages /\ m.kind = "answer"
    BY DEF TooLarge, Sent, Messages
  <2>3. msgQueue \o <<m>> = Append(msgQueue, m)
    BY <2>2, AppendIsConcat
  <2> QED
    BY <1>2, <2>1, <2>2, <2>3 DEF pushMessage, Pushed
<1> QED
  BY <1>1, <1>2

\* Steps that leave the link as it is.
LEMMA LinkUnchanged ==
  ASSUME LinkInv, UNCHANGED <<up, msgQueue, subjects, server>>,
         conn' \in ConnType,
         conn'.open = conn.open,
         conn'.open \/ conn'.opening => ~conn'.sleeping, conn'.open => ~conn'.opening
  PROVE  LinkInv'
  BY DEF LinkInv, LinkType, WillHold, Current

LEMMA StableInv == ASSUME LinkInv, Stable \/ connectNow PROVE LinkInv'
<1>1. UNCHANGED <<up, msgQueue, subjects, server>>
  BY DEF Stable, connectNow
<1>2. /\ conn' \in ConnType
      /\ conn'.open = conn.open
      /\ conn'.open \/ conn'.opening => ~conn'.sleeping
      /\ conn'.open => ~conn'.opening
  <2>1. conn \in ConnType
    BY DEF LinkInv, LinkType
  <2>2. CASE Stable
    <3>1. conn' = [conn EXCEPT !.tries = 0, !.fresh = FALSE]
      BY <2>2 DEF Stable
    <3>2. /\ conn' \in ConnType /\ conn'.open = conn.open /\ conn'.opening = conn.opening
          /\ conn'.sleeping = conn.sleeping
      BY <2>1, <3>1 DEF ConnType
    <3> QED
      BY <3>2 DEF LinkInv
  <2>3. CASE connectNow
    <3>1. conn' = [conn EXCEPT !.sleeping = FALSE, !.opening = TRUE] /\ conn.sleeping
      BY <2>3 DEF connectNow
    <3>2. /\ conn' \in ConnType /\ conn'.open = conn.open /\ conn'.opening /\ ~conn'.sleeping
      BY <2>1, <3>1 DEF ConnType
    <3> QED
      BY <3>1, <3>2 DEF LinkInv
  <2> QED
    BY <2>2, <2>3
<1> QED
  BY <1>1, <1>2, LinkUnchanged

LEMMA CallStepInv == ASSUME LinkInv, NEW c \in CallIds, CallStep(c) PROVE LinkInv'
<1>1. CASE sendRpcCommand(c)
  <2> DEFINE m == [kind |-> "req", id |-> c]
  <2>1. m \in Messages /\ m.kind = "req"
    BY DEF Messages
  <2> QED
    BY <1>1, <2>1, PushOther DEF sendRpcCommand
<1>2. CASE Timeout(c) \/ GeneratorTakes(c) \/ ConsumerGoesOn(c)
  <2>1. UNCHANGED <<conn, up, msgQueue, subjects, server>>
    BY <1>2 DEF Timeout, GeneratorTakes, ConsumerGoesOn
  <2> QED
    BY <2>1, LinkUnchanged DEF LinkInv, LinkType
<1> QED
  BY <1>1, <1>2 DEF CallStep

LEMMA ReceivesInv == ASSUME LinkInv, ReceiveResponse \/ ReceiveCommand PROVE LinkInv'
<1>1. UNCHANGED <<conn, up, msgQueue, subjects, server>>
  BY DEF ReceiveResponse, ReceiveCommand
<1> QED
  BY <1>1, LinkUnchanged DEF LinkInv, LinkType

LEMMA SendResponseInv == ASSUME LinkInv, NEW done \in BOOLEAN, sendResponse(done) PROVE LinkInv'
<1>1. UNCHANGED <<conn, subjects, server>>
  BY DEF sendResponse
<1>2. [kind |-> "answer"] \in Messages
  BY DEF Messages
<1>3. CASE up' = up /\ msgQueue' = msgQueue
  BY <1>1, <1>3, LinkUnchanged DEF LinkInv, LinkType
<1>4. CASE pushMessage([kind |-> "answer"])
  BY <1>1, <1>2, <1>4, PushOther
<1> QED
  BY <1>3, <1>4, Responded DEF LinkInv, LinkType

LEMMA SubscribeInv ==
  ASSUME Calm, LinkInv, doraEventSubscribeSingle \/ doraEventUnsubscribe PROVE LinkInv'
<1>1. UNCHANGED <<conn, server>> /\ MayChange
  BY DEF doraEventSubscribeSingle, doraEventUnsubscribe
<1>2. subjects' \in Seq(AnyScope) /\ pushMessage(Subscription(subjects'))
  BY Subscribed DEF LinkInv, LinkType
<1> QED
  BY <1>1, <1>2, PushSubscription

-----------------------------------------------------------------------------
(* The theorem *)

LEMMA LinkStepInv == ASSUME Calm, LinkInv, [LinkNext]_linkVars PROVE LinkInv'
<1>1. CASE Opened \/ runMsgQueue \/ Closed
  BY <1>1, OpenedInv, RunMsgQueueInv, ClosedInv
<1>2. CASE Stable \/ connectNow
  BY <1>2, StableInv
<1>3. CASE doraEventSubscribeSingle \/ doraEventUnsubscribe
  BY <1>3, SubscribeInv
<1>4. CASE ReceiveResponse \/ ReceiveCommand
  BY <1>4, ReceivesInv
<1>5. CASE \E done \in BOOLEAN : sendResponse(done)
  BY <1>5, SendResponseInv
<1>6. CASE ServerReceives \/ ServerResponds \/ ServerAsks
  BY <1>6, ServerReceivesInv, ServerSendsInv
<1>7. CASE \E c \in CallIds : CallStep(c)
  BY <1>7, CallStepInv
<1>9. CASE RouteAnnounceCommand \/ EventSubCommand
  BY <1>9, BackendHandlesInv
<1>8. CASE UNCHANGED linkVars
  BY <1>8, LinkUnchanged DEF linkVars, LinkInv, LinkType
<1> QED
  BY <1>1, <1>2, <1>3, <1>4, <1>5, <1>6, <1>7, <1>8, <1>9 DEF LinkNext

\* When everything sent has arrived the backend knows the page's route and holds its
\* subscription, whatever sockets were lost (ws.ts, wpsReconnectHandler), as long as
\* subscriptions are left alone while queued messages are sent.
THEOREM SubscriptionAlwaysHolds == ASSUME Calm PROVE LinkSpec => []SubscriptionHolds
<1>1. LinkInit => LinkInv
  BY LinkInitInv
<1>2. LinkInv /\ [LinkNext]_linkVars => LinkInv'
  BY LinkStepInv
<1>3. LinkInv => SubscriptionHolds
  BY EmptySeq DEF LinkInv, SubscriptionHolds, AllArrived, WillHold, HasSub, Announces, Current, Waits, Makes
<1> QED
  BY <1>1, <1>2, <1>3, PTL DEF LinkSpec
-----------------------------------------------------------------------------
(* Calls and answers: the inductive invariant *)

Request(c) == [kind |-> "req", id |-> c]
Answer == [kind |-> "answer"]
Command == [kind |-> "cmd"]
TimedOut == [kind |-> "timeout"]

\* What may come for request c; its last message; what holds data.
Responses(c) ==
  {m \in [kind: {"resp", "error"}, id: {c}, cont: BOOLEAN, data: BOOLEAN]:
     (m.kind = "error" => ~m.cont /\ ~m.data) /\ (m.cont => m.data)}
FinalOf(c) == {m \in Responses(c): ~m.cont}
DataOf(c) == {m \in Responses(c): m.data}
Arriving == {Command} \cup UNION {Responses(c): c \in CallIds}

PageType ==
  /\ conn \in ConnType /\ subjects \in Seq(AnyScope)
  /\ up \in Seq(Messages) /\ msgQueue \in Seq(Messages) /\ down \in Seq(Arriving)
  /\ server \in ServerType
  /\ DOMAIN queue = CallIds /\ queue = [c \in CallIds |-> queue[c]]
  /\ \A c \in CallIds: queue[c] \in Seq(Responses(c) \cup {TimedOut})
  /\ stage \in [CallIds -> {"new", "unmade", "waiting", "yielded", "last", "done", "failed", "left"}]
  /\ got \in [CallIds -> Nat]
  /\ losses \in Nat
  /\ conn.open => ~conn.opening
  /\ conn.open \/ conn.opening => ~conn.sleeping
  /\ ~conn.open => up = <<>>

\* A request is in one place at most: on its way, in the queue, or with the backend.
Unsent(c) == Times(up, {Request(c)}) + Times(msgQueue, {Request(c)})
Requested(c) == Unsent(c) + (IF c \in server.active THEN 1 ELSE 0)

\* As long as there is something to come for a request the router knows its way back; the
\* last message is the last.
RouteInv(c) ==
  /\ Requested(c) <= 1
  /\ stage[c] \in {"new", "unmade"} => Requested(c) = 0 /\ ~Occurs(down, Responses(c))
  /\ Requested(c) # 0 \/ Occurs(down, Responses(c)) => c \in rpcMap
  /\ Occurs(down, FinalOf(c)) => Requested(c) = 0
  /\ NoneAfter(down, FinalOf(c), Responses(c))

\* All data that was sent was given to the caller, is queued or on its way, or else the link
\* was lost and the last message will never come.
Whole(c) == got[c] + Times(queue[c], DataOf(c)) + Times(down, DataOf(c)) = server.sent[c]
Cut(c) ==
  /\ losses > 0 /\ stage[c] \in {"waiting", "yielded"} /\ Requested(c) = 0
  /\ ~Occurs(down, Responses(c)) /\ ~Occurs(queue[c], FinalOf(c))
Ended(c) == stage[c] \in {"last", "done"}
StreamInv(c) ==
  /\ stage[c] \in {"waiting", "yielded"} => c \in openRpcs
  /\ stage[c] \in {"new", "unmade"} \/ Unsent(c) # 0 =>
       /\ got[c] = 0 /\ server.sent[c] = 0
       /\ ~Occurs(queue[c], Responses(c)) /\ ~Occurs(down, Responses(c))
  /\ NoneAfter(queue[c], FinalOf(c), Responses(c))
  /\ Occurs(queue[c], FinalOf(c)) \/ Ended(c) => Requested(c) = 0 /\ ~Occurs(down, Responses(c))
  /\ Ended(c) => ~Occurs(queue[c], Responses(c))
  /\ Whole(c) \/ Cut(c)
IsStream(c) == Calls[c].kind = "stream" /\ stage[c] \notin {"failed", "left"}

CallInv ==
  /\ PageType
  /\ \A c \in CallIds: RouteInv(c) /\ (IsStream(c) => StreamInv(c))

\* Each request of the backend is on its way, in hand, or answered, unless the link was lost.
Answers == Times(up, {Answer}) + Times(msgQueue, {Answer})
InHand == IF handler = "running" THEN 1 ELSE 0
Answering == server.answers + Answers + Times(down, {Command}) + InHand
AnswerInv ==
  /\ handler \in {"none", "off", "running", "replied"}
  /\ Answering <= server.asked
  /\ losses = 0 => Answering = server.asked

-----------------------------------------------------------------------------
(* Calls and answers: what is under way *)

LEMMA KindsDiffer ==
  /\ \A c, d \in CallIds: c # d => Responses(c) \cap Responses(d) = {} /\ Request(c) # Request(d)
  /\ \A c \in CallIds: /\ Command \notin Responses(c) /\ TimedOut \notin Responses(c)
                       /\ Request(c) # Answer /\ Request(c) \in Messages /\ Request(c).kind = "req"
                       /\ FinalOf(c) \subseteq Responses(c) /\ DataOf(c) \subseteq Responses(c)
                       /\ Responses(c) \subseteq Arriving
  /\ Answer \in Messages /\ Answer.kind = "answer" /\ Announce.kind = "announce" /\ Command \in Arriving
<1>1. ASSUME NEW c \in CallIds, NEW d \in CallIds, c # d
      PROVE  Responses(c) \cap Responses(d) = {} /\ Request(c) # Request(d)
  <2>1. \A m \in Responses(c): m.id = c
    BY DEF Responses
  <2>2. \A m \in Responses(d): m.id = d
    BY DEF Responses
  <2>3. Request(c).id = c /\ Request(d).id = d
    BY DEF Request
  <2> QED
    BY <1>1, <2>1, <2>2, <2>3
<1>2. ASSUME NEW c \in CallIds
      PROVE  /\ Command \notin Responses(c) /\ TimedOut \notin Responses(c)
             /\ Request(c) # Answer /\ Request(c) \in Messages /\ Request(c).kind = "req"
             /\ FinalOf(c) \subseteq Responses(c) /\ DataOf(c) \subseteq Responses(c)
             /\ Responses(c) \subseteq Arriving
  <2>1. \A m \in Responses(c): m.kind \in {"resp", "error"}
    BY DEF Responses
  <2>2. Command.kind = "cmd" /\ TimedOut.kind = "timeout" /\ Answer.kind = "answer" /\ Request(c).kind = "req"
    BY DEF Command, TimedOut, Answer, Request
  <2>3. FinalOf(c) \subseteq Responses(c) /\ DataOf(c) \subseteq Responses(c)
    BY DEF FinalOf, DataOf
  <2>4. Responses(c) \subseteq Arriving
    BY DEF Arriving
  <2>5. Request(c) \in Messages
    BY DEF Request, Messages
  <2>6. Command \notin Responses(c) /\ TimedOut \notin Responses(c)
    BY <2>1, <2>2
  <2>7. Request(c) # Answer
    BY <2>2
  <2> QED
    BY <2>2, <2>3, <2>4, <2>5, <2>6, <2>7
<1>3. /\ Answer \in Messages /\ Answer.kind = "answer" /\ Announce.kind = "announce"
      /\ Command \in Arriving
  BY DEF Answer, Announce, Messages, Arriving
<1> QED
  BY <1>1, <1>2, <1>3

LEMMA AnswerIs == \A m \in Messages: m.kind = "answer" <=> m = Answer
  BY DEF Messages, Answer, Announce

LEMMA CommandIs == \A m \in Arriving: m.kind = "cmd" <=> m = Command
<1>1. \A c \in CallIds: \A m \in Responses(c): m.kind # "cmd"
  BY DEF Responses
<1> QED
  BY <1>1 DEF Arriving, Command

LEMMA UnderWay ==
  ASSUME PageType, NEW c \in CallIds
  PROVE  /\ Unsent(c) \in Nat /\ Requested(c) \in Nat /\ Unsent(c) <= Requested(c)
         /\ c \in server.active => Requested(c) = Unsent(c) + 1
         /\ c \notin server.active => Requested(c) = Unsent(c)
         /\ queue[c] \in Seq(Responses(c) \cup {TimedOut}) /\ down \in Seq(Arriving)
         /\ Times(queue[c], DataOf(c)) \in Nat /\ Times(down, DataOf(c)) \in Nat
         /\ got[c] \in Nat /\ server.sent[c] \in Nat /\ losses \in Nat
<1>1. up \in Seq(Messages) /\ msgQueue \in Seq(Messages)
  BY DEF PageType
<1>2. Times(up, {Request(c)}) \in Nat /\ Times(msgQueue, {Request(c)}) \in Nat
  BY <1>1, TimesFacts
<1>3. queue[c] \in Seq(Responses(c) \cup {TimedOut}) /\ down \in Seq(Arriving)
  BY DEF PageType
<1>4. Times(queue[c], DataOf(c)) \in Nat /\ Times(down, DataOf(c)) \in Nat
  BY <1>3, TimesFacts
<1>5. got[c] \in Nat /\ server.sent[c] \in Nat /\ losses \in Nat
  <2>1. got \in [CallIds -> Nat] /\ server \in ServerType /\ losses \in Nat
    BY DEF PageType
  <2> QED
    BY <2>1 DEF ServerType
<1>6. Unsent(c) \in Nat
  BY <1>2 DEF Unsent
<1> QED
  BY <1>3, <1>4, <1>5, <1>6 DEF Requested

\* No data is on its way that is no response; what holds no response holds no data.
LEMMA NoResponse ==
  ASSUME NEW S, NEW s \in Seq(S), NEW c \in CallIds, ~Occurs(s, Responses(c))
  PROVE  /\ Times(s, DataOf(c)) = 0 /\ ~Occurs(s, FinalOf(c))
         /\ \A D: NoneAfter(s, FinalOf(c), D)
<1>1. ~Occurs(s, DataOf(c)) /\ ~Occurs(s, FinalOf(c))
  BY KindsDiffer DEF Occurs
<1> QED
  BY <1>1, TimesFacts DEF Occurs, NoneAfter

\* What comes, and has come, for request c is the same in sequence t as in s.
Same(s, t, c) ==
  /\ Occurs(t, Responses(c)) <=> Occurs(s, Responses(c))
  /\ Occurs(t, FinalOf(c)) <=> Occurs(s, FinalOf(c))
  /\ Times(t, DataOf(c)) = Times(s, DataOf(c))
  /\ NoneAfter(s, FinalOf(c), Responses(c)) => NoneAfter(t, FinalOf(c), Responses(c))

LEMMA SameSelf == \A s, c: Same(s, s, c)
  BY DEF Same

LEMMA SameAppended ==
  ASSUME NEW S, NEW s \in Seq(S), NEW c \in CallIds, NEW e \in S, e \notin Responses(c)
  PROVE  Same(s, Append(s, e), c)
<1>1. e \notin FinalOf(c) /\ e \notin DataOf(c)
  BY KindsDiffer
<1>2. /\ Occurs(Append(s, e), Responses(c)) <=> Occurs(s, Responses(c))
      /\ Occurs(Append(s, e), FinalOf(c)) <=> Occurs(s, FinalOf(c))
      /\ Times(Append(s, e), DataOf(c)) = Times(s, DataOf(c)) + 0
  BY <1>1, AppendTimes
<1>3. NoneAfter(s, FinalOf(c), Responses(c)) => NoneAfter(Append(s, e), FinalOf(c), Responses(c))
  BY AppendNoneAfter
<1>4. Times(s, DataOf(c)) \in Nat
  BY TimesFacts
<1> QED
  BY <1>2, <1>3, <1>4 DEF Same

LEMMA SameShortened ==
  ASSUME NEW S, NEW s \in Seq(S), NEW c \in CallIds, s # <<>>, s[1] \notin Responses(c)
  PROVE  Same(s, Tail(s), c)
<1>1. s[1] \notin FinalOf(c) /\ s[1] \notin DataOf(c)
  BY KindsDiffer
<1>2. /\ Occurs(s, Responses(c)) <=> Occurs(Tail(s), Responses(c))
      /\ Occurs(s, FinalOf(c)) <=> Occurs(Tail(s), FinalOf(c))
      /\ Times(s, DataOf(c)) = Times(Tail(s), DataOf(c)) + 0
  BY <1>1, TailTimes
<1>3. NoneAfter(s, FinalOf(c), Responses(c)) => NoneAfter(Tail(s), FinalOf(c), Responses(c))
  BY TailNoneAfter
<1>4. Times(Tail(s), DataOf(c)) \in Nat
  BY Shortened, TimesFacts
<1> QED
  BY <1>2, <1>3, <1>4 DEF Same

\* Steps that neither send nor bring anything of request c.
LEMMA NothingNew ==
  ASSUME CallInv, PageType', losses' = losses, NEW c \in CallIds,
         stage'[c] = stage[c], got'[c] = got[c], server'.sent[c] = server.sent[c],
         c \in openRpcs => c \in openRpcs', c \in rpcMap => c \in rpcMap',
         Same(down, down', c), Same(queue[c], queue'[c], c),
         Unsent(c)' <= Unsent(c), Requested(c)' <= Requested(c)
  PROVE  RouteInv(c)' /\ (IsStream(c)' => StreamInv(c)')
<1>1. /\ Unsent(c) \in Nat /\ Requested(c) \in Nat
      /\ RouteInv(c) /\ (IsStream(c) => StreamInv(c))
  BY UnderWay DEF CallInv
<1>2. Unsent(c)' \in Nat
  <2>1. up' \in Seq(Messages) /\ msgQueue' \in Seq(Messages)
    BY DEF PageType
  <2>2. Times(up', {Request(c)}) \in Nat /\ Times(msgQueue', {Request(c)}) \in Nat
    BY <2>1, TimesFacts
  <2> QED
    BY <2>2 DEF Unsent
<1>3. Requested(c)' \in Nat
  BY <1>2 DEF Requested
<1>4. RouteInv(c)'
  <2>1. Requested(c)' <= 1 /\ (Requested(c) = 0 => Requested(c)' = 0)
    BY <1>1, <1>3 DEF RouteInv
  <2> QED
    BY <1>1, <2>1 DEF RouteInv, Same
<1>5. ASSUME IsStream(c)' PROVE StreamInv(c)'
  <2>1. StreamInv(c)
    BY <1>1, <1>5 DEF IsStream
  <2>2. Unsent(c)' # 0 => Unsent(c) # 0
    BY <1>1, <1>2
  <2>3. Requested(c) = 0 => Requested(c)' = 0
    BY <1>1, <1>3
  <2>4. Whole(c) => Whole(c)'
    BY DEF Whole, Same
  <2>5. Cut(c) => Cut(c)'
    BY <2>3 DEF Cut, Same
  <2> QED
    BY <2>1, <2>2, <2>3, <2>4, <2>5 DEF StreamInv, Same, Ended
<1> QED
  BY <1>4, <1>5

-----------------------------------------------------------------------------
(* Calls and answers: what a socket and its queue do to the messages counted *)

LEMMA SentTimes ==
  ASSUME NEW q \in Seq(Messages), NEW m \in Messages, NEW E
  PROVE  /\ q \o Sent(m) \in Seq(Messages)
         /\ Times(q, E) \in Nat /\ Times(q \o Sent(m), E) \in Nat
         /\ Times(q \o Sent(m), E) <= Times(q, E) + (IF m \in E THEN 1 ELSE 0)
         /\ m.kind # "req" \/ m \notin E =>
              Times(q \o Sent(m), E) = Times(q, E) + (IF m \in E THEN 1 ELSE 0)
<1>1. /\ Append(q, m) \in Seq(Messages) /\ Times(q, E) \in Nat
      /\ Times(Append(q, m), E) = Times(q, E) + (IF m \in E THEN 1 ELSE 0)
  BY Appended, AppendTimes, TimesFacts
<1>2. CASE q \o Sent(m) = Append(q, m)
  BY <1>1, <1>2
<1>3. CASE q \o Sent(m) = q /\ m.kind = "req"
  BY <1>1, <1>3
<1> QED
  BY <1>2, <1>3, SentFacts

\* A message is pushed.
LEMMA PushTimes ==
  ASSUME PageType, NEW m \in Messages, m.kind # "announce", pushMessage(m), NEW E
  PROVE  /\ up' \in Seq(Messages) /\ msgQueue' \in Seq(Messages) /\ (~conn.open => up' = up)
         /\ Times(up', E) + Times(msgQueue', E)
              <= Times(up, E) + Times(msgQueue, E) + (IF m \in E THEN 1 ELSE 0)
         /\ m.kind # "req" \/ m \notin E =>
              Times(up', E) + Times(msgQueue', E)
                = Times(up, E) + Times(msgQueue, E) + (IF m \in E THEN 1 ELSE 0)
<1>1. up \in Seq(Messages) /\ msgQueue \in Seq(Messages)
  BY DEF PageType
<1>2. Times(up, E) \in Nat /\ Times(msgQueue, E) \in Nat
  BY <1>1, TimesFacts
<1> DEFINE k == IF m \in E THEN 1 ELSE 0
<1>k. k \in Nat
  OBVIOUS
<1>3. CASE conn.open
  <2>1. up' = up \o Sent(m) /\ msgQueue' = msgQueue
    BY <1>3 DEF pushMessage
  <2>2. up' \in Seq(Messages) /\ Times(up', E) \in Nat /\ Times(up', E) <= Times(up, E) + k
    BY <1>1, <2>1, SentTimes
  <2>3. m.kind # "req" \/ m \notin E => Times(up', E) = Times(up, E) + k
    BY <1>1, <2>1, SentTimes
  <2>4. Times(msgQueue', E) = Times(msgQueue, E) /\ msgQueue' \in Seq(Messages)
    BY <1>1, <2>1
  <2> HIDE DEF k
  <2>5. /\ Times(up', E) + Times(msgQueue', E) <= Times(up, E) + Times(msgQueue, E) + k
        /\ m.kind # "req" \/ m \notin E =>
             Times(up', E) + Times(msgQueue', E) = Times(up, E) + Times(msgQueue, E) + k
    BY <1>2, <1>k, <2>2, <2>3, <2>4
  <2> QED
    BY <1>3, <2>2, <2>4, <2>5 DEF k
<1>4. CASE ~conn.open
  <2>1. up' = up /\ msgQueue' = Append(msgQueue, m)
    BY <1>4 DEF pushMessage, Pushed
  <2>2. /\ msgQueue' \in Seq(Messages)
        /\ Times(msgQueue', E) = Times(msgQueue, E) + k
    BY <1>1, <2>1, Appended, AppendTimes
  <2> HIDE DEF k
  <2>3. Times(up', E) + Times(msgQueue', E) = Times(up, E) + Times(msgQueue, E) + k
    BY <1>2, <1>k, <2>1, <2>2
  <2>4. Times(up', E) + Times(msgQueue', E) <= Times(up, E) + Times(msgQueue, E) + k
    BY <1>2, <1>k, <2>3
  <2> QED
    BY <1>1, <1>4, <2>1, <2>2, <2>3, <2>4 DEF k
<1> QED
  BY <1>3, <1>4

\* The first message of the queue is sent.
LEMMA FirstTimes ==
  ASSUME NEW u \in Seq(Messages), NEW q \in Seq(Messages), q # <<>>, NEW E
  PROVE  /\ u \o FirstOf(q) \in Seq(Messages) /\ Tail(q) \in Seq(Messages)
         /\ Times(u \o FirstOf(q), E) + Times(Tail(q), E) <= Times(u, E) + Times(q, E)
         /\ (\A m \in E: m.kind # "req") =>
              Times(u \o FirstOf(q), E) + Times(Tail(q), E) = Times(u, E) + Times(q, E)
<1> DEFINE m == q[1]
           k == IF m \in E THEN 1 ELSE 0
           x == Times(u \o Sent(m), E)
           y == Times(Tail(q), E)
<1>1. m \in Messages /\ Tail(q) \in Seq(Messages) /\ FirstOf(q) = Sent(m) /\ k \in Nat
  BY Shortened DEF FirstOf
<1>2. Times(q, E) = y + k /\ y \in Nat
  BY <1>1, TailTimes, TimesFacts
<1> HIDE DEF m
<1>3. /\ u \o Sent(m) \in Seq(Messages)
      /\ Times(u, E) \in Nat /\ x \in Nat /\ x <= Times(u, E) + k
  BY <1>1, SentTimes
<1>4. m.kind # "req" \/ m \notin E => x = Times(u, E) + k
  BY <1>1, SentTimes
<1> HIDE DEF k, x, y
<1>5. /\ x + y <= Times(u, E) + Times(q, E)
      /\ m.kind # "req" \/ m \notin E => x + y = Times(u, E) + Times(q, E)
  <2>1. k \in Nat
    BY <1>1
  <2>2. Times(u, E) \in Nat /\ x \in Nat /\ x <= Times(u, E) + k
    BY <1>3
  <2>3. x + y <= Times(u, E) + Times(q, E)
    BY <1>2, <2>1, <2>2
  <2>4. ASSUME x = Times(u, E) + k PROVE x + y = Times(u, E) + Times(q, E)
    BY <1>2, <2>1, <2>2, <2>4
  <2> QED
    BY <1>4, <2>3, <2>4
<1>6. (\A e \in E: e.kind # "req") => m.kind # "req" \/ m \notin E
  OBVIOUS
<1>7. /\ Times(u \o Sent(m), E) + Times(Tail(q), E) <= Times(u, E) + Times(q, E)
      /\ m.kind # "req" \/ m \notin E =>
           Times(u \o Sent(m), E) + Times(Tail(q), E) = Times(u, E) + Times(q, E)
  BY <1>5 DEF x, y
<1> QED
  BY <1>1, <1>3, <1>6, <1>7

\* What a socket that opens is told at once is neither request nor answer.
LEMMA ResubscribedTimes ==
  ASSUME PageType, NEW E, \A m \in E: m.kind \in {"req", "answer"}
  PROVE  Resubscribed(subjects) \in Seq(Messages) /\ Times(Resubscribed(subjects), E) = 0
<1> DEFINE a == <<Announce>>
           sub == Subscription(subjects)
<1>1. sub \in Messages /\ sub.kind = "sub"
  BY SubscriptionFacts DEF PageType
<1>2. Announce \in Messages /\ Announce.kind = "announce"
  BY DEF Announce, Messages
<1>3. sub \notin E /\ Announce \notin E
  BY <1>1, <1>2
<1>4. a = Append(<<>>, Announce) /\ <<>> \in Seq(Messages)
  OBVIOUS
<1>5. a \in Seq(Messages) /\ Times(a, E) = 0
  <2>1. Times(a, E) = Times(<<>>, E) + 0
    BY <1>2, <1>3, <1>4, AppendTimes
  <2> QED
    BY <1>2, <1>4, <2>1, EmptyTimes
<1> HIDE DEF a, sub
<1>6. Append(a, sub) \in Seq(Messages) /\ Times(Append(a, sub), E) = 0
  <2>1. Times(Append(a, sub), E) = Times(a, E) + 0
    BY <1>1, <1>3, <1>5, AppendTimes
  <2> QED
    BY <1>1, <1>5, <2>1
<1>7. Resubscribed(subjects) = a \/ Resubscribed(subjects) = Append(a, sub)
  BY DEF Resubscribed, a, sub
<1> QED
  BY <1>5, <1>6, <1>7

\* The socket opens, or a timer of the queue runs.
LEMMA OpensTimes ==
  ASSUME PageType, Opened \/ runMsgQueue, NEW E, \A m \in E: m.kind \in {"req", "answer"}
  PROVE  /\ up' \in Seq(Messages) /\ msgQueue' \in Seq(Messages)
         /\ Times(up', E) + Times(msgQueue', E) <= Times(up, E) + Times(msgQueue, E)
         /\ (\A m \in E: m.kind # "req") =>
              Times(up', E) + Times(msgQueue', E) = Times(up, E) + Times(msgQueue, E)
<1>1. up \in Seq(Messages) /\ msgQueue \in Seq(Messages)
  BY DEF PageType
<1>2. Times(up, E) \in Nat /\ Times(msgQueue, E) \in Nat
  BY <1>1, TimesFacts
<1>3. CASE runMsgQueue
  <2>1. \/ msgQueue # <<>> /\ up' = up \o FirstOf(msgQueue) /\ msgQueue' = Tail(msgQueue)
        \/ up' = up /\ msgQueue' = msgQueue
    BY <1>3 DEF runMsgQueue
  <2>2. CASE msgQueue # <<>> /\ up' = up \o FirstOf(msgQueue) /\ msgQueue' = Tail(msgQueue)
    BY <1>1, <2>2, FirstTimes
  <2>3. CASE up' = up /\ msgQueue' = msgQueue
    <3>1. Times(up', E) + Times(msgQueue', E) = Times(up, E) + Times(msgQueue, E)
      BY <2>3
    <3> QED
      BY <1>1, <1>2, <2>3, <3>1
  <2> QED
    BY <2>1, <2>2, <2>3
<1>4. CASE Opened
  <2> DEFINE u == Resubscribed(subjects)
  <2>1. /\ up = <<>> /\ up' = u \o FirstOf(msgQueue)
        /\ msgQueue' = IF msgQueue = <<>> THEN <<>> ELSE Tail(msgQueue)
    BY <1>4 DEF Opened, PageType
  <2>2. u \in Seq(Messages) /\ Times(u, E) = 0 /\ Times(up, E) = 0
    BY <2>1, ResubscribedTimes, EmptyTimes
  <2> HIDE DEF u
  <2>3. CASE msgQueue = <<>>
    <3>1. up' = u /\ msgQueue' = msgQueue
      BY <2>1, <2>2, <2>3, ConcatEmptySeq DEF FirstOf
    <3> QED
      BY <1>1, <1>2, <2>2, <3>1
  <2>4. CASE msgQueue # <<>>
    BY <1>1, <1>2, <2>1, <2>2, <2>4, FirstTimes
  <2> QED
    BY <2>3, <2>4
<1> QED
  BY <1>3, <1>4

-----------------------------------------------------------------------------
(* Calls and answers: the steps *)

LEMMA NothingMoves ==
  ASSUME CallInv, PageType', UNCHANGED <<down, rpcMap, openRpcs, queue, stage, got, losses>>,
         server'.active = server.active, server'.sent = server.sent,
         \A c \in CallIds: Unsent(c)' <= Unsent(c)
  PROVE  CallInv'
<1> SUFFICES ASSUME NEW c \in CallIds PROVE RouteInv(c)' /\ (IsStream(c)' => StreamInv(c)')
  BY DEF CallInv
<1>1. Unsent(c) \in Nat /\ Unsent(c)' \in Nat /\ Unsent(c)' <= Unsent(c)
  <2>1. up' \in Seq(Messages) /\ msgQueue' \in Seq(Messages)
    BY DEF PageType
  <2>2. Times(up', {Request(c)}) \in Nat /\ Times(msgQueue', {Request(c)}) \in Nat
    BY <2>1, TimesFacts
  <2>3. Unsent(c) \in Nat /\ Unsent(c)' <= Unsent(c)
    BY UnderWay DEF CallInv
  <2>4. Unsent(c)' \in Nat
    BY <2>2 DEF Unsent
  <2> QED
    BY <2>3, <2>4
<1>2. Requested(c)' <= Requested(c)
  BY <1>1 DEF Requested
<1> QED
  BY <1>1, <1>2, NothingNew, SameSelf

LEMMA SocketCalls ==
  ASSUME CallInv, Opened \/ runMsgQueue \/ Stable \/ connectNow PROVE CallInv'
<1>1. UNCHANGED <<down, server, rpcMap, openRpcs, queue, stage, got, losses, subjects>>
  BY DEF Opened, runMsgQueue, Stable, connectNow, callVars
<1>2. /\ conn' \in ConnType /\ (conn'.open => ~conn'.opening)
      /\ conn'.open \/ conn'.opening => ~conn'.sleeping
      /\ (~conn'.open => ~conn.open)
  <2>1. CASE Opened
    <3> DEFINE n == IF msgQueue = <<>> THEN conn.draining ELSE conn.draining + 1
    <3>1. /\ conn' = [conn EXCEPT !.open = TRUE, !.opening = FALSE, !.fresh = TRUE, !.draining = n]
          /\ n \in Int /\ conn.opening
      BY <2>1 DEF Opened, CallInv, PageType, ConnType
    <3>2. conn \in ConnType /\ ~conn.sleeping
      BY <3>1 DEF CallInv, PageType
    <3> HIDE DEF n
    <3>3. conn' \in ConnType /\ conn'.open /\ ~conn'.opening /\ conn'.sleeping = conn.sleeping
      BY <3>1, <3>2 DEF ConnType
    <3> QED
      BY <3>2, <3>3
  <2>2. CASE runMsgQueue
    <3> DEFINE n == conn.draining - 1
    <3>1. conn' = conn \/ conn' = [conn EXCEPT !.draining = n]
      BY <2>2 DEF runMsgQueue
    <3>2. conn \in ConnType /\ n \in Int
      BY DEF CallInv, PageType, ConnType
    <3>3. /\ conn.open => ~conn.opening
          /\ conn.open \/ conn.opening => ~conn.sleeping
      BY DEF CallInv, PageType
    <3> HIDE DEF n
    <3> QED
      BY <3>1, <3>2, <3>3 DEF ConnType
  <2>3. CASE Stable \/ connectNow
    <3>1. /\ conn \in ConnType
          /\ conn.open => ~conn.opening
          /\ conn.open \/ conn.opening => ~conn.sleeping
      BY DEF CallInv, PageType
    <3>2. CASE Stable
      <4>1. conn' = [conn EXCEPT !.tries = 0, !.fresh = FALSE]
        BY <3>2 DEF Stable
      <4>2. /\ conn' \in ConnType /\ conn'.open = conn.open /\ conn'.opening = conn.opening
            /\ conn'.sleeping = conn.sleeping
        BY <3>1, <4>1 DEF ConnType
      <4> QED
        BY <3>1, <4>2
    <3>3. CASE connectNow
      <4>1. conn' = [conn EXCEPT !.sleeping = FALSE, !.opening = TRUE] /\ conn.sleeping
        BY <3>3 DEF connectNow
      <4>2. conn' \in ConnType /\ conn'.open = conn.open /\ conn'.opening /\ ~conn'.sleeping
        BY <3>1, <4>1 DEF ConnType
      <4> QED
        BY <3>1, <4>1, <4>2
    <3> QED
      BY <2>3, <3>2, <3>3
  <2> QED
    BY <2>1, <2>2, <2>3
<1>3. ASSUME NEW c \in CallIds PROVE Unsent(c)' <= Unsent(c)
  <2>1. CASE Opened \/ runMsgQueue
    <3>1. \A m \in {Request(c)}: m.kind \in {"req", "answer"}
      BY KindsDiffer
    <3>2. PageType
      BY DEF CallInv
    <3>3. Times(up', {Request(c)}) + Times(msgQueue', {Request(c)})
            <= Times(up, {Request(c)}) + Times(msgQueue, {Request(c)})
      BY <2>1, <3>1, <3>2, OpensTimes
    <3> QED
      BY <3>3 DEF Unsent
  <2>2. CASE Stable \/ connectNow
    <3>1. up' = up /\ msgQueue' = msgQueue
      BY <2>2 DEF Stable, connectNow
    <3>2. Unsent(c)' = Unsent(c) /\ Unsent(c) \in Nat
      BY <3>1, UnderWay DEF Unsent, CallInv
    <3> QED
      BY <3>2
  <2> QED
    BY <2>1, <2>2
<1>4. up' \in Seq(Messages) /\ msgQueue' \in Seq(Messages) /\ (~conn'.open => up' = <<>>)
  <2>1. CASE Opened \/ runMsgQueue
    <3>1. up' \in Seq(Messages) /\ msgQueue' \in Seq(Messages)
      <4>1. PageType /\ \A m \in {}: m.kind \in {"req", "answer"}
        BY DEF CallInv
      <4>2. /\ up' \in Seq(Messages) /\ msgQueue' \in Seq(Messages)
            /\ Times(up', {}) + Times(msgQueue', {}) <= Times(up, {}) + Times(msgQueue, {})
        BY <2>1, <4>1, OpensTimes
      <4> QED
        BY <4>2
    <3>2. ~conn'.open => up' = <<>>
      <4>1. CASE Opened
        <5>1. conn'.open
          <6>1. conn \in ConnType
            BY DEF CallInv, PageType
          <6> QED
            BY <4>1, <6>1 DEF Opened, ConnType
        <5> QED
          BY <5>1
      <4>2. CASE runMsgQueue
        <5>1. conn.open \/ up' = up
          BY <4>2 DEF runMsgQueue
        <5>2. conn.open => conn' = conn \/ up' = up
          BY <4>2 DEF runMsgQueue
        <5>3. ~conn.open => up = <<>>
          BY DEF CallInv, PageType
        <5>4. up' # up => conn.open /\ conn' = conn
          BY <5>1, <5>2
        <5> QED
          BY <1>2, <5>3, <5>4
      <4> QED
        BY <2>1, <4>1, <4>2
    <3> QED
      BY <3>1, <3>2
  <2>2. CASE Stable \/ connectNow
    BY <1>2, <2>2 DEF Stable, connectNow, CallInv, PageType
  <2> QED
    BY <2>1, <2>2
<1>5. PageType'
  BY <1>1, <1>2, <1>4 DEF CallInv, PageType
<1> QED
  BY <1>1, <1>3, <1>5, NothingMoves

LEMMA PushCalls ==
  ASSUME CallInv, NEW m \in Messages, m.kind \in {"sub", "answer"}, pushMessage(m),
         subjects' \in Seq(AnyScope),
         UNCHANGED <<conn, down, server, rpcMap, openRpcs, queue, stage, got, losses>>
  PROVE  CallInv'
<1>1. /\ up' \in Seq(Messages) /\ msgQueue' \in Seq(Messages) /\ (~conn.open => up' = up)
  BY PushTimes DEF CallInv
<1>2. PageType'
  BY <1>1 DEF CallInv, PageType
<1>3. ASSUME NEW c \in CallIds PROVE Unsent(c)' <= Unsent(c)
  <2>1. m \notin {Request(c)} /\ PageType
    BY KindsDiffer DEF CallInv
  <2>2. Times(up', {Request(c)}) + Times(msgQueue', {Request(c)})
          <= Times(up, {Request(c)}) + Times(msgQueue, {Request(c)}) + (IF m \in {Request(c)} THEN 1 ELSE 0)
    BY <2>1, PushTimes
  <2>3. Unsent(c) \in Nat
    BY <2>1, UnderWay
  <2> QED
    BY <2>1, <2>2, <2>3 DEF Unsent
<1> QED
  BY <1>2, <1>3, NothingMoves

\* Request c is made.
LEMMA SendCalls ==
  ASSUME CallInv, NEW c \in CallIds, sendRpcCommand(c) PROVE CallInv'
<1> DEFINE m == Request(c)
<1>1. /\ stage[c] = "new" /\ rpcMap' = rpcMap \cup {c} /\ openRpcs' = openRpcs \cup {c}
      /\ stage' = [stage EXCEPT ![c] = "waiting"] /\ pushMessage(m)
      /\ UNCHANGED <<conn, down, subjects, queue, got, server, losses>>
  BY DEF sendRpcCommand, Request
<1>2. m \in Messages /\ m.kind = "req" /\ PageType
  BY KindsDiffer DEF CallInv
<1> HIDE DEF m
<1>3. up' \in Seq(Messages) /\ msgQueue' \in Seq(Messages) /\ (~conn.open => up' = up)
  BY <1>1, <1>2, PushTimes
<1>4. ASSUME NEW d \in CallIds PROVE stage'[d] = IF d = c THEN "waiting" ELSE stage[d]
  BY <1>1, <1>2 DEF PageType
<1>5. PageType'
  BY <1>1, <1>2, <1>3 DEF PageType
<1> SUFFICES ASSUME NEW d \in CallIds PROVE RouteInv(d)' /\ (IsStream(d)' => StreamInv(d)')
  BY <1>5 DEF CallInv
<1>6. /\ RouteInv(d) /\ (IsStream(d) => StreamInv(d))
      /\ Unsent(d) \in Nat /\ Requested(d) \in Nat /\ Unsent(d) <= Requested(d)
      /\ d \in server.active => Requested(d) = Unsent(d) + 1
      /\ d \notin server.active => Requested(d) = Unsent(d)
  BY <1>2, UnderWay DEF CallInv
<1>7. /\ Times(up', {Request(d)}) + Times(msgQueue', {Request(d)})
           <= Times(up, {Request(d)}) + Times(msgQueue, {Request(d)}) + (IF m \in {Request(d)} THEN 1 ELSE 0)
  BY <1>1, <1>2, PushTimes
<1>8. Unsent(d)' \in Nat
  <2>1. Times(up', {Request(d)}) \in Nat /\ Times(msgQueue', {Request(d)}) \in Nat
    BY <1>3, TimesFacts
  <2> QED
    BY <2>1 DEF Unsent
<1>9. CASE d # c
  <2>1. m \notin {Request(d)}
    BY <1>9, KindsDiffer DEF m
  <2>2. Unsent(d)' <= Unsent(d)
    BY <1>6, <1>7, <2>1 DEF Unsent
  <2>3. Requested(d)' <= Requested(d)
    BY <1>1, <1>6, <1>8, <2>2 DEF Requested
  <2> QED
    BY <1>1, <1>4, <1>5, <1>9, <2>2, <2>3, NothingNew, SameSelf
<1>10. CASE d = c
  <2>1. Requested(d) = 0 /\ Unsent(d) = 0 /\ d \notin server.active /\ ~Occurs(down, Responses(d))
    BY <1>1, <1>6, <1>10 DEF RouteInv
  <2>a. m \in {Request(d)}
    BY <1>10 DEF m
  <2>b. Unsent(d)' <= Unsent(d) + 1
    BY <1>7, <2>a DEF Unsent
  <2>2. Unsent(d)' <= 1
    BY <1>8, <2>1, <2>b
  <2>3. Requested(d)' = Unsent(d)'
    BY <1>1, <1>8, <2>1 DEF Requested
  <2>4. stage'[d] = "waiting" /\ stage[d] = "new" /\ d \in rpcMap' /\ d \in openRpcs'
    BY <1>1, <1>4, <1>10
  <2>5. /\ down \in Seq(Arriving) /\ ~Occurs(down, FinalOf(d))
        /\ NoneAfter(down, FinalOf(d), Responses(d))
    BY <1>2, <2>1, UnderWay, NoResponse
  <2>6. RouteInv(d)'
    BY <1>1, <1>8, <2>1, <2>2, <2>3, <2>4, <2>5 DEF RouteInv
  <2>7. ASSUME IsStream(d)' PROVE StreamInv(d)'
    <3>1. StreamInv(d)
      BY <1>6, <2>4, <2>7 DEF IsStream
    <3>2. Whole(d)
      BY <2>4, <3>1 DEF StreamInv, Cut
    <3>3. Whole(d)'
      BY <1>1, <3>2 DEF Whole
    <3>4. queue[d] \in Seq(Responses(d) \cup {TimedOut}) /\ ~Occurs(queue[d], Responses(d))
      BY <1>2, <2>4, <3>1, UnderWay DEF StreamInv
    <3>5. ~Occurs(queue[d], FinalOf(d))
      BY <3>4, NoResponse
    <3>6. /\ ~Occurs(queue'[d], FinalOf(d)) /\ ~Occurs(queue'[d], Responses(d))
          /\ ~Occurs(down', Responses(d)) /\ NoneAfter(queue'[d], FinalOf(d), Responses(d))
          /\ got'[d] = 0 /\ server'.sent[d] = 0
      BY <1>1, <2>1, <2>4, <3>1, <3>4, <3>5 DEF StreamInv
    <3> QED
      BY <2>4, <3>3, <3>6 DEF StreamInv, Ended
  <2> QED
    BY <2>6, <2>7
<1> QED
  BY <1>9, <1>10

\* A timer fires.
LEMMA TimeoutCalls ==
  ASSUME CallInv, NEW c \in CallIds, Timeout(c) PROVE CallInv'
<1>1. /\ queue' = [queue EXCEPT ![c] = Append(@, TimedOut)]
      /\ UNCHANGED <<conn, msgQueue, up, down, subjects, rpcMap, openRpcs, stage, got, server, losses>>
  BY DEF Timeout, TimeoutQueues, TimedOut
<1>2. PageType /\ DOMAIN queue = CallIds
  BY DEF CallInv, PageType
<1>3. ASSUME NEW d \in CallIds
      PROVE  queue'[d] \in Seq(Responses(d) \cup {TimedOut}) /\ Same(queue[d], queue'[d], d)
  <2>1. queue[d] \in Seq(Responses(d) \cup {TimedOut})
    BY <1>2, UnderWay
  <2>2. TimedOut \in Responses(d) \cup {TimedOut} /\ TimedOut \notin Responses(d)
    BY KindsDiffer
  <2>3. CASE d = c
    <3>1. queue'[d] = Append(queue[d], TimedOut)
      BY <1>1, <1>2, <2>3
    <3> QED
      BY <2>1, <2>2, <3>1, SameAppended, Appended
  <2>4. CASE d # c
    BY <1>1, <1>2, <2>1, <2>4, SameSelf
  <2> QED
    BY <2>3, <2>4
<1>4. PageType'
  <2>1. DOMAIN queue' = CallIds /\ queue' = [d \in CallIds |-> queue'[d]]
    BY <1>1, <1>2 DEF PageType
  <2> QED
    BY <1>1, <1>2, <1>3, <2>1 DEF PageType
<1> SUFFICES ASSUME NEW d \in CallIds PROVE RouteInv(d)' /\ (IsStream(d)' => StreamInv(d)')
  BY <1>4 DEF CallInv
<1>5. Unsent(d)' = Unsent(d) /\ Requested(d)' = Requested(d)
  BY <1>1 DEF Unsent, Requested
<1>6. Unsent(d) \in Nat /\ Requested(d) \in Nat
  BY <1>2, UnderWay
<1>7. /\ losses' = losses /\ stage'[d] = stage[d] /\ got'[d] = got[d] /\ server'.sent[d] = server.sent[d]
      /\ openRpcs' = openRpcs /\ rpcMap' = rpcMap /\ Same(down, down', d)
  BY <1>1, SameSelf
<1>8. Unsent(d)' <= Unsent(d) /\ Requested(d)' <= Requested(d)
  BY <1>5, <1>6
<1>9. Same(queue[d], queue'[d], d)
  BY <1>3
<1> QED
  BY <1>4, <1>7, <1>8, <1>9, NothingNew

\* The link brings a response.
LEMMA ResponseCalls ==
  ASSUME CallInv, ReceiveResponse PROVE CallInv'
<1> DEFINE m == down[1]
           c == m.id
<1>1. PageType /\ down \in Seq(Arriving) /\ down # <<>> /\ DOMAIN queue = CallIds
  BY DEF ReceiveResponse, CallInv, PageType
<1>2. c \in CallIds /\ m \in Responses(c)
  <2>1. m \in Arriving /\ m.kind # "cmd"
    BY <1>1, Shortened DEF ReceiveResponse
  <2>2. PICK d \in CallIds: m \in Responses(d)
    BY <2>1 DEF Arriving, Command
  <2> QED
    BY <2>2 DEF Responses
<1>3. /\ rpcMap' = (IF m.cont THEN rpcMap ELSE rpcMap \ {c}) /\ down' = Tail(down)
      /\ queue' = IF c \in rpcMap /\ c \in openRpcs THEN [queue EXCEPT ![c] = Append(@, m)] ELSE queue
      /\ UNCHANGED <<conn, msgQueue, up, subjects, openRpcs, stage, got, server, losses>>
  BY DEF ReceiveResponse, RouterKeeps
<1> HIDE DEF m, c
<1>4. Occurs(down, Responses(c)) /\ c \in rpcMap
  <2>1. m \in Responses(c) /\ m = down[1]
    BY <1>2 DEF m
  <2>2. Occurs(down, Responses(c))
    BY <1>1, <2>1, TailTimes
  <2> QED
    BY <1>2, <2>2 DEF CallInv, RouteInv
<1>5. queue' = IF c \in openRpcs THEN [queue EXCEPT ![c] = Append(@, m)] ELSE queue
  BY <1>3, <1>4
<1>6. ASSUME NEW d \in CallIds
      PROVE  /\ queue[d] \in Seq(Responses(d) \cup {TimedOut}) /\ queue'[d] \in Seq(Responses(d) \cup {TimedOut})
             /\ d # c \/ c \notin openRpcs => queue'[d] = queue[d]
             /\ d = c /\ c \in openRpcs => queue'[d] = Append(queue[d], m)
  <2>1. queue[d] \in Seq(Responses(d) \cup {TimedOut})
    BY <1>1, UnderWay
  <2>2. CASE d = c /\ c \in openRpcs
    <3>1. queue'[d] = Append(queue[d], m)
      BY <1>1, <1>5, <2>2
    <3> QED
      BY <1>2, <2>1, <2>2, <3>1, Appended
  <2>3. CASE ~(d = c /\ c \in openRpcs)
    BY <1>1, <1>5, <2>1, <2>3
  <2> QED
    BY <2>2, <2>3
<1>7. down' \in Seq(Arriving)
  BY <1>1, <1>3, Shortened
<1>8. PageType'
  <2>1. DOMAIN queue' = CallIds /\ queue' = [d \in CallIds |-> queue'[d]]
    BY <1>1, <1>5 DEF PageType
  <2> QED
    BY <1>1, <1>3, <1>6, <1>7, <2>1 DEF PageType
<1> SUFFICES ASSUME NEW d \in CallIds PROVE RouteInv(d)' /\ (IsStream(d)' => StreamInv(d)')
  BY <1>8 DEF CallInv
<1>9. /\ Unsent(d)' = Unsent(d) /\ Requested(d)' = Requested(d)
      /\ Unsent(d) \in Nat /\ Requested(d) \in Nat /\ Unsent(d) <= Requested(d)
      /\ RouteInv(d) /\ (IsStream(d) => StreamInv(d))
  BY <1>1, <1>3, UnderWay DEF Unsent, Requested, CallInv
<1>10. CASE d # c
  <2>1. m \notin Responses(d)
    BY <1>2, <1>10, KindsDiffer
  <2>2. Same(down, down', d)
    BY <1>1, <1>3, <2>1, SameShortened DEF m
  <2>3. queue'[d] = queue[d] /\ Same(queue[d], queue'[d], d)
    BY <1>6, <1>10, SameSelf
  <2>4. /\ losses' = losses /\ stage'[d] = stage[d] /\ got'[d] = got[d] /\ server'.sent[d] = server.sent[d]
        /\ openRpcs' = openRpcs /\ (d \in rpcMap => d \in rpcMap')
    BY <1>3, <1>10
  <2>5. Unsent(d)' <= Unsent(d) /\ Requested(d)' <= Requested(d)
    BY <1>9
  <2> QED
    BY <1>8, <2>2, <2>3, <2>4, <2>5, NothingNew
<1>11. CASE d = c
  <2>1. /\ m \in Responses(d) /\ m = down[1] /\ (m \in DataOf(d) <=> m.data)
        /\ m \in FinalOf(d) <=> ~m.cont
    BY <1>2, <1>11 DEF FinalOf, DataOf, m
  <2>2. stage[d] \notin {"new", "unmade"} /\ Occurs(down, Responses(d))
    BY <1>4, <1>9, <1>11 DEF RouteInv
  <2>3. /\ Occurs(down, FinalOf(d)) <=> Occurs(down', FinalOf(d)) \/ ~m.cont
        /\ Times(down, DataOf(d)) = Times(down', DataOf(d)) + (IF m.data THEN 1 ELSE 0)
    BY <1>1, <1>3, <2>1, TailTimes
  <2>4. NoneAfter(down', FinalOf(d), Responses(d)) /\ (~m.cont => ~Occurs(down', Responses(d)))
    <3>1. NoneAfter(down, FinalOf(d), Responses(d))
      BY <1>9 DEF RouteInv
    <3> QED
      BY <1>1, <1>3, <2>1, <3>1, TailNoneAfter
  <2>5. ~m.cont => Requested(d) = 0
    BY <1>9, <2>3 DEF RouteInv
  <2>6. RouteInv(d)'
    BY <1>3, <1>4, <1>9, <1>11, <2>2, <2>3, <2>4, <2>5 DEF RouteInv
  <2>7. ASSUME IsStream(d)' PROVE StreamInv(d)'
    <3>1. StreamInv(d) /\ stage'[d] = stage[d]
      BY <1>3, <1>9, <2>7 DEF IsStream
    <3>2. stage[d] \in {"waiting", "yielded"} /\ d \in openRpcs /\ ~Occurs(queue[d], FinalOf(d))
      BY <1>1, <2>2, <2>7, <3>1 DEF StreamInv, Ended, IsStream, PageType
    <3>3. queue'[d] = Append(queue[d], m)
      BY <1>6, <1>11, <3>2
    <3>4. /\ queue[d] \in Seq(Responses(d) \cup {TimedOut}) /\ m \in Responses(d) \cup {TimedOut}
      BY <1>6, <2>1
    <3>5. /\ Occurs(queue'[d], FinalOf(d)) <=> ~m.cont
          /\ Times(queue'[d], DataOf(d)) = Times(queue[d], DataOf(d)) + (IF m.data THEN 1 ELSE 0)
      BY <2>1, <3>2, <3>3, <3>4, AppendTimes
    <3>6. NoneAfter(queue'[d], FinalOf(d), Responses(d))
      <4>1. NoneAfter(queue[d], FinalOf(d), Responses(d))
        BY <3>1 DEF StreamInv
      <4> QED
        BY <3>2, <3>3, <3>4, <4>1, AppendNoneAfter
    <3>7. Unsent(d)' = 0
      BY <1>9, <2>2, <3>1 DEF StreamInv
    <3>8. Whole(d)'
      <4>1. Whole(d)
        BY <2>2, <3>1 DEF StreamInv, Cut
      <4>2. /\ Times(queue[d], DataOf(d)) \in Nat /\ Times(down', DataOf(d)) \in Nat /\ got[d] \in Nat
        BY <1>1, <1>7, UnderWay, TimesFacts
      <4>3. got'[d] = got[d] /\ server'.sent[d] = server.sent[d]
        BY <1>3
      <4> QED
        BY <2>3, <3>5, <4>1, <4>2, <4>3 DEF Whole
    <3> QED
      BY <1>3, <1>9, <2>4, <2>5, <3>1, <3>2, <3>5, <3>6, <3>7, <3>8 DEF StreamInv, Ended
  <2> QED
    BY <2>6, <2>7
<1> QED
  BY <1>10, <1>11

\* The caller of request c is given the next message.
LEMMA GeneratorCalls ==
  ASSUME CallInv, NEW c \in CallIds, GeneratorTakes(c) PROVE CallInv'
<1> DEFINE m == queue[c][1]
<1>1. /\ stage[c] = "waiting" /\ queue[c] # <<>> /\ queue' = [queue EXCEPT ![c] = Tail(queue[c])]
      /\ UNCHANGED <<conn, msgQueue, up, down, subjects, rpcMap, server, losses>>
  BY DEF GeneratorTakes
<1>2. \/ /\ m.kind # "resp" /\ stage' = [stage EXCEPT ![c] = "failed"]
         /\ openRpcs' = openRpcs \ {c} /\ got' = got
      \/ /\ m.kind = "resp" /\ ~m.cont /\ ~m.data /\ stage' = [stage EXCEPT ![c] = "done"]
         /\ openRpcs' = openRpcs \ {c} /\ got' = got
      \/ /\ m.kind = "resp" /\ (m.cont \/ m.data) /\ got' = [got EXCEPT ![c] = got[c] + 1]
         /\ stage' = [stage EXCEPT ![c] = IF Calls[c].kind = "call" THEN "done"
                                          ELSE IF m.cont THEN "yielded" ELSE "last"]
         /\ openRpcs' = openRpcs
  BY DEF GeneratorTakes, Ends
<1>3. PageType /\ DOMAIN queue = CallIds
  BY DEF CallInv, PageType
<1>4. queue[c] \in Seq(Responses(c) \cup {TimedOut}) /\ m \in Responses(c) \cup {TimedOut}
  <2>1. queue[c] \in Seq(Responses(c) \cup {TimedOut})
    BY <1>3, UnderWay
  <2> QED
    BY <1>1, <2>1, Shortened
<1> HIDE DEF m
<1>5. ASSUME NEW d \in CallIds
      PROVE  /\ queue'[d] = IF d = c THEN Tail(queue[d]) ELSE queue[d]
             /\ queue'[d] \in Seq(Responses(d) \cup {TimedOut})
  <2>1. queue'[d] = IF d = c THEN Tail(queue[d]) ELSE queue[d]
    BY <1>1, <1>3
  <2>2. queue[d] \in Seq(Responses(d) \cup {TimedOut})
    BY <1>3, UnderWay
  <2> QED
    BY <1>1, <2>1, <2>2, Shortened
<1>6. PageType'
  <2>1. DOMAIN queue' = CallIds /\ queue' = [d \in CallIds |-> queue'[d]]
    BY <1>1, <1>3 DEF PageType
  <2>2. stage' \in [CallIds -> {"new", "unmade", "waiting", "yielded", "last", "done", "failed", "left"}]
    BY <1>2, <1>3 DEF PageType
  <2>3. got' \in [CallIds -> Nat]
    BY <1>2, <1>3 DEF PageType
  <2> QED
    BY <1>1, <1>3, <1>5, <2>1, <2>2, <2>3 DEF PageType
<1> SUFFICES ASSUME NEW d \in CallIds PROVE RouteInv(d)' /\ (IsStream(d)' => StreamInv(d)')
  BY <1>6 DEF CallInv
<1>7. /\ Unsent(d)' = Unsent(d) /\ Requested(d)' = Requested(d)
      /\ Unsent(d) \in Nat /\ Requested(d) \in Nat /\ Unsent(d) <= Requested(d)
      /\ RouteInv(d) /\ (IsStream(d) => StreamInv(d))
  BY <1>1, <1>3, UnderWay DEF Unsent, Requested, CallInv
<1>8. CASE d # c
  <2>1. queue'[d] = queue[d] /\ Same(queue[d], queue'[d], d) /\ Same(down, down', d)
    BY <1>1, <1>5, <1>8, SameSelf
  <2>2. /\ losses' = losses /\ server'.sent[d] = server.sent[d]
        /\ rpcMap' = rpcMap /\ (d \in openRpcs => d \in openRpcs')
    BY <1>1, <1>2, <1>8
  <2>3. stage'[d] = stage[d] /\ got'[d] = got[d]
    BY <1>2, <1>3, <1>8 DEF PageType
  <2>4. Unsent(d)' <= Unsent(d) /\ Requested(d)' <= Requested(d)
    BY <1>7
  <2> QED
    BY <1>6, <2>1, <2>2, <2>3, <2>4, NothingNew
<1>9. CASE d = c
  <2>1. /\ stage'[d] \notin {"new", "unmade", "waiting"}
    BY <1>2, <1>3, <1>9 DEF PageType
  <2>2. RouteInv(d)'
    BY <1>1, <1>7, <2>1 DEF RouteInv
  <2>3. ASSUME IsStream(d)' PROVE StreamInv(d)'
    <3>1. StreamInv(d) /\ m.kind = "resp" /\ Calls[d].kind = "stream"
      BY <1>1, <1>2, <1>3, <1>7, <1>9, <2>3 DEF IsStream, PageType
    <3>2. /\ m \in Responses(d) /\ (m \in FinalOf(d) <=> ~m.cont) /\ (m \in DataOf(d) <=> m.data)
          /\ m.cont => m.data
      BY <1>4, <1>9, <3>1 DEF Responses, FinalOf, DataOf, TimedOut
    <3>3. /\ stage'[d] = IF m.cont THEN "yielded" ELSE IF m.data THEN "last" ELSE "done"
          /\ got'[d] = got[d] + (IF m.data THEN 1 ELSE 0)
          /\ m.cont => openRpcs' = openRpcs
      <4>0. got[d] \in Nat
        BY <1>3, UnderWay
      <4>1. got[d] + 0 = got[d]
        BY <4>0
      <4> QED
        BY <1>2, <1>3, <1>9, <3>1, <3>2, <4>1 DEF PageType
    <3>4. /\ queue'[d] = Tail(queue[d]) /\ m = queue[d][1]
          /\ queue[d] \in Seq(Responses(d) \cup {TimedOut}) /\ queue[d] # <<>>
      BY <1>1, <1>4, <1>5, <1>9 DEF m
    <3>5. /\ Occurs(queue[d], FinalOf(d)) <=> Occurs(queue'[d], FinalOf(d)) \/ ~m.cont
          /\ Times(queue[d], DataOf(d)) = Times(queue'[d], DataOf(d)) + (IF m.data THEN 1 ELSE 0)
          /\ Occurs(queue[d], Responses(d))
      BY <3>2, <3>4, TailTimes
    <3>6. NoneAfter(queue'[d], FinalOf(d), Responses(d)) /\ (~m.cont => ~Occurs(queue'[d], Responses(d)))
      <4>1. NoneAfter(queue[d], FinalOf(d), Responses(d))
        BY <3>1 DEF StreamInv
      <4> QED
        BY <3>2, <3>4, <4>1, TailNoneAfter
    <3>7. Unsent(d)' = 0
      BY <1>7, <3>1, <3>5 DEF StreamInv
    <3>8. Occurs(queue[d], FinalOf(d)) => Requested(d) = 0 /\ ~Occurs(down, Responses(d))
      BY <3>1 DEF StreamInv
    <3>9. Whole(d) => Whole(d)'
      <4>1. /\ Times(queue'[d], DataOf(d)) \in Nat /\ got[d] \in Nat /\ Times(down, DataOf(d)) \in Nat
        BY <1>3, <1>5, UnderWay, TimesFacts
      <4>2. down' = down /\ server' = server
        BY <1>1
      <4> QED
        BY <3>3, <3>5, <4>1, <4>2 DEF Whole
    <3>10. Cut(d) => Cut(d)'
      BY <1>1, <1>7, <3>3, <3>5 DEF Cut
    <3>11. stage'[d] \in {"waiting", "yielded"} => d \in openRpcs'
      BY <1>1, <1>9, <3>1, <3>3 DEF StreamInv
    <3>12. Whole(d)' \/ Cut(d)'
      BY <3>1, <3>9, <3>10 DEF StreamInv
    <3> QED
      BY <1>1, <1>7, <2>1, <3>3, <3>5, <3>6, <3>7, <3>8, <3>11, <3>12 DEF StreamInv, Ended
  <2> QED
    BY <2>2, <2>3
<1> QED
  BY <1>8, <1>9

LEMMA ConsumerCalls ==
  ASSUME CallInv, NEW c \in CallIds, ConsumerGoesOn(c) PROVE CallInv'
<1>1. UNCHANGED <<conn, msgQueue, up, down, subjects, rpcMap, queue, got, server, losses>>
  BY DEF ConsumerGoesOn
<1>2. \/ stage[c] = "yielded" /\ stage' = [stage EXCEPT ![c] = "waiting"] /\ openRpcs' = openRpcs
      \/ stage[c] = "last" /\ stage' = [stage EXCEPT ![c] = "done"] /\ openRpcs' = openRpcs \ {c}
      \/ stage[c] = "yielded" /\ stage' = [stage EXCEPT ![c] = "left"] /\ openRpcs' = openRpcs \ {c}
  BY DEF ConsumerGoesOn, Ends
<1>3. PageType
  BY DEF CallInv
<1>4. PageType'
  BY <1>1, <1>2, <1>3 DEF PageType
<1> SUFFICES ASSUME NEW d \in CallIds PROVE RouteInv(d)' /\ (IsStream(d)' => StreamInv(d)')
  BY <1>4 DEF CallInv
<1>5. /\ Unsent(d)' = Unsent(d) /\ Requested(d)' = Requested(d)
      /\ RouteInv(d) /\ (IsStream(d) => StreamInv(d))
  BY <1>1 DEF Unsent, Requested, CallInv
<1>6. CASE d # c
  <2>1. stage'[d] = stage[d] /\ (d \in openRpcs => d \in openRpcs')
    BY <1>2, <1>3, <1>6 DEF PageType
  <2>2. Unsent(d) \in Nat /\ Requested(d) \in Nat
    BY <1>3, UnderWay
  <2>3. Unsent(d)' <= Unsent(d) /\ Requested(d)' <= Requested(d)
    BY <1>5, <2>2
  <2>4. /\ losses' = losses /\ got'[d] = got[d] /\ server'.sent[d] = server.sent[d]
        /\ rpcMap' = rpcMap /\ Same(down, down', d) /\ Same(queue[d], queue'[d], d)
    BY <1>1, SameSelf
  <2> QED
    BY <1>4, <2>1, <2>3, <2>4, NothingNew
<1>7. CASE d = c
  <2>1. \/ stage[d] = "yielded" /\ stage'[d] = "waiting" /\ openRpcs' = openRpcs
        \/ stage[d] = "last" /\ stage'[d] = "done"
        \/ stage[d] = "yielded" /\ stage'[d] = "left"
    BY <1>2, <1>3, <1>7 DEF PageType
  <2>2. RouteInv(d)'
    BY <1>1, <1>5, <2>1 DEF RouteInv
  <2>3. ASSUME IsStream(d)' PROVE StreamInv(d)'
    <3>1. StreamInv(d)
      BY <1>5, <2>1, <2>3 DEF IsStream
    <3>2. Whole(d)' \/ Cut(d)'
      BY <1>1, <1>5, <2>1, <2>3, <3>1 DEF StreamInv, Whole, Cut, IsStream
    <3> QED
      BY <1>1, <1>5, <2>1, <2>3, <3>1, <3>2 DEF StreamInv, Ended, IsStream
  <2> QED
    BY <2>2, <2>3
<1> QED
  BY <1>6, <1>7

\* Commands of the backend are no responses.
LEMMA CommandCalls ==
  ASSUME CallInv, ReceiveCommand \/ ServerAsks PROVE CallInv'
<1>1. UNCHANGED <<conn, msgQueue, up, subjects, rpcMap, openRpcs, queue, stage, got, losses>>
  BY DEF ReceiveCommand, ServerAsks, callVars
<1>2. PageType /\ down \in Seq(Arriving) /\ Command \in Arriving
  BY KindsDiffer DEF CallInv, PageType
<1>3. \/ down # <<>> /\ down[1] = Command /\ down' = Tail(down)
      \/ down' = Append(down, Command)
  <2>1. CASE ReceiveCommand
    <3>1. down # <<>> /\ down[1].kind = "cmd" /\ down' = Tail(down)
      BY <2>1 DEF ReceiveCommand
    <3>2. down[1] \in Arriving
      BY <1>2, <3>1, Shortened
    <3>3. \A c \in CallIds: \A m \in Responses(c): m.kind # "cmd"
      BY DEF Responses
    <3> QED
      BY <3>1, <3>2, <3>3 DEF Arriving
  <2>2. CASE ServerAsks
    BY <2>2 DEF ServerAsks, Command
  <2> QED
    BY <2>1, <2>2
<1>4. server' \in ServerType /\ server'.active = server.active /\ server'.sent = server.sent
  <2>1. server \in ServerType
    BY <1>2 DEF PageType
  <2>2. CASE ReceiveCommand
    BY <2>1, <2>2 DEF ReceiveCommand
  <2>3. CASE ServerAsks
    BY <2>1, <2>3, BackendAsks
  <2> QED
    BY <2>2, <2>3
<1>5. down' \in Seq(Arriving)
  <2>1. CASE down # <<>> /\ down' = Tail(down)
    BY <1>2, <2>1, Shortened
  <2>2. CASE down' = Append(down, Command)
    BY <1>2, <2>2, Appended
  <2> QED
    BY <1>3, <2>1, <2>2
<1>6. PageType'
  BY <1>1, <1>2, <1>4, <1>5 DEF PageType
<1> SUFFICES ASSUME NEW c \in CallIds PROVE RouteInv(c)' /\ (IsStream(c)' => StreamInv(c)')
  BY <1>6 DEF CallInv
<1>7. Same(down, down', c)
  <2>1. Command \notin Responses(c)
    BY KindsDiffer
  <2> QED
    BY <1>2, <1>3, <2>1, SameAppended, SameShortened
<1>8. Unsent(c)' = Unsent(c) /\ Requested(c)' = Requested(c)
  BY <1>1, <1>4 DEF Unsent, Requested
<1>9. Unsent(c) \in Nat /\ Requested(c) \in Nat
  BY <1>2, UnderWay
<1>10. Unsent(c)' <= Unsent(c) /\ Requested(c)' <= Requested(c)
  BY <1>8, <1>9
<1>11. /\ losses' = losses /\ got'[c] = got[c] /\ server'.sent[c] = server.sent[c] /\ stage'[c] = stage[c]
       /\ rpcMap' = rpcMap /\ openRpcs' = openRpcs /\ Same(queue[c], queue'[c], c)
  BY <1>1, <1>4, SameSelf
<1> QED
  BY <1>6, <1>7, <1>10, <1>11, NothingNew

\* The backend receives a message.
LEMMA ReceivedCalls ==
  ASSUME CallInv, ServerReceives PROVE CallInv'
<1> DEFINE m == up[1]
<1>1. /\ conn.open /\ up # <<>> /\ up' = Tail(up)
      /\ UNCHANGED <<conn, msgQueue, down, subjects, rpcMap, openRpcs, queue, stage, got, losses>>
  BY DEF ServerReceives, callVars
<1>2. PageType /\ up \in Seq(Messages)
  BY DEF CallInv, PageType
<1>3. m \in Messages /\ up' \in Seq(Messages)
  BY <1>1, <1>2, Shortened
<1>4. /\ m.kind \in {"announce", "sub", "req", "answer"}
      /\ m.kind = "sub" => m.scopes \in SUBSET AnyScope
      /\ m.kind = "req" => m.id \in CallIds /\ m = Request(m.id)
  <2>1. m.kind = "req" => m = Request(m.id)
    BY <1>3 DEF Messages, Request, Announce
  <2> QED
    BY <1>3, <2>1, KindFacts
<1>5. server \in ServerType
  BY <1>2 DEF PageType
<1>7. /\ server' \in ServerType /\ server'.sent = server.sent
      /\ server'.active = IF m.kind = "req" THEN server.active \cup {m.id} ELSE server.active
  BY <1>2, <1>5, BackendReceives
<1> HIDE DEF m
<1>8. PageType'
  BY <1>1, <1>2, <1>3, <1>7 DEF PageType
<1> SUFFICES ASSUME NEW c \in CallIds PROVE RouteInv(c)' /\ (IsStream(c)' => StreamInv(c)')
  BY <1>8 DEF CallInv
<1>9. /\ Unsent(c) \in Nat /\ Requested(c) \in Nat /\ Unsent(c) <= Requested(c) /\ Requested(c) <= 1
      /\ c \in server.active => Requested(c) = Unsent(c) + 1
      /\ c \notin server.active => Requested(c) = Unsent(c)
  BY <1>2, UnderWay DEF CallInv, RouteInv
<1>10. /\ Times(up, {Request(c)}) = Times(up', {Request(c)}) + (IF m = Request(c) THEN 1 ELSE 0)
       /\ Times(up', {Request(c)}) \in Nat /\ Times(msgQueue, {Request(c)}) \in Nat
  <2>1. Times(up, {Request(c)}) = Times(up', {Request(c)}) + (IF m \in {Request(c)} THEN 1 ELSE 0)
    BY <1>1, <1>2, TailTimes DEF m
  <2>2. Times(up', {Request(c)}) \in Nat /\ Times(msgQueue, {Request(c)}) \in Nat
    BY <1>2, <1>3, TimesFacts DEF PageType
  <2> QED
    BY <2>1, <2>2
<1>11. Unsent(c) = Unsent(c)' + (IF m = Request(c) THEN 1 ELSE 0) /\ Unsent(c)' \in Nat
  BY <1>1, <1>10 DEF Unsent
<1>12. m = Request(c) <=> m.kind = "req" /\ m.id = c
  BY <1>4 DEF Request
<1>13. c \in server'.active <=> c \in server.active \/ m = Request(c)
  BY <1>7, <1>12
<1>14. Requested(c)' = Unsent(c)' + (IF c \in server'.active THEN 1 ELSE 0)
  BY DEF Requested
<1>15. Unsent(c)' <= Unsent(c) /\ Requested(c)' <= Requested(c)
  BY <1>9, <1>11, <1>13, <1>14
<1>16. /\ losses' = losses /\ got'[c] = got[c] /\ server'.sent[c] = server.sent[c] /\ stage'[c] = stage[c]
       /\ rpcMap' = rpcMap /\ openRpcs' = openRpcs
       /\ Same(queue[c], queue'[c], c) /\ Same(down, down', c)
  BY <1>1, <1>7, SameSelf
<1> QED
  BY <1>8, <1>15, <1>16, NothingNew

\* The backend responds to a request.
LEMMA RespondsCalls ==
  ASSUME CallInv, ServerResponds PROVE CallInv'
<1>1. PageType /\ server \in ServerType /\ down \in Seq(Arriving)
  BY DEF CallInv, PageType
<1>2. UNCHANGED <<conn, msgQueue, up, subjects, rpcMap, openRpcs, queue, stage, got, losses>>
  BY Zenon DEF ServerResponds, callVars
<1>3. server' \in ServerType
  BY <1>1, BackendResponds
<1>4. PICK c \in server.active, cont, data \in BOOLEAN, kind \in {"resp", "error"}:
        Responds(c, kind, cont, data)
  BY <1>1, BackendResponds
<1> DEFINE m == [kind |-> kind, id |-> c, cont |-> cont, data |-> data]
<1>5. c \in CallIds
  BY <1>1, <1>4 DEF ServerType
<1>6. /\ down' = Append(down, m)
      /\ server'.active = IF cont THEN server.active ELSE server.active \ {c}
      /\ server'.sent = [server.sent EXCEPT ![c] = IF data THEN @ + 1 ELSE @]
  BY <1>4 DEF Responds
<1>7. m \in Responses(c) /\ m.cont = cont /\ m.data = data
  BY <1>4 DEF Responds, Responses
<1> HIDE DEF m
<1>8. (m \in FinalOf(c) <=> ~cont) /\ (m \in DataOf(c) <=> data)
  BY <1>7 DEF FinalOf, DataOf
<1>9. m \in Arriving /\ down' \in Seq(Arriving)
  BY <1>1, <1>5, <1>6, <1>7, KindsDiffer, Appended
<1>10. PageType'
  BY <1>1, <1>2, <1>3, <1>9 DEF PageType
<1> SUFFICES ASSUME NEW d \in CallIds PROVE RouteInv(d)' /\ (IsStream(d)' => StreamInv(d)')
  BY <1>10 DEF CallInv
<1>11. /\ RouteInv(d) /\ (IsStream(d) => StreamInv(d))
       /\ Unsent(d) \in Nat /\ Requested(d) \in Nat
       /\ d \in server.active => Requested(d) = Unsent(d) + 1
       /\ d \notin server.active => Requested(d) = Unsent(d)
  BY <1>1, UnderWay DEF CallInv
<1>12. Unsent(d)' = Unsent(d) /\ Requested(d)' = Unsent(d) + (IF d \in server'.active THEN 1 ELSE 0)
  BY <1>2 DEF Unsent, Requested
<1>13. server.sent \in [CallIds -> Nat]
  BY <1>1 DEF ServerType
<1>14. CASE d # c
  <2>1. m \notin Responses(d)
    BY <1>5, <1>7, <1>14, KindsDiffer
  <2>2. Same(down, down', d) /\ Same(queue[d], queue'[d], d)
    BY <1>1, <1>2, <1>6, <1>9, <2>1, SameAppended, SameSelf
  <2>3. d \in server'.active <=> d \in server.active
    BY <1>6, <1>14
  <2>4. Unsent(d)' <= Unsent(d) /\ Requested(d)' <= Requested(d)
    BY <1>11, <1>12, <2>3
  <2>5. server'.sent[d] = server.sent[d]
    BY <1>6, <1>13, <1>14
  <2> QED
    BY <1>2, <1>10, <2>2, <2>4, <2>5, NothingNew
<1>15. CASE d = c
  <2>1. Requested(d) = 1 /\ Unsent(d) = 0
    BY <1>4, <1>11, <1>15 DEF RouteInv
  <2>2. d \in rpcMap /\ stage[d] \notin {"new", "unmade"} /\ ~Occurs(down, FinalOf(d))
    BY <1>11, <2>1 DEF RouteInv
  <2>3. d \in server'.active <=> cont
    BY <1>4, <1>6, <1>15
  <2>4. Unsent(d)' = 0 /\ Requested(d)' = IF cont THEN 1 ELSE 0
    BY <1>12, <2>1, <2>3
  <2>5. /\ Occurs(down', FinalOf(d)) <=> ~cont
        /\ Times(down', DataOf(d)) = Times(down, DataOf(d)) + (IF data THEN 1 ELSE 0)
    <3>1. Occurs(down', FinalOf(d)) <=> Occurs(down, FinalOf(d)) \/ m \in FinalOf(d)
      BY <1>1, <1>6, <1>9, AppendTimes
    <3>2. Times(down', DataOf(d)) = Times(down, DataOf(d)) + (IF m \in DataOf(d) THEN 1 ELSE 0)
      BY <1>1, <1>6, <1>9, AppendTimes
    <3> QED
      BY <1>8, <1>15, <2>2, <3>1, <3>2
  <2>6. NoneAfter(down', FinalOf(d), Responses(d))
    <3>1. NoneAfter(down, FinalOf(d), Responses(d))
      BY <1>11 DEF RouteInv
    <3> QED
      BY <1>1, <1>6, <1>9, <2>2, <3>1, AppendNoneAfter
  <2>7. RouteInv(d)'
    BY <1>2, <2>2, <2>4, <2>5, <2>6 DEF RouteInv
  <2>8. ASSUME IsStream(d)' PROVE StreamInv(d)'
    <3>1. StreamInv(d)
      BY <1>2, <1>11, <2>8 DEF IsStream
    <3>2. ~Occurs(queue[d], FinalOf(d)) /\ ~Ended(d) /\ Whole(d)
      BY <2>1, <3>1 DEF StreamInv, Cut
    <3>3. Whole(d)'
      <4>1. /\ Times(queue[d], DataOf(d)) \in Nat /\ Times(down, DataOf(d)) \in Nat
            /\ got[d] \in Nat /\ server.sent[d] \in Nat
        BY <1>1, UnderWay
      <4>2. server'.sent[d] = server.sent[d] + (IF data THEN 1 ELSE 0)
        BY <1>6, <1>13, <1>15, <4>1
      <4>3. got' = got /\ queue' = queue
        BY <1>2
      <4> QED
        BY <2>5, <3>2, <4>1, <4>2, <4>3 DEF Whole
    <3> QED
      BY <1>2, <2>2, <2>4, <3>1, <3>2, <3>3 DEF StreamInv, Ended
  <2> QED
    BY <2>7, <2>8
<1> QED
  BY <1>14, <1>15

\* The link is lost: a response that is not there yet never comes.
LEMMA ClosedCalls ==
  ASSUME CallInv, Closed PROVE CallInv'
<1>1. PageType /\ conn \in ConnType /\ server \in ServerType /\ msgQueue \in Seq(Messages) /\ losses \in Nat
  BY DEF CallInv, PageType
<1>2. /\ up' = <<>> /\ down' = <<>> /\ losses' = losses + 1
      /\ UNCHANGED <<msgQueue, subjects, rpcMap, openRpcs, queue, stage, got>>
  BY DEF Closed, callVars
<1>3. /\ conn' \in ConnType /\ ~conn'.open /\ ~conn'.opening
      /\ server' \in ServerType /\ server'.active = {} /\ server'.sent = server.sent
  BY <1>1, LinkLost
<1>4. up' \in Seq(Messages) /\ down' \in Seq(Arriving) /\ losses' \in Nat /\ losses' > 0
  BY <1>1, <1>2
<1>5. PageType'
  <2>1. up' = <<>> /\ UNCHANGED <<msgQueue, subjects, rpcMap, openRpcs, queue, stage, got>>
    BY <1>2
  <2> QED
    BY <1>1, <1>3, <1>4, <2>1 DEF PageType
<1> SUFFICES ASSUME NEW c \in CallIds PROVE RouteInv(c)' /\ (IsStream(c)' => StreamInv(c)')
  BY <1>5 DEF CallInv
<1>6. /\ RouteInv(c) /\ (IsStream(c) => StreamInv(c)) /\ down \in Seq(Arriving)
      /\ Unsent(c) \in Nat /\ Requested(c) \in Nat /\ Unsent(c) <= Requested(c)
  BY <1>1, UnderWay DEF CallInv
<1>7. Unsent(c)' \in Nat /\ Unsent(c)' <= Unsent(c) /\ Requested(c)' = Unsent(c)'
  <2>1. /\ Times(up, {Request(c)}) \in Nat /\ Times(msgQueue, {Request(c)}) \in Nat
        /\ Times(up', {Request(c)}) = 0
    BY <1>1, <1>2, TimesFacts, EmptyTimes DEF PageType
  <2>2. Unsent(c)' = Times(msgQueue, {Request(c)})
    BY <1>2, <2>1 DEF Unsent
  <2>3. Unsent(c)' \in Nat /\ Unsent(c)' <= Unsent(c)
    BY <2>1, <2>2 DEF Unsent
  <2> QED
    BY <1>3, <2>3 DEF Requested
<1>8. \A E, D: ~Occurs(down', E) /\ Times(down', E) = 0 /\ NoneAfter(down', E, D)
  BY <1>2, EmptyTimes
<1>9. RouteInv(c)'
  BY <1>2, <1>6, <1>7, <1>8 DEF RouteInv
<1>10. ASSUME IsStream(c)' PROVE StreamInv(c)'
  <2>1. StreamInv(c) /\ stage[c] \notin {"failed", "left"}
    BY <1>2, <1>6, <1>10 DEF IsStream
  <2>2. stage[c] \in {"new", "unmade", "waiting", "yielded", "last", "done", "failed", "left"}
    BY <1>1 DEF PageType
  <2>3. CASE Occurs(down, Responses(c)) /\ ~Cut(c)
    <3>1. /\ stage[c] \in {"waiting", "yielded"} /\ Unsent(c) = 0 /\ ~Occurs(queue[c], FinalOf(c))
      BY <2>1, <2>2, <2>3 DEF StreamInv, Ended
    <3>2. Cut(c)'
      BY <1>1, <1>2, <1>6, <1>7, <1>8, <3>1 DEF Cut
    <3> QED
      BY <1>2, <1>6, <1>7, <1>8, <2>1, <3>1, <3>2 DEF StreamInv, Ended
  <2>4. CASE ~Occurs(down, Responses(c)) \/ Cut(c)
    <3>1. ~Occurs(down, Responses(c))
      BY <2>4 DEF Cut
    <3>2. Times(down, DataOf(c)) = 0
      BY <1>6, <3>1, NoResponse
    <3>3. Whole(c) => Whole(c)'
      BY <1>2, <1>3, <1>8, <3>2 DEF Whole
    <3>4. Cut(c) => Cut(c)'
      BY <1>1, <1>2, <1>6, <1>7, <1>8 DEF Cut
    <3> QED
      BY <1>2, <1>3, <1>6, <1>7, <1>8, <2>1, <3>3, <3>4 DEF StreamInv, Ended
  <2> QED
    BY <2>3, <2>4
<1> QED
  BY <1>9, <1>10

LEMMA SubscribeCalls ==
  ASSUME CallInv, doraEventSubscribeSingle \/ doraEventUnsubscribe PROVE CallInv'
<1>1. UNCHANGED <<conn, down, server, rpcMap, openRpcs, queue, stage, got, losses>>
  BY DEF doraEventSubscribeSingle, doraEventUnsubscribe, callVars
<1>2. subjects' \in Seq(AnyScope) /\ pushMessage(Subscription(subjects'))
  <2>1. subjects \in Seq(AnyScope)
    BY DEF CallInv, PageType
  <2> QED
    BY <2>1, Subscribed
<1>3. Subscription(subjects') \in Messages /\ Subscription(subjects').kind = "sub"
  BY <1>2, SubscriptionFacts
<1> QED
  BY <1>1, <1>2, <1>3, PushCalls

LEMMA SendResponseCalls ==
  ASSUME CallInv, NEW done \in BOOLEAN, sendResponse(done) PROVE CallInv'
<1>1. UNCHANGED <<conn, down, subjects, server, rpcMap, openRpcs, queue, stage, got, losses>>
  BY DEF sendResponse
<1>2. up \in Seq(Messages) /\ msgQueue \in Seq(Messages) /\ subjects \in Seq(AnyScope) /\ PageType
  BY DEF CallInv, PageType
<1>3. CASE up' = up /\ msgQueue' = msgQueue
  <2>1. PageType'
    BY <1>1, <1>2, <1>3 DEF PageType
  <2>2. ASSUME NEW c \in CallIds PROVE Unsent(c)' <= Unsent(c)
    <3>1. Unsent(c)' = Unsent(c)
      BY <1>3 DEF Unsent
    <3>2. Unsent(c) \in Nat
      BY <1>2, UnderWay
    <3> QED
      BY <3>1, <3>2
  <2> QED
    BY <1>1, <2>1, <2>2, NothingMoves
<1>4. CASE pushMessage(Answer)
  <2>1. Answer \in Messages /\ Answer.kind \in {"sub", "answer"} /\ subjects' \in Seq(AnyScope)
    BY <1>1, <1>2, KindsDiffer
  <2> QED
    BY <1>1, <1>4, <2>1, PushCalls
<1> QED
  BY <1>2, <1>3, <1>4, Responded DEF Answer

\* Handlers under way on the backend concern no call.
LEMMA BackendHandlesCalls ==
  ASSUME CallInv, RouteAnnounceCommand \/ EventSubCommand PROVE CallInv'
<1>1. UNCHANGED <<conn, msgQueue, up, down, subjects, rpcMap, openRpcs, queue, stage, got, losses>>
  BY DEF RouteAnnounceCommand, EventSubCommand, callVars
<1>2. server \in ServerType /\ PageType
  BY DEF CallInv, PageType
<1>3. /\ server' \in ServerType
      /\ server'.active = server.active /\ server'.sent = server.sent
  BY <1>2, BackendHandles
<1>4. PageType'
  BY <1>1, <1>2, <1>3 DEF PageType
<1>5. ASSUME NEW c \in CallIds PROVE Unsent(c)' <= Unsent(c)
  <2>1. Unsent(c)' = Unsent(c)
    BY <1>1 DEF Unsent
  <2>2. Unsent(c) \in Nat
    BY <1>2, UnderWay
  <2> QED
    BY <2>1, <2>2
<1> QED
  BY <1>1, <1>3, <1>4, <1>5, NothingMoves

LEMMA CallInvInit == LinkInit => CallInv
<1> SUFFICES ASSUME LinkInit PROVE CallInv
  OBVIOUS
<1>1. /\ up = <<>> /\ msgQueue = <<>> /\ down = <<>> /\ subjects = <<>>
      /\ rpcMap = {} /\ openRpcs = {} /\ losses = 0
      /\ queue = [c \in CallIds |-> <<>>] /\ got = [c \in CallIds |-> 0]
      /\ stage \in [CallIds -> {"new", "unmade"}]
  BY DEF LinkInit
<1>2. /\ server \in ServerType /\ server.active = {} /\ server.sent = [c \in CallIds |-> 0]
      /\ conn \in ConnType /\ ~conn.open /\ ~conn.sleeping
  BY DEF LinkInit, ServerType, ConnType
<1>3. PageType
  BY <1>1, <1>2 DEF PageType
<1> SUFFICES ASSUME NEW c \in CallIds PROVE RouteInv(c) /\ (IsStream(c) => StreamInv(c))
  BY <1>3 DEF CallInv
<1>4. \A E, D: Times(<<>>, E) = 0 /\ ~Occurs(<<>>, E) /\ NoneAfter(<<>>, E, D)
  BY EmptyTimes
<1>5. queue[c] = <<>> /\ got[c] = 0 /\ server.sent[c] = 0 /\ stage[c] \in {"new", "unmade"}
  BY <1>1, <1>2
<1>6. Unsent(c) = 0 /\ Requested(c) = 0
  BY <1>1, <1>2, <1>4 DEF Unsent, Requested
<1>7. Whole(c)
  BY <1>1, <1>4, <1>5 DEF Whole
<1> QED
  BY <1>1, <1>4, <1>5, <1>6, <1>7 DEF RouteInv, StreamInv, Ended

LEMMA CallInvStep == ASSUME CallInv, [LinkNext]_linkVars PROVE CallInv'
<1>1. CASE Opened \/ runMsgQueue \/ Stable \/ connectNow
  BY <1>1, SocketCalls
<1>2. CASE Closed
  BY <1>2, ClosedCalls
<1>3. CASE doraEventSubscribeSingle \/ doraEventUnsubscribe
  BY <1>3, SubscribeCalls
<1>4. CASE ReceiveResponse
  BY <1>4, ResponseCalls
<1>5. CASE ReceiveCommand \/ ServerAsks
  BY <1>5, CommandCalls
<1>6. CASE \E done \in BOOLEAN : sendResponse(done)
  BY <1>6, SendResponseCalls
<1>7. CASE ServerReceives
  BY <1>7, ReceivedCalls
<1>8. CASE ServerResponds
  BY <1>8, RespondsCalls
<1>9. CASE \E c \in CallIds : CallStep(c)
  BY <1>9, SendCalls, TimeoutCalls, GeneratorCalls, ConsumerCalls DEF CallStep
<1>11. CASE RouteAnnounceCommand \/ EventSubCommand
  BY <1>11, BackendHandlesCalls
<1>10. CASE UNCHANGED linkVars
  <2>1. UNCHANGED <<conn, up, msgQueue, down, subjects, server, rpcMap, openRpcs, queue, stage, got, losses>>
    BY <1>10 DEF linkVars
  <2>2. PageType /\ PageType'
    BY <2>1 DEF CallInv, PageType
  <2>3. ASSUME NEW c \in CallIds PROVE Unsent(c)' <= Unsent(c)
    <3>1. Unsent(c)' = Unsent(c)
      BY <2>1 DEF Unsent
    <3>2. Unsent(c) \in Nat
      BY <2>2, UnderWay
    <3> QED
      BY <3>1, <3>2
  <2> QED
    BY <2>1, <2>2, <2>3, NothingMoves
<1> QED
  BY <1>1, <1>2, <1>3, <1>4, <1>5, <1>6, <1>7, <1>8, <1>9, <1>10, <1>11 DEF LinkNext

-----------------------------------------------------------------------------
(* The answers to the backend's requests: the steps *)

LEMMA AnswerNumbers ==
  ASSUME PageType
  PROVE  /\ Answers \in Nat /\ Times(down, {Command}) \in Nat /\ InHand \in Nat
         /\ server.answers \in Nat /\ server.asked \in Nat
<1>1. up \in Seq(Messages) /\ msgQueue \in Seq(Messages) /\ down \in Seq(Arriving)
  BY DEF PageType
<1>2. Times(up, {Answer}) \in Nat /\ Times(msgQueue, {Answer}) \in Nat /\ Times(down, {Command}) \in Nat
  BY <1>1, TimesFacts
<1>3. server.answers \in Nat /\ server.asked \in Nat
  BY DEF PageType, ServerType
<1> QED
  BY <1>2, <1>3 DEF Answers, InHand

\* Steps that only move an answer, or nothing that counts.
LEMMA AnswersSame ==
  ASSUME AnswerInv, PageType, UNCHANGED <<down, handler, losses>>, Answers' = Answers,
         server'.asked = server.asked, server'.answers = server.answers
  PROVE  AnswerInv'
<1>1. Answering' = Answering
  BY DEF Answering, InHand
<1> QED
  BY <1>1 DEF AnswerInv

LEMMA SocketAnswers ==
  ASSUME AnswerInv, PageType, Opened \/ runMsgQueue PROVE AnswerInv'
<1>1. UNCHANGED <<down, server, handler, losses>>
  BY DEF Opened, runMsgQueue, callVars
<1>2. (\A m \in {Answer}: m.kind \in {"req", "answer"}) /\ (\A m \in {Answer}: m.kind # "req")
  BY KindsDiffer
<1>3. Answers' = Answers
  BY <1>2, OpensTimes DEF Answers
<1> QED
  BY <1>1, <1>3, AnswersSame

LEMMA PushAnswers ==
  ASSUME AnswerInv, PageType, NEW m \in Messages, m.kind \in {"sub", "req"}, pushMessage(m),
         UNCHANGED <<down, server, handler, losses>>
  PROVE  AnswerInv'
<1>1. m \notin {Answer}
  BY KindsDiffer
<1>2. Times(up', {Answer}) + Times(msgQueue', {Answer}) = Times(up, {Answer}) + Times(msgQueue, {Answer}) + 0
  BY <1>1, PushTimes
<1>3. Answers' = Answers
  BY <1>2, AnswerNumbers DEF Answers
<1> QED
  BY <1>3, AnswersSame

LEMMA ClosedAnswers ==
  ASSUME AnswerInv, PageType, Closed PROVE AnswerInv'
<1>1. /\ up' = <<>> /\ down' = <<>> /\ losses' = losses + 1 /\ losses \in Nat
      /\ msgQueue' = msgQueue /\ handler' = handler
  BY DEF Closed, callVars, PageType
<1>2. server'.asked = server.asked /\ server'.answers = server.answers
  BY LinkLost DEF PageType
<1>3. /\ Times(down', {Command}) = 0 /\ Times(up', {Answer}) = 0
      /\ Times(up, {Answer}) \in Nat /\ Times(msgQueue, {Answer}) \in Nat
  BY <1>1, EmptyTimes, TimesFacts DEF PageType
<1>4. Answers' <= Answers /\ Answers' \in Nat
  BY <1>1, <1>3 DEF Answers
<1>5. InHand' = InHand
  BY <1>1 DEF InHand
<1>6. Answering' <= Answering
  BY <1>2, <1>3, <1>4, <1>5, AnswerNumbers DEF Answering
<1>7. Answering \in Nat /\ Answering' \in Nat /\ server.asked \in Nat
  BY <1>2, <1>3, <1>4, <1>5, AnswerNumbers DEF Answering
<1> QED
  BY <1>1, <1>2, <1>6, <1>7 DEF AnswerInv

LEMMA SendResponseAnswers ==
  ASSUME AnswerInv, PageType, NEW done \in BOOLEAN, sendResponse(done) PROVE AnswerInv'
<1>1. /\ UNCHANGED <<down, server, losses>> /\ handler \in {"running", "replied"}
      /\ handler' \in {"none", "replied"}
  BY DEF sendResponse
<1>2. /\ handler = "replied" => up' = up /\ msgQueue' = msgQueue
      /\ handler # "replied" => pushMessage(Answer)
  BY Responded DEF PageType, Answer
<1>3. CASE handler = "replied"
  <2>1. Answers' = Answers /\ InHand' = InHand
    BY <1>1, <1>2, <1>3 DEF Answers, InHand
  <2>2. Answering' = Answering
    BY <1>1, <2>1 DEF Answering
  <2> QED
    BY <1>1, <2>2 DEF AnswerInv
<1>4. CASE handler = "running"
  <2>1. Answer \in Messages /\ Answer.kind = "answer"
    BY KindsDiffer
  <2>2. Times(up', {Answer}) + Times(msgQueue', {Answer}) = Times(up, {Answer}) + Times(msgQueue, {Answer}) + 1
    BY <1>2, <1>4, <2>1, PushTimes
  <2>3. Answers' = Answers + 1 /\ InHand' = 0 /\ InHand = 1
    BY <1>1, <1>4, <2>2 DEF Answers, InHand
  <2>4. Answering' = Answering
    BY <1>1, <2>3, AnswerNumbers DEF Answering
  <2> QED
    BY <1>1, <2>4 DEF AnswerInv
<1> QED
  BY <1>1, <1>3, <1>4

LEMMA ArrivingAnswers ==
  ASSUME AnswerInv, PageType, ReceiveResponse \/ ReceiveCommand PROVE AnswerInv'
<1>1. /\ UNCHANGED <<up, msgQueue, server, losses>> /\ down # <<>> /\ down' = Tail(down)
      /\ down \in Seq(Arriving)
  BY DEF ReceiveResponse, ReceiveCommand, PageType
<1>2. Answers' = Answers
  BY <1>1 DEF Answers
<1>3. /\ Times(down, {Command}) = Times(down', {Command}) + (IF down[1] \in {Command} THEN 1 ELSE 0)
      /\ Times(down', {Command}) \in Nat
  BY <1>1, TailTimes, Shortened, TimesFacts
<1>4. CASE ReceiveResponse
  <2>1. down[1] # Command /\ handler' = handler
    BY <1>4 DEF ReceiveResponse, Command
  <2>2. Times(down', {Command}) = Times(down, {Command}) /\ InHand' = InHand
    BY <1>3, <2>1 DEF InHand
  <2>3. Answering' = Answering
    BY <1>1, <1>2, <2>2 DEF Answering
  <2> QED
    BY <1>1, <2>1, <2>3 DEF AnswerInv
<1>5. CASE ReceiveCommand
  <2>1. handler = "none" /\ handler' = "running"
    BY <1>5 DEF ReceiveCommand
  <2>2. down[1] = Command
    BY <1>1, <1>5, CommandIs, Shortened DEF ReceiveCommand
  <2>3. Times(down, {Command}) = Times(down', {Command}) + 1 /\ InHand' = 1 /\ InHand = 0
    BY <1>3, <2>1, <2>2 DEF InHand
  <2>4. server' = server /\ server.answers \in Nat /\ Answers \in Nat
    BY <1>1, AnswerNumbers
  <2>5. Times(down', {Command}) \in Nat
    BY <1>3
  <2>6. Answering' = Answering
    BY <1>2, <2>3, <2>4, <2>5 DEF Answering
  <2> QED
    BY <1>1, <2>1, <2>6 DEF AnswerInv
<1> QED
  BY <1>4, <1>5

LEMMA BackendAnswers ==
  ASSUME AnswerInv, PageType, ServerReceives \/ ServerResponds \/ ServerAsks PROVE AnswerInv'
<1>1. UNCHANGED <<msgQueue, handler, losses>> /\ InHand' = InHand
  BY Zenon DEF ServerReceives, ServerResponds, ServerAsks, callVars, InHand
<1>2. server \in ServerType /\ up \in Seq(Messages) /\ msgQueue \in Seq(Messages) /\ down \in Seq(Arriving)
  BY DEF PageType
<1>3. CASE ServerReceives
  <2>1. up # <<>> /\ up' = Tail(up) /\ down' = down
    BY <1>3 DEF ServerReceives
  <2>2. /\ server'.answers = server.answers + (IF up[1].kind = "answer" THEN 1 ELSE 0)
        /\ server'.asked = server.asked
    BY <1>2, <1>3, BackendReceives
  <2>3. up[1].kind = "answer" <=> up[1] \in {Answer}
    BY <1>2, <2>1, Shortened, AnswerIs
  <2>4. /\ Times(up, {Answer}) = Times(up', {Answer}) + (IF up[1] \in {Answer} THEN 1 ELSE 0)
        /\ Times(up', {Answer}) \in Nat /\ Times(msgQueue, {Answer}) \in Nat
    BY <1>2, <2>1, TailTimes, Shortened, TimesFacts
  <2> DEFINE k == IF up[1] \in {Answer} THEN 1 ELSE 0
  <2>5. k \in Nat /\ Times(up, {Answer}) = Times(up', {Answer}) + k /\ server'.answers = server.answers + k
    BY <2>2, <2>3, <2>4
  <2> HIDE DEF k
  <2>6. Answers = Answers' + k /\ Answers' \in Nat
    BY <1>1, <2>4, <2>5 DEF Answers
  <2>7. Answering' = Answering
    BY <1>1, <2>1, <2>5, <2>6, AnswerNumbers DEF Answering
  <2> QED
    BY <1>1, <2>2, <2>7 DEF AnswerInv
<1>4. CASE ServerResponds
  <2>1. PICK c \in server.active, cont, data \in BOOLEAN, kind \in {"resp", "error"}:
          Responds(c, kind, cont, data)
    BY <1>2, <1>4, BackendResponds
  <2>2. server'.answers = server.answers /\ server'.asked = server.asked
    BY <1>2, <1>4, BackendResponds
  <2> DEFINE m == [kind |-> kind, id |-> c, cont |-> cont, data |-> data]
  <2>3. c \in CallIds /\ m \in Responses(c) /\ down' = Append(down, m)
    BY <1>2, <2>1 DEF Responds, Responses, ServerType
  <2> HIDE DEF m
  <2>4. m \in Arriving /\ m \notin {Command}
    BY <2>3, KindsDiffer
  <2>5. Times(down', {Command}) = Times(down, {Command}) + 0
    BY <1>2, <2>3, <2>4, AppendTimes
  <2>6. up' = up
    BY <1>4, Zenon DEF ServerResponds
  <2>7. Answering' = Answering
    BY <1>1, <2>2, <2>5, <2>6, AnswerNumbers DEF Answering, Answers
  <2> QED
    BY <1>1, <2>2, <2>7 DEF AnswerInv
<1>5. CASE ServerAsks
  <2>1. up' = up /\ down' = Append(down, Command)
    BY <1>5 DEF ServerAsks, Command
  <2>2. server'.answers = server.answers /\ server'.asked = server.asked + 1
    BY <1>2, <1>5, BackendAsks
  <2>3. Times(down', {Command}) = Times(down, {Command}) + 1
    BY <1>2, <2>1, KindsDiffer, AppendTimes
  <2>4. Answers' = Answers
    BY <1>1, <2>1 DEF Answers
  <2>5. Answering' = Answering + 1 /\ Answering \in Nat /\ server.asked \in Nat
    BY <1>1, <2>2, <2>3, <2>4, AnswerNumbers DEF Answering
  <2> QED
    BY <1>1, <2>2, <2>5 DEF AnswerInv
<1> QED
  BY <1>3, <1>4, <1>5

LEMMA AnswerInvInit == LinkInit => AnswerInv
<1> SUFFICES ASSUME LinkInit PROVE AnswerInv
  OBVIOUS
<1>1. /\ up = <<>> /\ msgQueue = <<>> /\ down = <<>> /\ handler \in {"none", "off"}
      /\ server.asked = 0 /\ server.answers = 0
  BY DEF LinkInit
<1>2. \A E: Times(<<>>, E) = 0
  BY EmptyTimes
<1>3. Answering = 0
  BY <1>1, <1>2 DEF Answering, Answers, InHand
<1> QED
  BY <1>1, <1>3 DEF AnswerInv

LEMMA AnswerInvStep == ASSUME AnswerInv, PageType, [LinkNext]_linkVars PROVE AnswerInv'
<1>1. CASE Opened \/ runMsgQueue
  BY <1>1, SocketAnswers
<1>2. CASE Closed
  BY <1>2, ClosedAnswers
<1>3. CASE doraEventSubscribeSingle \/ doraEventUnsubscribe
  <2>1. UNCHANGED <<down, server, handler, losses>>
    BY <1>3 DEF doraEventSubscribeSingle, doraEventUnsubscribe, callVars
  <2>2. subjects' \in Seq(AnyScope) /\ pushMessage(Subscription(subjects'))
    BY <1>3, Subscribed DEF PageType
  <2>3. Subscription(subjects') \in Messages /\ Subscription(subjects').kind = "sub"
    BY <2>2, SubscriptionFacts
  <2> QED
    BY <2>1, <2>2, <2>3, PushAnswers
<1>4. CASE ReceiveResponse \/ ReceiveCommand
  BY <1>4, ArrivingAnswers
<1>5. CASE \E done \in BOOLEAN : sendResponse(done)
  BY <1>5, SendResponseAnswers
<1>6. CASE ServerReceives \/ ServerResponds \/ ServerAsks
  BY <1>6, BackendAnswers
<1>7. CASE \E c \in CallIds : sendRpcCommand(c)
  <2>1. PICK c \in CallIds: sendRpcCommand(c)
    BY <1>7
  <2>2. UNCHANGED <<down, server, handler, losses>> /\ pushMessage(Request(c))
    BY <2>1 DEF sendRpcCommand, Request
  <2>3. Request(c) \in Messages /\ Request(c).kind = "req"
    BY KindsDiffer
  <2> QED
    BY <2>2, <2>3, PushAnswers
<1>10. CASE RouteAnnounceCommand \/ EventSubCommand
  <2>1. UNCHANGED <<up, msgQueue, down, handler, losses>>
    BY <1>10 DEF RouteAnnounceCommand, EventSubCommand, callVars
  <2>2. server'.asked = server.asked /\ server'.answers = server.answers
    BY <1>10, BackendHandles DEF PageType
  <2>3. Answers' = Answers
    BY <2>1 DEF Answers
  <2> QED
    BY <2>1, <2>2, <2>3, AnswersSame
<1>8. CASE UNCHANGED <<up, msgQueue, down, server, handler, losses>>
  <2>1. Answers' = Answers
    BY <1>8 DEF Answers
  <2> QED
    BY <1>8, <2>1, AnswersSame
<1>9. Stable \/ connectNow \/ (\E c \in CallIds: Timeout(c) \/ GeneratorTakes(c) \/ ConsumerGoesOn(c))
        \/ UNCHANGED linkVars => UNCHANGED <<up, msgQueue, down, server, handler, losses>>
  BY DEF Stable, connectNow, Timeout, GeneratorTakes, ConsumerGoesOn, callVars, linkVars
<1> QED
  BY <1>1, <1>2, <1>3, <1>4, <1>5, <1>6, <1>7, <1>8, <1>9, <1>10 DEF LinkNext, CallStep

-----------------------------------------------------------------------------
(* The theorem *)

LEMMA AnsweredOnceHolds == ASSUME AnswerInv, PageType PROVE AnsweredOnce
<1>1. up \in Seq(Messages) /\ msgQueue \in Seq(Messages) /\ down \in Seq(Arriving)
  BY DEF PageType
<1>2. ASSUME NEW q \in Seq(Messages)
      PROVE  Cardinality({i \in DOMAIN q: q[i].kind = "answer"}) = Times(q, {Answer})
  <2>1. DOMAIN q = 1 .. Len(q) /\ \A i \in 1 .. Len(q): q[i] \in Messages
    BY LenProperties, ElementOfSeq
  <2>2. \A i \in 1 .. Len(q): q[i].kind = "answer" <=> q[i] \in {Answer}
    BY <2>1, AnswerIs
  <2> QED
    BY <2>1, <2>2 DEF Times
<1>3. Cardinality({i \in DOMAIN down: down[i].kind = "cmd"}) = Times(down, {Command})
  <2>1. DOMAIN down = 1 .. Len(down) /\ \A i \in 1 .. Len(down): down[i] \in Arriving
    BY <1>1, LenProperties, ElementOfSeq
  <2>2. \A i \in 1 .. Len(down): down[i].kind = "cmd" <=> down[i] \in {Command}
    BY <2>1, CommandIs
  <2> QED
    BY <2>1, <2>2 DEF Times
<1> DEFINE onWay == Cardinality({i \in DOMAIN up : up[i].kind = "answer"})
                      + Cardinality({i \in DOMAIN msgQueue : msgQueue[i].kind = "answer"})
           asking == Cardinality({i \in DOMAIN down : down[i].kind = "cmd"})
                       + (IF handler = "running" THEN 1 ELSE 0)
<1>4. onWay = Answers /\ asking = Times(down, {Command}) + InHand
  BY <1>1, <1>2, <1>3 DEF Answers, InHand
<1> HIDE DEF onWay, asking
<1>5. server.answers + onWay + asking = Answering /\ Answering \in Nat /\ server.asked \in Nat
  BY <1>4, AnswerNumbers DEF Answering
<1>6. server.answers + onWay + asking \in (IF losses = 0 THEN server.asked ELSE 0) .. server.asked
  BY <1>5 DEF AnswerInv
<1> QED
  BY <1>6 DEF AnsweredOnce, onWay, asking

LEMMA StreamCompleteHolds == ASSUME CallInv PROVE StreamComplete
<1> SUFFICES ASSUME NEW c \in CallIds, Calls[c].kind = "stream",
                    \/ stage[c] = "done"
                    \/ stage[c] = "waiting" /\ losses = 0 /\ Arrived(c)
             PROVE  got[c] = server.sent[c]
  BY DEF StreamComplete
<1>1. StreamInv(c) /\ PageType
  BY DEF CallInv, IsStream
<1>2. /\ queue[c] \in Seq(Responses(c) \cup {TimedOut}) /\ down \in Seq(Arriving)
      /\ got[c] \in Nat /\ server.sent[c] \in Nat
  BY <1>1, UnderWay
<1>3. Whole(c) /\ ~Occurs(queue[c], Responses(c)) /\ ~Occurs(down, Responses(c))
  <2>1. CASE stage[c] = "done"
    BY <1>1, <2>1 DEF StreamInv, Ended, Cut
  <2>2. CASE stage[c] = "waiting" /\ losses = 0 /\ Arrived(c)
    <3>1. Whole(c)
      BY <1>1, <2>2 DEF StreamInv, Cut
    <3>2. ~Occurs(queue[c], Responses(c))
      BY <2>2, EmptyTimes DEF Arrived
    <3>3. ~Occurs(down, Responses(c))
      <4>1. DOMAIN down = 1 .. Len(down)
        BY <1>2, LenProperties
      <4>2. \A i \in 1 .. Len(down): down[i].kind = "cmd"
        BY <2>2, <4>1 DEF Arrived
      <4>3. \A m \in Responses(c): m.kind # "cmd"
        BY DEF Responses
      <4> QED
        BY <4>2, <4>3 DEF Occurs
    <3> QED
      BY <3>1, <3>2, <3>3
  <2> QED
    BY <2>1, <2>2
<1>4. Times(queue[c], DataOf(c)) = 0 /\ Times(down, DataOf(c)) = 0
  BY <1>2, <1>3, NoResponse
<1> QED
  BY <1>2, <1>3, <1>4 DEF Whole

\* Every request of the backend is answered once at most, and exactly once as long as no
\* socket is lost (RpcResponseHelper); a stream that ends without an error, or waits with
\* nothing under way, has given its consumer every response, however requests, answers,
\* timeouts and losses interleave (the router's rpcMap, rpcResponseGenerator).
THEOREM AnswersAlwaysKept == LinkSpec => []AnswersKept
<1>1. LinkInit => CallInv /\ AnswerInv
  BY CallInvInit, AnswerInvInit
<1>2. (CallInv /\ AnswerInv) /\ [LinkNext]_linkVars => (CallInv /\ AnswerInv)'
  BY CallInvStep, AnswerInvStep DEF CallInv
<1>3. CallInv /\ AnswerInv => AnswersKept
  BY AnsweredOnceHolds, StreamCompleteHolds DEF AnswersKept, CallInv
<1> QED
  BY <1>1, <1>2, <1>3, PTL DEF LinkSpec
=============================================================================

-------------------------- MODULE QuickReorderQueue --------------------------
(***************************************************************************)
(* pkg/utilds/quickreorderqueue.go: the queue that puts the input of a job *)
(* back in order (jobmanager.go:57, mainserverconn.go:132).  RPC requests  *)
(* are handled in goroutines of their own, so keystrokes may overtake one  *)
(* another; each carries the id of the session that sent it and a number.  *)
(* A number that is ahead is buffered until the ones before it arrive or   *)
(* it has waited long enough.  Every method runs under q.lock, and sends   *)
(* to outCh while it holds it.                                             *)
(*                                                                         *)
(* Time is abstracted: a buffered item grows old at some point, the oldest *)
(* first, and a timer that is set fires at some point.                     *)
(***************************************************************************)
EXTENDS Integers, Sequences, FiniteSets, SequencesExt

CONSTANTS
  Sessions, NoSession,  \* session ids, and the empty one
  Cap,                  \* cap(q.outCh)
  MaxSeq,               \* bound: numbers of a session (0 asks for no ordering)
  MaxArrivals           \* bound: items queued

ASSUME QueueAssumption ==
  /\ NoSession \notin Sessions
  /\ Cap \in Nat \ {0} /\ MaxSeq \in Nat /\ MaxArrivals \in Nat

VARIABLES
  rank,                  \* q.sessionOrder: the order sessions were first seen in, 0 for unseen
  current, nextSeqNum,
  buffer, aged,          \* the buffered items, and those that waited for the timeout
  timer,                 \* is a timer set?
  closed,
  emitted, consumed,     \* everything sent to outCh so far, and how much was received from it
  arrivals, queued       \* calls of QueueItem so far, the items given to it

queueVars == <<rank, current, nextSeqNum, buffer, aged, timer>>
qVars == <<queueVars, closed, emitted, consumed, arrivals, queued>>

Item(s, seq, n) == [session |-> s, seq |-> seq, n |-> n]
Bare(item) == <<item.session, item.seq>>

QInit ==
  /\ rank = [s \in Sessions \cup {NoSession} |-> 0]
  /\ current = NoSession /\ nextSeqNum = 1
  /\ buffer = {} /\ aged = {} /\ timer = FALSE /\ closed = FALSE
  /\ emitted = <<>> /\ consumed = 0
  /\ arrivals = 0 /\ queued = {}

Waiting == Len(emitted) - consumed

\* cmpSessionSeq < 0, with the session order r
Before(r, s, seq, t, tseq) == r[s] < r[t] \/ (r[s] = r[t] /\ seq < tseq)

Sorted(items, r) ==
  SetToSortSeq(items, LAMBDA x, y: Before(r, x.session, x.seq, y.session, y.seq))

\* Items go to outCh, stamped with the number of arrivals until then.
Emit(items, now) == emitted' = emitted \o [i \in DOMAIN items |-> [item |-> items[i], at |-> now]]

-----------------------------------------------------------------------------

IsNew(s) == s # NoSession /\ rank[s] = 0

\* ensureSessionTs: a session seen for the first time comes after all others; what is buffered of
\* those is flushed.
RankWith(s) ==
  IF IsNew(s) THEN [rank EXCEPT ![s] = 1 + Cardinality({t \in Sessions: rank[t] > 0})] ELSE rank
CurrentWith(s) == IF IsNew(s) THEN s ELSE current
NextWith(s) == IF IsNew(s) THEN 1 ELSE nextSeqNum
BufferWith(s) == IF IsNew(s) THEN {} ELSE buffer
FlushedBy(s) == IF IsNew(s) THEN Sorted(buffer, rank) ELSE <<>>
TimerWith(s) == timer /\ ~(IsNew(s) /\ buffer # {})

\* mutant: what is buffered is not counted
HasRoomInChannel == ~closed /\ Waiting < Cap

HasRoom == ~closed /\ Cardinality(buffer) + Waiting < Cap

\* The item is refused: the queue is closed or full.  Its sender ignores the error.
QueueRefused(s, seq) ==
  /\ ~HasRoom
  /\ UNCHANGED <<queueVars, closed, emitted, consumed>>

IsPast(s, seq) ==
  Before(RankWith(s), s, seq, CurrentWith(s), NextWith(s)) \/ seq = 0 \/ s = NoSession
IsNext(s, seq) ==
  ~IsPast(s, seq) /\ RankWith(s)[s] = RankWith(s)[CurrentWith(s)] /\ seq = NextWith(s)

\* An old item, and one that asks for no order, is passed on.
QueuePast(s, seq) ==
  /\ HasRoom /\ IsPast(s, seq)
  /\ Emit(FlushedBy(s) \o <<Item(s, seq, arrivals + 1)>>, arrivals + 1)
  /\ buffer' = BufferWith(s) /\ aged' = aged \cap buffer' /\ timer' = TimerWith(s)
  /\ rank' = RankWith(s) /\ current' = CurrentWith(s) /\ nextSeqNum' = NextWith(s)
  /\ UNCHANGED <<closed, consumed>>

\* processBuffer: how many of the sorted items follow on `seq'
RunFrom(items, s, seq) ==
  Cardinality({k \in DOMAIN items: \A i \in 1 .. k: items[i].session = s /\ items[i].seq = seq + i})

\* The item everyone waits for is passed on, with those it makes ready.
QueueNext(s, seq) ==
  LET items == Sorted(BufferWith(s), RankWith(s))
      ready == RunFrom(items, CurrentWith(s), seq)
  IN  /\ HasRoom /\ IsNext(s, seq)
      /\ Emit(FlushedBy(s) \o <<Item(s, seq, arrivals + 1)>> \o SubSeq(items, 1, ready), arrivals + 1)
      /\ buffer' = {items[i]: i \in ready + 1 .. Len(items)}
      /\ aged' = aged \cap buffer' /\ timer' = TimerWith(s)
      /\ rank' = RankWith(s) /\ current' = CurrentWith(s) /\ nextSeqNum' = seq + ready + 1
      /\ UNCHANGED <<closed, consumed>>

\* An item that is ahead is buffered.
QueueAhead(s, seq) ==
  /\ HasRoom /\ ~IsPast(s, seq) /\ ~IsNext(s, seq)
  /\ Emit(FlushedBy(s), arrivals + 1)
  /\ buffer' = BufferWith(s) \cup {Item(s, seq, arrivals + 1)}
  /\ aged' = aged \cap buffer' /\ timer' = TRUE
  /\ rank' = RankWith(s) /\ current' = CurrentWith(s) /\ nextSeqNum' = NextWith(s)
  /\ UNCHANGED <<closed, consumed>>

QueueItem(s, seq) ==
  /\ arrivals < MaxArrivals /\ <<s, seq>> \notin queued
  /\ arrivals' = arrivals + 1
  /\ queued' = queued \cup {<<s, seq>>}
  /\ QueueRefused(s, seq) \/ QueuePast(s, seq) \/ QueueNext(s, seq) \/ QueueAhead(s, seq)

\* The item that has waited longest reaches the timeout.
GrowOld ==
  \E x \in buffer \ aged:
    /\ \A y \in buffer \ aged: x.n <= y.n
    /\ aged' = aged \cup {x}
    /\ UNCHANGED <<rank, current, nextSeqNum, buffer, timer, closed, emitted, consumed, arrivals, queued>>

\* mutant: only the items that timed out are flushed, the ones sorted before them stay
TimeoutPicksAged ==
  LET out == Sorted(buffer \cap aged, rank)
  IN  /\ timer /\ ~closed
      /\ Emit(out, arrivals)
      /\ buffer' = buffer \ aged /\ aged' = {}
      /\ nextSeqNum' = IF out # <<>> THEN Last(out).seq + 1 ELSE nextSeqNum
      /\ timer' = (buffer' # {})
      /\ UNCHANGED <<rank, current, closed, consumed, arrivals, queued>>

\* mutant: the timer is not set again for what is left
TimeoutOnce ==
  LET items == Sorted(buffer, rank)
      upTo == {i \in DOMAIN items: \E j \in i .. Len(items): items[j] \in aged}
      out == SubSeq(items, 1, Cardinality(upTo))
  IN  /\ timer /\ ~closed
      /\ Emit(out, arrivals)
      /\ buffer' = buffer \ ToSet(out) /\ aged' = aged \cap buffer'
      /\ nextSeqNum' = IF out # <<>> THEN Last(out).seq + 1 ELSE nextSeqNum
      /\ timer' = FALSE
      /\ UNCHANGED <<rank, current, closed, consumed, arrivals, queued>>

\* onTimeout: everything up to the last timed-out item is given up waiting for; the timer is set
\* again if something is left.
OnTimeout ==
  LET items == Sorted(buffer, rank)
      upTo == {i \in DOMAIN items: \E j \in i .. Len(items): items[j] \in aged}
      out == SubSeq(items, 1, Cardinality(upTo))
      passed == {x.seq + 1: x \in {y \in ToSet(out): y.session = current /\ y.seq >= nextSeqNum}}
  IN  /\ timer /\ ~closed
      /\ Emit(out, arrivals)
      /\ buffer' = buffer \ ToSet(out) /\ aged' = aged \cap buffer'
      /\ nextSeqNum' = IF passed = {} THEN nextSeqNum ELSE CHOOSE n \in passed: \A m \in passed: m <= n
      /\ timer' = (buffer' # {})
      /\ UNCHANGED <<rank, current, closed, consumed, arrivals, queued>>

Close ==
  /\ ~closed
  /\ closed' = TRUE /\ timer' = FALSE
  /\ UNCHANGED <<rank, current, nextSeqNum, buffer, aged, emitted, consumed, arrivals, queued>>

\* processInputQueue takes an item.
Receive ==
  /\ Waiting > 0
  /\ consumed' = consumed + 1
  /\ UNCHANGED <<queueVars, closed, emitted, arrivals, queued>>

QNext ==
  \/ \E s \in Sessions \cup {NoSession}, seq \in 0 .. MaxSeq: QueueItem(s, seq)
  \/ GrowOld \/ OnTimeout \/ Close \/ Receive

QSpec == QInit /\ [][QNext]_qVars

\* Time passes and timers fire; the consumer may be as slow as it likes.
QFairness == WF_qVars(GrowOld) /\ WF_qVars(OnTimeout /\ aged # {})
QFairSpec == QSpec /\ QFairness

-----------------------------------------------------------------------------
(* Properties *)

\* Types; and outCh always has room for what is buffered, so that no method blocks on it while it
\* holds the lock (quickreorderqueue.go:124-126).
QTypeOK ==
  /\ rank \in [Sessions \cup {NoSession} -> Nat] /\ current \in Sessions \cup {NoSession}
  /\ nextSeqNum \in 1 .. MaxSeq + 1 /\ timer \in BOOLEAN /\ closed \in BOOLEAN
  /\ aged \subseteq buffer /\ consumed \in 0 .. Len(emitted)
  /\ Cardinality(buffer) + Waiting <= Cap

\* Items come out in the order of their sessions and numbers, except one that arrived when a
\* later one was already out (quickreorderqueue.go:13-21).
InOrderUnlessLate ==
  \A i, j \in DOMAIN emitted:
    LET x == emitted[i].item
        y == emitted[j].item
    IN  i < j /\ x.seq > 0 /\ y.seq > 0 /\ x.session # NoSession /\ y.session # NoSession =>
          Before(rank, x.session, x.seq, y.session, y.seq) \/ y.n > emitted[i].at

\* An item that was buffered comes out, whatever else arrives or does not.
BufferedComesOut ==
  \A s \in Sessions, seq \in 1 .. MaxSeq:
    (\E x \in buffer: Bare(x) = <<s, seq>>) ~>
      (closed \/ \E i \in DOMAIN emitted: Bare(emitted[i].item) = <<s, seq>>)

\* No item that is next in order waits in the buffer.
NextNotHeld == \A x \in buffer: ~(x.session = current /\ x.seq = nextSeqNum)
=============================================================================

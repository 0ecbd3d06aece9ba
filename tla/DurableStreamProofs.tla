------------------------- MODULE DurableStreamProofs -------------------------
(***************************************************************************)
(* Proofs about DurableStream, for every window, size of the buffers and   *)
(* number of links and crashes.  The file is in order because each reader  *)
(* hands out consecutive bytes, because the output loop of the job's       *)
(* stream continues where the file and the recorded gap end, and because   *)
(* nothing but the end of the stream can reach a new reader before its     *)
(* position is agreed upon: until StartStream the window of its connection *)
(* is 0.                                                                   *)
(***************************************************************************)
EXTENDS DurableStream, DataLemmas

-----------------------------------------------------------------------------
(* The inductive invariant *)

End == {"none", "eof", "error"}
Packet == [id: Stream, seq: Int, len: Nat, end: End]
Ack == [id: Stream, seq: Int, rwnd: Nat, fin: BOOLEAN, cancel: BOOLEAN]
ReaderType ==
  [open: BOOLEAN, nextSeq: Nat, buffer: Seq(Int), eof: BOOLEAN, err: BOOLEAN, lastRwnd: Int,
   ooo: SUBSET Packet]
RestartStage ==
  {"off", "create", "prepare", "wait", "reply", "start", "run", "refused", "beyond", "already"}

\* The variables of the job manager that the argument needs.
ManagerType ==
  /\ log \in LogType /\ eofPos \in Int /\ terminalEvent \in End
  /\ rwndSize \in Nat /\ sentNotAcked \in Nat /\ chunk \in Nat /\ readErr \in End
  /\ connecting \in [stage: {"idle", "consume", "install"}, id: Nat, rwnd: Nat, seq: Int, head: Nat]
  /\ pkt \in [id: Nat, seq: Int, len: Nat, end: End]

LinkType ==
  /\ data \in Seq(Packet)
  /\ acks \in Seq(Ack)
  /\ handler \in [stage: {"none", "disconnect", "connect", "connecting"}, id: Nat, seq: Nat]

MainType ==
  /\ reader \in [Stream -> ReaderType]
  /\ \A n \in Stream: IsFiniteSet(reader[n].ooo)
  /\ loop \in [Stream -> [stage: {"none", "read", "append", "done"}, got: Seq(Int)]]
  /\ \A n \in Stream: loop[n].stage # "append" => loop[n].got = <<>>
  /\ file \in Seq(Int) /\ totalGap \in Nat
  /\ saved \in [file: Seq(Int), gap: Nat]
  /\ restart \in [stage: RestartStage, id: Nat, cur: Nat, gap: Nat, reply: Int]

\* Streams are numbered in the order of their creation.
Numbered ==
  /\ streams \in Stream
  /\ jobStream \in 0 .. streams /\ carries \in 0 .. streams
  /\ streamId \in 1 .. streams
  /\ senderLoop = "send" => pkt.id \in 1 .. streams
  /\ connecting.stage # "idle" => connecting.id \in 1 .. streams
  /\ handler.stage # "none" => handler.id \in 1 .. streams
  /\ attached \subseteq 1 .. streams
  /\ \A i \in 1 .. Len(data): data[i].id <= streams
  /\ restart.stage = "create" => streams < MaxConn
  /\ \A n \in Stream: n > streams => loop[n].stage = "none"

\* The file f, with the gap g, holds bytes in order.
InOrder(f, g) ==
  /\ \A i \in 1 .. Len(f) - 1: f[i] < f[i + 1]
  /\ f # <<>> => f[Len(f)] < Len(f) + g

\* A reader holds the bytes that end at its position.
Consecutive(r) == \A i \in 1 .. Len(r.buffer): r.buffer[i] = r.nextSeq - Len(r.buffer) + i - 1

\* Only the loop of the job's stream appends, what follows the file; while it runs its reader
\* continues the file.
LoopsInOrder ==
  \A n \in Stream:
    /\ loop[n].stage = "append" =>
         /\ n = jobStream
         /\ \A i \in 1 .. Len(loop[n].got): loop[n].got[i] = Len(file) + totalGap + i - 1
    /\ loop[n].stage \in {"read", "append"} /\ n = jobStream =>
         Len(file) + totalGap + Len(loop[n].got) + Len(reader[n].buffer) = reader[n].nextSeq

\* While restartStreaming is under way no loop runs on the job's stream, and its reader
\* continues the file too.
Restarting == restart.stage \notin {"off", "create"}
Unanswered == restart.stage \in {"prepare", "wait", "reply"}
Unstarted  == restart.stage \notin {"off", "create", "run"}

RestartInOrder ==
  /\ Restarting =>
       /\ restart.id = jobStream /\ restart.id \in Stream /\ loop[restart.id].stage = "none"
       /\ Len(file) + totalGap + Len(reader[restart.id].buffer) = reader[restart.id].nextSeq
  /\ Unanswered => restart.cur = Len(file) + totalGap /\ restart.gap = totalGap

\* Before StartStream only the end of the stream, which has no bytes, is sent to the new reader ...
NoDataSent ==
  Unstarted =>
    /\ \A i \in 1 .. Len(data): data[i].id = restart.id => data[i].len = 0
    /\ senderLoop = "send" /\ pkt.id = restart.id => pkt.len = 0
    /\ streamId = restart.id => rwndSize = 0
    /\ connecting.stage # "idle" /\ connecting.id = restart.id => connecting.rwnd = 0
    /\ restart.id \notin attached

\* ... and received by it.
NoDataRead ==
  Unstarted =>
    /\ reader[restart.id].buffer = <<>>
    /\ \A p \in reader[restart.id].ooo: p.len = 0

LinkInv == ManagerType /\ LinkType /\ Numbered /\ NoDataSent

FileInv ==
  /\ MainType
  /\ InOrder(file, totalGap) /\ InOrder(saved.file, saved.gap)
  /\ \A n \in Stream: Consecutive(reader[n])
  /\ LoopsInOrder /\ RestartInOrder /\ NoDataRead

DsInv == LinkInv /\ FileInv

-----------------------------------------------------------------------------
(* Lemmas about a reader *)

Base(r) == r.nextSeq - Len(r.buffer)

\* Reader r2 holds the bytes of r1 and those that follow them, none if every packet is empty.
Continues(r1, r2) ==
  /\ r2 \in ReaderType /\ IsFiniteSet(r2.ooo)
  /\ Consecutive(r2) /\ Base(r2) = Base(r1) /\ r2.ooo \subseteq r1.ooo
  /\ (\A p \in r1.ooo: p.len = 0) => r2.buffer = r1.buffer

\* recvDataOrderedLocked appends the bytes of a packet that begins where the reader stands.
LEMMA TakeFacts ==
  ASSUME NEW r \in ReaderType, NEW p \in Packet, p.seq = r.nextSeq, Consecutive(r)
  PROVE  /\ Take(r, p) \in ReaderType /\ Take(r, p).ooo = r.ooo
         /\ Consecutive(Take(r, p)) /\ Base(Take(r, p)) = Base(r)
         /\ p.len = 0 => Take(r, p).buffer = r.buffer
<1> DEFINE b == [i \in 1 .. p.len |-> p.seq + i - 1]
           t == r.buffer \o b
<1>1. r.buffer \in Seq(Int) /\ p.len \in Nat /\ p.seq \in Int /\ r.nextSeq \in Nat
  BY DEF ReaderType, Packet
<1>2. b \in Seq(Int) /\ Len(b) = p.len /\ \A i \in 1 .. p.len: b[i] = p.seq + i - 1
  BY <1>1
<1> DEFINE e == r.eof \/ p.end = "eof"
<1>3. e \in BOOLEAN /\ Take(r, p) = [r EXCEPT !.buffer = t, !.nextSeq = r.nextSeq + p.len, !.eof = e]
  BY DEF Take, ReaderType
<1> HIDE DEF b, e
<1>4. /\ r.buffer \o b \in Seq(Int) /\ Len(r.buffer \o b) = Len(r.buffer) + Len(b)
      /\ \A i \in 1 .. Len(r.buffer) + Len(b):
           (r.buffer \o b)[i] = IF i <= Len(r.buffer) THEN r.buffer[i] ELSE b[i - Len(r.buffer)]
  BY <1>1, <1>2, ConcatProperties
<1>5. /\ t \in Seq(Int) /\ Len(t) = Len(r.buffer) + p.len /\ Len(r.buffer) \in Nat
      /\ \A i \in 1 .. Len(r.buffer) + p.len:
           t[i] = IF i <= Len(r.buffer) THEN r.buffer[i] ELSE b[i - Len(r.buffer)]
  BY <1>1, <1>2, <1>4
<1> HIDE DEF t
<1>6. /\ Take(r, p) \in ReaderType /\ Take(r, p).ooo = r.ooo
      /\ Take(r, p).buffer = t /\ Take(r, p).nextSeq = r.nextSeq + p.len
  <2> DEFINE q == r.nextSeq + p.len
  <2>1. q \in Nat
    BY <1>1
  <2> HIDE DEF q
  <2>2. Take(r, p) = [r EXCEPT !.buffer = t, !.nextSeq = q, !.eof = e]
    BY <1>3 DEF q
  <2>3. /\ Take(r, p) \in ReaderType /\ Take(r, p).ooo = r.ooo
        /\ Take(r, p).buffer = t /\ Take(r, p).nextSeq = q
    BY <1>3, <1>5, <2>1, <2>2 DEF ReaderType
  <2> QED
    BY <2>3 DEF q
<1>7. Base(Take(r, p)) = Base(r)
  BY <1>1, <1>5, <1>6 DEF Base
<1>8. Consecutive(Take(r, p))
  <2>0. /\ Len(t) = Len(r.buffer) + p.len /\ Len(r.buffer) \in Nat /\ p.len \in Nat
        /\ r.nextSeq \in Nat
    BY <1>1, <1>5
  <2>1. ASSUME NEW i \in 1 .. Len(t), i <= Len(r.buffer)
        PROVE  t[i] = r.nextSeq + p.len - Len(t) + i - 1
    <3>1. i \in 1 .. Len(r.buffer) /\ i \in 1 .. Len(r.buffer) + p.len
      BY <1>1, <1>5, <2>1
    <3>2. t[i] = r.buffer[i]
      BY <1>5, <2>1, <3>1
    <3>3. r.buffer[i] = r.nextSeq - Len(r.buffer) + i - 1
      BY <3>1 DEF Consecutive
    <3> QED
      BY <2>0, <3>2, <3>3
  <2>2. ASSUME NEW i \in 1 .. Len(t), i > Len(r.buffer)
        PROVE  t[i] = r.nextSeq + p.len - Len(t) + i - 1
    <3>1. t[i] = b[i - Len(r.buffer)] /\ i - Len(r.buffer) \in 1 .. p.len
      BY SMTT(30), <1>1, <1>5, <2>2
    <3>2. t[i] = r.nextSeq + (i - Len(r.buffer)) - 1
      BY <1>2, <3>1
    <3> QED
      BY SMTT(30), <2>0, <3>2
  <2>3. \A i \in 1 .. Len(t): t[i] = r.nextSeq + p.len - Len(t) + i - 1
    BY <2>0, <2>1, <2>2
  <2> DEFINE q == Take(r, p)
  <2>4. q.buffer = t /\ q.nextSeq = r.nextSeq + p.len
    BY <1>6
  <2> HIDE DEF q
  <2>5. Consecutive(q)
    BY <2>0, <2>3, <2>4 DEF Consecutive
  <2> QED
    BY <2>5 DEF q
<1>9. ASSUME p.len = 0 PROVE t = r.buffer
  <2>1. Len(t) = Len(r.buffer) /\ \A i \in 1 .. Len(t): t[i] = r.buffer[i]
    BY <1>1, <1>5, <1>9
  <2> QED
    BY <1>1, <1>5, <2>1, SeqEqual
<1> QED
  BY <1>6, <1>7, <1>8, <1>9

\* One round of processOOOPacketsLocked
LEMMA TakeKeptFacts ==
  ASSUME NEW r \in ReaderType, IsFiniteSet(r.ooo), Consecutive(r)
  PROVE  Continues(r, TakeKept(r))
<1>1. CASE r.eof
  <2>1. TakeKept(r) = [r EXCEPT !.ooo = {}]
    BY <1>1 DEF TakeKept
  <2> QED
    BY <2>1, FS_EmptySet DEF Continues, ReaderType, Consecutive, Base
<1>2. CASE ~r.eof /\ \E p \in r.ooo: IsNextKept(r, p)
  <2> DEFINE p == CHOOSE q \in r.ooo: IsNextKept(r, q)
  <2>1. p \in r.ooo /\ p.seq = r.nextSeq
    BY <1>2 DEF IsNextKept
  <2>2. TakeKept(r) = [Take(r, p) EXCEPT !.ooo = Take(r, p).ooo \ {p}]
    BY <1>2 DEF TakeKept
  <2> HIDE DEF p
  <2>3. p \in Packet
    BY <2>1 DEF ReaderType
  <2>4. /\ Take(r, p) \in ReaderType /\ Take(r, p).ooo = r.ooo
        /\ Consecutive(Take(r, p)) /\ Base(Take(r, p)) = Base(r)
        /\ p.len = 0 => Take(r, p).buffer = r.buffer
    BY <2>1, <2>3, TakeFacts
  <2>5. IsFiniteSet(r.ooo \ {p})
    BY FS_Subset
  <2>6. /\ TakeKept(r) \in ReaderType /\ TakeKept(r).ooo = r.ooo \ {p}
        /\ TakeKept(r).buffer = Take(r, p).buffer /\ TakeKept(r).nextSeq = Take(r, p).nextSeq
    BY <2>2, <2>4 DEF ReaderType
  <2> QED
    BY <2>1, <2>4, <2>5, <2>6 DEF Continues, Consecutive, Base
<1>3. CASE ~r.eof /\ ~\E p \in r.ooo: IsNextKept(r, p)
  BY <1>3 DEF TakeKept, Continues
<1> QED
  BY <1>1, <1>2, <1>3

LEMMA ContinuesSelf ==
  ASSUME NEW r \in ReaderType, IsFiniteSet(r.ooo), Consecutive(r) PROVE Continues(r, r)
  BY DEF Continues

LEMMA ContinuesOn ==
  ASSUME NEW r1, NEW r2, NEW r3, Continues(r1, r2), Continues(r2, r3) PROVE Continues(r1, r3)
  BY DEF Continues

\* processOOOPacketsLocked: the rounds are a recursive function, which exists.
\* What one round keeps, all of them keep.
LEMMA ProcessOOORounds ==
  ASSUME NEW r, IsFiniteSet(r.ooo), NEW G, r \in G, \A x \in G: TakeKept(x) \in G
  PROVE  ProcessOOO(r) \in G
<1> DEFINE c == Cardinality(r.ooo)
           IsAfter(f, n) == f = [k \in 0 .. n |-> IF k = 0 THEN r ELSE TakeKept(f[k - 1])]
           Has == {n \in Nat: \E f: IsAfter(f, n)}
           after == CHOOSE f: IsAfter(f, c)
<1>1. c \in Nat
  BY FS_CardinalityType
<1>2. Has = Nat
  <2>1. 0 \in Has
    <3>1. IsAfter([k \in 0 .. 0 |-> r], 0)
      OBVIOUS
    <3> QED
      BY <3>1
  <2>2. ASSUME NEW n \in Has PROVE n + 1 \in Has
    <3>1. n \in Nat /\ \E f: IsAfter(f, n)
      OBVIOUS
    <3>2. PICK f: IsAfter(f, n)
      BY <3>1
    <3> DEFINE g == [k \in 0 .. n + 1 |-> IF k = n + 1 THEN TakeKept(f[n]) ELSE f[k]]
    <3>3. ASSUME NEW k \in 0 .. n + 1
          PROVE  g[k] = IF k = 0 THEN r ELSE TakeKept(g[k - 1])
      <4>1. CASE k = n + 1
        <5>1. k # 0 /\ k - 1 = n /\ n \in 0 .. n + 1 /\ n # n + 1
          BY <3>1, <4>1
        <5>2. g[k] = TakeKept(f[n]) /\ g[n] = f[n]
          BY <4>1, <5>1
        <5> QED
          BY <5>1, <5>2
      <4>2. CASE k \in 1 .. n
        <5>1. k # 0 /\ k # n + 1 /\ k \in 0 .. n /\ k - 1 \in 0 .. n + 1 /\ k - 1 # n + 1
          BY <3>1, <4>2
        <5>2. g[k] = f[k] /\ g[k - 1] = f[k - 1]
          BY <5>1
        <5>3. f[k] = TakeKept(f[k - 1])
          BY <3>2, <5>1
        <5> QED
          BY <5>1, <5>2, <5>3
      <4>3. CASE k = 0
        <5>1. k \in 0 .. n /\ k # n + 1
          BY <3>1, <4>3
        <5>2. g[k] = f[k] /\ f[k] = r
          BY <3>2, <4>3, <5>1
        <5> QED
          BY <4>3, <5>2
      <4> QED
        BY <3>1, <4>1, <4>2, <4>3
    <3>4. IsAfter(g, n + 1)
      <4>1. g = [k \in 0 .. n + 1 |-> g[k]]
        OBVIOUS
      <4> HIDE DEF g
      <4> QED
        BY <3>3, <4>1
    <3> HIDE DEF g, IsAfter
    <3> QED
      BY <3>1, <3>4
  <2> HIDE DEF Has
  <2>3. Has \in SUBSET Nat
    BY DEF Has
  <2> QED
    BY <2>1, <2>2, <2>3, InductionBySet
<1>3. IsAfter(after, c)
  <2>1. \E f: IsAfter(f, c)
    <3> HIDE DEF IsAfter
    <3> QED
      BY <1>1, <1>2
  <2> QED
    BY <2>1
<1>4. ProcessOOO(r) = after[c]
  BY DEF ProcessOOO
<1> DEFINE Good == {k \in Nat: k <= c => after[k] \in G}
<1>5. Good = Nat
  <2> HIDE DEF after, c
  <2>1. 0 \in Good
    <3>1. after[0] = r
      BY <1>1, <1>3
    <3> QED
      BY <3>1
  <2>2. ASSUME NEW k \in Good PROVE k + 1 \in Good
    <3> SUFFICES ASSUME k + 1 <= c PROVE after[k + 1] \in G
      OBVIOUS
    <3>1. k \in Nat /\ k + 1 \in 0 .. c /\ k + 1 # 0 /\ (k + 1) - 1 = k
      BY <1>1
    <3>2. after[k + 1] = TakeKept(after[k])
      BY <1>3, <3>1
    <3>3. after[k] \in G
      BY <1>1, <3>1
    <3> QED
      BY <3>2, <3>3
  <2> HIDE DEF Good
  <2>3. Good \in SUBSET Nat
    BY DEF Good
  <2> QED
    BY <2>1, <2>2, <2>3, InductionBySet
<1> QED
  <2> HIDE DEF after, c
  <2> QED
    BY <1>1, <1>4, <1>5

LEMMA ProcessOOOFacts ==
  ASSUME NEW r \in ReaderType, IsFiniteSet(r.ooo), Consecutive(r)
  PROVE  Continues(r, ProcessOOO(r))
<1> DEFINE G == {x \in ReaderType: Continues(r, x)}
<1>1. r \in G
  BY ContinuesSelf
<1>2. ASSUME NEW x \in G PROVE TakeKept(x) \in G
  <2>1. Continues(r, x) /\ Continues(x, TakeKept(x))
    BY <1>2, TakeKeptFacts DEF Continues
  <2>2. Continues(r, TakeKept(x))
    BY <2>1, ContinuesOn
  <2> QED
    BY <2>2 DEF Continues
<1> HIDE DEF G
<1>3. ProcessOOO(r) \in G
  BY <1>1, <1>2, ProcessOOORounds
<1> QED
  BY <1>3 DEF G

-----------------------------------------------------------------------------
(* The invariant holds initially. *)

LEMMA DsInitInv == DsInit => DsInv
<1> SUFFICES ASSUME DsInit PROVE DsInv
  OBVIOUS
<1> USE SizesAssumption, WindowAssumption, EnvironmentAssumption DEF DsInit
<1>1. 1 \in Stream
  BY DEF Stream
<1>2. ManagerType
  BY DEF ManagerType, LogType, LogOf, NewLog, ResizeLog, EffectiveWindow, Least, End, Idle, NoPacket
<1>3. LinkType
  BY DEF LinkType, NoHandler
<1>4. Numbered
  BY <1>1 DEF Numbered, Idle, NoHandler, NoRestart, NoLoop, Stream
<1>5. NoDataSent /\ NoDataRead
  BY DEF NoDataSent, NoDataRead, Unstarted, NoRestart
<1>6. \A n \in Stream: reader[n] \in ReaderType /\ reader[n].ooo = {} /\ reader[n].buffer = <<>>
  <2>1. NewReader(0) \in ReaderType /\ NewReader(0).ooo = {} /\ NewReader(0).buffer = <<>>
    BY DEF NewReader, ReaderType
  <2>2. NoReader \in ReaderType /\ NoReader.ooo = {} /\ NoReader.buffer = <<>>
    BY <2>1 DEF NoReader, ReaderType
  <2> QED
    BY <2>1, <2>2
<1>7. MainType
  <2>1. reader \in [Stream -> ReaderType] /\ \A n \in Stream: IsFiniteSet(reader[n].ooo)
    BY <1>6, FS_EmptySet
  <2>2. loop \in [Stream -> [stage: {"none", "read", "append", "done"}, got: Seq(Int)]]
    BY DEF Loop, NoLoop
  <2>3. \A n \in Stream: loop[n].stage # "append" => loop[n].got = <<>>
    BY DEF Loop, NoLoop
  <2>4. restart \in [stage: RestartStage, id: Nat, cur: Nat, gap: Nat, reply: Int]
    BY DEF NoRestart, RestartStage
  <2> QED
    BY <2>1, <2>2, <2>3, <2>4 DEF MainType
<1>8. InOrder(file, totalGap) /\ InOrder(saved.file, saved.gap)
  BY DEF InOrder
<1>9. \A n \in Stream: Consecutive(reader[n])
  BY <1>6 DEF Consecutive
<1>10. LoopsInOrder /\ RestartInOrder
  BY <1>1 DEF LoopsInOrder, RestartInOrder, Restarting, Unanswered, Loop, NoLoop, NoRestart, NewReader
<1> QED
  BY <1>2, <1>3, <1>4, <1>5, <1>7, <1>8, <1>9, <1>10 DEF DsInv, LinkInv, FileInv

-----------------------------------------------------------------------------
(* The job manager keeps it: readLoop, ... *)

\* What the manager does leaves the main server's part alone.
LEMMA MainUnchanged ==
  ASSUME FileInv, UNCHANGED mainVars PROVE FileInv'
<1> USE DEF FileInv, mainVars, readerVars, fileVars
<1>1. MainType' /\ InOrder(file, totalGap)' /\ InOrder(saved.file, saved.gap)'
  BY DEF MainType, InOrder
<1>2. (\A n \in Stream: Consecutive(reader[n]))' /\ LoopsInOrder'
  BY DEF LoopsInOrder, Consecutive
<1>3. RestartInOrder' /\ NoDataRead'
  BY DEF RestartInOrder, NoDataRead, Restarting, Unanswered, Unstarted
<1> QED
  BY <1>1, <1>2, <1>3

LEMMA ManagerReadsInv ==
  ASSUME DsInv, ManagerReads PROVE DsInv'
<1> USE SizesAssumption, EnvironmentAssumption
<1>1. FileInv'
  BY MainUnchanged DEF DsInv, ManagerReads, OtherVars
<1>2. /\ UNCHANGED <<connVars, connecting, pkt>>
      /\ senderLoop' = "send" <=> senderLoop = "send"
      /\ UNCHANGED sentNotAcked
  BY DEF ManagerReads, ReadCheckClosed, ReadPty, WriteSome, WriteBlocked, SignalWritten, WriterWoken,
         HandleEnd, Signal, sendVars, connVars, ackVars
<1>3. log' \in LogType /\ eofPos' \in Int /\ terminalEvent' \in End /\ chunk' \in Nat /\ readErr' \in End
  <2> USE DEF DsInv, LinkInv, ManagerType, LogType, LogOf, endVars
  <2>1. CASE WriteSome
    BY <2>1 DEF WriteSome, Accepts, AppendLog, Least, Greatest, Retained
  <2>2. CASE WriteBlocked
    BY <2>2 DEF WriteBlocked, BlockWriter
  <2>3. CASE \E k \in 0 .. MaxPacketSize, err \in Ends \cup {"none"}: ReadPty(k, err)
    BY <2>3 DEF ReadPty, End
  <2>4. CASE HandleEnd
    BY <2>4 DEF HandleEnd
  <2>5. CASE ReadCheckClosed \/ SignalWritten \/ WriterWoken
    BY <2>5 DEF ReadCheckClosed, SignalWritten, WriterWoken
  <2> QED
    BY <2>1, <2>2, <2>3, <2>4, <2>5 DEF ManagerReads
<1>4. UNCHANGED <<linkVars, jmVars, mainVars>>
  BY DEF ManagerReads, OtherVars
<1>5. ManagerType' /\ LinkType'
  BY <1>2, <1>3, <1>4 DEF DsInv, LinkInv, ManagerType, LinkType, connVars, linkVars, jmVars
<1>6. Numbered' /\ NoDataSent'
  BY <1>2, <1>4 DEF DsInv, LinkInv, Numbered, NoDataSent, Unstarted, connVars, linkVars, jmVars,
                    mainVars, readerVars
<1> QED
  BY <1>1, <1>5, <1>6 DEF DsInv, LinkInv

\* ... senderLoop, ...
LEMMA ManagerSendsInv ==
  ASSUME DsInv, ManagerSends PROVE DsInv'
<1> USE SizesAssumption, EnvironmentAssumption
<1>1. FileInv'
  BY MainUnchanged DEF DsInv, ManagerSends, OtherVars
<1>2. UNCHANGED <<log, endVars, connVars, connecting, readVars, linkVars, jmVars, mainVars>>
  BY DEF ManagerSends, SenderDone, SenderWait, PrepareData, PrepareTerminal, OtherVars
<1>3. LinkType'
  BY <1>2 DEF DsInv, LinkInv, LinkType, linkVars, jmVars
<1>4. CASE SenderDone \/ SenderWait
  <2>1. senderLoop' # "send" /\ UNCHANGED <<pkt, sentNotAcked>>
    BY <1>4 DEF SenderDone, SenderWait, ackVars
  <2>2. ManagerType'
    BY <1>2, <2>1 DEF DsInv, LinkInv, ManagerType, connVars, endVars, readVars
  <2>3. Numbered' /\ NoDataSent'
    BY <1>2, <2>1 DEF DsInv, LinkInv, Numbered, NoDataSent, Unstarted, connVars, linkVars, jmVars,
                      mainVars, readerVars
  <2> QED
    BY <1>1, <1>3, <2>2, <2>3 DEF DsInv, LinkInv
<1>5. CASE PrepareData
  <2> DEFINE n == Least(Least(AvailableToSend, MaxPacketSize), Retained(log) - sentNotAcked)
  <2>1. n \in Nat /\ rwndSize > 0
    BY <1>5 DEF PrepareData, MaySendData, AvailableToSend, Retained, Least, DsInv, LinkInv, ManagerType,
                LogType
  <2>2. /\ pkt' = [id |-> streamId, seq |-> log.head + sentNotAcked, len |-> n, end |-> "none"]
        /\ sentNotAcked' = sentNotAcked + n
    BY <1>5 DEF PrepareData
  <2> HIDE DEF n
  <2>3. ManagerType'
    BY SMTT(30), <1>2, <2>1, <2>2 DEF DsInv, LinkInv, ManagerType, connVars, endVars, readVars, LogType, Numbered, End
  <2>4. Numbered' /\ NoDataSent'
    BY <1>2, <2>1, <2>2 DEF DsInv, LinkInv, Numbered, NoDataSent, Unstarted, connVars, linkVars, jmVars,
                            mainVars, readerVars
  <2> QED
    BY <1>1, <1>3, <2>3, <2>4 DEF DsInv, LinkInv
<1>6. CASE PrepareTerminal
  <2>1. /\ pkt' = [id |-> streamId, seq |-> eofPos, len |-> 0, end |-> terminalEvent]
        /\ sentNotAcked' = sentNotAcked
    BY <1>6 DEF PrepareTerminal
  <2>2. ManagerType'
    BY <1>2, <2>1 DEF DsInv, LinkInv, ManagerType, connVars, endVars, readVars, Numbered
  <2>3. Numbered' /\ NoDataSent'
    BY <1>2, <2>1 DEF DsInv, LinkInv, Numbered, NoDataSent, Unstarted, connVars, linkVars, jmVars,
                      mainVars, readerVars
  <2> QED
    BY <1>1, <1>3, <2>2, <2>3 DEF DsInv, LinkInv
<1> QED
  BY <1>4, <1>5, <1>6 DEF ManagerSends

\* A packet on its way was sent by the manager; ...
LEMMA TransmitInv ==
  ASSUME DsInv, Transmit PROVE DsInv'
<1> USE SizesAssumption, EnvironmentAssumption
<1>1. FileInv'
  BY MainUnchanged DEF DsInv, Transmit
<1>2. /\ senderLoop = "send" /\ senderLoop' = "run" /\ pkt' = NoPacket
      /\ UNCHANGED <<log, endVars, connVars, ackVars, connecting, readVars, up, carries, acks, jmVars,
                     mainVars>>
      /\ data' = IF up /\ pkt.id = carries THEN Append(data, pkt) ELSE data
  BY DEF Transmit, SendData
<1>3. pkt \in Packet
  BY <1>2 DEF DsInv, LinkInv, ManagerType, Numbered, Packet, Stream
<1>4. data \in Seq(Packet)
  BY DEF DsInv, LinkInv, LinkType
<1>5. /\ data' \in Seq(Packet)
      /\ \A i \in 1 .. Len(data'): data'[i] = pkt \/ \E k \in 1 .. Len(data): data'[i] = data[k]
  <2>1. CASE data' = Append(data, pkt)
    BY <1>3, <1>4, <2>1, AppendProperties
  <2>2. CASE data' = data
    BY <1>4, <2>2
  <2> QED
    BY <1>2, <2>1, <2>2
<1>6. ManagerType' /\ LinkType'
  BY <1>2, <1>5 DEF DsInv, LinkInv, ManagerType, LinkType, connVars, endVars, readVars, ackVars, jmVars,
                    NoPacket, End
<1>7. Numbered'
  <2>1. \A i \in 1 .. Len(data'): data'[i].id <= streams
    BY <1>2, <1>5 DEF DsInv, LinkInv, Numbered
  <2> QED
    BY <1>2, <2>1 DEF DsInv, LinkInv, Numbered, connVars, jmVars, mainVars, readerVars
<1>8. NoDataSent'
  <2>1. Unstarted => \A i \in 1 .. Len(data'): data'[i].id = restart.id => data'[i].len = 0
    BY <1>2, <1>5 DEF DsInv, LinkInv, NoDataSent
  <2> QED
    BY <1>2, <2>1 DEF DsInv, LinkInv, NoDataSent, Unstarted, connVars, jmVars, mainVars
<1> QED
  BY <1>1, <1>6, <1>7, <1>8 DEF DsInv, LinkInv

\* ... an ack that arrives is used only if it is for the writer of the stream connected; ...
LEMMA DeliverAckFacts ==
  ASSUME DsInv, DeliverAck
  PROVE  \E i \in 1 .. Len(acks):
           /\ SmUnlocked /\ acks' = RemoveAt(acks, i) /\ attached' \subseteq attached
           /\ \/ RecvFin(acks[i].id)
              \/ /\ acks[i].id \in attached /\ acks[i].id = streamId
                 /\ RecvAck(acks[i].id, acks[i].seq, acks[i].rwnd)
              \/ UNCHANGED smVars
           /\ UNCHANGED <<up, carries, data, handler, mainVars>>
<1>1. acks \in Seq(Ack)
  BY DEF DsInv, LinkInv, LinkType
<1>2. PICK i \in IF Reorder THEN 1 .. Len(acks) ELSE 1 .. Least(1, Len(acks)):
        LET a == acks[i]
            current == a.id \in attached /\ connected /\ a.id = streamId
        IN  /\ SmUnlocked
            /\ acks' = RemoveAt(acks, i)
            /\ attached' = IF a.fin \/ a.cancel THEN attached \ {a.id} ELSE attached
            /\ CASE current /\ a.fin -> RecvFin(a.id)
                 [] current /\ ~a.fin /\ ~StaleAck(a.seq, a.rwnd) -> RecvAck(a.id, a.seq, a.rwnd)
                 [] OTHER -> UNCHANGED smVars
            /\ UNCHANGED <<up, carries, data, handler, mainVars>>
  BY DEF DeliverAck
<1>3. i \in 1 .. Len(acks)
  BY <1>1 DEF Least
<1> QED
  BY <1>2, <1>3

\* ... it opens no window before StartStream, since no writer is attached.
LEMMA DeliverAckInv ==
  ASSUME DsInv, DeliverAck PROVE DsInv'
<1> USE SizesAssumption, EnvironmentAssumption
<1>1. FileInv'
  BY MainUnchanged DEF DsInv, DeliverAck
<1>2. PICK i \in 1 .. Len(acks):
           /\ SmUnlocked /\ acks' = RemoveAt(acks, i) /\ attached' \subseteq attached
           /\ \/ RecvFin(acks[i].id)
              \/ /\ acks[i].id \in attached /\ acks[i].id = streamId
                 /\ RecvAck(acks[i].id, acks[i].seq, acks[i].rwnd)
              \/ UNCHANGED smVars
           /\ UNCHANGED <<up, carries, data, handler, mainVars>>
  BY DeliverAckFacts
<1> DEFINE a == acks[i]
<1>3. a \in Ack /\ acks' \in Seq(Ack)
  BY <1>2, RemoveAtFacts DEF DsInv, LinkInv, LinkType
<1>4. \/ RecvFin(a.id)
      \/ a.id \in attached /\ a.id = streamId /\ RecvAck(a.id, a.seq, a.rwnd)
      \/ UNCHANGED smVars
  BY <1>2
<1>5. attached' \subseteq attached /\ UNCHANGED <<up, carries, data, handler, mainVars>>
  BY <1>2
<1> HIDE DEF a
<1>6. LinkType'
  BY <1>3, <1>5 DEF DsInv, LinkInv, LinkType
<1>7. /\ UNCHANGED <<endVars, streamId, connecting, readVars, pkt>>
      /\ senderLoop' = "send" => senderLoop = "send"
  BY <1>4 DEF RecvFin, RecvAck, Signal, smVars, connVars, sendVars
<1>8. /\ log' \in LogType /\ sentNotAcked' \in Nat /\ rwndSize' \in Nat
      /\ rwndSize' = rwndSize \/ streamId \in attached
  <2> USE DEF DsInv, LinkInv, ManagerType
  <2>1. CASE RecvFin(a.id) \/ UNCHANGED smVars
    BY <2>1 DEF RecvFin, smVars, connVars, ackVars
  <2>2. CASE a.id \in attached /\ a.id = streamId /\ RecvAck(a.id, a.seq, a.rwnd)
    <3> DEFINE acked == a.seq - log.head
    <3>0. a.seq \in Int /\ a.rwnd \in Nat /\ acked \in Int
      BY SMTT(30), <1>3 DEF Ack, LogType
    <3>1. CASE acked < 0 \/ acked > sentNotAcked
      BY <2>2, <3>1 DEF RecvAck
    <3>2. CASE ~(acked < 0 \/ acked > sentNotAcked)
      <4> DEFINE consumed == IF acked > 0 THEN ConsumeLog(log, acked) ELSE log
      <4>1. /\ log' = ResizeLog(consumed, CirBufSize, TRUE, EffectiveWindow(a.rwnd))
            /\ sentNotAcked' = sentNotAcked - acked /\ rwndSize' = a.rwnd
        BY <2>2, <3>2 DEF RecvAck
      <4>2. consumed \in LogType
        <5>1. CASE ~(acked > 0)
          BY <5>1
        <5>2. CASE acked > 0
          <6>1. acked \in Nat /\ log \in LogType /\ consumed = ConsumeLog(log, acked)
            BY <3>0, <5>2
          <6> HIDE DEF acked, consumed
          <6>2. consumed \in LogType
            BY <6>1 DEF ConsumeLog, LogType, LogOf
          <6> QED
            BY <6>2
        <5> QED
          BY <5>1, <5>2
      <4> HIDE DEF consumed, acked
      <4>3. log' \in LogType
        BY <3>0, <4>1, <4>2 DEF LogType, ResizeLog, LogOf, Least, EffectiveWindow
      <4>4. sentNotAcked' \in Nat
        BY <3>0, <3>2, <4>1
      <4> QED
        BY <2>2, <3>0, <4>1, <4>3, <4>4
    <3> QED
      BY <3>1, <3>2
  <2> QED
    BY <1>4, <2>1, <2>2
<1>9. ManagerType'
  BY <1>7, <1>8 DEF DsInv, LinkInv, ManagerType, endVars, readVars
<1>10. Numbered' /\ NoDataSent'
  BY <1>5, <1>7, <1>8 DEF DsInv, LinkInv, Numbered, NoDataSent, Unstarted, mainVars, readerVars
<1> QED
  BY <1>1, <1>6, <1>9, <1>10 DEF DsInv, LinkInv

\* A restart that goes on, or ends, leaves the files and readers as they are.
GoesOn ==
  /\ restart' \in [stage: RestartStage, id: Nat, cur: Nat, gap: Nat, reply: Int]
  /\ Restarting' => Restarting /\ restart'.id = restart.id
  /\ Unanswered' => Unanswered /\ UNCHANGED <<restart.cur, restart.gap>>
  /\ Unstarted' => Unstarted

LEMMA RestartGoesOn ==
  ASSUME FileInv, GoesOn, UNCHANGED <<readerVars, fileVars>> PROVE FileInv'
<1> USE DEF FileInv, GoesOn, readerVars, fileVars
<1>1. MainType' /\ InOrder(file, totalGap)' /\ InOrder(saved.file, saved.gap)'
  BY DEF MainType, InOrder
<1>2. (\A n \in Stream: Consecutive(reader[n]))' /\ LoopsInOrder'
  BY DEF LoopsInOrder, Consecutive
<1>3. RestartInOrder'
  BY DEF RestartInOrder, Restarting, Unanswered
<1>4. NoDataRead'
  BY DEF NoDataRead, Restarting, Unstarted
<1> QED
  BY <1>1, <1>2, <1>3, <1>4

\* PrepareConnect and StartStream, which restartStreaming calls ...
LEMMA PrepareConnectInv ==
  ASSUME DsInv, PrepareConnect PROVE DsInv'
<1>1. UNCHANGED <<smVars, linkVars, attached, readerVars, fileVars>>
  BY DEF PrepareConnect
<1>2. restart \in [stage: RestartStage, id: Nat, cur: Nat, gap: Nat, reply: Int]
  BY DEF DsInv, FileInv, MainType
<1>3. restart.stage = "prepare"
  BY DEF PrepareConnect
<1>4. \/ restart' = [restart EXCEPT !.stage = "already"] /\ handler' = handler
      \/ /\ restart' = [restart EXCEPT !.stage = "wait"]
         /\ handler' = [stage |-> "disconnect", id |-> restart.id, seq |-> restart.cur]
  BY DEF PrepareConnect
<1>5. GoesOn
  BY <1>2, <1>3, <1>4 DEF GoesOn, RestartStage, Restarting, Unanswered, Unstarted
<1>6. FileInv'
  BY <1>1, <1>5, RestartGoesOn DEF DsInv
<1>7. restart.id \in 1 .. streams
  BY <1>2, <1>3 DEF DsInv, LinkInv, FileInv, RestartInOrder, Restarting, Numbered, Stream
<1>8. ManagerType' /\ LinkType'
  <2>1. ManagerType'
    BY <1>1 DEF DsInv, LinkInv, ManagerType, smVars, endVars, connVars, ackVars, readVars, sendVars
  <2>2. handler' \in [stage: {"none", "disconnect", "connect", "connecting"}, id: Nat, seq: Nat]
    BY <1>2, <1>4 DEF DsInv, LinkInv, LinkType
  <2> QED
    BY <1>1, <2>1, <2>2 DEF DsInv, LinkInv, LinkType, linkVars
<1>9. Numbered'
  BY <1>1, <1>2, <1>4, <1>7 DEF DsInv, LinkInv, Numbered, smVars, connVars, sendVars, linkVars, readerVars
<1>10. NoDataSent'
  <2>1. Unstarted' => Unstarted /\ restart'.id = restart.id
    BY <1>5 DEF GoesOn, Unstarted, Restarting
  <2> QED
    BY <1>1, <2>1 DEF DsInv, LinkInv, NoDataSent, smVars, connVars, sendVars, linkVars
<1> QED
  BY <1>6, <1>8, <1>9, <1>10 DEF DsInv, LinkInv

LEMMA StartStreamInv ==
  ASSUME DsInv, StartStream PROVE DsInv'
<1> USE SizesAssumption, WindowAssumption
<1>1. UNCHANGED <<linkVars, handler, readerVars, fileVars>>
  BY DEF StartStream
<1>2. restart \in [stage: RestartStage, id: Nat, cur: Nat, gap: Nat, reply: Int]
  BY DEF DsInv, FileInv, MainType
<1>3. restart.stage = "start" /\ restart' = [restart EXCEPT !.stage = "run"]
  BY DEF StartStream
<1>4. GoesOn /\ ~Unstarted'
  BY <1>2, <1>3 DEF GoesOn, RestartStage, Restarting, Unanswered, Unstarted
<1>5. FileInv'
  BY <1>1, <1>4, RestartGoesOn DEF DsInv
<1>6. restart.id \in 1 .. streams
  BY <1>2, <1>3 DEF DsInv, LinkInv, FileInv, RestartInOrder, Restarting, Numbered, Stream
<1>7. /\ rwndSize' = ReadWindow /\ log' = ResizeLog(log, CirBufSize, TRUE, EffectiveWindow(ReadWindow))
      /\ UNCHANGED <<endVars, streamId, ackVars, connecting, readVars, pkt>>
      /\ senderLoop' = "send" => senderLoop = "send"
      /\ attached' = attached \cup {restart.id}
  BY DEF StartStream, SetRwndSize, Signal
<1>8. log' \in LogType
  BY <1>7 DEF DsInv, LinkInv, ManagerType, LogType, ResizeLog, LogOf, Least, EffectiveWindow
<1>9. ManagerType' /\ LinkType'
  BY <1>1, <1>7, <1>8 DEF DsInv, LinkInv, ManagerType, LinkType, endVars, ackVars, readVars, linkVars
<1>10. Numbered'
  BY <1>1, <1>2, <1>3, <1>6, <1>7 DEF DsInv, LinkInv, Numbered, linkVars, readerVars
<1>11. NoDataSent'
  BY <1>4 DEF NoDataSent
<1> QED
  BY <1>5, <1>9, <1>10, <1>11 DEF DsInv, LinkInv

\* ... and the calls that PrepareConnect makes in the job manager.
LEMMA HandlerDisconnectInv ==
  ASSUME DsInv, HandlerDisconnect PROVE DsInv'
<1> USE SizesAssumption
<1>1. FileInv'
  BY MainUnchanged DEF DsInv, HandlerDisconnect
<1>2. /\ UNCHANGED <<linkVars, attached, mainVars>>
      /\ handler.stage = "disconnect" /\ handler' = [handler EXCEPT !.stage = "connect"]
  BY DEF HandlerDisconnect
<1>3. /\ UNCHANGED <<endVars, streamId, rwndSize, connecting, readVars, pkt>>
      /\ senderLoop' = "send" => senderLoop = "send"
  BY DEF HandlerDisconnect, ClientDisconnected, Signal, smVars, connVars, sendVars
<1>4. log' \in LogType /\ sentNotAcked' \in Nat
  <2>1. CASE ClientDisconnected
    <3>1. log' = ResizeLog(log, CirBufSize, FALSE, CirBufSize) /\ sentNotAcked' = 0
      BY <2>1 DEF ClientDisconnected
    <3>2. log' \in LogType
      BY <3>1 DEF DsInv, LinkInv, ManagerType, LogType, ResizeLog, LogOf, Least, Greatest
    <3> QED
      BY <3>1, <3>2
  <2>2. CASE UNCHANGED smVars
    BY <2>2 DEF smVars, ackVars, DsInv, LinkInv, ManagerType
  <2> QED
    BY <2>1, <2>2 DEF HandlerDisconnect
<1>5. ManagerType' /\ LinkType'
  BY <1>2, <1>3, <1>4 DEF DsInv, LinkInv, ManagerType, LinkType, endVars, readVars, linkVars
<1>6. Numbered' /\ NoDataSent'
  BY <1>2, <1>3 DEF DsInv, LinkInv, LinkType, Numbered, NoDataSent, Unstarted, linkVars, mainVars, readerVars
<1> QED
  BY <1>1, <1>5, <1>6 DEF DsInv, LinkInv

LEMMA AnswerGoesOn ==
  ASSUME DsInv, NEW stage \in {"refused", "beyond", "reply"}, NEW reply \in Int, Answer(stage, reply)
  PROVE  GoesOn
<1>1. restart \in [stage: RestartStage, id: Nat, cur: Nat, gap: Nat, reply: Int]
  BY DEF DsInv, FileInv, MainType
<1>2. CASE restart' = restart
  BY <1>1, <1>2 DEF GoesOn, Restarting, Unanswered, Unstarted
<1>3. CASE restart.stage = "wait" /\ restart' = [restart EXCEPT !.stage = stage, !.reply = reply]
  <2>1. /\ restart' \in [stage: RestartStage, id: Nat, cur: Nat, gap: Nat, reply: Int]
        /\ restart'.id = restart.id /\ restart'.cur = restart.cur /\ restart'.gap = restart.gap
    BY <1>1, <1>3 DEF RestartStage
  <2>2. Restarting /\ Unanswered /\ Unstarted
    BY <1>3 DEF Restarting, Unanswered, Unstarted
  <2> QED
    BY <2>1, <2>2 DEF GoesOn
<1> QED
  BY <1>2, <1>3 DEF Answer

LEMMA HandlerConnectInv ==
  ASSUME DsInv, HandlerConnect PROVE DsInv'
<1> USE SizesAssumption
<1>1. UNCHANGED <<linkVars, attached, readerVars, fileVars>> /\ handler.stage = "connect"
  BY DEF HandlerConnect
<1>2. GoesOn
  <2>1. CASE Answer("refused", 0)
    BY <2>1, AnswerGoesOn
  <2>2. CASE restart' = restart
    BY <2>2 DEF GoesOn, Restarting, Unanswered, Unstarted, DsInv, FileInv, MainType
  <2> QED
    BY <2>1, <2>2 DEF HandlerConnect
<1>3. FileInv'
  BY <1>1, <1>2, RestartGoesOn DEF DsInv
<1>4. /\ UNCHANGED <<log, endVars, connVars, ackVars, readVars, sendVars>>
      /\ \/ connecting' = connecting
         \/ connecting' = [stage |-> "consume", id |-> handler.id, rwnd |-> 0, seq |-> handler.seq,
                           head |-> log.head]
  BY DEF HandlerConnect, ConnectStart, smVars
<1>5. /\ handler' \in [stage: {"none", "disconnect", "connect", "connecting"}, id: Nat, seq: Nat]
      /\ handler'.stage = "none" \/ handler'.id = handler.id
  BY DEF HandlerConnect, NoHandler, DsInv, LinkInv, LinkType
<1>6. ManagerType' /\ LinkType'
  BY SMTT(30), <1>1, <1>4, <1>5 DEF DsInv, LinkInv, LinkType, ManagerType, LogType, endVars, connVars, ackVars, readVars,
                          sendVars, linkVars
<1>7. restart'.stage = "create" => restart.stage = "create"
  BY DEF HandlerConnect, Answer, DsInv, FileInv, MainType
<1>8. Numbered'
  BY <1>1, <1>4, <1>5, <1>7 DEF DsInv, LinkInv, Numbered, connVars, sendVars, linkVars, readerVars
<1>9. NoDataSent'
  <2>1. Unstarted' => Unstarted /\ restart'.id = restart.id
    BY <1>2 DEF GoesOn, Unstarted, Restarting
  <2> QED
    BY <1>1, <1>4, <2>1 DEF DsInv, LinkInv, NoDataSent, connVars, sendVars, linkVars
<1> QED
  BY <1>3, <1>6, <1>8, <1>9 DEF DsInv, LinkInv

LEMMA HandlerConnectingInv ==
  ASSUME DsInv, HandlerConnecting PROVE DsInv'
<1> USE SizesAssumption
<1>1. UNCHANGED <<linkVars, attached, readerVars, fileVars>>
  BY DEF HandlerConnecting
<1>2. ConnectSeq \in Int
  BY DEF ConnectSeq, Greatest, DsInv, LinkInv, ManagerType
<1>3. GoesOn
  <2>1. CASE Answer("beyond", 0) \/ Answer("reply", ConnectSeq)
    BY <1>2, <2>1, AnswerGoesOn
  <2>2. CASE restart' = restart
    BY <2>2 DEF GoesOn, Restarting, Unanswered, Unstarted, DsInv, FileInv, MainType
  <2> QED
    BY <2>1, <2>2 DEF HandlerConnecting
<1>4. FileInv'
  BY <1>1, <1>3, RestartGoesOn DEF DsInv
<1>5. /\ handler' \in [stage: {"none", "disconnect", "connect", "connecting"}, id: Nat, seq: Nat]
      /\ handler'.stage = "none" \/ handler' = handler
  BY DEF HandlerConnecting, NoHandler, DsInv, LinkInv, LinkType
<1>6. LinkType'
  BY <1>1, <1>5 DEF DsInv, LinkInv, LinkType, linkVars
<1>7. restart'.stage = "create" => restart.stage = "create"
  BY DEF HandlerConnecting, Answer, DsInv, FileInv, MainType
<1>8. Unstarted' => Unstarted /\ restart'.id = restart.id
  BY <1>3 DEF GoesOn, Unstarted, Restarting
<1>9. CASE ConnectBeyondEnd
  <2>1. connecting' = Idle /\ UNCHANGED <<log, endVars, connVars, ackVars, readVars, sendVars>>
    BY <1>9 DEF ConnectBeyondEnd
  <2>2. ManagerType'
    BY <2>1 DEF DsInv, LinkInv, ManagerType, Idle, endVars, connVars, ackVars, readVars, sendVars
  <2>3. Numbered' /\ NoDataSent'
    BY <1>1, <1>5, <1>7, <1>8, <2>1 DEF DsInv, LinkInv, Numbered, NoDataSent, Idle, connVars, sendVars, linkVars,
                                        readerVars
  <2> QED
    BY <1>4, <1>6, <2>2, <2>3 DEF DsInv, LinkInv
<1>10. CASE ConnectConsume
  <2> DEFINE have == connecting.seq - connecting.head
  <2>1. /\ UNCHANGED <<endVars, connVars, ackVars, readVars, sendVars>>
        /\ log' = IF have > 0 THEN ConsumeLog(log, have) ELSE log
        /\ connecting' = [connecting EXCEPT !.stage = "install",
                                            !.head = IF have > 0 THEN log'.head ELSE connecting.head]
        /\ connecting.stage = "consume"
    BY <1>10 DEF ConnectConsume
  <2>2. have \in Int /\ log' \in LogType
    BY <2>1 DEF DsInv, LinkInv, ManagerType, ConsumeLog, LogType, LogOf
  <2>3. /\ connecting' \in [stage: {"idle", "consume", "install"}, id: Nat, rwnd: Nat, seq: Int, head: Nat]
        /\ connecting'.id = connecting.id /\ connecting'.rwnd = connecting.rwnd
    <3>1. log'.head \in Nat
      BY <2>2 DEF LogType
    <3> QED
      BY <2>1, <3>1 DEF DsInv, LinkInv, ManagerType
  <2> HIDE DEF have
  <2>4. ManagerType'
    BY <2>1, <2>2, <2>3 DEF DsInv, LinkInv, ManagerType, endVars, connVars, ackVars, readVars, sendVars
  <2>5. Numbered' /\ NoDataSent'
    BY <1>1, <1>5, <1>7, <1>8, <2>1, <2>3 DEF DsInv, LinkInv, Numbered, NoDataSent, connVars, sendVars, linkVars,
                                              readerVars
  <2> QED
    BY <1>4, <1>6, <2>4, <2>5 DEF DsInv, LinkInv
<1>11. CASE ConnectInstall
  <2>1. /\ UNCHANGED <<endVars, readVars, pkt>>
        /\ connecting.stage = "install" /\ connecting' = Idle
        /\ streamId' = connecting.id /\ rwndSize' = connecting.rwnd /\ sentNotAcked' = 0
        /\ log' = ResizeLog(log, CirBufSize, TRUE, EffectiveWindow(connecting.rwnd))
        /\ senderLoop' = "send" => senderLoop = "send"
    BY <1>11 DEF ConnectInstall, Signal
  <2>2. log' \in LogType
    BY <2>1 DEF DsInv, LinkInv, ManagerType, LogType, ResizeLog, LogOf, Least, EffectiveWindow
  <2>3. ManagerType'
    <3>1. /\ Idle \in [stage: {"idle", "consume", "install"}, id: Nat, rwnd: Nat, seq: Int, head: Nat]
          /\ connecting.rwnd \in Nat
      BY DEF Idle, DsInv, LinkInv, ManagerType
    <3> QED
      BY <2>1, <2>2, <3>1 DEF DsInv, LinkInv, ManagerType, endVars, readVars
  <2>4. Numbered' /\ NoDataSent'
    BY <1>1, <1>5, <1>7, <1>8, <2>1 DEF DsInv, LinkInv, Numbered, NoDataSent, Idle, linkVars, readerVars
  <2> QED
    BY <1>4, <1>6, <2>3, <2>4 DEF DsInv, LinkInv
<1> QED
  BY <1>9, <1>10, <1>11 DEF HandlerConnecting

-----------------------------------------------------------------------------
(* The main server keeps it. *)

\* What it does to the link: packets and acks may be lost or taken out, and acks added.
LEMMA LinkGoesOn ==
  ASSUME LinkInv, UNCHANGED <<smVars, jmVars, streams>>,
         jobStream' \in 0 .. streams, carries' \in 0 .. streams,
         data' \in Seq(Packet), acks' \in Seq(Ack),
         \A i \in 1 .. Len(data'): \E k \in 1 .. Len(data): data'[i] = data[k],
         restart'.stage = "create" => streams < MaxConn,
         Unstarted' => Unstarted /\ restart'.id = restart.id,
         \A n \in Stream: n > streams => loop'[n].stage = "none"
  PROVE  LinkInv'
<1>1. ManagerType' /\ LinkType'
  BY DEF LinkInv, ManagerType, LinkType, smVars, endVars, connVars, ackVars, readVars, sendVars, jmVars
<1>2. Numbered'
  <2>1. \A i \in 1 .. Len(data'): data'[i].id <= streams
    BY DEF LinkInv, Numbered
  <2> QED
    BY <2>1 DEF LinkInv, Numbered, smVars, connVars, sendVars, jmVars
<1>3. NoDataSent'
  <2>1. Unstarted' => \A i \in 1 .. Len(data'): data'[i].id = restart'.id => data'[i].len = 0
    BY DEF LinkInv, NoDataSent
  <2> QED
    BY <2>1 DEF LinkInv, NoDataSent, smVars, connVars, sendVars, jmVars
<1> QED
  BY <1>1, <1>2, <1>3 DEF LinkInv

\* What it does to one reader: it takes what follows, or drops what it awaited, and the loop may
\* end.
LEMMA ReaderGoesOn ==
  ASSUME FileInv, NEW n \in Stream, NEW r2 \in ReaderType, IsFiniteSet(r2.ooo),
         Consecutive(r2), Base(r2) = Base(reader[n]),
         Unstarted' /\ restart'.id = n => r2.buffer = <<>> /\ \A p \in r2.ooo: p.len = 0,
         reader' = [reader EXCEPT ![n] = r2],
         \/ loop' = loop
         \/ loop[n].stage # "none" /\ loop' = [loop EXCEPT ![n] = Loop("done", <<>>)],
         GoesOn, UNCHANGED <<jobStream, file, totalGap, saved>>
  PROVE  FileInv'
<1> USE DEF FileInv
<1>0. /\ \A m \in Stream: reader'[m] = IF m = n THEN r2 ELSE reader[m]
      /\ \A m \in Stream: loop'[m] = loop[m] \/ (loop[m].stage # "none" /\ loop'[m] = Loop("done", <<>>))
      /\ \A m \in Stream: Base(reader'[m]) = Base(reader[m])
  BY DEF MainType
<1>1. MainType'
  <2>1. reader' \in [Stream -> ReaderType] /\ \A m \in Stream: IsFiniteSet(reader'[m].ooo)
    BY <1>0 DEF MainType
  <2>2. /\ loop' \in [Stream -> [stage: {"none", "read", "append", "done"}, got: Seq(Int)]]
        /\ \A m \in Stream: loop'[m].stage # "append" => loop'[m].got = <<>>
    <3>1. /\ Loop("done", <<>>) \in [stage: {"none", "read", "append", "done"}, got: Seq(Int)]
          /\ Loop("done", <<>>).got = <<>>
      BY DEF Loop
    <3>2. loop' \in [Stream -> [stage: {"none", "read", "append", "done"}, got: Seq(Int)]]
      BY <3>1 DEF MainType
    <3>3. \A m \in Stream: loop'[m].stage # "append" => loop'[m].got = <<>>
      BY <1>0, <3>1 DEF MainType
    <3> QED
      BY <3>2, <3>3
  <2> QED
    BY <2>1, <2>2 DEF MainType, GoesOn
<1>2. InOrder(file, totalGap)' /\ InOrder(saved.file, saved.gap)'
  BY DEF InOrder
<1>3. (\A m \in Stream: Consecutive(reader[m]))'
  BY <1>0 DEF Consecutive
<1>4. \A m \in Stream: /\ Len(reader[m].buffer) \in Nat /\ Len(reader'[m].buffer) \in Nat
                       /\ reader[m].nextSeq \in Nat /\ reader'[m].nextSeq \in Nat
                       /\ Len(loop[m].got) \in Nat /\ Len(file) \in Nat /\ totalGap \in Nat
  <2>1. ASSUME NEW m \in Stream
        PROVE  /\ reader[m] \in ReaderType /\ reader'[m] \in ReaderType
               /\ loop[m].got \in Seq(Int)
    BY <1>1 DEF MainType
  <2>2. file \in Seq(Int) /\ totalGap \in Nat
    BY DEF MainType
  <2> QED
    BY SMTT(30), <2>1, <2>2 DEF ReaderType
<1>5. LoopsInOrder'
  <2> SUFFICES ASSUME NEW m \in Stream
               PROVE  /\ loop'[m].stage = "append" =>
                           /\ m = jobStream
                           /\ \A i \in 1 .. Len(loop'[m].got):
                                loop'[m].got[i] = Len(file) + totalGap + i - 1
                      /\ loop'[m].stage \in {"read", "append"} /\ m = jobStream =>
                           Len(file) + totalGap + Len(loop'[m].got) + Len(reader'[m].buffer)
                             = reader'[m].nextSeq
    BY DEF LoopsInOrder
  <2>1. CASE loop'[m] = Loop("done", <<>>)
    BY <2>1 DEF Loop
  <2>2. CASE loop'[m] = loop[m]
    <3>1. loop[m].stage = "append" =>
            /\ m = jobStream
            /\ \A i \in 1 .. Len(loop[m].got): loop[m].got[i] = Len(file) + totalGap + i - 1
      BY DEF LoopsInOrder
    <3>2. loop[m].stage \in {"read", "append"} /\ m = jobStream =>
            Len(file) + totalGap + Len(loop[m].got) = Base(reader[m])
      <4> SUFFICES ASSUME loop[m].stage \in {"read", "append"}, m = jobStream
                   PROVE  Len(file) + totalGap + Len(loop[m].got) = reader[m].nextSeq - Len(reader[m].buffer)
        BY DEF Base
      <4>1. Len(file) + totalGap + Len(loop[m].got) + Len(reader[m].buffer) = reader[m].nextSeq
        BY DEF LoopsInOrder
      <4> QED
        BY SMTT(30), <1>4, <4>1
    <3>3. loop[m].stage \in {"read", "append"} /\ m = jobStream =>
            Len(file) + totalGap + Len(loop[m].got) + Len(reader'[m].buffer) = reader'[m].nextSeq
      BY SMTT(30), <1>0, <1>4, <3>2 DEF Base
    <3> QED
      BY <2>2, <3>1, <3>3
  <2> QED
    BY <1>0, <2>1, <2>2
<1>6. RestartInOrder'
  <2>1. ASSUME Restarting'
        PROVE  /\ restart'.id = jobStream /\ restart'.id \in Stream /\ loop'[restart'.id].stage = "none"
               /\ Len(file) + totalGap + Len(reader'[restart'.id].buffer) = reader'[restart'.id].nextSeq
    <3>1. Restarting /\ restart'.id = restart.id
      BY <2>1 DEF GoesOn
    <3>2. /\ restart.id = jobStream /\ restart.id \in Stream /\ loop[restart.id].stage = "none"
          /\ Len(file) + totalGap + Len(reader[restart.id].buffer) = reader[restart.id].nextSeq
      BY <3>1 DEF RestartInOrder
    <3>3. Len(file) + totalGap = Base(reader[restart.id])
      BY <1>4, <3>2 DEF Base
    <3>4. Len(file) + totalGap + Len(reader'[restart.id].buffer) = reader'[restart.id].nextSeq
      BY <1>0, <1>4, <3>2, <3>3 DEF Base
    <3> QED
      BY <1>0, <3>1, <3>2, <3>4
  <2>2. Unanswered' => restart'.cur = Len(file) + totalGap /\ restart'.gap = totalGap
    BY DEF GoesOn, RestartInOrder
  <2> QED
    BY <2>1, <2>2 DEF RestartInOrder
<1>7. NoDataRead'
  <2> SUFFICES ASSUME Unstarted'
               PROVE  /\ reader'[restart'.id].buffer = <<>>
                      /\ \A p \in reader'[restart'.id].ooo: p.len = 0
    BY DEF NoDataRead
  <2>1. Unstarted /\ Restarting' /\ restart'.id = restart.id
    BY DEF GoesOn, Unstarted, Restarting
  <2>2. restart.id \in Stream
    BY <2>1 DEF Unstarted, Restarting, RestartInOrder
  <2> QED
    BY <1>0, <2>1, <2>2 DEF NoDataRead
<1> QED
  BY <1>1, <1>2, <1>3, <1>5, <1>6, <1>7

\* The acks a reader sends are well formed.
LEMMA AckedFacts ==
  ASSUME NEW r \in ReaderType
  PROVE  /\ Acked(r) \in ReaderType
         /\ Acked(r).buffer = r.buffer /\ Acked(r).nextSeq = r.nextSeq /\ Acked(r).ooo = r.ooo
<1>1. Rwnd(r) \in Int
  BY WindowAssumption DEF Rwnd, Greatest, ReaderType
<1> QED
  BY <1>1 DEF Acked, ReaderType

LEMMA AckFromFacts ==
  ASSUME NEW n \in Stream, NEW r \in ReaderType, NEW fin \in BOOLEAN, NEW cancel \in BOOLEAN
  PROVE  AckFrom(n, r, fin, cancel) \in Ack
<1>1. Rwnd(r) \in Nat
  BY WindowAssumption DEF Rwnd, Greatest, ReaderType
<1> QED
  BY <1>1 DEF AckFrom, Ack, ReaderType

LEMMA SendAckFacts ==
  ASSUME acks \in Seq(Ack), NEW ack \in Ack, SendAck(ack) PROVE acks' \in Seq(Ack)
  BY AppendProperties DEF SendAck

LEMMA CloseReaderFacts ==
  ASSUME DsInv, NEW n \in Stream, CloseReader(n)
  PROVE  /\ acks' \in Seq(Ack)
         /\ \E r2 \in ReaderType:
              /\ reader' = [reader EXCEPT ![n] = r2]
              /\ r2.buffer = reader[n].buffer /\ r2.nextSeq = reader[n].nextSeq
              /\ r2.ooo = reader[n].ooo
<1>1. reader \in [Stream -> ReaderType] /\ acks \in Seq(Ack)
  BY DEF DsInv, FileInv, MainType, LinkInv, LinkType
<1>2. CASE reader[n].open
  <2> DEFINE r == [reader[n] EXCEPT !.open = FALSE]
  <2>1. /\ r \in ReaderType
        /\ r.buffer = reader[n].buffer /\ r.nextSeq = reader[n].nextSeq /\ r.ooo = reader[n].ooo
    BY <1>1 DEF ReaderType
  <2>2. reader' = [reader EXCEPT ![n] = Acked(r)] /\ SendAck(AckFrom(n, reader[n], FALSE, TRUE))
    BY <1>2 DEF CloseReader
  <2> HIDE DEF r
  <2>3. /\ Acked(r) \in ReaderType
        /\ Acked(r).buffer = r.buffer /\ Acked(r).nextSeq = r.nextSeq /\ Acked(r).ooo = r.ooo
    BY <2>1, AckedFacts
  <2>4. AckFrom(n, reader[n], FALSE, TRUE) \in Ack
    BY <1>1, AckFromFacts
  <2>5. acks' \in Seq(Ack)
    BY <1>1, <2>2, <2>4, SendAckFacts
  <2> QED
    BY <2>1, <2>2, <2>3, <2>5
<1>3. CASE ~reader[n].open
  <2>1. reader' = reader /\ acks' = acks
    BY <1>3 DEF CloseReader
  <2>2. reader' = [reader EXCEPT ![n] = reader[n]]
    BY <1>1, <2>1
  <2> QED
    BY <1>1, <2>1, <2>2
<1> QED
  BY <1>2, <1>3

LEMMA StaysGoesOn == ASSUME DsInv, restart' = restart PROVE GoesOn
  BY DEF GoesOn, DsInv, FileInv, MainType, Restarting, Unanswered, Unstarted

\* A packet that arrives is ignored, ends the reader, is kept, or is taken with those that follow.
LEMMA ReceiveFacts ==
  ASSUME DsInv, NEW p \in Packet,
         Unstarted /\ restart.id = p.id => p.len = 0,
         RecvUnwanted(p) \/ RecvError(p) \/ RecvOutOfOrder(p) \/ RecvInOrder(p)
  PROVE  /\ acks' \in Seq(Ack)
         /\ \E r2 \in ReaderType:
              /\ reader' = [reader EXCEPT ![p.id] = r2]
              /\ IsFiniteSet(r2.ooo) /\ Consecutive(r2) /\ Base(r2) = Base(reader[p.id])
              /\ Unstarted /\ restart.id = p.id => r2.buffer = <<>> /\ \A q \in r2.ooo: q.len = 0
<1> DEFINE r == reader[p.id]
<1>1. p.id \in Stream /\ p.seq \in Int /\ p.len \in Nat
  BY DEF Packet
<1>2. /\ reader \in [Stream -> ReaderType] /\ acks \in Seq(Ack)
      /\ r \in ReaderType /\ IsFiniteSet(r.ooo) /\ Consecutive(r)
  BY <1>1 DEF DsInv, FileInv, MainType, LinkInv, LinkType
<1>3. Unstarted /\ restart.id = p.id => r.buffer = <<>> /\ \A q \in r.ooo: q.len = 0
  BY DEF DsInv, FileInv, NoDataRead
<1>4. reader' = reader => reader' = [reader EXCEPT ![p.id] = r]
  BY <1>2
<1>5. CASE RecvUnwanted(p)
  <2>1. [id |-> p.id, seq |-> p.seq, rwnd |-> 0, fin |-> FALSE, cancel |-> TRUE] \in Ack
    BY <1>1 DEF Ack
  <2>2. acks' \in Seq(Ack) /\ reader' = reader
    BY <1>2, <1>5, <2>1, SendAckFacts DEF RecvUnwanted
  <2> QED
    BY <1>2, <1>3, <1>4, <2>2
<1>6. CASE RecvError(p)
  <2> DEFINE r1 == [r EXCEPT !.err = TRUE]
  <2>1. reader' = [reader EXCEPT ![p.id] = Acked(r1)] /\ SendAck(AckFrom(p.id, r, TRUE, FALSE))
    BY <1>6 DEF RecvError
  <2>2. /\ r1 \in ReaderType
        /\ r1.buffer = r.buffer /\ r1.nextSeq = r.nextSeq /\ r1.ooo = r.ooo
    BY <1>2 DEF ReaderType
  <2> HIDE DEF r1
  <2>3. /\ Acked(r1) \in ReaderType
        /\ Acked(r1).buffer = r.buffer /\ Acked(r1).nextSeq = r.nextSeq /\ Acked(r1).ooo = r.ooo
    BY <2>2, AckedFacts
  <2>4. acks' \in Seq(Ack)
    BY <1>1, <1>2, <2>1, AckFromFacts, SendAckFacts
  <2>5. Consecutive(Acked(r1)) /\ Base(Acked(r1)) = Base(r)
    BY <1>2, <2>3 DEF Consecutive, Base
  <2> QED
    BY <1>2, <1>3, <2>1, <2>3, <2>4, <2>5
<1>7. CASE RecvOutOfOrder(p)
  <2> DEFINE k == Keep(r, p)
  <2>1. acks' = acks /\ reader' = [reader EXCEPT ![p.id] = IF p.seq > r.nextSeq THEN k ELSE r]
    BY <1>7 DEF RecvOutOfOrder
  <2>2. k = r \/ k = [r EXCEPT !.ooo = r.ooo \cup {p}]
    BY DEF Keep
  <2>3. IsFiniteSet(r.ooo \cup {p})
    BY <1>2, FS_AddElement
  <2>4. /\ k \in ReaderType /\ IsFiniteSet(k.ooo)
        /\ k.buffer = r.buffer /\ k.nextSeq = r.nextSeq /\ k.ooo \subseteq r.ooo \cup {p}
    <3>1. CASE k = r
      BY <1>2, <3>1
    <3>2. CASE k = [r EXCEPT !.ooo = r.ooo \cup {p}]
      <4>1. r.ooo \cup {p} \in SUBSET Packet
        BY <1>2 DEF ReaderType
      <4> QED
        BY <1>2, <2>3, <3>2, <4>1 DEF ReaderType
    <3> QED
      BY <2>2, <3>1, <3>2
  <2> HIDE DEF k
  <2>5. Consecutive(k) /\ Base(k) = Base(r)
    BY <1>2, <2>4 DEF Consecutive, Base
  <2>6. Unstarted /\ restart.id = p.id => k.buffer = <<>> /\ \A q \in k.ooo: q.len = 0
    BY <1>3, <2>4
  <2>7. CASE p.seq > r.nextSeq
    BY <1>2, <2>1, <2>4, <2>5, <2>6, <2>7
  <2>8. CASE ~(p.seq > r.nextSeq)
    BY <1>2, <1>3, <2>1, <2>8
  <2> QED
    BY <2>7, <2>8
<1>8. CASE RecvInOrder(p)
  <2> DEFINE t == Take(r, p)
             s == ProcessOOO(t)
  <2>1. /\ p.seq = r.nextSeq
        /\ reader' = [reader EXCEPT ![p.id] = Acked(s)] /\ SendAck(AckFrom(p.id, s, s.eof, FALSE))
    BY <1>8 DEF RecvInOrder
  <2>2. /\ t \in ReaderType /\ t.ooo = r.ooo /\ Consecutive(t) /\ Base(t) = Base(r)
        /\ p.len = 0 => t.buffer = r.buffer
    BY <1>2, <2>1, TakeFacts
  <2> HIDE DEF t
  <2>3. Continues(t, s)
    BY <1>2, <2>2, ProcessOOOFacts
  <2> HIDE DEF s
  <2>4. /\ s \in ReaderType /\ IsFiniteSet(s.ooo) /\ Consecutive(s) /\ Base(s) = Base(r)
        /\ Unstarted /\ restart.id = p.id => s.buffer = <<>> /\ \A q \in s.ooo: q.len = 0
    BY <1>3, <2>2, <2>3 DEF Continues
  <2>5. /\ Acked(s) \in ReaderType
        /\ Acked(s).buffer = s.buffer /\ Acked(s).nextSeq = s.nextSeq /\ Acked(s).ooo = s.ooo
    BY <2>4, AckedFacts
  <2>6. s.eof \in BOOLEAN
    BY <2>4 DEF ReaderType
  <2>7. acks' \in Seq(Ack)
    BY <1>1, <1>2, <2>1, <2>4, <2>6, AckFromFacts, SendAckFacts
  <2>8. Consecutive(Acked(s)) /\ Base(Acked(s)) = Base(r)
    BY <2>4, <2>5 DEF Consecutive, Base
  <2> QED
    BY <2>1, <2>4, <2>5, <2>7, <2>8
<1> QED
  BY <1>5, <1>6, <1>7, <1>8

LEMMA DeliverDataInv ==
  ASSUME DsInv, DeliverData PROVE DsInv'
<1>1. data \in Seq(Packet)
  BY DEF DsInv, LinkInv, LinkType
<1>2. PICK i \in 1 .. Len(data):
        /\ data' = RemoveAt(data, i)
        /\ \/ RecvUnwanted(data[i]) \/ RecvError(data[i]) \/ RecvOutOfOrder(data[i])
           \/ RecvInOrder(data[i])
  BY <1>1 DEF DeliverData, Least
<1>3. UNCHANGED <<smVars, up, carries, jmVars, streams, jobStream, loop, fileVars, restart>>
  BY DEF DeliverData
<1> DEFINE p == data[i]
<1>4. p \in Packet /\ p.id \in Stream
  <2>1. p \in Packet
    BY <1>1, ElementOfSeq
  <2> QED
    BY <2>1 DEF Packet
<1>5. Unstarted /\ restart.id = p.id => p.len = 0
  BY DEF DsInv, LinkInv, NoDataSent
<1> HIDE DEF p
<1>6. RecvUnwanted(p) \/ RecvError(p) \/ RecvOutOfOrder(p) \/ RecvInOrder(p)
  BY <1>2 DEF p
<1>7. acks' \in Seq(Ack)
  BY <1>4, <1>5, <1>6, ReceiveFacts
<1>8. PICK r2 \in ReaderType:
        /\ reader' = [reader EXCEPT ![p.id] = r2]
        /\ IsFiniteSet(r2.ooo) /\ Consecutive(r2) /\ Base(r2) = Base(reader[p.id])
        /\ Unstarted /\ restart.id = p.id => r2.buffer = <<>> /\ \A q \in r2.ooo: q.len = 0
  BY <1>4, <1>5, <1>6, ReceiveFacts
<1>9. Unstarted' = Unstarted /\ GoesOn
  BY <1>3, StaysGoesOn DEF Unstarted
<1>10. FileInv'
  BY <1>3, <1>4, <1>8, <1>9, ReaderGoesOn DEF DsInv, fileVars
<1>11. /\ data' \in Seq(Packet)
       /\ \A j \in 1 .. Len(data'): \E k \in 1 .. Len(data): data'[j] = data[k]
  BY <1>1, <1>2, RemoveAtFacts
<1>12. LinkInv'
  BY <1>3, <1>7, <1>9, <1>11, LinkGoesOn DEF DsInv, LinkInv, Numbered
<1> QED
  BY <1>10, <1>12 DEF DsInv

-----------------------------------------------------------------------------
(* ... The output loops, ... *)

\* What a loop's step leaves of the link.
LEMMA LoopLink ==
  ASSUME DsInv, NEW n \in Stream, loop[n].stage # "none",
         UNCHANGED <<smVars, up, carries, data, jmVars, streams, jobStream, restart>>,
         acks' \in Seq(Ack), \E l: loop' = [loop EXCEPT ![n] = l]
  PROVE  LinkInv'
<1>1. PICK l: loop' = [loop EXCEPT ![n] = l]
  OBVIOUS
<1>2. \A m \in Stream: m > streams => loop'[m].stage = "none"
  <2> SUFFICES ASSUME NEW m \in Stream, m > streams PROVE loop'[m].stage = "none"
    OBVIOUS
  <2>1. loop[m].stage = "none" /\ m # n
    BY DEF DsInv, LinkInv, Numbered
  <2>2. loop'[m] = loop[m]
    BY <1>1, <2>1 DEF DsInv, FileInv, MainType
  <2> QED
    BY <2>1, <2>2
<1>3. Unstarted' = Unstarted
  BY DEF Unstarted
<1>4. data \in Seq(Packet)
  BY DEF DsInv, LinkInv, LinkType
<1> QED
  BY <1>2, <1>3, <1>4, LinkGoesOn DEF DsInv, LinkInv, Numbered

\* Read takes what fits from the front of the buffer and leaves the rest.
TakenPart(s) == SubSeq(s, 1, Least(ReadSize, Len(s)))
LeftPart(s)  == SubSeq(s, ReadSize + 1, Len(s))

LEMMA ReadFacts ==
  ASSUME NEW s \in Seq(Int)
  PROVE  /\ Len(s) \in Nat /\ Least(ReadSize, Len(s)) \in 0 .. Len(s)
         /\ TakenPart(s) \in Seq(Int) /\ Len(TakenPart(s)) = Least(ReadSize, Len(s))
         /\ \A i \in 1 .. Least(ReadSize, Len(s)): TakenPart(s)[i] = s[i]
         /\ LeftPart(s) \in Seq(Int) /\ Len(LeftPart(s)) = Len(s) - Least(ReadSize, Len(s))
         /\ \A i \in 1 .. Len(LeftPart(s)): LeftPart(s)[i] = s[Least(ReadSize, Len(s)) + i]
<1> DEFINE k == Least(ReadSize, Len(s))
           got == SubSeq(s, 1, k)
           b == SubSeq(s, ReadSize + 1, Len(s))
<1> USE WindowAssumption
<1>1. k \in 0 .. Len(s) /\ Len(s) \in Nat
  BY DEF Least
<1>2. got \in Seq(Int) /\ Len(got) = k /\ \A i \in 1 .. k: got[i] = s[i]
  BY <1>1, PrefixFacts
<1>3. b \in Seq(Int) /\ Len(b) = Len(s) - k /\ \A i \in 1 .. Len(b): b[i] = s[k + i]
  <2>1. CASE ReadSize <= Len(s)
    <3>1. k = ReadSize
      BY <1>1, <2>1 DEF Least
    <3>2. \A i \in ReadSize + 1 .. Len(s): s[i] \in Int
      BY <1>1
    <3>3. /\ b \in Seq(Int)
          /\ Len(b) = IF ReadSize + 1 <= Len(s) THEN Len(s) - (ReadSize + 1) + 1 ELSE 0
          /\ \A i \in 1 .. Len(s) - (ReadSize + 1) + 1: b[i] = s[ReadSize + 1 + i - 1]
      BY <1>1, <3>2, SubSeqProperties
    <3>4. Len(b) = Len(s) - ReadSize
      BY <1>1, <2>1, <3>3
    <3> HIDE DEF b, k
    <3>5. ASSUME NEW i \in 1 .. Len(b) PROVE b[i] = s[ReadSize + i]
      <4>1. i \in 1 .. Len(s) - (ReadSize + 1) + 1 /\ ReadSize + 1 + i - 1 = ReadSize + i
        BY <1>1, <3>4
      <4> QED
        BY <3>3, <4>1
    <3> QED
      BY <3>1, <3>3, <3>4, <3>5
  <2>2. CASE ReadSize > Len(s)
    <3>1. k = Len(s)
      BY <1>1, <2>2 DEF Least
    <3>2. b = <<>>
      BY <1>1, <2>2, SubSeqEmpty
    <3> HIDE DEF b, k
    <3>3. b \in Seq(Int) /\ Len(b) = 0
      BY <3>2
    <3>4. Len(b) = Len(s) - k
      BY <1>1, <3>1, <3>3
    <3>5. \A i \in 1 .. Len(b): b[i] = s[k + i]
      BY <3>3
    <3> QED
      BY <3>3, <3>4, <3>5
  <2> QED
    BY <1>1, <2>1, <2>2
<1> QED
  BY <1>1, <1>2, <1>3 DEF TakenPart, LeftPart

LEMMA LoopReadInv ==
  ASSUME DsInv, NEW n \in Stream, LoopRead(n) PROVE DsInv'
<1> USE WindowAssumption
<1> DEFINE r == reader[n]
           k == Least(ReadSize, Len(r.buffer))
           got == SubSeq(r.buffer, 1, k)
           rest == Rest(r)
<1>1. /\ loop[n].stage = "read" /\ r.buffer # <<>> /\ jobStream = n
      /\ loop' = [loop EXCEPT ![n] = Loop("append", got)]
      /\ \/ reader' = [reader EXCEPT ![n] = Acked(rest)] /\ SendAck(AckFrom(n, rest, FALSE, FALSE))
         \/ reader' = [reader EXCEPT ![n] = rest] /\ acks' = acks
      /\ UNCHANGED <<smVars, up, carries, data, jmVars, streams, jobStream, fileVars, restart>>
  BY DEF LoopRead
<1>2. /\ r \in ReaderType /\ r.buffer \in Seq(Int) /\ IsFiniteSet(r.ooo) /\ Consecutive(r)
      /\ r.nextSeq \in Nat /\ acks \in Seq(Ack)
  BY DEF DsInv, FileInv, MainType, LinkInv, LinkType, ReaderType
<1> DEFINE b == SubSeq(r.buffer, ReadSize + 1, Len(r.buffer))
<1>3. k \in 0 .. Len(r.buffer) /\ Len(r.buffer) \in Nat
  BY <1>2, ReadFacts
<1>4. got \in Seq(Int) /\ Len(got) = k /\ \A i \in 1 .. k: got[i] = r.buffer[i]
  BY <1>2, ReadFacts DEF TakenPart
<1>5. b \in Seq(Int) /\ Len(b) = Len(r.buffer) - k /\ \A i \in 1 .. Len(b): b[i] = r.buffer[k + i]
  BY <1>2, ReadFacts DEF LeftPart
<1>6. rest = [r EXCEPT !.buffer = b]
  BY DEF Rest
<1> HIDE DEF got, b, rest, k, r
<1>7. /\ rest \in ReaderType
      /\ rest.buffer = b /\ rest.nextSeq = r.nextSeq /\ rest.ooo = r.ooo
  BY <1>2, <1>5, <1>6 DEF ReaderType
<1>8. /\ Acked(rest) \in ReaderType /\ Acked(rest).buffer = b /\ Acked(rest).nextSeq = r.nextSeq
      /\ Acked(rest).ooo = r.ooo
  BY <1>7, AckedFacts
<1>9. AckFrom(n, rest, FALSE, FALSE) \in Ack
  BY <1>7, AckFromFacts
<1>10. acks' \in Seq(Ack)
  BY <1>1, <1>2, <1>9, SendAckFacts
<1>11. PICK r2 \in ReaderType: /\ reader' = [reader EXCEPT ![n] = r2]
                              /\ r2.buffer = b /\ r2.nextSeq = r.nextSeq /\ r2.ooo = r.ooo
  BY <1>1, <1>7, <1>8
<1>12. LinkInv'
  BY <1>1, <1>10, LoopLink
<1>13. ~Restarting
  BY <1>1 DEF DsInv, FileInv, RestartInOrder
<1>14. /\ \A m \in Stream: reader'[m] = IF m = n THEN r2 ELSE reader[m]
       /\ \A m \in Stream: loop'[m] = IF m = n THEN Loop("append", got) ELSE loop[m]
  BY <1>1, <1>11 DEF DsInv, FileInv, MainType
<1>15. MainType'
  <2>1. reader' \in [Stream -> ReaderType] /\ \A m \in Stream: IsFiniteSet(reader'[m].ooo)
    BY <1>2, <1>11, <1>14 DEF DsInv, FileInv, MainType
  <2>2. Loop("append", got) \in [stage: {"none", "read", "append", "done"}, got: Seq(Int)]
    BY <1>4 DEF Loop
  <2>3. loop' \in [Stream -> [stage: {"none", "read", "append", "done"}, got: Seq(Int)]]
    BY <1>1, <2>2 DEF DsInv, FileInv, MainType
  <2>4. \A m \in Stream: loop'[m].stage # "append" => loop'[m].got = <<>>
    <3>1. Loop("append", got).stage = "append"
      BY DEF Loop
    <3> QED
      BY <1>14, <3>1 DEF DsInv, FileInv, MainType
  <2> QED
    BY <1>1, <2>1, <2>3, <2>4 DEF DsInv, FileInv, MainType, fileVars
<1>16. InOrder(file, totalGap)' /\ InOrder(saved.file, saved.gap)'
  BY <1>1 DEF DsInv, FileInv, InOrder, fileVars
<1>17. \A m \in Stream: Consecutive(reader'[m])
  <2>1. Consecutive(r2)
    <3> SUFFICES ASSUME NEW i \in 1 .. Len(b) PROVE b[i] = r.nextSeq - Len(b) + i - 1
      BY <1>11 DEF Consecutive
    <3>1. k + i \in 1 .. Len(r.buffer) /\ b[i] = r.buffer[k + i]
      BY SMTT(30), <1>3, <1>5
    <3>2. b[i] = r.nextSeq - Len(r.buffer) + (k + i) - 1
      BY <1>2, <3>1 DEF Consecutive
    <3> QED
      BY SMTT(30), <1>2, <1>3, <1>5, <3>2
  <2> QED
    BY <1>14, <2>1 DEF DsInv, FileInv
<1>18. LoopsInOrder'
  <2>1. Len(file) + totalGap + Len(r.buffer) = r.nextSeq /\ Len(file) + totalGap \in Nat
    <3>1. Len(file) + totalGap + Len(loop[n].got) + Len(r.buffer) = r.nextSeq
      BY <1>1 DEF DsInv, FileInv, LoopsInOrder, r
    <3>2. Len(loop[n].got) = 0
      BY <1>1 DEF DsInv, FileInv, MainType
    <3>3. Len(file) \in Nat /\ totalGap \in Nat
      BY DEF DsInv, FileInv, MainType
    <3>4. Len(r.buffer) \in Nat /\ r.nextSeq \in Nat
      BY <1>2, <1>3
    <3> DEFINE s == r.nextSeq
               l == Len(r.buffer)
    <3>5. Len(file) + totalGap + Len(loop[n].got) + l = s /\ l \in Nat /\ s \in Nat
      BY <3>1, <3>4
    <3> HIDE DEF s, l
    <3>6. Len(file) + totalGap + l = s /\ Len(file) + totalGap \in Nat
      BY <3>2, <3>3, <3>5
    <3> QED
      BY <3>6 DEF s, l
  <2>2. \A i \in 1 .. Len(got): got[i] = Len(file) + totalGap + i - 1
    <3> SUFFICES ASSUME NEW i \in 1 .. Len(got) PROVE got[i] = Len(file) + totalGap + i - 1
      OBVIOUS
    <3>1. i \in 1 .. Len(r.buffer) /\ got[i] = r.buffer[i]
      BY <1>3, <1>4
    <3>2. got[i] = r.nextSeq - Len(r.buffer) + i - 1
      BY <1>2, <3>1 DEF Consecutive
    <3> QED
      BY <1>2, <1>3, <2>1, <3>2
  <2>3. Len(file) + totalGap + Len(got) + Len(b) = r.nextSeq
    BY <1>2, <1>3, <1>4, <1>5, <2>1
  <2>4. UNCHANGED <<file, totalGap, jobStream>>
    BY <1>1 DEF fileVars
  <2> SUFFICES ASSUME NEW m \in Stream
               PROVE  /\ loop'[m].stage = "append" =>
                           /\ m = jobStream
                           /\ \A i \in 1 .. Len(loop'[m].got):
                                loop'[m].got[i] = Len(file) + totalGap + i - 1
                      /\ loop'[m].stage \in {"read", "append"} /\ m = jobStream =>
                           Len(file) + totalGap + Len(loop'[m].got) + Len(reader'[m].buffer)
                             = reader'[m].nextSeq
    BY <2>4 DEF LoopsInOrder
  <2>5. CASE m = n
    <3>1. loop'[m] = [stage |-> "append", got |-> got] /\ reader'[m] = r2
      BY <1>14, <2>5 DEF Loop
    <3> QED
      BY <1>1, <1>11, <2>2, <2>3, <2>5, <3>1
  <2>6. CASE m # n
    <3>1. loop'[m] = loop[m] /\ reader'[m] = reader[m]
      BY <1>14, <2>6
    <3> QED
      BY <3>1 DEF DsInv, FileInv, LoopsInOrder
  <2> QED
    BY <2>5, <2>6
<1>19. RestartInOrder' /\ NoDataRead'
  BY <1>1, <1>13 DEF RestartInOrder, NoDataRead, Restarting, Unanswered, Unstarted
<1> QED
  BY <1>12, <1>15, <1>16, <1>17, <1>18, <1>19 DEF DsInv, FileInv

\* A loop that ends closes its reader.
LEMMA LoopEndsInv ==
  ASSUME DsInv, NEW n \in Stream, loop[n].stage = "read",
         loop' = [loop EXCEPT ![n] = Loop("done", <<>>)], CloseReader(n),
         UNCHANGED <<smVars, up, carries, data, jmVars, streams, jobStream, file, totalGap, saved, restart>>
  PROVE  DsInv'
<1>1. PICK r2 \in ReaderType:
        /\ reader' = [reader EXCEPT ![n] = r2]
        /\ r2.buffer = reader[n].buffer /\ r2.nextSeq = reader[n].nextSeq /\ r2.ooo = reader[n].ooo
  BY CloseReaderFacts
<1>2. IsFiniteSet(r2.ooo) /\ Consecutive(r2) /\ Base(r2) = Base(reader[n])
  BY <1>1 DEF DsInv, FileInv, MainType, Consecutive, Base
<1>3. Unstarted' /\ restart'.id = n => r2.buffer = <<>> /\ \A p \in r2.ooo: p.len = 0
  BY <1>1 DEF DsInv, FileInv, NoDataRead, Unstarted
<1>4. FileInv'
  BY <1>1, <1>2, <1>3, StaysGoesOn, ReaderGoesOn DEF DsInv
<1>5. acks' \in Seq(Ack)
  BY CloseReaderFacts
<1>6. LinkInv'
  BY <1>5, LoopLink
<1> QED
  BY <1>4, <1>6 DEF DsInv

LEMMA LoopSupersededInv ==
  ASSUME DsInv, NEW n \in Stream, LoopSuperseded(n) PROVE DsInv'
  BY LoopEndsInv DEF LoopSuperseded, fileVars

LEMMA LoopEndInv ==
  ASSUME DsInv, NEW n \in Stream, LoopEnd(n) PROVE DsInv'
  BY LoopEndsInv DEF LoopEnd

LEMMA LoopAppendInv ==
  ASSUME DsInv, NEW n \in Stream, LoopAppend(n) PROVE DsInv'
<1> DEFINE got == loop[n].got
           f == file \o got
<1>1. /\ loop[n].stage = "append" /\ file' = f
      /\ loop' = [loop EXCEPT ![n] = Loop("read", <<>>)]
      /\ UNCHANGED <<smVars, linkVars, jmVars, streams, jobStream, reader, totalGap, saved, streamDone,
                     restart>>
  BY DEF LoopAppend
<1>2. file \in Seq(Int) /\ got \in Seq(Int) /\ totalGap \in Nat
  BY DEF DsInv, FileInv, MainType
<1>3. n = jobStream /\ \A i \in 1 .. Len(got): got[i] = Len(file) + totalGap + i - 1
  BY <1>1 DEF DsInv, FileInv, LoopsInOrder
<1>4. ~Restarting
  BY <1>1, <1>3 DEF DsInv, FileInv, RestartInOrder
<1>5. Len(file) + totalGap + Len(got) + Len(reader[n].buffer) = reader[n].nextSeq
  BY <1>1, <1>3 DEF DsInv, FileInv, LoopsInOrder
<1>6. /\ f \in Seq(Int) /\ Len(f) = Len(file) + Len(got)
      /\ \A i \in 1 .. Len(file) + Len(got): f[i] = IF i <= Len(file) THEN file[i] ELSE got[i - Len(file)]
  BY <1>2, ConcatProperties
<1>7. Len(file) \in Nat /\ Len(got) \in Nat
  BY <1>2
<1> HIDE DEF got, f
<1>8. InOrder(f, totalGap)
  <2>0. InOrder(file, totalGap)
    BY DEF DsInv, FileInv
  <2>1. \A i \in 1 .. Len(file): f[i] = file[i]
    BY <1>6, <1>7
  <2>2. \A i \in 1 .. Len(got): f[Len(file) + i] = Len(file) + totalGap + i - 1
    <3> SUFFICES ASSUME NEW i \in 1 .. Len(got) PROVE f[Len(file) + i] = Len(file) + totalGap + i - 1
      OBVIOUS
    <3> DEFINE j == Len(file) + i
    <3>1. j \in 1 .. Len(file) + Len(got) /\ ~(j <= Len(file)) /\ j - Len(file) = i
      BY <1>7
    <3> HIDE DEF j
    <3>2. f[j] = got[i]
      BY <1>6, <3>1
    <3>3. f[Len(file) + i] = got[i]
      BY <3>2 DEF j
    <3> QED
      BY <1>3, <3>3
  <2>3. \A i \in 1 .. Len(file): f[i] \in Int
    BY <1>2, <2>1
  <2>4. ASSUME NEW i \in 1 .. Len(f) - 1 PROVE f[i] < f[i + 1]
    <3>1. CASE i + 1 <= Len(file)
      <4>1. i \in 1 .. Len(file) - 1 /\ i \in 1 .. Len(file) /\ i + 1 \in 1 .. Len(file)
        BY <1>6, <1>7, <3>1
      <4> QED
        BY <2>0, <2>1, <4>1 DEF InOrder
    <3>2. CASE i = Len(file)
      <4>1. Len(file) \in 1 .. Len(file) /\ file # <<>> /\ 1 \in 1 .. Len(got)
        BY <1>2, <1>6, <1>7, <3>2
      <4>2. f[Len(file)] < Len(file) + totalGap
        BY <2>0, <2>1, <4>1 DEF InOrder
      <4>3. f[Len(file) + 1] = Len(file) + totalGap + 1 - 1
        BY <2>2, <4>1
      <4> QED
        BY <1>2, <1>7, <3>2, <4>2, <4>3
    <3>3. CASE i > Len(file)
      <4>1. i - Len(file) \in 1 .. Len(got) /\ i + 1 - Len(file) \in 1 .. Len(got)
        BY <1>6, <1>7, <3>3
      <4>2. f[Len(file) + (i - Len(file))] = Len(file) + totalGap + (i - Len(file)) - 1
        BY <2>2, <4>1
      <4>3. f[Len(file) + (i + 1 - Len(file))] = Len(file) + totalGap + (i + 1 - Len(file)) - 1
        BY <2>2, <4>1
      <4>4. Len(file) + (i - Len(file)) = i /\ Len(file) + (i + 1 - Len(file)) = i + 1
        BY <1>7
      <4> QED
        BY <1>2, <1>7, <4>2, <4>3, <4>4
    <3> QED
      BY <1>6, <1>7, <3>1, <3>2, <3>3
  <2>5. ASSUME f # <<>> PROVE f[Len(f)] < Len(f) + totalGap
    <3>1. CASE Len(got) = 0
      <4>1. Len(f) = Len(file) /\ file # <<>> /\ Len(file) \in 1 .. Len(file)
        BY <1>2, <1>6, <1>7, <2>5, <3>1
      <4> QED
        BY <2>0, <2>1, <4>1 DEF InOrder
    <3>2. CASE Len(got) > 0
      <4>1. Len(got) \in 1 .. Len(got)
        BY <1>7, <3>2
      <4>2. f[Len(file) + Len(got)] = Len(file) + totalGap + Len(got) - 1
        BY <2>2, <4>1
      <4> QED
        BY <1>2, <1>6, <1>7, <4>2
    <3> QED
      BY <1>7, <3>1, <3>2
  <2> QED
    BY <2>4, <2>5 DEF InOrder
<1>9. \A m \in Stream: loop'[m] = IF m = n THEN [stage |-> "read", got |-> <<>>] ELSE loop[m]
  BY <1>1 DEF DsInv, FileInv, MainType, Loop
<1>10. MainType'
  <2>1. loop' \in [Stream -> [stage: {"none", "read", "append", "done"}, got: Seq(Int)]]
    BY <1>1 DEF DsInv, FileInv, MainType, Loop
  <2>2. ASSUME NEW m \in Stream, loop'[m].stage # "append" PROVE loop'[m].got = <<>>
    <3>1. CASE m = n
      <4>1. loop'[m] = [stage |-> "read", got |-> <<>>]
        BY <1>9, <3>1
      <4> QED
        BY <4>1
    <3>2. CASE m # n
      <4>1. loop'[m] = loop[m]
        BY <1>9, <3>2
      <4> QED
        BY <2>2, <4>1 DEF DsInv, FileInv, MainType
    <3> QED
      BY <3>1, <3>2
  <2> QED
    BY <1>1, <1>6, <2>1, <2>2 DEF DsInv, FileInv, MainType
<1>11. LoopsInOrder'
  <2>1. \A m \in Stream: m # n => loop[m].stage # "append"
    BY <1>3 DEF DsInv, FileInv, LoopsInOrder
  <2>2. Len(f) + totalGap + 0 + Len(reader[n].buffer) = reader[n].nextSeq
    <3> DEFINE s == reader[n].nextSeq
               l == Len(reader[n].buffer)
    <3>1. reader[n] \in ReaderType
      BY DEF DsInv, FileInv, MainType
    <3>2. s \in Nat /\ l \in Nat /\ Len(file) + totalGap + Len(got) + l = s
      BY <1>5, <3>1 DEF ReaderType
    <3> HIDE DEF s, l
    <3>3. Len(f) + totalGap + 0 + l = s
      BY <1>2, <1>6, <1>7, <3>2
    <3> QED
      BY <3>3 DEF s, l
  <2> SUFFICES ASSUME NEW m \in Stream
               PROVE  /\ loop'[m].stage # "append"
                      /\ loop'[m].stage \in {"read", "append"} /\ m = jobStream =>
                           Len(f) + totalGap + Len(loop'[m].got) + Len(reader[m].buffer) = reader[m].nextSeq
    BY <1>1 DEF LoopsInOrder
  <2>3. CASE m = n
    <3>1. loop'[m].stage = "read" /\ Len(loop'[m].got) = 0
      BY <1>9, <2>3
    <3> QED
      BY <2>2, <2>3, <3>1
  <2>4. CASE m # n
    BY <1>3, <1>9, <2>1, <2>4
  <2> QED
    BY <2>3, <2>4
<1>12. /\ InOrder(saved.file, saved.gap)' /\ (\A m \in Stream: Consecutive(reader[m]))'
       /\ InOrder(file, totalGap)'
  BY <1>1, <1>8 DEF DsInv, FileInv
<1>13. RestartInOrder' /\ NoDataRead'
  BY <1>1, <1>4 DEF RestartInOrder, NoDataRead, Restarting, Unanswered, Unstarted
<1>14. LinkInv'
  BY <1>1, LoopLink DEF linkVars, DsInv, LinkInv, LinkType
<1> QED
  BY <1>10, <1>11, <1>12, <1>13, <1>14 DEF DsInv, FileInv
LEMMA LoopStepInv ==
  ASSUME DsInv, LoopStep PROVE DsInv'
<1>1. PICK n \in Stream: LoopRead(n) \/ LoopSuperseded(n) \/ LoopAppend(n) \/ LoopEnd(n)
  BY DEF LoopStep
<1> QED
  BY <1>1, LoopReadInv, LoopSupersededInv, LoopAppendInv, LoopEndInv

-----------------------------------------------------------------------------
(* Lost links and crashes keep it. *)

LEMMA FlushInv ==
  ASSUME DsInv, Flush PROVE DsInv'
<1>1. /\ saved' = [file |-> file, gap |-> totalGap]
      /\ UNCHANGED <<smVars, linkVars, jmVars, readerVars, file, totalGap, restart>>
  BY DEF Flush
<1>2. MainType' /\ InOrder(file, totalGap)' /\ InOrder(saved.file, saved.gap)'
  BY <1>1 DEF DsInv, FileInv, MainType, InOrder, readerVars
<1>3. /\ (\A n \in Stream: Consecutive(reader[n]))' /\ LoopsInOrder' /\ RestartInOrder' /\ NoDataRead'
  BY <1>1 DEF DsInv, FileInv, Consecutive, LoopsInOrder, RestartInOrder, NoDataRead, Restarting,
              Unanswered, Unstarted, readerVars
<1>4. Unstarted' = Unstarted
  BY <1>1 DEF Unstarted
<1>5. LinkInv'
  BY <1>1, <1>4, LinkGoesOn DEF DsInv, LinkInv, LinkType, Numbered, linkVars, readerVars
<1> QED
  BY <1>2, <1>3, <1>5 DEF DsInv, FileInv

LEMMA DropInv ==
  ASSUME DsInv, Drop PROVE DsInv'
<1>1. /\ carries' = 0 /\ restart.stage # "create"
      /\ restart' = IF restart.stage = "run" THEN restart ELSE NoRestart
      /\ reader' = IF restart.stage \in {"off", "run"} THEN reader
                   ELSE [reader EXCEPT ![restart.id].open = FALSE]
      /\ UNCHANGED <<smVars, jmVars, streams, jobStream, loop, fileVars>>
  BY DEF Drop
<1>2. /\ restart \in [stage: RestartStage, id: Nat, cur: Nat, gap: Nat, reply: Int]
      /\ data \in Seq(Packet) /\ acks \in Seq(Ack)
      /\ reader \in [Stream -> ReaderType] /\ \A n \in Stream: IsFiniteSet(reader[n].ooo)
      /\ streams \in Nat /\ jobStream \in 0 .. streams
  <2>1. /\ restart \in [stage: RestartStage, id: Nat, cur: Nat, gap: Nat, reply: Int]
        /\ reader \in [Stream -> ReaderType] /\ \A n \in Stream: IsFiniteSet(reader[n].ooo)
    BY DEF DsInv, FileInv, MainType
  <2>2. data \in Seq(Packet) /\ acks \in Seq(Ack)
    BY DEF DsInv, LinkInv, LinkType
  <2>3. streams \in Nat /\ jobStream \in 0 .. streams
    BY EnvironmentAssumption DEF DsInv, LinkInv, Numbered, Stream
  <2> QED
    BY <2>1, <2>2, <2>3
<1>3. NoRestart \in [stage: RestartStage, id: Nat, cur: Nat, gap: Nat, reply: Int]
  BY DEF NoRestart, RestartStage
<1>4. /\ ~Unstarted' /\ ~Unanswered' /\ restart'.stage # "create"
      /\ Restarting' => Restarting /\ restart' = restart
  BY <1>1 DEF Unstarted, Unanswered, Restarting, NoRestart
<1>5. GoesOn
  BY <1>1, <1>2, <1>3, <1>4 DEF GoesOn
<1>6. data' \in Seq(Packet) /\ \A i \in 1 .. Len(data'): \E k \in 1 .. Len(data): data'[i] = data[k]
  <2>1. PICK k \in 0 .. Len(data): data' = SubSeq(data, 1, k)
    BY DEF Drop
  <2>2. data' \in Seq(Packet) /\ Len(data') = k /\ \A j \in 1 .. k: data'[j] = data[j]
    BY <1>2, <2>1, PrefixFacts
  <2> QED
    BY <1>2, <2>2
<1>7. acks' \in Seq(Ack)
  <2>1. PICK k \in 0 .. Len(acks): acks' = SubSeq(acks, 1, k)
    BY DEF Drop
  <2> QED
    BY <1>2, <2>1, PrefixFacts
<1>8. LinkInv'
  <2>1. \A n \in Stream: n > streams => loop'[n].stage = "none"
    BY <1>1 DEF DsInv, LinkInv, Numbered
  <2> QED
    BY <1>1, <1>2, <1>4, <1>6, <1>7, <2>1, LinkGoesOn DEF DsInv
<1>9. FileInv'
  <2>1. CASE restart.stage \in {"off", "run"}
    BY <1>1, <1>5, <2>1, RestartGoesOn DEF DsInv, readerVars
  <2>2. CASE restart.stage \notin {"off", "run"}
    <3> DEFINE n == restart.id
               r == reader[n]
               r2 == [r EXCEPT !.open = FALSE]
    <3>1. n \in Stream
      BY <1>1, <2>2 DEF DsInv, FileInv, RestartInOrder, Restarting
    <3>2. r \in ReaderType /\ IsFiniteSet(r.ooo) /\ Consecutive(r)
      BY <1>2, <3>1 DEF DsInv, FileInv
    <3>3. /\ r2 \in ReaderType
          /\ r2.buffer = r.buffer /\ r2.nextSeq = r.nextSeq /\ r2.ooo = r.ooo
      BY <3>2 DEF ReaderType
    <3>4. reader' = [reader EXCEPT ![n] = r2]
      BY <1>1, <2>2
    <3> HIDE DEF n, r2
    <3>5. IsFiniteSet(r2.ooo) /\ Consecutive(r2) /\ Base(r2) = Base(r)
      BY <3>2, <3>3 DEF Consecutive, Base
    <3> QED
      BY <1>1, <1>4, <1>5, <3>1, <3>3, <3>4, <3>5, ReaderGoesOn DEF DsInv, fileVars
  <2> QED
    BY <2>1, <2>2
<1> QED
  BY <1>8, <1>9 DEF DsInv

LEMMA CrashInv ==
  ASSUME DsInv, Crash PROVE DsInv'
<1>1. /\ carries' = 0 /\ data' = <<>> /\ jobStream' = 0
      /\ reader' = [n \in Stream |-> NoReader] /\ loop' = [n \in Stream |-> NoLoop]
      /\ file' = saved.file /\ totalGap' = saved.gap /\ restart' = NoRestart
      /\ UNCHANGED <<smVars, jmVars, streams, saved>>
  BY DEF Crash
<1>2. ~Unstarted' /\ ~Unanswered' /\ ~Restarting' /\ restart'.stage # "create"
  BY <1>1 DEF Unstarted, Unanswered, Restarting, NoRestart
<1>3. /\ data' \in Seq(Packet) /\ Len(data') = 0
      /\ acks' \in Seq(Ack)
  <2>1. PICK k \in 0 .. Len(acks): acks' = SubSeq(acks, 1, k)
    BY DEF Crash
  <2>2. acks \in Seq(Ack)
    BY DEF DsInv, LinkInv, LinkType
  <2> QED
    BY <1>1, <2>1, <2>2, PrefixFacts
<1>4. LinkInv'
  <2>1. streams \in Nat
    BY EnvironmentAssumption DEF DsInv, LinkInv, Numbered, Stream
  <2>2. \A n \in Stream: n > streams => loop'[n].stage = "none"
    BY <1>1 DEF NoLoop
  <2>3. \A i \in 1 .. Len(data'): \E k \in 1 .. Len(data): data'[i] = data[k]
    BY <1>3
  <2>4. jobStream' \in 0 .. streams /\ carries' \in 0 .. streams
    BY <1>1, <2>1
  <2>5. LinkInv /\ UNCHANGED <<smVars, jmVars, streams>>
    BY <1>1 DEF DsInv
  <2> QED
    BY <1>2, <1>3, <2>2, <2>3, <2>4, <2>5, LinkGoesOn
<1>5. /\ NoReader \in ReaderType /\ NoReader.buffer = <<>> /\ NoReader.ooo = {}
      /\ IsFiniteSet(NoReader.ooo)
  <2>1. ReadWindow \in Int
    BY WindowAssumption
  <2>2. NewReader(0) \in ReaderType /\ NewReader(0).buffer = <<>> /\ NewReader(0).ooo = {}
    BY <2>1 DEF NewReader, ReaderType
  <2>3. NoReader \in ReaderType /\ NoReader.buffer = <<>> /\ NoReader.ooo = {}
    BY <2>2 DEF NoReader, ReaderType
  <2> QED
    BY <2>3, FS_EmptySet
<1>6. MainType'
  <2>1. reader' \in [Stream -> ReaderType] /\ \A n \in Stream: IsFiniteSet(reader'[n].ooo)
    BY <1>1, <1>5
  <2>2. /\ loop' \in [Stream -> [stage: {"none", "read", "append", "done"}, got: Seq(Int)]]
        /\ \A n \in Stream: loop'[n].got = <<>>
    BY <1>1 DEF NoLoop
  <2>3. restart' \in [stage: RestartStage, id: Nat, cur: Nat, gap: Nat, reply: Int]
    BY <1>1 DEF NoRestart, RestartStage
  <2>4. file' \in Seq(Int) /\ totalGap' \in Nat /\ saved' \in [file: Seq(Int), gap: Nat]
    BY <1>1 DEF DsInv, FileInv, MainType
  <2> QED
    BY <2>1, <2>2, <2>3, <2>4 DEF MainType
<1>7. InOrder(file, totalGap)' /\ InOrder(saved.file, saved.gap)'
  BY <1>1 DEF DsInv, FileInv, InOrder
<1>8. (\A n \in Stream: Consecutive(reader[n]))'
  BY <1>1, <1>5 DEF Consecutive
<1>9. LoopsInOrder'
  BY <1>1 DEF LoopsInOrder, NoLoop
<1>10. RestartInOrder' /\ NoDataRead'
  BY <1>2 DEF RestartInOrder, NoDataRead
<1> QED
  BY <1>4, <1>6, <1>7, <1>8, <1>9, <1>10 DEF DsInv, FileInv

-----------------------------------------------------------------------------
(* The procedure that restarts streaming keeps it. *)

LEMMA ReconnectInv ==
  ASSUME DsInv, Reconnect PROVE DsInv'
<1>1. /\ streams < MaxConn /\ restart' = [NoRestart EXCEPT !.stage = "create"]
      /\ UNCHANGED <<smVars, carries, data, acks, jmVars, readerVars, fileVars>>
  BY DEF Reconnect
<1>2. restart' \in [stage: RestartStage, id: Nat, cur: Nat, gap: Nat, reply: Int]
  BY <1>1 DEF NoRestart, RestartStage
<1>3. ~Unstarted' /\ ~Unanswered' /\ ~Restarting'
  BY <1>1 DEF Unstarted, Unanswered, Restarting, NoRestart
<1>4. FileInv'
  BY <1>1, <1>2, <1>3, RestartGoesOn DEF DsInv, GoesOn
<1>5. LinkInv'
  BY <1>1, <1>3, LinkGoesOn DEF DsInv, LinkInv, LinkType, Numbered, readerVars
<1> QED
  BY <1>4, <1>5 DEF DsInv

LEMMA RestartRunInv ==
  ASSUME DsInv, RestartRun PROVE DsInv'
<1> DEFINE n == restart.id
<1>1. /\ restart.stage = "run" /\ restart' = NoRestart
      /\ loop' = [loop EXCEPT ![n] = Loop("read", <<>>)]
      /\ UNCHANGED <<smVars, linkVars, jmVars, streams, jobStream, reader, fileVars>>
  BY DEF RestartRun
<1>2. /\ n = jobStream /\ n \in Stream /\ loop[n].stage = "none"
      /\ Len(file) + totalGap + Len(reader[n].buffer) = reader[n].nextSeq
  BY <1>1 DEF DsInv, FileInv, RestartInOrder, Restarting
<1>3. /\ restart' \in [stage: RestartStage, id: Nat, cur: Nat, gap: Nat, reply: Int]
      /\ ~Unstarted' /\ ~Unanswered' /\ ~Restarting' /\ restart'.stage # "create"
  BY <1>1 DEF NoRestart, RestartStage, Unstarted, Unanswered, Restarting
<1> HIDE DEF n
<1>4. \A m \in Stream: loop'[m] = IF m = n THEN [stage |-> "read", got |-> <<>>] ELSE loop[m]
  BY <1>1 DEF DsInv, FileInv, MainType, Loop
<1>5. MainType'
  <2>0. Loop("read", <<>>) \in [stage: {"none", "read", "append", "done"}, got: Seq(Int)]
    BY DEF Loop
  <2>1. loop' \in [Stream -> [stage: {"none", "read", "append", "done"}, got: Seq(Int)]]
    BY <1>1, <2>0 DEF DsInv, FileInv, MainType
  <2>2. ASSUME NEW m \in Stream, loop'[m].stage # "append" PROVE loop'[m].got = <<>>
    <3>1. CASE m = n
      <4>1. loop'[m] = [stage |-> "read", got |-> <<>>]
        BY <1>4, <3>1
      <4> QED
        BY <4>1
    <3>2. CASE m # n
      <4>1. loop'[m] = loop[m]
        BY <1>4, <3>2
      <4> QED
        BY <2>2, <4>1 DEF DsInv, FileInv, MainType
    <3> QED
      BY <3>1, <3>2
  <2> QED
    BY <1>1, <1>3, <2>1, <2>2 DEF DsInv, FileInv, MainType, fileVars
<1>6. InOrder(file, totalGap)' /\ InOrder(saved.file, saved.gap)'
  BY <1>1 DEF DsInv, FileInv, InOrder, fileVars
<1>7. (\A m \in Stream: Consecutive(reader[m]))'
  BY <1>1 DEF DsInv, FileInv, Consecutive
<1>8. LoopsInOrder'
  <2> SUFFICES ASSUME NEW m \in Stream
               PROVE  /\ loop'[m].stage = "append" =>
                           /\ m = jobStream
                           /\ \A i \in 1 .. Len(loop'[m].got):
                                loop'[m].got[i] = Len(file) + totalGap + i - 1
                      /\ loop'[m].stage \in {"read", "append"} /\ m = jobStream =>
                           Len(file) + totalGap + Len(loop'[m].got) + Len(reader[m].buffer)
                             = reader[m].nextSeq
    BY <1>1 DEF LoopsInOrder, fileVars
  <2>1. CASE m = n
    <3>1. loop'[m].stage = "read" /\ Len(loop'[m].got) = 0
      BY <1>4, <2>1
    <3>2. Len(file) + totalGap + 0 = Len(file) + totalGap
      BY DEF DsInv, FileInv, MainType
    <3> QED
      BY <1>2, <2>1, <3>1, <3>2
  <2>2. CASE m # n
    <3>1. loop'[m] = loop[m]
      BY <1>4, <2>2
    <3> QED
      BY <3>1 DEF DsInv, FileInv, LoopsInOrder
  <2> QED
    BY <2>1, <2>2
<1>9. RestartInOrder' /\ NoDataRead'
  BY <1>3 DEF RestartInOrder, NoDataRead
<1>10. LinkInv'
  <2>1. \A m \in Stream: m > streams => loop'[m].stage = "none"
    <3>1. n \in 1 .. streams /\ streams \in Nat
      BY <1>2, EnvironmentAssumption DEF DsInv, LinkInv, Numbered, Stream
    <3>2. \A m \in Stream: m > streams => m # n
      BY <3>1
    <3> QED
      BY <1>4, <3>2 DEF DsInv, LinkInv, Numbered
  <2> QED
    BY <1>1, <1>3, <2>1, LinkGoesOn DEF DsInv, LinkInv, LinkType, Numbered, linkVars
<1> QED
  BY <1>5, <1>6, <1>7, <1>8, <1>9, <1>10 DEF DsInv, FileInv

LEMMA RestartStopInv ==
  ASSUME DsInv, RestartStop PROVE DsInv'
<1> DEFINE n == restart.id
<1>1. /\ restart.stage \in {"refused", "beyond", "already"} /\ restart' = NoRestart
      /\ CloseReader(n)
      /\ UNCHANGED <<smVars, up, carries, data, jmVars, streams, jobStream, loop, file, totalGap, saved>>
  BY DEF RestartStop
<1>2. n \in Stream
  BY <1>1 DEF DsInv, FileInv, RestartInOrder, Restarting
<1>3. /\ restart' \in [stage: RestartStage, id: Nat, cur: Nat, gap: Nat, reply: Int]
      /\ ~Unstarted' /\ ~Unanswered' /\ ~Restarting' /\ restart'.stage # "create"
  BY <1>1 DEF NoRestart, RestartStage, Unstarted, Unanswered, Restarting
<1> HIDE DEF n
<1>4. PICK r2 \in ReaderType:
        /\ reader' = [reader EXCEPT ![n] = r2]
        /\ r2.buffer = reader[n].buffer /\ r2.nextSeq = reader[n].nextSeq /\ r2.ooo = reader[n].ooo
  BY <1>1, <1>2, CloseReaderFacts
<1>5. IsFiniteSet(r2.ooo) /\ Consecutive(r2) /\ Base(r2) = Base(reader[n])
  BY <1>2, <1>4 DEF DsInv, FileInv, MainType, Consecutive, Base
<1>6. FileInv'
  BY <1>1, <1>2, <1>3, <1>4, <1>5, ReaderGoesOn DEF DsInv, GoesOn
<1>7. acks' \in Seq(Ack)
  BY <1>1, <1>2, CloseReaderFacts
<1>8. LinkInv'
  BY <1>1, <1>3, <1>7, LinkGoesOn DEF DsInv, LinkInv, LinkType, Numbered
<1> QED
  BY <1>6, <1>8 DEF DsInv

\* A new reader begins where the file, with the gap, ends; no older loop holds anything.
LEMMA RestartCreateInv ==
  ASSUME ~lagged', DsInv, RestartCreate PROVE DsInv'
<1> USE WindowAssumption
<1> DEFINE n == streams + 1
           cur == Len(file) + totalGap
           r == NewReader(cur)
<1>1. /\ restart.stage = "create" /\ LoopsDrained
      /\ streams' = n /\ jobStream' = n /\ carries' = n
      /\ reader' = [reader EXCEPT ![n] = r]
      /\ restart' = [stage |-> "prepare", id |-> n, cur |-> cur, gap |-> totalGap, reply |-> 0]
      /\ UNCHANGED <<smVars, data, acks, jmVars, loop, fileVars>>
  BY DEF RestartCreate
<1>2. streams \in Nat /\ streams < MaxConn /\ MaxConn \in Nat /\ n \in Stream
  BY <1>1, EnvironmentAssumption, SizesAssumption DEF DsInv, LinkInv, Numbered, Stream
<1>3. cur \in Nat /\ totalGap \in Nat /\ Len(file) \in Nat
  BY DEF DsInv, FileInv, MainType
<1>4. /\ r \in ReaderType /\ IsFiniteSet(r.ooo) /\ r.buffer = <<>> /\ r.ooo = {} /\ r.nextSeq = cur
  BY <1>3, FS_EmptySet DEF NewReader, ReaderType
<1>5. /\ restart' \in [stage: RestartStage, id: Nat, cur: Nat, gap: Nat, reply: Int]
      /\ restart'.id = n /\ restart'.stage = "prepare" /\ restart'.cur = cur /\ restart'.gap = totalGap
  BY <1>1, <1>2, <1>3 DEF RestartStage
<1>6. loop[n].stage = "none"
  BY <1>2 DEF DsInv, LinkInv, Numbered
<1> HIDE DEF r
<1>7. \A m \in Stream: reader'[m] = IF m = n THEN r ELSE reader[m]
  BY <1>1 DEF DsInv, FileInv, MainType
<1>8. MainType'
  <2>1. reader' \in [Stream -> ReaderType] /\ \A m \in Stream: IsFiniteSet(reader'[m].ooo)
    BY <1>1, <1>4, <1>7 DEF DsInv, FileInv, MainType
  <2> QED
    BY <1>1, <1>5, <2>1 DEF DsInv, FileInv, MainType, fileVars
<1>9. InOrder(file, totalGap)' /\ InOrder(saved.file, saved.gap)'
  BY <1>1 DEF DsInv, FileInv, InOrder, fileVars
<1>10. (\A m \in Stream: Consecutive(reader[m]))'
  BY <1>4, <1>7 DEF DsInv, FileInv, Consecutive
<1>11. LoopsInOrder'
  <2>1. \A m \in Stream: loop[m].stage # "append"
    BY <1>1 DEF LoopsDrained
  <2>2. \A m \in Stream: loop'[m].stage \in {"read", "append"} => m # jobStream'
    BY <1>1, <1>6
  <2> QED
    BY <1>1, <2>1, <2>2 DEF LoopsInOrder
<1>12. RestartInOrder'
  <2>1. Len(file) + totalGap + 0 = cur
    BY <1>3
  <2>2. Len(file') + totalGap' + Len(reader'[n].buffer) = reader'[n].nextSeq
    BY <1>1, <1>2, <1>4, <1>7, <2>1 DEF fileVars
  <2>3. restart'.cur = Len(file') + totalGap' /\ restart'.gap = totalGap'
    BY <1>1, <1>5 DEF fileVars
  <2> QED
    BY <1>1, <1>2, <1>5, <1>6, <2>2, <2>3 DEF RestartInOrder
<1>13. NoDataRead'
  BY <1>2, <1>4, <1>5, <1>7 DEF NoDataRead
<1>14. ManagerType' /\ LinkType'
  BY <1>1 DEF DsInv, LinkInv, ManagerType, LinkType, smVars, endVars, connVars, ackVars, readVars, sendVars, jmVars
<1>15. \A i \in 0 .. streams: i \in 0 .. n /\ i # n
  BY <1>2
<1>16. Numbered'
  <2> USE DEF DsInv, LinkInv, Numbered
  <2>1. /\ streams' \in Stream /\ jobStream' \in 0 .. streams' /\ carries' \in 0 .. streams'
    BY <1>1, <1>2
  <2>2. 1 .. streams \subseteq 1 .. streams'
    BY <1>1, <1>2
  <2>3. \A i \in 1 .. Len(data'): data'[i].id <= streams'
    <3> SUFFICES ASSUME NEW i \in 1 .. Len(data) PROVE data[i].id <= n
      BY <1>1
    <3>1. data[i] \in Packet
      BY ElementOfSeq DEF LinkType
    <3>2. data[i].id \in Int /\ data[i].id <= streams
      BY <3>1 DEF Packet, Stream
    <3> QED
      BY <1>2, <3>2
  <2>4. \A m \in Stream: m > streams' => loop'[m].stage = "none"
    <3> SUFFICES ASSUME NEW m \in Stream, m > n PROVE loop[m].stage = "none"
      BY <1>1
    <3>1. m > streams
      BY <1>2 DEF Stream
    <3> QED
      BY <3>1
  <2>5. /\ streamId' \in 1 .. streams'
        /\ senderLoop' = "send" => pkt'.id \in 1 .. streams'
        /\ connecting'.stage # "idle" => connecting'.id \in 1 .. streams'
        /\ handler'.stage # "none" => handler'.id \in 1 .. streams'
        /\ attached' \subseteq 1 .. streams'
    BY <1>1, <2>2 DEF smVars, connVars, sendVars, jmVars
  <2> QED
    BY <1>5, <2>1, <2>3, <2>4, <2>5
<1>17. NoDataSent'
  <2> USE DEF DsInv, LinkInv, Numbered
  <2>1. \A i \in 1 .. Len(data): data[i].id # n
    <3> SUFFICES ASSUME NEW i \in 1 .. Len(data) PROVE data[i].id # n
      OBVIOUS
    <3>1. data[i] \in Packet
      BY ElementOfSeq DEF LinkType
    <3>2. data[i].id \in Int /\ data[i].id <= streams
      BY <3>1 DEF Packet, Stream
    <3> QED
      BY <1>2, <3>2
  <2>2. \A i \in 1 .. streams: i # n
    BY <1>2
  <2>3. /\ streamId # n /\ (senderLoop = "send" => pkt.id # n)
        /\ (connecting.stage # "idle" => connecting.id # n)
        /\ n \notin attached
    BY <2>2
  <2> QED
    BY <1>1, <1>5, <2>1, <2>3 DEF NoDataSent, smVars, connVars, sendVars, jmVars
<1> QED
  BY <1>8, <1>9, <1>10, <1>11, <1>12, <1>13, <1>14, <1>16, <1>17 DEF DsInv, FileInv, LinkInv

\* The gap that the job manager's answer shows is recorded and skipped by the reader, which has
\* no data yet.
LEMMA RestartReplyInv ==
  ASSUME DsInv, RestartReply PROVE DsInv'
<1> DEFINE n == restart.id
<1>1. /\ restart.stage = "reply" /\ restart' = [restart EXCEPT !.stage = "start"]
      /\ UNCHANGED <<smVars, linkVars, jmVars, streams, jobStream, loop, file, saved>>
  BY DEF RestartReply
<1>2. restart \in [stage: RestartStage, id: Nat, cur: Nat, gap: Nat, reply: Int]
  BY DEF DsInv, FileInv, MainType
<1>3. GoesOn /\ Unstarted /\ Restarting /\ ~Unanswered'
  BY <1>1, <1>2 DEF GoesOn, RestartStage, Restarting, Unanswered, Unstarted
<1>4. LinkInv'
  BY <1>1, <1>2, <1>3, LinkGoesOn DEF DsInv, LinkInv, LinkType, Numbered, linkVars, GoesOn
<1>5. FileInv'
  <2>1. CASE ~(restart.reply > restart.cur)
    <3>1. UNCHANGED <<readerVars, fileVars>>
      BY <1>1, <2>1 DEF RestartReply, readerVars, fileVars
    <3> QED
      BY <1>3, <3>1, RestartGoesOn DEF DsInv
  <2>2. CASE restart.reply > restart.cur
    <3>1. /\ totalGap' = restart.gap + (restart.reply - restart.cur)
          /\ reader' = [reader EXCEPT ![n].nextSeq = restart.reply]
      BY <2>2 DEF RestartReply
    <3>2. /\ n = jobStream /\ n \in Stream /\ loop[n].stage = "none"
          /\ restart.cur = Len(file) + totalGap /\ restart.gap = totalGap
      BY <1>1 DEF DsInv, FileInv, RestartInOrder, Restarting, Unanswered
    <3>3. reader[n].buffer = <<>> /\ (\A p \in reader[n].ooo: p.len = 0) /\ reader[n] \in ReaderType
      BY <1>3, <3>2 DEF DsInv, FileInv, NoDataRead, MainType
    <3> DEFINE q == restart.reply
               r2 == [reader[n] EXCEPT !.nextSeq = q]
    <3>4. q \in Nat /\ Len(file) \in Nat /\ totalGap \in Nat /\ q > Len(file) + totalGap
      BY <1>2, <2>2, <3>2 DEF DsInv, FileInv, MainType
    <3>5. totalGap' = q - Len(file) /\ totalGap' \in Nat /\ totalGap' > totalGap
      BY <3>1, <3>2, <3>4
    <3>6. reader' = [reader EXCEPT ![n] = r2]
      BY <3>1
    <3> HIDE DEF q
    <3>7. /\ r2 \in ReaderType /\ r2.buffer = <<>> /\ r2.ooo = reader[n].ooo /\ r2.nextSeq = q
      BY <3>3, <3>4 DEF ReaderType
    <3> HIDE DEF r2, n
    <3>8. \A m \in Stream: reader'[m] = IF m = n THEN r2 ELSE reader[m]
      BY <3>6 DEF DsInv, FileInv, MainType
    <3>9. MainType'
      <4>1. reader' \in [Stream -> ReaderType] /\ \A m \in Stream: IsFiniteSet(reader'[m].ooo)
        BY <3>2, <3>6, <3>7, <3>8 DEF DsInv, FileInv, MainType
      <4> QED
        BY <1>1, <1>3, <3>5, <4>1 DEF DsInv, FileInv, MainType, GoesOn
    <3>10. InOrder(file, totalGap)' /\ InOrder(saved.file, saved.gap)'
      <4>1. file # <<>> => file[Len(file)] \in Int
        BY DEF DsInv, FileInv, MainType
      <4> QED
        BY <1>1, <3>4, <3>5, <4>1 DEF DsInv, FileInv, InOrder
    <3>11. (\A m \in Stream: Consecutive(reader[m]))'
      BY <3>7, <3>8 DEF DsInv, FileInv, Consecutive
    <3>12. LoopsInOrder'
      BY <1>1, <3>2 DEF DsInv, FileInv, LoopsInOrder
    <3>13. RestartInOrder' /\ NoDataRead'
      <4>1. restart'.id = n /\ n \in Stream
        BY <1>2, <1>1, <3>2 DEF n
      <4>2. Len(file') + totalGap' + Len(reader'[n].buffer) = reader'[n].nextSeq
        BY <1>1, <3>4, <3>5, <3>7, <3>8, <4>1
      <4>3. reader'[n] = r2 /\ loop'[n].stage = "none" /\ n = jobStream'
        BY <1>1, <3>2, <3>8
      <4>4. RestartInOrder'
        BY <1>3, <4>1, <4>2, <4>3 DEF RestartInOrder
      <4>5. NoDataRead'
        BY <3>3, <3>7, <4>1, <4>3 DEF NoDataRead
      <4> QED
        BY <4>4, <4>5
    <3> QED
      BY <3>9, <3>10, <3>11, <3>12, <3>13 DEF FileInv
  <2> QED
    BY <2>1, <2>2
<1> QED
  BY <1>4, <1>5 DEF DsInv

-----------------------------------------------------------------------------
(* The theorems *)

LEMMA DsStutterInv ==
  ASSUME DsInv, UNCHANGED dsVars PROVE DsInv'
<1>1. UNCHANGED <<smVars, linkVars, jmVars, readerVars, fileVars, restart>>
  BY DEF dsVars, mainVars
<1>2. FileInv'
  BY <1>1, MainUnchanged DEF DsInv, mainVars, dsVars
<1>3. LinkInv'
  <2>1. Unstarted' = Unstarted
    BY <1>1 DEF Unstarted
  <2> QED
    BY <1>1, <2>1, LinkGoesOn DEF DsInv, LinkInv, LinkType, Numbered, linkVars, readerVars
<1> QED
  BY <1>2, <1>3 DEF DsInv

LEMMA DsStepInv ==
  ASSUME ~lagged', DsInv, [DsNext]_dsVars PROVE DsInv'
<1>1. CASE ManagerReads \/ ManagerSends \/ Transmit
  BY <1>1, ManagerReadsInv, ManagerSendsInv, TransmitInv
<1>2. CASE DeliverData \/ DeliverAck
  BY <1>2, DeliverDataInv, DeliverAckInv
<1>3. CASE LoopStep
  BY <1>3, LoopStepInv
<1>4. CASE RestartStep
  BY <1>4, RestartCreateInv, RestartReplyInv, RestartRunInv, RestartStopInv DEF RestartStep
<1>5. CASE JobManagerStep
  BY <1>5, PrepareConnectInv, HandlerDisconnectInv, HandlerConnectInv, HandlerConnectingInv,
     StartStreamInv DEF JobManagerStep
<1>6. CASE Flush \/ Drop \/ Crash \/ Reconnect
  BY <1>6, FlushInv, DropInv, CrashInv, ReconnectInv
<1>7. CASE UNCHANGED dsVars
  BY <1>7, DsStutterInv
<1> QED
  BY <1>1, <1>2, <1>3, <1>4, <1>5, <1>6, <1>7 DEF DsNext, Progress

\* What the history variables tell stays so.
LEMMA PastStays ==
  ASSUME [DsNext]_dsVars
  PROVE  /\ (lagged => lagged') /\ (cut => cut')
         /\ crashes' = crashes \/ crashes' = crashes + 1
<1>1. CASE UNCHANGED pastVars
  BY <1>1 DEF pastVars
<1>2. CASE ManagerReads \/ ManagerSends \/ Transmit \/ DeliverAck
  BY <1>1, <1>2 DEF ManagerReads, ManagerSends, Transmit, DeliverAck, OtherVars, mainVars
<1>3. CASE DeliverData
  BY <1>3 DEF DeliverData, RecvUnwanted, RecvError, RecvOutOfOrder, RecvInOrder
<1>4. CASE LoopStep
  BY <1>1, <1>4 DEF LoopStep, LoopRead, LoopSuperseded, LoopAppend, LoopEnd
<1>5. CASE RestartStep
  <2>1. CASE RestartCreate
    BY <2>1 DEF RestartCreate
  <2> QED
    BY <1>1, <1>5, <2>1 DEF RestartStep, RestartReply, RestartRun, RestartStop
<1>6. CASE JobManagerStep
  BY <1>1, <1>6 DEF JobManagerStep, PrepareConnect, HandlerDisconnect, HandlerConnect,
                    HandlerConnecting, StartStream, mainVars
<1>7. CASE Flush \/ Drop \/ Crash \/ Reconnect
  BY <1>1, <1>7 DEF Flush, Drop, Crash, Reconnect
<1>8. CASE UNCHANGED dsVars
  BY <1>1, <1>8 DEF dsVars, mainVars
<1> QED
  BY <1>2, <1>3, <1>4, <1>5, <1>6, <1>7, <1>8 DEF DsNext, Progress

\* Unless a new stream superseded one whose loop still held output, every reachable state
\* satisfies the invariant.
THEOREM DsInvariant == DsSpec => [](lagged \/ DsInv)
<1>1. DsInit => DsInv
  BY DsInitInv
<1>2. (lagged \/ DsInv) /\ [DsNext]_dsVars => (lagged \/ DsInv)'
  BY DsStepInv, PastStays
<1> QED
  BY <1>1, <1>2, PTL DEF DsSpec

\* The job's output file holds the program's bytes in order, none twice, and the recorded gap
\* accounts for every byte it lacks, whatever links are lost and however often the main server
\* restarts (jobcontroller.go:1151-1158, 1228-1241), unless a new stream superseded one whose loop
\* still held output.
THEOREM FileAlwaysInOrder == DsSpec => [](lagged \/ FileInOrder)
<1>1. DsInv => FileInOrder
  <2> SUFFICES ASSUME DsInv PROVE FileInOrder
    OBVIOUS
  <2>1. InOrder(file, totalGap)
    BY DEF DsInv, FileInv
  <2> QED
    BY <2>1 DEF InOrder, FileInOrder, Last
<1> QED
  BY <1>1, DsInvariant, PTL

\* While its output loop runs, the reader of the job's stream continues exactly where the file
\* and its gap, and the bytes on the way to it, end, with the same exception.
THEOREM ReaderAlwaysContinues == DsSpec => [](lagged \/ ReaderContinuesFile)
<1>1. DsInv => ReaderContinuesFile
  BY DEF DsInv, FileInv, LoopsInOrder, ReaderContinuesFile
<1> QED
  BY <1>1, DsInvariant, PTL

-----------------------------------------------------------------------------
(***************************************************************************)
(* The proof that a reconnect loses nothing, for every window and size of  *)
(* the buffers and any number of links, when the buffer holds what the     *)
(* program writes, as long as the main server has not died, no new stream  *)
(* superseded one whose loop held output and no error cut output off.  The *)
(* job manager forgets a byte when it is acknowledged, not when it is in   *)
(* the file.  Nothing is lost all the same                                 *)
(* because every position that is acknowledged or asked for is one that    *)
(* the reader of the job's stream has reached, because that reader never   *)
(* goes back, and because a new reader begins where the last one stood:    *)
(* what it had read is in the file by then.                                *)
(***************************************************************************)
(* The inductive invariant, on top of DsInv *)

\* The buffer holds what the program writes.
Roomy == MaxStream <= CirBufSize

\* A packet lies in the stream, and one that says so is its end.
Sound(p) ==
  /\ p.seq <= log.total
  /\ p.end # "none" => terminalEvent # "none" /\ p.seq = eofPos /\ p.len = 0

SoundReader(r) ==
  /\ r.eof \/ r.err => terminalEvent # "none" /\ r.nextSeq = eofPos
  /\ r.err => r.buffer = <<>>
  /\ \A p \in r.ooo: Sound(p)

\* The buffer drops nothing by itself; the end of the stream is its end.
EndInv ==
  /\ log.sync \/ log.window = CirBufSize
  /\ log.total + chunk <= MaxStream
  /\ terminalEvent # "none" => eofPos = log.total /\ readLoop = "done"
  /\ senderLoop = "send" => Sound(pkt)
  /\ \A i \in 1 .. Len(data): Sound(data[i])
  /\ \A n \in Stream: SoundReader(reader[n])

Ended(r) == r.eof \/ r.err

\* The bytes between the file and the position of the job's reader are in its loop and buffer;
\* a reader that has no loop, or whose loop is done, has none.
CurrentInv ==
  /\ totalGap = 0
  /\ jobStream \in Stream /\ carries \in {0, jobStream}
  /\ Len(file) + Len(loop[jobStream].got) = Base(reader[jobStream])
  /\ Restarting \/ loop[jobStream].stage \in {"read", "append"} => reader[jobStream].open
  /\ loop[jobStream].stage = "done" => Ended(reader[jobStream]) /\ reader[jobStream].buffer = <<>>
  /\ loop[jobStream].stage = "none" /\ ~Restarting =>
       ~reader[jobStream].open /\ reader[jobStream].buffer = <<>> /\ jobStream \notin attached

\* The position of the job's reader.
Pos == reader[jobStream].nextSeq

\* The job manager listens to stream n, or will.
Live(n) == n \in attached \/ (Restarting /\ n = restart.id)

\* No position that the job manager has, is told or asked is beyond that of the job's reader.
PosInv ==
  /\ log.head <= Pos
  /\ connecting.stage # "idle" => connecting.seq <= Pos /\ connecting.head <= Pos
  /\ connecting.stage = "consume" => connecting.head = log.head
  /\ handler.stage # "none" => handler.seq <= Pos
  /\ restart.stage = "reply" => restart.reply <= Pos
  /\ \A i \in 1 .. Len(acks): acks[i].id <= streams /\ (Live(acks[i].id) => acks[i].seq <= Pos)

LossInv == EndInv /\ CurrentInv /\ PosInv

\* What may open a gap all the same.
Excused == crashes # 0 \/ lagged \/ cut
-----------------------------------------------------------------------------
(* What DsInv says of the types of what follows *)

LEMMA LossTypes ==
  ASSUME DsInv, jobStream \in Stream
  PROVE  /\ log \in LogType /\ log.head \in Nat /\ log.total \in Nat /\ log.window \in Nat
         /\ chunk \in Nat /\ eofPos \in Int
         /\ reader[jobStream] \in ReaderType /\ Pos \in Nat /\ Len(reader[jobStream].buffer) \in Nat
         /\ Len(file) \in Nat /\ Len(loop[jobStream].got) \in Nat
         /\ streams \in Nat
<1>1. log \in LogType /\ chunk \in Nat /\ eofPos \in Int
  BY DEF DsInv, LinkInv, ManagerType
<1>2. reader[jobStream] \in ReaderType /\ file \in Seq(Int) /\ loop[jobStream].got \in Seq(Int)
  BY DEF DsInv, FileInv, MainType
<1>3. streams \in Nat
  BY EnvironmentAssumption, SizesAssumption DEF DsInv, LinkInv, Numbered, Stream
<1>4. log.head \in Nat /\ log.total \in Nat /\ log.window \in Nat
  BY <1>1 DEF LogType
<1>5. Pos \in Nat /\ Len(reader[jobStream].buffer) \in Nat
  BY <1>2 DEF Pos, ReaderType
<1> QED
  BY <1>1, <1>2, <1>3, <1>4, <1>5

LEMMA LossInitInv ==
  ASSUME Roomy, DsInit PROVE LossInv
<1> USE SizesAssumption, WindowAssumption, EnvironmentAssumption DEF DsInit
<1>1. 1 \in Stream
  BY DEF Stream
<1>2. /\ log.head = 0 /\ log.total = 0 /\ log.sync
  BY DEF NewLog, ResizeLog, LogOf
<1>3. \A n \in Stream: SoundReader(reader[n])
  BY DEF SoundReader, NewReader, NoReader
<1>4. EndInv
  <2>1. chunk = 0 /\ MaxStream \in Nat
    OBVIOUS
  <2>2. log.total + chunk <= MaxStream
    <3> HIDE DEF DsInit
    <3> QED
      BY <1>2, <2>1
  <2>3. \A i \in 1 .. Len(data): Sound(data[i])
    BY DEF Sound
  <2> QED
    BY <1>2, <1>3, <2>2, <2>3 DEF EndInv
<1>5. /\ reader[1].open /\ reader[1].buffer = <<>> /\ reader[1].nextSeq = 0
      /\ loop[1].stage = "read" /\ loop[1].got = <<>>
  BY <1>1 DEF NewReader, Loop
<1>6. CurrentInv
  BY <1>1, <1>5 DEF CurrentInv, Base
<1>7. PosInv
  <2>1. jobStream = 1 /\ Len(acks) = 0
    OBVIOUS
  <2>2. connecting.stage = "idle" /\ handler.stage = "none" /\ restart.stage = "off"
    BY DEF Idle, NoHandler, NoRestart
  <2> HIDE DEF DsInit
  <2>3. log.head <= Pos
    BY <1>2, <1>5, <2>1 DEF Pos
  <2> QED
    BY <2>1, <2>2, <2>3 DEF PosInv
<1> QED
  BY <1>4, <1>6, <1>7 DEF LossInv

-----------------------------------------------------------------------------
(* What the job manager does *)

\* What is sound stays so while the program writes and ends.
LEMMA StaysSound ==
  ASSUME log.total \in Nat, log'.total \in Nat, log.total <= log'.total,
         terminalEvent # "none" => UNCHANGED endVars,
         NEW p, p.seq \in Int, Sound(p)
  PROVE  /\ p.seq <= log'.total
         /\ p.end # "none" => terminalEvent' # "none" /\ p.seq = eofPos' /\ p.len = 0
  BY DEF Sound, endVars

LEMMA EndManager ==
  ASSUME DsInv, EndInv, log'.total \in Nat, log.total <= log'.total,
         terminalEvent # "none" => UNCHANGED endVars,
         UNCHANGED reader,
         senderLoop' = "send" => (senderLoop = "send" /\ pkt' = pkt) \/ Sound(pkt)',
         data' \in Seq(Packet),
         \A i \in 1 .. Len(data'): (\E k \in 1 .. Len(data): data'[i] = data[k])
                                    \/ (senderLoop = "send" /\ data'[i] = pkt)
  PROVE  /\ senderLoop' = "send" => Sound(pkt)'
         /\ (\A i \in 1 .. Len(data): Sound(data[i]))'
         /\ (\A n \in Stream: SoundReader(reader[n]))'
<1>1. log.total \in Nat /\ pkt.seq \in Int /\ data \in Seq(Packet) /\ reader \in [Stream -> ReaderType]
  BY DEF DsInv, LinkInv, ManagerType, LinkType, FileInv, MainType, LogType
<1>2. senderLoop = "send" =>
        /\ pkt.seq <= log'.total
        /\ pkt.end # "none" => terminalEvent' # "none" /\ pkt.seq = eofPos' /\ pkt.len = 0
  BY <1>1, StaysSound DEF EndInv
<1>3. ASSUME senderLoop' = "send" PROVE Sound(pkt)'
  <2>1. CASE senderLoop = "send" /\ pkt' = pkt
    BY Zenon, <1>2, <2>1 DEF Sound
  <2> QED
    BY Zenon, <1>3, <2>1
<1>4. ASSUME NEW i \in 1 .. Len(data') PROVE Sound(data[i])'
  <2>1. CASE senderLoop = "send" /\ data'[i] = pkt
    BY Zenon, <1>2, <2>1 DEF Sound
  <2>2. ASSUME NEW k \in 1 .. Len(data), data'[i] = data[k] PROVE Sound(data[i])'
    <3>1. data[k] \in Packet
      BY <1>1, ElementOfSeq
    <3>2. data[k].seq \in Int /\ Sound(data[k])
      BY <3>1 DEF EndInv, Packet
    <3>3. /\ data[k].seq <= log'.total
          /\ data[k].end # "none" => terminalEvent' # "none" /\ data[k].seq = eofPos' /\ data[k].len = 0
      BY <1>1, <3>2, StaysSound
    <3> QED
      BY <2>2, <3>3 DEF Sound
  <2> QED
    BY <2>1, <2>2
<1>5. ASSUME NEW n \in Stream PROVE SoundReader(reader[n])'
  <2>1. reader[n] \in ReaderType /\ SoundReader(reader[n])
    BY <1>1 DEF EndInv
  <2>2. ASSUME NEW p \in reader[n].ooo PROVE Sound(p)'
    <3>1. p.seq \in Int /\ Sound(p)
      BY <2>1 DEF ReaderType, Packet, SoundReader
    <3>2. /\ p.seq <= log'.total
          /\ p.end # "none" => terminalEvent' # "none" /\ p.seq = eofPos' /\ p.len = 0
      BY <1>1, <3>1, StaysSound
    <3> QED
      BY <3>2 DEF Sound
  <2> QED
    BY <2>1, <2>2 DEF SoundReader, endVars
<1> QED
  BY <1>3, <1>4, <1>5
\* A step that leaves the main server's part alone and attaches no writer, unless to the reader
\* that restartStreaming is about to run a loop for.
LEMMA CurrentGoesOn ==
  ASSUME CurrentInv, UNCHANGED <<totalGap, jobStream, carries, file, loop, reader>>,
         Restarting' = Restarting, attached' \subseteq attached \/ Restarting
  PROVE  CurrentInv'
<1>1. /\ totalGap' = 0
      /\ jobStream' \in Stream /\ carries' \in {0, jobStream'}
  BY DEF CurrentInv
<1>2. Len(file') + Len(loop'[jobStream'].got) = Base(reader[jobStream])'
  BY DEF CurrentInv, Base
<1>3. Restarting' \/ loop'[jobStream'].stage \in {"read", "append"} => reader'[jobStream'].open
  BY DEF CurrentInv
<1>4. loop'[jobStream'].stage = "done" => Ended(reader'[jobStream']) /\ reader'[jobStream'].buffer = <<>>
  BY DEF CurrentInv
<1>5. loop'[jobStream'].stage = "none" /\ ~Restarting' =>
        ~reader'[jobStream'].open /\ reader'[jobStream'].buffer = <<>> /\ jobStream' \notin attached'
  BY DEF CurrentInv
<1> QED
  BY <1>1, <1>2, <1>3, <1>4, <1>5 DEF CurrentInv

\* What the program writes fits, so that the buffer drops none of it; the end comes once.
LEMMA ReadsFacts ==
  ASSUME Roomy, DsInv, EndInv, ManagerReads
  PROVE  /\ log'.head = log.head /\ log'.total \in Nat /\ log.total <= log'.total
         /\ log'.sync \/ log'.window = CirBufSize
         /\ log'.total + chunk' <= MaxStream
         /\ terminalEvent # "none" => UNCHANGED endVars
         /\ terminalEvent' # "none" => eofPos' = log'.total /\ readLoop' = "done"
<1>1. /\ log \in LogType /\ chunk \in Nat
      /\ log.sync \/ log.window = CirBufSize
      /\ log.total + chunk <= MaxStream
      /\ terminalEvent # "none" => eofPos = log.total /\ readLoop = "done"
  BY DEF DsInv, LinkInv, ManagerType, EndInv
<1>2. log.total \in Nat /\ log.head \in Nat /\ log.window \in Nat
  BY <1>1 DEF LogType
<1>3. CASE ReadCheckClosed \/ SignalWritten \/ WriterWoken
  BY <1>1, <1>2, <1>3 DEF ReadCheckClosed, SignalWritten, WriterWoken, endVars
<1>4. CASE \E k \in 0 .. MaxPacketSize, err \in Ends \cup {"none"}: ReadPty(k, err)
  BY <1>1, <1>2, <1>4 DEF ReadPty, Roomy, endVars
<1>5. CASE WriteSome
  <2> DEFINE n == Accepts(log, chunk)
  <2>1. /\ readLoop = "write" /\ n > 0 /\ log' = AppendLog(log, n) /\ chunk' = chunk - n
        /\ UNCHANGED <<endVars, readErr>>
    BY <1>5 DEF WriteSome
  <2>2. n \in Int /\ n <= chunk
    BY <1>1, <1>2 DEF Accepts, Least, Greatest, Retained
  <2> HIDE DEF n
  <2>3. log'.total = log.total + n /\ log'.sync = log.sync /\ log'.window = log.window
    BY <2>1 DEF AppendLog, LogOf
  <2>4. log'.head = log.head
    <3>1. CASE log.sync
      BY <2>1, <3>1 DEF AppendLog, LogOf
    <3>2. CASE ~log.sync
      <4>1. log.window = CirBufSize /\ log.total + n - CirBufSize <= 0
        BY <1>1, <1>2, <2>2, <3>2, SizesAssumption DEF Roomy
      <4>2. log'.head = Greatest(log.head, log.total + n - CirBufSize)
        BY <2>1, <3>2, <4>1 DEF AppendLog, LogOf
      <4> QED
        BY <1>2, <2>2, <4>1, <4>2, SizesAssumption DEF Greatest
    <3> QED
      BY <3>1, <3>2
  <2>5. log'.total \in Nat /\ log.total <= log'.total /\ log'.total + chunk' <= MaxStream
    BY <1>1, <1>2, <2>1, <2>2, <2>3, SizesAssumption
  <2> QED
    BY <1>1, <2>1, <2>3, <2>4, <2>5 DEF endVars
<1>6. CASE WriteBlocked
  BY <1>1, <1>2, <1>6 DEF WriteBlocked, BlockWriter, LogOf, endVars
<1>7. CASE HandleEnd
  BY <1>1, <1>2, <1>7 DEF HandleEnd, endVars
<1> QED
  BY <1>3, <1>4, <1>5, <1>6, <1>7 DEF ManagerReads

LEMMA ManagerReadsLoss ==
  ASSUME Roomy, DsInv, LossInv, ManagerReads PROVE LossInv'
<1>1. /\ UNCHANGED <<linkVars, jmVars, mainVars, connecting, pkt>>
      /\ senderLoop' = "send" => senderLoop = "send"
  BY DEF ManagerReads, ReadCheckClosed, ReadPty, WriteSome, WriteBlocked, SignalWritten, WriterWoken,
         HandleEnd, Signal, sendVars, OtherVars
<1>2. /\ log'.head = log.head /\ log'.total \in Nat /\ log.total <= log'.total
      /\ log'.sync \/ log'.window = CirBufSize
      /\ log'.total + chunk' <= MaxStream
      /\ terminalEvent # "none" => UNCHANGED endVars
      /\ terminalEvent' # "none" => eofPos' = log'.total /\ readLoop' = "done"
  BY ReadsFacts DEF LossInv
<1>3. UNCHANGED reader /\ data' \in Seq(Packet) /\ data' = data
  BY <1>1 DEF mainVars, readerVars, linkVars, DsInv, LinkInv, LinkType
<1>4. EndInv'
  <2>1. /\ senderLoop' = "send" => Sound(pkt)'
        /\ (\A i \in 1 .. Len(data): Sound(data[i]))'
        /\ (\A n \in Stream: SoundReader(reader[n]))'
    BY <1>1, <1>2, <1>3, EndManager DEF LossInv
  <2> QED
    BY <1>2, <2>1 DEF EndInv
<1>5. CurrentInv'
  <2>1. Restarting' = Restarting
    BY <1>1 DEF Restarting, mainVars
  <2> QED
    BY <1>1, <2>1, CurrentGoesOn DEF LossInv, linkVars, jmVars, mainVars, readerVars, fileVars
<1>6. PosInv'
  <2>1. Pos' = Pos /\ \A n: Live(n)' = Live(n)
    BY <1>1 DEF Pos, Live, mainVars, readerVars, jmVars, Restarting
  <2> QED
    BY <1>1, <1>2, <2>1 DEF LossInv, PosInv, mainVars, readerVars, jmVars, linkVars
<1> QED
  BY <1>4, <1>5, <1>6 DEF LossInv

LEMMA PosStays ==
  ASSUME PosInv, log'.head = log.head,
         UNCHANGED <<connecting, jmVars, restart, reader, jobStream, acks, streams>>
  PROVE  PosInv'
<1>1. Pos' = Pos /\ \A n: Live(n)' = Live(n)
  BY DEF Pos, Live, jmVars, Restarting
<1> QED
  BY <1>1 DEF PosInv, jmVars

\* A packet of data begins before the end of what was written; the end of the stream is there.
LEMMA ManagerSendsLoss ==
  ASSUME Roomy, DsInv, LossInv, ManagerSends PROVE LossInv'
<1>1. UNCHANGED <<log, endVars, connecting, readVars, linkVars, jmVars, mainVars>>
  BY DEF ManagerSends, SenderDone, SenderWait, PrepareData, PrepareTerminal, OtherVars
<1>2. log \in LogType /\ sentNotAcked \in Nat /\ EndInv
  BY DEF DsInv, LinkInv, ManagerType, LossInv
<1>3. log.total \in Nat /\ log.head \in Nat
  BY <1>2 DEF LogType
<1>4. senderLoop' = "send" => Sound(pkt)'
  <2>1. CASE SenderDone \/ SenderWait
    BY <2>1 DEF SenderDone, SenderWait
  <2>2. CASE PrepareData
    <3>1. pkt'.seq = log.head + sentNotAcked /\ pkt'.end = "none"
      BY <2>2 DEF PrepareData
    <3>2. log.head + sentNotAcked <= log.total
      BY <1>2, <1>3, <2>2 DEF PrepareData, MaySendData, Retained
    <3> QED
      BY <1>1, <3>1, <3>2 DEF Sound
  <2>3. CASE PrepareTerminal
    <3>1. /\ pkt'.seq = eofPos /\ pkt'.len = 0 /\ pkt'.end = terminalEvent /\ terminalEvent # "none"
      BY <2>3 DEF PrepareTerminal, MaySendTerminal
    <3>2. eofPos = log.total
      BY <1>2, <1>3, <3>1 DEF EndInv
    <3> QED
      BY <1>1, <1>3, <3>1, <3>2 DEF Sound, endVars
  <2> QED
    BY <2>1, <2>2, <2>3 DEF ManagerSends
<1>5. EndInv'
  <2>1. UNCHANGED <<reader, data>> /\ data \in Seq(Packet)
    BY <1>1 DEF mainVars, readerVars, linkVars, DsInv, LinkInv, LinkType
  <2>2. /\ (\A i \in 1 .. Len(data): Sound(data[i]))'
        /\ (\A n \in Stream: SoundReader(reader[n]))'
    BY <1>1, <1>2, <1>3, <1>4, <2>1, EndManager
  <2> QED
    BY <1>1, <1>2, <1>4, <2>2 DEF EndInv, endVars, readVars
<1>6. CurrentInv'
  BY <1>1, CurrentGoesOn DEF LossInv, linkVars, jmVars, mainVars, readerVars, fileVars, Restarting
<1>7. PosInv'
  BY <1>1, PosStays DEF LossInv, linkVars, mainVars, readerVars
<1> QED
  BY <1>5, <1>6, <1>7 DEF LossInv

LEMMA TransmitLoss ==
  ASSUME Roomy, DsInv, LossInv, Transmit PROVE LossInv'
<1>1. /\ senderLoop = "send" /\ senderLoop' = "run"
      /\ UNCHANGED <<log, endVars, connecting, readVars, carries, acks, jmVars, mainVars>>
      /\ data' = IF up /\ pkt.id = carries THEN Append(data, pkt) ELSE data
  BY DEF Transmit, SendData
<1>2. log \in LogType /\ EndInv /\ data \in Seq(Packet) /\ pkt \in Packet
  <2>1. log \in LogType /\ EndInv /\ data \in Seq(Packet)
    BY DEF DsInv, LinkInv, ManagerType, LinkType, LossInv
  <2>2. pkt \in Packet
    BY <1>1, SizesAssumption DEF DsInv, LinkInv, ManagerType, Numbered, Packet, Stream
  <2> QED
    BY <2>1, <2>2
<1>3. log.total \in Nat
  BY <1>2 DEF LogType
<1>4. /\ data' \in Seq(Packet)
      /\ \A i \in 1 .. Len(data'): data'[i] = pkt \/ \E k \in 1 .. Len(data): data'[i] = data[k]
  <2>1. CASE data' = Append(data, pkt)
    BY <1>2, <2>1, AppendProperties
  <2>2. CASE data' = data
    BY <1>2, <2>2
  <2> QED
    BY <1>1, <2>1, <2>2
<1>5. EndInv'
  <2>1. UNCHANGED reader
    BY <1>1 DEF mainVars, readerVars
  <2>2. /\ (\A i \in 1 .. Len(data): Sound(data[i]))'
        /\ (\A n \in Stream: SoundReader(reader[n]))'
    BY <1>1, <1>2, <1>3, <1>4, <2>1, EndManager
  <2> QED
    BY <1>1, <1>2, <2>2 DEF EndInv, endVars, readVars
<1>6. CurrentInv'
  BY <1>1, CurrentGoesOn DEF LossInv, jmVars, mainVars, readerVars, fileVars, Restarting
<1>7. PosInv'
  BY <1>1, PosStays DEF LossInv, mainVars, readerVars
<1> QED
  BY <1>5, <1>6, <1>7 DEF LossInv

\* The steps that concern the job manager's buffer, its clients and its end of the link.
LEMMA EndStays ==
  ASSUME DsInv, EndInv, log'.total = log.total,
         log'.sync \/ log'.window = CirBufSize,
         UNCHANGED <<endVars, readVars, data, reader>>,
         senderLoop' = "send" => senderLoop = "send" /\ pkt' = pkt
  PROVE  EndInv'
<1>1. log.total \in Nat /\ data \in Seq(Packet)
  BY DEF DsInv, LinkInv, ManagerType, LinkType, LogType
<1>2. /\ senderLoop' = "send" => Sound(pkt)'
      /\ (\A i \in 1 .. Len(data): Sound(data[i]))'
      /\ (\A n \in Stream: SoundReader(reader[n]))'
  BY <1>1, EndManager
<1> QED
  BY <1>2 DEF EndInv, endVars, readVars

\* No stream but those it listened to already, or will, does the job manager listen to.
LEMMA AcksStay ==
  ASSUME PosInv, UNCHANGED <<reader, jobStream, streams>>,
         \A i \in 1 .. Len(acks'): \E k \in 1 .. Len(acks): acks'[i] = acks[k],
         \A n: Live(n)' => Live(n)
  PROVE  (\A i \in 1 .. Len(acks): acks[i].id <= streams /\ (Live(acks[i].id) => acks[i].seq <= Pos))'
<1> SUFFICES ASSUME NEW i \in 1 .. Len(acks')
             PROVE  acks'[i].id <= streams' /\ (Live(acks[i].id)' => acks'[i].seq <= Pos')
  OBVIOUS
<1>1. Pos' = Pos
  BY DEF Pos
<1>2. PICK k \in 1 .. Len(acks): acks'[i] = acks[k]
  OBVIOUS
<1>3. acks[k].id <= streams /\ (Live(acks[k].id) => acks[k].seq <= Pos)
  BY DEF PosInv
<1>4. Live(acks[i].id)' => Live(acks[k].id)
  <2>1. ASSUME NEW n, n = acks[k].id PROVE Live(n)' => Live(n)
    OBVIOUS
  <2> QED
    BY <1>2, <2>1 DEF Live
<1> QED
  BY <1>1, <1>2, <1>3, <1>4

\* A position that is acknowledged is one the reader has reached, so that the buffer forgets no
\* byte beyond.
LEMMA DeliverAckLoss ==
  ASSUME Roomy, DsInv, LossInv, DeliverAck PROVE LossInv'
<1>1. acks \in Seq(Ack) /\ PosInv /\ EndInv /\ CurrentInv
  BY DEF DsInv, LinkInv, LinkType, LossInv
<1>2. PICK i \in 1 .. Len(acks):
           /\ SmUnlocked /\ acks' = RemoveAt(acks, i) /\ attached' \subseteq attached
           /\ \/ RecvFin(acks[i].id)
              \/ /\ acks[i].id \in attached /\ acks[i].id = streamId
                 /\ RecvAck(acks[i].id, acks[i].seq, acks[i].rwnd)
              \/ UNCHANGED smVars
           /\ UNCHANGED <<up, carries, data, handler, mainVars>>
  BY DeliverAckFacts
<1> DEFINE a == acks[i]
<1>3. a \in Ack
  BY <1>1, ElementOfSeq
<1>4. \/ RecvFin(a.id)
      \/ a.id \in attached /\ a.id = streamId /\ RecvAck(a.id, a.seq, a.rwnd)
      \/ UNCHANGED smVars
  BY <1>2
<1>5. attached' \subseteq attached /\ UNCHANGED <<up, carries, data, handler, mainVars>>
  BY <1>2
<1>6. a.id \in attached => a.seq <= Pos
  BY <1>1 DEF PosInv, Live
<1>7. \A j \in 1 .. Len(acks'): \E k \in 1 .. Len(acks): acks'[j] = acks[k]
  BY <1>1, <1>2, RemoveAtFacts
<1> HIDE DEF a
<1>8. /\ UNCHANGED <<endVars, connecting, readVars, pkt>> /\ connecting.stage = "idle"
      /\ senderLoop' = "send" => senderLoop = "send"
  BY <1>2, <1>4 DEF RecvFin, RecvAck, Signal, smVars, sendVars, SmUnlocked
<1>9. /\ log'.total = log.total
      /\ log'.sync \/ log'.window = CirBufSize
      /\ log'.head = log.head \/ log'.head <= Pos
  <2>1. CASE RecvFin(a.id) \/ UNCHANGED smVars
    BY <1>1, <2>1 DEF RecvFin, smVars, EndInv
  <2>2. CASE a.id \in attached /\ RecvAck(a.id, a.seq, a.rwnd)
    <3> DEFINE acked == a.seq - log.head
    <3>1. CASE acked < 0 \/ acked > sentNotAcked
      BY <1>1, <2>2, <3>1 DEF RecvAck, EndInv
    <3>2. CASE ~(acked < 0 \/ acked > sentNotAcked)
      <4>1. log' = ResizeLog(IF acked > 0 THEN ConsumeLog(log, acked) ELSE log,
                             CirBufSize, TRUE, EffectiveWindow(a.rwnd))
        BY <2>2, <3>2 DEF RecvAck
      <4>2. /\ log'.total = log.total /\ log'.sync
            /\ log'.head = IF acked > 0 THEN log.head + acked ELSE log.head
        <5> HIDE DEF acked
        <5> QED
          BY <4>1 DEF ResizeLog, ConsumeLog, LogOf
      <4>3. log.head \in Nat /\ a.seq \in Int
        BY <1>3 DEF Ack, LogType, DsInv, LinkInv, ManagerType
      <4> QED
        BY <1>6, <2>2, <4>2, <4>3
    <3> QED
      BY <3>1, <3>2
  <2> QED
    BY <1>4, <2>1, <2>2
<1>10. EndInv'
  BY <1>1, <1>5, <1>8, <1>9, EndStays DEF mainVars, readerVars
<1>11. CurrentInv'
  BY <1>1, <1>5, CurrentGoesOn DEF mainVars, readerVars, fileVars, Restarting
<1>12. PosInv'
  <2>1. Pos' = Pos /\ \A n: Live(n)' => Live(n)
    BY <1>5 DEF Pos, Live, mainVars, readerVars, Restarting
  <2>2. (\A j \in 1 .. Len(acks): acks[j].id <= streams /\ (Live(acks[j].id) => acks[j].seq <= Pos))'
    BY <1>1, <1>5, <1>7, <2>1, AcksStay DEF mainVars, readerVars
  <2>3. log'.head <= Pos'
    BY <1>1, <1>9, <2>1 DEF PosInv
  <2> QED
    BY <1>1, <1>5, <1>8, <2>1, <2>2, <2>3 DEF PosInv, mainVars, readerVars
<1> QED
  BY <1>10, <1>11, <1>12 DEF LossInv

\* The buffer takes all that was written, however wide the window was before.
LEMMA HandlerDisconnectLoss ==
  ASSUME Roomy, DsInv, LossInv, HandlerDisconnect PROVE LossInv'
<1>1. /\ UNCHANGED <<linkVars, attached, mainVars>>
      /\ handler.stage = "disconnect" /\ handler' = [handler EXCEPT !.stage = "connect"]
  BY DEF HandlerDisconnect
<1>2. /\ UNCHANGED <<endVars, connecting, readVars, pkt>>
      /\ senderLoop' = "send" => senderLoop = "send"
  BY DEF HandlerDisconnect, ClientDisconnected, Signal, smVars, sendVars
<1>3. EndInv /\ CurrentInv /\ PosInv
  BY DEF LossInv
<1>4. /\ log'.total = log.total /\ log'.head = log.head
      /\ log'.sync \/ log'.window = CirBufSize
  <2>1. CASE UNCHANGED smVars
    BY <1>3, <2>1 DEF smVars, EndInv
  <2>2. CASE ClientDisconnected
    <3>1. log' = ResizeLog(log, CirBufSize, FALSE, CirBufSize)
      BY <2>2 DEF ClientDisconnected
    <3>2. /\ log'.total = log.total /\ log'.window = CirBufSize
          /\ log'.head = Greatest(log.head, log.total - CirBufSize)
      BY <3>1 DEF ResizeLog, LogOf, Least
    <3>3. log.head \in Nat /\ log.total \in Nat /\ chunk \in Nat /\ log.total + chunk <= MaxStream
      BY <1>3 DEF EndInv, LogType, DsInv, LinkInv, ManagerType
    <3>4. log.total - CirBufSize <= 0
      BY <3>3, SizesAssumption DEF Roomy
    <3> QED
      BY <3>2, <3>3, <3>4, SizesAssumption DEF Greatest
  <2> QED
    BY <2>1, <2>2 DEF HandlerDisconnect
<1>5. EndInv'
  BY <1>1, <1>2, <1>3, <1>4, EndStays DEF linkVars, mainVars, readerVars
<1>6. CurrentInv'
  BY <1>1, <1>3, CurrentGoesOn DEF linkVars, mainVars, readerVars, fileVars, Restarting
<1>7. PosInv'
  <2>1. Pos' = Pos /\ \A n: Live(n)' = Live(n)
    BY <1>1 DEF Pos, Live, mainVars, readerVars, Restarting
  <2>2. handler'.seq = handler.seq
    BY <1>1 DEF DsInv, LinkInv, LinkType
  <2> QED
    BY <1>1, <1>2, <1>3, <1>4, <2>1, <2>2 DEF PosInv, linkVars, mainVars, readerVars
<1> QED
  BY <1>5, <1>6, <1>7 DEF LossInv

\* The position that the job manager is asked for is that of the new reader: it has no data yet,
\* and everything before is in the file.
LEMMA UnansweredPos ==
  ASSUME DsInv, CurrentInv, Unanswered PROVE restart.cur = Pos
<1>1. Restarting /\ Unstarted
  BY DEF Unanswered, Restarting, Unstarted
<1>2. /\ restart.cur = Len(file) + totalGap /\ restart.id = jobStream
      /\ Len(file) + totalGap + Len(reader[restart.id].buffer) = reader[restart.id].nextSeq
  BY <1>1 DEF DsInv, FileInv, RestartInOrder
<1>3. reader[restart.id].buffer = <<>>
  BY <1>1 DEF DsInv, FileInv, NoDataRead
<1>4. Len(reader[restart.id].buffer) = 0
  BY <1>3
<1>5. restart.cur \in Nat /\ Len(file) \in Nat /\ totalGap \in Nat
  BY DEF DsInv, FileInv, MainType
<1> QED
  BY <1>2, <1>4, <1>5 DEF Pos

LEMMA PrepareConnectLoss ==
  ASSUME Roomy, DsInv, LossInv, PrepareConnect PROVE LossInv'
<1>1. UNCHANGED <<smVars, linkVars, attached, readerVars, fileVars>>
  BY DEF PrepareConnect
<1>2. restart \in [stage: RestartStage, id: Nat, cur: Nat, gap: Nat, reply: Int]
  BY DEF DsInv, FileInv, MainType
<1>3. restart.stage = "prepare"
  BY DEF PrepareConnect
<1>4. /\ restart'.stage \in {"already", "wait"} /\ restart'.id = restart.id
      /\ handler' = handler \/ handler'.seq = restart.cur
  BY <1>2 DEF PrepareConnect
<1>5. EndInv /\ CurrentInv /\ PosInv
  BY DEF LossInv
<1>6. EndInv'
  <2>1. log.total \in Nat
    BY DEF DsInv, LinkInv, ManagerType, LogType
  <2> QED
    BY <1>1, <1>5, <2>1, EndStays
       DEF smVars, linkVars, readerVars, endVars, readVars, sendVars, EndInv
<1>7. Restarting /\ Restarting'
  BY <1>3, <1>4 DEF Restarting
<1>8. CurrentInv'
  BY <1>1, <1>5, <1>7, CurrentGoesOn DEF linkVars, readerVars, fileVars
<1>9. restart.cur = Pos
  BY <1>3, <1>5, UnansweredPos DEF Unanswered
<1>10. PosInv'
  <2>1. Pos' = Pos /\ \A n: Live(n)' = Live(n)
    BY <1>1, <1>4, <1>7 DEF Pos, Live, readerVars
  <2>2. restart'.stage # "reply"
    BY <1>4
  <2>3. handler'.stage # "none" => handler'.seq <= Pos
    <3>1. restart.cur \in Nat
      BY <1>2
    <3> QED
      BY <1>4, <1>5, <1>9, <3>1 DEF PosInv
  <2> QED
    BY <1>1, <1>5, <2>1, <2>2, <2>3 DEF PosInv, smVars, linkVars, readerVars
<1> QED
  BY <1>6, <1>8, <1>10 DEF LossInv

\* What the caller of PrepareConnect learns keeps the restart under way.
LEMMA AnswerStays ==
  ASSUME DsInv, NEW stage \in {"refused", "beyond", "reply"}, NEW reply, Answer(stage, reply)
  PROVE  /\ Restarting' = Restarting /\ restart'.id = restart.id
         /\ restart'.stage = "reply" => restart' = restart \/ (stage = "reply" /\ restart'.reply = reply)
<1>1. restart \in [stage: RestartStage, id: Nat, cur: Nat, gap: Nat, reply: Int]
  BY DEF DsInv, FileInv, MainType
<1>2. CASE restart' = restart
  BY <1>2 DEF Restarting
<1>3. CASE restart.stage = "wait" /\ restart' = [restart EXCEPT !.stage = stage, !.reply = reply]
  BY <1>1, <1>3 DEF Restarting
<1> QED
  BY <1>2, <1>3 DEF Answer

LEMMA HandlerConnectLoss ==
  ASSUME Roomy, DsInv, LossInv, HandlerConnect PROVE LossInv'
<1>1. UNCHANGED <<linkVars, attached, readerVars, fileVars>> /\ handler.stage = "connect"
  BY DEF HandlerConnect
<1>2. EndInv /\ CurrentInv /\ PosInv
  BY DEF LossInv
<1>3. /\ Restarting' = Restarting /\ restart'.id = restart.id
      /\ restart'.stage = "reply" => restart' = restart
  <2>1. CASE Answer("refused", 0)
    BY <2>1, AnswerStays
  <2>2. CASE restart' = restart
    BY <2>2 DEF Restarting
  <2> QED
    BY <2>1, <2>2 DEF HandlerConnect
<1>4. UNCHANGED <<log, endVars, readVars, sendVars>>
  BY DEF HandlerConnect, ConnectStart, smVars
<1>5. EndInv'
  BY <1>1, <1>2, <1>4, EndStays DEF linkVars, readerVars, sendVars, EndInv
<1>6. CurrentInv'
  BY <1>1, <1>2, <1>3, CurrentGoesOn DEF linkVars, readerVars, fileVars
<1>7. PosInv'
  <2>1. Pos' = Pos /\ \A n: Live(n)' = Live(n)
    BY <1>1, <1>3 DEF Pos, Live, readerVars
  <2>2. handler'.stage # "none" => handler'.seq <= Pos
    <3>1. CASE handler' = NoHandler
      BY <3>1 DEF NoHandler
    <3>2. CASE handler' = [handler EXCEPT !.stage = "connecting"]
      BY <1>1, <1>2, <3>2 DEF PosInv, DsInv, LinkInv, LinkType
    <3> QED
      BY <3>1, <3>2 DEF HandlerConnect
  <2>3. /\ connecting'.stage # "idle" => connecting'.seq <= Pos /\ connecting'.head <= Pos
        /\ connecting'.stage = "consume" => connecting'.head = log.head
    <3>1. CASE connecting' = connecting
      BY <1>2, <3>1 DEF PosInv
    <3>2. CASE ConnectStart(handler.id, 0, handler.seq)
      BY <1>1, <1>2, <3>2 DEF PosInv, ConnectStart
    <3> QED
      BY <3>1, <3>2 DEF HandlerConnect, smVars
  <2> QED
    BY <1>1, <1>2, <1>3, <1>4, <2>1, <2>2, <2>3 DEF PosInv, linkVars, readerVars
<1> QED
  BY <1>5, <1>6, <1>7 DEF LossInv

\* The position answered is the one asked for, or that of the buffer's first byte.
LEMMA HandlerConnectingLoss ==
  ASSUME Roomy, DsInv, LossInv, HandlerConnecting PROVE LossInv'
<1>1. UNCHANGED <<linkVars, attached, readerVars, fileVars>>
  BY DEF HandlerConnecting
<1>2. EndInv /\ CurrentInv /\ PosInv
  BY DEF LossInv
<1>3. /\ log.head \in Nat /\ log.total \in Nat /\ Pos \in Nat
      /\ connecting \in [stage: {"idle", "consume", "install"}, id: Nat, rwnd: Nat, seq: Int, head: Nat]
  <2>1. Pos \in Nat /\ log.head \in Nat /\ log.total \in Nat
    BY <1>2, LossTypes DEF CurrentInv
  <2> QED
    BY <2>1 DEF DsInv, LinkInv, ManagerType
<1>4. connecting.stage # "idle"
  BY DEF HandlerConnecting, ConnectBeyondEnd, ConnectConsume, ConnectInstall
<1>5. connecting.seq <= Pos /\ connecting.head <= Pos
  BY <1>2, <1>4 DEF PosInv
<1>6. /\ Restarting' = Restarting /\ restart'.id = restart.id
      /\ restart'.stage = "reply" => restart' = restart \/ restart'.reply <= Pos
  <2>1. CASE Answer("beyond", 0)
    BY <2>1, AnswerStays
  <2>2. CASE Answer("reply", ConnectSeq)
    <3>1. ConnectSeq <= Pos
      BY <1>3, <1>5 DEF ConnectSeq, Greatest
    <3> QED
      BY <2>2, <3>1, AnswerStays
  <2>3. CASE restart' = restart
    BY <2>3 DEF Restarting
  <2> QED
    BY <2>1, <2>2, <2>3 DEF HandlerConnecting
<1>7. /\ UNCHANGED <<endVars, readVars, pkt>>
      /\ senderLoop' = "send" => senderLoop = "send"
  BY DEF HandlerConnecting, ConnectBeyondEnd, ConnectConsume, ConnectInstall, Signal, sendVars
<1>8. /\ log'.total = log.total
      /\ log'.sync \/ log'.window = CirBufSize
      /\ log'.head <= Pos
      /\ connecting'.stage # "idle" => connecting'.seq <= Pos /\ connecting'.head <= Pos
      /\ connecting'.stage # "consume"
  <2>1. CASE ConnectBeyondEnd
    BY <1>2, <2>1 DEF ConnectBeyondEnd, EndInv, PosInv, Idle
  <2>2. CASE ConnectConsume
    <3> DEFINE have == connecting.seq - connecting.head
    <3>1. /\ connecting.stage = "consume"
          /\ log' = IF have > 0 THEN ConsumeLog(log, have) ELSE log
          /\ connecting' = [connecting EXCEPT !.stage = "install",
                                              !.head = IF have > 0 THEN log'.head ELSE connecting.head]
      BY <2>2 DEF ConnectConsume
    <3>2. connecting.head = log.head
      BY <1>2, <3>1 DEF PosInv
    <3>3. CASE have > 0
      <4>1. log' = ConsumeLog(log, have)
        BY <3>1, <3>3
      <4>2. have + log.head = connecting.seq /\ log.head + have = connecting.seq
        BY <1>3, <3>2
      <4> HIDE DEF have
      <4>3. /\ log'.head = connecting.seq /\ log'.total = log.total
            /\ log'.sync = log.sync /\ log'.window = log.window
        BY <4>1, <4>2 DEF ConsumeLog, LogOf
      <4>4. /\ connecting'.stage = "install" /\ connecting'.seq = connecting.seq
            /\ connecting'.head = log'.head
        BY <1>3, <3>1, <3>3
      <4> QED
        BY <1>2, <1>5, <4>3, <4>4 DEF EndInv
    <3>4. CASE ~(have > 0)
      <4> HIDE DEF have
      <4>1. /\ log' = log /\ connecting'.stage = "install" /\ connecting'.seq = connecting.seq
            /\ connecting'.head = connecting.head
        BY <1>3, <3>1, <3>4
      <4> QED
        BY <1>2, <1>5, <4>1 DEF EndInv, PosInv
    <3> QED
      BY <3>3, <3>4
  <2>3. CASE ConnectInstall
    <3>1. log' = ResizeLog(log, CirBufSize, TRUE, EffectiveWindow(connecting.rwnd)) /\ connecting' = Idle
      BY <2>3 DEF ConnectInstall
    <3>2. log'.total = log.total /\ log'.sync /\ log'.head = log.head
      BY <3>1 DEF ResizeLog, LogOf
    <3> QED
      BY <1>2, <3>1, <3>2 DEF PosInv, Idle
  <2> QED
    BY <2>1, <2>2, <2>3 DEF HandlerConnecting
<1>9. EndInv'
  BY <1>1, <1>2, <1>7, <1>8, EndStays DEF linkVars, readerVars
<1>10. CurrentInv'
  BY <1>1, <1>2, <1>6, CurrentGoesOn DEF linkVars, readerVars, fileVars
<1>11. PosInv'
  <2>1. Pos' = Pos /\ \A n: Live(n)' = Live(n)
    BY <1>1, <1>6 DEF Pos, Live, readerVars
  <2>2. handler'.stage # "none" => handler'.seq <= Pos
    BY <1>2 DEF HandlerConnecting, NoHandler, PosInv
  <2> QED
    BY <1>1, <1>2, <1>6, <1>8, <2>1, <2>2 DEF PosInv, linkVars, readerVars
<1> QED
  BY <1>9, <1>10, <1>11 DEF LossInv

LEMMA StartStreamLoss ==
  ASSUME Roomy, DsInv, LossInv, StartStream PROVE LossInv'
<1>1. UNCHANGED <<linkVars, handler, readerVars, fileVars>>
  BY DEF StartStream
<1>2. restart \in [stage: RestartStage, id: Nat, cur: Nat, gap: Nat, reply: Int]
  BY DEF DsInv, FileInv, MainType
<1>3. /\ restart.stage = "start" /\ attached' = attached \cup {restart.id}
      /\ restart'.stage = "run" /\ restart'.id = restart.id
  BY <1>2 DEF StartStream
<1>4. EndInv /\ CurrentInv /\ PosInv
  BY DEF LossInv
<1>5. Restarting /\ Restarting'
  BY <1>3 DEF Restarting
<1>6. /\ UNCHANGED <<endVars, connecting, readVars, pkt>>
      /\ senderLoop' = "send" => senderLoop = "send"
      /\ log' = ResizeLog(log, CirBufSize, TRUE, EffectiveWindow(ReadWindow))
  BY DEF StartStream, SetRwndSize, Signal, sendVars
<1>7. log'.total = log.total /\ log'.sync /\ log'.head = log.head
  BY <1>6 DEF ResizeLog, LogOf
<1>8. EndInv'
  BY <1>1, <1>4, <1>6, <1>7, EndStays DEF linkVars, readerVars
<1>9. CurrentInv'
  BY <1>1, <1>4, <1>5, CurrentGoesOn DEF linkVars, readerVars, fileVars
<1>10. PosInv'
  <2>1. Pos' = Pos /\ \A n: Live(n)' = Live(n)
    BY <1>1, <1>3, <1>5 DEF Pos, Live, readerVars
  <2> QED
    BY <1>1, <1>3, <1>4, <1>6, <1>7, <2>1 DEF PosInv, linkVars, readerVars
<1> QED
  BY <1>8, <1>9, <1>10 DEF LossInv

-----------------------------------------------------------------------------
(* What the main server does *)

\* No packet appears, and every reader stays sound.
LEMMA EndMain ==
  ASSUME EndInv, UNCHANGED smVars,
         \A i \in 1 .. Len(data'): \E k \in 1 .. Len(data): data'[i] = data[k],
         \A n \in Stream: SoundReader(reader'[n])
  PROVE  EndInv'
<1>1. UNCHANGED <<log, endVars, readVars, sendVars>>
  BY DEF smVars
<1>2. \A i \in 1 .. Len(data'): Sound(data'[i])
  BY DEF EndInv
<1>3. (\A i \in 1 .. Len(data): Sound(data[i]))'
  BY <1>1, <1>2 DEF Sound, endVars
<1>4. (\A n \in Stream: SoundReader(reader[n]))'
  BY <1>1 DEF SoundReader, Sound, endVars
<1>5. (senderLoop = "send" => Sound(pkt))'
  BY <1>1 DEF EndInv, Sound, endVars, sendVars
<1> QED
  BY <1>1, <1>3, <1>4, <1>5 DEF EndInv, endVars, readVars

\* An ack that is sent tells the position of the job's reader at most, if it is for it.
AcksGoOn ==
  \A i \in 1 .. Len(acks'):
    \/ \E k \in 1 .. Len(acks): acks'[i] = acks[k]
    \/ acks'[i].id = jobStream /\ (Live(acks[i].id)' => acks'[i].seq <= Pos')

\* The reader of the job's stream never goes back.
LEMMA PosGoesOn ==
  ASSUME DsInv, LossInv, UNCHANGED <<smVars, jmVars>>, Pos' \in Nat, Pos <= Pos',
         streams' \in Nat, streams <= streams', jobStream <= streams,
         restart'.stage = "reply" => restart.stage = "reply" /\ restart'.reply = restart.reply,
         \A n \in 1 .. streams: Live(n)' => Live(n),
         AcksGoOn
  PROVE  PosInv'
<1>1. PosInv /\ jobStream \in Stream
  BY DEF LossInv, CurrentInv
<1>2. log.head \in Nat /\ Pos \in Nat /\ streams \in Nat
  BY <1>1, LossTypes
<1>3. /\ connecting.seq \in Int /\ connecting.head \in Nat /\ handler.seq \in Nat
      /\ restart.reply \in Int /\ acks \in Seq(Ack)
  BY DEF DsInv, LinkInv, ManagerType, LinkType, FileInv, MainType
<1>4. UNCHANGED <<log, connecting, handler>>
  BY DEF smVars, jmVars
<1>5. ASSUME NEW i \in 1 .. Len(acks')
      PROVE  acks'[i].id <= streams' /\ (Live(acks[i].id)' => acks'[i].seq <= Pos')
  <2>1. CASE acks'[i].id = jobStream /\ (Live(acks[i].id)' => acks'[i].seq <= Pos')
    BY <1>1, <1>2, <2>1 DEF Stream
  <2>2. ASSUME NEW k \in 1 .. Len(acks), acks'[i] = acks[k]
        PROVE  acks'[i].id <= streams' /\ (Live(acks[i].id)' => acks'[i].seq <= Pos')
    <3>1. acks[k] \in Ack
      BY <1>3, ElementOfSeq
    <3>2. acks[k].id \in Stream /\ acks[k].seq \in Int
      BY <3>1 DEF Ack
    <3>3. acks[k].id <= streams /\ (Live(acks[k].id) => acks[k].seq <= Pos)
      BY <1>1 DEF PosInv
    <3>4. acks[k].id \in 1 .. streams
      BY <1>2, <3>2, <3>3, SizesAssumption DEF Stream
    <3>5. ASSUME NEW n \in 1 .. streams, n = acks[k].id PROVE Live(n)' => Live(n)
      OBVIOUS
    <3>6. Live(acks[i].id)' => Live(acks[k].id)
      BY <2>2, <3>4, <3>5 DEF Live
    <3>7. Live(acks[i].id)' => acks[k].seq <= Pos'
      BY <1>2, <3>2, <3>3, <3>6
    <3>8. acks[k].id <= streams'
      BY <1>2, <3>3, <3>4
    <3> QED
      BY <2>2, <3>7, <3>8
  <2> QED
    BY <2>1, <2>2 DEF AcksGoOn
<1>6. log'.head <= Pos'
  BY <1>1, <1>2, <1>4 DEF PosInv
<1>7. /\ connecting'.stage # "idle" => connecting'.seq <= Pos' /\ connecting'.head <= Pos'
      /\ connecting'.stage = "consume" => connecting'.head = log'.head
  BY <1>1, <1>2, <1>3, <1>4 DEF PosInv
<1>8. handler'.stage # "none" => handler'.seq <= Pos'
  BY <1>1, <1>2, <1>3, <1>4 DEF PosInv
<1>9. restart'.stage = "reply" => restart'.reply <= Pos'
  BY <1>1, <1>2, <1>3 DEF PosInv
<1> QED
  BY <1>5, <1>6, <1>7, <1>8, <1>9 DEF PosInv

\* The broker sends no ack but for the job's stream.
LEMMA AckSent ==
  ASSUME CurrentInv, acks \in Seq(Ack), NEW ack \in Ack, SendAck(ack),
         ack.id = jobStream => (~Live(ack.id)' \/ ack.seq <= Pos')
  PROVE  AcksGoOn
<1>1. CASE acks' = acks
  BY <1>1 DEF AcksGoOn
<1>2. CASE acks' = Append(acks, ack) /\ ack.id = carries
  <2>1. ack.id \in Stream /\ 0 \notin Stream
    BY SizesAssumption DEF Ack, Stream
  <2>2. ack.id = jobStream
    BY <1>2, <2>1 DEF CurrentInv
  <2>3. /\ \A i \in 1 .. Len(acks'): i \in 1 .. Len(acks) \/ i = Len(acks) + 1
        /\ \A i \in 1 .. Len(acks): acks'[i] = acks[i]
        /\ acks'[Len(acks) + 1] = ack
    BY <1>2, Appended
  <2>4. ASSUME NEW i \in 1 .. Len(acks'), i = Len(acks) + 1
        PROVE  acks'[i].id = jobStream /\ (Live(acks[i].id)' => acks'[i].seq <= Pos')
    <3>1. acks'[i] = ack
      BY <2>3, <2>4
    <3> QED
      BY <2>2, <3>1 DEF Live
  <2> QED
    BY <2>3, <2>4 DEF AcksGoOn
<1> QED
  BY <1>1, <1>2 DEF SendAck

LEMMA TakeSound ==
  ASSUME NEW r \in ReaderType, NEW p \in Packet, p.seq = r.nextSeq, ~Ended(r), SoundReader(r),
         Sound(p)
  PROVE  /\ SoundReader(Take(r, p)) /\ r.nextSeq <= Take(r, p).nextSeq
         /\ Take(r, p).open = r.open /\ Take(r, p).err = r.err
<1>1. r.nextSeq \in Nat /\ p.len \in Nat /\ p.seq \in Int
  BY DEF ReaderType, Packet
<1> DEFINE b == r.buffer \o [i \in 1 .. p.len |-> p.seq + i - 1]
           e == r.eof \/ p.end = "eof"
           q == r.nextSeq + p.len
<1>2. q \in Nat /\ r.nextSeq <= q /\ (p.end = "eof" => terminalEvent # "none" /\ q = eofPos)
  BY <1>1 DEF Sound
<1>3. Take(r, p) = [r EXCEPT !.buffer = b, !.nextSeq = q, !.eof = e]
  BY DEF Take, ReaderType
<1>4. e = (p.end = "eof") /\ ~r.err
  BY DEF Ended
<1> HIDE DEF b, e, q
<1>5. /\ Take(r, p).nextSeq = q /\ Take(r, p).open = r.open /\ Take(r, p).err = r.err
      /\ Take(r, p).ooo = r.ooo /\ Take(r, p).eof = e
  BY <1>3 DEF ReaderType
<1> QED
  BY <1>2, <1>4, <1>5 DEF SoundReader

LEMMA TakeKeptSound ==
  ASSUME NEW r \in ReaderType, IsFiniteSet(r.ooo), Consecutive(r), SoundReader(r), ~r.err
  PROVE  /\ SoundReader(TakeKept(r)) /\ r.nextSeq <= TakeKept(r).nextSeq
         /\ TakeKept(r).open = r.open /\ TakeKept(r).err = r.err
<1>0. r.nextSeq \in Nat
  BY DEF ReaderType
<1>1. CASE r.eof
  <2>1. TakeKept(r) = [r EXCEPT !.ooo = {}]
    BY <1>1 DEF TakeKept
  <2>2. /\ TakeKept(r).nextSeq = r.nextSeq /\ TakeKept(r).open = r.open /\ TakeKept(r).err = r.err
        /\ TakeKept(r).ooo = {} /\ TakeKept(r).eof = r.eof
    BY <2>1 DEF ReaderType
  <2> QED
    BY <1>0, <2>2 DEF SoundReader
<1>2. CASE ~r.eof /\ \E p \in r.ooo: IsNextKept(r, p)
  <2> DEFINE p == CHOOSE q \in r.ooo: IsNextKept(r, q)
  <2>1. p \in r.ooo /\ p.seq = r.nextSeq
    BY <1>2 DEF IsNextKept
  <2>2. TakeKept(r) = [Take(r, p) EXCEPT !.ooo = Take(r, p).ooo \ {p}]
    BY <1>2 DEF TakeKept
  <2> HIDE DEF p
  <2>3. p \in Packet /\ Sound(p)
    BY <2>1 DEF ReaderType, SoundReader
  <2>4. /\ SoundReader(Take(r, p)) /\ r.nextSeq <= Take(r, p).nextSeq
        /\ Take(r, p).open = r.open /\ Take(r, p).err = r.err
    BY <1>2, <2>1, <2>3, TakeSound DEF Ended
  <2>5. Take(r, p) \in ReaderType
    BY <2>1, <2>3, TakeFacts
  <2> DEFINE t == Take(r, p)
  <2>6. t \in ReaderType /\ TakeKept(r) = [t EXCEPT !.ooo = t.ooo \ {p}]
    BY <2>2, <2>5
  <2>7. SoundReader(t) /\ r.nextSeq <= t.nextSeq /\ t.open = r.open /\ t.err = r.err
    BY <2>4
  <2> HIDE DEF t
  <2>8. /\ TakeKept(r).nextSeq = t.nextSeq /\ TakeKept(r).open = t.open /\ TakeKept(r).err = t.err
        /\ TakeKept(r).ooo \subseteq t.ooo /\ TakeKept(r).eof = t.eof
    BY <2>6 DEF ReaderType
  <2> QED
    BY <2>7, <2>8 DEF SoundReader
<1>3. CASE ~r.eof /\ ~\E p \in r.ooo: IsNextKept(r, p)
  BY <1>0, <1>3 DEF TakeKept
<1> QED
  BY <1>1, <1>2, <1>3

\* A packet in order, and those kept that follow it, move the reader forward, to the end at most.
LEMMA InOrderSound ==
  ASSUME NEW r \in ReaderType, IsFiniteSet(r.ooo), Consecutive(r), SoundReader(r),
         NEW p \in Packet, Sound(p), p.seq = r.nextSeq, ~Ended(r),
         NEW x, x = ProcessOOO(Take(r, p))
  PROVE  /\ x \in ReaderType /\ SoundReader(x) /\ Base(x) = Base(r)
         /\ r.nextSeq <= x.nextSeq /\ x.open = r.open
<1> DEFINE t == Take(r, p)
           G == {y \in ReaderType: /\ Continues(t, y) /\ SoundReader(y)
                                   /\ t.nextSeq <= y.nextSeq /\ y.open = t.open /\ ~y.err}
<1>1. t \in ReaderType /\ t.ooo = r.ooo /\ Consecutive(t) /\ Base(t) = Base(r)
  BY TakeFacts
<1>2. SoundReader(t) /\ r.nextSeq <= t.nextSeq /\ t.open = r.open /\ ~t.err
  BY TakeSound DEF Ended
<1>3. x = ProcessOOO(t)
  OBVIOUS
<1> HIDE DEF t
<1>4. t.nextSeq \in Nat /\ r.nextSeq \in Nat
  BY <1>1 DEF ReaderType
<1>5. t \in G
  BY <1>1, <1>2, <1>4, ContinuesSelf
<1>6. ASSUME NEW y \in G PROVE TakeKept(y) \in G
  <2>1. /\ y \in ReaderType /\ Continues(t, y) /\ SoundReader(y) /\ t.nextSeq <= y.nextSeq
        /\ y.open = t.open /\ ~y.err /\ IsFiniteSet(y.ooo) /\ Consecutive(y)
    BY <1>6 DEF Continues
  <2>2. Continues(y, TakeKept(y))
    BY <2>1, TakeKeptFacts
  <2>3. Continues(t, TakeKept(y))
    BY <2>1, <2>2, ContinuesOn
  <2>4. /\ SoundReader(TakeKept(y)) /\ y.nextSeq <= TakeKept(y).nextSeq /\ TakeKept(y).open = y.open
        /\ ~TakeKept(y).err
    BY <2>1, TakeKeptSound
  <2>5. TakeKept(y) \in ReaderType
    BY <2>2 DEF Continues
  <2>6. y.nextSeq \in Nat /\ TakeKept(y).nextSeq \in Nat
    BY <2>1, <2>5 DEF ReaderType
  <2>7. t.nextSeq <= TakeKept(y).nextSeq
    BY <1>4, <2>1, <2>4, <2>6
  <2> QED
    BY <2>1, <2>3, <2>4, <2>5, <2>7
<1>7. x \in G
  <2> HIDE DEF G
  <2> QED
    BY <1>1, <1>3, <1>5, <1>6, ProcessOOORounds
<1>8. /\ x \in ReaderType /\ Continues(t, x) /\ SoundReader(x) /\ t.nextSeq <= x.nextSeq
      /\ x.open = t.open
  BY <1>7
<1>9. x.nextSeq \in Nat /\ Base(x) = Base(t)
  BY <1>8 DEF ReaderType, Continues
<1> QED
  BY <1>1, <1>2, <1>4, <1>8, <1>9

\* The current reader is open as long as the job manager listens to it, unless it reached the end.
LEMMA LiveReader ==
  ASSUME DsInv, CurrentInv, Live(jobStream) \/ Restarting
  PROVE  reader[jobStream].open \/ Ended(reader[jobStream])
<1>1. loop[jobStream].stage \in {"none", "read", "append", "done"}
  BY DEF DsInv, FileInv, MainType, CurrentInv
<1> QED
  BY <1>1 DEF CurrentInv, Live

\* A packet that arrives moves the reader forward or leaves it where it is.
LEMMA ReceiveLoss ==
  ASSUME ~cut', DsInv, LossInv, NEW p \in Packet, Sound(p),
         UNCHANGED <<jobStream, attached, restart>>,
         RecvUnwanted(p) \/ RecvError(p) \/ RecvOutOfOrder(p) \/ RecvInOrder(p)
  PROVE  /\ AcksGoOn
         /\ \/ reader' = reader
            \/ \E r2 \in ReaderType:
                 /\ reader' = [reader EXCEPT ![p.id] = r2] /\ Listening(reader[p.id])
                 /\ SoundReader(r2) /\ Base(r2) = Base(reader[p.id])
                 /\ reader[p.id].nextSeq <= r2.nextSeq /\ r2.open = reader[p.id].open
<1> DEFINE r == reader[p.id]
<1>1. p.id \in Stream /\ p.seq \in Int /\ p.len \in Nat
  BY DEF Packet
<1>2. /\ reader \in [Stream -> ReaderType] /\ acks \in Seq(Ack)
      /\ r \in ReaderType /\ IsFiniteSet(r.ooo) /\ Consecutive(r)
  BY <1>1 DEF DsInv, FileInv, MainType, LinkInv, LinkType
<1>3. /\ EndInv /\ CurrentInv /\ SoundReader(r) /\ r.nextSeq \in Nat
  BY <1>1, <1>2 DEF LossInv, EndInv, ReaderType
<1>4. \A n: Live(n)' = Live(n)
  BY DEF Live, Restarting
<1>5. CASE RecvUnwanted(p)
  <2>1. reader' = reader /\ ~Listening(r)
    BY <1>5 DEF RecvUnwanted
  <2>2. CASE acks' = acks
    BY <2>1, <2>2 DEF AcksGoOn
  <2>3. CASE SendAck([id |-> p.id, seq |-> p.seq, rwnd |-> 0, fin |-> FALSE, cancel |-> TRUE])
    <3> DEFINE ack == [id |-> p.id, seq |-> p.seq, rwnd |-> 0, fin |-> FALSE, cancel |-> TRUE]
    <3>1. ack \in Ack /\ ack.id = p.id /\ ack.seq = p.seq /\ SendAck(ack)
      BY <1>1, <2>3 DEF Ack
    <3> HIDE DEF ack
    <3>2. ASSUME p.id = jobStream, Live(jobStream) PROVE p.seq <= Pos'
      <4>1. r.eof \/ r.err
        BY <1>3, <2>1, <3>2, LiveReader DEF Listening, Ended
      <4>2. r.nextSeq = eofPos /\ eofPos = log.total /\ p.seq <= log.total
        BY <1>3, <4>1 DEF SoundReader, EndInv, Sound
      <4>3. Pos' = r.nextSeq
        BY <2>1, <3>2 DEF Pos
      <4> QED
        BY <4>2, <4>3
    <3>3. ack.id = jobStream => (~Live(ack.id)' \/ ack.seq <= Pos')
      BY <1>4, <3>1, <3>2
    <3> QED
      BY <1>2, <1>3, <2>1, <3>1, <3>3, AckSent
  <2> QED
    BY <1>5, <2>2, <2>3 DEF RecvUnwanted
<1>6. CASE RecvError(p)
  <2> DEFINE e == [r EXCEPT !.err = TRUE]
             y == Acked(e)
             ack == AckFrom(p.id, r, TRUE, FALSE)
  <2>1. /\ Listening(r) /\ p.end = "error" /\ p.seq = r.nextSeq /\ r.buffer = <<>>
        /\ reader' = [reader EXCEPT ![p.id] = y] /\ SendAck(ack)
    BY <1>6 DEF RecvError
  <2>2. /\ e \in ReaderType /\ e.buffer = r.buffer /\ e.nextSeq = r.nextSeq /\ e.ooo = r.ooo
        /\ e.open = r.open /\ e.err = TRUE /\ e.eof = r.eof
    BY <1>2 DEF ReaderType
  <2> HIDE DEF e
  <2>3. /\ y \in ReaderType /\ y.buffer = e.buffer /\ y.nextSeq = e.nextSeq /\ y.ooo = e.ooo
    BY <2>2, AckedFacts
  <2>4. y.open = e.open /\ y.err = e.err /\ y.eof = e.eof
    BY <2>2 DEF Acked, ReaderType
  <2>5. ack \in Ack
    BY <1>1, <1>2, AckFromFacts
  <2>6. ack.id = p.id /\ ack.seq = r.nextSeq
    BY DEF AckFrom
  <2> HIDE DEF y, ack
  <2>7. ack.id = jobStream => ack.seq <= Pos'
    <3> SUFFICES ASSUME ack.id = jobStream PROVE ack.seq <= Pos'
      OBVIOUS
    <3>1. Pos' = y.nextSeq
      BY <1>1, <1>2, <2>1, <2>6 DEF Pos
    <3> QED
      BY <1>3, <2>2, <2>3, <2>6, <3>1
  <2>8. AcksGoOn
    BY <1>2, <1>3, <2>1, <2>5, <2>7, AckSent
  <2>9. SoundReader(y) /\ Base(y) = Base(r) /\ r.nextSeq <= y.nextSeq /\ y.open = r.open
    <3>1. terminalEvent # "none" /\ r.nextSeq = eofPos
      BY <2>1 DEF Sound
    <3>2. SoundReader(y)
      BY <1>3, <2>1, <2>2, <2>3, <2>4, <3>1 DEF SoundReader
    <3> QED
      BY <1>3, <2>2, <2>3, <2>4, <3>2 DEF Base
  <2> QED
    BY <2>1, <2>3, <2>8, <2>9
<1>7. CASE RecvOutOfOrder(p)
  <2>1. /\ Listening(r) /\ acks' = acks
        /\ reader' = [reader EXCEPT ![p.id] = IF p.seq > r.nextSeq THEN Keep(r, p) ELSE r]
    BY <1>7 DEF RecvOutOfOrder
  <2>2. AcksGoOn
    BY <2>1 DEF AcksGoOn
  <2>3. CASE reader' = [reader EXCEPT ![p.id] = r]
    <3>1. reader' = reader
      BY <1>2, <2>3
    <3> QED
      BY <2>2, <3>1
  <2>4. CASE reader' = [reader EXCEPT ![p.id] = [r EXCEPT !.ooo = r.ooo \cup {p}]]
    <3> DEFINE r2 == [r EXCEPT !.ooo = r.ooo \cup {p}]
    <3>1. /\ r2 \in ReaderType /\ r2.ooo = r.ooo \cup {p} /\ r2.nextSeq = r.nextSeq
          /\ r2.buffer = r.buffer /\ r2.open = r.open /\ r2.err = r.err /\ r2.eof = r.eof
      BY <1>2 DEF ReaderType
    <3>2. reader' = [reader EXCEPT ![p.id] = r2]
      BY <2>4
    <3> HIDE DEF r2
    <3>3. SoundReader(r2) /\ Base(r2) = Base(r) /\ r.nextSeq <= r2.nextSeq
      BY <1>3, <3>1 DEF SoundReader, Base
    <3> QED
      BY <2>1, <2>2, <3>1, <3>2, <3>3
  <2> QED
    BY <2>1, <2>3, <2>4 DEF Keep
<1>8. CASE RecvInOrder(p)
  <2> DEFINE x == ProcessOOO(Take(r, p))
  <2>1. /\ Listening(r) /\ p.seq = r.nextSeq
        /\ reader' = [reader EXCEPT ![p.id] = Acked(x)]
        /\ SendAck(AckFrom(p.id, x, x.eof, FALSE))
    BY <1>8 DEF RecvInOrder
  <2>2. /\ x \in ReaderType /\ SoundReader(x) /\ Base(x) = Base(r)
        /\ r.nextSeq <= x.nextSeq /\ x.open = r.open
    BY <1>2, <1>3, <2>1, InOrderSound DEF Listening, Ended
  <2> HIDE DEF x
  <2> DEFINE y == Acked(x)
             ack == AckFrom(p.id, x, x.eof, FALSE)
  <2>3. /\ y \in ReaderType /\ y.buffer = x.buffer /\ y.nextSeq = x.nextSeq /\ y.ooo = x.ooo
    BY <2>2, AckedFacts
  <2>4. y.open = x.open /\ y.err = x.err /\ y.eof = x.eof
    BY <2>2 DEF Acked, ReaderType
  <2>5. ack \in Ack
    BY <1>1, <2>2, AckFromFacts DEF ReaderType
  <2>6. ack.id = p.id /\ ack.seq = x.nextSeq
    BY DEF AckFrom
  <2>7. reader' = [reader EXCEPT ![p.id] = y] /\ SendAck(ack)
    BY <2>1
  <2> HIDE DEF y, ack
  <2>8. ack.id = jobStream => ack.seq <= Pos'
    <3> SUFFICES ASSUME ack.id = jobStream PROVE ack.seq <= Pos'
      OBVIOUS
    <3>1. Pos' = y.nextSeq /\ x.nextSeq \in Nat
      BY <1>1, <1>2, <2>2, <2>6, <2>7 DEF Pos, ReaderType
    <3> QED
      BY <2>3, <2>6, <3>1
  <2>9. AcksGoOn
    BY <1>2, <1>3, <2>5, <2>7, <2>8, AckSent
  <2>10. SoundReader(y) /\ Base(y) = Base(r) /\ r.nextSeq <= y.nextSeq /\ y.open = r.open
    BY <2>2, <2>3, <2>4 DEF SoundReader, Base
  <2> QED
    BY <2>1, <2>3, <2>7, <2>9, <2>10
<1> QED
  BY <1>5, <1>6, <1>7, <1>8

LEMMA DeliverDataLoss ==
  ASSUME ~cut', DsInv, LossInv, DeliverData PROVE LossInv'
<1>1. data \in Seq(Packet) /\ EndInv /\ CurrentInv
  BY DEF DsInv, LinkInv, LinkType, LossInv
<1>2. PICK i \in 1 .. Len(data):
        /\ data' = RemoveAt(data, i)
        /\ \/ RecvUnwanted(data[i]) \/ RecvError(data[i]) \/ RecvOutOfOrder(data[i])
           \/ RecvInOrder(data[i])
  BY <1>1 DEF DeliverData, Least
<1>3. UNCHANGED <<smVars, up, carries, jmVars, streams, jobStream, loop, fileVars, restart>>
  BY DEF DeliverData
<1> DEFINE p == data[i]
<1>4. p \in Packet /\ p.id \in Stream /\ Sound(p)
  <2>1. p \in Packet
    BY <1>1, ElementOfSeq
  <2> QED
    BY <1>1, <2>1 DEF Packet, EndInv
<1>5. RecvUnwanted(p) \/ RecvError(p) \/ RecvOutOfOrder(p) \/ RecvInOrder(p)
  BY <1>2
<1>6. \A j \in 1 .. Len(data'): \E k \in 1 .. Len(data): data'[j] = data[k]
  BY <1>1, <1>2, RemoveAtFacts
<1> HIDE DEF p
<1>7. /\ AcksGoOn
      /\ \/ reader' = reader
         \/ \E r2 \in ReaderType:
              /\ reader' = [reader EXCEPT ![p.id] = r2] /\ Listening(reader[p.id])
              /\ SoundReader(r2) /\ Base(r2) = Base(reader[p.id])
              /\ reader[p.id].nextSeq <= r2.nextSeq /\ r2.open = reader[p.id].open
  BY <1>3, <1>4, <1>5, ReceiveLoss DEF jmVars
<1>8. reader \in [Stream -> ReaderType] /\ jobStream \in Stream /\ Pos \in Nat
  BY <1>1, LossTypes DEF DsInv, FileInv, MainType, CurrentInv
<1>9. /\ \A n \in Stream: SoundReader(reader'[n])
      /\ reader'[jobStream] \in ReaderType
      /\ Base(reader'[jobStream]) = Base(reader[jobStream])
      /\ reader'[jobStream].open = reader[jobStream].open
      /\ Pos <= reader'[jobStream].nextSeq
      /\ reader'[jobStream] = reader[jobStream] \/ Listening(reader[jobStream])
  <2>1. CASE reader' = reader
    BY <1>1, <1>8, <2>1 DEF EndInv, Pos
  <2>2. ASSUME NEW r2 \in ReaderType,
               reader' = [reader EXCEPT ![p.id] = r2], Listening(reader[p.id]),
               SoundReader(r2), Base(r2) = Base(reader[p.id]),
               reader[p.id].nextSeq <= r2.nextSeq, r2.open = reader[p.id].open
        PROVE  /\ \A n \in Stream: SoundReader(reader'[n])
               /\ reader'[jobStream] \in ReaderType
               /\ Base(reader'[jobStream]) = Base(reader[jobStream])
               /\ reader'[jobStream].open = reader[jobStream].open
               /\ Pos <= reader'[jobStream].nextSeq
               /\ reader'[jobStream] = reader[jobStream] \/ Listening(reader[jobStream])
    <3>1. \A n \in Stream: reader'[n] = IF n = p.id THEN r2 ELSE reader[n]
      BY <1>8, <2>2
    <3>2. \A n \in Stream: SoundReader(reader'[n])
      BY <1>1, <2>2, <3>1 DEF EndInv
    <3>3. CASE jobStream = p.id
      BY <1>8, <2>2, <3>1, <3>2, <3>3 DEF Pos
    <3>4. CASE jobStream # p.id
      BY <1>8, <3>1, <3>2, <3>4 DEF Pos
    <3> QED
      BY <3>3, <3>4
  <2> QED
    BY <1>7, <2>1, <2>2
<1>10. EndInv'
  BY <1>1, <1>3, <1>6, <1>9, EndMain
<1>11. CurrentInv'
  <2> DEFINE r == reader[jobStream]
             x == reader'[jobStream]
             l == loop[jobStream]
  <2>1. /\ Len(file) + Len(l.got) = Base(r)
        /\ Restarting \/ l.stage \in {"read", "append"} => r.open
        /\ l.stage = "done" => Ended(r) /\ r.buffer = <<>>
        /\ l.stage = "none" /\ ~Restarting => ~r.open /\ r.buffer = <<>> /\ jobStream \notin attached
    BY <1>1 DEF CurrentInv
  <2>2. Base(x) = Base(r) /\ x.open = r.open /\ (x = r \/ (r.open /\ ~Ended(r)))
    BY <1>9 DEF Listening, Ended
  <2>3. x = reader'[jobStream'] /\ l = loop'[jobStream'] /\ Restarting' = Restarting
    BY <1>3 DEF Restarting
  <2> HIDE DEF r, x, l
  <2>4. /\ Len(file) + Len(l.got) = Base(x)
        /\ Restarting \/ l.stage \in {"read", "append"} => x.open
        /\ l.stage = "done" => Ended(x) /\ x.buffer = <<>>
        /\ l.stage = "none" /\ ~Restarting => ~x.open /\ x.buffer = <<>> /\ jobStream \notin attached
    BY <2>1, <2>2
  <2>5. Base(x) = Base(reader[jobStream])'
    BY <2>3 DEF Base
  <2> QED
    BY <1>1, <1>3, <2>3, <2>4, <2>5 DEF CurrentInv, fileVars, jmVars
<1>12. PosInv'
  <2>1. Pos' = reader'[jobStream].nextSeq /\ Pos' \in Nat /\ Pos <= Pos'
    BY <1>3, <1>9 DEF Pos, ReaderType
  <2>2. streams \in Nat /\ jobStream <= streams
    BY <1>8, LossTypes DEF DsInv, LinkInv, Numbered
  <2>3. \A n: Live(n)' = Live(n)
    BY <1>3 DEF Live, Restarting, jmVars
  <2>4. streams' \in Nat /\ streams <= streams'
    BY <1>3, <2>2
  <2> QED
    BY <1>3, <1>7, <2>1, <2>2, <2>3, <2>4, PosGoesOn
<1> QED
  BY <1>10, <1>11, <1>12 DEF LossInv

\* Close leaves the reader at its position, which its ack tells.
LEMMA CloseReaderLoss ==
  ASSUME DsInv, CurrentInv, NEW n \in Stream, CloseReader(n), UNCHANGED jobStream
  PROVE  /\ AcksGoOn
         /\ \E r2 \in ReaderType:
              /\ reader' = [reader EXCEPT ![n] = r2] /\ ~r2.open
              /\ r2.buffer = reader[n].buffer /\ r2.nextSeq = reader[n].nextSeq
              /\ r2.ooo = reader[n].ooo /\ r2.err = reader[n].err /\ r2.eof = reader[n].eof
<1>1. /\ reader \in [Stream -> ReaderType] /\ acks \in Seq(Ack) /\ reader[n] \in ReaderType
      /\ reader[n].nextSeq \in Nat
  BY DEF DsInv, FileInv, MainType, LinkInv, LinkType, ReaderType
<1>2. CASE ~reader[n].open
  <2>1. reader' = reader /\ acks' = acks
    BY <1>2 DEF CloseReader
  <2>2. AcksGoOn
    BY <2>1 DEF AcksGoOn
  <2>3. reader' = [reader EXCEPT ![n] = reader[n]]
    BY <1>1, <2>1
  <2> QED
    BY <1>1, <1>2, <2>2, <2>3
<1>3. CASE reader[n].open
  <2> DEFINE c == [reader[n] EXCEPT !.open = FALSE]
             ack == AckFrom(n, reader[n], FALSE, TRUE)
  <2>1. /\ c \in ReaderType /\ ~c.open
        /\ c.buffer = reader[n].buffer /\ c.nextSeq = reader[n].nextSeq
        /\ c.ooo = reader[n].ooo /\ c.err = reader[n].err /\ c.eof = reader[n].eof
    BY <1>1 DEF ReaderType
  <2>2. reader' = [reader EXCEPT ![n] = Acked(c)] /\ SendAck(ack)
    BY <1>1, <1>3 DEF CloseReader
  <2>3. ack \in Ack
    BY <1>1, AckFromFacts
  <2>4. ack.id = n /\ ack.seq = reader[n].nextSeq
    BY DEF AckFrom
  <2> HIDE DEF c, ack
  <2> DEFINE y == Acked(c)
  <2>5. /\ y \in ReaderType /\ y.buffer = c.buffer /\ y.nextSeq = c.nextSeq /\ y.ooo = c.ooo
    BY <2>1, AckedFacts
  <2>6. y.open = c.open /\ y.err = c.err /\ y.eof = c.eof
    BY <2>1 DEF Acked, ReaderType
  <2>7. reader' = [reader EXCEPT ![n] = y]
    BY <2>2
  <2> HIDE DEF y
  <2>8. ack.id = jobStream => ack.seq <= Pos'
    <3> SUFFICES ASSUME n = jobStream PROVE reader[n].nextSeq <= Pos'
      BY <2>4
    <3>1. Pos' = y.nextSeq
      BY <1>1, <2>7 DEF Pos
    <3> QED
      BY <1>1, <2>1, <2>5, <3>1
  <2>9. AcksGoOn
    BY <1>1, <2>2, <2>3, <2>8, AckSent
  <2> QED
    BY <2>1, <2>5, <2>6, <2>7, <2>9
<1> QED
  BY <1>2, <1>3

\* A reader that changes but for what it holds ready, the others staying as they are.
LEMMA ReadersStaySound ==
  ASSUME DsInv, EndInv, NEW n \in Stream, NEW r2, reader' = [reader EXCEPT ![n] = r2],
         r2.nextSeq = reader[n].nextSeq, r2.ooo = reader[n].ooo, r2.err = reader[n].err,
         r2.eof = reader[n].eof, reader[n].buffer = <<>> => r2.buffer = <<>>
  PROVE  \A m \in Stream: SoundReader(reader'[m]) /\ reader'[m].nextSeq = reader[m].nextSeq
<1>1. \A m \in Stream: reader'[m] = IF m = n THEN r2 ELSE reader[m]
  BY DEF DsInv, FileInv, MainType
<1>2. SoundReader(reader[n])
  BY DEF EndInv
<1>3. SoundReader(r2)
  BY <1>2 DEF SoundReader
<1> QED
  BY <1>1, <1>3 DEF EndInv

\* The end of a loop: that of the job's stream ends only when everything is in the file.
LEMMA LoopEndsLoss ==
  ASSUME DsInv, LossInv, NEW n \in Stream, loop[n].stage = "read",
         loop' = [loop EXCEPT ![n] = Loop("done", <<>>)], CloseReader(n),
         n = jobStream => Ended(reader[n]) /\ reader[n].buffer = <<>>,
         UNCHANGED <<smVars, carries, data, jmVars, streams, jobStream, file, totalGap, restart>>
  PROVE  LossInv'
<1>1. EndInv /\ CurrentInv /\ jobStream \in Stream
  BY DEF LossInv, CurrentInv
<1>2. AcksGoOn
  BY <1>1, CloseReaderLoss
<1>3. PICK r2 \in ReaderType:
        /\ reader' = [reader EXCEPT ![n] = r2] /\ ~r2.open
        /\ r2.buffer = reader[n].buffer /\ r2.nextSeq = reader[n].nextSeq
        /\ r2.ooo = reader[n].ooo /\ r2.err = reader[n].err /\ r2.eof = reader[n].eof
  BY <1>1, CloseReaderLoss
<1>4. \A m \in Stream: SoundReader(reader'[m]) /\ reader'[m].nextSeq = reader[m].nextSeq
  BY <1>1, <1>3, ReadersStaySound
<1>5. EndInv'
  BY <1>1, <1>4, EndMain
<1>6. /\ \A m \in Stream: reader'[m] = IF m = n THEN r2 ELSE reader[m]
      /\ \A m \in Stream: loop'[m] = IF m = n THEN Loop("done", <<>>) ELSE loop[m]
  BY <1>3 DEF DsInv, FileInv, MainType
<1>7. Restarting' = Restarting
  BY DEF Restarting
<1>8. CurrentInv'
  <2>1. CASE n # jobStream
    <3>1. reader'[jobStream'] = reader[jobStream] /\ loop'[jobStream'] = loop[jobStream]
      BY <1>1, <1>6, <2>1
    <3>2. Base(reader[jobStream])' = Base(reader[jobStream])
      BY <3>1 DEF Base
    <3> QED
      BY <1>1, <1>7, <3>1, <3>2 DEF CurrentInv, jmVars
  <2>2. CASE n = jobStream
    <3>1. reader'[jobStream'] = r2 /\ loop'[jobStream'] = Loop("done", <<>>)
      BY <1>6, <2>2
    <3>2. Base(reader[jobStream])' = Base(reader[jobStream])
      BY <1>3, <2>2, <3>1 DEF Base
    <3>3. loop[n].got = <<>> /\ loop'[jobStream'].got = <<>> /\ loop'[jobStream'].stage = "done"
      BY <3>1 DEF Loop, DsInv, FileInv, MainType
    <3>4. ~Restarting
      BY <2>2 DEF DsInv, FileInv, RestartInOrder
    <3> QED
      BY <1>1, <1>3, <1>7, <2>2, <3>1, <3>2, <3>3, <3>4 DEF CurrentInv, Ended
  <2> QED
    BY <2>1, <2>2
<1>9. PosInv'
  <2>1. Pos' = Pos /\ Pos \in Nat /\ streams \in Nat /\ jobStream <= streams
    BY <1>1, <1>4, LossTypes DEF Pos, DsInv, LinkInv, Numbered
  <2>2. \A m: Live(m)' = Live(m)
    BY DEF Live, Restarting, jmVars
  <2> QED
    BY <1>2, <2>1, <2>2, PosGoesOn
<1> QED
  BY <1>5, <1>8, <1>9 DEF LossInv

LEMMA LoopSupersededLoss ==
  ASSUME DsInv, LossInv, NEW n \in Stream, LoopSuperseded(n) PROVE LossInv'
  BY LoopEndsLoss DEF LoopSuperseded, fileVars

LEMMA LoopEndLoss ==
  ASSUME DsInv, LossInv, NEW n \in Stream, LoopEnd(n) PROVE LossInv'
<1>1. /\ loop[n].stage = "read" /\ jobStream = n /\ Readable(reader[n])
      /\ reader[n].open /\ ~reader[n].err => reader[n].buffer = <<>>
  BY DEF LoopEnd
<1>2. reader[n].open /\ (reader[n].err => reader[n].buffer = <<>>)
  BY <1>1 DEF LossInv, EndInv, CurrentInv, SoundReader
<1>3. Ended(reader[n]) /\ reader[n].buffer = <<>>
  BY <1>1, <1>2 DEF Readable, Ended
<1> QED
  BY <1>3, LoopEndsLoss DEF LoopEnd

\* Read moves bytes from the reader to its loop, ...
LEMMA LoopReadLoss ==
  ASSUME DsInv, LossInv, NEW n \in Stream, LoopRead(n) PROVE LossInv'
<1> USE WindowAssumption
<1> DEFINE r == reader[n]
           k == Least(ReadSize, Len(r.buffer))
           got == SubSeq(r.buffer, 1, k)
           rest == Rest(r)
           ack == AckFrom(n, rest, FALSE, FALSE)
<1>1. /\ loop[n].stage = "read" /\ r.buffer # <<>> /\ jobStream = n
      /\ loop' = [loop EXCEPT ![n] = Loop("append", got)]
      /\ \/ reader' = [reader EXCEPT ![n] = Acked(rest)] /\ SendAck(ack)
         \/ reader' = [reader EXCEPT ![n] = rest] /\ acks' = acks
      /\ UNCHANGED <<smVars, up, carries, data, jmVars, streams, jobStream, fileVars, restart>>
  BY DEF LoopRead
<1>2. /\ r \in ReaderType /\ r.buffer \in Seq(Int) /\ r.nextSeq \in Nat /\ acks \in Seq(Ack)
      /\ EndInv /\ CurrentInv /\ jobStream \in Stream
  BY DEF DsInv, FileInv, MainType, LinkInv, LinkType, ReaderType, LossInv, CurrentInv
<1> DEFINE left == SubSeq(r.buffer, ReadSize + 1, Len(r.buffer))
<1>3. /\ left \in Seq(Int) /\ got \in Seq(Int) /\ Len(got) \in Nat /\ Len(left) \in Nat
      /\ Len(r.buffer) \in Nat /\ Len(got) + Len(left) = Len(r.buffer)
  <2>1. k \in 0 .. Len(r.buffer) /\ Len(r.buffer) \in Nat
    BY <1>2, ReadFacts
  <2>2. got \in Seq(Int) /\ Len(got) = k
    BY <1>2, ReadFacts DEF TakenPart
  <2>3. left \in Seq(Int) /\ Len(left) = Len(r.buffer) - k
    BY <1>2, ReadFacts DEF LeftPart
  <2> HIDE DEF left, got, k, r
  <2> QED
    BY <2>1, <2>2, <2>3
<1>4. /\ rest \in ReaderType /\ rest.buffer = left /\ rest.nextSeq = r.nextSeq /\ rest.ooo = r.ooo
      /\ rest.open = r.open /\ rest.err = r.err /\ rest.eof = r.eof
  <2> HIDE DEF left
  <2>1. rest = [r EXCEPT !.buffer = left]
    BY DEF Rest, left
  <2> QED
    BY <1>2, <1>3, <2>1 DEF ReaderType
<1> HIDE DEF rest, left, got
<1>5. PICK r2 \in ReaderType:
        /\ reader' = [reader EXCEPT ![n] = r2]
        /\ r2.buffer = left /\ r2.nextSeq = r.nextSeq /\ r2.ooo = r.ooo
        /\ r2.open = r.open /\ r2.err = r.err /\ r2.eof = r.eof
  <2> DEFINE y == Acked(rest)
  <2>1. /\ y \in ReaderType /\ y.buffer = rest.buffer /\ y.nextSeq = rest.nextSeq /\ y.ooo = rest.ooo
    BY <1>4, AckedFacts
  <2>2. y.open = rest.open /\ y.err = rest.err /\ y.eof = rest.eof
    BY <1>4 DEF Acked, ReaderType
  <2>3. reader' = [reader EXCEPT ![n] = y] \/ reader' = [reader EXCEPT ![n] = rest]
    BY <1>1
  <2> HIDE DEF y
  <2> QED
    BY <1>4, <2>1, <2>2, <2>3
<1>6. \A m \in Stream: SoundReader(reader'[m]) /\ reader'[m].nextSeq = reader[m].nextSeq
  BY <1>1, <1>2, <1>5, ReadersStaySound
<1>7. EndInv'
  BY <1>1, <1>2, <1>6, EndMain
<1>8. Pos' = Pos /\ Pos = r.nextSeq
  BY <1>1, <1>2, <1>6 DEF Pos
<1>9. AcksGoOn
  <2>1. CASE acks' = acks
    BY <2>1 DEF AcksGoOn
  <2>2. CASE SendAck(ack)
    <3>1. ack \in Ack /\ ack.seq = r.nextSeq
      <4>1. ack \in Ack
        BY <1>4, AckFromFacts
      <4> QED
        BY <1>4, <4>1 DEF AckFrom
    <3> HIDE DEF ack
    <3>2. ack.seq <= Pos'
      BY <1>2, <1>8, <3>1
    <3> QED
      BY <1>2, <2>2, <3>1, <3>2, AckSent
  <2> QED
    BY <1>1, <2>1, <2>2
<1>10. CurrentInv'
  <2>1. reader'[jobStream'] = r2 /\ loop'[jobStream'] = Loop("append", got)
    BY <1>1, <1>2, <1>5 DEF DsInv, FileInv, MainType
  <2>2. loop'[jobStream'].stage = "append" /\ loop'[jobStream'].got = got
    BY <2>1 DEF Loop
  <2>3. Len(file) + Len(loop[n].got) = r.nextSeq - Len(r.buffer) /\ r.open
    BY <1>1, <1>2 DEF CurrentInv, Base
  <2>4. loop[n].got = <<>> /\ Len(file) \in Nat
    BY <1>1 DEF DsInv, FileInv, MainType
  <2>5. Len(loop[n].got) = 0
    BY <2>4
  <2>6. Len(file) + Len(got) = r2.nextSeq - Len(r2.buffer)
    <3>1. Len(file) = r.nextSeq - Len(r.buffer)
      BY <2>3, <2>4, <2>5
    <3>2. r2.nextSeq = r.nextSeq /\ Len(r2.buffer) = Len(left) /\ r.nextSeq \in Nat
      BY <1>2, <1>5
    <3>3. /\ Len(got) \in Nat /\ Len(left) \in Nat /\ Len(r.buffer) \in Nat
          /\ Len(got) + Len(left) = Len(r.buffer)
      BY <1>3
    <3> DEFINE f == Len(file)
               g == Len(got)
               q == r.nextSeq
               b == Len(r.buffer)
               l == Len(left)
    <3>4. f \in Int /\ g \in Int /\ q \in Int /\ b \in Int /\ l \in Int /\ f = q - b /\ g + l = b
      BY <2>4, <3>1, <3>2, <3>3
    <3> HIDE DEF f, g, q, b, l
    <3>5. f + g = q - l
      BY <3>4
    <3> QED
      BY <3>2, <3>5 DEF f, g, q, l
  <2>7. Len(file') + Len(loop'[jobStream'].got) = Base(reader[jobStream])'
    BY <1>1, <2>1, <2>2, <2>6 DEF Base, fileVars
  <2> QED
    BY <1>1, <1>2, <1>5, <2>1, <2>2, <2>3, <2>7 DEF CurrentInv, fileVars
<1>11. PosInv'
  <2>1. Pos \in Nat /\ streams \in Nat /\ jobStream <= streams
    BY <1>2, LossTypes DEF DsInv, LinkInv, Numbered
  <2>2. \A m: Live(m)' = Live(m)
    BY <1>1 DEF Live, Restarting, jmVars
  <2> QED
    BY <1>1, <1>8, <1>9, <2>1, <2>2, PosGoesOn
<1> QED
  BY <1>7, <1>10, <1>11 DEF LossInv

\* ... and the loop appends them to the file.
LEMMA LoopAppendLoss ==
  ASSUME DsInv, LossInv, NEW n \in Stream, LoopAppend(n) PROVE LossInv'
<1> DEFINE got == loop[n].got
<1>1. /\ loop[n].stage = "append" /\ file' = file \o got
      /\ loop' = [loop EXCEPT ![n] = Loop("read", <<>>)]
      /\ UNCHANGED <<smVars, linkVars, jmVars, streams, jobStream, reader, totalGap, restart>>
  BY DEF LoopAppend
<1>2. EndInv /\ CurrentInv /\ jobStream \in Stream /\ n = jobStream
  BY <1>1 DEF LossInv, CurrentInv, DsInv, FileInv, LoopsInOrder
<1>3. EndInv'
  BY <1>1, <1>2, EndMain DEF EndInv, linkVars
<1>4. CurrentInv'
  <2>1. loop'[jobStream'] = Loop("read", <<>>)
    BY <1>1, <1>2 DEF DsInv, FileInv, MainType
  <2>2. loop'[jobStream'].stage = "read" /\ loop'[jobStream'].got = <<>>
    BY <2>1 DEF Loop
  <2>3. file \in Seq(Int) /\ got \in Seq(Int)
    BY DEF DsInv, FileInv, MainType
  <2>4. Len(file') = Len(file) + Len(got) /\ Len(loop'[jobStream'].got) = 0 /\ Len(file') \in Nat
    BY <1>1, <2>2, <2>3, ConcatProperties
  <2>5. Len(file) + Len(got) = Base(reader[jobStream]) /\ Base(reader[jobStream])' = Base(reader[jobStream])
    BY <1>1, <1>2 DEF CurrentInv, Base
  <2>6. Len(file') + Len(loop'[jobStream'].got) = Base(reader[jobStream])'
    BY <2>4, <2>5
  <2> QED
    BY <1>1, <1>2, <2>2, <2>6 DEF CurrentInv, linkVars
<1>5. PosInv'
  BY <1>1, PosStays DEF LossInv, smVars, linkVars
<1> QED
  BY <1>3, <1>4, <1>5 DEF LossInv

LEMMA LoopStepLoss ==
  ASSUME DsInv, LossInv, LoopStep PROVE LossInv'
<1>1. PICK n \in Stream: LoopRead(n) \/ LoopSuperseded(n) \/ LoopAppend(n) \/ LoopEnd(n)
  BY DEF LoopStep
<1> QED
  BY <1>1, LoopReadLoss, LoopSupersededLoss, LoopAppendLoss, LoopEndLoss

-----------------------------------------------------------------------------
(* Lost links and restarts *)

\* A restart that is given up leaves the job's stream without a loop, with a closed reader that
\* holds nothing and that nobody listens to.
LEMMA GivenUp ==
  ASSUME DsInv, CurrentInv, Unstarted, ~Restarting',
         UNCHANGED <<attached, jobStream, loop, file, totalGap>>,
         carries' \in {0, jobStream},
         NEW r2, reader' = [reader EXCEPT ![restart.id] = r2], ~r2.open,
         r2.buffer = reader[restart.id].buffer, r2.nextSeq = reader[restart.id].nextSeq
  PROVE  CurrentInv'
<1>1. /\ Restarting /\ restart.id = jobStream /\ jobStream \in Stream
      /\ loop[jobStream].stage = "none"
  BY DEF Unstarted, Restarting, DsInv, FileInv, RestartInOrder, CurrentInv
<1>2. reader[jobStream].buffer = <<>> /\ jobStream \notin attached
  BY <1>1 DEF DsInv, FileInv, NoDataRead, LinkInv, NoDataSent
<1>3. reader'[jobStream'] = r2
  BY <1>1 DEF DsInv, FileInv, MainType
<1>4. Base(reader[jobStream])' = Base(reader[jobStream])
  BY <1>1, <1>3 DEF Base
<1> QED
  BY <1>1, <1>2, <1>3, <1>4 DEF CurrentInv

LEMMA RestartStopLoss ==
  ASSUME DsInv, LossInv, RestartStop PROVE LossInv'
<1> DEFINE n == restart.id
<1>1. /\ restart.stage \in {"refused", "beyond", "already"} /\ CloseReader(n) /\ restart' = NoRestart
      /\ UNCHANGED <<smVars, up, carries, data, jmVars, streams, jobStream, loop, file, totalGap>>
  BY DEF RestartStop
<1>2. EndInv /\ CurrentInv /\ jobStream \in Stream
  BY DEF LossInv, CurrentInv
<1>3. Unstarted /\ Restarting /\ ~Restarting' /\ restart'.stage = "off"
  BY <1>1 DEF Unstarted, Restarting, NoRestart
<1>4. n = jobStream /\ n \in Stream
  BY <1>2, <1>3 DEF DsInv, FileInv, RestartInOrder
<1> HIDE DEF n
<1>5. AcksGoOn
  BY <1>1, <1>2, <1>4, CloseReaderLoss
<1>6. PICK r2 \in ReaderType:
        /\ reader' = [reader EXCEPT ![n] = r2] /\ ~r2.open
        /\ r2.buffer = reader[n].buffer /\ r2.nextSeq = reader[n].nextSeq
        /\ r2.ooo = reader[n].ooo /\ r2.err = reader[n].err /\ r2.eof = reader[n].eof
  BY <1>1, <1>2, <1>4, CloseReaderLoss
<1>7. \A m \in Stream: SoundReader(reader'[m]) /\ reader'[m].nextSeq = reader[m].nextSeq
  BY <1>2, <1>4, <1>6, ReadersStaySound
<1>8. EndInv'
  BY <1>1, <1>2, <1>7, EndMain
<1>9. CurrentInv'
  <2>1. carries' \in {0, jobStream}
    BY <1>1, <1>2 DEF CurrentInv
  <2> QED
    BY <1>1, <1>2, <1>3, <1>6, <2>1, GivenUp DEF n, jmVars
<1>10. PosInv'
  <2>1. Pos' = Pos /\ Pos \in Nat /\ streams \in Nat /\ jobStream <= streams
    BY <1>1, <1>2, <1>7, LossTypes DEF Pos, DsInv, LinkInv, Numbered
  <2>2. \A m: Live(m)' => Live(m)
    BY <1>1, <1>3 DEF Live, jmVars
  <2> QED
    BY <1>1, <1>3, <1>5, <2>1, <2>2, PosGoesOn
<1> QED
  BY <1>8, <1>9, <1>10 DEF LossInv

LEMMA DropLoss ==
  ASSUME DsInv, LossInv, Drop PROVE LossInv'
<1>1. /\ carries' = 0 /\ restart.stage # "create"
      /\ restart' = IF restart.stage = "run" THEN restart ELSE NoRestart
      /\ reader' = IF restart.stage \in {"off", "run"} THEN reader
                   ELSE [reader EXCEPT ![restart.id].open = FALSE]
      /\ UNCHANGED <<smVars, jmVars, streams, jobStream, loop, fileVars>>
  BY DEF Drop
<1>2. EndInv /\ CurrentInv /\ jobStream \in Stream
  BY DEF LossInv, CurrentInv
<1>3. data \in Seq(Packet) /\ acks \in Seq(Ack)
  BY DEF DsInv, LinkInv, LinkType
<1>4. \A i \in 1 .. Len(data'): \E k \in 1 .. Len(data): data'[i] = data[k]
  <2>1. PICK k \in 0 .. Len(data): data' = SubSeq(data, 1, k)
    BY DEF Drop
  <2> QED
    BY <1>3, <2>1, PrefixFacts
<1>5. AcksGoOn
  <2>1. PICK k \in 0 .. Len(acks): acks' = SubSeq(acks, 1, k)
    BY DEF Drop
  <2>2. \A i \in 1 .. Len(acks'): \E j \in 1 .. Len(acks): acks'[i] = acks[j]
    BY <1>3, <2>1, PrefixFacts
  <2> QED
    BY <2>2 DEF AcksGoOn
<1>6. restart'.stage # "reply" /\ (Restarting' => Restarting /\ restart' = restart)
  BY <1>1 DEF Restarting, NoRestart
<1>7. (\A m \in Stream: SoundReader(reader'[m]) /\ reader'[m].nextSeq = reader[m].nextSeq) /\ CurrentInv'
  <2>1. CASE restart.stage \in {"off", "run"}
    <3>1. UNCHANGED reader /\ Restarting' = Restarting
      BY <1>1, <2>1 DEF Restarting, NoRestart
    <3>2. Base(reader[jobStream])' = Base(reader[jobStream])
      BY <1>1, <3>1 DEF Base
    <3>3. CurrentInv'
      BY <1>1, <1>2, <3>1, <3>2 DEF CurrentInv, jmVars, fileVars
    <3> QED
      BY <1>2, <3>1, <3>3 DEF EndInv
  <2>2. CASE restart.stage \notin {"off", "run"}
    <3> DEFINE n == restart.id
               r2 == [reader[n] EXCEPT !.open = FALSE]
    <3>1. Unstarted /\ Restarting /\ ~Restarting'
      BY <1>1, <2>2 DEF Unstarted, Restarting, NoRestart
    <3>2. n \in Stream /\ reader[n] \in ReaderType
      BY <3>1 DEF DsInv, FileInv, RestartInOrder, MainType
    <3>3. reader' = [reader EXCEPT ![n] = r2]
      BY <1>1, <2>2
    <3>4. /\ ~r2.open /\ r2.buffer = reader[n].buffer /\ r2.nextSeq = reader[n].nextSeq
          /\ r2.ooo = reader[n].ooo /\ r2.err = reader[n].err /\ r2.eof = reader[n].eof
      BY <3>2 DEF ReaderType
    <3> HIDE DEF r2
    <3>5. CurrentInv'
      BY <1>1, <1>2, <3>1, <3>3, <3>4, GivenUp DEF jmVars, fileVars
    <3>6. \A m \in Stream: SoundReader(reader'[m]) /\ reader'[m].nextSeq = reader[m].nextSeq
      <4> HIDE DEF n
      <4> QED
        BY <1>2, <3>2, <3>3, <3>4, ReadersStaySound
    <3> QED
      BY <3>5, <3>6
  <2> QED
    BY <2>1, <2>2
<1>8. EndInv'
  BY <1>1, <1>2, <1>4, <1>7, EndMain
<1>9. PosInv'
  <2>1. Pos' = Pos /\ Pos \in Nat /\ streams \in Nat /\ jobStream <= streams
    BY <1>1, <1>2, <1>7, LossTypes DEF Pos, DsInv, LinkInv, Numbered
  <2>2. \A m: Live(m)' => Live(m)
    BY <1>1, <1>6 DEF Live, jmVars
  <2> QED
    BY <1>1, <1>5, <1>6, <2>1, <2>2, PosGoesOn
<1> QED
  BY <1>7, <1>8, <1>9 DEF LossInv

LEMMA ReconnectLoss ==
  ASSUME DsInv, LossInv, Reconnect PROVE LossInv'
<1>1. /\ restart.stage = "off" /\ restart'.stage = "create"
      /\ UNCHANGED <<smVars, carries, data, acks, jmVars, readerVars, fileVars>>
  BY DEF Reconnect, NoRestart
<1>2. ~Restarting /\ ~Restarting' /\ Restarting' = Restarting
  BY <1>1 DEF Restarting
<1>3. EndInv'
  BY <1>1, EndMain DEF LossInv, EndInv, readerVars
<1>4. CurrentInv'
  BY <1>1, <1>2, CurrentGoesOn DEF LossInv, readerVars, fileVars, jmVars
<1>5. PosInv'
  <2>1. Pos' = Pos /\ \A m: Live(m)' = Live(m)
    BY <1>1, <1>2 DEF Pos, Live, jmVars, readerVars
  <2> QED
    BY <1>1, <2>1 DEF LossInv, PosInv, smVars, jmVars, readerVars
<1> QED
  BY <1>3, <1>4, <1>5 DEF LossInv

\* All that the last reader read is in the file when a new one is made.
LEMMA RestartCreateLoss ==
  ASSUME ~lagged', DsInv, LossInv, RestartCreate PROVE LossInv'
<1> USE WindowAssumption
<1> DEFINE n == streams + 1
           cur == Len(file) + totalGap
           r == NewReader(cur)
<1>1. /\ restart.stage = "create" /\ LoopsDrained
      /\ streams' = n /\ jobStream' = n /\ carries' = n
      /\ reader' = [reader EXCEPT ![n] = r]
      /\ restart'.stage = "prepare" /\ restart'.id = n
      /\ UNCHANGED <<smVars, data, acks, jmVars, loop, fileVars>>
  BY DEF RestartCreate
<1>2. EndInv /\ CurrentInv /\ PosInv /\ jobStream \in Stream
  BY DEF LossInv, CurrentInv
<1>3. streams \in Nat /\ streams < MaxConn /\ n \in Stream
  BY <1>1, <1>2, EnvironmentAssumption, SizesAssumption DEF DsInv, LinkInv, Numbered, Stream
<1>4. loop[n].stage = "none" /\ loop[n].got = <<>>
  <2>1. loop[n].stage = "none"
    BY <1>3 DEF DsInv, LinkInv, Numbered
  <2> QED
    BY <1>3, <2>1 DEF DsInv, FileInv, MainType
<1>5. ~Restarting /\ Restarting'
  BY <1>1 DEF Restarting
<1>6. Pos = cur /\ cur \in Nat
  <2>1. loop[jobStream].got = <<>> /\ reader[jobStream].buffer = <<>>
    <3>1. loop[jobStream].stage # "append" /\ (loop[jobStream].stage = "read" => reader[jobStream].buffer = <<>>)
      BY <1>1, <1>2 DEF LoopsDrained
    <3>2. loop[jobStream].got = <<>> /\ loop[jobStream].stage \in {"none", "read", "append", "done"}
      BY <1>2, <3>1 DEF DsInv, FileInv, MainType
    <3> QED
      BY <1>2, <1>5, <3>1, <3>2 DEF CurrentInv
  <2>2. Len(loop[jobStream].got) = 0 /\ Len(reader[jobStream].buffer) = 0
    BY <2>1
  <2>3. Len(file) + Len(loop[jobStream].got) = reader[jobStream].nextSeq - Len(reader[jobStream].buffer)
    BY <1>2 DEF CurrentInv, Base
  <2>4. Pos \in Nat /\ Len(file) \in Nat /\ totalGap = 0
    BY <1>2, LossTypes DEF CurrentInv
  <2>5. Len(file) + 0 = Pos - 0
    BY <2>2, <2>3 DEF Pos
  <2> QED
    BY <2>4, <2>5
<1>7. /\ r.open /\ ~r.err /\ ~r.eof /\ r.buffer = <<>> /\ r.ooo = {} /\ r.nextSeq = cur
  BY DEF NewReader
<1> HIDE DEF r, cur
<1>8. \A m \in Stream: reader'[m] = IF m = n THEN r ELSE reader[m]
  BY <1>1 DEF DsInv, FileInv, MainType
<1> HIDE DEF n
<1>9. EndInv'
  <2>1. \A m \in Stream: SoundReader(reader'[m])
    BY <1>2, <1>7, <1>8 DEF EndInv, SoundReader
  <2> QED
    BY <1>1, <1>2, <2>1, EndMain
<1>10. CurrentInv'
  <2>1. reader'[jobStream'] = r /\ loop'[jobStream'] = loop[n]
    BY <1>1, <1>3, <1>8
  <2>2. Len(file) + 0 = cur - 0
    BY <1>2, <1>6, LossTypes DEF cur, CurrentInv
  <2>3. Len(loop[n].got) = 0 /\ Len(r.buffer) = 0
    BY <1>4, <1>7
  <2>4. Len(file') + Len(loop'[jobStream'].got) = Base(reader[jobStream])'
    BY <1>1, <1>7, <2>1, <2>2, <2>3 DEF Base, fileVars
  <2> QED
    BY <1>1, <1>2, <1>3, <1>4, <1>5, <1>7, <2>1, <2>4 DEF CurrentInv, fileVars
<1>11. PosInv'
  <2>1. Pos' = Pos /\ Pos \in Nat
    BY <1>1, <1>3, <1>6, <1>7, <1>8 DEF Pos
  <2>2. Pos <= Pos'
    BY <2>1
  <2>3. streams' \in Nat /\ streams <= streams' /\ jobStream <= streams
    BY <1>1, <1>3 DEF n, DsInv, LinkInv, Numbered
  <2>4. \A m \in 1 .. streams: Live(m)' => Live(m)
    BY <1>1, <1>3 DEF n, Live, jmVars
  <2>5. AcksGoOn
    BY <1>1 DEF AcksGoOn
  <2> QED
    BY <1>1, <2>1, <2>2, <2>3, <2>4, <2>5, PosGoesOn
<1> QED
  BY <1>9, <1>10, <1>11 DEF LossInv

\* The answer shows no gap.
LEMMA RestartReplyLoss ==
  ASSUME DsInv, LossInv, RestartReply PROVE LossInv'
<1>1. /\ restart.stage = "reply" /\ restart' = [restart EXCEPT !.stage = "start"]
      /\ UNCHANGED <<smVars, linkVars, jmVars, streams, jobStream, loop, file>>
  BY DEF RestartReply
<1>2. EndInv /\ CurrentInv /\ PosInv
  BY DEF LossInv
<1>3. restart \in [stage: RestartStage, id: Nat, cur: Nat, gap: Nat, reply: Int]
  BY DEF DsInv, FileInv, MainType
<1>4. restart.cur = Pos /\ restart.reply <= Pos
  BY <1>1, <1>2, UnansweredPos DEF Unanswered, PosInv
<1>5. ~(restart.reply > restart.cur)
  BY <1>3, <1>4
<1>6. UNCHANGED <<totalGap, reader>>
  BY <1>5 DEF RestartReply
<1>7. restart'.stage = "start" /\ restart'.id = restart.id /\ Restarting /\ Restarting'
  BY <1>1, <1>3 DEF Restarting
<1>8. EndInv'
  BY <1>1, <1>2, <1>6, EndMain DEF EndInv, linkVars
<1>9. CurrentInv'
  BY <1>1, <1>2, <1>6, <1>7, CurrentGoesOn DEF linkVars, jmVars
<1>10. PosInv'
  <2>1. Pos' = Pos /\ \A m: Live(m)' = Live(m)
    BY <1>1, <1>6, <1>7 DEF Pos, Live, jmVars
  <2> QED
    BY <1>1, <1>2, <1>7, <2>1 DEF PosInv, smVars, linkVars, jmVars
<1> QED
  BY <1>8, <1>9, <1>10 DEF LossInv

LEMMA RestartRunLoss ==
  ASSUME DsInv, LossInv, RestartRun PROVE LossInv'
<1>1. /\ restart.stage = "run" /\ restart' = NoRestart
      /\ loop' = [loop EXCEPT ![restart.id] = Loop("read", <<>>)]
      /\ UNCHANGED <<smVars, linkVars, jmVars, streams, jobStream, reader, fileVars>>
  BY DEF RestartRun
<1>2. EndInv /\ CurrentInv /\ PosInv /\ jobStream \in Stream
  BY DEF LossInv, CurrentInv
<1>3. Restarting /\ ~Restarting' /\ restart'.stage = "off"
  BY <1>1 DEF Restarting, NoRestart
<1>4. restart.id = jobStream /\ loop[jobStream].stage = "none" /\ loop[jobStream].got = <<>>
  BY <1>2, <1>3 DEF DsInv, FileInv, RestartInOrder, MainType
<1>5. loop'[jobStream'] = Loop("read", <<>>)
  BY <1>1, <1>2, <1>4 DEF DsInv, FileInv, MainType
<1>6. loop'[jobStream'].stage = "read" /\ loop'[jobStream'].got = <<>>
  BY <1>5 DEF Loop
<1>7. EndInv'
  BY <1>1, <1>2, EndMain DEF EndInv, linkVars
<1>8. CurrentInv'
  <2>1. Len(file') + Len(loop'[jobStream'].got) = Base(reader[jobStream])'
    BY <1>1, <1>2, <1>4, <1>6 DEF CurrentInv, Base, fileVars
  <2> QED
    BY <1>1, <1>2, <1>3, <1>6, <2>1 DEF CurrentInv, linkVars, fileVars
<1>9. PosInv'
  <2>1. Pos' = Pos /\ Pos \in Nat /\ streams \in Nat /\ jobStream <= streams
    BY <1>1, <1>2, LossTypes DEF Pos, DsInv, LinkInv, Numbered
  <2>2. \A m: Live(m)' => Live(m)
    BY <1>1, <1>3 DEF Live, jmVars
  <2>3. AcksGoOn
    BY <1>1 DEF AcksGoOn, linkVars
  <2> QED
    BY <1>1, <1>3, <2>1, <2>2, <2>3, PosGoesOn
<1> QED
  BY <1>7, <1>8, <1>9 DEF LossInv

-----------------------------------------------------------------------------
(* The theorem *)

LEMMA StutterLoss ==
  ASSUME LossInv, UNCHANGED <<smVars, linkVars, jmVars, readerVars, file, totalGap, restart>>
  PROVE  LossInv'
<1>1. UNCHANGED <<smVars, linkVars, jmVars, readerVars, file, totalGap, restart>>
  OBVIOUS
<1>2. EndInv'
  BY <1>1, EndMain DEF LossInv, EndInv, linkVars, readerVars
<1>3. CurrentInv'
  BY <1>1, CurrentGoesOn DEF LossInv, linkVars, jmVars, readerVars, Restarting
<1>4. PosInv'
  BY <1>1, PosStays DEF LossInv, linkVars, jmVars, readerVars, smVars
<1> QED
  BY <1>2, <1>3, <1>4 DEF LossInv

LEMMA StepLoss ==
  ASSUME Roomy, DsInv, LossInv, [DsNext]_dsVars, crashes \in Nat, ~Excused'
  PROVE  LossInv'
<1>0. ~lagged' /\ ~cut' /\ crashes' # crashes + 1
  BY DEF Excused
<1>1. CASE ManagerReads \/ ManagerSends \/ Transmit
  BY <1>1, ManagerReadsLoss, ManagerSendsLoss, TransmitLoss
<1>2. CASE DeliverData \/ DeliverAck
  BY <1>0, <1>2, DeliverDataLoss, DeliverAckLoss
<1>3. CASE LoopStep
  BY <1>3, LoopStepLoss
<1>4. CASE RestartStep
  BY <1>0, <1>4, RestartCreateLoss, RestartReplyLoss, RestartRunLoss, RestartStopLoss DEF RestartStep
<1>5. CASE JobManagerStep
  BY <1>5, PrepareConnectLoss, HandlerDisconnectLoss, HandlerConnectLoss, HandlerConnectingLoss,
     StartStreamLoss DEF JobManagerStep
<1>6. CASE Flush \/ Crash
  BY <1>0, <1>6, StutterLoss DEF Flush, Crash
<1>7. CASE Drop \/ Reconnect
  BY <1>7, DropLoss, ReconnectLoss
<1>8. CASE UNCHANGED dsVars
  BY <1>8, StutterLoss DEF dsVars, mainVars, fileVars
<1> QED
  BY <1>1, <1>2, <1>3, <1>4, <1>5, <1>6, <1>7, <1>8 DEF DsNext, Progress

\* If the buffer holds what the program writes, no lost link and no reconnect leaves a gap in the
\* job's output file, as long as the main server has not died, no new stream superseded one whose
\* loop still held output, and no error at the end of a stream cut output off.
THEOREM NothingEverLost == DsSpec => []NothingLost
<1>1. CASE MaxStream > CirBufSize
  <2>1. NothingLost
    BY <1>1 DEF NothingLost
  <2> QED
    BY <2>1, PTL
<1>2. CASE MaxStream <= CirBufSize
  <2> DEFINE Inv == crashes \in Nat /\ (Excused \/ LossInv)
  <2>1. Roomy
    BY <1>2 DEF Roomy
  <2>2. DsInit => Inv
    <3> SUFFICES ASSUME DsInit PROVE Inv
      OBVIOUS
    <3>1. crashes = 0
      BY DEF DsInit
    <3> QED
      BY <2>1, <3>1, LossInitInv
  <2>3. (lagged \/ DsInv) /\ Inv /\ [DsNext]_dsVars => Inv'
    <3> SUFFICES ASSUME lagged \/ DsInv, Inv, [DsNext]_dsVars PROVE Inv'
      OBVIOUS
    <3>1. /\ (lagged => lagged') /\ (cut => cut')
          /\ crashes' \in Nat /\ (crashes # 0 => crashes' # 0)
      BY PastStays
    <3>2. Excused \/ lagged => Excused'
      BY <3>1 DEF Excused
    <3>3. ASSUME ~Excused' PROVE LossInv'
      BY <2>1, <3>2, <3>3, StepLoss
    <3> QED
      BY <3>1, <3>3
  <2>4. Inv => NothingLost
    <3>1. crashes \in Nat /\ crashes # 0 => crashes > 0
      OBVIOUS
    <3> QED
      BY <3>1 DEF LossInv, CurrentInv, NothingLost, Excused
  <2>5. DsSpec => [](lagged \/ DsInv)
    BY DsInvariant
  <2> HIDE DEF Inv
  <2> QED
    BY <2>2, <2>3, <2>4, <2>5, PTL DEF DsSpec
<1> QED
  BY <1>1, <1>2, SizesAssumption

=============================================================================

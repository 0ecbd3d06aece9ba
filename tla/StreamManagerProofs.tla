------------------------- MODULE StreamManagerProofs -------------------------
(***************************************************************************)
(* Proofs about StreamManager, for every capacity, window, packet size and *)
(* length of the stream.  The five invariants hold together: the packets   *)
(* join because the mode follows the connection, the end comes last        *)
(* because what is sent never exceeds what is retained, and the sender is  *)
(* not forgotten because each change that gives it something to send       *)
(* signals it.                                                             *)
(***************************************************************************)
EXTENDS StreamManager, AttachOutput, DataLemmas

\* While ClientConnected runs nobody is connected, and the head has moved on from the one it
\* read by what overran.
Joins ==
  /\ ~SmUnlocked => log.head = connecting.head + overrun
  /\ connecting.stage = "install" => connecting.seq <= connecting.head
  /\ connected => log.head + sentNotAcked = clientPos + overrun

ConnectionInv ==
  /\ log.head <= log.total
  /\ ~SmUnlocked => ~connected
  /\ connected => sentNotAcked <= Retained(log)
  /\ Joins

\* The writer holds bytes while it writes or waits.
WriterInv == readLoop \in {"write", "wait"} => chunk > 0

SenderInv ==
  senderLoop = "waiting" =>
    /\ ~closed /\ ~terminalEventAcked /\ ~MaySendTerminal
    /\ MaySendData => readLoop = "signal"

SmInv ==
  SmTypeOK /\ ConnectionInv /\ WriterInv /\ ModeFollows /\ TerminalLast /\ SenderInv

-----------------------------------------------------------------------------
(* A fact about the buffer: setting the window of a connected client drops nothing. *)

LEMMA ClientWindowFacts ==
  ASSUME NEW b \in LogType, NEW rwnd \in Nat
  PROVE  LET r == ResizeLog(b, CirBufSize, TRUE, EffectiveWindow(rwnd))
         IN  /\ r \in LogType /\ r.head = b.head /\ r.total = b.total
             /\ r.sync = TRUE /\ r.window = EffectiveWindow(rwnd)
BY SizesAssumption DEF LogType, ResizeLog, LogOf, Least, EffectiveWindow

-----------------------------------------------------------------------------
(* The invariant holds initially, ... *)

LEMMA SmInitInv == SmInit => SmInv
<1> SUFFICES ASSUME SmInit PROVE SmInv
  OBVIOUS
<1> USE SizesAssumption DEF SmInit, NewLog, LogOf
<1>1. SmTypeOK
  <2>1. log \in LogType
    BY DEF LogType
  <2>2. connecting \in [stage: {"idle", "consume", "install"}, id: Nat, rwnd: Nat, seq: Nat, head: Nat]
    BY DEF Idle
  <2>3. pkt \in [id: Nat, seq: Nat \cup {-1}, len: Nat, end: {"none", "eof", "error"}]
    BY DEF NoPacket
  <2>4. eofPos \in Int /\ streamId \in Nat /\ rwndSize \in Nat
    OBVIOUS
  <2>5. sentNotAcked \in Nat /\ maxAckedSeq \in Nat /\ maxAckedRwnd \in Nat /\ chunk \in Nat
    OBVIOUS
  <2>6. /\ connected \in BOOLEAN /\ terminalEventSent \in BOOLEAN
        /\ terminalEventAcked \in BOOLEAN /\ closed \in BOOLEAN
    OBVIOUS
  <2>7. clientPos \in Nat /\ delivered \in Nat /\ overrun \in Nat
    OBVIOUS
  <2> QED
    BY <2>1, <2>2, <2>3, <2>4, <2>5, <2>6, <2>7 DEF SmTypeOK
<1>2. ConnectionInv
  BY DEF ConnectionInv, Joins, SmUnlocked, Idle
<1>3. WriterInv /\ ModeFollows /\ TerminalLast /\ SenderInv
  BY DEF WriterInv, ModeFollows, TerminalLast, SenderInv
<1> QED
  BY <1>1, <1>2, <1>3 DEF SmInv

-----------------------------------------------------------------------------
(* ... is kept by readLoop, ... *)

LEMMA ReadLoopInv ==
  ASSUME SmInv, AttachReader \/ ReadLoopStep PROVE SmInv'
<1> USE SizesAssumption
    DEF SmInv, SmTypeOK, ConnectionInv, Joins, WriterInv, ModeFollows, TerminalLast, SenderInv,
        endVars, connVars, ackVars, doneVars, readVars, sendVars, historyVars,
        SmUnlocked, Signal, SenderActive, AvailableToSend, MaySendData, MaySendTerminal,
        EffectiveWindow, ConnectSeq, Idle, NoPacket, LogType, LogOf, Retained, Least, Greatest
<1>1. CASE AttachReader
  BY <1>1 DEF AttachReader
<1>2. CASE ReadCheckClosed
  BY <1>2 DEF ReadCheckClosed
<1>3. ASSUME NEW k \in 0 .. MaxPacketSize, NEW err \in {"none", "eof", "error"}, ReadPty(k, err)
      PROVE  SmInv'
  BY <1>3 DEF ReadPty
<1>4. CASE WriteSome
  <2>0. log' \in LogType /\ chunk' \in Nat
    BY <1>4 DEF WriteSome, Accepts, AppendLog
  <2>5. overrun' \in Nat
    <3>1. log'.head \in Nat /\ log'.head >= log.head
      BY <1>4 DEF WriteSome, Accepts, AppendLog
    <3>2. overrun' = overrun \/ overrun' = overrun + (log'.head - log.head)
      BY <1>4 DEF WriteSome
    <3>3. overrun \in Nat /\ log.head \in Nat
      OBVIOUS
    <3> QED
      BY <3>1, <3>2, <3>3
  <2>1. SmTypeOK'
    BY <1>4, <2>0, <2>5 DEF WriteSome
  <2>2. ConnectionInv' /\ WriterInv'
    BY <1>4 DEF WriteSome, Accepts, AppendLog
  <2>3. ModeFollows' /\ TerminalLast'
    BY <1>4 DEF WriteSome, Accepts, AppendLog
  <2>4. SenderInv'
    BY <1>4 DEF WriteSome, Accepts, AppendLog
  <2> QED
    BY <2>1, <2>2, <2>3, <2>4
<1>5. CASE WriteBlocked
  <2>1. SmTypeOK'
    BY <1>5 DEF WriteBlocked, Accepts, BlockWriter
  <2>2. ConnectionInv' /\ WriterInv'
    BY <1>5 DEF WriteBlocked, Accepts, BlockWriter
  <2>3. ModeFollows' /\ TerminalLast'
    BY <1>5 DEF WriteBlocked, Accepts, BlockWriter
  <2>4. SenderInv'
    BY <1>5 DEF WriteBlocked, Accepts, BlockWriter
  <2> QED
    BY <2>1, <2>2, <2>3, <2>4
<1>6. CASE SignalWritten
  BY <1>6 DEF SignalWritten
<1>7. CASE WriterWoken
  BY <1>7 DEF WriterWoken
<1>8. CASE HandleEnd
  <2>1. SmTypeOK'
    BY <1>8 DEF HandleEnd
  <2>2. ConnectionInv' /\ WriterInv' /\ ModeFollows'
    BY <1>8 DEF HandleEnd
  <2>3. TerminalLast' /\ SenderInv'
    BY <1>8 DEF HandleEnd
  <2> QED
    BY <2>1, <2>2, <2>3
<1> QED
  BY <1>1, <1>2, <1>3, <1>4, <1>5, <1>6, <1>7, <1>8 DEF ReadLoopStep

-----------------------------------------------------------------------------
(* ... by senderLoop, ... *)

LEMMA SenderLoopInv ==
  ASSUME SmInv, SenderStep PROVE SmInv'
<1> USE SizesAssumption
    DEF SmInv, SmTypeOK, ConnectionInv, Joins, WriterInv, ModeFollows, TerminalLast, SenderInv,
        endVars, connVars, ackVars, doneVars, readVars, sendVars, historyVars,
        SmUnlocked, Signal, SenderActive, AvailableToSend, MaySendData, MaySendTerminal,
        EffectiveWindow, ConnectSeq, Idle, NoPacket, LogType, LogOf, Retained, Least, Greatest
<1>1. CASE SenderDone
  BY <1>1 DEF SenderDone
<1>2. CASE SenderWait
  <2>1. SmTypeOK' /\ ConnectionInv' /\ WriterInv'
    BY <1>2 DEF SenderWait
  <2>2. ModeFollows' /\ TerminalLast' /\ SenderInv'
    BY <1>2 DEF SenderWait
  <2> QED
    BY <2>1, <2>2
<1>3. CASE PrepareData
  <2>1. SmTypeOK'
    BY <1>3 DEF PrepareData
  <2>2. ConnectionInv' /\ WriterInv'
    BY <1>3 DEF PrepareData
  <2>3. ModeFollows' /\ TerminalLast'
    BY <1>3 DEF PrepareData
  <2>4. SenderInv'
    BY <1>3 DEF PrepareData
  <2> QED
    BY <2>1, <2>2, <2>3, <2>4
<1>4. CASE PrepareTerminal
  <2>1. SmTypeOK'
    BY <1>4 DEF PrepareTerminal
  <2>2. ConnectionInv' /\ WriterInv'
    BY <1>4 DEF PrepareTerminal
  <2>3. ModeFollows' /\ TerminalLast'
    BY <1>4 DEF PrepareTerminal
  <2>4. SenderInv'
    BY <1>4 DEF PrepareTerminal
  <2> QED
    BY <2>1, <2>2, <2>3, <2>4
<1>5. CASE SendData
  BY <1>5 DEF SendData
<1> QED
  BY <1>1, <1>2, <1>3, <1>4, <1>5 DEF SenderStep

-----------------------------------------------------------------------------
(* ... by the rest of ClientConnected, ... *)

LEMMA ConnectInv ==
  ASSUME SmInv, ConnectStep PROVE SmInv'
<1> USE SizesAssumption
    DEF SmInv, SmTypeOK, ConnectionInv, Joins, WriterInv, ModeFollows, TerminalLast, SenderInv,
        endVars, connVars, ackVars, doneVars, readVars, sendVars, historyVars,
        SmUnlocked, Signal, SenderActive, AvailableToSend, MaySendData, MaySendTerminal,
        EffectiveWindow, ConnectSeq, Idle, NoPacket, LogType, LogOf, Retained, Least, Greatest
<1>1. CASE ConnectBeyondEnd
  <2>1. SmTypeOK'
    BY <1>1 DEF ConnectBeyondEnd
  <2>2. ConnectionInv' /\ WriterInv'
    BY <1>1 DEF ConnectBeyondEnd
  <2>3. ModeFollows' /\ TerminalLast'
    BY <1>1 DEF ConnectBeyondEnd
  <2>4. SenderInv'
    BY <1>1 DEF ConnectBeyondEnd
  <2> QED
    BY <2>1, <2>2, <2>3, <2>4
<1>2. CASE ConnectConsume
  <2> DEFINE have == connecting.seq - connecting.head
  <2>1. have > 0 => have \in Nat /\ have <= Retained(log)
    BY <1>2 DEF ConnectConsume
  <2>2. log' \in LogType
    BY <1>2, <2>1 DEF ConnectConsume, ConsumeLog
  <2>3. connecting' = [stage |-> "install", id |-> connecting.id, rwnd |-> connecting.rwnd,
                       seq |-> connecting.seq,
                       head |-> IF have > 0 THEN log'.head ELSE connecting.head]
    BY <1>2 DEF ConnectConsume
  <2>4. SmTypeOK'
    <3>1. log'.head \in Nat
      BY <2>2
    <3>2. connecting' \in [stage: {"idle", "consume", "install"}, id: Nat, rwnd: Nat, seq: Nat, head: Nat]
      BY <2>3, <3>1
    <3> QED
      BY <1>2, <2>2, <3>2 DEF ConnectConsume
  <2>5. ConnectionInv'
    BY <1>2, <2>1, <2>3 DEF ConnectConsume, ConsumeLog
  <2>6. WriterInv' /\ ModeFollows'
    BY <1>2, <2>1 DEF ConnectConsume, ConsumeLog
  <2>7. TerminalLast' /\ SenderInv'
    BY <1>2, <2>1, <2>3 DEF ConnectConsume, ConsumeLog
  <2> QED
    BY <2>4, <2>5, <2>6, <2>7
<1>3. CASE ConnectInstall
  <2>1. SmTypeOK'
    BY <1>3 DEF ConnectInstall, ResizeLog
  <2>2. ConnectionInv' /\ WriterInv'
    BY <1>3 DEF ConnectInstall, ResizeLog
  <2>3. ModeFollows' /\ TerminalLast'
    BY <1>3 DEF ConnectInstall, ResizeLog
  <2>4. SenderInv'
    BY <1>3 DEF ConnectInstall, ResizeLog
  <2> QED
    BY <2>1, <2>2, <2>3, <2>4
<1> QED
  BY <1>1, <1>2, <1>3 DEF ConnectStep

-----------------------------------------------------------------------------
(* ... and by the calls of the RPC layer. *)

LEMMA ConnectStartInv ==
  ASSUME SmInv, NEW rwnd \in Nat, NEW seq \in Nat, ConnectStart(streamId + 1, rwnd, seq)
  PROVE  SmInv'
<1> USE SizesAssumption
    DEF SmInv, SmTypeOK, ConnectionInv, Joins, WriterInv, ModeFollows, TerminalLast, SenderInv,
        endVars, connVars, ackVars, doneVars, readVars, sendVars, historyVars,
        SmUnlocked, Signal, SenderActive, AvailableToSend, MaySendData, MaySendTerminal,
        EffectiveWindow, ConnectSeq, Idle, NoPacket, LogType, LogOf, Retained, Least, Greatest
<1>1. SmTypeOK'
  BY DEF ConnectStart, ConnectRefused
<1>2. ConnectionInv' /\ WriterInv'
  BY DEF ConnectStart, ConnectRefused
<1>3. ModeFollows' /\ TerminalLast'
  BY DEF ConnectStart, ConnectRefused
<1>4. SenderInv'
  BY DEF ConnectStart, ConnectRefused
<1> QED
  BY <1>1, <1>2, <1>3, <1>4

LEMMA ClientDisconnectedInv ==
  ASSUME SmInv, ClientDisconnected PROVE SmInv'
<1> USE SizesAssumption
    DEF SmInv, SmTypeOK, ConnectionInv, Joins, WriterInv, ModeFollows, TerminalLast, SenderInv,
        endVars, connVars, ackVars, doneVars, readVars, sendVars, historyVars,
        SmUnlocked, Signal, SenderActive, AvailableToSend, MaySendData, MaySendTerminal,
        EffectiveWindow, ConnectSeq, Idle, NoPacket, LogType, LogOf, Retained, Least, Greatest
<1>1. log' \in LogType
  BY DEF ClientDisconnected, ResizeLog
<1>2. terminalEventSent' \in BOOLEAN
  BY DEF ClientDisconnected
<1>3. SmTypeOK'
  BY ZenonT(30), <1>1, <1>2 DEF ClientDisconnected
<1>4. ConnectionInv' /\ WriterInv'
  BY DEF ClientDisconnected, ResizeLog
<1>5. ModeFollows'
  BY DEF ClientDisconnected, ResizeLog
<1>6. TerminalLast'
  BY DEF ClientDisconnected, ResizeLog
<1>7. SenderInv'
  BY DEF ClientDisconnected, ResizeLog
<1> QED
  BY <1>3, <1>4, <1>5, <1>6, <1>7

LEMMA RecvFinInv ==
  ASSUME SmInv, terminalEventSent, RecvFin(streamId) PROVE SmInv'
<1> USE SizesAssumption
    DEF SmInv, SmTypeOK, ConnectionInv, Joins, WriterInv, ModeFollows, TerminalLast, SenderInv,
        endVars, connVars, ackVars, doneVars, readVars, sendVars, historyVars,
        SmUnlocked, Signal, SenderActive, AvailableToSend, MaySendData, MaySendTerminal,
        EffectiveWindow, ConnectSeq, Idle, NoPacket, LogType, LogOf, Retained, Least, Greatest
<1>1. SmTypeOK'
  BY DEF RecvFin
<1>2. ConnectionInv' /\ WriterInv'
  BY DEF RecvFin
<1>3. ModeFollows' /\ TerminalLast'
  BY DEF RecvFin
<1>4. SenderInv'
  BY DEF RecvFin
<1> QED
  BY <1>1, <1>2, <1>3, <1>4

LEMMA RecvAckInv ==
  ASSUME SmInv, NEW seq \in Nat, NEW rwnd \in Nat, RecvAck(streamId, seq, rwnd) PROVE SmInv'
<1> USE SizesAssumption
    DEF SmInv, SmTypeOK, ConnectionInv, Joins, WriterInv, ModeFollows, TerminalLast, SenderInv,
        endVars, connVars, ackVars, doneVars, readVars, sendVars, historyVars,
        SmUnlocked, Signal, SenderActive, AvailableToSend, MaySendData, MaySendTerminal,
        EffectiveWindow, ConnectSeq, Idle, NoPacket, LogType, LogOf, Retained, Least, Greatest
<1> DEFINE acked == seq - log.head
<1>1. CASE acked < 0 \/ acked > sentNotAcked
  <2>1. UNCHANGED <<log, rwndSize, sentNotAcked, senderLoop>>
    BY <1>1 DEF RecvAck
  <2>2. SmTypeOK'
    BY <2>1 DEF RecvAck
  <2>3. ConnectionInv' /\ WriterInv' /\ ModeFollows' /\ TerminalLast' /\ SenderInv'
    BY <2>1 DEF RecvAck
  <2> QED
    BY <2>2, <2>3
<1>2. CASE acked \in Nat /\ acked <= sentNotAcked
  <2> DEFINE consumed == IF acked > 0 THEN ConsumeLog(log, acked) ELSE log
  <2>1. ~(acked < 0 \/ acked > sentNotAcked)
    BY <1>2
  <2>2. log' = ResizeLog(consumed, CirBufSize, TRUE, EffectiveWindow(rwnd))
    BY <2>1 DEF RecvAck
  <2>3. sentNotAcked' = sentNotAcked - acked /\ rwndSize' = rwnd
    BY <2>1 DEF RecvAck
  <2>4. rwnd > rwndSize \/ acked > 0 =>
          senderLoop' = IF senderLoop = "waiting" THEN "run" ELSE senderLoop
    BY <2>1 DEF RecvAck
  <2>5. ~(rwnd > rwndSize \/ acked > 0) => senderLoop' = senderLoop
    BY <2>1 DEF RecvAck
  <2>6. /\ consumed \in LogType
        /\ consumed.head = log.head + acked /\ consumed.total = log.total
    BY <1>2 DEF ConsumeLog
  <2> HIDE DEF consumed
  <2>7. /\ log'.head = log.head + acked /\ log'.total = log.total
        /\ log'.sync = TRUE /\ log'.window = EffectiveWindow(rwnd)
        /\ log' \in LogType
    <3> HIDE DEF EffectiveWindow, LogType, LogOf, Least, SmInv
    <3> QED
      BY <2>2, <2>6, ClientWindowFacts
  <2>8. /\ SmUnlocked /\ connected /\ maxAckedSeq' = seq /\ maxAckedRwnd' = rwnd
        /\ UNCHANGED <<endVars, connected, streamId, terminalEventSent, doneVars, connecting, readVars,
                       pkt, historyVars>>
    BY DEF RecvAck
  <2>9. SmTypeOK'
    BY <1>2, <2>3, <2>4, <2>5, <2>7, <2>8
  <2>10. ConnectionInv' /\ WriterInv'
    <3>1. log'.head <= log'.total /\ sentNotAcked' <= Retained(log') /\ SmUnlocked'
      BY <1>2, <2>3, <2>7, <2>8
    <3>2. Joins => Joins'
      BY <1>2, <2>3, <2>7, <2>8
    <3> QED
      BY <2>8, <3>1, <3>2
  <2>11. ModeFollows' /\ TerminalLast'
    BY <1>2, <2>3, <2>4, <2>5, <2>7, <2>8
  <2>12. SenderInv'
    <3> SUFFICES ASSUME senderLoop' = "waiting" PROVE SenderInv'
      OBVIOUS
    <3>1. senderLoop = "waiting" /\ rwnd <= rwndSize /\ acked = 0
      BY <1>2, <2>4, <2>5
    <3>2. /\ ~closed /\ ~terminalEventAcked /\ ~MaySendTerminal
          /\ MaySendData => readLoop = "signal"
      BY <3>1
    <3>3. log'.head = log.head /\ log'.total = log.total /\ sentNotAcked' = sentNotAcked
      BY <2>3, <2>7, <3>1
    <3>4. MaySendTerminal' => MaySendTerminal
      BY <2>8, <3>3
    <3>5. MaySendData' => MaySendData
      BY <2>3, <2>8, <3>1, <3>3
    <3> QED
      BY <2>8, <3>2, <3>4, <3>5
  <2> QED
    BY <2>9, <2>10, <2>11, <2>12
<1> QED
  BY <1>1, <1>2

LEMMA SetRwndSizeInv ==
  ASSUME SmInv, NEW rwnd \in Nat, SetRwndSize(rwnd) PROVE SmInv'
<1> USE SizesAssumption
    DEF SmInv, SmTypeOK, ConnectionInv, Joins, WriterInv, ModeFollows, TerminalLast, SenderInv,
        endVars, connVars, ackVars, doneVars, readVars, sendVars, historyVars,
        SmUnlocked, Signal, SenderActive, AvailableToSend, MaySendData, MaySendTerminal,
        EffectiveWindow, ConnectSeq, Idle, NoPacket, LogType, LogOf, Retained, Least, Greatest
<1>1. SmTypeOK'
  BY DEF SetRwndSize, ResizeLog
<1>2. ConnectionInv' /\ WriterInv'
  BY DEF SetRwndSize, ResizeLog
<1>3. ModeFollows' /\ TerminalLast'
  BY DEF SetRwndSize, ResizeLog
<1>4. SenderInv'
  BY DEF SetRwndSize, ResizeLog
<1> QED
  BY <1>1, <1>2, <1>3, <1>4

LEMMA CloseInv ==
  ASSUME SmInv, Close PROVE SmInv'
<1> USE SizesAssumption
    DEF SmInv, SmTypeOK, ConnectionInv, Joins, WriterInv, ModeFollows, TerminalLast, SenderInv,
        endVars, connVars, ackVars, doneVars, readVars, sendVars, historyVars,
        SmUnlocked, Signal, SenderActive, AvailableToSend, MaySendData, MaySendTerminal,
        EffectiveWindow, ConnectSeq, Idle, NoPacket, LogType, LogOf, Retained, Least, Greatest
<1>1. SmTypeOK'
  BY DEF Close
<1>2. ConnectionInv' /\ WriterInv'
  BY DEF Close
<1>3. ModeFollows' /\ TerminalLast'
  BY DEF Close
<1>4. SenderInv'
  BY DEF Close
<1> QED
  BY <1>1, <1>2, <1>3, <1>4

LEMMA StutterInv ==
  ASSUME SmInv, UNCHANGED smVars PROVE SmInv'
<1> USE SizesAssumption
    DEF SmInv, SmTypeOK, ConnectionInv, Joins, WriterInv, ModeFollows, TerminalLast, SenderInv,
        endVars, connVars, ackVars, doneVars, readVars, sendVars, historyVars,
        SmUnlocked, Signal, SenderActive, AvailableToSend, MaySendData, MaySendTerminal,
        EffectiveWindow, ConnectSeq, Idle, NoPacket, LogType, LogOf, Retained, Least, Greatest
<1>1. SmTypeOK'
  BY DEF smVars
<1>2. ConnectionInv' /\ WriterInv'
  BY DEF smVars
<1>3. ModeFollows' /\ TerminalLast'
  BY DEF smVars
<1>4. SenderInv'
  BY DEF smVars
<1> QED
  BY <1>1, <1>2, <1>3, <1>4

LEMMA ClientInv ==
  ASSUME SmInv, ClientStep PROVE SmInv'
<1> USE SizesAssumption
<1>1. ASSUME NEW rwnd \in 0 .. MaxRwnd, NEW seq \in 0 .. MaxStream, ConnectStart(streamId + 1, rwnd, seq)
      PROVE  SmInv'
  BY <1>1, ConnectStartInv
<1>2. ASSUME NEW seq \in 0 .. delivered, NEW rwnd \in 0 .. MaxRwnd, RecvAck(streamId, seq, rwnd)
      PROVE  SmInv'
  BY <1>2, RecvAckInv DEF SmInv, SmTypeOK
<1>3. ASSUME NEW rwnd \in 0 .. MaxRwnd, SetRwndSize(rwnd)
      PROVE  SmInv'
  BY <1>3, SetRwndSizeInv
<1> QED
  BY <1>1, <1>2, <1>3, ClientDisconnectedInv, RecvFinInv DEF ClientStep

LEMMA SmStepInv == SmInv /\ [SmNext]_smVars => SmInv'
  BY ReadLoopInv, SenderLoopInv, ConnectInv, ClientInv, CloseInv, StutterInv DEF SmNext

-----------------------------------------------------------------------------
(* The theorems. *)

\* The inductive invariant holds in every reachable state.
THEOREM SmInvariance == SmSpec => []SmInv
  BY SmInitInv, SmStepInv, PTL DEF SmSpec

\* Every variable of the manager keeps its type: no count of unacknowledged or retained bytes
\* ever becomes negative (streammanager.go:218-233, 378-396).
THEOREM SmTypeCorrect == SmSpec => []SmTypeOK
<1>1. SmInv => SmTypeOK
  BY DEF SmInv
<1> QED
  BY <1>1, SmInvariance, PTL

\* drainCond loses no wakeup, whatever the sizes and whichever way readLoop, senderLoop and the
\* calls of the RPC layer interleave.
THEOREM SenderNeverForgotten == SmSpec => []SenderNotForgotten
<1>1. SmInv => SenderNotForgotten
  BY DEF SmInv, SenderInv, SenderNotForgotten
<1> QED
  BY <1>1, SmInvariance, PTL

\* The end of the stream is sent last, after every byte was acknowledged.
THEOREM EndComesLast == SmSpec => []TerminalLast
<1>1. SmInv => TerminalLast
  BY DEF SmInv
<1> QED
  BY <1>1, SmInvariance, PTL

\* A connected client's buffer blocks the writer and drops nothing; an absent client's never
\* blocks the program.
THEOREM ModeFollowsConnection == SmSpec => []ModeFollows
<1>1. SmInv => ModeFollows
  BY DEF SmInv
<1> QED
  BY <1>1, SmInvariance, PTL

\* The packets of a connection join, whatever the sizes, and though readLoop fills the buffer
\* while ClientConnected runs: the first packet then begins behind the position it returned by
\* the bytes that were dropped in the middle of it, and by no more.
THEOREM PacketsAlwaysJoin == SmSpec => []PacketsJoin
<1>1. SmInv => PacketsJoin
  BY DEF SmInv, ConnectionInv, Joins, PacketsJoin
<1> QED
  BY <1>1, SmInvariance, PTL

\* While a client stays connected no byte leaves the buffer before that client acknowledged it.
THEOREM OnlyAcknowledgedBytesLeave == SmSpec => OnlyAckedLeave
<1> DEFINE Keeps == connected /\ connected' /\ log'.head # log.head =>
                      log'.head = maxAckedSeq' /\ log'.head <= delivered
<1> USE DEF SmInv, SmTypeOK, ConnectionInv, ModeFollows, SmUnlocked, LogType, LogOf
<1>1. ASSUME SmInv, [SmNext]_smVars PROVE Keeps
  <2>1. CASE AttachReader \/ ReadLoopStep
    <3>1. CASE WriteSome
      BY <1>1, <3>1 DEF WriteSome, AppendLog
    <3>2. CASE WriteBlocked
      BY <3>2 DEF WriteBlocked, BlockWriter
    <3>3. CASE AttachReader \/ ReadCheckClosed \/ SignalWritten \/ WriterWoken \/ HandleEnd
      BY <3>3 DEF AttachReader, ReadCheckClosed, SignalWritten, WriterWoken, HandleEnd
    <3>4. CASE \E k \in 0 .. MaxPacketSize, err \in {"none", "eof", "error"}: ReadPty(k, err)
      BY <3>4 DEF ReadPty
    <3> QED
      BY <2>1, <3>1, <3>2, <3>3, <3>4 DEF ReadLoopStep
  <2>2. CASE SenderStep
    BY <2>2 DEF SenderStep, SenderDone, SenderWait, PrepareData, PrepareTerminal, SendData
  <2>3. CASE ConnectStep
    BY <1>1, <2>3 DEF ConnectStep, ConnectBeyondEnd, ConnectConsume, ConnectInstall, ackVars, connVars
  <2>4. CASE ClientStep
    <3>1. ASSUME NEW rwnd \in 0 .. MaxRwnd, NEW seq \in 0 .. MaxStream,
                 ConnectStart(streamId + 1, rwnd, seq)
          PROVE  Keeps
      BY <3>1 DEF ConnectStart
    <3>2. CASE ClientDisconnected
      BY <3>2 DEF ClientDisconnected
    <3>3. CASE RecvFin(streamId)
      BY <3>3 DEF RecvFin
    <3>4. ASSUME NEW seq \in 0 .. delivered, NEW rwnd \in 0 .. MaxRwnd, RecvAck(streamId, seq, rwnd)
          PROVE  Keeps
      BY <1>1, <3>4 DEF RecvAck, ResizeLog, ConsumeLog, StaleAck
    <3>5. ASSUME NEW rwnd \in 0 .. MaxRwnd, SetRwndSize(rwnd)
          PROVE  Keeps
      BY <1>1, <3>5 DEF SetRwndSize, ResizeLog
    <3> QED
      BY <2>4, <3>1, <3>2, <3>3, <3>4, <3>5 DEF ClientStep
  <2>5. CASE Close
    BY <2>5 DEF Close
  <2>6. CASE UNCHANGED smVars
    BY <2>6 DEF smVars
  <2> QED
    BY <1>1, <2>1, <2>2, <2>3, <2>4, <2>5, <2>6 DEF SmNext
<1> QED
  BY <1>1, SmInvariance, PTL DEF SmSpec, OnlyAckedLeave

-----------------------------------------------------------------------------
(* AttachOutput: what is shown after the snapshot *)

\* The appended chunks of the i-th to the last event of p, and those that arrived from the
\* k-th cutoff on.
TakenTo(p, i, last) == ChunksAt(p, {k \in i .. last: p[k].op = "append"}, last)
LateChunks(b, cutoff) == ChunksAt(b, {k \in DOMAIN b: b[k].at >= cutoff}, Len(b))
LastTaken == IF stamped = Nothing THEN received ELSE received - 1

Published == [op: {"append", "truncate"}, chunk: Nat]
Stamped == [chunk: Nat, at: Nat]

\* What the handler holds is an append, the last event it took, and has a time that is not in
\* the future.
Handling ==
  stamped # Nothing =>
    /\ stamped \in Stamped /\ stamped.at <= cutoffs
    /\ received > 0 /\ published[received].op = "append" /\ published[received].chunk = stamped.chunk

AttachType ==
  /\ file \in Seq(Nat) /\ view \in Seq(Nat) /\ snapshot \in Seq(Nat)
  /\ writing \in [Writers -> Published \cup {Nothing}] /\ events \in Nat
  /\ published \in Seq(Published) /\ pending \in Seq(Stamped)
  /\ received \in Nat /\ received <= Len(published)
  /\ cutoffs \in Nat /\ readSize \in Nat /\ mark \in Nat
  /\ flushed \in BOOLEAN /\ stage \in {"subscribe", "load", "copy", "cutoff", "flush", "live", "reset", "ended"}
  /\ \A k \in 1 .. Len(pending): pending[k].at <= cutoffs
  /\ Handling

\* Between the cutoff and the flush, what is buffered and late is what was taken after the cutoff.
BufferedLate ==
  stage = "flush" =>
    /\ mark <= received
    /\ stamped # Nothing => (stamped.at >= cutoffs <=> received > mark)
    /\ LateChunks(pending, cutoffs) = TakenTo(published, mark + 1, LastTaken)

\* From then on it is shown, and so is the one event that was being handled at the cutoff if
\* it was written after the flush.
ShownLive ==
  stage = "live" =>
    /\ mark <= received
    /\ \E m \in {mark, mark + 1}: m > 0 /\ view = snapshot \o TakenTo(published, m, LastTaken)

ViewFits ==
  /\ stage \in {"subscribe", "load", "copy"} => view = <<>>
  /\ stage \in {"cutoff", "flush"} => view = snapshot
  /\ stage \in {"cutoff", "flush", "live"} => readSize = Len(snapshot)
  /\ stage # "ended" => (flushed <=> stage = "live")

AttachInv == AttachType /\ BufferedLate /\ ShownLive /\ ViewFits

-----------------------------------------------------------------------------
(* AttachOutput: the chunks at some places of a sequence *)

\* The recursive function of ChunksAt, whose value at k is about the first k elements.
UpTo(s, which, n, f) ==
  f = [k \in 0 .. n |->
         IF k = 0 THEN <<>> ELSE IF k \in which THEN Append(f[k - 1], s[k].chunk) ELSE f[k - 1]]

\* There is such a function, ...
LEMMA UpToExists ==
  ASSUME NEW s, NEW which, NEW n \in Nat
  PROVE  \E f: UpTo(s, which, n, f)
<1> DEFINE P == {m \in Nat: \E f: UpTo(s, which, m, f)}
<1>1. 0 \in P
  <2>1. PICK f: f = [k \in 0 .. 0 |-> <<>>]
    OBVIOUS
  <2>2. \A k \in 0 .. 0: k = 0
    OBVIOUS
  <2>3. UpTo(s, which, 0, f)
    BY <2>1, <2>2 DEF UpTo
  <2> QED
    BY <2>3
<1>2. ASSUME NEW m \in P PROVE m + 1 \in P
  <2>1. m \in Nat /\ m + 1 \in Nat /\ m + 1 # 0 /\ (m + 1) - 1 = m /\ m \in 0 .. m
    OBVIOUS
  <2>2. PICK f: UpTo(s, which, m, f)
    OBVIOUS
  <2>3. PICK last: last = IF m + 1 \in which THEN Append(f[m], s[m + 1].chunk) ELSE f[m]
    OBVIOUS
  <2>4. PICK g: g = [k \in 0 .. m + 1 |-> IF k = m + 1 THEN last ELSE f[k]]
    OBVIOUS
  <2>5. ASSUME NEW k \in 0 .. m + 1
        PROVE  g[k] = IF k = 0 THEN <<>> ELSE IF k \in which THEN Append(g[k - 1], s[k].chunk) ELSE g[k - 1]
    <3>1. CASE k = m + 1
      <4>1. g[k] = last /\ k # 0 /\ k - 1 = m
        BY <2>1, <2>4, <3>1
      <4>2. g[m] = f[m]
        BY <2>1, <2>4
      <4> QED
        BY <2>3, <3>1, <4>1, <4>2
    <3>2. CASE k # m + 1
      <4>1. k \in 0 .. m /\ g[k] = f[k]
        BY <2>1, <2>4, <3>2
      <4>2. k # 0 => g[k - 1] = f[k - 1]
        BY <2>1, <2>4, <4>1
      <4>3. f[k] = IF k = 0 THEN <<>> ELSE IF k \in which THEN Append(f[k - 1], s[k].chunk) ELSE f[k - 1]
        BY <2>2, <4>1 DEF UpTo
      <4> QED
        BY <4>1, <4>2, <4>3
    <3> QED
      BY <3>1, <3>2
  <2>6. UpTo(s, which, m + 1, g)
    <3>1. g = [k \in 0 .. m + 1 |-> g[k]]
      BY <2>4
    <3> QED
      BY <2>5, <3>1 DEF UpTo
  <2> QED
    BY <2>1, <2>6
<1>3. P = Nat
  <2> HIDE DEF P
  <2> QED
    BY <1>1, <1>2, InductionBySet DEF P
<1> QED
  BY <1>3

\* ... and what it says of the first elements does not depend on how many there are.
LEMMA UpToSame ==
  ASSUME NEW s, NEW which, NEW n \in Nat, NEW m \in Nat, NEW f, NEW g,
         UpTo(s, which, n, f), UpTo(s, which, m, g)
  PROVE  \A k \in Nat: k <= n /\ k <= m => f[k] = g[k]
<1> DEFINE P == {k \in Nat: k <= n /\ k <= m => f[k] = g[k]}
<1>1. 0 \in P
  <2>1. 0 \in 0 .. n /\ 0 \in 0 .. m
    OBVIOUS
  <2> QED
    BY <2>1 DEF UpTo
<1>2. ASSUME NEW k \in P PROVE k + 1 \in P
  <2>1. k \in Nat /\ k + 1 \in Nat /\ k + 1 # 0 /\ (k + 1) - 1 = k
    OBVIOUS
  <2>2. ASSUME k + 1 <= n, k + 1 <= m PROVE f[k + 1] = g[k + 1]
    <3>1. k + 1 \in 0 .. n /\ k + 1 \in 0 .. m /\ f[k] = g[k]
      BY <2>1, <2>2
    <3>2. f[k + 1] = IF k + 1 \in which THEN Append(f[k], s[k + 1].chunk) ELSE f[k]
      BY <2>1, <3>1 DEF UpTo
    <3>3. g[k + 1] = IF k + 1 \in which THEN Append(g[k], s[k + 1].chunk) ELSE g[k]
      BY <2>1, <3>1 DEF UpTo
    <3> QED
      BY <3>1, <3>2, <3>3
  <2> QED
    BY <2>1, <2>2
<1>3. P = Nat
  <2> HIDE DEF P
  <2> QED
    BY <1>1, <1>2, InductionBySet DEF P
<1> QED
  BY <1>3

\* One more place adds its chunk if it is chosen.
LEMMA ChunksAtStep ==
  ASSUME NEW s, NEW which, NEW n \in Nat
  PROVE  /\ ChunksAt(s, which, 0) = <<>>
         /\ n + 1 \in which => ChunksAt(s, which, n + 1) = Append(ChunksAt(s, which, n), s[n + 1].chunk)
         /\ n + 1 \notin which => ChunksAt(s, which, n + 1) = ChunksAt(s, which, n)
<1>1. ASSUME NEW m \in Nat PROVE \E f: UpTo(s, which, m, f) /\ ChunksAt(s, which, m) = f[m]
  <2>1. PICK f: f = CHOOSE g: UpTo(s, which, m, g)
    OBVIOUS
  <2>2. UpTo(s, which, m, f)
    BY <2>1, UpToExists
  <2>3. ChunksAt(s, which, m) = f[m]
    BY <2>1, Zenon DEF ChunksAt, UpTo
  <2> QED
    BY <2>2, <2>3
<1>2. ChunksAt(s, which, 0) = <<>>
  <2>1. PICK f: UpTo(s, which, 0, f) /\ ChunksAt(s, which, 0) = f[0]
    BY <1>1
  <2>2. 0 \in 0 .. 0
    OBVIOUS
  <2> QED
    BY <2>1, <2>2 DEF UpTo
<1>3. /\ n + 1 \in which => ChunksAt(s, which, n + 1) = Append(ChunksAt(s, which, n), s[n + 1].chunk)
      /\ n + 1 \notin which => ChunksAt(s, which, n + 1) = ChunksAt(s, which, n)
  <2>0. n + 1 \in Nat /\ n + 1 # 0 /\ (n + 1) - 1 = n /\ n + 1 \in 0 .. n + 1
    OBVIOUS
  <2>1. PICK f: UpTo(s, which, n, f) /\ ChunksAt(s, which, n) = f[n]
    BY <1>1
  <2>2. PICK g: UpTo(s, which, n + 1, g) /\ ChunksAt(s, which, n + 1) = g[n + 1]
    BY <1>1, <2>0
  <2>3. f[n] = g[n]
    BY <2>0, <2>1, <2>2, UpToSame
  <2>4. g[n + 1] = IF n + 1 \in which THEN Append(g[n], s[n + 1].chunk) ELSE g[n]
    BY <2>0, <2>2 DEF UpTo
  <2> QED
    BY <2>1, <2>2, <2>3, <2>4
<1> QED
  BY <1>2, <1>3

\* Only the chosen places and their chunks matter.
LEMMA ChunksAtSame ==
  ASSUME NEW s, NEW t, NEW v, NEW w, NEW n \in Nat,
         \A k \in 1 .. n: (k \in v <=> k \in w) /\ (k \in v => s[k].chunk = t[k].chunk)
  PROVE  ChunksAt(s, v, n) = ChunksAt(t, w, n)
<1> DEFINE P == {k \in Nat: k <= n => ChunksAt(s, v, k) = ChunksAt(t, w, k)}
<1>1. 0 \in P
  BY ChunksAtStep
<1>2. ASSUME NEW k \in P PROVE k + 1 \in P
  <2>1. ASSUME k + 1 <= n PROVE ChunksAt(s, v, k + 1) = ChunksAt(t, w, k + 1)
    <3>1. k \in Nat /\ k <= n /\ k + 1 \in 1 .. n
      BY <2>1
    <3>2. ChunksAt(s, v, k) = ChunksAt(t, w, k)
      BY <3>1
    <3>3. (k + 1 \in v => ChunksAt(s, v, k + 1) = Append(ChunksAt(s, v, k), s[k + 1].chunk)) /\ (k + 1 \notin v => ChunksAt(s, v, k + 1) = ChunksAt(s, v, k))
      BY <3>1, ChunksAtStep
    <3>4. (k + 1 \in w => ChunksAt(t, w, k + 1) = Append(ChunksAt(t, w, k), t[k + 1].chunk)) /\ (k + 1 \notin w => ChunksAt(t, w, k + 1) = ChunksAt(t, w, k))
      BY <3>1, ChunksAtStep
    <3>5. (k + 1 \in v <=> k + 1 \in w) /\ (k + 1 \in v => s[k + 1].chunk = t[k + 1].chunk)
      BY <3>1
    <3> QED
      BY <3>2, <3>3, <3>4, <3>5
  <2> QED
    BY <2>1
<1>3. P = Nat
  <2> HIDE DEF P
  <2> QED
    BY <1>1, <1>2, InductionBySet DEF P
<1> QED
  BY <1>3

\* Of no places there are no chunks.
LEMMA ChunksAtNone ==
  ASSUME NEW s, NEW w, NEW n \in Nat, \A k \in 1 .. n: k \notin w
  PROVE  ChunksAt(s, w, n) = <<>>
<1> DEFINE P == {k \in Nat: k <= n => ChunksAt(s, w, k) = <<>>}
<1>1. 0 \in P
  BY ChunksAtStep
<1>2. ASSUME NEW k \in P PROVE k + 1 \in P
  <2>1. ASSUME k + 1 <= n PROVE ChunksAt(s, w, k + 1) = <<>>
    <3>1. k \in Nat /\ k <= n /\ k + 1 \in 1 .. n
      BY <2>1
    <3>2. ChunksAt(s, w, k) = <<>> /\ k + 1 \notin w
      BY <3>1
    <3>3. (k + 1 \in w => ChunksAt(s, w, k + 1) = Append(ChunksAt(s, w, k), s[k + 1].chunk)) /\ (k + 1 \notin w => ChunksAt(s, w, k + 1) = ChunksAt(s, w, k))
      BY <3>1, ChunksAtStep
    <3> QED
      BY <3>2, <3>3
  <2> QED
    BY <2>1
<1>3. P = Nat
  <2> HIDE DEF P
  <2> QED
    BY <1>1, <1>2, InductionBySet DEF P
<1> QED
  BY <1>3

\* What is appended to the second part is appended to the whole.
LEMMA AppendConcat ==
  \A u, b \in Seq(Nat): \A c \in Nat: Append(u \o b, c) = u \o Append(b, c)
<1> TAKE u, b \in Seq(Nat)
<1> TAKE c \in Nat
<1>1. PICK d: d = Append(b, c)
  OBVIOUS
<1>2. d \in Seq(Nat) /\ Len(d) = Len(b) + 1 /\ d[Len(b) + 1] = c /\ \A i \in 1 .. Len(b): d[i] = b[i]
  BY <1>1, AppendProperties
<1>3. PICK e: e = u \o b
  OBVIOUS
<1>4. e \in Seq(Nat) /\ Len(e) = Len(u) + Len(b) /\ \A i \in 1 .. Len(u) + Len(b): e[i] = IF i <= Len(u) THEN u[i] ELSE b[i - Len(u)]
  BY <1>3, ConcatProperties
<1>5. PICK f: f = Append(e, c)
  OBVIOUS
<1>6. f \in Seq(Nat) /\ Len(f) = Len(e) + 1 /\ f[Len(e) + 1] = c /\ \A i \in 1 .. Len(e): f[i] = e[i]
  <2>1. e \in Seq(Nat)
    BY <1>4
  <2> QED
    BY <1>5, <2>1, AppendProperties
<1>7. PICK g: g = u \o d
  OBVIOUS
<1>8. g \in Seq(Nat) /\ Len(g) = Len(u) + Len(d) /\ \A i \in 1 .. Len(u) + Len(d): g[i] = IF i <= Len(u) THEN u[i] ELSE d[i - Len(u)]
  <2>1. d \in Seq(Nat)
    BY <1>2
  <2> QED
    BY <1>7, <2>1, ConcatProperties
<1>9. Len(u) \in Nat /\ Len(b) \in Nat /\ Len(f) = Len(g) /\ Len(f) = Len(u) + Len(b) + 1
  BY <1>2, <1>4, <1>6, <1>8
<1>10. ASSUME NEW i \in 1 .. Len(f) PROVE f[i] = g[i]
  <2>0. i \in 1 .. Len(u) + Len(d) /\ i \in Int
    BY <1>2, <1>9
  <2>1. CASE i <= Len(u)
    <3>1. i \in 1 .. Len(e) /\ i \in 1 .. Len(u) + Len(b)
      BY <1>4, <1>9, <2>0, <2>1
    <3> QED
      BY <1>4, <1>6, <1>8, <2>0, <2>1, <3>1
  <2>2. CASE i > Len(u) /\ i <= Len(u) + Len(b)
    <3>1. i \in 1 .. Len(e) /\ i \in 1 .. Len(u) + Len(b) /\ i - Len(u) \in 1 .. Len(b) /\ ~(i <= Len(u))
      BY <1>4, <1>9, <2>0, <2>2
    <3>2. f[i] = b[i - Len(u)]
      BY <1>4, <1>6, <3>1
    <3>3. g[i] = d[i - Len(u)]
      BY <1>8, <2>0, <3>1
    <3> QED
      BY <1>2, <3>1, <3>2, <3>3
  <2>3. CASE i > Len(u) + Len(b)
    <3>1. i = Len(e) + 1 /\ i - Len(u) = Len(b) + 1 /\ ~(i <= Len(u))
      BY <1>4, <1>9, <2>0, <2>3
    <3> QED
      BY <1>2, <1>6, <1>8, <2>0, <3>1
  <2> QED
    BY <1>9, <2>0, <2>1, <2>2, <2>3
<1>11. f = g
  BY <1>6, <1>8, <1>9, <1>10, SeqEqual
<1> QED
  BY <1>1, <1>2, <1>3, <1>5, <1>6, <1>7, <1>11

\* The chunks of some of the places from the i-th on are the last of those of all of them.
LEMMA ChunksAtEnd ==
  ASSUME NEW s, NEW v, NEW w, NEW n \in Nat, NEW i \in Nat,
         \A k \in 1 .. n: k \in w => s[k].chunk \in Nat,
         \A k \in 1 .. n: k \in v <=> (k \in w /\ k >= i)
  PROVE  /\ ChunksAt(s, w, n) \in Seq(Nat) /\ ChunksAt(s, v, n) \in Seq(Nat)
         /\ \E u \in Seq(Nat): ChunksAt(s, w, n) = u \o ChunksAt(s, v, n)
<1> DEFINE Ends(k) ==
             /\ ChunksAt(s, w, k) \in Seq(Nat) /\ ChunksAt(s, v, k) \in Seq(Nat)
             /\ \E u \in Seq(Nat): ChunksAt(s, w, k) = u \o ChunksAt(s, v, k)
           P == {k \in Nat: k <= n => Ends(k)}
<1>1. 0 \in P
  <2>1. ChunksAt(s, w, 0) = <<>> /\ ChunksAt(s, v, 0) = <<>>
    BY ChunksAtStep
  <2>2. <<>> \in Seq(Nat) /\ <<>> = <<>> \o <<>>
    OBVIOUS
  <2>3. Ends(0)
    BY <2>1, <2>2
  <2> QED
    BY <2>3
<1>2. ASSUME NEW k \in P PROVE k + 1 \in P
  <2>1. ASSUME k + 1 <= n PROVE Ends(k + 1)
    <3>1. k \in Nat /\ k <= n /\ k + 1 \in 1 .. n
      BY <2>1
    <3>2. Ends(k)
      BY <3>1
    <3>3. PICK a: a = ChunksAt(s, w, k)
      OBVIOUS
    <3>4. PICK b: b = ChunksAt(s, v, k)
      OBVIOUS
    <3>5. PICK c: c = s[k + 1].chunk
      OBVIOUS
    <3>6. a \in Seq(Nat) /\ b \in Seq(Nat)
      BY <3>2, <3>3, <3>4
    <3>7. PICK u \in Seq(Nat): a = u \o b
      BY <3>2, <3>3, <3>4
    <3>8. (k + 1 \in w => ChunksAt(s, w, k + 1) = Append(a, c)) /\ (k + 1 \notin w => ChunksAt(s, w, k + 1) = a)
      BY <3>1, <3>3, <3>5, ChunksAtStep
    <3>9. (k + 1 \in v => ChunksAt(s, v, k + 1) = Append(b, c)) /\ (k + 1 \notin v => ChunksAt(s, v, k + 1) = b)
      BY <3>1, <3>4, <3>5, ChunksAtStep
    <3>10. k + 1 \in w => c \in Nat
      BY <3>1, <3>5
    <3>11. k + 1 \in v <=> (k + 1 \in w /\ k + 1 >= i)
      BY <3>1
    <3>12. CASE k + 1 \in v
      <4>0. c \in Nat
        BY <3>10, <3>11, <3>12
      <4>1. Append(a, c) = u \o Append(b, c) /\ Append(a, c) \in Seq(Nat) /\ Append(b, c) \in Seq(Nat)
        <5>1. Append(u \o b, c) = u \o Append(b, c)
          BY <3>6, <3>7, <4>0, AppendConcat
        <5> QED
          BY <3>6, <3>7, <4>0, <5>1
      <4> QED
        BY <3>7, <3>8, <3>9, <3>11, <3>12, <4>1
    <3>13. CASE k + 1 \notin w
      BY <3>6, <3>7, <3>8, <3>9, <3>11, <3>13
    <3>14. CASE k + 1 \notin v /\ k + 1 \in w
      <4>1. \A j \in 1 .. k: j \notin v
        BY <3>1, <3>11, <3>14
      <4>2. b = <<>>
        BY <3>1, <3>4, <4>1, ChunksAtNone
      <4>3. Append(a, c) \in Seq(Nat) /\ Append(a, c) = Append(a, c) \o <<>>
        BY <3>6, <3>10, <3>14
      <4> QED
        BY <3>6, <3>8, <3>9, <3>14, <4>2, <4>3
    <3> QED
      BY <3>12, <3>13, <3>14
  <2> HIDE DEF Ends
  <2> QED
    BY <2>1
<1>3. P = Nat
  <2> HIDE DEF P
  <2> QED
    BY <1>1, <1>2, InductionBySet DEF P
<1>4. Ends(n)
  <2> HIDE DEF Ends
  <2>1. n \in P
    BY <1>3
  <2> QED
    BY <2>1
<1> QED
  BY <1>4

-----------------------------------------------------------------------------
(* AttachOutput: what was taken, and what is late *)

\* An event that is published changes nothing of what was taken before.
LEMMA TakenPublished ==
  ASSUME NEW p \in Seq(Published), NEW e \in Published, NEW last \in Nat, last <= Len(p), NEW i \in Nat, i > 0
  PROVE  TakenTo(Append(p, e), i, last) = TakenTo(p, i, last)
<1>1. PICK q: q = Append(p, e)
  OBVIOUS
<1>2. \A k \in 1 .. last: q[k] = p[k]
  <2>1. \A k \in 1 .. Len(p): q[k] = p[k]
    BY <1>1, AppendProperties
  <2>2. Len(p) \in Nat
    OBVIOUS
  <2> QED
    BY <2>1, <2>2
<1> DEFINE v == {k \in i .. last: q[k].op = "append"}
           w == {k \in i .. last: p[k].op = "append"}
<1>3. \A k \in 1 .. last: (k \in v <=> k \in w) /\ (k \in v => q[k].chunk = p[k].chunk)
  BY <1>2
<1>4. TakenTo(q, i, last) = ChunksAt(q, v, last) /\ TakenTo(p, i, last) = ChunksAt(p, w, last)
  BY DEF TakenTo
<1> HIDE DEF v, w
<1>5. ChunksAt(q, v, last) = ChunksAt(p, w, last)
  BY <1>3, ChunksAtSame
<1> QED
  BY <1>1, <1>4, <1>5

\* One more event that is taken adds its chunk if it is an append.
LEMMA TakenNext ==
  ASSUME NEW p \in Seq(Published), NEW last \in Nat, NEW i \in Nat, i > 0, i <= last + 1
  PROVE  TakenTo(p, i, last + 1) =
           IF p[last + 1].op = "append" THEN Append(TakenTo(p, i, last), p[last + 1].chunk) ELSE TakenTo(p, i, last)
<1> DEFINE v == {k \in i .. last + 1: p[k].op = "append"}
           w == {k \in i .. last: p[k].op = "append"}
<1>1. \A k \in 1 .. last: (k \in v <=> k \in w) /\ (k \in v => p[k].chunk = p[k].chunk)
  OBVIOUS
<1>2. last + 1 \in v <=> p[last + 1].op = "append"
  OBVIOUS
<1>3. TakenTo(p, i, last + 1) = ChunksAt(p, v, last + 1) /\ TakenTo(p, i, last) = ChunksAt(p, w, last)
  BY DEF TakenTo
<1> HIDE DEF v, w
<1>4. (last + 1 \in v => ChunksAt(p, v, last + 1) = Append(ChunksAt(p, v, last), p[last + 1].chunk)) /\ (last + 1 \notin v => ChunksAt(p, v, last + 1) = ChunksAt(p, v, last))
  BY ChunksAtStep
<1>5. ChunksAt(p, v, last) = ChunksAt(p, w, last)
  BY <1>1, ChunksAtSame
<1> QED
  BY <1>2, <1>3, <1>4, <1>5

LEMMA TakenNone ==
  ASSUME NEW p, NEW last \in Nat, NEW i \in Nat, i > last
  PROVE  TakenTo(p, i, last) = <<>>
<1> DEFINE w == {k \in i .. last: p[k].op = "append"}
<1>1. \A k \in 1 .. last: k \notin w
  OBVIOUS
<1>2. TakenTo(p, i, last) = ChunksAt(p, w, last)
  BY DEF TakenTo
<1> HIDE DEF w
<1> QED
  BY <1>1, <1>2, ChunksAtNone

\* What was taken from the i-th event on is the end of what was taken from an earlier one on.
LEMMA TakenEnds ==
  ASSUME NEW p \in Seq(Published), NEW last \in Nat, last <= Len(p), NEW j \in Nat, NEW i \in Nat, j > 0, j <= i
  PROVE  /\ TakenTo(p, j, last) \in Seq(Nat) /\ TakenTo(p, i, last) \in Seq(Nat)
         /\ \E u \in Seq(Nat): TakenTo(p, j, last) = u \o TakenTo(p, i, last)
<1> DEFINE v == {k \in i .. last: p[k].op = "append"}
           w == {k \in j .. last: p[k].op = "append"}
<1>1. \A k \in 1 .. last: k \in v <=> (k \in w /\ k >= i)
  OBVIOUS
<1>2. \A k \in 1 .. last: p[k].chunk \in Nat
  <2>1. \A k \in 1 .. Len(p): p[k] \in Published
    OBVIOUS
  <2>2. Len(p) \in Nat
    OBVIOUS
  <2> QED
    BY <2>1, <2>2 DEF Published
<1>3. TakenTo(p, i, last) = ChunksAt(p, v, last) /\ TakenTo(p, j, last) = ChunksAt(p, w, last)
  BY DEF TakenTo
<1> HIDE DEF v, w
<1>4. /\ ChunksAt(p, w, last) \in Seq(Nat) /\ ChunksAt(p, v, last) \in Seq(Nat)
      /\ \E u \in Seq(Nat): ChunksAt(p, w, last) = u \o ChunksAt(p, v, last)
  BY <1>1, <1>2, ChunksAtEnd
<1> QED
  BY <1>3, <1>4, Zenon

\* What is buffered adds its chunk if it is late.
LEMMA LateAppended ==
  ASSUME NEW b \in Seq(Stamped), NEW e \in Stamped, NEW cutoff \in Nat
  PROVE  LateChunks(Append(b, e), cutoff) =
           IF e.at >= cutoff THEN Append(LateChunks(b, cutoff), e.chunk) ELSE LateChunks(b, cutoff)
<1>1. PICK q: q = Append(b, e)
  OBVIOUS
<1>2. PICK n \in Nat: n = Len(b)
  OBVIOUS
<1>3. q \in Seq(Stamped) /\ Len(q) = n + 1 /\ q[n + 1] = e /\ \A k \in 1 .. n: q[k] = b[k]
  BY <1>1, <1>2, AppendProperties
<1>4. DOMAIN q = 1 .. n + 1 /\ DOMAIN b = 1 .. n
  BY <1>2, <1>3
<1> DEFINE v == {k \in DOMAIN q: q[k].at >= cutoff}
           w == {k \in DOMAIN b: b[k].at >= cutoff}
<1>5. \A k \in 1 .. n: (k \in v <=> k \in w) /\ (k \in v => q[k].chunk = b[k].chunk)
  BY <1>3, <1>4
<1>6. n + 1 \in v <=> e.at >= cutoff
  BY <1>3, <1>4
<1>7. LateChunks(q, cutoff) = ChunksAt(q, v, n + 1) /\ LateChunks(b, cutoff) = ChunksAt(b, w, n)
  BY <1>2, <1>3 DEF LateChunks
<1> HIDE DEF v, w
<1>8. (n + 1 \in v => ChunksAt(q, v, n + 1) = Append(ChunksAt(q, v, n), q[n + 1].chunk)) /\ (n + 1 \notin v => ChunksAt(q, v, n + 1) = ChunksAt(q, v, n))
  BY ChunksAtStep
<1>9. ChunksAt(q, v, n) = ChunksAt(b, w, n)
  BY <1>5, ChunksAtSame
<1> QED
  BY <1>1, <1>3, <1>6, <1>7, <1>8, <1>9

LEMMA NoneLate ==
  ASSUME NEW b \in Seq(Stamped), NEW cutoff \in Nat, \A k \in 1 .. Len(b): b[k].at < cutoff
  PROVE  LateChunks(b, cutoff) = <<>>
<1> DEFINE w == {k \in DOMAIN b: b[k].at >= cutoff}
<1>1. \A k \in 1 .. Len(b): k \notin w
  <2>0. \A k \in 1 .. Len(b): b[k] \in Stamped
    OBVIOUS
  <2>1. \A k \in 1 .. Len(b): b[k].at \in Nat
    BY <2>0 DEF Stamped
  <2> QED
    BY <2>1
<1>2. LateChunks(b, cutoff) = ChunksAt(b, w, Len(b)) /\ Len(b) \in Nat
  BY DEF LateChunks
<1> HIDE DEF w
<1> QED
  BY <1>1, <1>2, ChunksAtNone

-----------------------------------------------------------------------------
(* AttachOutput: the invariant *)

LEMMA EventIs ==
  ASSUME NEW op \in {"append", "truncate"}, NEW n \in Nat
  PROVE  Event(op, n) \in Published
BY DEF Event, Published

LEMMA AttachInitInv ==
  ASSUME AttachInit
  PROVE  AttachInv
<1>1. /\ file = <<>> /\ view = <<>> /\ snapshot = <<>> /\ published = <<>> /\ pending = <<>>
      /\ writing = [w \in Writers |-> Nothing] /\ events = 0 /\ received = 0 /\ stamped = Nothing
      /\ flushed = FALSE /\ stage = "subscribe" /\ cutoffs = 0 /\ readSize = 0 /\ mark = 0
  BY DEF AttachInit
<1>2. /\ file \in Seq(Nat) /\ view \in Seq(Nat) /\ snapshot \in Seq(Nat)
      /\ published \in Seq(Published) /\ pending \in Seq(Stamped) /\ Len(pending) = 0 /\ Len(published) = 0
  BY <1>1
<1>3. writing \in [Writers -> Published \cup {Nothing}]
  BY <1>1
<1>4. AttachType
  <2>1. Handling
    BY <1>1 DEF Handling
  <2>2. /\ \A k \in 1 .. Len(pending): pending[k].at <= cutoffs
        /\ events \in Nat /\ received \in Nat /\ received <= Len(published)
        /\ cutoffs \in Nat /\ readSize \in Nat /\ mark \in Nat
    <3>1. 1 .. Len(pending) = {} /\ Len(published) = 0
      BY <1>2
    <3> QED
      BY <1>1, <3>1
  <2>3. flushed \in BOOLEAN
    BY <1>1, Zenon
  <2> QED
    BY <1>1, <1>2, <1>3, <2>1, <2>2, <2>3 DEF AttachType
<1>5. BufferedLate /\ ShownLive /\ ViewFits
  BY <1>1 DEF BufferedLate, ShownLive, ViewFits
<1> QED
  BY <1>4, <1>5 DEF AttachInv

\* What the server does adds an event that was not taken yet, or none.
LEMMA ServerKeeps ==
  ASSUME AttachInv, NEW w \in Writers, Publish(w) \/ \E op \in {"append", "truncate"}: Write(w, op)
  PROVE  AttachInv'
<1>0. AttachType /\ BufferedLate /\ ShownLive /\ ViewFits
  BY DEF AttachInv
<1>1. CASE \E op \in {"append", "truncate"}: Write(w, op)
  <2>1. PICK op \in {"append", "truncate"}: Write(w, op)
    BY <1>1
  <2>2. events \in Nat /\ events' = events + 1 /\ file \in Seq(Nat) /\ writing \in [Writers -> Published \cup {Nothing}]
    BY <1>0, <2>1 DEF AttachType, Write
  <2>3. writing' = [writing EXCEPT ![w] = Event(op, events + 1)] /\ file' = IF op = "append" THEN Append(file, events + 1) ELSE <<>>
    BY <2>1 DEF Write
  <2>4. events' \in Nat /\ events + 1 \in Nat
    BY <2>2
  <2>5. Event(op, events + 1) \in Published
    BY <2>4, EventIs
  <2>6. writing' \in [Writers -> Published \cup {Nothing}]
    BY <2>2, <2>3, <2>5
  <2>7. file' \in Seq(Nat)
    BY <2>2, <2>3, <2>4
  <2>8. /\ published' = published /\ received' = received /\ stamped' = stamped /\ pending' = pending /\ flushed' = flushed
        /\ stage' = stage /\ snapshot' = snapshot /\ cutoffs' = cutoffs /\ view' = view /\ readSize' = readSize /\ mark' = mark
    BY <2>1 DEF Write, handlerVars, bufferVars, loadVars
  <2>9. AttachType'
    BY <1>0, <2>4, <2>6, <2>7, <2>8 DEF AttachType, Handling
  <2>10. BufferedLate' /\ ShownLive' /\ ViewFits'
    BY <1>0, <2>8 DEF BufferedLate, ShownLive, ViewFits, LastTaken
  <2> QED
    BY <2>9, <2>10 DEF AttachInv
<1>2. CASE Publish(w)
  <2>1. /\ writing \in [Writers -> Published \cup {Nothing}] /\ published \in Seq(Published) /\ received \in Nat
        /\ received <= Len(published) /\ Len(published) \in Nat /\ mark \in Nat
    BY <1>0 DEF AttachType
  <2>2. /\ writing[w] \in Published /\ writing' = [writing EXCEPT ![w] = Nothing]
        /\ published' = IF subscribed THEN Append(published, writing[w]) ELSE published
    BY <1>2, <2>1 DEF Publish
  <2>3. /\ received' = received /\ stamped' = stamped /\ pending' = pending /\ flushed' = flushed /\ file' = file
        /\ events' = events
        /\ stage' = stage /\ snapshot' = snapshot /\ cutoffs' = cutoffs /\ view' = view /\ readSize' = readSize /\ mark' = mark
    BY <1>2 DEF Publish, handlerVars, bufferVars, loadVars, pastVars
  <2>4. writing' \in [Writers -> Published \cup {Nothing}]
    BY <2>1, <2>2
  <2>5. /\ published' \in Seq(Published) /\ received <= Len(published')
        /\ \A k \in 1 .. Len(published): published'[k] = published[k]
    BY <2>1, <2>2, AppendProperties
  <2>6. received > 0 => published'[received] = published[received]
    BY <2>1, <2>5
  <2>7. AttachType'
    BY <1>0, <2>3, <2>4, <2>5, <2>6 DEF AttachType, Handling
  <2>8. LastTaken \in Nat /\ LastTaken <= Len(published) /\ LastTaken' = LastTaken
    <3>1. stamped # Nothing => received > 0
      BY <1>0 DEF AttachType, Handling
    <3> QED
      BY <2>1, <2>3, <3>1 DEF LastTaken
  <2>9. ASSUME NEW i \in Nat, i > 0 PROVE TakenTo(published', i, LastTaken') = TakenTo(published, i, LastTaken)
    BY <2>1, <2>2, <2>8, <2>9, TakenPublished
  <2>10. BufferedLate'
    <3>1. mark + 1 \in Nat /\ mark + 1 > 0
      BY <2>1
    <3>2. TakenTo(published', mark + 1, LastTaken') = TakenTo(published, mark + 1, LastTaken)
      BY <2>9, <3>1
    <3> QED
      BY <1>0, <2>3, <3>2 DEF BufferedLate
  <2>11. ShownLive'
    <3>1. \A m \in {mark, mark + 1}: m > 0 => TakenTo(published', m, LastTaken') = TakenTo(published, m, LastTaken)
      BY <2>1, <2>9
    <3> QED
      BY <1>0, <2>3, <3>1 DEF ShownLive
  <2>12. ViewFits'
    BY <1>0, <2>3 DEF ViewFits
  <2> QED
    BY <2>7, <2>10, <2>11, <2>12 DEF AttachInv
<1> QED
  BY <1>1, <1>2

\* The handler takes an event: a truncation adds nothing, an append is held.
LEMMA RecvKeeps ==
  ASSUME AttachInv, RecvEvent
  PROVE  AttachInv'
<1>0. AttachType /\ BufferedLate /\ ShownLive /\ ViewFits
  BY DEF AttachInv
<1>1. /\ published \in Seq(Published) /\ received \in Nat /\ received < Len(published) /\ Len(published) \in Nat
      /\ stamped = Nothing /\ mark \in Nat /\ cutoffs \in Nat
  BY <1>0 DEF AttachType, RecvEvent
<1>2. PICK ev: ev = published[received + 1]
  OBVIOUS
<1>3. ev \in Published /\ ev.op \in {"append", "truncate"} /\ ev.chunk \in Nat
  <2>1. received + 1 \in 1 .. Len(published)
    BY <1>1
  <2>2. ev \in Published
    BY <1>1, <1>2, <2>1
  <2> QED
    BY <2>2 DEF Published
<1>4. received' = received + 1 /\ stamped' = IF ev.op = "append" THEN [chunk |-> ev.chunk, at |-> cutoffs] ELSE Nothing
  BY <1>2 DEF RecvEvent
<1>5. /\ published' = published /\ pending' = pending /\ flushed' = flushed /\ file' = file
      /\ events' = events /\ writing' = writing
      /\ stage' = stage /\ snapshot' = snapshot /\ cutoffs' = cutoffs /\ view' = view /\ readSize' = readSize /\ mark' = mark
  BY DEF RecvEvent, serverVars, bufferVars, loadVars, pastVars
<1>6. /\ ev.op = "append" => stamped' # Nothing /\ stamped' \in Stamped /\ stamped'.at = cutoffs /\ stamped'.chunk = ev.chunk
      /\ ev.op # "append" => stamped' = Nothing
  <2>1. [chunk |-> ev.chunk, at |-> cutoffs] \in Stamped
    BY <1>1, <1>3 DEF Stamped
  <2>2. Nothing \notin Stamped
    BY AttachAssumption DEF Stamped
  <2> QED
    BY <1>4, <2>1, <2>2
<1>7. AttachType'
  <2>1. received' \in Nat /\ received' <= Len(published')
    BY <1>1, <1>4, <1>5
  <2>2. Handling'
    <3>1. published'[received'] = ev /\ received' > 0
      BY <1>1, <1>2, <1>4, <1>5
    <3>2. stamped' # Nothing => ev.op = "append"
      BY <1>6
    <3>3. cutoffs <= cutoffs
      BY <1>1
    <3> QED
      BY <1>5, <1>6, <3>1, <3>2, <3>3 DEF Handling
  <2> QED
    BY <1>0, <1>5, <2>1, <2>2 DEF AttachType
<1>8. LastTaken = received /\ LastTaken' = IF ev.op = "append" THEN received ELSE received + 1
  BY <1>1, <1>4, <1>6 DEF LastTaken
<1>9. ASSUME NEW i \in Nat, i > 0, i <= received + 1 PROVE TakenTo(published', i, LastTaken') = TakenTo(published, i, LastTaken)
  <2>1. CASE ev.op = "append"
    BY <1>5, <1>8, <2>1
  <2>2. CASE ev.op # "append"
    <3>1. TakenTo(published, i, received + 1) = TakenTo(published, i, received)
      BY <1>1, <1>2, <1>9, <2>2, TakenNext
    <3> QED
      BY <1>5, <1>8, <2>2, <3>1
  <2> QED
    BY <2>1, <2>2
<1>10. BufferedLate'
  <2> SUFFICES ASSUME stage = "flush" PROVE BufferedLate'
    BY <1>5 DEF BufferedLate
  <2>1. mark <= received /\ LateChunks(pending, cutoffs) = TakenTo(published, mark + 1, LastTaken)
    BY <1>0 DEF BufferedLate
  <2>2. mark + 1 \in Nat /\ mark + 1 > 0 /\ mark + 1 <= received + 1 /\ mark <= received' /\ received' > mark
    BY <1>1, <1>4, <2>1
  <2>3. TakenTo(published', mark + 1, LastTaken') = TakenTo(published, mark + 1, LastTaken)
    BY <1>9, <2>2
  <2>4. stamped' # Nothing => stamped'.at >= cutoffs
    BY <1>1, <1>6
  <2> QED
    BY <1>5, <2>1, <2>2, <2>3, <2>4 DEF BufferedLate
<1>11. ShownLive'
  <2> SUFFICES ASSUME stage = "live" PROVE ShownLive'
    BY <1>5 DEF ShownLive
  <2>1. mark <= received
    BY <1>0 DEF ShownLive
  <2>2. PICK m \in {mark, mark + 1}: m > 0 /\ view = snapshot \o TakenTo(published, m, LastTaken)
    BY <1>0 DEF ShownLive
  <2>3. m \in Nat /\ m <= received + 1 /\ mark <= received'
    BY <1>1, <1>4, <2>1
  <2>4. TakenTo(published', m, LastTaken') = TakenTo(published, m, LastTaken)
    BY <1>9, <2>2, <2>3
  <2>5. m \in {mark', mark' + 1} /\ view' = snapshot' \o TakenTo(published', m, LastTaken')
    BY <1>5, <2>2, <2>4
  <2> QED
    BY <1>5, <2>2, <2>3, <2>5 DEF ShownLive
<1>12. ViewFits'
  BY <1>0, <1>5 DEF ViewFits
<1> QED
  BY <1>7, <1>10, <1>11, <1>12 DEF AttachInv

\* The handler writes what it holds, to the buffer or to the view.
LEMMA WriteKeeps ==
  ASSUME AttachInv, WriteEvent, stage # "ended"
  PROVE  AttachInv'
<1>0. AttachType /\ BufferedLate /\ ShownLive /\ ViewFits
  BY DEF AttachInv
<1>1. /\ published \in Seq(Published) /\ received \in Nat /\ received <= Len(published) /\ Len(published) \in Nat
      /\ mark \in Nat /\ cutoffs \in Nat /\ pending \in Seq(Stamped) /\ view \in Seq(Nat) /\ snapshot \in Seq(Nat)
      /\ stamped # Nothing /\ Handling
  BY <1>0 DEF AttachType, WriteEvent
<1>2. /\ stamped \in Stamped /\ stamped.at <= cutoffs /\ received > 0
      /\ published[received].op = "append" /\ published[received].chunk = stamped.chunk
      /\ stamped.chunk \in Nat /\ stamped.at \in Nat
  BY <1>1 DEF Handling, Stamped
<1>3. PICK c \in Nat: c = stamped.chunk
  BY <1>2
<1>4. IF flushed THEN view' = Append(view, c) /\ pending' = pending ELSE pending' = Append(pending, stamped) /\ view' = view
  BY <1>3 DEF WriteEvent
<1>5. /\ stamped' = Nothing /\ received' = received /\ published' = published /\ flushed' = flushed /\ file' = file
      /\ events' = events /\ writing' = writing
      /\ stage' = stage /\ snapshot' = snapshot /\ cutoffs' = cutoffs /\ readSize' = readSize /\ mark' = mark
  BY DEF WriteEvent, serverVars, loadVars, pastVars
<1>6. flushed <=> stage = "live"
  BY <1>0 DEF ViewFits
<1>7. AttachType'
  <2>1. view' \in Seq(Nat)
    <3>1. view \in Seq(Nat)
      BY <1>1
    <3>2. Append(view, c) \in Seq(Nat)
      BY <3>1, AppendProperties
    <3> QED
      BY <1>4, <3>1, <3>2
  <2>2. pending' \in Seq(Stamped) /\ \A k \in 1 .. Len(pending'): pending'[k].at <= cutoffs
    <3>1. \A k \in 1 .. Len(pending): pending[k].at <= cutoffs
      BY <1>0 DEF AttachType
    <3>2. CASE flushed
      BY <1>1, <1>4, <3>1, <3>2
    <3>3. CASE ~flushed
      <4>1. pending' = Append(pending, stamped)
        BY <1>4, <3>3
      <4>2. /\ pending' \in Seq(Stamped) /\ Len(pending') = Len(pending) + 1 /\ pending'[Len(pending) + 1] = stamped
            /\ \A k \in 1 .. Len(pending): pending'[k] = pending[k]
        BY <1>1, <1>2, <4>1, AppendProperties
      <4>3. Len(pending) \in Nat
        BY <1>1
      <4> QED
        BY <1>2, <3>1, <4>2, <4>3
    <3> QED
      BY <3>2, <3>3
  <2>3. Handling'
    BY <1>5 DEF Handling
  <2> QED
    BY <1>0, <1>5, <2>1, <2>2, <2>3 DEF AttachType
<1>8. LastTaken = received - 1 /\ LastTaken' = received /\ received - 1 \in Nat /\ (received - 1) + 1 = received
  BY <1>1, <1>2, <1>5 DEF LastTaken
<1>9. ASSUME NEW i \in Nat, i > 0, i <= received
      PROVE  TakenTo(published', i, LastTaken') = Append(TakenTo(published, i, LastTaken), c)
  <2>1. TakenTo(published, i, (received - 1) + 1) =
          IF published[(received - 1) + 1].op = "append"
            THEN Append(TakenTo(published, i, received - 1), published[(received - 1) + 1].chunk)
            ELSE TakenTo(published, i, received - 1)
    <3>1. PICK n \in Nat: n = received - 1
      BY <1>8
    <3>2. i <= n + 1
      BY <1>1, <1>9, <3>1
    <3>3. TakenTo(published, i, n + 1) =
            IF published[n + 1].op = "append" THEN Append(TakenTo(published, i, n), published[n + 1].chunk)
            ELSE TakenTo(published, i, n)
      BY <1>1, <1>9, <3>2, TakenNext
    <3> QED
      BY <3>1, <3>3
  <2> QED
    BY <1>2, <1>3, <1>5, <1>8, <2>1
<1>10. BufferedLate'
  <2> SUFFICES ASSUME stage = "flush" PROVE BufferedLate'
    BY <1>5 DEF BufferedLate
  <2>1. /\ mark <= received /\ (stamped.at >= cutoffs <=> received > mark)
        /\ LateChunks(pending, cutoffs) = TakenTo(published, mark + 1, LastTaken)
    BY <1>0, <1>1 DEF BufferedLate
  <2>2. pending' = Append(pending, stamped)
    BY <1>4, <1>6
  <2>3. LateChunks(pending', cutoffs) = IF stamped.at >= cutoffs THEN Append(LateChunks(pending, cutoffs), c) ELSE LateChunks(pending, cutoffs)
    BY <1>1, <1>2, <1>3, <2>2, LateAppended
  <2>4. mark + 1 \in Nat /\ mark + 1 > 0
    BY <1>1
  <2>5. CASE received > mark
    <3>1. mark + 1 <= received
      BY <1>1, <2>5
    <3>2. TakenTo(published', mark + 1, LastTaken') = Append(TakenTo(published, mark + 1, LastTaken), c)
      BY <1>9, <2>4, <3>1
    <3> QED
      BY <1>5, <2>1, <2>3, <2>5, <3>2 DEF BufferedLate
  <2>6. CASE ~(received > mark)
    <3>1. mark + 1 > received /\ mark + 1 > received - 1
      BY <1>1, <2>6
    <3>2. TakenTo(published, mark + 1, received) = <<>> /\ TakenTo(published, mark + 1, received - 1) = <<>>
      BY <1>1, <1>8, <2>4, <3>1, TakenNone
    <3>3. TakenTo(published', mark + 1, LastTaken') = TakenTo(published, mark + 1, LastTaken)
      BY <1>5, <1>8, <3>2
    <3> QED
      BY <1>5, <2>1, <2>3, <2>6, <3>3 DEF BufferedLate
  <2> QED
    BY <2>5, <2>6
<1>11. ShownLive'
  <2> SUFFICES ASSUME stage = "live" PROVE ShownLive'
    BY <1>5 DEF ShownLive
  <2>1. mark <= received
    BY <1>0 DEF ShownLive
  <2>2. PICK m \in {mark, mark + 1}: m > 0 /\ view = snapshot \o TakenTo(published, m, LastTaken)
    BY <1>0 DEF ShownLive
  <2>3. view' = Append(view, c)
    BY <1>4, <1>6
  <2>4. PICK n \in {mark, mark + 1}: n > 0 /\ n <= received /\ TakenTo(published, n, LastTaken) = TakenTo(published, m, LastTaken)
    <3>1. CASE m <= received
      BY <2>2, <3>1
    <3>2. CASE ~(m <= received)
      <4>1. mark \in Nat /\ mark = received /\ mark > 0 /\ m \in Nat /\ m > received - 1 /\ mark > received - 1
        BY <1>1, <1>2, <2>1, <2>2, <3>2
      <4>2. TakenTo(published, m, received - 1) = <<>> /\ TakenTo(published, mark, received - 1) = <<>>
        BY <1>1, <1>8, <4>1, TakenNone
      <4> QED
        BY <1>8, <2>1, <4>1, <4>2
    <3> QED
      BY <3>1, <3>2
  <2>5. n \in Nat
    BY <1>1
  <2>6. PICK t: t = TakenTo(published, n, LastTaken)
    OBVIOUS
  <2>7. t \in Seq(Nat)
    <3>1. LastTaken \in Nat /\ LastTaken <= Len(published)
      BY <1>1, <1>8
    <3> QED
      BY <1>1, <2>4, <2>5, <2>6, <3>1, TakenEnds
  <2>8. Append(snapshot \o t, c) = snapshot \o Append(t, c)
    <3>1. PICK s \in Seq(Nat): s = snapshot
      BY <1>1
    <3>2. Append(s \o t, c) = s \o Append(t, c)
      BY <2>7, AppendConcat, Zenon
    <3> QED
      BY <3>1, <3>2
  <2>9. TakenTo(published', n, LastTaken') = Append(t, c)
    BY <1>9, <2>4, <2>5, <2>6
  <2>10. view' = snapshot' \o TakenTo(published', n, LastTaken')
    BY <1>5, <2>2, <2>3, <2>4, <2>6, <2>8, <2>9
  <2> QED
    BY <1>5, <2>1, <2>4, <2>10 DEF ShownLive
<1>12. ViewFits'
  BY <1>0, <1>4, <1>5, <1>6 DEF ViewFits
<1> QED
  BY <1>7, <1>10, <1>11, <1>12 DEF AttachInv

\* StreamOutput goes on.
LEMMA LoadKeeps ==
  ASSUME AttachInv, Subscribe \/ ReadFile \/ CopySnapshot \/ TakeCutoff
  PROVE  AttachInv'
<1>0. AttachType /\ BufferedLate /\ ShownLive /\ ViewFits
  BY DEF AttachInv
<1>1. CASE Subscribe
  <2>1. /\ stage = "subscribe" /\ stage' = "load"
        /\ file' = file /\ writing' = writing /\ events' = events /\ published' = published /\ received' = received
        /\ stamped' = stamped /\ pending' = pending /\ flushed' = flushed /\ snapshot' = snapshot /\ cutoffs' = cutoffs
        /\ view' = view /\ readSize' = readSize /\ mark' = mark
    BY <1>1 DEF Subscribe, serverVars, handlerVars, bufferVars, pastVars
  <2>2. AttachType'
    BY <1>0, <2>1 DEF AttachType, Handling
  <2> QED
    BY <1>0, <2>1, <2>2 DEF AttachInv, BufferedLate, ShownLive, ViewFits
<1>2. CASE ReadFile
  <2>1. /\ stage = "load" /\ stage' = "copy" /\ snapshot' = file
        /\ file' = file /\ writing' = writing /\ events' = events /\ published' = published /\ received' = received
        /\ stamped' = stamped /\ pending' = pending /\ flushed' = flushed /\ cutoffs' = cutoffs
        /\ view' = view /\ readSize' = readSize /\ mark' = mark
    BY <1>2 DEF ReadFile, serverVars, handlerVars, bufferVars
  <2>2. AttachType'
    BY <1>0, <2>1 DEF AttachType, Handling
  <2> QED
    BY <1>0, <2>1, <2>2 DEF AttachInv, BufferedLate, ShownLive, ViewFits
<1>3. CASE CopySnapshot
  <2>1. /\ stage = "copy" /\ stage' = "cutoff" /\ view' = view \o snapshot /\ readSize' = Len(snapshot)
        /\ file' = file /\ writing' = writing /\ events' = events /\ published' = published /\ received' = received
        /\ stamped' = stamped /\ pending' = pending /\ flushed' = flushed /\ snapshot' = snapshot /\ cutoffs' = cutoffs
        /\ mark' = mark
    BY <1>3 DEF CopySnapshot, serverVars, handlerVars, bufferVars
  <2>2. snapshot \in Seq(Nat) /\ view = <<>> /\ Len(snapshot) \in Nat
    BY <1>0, <2>1 DEF AttachType, ViewFits
  <2>3. view' = snapshot
    BY <2>1, <2>2, ConcatEmptySeq
  <2>4. AttachType'
    BY <1>0, <2>1, <2>2, <2>3 DEF AttachType, Handling
  <2> QED
    BY <1>0, <2>1, <2>3, <2>4 DEF AttachInv, BufferedLate, ShownLive, ViewFits
<1>4. CASE TakeCutoff
  <2>1. /\ stage = "cutoff" /\ stage' = "flush" /\ cutoffs' = cutoffs + 1 /\ mark' = received
        /\ file' = file /\ writing' = writing /\ events' = events /\ published' = published /\ received' = received
        /\ stamped' = stamped /\ pending' = pending /\ flushed' = flushed /\ snapshot' = snapshot
        /\ view' = view /\ readSize' = readSize
    BY <1>4 DEF TakeCutoff, serverVars, handlerVars, bufferVars
  <2>2. /\ received \in Nat /\ cutoffs \in Nat /\ pending \in Seq(Stamped) /\ Handling
        /\ \A k \in 1 .. Len(pending): pending[k].at <= cutoffs
    BY <1>0 DEF AttachType
  <2>3. \A k \in 1 .. Len(pending): pending[k].at \in Nat
    <3>1. \A k \in 1 .. Len(pending): pending[k] \in Stamped
      BY <2>2
    <3> QED
      BY <3>1 DEF Stamped
  <2>4. \A k \in 1 .. Len(pending): pending[k].at <= cutoffs + 1 /\ pending[k].at < cutoffs + 1
    BY <2>2, <2>3
  <2>5. stamped # Nothing => stamped.at \in Nat /\ stamped.at <= cutoffs + 1 /\ ~(stamped.at >= cutoffs + 1)
    <3>1. stamped # Nothing => stamped.at \in Nat /\ stamped.at <= cutoffs
      BY <2>2 DEF Handling, Stamped
    <3> QED
      BY <2>2, <3>1
  <2>6. Handling'
    BY <2>1, <2>2, <2>5 DEF Handling
  <2>7. AttachType'
    <3>1. cutoffs' \in Nat /\ mark' \in Nat
      BY <2>1, <2>2
    <3> QED
      BY <1>0, <2>1, <2>4, <2>6, <3>1 DEF AttachType
  <2>8. LateChunks(pending, cutoffs + 1) = <<>>
    <3>1. PICK n \in Nat: n = cutoffs + 1
      BY <2>2
    <3>2. \A k \in 1 .. Len(pending): pending[k].at < n
      BY <2>4, <3>1
    <3> QED
      BY <2>2, <3>1, <3>2, NoneLate
  <2>9. TakenTo(published, received + 1, LastTaken') = <<>>
    <3>1. PICK n \in Nat: n = LastTaken' /\ n <= received
      <4>1. stamped # Nothing => received > 0
        BY <2>2 DEF Handling
      <4> QED
        BY <2>1, <2>2, <4>1 DEF LastTaken
    <3>2. received + 1 \in Nat /\ received + 1 > n
      BY <2>2, <3>1
    <3> QED
      BY <3>1, <3>2, TakenNone
  <2>10. BufferedLate'
    BY <2>1, <2>2, <2>5, <2>8, <2>9 DEF BufferedLate
  <2>11. ShownLive' /\ ViewFits'
    BY <1>0, <2>1 DEF ShownLive, ViewFits
  <2> QED
    BY <2>7, <2>10, <2>11 DEF AttachInv
<1> QED
  BY <1>1, <1>2, <1>3, <1>4

\* The flush shows what is late.
LEMMA FlushKeeps ==
  ASSUME AttachInv, Flush
  PROVE  AttachInv'
<1>0. AttachType /\ BufferedLate /\ ShownLive /\ ViewFits
  BY DEF AttachInv
<1>1. /\ stage = "flush" /\ stage' = "live" /\ view' = view \o ChunksAt(pending, Late, Len(pending))
      /\ pending' = <<>> /\ flushed' = TRUE
      /\ file' = file /\ writing' = writing /\ events' = events /\ published' = published /\ received' = received
      /\ stamped' = stamped /\ snapshot' = snapshot /\ cutoffs' = cutoffs
      /\ readSize' = readSize /\ mark' = mark
  BY DEF Flush, serverVars, handlerVars, pastVars
<1>2. /\ received \in Nat /\ mark \in Nat /\ published \in Seq(Published) /\ received <= Len(published)
      /\ Handling /\ snapshot \in Seq(Nat)
  BY <1>0 DEF AttachType
<1>3. mark <= received /\ LateChunks(pending, cutoffs) = TakenTo(published, mark + 1, LastTaken)
  BY <1>0, <1>1 DEF BufferedLate
<1>4. view = snapshot /\ readSize = Len(snapshot)
  BY <1>0, <1>1 DEF ViewFits
<1>5. ChunksAt(pending, Late, Len(pending)) = LateChunks(pending, cutoffs)
  BY DEF Late, LateChunks
<1>6. view' = snapshot \o TakenTo(published, mark + 1, LastTaken)
  BY <1>1, <1>3, <1>4, <1>5
<1>7. LastTaken \in Nat /\ LastTaken <= Len(published) /\ LastTaken' = LastTaken
  <2>1. stamped # Nothing => received > 0
    BY <1>2 DEF Handling
  <2>2. Len(published) \in Nat
    BY <1>2
  <2> QED
    BY <1>1, <1>2, <2>1, <2>2 DEF LastTaken
<1>8. mark + 1 \in Nat /\ mark + 1 > 0
  BY <1>2
<1>9. TakenTo(published, mark + 1, LastTaken) \in Seq(Nat)
  <2>1. PICK i \in Nat: i = mark + 1 /\ i > 0 /\ i <= i
    BY <1>8
  <2>2. TakenTo(published, i, LastTaken) \in Seq(Nat)
    BY <1>2, <1>7, <2>1, TakenEnds
  <2> QED
    BY <2>1, <2>2
<1>10. view' \in Seq(Nat)
  BY <1>2, <1>6, <1>9, ConcatProperties
<1>11. AttachType'
  <2>1. pending' \in Seq(Stamped) /\ \A k \in 1 .. Len(pending'): pending'[k].at <= cutoffs
    BY <1>1
  <2>2. Handling'
    BY <1>1, <1>2 DEF Handling
  <2> QED
    BY <1>0, <1>1, <1>10, <2>1, <2>2 DEF AttachType
<1>12. ShownLive'
  <2>1. mark + 1 \in {mark', mark' + 1} /\ view' = snapshot' \o TakenTo(published', mark + 1, LastTaken')
    BY <1>1, <1>6, <1>7
  <2> QED
    BY <1>1, <1>3, <1>8, <2>1 DEF ShownLive
<1>13. BufferedLate' /\ ViewFits'
  BY <1>1, <1>4 DEF BufferedLate, ViewFits
<1> QED
  BY <1>11, <1>12, <1>13 DEF AttachInv

\* A resync is asked for and starts over, or dsh exits.
LEMMA RestartKeeps ==
  ASSUME AttachInv, Unflush \/ Reset \/ AskResync \/ End
  PROVE  AttachInv'
<1>0. AttachType /\ BufferedLate /\ ShownLive /\ ViewFits
  BY DEF AttachInv
<1>1. CASE Unflush
  <2>1. /\ stage = "live" /\ stage' = "reset" /\ pending' = <<>> /\ flushed' = FALSE
        /\ file' = file /\ writing' = writing /\ events' = events /\ published' = published /\ received' = received
        /\ stamped' = stamped /\ snapshot' = snapshot /\ cutoffs' = cutoffs /\ view' = view
        /\ readSize' = readSize /\ mark' = mark
    BY <1>1 DEF Unflush, serverVars, handlerVars, pastVars
  <2>2. pending' \in Seq(Stamped) /\ \A k \in 1 .. Len(pending'): pending'[k].at <= cutoffs
    BY <2>1
  <2>3. AttachType'
    BY <1>0, <2>1, <2>2 DEF AttachType, Handling
  <2> QED
    BY <1>0, <2>1, <2>3 DEF AttachInv, BufferedLate, ShownLive, ViewFits
<1>2. CASE Reset
  <2>1. /\ stage = "reset" /\ stage' = "load" /\ view' = <<>> /\ readSize' = 0
        /\ file' = file /\ writing' = writing /\ events' = events /\ published' = published /\ received' = received
        /\ stamped' = stamped /\ pending' = pending /\ flushed' = flushed /\ snapshot' = snapshot /\ cutoffs' = cutoffs
        /\ mark' = mark
    BY <1>2 DEF Reset, serverVars, handlerVars, bufferVars
  <2>2. view' \in Seq(Nat) /\ readSize' \in Nat
    BY <2>1
  <2>3. AttachType'
    BY <1>0, <2>1, <2>2 DEF AttachType, Handling
  <2> QED
    BY <1>0, <2>1, <2>3 DEF AttachInv, BufferedLate, ShownLive, ViewFits
<1>3. CASE AskResync
  <2>1. /\ file' = file /\ writing' = writing /\ events' = events /\ published' = published /\ received' = received
        /\ stamped' = stamped /\ pending' = pending /\ flushed' = flushed /\ snapshot' = snapshot /\ cutoffs' = cutoffs
        /\ mark' = mark /\ stage' = stage /\ view' = view /\ readSize' = readSize
    BY <1>3 DEF AskResync, serverVars, handlerVars, bufferVars, loadVars, pastVars
  <2> QED
    BY <1>0, <2>1 DEF AttachInv, AttachType, Handling, BufferedLate, ShownLive, ViewFits, LastTaken
<1>4. CASE End
  <2>1. /\ file' = file /\ writing' = writing /\ events' = events /\ published' = published /\ received' = received
        /\ stamped' = stamped /\ pending' = pending /\ flushed' = flushed /\ snapshot' = snapshot /\ cutoffs' = cutoffs
        /\ mark' = mark /\ stage' = "ended" /\ view' = view /\ readSize' = readSize
    BY <1>4 DEF End, serverVars, handlerVars, bufferVars, pastVars
  <2>2. AttachType'
    BY <1>0, <2>1 DEF AttachType, Handling
  <2> QED
    BY <2>1, <2>2 DEF AttachInv, BufferedLate, ShownLive, ViewFits
<1> QED
  BY <1>1, <1>2, <1>3, <1>4

LEMMA AttachStepInv ==
  ASSUME AttachInv, [AttachNext]_attachVars
  PROVE  AttachInv'
<1>1. CASE UNCHANGED attachVars
  <2>1. /\ file' = file /\ writing' = writing /\ events' = events /\ published' = published /\ received' = received
        /\ stamped' = stamped /\ pending' = pending /\ flushed' = flushed /\ snapshot' = snapshot /\ cutoffs' = cutoffs
        /\ mark' = mark /\ stage' = stage /\ view' = view /\ readSize' = readSize
    BY <1>1 DEF attachVars, serverVars, handlerVars, bufferVars, loadVars, pastVars
  <2> QED
    BY <2>1 DEF AttachInv, AttachType, Handling, BufferedLate, ShownLive, ViewFits, LastTaken
<1>2. CASE AttachNext
  <2>1. CASE \E w \in Writers: Publish(w) \/ \E op \in {"append", "truncate"}: Write(w, op)
    BY <2>1, ServerKeeps
  <2>2. CASE stage # "ended" /\ (RecvEvent \/ WriteEvent)
    BY <2>2, RecvKeeps, WriteKeeps
  <2>3. CASE StreamOutput
    BY <2>3, LoadKeeps, FlushKeeps, RestartKeeps DEF StreamOutput
  <2>4. CASE AskResync \/ End
    BY <2>4, RestartKeeps
  <2> QED
    BY <1>2, <2>1, <2>2, <2>3, <2>4 DEF AttachNext
<1> QED
  BY <1>1, <1>2

-----------------------------------------------------------------------------
(* AttachOutput: the property *)

LEMMA SuffixIs ==
  ASSUME NEW S, NEW u \in Seq(S), NEW s \in Seq(S), NEW t, t = u \o s
  PROVE  IsSuffix(s, t)
<1>1. t \in Seq(S) /\ Len(t) = Len(u) + Len(s) /\ Len(u) \in Nat /\ Len(s) \in Nat
      /\ \A i \in 1 .. Len(u) + Len(s): t[i] = IF i <= Len(u) THEN u[i] ELSE s[i - Len(u)]
  BY ConcatProperties
<1>2. PICK r: r = Reverse(s)
  OBVIOUS
<1>3. PICK q: q = Reverse(t)
  OBVIOUS
<1>4. r \in Seq(S) /\ Len(r) = Len(s) /\ \A i \in 1 .. Len(s): r[i] = s[(Len(s) - i) + 1]
  BY <1>1, <1>2 DEF Reverse
<1>5. q \in Seq(S) /\ Len(q) = Len(t) /\ \A i \in 1 .. Len(t): q[i] = t[(Len(t) - i) + 1]
  BY <1>1, <1>3 DEF Reverse
<1>6. ASSUME NEW i \in 1 .. Len(s) PROVE r[i] = q[i]
  <2>1. i \in 1 .. Len(t) /\ (Len(t) - i) + 1 \in 1 .. Len(u) + Len(s) /\ ~((Len(t) - i) + 1 <= Len(u))
        /\ ((Len(t) - i) + 1) - Len(u) = (Len(s) - i) + 1
    BY <1>1
  <2>2. q[i] = t[(Len(t) - i) + 1]
    BY <1>5, <2>1
  <2>3. t[(Len(t) - i) + 1] = s[((Len(t) - i) + 1) - Len(u)]
    BY <1>1, <2>1
  <2> QED
    BY <1>4, <2>1, <2>2, <2>3
<1>7. Len(r) \in Nat /\ Len(q) \in Nat /\ Len(r) <= Len(q)
  BY <1>1, <1>4, <1>5
<1>8. SubSeq(r, 1, Len(r)) = SubSeq(q, 1, Len(r))
  <2>1. /\ SubSeq(r, 1, Len(r)) \in Seq(S) /\ Len(SubSeq(r, 1, Len(r))) = Len(r)
        /\ \A i \in 1 .. Len(r): SubSeq(r, 1, Len(r))[i] = r[i]
    BY <1>4, <1>7
  <2>2. /\ SubSeq(q, 1, Len(r)) \in Seq(S) /\ Len(SubSeq(q, 1, Len(r))) = Len(r)
        /\ \A i \in 1 .. Len(r): SubSeq(q, 1, Len(r))[i] = q[i]
    BY <1>5, <1>7
  <2> QED
    BY <1>4, <1>6, <2>1, <2>2
<1> QED
  BY <1>2, <1>3, <1>7, <1>8 DEF IsSuffix, IsPrefix

\* The part of a sequence behind a prefix of it.
LEMMA PartsOf ==
  ASSUME NEW S, NEW u \in Seq(S), NEW s \in Seq(S), NEW t, t = u \o s
  PROVE  SubSeq(t, 1, Len(u)) = u /\ SubSeq(t, Len(u) + 1, Len(t)) = s
<1>1. t \in Seq(S) /\ Len(t) = Len(u) + Len(s) /\ Len(u) \in Nat /\ Len(s) \in Nat
      /\ \A i \in 1 .. Len(u) + Len(s): t[i] = IF i <= Len(u) THEN u[i] ELSE s[i - Len(u)]
  BY ConcatProperties
<1>2. SubSeq(t, 1, Len(u)) = u
  <2>1. /\ SubSeq(t, 1, Len(u)) \in Seq(S) /\ Len(SubSeq(t, 1, Len(u))) = Len(u)
        /\ \A i \in 1 .. Len(u): SubSeq(t, 1, Len(u))[i] = t[i]
    BY <1>1
  <2>2. \A i \in 1 .. Len(u): t[i] = u[i]
    BY <1>1
  <2> QED
    BY <2>1, <2>2
<1>3. SubSeq(t, Len(u) + 1, Len(t)) = s
  <2>1. /\ SubSeq(t, Len(u) + 1, Len(t)) \in Seq(S) /\ Len(SubSeq(t, Len(u) + 1, Len(t))) = Len(s)
        /\ \A i \in 1 .. Len(s): SubSeq(t, Len(u) + 1, Len(t))[i] = t[Len(u) + i]
    BY <1>1
  <2>2. ASSUME NEW i \in 1 .. Len(s) PROVE t[Len(u) + i] = s[i]
    <3>1. Len(u) + i \in 1 .. Len(u) + Len(s) /\ ~(Len(u) + i <= Len(u)) /\ (Len(u) + i) - Len(u) = i
      BY <1>1
    <3> QED
      BY <1>1, <3>1
  <2> QED
    BY <2>1, <2>2
<1> QED
  BY <1>2, <1>3

\* What the attached terminal shows after the snapshot is the last chunks that were published,
\* in their order, without a hole and nothing twice, and nothing that arrived after the cutoff
\* is missing, whatever writers, events, loads and resyncs interleave
\* (output.go:42-66, 182-190).
THEOREM LiveAlwaysJoins == AttachSpec => []LiveJoins
<1>1. AttachInv => LiveJoins
  <2> SUFFICES ASSUME AttachInv, stage = "live" PROVE LiveJoins
    BY DEF LiveJoins
  <2>1. /\ published \in Seq(Published) /\ received \in Nat /\ received <= Len(published) /\ mark \in Nat
        /\ snapshot \in Seq(Nat) /\ view \in Seq(Nat) /\ readSize = Len(snapshot) /\ mark <= received /\ Handling
    BY DEF AttachInv, AttachType, ViewFits, ShownLive
  <2>2. PICK m \in {mark, mark + 1}: m > 0 /\ view = snapshot \o TakenTo(published, m, LastTaken)
    BY DEF AttachInv, ShownLive
  <2>3. LastTaken \in Nat /\ LastTaken <= Len(published)
    <3>1. stamped # Nothing => received > 0
      BY <2>1 DEF Handling
    <3>2. Len(published) \in Nat
      BY <2>1
    <3> QED
      BY <2>1, <3>1, <3>2 DEF LastTaken
  <2>4. PICK live: live = TakenTo(published, m, LastTaken)
    OBVIOUS
  <2>5. m \in Nat /\ 1 <= m /\ mark + 1 \in Nat /\ m <= mark + 1
    BY <2>1, <2>2
  <2>6. Taken(1) = TakenTo(published, 1, LastTaken) /\ Taken(mark + 1) = TakenTo(published, mark + 1, LastTaken)
    BY DEF Taken, TakenTo, LastTaken
  <2>7. live \in Seq(Nat) /\ \E u \in Seq(Nat): Taken(1) = u \o live
    <3>1. PICK j \in Nat: j = 1
      OBVIOUS
    <3>2. j > 0 /\ j <= m
      BY <2>5, <3>1
    <3>3. TakenTo(published, m, LastTaken) \in Seq(Nat)
          /\ \E u \in Seq(Nat): TakenTo(published, j, LastTaken) = u \o TakenTo(published, m, LastTaken)
      BY <2>1, <2>3, <2>5, <3>2, TakenEnds, Zenon
    <3> QED
      BY <2>4, <2>6, <3>1, <3>3, Zenon
  <2>8. Taken(mark + 1) \in Seq(Nat) /\ \E u \in Seq(Nat): live = u \o Taken(mark + 1)
    <3>1. PICK i \in Nat: i = mark + 1
      BY <2>5
    <3>2. m > 0 /\ m <= i
      BY <2>2, <2>5, <3>1
    <3>3. TakenTo(published, i, LastTaken) \in Seq(Nat)
          /\ \E u \in Seq(Nat): TakenTo(published, m, LastTaken) = u \o TakenTo(published, i, LastTaken)
      BY <2>1, <2>3, <2>5, <3>2, TakenEnds, Zenon
    <3> QED
      BY <2>4, <2>6, <3>1, <3>3, Zenon
  <2>9. SubSeq(view, 1, readSize) = snapshot /\ SubSeq(view, readSize + 1, Len(view)) = live
    BY <2>1, <2>2, <2>4, <2>7, PartsOf
  <2>10. IsSuffix(live, Taken(1))
    BY <2>7, SuffixIs
  <2>11. IsSuffix(Taken(mark + 1), live)
    BY <2>8, SuffixIs
  <2> QED
    BY <2>9, <2>10, <2>11 DEF LiveJoins
<1> QED
  BY <1>1, AttachInitInv, AttachStepInv, PTL DEF AttachSpec
=============================================================================

---------------------------- MODULE StreamManager ----------------------------
(***************************************************************************)
(* pkg/jobmanager/streammanager.go: a job manager's end of the output      *)
(* stream of one program.  Two goroutines run in it.  readLoop moves what  *)
(* the PTY yields into the circular buffer (LogBuf) and blocks there when  *)
(* the window is full.  senderLoop turns buffered bytes into packets and   *)
(* sleeps on drainCond when there is nothing it may send.  The methods     *)
(* called by the RPC layer run under sm.lock and signal drainCond.         *)
(*                                                                         *)
(* A byte is identified by its position in the stream.  clientPos,         *)
(* delivered and overrun are history variables: the position at which the  *)
(* connected client expects the next packet, the end of the last packet    *)
(* handed to it, and the bytes that a full buffer dropped after            *)
(* ClientConnected read the head and before the first packet of the client.*)
(***************************************************************************)
EXTENDS LogBuf

CONSTANTS
  CirBufSize,     \* capacity of the buffer, and its window when disconnected
  CwndSize,       \* window when connected
  MaxPacketSize,  \* longest read and longest packet
  MaxRwnd,        \* largest receive window a client announces
  MaxStream,      \* bound: bytes the program writes
  MaxConn         \* bound: connections made

ASSUME SizesAssumption ==
  /\ CirBufSize \in Nat \ {0} /\ CwndSize \in Nat \ {0} /\ MaxPacketSize \in Nat \ {0}
  /\ CwndSize <= CirBufSize
  /\ MaxRwnd \in Nat /\ MaxStream \in Nat /\ MaxConn \in Nat

VARIABLES
  log,                                    \* sm.buf
  terminalEvent, eofPos,                  \* "none", "eof" or "error"
  connected, streamId, rwndSize,
  sentNotAcked, terminalEventSent, maxAckedSeq, maxAckedRwnd,
  terminalEventAcked, closed,
  connecting,                             \* the call of ClientConnected under way, or Idle
  readLoop, chunk, readErr,               \* where readLoop is, what is left of its read
  senderLoop, pkt,                        \* where senderLoop is, the packet it is sending
  clientPos, delivered, overrun

endVars     == <<terminalEvent, eofPos>>
connVars    == <<connected, streamId, rwndSize>>
ackVars     == <<sentNotAcked, terminalEventSent, maxAckedSeq, maxAckedRwnd>>
doneVars    == <<terminalEventAcked, closed>>
readVars    == <<readLoop, chunk, readErr>>
sendVars    == <<senderLoop, pkt>>
historyVars == <<clientPos, delivered, overrun>>
smVars == <<log, endVars, connVars, ackVars, doneVars, connecting, readVars, sendVars, historyVars>>

Idle == [stage |-> "idle", id |-> 0, rwnd |-> 0, seq |-> 0, head |-> 0]
NoPacket == [id |-> 0, seq |-> 0, len |-> 0, end |-> "none"]

\* MakeStreamManager: synchronous, and as if a client with a full window were there.
SmInit ==
  /\ log = NewLog(CirBufSize, TRUE)
  /\ terminalEvent = "none" /\ eofPos = -1
  /\ connected = FALSE /\ streamId = 0 /\ rwndSize = CwndSize
  /\ sentNotAcked = 0 /\ terminalEventSent = FALSE
  /\ maxAckedSeq = 0 /\ maxAckedRwnd = 0
  /\ terminalEventAcked = FALSE /\ closed = FALSE
  /\ connecting = Idle
  /\ readLoop = "none" /\ chunk = 0 /\ readErr = "none"
  /\ senderLoop = "run" /\ pkt = NoPacket
  /\ clientPos = 0 /\ delivered = 0 /\ overrun = 0

\* sm.lock is held across steps only by ClientConnected, which lets the writer run between
\* its calls to the buffer.
SmUnlocked == connecting.stage = "idle"

\* drainCond.Signal(): a signal nobody waits for is lost.
Signal == senderLoop' = IF senderLoop = "waiting" THEN "run" ELSE senderLoop

EffectiveWindow(rwnd) == Least(CwndSize, rwnd)

-----------------------------------------------------------------------------
(* readLoop *)

AttachReader ==
  /\ SmUnlocked /\ readLoop = "none"
  /\ readLoop' = "check"
  /\ UNCHANGED <<log, endVars, connVars, ackVars, doneVars, connecting, chunk, readErr, sendVars,
                 historyVars>>

ReadCheckClosed ==
  /\ SmUnlocked /\ readLoop = "check"
  /\ readLoop' = IF closed THEN "done" ELSE "read"
  /\ UNCHANGED <<log, endVars, connVars, ackVars, doneVars, connecting, chunk, readErr, sendVars,
                 historyVars>>

\* The PTY yields k bytes, or ends (on Linux with an error, EIO, once the program is gone).
ReadPty(k, err) ==
  /\ readLoop = "read"
  /\ k > 0 \/ err # "none"
  /\ log.total + k <= MaxStream
  /\ chunk' = k
  /\ readErr' = err
  /\ readLoop' = IF k > 0 THEN "write" ELSE "end"
  /\ UNCHANGED <<log, endVars, connVars, ackVars, doneVars, connecting, sendVars, historyVars>>

\* handleReadData: WriteAvailable takes the buffer's lock only, not sm.lock.
WriteSome ==
  LET n == Accepts(log, chunk)
  IN  /\ readLoop = "write" /\ n > 0
      /\ log' = AppendLog(log, n)
      /\ overrun' = IF SmUnlocked THEN overrun ELSE overrun + (log'.head - log.head)
      /\ chunk' = chunk - n
      /\ readLoop' = "signal"
      /\ UNCHANGED <<endVars, connVars, ackVars, doneVars, connecting, readErr, sendVars, clientPos, delivered>>

WriteBlocked ==
  /\ readLoop = "write" /\ Accepts(log, chunk) = 0
  /\ log' = BlockWriter(log)
  /\ readLoop' = "wait"
  /\ UNCHANGED <<endVars, connVars, ackVars, doneVars, connecting, chunk, readErr, sendVars,
                 historyVars>>

SignalWritten ==
  /\ SmUnlocked /\ readLoop = "signal"
  /\ Signal
  /\ readLoop' = IF chunk > 0 THEN "write" ELSE IF readErr # "none" THEN "end" ELSE "check"
  /\ UNCHANGED <<log, endVars, connVars, ackVars, doneVars, connecting, chunk, readErr, pkt,
                 historyVars>>

WriterWoken ==
  /\ readLoop = "wait" /\ ~log.blocked
  /\ readLoop' = "write"
  /\ UNCHANGED <<log, endVars, connVars, ackVars, doneVars, connecting, chunk, readErr, sendVars,
                 historyVars>>

\* mutant: the sender is not told
HandleEndSilently ==
  /\ SmUnlocked /\ readLoop = "end"
  /\ eofPos' = log.total
  /\ terminalEvent' = readErr
  /\ readLoop' = "done"
  /\ UNCHANGED <<log, connVars, ackVars, doneVars, connecting, chunk, readErr, sendVars, historyVars>>

\* handleEOF and handleError
HandleEnd ==
  /\ SmUnlocked /\ readLoop = "end"
  /\ eofPos' = log.total
  /\ terminalEvent' = readErr
  /\ readLoop' = "done"
  /\ Signal
  /\ UNCHANGED <<log, connVars, ackVars, doneVars, connecting, chunk, readErr, pkt, historyVars>>

-----------------------------------------------------------------------------
(* senderLoop: prepareNextPacket under the lock, then SendData without it *)

SenderDone ==
  /\ SmUnlocked /\ senderLoop = "run"
  /\ closed \/ terminalEventAcked
  /\ senderLoop' = "done"
  /\ UNCHANGED <<log, endVars, connVars, ackVars, doneVars, connecting, readVars, pkt, historyVars>>

SenderActive == ~closed /\ ~terminalEventAcked /\ connected
AvailableToSend == Least(rwndSize, CwndSize) - sentNotAcked

\* mutants: the window is not looked at; the end goes out before the data
MaySendBeyondWindow == SenderActive /\ Retained(log) > sentNotAcked
MaySendTerminalEarly == SenderActive /\ terminalEvent # "none" /\ ~terminalEventSent

MaySendData == SenderActive /\ AvailableToSend > 0 /\ Retained(log) > sentNotAcked
MaySendTerminal ==
  SenderActive /\ Retained(log) = 0 /\ terminalEvent # "none" /\ ~terminalEventSent

SenderWait ==
  /\ SmUnlocked /\ senderLoop = "run"
  /\ ~closed /\ ~terminalEventAcked
  /\ ~MaySendData /\ ~MaySendTerminal
  /\ senderLoop' = "waiting"
  /\ UNCHANGED <<log, endVars, connVars, ackVars, doneVars, connecting, readVars, pkt, historyVars>>

PrepareData ==
  LET n == Least(Least(AvailableToSend, MaxPacketSize), Retained(log) - sentNotAcked)
  IN  /\ SmUnlocked /\ senderLoop = "run"
      /\ MaySendData
      /\ pkt' = [id |-> streamId, seq |-> log.head + sentNotAcked, len |-> n, end |-> "none"]
      /\ sentNotAcked' = sentNotAcked + n
      /\ senderLoop' = "send"
      /\ clientPos' = pkt'.seq + n /\ overrun' = 0
      /\ UNCHANGED <<log, endVars, connVars, terminalEventSent, maxAckedSeq, maxAckedRwnd, doneVars,
                     connecting, readVars, delivered>>

PrepareTerminal ==
  /\ SmUnlocked /\ senderLoop = "run"
  /\ MaySendTerminal
  /\ pkt' = [id |-> streamId, seq |-> eofPos, len |-> 0, end |-> terminalEvent]
  /\ terminalEventSent' = TRUE
  /\ senderLoop' = "send"
  /\ UNCHANGED <<log, endVars, connVars, sentNotAcked, maxAckedSeq, maxAckedRwnd, doneVars,
                 connecting, readVars, historyVars>>

SendData ==
  /\ senderLoop = "send"
  /\ senderLoop' = "run"
  /\ pkt' = NoPacket
  /\ delivered' = IF pkt.id = streamId /\ connected THEN Greatest(delivered, pkt.seq + pkt.len)
                                                     ELSE delivered
  /\ UNCHANGED <<log, endVars, connVars, ackVars, doneVars, connecting, readVars, clientPos, overrun>>

-----------------------------------------------------------------------------
(* The calls of the RPC layer *)

ConnectRefused == closed \/ terminalEventAcked \/ connected

\* ClientConnected reads the head of the buffer ...
ConnectStart(id, rwnd, seq) ==
  /\ SmUnlocked /\ ~ConnectRefused
  /\ connecting' = [stage |-> "consume", id |-> id, rwnd |-> rwnd, seq |-> seq, head |-> log.head]
  /\ overrun' = 0
  /\ UNCHANGED <<log, endVars, connVars, ackVars, doneVars, readVars, sendVars, clientPos, delivered>>

\* ... gives up when the client is beyond the end of the stream, ...
ConnectBeyondEnd ==
  /\ connecting.stage = "consume"
  /\ connecting.seq - connecting.head > Retained(log)
  /\ connecting' = Idle
  /\ UNCHANGED <<log, endVars, connVars, ackVars, doneVars, readVars, sendVars, historyVars>>

\* ... drops what the client already has, reading the head again, ...
ConnectConsume ==
  LET have == connecting.seq - connecting.head
  IN  /\ connecting.stage = "consume" /\ have <= Retained(log)
      /\ log' = IF have > 0 THEN ConsumeLog(log, have) ELSE log
      /\ connecting' = [connecting EXCEPT !.stage = "install",
                                          !.head = IF have > 0 THEN log'.head ELSE connecting.head]
      /\ overrun' = IF have > 0 THEN 0 ELSE overrun
      /\ UNCHANGED <<endVars, connVars, ackVars, doneVars, readVars, sendVars, clientPos, delivered>>

\* mutant: the client's position is returned even where the buffer begins later
ConnectSeqOfClient == connecting.seq

\* ... and installs the client, returning the position at which the stream continues.
ConnectSeq == Greatest(connecting.head, connecting.seq)

ConnectInstall ==
  /\ connecting.stage = "install"
  /\ connected' = TRUE
  /\ streamId' = connecting.id
  /\ rwndSize' = connecting.rwnd
  /\ sentNotAcked' = 0
  /\ log' = ResizeLog(log, CirBufSize, TRUE, EffectiveWindow(connecting.rwnd))
  /\ connecting' = Idle
  /\ clientPos' = ConnectSeq
  /\ delivered' = ConnectSeq
  /\ Signal
  /\ UNCHANGED <<endVars, terminalEventSent, maxAckedSeq, maxAckedRwnd, doneVars, readVars, pkt, overrun>>

\* mutants: the window stays as narrow as for a client; the end of the stream is not sent again
ClientDisconnectedNarrow ==
  /\ SmUnlocked /\ connected
  /\ connected' = FALSE
  /\ sentNotAcked' = 0
  /\ maxAckedSeq' = 0 /\ maxAckedRwnd' = 0
  /\ terminalEventSent' = (terminalEventSent /\ terminalEventAcked)
  /\ log' = ResizeLog(log, CirBufSize, FALSE, CwndSize)
  /\ Signal
  /\ UNCHANGED <<endVars, streamId, rwndSize, doneVars, connecting, readVars, pkt, historyVars>>

ClientDisconnectedSent ==
  /\ SmUnlocked /\ connected
  /\ connected' = FALSE
  /\ sentNotAcked' = 0
  /\ maxAckedSeq' = 0 /\ maxAckedRwnd' = 0
  /\ log' = ResizeLog(log, CirBufSize, FALSE, CirBufSize)
  /\ Signal
  /\ UNCHANGED <<endVars, streamId, rwndSize, terminalEventSent, doneVars, connecting, readVars, pkt,
                 historyVars>>

\* Back to buffering: the window opens to the whole buffer, which no longer blocks the writer.
ClientDisconnected ==
  /\ SmUnlocked /\ connected
  /\ connected' = FALSE
  /\ sentNotAcked' = 0
  /\ maxAckedSeq' = 0 /\ maxAckedRwnd' = 0
  /\ terminalEventSent' = (terminalEventSent /\ terminalEventAcked)
  /\ log' = ResizeLog(log, CirBufSize, FALSE, CirBufSize)
  /\ Signal
  /\ UNCHANGED <<endVars, streamId, rwndSize, doneVars, connecting, readVars, pkt, historyVars>>

RecvFin(id) ==
  /\ SmUnlocked /\ connected /\ id = streamId
  /\ terminalEventAcked' = TRUE
  /\ Signal
  /\ UNCHANGED <<log, endVars, connVars, ackVars, closed, connecting, readVars, pkt, historyVars>>

StaleAck(seq, rwnd) == seq < maxAckedSeq \/ (seq = maxAckedSeq /\ rwnd <= maxAckedRwnd)

\* RecvAck of a packet that is not Fin; a cancellation is treated like any other.  A fresh ack
\* is recorded before it is checked against what was sent.
RecvAck(id, seq, rwnd) ==
  LET acked == seq - log.head
  IN  /\ SmUnlocked /\ connected /\ id = streamId
      /\ ~StaleAck(seq, rwnd)
      /\ maxAckedSeq' = seq
      /\ maxAckedRwnd' = rwnd
      /\ IF acked < 0 \/ acked > sentNotAcked
         THEN UNCHANGED <<log, rwndSize, sentNotAcked, senderLoop>>
         ELSE /\ log' = ResizeLog(IF acked > 0 THEN ConsumeLog(log, acked) ELSE log,
                                  CirBufSize, TRUE, EffectiveWindow(rwnd))
              /\ sentNotAcked' = sentNotAcked - acked
              /\ rwndSize' = rwnd
              /\ IF rwnd > rwndSize \/ acked > 0 THEN Signal ELSE UNCHANGED senderLoop
      /\ UNCHANGED <<endVars, connected, streamId, terminalEventSent, doneVars, connecting, readVars,
                     pkt, historyVars>>

\* mutant: a new window also leaves synchronous mode
SetRwndSizeAsync(rwnd) ==
  /\ SmUnlocked /\ connected
  /\ rwndSize' = rwnd
  /\ log' = ResizeLog(log, CirBufSize, FALSE, EffectiveWindow(rwnd))
  /\ Signal
  /\ UNCHANGED <<endVars, connected, streamId, ackVars, doneVars, connecting, readVars, pkt,
                 historyVars>>

SetRwndSize(rwnd) ==
  /\ SmUnlocked /\ connected
  /\ rwndSize' = rwnd
  /\ log' = ResizeLog(log, CirBufSize, TRUE, EffectiveWindow(rwnd))
  /\ Signal
  /\ UNCHANGED <<endVars, connected, streamId, ackVars, doneVars, connecting, readVars, pkt,
                 historyVars>>

Close ==
  /\ SmUnlocked /\ ~closed
  /\ closed' = TRUE
  /\ Signal
  /\ UNCHANGED <<log, endVars, connVars, ackVars, terminalEventAcked, connecting, readVars, pkt,
                 historyVars>>

-----------------------------------------------------------------------------
(* The manager beside any client that acknowledges only what it was sent, in any order, with
   duplicates, and that comes and goes. *)

ReadLoopStep ==
  \/ ReadCheckClosed
  \/ \E k \in 0 .. MaxPacketSize, err \in {"none", "eof", "error"}: ReadPty(k, err)
  \/ WriteSome \/ WriteBlocked \/ SignalWritten \/ WriterWoken \/ HandleEnd

SenderStep == SenderDone \/ SenderWait \/ PrepareData \/ PrepareTerminal \/ SendData

ConnectStep == ConnectBeyondEnd \/ ConnectConsume \/ ConnectInstall

ClientStep ==
  \/ /\ streamId < MaxConn
     /\ \E rwnd \in 0 .. MaxRwnd, seq \in 0 .. MaxStream: ConnectStart(streamId + 1, rwnd, seq)
  \/ ClientDisconnected
  \/ terminalEventSent /\ senderLoop # "send" /\ RecvFin(streamId)
  \/ \E seq \in 0 .. delivered, rwnd \in 0 .. MaxRwnd: RecvAck(streamId, seq, rwnd)
  \/ \E rwnd \in 0 .. MaxRwnd: SetRwndSize(rwnd)

SmNext == AttachReader \/ ReadLoopStep \/ SenderStep \/ ConnectStep \/ ClientStep \/ Close

SmSpec == SmInit /\ [][SmNext]_smVars

-----------------------------------------------------------------------------
(* Properties *)

SmTypeOK ==
  /\ log \in LogType
  /\ terminalEvent \in {"none", "eof", "error"} /\ eofPos \in Int
  /\ connected \in BOOLEAN /\ streamId \in Nat /\ rwndSize \in Nat
  /\ sentNotAcked \in Nat /\ terminalEventSent \in BOOLEAN
  /\ maxAckedSeq \in Nat /\ maxAckedRwnd \in Nat
  /\ terminalEventAcked \in BOOLEAN /\ closed \in BOOLEAN
  /\ connecting \in [stage: {"idle", "consume", "install"}, id: Nat, rwnd: Nat, seq: Nat, head: Nat]
  /\ readLoop \in {"none", "check", "read", "write", "signal", "wait", "end", "done"}
  /\ chunk \in Nat /\ readErr \in {"none", "eof", "error"}
  /\ senderLoop \in {"run", "waiting", "send", "done"}
  /\ pkt \in [id: Nat, seq: Nat \cup {-1}, len: Nat, end: {"none", "eof", "error"}]
  /\ clientPos \in Nat /\ delivered \in Nat /\ overrun \in Nat

\* drainCond loses no wakeup: the sender sleeps only while there is nothing it may send, except
\* for bytes whose signal readLoop is about to give (streammanager.go:311-318).
SenderNotForgotten ==
  senderLoop = "waiting" /\ SmUnlocked =>
    /\ ~closed /\ ~terminalEventAcked /\ ~MaySendTerminal
    /\ MaySendData => readLoop = "signal"

\* While a client is connected its packets join: the next byte sent is the one after the last
\* one sent, and the first is the one whose position ClientConnected returned, or comes later
\* by just the bytes that readLoop, which appends without sm.lock, made a full buffer drop
\* after ClientConnected had read the head (streammanager.go:113-137).
PacketsJoin ==
  connected /\ SmUnlocked => /\ log.head + sentNotAcked = clientPos + overrun
                             /\ sentNotAcked <= Retained(log)

\* The end of the stream comes last: it is sent when every byte was read from the PTY, buffered
\* and acknowledged, and carries the length of the stream.
TerminalLast ==
  /\ terminalEvent # "none" => eofPos = log.total /\ readLoop = "done"
  /\ terminalEventSent \/ terminalEventAcked => terminalEvent # "none" /\ log.head = eofPos

\* Mode and window follow the connection, so that a connected client never loses a byte and an
\* absent one never blocks the program.
ModeFollows ==
  /\ connected => log.sync /\ log.window = EffectiveWindow(rwndSize)
  /\ ~connected /\ streamId > 0 => ~log.sync /\ log.window = CirBufSize /\ ~log.blocked

\* While a client stays connected no byte leaves the buffer before it is acknowledged.
OnlyAckedLeave ==
  [][connected /\ connected' /\ log'.head # log.head =>
       log'.head = maxAckedSeq' /\ log'.head <= delivered]_smVars
=============================================================================

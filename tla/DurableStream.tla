---------------------------- MODULE DurableStream ----------------------------
(***************************************************************************)
(* The output of one program from the PTY to the job's output file, across *)
(* lost links and restarts of the main server.  The job manager            *)
(* (StreamManager with jobmanager.go's handlers) is at one end of a link,  *)
(* the main server at the other: a Reader per stream (streamreader.go)     *)
(* that reassembles packets, an output loop per stream that appends what   *)
(* it reads to the file, and the procedure that restarts streaming after a *)
(* reconnect (jobcontroller.go).  The brokers (streambroker.go) queue data *)
(* and acks in between.  Streams are numbered in the order of their        *)
(* creation; a new link carries one new stream.  A byte is its position in *)
(* the program's output, so that the file shows which bytes it holds.      *)
(*                                                                         *)
(* Init is the state StartJob leaves behind: stream 1 connected, its       *)
(* writer attached, the PTY being read and the first output loop running.  *)
(***************************************************************************)
EXTENDS StreamManager, Sequences, FiniteSets, SequencesExt

CONSTANTS
  ReadWindow,   \* DefaultStreamRwnd: the receive window of a Reader
  ReadSize,     \* the buffer of runOutputLoop
  Ends,         \* how the PTY may end: a subset of {"eof", "error"}
  Reorder,      \* may packets and acks overtake one another?
  Lagging,      \* may output held by an old loop, or acks queued on an old link, still be
                \* around when a new stream supersedes theirs?
  MaxCrash      \* bound: restarts of the main server

ASSUME WindowAssumption == ReadWindow \in Nat \ {0} /\ ReadSize \in Nat \ {0}
ASSUME EnvironmentAssumption ==
  /\ MaxConn > 0
  /\ Ends \subseteq {"eof", "error"}
  /\ Reorder \in BOOLEAN /\ Lagging \in BOOLEAN /\ MaxCrash \in Nat

VARIABLES
  up,                   \* the link between main server and job manager
  carries,              \* the stream the current link carries, 0 before PrepareConnect
  data, acks,           \* packets and acks under way
  attached,             \* streams whose writer is registered in the broker of their link
  handler,              \* the PrepareConnect under way in the job manager, or NoHandler
  streams,              \* streams created so far
  jobStream,            \* jobStreamIds[jobId], 0 when there is none
  reader, loop,         \* per stream
  file, totalGap,       \* the job's output file and the gap recorded in its metadata
  saved,                \* what of the two is on disk
  streamDone,           \* job.StreamDone: "no", "eof" or "error"
  restart,              \* the restartStreaming under way
  crashes,
  lagged,               \* history: a stream superseded one whose loop still held output
  cut                   \* history: an error ended a stream before all that came before it was read

linkVars   == <<up, carries, data, acks>>
jmVars     == <<attached, handler>>
readerVars == <<streams, jobStream, reader, loop>>
fileVars   == <<file, totalGap, saved, streamDone>>
pastVars   == <<crashes, lagged, cut>>
mainVars   == <<readerVars, fileVars, restart, pastVars>>
dsVars == <<smVars, linkVars, jmVars, mainVars>>

Stream == 1 .. MaxConn

NoHandler == [stage |-> "none", id |-> 0, seq |-> 0]
NoRestart == [stage |-> "off", id |-> 0, cur |-> 0, gap |-> 0, reply |-> 0]

\* NewReaderWithSeq
NewReader(seq) ==
  [open |-> TRUE, nextSeq |-> seq, buffer |-> <<>>, eof |-> FALSE, err |-> FALSE,
   lastRwnd |-> ReadWindow, ooo |-> {}]
NoReader == [NewReader(0) EXCEPT !.open = FALSE]

NoLoop == [stage |-> "none", got |-> <<>>]
Loop(stage, got) == [stage |-> stage, got |-> got]

DsInit ==
  /\ log = ResizeLog(NewLog(CirBufSize, TRUE), CirBufSize, TRUE, EffectiveWindow(ReadWindow))
  /\ terminalEvent = "none" /\ eofPos = -1
  /\ connected = TRUE /\ streamId = 1 /\ rwndSize = ReadWindow
  /\ sentNotAcked = 0 /\ terminalEventSent = FALSE
  /\ maxAckedSeq = 0 /\ maxAckedRwnd = 0
  /\ terminalEventAcked = FALSE /\ closed = FALSE
  /\ connecting = Idle
  /\ readLoop = "check" /\ chunk = 0 /\ readErr = "none"
  /\ senderLoop = "run" /\ pkt = NoPacket
  /\ clientPos = 0 /\ delivered = 0 /\ overrun = 0
  /\ up = TRUE /\ carries = 1 /\ data = <<>> /\ acks = <<>>
  /\ attached = {1} /\ handler = NoHandler
  /\ streams = 1 /\ jobStream = 1
  /\ reader = [n \in Stream |-> IF n = 1 THEN NewReader(0) ELSE NoReader]
  /\ loop = [n \in Stream |-> IF n = 1 THEN Loop("read", <<>>) ELSE NoLoop]
  /\ file = <<>> /\ totalGap = 0 /\ streamDone = "no"
  /\ saved = [file |-> <<>>, gap |-> 0]
  /\ restart = NoRestart /\ crashes = 0 /\ lagged = FALSE /\ cut = FALSE

-----------------------------------------------------------------------------
(* Reader *)

Rwnd(r) == Greatest(0, ReadWindow - Len(r.buffer))

AckFrom(n, r, fin, cancel) ==
  [id |-> n, seq |-> r.nextSeq, rwnd |-> Rwnd(r), fin |-> fin, cancel |-> cancel]

\* sendAckLocked: the broker routes the ack to the link of the moment, where only the stream
\* that link carries can have a writer.
SendAck(ack) == acks' = IF up /\ ack.id = carries THEN Append(acks, ack) ELSE acks
Acked(r) == [r EXCEPT !.lastRwnd = Rwnd(r)]

\* recvDataOrderedLocked
Take(r, p) ==
  [r EXCEPT !.buffer = @ \o [i \in 1 .. p.len |-> p.seq + i - 1],
            !.nextSeq = @ + p.len,
            !.eof = @ \/ p.end = "eof"]

\* addOOOPacketLocked
Keep(r, p) ==
  IF \E q \in r.ooo: q.seq = p.seq THEN r ELSE [r EXCEPT !.ooo = @ \cup {p}]

\* One round: a kept packet that fits is taken, lowest first; after the end everything is cleared.
IsNextKept(r, p) == p.seq = r.nextSeq /\ \A q \in r.ooo: p.seq <= q.seq

TakeKept(r) ==
  IF r.eof THEN [r EXCEPT !.ooo = {}]
  ELSE IF \E p \in r.ooo: IsNextKept(r, p)
  THEN LET p == CHOOSE q \in r.ooo: IsNextKept(r, q)
       IN  [Take(r, p) EXCEPT !.ooo = @ \ {p}]
  ELSE r

\* processOOOPacketsLocked: packets kept earlier that now fit, in order, up to the first that
\* does not.
ProcessOOO(r) ==
  LET after[k \in 0 .. Cardinality(r.ooo)] == IF k = 0 THEN r ELSE TakeKept(after[k - 1])
  IN  after[Cardinality(r.ooo)]

Listening(r) == r.open /\ ~r.eof /\ ~r.err

\* A reader that is done ignores packets; once the broker forgot it (it does when it sends the
\* Fin or the cancellation) the broker answers, once a second, that there is no such reader.
RecvUnwanted(p) ==
  /\ ~Listening(reader[p.id])
  /\ UNCHANGED <<reader, cut>>
  /\ \/ UNCHANGED acks
     \/ SendAck([id |-> p.id, seq |-> p.seq, rwnd |-> 0, fin |-> FALSE, cancel |-> TRUE])

\* An error counts wherever it is in the stream, and is acknowledged as the end of it; it cuts off
\* what is still to come before it, and what was not read yet.
RecvError(p) ==
  LET r == reader[p.id]
  IN  /\ Listening(r) /\ p.end = "error"
      /\ reader' = [reader EXCEPT ![p.id] = Acked([r EXCEPT !.err = TRUE])]
      /\ SendAck(AckFrom(p.id, r, TRUE, FALSE))
      /\ cut' = (cut \/ p.seq # r.nextSeq \/ r.buffer # <<>>)

RecvOutOfOrder(p) ==
  LET r == reader[p.id]
  IN  /\ Listening(r) /\ p.end # "error" /\ p.seq # r.nextSeq
      /\ reader' = [reader EXCEPT ![p.id] = IF p.seq > r.nextSeq THEN Keep(r, p) ELSE r]
      /\ UNCHANGED <<acks, cut>>

RecvInOrder(p) ==
  LET r == ProcessOOO(Take(reader[p.id], p))
  IN  /\ Listening(reader[p.id]) /\ p.end # "error" /\ p.seq = reader[p.id].nextSeq
      /\ reader' = [reader EXCEPT ![p.id] = Acked(r)]
      /\ SendAck(AckFrom(p.id, r, r.eof, FALSE))
      /\ UNCHANGED cut

\* The next packet of the broker's queue; packets overtake one another if Reorder.
DeliverData ==
  \E i \in IF Reorder THEN 1 .. Len(data) ELSE 1 .. Least(1, Len(data)):
    LET p == data[i]
    IN  /\ data' = RemoveAt(data, i)
        /\ RecvUnwanted(p) \/ RecvError(p) \/ RecvOutOfOrder(p) \/ RecvInOrder(p)
        /\ UNCHANGED <<smVars, up, carries, jmVars, streams, jobStream, loop, fileVars, restart,
                       crashes, lagged>>

\* Close, which cancels the stream
CloseReader(n) ==
  IF reader[n].open
  THEN /\ reader' = [reader EXCEPT ![n] = Acked([@ EXCEPT !.open = FALSE])]
       /\ SendAck(AckFrom(n, reader[n], FALSE, TRUE))
  ELSE UNCHANGED <<reader, acks>>

-----------------------------------------------------------------------------
(* runOutputLoop *)

Readable(r) == ~r.open \/ r.err \/ r.eof \/ r.buffer # <<>>

Rest(r) == [r EXCEPT !.buffer = SubSeq(@, ReadSize + 1, Len(@))]
AcksRead(r) == r.buffer = <<>> \/ Rwnd(r) - r.lastRwnd >= ReadWindow \div 5

\* mutant: the loop does not look whether its stream was superseded
LoopReadUnchecked(n) ==
  LET r == reader[n]
      rest == Rest(r)
  IN  /\ loop[n].stage = "read"
      /\ r.open /\ ~r.err /\ r.buffer # <<>>
      /\ loop' = [loop EXCEPT ![n] = Loop("append", SubSeq(r.buffer, 1, Least(ReadSize, Len(r.buffer))))]
      /\ reader' = [reader EXCEPT ![n] = Acked(rest)]
      /\ SendAck(AckFrom(n, rest, FALSE, FALSE))
      /\ UNCHANGED <<smVars, up, carries, data, jmVars, streams, jobStream, fileVars, restart, pastVars>>

\* Read returns data, and the loop checks that its stream was not superseded.
LoopRead(n) ==
  LET r == reader[n]
      rest == Rest(r)
  IN  /\ loop[n].stage = "read"
      /\ r.open /\ ~r.err /\ r.buffer # <<>>
      /\ jobStream = n
      /\ loop' = [loop EXCEPT ![n] = Loop("append", SubSeq(r.buffer, 1, Least(ReadSize, Len(r.buffer))))]
      /\ IF AcksRead(rest)
         THEN /\ reader' = [reader EXCEPT ![n] = Acked(rest)]
              /\ SendAck(AckFrom(n, rest, FALSE, FALSE))
         ELSE /\ reader' = [reader EXCEPT ![n] = rest]
              /\ UNCHANGED acks
      /\ UNCHANGED <<smVars, up, carries, data, jmVars, streams, jobStream, fileVars, restart, pastVars>>

\* A superseded loop drops what Read returned and leaves.
LoopSuperseded(n) ==
  /\ loop[n].stage = "read" /\ Readable(reader[n])
  /\ jobStream # n
  /\ loop' = [loop EXCEPT ![n] = Loop("done", <<>>)]
  /\ CloseReader(n)
  /\ UNCHANGED <<smVars, up, carries, data, jmVars, streams, jobStream, fileVars, restart, pastVars>>

\* handleAppendJobFile
LoopAppend(n) ==
  /\ loop[n].stage = "append"
  /\ file' = file \o loop[n].got
  /\ loop' = [loop EXCEPT ![n] = Loop("read", <<>>)]
  /\ UNCHANGED <<smVars, linkVars, jmVars, streams, jobStream, reader, totalGap, saved, streamDone,
                 restart, pastVars>>

\* Read returns the end of the stream: at once for an error, after the data for EOF.
LoopEnd(n) ==
  LET r == reader[n]
  IN  /\ loop[n].stage = "read" /\ jobStream = n
      /\ Readable(r) /\ (r.open /\ ~r.err => r.buffer = <<>>)
      /\ streamDone' = IF r.open /\ ~r.err /\ streamDone # "error" THEN "eof" ELSE "error"
      /\ loop' = [loop EXCEPT ![n] = Loop("done", <<>>)]
      /\ CloseReader(n)
      /\ UNCHANGED <<smVars, up, carries, data, jmVars, streams, jobStream, file, totalGap, saved,
                     restart, pastVars>>

\* The file cache writes the file, data and metadata, to the database now and then.
Flush ==
  /\ MaxCrash > 0 /\ saved # [file |-> file, gap |-> totalGap]
  /\ saved' = [file |-> file, gap |-> totalGap]
  /\ UNCHANGED <<smVars, linkVars, jmVars, readerVars, file, totalGap, streamDone, restart, pastVars>>

LoopStep == \E n \in Stream: LoopRead(n) \/ LoopSuperseded(n) \/ LoopAppend(n) \/ LoopEnd(n)

-----------------------------------------------------------------------------
(* The link *)

\* The sender's packet goes out on the link its stream was connected over.
Transmit ==
  /\ SendData
  /\ data' = IF up /\ pkt.id = carries THEN Append(data, pkt) ELSE data
  /\ UNCHANGED <<up, carries, acks, jmVars, mainVars>>

\* The job manager's broker hands the ack to the writer, and forgets the writer at the end.
DeliverAck ==
  \E i \in IF Reorder THEN 1 .. Len(acks) ELSE 1 .. Least(1, Len(acks)):
    LET a == acks[i]
        current == a.id \in attached /\ connected /\ a.id = streamId
    IN  /\ SmUnlocked
        /\ acks' = RemoveAt(acks, i)
        /\ attached' = IF a.fin \/ a.cancel THEN attached \ {a.id} ELSE attached
        /\ CASE current /\ a.fin -> RecvFin(a.id)
             [] current /\ ~a.fin /\ ~StaleAck(a.seq, a.rwnd) -> RecvAck(a.id, a.seq, a.rwnd)
             [] OTHER -> UNCHANGED smVars
        /\ UNCHANGED <<up, carries, data, handler, mainVars>>

\* What arrived before the link was lost is still delivered.  The job manager does not notice:
\* disconnectFromStreamHelper is deferred in the function that accepts the connection and runs
\* when that returns, before any stream is connected (jobmanager.go:425).  The main server's
\* calls under way fail.  (Before restartStreaming begins nothing hangs on the new link.)
Drop ==
  /\ up /\ streams < MaxConn /\ restart.stage # "create"
  /\ up' = FALSE /\ carries' = 0
  /\ \E k \in 0 .. Len(data): data' = SubSeq(data, 1, k)
  /\ \E k \in 0 .. Len(acks): acks' = SubSeq(acks, 1, k)
  /\ restart' = IF restart.stage = "run" THEN restart ELSE NoRestart
  /\ reader' = IF restart.stage \in {"off", "run"} THEN reader
               ELSE [reader EXCEPT ![restart.id].open = FALSE]
  /\ UNCHANGED <<smVars, jmVars, streams, jobStream, loop, fileVars, pastVars>>

\* The main server dies and comes back with what was on disk.
Crash ==
  /\ crashes < MaxCrash /\ streams < MaxConn
  /\ crashes' = crashes + 1
  /\ up' = FALSE /\ carries' = 0 /\ data' = <<>>
  /\ \E k \in 0 .. Len(acks): acks' = SubSeq(acks, 1, k)
  /\ jobStream' = 0
  /\ reader' = [n \in Stream |-> NoReader]
  /\ loop' = [n \in Stream |-> NoLoop]
  /\ file' = saved.file /\ totalGap' = saved.gap
  /\ restart' = NoRestart
  /\ UNCHANGED <<smVars, jmVars, streams, saved, streamDone, lagged, cut>>

-----------------------------------------------------------------------------
(* Reconnecting: doReconnectJob and restartStreaming on the main server, PrepareConnect and
   StartStream in the job manager *)

Reconnect ==
  /\ ~up /\ restart.stage = "off" /\ streams < MaxConn
  /\ up' = TRUE
  /\ restart' = [NoRestart EXCEPT !.stage = "create"]
  /\ UNCHANGED <<smVars, carries, data, acks, jmVars, readerVars, fileVars, pastVars>>

\* The loops of earlier streams hold nothing any more.
LoopsDrained ==
  \A n \in Stream: loop[n].stage # "append" /\ (loop[n].stage = "read" => reader[n].buffer = <<>>)

\* The position to continue at comes from the file; a new reader supersedes the last.
RestartCreate ==
  LET n == streams + 1
      cur == Len(file) + totalGap
  IN  /\ restart.stage = "create"
      /\ Lagging \/ LoopsDrained
      /\ streams' = n /\ jobStream' = n /\ carries' = n
      /\ reader' = [reader EXCEPT ![n] = NewReader(cur)]
      /\ restart' = [stage |-> "prepare", id |-> n, cur |-> cur, gap |-> totalGap, reply |-> 0]
      /\ lagged' = (lagged \/ ~LoopsDrained)
      /\ UNCHANGED <<smVars, up, data, acks, jmVars, loop, fileVars, crashes, cut>>

\* What the caller of PrepareConnect learns, if it still waits.
Answer(stage, reply) ==
  restart' = IF restart.stage = "wait" /\ restart.id = handler.id
             THEN [restart EXCEPT !.stage = stage, !.reply = reply]
             ELSE restart

\* PrepareConnect asks whether the stream is done, ...
PrepareConnect ==
  /\ restart.stage = "prepare" /\ handler = NoHandler /\ SmUnlocked
  /\ Lagging \/ \A i \in DOMAIN acks: acks[i].id = restart.id
  /\ IF terminalEventAcked
     THEN restart' = [restart EXCEPT !.stage = "already"] /\ UNCHANGED handler
     ELSE /\ restart' = [restart EXCEPT !.stage = "wait"]
          /\ handler' = [stage |-> "disconnect", id |-> restart.id, seq |-> restart.cur]
  /\ UNCHANGED <<smVars, linkVars, attached, readerVars, fileVars, pastVars>>

\* ... disconnects the client it had, ...
HandlerDisconnect ==
  /\ handler.stage = "disconnect"
  /\ IF connected THEN ClientDisconnected ELSE UNCHANGED smVars
  /\ handler' = [handler EXCEPT !.stage = "connect"]
  /\ UNCHANGED <<linkVars, attached, mainVars>>

\* ... and connects the new one with a window of 0, so that no data is sent yet.
HandlerConnect ==
  /\ handler.stage = "connect"
  /\ IF closed \/ terminalEventAcked
     THEN UNCHANGED smVars /\ handler' = NoHandler /\ Answer("refused", 0)
     ELSE /\ ConnectStart(handler.id, 0, handler.seq)
          /\ handler' = [handler EXCEPT !.stage = "connecting"]
          /\ UNCHANGED restart
  /\ UNCHANGED <<linkVars, attached, readerVars, fileVars, pastVars>>

HandlerConnecting ==
  /\ handler.stage = "connecting"
  /\ \/ ConnectBeyondEnd /\ handler' = NoHandler /\ Answer("beyond", 0)
     \/ ConnectConsume /\ UNCHANGED <<handler, restart>>
     \/ ConnectInstall /\ handler' = NoHandler /\ Answer("reply", ConnectSeq)
  /\ UNCHANGED <<linkVars, attached, readerVars, fileVars, pastVars>>

\* The job manager retains less than the file needs: the gap is recorded and skipped.
RestartReply ==
  /\ restart.stage = "reply"
  /\ IF restart.reply > restart.cur
     THEN /\ totalGap' = restart.gap + (restart.reply - restart.cur)
          /\ reader' = [reader EXCEPT ![restart.id].nextSeq = restart.reply]
     ELSE UNCHANGED <<totalGap, reader>>
  /\ restart' = [restart EXCEPT !.stage = "start"]
  /\ UNCHANGED <<smVars, linkVars, jmVars, streams, jobStream, loop, file, saved, streamDone, pastVars>>

\* StartStream registers the writer and opens the window.
StartStream ==
  /\ restart.stage = "start" /\ handler = NoHandler
  /\ attached' = attached \cup {restart.id}
  /\ SetRwndSize(ReadWindow)
  /\ restart' = [restart EXCEPT !.stage = "run"]
  /\ UNCHANGED <<linkVars, handler, readerVars, fileVars, pastVars>>

RestartRun ==
  /\ restart.stage = "run"
  /\ loop' = [loop EXCEPT ![restart.id] = Loop("read", <<>>)]
  /\ restart' = NoRestart
  /\ UNCHANGED <<smVars, linkVars, jmVars, streams, jobStream, reader, fileVars, pastVars>>

\* The call failed, or the stream is done already, which is recorded.
RestartStop ==
  /\ restart.stage \in {"refused", "beyond", "already"}
  /\ streamDone' = IF restart.stage = "already" /\ streamDone = "no" THEN terminalEvent
                   ELSE streamDone
  /\ CloseReader(restart.id)
  /\ restart' = NoRestart
  /\ UNCHANGED <<smVars, up, carries, data, jmVars, streams, jobStream, loop, file, totalGap, saved,
                 pastVars>>

RestartStep == RestartCreate \/ RestartReply \/ RestartRun \/ RestartStop

JobManagerStep ==
  PrepareConnect \/ HandlerDisconnect \/ HandlerConnect \/ HandlerConnecting \/ StartStream

-----------------------------------------------------------------------------

OtherVars == <<linkVars, jmVars, mainVars>>

\* The PTY is read and the next packet chosen as in StreamManager.
ManagerReads ==
  /\ \/ ReadCheckClosed
     \/ \E k \in 0 .. MaxPacketSize, err \in Ends \cup {"none"}: ReadPty(k, err)
     \/ WriteSome \/ WriteBlocked \/ SignalWritten \/ WriterWoken \/ HandleEnd
  /\ UNCHANGED OtherVars

ManagerSends ==
  (SenderDone \/ SenderWait \/ PrepareData \/ PrepareTerminal) /\ UNCHANGED OtherVars

Progress ==
  \/ ManagerReads \/ ManagerSends \/ Transmit \/ DeliverData \/ DeliverAck
  \/ LoopStep \/ RestartStep \/ JobManagerStep

DsNext == Progress \/ Flush \/ Drop \/ Crash \/ Reconnect

DsSpec == DsInit /\ [][DsNext]_dsVars

\* Every goroutine runs and everything sent on a link that stays up arrives.
DsFairSpec ==
  /\ DsSpec
  /\ WF_dsVars(ManagerReads) /\ WF_dsVars(ManagerSends \/ Transmit)
  /\ WF_dsVars(DeliverData) /\ WF_dsVars(DeliverAck)
  /\ \A n \in Stream: WF_dsVars(LoopRead(n) \/ LoopSuperseded(n) \/ LoopAppend(n) \/ LoopEnd(n))
  /\ WF_dsVars(RestartStep) /\ WF_dsVars(JobManagerStep)

\* ... and the main server reconnects whenever the link is lost.
DsReconnectSpec == DsFairSpec /\ WF_dsVars(Reconnect)

-----------------------------------------------------------------------------
(* Properties *)

\* Types; a receive window lies between nothing and the whole window.
DsTypeOK ==
  /\ up \in BOOLEAN /\ carries \in Stream \cup {0}
  /\ \A i \in DOMAIN data: data[i].id \in Stream /\ data[i].seq \in Nat
  /\ \A i \in DOMAIN acks: acks[i].id \in Stream /\ acks[i].rwnd \in 0 .. ReadWindow
  /\ attached \subseteq Stream /\ streams \in Stream /\ jobStream \in 0 .. streams
  /\ \A n \in Stream: reader[n].nextSeq \in Nat /\ reader[n].lastRwnd \in 0 .. ReadWindow
  /\ streamDone \in {"no", "eof", "error"} /\ totalGap \in Nat

\* The file holds the program's bytes in order and none twice, and the recorded gap accounts
\* for every byte it lacks (jobcontroller.go:1151-1158, 1228-1241).
FileInOrder ==
  /\ \A i \in 1 .. Len(file) - 1: file[i] < file[i + 1]
  /\ file # <<>> => Last(file) < Len(file) + totalGap

\* While its loop runs, the current reader continues exactly where the file, with its gap, and
\* the bytes on the way to it end.
ReaderContinuesFile ==
  \A n \in Stream:
    jobStream = n /\ loop[n].stage \in {"read", "append"} =>
      Len(file) + totalGap + Len(loop[n].got) + Len(reader[n].buffer) = reader[n].nextSeq

\* A reader never holds more than the window it announces, out-of-order packets included.
WindowHolds ==
  \A n \in Stream:
    Len(reader[n].buffer) + FoldSet(LAMBDA p, sum: sum + p.len, 0, reader[n].ooo) <= ReadWindow

\* When the job's stream is recorded as done, the file and its gap cover the whole stream
\* (jobcontroller.go:795-813: EOF comes after the data).
DoneMeansRecorded == streamDone = "eof" => Len(file) + totalGap = eofPos

\* ... and it should be so when the PTY ends with an error.
ErrorMeansRecorded == streamDone = "error" => Len(file) + totalGap = eofPos

\* A link that comes back resumes the stream: the file and its gap never run ahead of what the
\* program wrote, which the job manager would refuse (streammanager.go:113-116).
NeverAhead == restart.stage # "beyond"

\* A packet that fits is not left among those awaiting their turn.
NoReadyPacketWaits ==
  \A n \in Stream: \A p \in reader[n].ooo: Listening(reader[n]) => p.seq > reader[n].nextSeq

\* A reconnect finds a gap only if the buffer is too small for what the program writes, the main
\* server died, a new stream came while the loop of the last one still held output, or the error at
\* the end of the stream cut some off.
NothingLost == totalGap > 0 => MaxStream > CirBufSize \/ crashes > 0 \/ lagged \/ cut

\* The program's output is recorded to its end, and the end of it too, unless an error cut it off.
StreamEnds == <>(streamDone # "no" /\ (lagged \/ cut \/ Len(file) + totalGap = eofPos))

\* A lost link does not stop the program: its output is not held up until the next reconnect.
DetachedProgramRuns == ~up ~> (up \/ readLoop # "wait")
=============================================================================

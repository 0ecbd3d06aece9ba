------------------------------- MODULE CirBuf -------------------------------
(***************************************************************************)
(* pkg/jobmanager/cirbuf.go: the ring of bytes between the PTY reader of a *)
(* job manager and its stream sender.  Two parties use it: one writer (the *)
(* loop of StreamManager.handleReadData, streammanager.go:308-324) and the *)
(* stream manager, which consumes and resizes.  Every method holds cb.lock;*)
(* the loop of WriteAvailable is modelled byte by byte and excludes the    *)
(* other methods while it runs.  The channel the writer waits on is        *)
(* `spaceAvailable', the one-place waiterChan holds it until somebody      *)
(* closes it.                                                              *)
(***************************************************************************)
EXTENDS LogBuf

CONSTANTS Size,      \* len(cb.buf)
          Byte,      \* the byte values
          ZeroByte,  \* the byte a fresh slice is filled with
          MaxWindow, \* the largest window a caller asks for (it may exceed Size)
          MaxChunk,  \* the longest chunk handed to the writer
          MaxTotal   \* bound: bytes ever written

ASSUME SizeAssumption == Size \in Nat \ {0}
ASSUME ByteAssumption == ZeroByte \in Byte
ASSUME BoundAssumption == MaxWindow \in Nat /\ MaxChunk \in Nat /\ MaxTotal \in Nat

VARIABLES
  buf, readPos, writePos, count, totalSize, syncMode, windowSize,
  waiterChan,      \* does the channel hold the writer's wait channel?
  spaceAvailable,  \* the writer's wait channel: "none", "open" or "closed"
  writer,          \* "idle", "writing" (inside WriteAvailable), "waiting" or "panicked"
  todo,            \* bytes of the writer's chunk not yet written
  written          \* bytes written by the current call of WriteAvailable

ringVars == <<buf, readPos, writePos, count, totalSize>>
modeVars == <<syncMode, windowSize>>
waitVars == <<waiterChan, spaceAvailable>>
callVars == <<writer, todo, written>>
vars == <<ringVars, modeVars, waitVars, callVars>>

Slot == 0 .. Size - 1

Init ==
  /\ buf = [s \in Slot |-> ZeroByte]
  /\ readPos = 0 /\ writePos = 0 /\ count = 0 /\ totalSize = 0
  /\ syncMode \in BOOLEAN
  /\ windowSize = Size
  /\ waiterChan = FALSE
  /\ spaceAvailable = "none"
  /\ writer = "idle"
  /\ todo = 0
  /\ written = 0

LockFree == writer # "writing"
MustBlock == syncMode /\ count >= windowSize

-----------------------------------------------------------------------------
(* The writer *)

\* handleReadData is given a chunk of k bytes.
NewChunk(k) ==
  /\ writer = "idle" /\ todo = 0
  /\ totalSize + k <= MaxTotal
  /\ todo' = k
  /\ UNCHANGED <<ringVars, modeVars, waitVars, writer, written>>

\* WriteAvailable is called with what is left of the chunk, and takes the lock.
WriteCall ==
  /\ writer = "idle" /\ todo > 0
  /\ writer' = "writing"
  /\ written' = 0
  /\ UNCHANGED <<ringVars, modeVars, waitVars, todo>>

\* mutant: the write cursor is not wrapped
StoreUnwrapped(b) ==
  /\ writer = "writing" /\ todo > 0 /\ ~MustBlock
  /\ buf' = [buf EXCEPT ![writePos] = b]
  /\ writePos' = writePos + 1
  /\ count' = Least(count + 1, windowSize)
  /\ totalSize' = totalSize + 1
  /\ written' = written + 1
  /\ todo' = todo - 1
  /\ UNCHANGED <<readPos, modeVars, waitVars, writer>>

\* mutant: the oldest byte goes when the array is full, whatever the window
StoreToCapacity(b) ==
  /\ writer = "writing" /\ todo > 0 /\ ~MustBlock
  /\ buf' = [buf EXCEPT ![writePos] = b]
  /\ writePos' = (writePos + 1) % Size
  /\ IF count < Size
     THEN count' = count + 1 /\ UNCHANGED readPos
     ELSE readPos' = (readPos + 1) % Size /\ UNCHANGED count
  /\ totalSize' = totalSize + 1
  /\ written' = written + 1
  /\ todo' = todo - 1
  /\ UNCHANGED <<modeVars, waitVars, writer>>

\* One turn of the loop stores a byte; when the window is full the oldest byte goes.
WriteByte(b) ==
  /\ writer = "writing" /\ todo > 0 /\ ~MustBlock
  /\ buf' = [buf EXCEPT ![writePos] = b]
  /\ writePos' = (writePos + 1) % Size
  /\ IF count < windowSize
     THEN count' = count + 1 /\ UNCHANGED readPos
     ELSE readPos' = (readPos + 1) % Size /\ UNCHANGED count
  /\ totalSize' = totalSize + 1
  /\ written' = written + 1
  /\ todo' = todo - 1
  /\ UNCHANGED <<modeVars, waitVars, writer>>

\* The call returns (written, nil): everything is stored, or the buffer filled up on the way.
WriteReturn ==
  /\ writer = "writing"
  /\ todo = 0 \/ (MustBlock /\ written > 0)
  /\ writer' = "idle"
  /\ UNCHANGED <<ringVars, modeVars, waitVars, todo, written>>

\* The call finds the buffer full at once: it registers a channel and returns (0, channel),
\* on which the writer waits.
WriteBlock ==
  /\ writer = "writing" /\ todo > 0 /\ MustBlock /\ written = 0
  /\ IF waiterChan
     THEN writer' = "panicked" /\ UNCHANGED waitVars
     ELSE /\ writer' = "waiting"
          /\ waiterChan' = TRUE
          /\ spaceAvailable' = "open"
  /\ UNCHANGED <<ringVars, modeVars, todo, written>>

\* The channel was closed: the writer goes round its loop.
Woken ==
  /\ writer = "waiting" /\ spaceAvailable = "closed"
  /\ writer' = "idle"
  /\ spaceAvailable' = "none"
  /\ UNCHANGED <<ringVars, modeVars, waiterChan, todo, written>>

-----------------------------------------------------------------------------
(* The stream manager *)

\* mutant: the channel is closed but left registered
WakeWithoutTaking ==
  IF waiterChan
  THEN spaceAvailable' = "closed" /\ UNCHANGED waiterChan
  ELSE UNCHANGED waitVars

TryWakeWriter ==
  IF waiterChan
  THEN waiterChan' = FALSE /\ spaceAvailable' = "closed"
  ELSE UNCHANGED waitVars

\* mutant: only a growing window wakes the writer
ResizeWakesOnGrowthOnly(sync, w) ==
  LET win == Least(w, Size)
  IN  /\ LockFree
      /\ windowSize' = win
      /\ syncMode' = sync
      /\ IF ~sync /\ count > win
         THEN readPos' = (readPos + (count - win)) % Size /\ count' = win
         ELSE UNCHANGED <<readPos, count>>
      /\ IF syncMode /\ win > windowSize THEN TryWakeWriter ELSE UNCHANGED waitVars
      /\ UNCHANGED <<buf, writePos, totalSize, callVars>>

\* mutant: truncation drops the newest bytes instead of the oldest
ResizeDropsNewest(sync, w) ==
  LET win == Least(w, Size)
  IN  /\ LockFree
      /\ windowSize' = win
      /\ syncMode' = sync
      /\ IF ~sync /\ count > win
         THEN writePos' = (readPos + win) % Size /\ count' = win
         ELSE UNCHANGED <<writePos, count>>
      /\ IF syncMode /\ (win > windowSize \/ ~sync)
         THEN TryWakeWriter
         ELSE UNCHANGED waitVars
      /\ UNCHANGED <<buf, readPos, totalSize, callVars>>

SetEffectiveWindow(sync, w) ==
  LET win == Least(w, Size)
  IN  /\ LockFree
      /\ windowSize' = win
      /\ syncMode' = sync
      /\ IF ~sync /\ count > win
         THEN readPos' = (readPos + (count - win)) % Size /\ count' = win
         ELSE UNCHANGED <<readPos, count>>
      /\ IF syncMode /\ (win > windowSize \/ ~sync)
         THEN TryWakeWriter
         ELSE UNCHANGED waitVars
      /\ UNCHANGED <<buf, writePos, totalSize, callVars>>

Consume(n) ==
  /\ LockFree
  /\ n <= count                         \* otherwise an error, and nothing changes
  /\ readPos' = (readPos + n) % Size
  /\ count' = count - n
  /\ TryWakeWriter
  /\ UNCHANGED <<buf, writePos, totalSize, modeVars, callVars>>

HeadPos == totalSize - count

\* The bytes PeekDataAt(offset, data) copies out when data has room for len bytes.
PeekDataAt(offset, len) ==
  [i \in 1 .. Greatest(0, Least(len, count - offset)) |-> buf[(readPos + offset + i - 1) % Size]]

Next ==
  \/ \E k \in 1 .. MaxChunk: NewChunk(k)
  \/ WriteCall
  \/ \E b \in Byte: WriteByte(b)
  \/ WriteReturn
  \/ WriteBlock
  \/ Woken
  \/ \E n \in 0 .. Size: Consume(n)
  \/ \E sync \in BOOLEAN, w \in 0 .. MaxWindow: SetEffectiveWindow(sync, w)

\* A woken writer runs on; nothing is assumed of the stream manager.
Fairness == WF_vars(WriteCall \/ WriteReturn \/ WriteBlock \/ Woken \/ \E b \in Byte: WriteByte(b))

Spec == Init /\ [][Next]_vars
FairSpec == Spec /\ Fairness

-----------------------------------------------------------------------------
(* Properties *)

\* Every variable has its type; the cursors stay inside the array.
TypeOK ==
  /\ buf \in [Slot -> Byte]
  /\ readPos \in Slot /\ writePos \in Slot
  /\ count \in 0 .. Size /\ totalSize \in Nat
  /\ syncMode \in BOOLEAN /\ windowSize \in 0 .. Size
  /\ waiterChan \in BOOLEAN
  /\ spaceAvailable \in {"none", "open", "closed"}
  /\ writer \in {"idle", "writing", "waiting", "panicked"}
  /\ todo \in Nat /\ written \in Nat

\* No lost wakeup: a writer whose channel is still open is registered and has no room.
\* Growing the window, consuming, or leaving synchronous mode each close the channel
\* (cirbuf.go:60-62, 141).
NoLostWakeup ==
  /\ writer = "waiting" <=> spaceAvailable # "none"
  /\ waiterChan <=> spaceAvailable = "open"
  /\ waiterChan => MustBlock

\* A single writer never meets its own stale registration: WriteAvailable does not panic
\* (cirbuf.go:83-85).
NeverPanics == writer # "panicked"

\* The cursors, the counter and the mode agree: the write cursor is `count' slots after the
\* read cursor, and an asynchronous buffer never holds more than its window.
RingShape ==
  /\ writePos = (readPos + count) % Size
  /\ count <= totalSize
  /\ ~syncMode => count <= windowSize

\* A blocked writer finishes its chunk once the buffer stays in asynchronous mode.
AsyncWriterFinishes == <>[](~syncMode) => []<>(todo = 0)

\* CirBuf implements the log of bytes: PeekDataAt shows, for each retained stream position,
\* the byte written there, through every wrap, truncation and change of mode.
HeldBytes == [p \in HeadPos .. totalSize - 1 |-> buf[(readPos + (p - HeadPos)) % Size]]
LogView == LogOf(HeadPos, totalSize, syncMode, windowSize, spaceAvailable = "open")
Log == INSTANCE CirBufLog WITH log <- LogView, held <- HeldBytes
ImplementsLog == Log!LogSpec
=============================================================================

---------------------------- MODULE CirBufProofs ----------------------------
(***************************************************************************)
(* Proofs about CirBuf for every capacity, byte set and window.            *)
(***************************************************************************)
EXTENDS CirBuf, TLAPS

-----------------------------------------------------------------------------
(* The ring arithmetic. *)

\* A cursor stays inside the array.
LEMMA ModRange ==
  ASSUME NEW n \in Nat \ {0}, NEW a \in Int
  PROVE  a % n \in 0 .. n - 1
  OBVIOUS

\* A slot less than a turn after a cursor: the sum wraps at most once.
LEMMA ModWrap ==
  ASSUME NEW n \in Nat \ {0}, NEW r \in 0 .. n - 1, NEW i \in 0 .. n
  PROVE  (r + i) % n = IF r + i < n THEN r + i ELSE r + i - n
<1>1. CASE r + i < n
  BY <1>1
<1>2. CASE r + i >= n
  BY <1>2
<1> QED
  BY <1>1, <1>2

\* Advancing a cursor that has already wrapped is wrapping once at the end.
LEMMA ModAdd ==
  ASSUME NEW n \in Nat \ {0}, NEW r \in 0 .. n - 1, NEW a \in Nat, NEW b \in Nat, a + b <= n
  PROVE  (((r + a) % n) + b) % n = (r + (a + b)) % n
<1>1. (r + a) % n = IF r + a < n THEN r + a ELSE r + a - n
  <2>1. a \in 0 .. n
    OBVIOUS
  <2> QED
    BY <2>1, ModWrap
<1>2. (r + (a + b)) % n = IF r + (a + b) < n THEN r + (a + b) ELSE r + (a + b) - n
  <2>1. a + b \in 0 .. n
    OBVIOUS
  <2> QED
    BY <2>1, ModWrap
<1>3. CASE r + a < n
  BY <1>1, <1>3
<1>4. CASE r + a >= n
  <2> DEFINE c == r + a - n
  <2>1. c \in 0 .. n - 1 /\ b \in 0 .. n /\ c + b < n
    BY <1>4
  <2> HIDE DEF c
  <2>2. (c + b) % n = c + b
    BY <2>1, ModWrap
  <2> QED
    BY <1>1, <1>2, <1>4, <2>2 DEF c
<1> QED
  BY <1>3, <1>4

\* A slot is its own remainder.
LEMMA ModSlot ==
  ASSUME NEW n \in Nat \ {0}, NEW r \in 0 .. n - 1
  PROVE  (r + 0) % n = r
<1>1. 0 \in 0 .. n
  OBVIOUS
<1>2. (r + 0) % n = IF r + 0 < n THEN r + 0 ELSE r + 0 - n
  BY <1>1, ModWrap
<1> QED
  BY <1>2

\* A full turn leads back to the slot.
LEMMA ModTurn ==
  ASSUME NEW n \in Nat \ {0}, NEW r \in 0 .. n - 1
  PROVE  (r + n) % n = r
<1>1. n \in 0 .. n
  OBVIOUS
<1>2. (r + n) % n = IF r + n < n THEN r + n ELSE r + n - n
  BY <1>1, ModWrap
<1> QED
  BY <1>2

\* Two different offsets less than a turn apart are different slots.
LEMMA ModDistinct ==
  ASSUME NEW n \in Nat \ {0}, NEW r \in 0 .. n - 1, NEW i \in 0 .. n - 1, NEW j \in 0 .. n - 1,
         i # j
  PROVE  (r + i) % n # (r + j) % n
<1>1. i \in 0 .. n /\ j \in 0 .. n
  OBVIOUS
<1>2. (r + i) % n = IF r + i < n THEN r + i ELSE r + i - n
  BY <1>1, ModWrap
<1>3. (r + j) % n = IF r + j < n THEN r + j ELSE r + j - n
  BY <1>1, ModWrap
<1> QED
  BY <1>2, <1>3

-----------------------------------------------------------------------------
(* The invariants. *)

IInv == TypeOK /\ RingShape /\ NoLostWakeup /\ NeverPanics

LEMMA InitInv == Init => IInv
<1> SUFFICES ASSUME Init PROVE IInv
  OBVIOUS
<1>1. (0 + 0) % Size = 0
  BY SizeAssumption
<1>2. TypeOK
  <2>1. buf \in [Slot -> Byte]
    BY ByteAssumption DEF Init
  <2>2. 0 \in Slot /\ Size \in 0 .. Size /\ 0 \in 0 .. Size
    BY SizeAssumption DEF Slot
  <2> QED
    BY <2>1, <2>2 DEF Init, TypeOK
<1>3. RingShape
  BY <1>1, SizeAssumption DEF Init, RingShape
<1>4. NoLostWakeup /\ NeverPanics
  BY DEF Init, NoLostWakeup, NeverPanics
<1> QED
  BY <1>2, <1>3, <1>4 DEF IInv

\* Each step preserves the four invariants together: a store needs the shape of the ring to
\* stay inside the array, a registration needs the absence of a stale one, and a resize needs
\* the wakeup rule to leave no writer behind.
LEMMA NextInv == IInv /\ [Next]_vars => IInv'
<1> SUFFICES ASSUME IInv, [Next]_vars PROVE IInv'
  OBVIOUS
<1> USE DEF IInv, TypeOK, RingShape, NoLostWakeup, NeverPanics, MustBlock, Slot,
            ringVars, modeVars, waitVars, callVars
<1>1. ASSUME NEW k \in 1 .. MaxChunk, NewChunk(k) PROVE IInv'
  BY <1>1, BoundAssumption DEF NewChunk
<1>2. CASE WriteCall
  BY <1>2 DEF WriteCall
<1>3. ASSUME NEW b \in Byte, WriteByte(b) PROVE IInv'
  <2>1. (writePos + 1) % Size \in Slot /\ (readPos + 1) % Size \in Slot
    BY SizeAssumption, ModRange
  <2>2. TypeOK'
    BY <1>3, <2>1, SizeAssumption DEF WriteByte
  <2>3. writePos' = (readPos' + count') % Size
    <3>1. CASE count < windowSize
      <4>1. count + 1 <= Size
        BY <3>1, SizeAssumption
      <4>2. (((readPos + count) % Size) + 1) % Size = (readPos + (count + 1)) % Size
        BY <4>1, SizeAssumption, ModAdd
      <4> QED
        BY <1>3, <3>1, <4>2 DEF WriteByte
    <3>2. CASE ~(count < windowSize)
      <4>1. CASE count < Size
        <5>1. (((readPos + count) % Size) + 1) % Size = (readPos + (count + 1)) % Size
          BY <4>1, SizeAssumption, ModAdd
        <5>2. (((readPos + 1) % Size) + count) % Size = (readPos + (1 + count)) % Size
          BY <4>1, SizeAssumption, ModAdd
        <5>3. count + 1 = 1 + count
          OBVIOUS
        <5> QED
          BY <1>3, <3>2, <5>1, <5>2, <5>3 DEF WriteByte
      <4>2. CASE count = Size
        <5>1. (readPos + Size) % Size = readPos
          BY SizeAssumption, ModTurn
        <5>2. (readPos' + Size) % Size = readPos'
          BY <2>2, SizeAssumption, ModTurn
        <5> QED
          BY <1>3, <3>2, <4>2, <5>1, <5>2 DEF WriteByte
      <4> QED
        BY <4>1, <4>2, SizeAssumption
    <3> QED
      BY <3>1, <3>2
  <2>4. RingShape'
    BY <1>3, <2>3 DEF WriteByte
  <2>5. NoLostWakeup' /\ NeverPanics'
    BY <1>3 DEF WriteByte
  <2> QED
    BY <2>2, <2>4, <2>5
<1>4. CASE WriteReturn
  BY <1>4 DEF WriteReturn
<1>5. CASE WriteBlock
  BY <1>5 DEF WriteBlock
<1>6. CASE Woken
  BY <1>6 DEF Woken
<1>7. ASSUME NEW n \in 0 .. Size, Consume(n) PROVE IInv'
  <2>1. (readPos + n) % Size \in Slot
    BY SizeAssumption, ModRange
  <2>2. TypeOK'
    <3>1. count' \in 0 .. Size
      BY <1>7, SizeAssumption DEF Consume
    <3> QED
      BY <1>7, <2>1, <3>1 DEF Consume, TryWakeWriter
  <2>3. writePos' = (readPos' + count') % Size
    <3>1. n \in Nat /\ count - n \in Nat /\ n + (count - n) = count /\ n + (count - n) <= Size
      BY <1>7, SizeAssumption DEF Consume
    <3>2. (((readPos + n) % Size) + (count - n)) % Size = (readPos + (n + (count - n))) % Size
      BY <3>1, SizeAssumption, ModAdd
    <3> QED
      BY <1>7, <3>1, <3>2 DEF Consume
  <2>4. RingShape' /\ NoLostWakeup' /\ NeverPanics'
    BY <1>7, <2>3 DEF Consume, TryWakeWriter, LockFree
  <2> QED
    BY <2>2, <2>4
<1>8. ASSUME NEW sync \in BOOLEAN, NEW w \in 0 .. MaxWindow, SetEffectiveWindow(sync, w)
      PROVE  IInv'
  <2> DEFINE win == Least(w, Size)
  <2>1. win \in 0 .. Size
    BY SizeAssumption, BoundAssumption DEF Least
  <2> HIDE DEF win
  <2>2. /\ LockFree /\ windowSize' = win /\ syncMode' = sync
        /\ IF ~sync /\ count > win
           THEN readPos' = (readPos + (count - win)) % Size /\ count' = win
           ELSE UNCHANGED <<readPos, count>>
        /\ IF syncMode /\ (win > windowSize \/ ~sync) THEN TryWakeWriter ELSE UNCHANGED waitVars
        /\ UNCHANGED <<buf, writePos, totalSize, callVars>>
    BY <1>8 DEF SetEffectiveWindow, win
  <2>3. ASSUME ~sync, count > win
        PROVE  /\ (readPos + (count - win)) % Size \in Slot
               /\ (((readPos + (count - win)) % Size) + win) % Size = (readPos + count) % Size
    <3>1. /\ count - win \in Nat /\ win \in Nat
          /\ (count - win) + win = count /\ (count - win) + win <= Size
      BY <2>1, <2>3, SizeAssumption
    <3>2. (((readPos + (count - win)) % Size) + win) % Size = (readPos + ((count - win) + win)) % Size
      BY <3>1, SizeAssumption, ModAdd
    <3> QED
      BY <3>1, <3>2, SizeAssumption, ModRange
  <2>4. TypeOK'
    BY <2>1, <2>2, <2>3 DEF TryWakeWriter
  <2>5. RingShape'
    BY <2>1, <2>2, <2>3
  <2>6. NoLostWakeup' /\ NeverPanics'
    BY <2>1, <2>2, <2>3 DEF TryWakeWriter, LockFree
  <2> QED
    BY <2>4, <2>5, <2>6
<1>9. CASE UNCHANGED vars
  BY <1>9 DEF vars
<1> QED
  BY <1>1, <1>2, <1>3, <1>4, <1>5, <1>6, <1>7, <1>8, <1>9 DEF Next

THEOREM Invariance == Spec => []IInv
BY InitInv, NextInv, PTL DEF Spec

\* Type correctness, for every capacity, byte set, window and chunk size.
THEOREM TypeCorrect == Spec => []TypeOK
BY Invariance, PTL DEF IInv

\* A writer that waits for space is registered to be woken and has no space: no change of the
\* window, the mode or the contents leaves it asleep beside a buffer with room.
THEOREM WriterNeverForgotten == Spec => []NoLostWakeup
BY Invariance, PTL DEF IInv

\* WriteAvailable never panics on a second blocked write of its one writer.
THEOREM OneWriterNeverPanics == Spec => []NeverPanics
BY Invariance, PTL DEF IInv

-----------------------------------------------------------------------------
(* The ring implements the log of bytes. *)

\* Steps that leave the ring and the mode alone leave the log alone.
LEMMA SameLog ==
  ASSUME UNCHANGED ringVars, UNCHANGED modeVars, (spaceAvailable' = "open") = (spaceAvailable = "open")
  PROVE  UNCHANGED <<LogView, HeldBytes>>
  BY DEF ringVars, modeVars, LogView, HeldBytes, HeadPos

\* Dropping d bytes at the head leaves every other byte at its stream position.
LEMMA DropKeeps ==
  ASSUME TypeOK, RingShape, NEW d \in 0 .. count,
         buf' = buf, totalSize' = totalSize, count' = count - d,
         readPos' = (readPos + d) % Size
  PROVE  HeldBytes' = [p \in HeadPos + d .. totalSize - 1 |-> HeldBytes[p]]
<1>1. HeadPos' = HeadPos + d
  BY DEF HeadPos, TypeOK
<1>2. ASSUME NEW p \in HeadPos + d .. totalSize - 1
      PROVE  buf'[(readPos' + (p - HeadPos')) % Size] = HeldBytes[p]
  <2>1. /\ d \in Nat /\ p - HeadPos' \in Nat /\ d + (p - HeadPos') <= Size
        /\ d + (p - HeadPos') = p - HeadPos /\ p \in HeadPos .. totalSize - 1
    BY <1>1, SizeAssumption DEF HeadPos, TypeOK, RingShape
  <2>2. (((readPos + d) % Size) + (p - HeadPos')) % Size = (readPos + (d + (p - HeadPos'))) % Size
    BY ZenonT(30), <2>1, SizeAssumption, ModAdd DEF TypeOK, Slot
  <2> QED
    BY <2>1, <2>2 DEF HeldBytes
<1>3. HeldBytes' = [p \in HeadPos' .. totalSize' - 1 |-> buf'[(readPos' + (p - HeadPos')) % Size]]
  BY DEF HeldBytes
<1> QED
  BY <1>1, <1>2, <1>3

\* A byte stored at the write cursor is the byte of the next stream position, and overwrites
\* none that is still retained.
LEMMA StoreAppends ==
  ASSUME IInv, NEW b \in Byte, WriteByte(b)
  PROVE  HeldBytes' = [p \in HeadPos' .. totalSize |-> IF p = totalSize THEN b ELSE HeldBytes[p]]
<1> USE DEF IInv, TypeOK, RingShape, Slot
<1>1. buf' = [buf EXCEPT ![writePos] = b] /\ totalSize' = totalSize + 1
  BY DEF WriteByte
<1> DEFINE d == IF count < windowSize THEN 0 ELSE 1
<1>2. HeadPos' = HeadPos + d
  BY DEF HeadPos, WriteByte
<1>3. readPos' = (readPos + d) % Size
  <2>1. (readPos + 0) % Size = readPos
    BY SizeAssumption, ModSlot
  <2> QED
    BY <2>1 DEF WriteByte
<1>4. count' = totalSize' - HeadPos' /\ count' = count + 1 - d
  BY DEF HeadPos, WriteByte
<1>d. d \in {0, 1} /\ d <= count + 1
  BY SizeAssumption
<1> HIDE DEF d
<1>5. ASSUME NEW p \in HeadPos' .. totalSize
      PROVE  buf'[(readPos' + (p - HeadPos')) % Size] = IF p = totalSize THEN b ELSE HeldBytes[p]
  <2> DEFINE i == p - HeadPos
  <2>1. i \in d .. count /\ p - HeadPos' = i - d
    BY <1>2, <1>d DEF HeadPos
  <2> HIDE DEF i
  <2>2. (readPos' + (p - HeadPos')) % Size = (readPos + i) % Size
    <3>1. d \in Nat /\ i - d \in Nat /\ d + (i - d) = i /\ d + (i - d) <= Size
      BY <2>1, <1>d, SizeAssumption
    <3>2. (((readPos + d) % Size) + (i - d)) % Size = (readPos + (d + (i - d))) % Size
      BY ZenonT(30), <3>1, SizeAssumption, ModAdd
    <3> QED
      BY <2>1, <3>1, <3>2, <1>3
  <2>3. CASE p = totalSize
    <3>1. i = count
      BY <2>3 DEF HeadPos, i
    <3> QED
      BY <1>1, <2>2, <2>3, <3>1
  <2>4. CASE p # totalSize
    <3>1. p \in HeadPos .. totalSize - 1 /\ i \in d .. count - 1
      BY <1>2, <2>1, <2>4, <1>d DEF HeadPos, i
    <3>2. (readPos + i) % Size # writePos
      <4>1. CASE count < Size
        <5>1. count \in 0 .. Size - 1 /\ i \in 0 .. Size - 1 /\ i # count
          BY <3>1, <4>1, <1>d, SizeAssumption
        <5> QED
          BY <5>1, SizeAssumption, ModDistinct
      <4>2. CASE count = Size
        <5>1. writePos = readPos
          BY <4>2, SizeAssumption, ModTurn
        <5>2. (readPos + 0) % Size = readPos
          BY SizeAssumption, ModSlot
        <5>3. 0 \in 0 .. Size - 1 /\ i \in 0 .. Size - 1 /\ i # 0
          BY <3>1, <4>2, <1>d, SizeAssumption DEF d
        <5>4. (readPos + i) % Size # (readPos + 0) % Size
          BY <5>3, SizeAssumption, ModDistinct
        <5> QED
          BY <5>1, <5>2, <5>4
      <4> QED
        BY <4>1, <4>2, SizeAssumption
    <3>3. buf'[(readPos + i) % Size] = buf[(readPos + i) % Size]
      BY <1>1, <3>2, SizeAssumption, ModRange
    <3> QED
      BY <2>2, <2>4, <3>1, <3>3 DEF HeldBytes, i
  <2> QED
    BY <2>3, <2>4
<1>6. HeldBytes' = [p \in HeadPos' .. totalSize' - 1 |-> buf'[(readPos' + (p - HeadPos')) % Size]]
  BY DEF HeldBytes
<1>7. totalSize' - 1 = totalSize
  BY <1>1
<1> QED
  BY <1>5, <1>6, <1>7

LEMMA InitRefines == Init => Log!LogInit
<1> SUFFICES ASSUME Init PROVE Log!LogInit
  OBVIOUS
<1>1. LogView = Log!NewLog(Size, syncMode)
  <2>1. (spaceAvailable = "open") = FALSE
    BY DEF Init
  <2>2. HeadPos = 0 /\ totalSize = 0 /\ windowSize = Size
    BY DEF Init, HeadPos
  <2> QED
    BY <2>1, <2>2, Zenon DEF LogView, LogOf, Log!NewLog, Log!LogOf
<1>2. HeldBytes = [i \in {} |-> 0]
  <2>1. HeadPos .. totalSize - 1 = {}
    BY DEF Init, HeadPos
  <2> QED
    BY <2>1 DEF HeldBytes
<1>3. syncMode \in BOOLEAN
  BY DEF Init
<1> QED
  BY <1>1, <1>2, <1>3 DEF Log!LogInit

LEMMA StepRefines == IInv /\ [Next]_vars => [Log!LogNext]_(Log!logVars)
<1> SUFFICES ASSUME IInv, [Next]_vars PROVE Log!LogNext \/ UNCHANGED Log!logVars
  OBVIOUS
<1> USE DEF IInv, TypeOK
<1> DEFINE open == spaceAvailable = "open"
<1>a. ASSUME UNCHANGED <<LogView, HeldBytes>> PROVE UNCHANGED Log!logVars
  BY <1>a DEF Log!logVars
\* the fields of the log
<1>b. /\ LogView.head = HeadPos /\ LogView.total = totalSize /\ LogView.sync = syncMode
      /\ LogView.window = windowSize /\ LogView.blocked = open
  BY Zenon DEF LogView, LogOf
<1>c. /\ LogView'.head = HeadPos' /\ LogView'.total = totalSize'
  BY Zenon DEF LogView, LogOf
<1>1. ASSUME NEW k \in 1 .. MaxChunk, NewChunk(k) PROVE UNCHANGED Log!logVars
  BY <1>1, <1>a, SameLog DEF NewChunk, waitVars
<1>2. CASE WriteCall
  BY <1>2, <1>a, SameLog DEF WriteCall, waitVars
<1>3. ASSUME NEW b \in Byte, WriteByte(b) PROVE Log!LogNext
  <2>1. Log!Accepts(LogView, 1) = 1
    BY <1>3, <1>b DEF WriteByte, MustBlock, HeadPos,
                      Log!Accepts, Log!Retained, Log!Least, Log!Greatest
  <2>2. LogView' = Log!AppendLog(LogView, 1)
    <3>1. HeadPos' = IF syncMode THEN HeadPos ELSE Log!Greatest(HeadPos, totalSize + 1 - windowSize)
      BY <1>3 DEF WriteByte, MustBlock, HeadPos, RingShape, Log!Greatest
    <3>2. totalSize' = totalSize + 1 /\ UNCHANGED <<syncMode, windowSize, spaceAvailable>>
      BY <1>3 DEF WriteByte, modeVars, waitVars
    <3> QED
      BY <1>b, <3>1, <3>2, Zenon DEF LogView, LogOf, Log!AppendLog, Log!LogOf
  <2>3. ~LogView.blocked
    BY <1>3, <1>b DEF WriteByte, NoLostWakeup
  <2>4. LogView'.head = HeadPos' /\ LogView'.total - 1 = totalSize
    BY <1>3, <1>c DEF WriteByte
  <2>5. HeldBytes' = [p \in HeadPos' .. totalSize |-> IF p = totalSize THEN b ELSE HeldBytes[p]]
    BY <1>3, StoreAppends
  <2>6. Log!LogAppend(b)
    BY <1>b, <2>1, <2>2, <2>3, <2>4, <2>5 DEF Log!LogAppend
  <2> QED
    BY <2>6 DEF Log!LogNext
<1>4. CASE WriteReturn
  BY <1>4, <1>a, SameLog DEF WriteReturn, waitVars
<1>5. CASE WriteBlock
  <2>1. ~waiterChan
    BY <1>5 DEF WriteBlock, NoLostWakeup
  <2>2. LogView' = Log!BlockWriter(LogView) /\ UNCHANGED HeldBytes
    <3>1. UNCHANGED <<ringVars, modeVars>> /\ open' = TRUE
      BY <1>5, <2>1 DEF WriteBlock
    <3>2. HeadPos' = HeadPos /\ UNCHANGED HeldBytes
      BY <3>1 DEF HeldBytes, HeadPos, ringVars
    <3> QED
      BY <1>b, <3>1, <3>2, Zenon DEF LogView, LogOf, ringVars, modeVars, Log!BlockWriter, Log!LogOf
  <2>3. LogView.sync /\ Log!Full(LogView)
    BY <1>5, <1>b DEF WriteBlock, MustBlock, HeadPos, Log!Full, Log!Retained
  <2> QED
    BY <2>2, <2>3 DEF Log!LogNext, Log!LogBlock
<1>6. CASE Woken
  BY <1>6, <1>a, SameLog DEF Woken
<1>7. ASSUME NEW n \in 0 .. Size, Consume(n) PROVE Log!LogNext
  <2>1. n <= Log!Retained(LogView)
    BY <1>7, <1>b DEF Consume, HeadPos, Log!Retained
  <2>2. HeadPos' = HeadPos + n /\ UNCHANGED <<totalSize, modeVars>>
    BY <1>7 DEF Consume, HeadPos
  <2>3. LogView' = Log!ConsumeLog(LogView, n)
    <3>1. open' = FALSE
      BY <1>7 DEF Consume, TryWakeWriter, waitVars, NoLostWakeup
    <3> QED
      BY <1>b, <2>2, <3>1, Zenon DEF LogView, LogOf, modeVars, Log!ConsumeLog, Log!LogOf
  <2>4. HeldBytes' = [p \in HeadPos + n .. totalSize - 1 |-> HeldBytes[p]]
    BY <1>7, DropKeeps DEF Consume
  <2>5. Log!LogConsume(n)
    BY <1>c, <2>1, <2>2, <2>3, <2>4 DEF Log!LogConsume, Log!Keep
  <2> QED
    BY <2>5 DEF Log!LogNext
<1>8. ASSUME NEW sync \in BOOLEAN, NEW w \in 0 .. MaxWindow, SetEffectiveWindow(sync, w)
      PROVE  Log!LogNext
  <2> DEFINE win == Least(w, Size)
             d == IF ~sync /\ count > win THEN count - win ELSE 0
  <2>1. win \in 0 .. Size /\ win = Log!Least(w, Size)
    BY SizeAssumption, BoundAssumption DEF Least, Log!Least
  <2>2. readPos' = (readPos + d) % Size /\ count' = count - d
    <3>1. (readPos + 0) % Size = readPos
      BY SizeAssumption, ModSlot DEF Slot
    <3>2. CASE ~sync /\ count > win
      BY <1>8, <2>1, <3>2 DEF SetEffectiveWindow
    <3>3. CASE ~(~sync /\ count > win)
      BY <1>8, <3>1, <3>3 DEF SetEffectiveWindow
    <3> QED
      BY <3>2, <3>3
  <2>3. windowSize' = win /\ syncMode' = sync /\ UNCHANGED <<buf, totalSize>>
    BY <1>8 DEF SetEffectiveWindow
  <2>4. open' = (open /\ ~(syncMode /\ (win > windowSize \/ ~sync)))
    BY <1>8 DEF SetEffectiveWindow, TryWakeWriter, waitVars, NoLostWakeup
  <2> HIDE DEF win
  <2>5. d \in 0 .. count
    BY <2>1
  <2>6. HeadPos' = HeadPos + d /\ HeadPos' = IF sync THEN HeadPos ELSE Log!Greatest(HeadPos, totalSize - win)
    BY <2>1, <2>2, <2>3, <2>5 DEF HeadPos, Log!Greatest
  <2>7. LogView' = Log!ResizeLog(LogView, Size, sync, w)
    BY <1>b, <2>1, <2>3, <2>4, <2>6, Zenon DEF LogView, LogOf, Log!ResizeLog, Log!LogOf
  <2>8. HeldBytes' = [p \in HeadPos + d .. totalSize - 1 |-> HeldBytes[p]]
    BY <2>2, <2>3, <2>5, DropKeeps
  <2>9. Log!LogResize(sync, w)
    BY <1>c, <2>3, <2>6, <2>7, <2>8 DEF Log!LogResize, Log!Keep
  <2> QED
    BY <2>9 DEF Log!LogNext
<1>9. CASE UNCHANGED vars
  BY <1>9, <1>a, SameLog DEF vars, waitVars
<1> QED
  BY <1>1, <1>2, <1>3, <1>4, <1>5, <1>6, <1>7, <1>8, <1>9 DEF Next

\* The ring of bytes implements the log: whatever wraps, truncations, resizes and blocked
\* writes happen, a retained stream position always reads back the byte written there.
THEOREM RingImplementsLog == Spec => ImplementsLog
BY InitRefines, StepRefines, Invariance, PTL DEF Spec, ImplementsLog, Log!LogSpec
=============================================================================

------------------------------- MODULE LogBuf -------------------------------
(***************************************************************************)
(* What a user of pkg/jobmanager/cirbuf.go sees of the buffer: a window    *)
(* onto an ever growing byte stream.  The buffer retains the bytes at the  *)
(* stream positions head .. total-1, accepts at most `window' of them in   *)
(* synchronous mode (the writer then blocks) and drops the oldest ones in  *)
(* asynchronous mode.  This module holds the operations as functions from  *)
(* a buffer to a buffer; CirBufLog turns them into a specification that    *)
(* CirBuf (the ring of bytes) implements, and StreamManager and            *)
(* DurableStream are built on them.                                        *)
(***************************************************************************)
EXTENDS Integers

Least(a, b) == IF a < b THEN a ELSE b
Greatest(a, b) == IF a > b THEN a ELSE b

LogType == [head: Nat, total: Nat, sync: BOOLEAN, window: Nat, blocked: BOOLEAN]

LogOf(head, total, sync, window, blocked) ==
  [head |-> head, total |-> total, sync |-> sync, window |-> window, blocked |-> blocked]

\* MakeCirBuf(size, initSync)
NewLog(size, initSync) == LogOf(0, 0, initSync, size, FALSE)

Retained(b) == b.total - b.head
Full(b) == Retained(b) >= b.window

\* How many of k bytes one call of WriteAvailable accepts.
Accepts(b, k) == IF b.sync THEN Least(k, Greatest(0, b.window - Retained(b))) ELSE k

\* n accepted bytes: in asynchronous mode what exceeds the window is dropped at the head.
AppendLog(b, n) ==
  LogOf(IF b.sync THEN b.head ELSE Greatest(b.head, b.total + n - b.window),
        b.total + n, b.sync, b.window, b.blocked)

\* The writer found the buffer full and now waits for its channel to be closed.
BlockWriter(b) == LogOf(b.head, b.total, b.sync, b.window, TRUE)

\* Consume(n), for n <= Retained(b): always wakes the writer.
ConsumeLog(b, n) == LogOf(b.head + n, b.total, b.sync, b.window, FALSE)

\* SetEffectiveWindow(sync, w) on a buffer of the given capacity.
ResizeLog(b, size, sync, w) ==
  LET win == Least(w, size)
  IN  LogOf(IF sync THEN b.head ELSE Greatest(b.head, b.total - win),
            b.total, sync, win,
            b.blocked /\ ~(b.sync /\ (win > b.window \/ ~sync)))
=============================================================================

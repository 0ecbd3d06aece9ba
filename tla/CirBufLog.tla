----------------------------- MODULE CirBufLog ------------------------------
(***************************************************************************)
(* What CirBuf promises: it behaves as a log of bytes of which a           *)
(* contiguous range of stream positions is retained.  `held' maps each     *)
(* retained position to the byte that was written there.                   *)
(***************************************************************************)
EXTENDS LogBuf

CONSTANTS Size,     \* len(cb.buf)
          Byte,     \* the byte values
          MaxWindow \* the largest window a caller asks for

VARIABLES log, held
logVars == <<log, held>>

LogInit == /\ \E initSync \in BOOLEAN: log = NewLog(Size, initSync)
           /\ held = [i \in {} |-> 0]

\* The retained range moves to log'; the byte at position p of it is At(p).
Keep(old) == held' = [p \in log'.head .. log'.total - 1 |-> old[p]]

LogAppend(byte) ==
  /\ ~log.blocked
  /\ Accepts(log, 1) = 1
  /\ log' = AppendLog(log, 1)
  /\ held' = [p \in log'.head .. log'.total - 1 |-> IF p = log.total THEN byte ELSE held[p]]

LogBlock ==
  /\ log.sync /\ Full(log)
  /\ log' = BlockWriter(log)
  /\ UNCHANGED held

LogConsume(n) ==
  /\ n <= Retained(log)
  /\ log' = ConsumeLog(log, n)
  /\ Keep(held)

LogResize(sync, w) ==
  /\ log' = ResizeLog(log, Size, sync, w)
  /\ Keep(held)

LogNext ==
  \/ \E byte \in Byte: LogAppend(byte)
  \/ LogBlock
  \/ \E n \in 0 .. Size: LogConsume(n)
  \/ \E sync \in BOOLEAN, w \in 0 .. MaxWindow: LogResize(sync, w)

LogSpec == LogInit /\ [][LogNext]_logVars
=============================================================================

----------------------------- MODULE AttachOutput -----------------------------
(***************************************************************************)
(* `dsh attach' (pkg/doraattach): a second terminal shows the output of a  *)
(* block.  Writers append chunks to the block's file on the main server    *)
(* and then publish an event for each (blockcontroller.go).  The attached  *)
(* client subscribes to the events, buffers those that arrive, reads a     *)
(* snapshot of the file, takes the time, shows the buffered events that    *)
(* arrived later than that, and from then on shows events as they arrive.  *)
(* A resync starts over.                                                   *)
(*                                                                         *)
(* Time is counted in cutoffs: an event that arrives after the k-th cutoff *)
(* was taken, and before the next, has the time k.  The stream that        *)
(* carries the snapshot is taken to deliver it.  readSize, mark and quiet  *)
(* are history variables.                                                  *)
(***************************************************************************)
EXTENDS Integers, Sequences, SequencesExt

CONSTANTS
  Writers,    \* goroutines that write to the block's file
  Nothing,
  MaxEvents,  \* bound: appends and truncations
  MaxResync   \* bound: resyncs asked for

ASSUME AttachAssumption ==
  /\ MaxEvents \in Nat /\ MaxResync \in Nat
  /\ Nothing \notin [chunk: Nat, at: Nat]

VARIABLES
  file,                      \* the chunks in the block's file
  writing,                   \* per writer: the event it has still to publish
  events,                    \* appends and truncations so far
  subscribed, published,     \* is the client subscribed, the events sent to it
  received, stamped,         \* how many of these it took, the one its handler holds
  pending, flushed,          \* the eventBuffer
  stage, snapshot, cutoffs,  \* where StreamOutput is, what it read, the cutoffs it took
  view,                      \* the chunks written to the viewport
  resync, resyncs,           \* resyncCh, and the resyncs asked for
  readSize, mark, quiet      \* length of the snapshot shown, events taken at the cutoff, and
                             \* was nothing under way when the file was read, or since?

serverVars == <<file, writing, events, published>>
handlerVars == <<received, stamped>>
bufferVars == <<pending, flushed>>
loadVars == <<subscribed, stage, snapshot, cutoffs>>
resyncVars == <<resync, resyncs>>
pastVars == <<readSize, mark, quiet>>
attachVars == <<serverVars, handlerVars, bufferVars, loadVars, view, resyncVars, pastVars>>

Event(op, n) == [op |-> op, chunk |-> n]

\* The chunks of the events of s at the places in `which', up to the n-th, in their order.
ChunksAt(s, which, n) ==
  LET upTo[k \in 0 .. n] ==
        IF k = 0 THEN <<>> ELSE IF k \in which THEN Append(upTo[k - 1], s[k].chunk) ELSE upTo[k - 1]
  IN  upTo[n]

AttachInit ==
  /\ file = <<>> /\ writing = [w \in Writers |-> Nothing] /\ events = 0
  /\ subscribed = FALSE /\ published = <<>>
  /\ received = 0 /\ stamped = Nothing
  /\ pending = <<>> /\ flushed = FALSE
  /\ stage = "subscribe" /\ snapshot = <<>> /\ cutoffs = 0
  /\ view = <<>>
  /\ resync = FALSE /\ resyncs = 0
  /\ readSize = 0 /\ mark = 0 /\ quiet = FALSE

-----------------------------------------------------------------------------
(* The main server *)

\* HandleAppendBlockFile and HandleTruncateBlockFile change the file ...
Write(w, op) ==
  /\ writing[w] = Nothing /\ events < MaxEvents
  /\ events' = events + 1
  /\ writing' = [writing EXCEPT ![w] = Event(op, events + 1)]
  /\ file' = IF op = "append" THEN Append(file, events + 1) ELSE <<>>
  /\ quiet' = FALSE
  /\ UNCHANGED <<published, handlerVars, bufferVars, loadVars, view, resyncVars, readSize, mark>>

\* ... and then publish the event, whatever others did in between.
Publish(w) ==
  /\ writing[w] # Nothing
  /\ writing' = [writing EXCEPT ![w] = Nothing]
  /\ published' = IF subscribed THEN Append(published, writing[w]) ELSE published
  /\ UNCHANGED <<file, events, handlerVars, bufferVars, loadVars, view, resyncVars, pastVars>>

-----------------------------------------------------------------------------
(* The client's event handler, which runs in the RPC endpoint's loop *)

\* Only appends are looked at; the time is taken before the buffer's lock.
RecvEvent ==
  /\ received < Len(published) /\ stamped = Nothing
  /\ received' = received + 1
  /\ LET ev == published[received + 1]
     IN  stamped' = IF ev.op = "append" THEN [chunk |-> ev.chunk, at |-> cutoffs] ELSE Nothing
  /\ UNCHANGED <<serverVars, bufferVars, loadVars, view, resyncVars, pastVars>>

\* eventBuffer.write
WriteEvent ==
  /\ stamped # Nothing
  /\ IF flushed THEN view' = Append(view, stamped.chunk) /\ UNCHANGED pending
                ELSE pending' = Append(pending, stamped) /\ UNCHANGED view
  /\ stamped' = Nothing
  /\ UNCHANGED <<serverVars, received, flushed, loadVars, resyncVars, pastVars>>

-----------------------------------------------------------------------------
(* StreamOutput *)

Settled == (\A w \in Writers: writing[w] = Nothing) /\ received = Len(published) /\ stamped = Nothing

Subscribe ==
  /\ stage = "subscribe"
  /\ subscribed' = TRUE
  /\ stage' = "load"
  /\ UNCHANGED <<serverVars, handlerVars, bufferVars, snapshot, cutoffs, view, resyncVars, pastVars>>

\* DoraFileReadStreamCommand reads the file at once; its content is on the way to the client.
ReadFile ==
  /\ stage = "load"
  /\ snapshot' = file
  /\ quiet' = Settled
  /\ stage' = "copy"
  /\ UNCHANGED <<serverVars, handlerVars, bufferVars, subscribed, cutoffs, view, resyncVars, readSize,
                 mark>>

\* io.Copy, until the end of the stream
CopySnapshot ==
  /\ stage = "copy"
  /\ view' = view \o snapshot
  /\ readSize' = Len(snapshot)
  /\ stage' = "cutoff"
  /\ UNCHANGED <<serverVars, handlerVars, bufferVars, subscribed, snapshot, cutoffs, resyncVars, mark,
                 quiet>>

TakeCutoff ==
  /\ stage = "cutoff"
  /\ cutoffs' = cutoffs + 1
  /\ mark' = received
  /\ stage' = "flush"
  /\ UNCHANGED <<serverVars, handlerVars, bufferVars, subscribed, snapshot, view, resyncVars, readSize,
                 quiet>>

\* The buffered events that arrived after the cutoff.
Late == {k \in DOMAIN pending: pending[k].at >= cutoffs}

\* mutants: nothing that was buffered is shown; what was shown stays buffered
FlushShowsNone ==
  /\ stage = "flush"
  /\ pending' = <<>> /\ flushed' = TRUE
  /\ stage' = "live"
  /\ UNCHANGED <<serverVars, handlerVars, subscribed, snapshot, cutoffs, view, resyncVars, pastVars>>

FlushKeepsPending ==
  /\ stage = "flush"
  /\ view' = view \o ChunksAt(pending, Late, Len(pending))
  /\ flushed' = TRUE
  /\ stage' = "live"
  /\ UNCHANGED <<serverVars, handlerVars, pending, subscribed, snapshot, cutoffs, resyncVars,
                 pastVars>>

\* eventBuffer.flush: events that arrived before the cutoff are taken to be in the snapshot.
Flush ==
  /\ stage = "flush"
  /\ view' = view \o ChunksAt(pending, Late, Len(pending))
  /\ pending' = <<>> /\ flushed' = TRUE
  /\ stage' = "live"
  /\ UNCHANGED <<serverVars, handlerVars, subscribed, snapshot, cutoffs, resyncVars, pastVars>>

\* The user asks for a resync; a request that is not taken yet is enough.
AskResync ==
  /\ resyncs < MaxResync /\ stage # "ended"
  /\ resyncs' = resyncs + 1
  /\ resync' = TRUE
  /\ UNCHANGED <<serverVars, handlerVars, bufferVars, loadVars, view, pastVars>>

\* eventBuffer.unflush
Unflush ==
  /\ stage = "live" /\ resync
  /\ resync' = FALSE
  /\ pending' = <<>> /\ flushed' = FALSE
  /\ stage' = "reset"
  /\ UNCHANGED <<serverVars, handlerVars, subscribed, snapshot, cutoffs, view, resyncs, pastVars>>

\* mutant: the new snapshot is written below what is shown
ResetNothing ==
  /\ stage = "reset"
  /\ stage' = "load"
  /\ UNCHANGED <<serverVars, handlerVars, bufferVars, subscribed, snapshot, cutoffs, view, resyncVars,
                 pastVars>>

\* Viewport.Reset
Reset ==
  /\ stage = "reset"
  /\ view' = <<>> /\ readSize' = 0
  /\ stage' = "load"
  /\ UNCHANGED <<serverVars, handlerVars, bufferVars, subscribed, snapshot, cutoffs, resyncVars, mark,
                 quiet>>

\* The user detaches, the block's process ends, or a call fails: dsh exits.
End ==
  /\ stage # "ended"
  /\ stage' = "ended"
  /\ UNCHANGED <<serverVars, handlerVars, bufferVars, subscribed, snapshot, cutoffs, view, resyncVars,
                 pastVars>>

StreamOutput ==
  \/ Subscribe \/ ReadFile \/ CopySnapshot \/ TakeCutoff \/ Flush \/ Unflush \/ Reset

AttachNext ==
  \/ \E w \in Writers: Publish(w) \/ \E op \in {"append", "truncate"}: Write(w, op)
  \/ stage # "ended" /\ (RecvEvent \/ WriteEvent)
  \/ StreamOutput \/ AskResync \/ End

AttachSpec == AttachInit /\ [][AttachNext]_attachVars

-----------------------------------------------------------------------------
(* Properties *)

\* Types; once the buffer was flushed nothing is left in it.
AttachTypeOK ==
  /\ file \in Seq(1 .. MaxEvents) /\ view \in Seq(1 .. MaxEvents) /\ snapshot \in Seq(1 .. MaxEvents)
  /\ received \in 0 .. Len(published) /\ subscribed \in BOOLEAN
  /\ flushed \in BOOLEAN /\ (flushed => pending = <<>>)
  /\ stage \in {"subscribe", "load", "copy", "cutoff", "flush", "live", "reset", "ended"}
  /\ cutoffs \in 0 .. MaxResync + 1 /\ resync \in BOOLEAN

\* The appended chunks among the events that the handler took as the i-th to the last, and wrote.
Taken(i) ==
  LET last == IF stamped = Nothing THEN received ELSE received - 1
  IN  ChunksAt(published, {k \in i .. last: published[k].op = "append"}, last)

\* What is shown after the snapshot is what the last events brought, in the order in which they
\* were published, without a hole and nothing twice; and no event that arrived after the cutoff
\* is missing (output.go:42-66, 182-190).
LiveJoins ==
  stage = "live" =>
    LET live == SubSeq(view, readSize + 1, Len(view))
    IN  /\ SubSeq(view, 1, readSize) = snapshot
        /\ IsSuffix(live, Taken(1)) /\ IsSuffix(Taken(mark + 1), live)

\* A snapshot taken while nothing is under way shows exactly the block's file, on a resync too
\* (README.md:209: "rebuild emulator state from a fresh snapshot").
QuietLoad == stage = "live" /\ quiet => view = file

\* The attached terminal shows the block: when everything has arrived, it shows what is in the
\* block's file (README.md:140, 201).
ViewIsOutput == stage = "live" /\ Settled => view = file

\* No chunk is shown twice.
ShownOnce == \A i, j \in DOMAIN view: view[i] = view[j] => i = j
=============================================================================

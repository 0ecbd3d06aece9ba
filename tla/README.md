# DoraTerm: specifications, model checks and proofs

DoraTerm is a terminal, derived from WaveTerm, whose blocks run shells. An
Electron shell and a React front end talk over RPC to a Go process, the *main
server* (`cmd/server`, called `dorasrv`), possibly from another machine through
its remote entry. The main server talks over RPC to *job managers*, processes of
their own that hold a block's program, and to `dsh`, the command line. The
parts that move bytes and messages between these processes, and the pages that
show state somebody else changes, carry most of the program's own difficulty:
they are concurrent, they survive lost links and restarts, and their bugs show
in orders of events that no test was written for. The modules here model those
parts; this file says what they show.

All paths are relative to the repository (`src/`), those of the front end and of
Electron to `src/frontend` and `src/emain`.

## 1. The system

### 1.1 Components

The Go side:

| Component | Where | State | Operations |
|---|---|---|---|
| circular buffer | `pkg/jobmanager/cirbuf.go` | ring, cursors, mode, window, the waiting writer's channel | WriteAvailable, PeekDataAt, Consume, SetEffectiveWindow |
| stream manager | `pkg/jobmanager/streammanager.go` | the buffer, the connected stream and its window, acknowledgements, the end of the stream | readLoop, senderLoop, ClientConnected, ClientDisconnected, RecvAck, SetRwndSize, Close |
| job manager | `pkg/jobmanager/jobmanager.go`, `mainserverconn.go`, `jobcmd.go` | attached client, pending stream, the program | StartJob, PrepareConnect, StartStream, input, termination |
| stream broker, reader, writer | `pkg/streamclient` | streams by id, the reader's buffer and out-of-order packets, the writer's unsent bytes | RecvData, Read, UpdateNextSeq, Close; Write, RecvAck |
| job controller | `pkg/jobcontroller/jobcontroller.go` | current stream of each job, output file, recorded gap, status | StartJob, reconnect, restartStreaming, output loop, reconcile and prune workers |
| RPC endpoint | `pkg/dshutil/dshrpc.go` | response channels by request id, the timeouts' channel, handlers under way | SendCommand, SendRpcRequest, SendComplexRequest, runServer, handlers |
| RPC router | `pkg/dshutil/dshrouter.go` | links, routes, responses to route back, backlog | bind, unbind, register, unregister, forward |
| reorder queue, work queue | `pkg/utilds` | session order, buffer, timer; queue and worker | QueueItem, onTimeout, Close; Enqueue, run, Close |
| attach sessions | `pkg/doraattach` | event buffer, viewport, where the load stands | event handler, snapshot, flush, resync |
| file store | `pkg/filestore` | cached parts of files, dirty marks, the database | append, write, read, flush |
| event broker | `pkg/dps/dps.go` | subscriptions by event and scope, persisted events | Subscribe, Unsubscribe, Publish |
| workspace core, object store | `pkg/dcore`, `pkg/dstore` | windows, workspaces, tabs, blocks | create, move, close, delete |
| block controllers | `pkg/blockcontroller` | controller per block, status | start, stop, resync, input |

The front end and the Electron shell:

| Component | Where | State | Operations |
|---|---|---|---|
| web socket link and calls | `app/store/ws.ts`, `wshrouter.ts`, `dshclient.ts`, `dshrpcutil-base.ts`, `wps.ts` | the socket, messages that wait for it, routes and open calls, subscriptions | connect, close, reconnect, send, call, stream, time out, subscribe |
| object store of a tab | `app/store/wos.ts`, `layout/lib/layoutModelHooks.ts`, `layoutModel.ts` | cached objects with versions, queued layout actions, delayed saves | fetch, update, event, save, clean up |
| layout tree and model | `layout/lib` | tree of tiles, pending action, focus, magnified and ephemeral nodes, sizes | insert, move, swap, split, replace, delete, balance, resize, drag |
| terminal view | `app/view/term` | the terminal, what of the file it has, the controller's and the shell's status, settings, selection | load, append, save, restart, paste, copy, search, menu |
| page focus and keys | `app/block/block.tsx`, `app/store/focusManager.ts`, `keymodel.ts`, `emain-tabview.ts` | focused node and element, chords, overlay of block numbers | click, move, key, chord, modal |
| tab bars, tab names, badges | `app/tab`, `app/store/badge.ts` | copies of the order and the names, drags, timers, badges | drag, rename, set, clear |
| config editor, tree view, ijson | `app/view/doraconfig`, `app/treeview`, `util/ijson.ts` | text, file and errors; nodes; documents | select, edit, save; expand, load; set, delete, append |
| Electron windows, views, life cycle | `emain-window.ts`, `emain-tabview.ts`, `emain.ts`, `emain-dorasrv.ts`, `updater.ts` | windows with queues of actions, views and their cache, the backend process | create, switch, close, relaunch, quit, update |
| quake window, menus | `emain-window.ts`, `emain-menu.ts`, `app/store/contextmenu.ts` | the hotkey, the window on its display; the menu under construction, handlers of context menus | toggle, register; build, show, click |

PROJECT.json lists every component with its status, those that are not modelled
with the reason.

### 1.2 How they interact

A program that runs in a *durable* block is the child of a job manager, which
outlives links and main servers:

    PTY -> StreamManager.readLoop -> CirBuf -> senderLoop
        -> RPC -> broker -> Reader -> output loop -> output file + event
    keys -> RPC requests, one goroutine each -> QuickReorderQueue -> PTY

Acknowledgements flow back from the `Reader` and carry its receive window. When
the link is lost the job controller reconnects: it computes from the file's size
and the gap recorded in the job's metadata where the file ends, creates a new
reader there, calls `PrepareConnect`, which answers with the position the buffer
can still continue from, records the difference as a gap, and calls
`StartStream`. Blocks whose output changed publish events; a front end, or a
terminal attached with `dsh attach`, follows a block by reading its file and then
applying the events.

A page reads objects (tabs, blocks, layouts) by HTTP, gets their changes as
events over the web socket, and changes them by calls on that socket; answers,
events and saves overtake one another. The backend changes a tab's layout by
appending actions to the layout object, which the page applies and removes. The
Electron shell keeps a view per tab and a queue of actions per window; it calls
the same services and is told of changes by events as well.

### 1.3 What is hard, and what each part has to guarantee

| Part | Hard | Correct when |
|---|---|---|
| circular buffer | cursors that wrap, a window that may shrink below what is held, a registration that outlives the block it was made for | it is a log: nothing reordered, only the oldest bytes dropped, and a blocked writer is woken whenever there is room |
| stream manager | two goroutines and RPC calls, of which one writes without the lock; a condition variable; acknowledgements in any order | no lost wakeup; packets join; the end comes last; nothing is dropped that a connected client was promised |
| durable stream | lost links at any step of a reconnect, crashes, superseded readers, packets out of order | the file has the bytes in order, the gap accounts for what it lacks, and nothing is lost that the buffer holds |
| RPC endpoint | callers, timeouts and responses share bounded channels | every call returns while the transport runs |
| reorder queue | timeouts one by one, sessions that supersede others, a bounded channel written under a lock | buffered keys come out |
| attach sessions | a snapshot that overlaps with live events | what follows the snapshot continues without holes |
| web link | a socket lost between a change and its message, queued and direct messages, answers on a link that is gone | the broker holds the page's subscription; no answer is lost or given twice |
| object store, layout | answers and events that overtake saves; actions queued while others await | page and backend agree when all is quiet; no step loses a block it was not told to remove |
| Electron windows | awaits between reading the window map and using it; queues that are overwritten; quits while things load | every window shows a view of its own, only windows that were closed go, what is under way ends |
| parts of a page | timers, renders and effects against events and answers | what is shown is what is stored when all has arrived |

PROJECT.json lists the hazards at their lines, with the properties that would
catch them. More hazards than it has room for are real; those whose failures are
known are in section 7.

## 2. Modules

The Go side:

| Module | Models | State and actions in the code |
|---|---|---|
| `LogBuf` | what users of `cirbuf.go` see | operators from a buffer `[head, total, sync, window, blocked]` to a buffer: AppendLog (WriteAvailable), ConsumeLog, ResizeLog (SetEffectiveWindow), BlockWriter |
| `CirBufLog` | the abstract specification: a log of bytes | `log` (a `LogBuf` record) and `held` (the byte at each retained position); LogAppend, LogBlock, LogConsume, LogResize |
| `CirBuf` | `cirbuf.go` and its writer loop (streammanager.go:308-324) | one variable per field, `waiterChan` as a Boolean (a channel of size 1); WriteAvailable is WriteCall, WriteByte..., WriteReturn or WriteBlock, all under `cb.lock` |
| `StreamManager` | `streammanager.go` | `readLoop` and `senderLoop` are the places of the goroutines; ClientConnected is three actions under `sm.lock` (ConnectStart/ConnectBeyondEnd, ConnectConsume, ConnectInstall) because `readLoop` writes to the buffer without that lock; waiting on drainCond is senderLoop = "waiting", Signal wakes it |
| `DurableStream` | `StreamManager` composed with `streamreader.go`, the data and ack halves of `streambroker.go`, PrepareConnect and StartStream (`jobmanager.go`), runOutputLoop and restartStreaming (`jobcontroller.go`) | `reader[n]`, `loop[n]` per stream; `restart` and `handler` are the two ends of a reconnect; `data`, `acks` are what is under way on the link |
| `DshRpc` | calling side of `dshrpc.go`, request and stream loops of `dshclientutil.go` | `stage[c]` is where the goroutine of call c is; `timer[c]` the goroutine of retrySendTimeout; `rpcMap`, `respCh`, `ctxDoneCh`, `outputCh`, `inputCh` are the map and channels of those names |
| `QuickReorderQueue` | `quickreorderqueue.go` and its consumer | every method is one action (it holds `q.lock`), `emitted` is all that was sent to outCh |
| `AttachOutput` | `doraattach/output.go` with the writers of a block's file (`blockcontroller.go`) and their events | StreamOutput is the sequence Subscribe, ReadFile, CopySnapshot, TakeCutoff, Flush, with Unflush and Reset for a resync; the event handler is RecvEvent (takes the time) and WriteEvent (takes the lock) |

The front end and Electron (one thread each: an action is what runs between two
awaits, timers or events):

| Module | Models |
|---|---|
| `WebLink` | `ws.ts`, `wshrouter.ts`, `dshclient.ts`, `dshrpcutil-base.ts`, the subscriptions of `wps.ts`; `up` and `down` are the socket's two directions, `msgQueue` what waits for it; the server handles each request in a goroutine of its own (ServerReceives), so in any order |
| `ObjectSync` | `wos.ts`, the delayed saves of `layoutModel.ts`, `layoutModelHooks.ts`, the loads of `dora.ts`: versions, updates, answers, events, queued layout actions, the clean-up of orphans |
| `LayoutTree`, `LayoutModel` | `layoutNode.ts`, `layoutTree.ts`: functions from tree to tree (findInsertLocation, addChildAt, balanceNode, the reducer); `layoutModel.ts`: the tasks of user and backend on one tree, which await the deletion of blocks |
| `TileGeometry` | rectangles, resize handles, drop targets and moves in a direction over the trees of `LayoutTree` |
| `TabViews`, `BrowserWindows`, `ElectronShell` | `emain-tabview.ts`, `emain-window.ts`, `emain.ts`, `emain-dsh.ts`: functions on the record `el` of the main process; a job of `jobs` is an asynchronous function that awaits something |
| `AppLifecycle` | `emain-dorasrv.ts`, the quits of `emain.ts`, `updater.ts` |
| `QuakeWindow` | quakeToggle, the registration of the hotkey and the places of windows on displays |
| `AppMenus` | the application's menu, context menus, zoom |
| `TermOutput`, `TermControl`, `TermShell`, `TermMenu`, `TermClip`, `BlockSettings` | a terminal's file and events; its controller's status; what its shell reports; the settings its menu sets; clipboard, selection and search; how settings reach it |
| `PageFocus`, `PageKeys`, `AppKeys` | the focus; modifiers, chords and the main process; which key does what |
| `TabBar`, `TabName`, `Badges` | order, names and badges of tabs |
| `ConfigEditor`, `TreeView`, `IJson` | the configuration's editor, the directory tree, documents changed by commands |

`CirBuf` implements `CirBufLog`, whose steps are the operators of `LogBuf`;
`StreamManager` keeps its buffer as a `LogBuf` record, and `DurableStream`
EXTENDS `StreamManager`. So the ring is checked and proved once and the modules
above it count positions, not bytes: a byte of a program's output is its position
in the stream. `ElectronShell` EXTENDS `BrowserWindows`, which EXTENDS
`TabViews`; `LayoutModel` and `TileGeometry` EXTEND `LayoutTree`.

`MC*` modules give values to constants. Four put parts that share no state next
to each other, each behaviour being one of one part: `MCStreamManager`
(`StreamManager`, `AttachOutput`), `MCElectronShell` (`ElectronShell`,
`AppLifecycle`), `MCWebLink` (`WebLink`, `QuickReorderQueue`) and `MCFrontEnd`
(the parts of a page and the menus).
`*Proofs` modules hold the theorems of the module they are named after
or of several small ones (`PageProofs`, `TermProofs`, `WindowProofs`);
`DataLemmas` holds what they share.

Conventions. Definitions that start with "Mutant:" in their comment are variants
of an action with a plausible bug, used to see that a property can fail.
A constant whose comment says "bound" exists for TLC only. A variable described
as one of history says nothing about the code's state; variables such as `hasty`,
`muddled` or `crossed` remember that a race the code loses (section 7) occurred.

### What is abstracted

* The contents of bytes, packets and keys, and the encoding of messages.
* Time. A timeout may happen whenever the code could let it happen; a duration
  never excludes an order, except where a module says so (timers of 30 to 50 ms
  that only a user would have to beat). In `QuickReorderQueue` items grow old
  oldest first; in `AttachOutput` time is counted in cutoffs, the only instants
  that are compared.
* In `StreamManager` the call of `ReadPty` returns any number of bytes, with or
  without an error, as `io.Reader` allows.
* In `DurableStream`, one job, one program start, one main server at a time; the
  output file is a sequence of bytes and `saved` what of it is on disk; the RPC
  calls of a reconnect may fail at any point by the loss of the link; packets
  handed to a live link arrive (see section 7).
* In `DshRpc`, the peer and the transport are the environment: they answer, stall
  or stop as they please.
* The backend, where a page or the shell meets it, is modelled from `pkg/dcore`,
  `pkg/service`, `pkg/dshrpc`, `pkg/dps` and `pkg/blockcontroller`: a write of the
  database and the event that tells of it are separate steps, and requests or
  events of different goroutines take any order, where a property depends on it.
  Its own components are modelled no further.
* React commits an update some time after it, perhaps several at once, and runs
  effects after the commit; jotai runs a subscription when a derived value changes.

## 3. Runs

| Run | Question | Bounds | Distinct states |
|---|---|---|---|
| `cirbuf` | Is the ring the log, and is a blocked writer always woken? | capacity 3, windows 0..4, chunks to 4, 6 bytes of 2 values | 17 thousand |
| `stream_manager` | Do two goroutines and calls in any order keep packets joined and the sender awake? Does what an attached terminal shows after the snapshot continue without holes? | buffer 3, window 2, packets to 2, 4 bytes, 2 connections; 2 writers, 4 appends or truncations, 1 resync | 1.5 million |
| `durable_gap` | Does the file stay in order and accounted for when bytes are dropped, links lost, and the main server crashes? | buffer 2, window 1, 3 bytes, 3 streams, 1 crash, both ends of the PTY | 1.05 million |
| `durable_reconnect` | If the buffer holds everything, is everything recorded and the end as well? | buffer 3, window 2, 3 bytes, 2 streams, both ends of the PTY, packets and acks reordered | 223 thousand |
| `rpc` | Do calls end, through channels of one slot? | a request and a stream of up to 3 responses, all capacities 1, transport may stop | 113 thousand |
| `layout` | Does the tree stay well formed, and does no step lose a block? | 3 blocks, 5 sets of operations, 3 steps each, 1 deletion awaited | 17 thousand |
| `object_sync` | Do page and backend agree again when all is quiet? | 2 new blocks, versions to 12, 6 sets of events, handlers that read, write and publish in any order | 1.13 million |
| `electron_shell` | Does every window show a view of its own, does only what was closed go, does all come to rest? | 2 windows, 4 workspaces, 6 tabs, a cache of 1, sets of events; 4 events of the application | 22 thousand |
| `web_link` | Does the broker end with the page's subscription, and is no answer lost or given twice? Does the reorder queue let out everything that was buffered? | 2 losses, 3 changes of the subscription, a call and a stream, 1 continuation; 2 sessions and the empty one, numbers 0..3, 3 arrivals, capacity 2 | 349 thousand |
| `front_end` | Does each part of a page show what is stored, whatever overtakes what? | see `MCFrontEnd.cfg`: 2 pages, blocks or terminals, 2 to 6 events of each kind | 672 thousand |
| `window_queue`, `durable_mark` | see below | those of `electron_shell` and of `front_end` | stop at the violation |

The properties, run by run:

* `cirbuf`: NoLostWakeup; ImplementsLog, the refinement of `CirBufLog`.
* `stream_manager`: SenderNotForgotten (drainCond loses no wakeup), PacketsJoin
  (each packet begins where the last one ended), LiveJoins (`AttachOutput`).
* `durable_gap`: FileInOrder (the file's bytes are in order, what it lacks is no
  more than the recorded gap). `durable_reconnect`: NothingLost (no gap is
  recorded unless the buffer is too small, a main server died, a stream was
  superseded while its loop held output, or an error at the end of the PTY cut
  output off), StreamEnds (liveness: the output and its end are recorded, unless
  one of the last two happened).
* `rpc`: CallsReturnWhileOpen (liveness).
* `layout`: TreeKept, StepsKeep (an action property). `object_sync`: BlocksAgree,
  ClosedStaysClosed (an action property), Settles (liveness).
* `electron_shell`: WindowsShow, OnlyClosedWindowsGo (an action property),
  ComesToRest and QuitEnds (liveness).
* `web_link`: SubscriptionHolds, AnswersKept, TimedCallsEnd (liveness); of the
  reorder queue, BufferedComesOut (liveness).
* `front_end`: one invariant per part, named for what it says: ShowsFile,
  ControllerShown, ShellShown, MenuTells, FocusAgrees, KeysArrive, BarsAgree,
  OpenIsListed, EditorTells, BadgesSettle, NamesAgree, TilesAsShown, AppKeysHold,
  PathLaws, ClipTells, SettingsTell, QuakeHolds, MenusTell.

Two runs show where the code departs from what it says of itself. `durable_mark`:
comments in both places say that the page's getBlockTermDurableAtom
(global.ts:275) and the server's IsBlockTermDurable (jobcontroller.go:1262) are to
be kept the same; DurableKeptUpToDate fails, since the server returns false for
every block without a job before it looks at connection and settings
(jobcontroller.go:1280). `window_queue`: a comment says of a window's actions that the first of its queue
is "in process" (emain-window.ts:566); InProcessMeansRunning fails, since
a switch of workspaces that changes nothing leaves the loop with `return`
(emain-window.ts:616) and its entry in the queue, where later ones wait for good.

### Why these bounds are enough to be interesting

* Every capacity is at least as small as what flows through it: the buffer wraps
  (6 bytes through 3 slots), windows are smaller and larger than the ring, the
  response channels hold one of three responses, the queue is full with two items
  of three, the cache of views holds one of six tabs. The boundary cases are
  reached, not approached.
* `durable_gap` has three streams, because an error of a gap that is recorded
  twice shows at the second reconnect, and a link may be lost in the middle of
  the first. Its buffer is smaller than the stream so bytes are dropped.
  `durable_reconnect` has them equal, so that nothing may be dropped and the end
  has to be reached.
* In `durable_reconnect` the links are lossy in the sense of being lost, and
  reorder what they carry; in `durable_gap` they are FIFO and the crash is added.
  The product of the two is too large for one run.
* A hazard of the front end takes two events that overtake each other, and a
  third that comes between; every part has at least as many events of the kinds
  that can race. Where a part's product is too large, its run takes one set of
  kinds of events at a time (`Scenarios`, and the conditions of MCNext in
  `MCFrontEnd`); a set holds the kinds that read what the others write.

### Restrictions that are part of a run

Some constants switch off a behaviour the code has, because the property is known
to fail with it. They are named so the runs and the theorems say so.

* `Lagging` (FALSE): when a stream supersedes another one, the older output loop
  holds no bytes it has read and not appended, and no acks of the old link are
  still queued. If it does, a reconnect reads the file's size while the previous
  loop is about to append, and FileInOrder fails: file plus gap run ahead of the
  program. Only the runs are restricted: the theorems except it by the history
  variable `lagged`.
* `Reorder`: with reordering *and* gaps a packet can be left waiting (section 7),
  so `durable_gap` is FIFO.
* `MaxCrash` is 0 in `durable_reconnect`: bytes are acknowledged before
  they are on disk, so a crash may lose some, and the reconnect records them as a
  gap if the buffer has let go of them. NothingLost excepts it by counting crashes.
* `Calm` (`WebLink`): a subscription is not sent directly while older ones wait
  in the queue (ws.ts:164). If it is, the older one arrives last.
* `CalmTabs` (`TabBar`): tabs are made and closed when no order is under way.
* `Commands` is empty in `rpc`: commands share one entry of RpcMap (section 7).

Other races are in the runs, and what they break is excepted by a history variable:

* A *full* asynchronous buffer drops bytes between the calls ClientConnected makes
  (streammanager.go:113): the position it answers is behind the head by
  `overrun`, and the first packet leaves a hole of that size, for which the reader
  waits. PacketsJoin says that it is never more or less than what was dropped.
* A handler of the backend publishes the layout it wrote after another published
  a newer one (dshserver.go:273): the page drops the older, and an action that
  was only in that is `unheard`; BlocksAgree says that nothing else is missed.
* The broker makes subscriptions in any order (dshrpc.go:437, dps.go:75): `crossed`
  says that an earlier one was made after the last.
* A controller that was stopped may publish later than the one that replaced it
  (shellcontroller.go:92-115, 482-489): ControllerShown says that the view shows
  the one that told last.
* A badge's events reach page and store in different orders (dps.go:226): `parted`.
* A workspace is announced before it has the name that lists it
  (pkg/dcore/workspace.go:67-71) and not again: MenuCurrent counts it in `unheard`.
* A page passes over a tab's name that comes with or after a newer one
  (wos.ts:272): `passedOver`.

`CHECK_DEADLOCK FALSE` is set wherever the system may rest: all bytes sent, all
calls ended, the queue closed, the session over, the events used up.

## 4. Fairness

* `CirBuf`: the writer's goroutine runs. Nothing is assumed of whoever consumes.
* `StreamManager`, `AttachOutput`: safety only.
* `DurableStream`: each goroutine (readLoop, senderLoop, each output loop, the
  reconnect, the job manager's handlers) runs when it can, and what was sent on a
  link that stays up arrives; the Go scheduler and TCP justify this.
  `DsReconnectSpec` adds that a lost link is eventually reconnected, which the
  code does on the user's request or at startup; it is used only to say that the
  stream ends *if* the main server comes back. Losing the link is never fair and
  is bounded by the number of streams.
* `DshRpc`: runServer and the callers run, contexts expire, timers fire. The
  transport and the peer are not fair: a call has to return without them.
* `QuickReorderQueue` (in `web_link`): items grow old and a timer that is set fires. The consumer
  is not fair.
* `ObjectSync`: answers and events that are on their way arrive, and delayed
  saves are made. The user is not fair.
* `ElectronShell`, `AppLifecycle`: what is awaited comes, timers fire; nobody has
  to open, close or quit anything.
* `WebLink`: a timeout that was set fires, and its answer is taken. Neither the
  link nor the backend is fair: a timed call has to end without them.
* The parts of a page: safety only.

## 5. What is proved

TLAPS checks the following for all values of the constants: sizes, windows and
the bounds on streams, links and connections are arbitrary naturals, pages and
names arbitrary sets, with no finite instance chosen. Proofs take one step per
action. Every invariant used was checked by TLC on an instance before it was
proved.

`CirBufProofs`, from SizeAssumption, ByteAssumption and BoundAssumption:

* TypeCorrect, WriterNeverForgotten (NoLostWakeup), OneWriterNeverPanics, and
  RingImplementsLog: every behaviour of the ring is one of `CirBufLog`, under the
  mapping head = totalSize - count, total = totalSize, and at each retained
  position p the byte `buf[(readPos + (p - head)) % Size]`.
* The inductive invariant is TypeOK, RingShape, NoLostWakeup and NeverPanics
  together. That a block never panics is not inductive alone: it needs that
  waiterChan is empty while the writer runs, which NoLostWakeup says, and that a
  registered writer has no room needs the window and the count to be related.
  The refinement rests on facts about `%` (ModRange to ModDistinct: positions of
  different retained bytes are different slots) and on two lemmas about the
  array: dropping k bytes shifts the sequence (DropKeeps), storing one extends it
  (StoreAppends).

`StreamManagerProofs`, from SizesAssumption:

* SmTypeCorrect, SenderNeverForgotten, EndComesLast (TerminalLast),
  ModeFollowsConnection, PacketsAlwaysJoin, OnlyAcknowledgedBytesLeave.
* The inductive invariant SmInv adds what has to be remembered between the steps
  of a goroutine: how far the head is from the one a call of ClientConnected read
  (Joins, in ConnectionInv), that the stream is not connected
  during the call, that readLoop has bytes in hand while it writes or waits
  (WriterInv), and SenderInv, which is SenderNotForgotten without the condition
  that no call is under way. PacketsJoin is not inductive without Joins: a
  full buffer that is asynchronous may drop bytes between ConnectStart and
  ConnectInstall, which `overrun` counts: the first packet of a connection begins
  beyond the position that was answered by exactly that much, and every other
  packet where the one before ended. There are no hypotheses on behaviours.
* LiveAlwaysJoins (LiveJoins), of `AttachOutput` and its `AttachSpec`, for any
  number of writers, events and resyncs, from AttachAssumption (Nothing is not an
  event): between the cutoff and the flush, the buffered events that are late are
  those taken after the cutoff (BufferedLate), so the flush shows exactly them,
  whatever was buffered before; from then on the view is the snapshot and what was
  taken since, and before it the one event that the handler held at the cutoff
  if it wrote it after the flush (ShownLive). Which chunks a sequence has at some
  places (ChunksAt) is a recursive function: that it exists, and what it is at the
  next place, is proved by induction (UpToExists, UpToSame).

`DurableStreamProofs`, without hypotheses on behaviours, for any number of lost
links, streams and crashes of the main server:

* FileAlwaysInOrder (FileInOrder) and ReaderAlwaysContinues, each until a stream is
  superseded whose loop still held output (`lagged`).
* The inductive invariant DsInv has two halves. LinkInv is about the job manager
  and the link: streams are numbered upwards, and nothing of a stream the job
  manager was not yet told to start is in a packet, a reader or the buffer of one
  (Numbered, NoDataSent, NoDataRead): otherwise a new stream could receive bytes
  before its position is known. FileInv is about the main server: the file, what
  of it is on disk, each loop's bytes in hand, each reader's buffer and what a
  reconnect has read of the file are each in order and continue one another
  (LoopsInOrder, RestartInOrder, Consecutive).
* The work is in ProcessOOO, which takes packets out of a set in rounds. Its
  rounds are shown to end, by induction on the size of the set, with a reader that
  continues the one before (Continues).
* The exception is needed: TLC finds FileInOrder violated with Lagging (section 3).
* NothingEverLost (NothingLost): whatever links are lost and however often the
  main server reconnects, a gap is recorded only if the program writes more than
  the buffer holds, a main server died (`crashes`), a stream was superseded while
  its loop held output (`lagged`), or an error at the end of the PTY reached the
  loop before output did (`cut`). TLC also explored the three together, with
  reordered packets, on an instance too large to be a run.
* LossInv, which holds as long as none of the four has happened, strengthens DsInv by EndInv (every packet lies in the stream, one that
  ends it ends where the PTY ended), CurrentInv (the bytes between the file and
  the position of the job's reader are exactly those its loop holds and its buffer
  has) and PosInv: no position the job manager has let go of, was told, is told or
  is asked for is beyond that of the job's reader. A gap is recorded exactly when
  the job manager's head is beyond the file, so this excludes one.
* Each of the four marks a real loss: a crash loses bytes that were acknowledged
  and not saved, and an end by an error makes `Read` drop what is buffered
  (streamreader.go:161).

`WebLinkProofs`, for any calls and scopes and any number of lost sockets:

* SubscriptionAlwaysHolds (SubscriptionHolds), under Calm. In LinkInv the last message about
  the subscription that is on the socket or in the queue states the current one,
  and without one the broker holds it already or its last received one is that,
  and was or will be made (Makes), in whatever order the broker's goroutines run;
  every reconnect puts one there.
* AnswersAlwaysKept (AnswersKept), without hypotheses. For the answers, AnswerInv
  counts: requests of the backend that are on their way or in hand, and answers
  in the queue, on the socket or arrived, are together as many as were asked, and
  fewer only after a lost socket. For the streams, CallInv has RouteInv, that a
  request is in one place at most (queue, socket, backend) and that the router
  knows the way back while anything of it is to come, and StreamInv: the data the
  consumer was given, the data in the generator's queue and the data on its way
  make up what was sent (Whole), or else the socket was lost and the last message
  will never come (Cut), so that the stream cannot end as if complete. Neither
  half is inductive without the order of what is queued: nothing follows the last
  message (NoneAfter).

`PageProofs`, without hypotheses on behaviours:

* NamesAlwaysAgree: the inductive part is that a page which does not show the name
  it has will get another one, which React then writes, or passed over one.
* EditorAlwaysTells: while the user waits for each answer, at most one read or
  write is under way and it is of the file that is shown.
* BarsAlwaysAgree, whether or not CalmTabs is set: the last workspace on its way to a page is the stored one, and
  an order that is shown and differs is under way or will be sent when its timer
  fires.
* FocusAlwaysAgrees, from FocusAssumption (Body is no block): before a commit the
  element with the focus may be in another block, but then a click is under way
  (clicked) or the focused node has changed since the last commit (seen).
* KeysAlwaysArrive: of the states on their way to a page the last one is right
  for it (Ends), so that whatever timers set, the page ends with the right state;
  and a press without an outcome is under way to one page, at one place in its
  queue.
* MenuAlwaysTells: the block's updates, taken in turn, lead from the page's copy of
  the meta to the stored one (WillHave); the options taken by subscription are
  those of the copy, the others those of the last commit.
* BadgesAlwaysSettle, from BadgesAssumption (the tab has a block): of a block or tab
  that is not parted at most one event was sent to one of the page and the store and
  not yet to the other, and but for that one the events on their way to the page and
  those on their way to the store lead the two badges to the same one (Together, over
  any number of events, with events of other blocks in between and in any order); a
  badge is new when it is set (Fresh), so that what an effect has seen on a block
  cannot come back to it by an event that was under way; and what it saw is being
  cleared (Attending).
* OpenAlwaysListed, from FilesAssumption (the files are a tree with its root
  first): unless the initial nodes were replaced, a node is there only when its
  directory was listed, one that is loading is so by one call, and one that is
  open is not unloaded (NodeFits); a listing puts new nodes only where none is,
  so one that is being listed stays as it is until its answer. The rows that are shown are a recursive
  function of the node, which the proof never expands.
* AppKeysAlwaysHold, from AppBlocksAssumption (there are finitely many blocks), on
  either platform and for any blocks. Two entries can both fit a key only if they
  ask for the same modifiers, since a key that goes down has all names of what is
  held; so the table is split by modifiers, and for each set the entries are told
  apart by their keys (PlainDoes to CodeDoes), where a key with a code has no
  name and the other way round (OneOf). The tab goes with its last block because
  what was closed was chosen on the page's copy of the tab (TabHolds): as long as
  the copy was right at every close (~hasty), a block that goes leaves another.

`TermProofs`, without hypotheses on behaviours, each from the specification of its
module alone (`TermShellSpec`, `CtlSpec`, `TermOutputSpec`, `SettingsSpec`,
`ClipSpec`):

* ShellAlwaysShown: the reports on their way lead from a state of the shell that
  the icon shows to the one it is in, and the updates on their way lead from the
  stored info to one that fits it (ShellInv). Reports that tell only a part of the
  state keep the rest right, so what is shown has to fit before them; one that
  tells all makes it right again (ReportFits).
* ControllerAlwaysShown: the status with the newest stamp is that of the controller
  that told last, and the view has it, will be told it or is still reading; what
  was told before cannot replace it. A controller that was removed has a restart
  under way that will make one. For the job, what bears the last stamp tells how the job is once
  no change is left to be reported (LastStampTells), and is on its way or shown
  (LastStampComes).
* AlwaysShowsFile: of every terminal, the one shown and those disposed of, the
  text with the writes that are not parsed yet is the file up to some chunk, each
  chunk once (HasRead); of the one shown, that chunk is the last whose event has
  arrived, or will be when its load goes on (ShownFits). SavesFit keeps the cached
  screen: `SetBlockTermState` writes the text and then the offset, so between the
  two the text fits the offset that will be written. ShowsFile is about the
  terminal shown at the end only, but a disposed one can still save its screen, so
  the invariant has to hold of all of them.
* SettingsAlwaysTell, from SettingsAssumption (the settings there are, with numbers
  as values) and MetasAssumption (the keys that are merged are sequences): an
  option reaches the terminal by its subscription, by a render that is due, or
  because the terminal is about to be made anew; what none of the three follows is
  in `unseen` (OptionsInv). A terminal is made, or about to be, for a change that
  is counted (CausesInv). The WebGL addon, its listener and the icon change
  together, also when the context is lost (GlInv). Of the merged meta: a section that takes
  a key of the prefix away and is not itself of the prefix takes the whole
  prefix away (SectionCovers), which is the one case MergeAgrees excludes.
* ClipAlwaysTells (ClipTells), from ClipAssumption (what clipboards and buffers are
  made of), for any number of pastes, inputs, views and readings. Of each paste
  that was begun a first part is dealt with (Dealt): what the shell got are values
  of that part in their order, all of them unless the paste was broken off, and
  what is still to be pasted is exactly the rest (Gets, Rest). A match whose 50 ms
  run belongs to a search that has the focus or was left in a hurry (CopyInv);
  what had an effect was written, so that what is written next is newer
  (ReplayInv); what the transaction remembers came in it (PaintInv). ReadsRight is
  about no step: for every clipboard the two readers agree with what is wanted
  (ReadAsWanted, ReadAlike), and for every buffer the loop over its rows gives the
  lines that begin where no row continues the one before (TextIsWanted), both by
  induction along the sequence.

`WindowProofs`, without hypotheses on behaviours, from `QuakeSpec`, `AppMenuSpec`
and `ShellSpec`, and from what the constants are (the displays and places of
windows are rectangles, the keys are those `doraKeyToElectronKey` knows, 0 is no
page, an item of a menu is not called "none", an earlier session left windows of
one tab or two):

* QuakeAlwaysHolds: only one toggle is under way, so what it read of the window
  before an await is still so after it unless the window was closed or the change
  came too late (Relies); the fullscreen that is to be restored is one the hotkey
  took away, unless the window went without it (`strayed`). What is registered
  follows from what was registered last (HotkeyInv), and where a window is placed
  from the arithmetic of one display at a time.
* MenusAlwaysTell: of the builds under way the one begun last, or the menu it set,
  has the number of windows and of workspaces that there are once no event is
  left (BuildInv), but for workspaces that got their name after their event
  was read (`unheard`). A context menu is asked for, open or told at one place only
  (OnceEach); what was clicked is what the message about it says (ClickOf); its
  end is told when nothing of it is under way, unless another menu came across
  (CloseOf); and the handlers a page has are those of a menu whose end it was not
  told (PageKnows). Items are apart because an accelerator has one owner (Owner).
  Of the zoom factors sent to a page the last one is the one that is set (ZoomInv).
* The proof changed what MenuCurrent excuses. It used to compare a build that sets
  its menu with the one it replaces, so when three builds came in in the order 3,
  1, 2 nothing was excused although the menu was not that of the latest, as TLC
  then showed with three builds. It now compares with the latest build that set its
  menu (`newest`).
* WindowsAlwaysStay (OnlyClosedWindowsGo): in ShellInv, a job that is to delete a
  window in the backend is for a BrowserWindow that was closed for good (JobOk), and
  no step, of a window, of a job, of a page or of the user, gives a BrowserWindow
  another number, opens it again or takes deleteAllowed back (Keeps); so what the
  "closed" handler decided before it awaited the backend is still so afterwards. With
  the proof of each step goes what it can delete (OnlyGo). Evicting the cache is a
  fold over the cached tabs, whose steps are shown to keep the windows one by one.
* This proof changed its property too. It used to excuse a last tab only while a
  window is open that closes it, and a closed window only if it could be closed
  without a question. TLC refuted the first by a relaunch while the last tab is
  closed, the second by a window destroyed after its workspace was deleted. Both are
  what the code is meant to do, and MayGo now names them.

`DataLemmas` holds what the proofs share: removing from and appending to a
sequence, how often members of a set occur in one, numbers in a row (Span),
queues whose members lead from one state to another (Path), and induction over sets of numbers: the library's induction theorems
take an operator as a parameter, which the provers cannot instantiate, so
statements by induction are about the set of numbers that satisfy them.

## 6. What is only model-checked

* Liveness: StreamEnds, CallsReturnWhileOpen, BufferedComesOut, Settles,
  ComesToRest, QuitEnds and TimedCallsEnd rest on fairness and so on ENABLED,
  which the prover does not handle.
* What recursive operators compute: `LayoutTree`, `LayoutModel`, `TileGeometry`,
  `ObjectSync` and `IJson` work on trees with RECURSIVE operators, and
  a module that reaches one cannot be proved about: TreeKept, StepsKeep,
  BlocksAgree, ClosedStaysClosed, TilesAsShown and PathLaws.
* Not proved: WindowsShow of `ElectronShell`, which holds in the scenarios of the run
  and not of all (section 7, "Windows and application"), so that a theorem needs the
  races left out to be named first.
* TLC takes the first arm of a CASE whose guard holds, the provers may take any:
  where a definition that is proved about has several, they exclude each other.
* DsTypeOK and WindowHolds of `DurableStream` are stated for the reader and
  checked by no run; DoneMeansRecorded, ErrorMeansRecorded, NeverAhead,
  NoReadyPacketWaits and DetachedProgramRuns there describe what the code does not
  guarantee in every case (section 7).

## 7. Deviations

Races the code loses and other behaviour a reader may not expect. Each is stated
here with its line and excluded from a property by name or by a constant; what
the properties say holds without it. Definitions mentioned here that no run
checks are kept in the modules because they say precisely what fails.

### The Go side

* Bytes dropped while a client connects (`overrun`), FileInOrder without `~Lagging`:
  section 3. A loop that finds itself superseded throws away bytes that were
  acknowledged (jobcontroller.go:786), so DoneMeansRecorded and NeverAhead need
  `~Lagging` as well.
* DetachedProgramRuns (`DurableStream`): a lost link leaves the stream manager
  connected; its window fills and the program stops until somebody reconnects.
* ErrorMeansRecorded: when the PTY ends with an error, `Read` returns it before
  the data that is still buffered (streamreader.go:161). What was acknowledged
  and not yet read is lost.
* NoReadyPacketWaits holds while no gap occurs: UpdateNextSeq
  (streamreader.go:189) does not look at the packets that wait for their turn,
  and StreamEnds can fail with it.
* NothingLost excepts crashes: a Reader acknowledges what it
  receives (streamreader.go:79), before it is on disk.
* CallsReturn (`DshRpc`): a request under way when the transport closes never
  returns, not even at its timeout. NoCallerPanics: a call that has passed the
  check of ServerDone may find OutputCh closed (dshrpc.go:384).
* TimeoutMeansExpired: commands register under the empty id (dshrpc.go:477), so
  the timeout of one reaches another.
* EndMeansComplete: a stream whose channel stays full is ended by closing it,
  which the consumer cannot tell from the end (dshrpc.go:861-879).
* LastMeansEnded: the last response is delivered and the call unregistered in
  two steps (dshrpc.go:445), so a quick consumer reads an error after it.
* NextNotHeld (`QuickReorderQueue`): after a timeout nextSeqNum may reach a
  number that is still buffered (quickreorderqueue.go:210); it comes out with the
  next timeout.
* ShownOnce, ViewIsOutput (`AttachOutput`): output during the snapshot is shown
  twice or never.
* A flush of the file store always succeeds in `DurableStream`; in the code one
  that fails more than three times drops what it should have written
  (blockstore_cache.go:338).
* On a live link `SendData` may fail and lose a packet (mainserverconn.go:48);
  `DurableStream` does not model it.
* Nothing publishes "connchange", so the connection statuses of a page stay at
  their defaults (global.ts:587-627, not modelled).

### The link of a page

* A direct subscription is overtaken by a queued one (ws.ts:164; `Calm`), queued
  messages by newer direct ones (ws.ts:228).
* An untimed call that is outstanding when the socket is lost never returns
  (dshrpcutil-base.ts:66); a message of more than 5 MB is dropped (ws.ts:216); no
  reconnect is tried after the 20th (ws.ts:113).
* The value of wshRpcCall's `next(true)` is consumed by `yield null`
  (dshclient.ts:69), handleDoraEvent iterates over the live array (wps.ts:136),
  and doraEventUnsubscribe returns at the first subject it does not find
  (wps.ts:92).

### Windows and application

* createNewDoraWindow during the relaunch of the startup makes a window twice
  (emain-window.ts:854-890); so do overlapping relaunches, and two requests for a
  new window when none is open: both open the client's first window again. One that
  comes while a window that was closed for good is still being deleted opens that
  window again, on a workspace that goes; and several switches can leave two windows
  on one workspace. The scenarios of `electron_shell`, and so WindowsShow, are
  without these; OnlyClosedWindowsGo is proved with them. A double click opens a
  workspace twice (401-422). numWindows is read before an await (321).
* A window closed or relaunched while a tab loads leaves a view that nobody owns
  (emain-tabview.ts:266); a late updateactivetab overrides a newer tab
  (emain-window.ts:546, emain.ts:112); a timeout of the initialization leaves the
  tab "initialized" (436-463, 500); the 'destroyed' event of an old view deletes
  the cache entry of the new one (emain-tabview.ts:166); a view that is active
  when it should be removed is refused, though the removal was due (657).
* A createtab or closetab that waits is overwritten by the next action (547); a
  switch of workspaces without effect leaves the queue stuck (616; `window_queue`).
* An error of spawning the backend leaves the application without a window
  (emain-dorasrv.ts:108); the updater's "ready" is overwritten by "checking"
  (updater.ts:85, 203).
* Quake window: quakeRestoreFullscreenOnShow stays set when the hidden or leaving
  window is closed or shown by "activate", and a later showing of a window that
  was never fullscreen makes it so (emain-window.ts:987, 1048; emain.ts:353-363;
  `strayed`). Changes that take more than 2 s are excluded (`late`). A focus() on
  a window closed meanwhile throws. A shortcut that was refused is not tried
  again for the same key.
* Menus: a build that comes in after a later one wins (emain-menu.ts:383; `newest`);
  a build begun
  while a window is closed and another opened within 50 ms keeps the wrong count
  (emain.ts:272; `flapped`); changes of the configuration build no menu. A new
  workspace is listed once it has name, icon and color, and its event is published
  before (pkg/dcore/workspace.go:67-71, 430), so the menu may lack it until the
  next event (`unheard`); an update of a workspace to an empty name is not modelled. The null
  message of an earlier context menu's end clears the handlers of a newer one; a
  menu shown by a page that is not the active view is told to another page
  (`crossed`), or to nobody. convertMenuDefArrToMenu ignores `visible` and
  `sublabel`. The handlers of webview-focus and reinject are never called.

### Layout, tiles and objects

* The focus stack pops entries of deleted nodes (layoutModel.ts:905); a batch of
  clear and replace throws (394); an ephemeral node before the mount throws
  (1321), as does getNodeByBlockId (1495); a drop, swap or resize that is stale
  throws. A block asked for beside or in place of one that was closed meanwhile
  throws and is shown nowhere (global.ts:358, 381, 421); replacing or splitting
  an ephemeral block leaves the new block in no layout. leafOrder sorts as
  strings (1572). resizeNode refuses sizes above 100.
* The backdrop races with the pointer (TileLayout.tsx:148-166); a second handle
  moved within 30 ms of the release of the first loses the first resize; a
  container that is resized during a drag leaves its ratio stale;
  switchNodeFocusInDirection compares points relative to the container with
  points relative to the window.
* Handlers that publish in another order than they wrote lose an action or leave a
  closed block shown (dshserver.go:203-275, wos.ts:272; `unheard`, `inOrder`).
* The answer of a fetch overwrites a newer object (wos.ts:158); saves overlap
  (layoutModel.ts:591); the clean-up deletes a block that is still queued (411).

### The terminal

* heldData is never written, so output between the fetch of the file and the end
  of loading is lost (termwrap.ts:282, 482, 488); a chunk of the fetch whose event
  comes later is shown twice; a truncation does not reset ptyOffset (480); the
  offset is too low for a file whose ring wrapped; a screen is saved in two steps
  that overlap; the idle loop of a disposed terminal runs on (605-612);
  multiInputCallback is not set again when the TermWrap is made again
  (term.tsx:222-232).
* A change of the status between the first answer and the subscription is missed;
  the guard of restarts lasts 300 ms and restartSessionWithDurability has none; a
  destroy that failed leaves no shell until Enter; a BlockJobStatus call that
  failed leaves the status unknown until the next event. A controller that was
  stopped while it started runs on without the block (blockcontroller.go:267), and
  the "done" of its end can hide that the next one runs (shellcontroller.go:482);
  ControllerShown excepts that by naming the controller that told last.
* Reports of the shell during loading are passed over; "R" leaves the stored
  state, which a reload shows (osc-handlers.ts:357); SetRTInfo and SetMeta calls
  may overtake each other. The menu throws when it is built before the terminal
  exists (term-model.ts:818).
* The match of a search is copied, with copy on select, when the search is closed
  or the focus leaves within 50 ms (termwrap.ts:386-396; `hurried`). Pieces of a
  paste while the terminal loads, or after it was made again, are lost though
  later ones arrive; one image that fails drops the rest; the pieces of two
  pastes interleave. Keys that send a newline are not mirrored, though the header
  says that input is sent to all connected terminals (term-model.ts:150).
* Settings: the two sides differ on whether a block is durable (`durable_mark`,
  section 3); mergeMeta with a prefix ignores the deletion of its
  section, and nothing imports it; the font family of the settings beats the
  connection's; a scrollback of 0 is ignored; scrollback and macoptionismeta of a
  block or connection wait until the terminal is made again, which a change from
  A to B and back does needlessly.

### Focus, keys, tabs and others

* With the search open in the focused block the keystrokes stay in another one
  (term-model.ts:494). A change of the focused node in the same commit as a click
  can go to and fro (block.tsx:116-133, excluded). Nothing is focused again when
  a modal closes.
* Main's chord mode that comes late, or outlives the page's, swallows a key; a
  modifier ends it. A second Cmd:w before the copy of the tab is updated closes
  its last block and leaves an empty tab, or closes a tab that shows two blocks
  (ctxupdate.go:127; `hasty`). keymodel.ts:601 guards a case that cannot occur.
* An order of tabs overwrites tabs made or closed meanwhile (tabbar.tsx:412,
  pkg/dcore/workspace.go:404; `CalmTabs`). handleMouseUp throws when the dragged
  tab was closed and leaves its listeners. Escape in the top bar renames to the
  old name cut to 14 characters; a refused name stays shown, and so does a name
  typed where a page passes over the next one on the way back to the one it knew
  (`passedOver`). The tab bars and the terminal's menu take every update in turn;
  that one is passed over is modelled for names only.
* A directory of the tree view that failed cannot be collapsed or tried again; one
  expanded before the initial nodes were replaced is shown empty.
* Config editor: the answer of a save overwrites what was typed meanwhile, or is
  put under the file selected meanwhile; a failed read leaves the old file
  selected without its text; "presets.json" is never restored and its metadata
  overwritten; discardChanges is not reachable.
* Badges: loadBadges is awaited before the subscription (dora.ts:164), so events
  in between are missed; and Publish (dps.go:226) sends an event to each subscriber
  in turn, without a lock and each in its own goroutine, so two events of a badge
  that are sent at the same time may reach the store and the page in different
  orders, which can leave the page with another badge than the store for good.  Both
  are in the model; the blocks and tabs they happened to are in `parted`, and
  BadgesSettle promises of those only that what is looked at is cleared.  Two equal
  events that are sent at the same time count as one.
* ijson: `del` of an index beyond an empty array leaves the array; jsonDeepEqual
  holds an empty array and an empty object equal (util.ts:106); nothing imports
  the commands.

## 8. Not modelled

PROJECT.json lists every component with its reason. In short: I/O adapters,
parsing, rendering, generated code and the operating system's side of processes
and SSH are out of scope.

Parts left out of the modelled files: the request-handling side of `dshrpc.go`
and SendCancel; SetNextSeqNum of the reorder queue, which only tests call; of the
job manager, starting and terminating the program; of the job controller, the
reconcile and prune workers; of `dsh attach`, input, panning and rendering; of
the front end, pixels beyond the tiles, styles, animations and the widgets around
what is modelled; "Toggle Widgets Bar"; the panel layout
(`workspace-layout-model.ts`), which workspace.tsx:55-64 leaves without effect;
the Clipboard API branch of extractAllClipboardData, which paste events do not
reach.

## 9. Plan

Next to be modelled, most important first: the main server's router with the
links of front ends, `dsh` and job managers (hazards at dshrouter.go:751, :800),
with the abstract specification that a message for a bound route goes to the
link bound last; `SendData` that fails, and the job controller's status of a job;
`streamwriter.go` composed with the Reader; the file store's cache, which
implements a map of files unless a flush gives up (blockstore_cache.go:338); the
work queue and the event broker; windows, workspaces, tabs and blocks in the
database; the block controllers.

Next to be proved: WindowsShow of `ElectronShell` with the races of section 7 named.

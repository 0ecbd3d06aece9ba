------------------------------ MODULE TermControl ------------------------------
(***************************************************************************)
(* The process behind a terminal block and what the block's view knows of  *)
(* it (frontend/app/view/term/term-model.ts, termwrap.ts, term.tsx;        *)
(* pkg/blockcontroller): the controllers the backend makes one after       *)
(* another, each with goroutines that start its process, wait for its end  *)
(* and stop it, and that stamp and publish a status each; the view, which  *)
(* is told by an answer and by events that overtake each other; the ways   *)
(* it starts and restarts the process, which may overlap and fail half     *)
(* way; what its header offers, and the status of a durable block's job,   *)
(* which the backend stamps before it reads it.                            *)
(*                                                                         *)
(* The controllers are ShellControllers.  A stamp is a time in             *)
(* milliseconds: no two controllers take the same one.  Nothing changes in *)
(* the moment between the answer to a new view and its subscription.       *)
(***************************************************************************)
EXTENDS Integers, SequencesExt

CONSTANTS
    MaxTasks,    \* bound on commands under way at once
    MaxControllers, \* bound on the controllers made
    MaxFails,    \* bound on commands that are not answered
    MaxViews,    \* bound on the views made
    MaxJobChanges \* bound on the changes of the job

VARIABLES
    shells,     \* the controllers ever made: [state: ProcStatus, code: ProcExitCode, conn,
                \*  proc: what the goroutine that runs its process is at, due: updates made but not yet stamped]
    ctl,        \* [reg: the one registered, or 0; last: the one that stamped last, or 0; said: the status it stamped]
    view,       \* [count: views made, sized: hasResized, version, state, code: shellProcFullStatus, busy: isRestarting,
                \*  asked: is GetControllerStatus under way?, conn: the block's connection, lastConn]
    told,       \* statuses on their way to the view, in any order
    tasks,      \* commands under way: [cmd, step, of: the controller it stops, conn: the block's as it was read,
                \*  force, awaited: does a page wait for it?]
    fails,      \* commands that were not answered
    job,        \* the backend's job: [status, changes, due: reports to be sent, stamp, reads: stamped reports]
    jobView     \* [version, status: blockJobStatusAtom, asked: "no", "yes" or "failed", told: reports on their way]
ctlVars == <<shells, ctl, view, told, tasks, fails, job, jobView>>
jobVars == <<job, jobView>>

NewView(n, conn) == [count |-> n, sized |-> FALSE, version |-> 0, state |-> "init", code |-> 0, busy |-> FALSE,
                     asked |-> TRUE, conn |-> conn, lastConn |-> conn]
NewJobView == [version |-> 0, status |-> "none", asked |-> "yes", told |-> {}]
Open == view.count > 0

----------------------------------------------------------------------------
(* A controller and its goroutines *)

Killed == 1
NewController(force, conn) ==
    [state |-> "init", code |-> 0, conn |-> conn, proc |-> IF force THEN "forced" ELSE "asked", due |-> 0]
Status(n, c) == [version |-> n, state |-> c.state, code |-> c.code]

\* Controller k becomes c, which goes on holding its lock until its status is stamped and sent.
SendsUpdate(k, c) ==
    /\ shells' = [shells EXCEPT ![k] = c]
    /\ ctl' = [ctl EXCEPT !.last = k, !.said = Status(ctl.said.version + 1, c)]
    /\ told' = told \cup {Status(ctl.said.version + 1, c)}
TurnsTo(k, c) ==
    /\ shells' = [shells EXCEPT ![k] = c]
    /\ UNCHANGED <<ctl, told>>

\* run: under the run lock it looks whether there is something to start.
RunBegins(k) ==
    /\ shells[k].proc \in {"asked", "forced"}
    /\ TurnsTo(k, [shells[k] EXCEPT !.proc = IF @ = "forced" \/ shells[k].state = "init" THEN "starts" ELSE "none"])
    /\ UNCHANGED <<view, tasks, fails, jobVars>>
\* The process is made, or cannot be.
ProcessStarts(k) ==
    /\ shells[k].proc = "starts"
    /\ \/ TurnsTo(k, [shells[k] EXCEPT !.proc = "runs", !.state = "running", !.due = @ + 1])
       \/ TurnsTo(k, [shells[k] EXCEPT !.proc = "none"])
    /\ UNCHANGED <<view, tasks, fails, jobVars>>
\* It ends, which is signalled to whoever waits to stop it.
ProcessEnds(k) ==
    /\ shells[k].proc = "runs"
    /\ TurnsTo(k, [shells[k] EXCEPT !.proc = "ended"])
    /\ UNCHANGED <<view, tasks, fails, jobVars>>
\* The goroutine that waited for it makes its own update of the status, with its exit code.
WaitLoopDone(k, code) ==
    /\ shells[k].proc = "ended"
    /\ TurnsTo(k, [shells[k] EXCEPT !.proc = "none", !.state = IF @ = "running" THEN "done" ELSE @,
                                    !.code = code, !.due = @ + 1])
    /\ UNCHANGED <<view, tasks, fails, jobVars>>
\* UpdateControllerAndSendUpdate: the status is stamped after the lock was let go.
UpdateSent(k) ==
    /\ shells[k].due > 0
    /\ SendsUpdate(k, [shells[k] EXCEPT !.due = @ - 1])
    /\ UNCHANGED <<view, tasks, fails, jobVars>>

\* GetControllerStatus stamps what it answers; without a controller it is null.
AnswerStatus ==
    /\ view.asked
    /\ view' = [view EXCEPT !.asked = FALSE]
    /\ IF ctl.reg # 0 THEN SendsUpdate(ctl.reg, shells[ctl.reg]) ELSE UNCHANGED <<shells, ctl, told>>
    /\ UNCHANGED <<tasks, fails, jobVars>>

----------------------------------------------------------------------------
(* The commands of the page, carried out: each in a goroutine of its own *)

Command(cmd, force) ==
    [cmd |-> cmd, step |-> "sent", of |-> 0, conn |-> "local", force |-> force, awaited |-> TRUE]
Tasks(cmd, force) == Len(tasks) < MaxTasks /\ Len(shells) < MaxControllers /\ tasks' = Append(tasks, Command(cmd, force))
At(i, step, k) ==
    tasks' = [tasks EXCEPT ![i].step = step, ![i].of = k, ![i].conn = IF tasks[i].step = "sent" THEN view.conn ELSE @]

\* What the page does once a command is answered.
NextCommand(c) == CASE c = "meta" -> "destroy" [] c = "destroy" -> "resync" [] OTHER -> "end"
Answered(i) ==
    tasks' = IF tasks[i].awaited /\ NextCommand(tasks[i].cmd) # "end"
             THEN [tasks EXCEPT ![i] = Command(NextCommand(@.cmd), TRUE)] ELSE RemoveAt(tasks, i)

MetaSet(i) ==
    /\ tasks[i].cmd = "meta"
    /\ Answered(i)
    /\ UNCHANGED <<shells, ctl, view, told, fails, jobVars>>

\* DestroyBlockController, up to where Stop has to wait for a process.
Stops(i) ==
    LET k == ctl.reg IN
    CASE shells[k].state = "running" -> At(i, "waits", k) /\ UNCHANGED <<shells, ctl, told>>
      [] shells[k].state = "init"    -> At(i, "stopped", 0) /\ SendsUpdate(k, [shells[k] EXCEPT !.state = "done"])
      [] OTHER                       -> At(i, "stopped", 0) /\ UNCHANGED <<shells, ctl, told>>
DestroyBegins(i) ==
    /\ tasks[i].cmd = "destroy" /\ tasks[i].step = "sent"
    /\ IF ctl.reg = 0 THEN Answered(i) /\ UNCHANGED <<shells, ctl, told>> ELSE Stops(i)
    /\ UNCHANGED <<view, fails, jobVars>>
\* The process ended: its status is made, and sent, a second time.
StopWaited(i) ==
    /\ tasks[i].step = "waits" /\ shells[tasks[i].of].proc \in {"ended", "none"}
    /\ SendsUpdate(tasks[i].of, [shells[tasks[i].of] EXCEPT !.state = "done"])
    /\ At(i, "stopped", 0)
    /\ UNCHANGED <<view, fails, jobVars>>
\* deleteController: whichever is registered by now.
ControllerDeleted(i) ==
    /\ tasks[i].step = "stopped"
    /\ ctl' = [ctl EXCEPT !.reg = 0]
    /\ IF tasks[i].cmd = "destroy" THEN Answered(i) ELSE At(i, "creates", 0)
    /\ UNCHANGED <<shells, view, told, fails, jobVars>>

\* ResyncController, one at a time: a controller with the block's connection that has not
\* ended is kept, unless the restart is forced, and started, unless it was.
Resyncing == \E j \in DOMAIN tasks : tasks[j].cmd = "resync" /\ tasks[j].step # "sent"
KeepsShell(c, force) == ~force /\ c.conn = view.conn /\ c.state # "done"
ResyncBegins(i) ==
    /\ tasks[i].cmd = "resync" /\ tasks[i].step = "sent" /\ ~Resyncing
    /\ LET k == ctl.reg IN
       CASE k = 0 -> At(i, "creates", 0) /\ UNCHANGED <<shells, ctl, told>>
         [] k # 0 /\ KeepsShell(shells[k], tasks[i].force) ->
              /\ IF shells[k].proc = "none" THEN TurnsTo(k, [shells[k] EXCEPT !.proc = "asked"])
                 ELSE UNCHANGED <<shells, ctl, told>>
              /\ Answered(i)
         [] OTHER -> Stops(i)
    /\ UNCHANGED <<view, fails, jobVars>>
ControllerMade(i) ==
    /\ tasks[i].step = "creates"
    /\ shells' = Append(shells, NewController(tasks[i].force, tasks[i].conn))
    /\ ctl' = [ctl EXCEPT !.reg = Len(shells) + 1]
    /\ Answered(i)
    /\ UNCHANGED <<view, told, fails, jobVars>>

\* A command is not answered in time: the await throws, and it was lost or goes on.
CommandFails(i) ==
    /\ fails < MaxFails
    /\ tasks[i].awaited
    /\ fails' = fails + 1
    /\ \/ tasks[i].step = "sent" /\ tasks' = RemoveAt(tasks, i)
       \/ tasks' = [tasks EXCEPT ![i].awaited = FALSE]
    /\ UNCHANGED <<shells, ctl, view, told, jobVars>>

----------------------------------------------------------------------------
(* term-model.ts *)

\* A view for the block, in a page just loaded: what the one before waited for is not heard.
OpenView ==
    /\ view.count < MaxViews
    /\ view' = NewView(view.count + 1, view.conn)
    /\ told' = {}
    /\ tasks' = [i \in DOMAIN tasks |-> [tasks[i] EXCEPT !.awaited = FALSE]]
    /\ fails' = IF tasks = <<>> THEN fails ELSE fails + 1
    /\ jobView' = NewJobView
    /\ job' = [job EXCEPT !.reads = {x \in @ : ~x.answers}]
    /\ UNCHANGED <<shells, ctl>>

\* Mutant: whatever comes last is shown.
NewerAny(v, s) == TRUE
Newer(v, s) == v.version < s.version
updateShellProcStatus(s) ==
    /\ told' = told \ {s}
    /\ view' = IF Newer(view, s) THEN [view EXCEPT !.version = s.version, !.state = s.state, !.code = s.code] ELSE view
    /\ UNCHANGED <<shells, ctl, tasks, fails, jobVars>>

\* forceRestartController, from the menu, the button or Enter, and its 300 ms.
forceRestartController ==
    /\ Open
    /\ ~view.busy
    /\ view' = [view EXCEPT !.busy = TRUE]
    /\ Tasks("destroy", FALSE)
    /\ UNCHANGED <<shells, ctl, told, fails, jobVars>>
RestartTimer ==
    /\ view.busy
    /\ view' = [view EXCEPT !.busy = FALSE]
    /\ UNCHANGED <<shells, ctl, told, tasks, fails, jobVars>>
\* Not kept from overlapping with anything.
restartSessionWithDurability ==
    /\ Open
    /\ Tasks("meta", FALSE)
    /\ UNCHANGED <<shells, ctl, view, told, fails, jobVars>>

\* The connections' status: nothing ever changes the first one it has.
isLocalConnName(name) == name = "local"
makeDefaultConnStatus(name) == [connection |-> name, status |-> IF isLocalConnName(name) THEN "connected" ELSE "disconnected"]
getConnStatusAtom(name) == makeDefaultConnStatus(name)
connStatus(name) == getConnStatusAtom(name)

\* handleResize of a new terminal, and TermResyncHandler on a change of the
\* connection once it was resized.
InitialResize ==
    /\ Open /\ ~view.sized
    /\ view' = [view EXCEPT !.sized = TRUE]
    /\ Tasks("resync", FALSE)
    /\ UNCHANGED <<shells, ctl, told, fails, jobVars>>
\* The block's meta names another connection.
ConnChanges(conn) ==
    /\ Open /\ conn # view.conn
    /\ view' = [view EXCEPT !.conn = conn]
    /\ UNCHANGED <<shells, ctl, told, tasks, fails, jobVars>>
TermResyncHandler ==
    /\ Open /\ view.sized
    /\ connStatus(view.conn) # connStatus(view.lastConn)
    /\ view' = [view EXCEPT !.lastConn = view.conn]
    /\ Tasks("resync", FALSE)
    /\ UNCHANGED <<shells, ctl, told, fails, jobVars>>

----------------------------------------------------------------------------
(* The header: what it shows of a command or a shell *)

endIconButton(v, isCmd) ==
    IF (~isCmd /\ v.state # "done") \/ connStatus(v.conn).status # "connected" THEN "none"
    ELSE CASE v.state = "init"    -> "play"
           [] v.state = "running" -> "running, restart"
           [] OTHER               -> "exited, restart"
viewText(v, isCmd, multiInput) ==
    (IF ~isCmd THEN {} ELSE {"cmd"} \cup
        (IF v.busy THEN {"restarting"} ELSE IF v.state # "done" THEN {} ELSE IF v.code = 0 THEN {"success"} ELSE {"failure"}))
    \cup (IF multiInput /\ ~isCmd THEN {"multi input"} ELSE {})

----------------------------------------------------------------------------
(* The job of a durable block *)

JobChanges(status) ==
    /\ job.changes < MaxJobChanges
    /\ status # job.status
    /\ job' = [job EXCEPT !.status = status, !.changes = @ + 1, !.due = @ + 1]
    /\ UNCHANGED <<shells, ctl, view, told, tasks, fails, jobView>>
\* GetBlockJobStatus takes its stamp, for an event or to answer a view.
Stamps(answers) == [job EXCEPT !.stamp = @ + 1, !.reads = @ \cup {[stamp |-> job.stamp + 1, answers |-> answers]},
                               !.due = IF answers THEN @ ELSE @ - 1]
ReportStamped ==
    /\ job.due > 0
    /\ job' = Stamps(FALSE)
    /\ UNCHANGED <<shells, ctl, view, told, tasks, fails, jobView>>
JobAsked ==
    /\ jobView.asked = "yes"
    /\ \/ /\ job' = Stamps(TRUE)
          /\ jobView' = [jobView EXCEPT !.asked = "no"]
       \* The call fails, which is only logged.
       \/ /\ jobView' = [jobView EXCEPT !.asked = "failed"]
          /\ UNCHANGED job
    /\ UNCHANGED <<shells, ctl, view, told, tasks, fails>>
\* It reads the job, and what it read is published or answered.
ReportRead(x) ==
    /\ job' = [job EXCEPT !.reads = @ \ {x}]
    /\ jobView' = IF Open THEN [jobView EXCEPT !.told = @ \cup {[version |-> x.stamp, status |-> job.status]}] ELSE jobView
    /\ UNCHANGED <<shells, ctl, view, told, tasks, fails>>
handleBlockJobStatusUpdate(r) ==
    /\ jobView' = IF r.version <= jobView.version THEN [jobView EXCEPT !.told = @ \ {r}]
                  ELSE [jobView EXCEPT !.told = @ \ {r}, !.version = r.version, !.status = r.status]
    /\ UNCHANGED <<shells, ctl, view, told, tasks, fails, job>>
\* A report without a status is of a block without a job.
termDurableStatus(isDurable) == IF isDurable THEN jobView.status ELSE "none"

\* The block has no controller yet, or one that runs or ended.
CtlInit ==
    /\ \/ shells = <<>> /\ ctl = [reg |-> 0, last |-> 0, said |-> [version |-> 1, state |-> "init", code |-> 0]]
       \/ \E s \in {"running", "done"} :
            /\ shells = <<[NewController(FALSE, "local") EXCEPT !.state = s, !.proc = IF s = "running" THEN "runs" ELSE "none"]>>
            /\ ctl = [reg |-> 1, last |-> 1, said |-> [version |-> 1, state |-> s, code |-> 0]]
    /\ view = [NewView(0, "local") EXCEPT !.asked = FALSE]
    /\ told = {} /\ tasks = <<>> /\ fails = 0
    /\ job = [status |-> "none", changes |-> 0, due |-> 0, stamp |-> 0, reads |-> {}]
    /\ jobView = [NewJobView EXCEPT !.asked = "no"]
CtlNext ==
    \/ AnswerStatus \/ OpenView \/ forceRestartController \/ RestartTimer
    \/ restartSessionWithDurability \/ InitialResize \/ TermResyncHandler
    \/ \E k \in DOMAIN shells :
         \/ RunBegins(k) \/ ProcessStarts(k) \/ ProcessEnds(k) \/ UpdateSent(k)
         \/ \E code \in {0, Killed} : WaitLoopDone(k, code)
    \/ \E conn \in {"local", "other"} : ConnChanges(conn)
    \/ \E status \in {"none", "connected", "done"} : JobChanges(status)
    \/ ReportStamped \/ JobAsked
    \/ \E x \in job.reads : ReportRead(x)
    \/ \E r \in jobView.told : handleBlockJobStatusUpdate(r)
    \/ \E s \in told : updateShellProcStatus(s)
    \/ \E i \in DOMAIN tasks :
         \/ MetaSet(i) \/ DestroyBegins(i) \/ StopWaited(i) \/ ControllerDeleted(i)
         \/ ResyncBegins(i) \/ ControllerMade(i) \/ CommandFails(i)
CtlSpec == CtlInit /\ [][CtlNext]_ctlVars

----------------------------------------------------------------------------
(* Properties *)

\* All that was stamped has arrived, and every update was stamped.
CtlQuiet == Open /\ told = {} /\ ~view.asked /\ \A k \in DOMAIN shells : shells[k].due = 0
Runs(k) == k # 0 /\ shells[k].state = "running"
\* Once all it was told has arrived a view shows how the controller that told last is: so it
\* knows whether the block's process runs, and Enter (term-model.ts:641-644) restarts one that
\* does not, unless another controller than the block's told last, as one may that was stopped
\* while it started, or whose wait for its process goes on after the next one runs
\* (shellcontroller.go:92-115, 408-412, 482-489; blockcontroller.go:267-275).
KnowsIfRunning ==
    CtlQuiet =>
        IF view.version = 0 THEN view.state = "init" /\ ~Runs(ctl.reg)
        ELSE /\ view.state = shells[ctl.last].state /\ view.code = shells[ctl.last].code
             /\ ctl.last = ctl.reg => (view.state = "running" <=> Runs(ctl.reg))
\* Restarts that were answered leave the block a controller, though they overlap and each may
\* delete the one another has made (blockcontroller.go:108-112, 145-275; term-model.ts:662-696).
RestartsRun == (Open /\ view.sized /\ tasks = <<>> /\ fails = 0) => ctl.reg # 0

\* A process that ended, or one of a command that does not run, can be started with the
\* header's button, which says so; the header tells how a command ended (term-model.ts:99-160,
\* 220-263): of the block's controller, if none other told after it.
HeaderOffers ==
    CtlQuiet /\ ctl.reg # 0 /\ ctl.last = ctl.reg => \A isCmd \in BOOLEAN :
        LET c == shells[ctl.reg] IN
        /\ (connStatus(view.conn).status = "connected" /\ (c.state = "done" \/ (isCmd /\ c.state = "init"))) =>
              endIconButton(view, isCmd) \in {"play", "exited, restart"}
        /\ endIconButton(view, isCmd) = "running, restart" => isCmd /\ c.state = "running"
        /\ (isCmd /\ ~view.busy) =>
              /\ viewText(view, isCmd, FALSE) = {"cmd"} <=> c.state # "done"
              /\ "success" \in viewText(view, isCmd, FALSE) <=> c.state = "done" /\ c.code = 0
\* Once its reports have arrived the view shows the job as it is, though a report may be
\* stamped before and read after another (term-model.ts:284-312, 464-473).
JobShown ==
    (Open /\ job.due = 0 /\ job.reads = {} /\ jobView.told = {} /\ jobView.asked = "no") =>
        \A isDurable \in BOOLEAN : termDurableStatus(isDurable) = IF isDurable THEN job.status ELSE "none"

\* The terminal's view of its process: whether it runs, and that a restart asked for runs it
\* again, what its header offers, and its job (all above; term-model.ts).
ControllerShown == KnowsIfRunning /\ RestartsRun /\ HeaderOffers /\ JobShown
=============================================================================

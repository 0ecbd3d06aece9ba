---------------------------- MODULE AppLifecycle ----------------------------
(***************************************************************************)
(* The start and the end of the Electron application: the backend process  *)
(* (emain-dorasrv.ts), the ways to quit (emain.ts, emain-activity.ts) and  *)
(* the updater (updater.ts), which quits as well.  Electron is external:   *)
(* app.quit() emits "before-quit", and if the listener does not prevent it *)
(* the process ends.                                                       *)
(***************************************************************************)
EXTENDS Integers, FiniteSets

CONSTANTS
    Platforms,      \* process.platform: some of "linux", "darwin", "win32"
    MaxWindows,     \* bound on the windows open at a time
    MaxAppEvents    \* bound on what the user, the system and the network do

VARIABLE app    \* the main process and the backend's; see AppInit

AppInit ==
    \E p \in Platforms :
        app = [on |-> p, srv |-> "starting", up |-> FALSE, dead |-> FALSE, force |-> FALSE,
               confirmed |-> FALSE, quitting |-> FALSE, waiting |-> FALSE, gone |-> FALSE,
               caught |-> FALSE, wins |-> 0, status |-> "up-to-date", auto |-> FALSE,
               install |-> "no", left |-> MaxAppEvents]

----------------------------------------------------------------------------
(* The end.                                                                 *)

Interrupted(a) == IF a.srv \in {"spawned", "running"} THEN [a EXCEPT !.srv = "stopping"] ELSE a
\* before-quit, when nobody has to be asked: the backend is interrupted and has
\* three seconds, then the application quits by force.
BeforeQuit(a) ==
    LET a1 == [a EXCEPT !.quitting = TRUE, !.auto = FALSE]
        a2 == Interrupted(a1)
    IN  IF a.on = "win32" THEN [a1 EXCEPT !.gone = TRUE]
        ELSE IF a.force THEN [a2 EXCEPT !.gone = TRUE]
        ELSE IF a.dead THEN [a2 EXCEPT !.force = TRUE, !.gone = TRUE]
        ELSE [a2 EXCEPT !.waiting = TRUE]

Asks(a) == ~a.force /\ ~a.confirmed /\ a.wins > 0 /\ ~a.dead
\* quit: the results, by what the user answers.
Quit(a) ==
    IF Asks(a) THEN {a, BeforeQuit([a EXCEPT !.confirmed = TRUE])} ELSE {BeforeQuit(a)}
ConfirmedQuit(a) == Quit([a EXCEPT !.confirmed = TRUE])

Happens(a) == ~a.gone /\ a.left > 0
Spend(a) == [a EXCEPT !.left = @ - 1]

UserQuits == Happens(app) /\ app' \in Quit(Spend(app))
Signal == Happens(app) /\ app' \in ConfirmedQuit(Spend(app))
UncaughtException ==
    /\ Happens(app) /\ ~app.caught
    /\ app' \in ConfirmedQuit([Spend(app) EXCEPT !.caught = TRUE])
\* Mutant: the second attempt is not forced.
WaitOverUnforced ==
    /\ ~app.gone /\ app.waiting
    /\ app' \in Quit([app EXCEPT !.waiting = FALSE])
\* Three seconds later.
WaitOver ==
    /\ ~app.gone /\ app.waiting
    /\ app' \in Quit([app EXCEPT !.force = TRUE, !.waiting = FALSE])
\* A window closes; with the last one the application ends, but on macOS.
WindowCloses ==
    /\ Happens(app) /\ app.wins > 0
    /\ LET a == [Spend(app) EXCEPT !.wins = @ - 1] IN
       app' \in IF a.wins = 0 /\ a.on # "darwin" THEN ConfirmedQuit(a) ELSE {a}
WindowOpens ==
    /\ Happens(app) /\ app.up /\ ~app.quitting /\ app.wins < MaxWindows
    /\ app' = [Spend(app) EXCEPT !.wins = @ + 1]

----------------------------------------------------------------------------
(* The backend.                                                             *)

SrvSpawned == ~app.gone /\ app.srv = "starting" /\ app' = [app EXCEPT !.srv = "spawned"]
\* The error is logged, and nothing resolves doraSrvReady.
SrvSpawnFails == Happens(app) /\ app.srv = "starting" /\ app' = [Spend(app) EXCEPT !.srv = "failed"]
\* DORASRV-ESTART: appMain goes on to open the windows and start the updater.
SrvReady ==
    /\ ~app.gone /\ app.srv = "spawned"
    /\ app' = [app EXCEPT !.srv = "running", !.up = TRUE, !.wins = 1, !.auto = TRUE]
SrvReadyUnparsed ==
    /\ Happens(app) /\ app.srv = "spawned"
    /\ app' \in ConfirmedQuit(Spend(app))
\* proc.on("exit"): during an update the exit is expected.
SrvExited(a) ==
    LET b == [a EXCEPT !.srv = "exited"] IN
    IF a.status = "installing" THEN {b} ELSE Quit([b EXCEPT !.force = TRUE, !.dead = TRUE])
SrvStops == ~app.gone /\ app.srv = "stopping" /\ app' \in SrvExited(app)
SrvCrashes == Happens(app) /\ app.srv \in {"spawned", "running"} /\ app' \in SrvExited(Spend(app))

----------------------------------------------------------------------------
(* The updater.                                                             *)

\* checkForUpdates, of the user or of the interval, and what the library reports.
UpdateCheck == Happens(app) /\ app.up /\ app' = [Spend(app) EXCEPT !.status = "checking"]
UpdateFound == ~app.gone /\ app.status = "checking" /\ app' = [app EXCEPT !.status = "downloading"]
UpdateNone == ~app.gone /\ app.status = "checking" /\ app' = [app EXCEPT !.status = "up-to-date"]
UpdateDownloaded == ~app.gone /\ app.status = "downloading" /\ app' = [app EXCEPT !.status = "ready"]
UpdateFails ==
    /\ Happens(app) /\ app.status \in {"checking", "downloading", "installing"}
    /\ app' = [Spend(app) EXCEPT !.status = "error"]
\* promptToInstallUpdate needs a window; the answer may come when the status has changed.
PromptToInstall ==
    /\ Happens(app) /\ app.status = "ready" /\ app.wins > 0 /\ app.install = "no"
    /\ app' = [Spend(app) EXCEPT !.install = "asked"]
InstallUpdate ==
    /\ ~app.gone /\ app.install = "asked"
    /\ app' \in {[app EXCEPT !.install = "no"],
                 IF app.status = "ready" THEN [app EXCEPT !.install = "soon", !.status = "installing"]
                 ELSE [app EXCEPT !.install = "no"]}
\* A second later: quitAndInstall.
InstallDue ==
    /\ ~app.gone /\ app.install = "soon"
    /\ app' \in ConfirmedQuit([app EXCEPT !.install = "no"])

----------------------------------------------------------------------------
AppNext ==
    \/ UserQuits \/ Signal \/ UncaughtException \/ WaitOver \/ WindowCloses \/ WindowOpens
    \/ SrvSpawned \/ SrvSpawnFails \/ SrvReady \/ SrvReadyUnparsed \/ SrvStops \/ SrvCrashes
    \/ UpdateCheck \/ UpdateFound \/ UpdateNone \/ UpdateDownloaded \/ UpdateFails
    \/ PromptToInstall \/ InstallUpdate \/ InstallDue
AppFairness == WF_app(WaitOver) /\ WF_app(InstallDue) /\ WF_app(SrvSpawned) /\ WF_app(SrvReady)
AppSpec == AppInit /\ [][AppNext]_app /\ AppFairness

----------------------------------------------------------------------------
\* The application never leaves its backend running, and ends before the backend has
\* only when the three seconds are over, whatever else asks it to quit meanwhile
\* (the before-quit listener of emain.ts).
OrderlyEnd ==
    [][app'.gone /\ ~app.gone /\ app.on # "win32" =>
         /\ app'.srv \notin {"spawned", "running"}
         /\ app'.srv = "stopping" => app.waiting /\ ~app'.waiting]_app

\* An application that began to quit ends: no cancelled event, update in progress or
\* backend that has gone keeps it hidden for good (before-quit, the exit listener).
QuitEnds == app.quitting ~> app.gone
\* An application whose backend has gone does not stay, but for an update.
NoBackendNoApp == (app.srv = "exited" /\ app.status # "installing") ~> app.gone
=============================================================================

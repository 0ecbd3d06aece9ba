-------------------------- MODULE MCElectronShell --------------------------
(***************************************************************************)
(* Small instances of ElectronShell, each with its kinds of events, and of *)
(* AppLifecycle beside them: a behaviour is of the windows or of the start *)
(* and the end of the application.                                         *)
(***************************************************************************)
EXTENDS ElectronShell, AppLifecycle

MCScenarios ==
    {[ops |-> {"workspace", "createtab", "early"}, start |-> <<1>>, size |-> 2],
     [ops |-> {"workspace"}, start |-> <<2>>, size |-> 1],
     [ops |-> {"workspace"}, start |-> <<1, 1>>, size |-> 1],
     [ops |-> {"switchtab", "slow", "reload", "evict", "reconnect", "early"}, start |-> <<2>>, size |-> 2],
     [ops |-> {"createtab", "closetab", "early"}, start |-> <<2>>, size |-> 3],
     [ops |-> {"newwindow", "switchtab"}, start |-> <<1>>, size |-> 2],
     [ops |-> {"closewindow", "switchtab"}, start |-> <<2, 1>>, size |-> 2],
     [ops |-> {"deletews"}, start |-> <<1, 2>>, size |-> 1],
     [ops |-> {"deletews", "workspace"}, start |-> <<2>>, size |-> 1],
     [ops |-> {"relaunch"}, start |-> <<1, 2>>, size |-> 2],
     [ops |-> {"closetab", "relaunch"}, start |-> <<1>>, size |-> 2]}

\* One window whose user switches between workspaces quickly.
MCStuck == {[ops |-> {"workspace"}, start |-> <<2>>, size |-> 4]}

AppOff == app = [gone |-> TRUE, quitting |-> FALSE, srv |-> "none"]
ShellOff ==
    /\ el = [wins |-> <<>>, views |-> <<>>, removals |-> {}, hotTimer |-> FALSE]
    /\ be = [ws |-> <<>>, win |-> <<>>] /\ controls = <<>> /\ jobs = <<>> /\ left = 0 /\ does = {}
MCInit == (ShellInit /\ AppOff) \/ (AppInit /\ ShellOff)
MCNext == (ShellNext /\ UNCHANGED app) \/ (AppNext /\ UNCHANGED winVars)
MCSpec == MCInit /\ [][MCNext]_<<winVars, app>> /\ ShellFairness /\ AppFairness
=============================================================================

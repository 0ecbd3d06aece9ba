------------------------------- MODULE TermShell -------------------------------
(***************************************************************************)
(* What a terminal shows of the shell in it (frontend/app/view/term/       *)
(* osc-handlers.ts, shellblocking.ts, termwrap.ts, term-model.ts): the     *)
(* shell reports prompts and commands by escape sequences in its output,   *)
(* the view keeps them in atoms and stores them for the view that comes    *)
(* after it.                                                               *)
(*                                                                         *)
(* External: the shell, and the backend, which stores what it is sent in   *)
(* order.                                                                  *)
(***************************************************************************)
EXTENDS Integers, SequencesExt

CONSTANTS
    MaxReports,  \* bound on the shell's sequences
    MaxLoads     \* bound on the views made for the block

\* The commands a shell runs, by what the view makes of them: Claude Code, a program that
\* takes the terminal over, another one, one that is too large to be told, and one that
\* cannot be decoded.
ShellCmds == {"claude", "vim", "make", "large", "garbled"}
NoShell == "none"
Prompt == "prompt"

VARIABLES
    shell,     \* what the shell does: NoShell, Prompt or a command
    sequences, \* its reports on their way to the view
    icon,      \* the view's atoms: [loaded, status, cmd, claude]
    stored,    \* the block's RTInfo: [integration, state, cmd]
    updates,   \* SetRTInfo calls under way
    missed,    \* has the view lost a report, or was it made from stale info?
    reports, loads
shellVars == <<shell, sequences, icon, stored, updates, missed, reports, loads>>

NoInfo == [integration |-> FALSE, state |-> "null", cmd |-> "null"]
NewIcon == [loaded |-> FALSE, status |-> "null", cmd |-> "null", claude |-> FALSE]

----------------------------------------------------------------------------
(* External: the shell, which reports what it does. *)

Reports(rs, becomes) ==
    /\ reports + Len(rs) <= MaxReports
    /\ reports' = reports + Len(rs)
    /\ sequences' = sequences \o rs
    /\ shell' = becomes
    /\ UNCHANGED <<icon, stored, updates, missed, loads>>
ShellStarts == shell = NoShell /\ Reports(<<"M", "A">>, Prompt)
RunsCommand(c) == shell = Prompt /\ Reports(<<c>>, c)
CommandEnds == shell \in ShellCmds /\ Reports(<<"D", "A">>, Prompt)
\* The terminal's modes are reset when the shell is gone.
ShellExits == shell # NoShell /\ Reports(<<"R">>, NoShell)

----------------------------------------------------------------------------
(* osc-handlers.ts *)

\* The command as it is kept; isClaudeCodeCommand.
Decoded(c) == IF c = "garbled" THEN "null" ELSE c
\* handleShellIntegrationCommandStart: a command too large is not looked at.
CommandStart(ic, c) ==
    [ic EXCEPT !.status = "running-command", !.cmd = Decoded(c),
               !.claude = IF c = "large" THEN @ ELSE c = "claude"]
\* Mutant: the shell's end leaves the status.
SeenNoReset(ic, r) ==
    CASE r = "A" -> [ic EXCEPT !.status = "ready", !.claude = FALSE]
      [] r \in {"D", "R"} -> [ic EXCEPT !.claude = FALSE]
      [] r \in ShellCmds -> CommandStart(ic, r)
      [] OTHER -> ic
\* handleOsc16162Command: what a report does to the atoms, and what of it is stored.
Seen(ic, r) ==
    CASE r = "A" -> [ic EXCEPT !.status = "ready", !.claude = FALSE]
      [] r = "D" -> [ic EXCEPT !.claude = FALSE]
      [] r = "R" -> [ic EXCEPT !.status = "null", !.claude = FALSE]
      [] r \in ShellCmds -> CommandStart(ic, r)
      [] OTHER -> ic
StoredOf(info, r) ==
    CASE r = "A" -> [info EXCEPT !.state = "ready"]
      [] r = "M" -> [info EXCEPT !.integration = TRUE]
      [] r \in ShellCmds -> [info EXCEPT !.state = "running-command", !.cmd = Decoded(r)]
      [] OTHER -> info
\* The reports that say all of the shell's state.
Tells(r) == r \in (ShellCmds \ {"large"}) \cup {"A"}
\* A report before the view is loaded is read with the file, and passed over.
TakeReport ==
    /\ loads > 0 /\ sequences # <<>>
    /\ LET r == Head(sequences) IN
        IF icon.loaded
        THEN /\ icon' = Seen(icon, r)
             /\ updates' = IF r \in {"D", "R"} THEN updates ELSE Append(updates, r)
             /\ missed' = (missed /\ ~(Tells(r) /\ (stored.integration \/ Contains(updates, "M"))))
        ELSE missed' = TRUE /\ UNCHANGED <<icon, updates>>
    /\ sequences' = Tail(sequences)
    /\ UNCHANGED <<shell, stored, reports, loads>>
InfoStored ==
    /\ updates # <<>>
    /\ stored' = StoredOf(stored, Head(updates))
    /\ updates' = Tail(updates)
    /\ UNCHANGED <<shell, sequences, icon, missed, reports, loads>>

----------------------------------------------------------------------------
(* termwrap.ts *)

\* initTerminal: the atoms are set from the block's info before the output is read.
Restored(info) ==
    LET state == IF info.integration THEN info.state ELSE "null" IN
    [NewIcon EXCEPT !.status = state, !.cmd = info.cmd,
                    !.claude = state = "running-command" /\ info.cmd = "claude"]
\* The info was stale when a report was not stored yet, and it still is when the shell was reset.
InitTerminal ==
    /\ loads < MaxLoads
    /\ loads' = loads + 1
    /\ icon' = Restored(stored)
    /\ missed' = (sequences # <<>> \/ updates # <<>> \/ missed \/ (shell = NoShell /\ stored # NoInfo))
    /\ UNCHANGED <<shell, sequences, stored, updates, reports>>
TerminalLoaded ==
    /\ loads > 0 /\ ~icon.loaded
    /\ icon' = [icon EXCEPT !.loaded = TRUE]
    /\ UNCHANGED <<shell, sequences, stored, updates, missed, reports, loads>>

----------------------------------------------------------------------------
(* term-model.ts, shellblocking.ts *)

\* getBlockingCommand, on the terminal's normal screen.
BlockingCommand(cmd) == cmd = "vim"
\* getShellIntegrationIconButton: what the icon of the block says.
IconSays ==
    CASE icon.status = "null"  -> "no integration"
      [] icon.status = "ready" -> "ready"
      [] OTHER                 -> IF BlockingCommand(icon.cmd) THEN "inside a program"
                                  ELSE IF icon.claude THEN "claude" ELSE "busy"

ShellInit ==
    /\ shell = NoShell /\ sequences = <<>> /\ icon = NewIcon /\ stored = NoInfo
    /\ updates = <<>> /\ missed = FALSE /\ reports = 0 /\ loads = 0
ShellNext ==
    \/ ShellStarts \/ (\E c \in ShellCmds : RunsCommand(c)) \/ CommandEnds \/ ShellExits
    \/ TakeReport \/ InfoStored \/ InitTerminal \/ TerminalLoaded
TermShellSpec == ShellInit /\ [][ShellNext]_shellVars

----------------------------------------------------------------------------
(* Properties *)

\* Once the reports are read the view shows what the shell does, also the view made after
\* it from the info that was stored (termwrap.ts:415-434, osc-handlers.ts:309-366), unless
\* a report was made while a view was being loaded.
ShellShown ==
    (loads > 0 /\ sequences = <<>> /\ ~missed) =>
        /\ icon.status = CASE shell = NoShell -> "null"
                           [] shell = Prompt  -> "ready"
                           [] OTHER           -> "running-command"
        /\ icon.claude <=> shell = "claude"
        /\ IconSays = "inside a program" <=> shell = "vim"
=============================================================================

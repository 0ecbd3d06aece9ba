------------------------------ MODULE TermProofs ------------------------------
(***************************************************************************)
(* Proofs about a terminal's block: its shell, its file, its options, and  *)
(* what enters and leaves it.                                              *)
(***************************************************************************)
EXTENDS TermShell, TermControl, TermOutput, BlockSettings, TermClip, DataLemmas

-----------------------------------------------------------------------------
(* TermShell: the state the shell was in before the reports that are still on their way *)

ShellStates == {NoShell, "starting", Prompt, "ended"} \cup ShellCmds
ShellSays == {"M", "A", "D", "R"} \cup ShellCmds
\* What the shell's reports do to its state: it starts, shows a prompt, runs a command, which
\* ends, and exits.
Turns ==
  {<<NoShell, "M", "starting">>, <<"starting", "A", Prompt>>, <<"ended", "A", Prompt>>}
  \cup {<<Prompt, c, c>>: c \in ShellCmds} \cup {<<c, "D", "ended">>: c \in ShellCmds}
  \cup {<<x, "R", NoShell>>: x \in {Prompt} \cup ShellCmds}
\* What the reports that are stored do to the info.
Infos == [integration: BOOLEAN, state: {"null", "ready", "running-command"}, cmd: {"null"} \cup ShellCmds]
Kept == {"M", "A"} \cup ShellCmds
Stores == {<<m, r, StoredOf(m, r)>>: m \in Infos, r \in Kept}

\* The icon, and the info, are right for a shell in state s.
IconFits(ic, s) ==
  /\ s = NoShell => ic.status = "null" /\ ~ic.claude
  /\ s = Prompt => ic.status = "ready" /\ ~ic.claude
  /\ s \in ShellCmds => ic.status = "running-command" /\ ic.cmd = Decoded(s) /\ ic.claude = (s = "claude")
InfoFits(m, s) ==
  /\ s # NoShell => m.integration
  /\ s = Prompt => m.state = "ready"
  /\ s \in ShellCmds => m.state = "running-command" /\ m.cmd = Decoded(s)

Icons == [loaded: BOOLEAN, status: {"null", "ready", "running-command"}, cmd: {"null"} \cup ShellCmds, claude: BOOLEAN]
ShellType ==
  /\ shell \in {NoShell, Prompt} \cup ShellCmds /\ sequences \in Seq(ShellSays) /\ updates \in Seq(Kept)
  /\ stored \in Infos /\ icon \in Icons /\ missed \in BOOLEAN
Integrates(m) == (stored.integration \/ Contains(updates, "M")) => m.integration
\* The shell was in state s before the reports on their way, and the info will be m when all
\* that is sent is stored; icon and info fit s unless a report was missed.
ShellInv ==
  /\ ShellType
  /\ \E s \in ShellStates, m \in Infos:
       /\ Path(Turns, ShellStates, s, sequences, shell)
       /\ Path(Stores, Infos, stored, updates, m)
       /\ Integrates(m)
       /\ ~missed => (loads > 0 => IconFits(icon, s)) /\ InfoFits(m, s)

\* A report that is taken makes the icon, and the info, right for the state it leads to, and
\* one that tells all does so whatever was shown before.
LEMMA ReportFits ==
  ASSUME NEW s, NEW r, NEW t, <<s, r, t>> \in Turns
  PROVE  /\ \A ic \in Icons: Seen(ic, r) \in Icons
         /\ \A ic \in Icons: IconFits(ic, s) \/ Tells(r) => IconFits(Seen(ic, r), t)
         /\ \A m \in Infos: r \in Kept => StoredOf(m, r) \in Infos
         /\ \A m \in Infos: r \in Kept /\ (InfoFits(m, s) \/ (Tells(r) /\ m.integration)) => InfoFits(StoredOf(m, r), t)
         /\ \A m \in Infos: r \in {"D", "R"} /\ InfoFits(m, s) => InfoFits(m, t)
         /\ r \in Kept \cup {"D", "R"} /\ (Tells(r) => r \in Kept)
<1>1. CASE r = "M"
  <2>1. s = NoShell /\ t = "starting"
    BY <1>1 DEF Turns, NoShell, Prompt, ShellCmds
  <2> QED
    BY <1>1, <2>1 DEF Seen, StoredOf, IconFits, InfoFits, Tells, Kept, Icons, Infos, NoShell, Prompt, ShellCmds
<1>2. CASE r = "A"
  <2>1. t = Prompt /\ s \in {"starting", "ended"}
    BY <1>2 DEF Turns, NoShell, Prompt, ShellCmds
  <2> QED
    BY <1>2, <2>1 DEF Seen, StoredOf, IconFits, InfoFits, Tells, Kept, Icons, Infos, NoShell, Prompt, ShellCmds
<1>3. CASE r = "D"
  <2>1. t = "ended" /\ s \in ShellCmds
    BY <1>3 DEF Turns, NoShell, Prompt, ShellCmds
  <2> QED
    BY <1>3, <2>1 DEF Seen, StoredOf, IconFits, InfoFits, Tells, Kept, Icons, Infos, NoShell, Prompt, ShellCmds
<1>4. CASE r = "R"
  <2>1. t = NoShell
    BY <1>4 DEF Turns, NoShell, Prompt, ShellCmds
  <2> QED
    BY <1>4, <2>1 DEF Seen, StoredOf, IconFits, InfoFits, Tells, Kept, Icons, Infos, NoShell, Prompt, ShellCmds
<1>5. CASE r \in ShellCmds
  <2>1. s = Prompt /\ t = r
    BY <1>5 DEF Turns, NoShell, Prompt, ShellCmds
  <2>2. \A ic \in Icons: Seen(ic, r) = CommandStart(ic, r)
    BY <1>5 DEF Seen, ShellCmds
  <2>3. Decoded(r) \in {"null"} \cup ShellCmds
    BY <1>5 DEF Decoded
  <2>4. \A ic \in Icons: CommandStart(ic, r) \in Icons
    BY <1>5, <2>3 DEF CommandStart, Icons
  <2>5. ASSUME NEW ic \in Icons, IconFits(ic, s) \/ Tells(r) PROVE IconFits(CommandStart(ic, r), t)
    BY <1>5, <2>1, <2>5 DEF CommandStart, Icons, IconFits, Tells, NoShell, Prompt, ShellCmds
  <2>6. \A m \in Infos: StoredOf(m, r) = [m EXCEPT !.state = "running-command", !.cmd = Decoded(r)]
    BY <1>5 DEF StoredOf, ShellCmds
  <2>7. ASSUME NEW m \in Infos
        PROVE  /\ StoredOf(m, r) \in Infos /\ StoredOf(m, r).state = "running-command" /\ StoredOf(m, r).cmd = Decoded(r)
               /\ StoredOf(m, r).integration = m.integration
    BY <2>3, <2>6 DEF Infos
  <2>8. ASSUME NEW m \in Infos, InfoFits(m, s) \/ m.integration PROVE InfoFits(StoredOf(m, r), t)
    <3>1. m.integration
      BY <2>1, <2>8 DEF InfoFits, NoShell, Prompt
    <3> QED
      BY <1>5, <2>1, <2>7, <3>1 DEF InfoFits, NoShell, Prompt, ShellCmds
  <2>9. r \in Kept /\ r \notin {"D", "R"}
    BY <1>5 DEF Kept, ShellCmds
  <2> QED
    BY <2>2, <2>4, <2>5, <2>7, <2>8, <2>9
<1> QED
  BY <1>1, <1>2, <1>3, <1>4, <1>5 DEF Turns

\* Storing keeps the integration once it is there.
LEMMA StoredFacts ==
  ASSUME NEW m \in Infos, NEW r \in Kept
  PROVE  /\ StoredOf(m, r) \in Infos /\ <<m, r, StoredOf(m, r)>> \in Stores
         /\ StoredOf(m, r).integration = (m.integration \/ r = "M")
         /\ \A n: <<m, r, n>> \in Stores => n = StoredOf(m, r)
<1>1. <<m, r, StoredOf(m, r)>> \in Stores /\ \A n: <<m, r, n>> \in Stores => n = StoredOf(m, r)
  BY DEF Stores
<1>2. CASE r = "A"
  BY <1>1, <1>2 DEF StoredOf, Infos, ShellCmds
<1>3. CASE r = "M"
  BY <1>1, <1>3 DEF StoredOf, Infos, ShellCmds
<1>4. CASE r \in ShellCmds
  <2>1. StoredOf(m, r) = [m EXCEPT !.state = "running-command", !.cmd = Decoded(r)] /\ r # "M"
    BY <1>4 DEF StoredOf, ShellCmds
  <2>2. Decoded(r) \in {"null"} \cup ShellCmds
    BY <1>4 DEF Decoded
  <2> QED
    BY <1>1, <2>1, <2>2 DEF Infos
<1> QED
  BY <1>2, <1>3, <1>4 DEF Kept

LEMMA ShellInitInv == ShellInit => ShellInv
<1> SUFFICES ASSUME ShellInit PROVE ShellInv
  OBVIOUS
<1>0. shell = NoShell /\ sequences = <<>> /\ icon = NewIcon /\ stored = NoInfo /\ updates = <<>> /\ missed = FALSE /\ loads = 0
  BY DEF ShellInit
<1>1. NoInfo \in Infos /\ NewIcon \in Icons /\ NoShell \in ShellStates
  BY DEF NoInfo, Infos, NewIcon, Icons, ShellStates
<1>2. <<>> \in Seq(ShellSays) /\ <<>> \in Seq(Kept)
  OBVIOUS
<1>3. Path(Turns, ShellStates, NoShell, <<>>, NoShell) /\ Path(Stores, Infos, NoInfo, <<>>, NoInfo)
  BY <1>1, <1>2, PathFacts
<1>4. ~Contains(<<>>, "M") /\ ~NoInfo.integration /\ InfoFits(NoInfo, NoShell)
  BY DEF Contains, NoInfo, InfoFits, NoShell, Prompt, ShellCmds
<1>5. ShellType
  BY <1>0, <1>1, <1>2 DEF ShellType
<1>6. Integrates(NoInfo)
  BY <1>0, <1>4 DEF Integrates
<1> QED
  BY <1>0, <1>1, <1>3, <1>4, <1>5, <1>6 DEF ShellInv

\* A report that the shell makes leads to its new state.
LEMMA OneReport ==
  ASSUME ShellType, NEW s \in ShellStates, Path(Turns, ShellStates, s, sequences, shell),
         NEW r \in ShellSays, NEW t \in ShellStates, <<shell, r, t>> \in Turns
  PROVE  Append(sequences, r) \in Seq(ShellSays) /\ Path(Turns, ShellStates, s, Append(sequences, r), t)
<1>1. sequences \in Seq(ShellSays)
  BY DEF ShellType
<1> QED
  BY <1>1, Appended, PathFacts

LEMMA ReportsInv ==
  ASSUME ShellInv, shell' \in {NoShell, Prompt} \cup ShellCmds, sequences' \in Seq(ShellSays),
         UNCHANGED <<icon, stored, updates, missed, loads>>,
         \A s \in ShellStates: Path(Turns, ShellStates, s, sequences, shell) => Path(Turns, ShellStates, s, sequences', shell')
  PROVE  ShellInv'
<1>1. PICK s \in ShellStates, m \in Infos:
        /\ Path(Turns, ShellStates, s, sequences, shell)
        /\ Path(Stores, Infos, stored, updates, m)
        /\ Integrates(m)
        /\ ~missed => (loads > 0 => IconFits(icon, s)) /\ InfoFits(m, s)
  BY DEF ShellInv
<1>2. ShellType'
  BY DEF ShellInv, ShellType
<1>3. Integrates(m)'
  BY <1>1 DEF Integrates
<1>4. /\ Path(Turns, ShellStates, s, sequences', shell') /\ Path(Stores, Infos, stored', updates', m)
      /\ ~missed' => (loads' > 0 => IconFits(icon', s)) /\ InfoFits(m, s)
  BY <1>1
<1> QED
  BY <1>2, <1>3, <1>4 DEF ShellInv

LEMMA TwoAppended ==
  ASSUME NEW S, NEW s \in Seq(S), NEW x \in S, NEW y \in S
  PROVE  s \o <<x>> = Append(s, x) /\ s \o <<x, y>> = Append(Append(s, x), y)
  OBVIOUS

LEMMA ShellReportsInv ==
  ASSUME ShellInv, ShellStarts \/ (\E c \in ShellCmds : RunsCommand(c)) \/ CommandEnds \/ ShellExits
  PROVE  ShellInv'
<1>0. ShellType /\ sequences \in Seq(ShellSays)
  BY DEF ShellInv, ShellType
<1>1. ASSUME NEW r \in ShellSays, NEW t \in {NoShell, Prompt} \cup ShellCmds, Reports(<<r>>, t), <<shell, r, t>> \in Turns
      PROVE  ShellInv'
  <2>1. shell' = t /\ sequences' = Append(sequences, r) /\ UNCHANGED <<icon, stored, updates, missed, loads>>
    BY <1>0, <1>1, TwoAppended DEF Reports
  <2>2. t \in ShellStates
    BY DEF ShellStates
  <2>3. Append(sequences, r) \in Seq(ShellSays)
    BY <1>0, Appended
  <2>4. \A s \in ShellStates: Path(Turns, ShellStates, s, sequences, shell) => Path(Turns, ShellStates, s, Append(sequences, r), t)
    BY <1>0, <1>1, <2>2, OneReport
  <2> QED
    BY <2>1, <2>3, <2>4, ReportsInv
<1>2. ASSUME NEW r \in ShellSays, NEW u \in ShellStates, NEW t \in {NoShell, Prompt} \cup ShellCmds,
             Reports(<<r, "A">>, t), <<shell, r, u>> \in Turns, <<u, "A", t>> \in Turns
      PROVE  ShellInv'
  <2> DEFINE q == Append(sequences, r)
  <2>0. "A" \in ShellSays /\ t \in ShellStates
    BY DEF ShellSays, ShellStates
  <2>1. shell' = t /\ sequences' = Append(q, "A") /\ UNCHANGED <<icon, stored, updates, missed, loads>>
    BY <1>0, <1>2, <2>0, TwoAppended DEF Reports
  <2>2. q \in Seq(ShellSays)
    BY <1>0, Appended
  <2>3. \A s \in ShellStates: Path(Turns, ShellStates, s, sequences, shell) => Path(Turns, ShellStates, s, q, u)
    BY <1>0, <1>2, OneReport
  <2> HIDE DEF q
  <2>4. Append(q, "A") \in Seq(ShellSays)
    BY <2>0, <2>2, Appended
  <2>5. \A s \in ShellStates: Path(Turns, ShellStates, s, q, u) => Path(Turns, ShellStates, s, Append(q, "A"), t)
    BY <1>2, <2>0, <2>2, PathFacts
  <2> QED
    BY <2>1, <2>3, <2>4, <2>5, ReportsInv
<1>3. CASE ShellStarts
  <2>1. shell = NoShell /\ Reports(<<"M", "A">>, Prompt)
    BY <1>3 DEF ShellStarts
  <2>2. "M" \in ShellSays /\ "starting" \in ShellStates /\ <<NoShell, "M", "starting">> \in Turns /\ <<"starting", "A", Prompt>> \in Turns
    BY DEF ShellSays, ShellStates, Turns
  <2> QED
    BY <1>2, <2>1, <2>2
<1>4. ASSUME NEW c \in ShellCmds, RunsCommand(c) PROVE ShellInv'
  <2>1. shell = Prompt /\ Reports(<<c>>, c)
    BY <1>4 DEF RunsCommand
  <2>2. c \in ShellSays /\ <<Prompt, c, c>> \in Turns
    BY DEF ShellSays, Turns
  <2> QED
    BY <1>1, <2>1, <2>2
<1>5. CASE CommandEnds
  <2>1. shell \in ShellCmds /\ Reports(<<"D", "A">>, Prompt)
    BY <1>5 DEF CommandEnds
  <2>2. "D" \in ShellSays /\ "ended" \in ShellStates /\ <<shell, "D", "ended">> \in Turns /\ <<"ended", "A", Prompt>> \in Turns
    BY <2>1 DEF ShellSays, ShellStates, Turns
  <2> QED
    BY <1>2, <2>1, <2>2
<1>6. CASE ShellExits
  <2>1. shell # NoShell /\ Reports(<<"R">>, NoShell)
    BY <1>6 DEF ShellExits
  <2>2. "R" \in ShellSays /\ <<shell, "R", NoShell>> \in Turns
    BY <1>0, <2>1 DEF ShellSays, Turns, ShellType
  <2> QED
    BY <1>1, <2>1, <2>2
<1> QED
  BY <1>3, <1>4, <1>5, <1>6

LEMMA TakeReportInv == ShellInv /\ TakeReport => ShellInv'
<1> SUFFICES ASSUME ShellInv, TakeReport PROVE ShellInv'
  OBVIOUS
<1> DEFINE r == sequences[1]
<1>0. ShellType /\ sequences \in Seq(ShellSays) /\ updates \in Seq(Kept) /\ stored \in Infos /\ icon \in Icons
  BY DEF ShellInv, ShellType
<1>1. /\ loads > 0 /\ sequences # <<>> /\ Head(sequences) = r /\ sequences' = Tail(sequences) /\ r \in ShellSays
      /\ sequences' \in Seq(ShellSays) /\ UNCHANGED <<shell, stored, loads>>
  BY <1>0, Shortened DEF TakeReport
<1>2. PICK s \in ShellStates, m \in Infos:
        /\ Path(Turns, ShellStates, s, sequences, shell)
        /\ Path(Stores, Infos, stored, updates, m)
        /\ Integrates(m)
        /\ ~missed => (loads > 0 => IconFits(icon, s)) /\ InfoFits(m, s)
  BY DEF ShellInv
<1>3. PICK t \in ShellStates: <<s, r, t>> \in Turns /\ Path(Turns, ShellStates, t, Tail(sequences), shell)
  BY <1>0, <1>1, <1>2, PathFacts
<1>4. /\ Seen(icon, r) \in Icons
      /\ IconFits(icon, s) \/ Tells(r) => IconFits(Seen(icon, r), t)
      /\ r \in Kept => StoredOf(m, r) \in Infos
      /\ r \in Kept /\ (InfoFits(m, s) \/ (Tells(r) /\ m.integration)) => InfoFits(StoredOf(m, r), t)
      /\ r \in {"D", "R"} /\ InfoFits(m, s) => InfoFits(m, t)
      /\ r \in Kept \cup {"D", "R"} /\ (Tells(r) => r \in Kept)
  BY <1>0, <1>2, <1>3, ReportFits
<1>5. Path(Turns, ShellStates, t, sequences', shell')
  BY <1>1, <1>3
<1> HIDE DEF r
<1>6. CASE ~icon.loaded
  <2>1. missed' = TRUE /\ UNCHANGED <<icon, updates>>
    BY <1>1, <1>6 DEF TakeReport
  <2>2. ShellType'
    BY <1>0, <1>1, <2>1 DEF ShellType
  <2>3. Integrates(m)' /\ Path(Stores, Infos, stored', updates', m)
    BY <1>1, <1>2, <2>1 DEF Integrates
  <2> QED
    BY <1>5, <2>1, <2>2, <2>3 DEF ShellInv
<1>7. CASE icon.loaded /\ r \in {"D", "R"}
  <2>1. icon' = Seen(icon, r) /\ updates' = updates /\ (~missed' => ~missed)
    <3>1. icon' = Seen(icon, r) /\ updates' = updates
          /\ missed' = (missed /\ ~(Tells(r) /\ (stored.integration \/ Contains(updates, "M"))))
      BY <1>1, <1>7 DEF TakeReport
    <3>2. ~Tells(r)
      BY <1>7 DEF Tells, ShellCmds
    <3> QED
      BY <3>1, <3>2
  <2>2. missed' \in BOOLEAN
    BY <1>1, <1>7 DEF TakeReport
  <2>3. ShellType'
    BY <1>0, <1>1, <1>4, <2>1, <2>2 DEF ShellType
  <2>4. Integrates(m)' /\ Path(Stores, Infos, stored', updates', m)
    BY <1>1, <1>2, <2>1 DEF Integrates
  <2>5. ~missed' => IconFits(icon', t) /\ InfoFits(m, t)
    BY <1>1, <1>2, <1>4, <1>7, <2>1
  <2> QED
    BY <1>5, <2>3, <2>4, <2>5 DEF ShellInv
<1>8. CASE icon.loaded /\ r \notin {"D", "R"}
  <2> PICK n: n = StoredOf(m, r)
    OBVIOUS
  <2>0. r \in Kept
    BY <1>4, <1>8
  <2>1. /\ icon' = Seen(icon, r) /\ updates' = Append(updates, r)
        /\ missed' = (missed /\ ~(Tells(r) /\ (stored.integration \/ Contains(updates, "M"))))
    BY <1>1, <1>8 DEF TakeReport
  <2>2. /\ updates' \in Seq(Kept)
        /\ Contains(updates', "M") => Contains(updates, "M") \/ r = "M"
    BY <1>0, <2>0, <2>1, Appended DEF Contains
  <2>3. ShellType'
    BY <1>0, <1>1, <1>4, <2>1, <2>2 DEF ShellType
  <2>4. n \in Infos /\ <<m, r, n>> \in Stores /\ n.integration = (m.integration \/ r = "M")
    BY <1>2, <2>0, StoredFacts
  <2>5. Path(Stores, Infos, stored', updates', n)
    <3>1. Path(Stores, Infos, stored, Append(updates, r), n)
      BY <1>0, <1>2, <2>0, <2>4, PathFacts
    <3> QED
      BY <1>1, <2>1, <3>1
  <2>6. Integrates(n)'
    BY <1>1, <1>2, <2>2, <2>4 DEF Integrates
  <2>7. ~missed' => IconFits(icon', t) /\ InfoFits(n, t)
    BY <1>1, <1>2, <1>4, <2>0, <2>1 DEF Integrates
  <2> QED
    BY <1>5, <2>3, <2>4, <2>5, <2>6, <2>7 DEF ShellInv
<1> QED
  BY <1>6, <1>7, <1>8

LEMMA InfoStoredInv == ShellInv /\ InfoStored => ShellInv'
<1> SUFFICES ASSUME ShellInv, InfoStored PROVE ShellInv'
  OBVIOUS
<1> DEFINE r == updates[1]
<1>0. ShellType /\ updates \in Seq(Kept) /\ stored \in Infos
  BY DEF ShellInv, ShellType
<1>1. /\ updates # <<>> /\ Head(updates) = r /\ r \in Kept /\ updates' = Tail(updates) /\ updates' \in Seq(Kept)
      /\ stored' = StoredOf(stored, r) /\ UNCHANGED <<shell, sequences, icon, missed, loads>>
  BY <1>0, Shortened DEF InfoStored
<1>2. PICK s \in ShellStates, m \in Infos:
        /\ Path(Turns, ShellStates, s, sequences, shell)
        /\ Path(Stores, Infos, stored, updates, m)
        /\ Integrates(m)
        /\ ~missed => (loads > 0 => IconFits(icon, s)) /\ InfoFits(m, s)
  BY DEF ShellInv
<1>3. Path(Stores, Infos, stored', updates', m)
  <2>1. PICK n \in Infos: <<stored, r, n>> \in Stores /\ Path(Stores, Infos, n, Tail(updates), m)
    BY <1>0, <1>1, <1>2, PathFacts
  <2>2. n = StoredOf(stored, r)
    BY <1>0, <1>1, <2>1, StoredFacts
  <2> QED
    BY <1>1, <2>1, <2>2
<1>4. stored' \in Infos /\ stored'.integration = (stored.integration \/ r = "M")
  BY <1>0, <1>1, StoredFacts
<1>5. (Contains(updates', "M") => Contains(updates, "M")) /\ (r = "M" => Contains(updates, "M"))
  <2>1. /\ \A i \in 1 .. Len(Tail(updates)): i + 1 \in 1 .. Len(updates) /\ Tail(updates)[i] = updates[i + 1]
        /\ 1 \in 1 .. Len(updates)
    BY <1>0, <1>1, Shortened
  <2> QED
    BY <1>1, <2>1 DEF Contains
<1> HIDE DEF r
<1>6. ShellType'
  BY <1>0, <1>1, <1>4 DEF ShellType
<1>7. Integrates(m)'
  BY <1>2, <1>4, <1>5 DEF Integrates
<1> QED
  BY <1>1, <1>2, <1>3, <1>6, <1>7 DEF ShellInv

LEMMA InitTerminalInv == ShellInv /\ InitTerminal => ShellInv'
<1> SUFFICES ASSUME ShellInv, InitTerminal PROVE ShellInv'
  OBVIOUS
<1>0. ShellType /\ sequences \in Seq(ShellSays) /\ updates \in Seq(Kept) /\ stored \in Infos
  BY DEF ShellInv, ShellType
<1>1. /\ icon' = Restored(stored)
      /\ missed' = (sequences # <<>> \/ updates # <<>> \/ missed \/ (shell = NoShell /\ stored # NoInfo))
      /\ UNCHANGED <<shell, sequences, stored, updates>>
  BY DEF InitTerminal
<1>2. PICK s \in ShellStates, m \in Infos:
        /\ Path(Turns, ShellStates, s, sequences, shell)
        /\ Path(Stores, Infos, stored, updates, m)
        /\ Integrates(m)
        /\ ~missed => (loads > 0 => IconFits(icon, s)) /\ InfoFits(m, s)
  BY DEF ShellInv
<1>3. icon' \in Icons
  BY <1>0, <1>1 DEF Restored, NewIcon, Icons, Infos
<1>4. missed' \in BOOLEAN
  BY <1>1
<1>5. ShellType'
  BY <1>0, <1>1, <1>3, <1>4 DEF ShellType
<1>6. ASSUME ~missed' PROVE IconFits(icon', s) /\ InfoFits(m, s)
  <2>1. sequences = <<>> /\ updates = <<>> /\ ~missed /\ (shell = NoShell => stored = NoInfo)
    BY <1>1, <1>6
  <2>2. s = shell /\ m = stored
    BY <1>0, <1>2, <2>1, PathFacts
  <2>3. InfoFits(stored, shell)
    BY <1>2, <2>1, <2>2
  <2>4. CASE shell = NoShell
    <3>1. icon' = Restored(NoInfo)
      BY <1>1, <2>1, <2>4
    <3>2. icon'.status = "null" /\ ~icon'.claude
      BY <3>1 DEF Restored, NewIcon, NoInfo
    <3> QED
      BY <2>2, <2>3, <2>4, <3>2 DEF IconFits, NoShell, Prompt, ShellCmds
  <2>5. CASE shell = Prompt
    BY <1>1, <2>2, <2>3, <2>5 DEF IconFits, InfoFits, Restored, NewIcon, NoShell, Prompt, ShellCmds
  <2>6. CASE shell \in ShellCmds
    <3>1. stored.integration /\ stored.state = "running-command" /\ stored.cmd = Decoded(shell)
      BY <2>3, <2>6 DEF InfoFits, NoShell, ShellCmds
    <3>2. icon'.status = "running-command" /\ icon'.cmd = Decoded(shell) /\ icon'.claude = (Decoded(shell) = "claude")
      BY <1>1, <3>1 DEF Restored, NewIcon
    <3>3. (Decoded(shell) = "claude") = (shell = "claude")
      BY <2>6 DEF Decoded
    <3> QED
      BY <2>2, <2>3, <2>6, <3>2, <3>3 DEF IconFits, NoShell, Prompt, ShellCmds
  <2> QED
    BY <1>0, <2>4, <2>5, <2>6 DEF ShellType
<1>7. Integrates(m)'
  BY <1>1, <1>2 DEF Integrates
<1> QED
  BY <1>1, <1>2, <1>5, <1>6, <1>7 DEF ShellInv

LEMMA ShellRestInv ==
  ASSUME ShellInv, TerminalLoaded \/ UNCHANGED shellVars
  PROVE  ShellInv'
<1>1. /\ icon' = icon \/ icon' = [icon EXCEPT !.loaded = TRUE]
      /\ UNCHANGED <<shell, sequences, stored, updates, missed, loads>>
  BY DEF TerminalLoaded, shellVars
<1>2. icon' \in Icons /\ icon'.status = icon.status /\ icon'.cmd = icon.cmd /\ icon'.claude = icon.claude
  BY <1>1 DEF ShellInv, ShellType, Icons
<1>3. ShellType'
  BY <1>1, <1>2 DEF ShellInv, ShellType
<1>4. \A s: IconFits(icon, s) => IconFits(icon', s)
  BY <1>2 DEF IconFits
<1>5. \A m: Integrates(m) => Integrates(m)'
  BY <1>1 DEF Integrates
<1> QED
  BY <1>1, <1>3, <1>4, <1>5 DEF ShellInv

LEMMA ShellInvShows == ShellInv => ShellShown
<1> SUFFICES ASSUME ShellInv, loads > 0, sequences = <<>>, ~missed
             PROVE  /\ icon.status = CASE shell = NoShell -> "null"
                                       [] shell = Prompt  -> "ready"
                                       [] OTHER           -> "running-command"
                    /\ icon.claude <=> shell = "claude"
                    /\ IconSays = "inside a program" <=> shell = "vim"
  BY DEF ShellShown
<1>1. PICK s \in ShellStates: Path(Turns, ShellStates, s, sequences, shell) /\ IconFits(icon, s)
  BY DEF ShellInv
<1>2. <<>> \in Seq(ShellSays)
  OBVIOUS
<1>3. s = shell
  BY <1>1, <1>2, PathFacts
<1>4. IconFits(icon, shell) /\ shell \in {NoShell, Prompt} \cup ShellCmds /\ icon \in Icons
  BY <1>1, <1>3 DEF ShellInv, ShellType
<1>5. CASE shell = NoShell
  BY <1>4, <1>5 DEF IconFits, IconSays, NoShell, Prompt, ShellCmds, Icons
<1>6. CASE shell = Prompt
  BY <1>4, <1>6 DEF IconFits, IconSays, NoShell, Prompt, ShellCmds, Icons
<1>7. CASE shell \in ShellCmds
  <2>1. icon.status = "running-command" /\ icon.cmd = Decoded(shell) /\ icon.claude = (shell = "claude")
    BY <1>4, <1>7 DEF IconFits
  <2>2. IconSays = IF BlockingCommand(icon.cmd) THEN "inside a program" ELSE IF icon.claude THEN "claude" ELSE "busy"
    BY <2>1 DEF IconSays
  <2>3. BlockingCommand(icon.cmd) <=> shell = "vim"
    BY <1>7, <2>1 DEF BlockingCommand, Decoded, ShellCmds
  <2> QED
    BY <1>7, <2>1, <2>2, <2>3 DEF NoShell, Prompt, ShellCmds
<1> QED
  BY <1>4, <1>5, <1>6, <1>7

LEMMA ShellStepInv == ShellInv /\ [ShellNext]_shellVars => ShellInv'
<1>1. ShellInv /\ TakeReport => ShellInv'
  BY TakeReportInv
<1> QED
  BY <1>1, ShellReportsInv, InfoStoredInv, InitTerminalInv, ShellRestInv DEF ShellNext

\* Once the reports are read the view shows what the shell does, also the view made after
\* it from the info that was stored (termwrap.ts:415-434, osc-handlers.ts:309-366), unless
\* a report was made while a view was being loaded.
THEOREM ShellAlwaysShown == TermShellSpec => []ShellShown
<1>1. ShellInit => ShellInv
  BY ShellInitInv
<1>2. ShellInv /\ [ShellNext]_shellVars => ShellInv'
  BY ShellStepInv
<1>3. ShellInv => ShellShown
  BY ShellInvShows
<1> QED
  BY <1>1, <1>2, <1>3, PTL DEF TermShellSpec

-----------------------------------------------------------------------------
(* TermControl: the newest status is known or on its way, and so is the newest report *)

Codes == {0, 1}
Names == {"local", "other"}
CtlStates == {"init", "running", "done"}
Procs == {"asked", "forced", "starts", "runs", "ended", "none"}
Shells == [state: CtlStates, code: Codes, conn: Names, proc: Procs, due: Nat]
CtlStatuses == [version: Nat, state: CtlStates, code: Codes]
Views == [count: Nat, sized: BOOLEAN, version: Nat, state: CtlStates, code: Codes, busy: BOOLEAN,
          asked: BOOLEAN, conn: Names, lastConn: Names]
Commands == {"meta", "destroy", "resync"}
CtlTasks == [cmd: Commands, step: {"sent", "waits", "stopped", "creates"}, of: Nat, conn: Names,
             force: BOOLEAN, awaited: BOOLEAN]

\* What was told is older than the status stamped last, or that one.
ShellsType ==
  /\ shells \in Seq(Shells) /\ ctl \in [reg: Nat, last: Nat, said: CtlStatuses]
  /\ ctl.reg <= Len(shells) /\ ctl.last <= Len(shells) /\ ctl.said.version # 0
  /\ view \in Views /\ told \subseteq CtlStatuses
ToldFits ==
  /\ \A s \in told: s.version \in 2 .. ctl.said.version /\ (s.version = ctl.said.version => s = ctl.said)
  /\ view.version = 0 => view.state = "init"
  /\ view.version # 0 => view.version \in 2 .. ctl.said.version
  /\ view.version = ctl.said.version => view.state = ctl.said.state /\ view.code = ctl.said.code
\* The controller that stamped last is as it said, or has an update to send.
SaidFits ==
  /\ ctl.said.version >= 2 => ctl.last # 0
  /\ ctl.last # 0 => \/ shells[ctl.last].due > 0
                     \/ ctl.said.state = shells[ctl.last].state /\ ctl.said.code = shells[ctl.last].code
\* The view has the status stamped last, or will be told it, or is new and there is none.
Unheard == ctl.reg # 0 => shells[ctl.reg].state = "init" \/ shells[ctl.reg].due > 0
NewestComes ==
  Open => \/ view.version = ctl.said.version
          \/ ctl.said \in told
          \/ view.version = 0 /\ told = {} /\ (view.asked \/ Unheard)
ShownInv == ShellsType /\ ToldFits /\ SaidFits /\ NewestComes

TaskFits(t, n, f) == t \in CtlTasks /\ t.of <= n /\ (t.step = "waits" => t.of # 0)
                     /\ (t.cmd = "meta" => t.step = "sent") /\ (f = 0 => t.awaited)
TasksType ==
  /\ tasks \in Seq(CtlTasks) /\ fails \in Nat
  /\ \A i \in 1 .. Len(tasks): TaskFits(tasks[i], Len(shells), fails)
\* A controller that was deleted is about to be replaced.
StartComes ==
  Open /\ view.sized /\ fails = 0 => ctl.reg # 0 \/ \E i \in 1 .. Len(tasks): tasks[i].cmd = "resync"
TasksInv == TasksType /\ StartComes
CtlInv == ShownInv /\ TasksInv

\* What a step does to the controllers: nothing; or one is changed, and what changed of its
\* status is still to be sent; or one sends; or one is deleted; or one is made.
Fresh(k, c) == c \in Shells /\ (c.due > 0 \/ (c.state = shells[k].state /\ c.code = shells[k].code /\ c.due = shells[k].due))
ShellTurns == \E k \in 1 .. Len(shells): \E c \in Shells: Fresh(k, c) /\ TurnsTo(k, c)
ShellSends == \E k \in 1 .. Len(shells): \E c \in Shells: SendsUpdate(k, c)
ShellDeleted == shells' = shells /\ told' = told /\ ctl' = [ctl EXCEPT !.reg = 0]
ShellMade ==
  /\ told' = told /\ ctl' = [ctl EXCEPT !.reg = Len(shells) + 1]
  /\ \E c \in Shells: c.state = "init" /\ shells' = Append(shells, c)
Moves == UNCHANGED <<shells, ctl, told>> \/ ShellTurns \/ ShellSends \/ ShellDeleted \/ ShellMade
\* The view is told nothing and forgets nothing.
ViewStays ==
  /\ view' \in Views /\ view'.count = view.count /\ view'.version = view.version
  /\ view'.state = view.state /\ view'.code = view.code

LEMMA TurnsShown ==
  ASSUME ShownInv, ShellTurns, ViewStays, view'.asked = view.asked
  PROVE  ShownInv' /\ Len(shells') = Len(shells) /\ ctl' = ctl
<1>0. PICK k \in 1 .. Len(shells), c \in Shells: Fresh(k, c) /\ TurnsTo(k, c)
  BY DEF ShellTurns
<1>1. shells' = [shells EXCEPT ![k] = c] /\ ctl' = ctl /\ told' = told
  BY <1>0 DEF TurnsTo
<1>2. shells \in Seq(Shells) /\ ctl.reg \in Nat /\ ctl.last \in Nat /\ ctl.reg <= Len(shells) /\ ctl.last <= Len(shells)
  BY DEF ShownInv, ShellsType
<1>3. /\ shells' \in Seq(Shells) /\ Len(shells') = Len(shells)
      /\ \A j \in 1 .. Len(shells): shells'[j] = IF j = k THEN c ELSE shells[j]
  BY <1>1, <1>2
<1>4. c.due > 0 \/ (c.state = shells[k].state /\ c.code = shells[k].code /\ c.due = shells[k].due)
  BY <1>0 DEF Fresh
<1>5. ShellsType' /\ ToldFits'
  BY <1>1, <1>3 DEF ShownInv, ShellsType, ToldFits, ViewStays
<1>6. SaidFits'
  <2>1. ctl.last # 0 => ctl.last \in 1 .. Len(shells)
    BY <1>2
  <2> QED
    BY <1>1, <1>3, <1>4, <2>1 DEF ShownInv, SaidFits
<1>7. Unheard => Unheard'
  <2>1. ctl.reg # 0 => ctl.reg \in 1 .. Len(shells)
    BY <1>2
  <2> QED
    BY <1>1, <1>3, <1>4, <2>1 DEF Unheard
<1>8. NewestComes'
  BY <1>1, <1>7 DEF ShownInv, NewestComes, Open, ViewStays
<1> QED
  BY <1>1, <1>3, <1>5, <1>6, <1>8 DEF ShownInv

LEMMA SendsShown ==
  ASSUME ShownInv, ShellSends, ViewStays
  PROVE  ShownInv' /\ Len(shells') = Len(shells) /\ ctl'.reg = ctl.reg
<1>0. PICK k \in 1 .. Len(shells), c \in Shells: SendsUpdate(k, c)
  BY DEF ShellSends
<1>1. PICK s: s = Status(ctl.said.version + 1, c)
  OBVIOUS
<1>2. shells' = [shells EXCEPT ![k] = c] /\ ctl' = [ctl EXCEPT !.last = k, !.said = s] /\ told' = told \cup {s}
  BY <1>0, <1>1 DEF SendsUpdate
<1>3. /\ shells \in Seq(Shells) /\ ctl \in [reg: Nat, last: Nat, said: CtlStatuses] /\ told \subseteq CtlStatuses
      /\ ctl.reg <= Len(shells) /\ ctl.said.version \in Nat /\ ctl.said.version # 0 /\ Len(shells) \in Nat
  BY DEF ShownInv, ShellsType, CtlStatuses
<1>4. /\ shells' \in Seq(Shells) /\ Len(shells') = Len(shells) /\ shells'[k] = c
  BY <1>2, <1>3
<1>5. /\ s \in CtlStatuses /\ s.version = ctl.said.version + 1 /\ s.state = c.state /\ s.code = c.code
  BY <1>1, <1>3 DEF Status, CtlStatuses, Shells
<1>6. /\ ctl' \in [reg: Nat, last: Nat, said: CtlStatuses] /\ ctl'.reg = ctl.reg /\ ctl'.last = k /\ ctl'.said = s
  <2>1. k \in Nat
    BY <1>3
  <2>2. ctl' = [ctl EXCEPT !.last = k, !.said = s]
    BY <1>2
  <2> QED
    BY <1>3, <1>5, <2>1, <2>2
<1>7. ShellsType'
  BY <1>2, <1>3, <1>4, <1>5, <1>6 DEF ShellsType, ViewStays
<1>8. ToldFits'
  <2>1. \A x \in told: x.version \in 2 .. ctl.said.version
    BY DEF ShownInv, ToldFits
  <2>2. \A x \in told': x.version \in 2 .. s.version /\ (x.version = s.version => x = s)
    BY <1>2, <1>3, <1>5, <2>1
  <2>3. /\ view.version = 0 => view.state = "init"
        /\ view.version # 0 => view.version \in 2 .. ctl.said.version
    BY DEF ShownInv, ToldFits
  <2>4. view.version # 0 => view.version \in 2 .. s.version /\ view.version # s.version
    BY <1>3, <1>5, <2>3
  <2>5. view.version # s.version
    BY <1>3, <1>5, <2>4
  <2> QED
    BY <1>6, <2>2, <2>3, <2>4, <2>5 DEF ToldFits, ViewStays
<1>9. SaidFits'
  BY <1>4, <1>5, <1>6 DEF SaidFits
<1>10. NewestComes'
  BY <1>2, <1>6 DEF NewestComes
<1> QED
  BY <1>4, <1>6, <1>7, <1>8, <1>9, <1>10 DEF ShownInv

LEMMA DeletedShown ==
  ASSUME ShownInv, ShellDeleted, ViewStays, view'.asked = view.asked
  PROVE  ShownInv' /\ Len(shells') = Len(shells) /\ ctl'.reg = 0
<1>1. ctl \in [reg: Nat, last: Nat, said: CtlStatuses] /\ Len(shells) \in Nat
  BY DEF ShownInv, ShellsType
<1>2. /\ ctl' \in [reg: Nat, last: Nat, said: CtlStatuses] /\ ctl'.reg = 0 /\ ctl'.last = ctl.last /\ ctl'.said = ctl.said
      /\ shells' = shells /\ told' = told
  BY <1>1 DEF ShellDeleted
<1>3. ShellsType' /\ ToldFits' /\ SaidFits'
  BY <1>1, <1>2 DEF ShownInv, ShellsType, ToldFits, SaidFits, ViewStays
<1>4. NewestComes'
  BY <1>2 DEF ShownInv, NewestComes, Unheard, Open, ViewStays
<1> QED
  BY <1>2, <1>3, <1>4 DEF ShownInv

LEMMA MadeShown ==
  ASSUME ShownInv, ShellMade, ViewStays, view'.asked = view.asked
  PROVE  ShownInv' /\ Len(shells') = Len(shells) + 1 /\ ctl'.reg # 0
<1>0. PICK c \in Shells: c.state = "init" /\ shells' = Append(shells, c)
  BY DEF ShellMade
<1>1. /\ shells \in Seq(Shells) /\ ctl \in [reg: Nat, last: Nat, said: CtlStatuses] /\ Len(shells) \in Nat
      /\ ctl.last <= Len(shells)
  BY DEF ShownInv, ShellsType
<1>2. PICK n \in Nat: n = Len(shells)
  BY <1>1
<1>3. /\ shells' \in Seq(Shells) /\ Len(shells') = n + 1 /\ shells'[n + 1] = c
      /\ \A j \in 1 .. n: shells'[j] = shells[j]
  BY <1>0, <1>1, <1>2, Appended
<1>4. /\ ctl' \in [reg: Nat, last: Nat, said: CtlStatuses] /\ ctl'.reg = n + 1 /\ ctl'.last = ctl.last /\ ctl'.said = ctl.said
      /\ told' = told
  BY <1>1, <1>2 DEF ShellMade
<1>5. ShellsType' /\ ToldFits'
  BY <1>1, <1>2, <1>3, <1>4 DEF ShownInv, ShellsType, ToldFits, ViewStays
<1>6. SaidFits'
  <2>1. ctl.last # 0 => ctl.last \in 1 .. n
    BY <1>1, <1>2
  <2> QED
    BY <1>3, <1>4, <2>1 DEF ShownInv, SaidFits
<1>7. Unheard'
  BY <1>0, <1>3, <1>4 DEF Unheard
<1>8. NewestComes'
  BY <1>4, <1>7 DEF ShownInv, NewestComes, Open, ViewStays
<1> QED
  BY <1>2, <1>3, <1>4, <1>5, <1>6, <1>8 DEF ShownInv

LEMMA MovesShown ==
  ASSUME ShownInv, Moves, ViewStays, view'.asked = view.asked
  PROVE  ShownInv' /\ Len(shells') \in Nat /\ Len(shells) \in Nat /\ Len(shells') >= Len(shells)
<1>1. Len(shells) \in Nat
  BY DEF ShownInv, ShellsType
<1>2. CASE UNCHANGED <<shells, ctl, told>>
  <2>1. ShellsType' /\ ToldFits' /\ SaidFits'
    BY <1>2 DEF ShownInv, ShellsType, ToldFits, SaidFits, ViewStays
  <2>2. NewestComes'
    BY <1>2 DEF ShownInv, NewestComes, Unheard, Open, ViewStays
  <2> QED
    BY <1>1, <1>2, <2>1, <2>2 DEF ShownInv
<1> QED
  BY <1>1, <1>2, TurnsShown, SendsShown, DeletedShown, MadeShown DEF Moves

LEMMA CtlInitInv == CtlInit => CtlInv
<1> SUFFICES ASSUME CtlInit PROVE CtlInv
  OBVIOUS
<1>0. told = {} /\ tasks = <<>> /\ fails = 0 /\ view = [NewView(0, "local") EXCEPT !.asked = FALSE]
  BY DEF CtlInit
<1>1. view \in Views /\ view.count = 0 /\ view.version = 0 /\ view.state = "init"
  BY <1>0 DEF NewView, Views, Codes, Names, CtlStates
<1>2. ~Open
  BY <1>1 DEF Open
<1>3. /\ shells \in Seq(Shells) /\ ctl \in [reg: Nat, last: Nat, said: CtlStatuses]
      /\ ctl.reg <= Len(shells) /\ ctl.last <= Len(shells) /\ ctl.said.version = 1
      /\ ctl.last # 0 => ctl.said.state = shells[ctl.last].state /\ ctl.said.code = shells[ctl.last].code
  <2>1. CASE shells = <<>> /\ ctl = [reg |-> 0, last |-> 0, said |-> [version |-> 1, state |-> "init", code |-> 0]]
    BY <2>1 DEF CtlStatuses, CtlStates, Codes
  <2>2. ASSUME NEW s \in {"running", "done"}, NEW c, c = [NewController(FALSE, "local") EXCEPT !.state = s, !.proc = IF s = "running" THEN "runs" ELSE "none"],
               shells = <<c>>, ctl = [reg |-> 1, last |-> 1, said |-> [version |-> 1, state |-> s, code |-> 0]]
        PROVE  /\ shells \in Seq(Shells) /\ ctl \in [reg: Nat, last: Nat, said: CtlStatuses]
               /\ ctl.reg <= Len(shells) /\ ctl.last <= Len(shells) /\ ctl.said.version = 1
               /\ ctl.last # 0 => ctl.said.state = shells[ctl.last].state /\ ctl.said.code = shells[ctl.last].code
    <3>1. c \in Shells /\ c.state = s /\ c.code = 0
      BY <2>2 DEF NewController, Shells, CtlStates, Codes, Names, Procs
    <3>2. shells \in Seq(Shells) /\ Len(shells) = 1 /\ shells[1] = c
      BY <2>2, <3>1
    <3>3. ctl \in [reg: Nat, last: Nat, said: CtlStatuses] /\ ctl.reg = 1 /\ ctl.last = 1
          /\ ctl.said.version = 1 /\ ctl.said.state = s /\ ctl.said.code = 0
      BY <2>2 DEF CtlStatuses, CtlStates, Codes
    <3> QED
      BY <3>1, <3>2, <3>3
  <2> QED
    BY <2>1, <2>2 DEF CtlInit
<1>4. ShownInv
  <2>1. ShellsType
    BY <1>0, <1>1, <1>3 DEF ShellsType
  <2>2. ToldFits
    BY <1>0, <1>1, <1>3 DEF ToldFits
  <2>3. SaidFits
    BY <1>3 DEF SaidFits
  <2>4. NewestComes
    BY <1>2 DEF NewestComes
  <2> QED
    BY <2>1, <2>2, <2>3, <2>4 DEF ShownInv
<1>5. TasksInv
  BY <1>0, <1>2 DEF TasksInv, TasksType, StartComes
<1> QED
  BY <1>4, <1>5 DEF CtlInv

\* The commands under way.
HasResync == \E i \in 1 .. Len(tasks): tasks[i].cmd = "resync"
Grown == Len(shells') \in Nat /\ Len(shells) \in Nat /\ Len(shells') >= Len(shells)

LEMMA FitsOn ==
  ASSUME NEW t, NEW n \in Nat, NEW m \in Nat, n <= m, NEW f \in Nat, NEW g \in Nat, g = f \/ g # 0, TaskFits(t, n, f)
  PROVE  TaskFits(t, m, g)
  BY DEF TaskFits, CtlTasks

LEMMA TaskChanged ==
  ASSUME TasksType, Grown, NEW i \in 1 .. Len(tasks), NEW t, TaskFits(t, Len(shells'), fails'),
         fails' = fails \/ fails' # 0, fails' \in Nat, tasks' = [tasks EXCEPT ![i] = t]
  PROVE  /\ TasksType' /\ Len(tasks') = Len(tasks) /\ Len(tasks) \in Nat
         /\ \A j \in 1 .. Len(tasks): tasks'[j] = IF j = i THEN t ELSE tasks[j]
<1>1. t \in CtlTasks /\ tasks \in Seq(CtlTasks) /\ fails \in Nat
  BY DEF TaskFits, TasksType
<1>2. /\ tasks' \in Seq(CtlTasks) /\ Len(tasks') = Len(tasks) /\ Len(tasks) \in Nat
      /\ \A j \in 1 .. Len(tasks): tasks'[j] = IF j = i THEN t ELSE tasks[j]
  BY <1>1
<1>3. ASSUME NEW j \in 1 .. Len(tasks) PROVE TaskFits(tasks'[j], Len(shells'), fails')
  <2>1. TaskFits(tasks[j], Len(shells), fails)
    BY DEF TasksType
  <2>2. TaskFits(tasks[j], Len(shells'), fails')
    BY <1>1, <2>1, FitsOn DEF Grown
  <2> QED
    BY <1>2, <2>2
<1> QED
  BY <1>2, <1>3 DEF TasksType

LEMMA TaskRemoved ==
  ASSUME TasksType, Grown, NEW i \in 1 .. Len(tasks), fails' = fails \/ fails' # 0, fails' \in Nat,
         tasks' = RemoveAt(tasks, i)
  PROVE  TasksType' /\ (HasResync /\ tasks[i].cmd # "resync" => HasResync')
<1>1. tasks \in Seq(CtlTasks) /\ fails \in Nat
  BY DEF TasksType
<1>2. /\ tasks' \in Seq(CtlTasks)
      /\ \A j \in 1 .. Len(tasks'): \E k \in 1 .. Len(tasks): tasks'[j] = tasks[k]
      /\ \A k \in 1 .. Len(tasks): k # i => \E j \in 1 .. Len(tasks'): tasks'[j] = tasks[k]
  BY <1>1, RemoveAtFacts
<1>3. ASSUME NEW j \in 1 .. Len(tasks') PROVE TaskFits(tasks'[j], Len(shells'), fails')
  <2>1. PICK k \in 1 .. Len(tasks): tasks'[j] = tasks[k]
    BY <1>2
  <2>2. TaskFits(tasks[k], Len(shells), fails)
    BY DEF TasksType
  <2>3. TaskFits(tasks[k], Len(shells'), fails')
    BY <1>1, <2>2, FitsOn DEF Grown
  <2> QED
    BY <2>1, <2>3
<1>4. ASSUME HasResync, tasks[i].cmd # "resync" PROVE HasResync'
  <2>1. PICK k \in 1 .. Len(tasks): tasks[k].cmd = "resync"
    BY <1>4 DEF HasResync
  <2>2. PICK j \in 1 .. Len(tasks'): tasks'[j] = tasks[k]
    BY <1>2, <1>4, <2>1
  <2> QED
    BY <2>1, <2>2 DEF HasResync
<1> QED
  BY <1>2, <1>3, <1>4 DEF TasksType

\* The command was answered: the next one is sent, if the page goes on to one.
LEMMA AnsweredTasks ==
  ASSUME TasksType, Grown, NEW i \in 1 .. Len(tasks), Answered(i), fails' = fails
  PROVE  /\ TasksType'
         /\ HasResync /\ tasks[i].cmd # "resync" => HasResync'
         /\ fails = 0 /\ tasks[i].cmd = "destroy" => HasResync'
<1>0. /\ tasks[i] \in CtlTasks /\ fails \in Nat /\ fails' \in Nat /\ (fails = 0 => tasks[i].awaited)
      /\ tasks[i].cmd \in Commands
  BY DEF TasksType, TaskFits, CtlTasks
<1>1. CASE tasks[i].awaited /\ NextCommand(tasks[i].cmd) # "end"
  <2>1. PICK c: c = NextCommand(tasks[i].cmd)
    OBVIOUS
  <2>2. c \in {"destroy", "resync"} /\ (tasks[i].cmd = "destroy" => c = "resync")
    BY <1>0, <1>1, <2>1 DEF NextCommand, Commands
  <2>3. PICK t: t = Command(c, TRUE)
    OBVIOUS
  <2>4. tasks' = [tasks EXCEPT ![i] = t]
    BY <1>1, <2>1, <2>3 DEF Answered
  <2>5. t \in CtlTasks /\ t.cmd = c /\ t.of = 0 /\ t.step = "sent" /\ t.awaited
    BY <2>2, <2>3 DEF Command, CtlTasks, Commands, Names
  <2>6. TaskFits(t, Len(shells'), fails')
    BY <2>5 DEF TaskFits, Grown
  <2>7. /\ TasksType' /\ Len(tasks') = Len(tasks)
        /\ \A j \in 1 .. Len(tasks): tasks'[j] = IF j = i THEN t ELSE tasks[j]
    BY <1>0, <2>4, <2>6, TaskChanged
  <2> QED
    BY <2>2, <2>5, <2>7 DEF HasResync
<1>2. CASE ~(tasks[i].awaited /\ NextCommand(tasks[i].cmd) # "end")
  <2>1. tasks' = RemoveAt(tasks, i)
    BY <1>2 DEF Answered
  <2>2. ~(fails = 0 /\ tasks[i].cmd = "destroy")
    BY <1>0, <1>2 DEF NextCommand
  <2> QED
    BY <1>0, <2>1, <2>2, TaskRemoved
<1> QED
  BY <1>1, <1>2

\* The command comes to its next step.
LEMMA AtTasks ==
  ASSUME TasksType, Grown, NEW i \in 1 .. Len(tasks), NEW k \in Nat, k <= Len(shells'),
         NEW step \in {"waits", "stopped", "creates"}, step = "waits" => k # 0,
         At(i, step, k), fails' = fails, view \in Views, tasks[i].cmd # "meta"
  PROVE  /\ TasksType' /\ (HasResync => HasResync')
         /\ tasks[i].cmd = "resync" => HasResync'
<1>0. /\ tasks[i] \in CtlTasks /\ fails' \in Nat /\ (fails = 0 => tasks[i].awaited) /\ view.conn \in Names
  BY DEF TasksType, TaskFits, Views
<1>1. PICK c: c = IF tasks[i].step = "sent" THEN view.conn ELSE tasks[i].conn
  OBVIOUS
<1>2. PICK t: t = [tasks[i] EXCEPT !.step = step, !.of = k, !.conn = c]
  OBVIOUS
<1>3. c \in Names
  BY <1>0, <1>1 DEF CtlTasks
<1>4. t \in CtlTasks /\ t.step = step /\ t.of = k /\ t.awaited = tasks[i].awaited /\ t.cmd = tasks[i].cmd
  BY <1>0, <1>2, <1>3 DEF CtlTasks
<1>5. TaskFits(t, Len(shells'), fails')
  BY <1>0, <1>4 DEF TaskFits
<1>6. tasks' = [tasks EXCEPT ![i] = t]
  BY <1>1, <1>2 DEF At
<1>7. /\ TasksType' /\ Len(tasks') = Len(tasks)
      /\ \A j \in 1 .. Len(tasks): tasks'[j] = IF j = i THEN t ELSE tasks[j]
  BY <1>0, <1>5, <1>6, TaskChanged
<1> QED
  BY <1>4, <1>7 DEF HasResync

LEMMA TasksKept ==
  ASSUME TasksType, Grown, UNCHANGED <<tasks, fails>>
  PROVE  TasksType'
<1>1. \A i \in 1 .. Len(tasks): TaskFits(tasks[i], Len(shells'), fails')
  BY FitsOn DEF TasksType, Grown
<1> QED
  BY <1>1 DEF TasksType

\* The goroutines of a controller.
LEMMA GoroutineInv ==
  ASSUME CtlInv, NEW k \in 1 .. Len(shells),
         RunBegins(k) \/ ProcessStarts(k) \/ ProcessEnds(k) \/ UpdateSent(k)
         \/ \E code \in {0, Killed} : WaitLoopDone(k, code)
  PROVE  CtlInv'
<1>0. shells \in Seq(Shells) /\ shells[k] \in Shells /\ view \in Views
  BY DEF CtlInv, ShownInv, ShellsType
<1>1. PICK s: s = shells[k]
  OBVIOUS
<1>2. s \in Shells /\ s.due \in Nat
  BY <1>0, <1>1 DEF Shells
<1>3. UNCHANGED <<view, tasks, fails>>
  BY DEF RunBegins, ProcessStarts, ProcessEnds, UpdateSent, WaitLoopDone
<1>4. ShellTurns \/ ShellSends
  <2>1. CASE RunBegins(k)
    <3>1. PICK p: p = IF s.proc = "forced" \/ s.state = "init" THEN "starts" ELSE "none"
      OBVIOUS
    <3>2. PICK c: c = [s EXCEPT !.proc = p]
      OBVIOUS
    <3>3. c \in Shells /\ c.state = s.state /\ c.code = s.code /\ c.due = s.due
      BY <1>2, <3>1, <3>2 DEF Shells, Procs
    <3>4. TurnsTo(k, c)
      BY <1>1, <2>1, <3>1, <3>2 DEF RunBegins
    <3> QED
      BY <1>1, <3>3, <3>4 DEF ShellTurns, Fresh
  <2>2. CASE ProcessStarts(k)
    <3>1. CASE TurnsTo(k, [s EXCEPT !.proc = "runs", !.state = "running", !.due = @ + 1])
      <4>1. PICK c: c = [s EXCEPT !.proc = "runs", !.state = "running", !.due = @ + 1]
        OBVIOUS
      <4>2. c \in Shells /\ c.due > 0
        <5>1. PICK d \in Nat: d = s.due + 1 /\ d > 0
          BY <1>2
        <5>2. c = [s EXCEPT !.proc = "runs", !.state = "running", !.due = d]
          BY <4>1, <5>1
        <5>3. c \in Shells /\ c.due = d
          BY <1>2, <5>2 DEF Shells, Procs, CtlStates
        <5> QED
          BY <5>1, <5>3
      <4> QED
        BY <3>1, <4>1, <4>2 DEF ShellTurns, Fresh
    <3>2. CASE TurnsTo(k, [s EXCEPT !.proc = "none"])
      <4>1. PICK c: c = [s EXCEPT !.proc = "none"]
        OBVIOUS
      <4>2. c \in Shells /\ c.state = s.state /\ c.code = s.code /\ c.due = s.due
        BY <1>2, <4>1 DEF Shells, Procs
      <4> QED
        BY <1>1, <3>2, <4>1, <4>2 DEF ShellTurns, Fresh
    <3> QED
      BY <1>1, <2>2, <3>1, <3>2 DEF ProcessStarts
  <2>3. CASE ProcessEnds(k)
    <3>1. PICK c: c = [s EXCEPT !.proc = "ended"]
      OBVIOUS
    <3>2. c \in Shells /\ c.state = s.state /\ c.code = s.code /\ c.due = s.due
      BY <1>2, <3>1 DEF Shells, Procs
    <3>3. TurnsTo(k, c)
      BY <1>1, <2>3, <3>1 DEF ProcessEnds
    <3> QED
      BY <1>1, <3>2, <3>3 DEF ShellTurns, Fresh
  <2>4. CASE UpdateSent(k)
    <3>1. PICK c: c = [s EXCEPT !.due = @ - 1]
      OBVIOUS
    <3>2. c \in Shells
      BY <1>1, <1>2, <2>4, <3>1 DEF Shells, UpdateSent
    <3>3. SendsUpdate(k, c)
      BY <1>1, <2>4, <3>1 DEF UpdateSent
    <3> QED
      BY <3>2, <3>3 DEF ShellSends
  <2>5. ASSUME NEW code \in {0, Killed}, WaitLoopDone(k, code) PROVE ShellTurns
    <3>1. PICK st: st = IF s.state = "running" THEN "done" ELSE s.state
      OBVIOUS
    <3>2. PICK c: c = [s EXCEPT !.proc = "none", !.state = st, !.code = code, !.due = @ + 1]
      OBVIOUS
    <3>3. st \in CtlStates /\ code \in Codes
      BY <1>2, <3>1 DEF Shells, CtlStates, Codes, Killed
    <3>4. c \in Shells /\ c.due > 0
      <4>1. PICK d \in Nat: d = s.due + 1 /\ d > 0
        BY <1>2
      <4>2. c = [s EXCEPT !.proc = "none", !.state = st, !.code = code, !.due = d]
        BY <3>2, <4>1
      <4>3. c \in Shells /\ c.due = d
        BY <1>2, <3>3, <4>2 DEF Shells, Procs
      <4> QED
        BY <4>1, <4>3
    <3>5. TurnsTo(k, c)
      BY <1>1, <2>5, <3>1, <3>2 DEF WaitLoopDone
    <3> QED
      BY <3>4, <3>5 DEF ShellTurns, Fresh
  <2> QED
    BY <2>1, <2>2, <2>3, <2>4, <2>5
<1>5. ViewStays /\ view'.asked = view.asked
  BY <1>0, <1>3 DEF ViewStays
<1>6. ShownInv' /\ Len(shells') = Len(shells) /\ ctl'.reg = ctl.reg
  BY <1>4, <1>5, TurnsShown, SendsShown DEF CtlInv
<1>7. TasksType'
  BY <1>0, <1>3, <1>6, TasksKept DEF CtlInv, TasksInv, Grown
<1>8. StartComes'
  BY <1>3, <1>6 DEF CtlInv, TasksInv, StartComes, Open
<1> QED
  BY <1>6, <1>7, <1>8 DEF CtlInv, TasksInv

LEMMA AnswerInv ==
  ASSUME CtlInv, AnswerStatus
  PROVE  CtlInv'
<1>0. /\ shells \in Seq(Shells) /\ view \in Views /\ ctl.reg \in Nat /\ ctl.reg <= Len(shells) /\ Len(shells) \in Nat
  BY DEF CtlInv, ShownInv, ShellsType
<1>1. view' = [view EXCEPT !.asked = FALSE] /\ UNCHANGED <<tasks, fails>>
  BY DEF AnswerStatus
<1>2. /\ ViewStays /\ view'.sized = view.sized /\ view'.asked = FALSE
  BY <1>0, <1>1 DEF ViewStays, Views
<1>3. ShownInv' /\ Len(shells') = Len(shells) /\ ctl'.reg = ctl.reg
  <2>1. CASE ctl.reg # 0
    <3>1. ctl.reg \in 1 .. Len(shells) /\ shells[ctl.reg] \in Shells
      BY <1>0, <2>1
    <3>2. ShellSends
      BY <2>1, <3>1 DEF AnswerStatus, ShellSends
    <3> QED
      BY <1>2, <3>2, SendsShown DEF CtlInv
  <2>2. CASE ctl.reg = 0
    <3>1. UNCHANGED <<shells, ctl, told>>
      BY <2>2 DEF AnswerStatus
    <3>2. ShellsType' /\ ToldFits' /\ SaidFits'
      BY <1>2, <3>1 DEF CtlInv, ShownInv, ShellsType, ToldFits, SaidFits, ViewStays
    <3>3. NewestComes'
      BY <1>2, <2>2, <3>1 DEF CtlInv, ShownInv, NewestComes, Unheard, Open, ViewStays
    <3> QED
      BY <3>1, <3>2, <3>3 DEF ShownInv
  <2> QED
    BY <2>1, <2>2
<1>4. TasksType'
  BY <1>0, <1>1, <1>3, TasksKept DEF CtlInv, TasksInv, Grown
<1>5. StartComes'
  BY <1>1, <1>2, <1>3 DEF CtlInv, TasksInv, StartComes, Open, ViewStays
<1> QED
  BY <1>3, <1>4, <1>5 DEF CtlInv, TasksInv

\* A command: what it does to the controllers is one of the moves, and the view stays.
LEMMA CommandShown ==
  ASSUME CtlInv, Moves, UNCHANGED view
  PROVE  ShownInv' /\ Grown /\ view \in Views /\ (Open' <=> Open) /\ view'.sized = view.sized
<1>1. view \in Views /\ ViewStays /\ view'.asked = view.asked
  BY DEF CtlInv, ShownInv, ShellsType, ViewStays
<1> QED
  BY <1>1, MovesShown DEF CtlInv, Grown, Open

LEMMA StopsMoves ==
  ASSUME CtlInv, ctl.reg # 0, NEW i \in 1 .. Len(tasks), Stops(i)
  PROVE  /\ Moves /\ ctl'.reg = ctl.reg /\ Len(shells') = Len(shells)
         /\ \E k \in Nat, step \in {"waits", "stopped"}: k <= Len(shells) /\ (step = "waits" => k # 0) /\ At(i, step, k)
<1>0. /\ shells \in Seq(Shells) /\ ctl \in [reg: Nat, last: Nat, said: CtlStatuses] /\ ctl.reg \in 1 .. Len(shells)
      /\ Len(shells) \in Nat
  BY DEF CtlInv, ShownInv, ShellsType
<1>1. PICK k \in 1 .. Len(shells): k = ctl.reg
  BY <1>0
<1>2. shells[k] \in Shells /\ k \in Nat /\ k # 0 /\ 0 \in Nat /\ k <= Len(shells) /\ 0 <= Len(shells)
  BY <1>0
<1>3. CASE shells[k].state = "running"
  <2>1. At(i, "waits", k) /\ UNCHANGED <<shells, ctl, told>>
    BY <1>1, <1>3 DEF Stops
  <2> QED
    BY <1>2, <2>1 DEF Moves
<1>4. CASE shells[k].state = "init"
  <2>1. PICK c: c = [shells[k] EXCEPT !.state = "done"]
    OBVIOUS
  <2>2. c \in Shells
    BY <1>2, <2>1 DEF Shells, CtlStates
  <2>3. At(i, "stopped", 0) /\ SendsUpdate(k, c)
    BY <1>1, <1>4, <2>1 DEF Stops
  <2>4. ctl'.reg = ctl.reg /\ Len(shells') = Len(shells)
    BY <1>0, <2>3 DEF SendsUpdate
  <2>5. Moves
    BY <2>2, <2>3 DEF Moves, ShellSends
  <2> QED
    BY <1>2, <2>3, <2>4, <2>5
<1>5. CASE shells[k].state # "running" /\ shells[k].state # "init"
  <2>1. At(i, "stopped", 0) /\ UNCHANGED <<shells, ctl, told>>
    BY <1>1, <1>5 DEF Stops
  <2> QED
    BY <1>2, <2>1 DEF Moves
<1> QED
  BY <1>3, <1>4, <1>5

LEMMA DestroyInv ==
  ASSUME CtlInv, NEW i \in 1 .. Len(tasks), MetaSet(i) \/ DestroyBegins(i)
  PROVE  CtlInv'
<1>0. TasksType /\ StartComes
  BY DEF CtlInv, TasksInv
<1>1. CASE MetaSet(i) \/ (DestroyBegins(i) /\ ctl.reg = 0)
  <2>1. UNCHANGED <<shells, ctl, view, told, fails>> /\ Answered(i)
    BY <1>1 DEF MetaSet, DestroyBegins
  <2>2. ShownInv' /\ Grown /\ (Open' <=> Open) /\ view'.sized = view.sized
    BY <2>1, CommandShown DEF Moves
  <2>3. tasks[i].cmd # "resync"
    BY <1>1 DEF MetaSet, DestroyBegins
  <2>4. TasksType' /\ (HasResync => HasResync')
    BY <1>0, <2>1, <2>2, <2>3, AnsweredTasks
  <2>5. StartComes'
    BY <1>0, <2>1, <2>2, <2>4 DEF StartComes, HasResync
  <2> QED
    BY <2>2, <2>4, <2>5 DEF CtlInv, TasksInv
<1>2. CASE DestroyBegins(i) /\ ctl.reg # 0
  <2>1. Stops(i) /\ UNCHANGED <<view, fails>>
    BY <1>2 DEF DestroyBegins
  <2>2. Moves /\ ctl'.reg = ctl.reg /\ Len(shells') = Len(shells)
    BY <1>2, <2>1, StopsMoves
  <2>3. PICK k \in Nat, step \in {"waits", "stopped"}: k <= Len(shells) /\ (step = "waits" => k # 0) /\ At(i, step, k)
    BY <1>2, <2>1, StopsMoves
  <2>4. ShownInv' /\ Grown /\ view \in Views /\ (Open' <=> Open) /\ view'.sized = view.sized
    BY <2>1, <2>2, CommandShown
  <2>9. tasks[i].cmd # "meta"
    BY <1>2 DEF DestroyBegins
  <2>5. TasksType'
    BY <1>0, <2>1, <2>2, <2>3, <2>4, <2>9, AtTasks
  <2>6. StartComes'
    BY <1>2, <2>2 DEF StartComes
  <2> QED
    BY <2>4, <2>5, <2>6 DEF CtlInv, TasksInv
<1> QED
  BY <1>1, <1>2

LEMMA StopInv ==
  ASSUME CtlInv, NEW i \in 1 .. Len(tasks), StopWaited(i) \/ ControllerDeleted(i)
  PROVE  CtlInv'
<1>0. /\ TasksType /\ StartComes /\ tasks[i].cmd \in Commands /\ tasks[i].of <= Len(shells) /\ tasks[i].of \in Nat
      /\ tasks[i].step = "waits" => tasks[i].of # 0
      /\ Len(shells) \in Nat /\ shells \in Seq(Shells) /\ ctl \in [reg: Nat, last: Nat, said: CtlStatuses]
  BY DEF CtlInv, TasksInv, TasksType, TaskFits, CtlTasks, ShownInv, ShellsType
<1>3. tasks[i].cmd # "meta"
  BY DEF CtlInv, TasksInv, TasksType, TaskFits, StopWaited, ControllerDeleted
<1>1. CASE StopWaited(i)
  <2>1. PICK k \in 1 .. Len(shells): k = tasks[i].of
    BY <1>0, <1>1 DEF StopWaited
  <2>2. PICK c: c = [shells[k] EXCEPT !.state = "done"]
    OBVIOUS
  <2>10. shells[k] \in Shells
    BY <1>0
  <2>3. c \in Shells
    BY <2>10, <2>2 DEF Shells, CtlStates
  <2>4. SendsUpdate(k, c) /\ At(i, "stopped", 0) /\ UNCHANGED <<view, fails>>
    BY <1>1, <2>1, <2>2 DEF StopWaited
  <2>5. Moves /\ ctl'.reg = ctl.reg
    BY <1>0, <2>3, <2>4 DEF Moves, ShellSends, SendsUpdate
  <2>6. ShownInv' /\ Grown /\ view \in Views /\ (Open' <=> Open) /\ view'.sized = view.sized
    BY <2>4, <2>5, CommandShown
  <2>7. 0 \in Nat /\ 0 <= Len(shells')
    BY <2>6 DEF Grown
  <2>8. TasksType' /\ (HasResync => HasResync')
    BY <1>0, <1>3, <2>4, <2>6, <2>7, AtTasks
  <2>9. StartComes'
    BY <1>0, <2>4, <2>5, <2>6, <2>8 DEF StartComes, HasResync
  <2> QED
    BY <2>6, <2>8, <2>9 DEF CtlInv, TasksInv
<1>2. CASE ControllerDeleted(i)
  <2>1. UNCHANGED <<shells, view, told, fails>> /\ ShellDeleted
    BY <1>2 DEF ControllerDeleted, ShellDeleted
  <2>2. ShownInv' /\ Grown /\ view \in Views /\ (Open' <=> Open) /\ view'.sized = view.sized
    BY <2>1, CommandShown DEF Moves
  <2>3. 0 \in Nat /\ 0 <= Len(shells')
    BY <2>2 DEF Grown
  <2>4. CASE tasks[i].cmd = "destroy"
    <3>1. Answered(i)
      BY <1>2, <2>4 DEF ControllerDeleted
    <3>2. TasksType' /\ (fails = 0 => HasResync')
      BY <1>0, <2>1, <2>2, <2>4, <3>1, AnsweredTasks
    <3> QED
      BY <2>1, <2>2, <3>2 DEF StartComes, HasResync, CtlInv, TasksInv
  <2>5. CASE tasks[i].cmd # "destroy"
    <3>1. At(i, "creates", 0)
      BY <1>2, <2>5 DEF ControllerDeleted
    <3>2. TasksType' /\ (HasResync => HasResync') /\ (tasks[i].cmd = "resync" => HasResync')
      BY <1>0, <1>3, <2>1, <2>2, <2>3, <3>1, AtTasks
    <3>3. tasks[i].cmd = "resync"
      BY <1>0, <1>3, <2>5 DEF Commands
    <3> QED
      BY <2>2, <3>2, <3>3 DEF StartComes, HasResync, CtlInv, TasksInv
  <2> QED
    BY <2>4, <2>5
<1> QED
  BY <1>1, <1>2

LEMMA ResyncInv ==
  ASSUME CtlInv, NEW i \in 1 .. Len(tasks), ResyncBegins(i)
  PROVE  CtlInv'
<1>0. /\ TasksType /\ StartComes /\ Len(shells) \in Nat /\ shells \in Seq(Shells) /\ ctl.reg \in Nat /\ ctl.reg <= Len(shells)
  BY DEF CtlInv, TasksInv, ShownInv, ShellsType
<1>1. UNCHANGED <<view, fails>> /\ tasks[i].cmd = "resync"
  BY DEF ResyncBegins
<1>2. CASE ctl.reg = 0
  <2>1. At(i, "creates", 0) /\ UNCHANGED <<shells, ctl, told>>
    BY <1>2 DEF ResyncBegins
  <2>2. ShownInv' /\ Grown /\ view \in Views
    BY <1>1, <2>1, CommandShown DEF Moves
  <2>3. 0 \in Nat /\ 0 <= Len(shells')
    BY <2>2 DEF Grown
  <2>4. TasksType' /\ HasResync'
    BY <1>0, <1>1, <2>1, <2>2, <2>3, AtTasks
  <2> QED
    BY <2>2, <2>4 DEF StartComes, HasResync, CtlInv, TasksInv
<1>3. ASSUME ctl.reg # 0, Answered(i),
             \/ TurnsTo(ctl.reg, [shells[ctl.reg] EXCEPT !.proc = "asked"])
             \/ UNCHANGED <<shells, ctl, told>>
      PROVE  CtlInv'
  <2>1. PICK k \in 1 .. Len(shells): k = ctl.reg
    BY <1>0, <1>3
  <2>2. PICK c: c = [shells[k] EXCEPT !.proc = "asked"]
    OBVIOUS
  <2>10. shells[k] \in Shells
    BY <1>0
  <2>3. c \in Shells /\ c.state = shells[k].state /\ c.code = shells[k].code /\ c.due = shells[k].due
    BY <2>10, <2>2 DEF Shells, Procs
  <2>4. Moves /\ ctl' = ctl
    BY <1>3, <2>1, <2>2, <2>3 DEF Moves, ShellTurns, Fresh, TurnsTo
  <2>5. ShownInv' /\ Grown
    BY <1>1, <2>4, CommandShown
  <2>6. TasksType'
    BY <1>0, <1>1, <1>3, <2>5, AnsweredTasks
  <2> QED
    BY <1>3, <2>4, <2>5, <2>6 DEF StartComes, CtlInv, TasksInv
<1>4. ASSUME ctl.reg # 0, Stops(i) PROVE CtlInv'
  <2>1. Moves /\ ctl'.reg = ctl.reg /\ Len(shells') = Len(shells)
    BY <1>4, StopsMoves
  <2>2. PICK k \in Nat, step \in {"waits", "stopped"}: k <= Len(shells) /\ (step = "waits" => k # 0) /\ At(i, step, k)
    BY <1>4, StopsMoves
  <2>3. ShownInv' /\ Grown /\ view \in Views
    BY <1>1, <2>1, CommandShown
  <2>4. TasksType'
    BY <1>0, <1>1, <2>1, <2>2, <2>3, AtTasks
  <2> QED
    BY <1>4, <2>1, <2>3, <2>4 DEF StartComes, CtlInv, TasksInv
<1>5. \/ ctl.reg = 0
      \/ /\ ctl.reg # 0 /\ Answered(i)
         /\ TurnsTo(ctl.reg, [shells[ctl.reg] EXCEPT !.proc = "asked"]) \/ UNCHANGED <<shells, ctl, told>>
      \/ ctl.reg # 0 /\ Stops(i)
  BY DEF ResyncBegins
<1> QED
  BY <1>2, <1>3, <1>4, <1>5

LEMMA MadeInv ==
  ASSUME CtlInv, NEW i \in 1 .. Len(tasks), ControllerMade(i)
  PROVE  CtlInv'
<1>0. TasksType /\ tasks[i].conn \in Names /\ tasks[i].force \in BOOLEAN
  BY DEF CtlInv, TasksInv, TasksType, TaskFits, CtlTasks
<1>1. PICK c: c = NewController(tasks[i].force, tasks[i].conn)
  OBVIOUS
<1>2. c \in Shells /\ c.state = "init"
  BY <1>0, <1>1 DEF NewController, Shells, CtlStates, Codes, Procs
<1>3. ShellMade /\ UNCHANGED <<view, fails>> /\ Answered(i)
  BY <1>1, <1>2 DEF ControllerMade, ShellMade
<1>4. ShownInv' /\ Grown
  BY <1>3, CommandShown DEF Moves
<1>5. ctl'.reg # 0
  <2>1. view \in Views /\ ViewStays /\ view'.asked = view.asked
    BY <1>3 DEF CtlInv, ShownInv, ShellsType, ViewStays
  <2> QED
    BY <1>3, <2>1, MadeShown DEF CtlInv
<1>6. TasksType'
  BY <1>0, <1>3, <1>4, AnsweredTasks
<1> QED
  BY <1>4, <1>5, <1>6 DEF StartComes, CtlInv, TasksInv

LEMMA FailsInv ==
  ASSUME CtlInv, NEW i \in 1 .. Len(tasks), CommandFails(i)
  PROVE  CtlInv'
<1>0. TasksType /\ fails \in Nat /\ TaskFits(tasks[i], Len(shells), fails)
  BY DEF CtlInv, TasksInv, TasksType
<1>1. UNCHANGED <<shells, ctl, view, told>> /\ fails' = fails + 1
  BY DEF CommandFails
<1>2. ShownInv' /\ Grown
  BY <1>1, CommandShown DEF Moves
<1>3. fails' \in Nat /\ fails' # 0
  BY <1>0, <1>1
<1>4. TasksType'
  <2>1. CASE tasks' = RemoveAt(tasks, i)
    BY <1>0, <1>2, <1>3, <2>1, TaskRemoved
  <2>2. CASE tasks' = [tasks EXCEPT ![i].awaited = FALSE]
    <3>1. PICK t: t = [tasks[i] EXCEPT !.awaited = FALSE]
      OBVIOUS
    <3>2. TaskFits(t, Len(shells'), fails')
      BY <1>0, <1>1, <1>3, <3>1 DEF TaskFits, CtlTasks
    <3> QED
      BY <1>0, <1>2, <1>3, <2>2, <3>1, <3>2, TaskChanged
  <2> QED
    BY <2>1, <2>2 DEF CommandFails
<1>5. StartComes'
  BY <1>3 DEF StartComes
<1> QED
  BY <1>2, <1>4, <1>5 DEF CtlInv, TasksInv


\* A new view, and what the view is told.
LEMMA CtlOpenInv ==
  ASSUME CtlInv, OpenView
  PROVE  CtlInv'
<1>0. /\ view \in Views /\ told' = {} /\ UNCHANGED <<shells, ctl>> /\ view' = NewView(view.count + 1, view.conn)
      /\ tasks' = [i \in DOMAIN tasks |-> [tasks[i] EXCEPT !.awaited = FALSE]]
      /\ fails' = IF tasks = <<>> THEN fails ELSE fails + 1
  BY DEF CtlInv, ShownInv, ShellsType, OpenView
<1>1. tasks \in Seq(CtlTasks) /\ fails \in Nat /\ Len(tasks) \in Nat /\ Len(shells) \in Nat
  BY DEF CtlInv, TasksInv, TasksType, ShownInv, ShellsType
<1>2. PICK n \in Nat, conn \in Names: n = view.count + 1 /\ conn = view.conn
  BY <1>0 DEF Views
<1>3. /\ view' \in Views /\ view'.version = 0 /\ view'.state = "init" /\ view'.asked /\ ~view'.sized
  BY <1>0, <1>2 DEF NewView, Views, CtlStates, Codes
<1>4. ShownInv'
  <2>1. ShellsType' /\ SaidFits' /\ ctl.said.version # 0
    BY <1>0, <1>3 DEF CtlInv, ShownInv, ShellsType, SaidFits
  <2>2. ToldFits'
    BY <1>0, <1>3, <2>1 DEF ToldFits
  <2>3. NewestComes'
    BY <1>0, <1>3 DEF NewestComes
  <2> QED
    BY <2>1, <2>2, <2>3 DEF ShownInv
<1>5. TasksType'
  <2>1. fails' \in Nat /\ (tasks # <<>> => fails' # 0)
    BY <1>0, <1>1
  <2>2. ASSUME NEW i \in 1 .. Len(tasks)
        PROVE  [tasks[i] EXCEPT !.awaited = FALSE] \in CtlTasks /\ TaskFits([tasks[i] EXCEPT !.awaited = FALSE], Len(shells), fails')
    <3>1. PICK t: t = [tasks[i] EXCEPT !.awaited = FALSE]
      OBVIOUS
    <3>2. TaskFits(tasks[i], Len(shells), fails)
      BY DEF CtlInv, TasksInv, TasksType
    <3>3. tasks # <<>>
      BY <1>1
    <3>4. t \in CtlTasks /\ t.of = tasks[i].of /\ t.step = tasks[i].step /\ t.cmd = tasks[i].cmd
      BY <3>1, <3>2 DEF TaskFits, CtlTasks
    <3>5. TaskFits(t, Len(shells), fails')
      BY <2>1, <3>2, <3>3, <3>4 DEF TaskFits
    <3> QED
      BY <3>1, <3>4, <3>5
  <2>3. DOMAIN tasks = 1 .. Len(tasks)
    BY <1>1
  <2>4. tasks' \in Seq(CtlTasks) /\ Len(tasks') = Len(tasks)
    <3>1. \A i \in 1 .. Len(tasks): [tasks[i] EXCEPT !.awaited = FALSE] \in CtlTasks
      BY <2>2
    <3>2. tasks' \in [1 .. Len(tasks) -> CtlTasks]
      BY <1>0, <2>3, <3>1
    <3> QED
      BY <1>1, <3>2
  <2> QED
    BY <1>0, <2>1, <2>2, <2>3, <2>4 DEF TasksType
<1>6. StartComes'
  BY <1>3 DEF StartComes
<1> QED
  BY <1>4, <1>5, <1>6 DEF CtlInv, TasksInv

LEMMA CtlUpdateInv ==
  ASSUME CtlInv, NEW s \in told, updateShellProcStatus(s)
  PROVE  CtlInv'
<1>0. /\ view \in Views /\ told \subseteq CtlStatuses /\ ctl \in [reg: Nat, last: Nat, said: CtlStatuses]
      /\ ctl.said.version \in Nat \ {0}
  BY DEF CtlInv, ShownInv, ShellsType, CtlStatuses
<1>1. /\ s \in CtlStatuses /\ s.version \in 2 .. ctl.said.version /\ s.version \in Nat
      /\ (s.version = ctl.said.version => s = ctl.said)
  BY <1>0 DEF CtlInv, ShownInv, ToldFits, CtlStatuses
<1>2. /\ told' = told \ {s} /\ UNCHANGED <<shells, ctl, tasks, fails>>
      /\ view' = IF Newer(view, s) THEN [view EXCEPT !.version = s.version, !.state = s.state, !.code = s.code] ELSE view
  BY DEF updateShellProcStatus
<1>3. /\ view' \in Views /\ view'.count = view.count /\ view'.sized = view.sized /\ view'.asked = view.asked
      /\ IF view.version < s.version THEN view'.version = s.version /\ view'.state = s.state /\ view'.code = s.code
         ELSE view' = view
  BY <1>0, <1>1, <1>2 DEF Views, CtlStatuses, Newer
<1>4. view.version \in Nat /\ (Open' <=> Open)
  BY <1>0, <1>3 DEF Views, Open
<1>5. ShellsType' /\ SaidFits'
  BY <1>2, <1>3 DEF CtlInv, ShownInv, ShellsType, SaidFits
<1>6. ToldFits'
  <2>1. ToldFits
    BY DEF CtlInv, ShownInv
  <2>2. CASE view.version < s.version
    BY <1>1, <1>2, <1>3, <2>1, <2>2 DEF ToldFits
  <2>3. CASE ~(view.version < s.version)
    BY <1>2, <1>3, <2>1, <2>3 DEF ToldFits
  <2> QED
    BY <2>2, <2>3
<1>7. NewestComes'
  <2>1. view.version = 0 \/ view.version \in 2 .. ctl.said.version
    BY DEF CtlInv, ShownInv, ToldFits
  <2>2. CASE s = ctl.said
    <3>1. view'.version = ctl.said.version
      BY <1>0, <1>3, <1>4, <2>1, <2>2
    <3> QED
      BY <1>2, <3>1 DEF NewestComes
  <2>3. CASE s # ctl.said
    <3>1. CASE view.version = ctl.said.version
      <4>1. view' = view
        BY <1>0, <1>1, <1>3, <3>1
      <4> QED
        BY <1>2, <3>1, <4>1 DEF NewestComes
    <3>2. CASE ctl.said \in told
      BY <1>2, <2>3, <3>2 DEF NewestComes
    <3>3. CASE ~Open
      BY <1>4, <3>3 DEF NewestComes
    <3> QED
      BY <3>1, <3>2, <3>3 DEF CtlInv, ShownInv, NewestComes
  <2> QED
    BY <2>2, <2>3
<1>8. TasksInv'
  BY <1>2, <1>3, <1>4 DEF CtlInv, TasksInv, TasksType, StartComes
<1> QED
  BY <1>5, <1>6, <1>7, <1>8 DEF CtlInv, ShownInv

\* What the page does without the controllers, and the commands it sends.
CtlAsks ==
  forceRestartController \/ restartSessionWithDurability \/ RestartTimer \/ InitialResize \/ TermResyncHandler
    \/ \E name \in {"local", "other"} : ConnChanges(name)
LEMMA TaskAdded ==
  ASSUME TasksType, NEW cmd \in Commands, Tasks(cmd, FALSE), UNCHANGED <<shells, fails>>, Len(shells) \in Nat
  PROVE  TasksType' /\ (HasResync => HasResync') /\ (cmd = "resync" => HasResync')
<1>0. tasks \in Seq(CtlTasks)
  BY DEF TasksType
<1>1. PICK t: t = Command(cmd, FALSE)
  OBVIOUS
<1>2. t \in CtlTasks /\ t.cmd = cmd /\ TaskFits(t, Len(shells), fails)
  BY <1>1 DEF Command, CtlTasks, Names, TaskFits
<1>3. /\ tasks' \in Seq(CtlTasks) /\ Len(tasks) + 1 \in 1 .. Len(tasks') /\ tasks'[Len(tasks) + 1] = t
      /\ \A i \in 1 .. Len(tasks): i \in 1 .. Len(tasks') /\ tasks'[i] = tasks[i]
      /\ \A i \in 1 .. Len(tasks'): i \in 1 .. Len(tasks) \/ i = Len(tasks) + 1
  <2>1. tasks' = Append(tasks, t)
    BY <1>1 DEF Tasks
  <2>2. /\ Append(tasks, t) \in Seq(CtlTasks) /\ Len(tasks) + 1 \in 1 .. Len(Append(tasks, t))
        /\ Append(tasks, t)[Len(tasks) + 1] = t
        /\ \A i \in 1 .. Len(tasks): i \in 1 .. Len(Append(tasks, t)) /\ Append(tasks, t)[i] = tasks[i]
        /\ \A i \in 1 .. Len(Append(tasks, t)): i \in 1 .. Len(tasks) \/ i = Len(tasks) + 1
    BY <1>0, <1>2, Appended
  <2> QED
    BY <2>1, <2>2
<1>4. ASSUME NEW i \in 1 .. Len(tasks') PROVE TaskFits(tasks'[i], Len(shells), fails)
  BY <1>2, <1>3 DEF TasksType
<1> QED
  BY <1>2, <1>3, <1>4 DEF TasksType, HasResync

LEMMA AsksInv ==
  ASSUME CtlInv, CtlAsks
  PROVE  CtlInv'
<1>0. view \in Views /\ Len(shells) \in Nat /\ TasksType /\ StartComes
  BY DEF CtlInv, ShownInv, ShellsType, TasksInv
<1>1. /\ UNCHANGED <<shells, ctl, told, fails>>
      /\ \/ UNCHANGED <<tasks, view>>
         \/ \E cmd \in {"meta", "destroy"} : Tasks(cmd, FALSE) /\ UNCHANGED view
         \/ Tasks("destroy", FALSE) /\ view' = [view EXCEPT !.busy = TRUE]
         \/ UNCHANGED tasks /\ view' = [view EXCEPT !.busy = FALSE]
         \/ UNCHANGED tasks /\ \E name \in {"local", "other"} : view' = [view EXCEPT !.conn = name]
         \/ Tasks("resync", FALSE) /\ (view' = [view EXCEPT !.sized = TRUE] \/ view' = [view EXCEPT !.lastConn = view.conn])
  BY DEF CtlAsks, forceRestartController, restartSessionWithDurability, RestartTimer, InitialResize, TermResyncHandler, ConnChanges
<1>2. view' \in Views /\ view'.count = view.count /\ view'.version = view.version /\ view'.state = view.state
      /\ view'.code = view.code /\ view'.asked = view.asked
  BY <1>0, <1>1 DEF Views, Names
<1>3. ShownInv'
  BY <1>1, <1>2, MovesShown DEF CtlInv, ViewStays, Moves
<1>4. (Open' <=> Open) /\ (view'.sized = view.sized \/ Tasks("resync", FALSE))
  BY <1>0, <1>1, <1>2 DEF Open, Views
<1>5. CASE UNCHANGED tasks
  <2>1. ~Tasks("resync", FALSE)
    <3>1. tasks \in Seq(CtlTasks) /\ Command("resync", FALSE) \in CtlTasks
      BY <1>0 DEF TasksType, Command, CtlTasks, Commands, Names
    <3>2. PICK a: a = Append(tasks, Command("resync", FALSE))
      OBVIOUS
    <3>4. Len(tasks) \in Nat /\ Len(a) = Len(tasks) + 1
      BY <3>1, <3>2, Appended
    <3>3. Append(tasks, Command("resync", FALSE)) # tasks
      <4>1. Len(a) # Len(tasks)
        BY <3>4
      <4> QED
        BY <3>2, <4>1, Zenon
    <3> QED
      BY <1>5, <3>3 DEF Tasks
  <2> QED
    BY <1>0, <1>1, <1>3, <1>4, <1>5, <2>1 DEF CtlInv, TasksInv, TasksType, StartComes
<1>6. CASE \E cmd \in Commands: Tasks(cmd, FALSE)
  <2>1. TasksType' /\ (HasResync => HasResync') /\ (Tasks("resync", FALSE) => HasResync')
    BY <1>0, <1>1, <1>6, TaskAdded DEF Commands
  <2> QED
    BY <1>0, <1>1, <1>3, <1>4, <2>1 DEF CtlInv, TasksInv, StartComes, HasResync
<1> QED
  BY <1>1, <1>5, <1>6 DEF Commands

LEMMA CtlInvTells == CtlInv => KnowsIfRunning /\ RestartsRun /\ HeaderOffers
<1> SUFFICES ASSUME CtlInv PROVE KnowsIfRunning /\ RestartsRun /\ HeaderOffers
  OBVIOUS
<1>0. /\ shells \in Seq(Shells) /\ ctl \in [reg: Nat, last: Nat, said: CtlStatuses] /\ view \in Views
      /\ ctl.reg <= Len(shells) /\ ctl.last <= Len(shells) /\ Len(shells) \in Nat /\ DOMAIN shells = 1 .. Len(shells)
  BY DEF CtlInv, ShownInv, ShellsType
<1>1. RestartsRun
  <2>1. Len(<<>>) = 0 /\ 1 .. 0 = {}
    OBVIOUS
  <2> QED
    BY <2>1 DEF CtlInv, TasksInv, StartComes, RestartsRun
<1>2. ASSUME CtlQuiet
      PROVE  \/ /\ view.version # 0 /\ ctl.last \in 1 .. Len(shells)
                /\ view.state = shells[ctl.last].state /\ view.code = shells[ctl.last].code
             \/ view.version = 0 /\ view.state = "init" /\ (ctl.reg # 0 => shells[ctl.reg].state = "init")
  <2>1. Open /\ told = {} /\ ~view.asked /\ \A k \in 1 .. Len(shells): shells[k].due = 0
    BY <1>0, <1>2 DEF CtlQuiet
  <2>2. CASE view.version = ctl.said.version
    <3>1. /\ ctl.said.version \in Nat /\ view.version # 0 /\ view.version \in 2 .. ctl.said.version
          /\ view.state = ctl.said.state /\ view.code = ctl.said.code
      BY <1>0, <2>2 DEF CtlInv, ShownInv, ShellsType, ToldFits, CtlStatuses
    <3>2. ctl.last # 0
      BY <2>2, <3>1 DEF CtlInv, ShownInv, SaidFits
    <3>3. ctl.last \in 1 .. Len(shells)
      BY <1>0, <3>2
    <3>4. ~(shells[ctl.last].due > 0)
      BY <2>1, <3>3
    <3> QED
      BY <3>1, <3>2, <3>3, <3>4 DEF CtlInv, ShownInv, SaidFits
  <2>3. CASE view.version = 0 /\ Unheard
    <3>1. ctl.reg # 0 => ctl.reg \in 1 .. Len(shells)
      BY <1>0
    <3> QED
      BY <2>1, <2>3, <3>1 DEF Unheard, CtlInv, ShownInv, ToldFits
  <2> QED
    BY <2>1, <2>2, <2>3 DEF CtlInv, ShownInv, NewestComes
<1>3. KnowsIfRunning
  BY <1>0, <1>2 DEF KnowsIfRunning, Runs
<1>4. ASSUME CtlQuiet, ctl.reg # 0, ctl.last = ctl.reg, NEW c, c = shells[ctl.reg], NEW isCmd \in BOOLEAN
      PROVE  /\ (connStatus(view.conn).status = "connected" /\ (c.state = "done" \/ (isCmd /\ c.state = "init"))) =>
                   endIconButton(view, isCmd) \in {"play", "exited, restart"}
             /\ endIconButton(view, isCmd) = "running, restart" => isCmd /\ c.state = "running"
             /\ (isCmd /\ ~view.busy) =>
                  /\ viewText(view, isCmd, FALSE) = {"cmd"} <=> c.state # "done"
                  /\ "success" \in viewText(view, isCmd, FALSE) <=> c.state = "done" /\ c.code = 0
  <2>1. view.state = c.state /\ (c.state = "done" => view.code = c.code) /\ c.state \in CtlStates
    BY <1>0, <1>2, <1>4 DEF Shells, Views
  <2>2. CASE c.state = "init"
    BY <2>1, <2>2 DEF endIconButton, viewText
  <2>3. CASE c.state = "running"
    BY <2>1, <2>3 DEF endIconButton, viewText
  <2>4. CASE c.state = "done"
    <3>1. (connStatus(view.conn).status = "connected" => endIconButton(view, isCmd) \in {"play", "exited, restart"})
          /\ endIconButton(view, isCmd) # "running, restart"
      BY <2>1, <2>4 DEF endIconButton
    <3>2. ASSUME isCmd, ~view.busy
          PROVE  /\ viewText(view, isCmd, FALSE) # {"cmd"}
                 /\ "success" \in viewText(view, isCmd, FALSE) <=> c.code = 0
      <4>1. c.code = 0 => viewText(view, isCmd, FALSE) = {"cmd", "success"}
        BY <2>1, <2>4, <3>2 DEF viewText
      <4>2. c.code # 0 => viewText(view, isCmd, FALSE) = {"cmd", "failure"}
        BY <2>1, <2>4, <3>2 DEF viewText
      <4>3. "success" \in {"cmd", "success"} /\ "success" \notin {"cmd"} /\ "failure" \in {"cmd", "failure"} /\ "failure" \notin {"cmd"}
            /\ "success" \notin {"cmd", "failure"}
        OBVIOUS
      <4> QED
        BY <4>1, <4>2, <4>3
    <3> QED
      BY <2>4, <3>1, <3>2
  <2> QED
    BY <2>1, <2>2, <2>3, <2>4 DEF CtlStates
<1>5. HeaderOffers
  BY <1>4 DEF HeaderOffers
<1> QED
  BY <1>1, <1>3, <1>5

JobStates == {"none", "connected", "done"}
JobReads == [stamp: Nat, answers: BOOLEAN]
JobReports == [version: Nat, status: JobStates]
JobType ==
  /\ job \in [status: JobStates, changes: Nat, due: Nat, stamp: Nat, reads: SUBSET JobReads]
  /\ jobView \in [version: Nat, status: JobStates, asked: {"no", "yes", "failed"}, told: SUBSET JobReports]
\* Nothing has a stamp that was not taken.
StampsTaken ==
  /\ \A x \in job.reads: x.stamp <= job.stamp
  /\ \A r \in jobView.told: r.version <= job.stamp
  /\ jobView.version <= job.stamp
\* When no change is left to be reported, what has the last stamp tells how the job is,
\* and it was shown or is on its way.
LastStampTells ==
  Open /\ job.due = 0 =>
    /\ \A r \in jobView.told: r.version = job.stamp => r.status = job.status
    /\ jobView.version = job.stamp => jobView.status = job.status
LastStampComes ==
  Open /\ job.due = 0 /\ jobView.asked = "no" =>
    \/ \E x \in job.reads: x.stamp = job.stamp
    \/ \E r \in jobView.told: r.version = job.stamp
    \/ jobView.version = job.stamp
\* A change is due or was stamped.
ChangesStamped == job.stamp = 0 /\ job.due = 0 => job.status = "none"
JobInv == JobType /\ StampsTaken /\ LastStampTells /\ LastStampComes /\ ChangesStamped

LEMMA JobInitInv == CtlInit => JobInv
<1> SUFFICES ASSUME CtlInit PROVE JobInv
  OBVIOUS
<1>1. /\ job = [status |-> "none", changes |-> 0, due |-> 0, stamp |-> 0, reads |-> {}]
      /\ jobView = [NewJobView EXCEPT !.asked = "no"] /\ view = [NewView(0, "local") EXCEPT !.asked = FALSE]
  BY DEF CtlInit
<1>2. ~Open
  BY <1>1 DEF Open, NewView
<1>3. jobView.version = 0 /\ jobView.told = {}
  BY <1>1 DEF NewJobView
<1>4. JobType
  <2>1. job \in [status: JobStates, changes: Nat, due: Nat, stamp: Nat, reads: SUBSET JobReads]
    BY <1>1 DEF JobStates
  <2>2. jobView \in [version: Nat, status: JobStates, asked: {"no", "yes", "failed"}, told: SUBSET JobReports]
    BY <1>1 DEF JobStates, NewJobView
  <2> QED
    BY <2>1, <2>2 DEF JobType
<1> QED
  BY <1>1, <1>2, <1>3, <1>4 DEF JobInv, StampsTaken, LastStampTells, LastStampComes, ChangesStamped

LEMMA JobKeptInv ==
  ASSUME JobInv, UNCHANGED jobVars, view'.count = view.count
  PROVE  JobInv'
<1>1. job' = job /\ jobView' = jobView /\ (Open' <=> Open)
  BY DEF jobVars, Open
<1> QED
  BY <1>1 DEF JobInv, JobType, StampsTaken, LastStampTells, LastStampComes, ChangesStamped

\* A stamp is taken, for a view that asked or for a change that is due.
LEMMA StampsInv ==
  ASSUME JobInv, NEW answers \in BOOLEAN, job' = Stamps(answers), answers \/ job.due > 0,
         jobView' = jobView \/ jobView' = [jobView EXCEPT !.asked = "no"], UNCHANGED view
  PROVE  JobInv'
<1>0. /\ job \in [status: JobStates, changes: Nat, due: Nat, stamp: Nat, reads: SUBSET JobReads]
      /\ jobView \in [version: Nat, status: JobStates, asked: {"no", "yes", "failed"}, told: SUBSET JobReports]
  BY DEF JobInv, JobType
<1>1. job.stamp \in Nat /\ job.due \in Nat /\ job.reads \subseteq JobReads /\ jobView.version \in Nat /\ jobView.told \subseteq JobReports
  BY <1>0
<1>2. PICK x: x = [stamp |-> job.stamp + 1, answers |-> answers]
  OBVIOUS
<1>3. x \in JobReads /\ x.stamp = job.stamp + 1
  BY <1>1, <1>2 DEF JobReads
<1>4. /\ job' \in [status: JobStates, changes: Nat, due: Nat, stamp: Nat, reads: SUBSET JobReads]
      /\ job'.stamp = job.stamp + 1 /\ job'.reads = job.reads \cup {x}
  <2>1. PICK d \in Nat: d = IF answers THEN job.due ELSE job.due - 1
    BY <1>1
  <2>2. PICK reads \in SUBSET JobReads: reads = job.reads \cup {x}
    BY <1>1, <1>3
  <2>3. job' = [job EXCEPT !.stamp = job.stamp + 1, !.reads = reads, !.due = d]
    BY <1>0, <1>2, <2>1, <2>2 DEF Stamps
  <2>4. job.stamp + 1 \in Nat
    BY <1>1
  <2> QED
    BY <1>0, <2>2, <2>3, <2>4
<1>5. /\ jobView' \in [version: Nat, status: JobStates, asked: {"no", "yes", "failed"}, told: SUBSET JobReports]
      /\ jobView'.version = jobView.version /\ jobView'.told = jobView.told
  BY <1>0
<1>6. /\ \A y \in job.reads: y.stamp <= job.stamp /\ y.stamp \in Nat
      /\ \A r \in jobView.told: r.version <= job.stamp /\ r.version \in Nat
      /\ jobView.version <= job.stamp
  BY <1>1 DEF JobInv, StampsTaken, JobReads, JobReports
<1>7. StampsTaken'
  BY <1>1, <1>3, <1>4, <1>5, <1>6 DEF StampsTaken
<1>8. LastStampTells'
  BY <1>1, <1>4, <1>5, <1>6 DEF LastStampTells
<1>9. LastStampComes'
  BY <1>3, <1>4 DEF LastStampComes
<1>10. ChangesStamped'
  BY <1>1, <1>4 DEF ChangesStamped
<1> QED
  BY <1>4, <1>5, <1>7, <1>8, <1>9, <1>10 DEF JobInv, JobType

LEMMA JobAskedInv ==
  ASSUME JobInv, ReportStamped \/ JobAsked \/ (\E status \in {"none", "connected", "done"} : JobChanges(status))
  PROVE  JobInv'
<1>0. /\ job \in [status: JobStates, changes: Nat, due: Nat, stamp: Nat, reads: SUBSET JobReads]
      /\ jobView \in [version: Nat, status: JobStates, asked: {"no", "yes", "failed"}, told: SUBSET JobReports]
  BY DEF JobInv, JobType
<1>1. CASE ReportStamped
  <2>1. job' = Stamps(FALSE) /\ job.due > 0 /\ UNCHANGED <<view, jobView>>
    BY <1>1 DEF ReportStamped
  <2> QED
    BY <2>1, StampsInv
<1>2. CASE JobAsked /\ job' = Stamps(TRUE) /\ jobView' = [jobView EXCEPT !.asked = "no"]
  <2>1. UNCHANGED view
    BY <1>2 DEF JobAsked
  <2> QED
    BY <1>2, <2>1, StampsInv
<1>3. CASE JobAsked /\ jobView' = [jobView EXCEPT !.asked = "failed"] /\ UNCHANGED job
  <2>1. UNCHANGED view
    BY <1>3 DEF JobAsked
  <2>2. /\ jobView' \in [version: Nat, status: JobStates, asked: {"no", "yes", "failed"}, told: SUBSET JobReports]
        /\ jobView'.version = jobView.version /\ jobView'.told = jobView.told /\ jobView'.status = jobView.status /\ jobView'.asked = "failed"
    BY <1>0, <1>3
  <2>3. Open' <=> Open
    BY <2>1 DEF Open
  <2> QED
    BY <1>0, <1>3, <2>2, <2>3 DEF JobInv, JobType, StampsTaken, LastStampTells, LastStampComes, ChangesStamped
<1>4. ASSUME NEW status \in {"none", "connected", "done"}, JobChanges(status) PROVE JobInv'
  <2>1. job' = [job EXCEPT !.status = status, !.changes = @ + 1, !.due = @ + 1] /\ UNCHANGED <<view, jobView>>
    BY <1>4 DEF JobChanges
  <2>2. status \in JobStates /\ job.due \in Nat /\ job.changes \in Nat
    BY <1>0 DEF JobStates
  <2>3. /\ job' \in [status: JobStates, changes: Nat, due: Nat, stamp: Nat, reads: SUBSET JobReads]
        /\ job'.stamp = job.stamp /\ job'.reads = job.reads /\ job'.due # 0
    <3>1. PICK c \in Nat, d \in Nat: c = job.changes + 1 /\ d = job.due + 1
      BY <2>2
    <3>2. job' = [job EXCEPT !.status = status, !.changes = c, !.due = d] /\ d # 0
      BY <1>0, <2>1, <2>2, <3>1
    <3> QED
      BY <1>0, <2>2, <3>2
  <2> QED
    BY <1>0, <2>1, <2>3 DEF JobInv, JobType, StampsTaken, LastStampTells, LastStampComes, ChangesStamped
<1>5. JobAsked => \/ job' = Stamps(TRUE) /\ jobView' = [jobView EXCEPT !.asked = "no"]
                  \/ jobView' = [jobView EXCEPT !.asked = "failed"] /\ UNCHANGED job
  BY DEF JobAsked
<1> QED
  BY <1>1, <1>2, <1>3, <1>4, <1>5

LEMMA ReportReadInv ==
  ASSUME JobInv, NEW x \in job.reads, ReportRead(x)
  PROVE  JobInv'
<1>0. /\ job \in [status: JobStates, changes: Nat, due: Nat, stamp: Nat, reads: SUBSET JobReads]
      /\ jobView \in [version: Nat, status: JobStates, asked: {"no", "yes", "failed"}, told: SUBSET JobReports]
  BY DEF JobInv, JobType
<1>1. PICK r: r = [version |-> x.stamp, status |-> job.status]
  OBVIOUS
<1>2. r \in JobReports /\ r.version = x.stamp /\ r.status = job.status
  BY <1>0, <1>1 DEF JobReads, JobReports
<1>3. /\ job' = [job EXCEPT !.reads = @ \ {x}] /\ UNCHANGED view
      /\ jobView' = IF Open THEN [jobView EXCEPT !.told = @ \cup {r}] ELSE jobView
  BY <1>1 DEF ReportRead
<1>4. /\ job' \in [status: JobStates, changes: Nat, due: Nat, stamp: Nat, reads: SUBSET JobReads]
      /\ job'.stamp = job.stamp /\ job'.due = job.due /\ job'.status = job.status /\ job'.reads = job.reads \ {x}
  BY <1>0, <1>3
<1>5. Open' <=> Open
  BY <1>3 DEF Open
<1>6. CASE Open
  <2>1. /\ jobView' \in [version: Nat, status: JobStates, asked: {"no", "yes", "failed"}, told: SUBSET JobReports]
        /\ jobView'.version = jobView.version /\ jobView'.told = jobView.told \cup {r} /\ jobView'.status = jobView.status
        /\ jobView'.asked = jobView.asked
    BY <1>0, <1>2, <1>3, <1>6
  <2>2. StampsTaken'
    BY <1>2, <1>4, <2>1 DEF JobInv, StampsTaken
  <2>3. LastStampTells'
    BY <1>2, <1>4, <1>5, <2>1 DEF JobInv, LastStampTells
  <2>4. LastStampComes'
    <3>1. x.stamp = job.stamp => r \in jobView'.told /\ r.version = job'.stamp
      BY <1>2, <1>4, <2>1
    <3>2. \A y \in job.reads: y = x \/ y \in job'.reads
      BY <1>4
    <3> QED
      BY <1>4, <1>5, <2>1, <3>1, <3>2 DEF JobInv, LastStampComes
  <2>5. ChangesStamped'
    BY <1>4 DEF JobInv, ChangesStamped
  <2> QED
    BY <1>4, <2>1, <2>2, <2>3, <2>4, <2>5 DEF JobInv, JobType
<1>7. CASE ~Open
  BY <1>0, <1>3, <1>4, <1>5, <1>7 DEF JobInv, JobType, StampsTaken, LastStampTells, LastStampComes, ChangesStamped
<1> QED
  BY <1>6, <1>7

LEMMA JobUpdateInv ==
  ASSUME JobInv, NEW r \in jobView.told, handleBlockJobStatusUpdate(r)
  PROVE  JobInv'
<1>0. /\ job \in [status: JobStates, changes: Nat, due: Nat, stamp: Nat, reads: SUBSET JobReads]
      /\ jobView \in [version: Nat, status: JobStates, asked: {"no", "yes", "failed"}, told: SUBSET JobReports]
  BY DEF JobInv, JobType
<1>1. r \in JobReports /\ r.version \in Nat /\ r.status \in JobStates /\ jobView.version \in Nat /\ job.stamp \in Nat
  BY <1>0 DEF JobReports
<1>2. /\ jobView' = IF r.version <= jobView.version THEN [jobView EXCEPT !.told = @ \ {r}]
                    ELSE [jobView EXCEPT !.told = @ \ {r}, !.version = r.version, !.status = r.status]
      /\ UNCHANGED <<view, job>>
  BY DEF handleBlockJobStatusUpdate
<1>3. /\ jobView' \in [version: Nat, status: JobStates, asked: {"no", "yes", "failed"}, told: SUBSET JobReports]
      /\ jobView'.told = jobView.told \ {r} /\ jobView'.asked = jobView.asked
      /\ IF r.version <= jobView.version THEN jobView'.version = jobView.version /\ jobView'.status = jobView.status
         ELSE jobView'.version = r.version /\ jobView'.status = r.status
  BY <1>0, <1>1, <1>2
<1>4. r.version <= job.stamp /\ jobView.version <= job.stamp /\ \A q \in jobView.told: q.version <= job.stamp
  BY DEF JobInv, StampsTaken
<1>5. Open' <=> Open
  BY <1>2 DEF Open
<1>6. StampsTaken'
  BY <1>2, <1>3, <1>4 DEF JobInv, StampsTaken
<1>7. LastStampTells'
  BY <1>2, <1>3, <1>5 DEF JobInv, LastStampTells
<1>8. LastStampComes'
  <2>1. r.version = job.stamp => jobView'.version = job.stamp
    BY <1>1, <1>3, <1>4
  <2>2. jobView.version = job.stamp => jobView'.version = job.stamp
    BY <1>1, <1>3, <1>4
  <2>3. \A q \in jobView.told: q = r \/ q \in jobView'.told
    BY <1>3
  <2> QED
    BY <1>2, <1>3, <1>5, <2>1, <2>2, <2>3 DEF JobInv, LastStampComes
<1> QED
  BY <1>0, <1>2, <1>3, <1>6, <1>7, <1>8 DEF JobInv, JobType, ChangesStamped

LEMMA JobOpenInv ==
  ASSUME JobInv, OpenView
  PROVE  JobInv'
<1>0. /\ job \in [status: JobStates, changes: Nat, due: Nat, stamp: Nat, reads: SUBSET JobReads]
      /\ jobView \in [version: Nat, status: JobStates, asked: {"no", "yes", "failed"}, told: SUBSET JobReports]
  BY DEF JobInv, JobType
<1>1. jobView' = NewJobView /\ job' = [job EXCEPT !.reads = {x \in @ : ~x.answers}]
  BY DEF OpenView
<1>2. /\ jobView' \in [version: Nat, status: JobStates, asked: {"no", "yes", "failed"}, told: SUBSET JobReports]
      /\ jobView'.version = 0 /\ jobView'.status = "none" /\ jobView'.asked = "yes" /\ jobView'.told = {}
  BY <1>1 DEF NewJobView, JobStates
<1>3. /\ job' \in [status: JobStates, changes: Nat, due: Nat, stamp: Nat, reads: SUBSET JobReads]
      /\ job'.stamp = job.stamp /\ job'.due = job.due /\ job'.status = job.status /\ job'.reads \subseteq job.reads
  BY <1>0, <1>1
<1>4. job.stamp \in Nat
  BY <1>0
<1> QED
  BY <1>2, <1>3, <1>4 DEF JobInv, JobType, StampsTaken, LastStampTells, LastStampComes, ChangesStamped

LEMMA JobInvShows == JobInv => JobShown
<1> SUFFICES ASSUME JobInv, Open, job.due = 0, job.reads = {}, jobView.told = {}, jobView.asked = "no", NEW isDurable \in BOOLEAN
             PROVE  termDurableStatus(isDurable) = IF isDurable THEN job.status ELSE "none"
  BY DEF JobShown
<1>1. jobView.version = job.stamp
  BY DEF JobInv, LastStampComes
<1>2. jobView.status = job.status
  BY <1>1 DEF JobInv, LastStampTells
<1> QED
  BY <1>2 DEF termDurableStatus

\* The actions on the controllers leave the job alone, and the other way round.
LEMMA CtlStepInv == CtlInv /\ JobInv /\ [CtlNext]_ctlVars => (CtlInv /\ JobInv)'
<1> SUFFICES ASSUME CtlInv, JobInv, [CtlNext]_ctlVars PROVE CtlInv' /\ JobInv'
  OBVIOUS
<1>0. view \in Views /\ DOMAIN tasks = 1 .. Len(tasks) /\ DOMAIN shells = 1 .. Len(shells)
  BY DEF CtlInv, ShownInv, ShellsType, TasksInv, TasksType
<1>1. CASE OpenView
  BY <1>1, CtlOpenInv, JobOpenInv
<1>2. ASSUME UNCHANGED jobVars, view'.count = view.count PROVE JobInv'
  BY <1>2, JobKeptInv
<1>3. CASE AnswerStatus
  <2>1. UNCHANGED jobVars /\ view' = [view EXCEPT !.asked = FALSE]
    BY <1>3 DEF AnswerStatus
  <2>2. view'.count = view.count
    BY <1>0, <2>1 DEF Views
  <2> QED
    BY <1>2, <1>3, <2>1, <2>2, AnswerInv
<1>4. ASSUME NEW k \in DOMAIN shells,
             \/ RunBegins(k) \/ ProcessStarts(k) \/ ProcessEnds(k) \/ UpdateSent(k)
             \/ \E code \in {0, Killed} : WaitLoopDone(k, code)
      PROVE  CtlInv' /\ JobInv'
  <2>1. UNCHANGED <<view, jobVars>>
    BY <1>4 DEF RunBegins, ProcessStarts, ProcessEnds, UpdateSent, WaitLoopDone
  <2> QED
    BY <1>0, <1>2, <1>4, <2>1, GoroutineInv
<1>5. CASE CtlAsks
  <2>1. UNCHANGED jobVars
    BY <1>5 DEF CtlAsks, forceRestartController, restartSessionWithDurability, RestartTimer, ConnChanges, InitialResize, TermResyncHandler
  <2>2. \/ view' = view \/ view' = [view EXCEPT !.busy = TRUE] \/ view' = [view EXCEPT !.busy = FALSE]
        \/ view' = [view EXCEPT !.sized = TRUE] \/ view' = [view EXCEPT !.lastConn = view.conn]
        \/ \E name \in Names: view' = [view EXCEPT !.conn = name]
    BY <1>5 DEF CtlAsks, forceRestartController, restartSessionWithDurability, RestartTimer, ConnChanges, InitialResize,
                TermResyncHandler, Names
  <2>3. view'.count = view.count
    BY <1>0, <2>2 DEF Views
  <2> QED
    BY <1>2, <1>5, <2>1, <2>3, AsksInv
<1>6. ASSUME NEW s \in told, updateShellProcStatus(s) PROVE CtlInv' /\ JobInv'
  <2>1. UNCHANGED jobVars /\ (view' = view \/ view' = [view EXCEPT !.version = s.version, !.state = s.state, !.code = s.code])
    BY <1>6 DEF updateShellProcStatus
  <2>2. view'.count = view.count
    BY <1>0, <2>1 DEF Views
  <2> QED
    BY <1>2, <1>6, <2>1, <2>2, CtlUpdateInv
<1>7. ASSUME NEW i \in DOMAIN tasks,
             \/ MetaSet(i) \/ DestroyBegins(i) \/ StopWaited(i) \/ ControllerDeleted(i)
             \/ ResyncBegins(i) \/ ControllerMade(i) \/ CommandFails(i)
      PROVE  CtlInv' /\ JobInv'
  <2>1. UNCHANGED <<view, jobVars>>
    BY <1>7 DEF MetaSet, DestroyBegins, StopWaited, ControllerDeleted, ResyncBegins, ControllerMade, CommandFails
  <2> QED
    BY <1>0, <1>2, <1>7, <2>1, DestroyInv, StopInv, ResyncInv, MadeInv, FailsInv
<1>8. ASSUME UNCHANGED <<shells, ctl, view, told, tasks, fails>> PROVE CtlInv'
  BY <1>8 DEF CtlInv, ShownInv, ShellsType, ToldFits, SaidFits, NewestComes, Unheard, Open, TasksInv, TasksType, StartComes
<1>9. CASE ReportStamped \/ JobAsked \/ (\E status \in {"none", "connected", "done"} : JobChanges(status))
  <2>1. UNCHANGED <<shells, ctl, view, told, tasks, fails>>
    BY <1>9 DEF ReportStamped, JobAsked, JobChanges
  <2> QED
    BY <1>8, <1>9, <2>1, JobAskedInv
<1>10. ASSUME NEW x \in job.reads, ReportRead(x) PROVE CtlInv' /\ JobInv'
  <2>1. UNCHANGED <<shells, ctl, view, told, tasks, fails>>
    BY <1>10 DEF ReportRead
  <2> QED
    BY <1>8, <1>10, <2>1, ReportReadInv
<1>11. ASSUME NEW r \in jobView.told, handleBlockJobStatusUpdate(r) PROVE CtlInv' /\ JobInv'
  <2>1. UNCHANGED <<shells, ctl, view, told, tasks, fails>>
    BY <1>11 DEF handleBlockJobStatusUpdate
  <2> QED
    BY <1>8, <1>11, <2>1, JobUpdateInv
<1>12. CASE UNCHANGED ctlVars
  <2>1. UNCHANGED <<shells, ctl, view, told, tasks, fails>> /\ UNCHANGED jobVars
    BY <1>12 DEF ctlVars, jobVars
  <2> QED
    BY <1>2, <1>8, <2>1
<1> QED
  BY <1>1, <1>3, <1>4, <1>5, <1>6, <1>7, <1>9, <1>10, <1>11, <1>12 DEF CtlNext, CtlAsks

\* Once what was told has arrived the view shows its job as it is, and the controller that told
\* last, which tells it whether its process runs if that is the block's; restarts that were
\* answered leave the block a controller (term-model.ts:99-160, 284-312, 641-696; shellcontroller.go:92-115, 476-511).
THEOREM ControllerAlwaysShown == CtlSpec => []ControllerShown
<1>1. CtlInit => CtlInv /\ JobInv
  BY CtlInitInv, JobInitInv
<1>2. CtlInv /\ JobInv /\ [CtlNext]_ctlVars => (CtlInv /\ JobInv)'
  BY CtlStepInv
<1>3. CtlInv /\ JobInv => ControllerShown
  BY CtlInvTells, JobInvShows DEF ControllerShown
<1> QED
  BY <1>1, <1>2, <1>3, PTL DEF CtlSpec


-----------------------------------------------------------------------------
(* TermOutput: a terminal's writes continue what it shows, without a gap and without overlap *)

Written == [data: Seq(Nat), offset: Int]
Stages == {"cache", "main", "parse", "loaded", "gone"}
Terminals == [live: BOOLEAN, stage: Stages, text: Seq(Nat), writes: Seq(Written), held: Seq(Nat), ptyOffset: Nat,
              processed: Nat, from: Nat]
Screens == [text: Seq(Nat), offset: Nat, half: BOOLEAN]
\* A write takes a terminal that shows the chunks up to a to one that shows them up to b.
Takes(a, w, b) == a <= b /\ w.data = Span(a, b) /\ (w.offset = Counted \/ (a = 0 /\ w.offset = b))
Reaches == {x \in Nat \X Written \X Nat: Takes(x[1], x[2], x[3])}
\* T shows the file's chunks from the first one on and will show them up to e, each of them
\* once, when its writes are parsed.
HasRead(T, e) ==
  /\ T.text = Span(0, T.ptyOffset) /\ Path(Reaches, Nat, T.ptyOffset, T.writes, e)
  /\ \A k \in 1 .. e: k <= T.ptyOffset \/ InFetch(T, k)
  /\ T.ptyOffset <= e /\ \A k: InFetch(T, k) => k \in 1 .. e
Fits(T, lastMade) == \E e \in Nat: e <= lastMade /\ HasRead(T, e)
\* The terminal that is shown has asked for all that it was not told.
ShownFits(T, lastMade, heard) ==
  \E e \in Nat:
    /\ e <= lastMade /\ HasRead(T, e)
    /\ T.stage = "cache" => e = 0
    /\ T.stage = "main" => e = T.from
    /\ T.stage \in {"parse", "loaded"} => heard <= e
\* The chunks written whose events have arrived.
Heard == file.made - Len(news)
FileFits ==
  /\ file \in [data: Seq(Nat), made: Nat, clears: Nat] /\ file.data = Span(0, file.made)
  /\ news \in Seq(Nat) /\ Heard \in Nat /\ news = Span(Heard, file.made)
\* The cached screen fits its offset, but for the text of the one save that is half done.
SavesFit ==
  /\ cache \in [text: Seq(Nat), offset: Nat] /\ saves \in Seq(Screens)
  /\ \A i \in 1 .. Len(saves): saves[i].offset <= file.made /\ saves[i].text = Span(0, saves[i].offset)
  /\ \A i, j \in 1 .. Len(saves): saves[i].half /\ saves[j].half => i = j
  /\ \A i \in 1 .. Len(saves): saves[i].half => cache.text = saves[i].text
  /\ (\A i \in 1 .. Len(saves): ~saves[i].half) => cache.offset <= file.made /\ cache.text = Span(0, cache.offset)
TermsFit ==
  /\ terms \in Seq(Terminals)
  /\ \A i \in 1 .. Len(terms): Fits(terms[i], file.made)
  /\ terms # <<>> => ShownFits(Shown, file.made, Heard)
OutputInv == ~spoiled => FileFits /\ SavesFit /\ TermsFit

LEMMA ReachesIs ==
  ASSUME NEW a \in Nat, NEW w \in Written, NEW b \in Nat
  PROVE  <<a, w, b>> \in Reaches <=> Takes(a, w, b)
  BY DEF Reaches

\* A terminal with the same text and writes reads the same.
LEMMA ReadsSame ==
  ASSUME NEW T, NEW U, NEW e, U.text = T.text, U.ptyOffset = T.ptyOffset, U.writes = T.writes, HasRead(T, e)
  PROVE  HasRead(U, e)
<1>1. \A k: InFetch(U, k) <=> InFetch(T, k)
  BY DEF InFetch
<1> QED
  BY <1>1 DEF HasRead

LEMMA ReadsNothing ==
  ASSUME NEW T, T.text = <<>>, T.writes = <<>>, T.ptyOffset = 0
  PROVE  HasRead(T, 0)
<1>1. <<>> \in Seq(Written) /\ 0 \in Nat
  OBVIOUS
<1>2. Path(Reaches, Nat, 0, <<>>, 0)
  BY <1>1, PathFacts
<1>3. Span(0, 0) = <<>>
  BY <1>1, SpanFacts
<1>4. DOMAIN <<>> = {}
  OBVIOUS
<1>5. \A k: ~InFetch(T, k)
  BY <1>4 DEF InFetch
<1> QED
  BY <1>2, <1>3, <1>5 DEF HasRead

\* One more write, of the chunks after those the terminal will show.
LEMMA ReadsWrite ==
  ASSUME NEW T \in Terminals, NEW e \in Nat, NEW b \in Nat, NEW w \in Written, HasRead(T, e), Takes(e, w, b)
  PROVE  /\ [T EXCEPT !.writes = Append(@, w)] \in Terminals
         /\ HasRead([T EXCEPT !.writes = Append(@, w)], b)
<1> DEFINE W == [T EXCEPT !.writes = Append(@, w)]
<1>0. T.writes \in Seq(Written) /\ T.ptyOffset \in Nat
  BY DEF Terminals
<1>1. PICK q: q = Append(T.writes, w)
  OBVIOUS
<1>2. /\ q \in Seq(Written) /\ Len(q) = Len(T.writes) + 1 /\ q[Len(T.writes) + 1] = w /\ Len(T.writes) \in Nat
      /\ \A i \in 1 .. Len(T.writes): i \in 1 .. Len(q) /\ q[i] = T.writes[i]
      /\ \A i \in 1 .. Len(q): i \in 1 .. Len(T.writes) \/ i = Len(T.writes) + 1
  BY <1>0, <1>1, Appended
<1>3. W \in Terminals /\ W.writes = q /\ W.text = T.text /\ W.ptyOffset = T.ptyOffset
  BY <1>1, <1>2 DEF Terminals
<1>4. e <= b /\ \A k: Contains(w.data, k) <=> k \in e + 1 .. b
  <2>1. e <= b /\ w.data = Span(e, b)
    BY DEF Takes
  <2>2. \A k: Contains(Span(e, b), k) <=> k \in e + 1 .. b
    BY <2>1, SpanFacts
  <2> QED
    BY <2>1, <2>2
<1>5. \A k: InFetch(W, k) <=> InFetch(T, k) \/ Contains(w.data, k)
  <2>1. DOMAIN q = 1 .. Len(q) /\ DOMAIN T.writes = 1 .. Len(T.writes) /\ Len(T.writes) + 1 \in 1 .. Len(q)
    BY <1>0, <1>2
  <2> HIDE DEF W
  <2> QED
    BY <1>2, <1>3, <2>1 DEF InFetch
<1>6. Path(Reaches, Nat, T.ptyOffset, q, b)
  <2>1. <<e, w, b>> \in Reaches
    BY ReachesIs
  <2>2. Path(Reaches, Nat, T.ptyOffset, T.writes, e)
    BY DEF HasRead
  <2> QED
    BY <1>0, <1>1, <2>1, <2>2, PathFacts
<1> HIDE DEF W
<1>7. /\ T.text = Span(0, T.ptyOffset) /\ T.ptyOffset <= e
      /\ \A k \in 1 .. e: k <= T.ptyOffset \/ InFetch(T, k)
      /\ \A k: InFetch(T, k) => k \in 1 .. e
  BY DEF HasRead
<1>8. \A k \in 1 .. b: k <= W.ptyOffset \/ InFetch(W, k)
  <2>1. \A k \in 1 .. b: k \in 1 .. e \/ k \in e + 1 .. b
    BY <1>4
  <2> QED
    BY <1>3, <1>4, <1>5, <1>7, <2>1
<1>9. W.ptyOffset <= b
  BY <1>0, <1>3, <1>4, <1>7
<1>10. \A k: InFetch(W, k) => k \in 1 .. b
  <2>1. \A k: k \in 1 .. e \/ k \in e + 1 .. b => k \in 1 .. b
    BY <1>4
  <2> QED
    BY <1>4, <1>5, <1>7, <2>1
<1>11. HasRead(W, b)
  BY <1>3, <1>6, <1>7, <1>8, <1>9, <1>10 DEF HasRead
<1> QED
  BY <1>3, <1>11 DEF W

With(T, st, text, q, c, n) ==
  [T EXCEPT !.stage = st, !.text = text, !.writes = q, !.ptyOffset = c, !.processed = n]
LEMMA TerminalWith ==
  ASSUME NEW T \in Terminals, NEW st \in Stages, NEW text \in Seq(Nat), NEW q \in Seq(Written), NEW c \in Nat, NEW n \in Nat,
         NEW P, P = With(T, st, text, q, c, n)
  PROVE  /\ P \in Terminals /\ P.from = T.from /\ P.stage = st /\ P.text = text /\ P.writes = q /\ P.ptyOffset = c
  BY DEF Terminals, With

\* The first write is parsed.
LEMMA ReadsParsed ==
  ASSUME NEW i \in DOMAIN terms, Parse(i), terms[i] \in Terminals, NEW e \in Nat, HasRead(terms[i], e)
  PROVE  \E P \in Terminals:
           /\ terms' = [terms EXCEPT ![i] = P] /\ HasRead(P, e) /\ P.from = terms[i].from
           /\ (P.stage = terms[i].stage \/ (terms[i].stage = "parse" /\ P.stage = "loaded"))
<1>00. PICK T \in Terminals: T = terms[i] /\ HasRead(T, e)
  OBVIOUS
<1>0. /\ T.writes \in Seq(Written) /\ T.ptyOffset \in Nat /\ T.processed \in Nat /\ T.text \in Seq(Nat)
      /\ T.stage \in Stages /\ T.writes # <<>>
  BY <1>00 DEF Terminals, Parse
<1>1. PICK w: w = T.writes[1]
  OBVIOUS
<1>2. PICK q: q = Tail(T.writes)
  OBVIOUS
<1>3. /\ w \in Written /\ q \in Seq(Written) /\ Len(T.writes) \in Nat \ {0}
      /\ \A j \in 1 .. Len(q): j + 1 \in 1 .. Len(T.writes) /\ q[j] = T.writes[j + 1]
      /\ \A j \in 2 .. Len(T.writes): j - 1 \in 1 .. Len(q) /\ q[j - 1] = T.writes[j]
  BY <1>0, <1>1, <1>2, Shortened
<1>4. /\ T.text = Span(0, T.ptyOffset) /\ T.ptyOffset <= e /\ Path(Reaches, Nat, T.ptyOffset, T.writes, e)
      /\ \A k \in 1 .. e: k <= T.ptyOffset \/ InFetch(T, k)
      /\ \A k: InFetch(T, k) => k \in 1 .. e
  BY <1>00 DEF HasRead
<1>a. PICK a \in Nat: a = T.ptyOffset
  BY <1>0
<1>5. PICK c \in Nat: <<a, w, c>> \in Reaches /\ Path(Reaches, Nat, c, q, e)
  <2>1. PICK ws \in Seq(Written): ws = T.writes
    BY <1>0
  <2>2. ws # <<>> /\ Path(Reaches, Nat, a, ws, e) /\ w = ws[1] /\ q = Tail(ws)
    BY <1>0, <1>1, <1>2, <1>4, <1>a, <2>1
  <2>3. \E c \in Nat: <<a, ws[1], c>> \in Reaches /\ Path(Reaches, Nat, c, Tail(ws), e)
    BY <2>2, PathFacts
  <2> QED
    BY <2>2, <2>3
<1>6. /\ a <= c /\ w.data = Span(a, c) /\ (w.offset = Counted \/ (a = 0 /\ w.offset = c))
      /\ Len(w.data) = c - a /\ T.text \o w.data = Span(0, c) /\ \A k: Contains(w.data, k) <=> k \in a + 1 .. c
  <2>1. Takes(a, w, c)
    BY <1>3, <1>5, ReachesIs
  <2>2. a <= c /\ w.data = Span(a, c) /\ (w.offset = Counted \/ (a = 0 /\ w.offset = c))
    BY <2>1 DEF Takes
  <2>3. Len(Span(a, c)) = c - a
    BY <1>0, <2>2, SpanIs
  <2>4. Span(0, a) \o Span(a, c) = Span(0, c) /\ \A k: Contains(Span(a, c), k) <=> k \in a + 1 .. c
    BY <1>0, <2>2, SpanFacts
  <2> QED
    BY <1>4, <1>a, <2>2, <2>3, <2>4
<1>7. Span(0, c) \in Seq(Nat)
  <2>1. 0 \in Nat /\ 0 <= c
    OBVIOUS
  <2> QED
    BY <2>1, SpanIs
<1>8. PICK P \in Terminals:
        /\ terms' = [terms EXCEPT ![i] = P] /\ P.from = T.from /\ (P.stage = T.stage \/ (T.stage = "parse" /\ P.stage = "loaded"))
        /\ P.text = Span(0, c) /\ P.writes = q /\ P.ptyOffset = c
  <2>1. \E n \in Nat, st \in Stages:
          \E P: /\ P = With(T, st, Span(0, c), q, c, n)
               /\ terms' = [terms EXCEPT ![i] = P]
               /\ (st = T.stage \/ (T.stage = "parse" /\ st = "loaded"))
    <3>1. CASE w.offset # Counted
      <4>1. PICK P: P = [[T EXCEPT !.writes = q, !.text = @ \o w.data] EXCEPT !.ptyOffset = w.offset]
        OBVIOUS
      <4>2. terms' = [terms EXCEPT ![i] = P]
        BY <1>00, <1>1, <1>2, <3>1, <4>1 DEF Parse
      <4>3. P = With(T, T.stage, Span(0, c), q, c, T.processed)
        BY <1>6, <3>1, <4>1 DEF Terminals, With
      <4> QED
        BY <1>0, <4>2, <4>3
    <3>2. CASE w.offset = Counted
      <4>1. PICK n \in Nat: n = T.processed + Len(w.data)
        BY <1>0, <1>6
      <4>2. PICK st \in Stages: st = IF T.stage = "parse" THEN "loaded" ELSE T.stage
        BY <1>0 DEF Stages
      <4>3. PICK P: P = [[T EXCEPT !.writes = q, !.text = @ \o w.data]
                          EXCEPT !.ptyOffset = @ + Len(w.data), !.processed = @ + Len(w.data),
                                 !.stage = IF @ = "parse" THEN "loaded" ELSE @]
        OBVIOUS
      <4>4. terms' = [terms EXCEPT ![i] = P]
        BY <1>00, <1>1, <1>2, <3>2, <4>3 DEF Parse
      <4>5. T.ptyOffset + Len(w.data) = c
        BY <1>a, <1>6
      <4>6. P = With(T, st, Span(0, c), q, c, n)
        BY <1>6, <4>1, <4>2, <4>3, <4>5 DEF Terminals, With
      <4> QED
        BY <4>2, <4>4, <4>6
    <3> QED
      BY <3>1, <3>2
  <2>2. PICK n, st, P:
          /\ n \in Nat /\ st \in Stages
          /\ P = With(T, st, Span(0, c), q, c, n)
          /\ terms' = [terms EXCEPT ![i] = P]
          /\ (st = T.stage \/ (T.stage = "parse" /\ st = "loaded"))
    BY <2>1
  <2>3. P \in Terminals /\ P.from = T.from /\ P.stage = st /\ P.text = Span(0, c) /\ P.writes = q /\ P.ptyOffset = c
    BY <1>3, <1>7, <2>2, TerminalWith
  <2> QED
    BY <2>2, <2>3
<1>9. /\ \A k: InFetch(T, k) <=> Contains(w.data, k) \/ InFetch(P, k)
  <2>1. DOMAIN T.writes = 1 .. Len(T.writes) /\ DOMAIN q = 1 .. Len(q) /\ 1 \in 1 .. Len(T.writes)
        /\ \A j \in 1 .. Len(T.writes): j = 1 \/ j \in 2 .. Len(T.writes)
    BY <1>0, <1>3
  <2>2. ASSUME NEW k, Contains(w.data, k) PROVE InFetch(T, k)
    BY <1>1, <2>1, <2>2 DEF InFetch
  <2>3. ASSUME NEW k, InFetch(P, k) PROVE InFetch(T, k)
    <3>1. PICK j \in 1 .. Len(q): Contains(q[j].data, k)
      BY <1>8, <2>1, <2>3 DEF InFetch
    <3> QED
      BY <1>3, <2>1, <3>1 DEF InFetch
  <2>4. ASSUME NEW k, InFetch(T, k) PROVE Contains(w.data, k) \/ InFetch(P, k)
    <3>1. PICK j \in 1 .. Len(T.writes): Contains(T.writes[j].data, k)
      BY <2>1, <2>4 DEF InFetch
    <3>2. CASE j = 1
      BY <1>1, <3>1, <3>2
    <3>3. CASE j \in 2 .. Len(T.writes)
      <4>1. j - 1 \in 1 .. Len(q) /\ q[j - 1] = T.writes[j]
        BY <1>3, <3>3
      <4> QED
        BY <1>8, <2>1, <3>1, <4>1 DEF InFetch
    <3> QED
      BY <2>1, <3>2, <3>3
  <2> QED
    BY <2>2, <2>3, <2>4
<1>10. c <= e
  <2>1. CASE a = c
    BY <1>4, <1>a, <2>1
  <2>2. CASE a # c
    <3>1. c \in a + 1 .. c
      BY <1>0, <1>6, <2>2
    <3>2. c \in 1 .. e
      BY <1>4, <1>6, <1>9, <3>1
    <3> QED
      BY <3>2
  <2> QED
    BY <2>1, <2>2
<1>11. \A k \in 1 .. e: k <= c \/ InFetch(P, k)
  <2>1. \A k \in 1 .. e: k <= a => k <= c
    BY <1>0, <1>6
  <2>2. \A k \in a + 1 .. c: k <= c
    BY <1>0
  <2> QED
    BY <1>4, <1>a, <1>6, <1>9, <2>1, <2>2
<1>12. HasRead(P, e)
  BY <1>4, <1>5, <1>8, <1>9, <1>10, <1>11 DEF HasRead
<1> QED
  BY <1>00, <1>8, <1>12


LEMMA OutputInitInv == TermOutputInit => OutputInv
<1> SUFFICES ASSUME TermOutputInit PROVE FileFits /\ SavesFit /\ TermsFit
  BY DEF OutputInv
<1>0. /\ file = [data |-> <<>>, made |-> 0, clears |-> 0] /\ cache = [text |-> <<>>, offset |-> 0]
      /\ saves = <<>> /\ news = <<>> /\ terms = <<>>
  BY DEF TermOutputInit, NoCache
<1>1. Span(0, 0) = <<>>
  <2>1. 0 \in Nat /\ 0 <= 0
    OBVIOUS
  <2> QED
    BY <2>1, SpanFacts
<1>2. Len(<<>>) = 0 /\ 1 .. 0 = {} /\ <<>> \in Seq(Nat) /\ <<>> \in Seq(Screens) /\ <<>> \in Seq(Terminals)
  OBVIOUS
<1>3. Heard = 0
  BY <1>0, <1>2 DEF Heard
<1>4. FileFits
  BY <1>0, <1>1, <1>2, <1>3 DEF FileFits
<1>5. SavesFit
  BY <1>0, <1>1, <1>2 DEF SavesFit
<1>6. TermsFit
  BY <1>0, <1>2 DEF TermsFit
<1> QED
  BY <1>4, <1>5, <1>6

\* One terminal is replaced.
LEMMA PutFits ==
  ASSUME TermsFit, file' = file, NEW i \in 1 .. Len(terms), NEW P,
         terms' \in Seq(Terminals), Len(terms') = Len(terms), terms'[i] = P,
         \A j \in 1 .. Len(terms): j # i => terms'[j] = terms[j],
         Fits(P, file.made), i = Len(terms) => ShownFits(P, file.made, Heard'), i = Len(terms) \/ Heard' = Heard
  PROVE  TermsFit'
<1>0. terms \in Seq(Terminals) /\ Len(terms) \in Nat /\ \A j \in 1 .. Len(terms): Fits(terms[j], file.made)
  BY DEF TermsFit
<1>1. \A j \in 1 .. Len(terms'): Fits(terms'[j], file'.made)
  <2> SUFFICES ASSUME NEW j \in 1 .. Len(terms) PROVE Fits(terms'[j], file.made)
    OBVIOUS
  <2>1. CASE j = i
    BY <2>1
  <2>2. CASE j # i
    BY <1>0, <2>2
  <2> QED
    BY <2>1, <2>2
<1>2. terms # <<>> /\ Len(terms) \in 1 .. Len(terms)
  BY <1>0
<1>3. Shown' = terms'[Len(terms)] /\ Shown = terms[Len(terms)]
  BY DEF Shown
<1>4. ShownFits(Shown', file'.made, Heard')
  <2>1. CASE i = Len(terms)
    BY <1>3, <2>1
  <2>2. CASE i # Len(terms)
    <3>1. Shown' = Shown /\ Heard' = Heard
      BY <1>2, <1>3, <2>2
    <3>2. ShownFits(Shown, file.made, Heard)
      BY <1>2 DEF TermsFit
    <3> QED
      BY <3>1, <3>2
  <2> QED
    BY <2>1, <2>2
<1> QED
  BY <1>1, <1>4 DEF TermsFit

LEMMA ChangeFits ==
  ASSUME TermsFit, file' = file, NEW i \in 1 .. Len(terms), NEW P \in Terminals, terms' = [terms EXCEPT ![i] = P],
         Fits(P, file.made), i = Len(terms) => ShownFits(P, file.made, Heard'), i = Len(terms) \/ Heard' = Heard
  PROVE  TermsFit'
<1>0. terms \in Seq(Terminals)
  BY DEF TermsFit
<1>1. /\ terms' \in Seq(Terminals) /\ Len(terms') = Len(terms) /\ terms'[i] = P
      /\ \A j \in 1 .. Len(terms): j # i => terms'[j] = terms[j]
  BY <1>0, ExceptSeq
<1> QED
  BY <1>1, PutFits

\* It is shown what was shown, or a terminal that just begins.
LEMMA AppendFits ==
  ASSUME TermsFit, file' = file, file.made \in Nat, NEW old \in Seq(Terminals),
         \A j \in 1 .. Len(old): Fits(old[j], file.made), terms' = Append(old, NewTerm)
  PROVE  TermsFit'
<1>1. NewTerm \in Terminals /\ NewTerm.stage = "cache" /\ NewTerm.text = <<>> /\ NewTerm.writes = <<>> /\ NewTerm.ptyOffset = 0
  <2>1. <<>> \in Seq(Nat) /\ <<>> \in Seq(Written) /\ "cache" \in Stages
    BY DEF Stages
  <2> QED
    BY <2>1 DEF NewTerm, Terminals
<1>2. HasRead(NewTerm, 0) /\ 0 \in Nat /\ 0 <= file.made
  BY <1>1, ReadsNothing
<1>3. Fits(NewTerm, file.made)
  BY <1>2 DEF Fits
<1>4. \A heard: ShownFits(NewTerm, file.made, heard)
  BY <1>1, <1>2 DEF ShownFits
<1>5. /\ terms' \in Seq(Terminals) /\ Len(terms') = Len(old) + 1 /\ terms'[Len(old) + 1] = NewTerm
      /\ \A j \in 1 .. Len(old): terms'[j] = old[j]
      /\ \A j \in 1 .. Len(terms'): j \in 1 .. Len(old) \/ j = Len(old) + 1
  BY <1>1, Appended
<1>6. \A j \in 1 .. Len(terms'): Fits(terms'[j], file'.made)
  BY <1>3, <1>5
<1>7. Shown' = NewTerm
  BY <1>5 DEF Shown
<1>8. ShownFits(Shown', file'.made, Heard')
  BY <1>4, <1>7
<1> QED
  BY <1>5, <1>6, <1>8 DEF TermsFit

LEMMA OutputMadeInv ==
  ASSUME OutputInv, Output
  PROVE  OutputInv'
<1> SUFFICES ASSUME ~spoiled PROVE FileFits' /\ SavesFit' /\ TermsFit'
  BY DEF OutputInv, Output
<1>0. FileFits /\ SavesFit /\ TermsFit
  BY DEF OutputInv
<1>1. PICK n: n = file.made
  OBVIOUS
<1>2. /\ file' = [file EXCEPT !.data = Append(@, n + 1), !.made = n + 1] /\ news' = Append(news, n + 1)
      /\ UNCHANGED <<cache, saves, terms>>
  BY <1>1 DEF Output
<1>3. n \in Nat /\ n + 1 \in Nat /\ file.data = Span(0, n) /\ news \in Seq(Nat) /\ Heard \in Nat /\ news = Span(Heard, n)
      /\ file \in [data: Seq(Nat), made: Nat, clears: Nat] /\ Heard = n - Len(news) /\ Len(news) \in Nat
  BY <1>0, <1>1 DEF FileFits, Heard
<1>4. Append(Span(0, n), n + 1) = Span(0, n + 1) /\ Append(Span(Heard, n), n + 1) = Span(Heard, n + 1)
  <2>1. 0 \in Nat /\ 0 <= n /\ Heard <= n
    BY <1>3
  <2>2. Append(Span(0, n), n + 1) = Span(0, n + 1)
    BY <1>3, <2>1, SpanFacts
  <2>3. PICK h \in Nat: h = Heard /\ h <= n
    BY <1>3, <2>1
  <2>4. Append(Span(h, n), n + 1) = Span(h, n + 1)
    BY <1>3, <2>3, SpanFacts
  <2> QED
    BY <2>2, <2>3, <2>4
<1>5. Append(file.data, n + 1) \in Seq(Nat) /\ Append(news, n + 1) \in Seq(Nat) /\ Len(Append(news, n + 1)) = Len(news) + 1
  BY <1>3, Appended
<1>6. /\ file' \in [data: Seq(Nat), made: Nat, clears: Nat] /\ file'.made = n + 1 /\ file'.data = Span(0, n + 1)
      /\ news' \in Seq(Nat) /\ news' = Span(Heard, n + 1) /\ Len(news') = Len(news) + 1
  BY <1>2, <1>3, <1>4, <1>5
<1>7. Heard' = Heard
  <2>1. Heard' = (n + 1) - (Len(news) + 1)
    <3>1. Heard' = file'.made - Len(news')
      BY DEF Heard
    <3> QED
      BY <1>6, <3>1
  <2>2. Heard = n - Len(news) /\ n \in Nat /\ Len(news) \in Nat
    BY <1>3
  <2> QED
    BY <2>1, <2>2
<1>8. FileFits'
  BY <1>3, <1>6, <1>7 DEF FileFits
<1>9. SavesFit'
  <2>1. \A k \in Nat: k <= n => k <= n + 1
    BY <1>3
  <2>2. cache.offset \in Nat /\ \A i \in 1 .. Len(saves): saves[i].offset \in Nat
    <3>1. cache \in [text: Seq(Nat), offset: Nat] /\ saves \in Seq(Screens)
      BY <1>0 DEF SavesFit
    <3>2. \A i \in 1 .. Len(saves): saves[i] \in Screens
      BY <3>1
    <3> QED
      BY <3>1, <3>2 DEF Screens
  <2> QED
    BY <1>0, <1>1, <1>2, <1>6, <2>1, <2>2 DEF SavesFit
<1>10. TermsFit'
  <2>1. \A T: Fits(T, n) => Fits(T, n + 1)
    BY <1>3 DEF Fits
  <2>2. \A T: ShownFits(T, n, Heard) => ShownFits(T, n + 1, Heard)
    BY <1>3 DEF ShownFits
  <2>3. Shown' = Shown
    BY <1>2 DEF Shown
  <2> QED
    BY <1>0, <1>1, <1>2, <1>6, <1>7, <2>1, <2>2, <2>3 DEF TermsFit
<1> QED
  BY <1>8, <1>9, <1>10

\* Nothing but the terminals changes.
LEMMA OthersKept ==
  ASSUME FileFits, SavesFit, UNCHANGED <<file, cache, saves, news>>
  PROVE  FileFits' /\ SavesFit' /\ Heard' = Heard
<1>1. Heard' = Heard
  BY DEF Heard
<1> QED
  BY <1>1 DEF FileFits, SavesFit

LEMMA CreateInv ==
  ASSUME OutputInv, Create \/ ReloadPage
  PROVE  OutputInv'
<1> SUFFICES ASSUME ~spoiled PROVE FileFits' /\ SavesFit' /\ TermsFit'
  BY DEF OutputInv, Create, ReloadPage
<1>0. FileFits /\ SavesFit /\ TermsFit
  BY DEF OutputInv
<1>1. /\ terms \in Seq(Terminals) /\ Len(terms) \in Nat /\ DOMAIN terms = 1 .. Len(terms)
      /\ file.made \in Nat /\ \A i \in 1 .. Len(terms): terms[i] \in Terminals /\ Fits(terms[i], file.made)
  BY <1>0 DEF TermsFit, FileFits
<1>2. CASE Create
  <2>1. PICK old: old = [i \in DOMAIN terms |-> [terms[i] EXCEPT !.live = FALSE]]
    OBVIOUS
  <2>2. terms' = Append(old, NewTerm) /\ UNCHANGED <<file, cache, saves, news>>
    BY <1>2, <2>1 DEF Create
  <2>3. ASSUME NEW i \in 1 .. Len(terms) PROVE old[i] \in Terminals /\ Fits(old[i], file.made)
    <3>1. PICK T \in Terminals: T = terms[i] /\ Fits(T, file.made)
      BY <1>1
    <3>2. PICK U: U = [T EXCEPT !.live = FALSE]
      OBVIOUS
    <3>3. U \in Terminals /\ U.text = T.text /\ U.ptyOffset = T.ptyOffset /\ U.writes = T.writes
      BY <3>2 DEF Terminals
    <3>4. Fits(U, file.made)
      BY <3>1, <3>3, ReadsSame DEF Fits
    <3>5. old[i] = U
      BY <1>1, <2>1, <3>1, <3>2
    <3> QED
      BY <3>3, <3>4, <3>5
  <2>4. old \in Seq(Terminals) /\ Len(old) = Len(terms)
    BY <1>1, <2>1, <2>3
  <2>5. TermsFit'
    BY <1>0, <1>1, <2>2, <2>3, <2>4, AppendFits
  <2> QED
    BY <1>0, <2>2, <2>5, OthersKept
<1>3. CASE ReloadPage
  <2>1. PICK old: old = [i \in DOMAIN terms |-> [NewTerm EXCEPT !.live = FALSE, !.stage = "gone"]]
    OBVIOUS
  <2>2. terms' = Append(old, NewTerm) /\ news' = <<>> /\ UNCHANGED <<file, cache, saves>>
    BY <1>3, <2>1 DEF ReloadPage
  <2>3. PICK U: U = [NewTerm EXCEPT !.live = FALSE, !.stage = "gone"]
    OBVIOUS
  <2>4. U \in Terminals /\ U.text = <<>> /\ U.writes = <<>> /\ U.ptyOffset = 0
    <3>1. <<>> \in Seq(Nat) /\ <<>> \in Seq(Written) /\ "gone" \in Stages
      BY DEF Stages
    <3> QED
      BY <2>3, <3>1 DEF NewTerm, Terminals
  <2>5. Fits(U, file.made)
    <3>1. HasRead(U, 0) /\ 0 \in Nat /\ 0 <= file.made
      BY <1>1, <2>4, ReadsNothing
    <3> QED
      BY <3>1 DEF Fits
  <2>6. \A i \in 1 .. Len(terms): old[i] = U
    BY <1>1, <2>1, <2>3
  <2>7. old \in Seq(Terminals) /\ Len(old) = Len(terms)
    BY <1>1, <2>1, <2>4, <2>6
  <2>8. TermsFit'
    BY <1>0, <1>1, <2>2, <2>5, <2>6, <2>7, AppendFits
  <2>9. Heard' = file.made /\ <<>> \in Seq(Nat)
    <3>1. Len(<<>>) = 0 /\ <<>> \in Seq(Nat)
      OBVIOUS
    <3> QED
      BY <1>1, <2>2, <3>1 DEF Heard
  <2>10. Span(file.made, file.made) = <<>>
    <3>1. PICK n \in Nat: n = file.made /\ n <= n
      BY <1>1
    <3>2. Span(n, n) = <<>>
      BY <3>1, SpanFacts
    <3> QED
      BY <3>1, <3>2
  <2>11. FileFits'
    BY <1>0, <1>1, <2>2, <2>9, <2>10 DEF FileFits
  <2>12. SavesFit'
    BY <1>0, <2>2 DEF SavesFit
  <2> QED
    BY <2>8, <2>11, <2>12
<1> QED
  BY <1>2, <1>3

LEMMA ParseInv ==
  ASSUME OutputInv, NEW i \in DOMAIN terms, Parse(i)
  PROVE  OutputInv'
<1> SUFFICES ASSUME ~spoiled PROVE FileFits' /\ SavesFit' /\ TermsFit'
  BY DEF OutputInv, Parse
<1>0. FileFits /\ SavesFit /\ TermsFit /\ UNCHANGED <<file, cache, saves, news>>
  BY DEF OutputInv, Parse
<1>1. terms \in Seq(Terminals) /\ i \in 1 .. Len(terms) /\ terms[i] \in Terminals /\ Fits(terms[i], file.made)
  BY <1>0 DEF TermsFit
<1>2. Heard' = Heard
  BY <1>0, OthersKept
<1>3. CASE i # Len(terms)
  <2>1. PICK e \in Nat: e <= file.made /\ HasRead(terms[i], e)
    BY <1>1 DEF Fits
  <2>2. PICK P \in Terminals: terms' = [terms EXCEPT ![i] = P] /\ HasRead(P, e)
    BY <1>1, <2>1, ReadsParsed
  <2>3. Fits(P, file.made)
    BY <2>1, <2>2 DEF Fits
  <2>4. TermsFit'
    BY <1>0, <1>1, <1>2, <1>3, <2>2, <2>3, ChangeFits
  <2> QED
    BY <1>0, <2>4, OthersKept
<1>4. CASE i = Len(terms)
  <2>1. ShownFits(terms[i], file.made, Heard)
    <3>1. terms # <<>>
      BY <1>1
    <3> QED
      BY <1>0, <1>4, <3>1 DEF TermsFit, Shown
  <2>2. PICK e \in Nat:
          /\ e <= file.made /\ HasRead(terms[i], e)
          /\ terms[i].stage = "cache" => e = 0
          /\ terms[i].stage = "main" => e = terms[i].from
          /\ terms[i].stage \in {"parse", "loaded"} => Heard <= e
    BY <2>1 DEF ShownFits
  <2>3. PICK P \in Terminals:
          /\ terms' = [terms EXCEPT ![i] = P] /\ HasRead(P, e) /\ P.from = terms[i].from
          /\ (P.stage = terms[i].stage \/ (terms[i].stage = "parse" /\ P.stage = "loaded"))
    BY <1>1, <2>2, ReadsParsed
  <2>4. Fits(P, file.made)
    BY <2>2, <2>3 DEF Fits
  <2>5. ShownFits(P, file.made, Heard)
    BY <2>2, <2>3 DEF ShownFits
  <2>6. TermsFit'
    BY <1>0, <1>1, <1>2, <1>4, <2>3, <2>4, <2>5, ChangeFits
  <2> QED
    BY <1>0, <2>6, OthersKept
<1> QED
  BY <1>3, <1>4


\* The terminal that is shown.
LEMMA ShownFacts ==
  ASSUME TermsFit, FileFits, terms # <<>>
  PROVE  /\ Len(terms) \in 1 .. Len(terms) /\ Shown = terms[Len(terms)] /\ Shown \in Terminals
         /\ \E e \in Nat:
              /\ e <= file.made /\ HasRead(Shown, e)
              /\ Shown.stage = "cache" => e = 0
              /\ Shown.stage = "main" => e = Shown.from
              /\ Shown.stage \in {"parse", "loaded"} => Heard <= e
<1>1. terms \in Seq(Terminals) /\ ShownFits(Shown, file.made, Heard)
  BY DEF TermsFit
<1>2. Len(terms) \in 1 .. Len(terms)
  BY <1>1
<1>3. Shown = terms[Len(terms)]
  BY DEF Shown
<1> QED
  BY <1>1, <1>2, <1>3 DEF ShownFits

\* The terminal that is shown asks for the chunks up to b.
LEMMA ShownWritesInv ==
  ASSUME FileFits, TermsFit, terms # <<>>, file' = file, Heard' \in Nat, NEW T \in Terminals, NEW w \in Written,
         NEW e \in Nat, NEW b \in Nat, HasRead(T, e), Takes(e, w, b), b <= file.made,
         T.stage = "main" => b = T.from, T.stage \in {"parse", "loaded"} => Heard' <= b, T.stage # "cache",
         Change(doTerminalWrite(T, w.data, w.offset))
  PROVE  TermsFit'
<1>1. PICK W: W = [T EXCEPT !.writes = Append(@, w)]
  OBVIOUS
<1>2. W \in Terminals /\ HasRead(W, b)
  BY <1>1, ReadsWrite
<1>3. W.stage = T.stage /\ W.from = T.from
  BY <1>1 DEF Terminals
<1>4. terms' = [terms EXCEPT ![Len(terms)] = W]
  <2>1. [data |-> w.data, offset |-> w.offset] = w
    BY DEF Written
  <2>2. doTerminalWrite(T, w.data, w.offset) = W
    BY <1>1, <2>1 DEF doTerminalWrite
  <2> QED
    BY <2>2 DEF Change
<1>5. Fits(W, file.made)
  BY <1>2 DEF Fits
<1>6. ShownFits(W, file.made, Heard')
  BY <1>2, <1>3 DEF ShownFits
<1>7. Len(terms) \in 1 .. Len(terms)
  BY ShownFacts
<1> QED
  BY <1>2, <1>4, <1>5, <1>6, <1>7, ChangeFits

\* The terminal that is shown goes on to what it will show already.
LEMMA ShownGoesInv ==
  ASSUME FileFits, TermsFit, terms # <<>>, file' = file, NEW T \in Terminals, NEW e \in Nat, HasRead(T, e),
         e <= file.made, T.stage # "cache",
         T.stage = "main" => e = T.from, T.stage \in {"parse", "loaded"} => Heard' <= e, Change(T)
  PROVE  TermsFit'
<1>1. terms' = [terms EXCEPT ![Len(terms)] = T]
  BY DEF Change
<1>2. Fits(T, file.made)
  BY DEF Fits
<1>3. ShownFits(T, file.made, Heard')
  BY DEF ShownFits
<1>4. Len(terms) \in 1 .. Len(terms)
  BY ShownFacts
<1> QED
  BY <1>1, <1>2, <1>3, <1>4, ChangeFits

LEMMA FetchCacheInv ==
  ASSUME OutputInv, FetchCache
  PROVE  OutputInv'
<1> SUFFICES ASSUME ~spoiled, ~(\E j \in DOMAIN saves : saves[j].half) PROVE FileFits' /\ SavesFit' /\ TermsFit'
  BY DEF OutputInv, FetchCache
<1>0. FileFits /\ SavesFit /\ TermsFit /\ terms # <<>> /\ Shown.stage = "cache" /\ UNCHANGED <<file, cache, saves, news>>
  BY DEF OutputInv, FetchCache
<1>1. Shown \in Terminals /\ HasRead(Shown, 0)
  BY <1>0, ShownFacts
<1>2. /\ cache \in [text: Seq(Nat), offset: Nat] /\ cache.offset <= file.made /\ cache.text = Span(0, cache.offset)
      /\ file.made \in Nat
  <2>1. saves \in Seq(Screens) /\ DOMAIN saves = 1 .. Len(saves)
    BY <1>0 DEF SavesFit
  <2> QED
    BY <1>0, <2>1 DEF SavesFit, FileFits
<1>3. PICK c \in Nat: c = cache.offset
  BY <1>2
<1>4. PICK T: T = [Shown EXCEPT !.stage = "main", !.from = c]
  OBVIOUS
<1>5. T \in Terminals /\ T.stage = "main" /\ T.from = c /\ T.text = Shown.text /\ T.writes = Shown.writes /\ T.ptyOffset = Shown.ptyOffset
  BY <1>1, <1>4 DEF Terminals, Stages
<1>6. HasRead(T, 0)
  BY <1>1, <1>5, ReadsSame
<1>7. Change(IF cache.text = <<>> THEN T ELSE doTerminalWrite(T, cache.text, c))
  BY <1>3, <1>4 DEF FetchCache
<1>8. Heard' = Heard /\ Heard \in Nat
  BY <1>0, OthersKept DEF FileFits
<1>9. CASE cache.text = <<>>
  <2>1. 0 \in Nat /\ 0 <= c
    OBVIOUS
  <2>2. c = 0
    BY <1>2, <1>3, <1>9, <2>1, SpanFacts
  <2>3. Change(T)
    BY <1>7, <1>9
  <2>4. 0 \in Nat /\ 0 <= file.made /\ T.stage \notin {"parse", "loaded"} /\ T.stage # "cache"
    BY <1>2, <1>5
  <2>5. TermsFit'
    BY <1>0, <1>5, <1>6, <2>2, <2>3, <2>4, ShownGoesInv
  <2> QED
    BY <1>0, <2>5, OthersKept
<1>10. CASE cache.text # <<>>
  <2>1. PICK w: w = [data |-> cache.text, offset |-> c]
    OBVIOUS
  <2>2. w \in Written /\ w.data = cache.text /\ w.offset = c
    BY <1>2, <2>1 DEF Written
  <2>3. Takes(0, w, c)
    BY <1>2, <1>3, <2>2 DEF Takes
  <2>4. Change(doTerminalWrite(T, w.data, w.offset))
    BY <1>7, <1>10, <2>2
  <2>5. 0 \in Nat /\ c <= file.made /\ T.stage \notin {"parse", "loaded"} /\ T.stage # "cache"
    BY <1>2, <1>3, <1>5
  <2>6. TermsFit'
    BY <1>0, <1>5, <1>6, <1>8, <2>2, <2>3, <2>4, <2>5, ShownWritesInv
  <2> QED
    BY <1>0, <2>6, OthersKept
<1> QED
  BY <1>9, <1>10

LEMMA FetchMainInv ==
  ASSUME OutputInv, FetchMain
  PROVE  OutputInv'
<1> SUFFICES ASSUME ~spoiled PROVE FileFits' /\ SavesFit' /\ TermsFit'
  BY DEF OutputInv, FetchMain
<1>0. FileFits /\ SavesFit /\ TermsFit /\ terms # <<>> /\ Shown.stage = "main" /\ UNCHANGED <<file, cache, saves, news>>
  BY DEF OutputInv, FetchMain
<1>1. Shown \in Terminals
  BY <1>0, ShownFacts
<1>2. PICK e \in Nat: e <= file.made /\ HasRead(Shown, e) /\ e = Shown.from
  BY <1>0, ShownFacts
<1>3. PICK n \in Nat: n = file.made /\ e <= n
  BY <1>0, <1>2 DEF FileFits
<1>4. file.data = Span(0, n) /\ Heard \in Nat /\ Heard' = Heard
  BY <1>0, <1>3, OthersKept DEF FileFits
<1>5. Heard <= n
  <2>1. news \in Seq(Nat) /\ Heard = n - Len(news)
    BY <1>0, <1>3 DEF FileFits, Heard
  <2>2. Len(news) \in Nat
    BY <2>1
  <2> QED
    BY <2>1, <2>2
<1>6. Span(0, n) \in Seq(Nat) /\ Len(Span(0, n)) = n /\ SubSeq(Span(0, n), e + 1, n) = Span(e, n) /\ Span(e, n) \in Seq(Nat)
  <2>1. 0 \in Nat /\ 0 <= n /\ n - 0 = n
    OBVIOUS
  <2>2. Span(0, n) \in Seq(Nat) /\ Len(Span(0, n)) = n - 0
    BY <2>1, SpanIs
  <2>3. SubSeq(Span(0, n), e + 1, n) = Span(e, n)
    BY <1>3, SpanFacts
  <2>4. Span(e, n) \in Seq(Nat)
    BY <1>3, SpanIs
  <2> QED
    BY <2>1, <2>2, <2>3, <2>4
<1>7. PICK T: T = [Shown EXCEPT !.stage = "parse"]
  OBVIOUS
<1>8. T \in Terminals /\ T.stage = "parse" /\ T.text = Shown.text /\ T.writes = Shown.writes /\ T.ptyOffset = Shown.ptyOffset
  BY <1>1, <1>7 DEF Terminals, Stages
<1>9. HasRead(T, e)
  BY <1>2, <1>8, ReadsSame
<1>10. RestOfFile(Shown) = Span(e, n)
  BY <1>2, <1>4, <1>6 DEF RestOfFile
<1>11. PICK w: w = [data |-> Span(e, n), offset |-> Counted]
  OBVIOUS
<1>12. w \in Written /\ w.data = Span(e, n) /\ w.offset = Counted
  BY <1>6, <1>11 DEF Written, Counted
<1>13. Takes(e, w, n)
  BY <1>3, <1>12 DEF Takes
<1>14. Change(doTerminalWrite(T, w.data, w.offset))
  BY <1>7, <1>10, <1>12 DEF FetchMain
<1>15. n <= file.made /\ T.stage # "main" /\ T.stage # "cache" /\ Heard' <= n /\ Heard' \in Nat
  BY <1>3, <1>4, <1>5, <1>8
<1>16. TermsFit'
  BY <1>0, <1>8, <1>9, <1>12, <1>13, <1>14, <1>15, ShownWritesInv
<1> QED
  BY <1>0, <1>16, OthersKept

LEMMA DeliverInv ==
  ASSUME OutputInv, Deliver
  PROVE  OutputInv'
<1>00. PICK h: h = news[1]
  OBVIOUS
<1> SUFFICES ASSUME ~spoiled, ~LostOrTwice(Shown, h) PROVE FileFits' /\ SavesFit' /\ TermsFit'
  BY <1>00 DEF OutputInv, Deliver
<1>0. /\ FileFits /\ SavesFit /\ TermsFit /\ terms # <<>> /\ news # <<>> /\ news' = Tail(news) /\ UNCHANGED <<file, cache, saves>>
      /\ Change(handleNewFileSubjectData(Shown, h))
  BY <1>00 DEF OutputInv, Deliver
<1>1. PICK n \in Nat: n = file.made
  BY <1>0 DEF FileFits
<1>2. PICK a \in Nat: a = Heard
  BY <1>0 DEF FileFits
<1>3. news \in Seq(Nat) /\ news = Span(a, n) /\ Len(news) \in Nat /\ a = n - Len(news)
  BY <1>0, <1>1, <1>2 DEF FileFits, Heard
<1>4. a < n
  <2>1. a <= n
    BY <1>3
  <2>2. CASE a = n
    <3>1. Span(n, n) = <<>>
      BY <2>1, <2>2, SpanFacts
    <3> QED
      BY <1>0, <1>3, <2>2, <3>1
  <2> QED
    BY <2>1, <2>2
<1>5. h = a + 1 /\ Tail(news) = Span(a + 1, n) /\ Tail(news) \in Seq(Nat) /\ Len(Tail(news)) = Len(news) - 1
  <2>1. a <= n
    BY <1>4
  <2>2. Span(a, n)[1] = a + 1 /\ Tail(Span(a, n)) = Span(a + 1, n)
    BY <1>4, <2>1, SpanFacts
  <2>3. Tail(news) \in Seq(Nat) /\ Len(Tail(news)) = Len(news) - 1
    BY <1>0, <1>3, Shortened
  <2> QED
    BY <1>00, <1>3, <2>2, <2>3
<1>6. Heard' = a + 1
  <2>1. Heard' = n - (Len(news) - 1)
    <3>1. Heard' = file'.made - Len(news')
      BY DEF Heard
    <3> QED
      BY <1>0, <1>1, <1>5, <3>1
  <2> QED
    BY <1>3, <2>1
<1>7. FileFits'
  BY <1>0, <1>1, <1>5, <1>6 DEF FileFits
<1>8. SavesFit'
  BY <1>0 DEF SavesFit
<1>9. Shown \in Terminals /\ h # 0 /\ h \in Nat
  BY <1>0, <1>5, ShownFacts
<1>10. PICK e \in Nat:
         /\ e <= n /\ HasRead(Shown, e)
         /\ Shown.stage = "cache" => e = 0
         /\ Shown.stage = "main" => e = Shown.from
         /\ Shown.stage \in {"parse", "loaded"} => a <= e
  <2>1. \E e \in Nat:
              /\ e <= file.made /\ HasRead(Shown, e)
              /\ Shown.stage = "cache" => e = 0
              /\ Shown.stage = "main" => e = Shown.from
              /\ Shown.stage \in {"parse", "loaded"} => Heard <= e
    BY <1>0, ShownFacts
  <2> QED
    BY <1>1, <1>2, <2>1
<1>11. /\ Shown.ptyOffset \in Nat /\ Shown.text = Span(0, Shown.ptyOffset)
       /\ \A k \in 1 .. e: k <= Shown.ptyOffset \/ InFetch(Shown, k)
       /\ \A k: InFetch(Shown, k) => k \in 1 .. e
  BY <1>9, <1>10 DEF HasRead, Terminals
<1>12. CASE Loaded(Shown)
  <2>1. Shown.stage = "loaded" /\ ~Contains(Shown.text, h) /\ ~InFetch(Shown, h) /\ a <= e
    BY <1>10, <1>12 DEF Loaded, LostOrTwice
  <2>2. e = a
    <3>1. ASSUME h <= e PROVE FALSE
      <4>1. h \in 1 .. e
        BY <1>5, <3>1
      <4>2. h <= Shown.ptyOffset
        BY <1>11, <2>1, <4>1
      <4>3. PICK p \in Nat: p = Shown.ptyOffset /\ h \in 0 + 1 .. p /\ 0 <= p /\ 0 \in Nat
        BY <1>5, <1>11, <4>2
      <4>4. \A k: Contains(Span(0, p), k) <=> k \in 0 + 1 .. p
        BY <4>3, SpanFacts
      <4>5. Contains(Shown.text, h)
        BY <1>11, <4>3, <4>4
      <4> QED
        BY <2>1, <4>5
    <3> QED
      BY <1>5, <2>1, <3>1
  <2>3. <<h>> = Span(e, e + 1)
    <3>1. e \in Nat /\ e <= e
      OBVIOUS
    <3>2. Append(Span(e, e), e + 1) = Span(e, e + 1) /\ Span(e, e) = <<>>
      BY <3>1, SpanFacts
    <3>3. Append(<<>>, e + 1) = <<e + 1>>
      OBVIOUS
    <3> QED
      BY <1>5, <2>2, <3>2, <3>3
  <2>4. PICK b \in Nat: b = e + 1 /\ e <= b
    OBVIOUS
  <2>5. PICK w: w = [data |-> <<h>>, offset |-> Counted]
    OBVIOUS
  <2>6. w \in Written /\ w.data = <<h>> /\ w.offset = Counted
    BY <1>9, <2>5 DEF Written, Counted
  <2>7. Takes(e, w, b)
    BY <2>3, <2>4, <2>6 DEF Takes
  <2>8. Change(doTerminalWrite(Shown, w.data, w.offset))
    BY <1>0, <1>9, <1>12, <2>6 DEF handleNewFileSubjectData
  <2>9. b <= file.made /\ Heard' <= b /\ Heard' \in Nat /\ Shown.stage # "main" /\ Shown.stage # "cache"
    BY <1>1, <1>4, <1>6, <2>1, <2>2, <2>4
  <2>10. TermsFit'
    BY <1>0, <1>9, <1>10, <2>6, <2>7, <2>8, <2>9, ShownWritesInv
  <2> QED
    BY <1>7, <1>8, <2>10
<1>13. CASE ~Loaded(Shown)
  <2>1. PICK T: T = [Shown EXCEPT !.held = Append(@, h)]
    OBVIOUS
  <2>2. Change(T)
    BY <1>0, <1>9, <1>13, <2>1 DEF handleNewFileSubjectData
  <2>3. Append(Shown.held, h) \in Seq(Nat)
    <3>1. Shown.held \in Seq(Nat)
      BY <1>9 DEF Terminals
    <3> QED
      BY <1>9, <3>1, Appended
  <2>4. /\ T \in Terminals /\ T.stage = Shown.stage /\ T.from = Shown.from
        /\ T.text = Shown.text /\ T.writes = Shown.writes /\ T.ptyOffset = Shown.ptyOffset
    BY <1>9, <2>1, <2>3 DEF Terminals
  <2>5. HasRead(T, e)
    BY <1>10, <2>4, ReadsSame
  <2>6. T.stage \in {"parse", "loaded"} => Heard' <= e
    <3>1. T.stage \in {"parse", "loaded"} => Shown.stage = "parse"
      BY <1>13, <2>4 DEF Loaded
    <3>2. Shown.stage = "parse" => InFetch(Shown, h)
      BY DEF LostOrTwice
    <3>3. InFetch(Shown, h) => h <= e
      BY <1>11
    <3> QED
      BY <1>5, <1>6, <3>1, <3>2, <3>3
  <2>7. terms' = [terms EXCEPT ![Len(terms)] = T] /\ Len(terms) \in 1 .. Len(terms)
    BY <1>0, <2>2, ShownFacts DEF Change
  <2>8. Fits(T, file.made) /\ ShownFits(T, file.made, Heard')
    BY <1>1, <1>10, <2>4, <2>5, <2>6 DEF Fits, ShownFits
  <2>9. TermsFit'
    BY <1>0, <2>4, <2>7, <2>8, ChangeFits
  <2> QED
    BY <1>7, <1>8, <2>9
<1> QED
  BY <1>12, <1>13


LEMMA SaveTextInv ==
  ASSUME OutputInv, NEW i \in DOMAIN saves, SaveText(i)
  PROVE  OutputInv'
<1> SUFFICES ASSUME ~spoiled, ~(\E j \in DOMAIN saves : saves[j].half) PROVE FileFits' /\ SavesFit' /\ TermsFit'
  BY DEF OutputInv, SaveText
<1>0. FileFits /\ SavesFit /\ TermsFit /\ UNCHANGED <<file, news, terms>>
  BY DEF OutputInv, SaveText
<1>1. /\ saves \in Seq(Screens) /\ DOMAIN saves = 1 .. Len(saves) /\ saves[i] \in Screens
      /\ cache \in [text: Seq(Nat), offset: Nat]
      /\ \A j \in 1 .. Len(saves): saves[j].offset <= file.made /\ saves[j].text = Span(0, saves[j].offset)
  BY <1>0 DEF SavesFit
<1>2. PICK x: x = [saves[i] EXCEPT !.half = TRUE]
  OBVIOUS
<1>3. x \in Screens /\ x.text = saves[i].text /\ x.offset = saves[i].offset /\ x.half
  BY <1>1, <1>2 DEF Screens
<1>4. saves' = [saves EXCEPT ![i] = x] /\ cache' = [cache EXCEPT !.text = saves[i].text]
  BY <1>2 DEF SaveText
<1>5. /\ saves' \in Seq(Screens) /\ Len(saves') = Len(saves) /\ saves'[i] = x /\ i \in 1 .. Len(saves')
      /\ \A j \in 1 .. Len(saves): j # i => saves'[j] = saves[j]
  BY <1>1, <1>3, <1>4
<1>6. cache' \in [text: Seq(Nat), offset: Nat] /\ cache'.text = saves[i].text
  BY <1>1, <1>4 DEF Screens
<1>7. \A j \in 1 .. Len(saves'): saves'[j].half <=> j = i
  BY <1>1, <1>3, <1>5
<1>8. \A j \in 1 .. Len(saves'): saves'[j].offset <= file'.made /\ saves'[j].text = Span(0, saves'[j].offset)
  <2> SUFFICES ASSUME NEW j \in 1 .. Len(saves') PROVE saves'[j].offset <= file.made /\ saves'[j].text = Span(0, saves'[j].offset)
    BY <1>0
  <2>1. saves'[j].offset = saves[j].offset /\ saves'[j].text = saves[j].text
    BY <1>3, <1>5
  <2> QED
    BY <1>1, <1>5, <2>1
<1>9. SavesFit'
  BY <1>3, <1>5, <1>6, <1>7, <1>8 DEF SavesFit
<1>10. FileFits' /\ TermsFit'
  <2>1. Heard' = Heard /\ Shown' = Shown
    BY <1>0 DEF Heard, Shown
  <2> QED
    BY <1>0, <2>1 DEF FileFits, TermsFit
<1> QED
  BY <1>9, <1>10

LEMMA SaveOffsetInv ==
  ASSUME OutputInv, NEW i \in DOMAIN saves, SaveOffset(i)
  PROVE  OutputInv'
<1> SUFFICES ASSUME ~spoiled PROVE FileFits' /\ SavesFit' /\ TermsFit'
  BY DEF OutputInv, SaveOffset
<1>0. FileFits /\ SavesFit /\ TermsFit /\ UNCHANGED <<file, news, terms>>
  BY DEF OutputInv, SaveOffset
<1>1. /\ saves \in Seq(Screens) /\ i \in 1 .. Len(saves) /\ saves[i] \in Screens
      /\ cache \in [text: Seq(Nat), offset: Nat]
      /\ \A j \in 1 .. Len(saves): saves[j].offset <= file.made /\ saves[j].text = Span(0, saves[j].offset)
      /\ \A j, k \in 1 .. Len(saves): saves[j].half /\ saves[k].half => j = k
      /\ \A j \in 1 .. Len(saves): saves[j].half => cache.text = saves[j].text
  <2>1. saves \in Seq(Screens) /\ i \in 1 .. Len(saves) /\ saves[i] \in Screens
    BY <1>0 DEF SavesFit
  <2> QED
    BY <1>0, <2>1 DEF SavesFit
<1>2. saves[i].half /\ saves' = RemoveAt(saves, i) /\ cache' = [cache EXCEPT !.offset = saves[i].offset]
  BY DEF SaveOffset
<1>3. saves' \in Seq(Screens) /\ \A j \in 1 .. Len(saves'): \E k \in 1 .. Len(saves): k # i /\ saves'[j] = saves[k]
  <2>1. saves \in Seq(Screens) /\ i \in 1 .. Len(saves)
    BY <1>1
  <2>2. /\ RemoveAt(saves, i) \in Seq(Screens)
        /\ \A j \in 1 .. Len(RemoveAt(saves, i)): \E k \in 1 .. Len(saves): k # i /\ RemoveAt(saves, i)[j] = saves[k]
    BY <2>1, RemoveAtFacts
  <2>3. saves' = RemoveAt(saves, i)
    BY <1>2
  <2> QED
    BY <2>2, <2>3
<1>4. /\ cache' \in [text: Seq(Nat), offset: Nat] /\ cache'.text = saves[i].text /\ cache'.offset = saves[i].offset
  BY <1>1, <1>2 DEF Screens
<1>5. \A j \in 1 .. Len(saves'): ~saves'[j].half /\ saves'[j].offset <= file'.made /\ saves'[j].text = Span(0, saves'[j].offset)
  BY <1>0, <1>1, <1>2, <1>3
<1>6. cache'.offset <= file'.made /\ cache'.text = Span(0, cache'.offset)
  BY <1>0, <1>1, <1>4
<1>7. SavesFit'
  BY <1>3, <1>4, <1>5, <1>6 DEF SavesFit
<1>8. FileFits' /\ TermsFit'
  <2>1. Heard' = Heard /\ Shown' = Shown
    BY <1>0 DEF Heard, Shown
  <2> QED
    BY <1>0, <2>1 DEF FileFits, TermsFit
<1> QED
  BY <1>7, <1>8

LEMMA CacheDataInv ==
  ASSUME OutputInv, NEW i \in DOMAIN terms, processAndCacheData(i)
  PROVE  OutputInv'
<1> SUFFICES ASSUME ~spoiled PROVE FileFits' /\ SavesFit' /\ TermsFit'
  BY DEF OutputInv, processAndCacheData
<1>0. FileFits /\ SavesFit /\ TermsFit /\ UNCHANGED <<file, cache, news>>
  BY DEF OutputInv, processAndCacheData
<1>1. terms \in Seq(Terminals) /\ i \in 1 .. Len(terms) /\ terms[i] \in Terminals /\ Fits(terms[i], file.made) /\ terms # <<>>
  BY <1>0 DEF TermsFit
<1>2. PICK T \in Terminals: T = terms[i] /\ T.ptyOffset \in Nat /\ T.text \in Seq(Nat)
  BY <1>1 DEF Terminals
<1>3. T.ptyOffset <= file.made /\ T.text = Span(0, T.ptyOffset)
  <2>1. PICK e \in Nat: e <= file.made /\ HasRead(T, e)
    BY <1>1, <1>2 DEF Fits
  <2>2. T.ptyOffset <= e /\ T.text = Span(0, T.ptyOffset)
    BY <2>1 DEF HasRead
  <2>3. file.made \in Nat
    BY <1>0 DEF FileFits
  <2> QED
    BY <1>2, <2>1, <2>2, <2>3
<1>4. PICK x: x = Screen(T)
  OBVIOUS
<1>5. x \in Screens /\ x.text = T.text /\ x.offset = T.ptyOffset /\ ~x.half
  BY <1>2, <1>4 DEF Screens, Screen
<1>6. saves' = Append(saves, x)
  BY <1>2, <1>4 DEF processAndCacheData
<1>7. /\ saves \in Seq(Screens) /\ cache \in [text: Seq(Nat), offset: Nat]
      /\ \A j \in 1 .. Len(saves): saves[j].offset <= file.made /\ saves[j].text = Span(0, saves[j].offset)
      /\ \A j, k \in 1 .. Len(saves): saves[j].half /\ saves[k].half => j = k
      /\ \A j \in 1 .. Len(saves): saves[j].half => cache.text = saves[j].text
      /\ (\A j \in 1 .. Len(saves): ~saves[j].half) => cache.offset <= file.made /\ cache.text = Span(0, cache.offset)
  BY <1>0 DEF SavesFit
<1>8. /\ saves' \in Seq(Screens) /\ saves'[Len(saves) + 1] = x
      /\ \A j \in 1 .. Len(saves): j \in 1 .. Len(saves') /\ saves'[j] = saves[j]
      /\ \A j \in 1 .. Len(saves'): j \in 1 .. Len(saves) \/ j = Len(saves) + 1
  BY <1>5, <1>6, <1>7, Appended
<1>9. SavesFit'
  <2>1. \A j \in 1 .. Len(saves'): saves'[j].offset <= file.made /\ saves'[j].text = Span(0, saves'[j].offset)
    BY <1>3, <1>5, <1>7, <1>8
  <2>2. \A j \in 1 .. Len(saves'): saves'[j].half => j \in 1 .. Len(saves) /\ saves[j].half
    BY <1>5, <1>8
  <2>3. \A j \in 1 .. Len(saves): saves[j].half => j \in 1 .. Len(saves') /\ saves'[j].half
    BY <1>8
  <2>4. \A j, k \in 1 .. Len(saves'): saves'[j].half /\ saves'[k].half => j = k
    BY <1>7, <2>2
  <2>5. \A j \in 1 .. Len(saves'): saves'[j].half => cache.text = saves'[j].text
    BY <1>7, <1>8, <2>2
  <2>6. (\A j \in 1 .. Len(saves'): ~saves'[j].half) => cache.offset <= file.made /\ cache.text = Span(0, cache.offset)
    BY <1>7, <2>3
  <2> QED
    BY <1>0, <1>7, <1>8, <2>1, <2>4, <2>5, <2>6 DEF SavesFit
<1>10. PICK U: U = [T EXCEPT !.processed = 0]
  OBVIOUS
<1>11. /\ U \in Terminals /\ U.stage = T.stage /\ U.from = T.from
       /\ U.text = T.text /\ U.writes = T.writes /\ U.ptyOffset = T.ptyOffset
  BY <1>10 DEF Terminals
<1>12. terms' = [terms EXCEPT ![i] = U]
  BY <1>2, <1>10 DEF processAndCacheData
<1>13. Heard' = Heard
  BY <1>0, OthersKept DEF Heard
<1>14. Fits(U, file.made)
  BY <1>1, <1>2, <1>11, ReadsSame DEF Fits
<1>15. i = Len(terms) => ShownFits(U, file.made, Heard')
  <2> SUFFICES ASSUME i = Len(terms) PROVE ShownFits(U, file.made, Heard)
    BY <1>13
  <2>1. ShownFits(T, file.made, Heard)
    BY <1>0, <1>1, <1>2 DEF TermsFit, Shown
  <2> QED
    BY <1>11, <2>1, ReadsSame DEF ShownFits
<1>16. FileFits'
  BY <1>0, <1>13 DEF FileFits
<1>17. TermsFit'
  BY <1>0, <1>1, <1>11, <1>12, <1>13, <1>14, <1>15, ChangeFits
<1> QED
  BY <1>9, <1>16, <1>17

LEMMA OutputStepInv == OutputInv /\ [TermOutputNext]_termVars => OutputInv'
<1>1. OutputInv /\ Truncate => OutputInv'
  BY DEF OutputInv, Truncate
<1>2. OutputInv /\ UNCHANGED termVars => OutputInv'
  <2> SUFFICES ASSUME OutputInv, UNCHANGED termVars, ~spoiled PROVE FileFits' /\ SavesFit' /\ TermsFit'
    BY DEF OutputInv, termVars
  <2>1. FileFits /\ SavesFit /\ TermsFit /\ UNCHANGED <<file, cache, saves, news, terms>>
    BY DEF OutputInv, termVars
  <2>2. Shown' = Shown
    BY <2>1 DEF Shown
  <2> QED
    BY <2>1, <2>2, OthersKept DEF TermsFit
<1>3. OutputInv /\ (FetchCache \/ FetchMain) => OutputInv'
  BY FetchCacheInv, FetchMainInv
<1>4. OutputInv /\ (Output \/ Create \/ ReloadPage \/ Deliver) => OutputInv'
  BY OutputMadeInv, CreateInv, DeliverInv
<1>5. OutputInv /\ (\E i \in DOMAIN saves : SaveText(i) \/ SaveOffset(i)) => OutputInv'
  BY SaveTextInv, SaveOffsetInv
<1>6. OutputInv /\ (\E i \in DOMAIN terms : Parse(i) \/ processAndCacheData(i)) => OutputInv'
  BY ParseInv, CacheDataInv
<1> QED
  BY <1>1, <1>2, <1>3, <1>4, <1>5, <1>6 DEF TermOutputNext

LEMMA OutputInvShows == OutputInv => ShowsFile
<1> SUFFICES ASSUME OutputInv, ~spoiled
             PROVE  /\ (terms # <<>> /\ Loaded(Shown) /\ Shown.writes = <<>> /\ news = <<>>) => Shown.text = file.data
                    /\ (\A i \in DOMAIN saves : ~saves[i].half) => cache.text = SubSeq(file.data, 1, cache.offset)
  BY DEF ShowsFile
<1>0. FileFits /\ SavesFit /\ TermsFit
  BY DEF OutputInv
<1>1. PICK n \in Nat: n = file.made /\ file.data = Span(0, n)
  BY <1>0 DEF FileFits
<1>2. ASSUME terms # <<>>, Loaded(Shown), Shown.writes = <<>>, news = <<>> PROVE Shown.text = file.data
  <2>1. PICK e \in Nat: e <= n /\ HasRead(Shown, e) /\ Heard <= e
    BY <1>0, <1>1, <1>2, ShownFacts DEF Loaded
  <2>2. Heard = n
    <3>1. Len(<<>>) = 0
      OBVIOUS
    <3> QED
      BY <1>1, <1>2, <3>1 DEF Heard
  <2>3. Shown.ptyOffset \in Nat
    BY <1>0, <1>2, ShownFacts DEF Terminals
  <2>4. PICK p \in Nat: p = Shown.ptyOffset /\ Shown.text = Span(0, p) /\ Path(Reaches, Nat, p, <<>>, e)
    BY <1>2, <2>1, <2>3 DEF HasRead
  <2>5. p = e
    <3>1. <<>> \in Seq(Written)
      OBVIOUS
    <3> QED
      BY <2>4, <3>1, PathFacts
  <2> QED
    BY <1>1, <2>1, <2>2, <2>4, <2>5
<1>3. ASSUME \A i \in DOMAIN saves : ~saves[i].half PROVE cache.text = SubSeq(file.data, 1, cache.offset)
  <2>1. saves \in Seq(Screens) /\ DOMAIN saves = 1 .. Len(saves) /\ cache.offset \in Nat
    BY <1>0 DEF SavesFit
  <2>2. PICK c \in Nat: c = cache.offset /\ c <= n /\ cache.text = Span(0, c)
    BY <1>0, <1>1, <1>3, <2>1 DEF SavesFit
  <2>3. SubSeq(Span(0, n), 1, c) = Span(0, c)
    BY <2>2, SpanFacts
  <2> QED
    BY <1>1, <2>2, <2>3
<1> QED
  BY <1>2, <1>3

\* A loaded terminal with nothing left to read shows the file from its start to its end, each
\* chunk once, and the cached screen is the file up to its offset, however many terminals were
\* made and saved their screens, unless one of the listed cases happened (termwrap.ts:496-603).
THEOREM AlwaysShowsFile == TermOutputSpec => []ShowsFile
<1>1. TermOutputInit => OutputInv
  BY OutputInitInv
<1>2. OutputInv /\ [TermOutputNext]_termVars => OutputInv'
  BY OutputStepInv
<1>3. OutputInv => ShowsFile
  BY OutputInvShows
<1> QED
  BY <1>1, <1>2, <1>3, PTL DEF TermOutputSpec

-----------------------------------------------------------------------------
(* BlockSettings: the options of a terminal are looked up by rank *)

OptionNames == {"theme", "size", "family", "scroll", "bpm", "mac", "cursor", "blink", "webgl"}
Options == [theme: Int \X Int, size: Int, family: Int, scroll: Int, bpm: Int, mac: Int, cursor: Int, blink: Int,
            webgl: BOOLEAN]
Conf == [meta: SettingValues, settings: [SettingKeys \cup {"other"} -> Int], conns: [ConnNames -> SettingValues],
         connection: ConnNames \cup {NoConn}, themes: SUBSET Int]

\* The least of a set of integers is its lower bound that is in it.
LEMMA LeastIs ==
  ASSUME NEW S \in SUBSET Int, NEW x \in S, \A y \in S: x <= y
  PROVE  Min(S) = x
<1>1. Min(S) \in S /\ \A y \in S: Min(S) <= y
  BY DEF Min
<1>2. Min(S) <= x /\ x <= Min(S) /\ x \in Int /\ Min(S) \in Int
  BY <1>1
<1> QED
  BY <1>2

\* The greatest of a set of integers is its upper bound that is in it.
LEMMA GreatestIs ==
  ASSUME NEW S \in SUBSET Int, NEW x \in S, \A y \in S: x >= y
  PROVE  Max(S) = x
<1>1. Max(S) \in S /\ \A y \in S: Max(S) >= y
  BY DEF Max
<1>2. Max(S) <= x /\ x <= Max(S) /\ x \in Int /\ Max(S) \in Int
  BY <1>1
<1> QED
  BY <1>2

\* Bounding a number by min and max is what `boundNumber' does.
LEMMA WithinIs ==
  ASSUME NEW n \in Int, NEW low \in Int, NEW high \in Int, low <= high
  PROVE  Within(n, low, high) = boundNumber(n, low, high) /\ Within(n, low, high) \in Int
<1>1. Min({n, high}) = IF n <= high THEN n ELSE high
  <2>1. CASE n <= high
    BY <2>1, LeastIs
  <2>2. CASE ~(n <= high)
    BY <2>2, LeastIs
  <2> QED
    BY <2>1, <2>2
<1> DEFINE m == IF n <= high THEN n ELSE high
<1>2. m \in Int
  OBVIOUS
<1>3. Max({low, m}) = IF m <= low THEN low ELSE m
  <2> HIDE DEF m
  <2>1. CASE m <= low
    BY <1>2, <2>1, GreatestIs
  <2>2. CASE ~(m <= low)
    BY <1>2, <2>2, GreatestIs
  <2> QED
    BY <2>1, <2>2
<1>4. Within(n, low, high) = IF m <= low THEN low ELSE m
  BY <1>1, <1>3 DEF Within
<1> QED
  BY <1>2, <1>4 DEF boundNumber

\* The first of two values that is set is what `??' gives.
LEMMA FirstOfTwo ==
  ASSUME NEW v \in Int, NEW w \in Int, NEW d \in Int
  PROVE  FirstSet(<<v, w>>, d) = Or(v, Or(w, d))
<1> DEFINE set == {i \in DOMAIN <<v, w>> : <<v, w>>[i] # NotSet}
<1>0. FirstSet(<<v, w>>, d) = IF set = {} THEN d ELSE <<v, w>>[Min(set)]
  BY DEF FirstSet
<1>1. DOMAIN <<v, w>> = {1, 2} /\ <<v, w>>[1] = v /\ <<v, w>>[2] = w
  OBVIOUS
<1>2. CASE v # NotSet
  <2>1. 1 \in set /\ (\A y \in set: 1 <= y) /\ set \in SUBSET Int
    BY <1>1, <1>2
  <2>2. Min(set) = 1
    BY <2>1, LeastIs
  <2> QED
    BY <1>0, <1>1, <1>2, <2>1, <2>2 DEF Or
<1>3. CASE v = NotSet /\ w # NotSet
  <2>1. 2 \in set /\ (\A y \in set: 2 <= y) /\ set \in SUBSET Int
    BY <1>1, <1>3
  <2>2. Min(set) = 2
    BY <2>1, LeastIs
  <2> QED
    BY <1>0, <1>1, <1>3, <2>1, <2>2 DEF Or
<1>4. CASE v = NotSet /\ w = NotSet
  <2>1. set = {}
    BY <1>1, <1>4
  <2> QED
    BY <1>0, <1>4, <2>1 DEF Or
<1> QED
  BY <1>2, <1>3, <1>4

\* The same of three.
LEMMA FirstOfThree ==
  ASSUME NEW u \in Int, NEW v \in Int, NEW w \in Int, NEW d \in Int
  PROVE  FirstSet(<<u, v, w>>, d) = Or(u, Or(v, Or(w, d)))
<1> DEFINE set == {i \in DOMAIN <<u, v, w>> : <<u, v, w>>[i] # NotSet}
<1>0. FirstSet(<<u, v, w>>, d) = IF set = {} THEN d ELSE <<u, v, w>>[Min(set)]
  BY DEF FirstSet
<1>1. DOMAIN <<u, v, w>> = {1, 2, 3} /\ <<u, v, w>>[1] = u /\ <<u, v, w>>[2] = v /\ <<u, v, w>>[3] = w
  OBVIOUS
<1>2. CASE u # NotSet
  <2>1. 1 \in set /\ (\A y \in set: 1 <= y) /\ set \in SUBSET Int
    BY <1>1, <1>2
  <2>2. Min(set) = 1
    BY <2>1, LeastIs
  <2> QED
    BY <1>0, <1>1, <1>2, <2>1, <2>2 DEF Or
<1>3. CASE u = NotSet /\ v # NotSet
  <2>1. 2 \in set /\ (\A y \in set: 2 <= y) /\ set \in SUBSET Int
    BY <1>1, <1>3
  <2>2. Min(set) = 2
    BY <2>1, LeastIs
  <2> QED
    BY <1>0, <1>1, <1>3, <2>1, <2>2 DEF Or
<1>4. CASE u = NotSet /\ v = NotSet /\ w # NotSet
  <2>1. 3 \in set /\ (\A y \in set: 3 <= y) /\ set \in SUBSET Int
    BY <1>1, <1>4
  <2>2. Min(set) = 3
    BY <2>1, LeastIs
  <2> QED
    BY <1>0, <1>1, <1>4, <2>1, <2>2 DEF Or
<1>5. CASE u = NotSet /\ v = NotSet /\ w = NotSet
  <2>1. set = {}
    BY <1>1, <1>5
  <2> QED
    BY <1>0, <1>5, <2>1 DEF Or
<1> QED
  BY <1>2, <1>3, <1>4, <1>5

\* What the options are by the code's own functions.
CodeOptions(c) ==
  [theme |-> computeTheme(c), size |-> fontSize(c),
   family |-> fontFamily(getPrefixedSettings(c.settings), connFontFamily(c)),
   scroll |-> scrollback(getPrefixedSettings(c.settings), c.meta), bpm |-> allowBPM(c), mac |-> macOptionIsMeta(c),
   cursor |-> cursorStyle(c), blink |-> cursorBlink(c), webgl |-> Or(getPrefixedSettings(c.settings)["disablewebgl"], 0) = 0]

\* What is looked up of a setting is a number.
LEMMA LookedUp ==
  ASSUME NEW c \in Conf, NEW k \in SettingKeys
  PROVE  /\ getOverrideConfigAtom(c, k) \in Int /\ getConnConfigKeyAtom(c, k) \in Int
         /\ c.meta[k] \in Int /\ c.settings[k] \in Int
         /\ getPrefixedSettings(c.settings) \in SettingValues /\ getPrefixedSettings(c.settings)[k] = c.settings[k]
<1>1. c.meta[k] \in Int /\ c.settings[k] \in Int
  BY DEF Conf, SettingValues
<1>2. getConnConfigKeyAtom(c, k) \in Int
  BY DEF Conf, SettingValues, getConnConfigKeyAtom, NotSet
<1>3. getOverrideConfigAtom(c, k) \in Int
  BY <1>1, <1>2 DEF getOverrideConfigAtom, Or, getBlockMetaKeyAtom, getSettingsKeyAtom
<1>4. getPrefixedSettings(c.settings) \in SettingValues /\ getPrefixedSettings(c.settings)[k] = c.settings[k]
  BY DEF Conf, SettingValues, getPrefixedSettings
<1> QED
  BY <1>1, <1>2, <1>3, <1>4

\* The value by rank is that of getOverrideConfigAtom, with the default.
LEMMA RankIs ==
  ASSUME conf \in Conf, NEW k \in SettingKeys, NEW d \in Int
  PROVE  ByRank(k, d) = Or(getOverrideConfigAtom(conf, k), d) /\ ByRank(k, d) \in Int
<1>1. conf.meta[k] \in Int /\ conf.settings[k] \in Int /\ getConnConfigKeyAtom(conf, k) \in Int /\ getOverrideConfigAtom(conf, k) \in Int
  BY LookedUp
<1>2. CASE conf.connection = NoConn
  <2>1. ByRank(k, d) = Or(conf.meta[k], Or(conf.settings[k], d))
    BY <1>1, <1>2, FirstOfTwo DEF ByRank
  <2>2. getConnConfigKeyAtom(conf, k) = NotSet
    BY <1>2 DEF getConnConfigKeyAtom
  <2> QED
    BY <1>1, <2>1, <2>2 DEF getOverrideConfigAtom, Or, getBlockMetaKeyAtom, getSettingsKeyAtom
<1>3. CASE conf.connection # NoConn
  <2>1. getConnConfigKeyAtom(conf, k) = conf.conns[conf.connection][k]
    BY <1>3 DEF getConnConfigKeyAtom
  <2>2. ByRank(k, d) = FirstSet(<<conf.meta[k], getConnConfigKeyAtom(conf, k), conf.settings[k]>>, d)
    BY <1>3, <2>1 DEF ByRank
  <2>3. ByRank(k, d) = Or(conf.meta[k], Or(getConnConfigKeyAtom(conf, k), Or(conf.settings[k], d)))
    BY <1>1, <2>2, FirstOfThree
  <2> QED
    BY <1>1, <2>3 DEF getOverrideConfigAtom, Or, getBlockMetaKeyAtom, getSettingsKeyAtom
<1> QED
  BY <1>2, <1>3

\* The options of the configuration, by rank, are those that the code takes from it.
LEMMA WantedIs ==
  ASSUME conf \in Conf
  PROVE  WantedOptions = CodeOptions(conf)
<1> DEFINE P == getPrefixedSettings(conf.settings)
<1>0. /\ "allowbracketedpaste" \in SettingKeys /\ "cursor" \in SettingKeys /\ "cursorblink" \in SettingKeys
      /\ "theme" \in SettingKeys /\ "transparency" \in SettingKeys /\ "fontsize" \in SettingKeys
      /\ "scrollback" \in SettingKeys /\ "fontfamily" \in SettingKeys /\ "macoptionismeta" \in SettingKeys
      /\ "disablewebgl" \in SettingKeys
  BY SettingsAssumption
<1>1. /\ ByRank("theme", 0) = termThemeName(conf)
      /\ ByRank("allowbracketedpaste", 1) = allowBPM(conf) /\ ByRank("macoptionismeta", 0) = macOptionIsMeta(conf)
      /\ ByRank("cursorblink", 0) = cursorBlink(conf)
  BY <1>0, RankIs DEF termThemeName, allowBPM, macOptionIsMeta, cursorBlink
<1>2. Within(ByRank("transparency", 50), 0, 100) = termTransparency(conf)
  <2>1. ByRank("transparency", 50) = Or(getOverrideConfigAtom(conf, "transparency"), 50) /\ ByRank("transparency", 50) \in Int
    BY <1>0, RankIs
  <2>2. Within(ByRank("transparency", 50), 0, 100) = boundNumber(ByRank("transparency", 50), 0, 100)
    BY <2>1, WithinIs
  <2> QED
    BY <2>1, <2>2 DEF termTransparency
<1>3. (IF ByRank("fontsize", 12) \in 4..64 THEN ByRank("fontsize", 12) ELSE 12) = fontSize(conf)
  <2>1. ByRank("fontsize", 12) = Or(getOverrideConfigAtom(conf, "fontsize"), 12) /\ ByRank("fontsize", 12) \in Int
    BY <1>0, RankIs
  <2>2. PICK n \in Int: n = Or(getOverrideConfigAtom(conf, "fontsize"), 12)
    BY <2>1
  <2>3. fontSize(conf) = IF n < 4 \/ n > 64 THEN 12 ELSE n
    BY <2>2 DEF fontSize
  <2> QED
    BY <2>1, <2>2, <2>3
<1>4. (IF ByRank("cursor", 0) \in {1, 2} THEN ByRank("cursor", 0) ELSE 0) = cursorStyle(conf)
  <2>1. PICK n \in Int: n = getOverrideConfigAtom(conf, "cursor")
    BY <1>0, LookedUp
  <2>2. ByRank("cursor", 0) = Or(n, 0)
    BY <1>0, <2>1, RankIs
  <2>3. cursorStyle(conf) = IF n \in {1, 2} THEN n ELSE 0
    BY <2>1 DEF cursorStyle, normalizeCursor
  <2> QED
    BY <2>2, <2>3 DEF Or, NotSet
<1>5. PICK f \in Int: f = conf.settings["fontfamily"]
  BY <1>0, LookedUp
<1>6. PICK g \in Int: g = getConnConfigKeyAtom(conf, "fontfamily")
  BY <1>0, LookedUp
<1>7. FirstSet(<<conf.settings["fontfamily"], IF conf.connection = NoConn THEN NotSet ELSE conf.conns[conf.connection]["fontfamily"]>>, 0)
      = fontFamily(P, connFontFamily(conf))
  <2>1. g = IF conf.connection = NoConn THEN NotSet ELSE conf.conns[conf.connection]["fontfamily"]
    BY <1>6 DEF getConnConfigKeyAtom
  <2>2. FirstSet(<<f, g>>, 0) = Or(f, Or(g, 0))
    BY FirstOfTwo
  <2>3. P["fontfamily"] = f
    BY <1>0, <1>5, LookedUp
  <2>4. fontFamily(P, connFontFamily(conf)) = Or(f, Or(g, 0))
    BY <1>6, <2>3 DEF fontFamily, connFontFamily
  <2> QED
    BY <1>5, <2>1, <2>2, <2>4
<1>8. Within(FirstSet(<<NotZero(conf.meta["scrollback"]), NotZero(conf.settings["scrollback"])>>, 2000), 0, 50000)
      = scrollback(P, conf.meta)
  <2>1. PICK m \in Int: m = conf.meta["scrollback"]
    BY <1>0, LookedUp
  <2>2. PICK n \in Int: n = conf.settings["scrollback"]
    BY <1>0, LookedUp
  <2>3. P["scrollback"] = n
    BY <1>0, <2>2, LookedUp
  <2>4. NotZero(m) \in Int /\ NotZero(n) \in Int
    BY DEF NotZero, NotSet
  <2>5. PICK v \in Int: v = Or(NotZero(m), Or(NotZero(n), 2000))
    BY <2>4 DEF Or
  <2>6. FirstSet(<<NotZero(m), NotZero(n)>>, 2000) = v
    BY <2>4, <2>5, FirstOfTwo
  <2>7. Within(v, 0, 50000) = boundNumber(v, 0, 50000)
    BY WithinIs
  <2>8. v = IF m \notin {NotSet, 0} THEN m ELSE IF n \notin {NotSet, 0} THEN n ELSE 2000
    BY <2>5 DEF NotZero, Or, NotSet
  <2>9. scrollback(P, conf.meta) = boundNumber(v, 0, 50000)
    BY <2>1, <2>3, <2>8 DEF scrollback
  <2> QED
    BY <2>1, <2>2, <2>6, <2>7, <2>9
<1>9. (conf.settings["disablewebgl"] \in {NotSet, 0}) = (Or(P["disablewebgl"], 0) = 0)
  BY <1>0, LookedUp DEF Or
<1> HIDE DEF P
<1>10. <<IF ByRank("theme", 0) \in conf.themes THEN ByRank("theme", 0) ELSE 0, Within(ByRank("transparency", 50), 0, 100)>>
       = computeTheme(conf)
  BY <1>1, <1>2 DEF computeTheme
<1>11. WantedOptions = [theme |-> computeTheme(conf), size |-> fontSize(conf), family |-> fontFamily(P, connFontFamily(conf)),
         scroll |-> scrollback(P, conf.meta), bpm |-> allowBPM(conf), mac |-> macOptionIsMeta(conf),
         cursor |-> cursorStyle(conf), blink |-> cursorBlink(conf), webgl |-> Or(P["disablewebgl"], 0) = 0]
  BY <1>1, <1>3, <1>4, <1>7, <1>8, <1>9, <1>10 DEF WantedOptions
<1> QED
  BY <1>11 DEF CodeOptions, P

\* What the code computes has the types of options.
LEMMA OptionsTyped ==
  ASSUME NEW c \in Conf
  PROVE  CodeOptions(c) \in Options
<1> DEFINE P == getPrefixedSettings(c.settings)
<1>0. /\ "allowbracketedpaste" \in SettingKeys /\ "cursor" \in SettingKeys /\ "cursorblink" \in SettingKeys
      /\ "theme" \in SettingKeys /\ "transparency" \in SettingKeys /\ "fontsize" \in SettingKeys
      /\ "scrollback" \in SettingKeys /\ "fontfamily" \in SettingKeys /\ "macoptionismeta" \in SettingKeys
      /\ "disablewebgl" \in SettingKeys
  BY SettingsAssumption
<1>1. \A k \in SettingKeys: getOverrideConfigAtom(c, k) \in Int /\ getConnConfigKeyAtom(c, k) \in Int
                            /\ c.meta[k] \in Int /\ P[k] \in Int
  BY LookedUp
<1> HIDE DEF P
<1>2. allowBPM(c) \in Int /\ macOptionIsMeta(c) \in Int /\ cursorBlink(c) \in Int /\ cursorStyle(c) \in Int /\ fontSize(c) \in Int
  BY <1>0, <1>1 DEF allowBPM, macOptionIsMeta, cursorBlink, cursorStyle, normalizeCursor, fontSize, Or
<1>3. termThemeName(c) \in Int /\ termTransparency(c) \in Int
  BY <1>0, <1>1 DEF termThemeName, termTransparency, boundNumber, Or
<1>4. computeTheme(c) \in Int \X Int
  BY <1>3 DEF computeTheme
<1>5. connFontFamily(c) \in Int /\ fontFamily(P, connFontFamily(c)) \in Int
  BY <1>0, <1>1 DEF connFontFamily, fontFamily, Or
<1>6. scrollback(P, c.meta) \in Int
  BY <1>0, <1>1 DEF scrollback, boundNumber
<1> QED
  BY <1>2, <1>4, <1>5, <1>6 DEF CodeOptions, Options, P

-----------------------------------------------------------------------------
(* BlockSettings: what changed reaches the terminal by one of three ways *)

Triple == Int \X Int \X Int
TermRecord == [deps: Triple, opts: Options]
Handed == [view: BOOLEAN, deps: Triple, settings: SettingValues, meta: SettingValues, theme: Int \X Int]
SettingsType ==
  /\ conf \in Conf /\ termObj \in Int /\ term \in TermRecord /\ made \in Int /\ causes \in Int
  /\ renders \subseteq {"view", "theme"} /\ unseen \subseteq {"mac", "scroll", "family"}
  /\ handed = NotDrawn \/ handed \in Handed

\* What the terminal was made for, or is about to be.
LastDeps == IF handed.view THEN handed.deps ELSE term.deps
\* The options of a terminal that was made with the present settings.
MadeFits ==
  LET wanted == CodeOptions(conf) IN
  /\ term.opts.webgl = wanted.webgl
  /\ "family" \notin unseen => term.opts.family = wanted.family
  /\ "scroll" \notin unseen => term.opts.scroll = wanted.scroll
OptionsInv ==
  LET wanted == CodeOptions(conf) IN
  /\ term.opts.bpm = wanted.bpm /\ term.opts.cursor = wanted.cursor /\ term.opts.blink = wanted.blink
  /\ "mac" \notin unseen => term.opts.mac = wanted.mac
  /\ "theme" \notin renders => (IF handed = NotDrawn THEN term.opts.theme ELSE handed.theme) = wanted.theme
  /\ term.opts.size = term.deps[2]
  /\ term.deps[1] <= termObj /\ (handed.view => handed.deps[1] <= termObj)
  /\ term.deps[1] = termObj => MadeFits
  /\ (handed.view /\ handed.deps[1] = termObj) => handed.settings = getPrefixedSettings(conf.settings)
  /\ "view" \notin renders => (LastDeps[1] = termObj /\ LastDeps[2] = fontSize(conf))
Bit(b) == IF b THEN 1 ELSE 0
\* A terminal is made, or about to be, for a change.
CausesInv == made - 1 + Bit(handed.view /\ handed.deps # term.deps) + Bit(Deps(conf, termObj) # LastDeps) <= causes

\* The three options that are subscribed to follow every change.
LEMMA WatchedIs ==
  ASSUME NEW c \in Conf, NEW n \in Conf, NEW o \in Options,
         o.bpm = CodeOptions(c).bpm, o.cursor = CodeOptions(c).cursor, o.blink = CodeOptions(c).blink
  PROVE  /\ Watched(o, c, n) \in Options
         /\ Watched(o, c, n).bpm = CodeOptions(n).bpm /\ Watched(o, c, n).cursor = CodeOptions(n).cursor
         /\ Watched(o, c, n).blink = CodeOptions(n).blink
         /\ \A x \in {"theme", "size", "family", "scroll", "mac", "webgl"}: Watched(o, c, n)[x] = o[x]
<1>1. /\ o.bpm = allowBPM(c) /\ o.cursor = cursorStyle(c) /\ o.blink = cursorBlink(c)
      /\ CodeOptions(n).bpm = allowBPM(n) /\ CodeOptions(n).cursor = cursorStyle(n) /\ CodeOptions(n).blink = cursorBlink(n)
  BY DEF CodeOptions
<1>2. allowBPM(n) \in Int /\ cursorStyle(n) \in Int /\ cursorBlink(n) \in Int
  BY <1>1, OptionsTyped DEF Options
<1>3. /\ getOverrideConfigAtom(n, "allowbracketedpaste") = getOverrideConfigAtom(c, "allowbracketedpaste") => allowBPM(n) = allowBPM(c)
      /\ getOverrideConfigAtom(n, "cursor") = getOverrideConfigAtom(c, "cursor") => cursorStyle(n) = cursorStyle(c)
      /\ getOverrideConfigAtom(n, "cursorblink") = getOverrideConfigAtom(c, "cursorblink") => cursorBlink(n) = cursorBlink(c)
  BY Zenon DEF allowBPM, cursorStyle, cursorBlink
<1>4. Watched(o, c, n) = [[[o EXCEPT !.bpm = allowBPM(n)] EXCEPT !.cursor = cursorStyle(n)] EXCEPT !.blink = cursorBlink(n)]
  BY <1>1, <1>3 DEF Watched, Options
<1> QED
  BY <1>1, <1>2, <1>4 DEF Options

\* What the three ways miss did not change.
LEMMA MarkedIs ==
  ASSUME NEW c \in Conf, NEW n \in Conf, NEW byBlock \in BOOLEAN, termObj \in Int,
         byBlock => n.settings = c.settings /\ n.themes = c.themes
  PROVE  /\ Marked(c, n, byBlock) \subseteq {"view", "theme"} /\ Unwatched(c, n) \subseteq {"mac", "scroll", "family"}
         /\ getSettingsPrefixAtom(c, n) = IF getPrefixedSettings(n.settings) = getPrefixedSettings(c.settings) THEN termObj ELSE termObj + 1
         /\ "theme" \notin Marked(c, n, byBlock) => CodeOptions(n).theme = CodeOptions(c).theme
         /\ "view" \notin Marked(c, n, byBlock) => getSettingsPrefixAtom(c, n) = termObj /\ fontSize(n) = fontSize(c)
         /\ "mac" \notin Unwatched(c, n) => CodeOptions(n).mac = CodeOptions(c).mac
         /\ getPrefixedSettings(n.settings) = getPrefixedSettings(c.settings) =>
              /\ CodeOptions(n).webgl = CodeOptions(c).webgl
              /\ "family" \notin Unwatched(c, n) => CodeOptions(n).family = CodeOptions(c).family
              /\ "scroll" \notin Unwatched(c, n) => CodeOptions(n).scroll = CodeOptions(c).scroll
<1>1. getSettingsPrefixAtom(c, n) = IF getPrefixedSettings(n.settings) = getPrefixedSettings(c.settings) THEN termObj ELSE termObj + 1
  BY DEF getSettingsPrefixAtom, deepCompareReturnPrev
<1>2. Marked(c, n, byBlock) \subseteq {"view", "theme"}
  BY DEF Marked
<1>3. "theme" \notin Marked(c, n, byBlock) => CodeOptions(n).theme = CodeOptions(c).theme
  <2>1. "theme" \notin Marked(c, n, byBlock) => byBlock /\ termThemeName(n) = termThemeName(c) /\ termTransparency(n) = termTransparency(c)
    BY DEF Marked
  <2>2. CodeOptions(n).theme = computeTheme(n) /\ CodeOptions(c).theme = computeTheme(c)
    BY DEF CodeOptions
  <2> QED
    BY <2>1, <2>2 DEF computeTheme
<1>4. "view" \notin Marked(c, n, byBlock) => getSettingsPrefixAtom(c, n) = termObj /\ fontSize(n) = fontSize(c)
  BY DEF Marked
<1>5. Unwatched(c, n) \subseteq {"mac", "scroll", "family"}
  BY DEF Unwatched
<1>6. /\ "mac" \notin Unwatched(c, n) => macOptionIsMeta(n) = macOptionIsMeta(c)
      /\ "scroll" \notin Unwatched(c, n) => n.meta["scrollback"] = c.meta["scrollback"]
      /\ "family" \notin Unwatched(c, n) => connFontFamily(n) = connFontFamily(c)
  BY DEF Unwatched
<1>7. "mac" \notin Unwatched(c, n) => CodeOptions(n).mac = CodeOptions(c).mac
  BY <1>6 DEF CodeOptions
<1>8. ASSUME getPrefixedSettings(n.settings) = getPrefixedSettings(c.settings)
      PROVE  /\ CodeOptions(n).webgl = CodeOptions(c).webgl
             /\ "family" \notin Unwatched(c, n) => CodeOptions(n).family = CodeOptions(c).family
             /\ "scroll" \notin Unwatched(c, n) => CodeOptions(n).scroll = CodeOptions(c).scroll
  <2>1. CodeOptions(n).webgl = CodeOptions(c).webgl
    BY <1>8 DEF CodeOptions
  <2>2. "family" \notin Unwatched(c, n) => CodeOptions(n).family = CodeOptions(c).family
    BY <1>6, <1>8 DEF CodeOptions
  <2>3. ASSUME "scroll" \notin Unwatched(c, n) PROVE scrollback(getPrefixedSettings(n.settings), n.meta) = scrollback(getPrefixedSettings(c.settings), c.meta)
    BY <1>6, <1>8, <2>3 DEF scrollback
  <2> QED
    BY <2>1, <2>2, <2>3 DEF CodeOptions
<1> QED
  BY <1>1, <1>2, <1>3, <1>4, <1>5, <1>7, <1>8

\* Nothing drawn differs from anything drawn.
LEMMA NotDrawnIs ==
  /\ NotDrawn.view = FALSE /\ NotDrawn \notin Handed
<1>1. NotDrawn.view = FALSE /\ NotDrawn.theme = <<>>
  BY DEF NotDrawn
<1>2. \A h \in Handed: h.theme \in Int \X Int
  BY DEF Handed
<1>3. <<>> \notin Int \X Int
  OBVIOUS
<1> QED
  BY <1>1, <1>2, <1>3

\* What is handed to the effects, and what the terminal was or will be made for.
LEMMA HandedTyped ==
  ASSUME SettingsType
  PROVE  /\ handed.view \in BOOLEAN /\ (handed = NotDrawn => ~handed.view)
         /\ handed # NotDrawn => handed \in Handed
         /\ handed.view => handed \in Handed /\ handed.deps \in Triple /\ handed.deps[1] \in Int /\ handed.deps[2] \in Int
         /\ term.deps \in Triple /\ term.deps[1] \in Int /\ term.opts \in Options
         /\ LastDeps \in Triple
<1>1. term.deps \in Triple /\ term.opts \in Options
  BY DEF SettingsType, TermRecord
<1>2. handed = NotDrawn \/ handed \in Handed
  BY DEF SettingsType
<1>3. handed.view \in BOOLEAN /\ (handed = NotDrawn => ~handed.view)
  BY <1>2, NotDrawnIs DEF Handed
<1>4. handed.view => handed \in Handed
  BY <1>2, <1>3
<1>5. \A h \in Handed: h.deps \in Triple
  BY DEF Handed
<1>6. \A t \in Triple: t[1] \in Int /\ t[2] \in Int
  BY DEF Triple
<1> QED
  BY <1>1, <1>2, <1>3, <1>4, <1>5, <1>6 DEF LastDeps

\* The dependencies of the effect that makes a terminal.
LEMMA DepsTyped ==
  ASSUME NEW c \in Conf, NEW o \in Int
  PROVE  /\ Deps(c, o) \in Triple /\ Deps(c, o)[1] = o /\ Deps(c, o)[2] = fontSize(c) /\ Deps(c, o)[3] = connFontFamily(c)
         /\ fontSize(c) \in Int /\ connFontFamily(c) \in Int
<1>1. CodeOptions(c) \in Options
  BY OptionsTyped
<1>2. fontSize(c) \in Int
  BY <1>1 DEF CodeOptions, Options
<1>3. connFontFamily(c) \in Int
  BY SettingsAssumption, LookedUp DEF connFontFamily
<1> QED
  BY <1>2, <1>3 DEF Deps, Triple

\* Whatever changes, the options still reach the terminal.
LEMMA ChangesKeep ==
  ASSUME SettingsType, OptionsInv, CausesInv, NEW new \in Conf, NEW byBlock \in BOOLEAN, Changes(new, byBlock),
         byBlock => new.settings = conf.settings /\ new.themes = conf.themes
  PROVE  SettingsType' /\ OptionsInv' /\ CausesInv'
<1> DEFINE m == Marked(conf, new, byBlock)
           u == Unwatched(conf, new)
           P == getPrefixedSettings(conf.settings)
           Q == getPrefixedSettings(new.settings)
           a == getSettingsPrefixAtom(conf, new)
           w == CodeOptions(conf)
           v == CodeOptions(new)
           o == Watched(term.opts, conf, new)
<1>1. /\ conf' = new /\ termObj' = a /\ renders' = renders \cup m /\ term' = [term EXCEPT !.opts = o]
      /\ unseen' = unseen \cup u /\ handed' = handed /\ made' = made
  BY DEF Changes
<1>2. conf \in Conf /\ termObj \in Int /\ term \in TermRecord /\ renders \subseteq {"view", "theme"} /\ unseen \subseteq {"mac", "scroll", "family"}
  BY DEF SettingsType
<1>3. /\ m \subseteq {"view", "theme"} /\ u \subseteq {"mac", "scroll", "family"}
      /\ a = (IF Q = P THEN termObj ELSE termObj + 1)
      /\ "theme" \notin m => v.theme = w.theme
      /\ "view" \notin m => a = termObj /\ fontSize(new) = fontSize(conf)
      /\ "mac" \notin u => v.mac = w.mac
      /\ Q = P => /\ v.webgl = w.webgl
                  /\ "family" \notin u => v.family = w.family
                  /\ "scroll" \notin u => v.scroll = w.scroll
  BY <1>2, MarkedIs
<1>4. /\ o \in Options /\ o.bpm = v.bpm /\ o.cursor = v.cursor /\ o.blink = v.blink
      /\ \A x \in {"theme", "size", "family", "scroll", "mac", "webgl"}: o[x] = term.opts[x]
  <2>1. term.opts \in Options
    BY <1>2 DEF TermRecord
  <2>2. term.opts.bpm = w.bpm /\ term.opts.cursor = w.cursor /\ term.opts.blink = w.blink
    BY DEF OptionsInv
  <2> QED
    BY <1>2, <2>1, <2>2, WatchedIs
<1>5. term' \in TermRecord /\ term'.deps = term.deps /\ term'.opts = o
  BY <1>1, <1>2, <1>4 DEF TermRecord
<1>6. LastDeps' = LastDeps
  BY <1>1, <1>5 DEF LastDeps
<1>7. causes' \in Int /\ causes' >= causes /\ (Deps(new, a) # Deps(conf, termObj) => causes' = causes + 1)
  <2>1. causes \in Int
    BY DEF SettingsType
  <2>2. ASSUME Deps(new, a) # Deps(conf, termObj)
        PROVE  (\E k \in SettingKeys : new.settings[k] # conf.settings[k]) \/ fontSize(new) # fontSize(conf) \/ connFontFamily(new) # connFontFamily(conf)
    <3>1. a # termObj \/ fontSize(new) # fontSize(conf) \/ connFontFamily(new) # connFontFamily(conf)
      BY <2>2 DEF Deps
    <3>2. a # termObj => Q # P
      BY <1>3
    <3>3. Q # P => \E k \in SettingKeys : new.settings[k] # conf.settings[k]
      BY DEF getPrefixedSettings
    <3> QED
      BY <3>1, <3>2, <3>3
  <2> QED
    BY <2>1, <2>2 DEF Changes
<1> HIDE DEF m, u, P, Q, a, w, v, o
<1>8. SettingsType'
  <2>1. (handed = NotDrawn \/ handed \in Handed) /\ made \in Int
    BY DEF SettingsType
  <2>2. a \in Int
    BY <1>2, <1>3
  <2> QED
    BY <1>1, <1>2, <1>3, <1>5, <1>7, <2>1, <2>2 DEF SettingsType
<1>9. LET wanted == w IN
      /\ "mac" \notin unseen => term.opts.mac = w.mac
      /\ "theme" \notin renders => (IF handed = NotDrawn THEN term.opts.theme ELSE handed.theme) = w.theme
      /\ term.opts.size = term.deps[2]
      /\ term.deps[1] <= termObj /\ (handed.view => handed.deps[1] <= termObj)
      /\ term.deps[1] = termObj => /\ term.opts.webgl = w.webgl
                                   /\ "family" \notin unseen => term.opts.family = w.family
                                   /\ "scroll" \notin unseen => term.opts.scroll = w.scroll
      /\ (handed.view /\ handed.deps[1] = termObj) => handed.settings = P
      /\ "view" \notin renders => (LastDeps[1] = termObj /\ LastDeps[2] = fontSize(conf))
  BY DEF OptionsInv, MadeFits, w, P
<1>10. OptionsInv'
  <2>0. /\ CodeOptions(conf)' = v /\ conf' = new /\ getPrefixedSettings(conf.settings)' = Q /\ fontSize(conf)' = fontSize(new)
    BY <1>1 DEF v, Q
  <2>1. term'.opts.bpm = v.bpm /\ term'.opts.cursor = v.cursor /\ term'.opts.blink = v.blink
    BY <1>4, <1>5
  <2>2. "mac" \notin unseen' => term'.opts.mac = v.mac
    BY <1>1, <1>3, <1>4, <1>5, <1>9
  <2>3. "theme" \notin renders' => (IF handed' = NotDrawn THEN term'.opts.theme ELSE handed'.theme) = v.theme
    BY <1>1, <1>3, <1>4, <1>5, <1>9
  <2>4. term'.opts.size = term'.deps[2]
    BY <1>4, <1>5, <1>9
  <2>5. term.deps[1] \in Int /\ (handed.view => handed.deps[1] \in Int)
    BY HandedTyped
  <2>6. term'.deps[1] <= termObj' /\ (handed'.view => handed'.deps[1] <= termObj')
    BY <1>1, <1>2, <1>3, <1>5, <1>9, <2>5
  <2>7. term'.deps[1] = termObj' => /\ term'.opts.webgl = v.webgl
                                    /\ "family" \notin unseen' => term'.opts.family = v.family
                                    /\ "scroll" \notin unseen' => term'.opts.scroll = v.scroll
    <3>1. term'.deps[1] = termObj' => Q = P /\ term.deps[1] = termObj
      BY <1>1, <1>2, <1>3, <1>5, <1>9, <2>5
    <3> QED
      BY <1>1, <1>3, <1>4, <1>5, <1>9, <3>1
  <2>8. (handed'.view /\ handed'.deps[1] = termObj') => handed'.settings = Q
    BY <1>1, <1>2, <1>3, <1>9, <2>5
  <2>9. "view" \notin renders' => (LastDeps'[1] = termObj' /\ LastDeps'[2] = fontSize(new))
    BY <1>1, <1>3, <1>6, <1>9
  <2> QED
    BY <2>0, <2>1, <2>2, <2>3, <2>4, <2>6, <2>7, <2>8, <2>9 DEF OptionsInv, MadeFits
<1>11. CausesInv'
  <2>1. Deps(conf, termObj)' = Deps(new, a)
    BY <1>1
  <2>2. made \in Int /\ causes \in Int
    BY DEF SettingsType
  <2>3. (handed.view /\ handed.deps # term.deps)' = (handed.view /\ handed.deps # term.deps)
    BY <1>1, <1>5
  <2> DEFINE i == Bit(handed.view /\ handed.deps # term.deps)
             j == Bit(Deps(conf, termObj) # LastDeps)
             k == Bit(Deps(new, a) # LastDeps)
  <2>4. i \in Int /\ j \in {0, 1} /\ k \in {0, 1} /\ (Deps(new, a) = Deps(conf, termObj) => k = j)
    BY DEF Bit
  <2>5. made - 1 + i + j <= causes
    BY DEF CausesInv
  <2>6. made - 1 + i + k <= causes'
    <3> HIDE DEF i, j, k
    <3> QED
      BY <1>7, <2>2, <2>4, <2>5
  <2>7. Bit(handed.view /\ handed.deps # term.deps)' = i
    BY <2>3 DEF Bit
  <2>8. Bit(Deps(conf, termObj) # LastDeps)' = k
    BY <1>6, <2>1 DEF Bit
  <2> QED
    BY <1>1, <2>6, <2>7, <2>8 DEF CausesInv
<1> QED
  BY <1>8, <1>10, <1>11

\* Every change is of the block, which leaves settings and themes, or of the configuration.
LEMMA EachChange ==
  ASSUME conf \in Conf,
         \/ \E k \in SettingKeys: \E v \in Settings[k] \cup {NotSet}:
              ChangeMeta(k, v) \/ ChangeSetting(k, v) \/ \E n \in ConnNames: ChangeConn(n, k, v)
         \/ \E c \in ConnNames \cup {NoConn}: ChangeConnection(c)
         \/ \E themes \in SUBSET {1, 2}: ChangeThemes(themes)
         \/ \E o \in {NotSet, 0}: ChangeOther(o)
  PROVE  \E new \in Conf, byBlock \in BOOLEAN:
           /\ Changes(new, byBlock)
           /\ byBlock => new.settings = conf.settings /\ new.themes = conf.themes
<1> DEFINE goal == \E new \in Conf, byBlock \in BOOLEAN:
                     /\ Changes(new, byBlock)
                     /\ byBlock => new.settings = conf.settings /\ new.themes = conf.themes
<1>1. (\A k \in SettingKeys: \A v \in Settings[k] \cup {NotSet}: v \in Int) /\ \A o \in {NotSet, 0}: o \in Int
  BY SettingsAssumption DEF NotSet
<1>2. ASSUME NEW k \in SettingKeys, NEW v \in Settings[k] \cup {NotSet}, ChangeMeta(k, v) PROVE goal
  <2>1. PICK new: new = [conf EXCEPT !.meta[k] = v]
    OBVIOUS
  <2>2. new \in Conf /\ new.settings = conf.settings /\ new.themes = conf.themes
    BY <1>1, <2>1 DEF Conf, SettingValues
  <2>3. Changes(new, TRUE)
    BY <1>2, <2>1 DEF ChangeMeta
  <2> QED
    BY <2>2, <2>3
<1>3. ASSUME NEW k \in SettingKeys, NEW v \in Settings[k] \cup {NotSet}, ChangeSetting(k, v) PROVE goal
  <2>1. PICK new: new = [conf EXCEPT !.settings[k] = v]
    OBVIOUS
  <2>2. new \in Conf
    BY <1>1, <2>1 DEF Conf
  <2>3. Changes(new, FALSE)
    BY <1>3, <2>1 DEF ChangeSetting
  <2> QED
    BY <2>2, <2>3
<1>4. ASSUME NEW k \in SettingKeys, NEW v \in Settings[k] \cup {NotSet}, NEW n \in ConnNames, ChangeConn(n, k, v) PROVE goal
  <2>1. PICK new: new = [conf EXCEPT !.conns[n][k] = v]
    OBVIOUS
  <2>2. new \in Conf
    <3>1. conf.conns \in [ConnNames -> SettingValues]
      BY DEF Conf
    <3>2. [conf.conns[n] EXCEPT ![k] = v] \in SettingValues
      BY <1>1, <3>1 DEF SettingValues
    <3>3. [conf.conns EXCEPT ![n] = [conf.conns[n] EXCEPT ![k] = v]] \in [ConnNames -> SettingValues]
      BY <3>1, <3>2
    <3> QED
      BY <2>1, <3>3 DEF Conf
  <2>3. Changes(new, FALSE)
    BY <1>4, <2>1 DEF ChangeConn
  <2> QED
    BY <2>2, <2>3
<1>5. ASSUME NEW c \in ConnNames \cup {NoConn}, ChangeConnection(c) PROVE goal
  <2>1. PICK new: new = [conf EXCEPT !.connection = c]
    OBVIOUS
  <2>2. new \in Conf /\ new.settings = conf.settings /\ new.themes = conf.themes
    BY <2>1 DEF Conf
  <2>3. Changes(new, TRUE)
    BY <1>5, <2>1 DEF ChangeConnection
  <2> QED
    BY <2>2, <2>3
<1>6. ASSUME NEW themes \in SUBSET {1, 2}, ChangeThemes(themes) PROVE goal
  <2>1. PICK new: new = [conf EXCEPT !.themes = themes]
    OBVIOUS
  <2>2. new \in Conf
    BY <2>1 DEF Conf
  <2>3. Changes(new, FALSE)
    BY <1>6, <2>1 DEF ChangeThemes
  <2> QED
    BY <2>2, <2>3
<1>7. ASSUME NEW o \in {NotSet, 0}, ChangeOther(o) PROVE goal
  <2>1. PICK new: new = [conf EXCEPT !.settings["other"] = o]
    OBVIOUS
  <2>2. new \in Conf
    BY <1>1, <2>1 DEF Conf
  <2>3. Changes(new, FALSE)
    BY <1>7, <2>1 DEF ChangeOther
  <2> QED
    BY <2>2, <2>3
<1> QED
  BY <1>2, <1>3, <1>4, <1>5, <1>6, <1>7

\* What a render hands to the effects.
LEMMA DrawnIs ==
  ASSUME NEW c \in Conf, NEW o \in Int, renders \subseteq {"view", "theme"}
  PROVE  /\ Drawn(c, o) \in Handed /\ Drawn(c, o).view = ("view" \in renders) /\ Drawn(c, o).deps = Deps(c, o)
         /\ Drawn(c, o).settings = getPrefixedSettings(c.settings) /\ Drawn(c, o).meta = c.meta
         /\ Drawn(c, o).theme = CodeOptions(c).theme
<1>1. Deps(c, o) \in Triple
  BY DepsTyped
<1>2. getPrefixedSettings(c.settings) \in SettingValues /\ c.meta \in SettingValues
  BY DEF Conf, SettingValues, getPrefixedSettings
<1>3. CodeOptions(c).theme = computeTheme(c) /\ computeTheme(c) \in Int \X Int
  BY OptionsTyped DEF CodeOptions, Options
<1> QED
  BY <1>1, <1>2, <1>3 DEF Drawn, Handed

\* A render takes over what changed.
LEMMA RenderKeeps ==
  ASSUME SettingsType, OptionsInv, CausesInv, Render
  PROVE  SettingsType' /\ OptionsInv' /\ CausesInv'
<1>1. /\ handed = NotDrawn /\ handed' = Drawn(conf, termObj) /\ renders' = {}
      /\ conf' = conf /\ termObj' = termObj /\ term' = term /\ made' = made /\ causes' = causes /\ unseen' = unseen
  BY DEF Render
<1>2. conf \in Conf /\ termObj \in Int /\ term \in TermRecord /\ renders \subseteq {"view", "theme"}
  BY DEF SettingsType
<1> DEFINE d == Drawn(conf, termObj)
<1>3. /\ d \in Handed /\ d.view = ("view" \in renders) /\ d.deps = Deps(conf, termObj)
      /\ d.settings = getPrefixedSettings(conf.settings) /\ d.theme = CodeOptions(conf).theme
  BY <1>2, DrawnIs
<1>4. d.deps[1] = termObj /\ d.deps[2] = fontSize(conf)
  BY <1>2, <1>3, DepsTyped
<1>5. d # NotDrawn /\ ~handed.view /\ LastDeps = term.deps
  BY <1>1, <1>3, NotDrawnIs DEF LastDeps
<1>6. LastDeps' = IF d.view THEN d.deps ELSE term.deps
  BY <1>1 DEF LastDeps
<1> HIDE DEF d
<1>7. SettingsType'
  BY <1>1, <1>3 DEF SettingsType, d
<1>8. OptionsInv'
  <2>1. /\ term.opts.bpm = CodeOptions(conf).bpm /\ term.opts.cursor = CodeOptions(conf).cursor
        /\ term.opts.blink = CodeOptions(conf).blink
        /\ "mac" \notin unseen => term.opts.mac = CodeOptions(conf).mac
        /\ term.opts.size = term.deps[2] /\ term.deps[1] <= termObj
        /\ term.deps[1] = termObj => MadeFits
        /\ "view" \notin renders => (LastDeps[1] = termObj /\ LastDeps[2] = fontSize(conf))
    BY DEF OptionsInv
  <2>2. handed' = d /\ (handed' = NotDrawn) = FALSE
    BY <1>1, <1>5 DEF d
  <2>3. MadeFits' <=> MadeFits
    BY <1>1 DEF MadeFits
  <2>4. (IF handed' = NotDrawn THEN term'.opts.theme ELSE handed'.theme) = CodeOptions(conf).theme
    BY <1>3, <2>2
  <2>5. d.deps[1] <= termObj
    BY <1>2, <1>4
  <2>6. LastDeps'[1] = termObj /\ LastDeps'[2] = fontSize(conf)
    BY <1>3, <1>4, <1>5, <1>6, <2>1
  <2> QED
    BY <1>1, <1>3, <2>1, <2>2, <2>3, <2>4, <2>5, <2>6 DEF OptionsInv
<1>9. CausesInv'
  <2>1. (Deps(conf, termObj) # LastDeps) = (Deps(conf, termObj) # term.deps)
    BY <1>5
  <2>2. made \in Int /\ causes \in Int
    BY DEF SettingsType
  <2>3. made - 1 + Bit(Deps(conf, termObj) # term.deps) <= causes
    BY <1>5, <2>1, <2>2 DEF CausesInv, Bit
  <2>4. (Deps(conf, termObj) # LastDeps)' = (d.view = FALSE /\ Deps(conf, termObj) # term.deps)
    BY <1>1, <1>3, <1>6
  <2>5. (handed.view /\ handed.deps # term.deps)' = (d.view /\ Deps(conf, termObj) # term.deps)
    BY <1>1, <1>3 DEF d
  <2> QED
    BY <1>1, <1>3, <2>2, <2>3, <2>4, <2>5 DEF CausesInv, Bit
<1> QED
  BY <1>7, <1>8, <1>9

\* A terminal that is made has the options it is made with.
LEMMA MadeIs ==
  ASSUME NEW c \in Conf, NEW h \in Handed
  PROVE  /\ Made(c, h) \in TermRecord /\ Made(c, h).deps = h.deps
         /\ LET o == Made(c, h).opts
                w == CodeOptions(c)
            IN  /\ o.bpm = w.bpm /\ o.cursor = w.cursor /\ o.blink = w.blink /\ o.mac = w.mac /\ o.theme = w.theme
                /\ o.size = h.deps[2]
                /\ h.settings = getPrefixedSettings(c.settings) =>
                     /\ o.webgl = w.webgl
                     /\ h.deps[3] = connFontFamily(c) => o.family = w.family
                     /\ h.meta["scrollback"] = c.meta["scrollback"] => o.scroll = w.scroll
<1>1. h.deps \in Triple /\ h.deps[2] \in Int /\ h.deps[3] \in Int /\ h.settings \in SettingValues /\ h.meta \in SettingValues
  BY DEF Handed, Triple
<1>2. CodeOptions(c) \in Options
  BY OptionsTyped
<1>3. /\ computeTheme(c) \in Int \X Int /\ allowBPM(c) \in Int /\ macOptionIsMeta(c) \in Int /\ cursorStyle(c) \in Int
      /\ cursorBlink(c) \in Int
  BY <1>2 DEF CodeOptions, Options
<1>4. "fontfamily" \in SettingKeys /\ "scrollback" \in SettingKeys
  BY SettingsAssumption
<1>5. fontFamily(h.settings, h.deps[3]) \in Int
  BY <1>1, <1>4 DEF SettingValues, fontFamily, Or
<1>6. scrollback(h.settings, h.meta) \in Int
  BY <1>1, <1>4 DEF SettingValues, scrollback, boundNumber
<1>7. Made(c, h) \in TermRecord /\ Made(c, h).deps = h.deps
  BY <1>1, <1>3, <1>5, <1>6 DEF Made, TermRecord, Options
<1>8. h.meta["scrollback"] = c.meta["scrollback"] => scrollback(h.settings, h.meta) = scrollback(h.settings, c.meta)
  BY DEF scrollback
<1> QED
  BY <1>7, <1>8 DEF Made, CodeOptions

\* The effects bring what was rendered to the terminal, or make it anew.
LEMMA EffectsKeep ==
  ASSUME SettingsType, OptionsInv, CausesInv, SettingEffects
  PROVE  SettingsType' /\ OptionsInv' /\ CausesInv'
<1> DEFINE again == handed.view /\ handed.deps # term.deps
           w == CodeOptions(conf)
<1>1. /\ handed # NotDrawn /\ handed' = NotDrawn
      /\ term' = (IF again THEN Made(conf, handed) ELSE [term EXCEPT !.opts.theme = handed.theme])
      /\ made' = made + (IF again THEN 1 ELSE 0)
      /\ unseen' = (IF ~again THEN unseen
                    ELSE (Unwatched([conf EXCEPT !.meta = handed.meta], conf) \ {"mac"})
                         \cup (IF handed.deps[3] # connFontFamily(conf) THEN {"family"} ELSE {}))
      /\ conf' = conf /\ termObj' = termObj /\ renders' = renders /\ causes' = causes
  BY DEF SettingEffects
<1>2. /\ conf \in Conf /\ termObj \in Int /\ term \in TermRecord /\ handed \in Handed /\ handed.view \in BOOLEAN
      /\ made \in Int /\ causes \in Int /\ renders \subseteq {"view", "theme"} /\ unseen \subseteq {"mac", "scroll", "family"}
      /\ term.opts \in Options /\ handed.theme \in Int \X Int /\ handed.deps \in Triple
  BY <1>1, HandedTyped DEF SettingsType, Handed
<1>3. ~handed'.view
  BY <1>1, NotDrawnIs
<1>4. LastDeps' = term'.deps
  BY <1>3 DEF LastDeps
<1>5. /\ term.opts.bpm = w.bpm /\ term.opts.cursor = w.cursor /\ term.opts.blink = w.blink
      /\ "mac" \notin unseen => term.opts.mac = w.mac
      /\ "theme" \notin renders => handed.theme = w.theme
      /\ term.opts.size = term.deps[2]
      /\ term.deps[1] <= termObj /\ (handed.view => handed.deps[1] <= termObj)
      /\ term.deps[1] = termObj => /\ term.opts.webgl = w.webgl
                                   /\ "family" \notin unseen => term.opts.family = w.family
                                   /\ "scroll" \notin unseen => term.opts.scroll = w.scroll
      /\ (handed.view /\ handed.deps[1] = termObj) => handed.settings = getPrefixedSettings(conf.settings)
      /\ "view" \notin renders => (LastDeps[1] = termObj /\ LastDeps[2] = fontSize(conf))
  BY <1>1 DEF OptionsInv, MadeFits
<1>6. CASE again
  <2>1. term' = Made(conf, handed) /\ made' = made + 1
    BY <1>1, <1>6
  <2> DEFINE o == term'.opts
  <2>2. /\ term' \in TermRecord /\ term'.deps = handed.deps
        /\ o.bpm = w.bpm /\ o.cursor = w.cursor /\ o.blink = w.blink /\ o.mac = w.mac /\ o.theme = w.theme
        /\ o.size = handed.deps[2]
        /\ handed.settings = getPrefixedSettings(conf.settings) =>
             /\ o.webgl = w.webgl
             /\ handed.deps[3] = connFontFamily(conf) => o.family = w.family
             /\ handed.meta["scrollback"] = conf.meta["scrollback"] => o.scroll = w.scroll
    BY <1>2, <2>1, MadeIs
  <2>3. LastDeps = handed.deps
    BY <1>6 DEF LastDeps
  <2>4. /\ unseen' \subseteq {"mac", "scroll", "family"}
        /\ "family" \notin unseen' => handed.deps[3] = connFontFamily(conf)
        /\ "scroll" \notin unseen' => handed.meta["scrollback"] = conf.meta["scrollback"]
    <3>1. unseen' = (Unwatched([conf EXCEPT !.meta = handed.meta], conf) \ {"mac"})
                    \cup (IF handed.deps[3] # connFontFamily(conf) THEN {"family"} ELSE {})
      BY <1>1, <1>6
    <3>2. PICK c: c = [conf EXCEPT !.meta = handed.meta]
      OBVIOUS
    <3>3. c.meta = handed.meta
      BY <1>2, <3>2 DEF Conf
    <3>4. Unwatched(c, conf) \subseteq {"mac", "scroll", "family"} /\ ("scroll" \notin Unwatched(c, conf) => conf.meta["scrollback"] = c.meta["scrollback"])
      BY DEF Unwatched
    <3> QED
      BY <3>1, <3>2, <3>3, <3>4
  <2> HIDE DEF o, w
  <2>5. SettingsType'
    BY <1>1, <1>2, <2>1, <2>2, <2>4 DEF SettingsType
  <2>6. OptionsInv'
    <3>1. handed.deps[1] = termObj => handed.settings = getPrefixedSettings(conf.settings)
      BY <1>5, <1>6
    <3>2. term'.deps[1] = termObj => /\ o.webgl = w.webgl
                                     /\ "family" \notin unseen' => o.family = w.family
                                     /\ "scroll" \notin unseen' => o.scroll = w.scroll
      BY <2>2, <2>4, <3>1
    <3>3. term'.deps[1] <= termObj
      BY <1>5, <1>6, <2>2
    <3>4. "view" \notin renders => (LastDeps'[1] = termObj /\ LastDeps'[2] = fontSize(conf))
      BY <1>4, <1>5, <2>2, <2>3
    <3> QED
      BY <1>1, <1>3, <2>2, <3>2, <3>3, <3>4 DEF OptionsInv, MadeFits, o, w
  <2>7. CausesInv'
    <3>1. made - 1 + 1 + Bit(Deps(conf, termObj) # handed.deps) <= causes
      BY <1>2, <1>6, <2>3 DEF CausesInv, Bit
    <3>2. (handed.view /\ handed.deps # term.deps)' = FALSE
      BY <1>3
    <3>3. (Deps(conf, termObj) # LastDeps)' = (Deps(conf, termObj) # handed.deps)
      BY <1>1, <1>4, <2>2
    <3> QED
      BY <1>1, <1>2, <2>1, <3>1, <3>2, <3>3 DEF CausesInv, Bit
  <2> QED
    BY <2>5, <2>6, <2>7
<1>7. CASE ~again
  <2>1. term' = [term EXCEPT !.opts.theme = handed.theme] /\ made' = made /\ unseen' = unseen
    BY <1>1, <1>2, <1>7
  <2>2. /\ term' \in TermRecord /\ term'.deps = term.deps /\ term'.opts.theme = handed.theme
        /\ \A x \in {"bpm", "cursor", "blink", "mac", "size", "webgl", "family", "scroll"}: term'.opts[x] = term.opts[x]
    BY <1>2, <2>1 DEF TermRecord, Options
  <2>3. LastDeps = term.deps
    BY <1>7 DEF LastDeps
  <2> HIDE DEF w
  <2>5. SettingsType'
    BY <1>1, <1>2, <2>1, <2>2 DEF SettingsType
  <2>6. OptionsInv'
    <3>1. "view" \notin renders => (LastDeps'[1] = termObj /\ LastDeps'[2] = fontSize(conf))
      BY <1>4, <1>5, <2>2, <2>3
    <3> QED
      BY <1>1, <1>3, <1>5, <2>1, <2>2, <3>1 DEF OptionsInv, MadeFits, w
  <2>7. CausesInv'
    <3>1. made - 1 + Bit(Deps(conf, termObj) # term.deps) <= causes
      BY <1>2, <1>7, <2>3 DEF CausesInv, Bit
    <3>2. (handed.view /\ handed.deps # term.deps)' = FALSE
      BY <1>3
    <3>3. (Deps(conf, termObj) # LastDeps)' = (Deps(conf, termObj) # term.deps)
      BY <1>1, <1>4, <2>2
    <3> QED
      BY <1>1, <1>2, <2>1, <3>1, <3>2, <3>3 DEF CausesInv, Bit
  <2> QED
    BY <2>5, <2>6, <2>7
<1> QED
  BY <1>6, <1>7

-----------------------------------------------------------------------------
(* BlockSettings: what draws the terminal *)

Gl == [supported: BOOLEAN, addon: Nat, heard: Nat, shown: BOOLEAN, alive: SUBSET Nat, last: Nat, asked: {"dom", "webgl"}]
\* What is used is heard and shown, and there is none where there is no WebGL.
GlFits(g) ==
  /\ g \in Gl
  /\ g.alive = {g.addon} \ {0} /\ g.heard = g.addon /\ g.shown = (g.addon # 0) /\ (~g.supported => g.addon = 0)
GlInv == GlFits(gl) /\ (gl.supported => getTermRenderer(gl) = gl.asked)

\* Setting the renderer leaves the addon, its listener and the icon in agreement.
LEMMA RendererSet ==
  ASSUME NEW g, GlFits(g), NEW r \in {"dom", "webgl"}
  PROVE  LET h == setTermRenderer(g, r) IN
         /\ GlFits(h) /\ h.supported = g.supported /\ h.asked = g.asked
         /\ g.supported => getTermRenderer(h) = r
<1>1. g \in Gl /\ g.addon \in Nat /\ g.last \in Nat /\ g.supported \in BOOLEAN
  BY DEF GlFits, Gl
<1>2. CASE r = getTermRenderer(g)
  BY <1>2 DEF setTermRenderer
<1>3. CASE r # getTermRenderer(g) /\ r = "webgl" /\ g.supported
  <2>1. PICK n \in Nat: n = g.last + 1
    BY <1>1
  <2>2. g.addon = 0 /\ g.alive = {}
    BY <1>1, <1>3 DEF getTermRenderer, GlFits
  <2>3. PICK h: h = [g EXCEPT !.last = n, !.addon = n, !.heard = n, !.alive = {n}, !.shown = TRUE]
    OBVIOUS
  <2>4. setTermRenderer(g, r) = h
    BY <1>1, <1>3, <2>1, <2>2, <2>3 DEF setTermRenderer, Gl
  <2>5. n # 0
    BY <1>1, <2>1
  <2>6. h \in Gl /\ h.last = n /\ h.addon = n /\ h.heard = n /\ h.alive = {n} /\ h.shown = TRUE /\ h.supported = g.supported /\ h.asked = g.asked
    BY <1>1, <2>3 DEF Gl
  <2> QED
    BY <1>3, <2>4, <2>5, <2>6 DEF GlFits, getTermRenderer
<1>4. CASE r # getTermRenderer(g) /\ ~(r = "webgl" /\ g.supported)
  <2>1. setTermRenderer(g, r) = WithoutAddon(g)
    BY <1>4 DEF setTermRenderer
  <2>2. PICK h: h = WithoutAddon(g)
    OBVIOUS
  <2>3. /\ h \in Gl /\ h.addon = 0 /\ h.heard = 0 /\ h.shown = FALSE /\ h.alive = g.alive \ {g.addon}
        /\ h.supported = g.supported /\ h.asked = g.asked
    BY <1>1, <2>2 DEF Gl, WithoutAddon
  <2>4. h.alive = {}
    BY <2>3 DEF GlFits
  <2> QED
    BY <1>4, <2>1, <2>2, <2>3, <2>4 DEF GlFits, getTermRenderer
<1> QED
  BY <1>2, <1>3, <1>4

\* A new choice, and what follows it.
LEMMA AskedIs ==
  ASSUME NEW g, GlFits(g), NEW r \in {"dom", "webgl"}
  PROVE  GlFits([g EXCEPT !.asked = r]) /\ [g EXCEPT !.asked = r].asked = r /\ [g EXCEPT !.asked = r].supported = g.supported
BY DEF GlFits, Gl

\* Disposing of the addon leaves none.
LEMMA WithoutIs ==
  ASSUME NEW g, GlFits(g)
  PROVE  GlFits(WithoutAddon(g)) /\ WithoutAddon(g).supported = g.supported
<1>1. g \in Gl
  BY DEF GlFits
<1>2. PICK h: h = WithoutAddon(g)
  OBVIOUS
<1>3. /\ h \in Gl /\ h.addon = 0 /\ h.heard = 0 /\ h.shown = FALSE /\ h.alive = g.alive \ {g.addon}
      /\ h.supported = g.supported
  BY <1>1, <1>2 DEF Gl, WithoutAddon
<1>4. h.alive = {}
  BY <1>3 DEF GlFits
<1> QED
  BY <1>2, <1>3, <1>4 DEF GlFits

\* A terminal made anew draws by what the settings ask for.
LEMMA RenewedIs ==
  ASSUME NEW g, GlFits(g), NEW disabled \in BOOLEAN
  PROVE  LET h == Renewed(g, disabled) IN GlFits(h) /\ (h.supported => getTermRenderer(h) = h.asked)
<1> DEFINE r == IF g.supported /\ ~disabled THEN "webgl" ELSE "dom"
           w == [WithoutAddon(g) EXCEPT !.asked = r]
<1>1. r \in {"dom", "webgl"}
  OBVIOUS
<1>2. GlFits(w) /\ w.asked = r /\ w.supported = g.supported
  <2>1. PICK x: x = WithoutAddon(g)
    OBVIOUS
  <2>2. GlFits(x) /\ x.supported = g.supported
    BY <2>1, WithoutIs
  <2>3. w = [x EXCEPT !.asked = r]
    BY <2>1
  <2> HIDE DEF w, r
  <2>4. GlFits([x EXCEPT !.asked = r]) /\ [x EXCEPT !.asked = r].asked = r /\ [x EXCEPT !.asked = r].supported = x.supported
    BY <1>1, <2>2, AskedIs
  <2> QED
    BY <2>2, <2>3, <2>4
<1>3. Renewed(g, disabled) = setTermRenderer(w, r)
  BY DEF Renewed
<1> HIDE DEF w, r
<1> QED
  BY <1>1, <1>2, <1>3, RendererSet

\* No step leaves an addon unheard or a renderer that was not asked for.
LEMMA GlStep ==
  ASSUME GlInv, SettingsType, SettingsNext
  PROVE  GlInv'
<1> USE DEF GlInv
<1>0. gl \in Gl /\ gl.shown \in BOOLEAN
  BY DEF GlFits, Gl
<1>1. CASE gl' = gl
  BY <1>1 DEF GlFits, Gl, getTermRenderer
<1>2. CASE SettingEffects
  <2>1. gl' = gl \/ gl' = Renewed(gl, Or(handed.settings["disablewebgl"], 0) # 0)
    BY <1>2 DEF SettingEffects
  <2>2. CASE gl' = Renewed(gl, Or(handed.settings["disablewebgl"], 0) # 0)
    <3>1. PICK disabled \in BOOLEAN: disabled = (Or(handed.settings["disablewebgl"], 0) # 0)
      OBVIOUS
    <3>2. gl' = Renewed(gl, disabled)
      BY <2>2, <3>1
    <3>3. GlFits(gl') /\ (gl'.supported => getTermRenderer(gl') = gl'.asked)
      BY <3>2, RenewedIs
    <3> QED
      BY <3>3 DEF GlFits, Gl, getTermRenderer
  <2> QED
    BY <1>1, <2>1, <2>2
<1>3. CASE toggleWebGl
  <2> DEFINE r == IF getTermRenderer(gl) = "webgl" THEN "dom" ELSE "webgl"
             w == [gl EXCEPT !.asked = IF gl.shown THEN "dom" ELSE "webgl"]
  <2>1. gl' = setTermRenderer(w, r)
    BY <1>3 DEF toggleWebGl
  <2>2. r = IF gl.shown THEN "dom" ELSE "webgl"
    BY <1>0 DEF getTermRenderer, GlFits
  <2>3. GlFits(w) /\ w.asked = r /\ w.supported = gl.supported
    BY <2>2, AskedIs
  <2>4. r \in {"dom", "webgl"}
    OBVIOUS
  <2> HIDE DEF w, r
  <2>5. GlFits(gl') /\ (gl'.supported => getTermRenderer(gl') = gl'.asked)
    BY <2>1, <2>3, <2>4, RendererSet
  <2> QED
    BY <2>5 DEF GlFits, Gl, getTermRenderer
<1>4. ASSUME NEW n \in gl.alive, ContextLost(n) PROVE GlInv'
  <2>1. n = gl.heard
    BY DEF GlFits
  <2> DEFINE w == [gl EXCEPT !.asked = "dom"]
  <2>2. gl' = setTermRenderer(w, "dom")
    BY <1>4, <2>1 DEF ContextLost
  <2>3. GlFits(w) /\ w.asked = "dom" /\ w.supported = gl.supported
    BY AskedIs
  <2> HIDE DEF w
  <2>5. GlFits(gl') /\ (gl'.supported => getTermRenderer(gl') = gl'.asked)
    BY <2>2, <2>3, RendererSet
  <2> QED
    BY <2>5 DEF GlFits, Gl, getTermRenderer
<1>5. ASSUME NEW new, NEW byBlock, Changes(new, byBlock) PROVE gl' = gl
  BY <1>5 DEF Changes
<1>6. Render => gl' = gl
  BY DEF Render
<1>7. ASSUME NEW meta, NEW update, Merging(meta, update) PROVE gl' = gl
  BY <1>7 DEF Merging
<1> QED
  BY <1>1, <1>2, <1>3, <1>4, <1>5, <1>6, <1>7
     DEF SettingsNext, ChangeMeta, ChangeSetting, ChangeConn, ChangeConnection, ChangeThemes, ChangeOther

\* The icon then tells which renderer draws.
LEMMA RendererHolds ==
  ASSUME GlInv
  PROVE  RendererTells
BY DEF GlInv, GlFits, Gl, RendererTells, getTermRenderer, getWebGlIconButton

-----------------------------------------------------------------------------
(* BlockSettings: of the keys of a prefix *)

\* Two prefixes of one sequence: the shorter is one of the longer.
LEMMA PrefixesNest ==
  ASSUME NEW S, NEW p \in Seq(S), NEW q \in Seq(S), NEW k \in Seq(S), IsPrefix(p, k), IsPrefix(q, k), Len(p) <= Len(q)
  PROVE  IsPrefix(p, q) /\ (Len(p) = Len(q) => p = q)
<1>1. Len(p) \in Nat /\ Len(q) \in Nat /\ Len(k) \in Nat /\ Len(p) <= Len(k) /\ Len(q) <= Len(k)
  BY DEF IsPrefix
<1>2. SubSeq(p, 1, Len(p)) = SubSeq(k, 1, Len(p)) /\ SubSeq(q, 1, Len(q)) = SubSeq(k, 1, Len(q))
  BY DEF IsPrefix
<1>3. \A i \in 1 .. Len(p): SubSeq(p, 1, Len(p))[i] = p[i] /\ SubSeq(k, 1, Len(p))[i] = k[i]
  BY <1>1
<1>4. \A i \in 1 .. Len(q): SubSeq(q, 1, Len(q))[i] = q[i] /\ SubSeq(k, 1, Len(q))[i] = k[i]
  BY <1>1
<1>5. \A i \in 1 .. Len(p): p[i] = q[i]
  <2> TAKE i \in 1 .. Len(p)
  <2>1. p[i] = k[i]
    BY <1>2, <1>3
  <2>2. i \in 1 .. Len(q)
    BY <1>1
  <2>3. q[i] = k[i]
    BY <1>2, <1>4, <2>2
  <2> QED
    BY <2>1, <2>3
<1>6. SubSeq(p, 1, Len(p)) = SubSeq(q, 1, Len(p))
  <2>1. \A i \in 1 .. Len(p): SubSeq(q, 1, Len(p))[i] = q[i] /\ SubSeq(p, 1, Len(p))[i] = p[i]
    BY <1>1
  <2>2. SubSeq(q, 1, Len(p)) \in Seq(S) /\ Len(SubSeq(q, 1, Len(p))) = Len(p) /\ SubSeq(p, 1, Len(p)) \in Seq(S) /\ Len(SubSeq(p, 1, Len(p))) = Len(p)
    BY <1>1
  <2> QED
    BY <1>5, <2>1, <2>2
<1>7. Len(p) = Len(q) => p = q
  BY <1>5
<1> QED
  BY <1>1, <1>6, <1>7 DEF IsPrefix

\* A section that takes a key of the prefix away and is not itself of the prefix takes the
\* prefix away.
LEMMA SectionCovers ==
  ASSUME NEW S, NEW p \in Seq(S), NEW q \in Seq(S), NEW k \in Seq(S), Len(q) >= 1,
         shouldIncludeKey(k, p), InSection(k, q), ~shouldIncludeKey(q, p)
  PROVE  p # <<>> /\ InSection(p, q)
<1>1. p # <<"any">>
  <2>1. Len(<<"any">>) = 1 /\ Len(<<>>) = 0
    OBVIOUS
  <2>2. p = <<"any">> => p # <<>>
    BY <2>1
  <2>3. p = <<"any">> => shouldIncludeKey(q, p)
    BY <2>2 DEF shouldIncludeKey
  <2> QED
    BY <2>3
<1>2. k # q
  OBVIOUS
<1>3. Len(k) > Len(q) /\ IsPrefix(q, k)
  BY <1>2 DEF InSection, HasPrefix
<1>4. Len(p) \in Nat /\ Len(q) \in Nat /\ Len(k) \in Nat
  OBVIOUS
<1>5. p # <<>>
  <2>1. ASSUME p = <<>> PROVE Len(k) = 1
    BY <1>1, <2>1 DEF shouldIncludeKey
  <2> QED
    BY <1>3, <1>4, <2>1
<1>6. HasPrefix(k, p) /\ ~HasPrefix(q, p)
  BY <1>1, <1>5 DEF shouldIncludeKey
<1>7. IsPrefix(p, k)
  BY <1>6 DEF HasPrefix
<1>8. CASE Len(q) > Len(p)
  <2>1. IsPrefix(p, q)
    BY <1>3, <1>4, <1>7, <1>8, PrefixesNest
  <2> QED
    BY <1>6, <1>8, <2>1 DEF HasPrefix
<1>9. CASE ~(Len(q) > Len(p))
  <2>1. IsPrefix(q, p) /\ (Len(q) = Len(p) => q = p)
    BY <1>3, <1>4, <1>7, <1>9, PrefixesNest
  <2> QED
    BY <1>4, <1>5, <1>9, <2>1 DEF InSection, HasPrefix
<1> QED
  BY <1>8, <1>9

\* The merge of a prefix is that part of the whole merge.
LEMMA MergeHolds ==
  ASSUME NEW meta \in Metas, NEW update \in Metas, NEW p \in MetaPrefixes
  PROVE  \/ \E s \in DOMAIN update : IsSection(s) /\ update[s] # 0 /\ p # <<>> /\ InSection(p, Section(s))
         \/ LET all == MergeMeta(meta, update) IN
            mergeMeta(meta, update, p) = [k \in {k \in DOMAIN all : shouldIncludeKey(k, p)} |-> all[k]]
<1>1. PICK S: S = STRING
  OBVIOUS
<1>2. p \in Seq(S) /\ DOMAIN meta \subseteq Seq(S) /\ DOMAIN update \subseteq Seq(S)
  BY <1>1, MetasAssumption
<1> SUFFICES ASSUME ~\E s \in DOMAIN update : IsSection(s) /\ update[s] # 0 /\ p # <<>> /\ InSection(p, Section(s))
             PROVE  LET all == MergeMeta(meta, update) IN
                    mergeMeta(meta, update, p) = [k \in {k \in DOMAIN all : shouldIncludeKey(k, p)} |-> all[k]]
  OBVIOUS
<1> DEFINE D == DOMAIN meta \cup DOMAIN update
           K == {k \in D: shouldIncludeKey(k, p)}
           U == {k \in DOMAIN update : IsSection(k) /\ update[k] # 0 /\ Section(k) # <<"">>}
           T == {k \in DOMAIN update : IsSection(k) /\ update[k] # 0 /\ Section(k) # <<"">> /\ shouldIncludeKey(Section(k), p)}
           all == MergedSection(meta, update, U, D)
<1>3. MergeMeta(meta, update) = all /\ mergeMeta(meta, update, p) = MergedSection(meta, update, T, K)
  BY DEF MergeMeta, mergeMeta
<1>4. ASSUME NEW k \in DOMAIN meta \cap K, NEW s \in U, InSection(k, Section(s))
      PROVE  shouldIncludeKey(Section(s), p)
  <2>1. s \in DOMAIN update /\ IsSection(s) /\ update[s] # 0
    OBVIOUS
  <2>2. s \in Seq(S) /\ k \in Seq(S) /\ shouldIncludeKey(k, p)
    BY <1>2, <2>1
  <2> HIDE DEF U, K, D, T, all
  <2>3. Section(s) = SubSeq(s, 1, Len(s) - 1) /\ Len(s) > 1
    BY <2>1 DEF Section, Front, IsSection
  <2>4. Section(s) \in Seq(S) /\ Len(Section(s)) >= 1
    BY <2>2, <2>3
  <2>5. PICK q \in Seq(S): q = Section(s)
    BY <2>4
  <2>6. ~(p # <<>> /\ InSection(p, q))
    BY <2>1, <2>5
  <2>7. Len(q) >= 1 /\ InSection(k, q)
    BY <1>4, <2>4, <2>5
  <2>8. shouldIncludeKey(q, p)
    BY <1>2, <2>2, <2>6, <2>7, SectionCovers
  <2> QED
    BY <2>5, <2>8
<1>5. T \subseteq U /\ \A s \in U: shouldIncludeKey(Section(s), p) => s \in T
  OBVIOUS
<1>6. K \in SUBSET D /\ DOMAIN meta \subseteq D /\ DOMAIN update \subseteq D
  OBVIOUS
<1>7. \A k \in D: k \in K <=> shouldIncludeKey(k, p)
  OBVIOUS
<1> HIDE DEF U, K, D, T, all
<1>8. \A k \in DOMAIN meta \cap K: (\E s \in T: InSection(k, Section(s))) <=> (\E s \in U: InSection(k, Section(s)))
  BY <1>4, <1>5
<1> DEFINE part == MergedSection(meta, update, T, K)
<1> HIDE DEF part
<1>9. DOMAIN all \subseteq D /\ (\A k: k \in DOMAIN part <=> k \in DOMAIN all /\ k \in K) /\ \A k \in DOMAIN part: part[k] = all[k]
  <2> DEFINE goneT == {k \in DOMAIN meta : \E s \in T : InSection(k, Section(s))}
             goneU == {k \in DOMAIN meta : \E s \in U : InSection(k, Section(s))}
             setK == {k \in DOMAIN update \cap K : ~IsSection(k)}
             setD == {k \in DOMAIN update \cap D : ~IsSection(k)}
             domT == {k \in ((DOMAIN meta \cap K) \ goneT) \cup setK : k \in setK => update[k] # 0}
             domU == {k \in ((DOMAIN meta \cap D) \ goneU) \cup setD : k \in setD => update[k] # 0}
  <2>1. part = [k \in domT |-> IF k \in setK THEN update[k] ELSE meta[k]]
    BY DEF MergedSection, all, part
  <2>2. all = [k \in domU |-> IF k \in setD THEN update[k] ELSE meta[k]]
    BY DEF MergedSection, all, part
  <2>3. \A k \in K: k \in setK <=> k \in setD
    BY <1>6
  <2>4. \A k \in DOMAIN meta \cap K: k \in goneT <=> k \in goneU
    BY <1>8
  <2>5. domT = {k \in domU: k \in K}
    <3>1. \A k \in domT: k \in K
      OBVIOUS
    <3>2. \A k \in K: k \in domT <=> k \in domU
      <4> TAKE k \in K
      <4>1. k \in D
        BY <1>6
      <4>2. k \in domT <=> (((k \in DOMAIN meta /\ k \notin goneT) \/ k \in setK) /\ (k \in setK => update[k] # 0))
        OBVIOUS
      <4>3. k \in domU <=> (((k \in DOMAIN meta /\ k \notin goneU) \/ k \in setD) /\ (k \in setD => update[k] # 0))
        BY <4>1
      <4> HIDE DEF domT, domU, setK, setD, goneT, goneU
      <4> QED
        BY <2>3, <2>4, <4>2, <4>3
    <3> HIDE DEF domT, domU
    <3> QED
      BY <3>1, <3>2
  <2>6. domU \subseteq D
    OBVIOUS
  <2> HIDE DEF domT, domU, setK, setD, goneT, goneU
  <2>7. DOMAIN all = domU /\ \A k \in domU: all[k] = IF k \in setD THEN update[k] ELSE meta[k]
    BY <2>2
  <2>8. DOMAIN part = domT /\ \A k \in domT: part[k] = IF k \in setK THEN update[k] ELSE meta[k]
    BY <2>1
  <2>9. (\A k: k \in DOMAIN part <=> k \in DOMAIN all /\ k \in K) /\ \A k \in DOMAIN part: part[k] = all[k]
    BY <2>3, <2>5, <2>7, <2>8
  <2> QED
    BY <2>6, <2>7, <2>9
<1>10. part = [k \in DOMAIN part |-> part[k]]
  BY DEF MergedSection, part
<1>11. DOMAIN part = {k \in DOMAIN all: shouldIncludeKey(k, p)}
  BY <1>7, <1>9
<1>12. part = [k \in {k \in DOMAIN all: shouldIncludeKey(k, p)} |-> all[k]]
  BY <1>9, <1>10, <1>11
<1> QED
  BY <1>3, <1>12 DEF part

-----------------------------------------------------------------------------
(* BlockSettings: all of it *)

SettingsInv ==
  /\ SettingsType /\ OptionsInv /\ CausesInv /\ GlInv
  /\ merging # <<>> => merging[1] \in Metas /\ merging[2] \in Metas

\* The invariant holds initially, ...
LEMMA SettingsInitInv ==
  ASSUME SettingsInit
  PROVE  SettingsInv
<1>1. /\ conf.meta = NoValues /\ conf.settings = [k \in SettingKeys \cup {"other"} |-> NotSet]
      /\ conf \in Conf
      /\ termObj = 1 /\ renders = {} /\ handed = NotDrawn /\ made = 1 /\ causes = 0 /\ unseen = {} /\ merging = <<>>
      /\ term = Made(conf, [Drawn(conf, 1) EXCEPT !.view = TRUE])
  <2>1. NoValues \in SettingValues /\ NotSet \in Int /\ {1} \in SUBSET Int
    BY DEF NoValues, NotSet, SettingValues
  <2> QED
    BY <2>1 DEF SettingsInit, Conf
<1> DEFINE h == [Drawn(conf, 1) EXCEPT !.view = TRUE]
<1>2. /\ h \in Handed /\ h.deps = Deps(conf, 1) /\ h.settings = getPrefixedSettings(conf.settings)
      /\ h.meta = conf.meta
  <2>1. PICK d: d = Drawn(conf, 1)
    OBVIOUS
  <2>2. d \in Handed /\ d.deps = Deps(conf, 1) /\ d.settings = getPrefixedSettings(conf.settings) /\ d.meta = conf.meta
    BY <1>1, <2>1, DrawnIs
  <2> QED
    BY <2>1, <2>2 DEF Handed
<1>3. h.deps[1] = 1 /\ h.deps[2] = fontSize(conf) /\ h.deps[3] = connFontFamily(conf)
  BY <1>1, <1>2, DepsTyped
<1> HIDE DEF h
<1>4. term = Made(conf, h)
  BY <1>1 DEF h
<1>5. /\ term \in TermRecord /\ term.deps = h.deps
      /\ LET o == term.opts
             w == CodeOptions(conf)
         IN  /\ o.bpm = w.bpm /\ o.cursor = w.cursor /\ o.blink = w.blink /\ o.mac = w.mac /\ o.theme = w.theme
             /\ o.size = h.deps[2] /\ o.webgl = w.webgl /\ o.family = w.family /\ o.scroll = w.scroll
  BY <1>1, <1>2, <1>3, <1>4, MadeIs
<1>6. ~handed.view /\ LastDeps = term.deps
  BY <1>1, NotDrawnIs DEF LastDeps
<1>7. SettingsType
  BY <1>1, <1>5 DEF SettingsType
<1>8. OptionsInv
  BY <1>1, <1>3, <1>5, <1>6 DEF OptionsInv, MadeFits
<1>9. CausesInv
  BY <1>1, <1>2, <1>5, <1>6 DEF CausesInv, Bit
<1>10. GlInv
  <2>1. PICK s \in BOOLEAN: gl = Renewed([supported |-> s, addon |-> 0, heard |-> 0, shown |-> FALSE, alive |-> {}, last |-> 0, asked |-> "dom"], FALSE)
    BY DEF SettingsInit
  <2>2. PICK g: g = [supported |-> s, addon |-> 0, heard |-> 0, shown |-> FALSE, alive |-> {}, last |-> 0, asked |-> "dom"]
    OBVIOUS
  <2>3. GlFits(g)
    BY <2>2 DEF GlFits, Gl
  <2>4. gl = Renewed(g, FALSE)
    BY <2>1, <2>2
  <2> QED
    BY <2>3, <2>4, RenewedIs DEF GlInv
<1> QED
  BY <1>1, <1>7, <1>8, <1>9, <1>10 DEF SettingsInv

\* ... and every step keeps it.
LEMMA SettingsStepInv ==
  ASSUME SettingsInv, [SettingsNext]_blockSettingVars
  PROVE  SettingsInv'
<1>0. SettingsType /\ OptionsInv /\ CausesInv /\ GlInv /\ (merging # <<>> => merging[1] \in Metas /\ merging[2] \in Metas)
  BY DEF SettingsInv
<1>1. CASE UNCHANGED blockSettingVars
  <2> USE <1>1 DEF blockSettingVars, settingVars
  <2>1. SettingsType'
    BY <1>0 DEF SettingsType
  <2>2. OptionsInv'
    BY <1>0 DEF OptionsInv, MadeFits, LastDeps
  <2>3. CausesInv'
    BY <1>0 DEF CausesInv, LastDeps, Bit
  <2>4. GlInv'
    BY <1>0 DEF GlInv, GlFits, Gl, getTermRenderer
  <2> QED
    BY <1>0, <2>1, <2>2, <2>3, <2>4 DEF SettingsInv
<1>2. CASE SettingsNext
  <2>1. GlInv'
    BY <1>0, <1>2, GlStep
  <2>2. ASSUME NEW new \in Conf, NEW byBlock \in BOOLEAN, Changes(new, byBlock),
               byBlock => new.settings = conf.settings /\ new.themes = conf.themes
        PROVE  SettingsInv'
    <3>1. SettingsType' /\ OptionsInv' /\ CausesInv'
      BY <1>0, <2>2, ChangesKeep
    <3>2. merging' = merging
      BY <2>2 DEF Changes
    <3> QED
      BY <1>0, <2>1, <3>1, <3>2 DEF SettingsInv
  <2>3. ASSUME Render PROVE SettingsInv'
    <3>1. SettingsType' /\ OptionsInv' /\ CausesInv'
      BY <1>0, <2>3, RenderKeeps
    <3>2. merging' = merging
      BY <2>3 DEF Render
    <3> QED
      BY <1>0, <2>1, <3>1, <3>2 DEF SettingsInv
  <2>4. ASSUME SettingEffects PROVE SettingsInv'
    <3>1. SettingsType' /\ OptionsInv' /\ CausesInv'
      BY <1>0, <2>4, EffectsKeep
    <3>2. merging' = merging
      BY <2>4 DEF SettingEffects
    <3> QED
      BY <1>0, <2>1, <3>1, <3>2 DEF SettingsInv
  <2>5. ASSUME UNCHANGED settingVars, merging' # <<>> => merging'[1] \in Metas /\ merging'[2] \in Metas
        PROVE  SettingsInv'
    <3> USE <2>5 DEF settingVars
    <3>1. SettingsType'
      BY <1>0 DEF SettingsType
    <3>2. OptionsInv'
      BY <1>0 DEF OptionsInv, MadeFits, LastDeps
    <3>3. CausesInv'
      BY <1>0 DEF CausesInv, LastDeps, Bit
    <3> QED
      BY <2>1, <3>1, <3>2, <3>3 DEF SettingsInv
  <2>6. ASSUME \/ \E k \in SettingKeys: \E v \in Settings[k] \cup {NotSet}:
                    ChangeMeta(k, v) \/ ChangeSetting(k, v) \/ \E n \in ConnNames: ChangeConn(n, k, v)
               \/ \E c \in ConnNames \cup {NoConn}: ChangeConnection(c)
               \/ \E themes \in SUBSET {1, 2}: ChangeThemes(themes)
               \/ \E o \in {NotSet, 0}: ChangeOther(o)
        PROVE  SettingsInv'
    <3>1. conf \in Conf
      BY <1>0 DEF SettingsType
    <3>2. PICK new \in Conf, byBlock \in BOOLEAN:
            /\ Changes(new, byBlock)
            /\ byBlock => new.settings = conf.settings /\ new.themes = conf.themes
      BY <2>6, <3>1, EachChange
    <3> QED
      BY <2>2, <3>2
  <2>7. ASSUME toggleWebGl PROVE SettingsInv'
    BY <1>0, <2>5, <2>7 DEF toggleWebGl
  <2>8. ASSUME NEW n \in gl.alive, ContextLost(n) PROVE SettingsInv'
    BY <1>0, <2>5, <2>8 DEF ContextLost
  <2>9. ASSUME NEW meta \in Metas, NEW update \in Metas, Merging(meta, update) PROVE SettingsInv'
    <3>1. UNCHANGED settingVars /\ merging' = <<meta, update>>
      BY <2>9 DEF Merging
    <3>2. merging'[1] \in Metas /\ merging'[2] \in Metas
      BY <3>1
    <3> QED
      BY <2>5, <3>1, <3>2
  <2> QED
    BY <1>2, <2>3, <2>4, <2>6, <2>7, <2>8, <2>9 DEF SettingsNext
<1> QED
  BY <1>1, <1>2

\* Whatever settings a terminal has and whatever metas are merged, the terminal's options are
\* those of its block, its connection and the settings (but for what nothing watches), it is
\* made anew for a cause only, a merge of a prefix is that part of the whole merge, and what
\* the button says draws the terminal.
THEOREM SettingsAlwaysTell == SettingsSpec => []SettingsTell
<1>1. SettingsInv => SettingsTell
  <2> SUFFICES ASSUME SettingsInv PROVE SettingsTell
    OBVIOUS
  <2>0. SettingsType /\ OptionsInv /\ CausesInv /\ GlInv /\ (merging # <<>> => merging[1] \in Metas /\ merging[2] \in Metas)
    BY DEF SettingsInv
  <2>1. conf \in Conf
    BY <2>0 DEF SettingsType
  <2>2. WantedOptions = CodeOptions(conf) /\ CodeOptions(conf) \in Options
    BY <2>1, WantedIs, OptionsTyped
  <2>3. DOMAIN WantedOptions = OptionNames
    BY <2>2 DEF Options, OptionNames
  <2>4. OptionsShown
    <3> DEFINE w == CodeOptions(conf)
    <3>1. \A o \in {"bpm", "cursor", "blink"} : term.opts[o] = w[o]
      BY <2>0 DEF OptionsInv
    <3>2. ASSUME renders = {}, handed = NotDrawn, NEW o \in OptionNames \ unseen
          PROVE  term.opts[o] = w[o]
      <4>1. ~handed.view /\ LastDeps = term.deps
        BY <3>2, NotDrawnIs DEF LastDeps
      <4>2. term.deps[1] = termObj /\ term.deps[2] = fontSize(conf)
        BY <2>0, <3>2, <4>1 DEF OptionsInv
      <4>3. MadeFits /\ term.opts.theme = w.theme /\ term.opts.size = term.deps[2] /\ ("mac" \notin unseen => term.opts.mac = w.mac)
        BY <2>0, <3>2, <4>2 DEF OptionsInv
      <4>4. w.size = fontSize(conf)
        BY DEF CodeOptions
      <4> HIDE DEF w
      <4> QED
        BY <3>1, <3>2, <4>2, <4>3, <4>4 DEF MadeFits, OptionNames, w
    <3> QED
      BY <2>2, <2>3, <3>1, <3>2 DEF OptionsShown
  <2>5. MadeForCause
    <3>1. made \in Int /\ causes \in Int
      BY <2>0 DEF SettingsType
    <3> QED
      BY <2>0, <3>1 DEF MadeForCause, CausesInv, Bit
  <2>7. MergeAgrees
    BY <2>0, MergeHolds DEF MergeAgrees
  <2>8. RendererTells
    BY <2>0, RendererHolds
  <2> QED
    BY <2>4, <2>5, <2>7, <2>8 DEF SettingsTell
<1> QED
  BY <1>1, SettingsInitInv, SettingsStepInv, PTL DEF SettingsSpec

-----------------------------------------------------------------------------
(* TermClip: what its recursive functions are *)

\* A function on 0 .. n may be given by its value at 0 and each value by the one before.
Iterates(V, c, G, n) == \E f \in [0 .. n -> V]: f[0] = c /\ \A k \in 1 .. n: f[k] = G[k][f[k - 1]]
LEMMA GivenByTheOneBefore ==
  ASSUME NEW V, NEW c \in V, NEW G \in [Nat -> [V -> V]], NEW n \in Nat
  PROVE  Iterates(V, c, G, n)
<1> DEFINE Follow(m, f) == f[0] = c /\ \A k \in 1 .. m: f[k] = G[k][f[k - 1]]
           P == {m \in Nat: \E f \in [0 .. m -> V]: Follow(m, f)}
<1>1. 0 \in P
  <2>1. PICK f: f = [k \in 0 .. 0 |-> c]
    OBVIOUS
  <2>2. f \in [0 .. 0 -> V] /\ Follow(0, f)
    BY <2>1
  <2> QED
    BY <2>2
<1>2. ASSUME NEW m \in P PROVE m + 1 \in P
  <2>1. m \in Nat /\ m + 1 \in Nat
    OBVIOUS
  <2>2. PICK f \in [0 .. m -> V]: Follow(m, f)
    OBVIOUS
  <2>3. PICK g: g = [k \in 0 .. m + 1 |-> IF k = m + 1 THEN G[m + 1][f[m]] ELSE f[k]]
    OBVIOUS
  <2>4. G[m + 1] \in [V -> V] /\ f[m] \in V
    BY <2>1
  <2>5. G[m + 1][f[m]] \in V
    BY <2>4
  <2>6. g \in [0 .. m + 1 -> V]
    BY <2>1, <2>3, <2>5
  <2>7. g[0] = c
    BY <2>1, <2>2, <2>3
  <2>8. ASSUME NEW k \in 1 .. m + 1 PROVE g[k] = G[k][g[k - 1]]
    <3>1. CASE k = m + 1
      <4>1. g[k] = G[m + 1][f[m]] /\ g[k - 1] = f[m]
        BY <2>1, <2>3, <3>1
      <4> QED
        BY <3>1, <4>1
    <3>2. CASE k # m + 1
      <4>1. k \in 1 .. m /\ g[k] = f[k] /\ g[k - 1] = f[k - 1]
        BY <2>1, <2>3, <3>2
      <4> QED
        BY <2>2, <4>1
    <3> QED
      BY <3>1, <3>2
  <2>9. Follow(m + 1, g)
    BY <2>7, <2>8
  <2> QED
    BY <2>1, <2>6, <2>9
<1>3. P = Nat
  <2> HIDE DEF P
  <2> QED
    BY <1>1, <1>2, InductionBySet DEF P
<1> QED
  BY <1>3 DEF Iterates

\* f[k] are the elements among the first k of s that are at places of which.
Selected(s, which, f) ==
  f = [k \in 0 .. Len(s) |-> IF k = 0 THEN <<>> ELSE IF k \in which THEN Append(f[k - 1], s[k]) ELSE f[k - 1]]
Picks(S, s, which, f) ==
  /\ f \in [0 .. Len(s) -> Seq(S)] /\ Only(s, which) = f[Len(s)]
  /\ f[0] = <<>> /\ \A k \in 1 .. Len(s): f[k] = IF k \in which THEN Append(f[k - 1], s[k]) ELSE f[k - 1]
LEMMA OnlyIs ==
  ASSUME NEW S, NEW s \in Seq(S), NEW which
  PROVE  \E f: Picks(S, s, which, f)
<1> DEFINE V == Seq(S)
           n == Len(s)
           G == [k \in Nat |-> [v \in V |-> IF k \in which /\ k \in 1 .. n THEN Append(v, s[k]) ELSE v]]
<1>1. n \in Nat /\ <<>> \in V
  OBVIOUS
<1>2. G \in [Nat -> [V -> V]]
  <2>1. ASSUME NEW k \in Nat, NEW v \in V PROVE (IF k \in which /\ k \in 1 .. n THEN Append(v, s[k]) ELSE v) \in V
    <3>1. CASE k \in which /\ k \in 1 .. n
      BY <3>1, ElementOfSeq, AppendProperties
    <3> QED
      BY <3>1
  <2> QED
    BY <2>1
<1>3. PICK g \in [0 .. n -> V]: g[0] = <<>> /\ \A k \in 1 .. n: g[k] = G[k][g[k - 1]]
  <2> DEFINE c == <<>>
  <2> HIDE DEF V, G, n
  <2>1. c \in V
    BY <1>1
  <2> HIDE DEF c
  <2>2. Iterates(V, c, G, n)
    BY <1>1, <1>2, <2>1, GivenByTheOneBefore
  <2> QED
    BY <2>2 DEF c, Iterates
<1>4. \A k \in 1 .. n: g[k] = IF k \in which THEN Append(g[k - 1], s[k]) ELSE g[k - 1]
  <2>1. ASSUME NEW k \in 1 .. n PROVE g[k] = IF k \in which THEN Append(g[k - 1], s[k]) ELSE g[k - 1]
    <3>1. k \in Nat /\ k - 1 \in 0 .. n
      BY <1>1
    <3>2. g[k - 1] \in V
      BY <3>1
    <3>3. g[k] = G[k][g[k - 1]]
      BY <1>3
    <3> HIDE DEF V
    <3> QED
      BY <3>1, <3>2, <3>3
  <2> QED
    BY <2>1
<1>5. Selected(s, which, g)
  <2>1. ASSUME NEW k \in 0 .. n
        PROVE  g[k] = IF k = 0 THEN <<>> ELSE IF k \in which THEN Append(g[k - 1], s[k]) ELSE g[k - 1]
    <3>1. k # 0 => k \in 1 .. n
      BY <1>1
    <3> QED
      BY <1>3, <1>4, <3>1
  <2>2. g = [k \in 0 .. n |-> g[k]]
    OBVIOUS
  <2> QED
    BY <2>1, <2>2 DEF Selected
<1>6. PICK f: f = CHOOSE h: Selected(s, which, h)
  OBVIOUS
<1>7. Selected(s, which, f)
  BY <1>5, <1>6
<1>8. Only(s, which) = f[n]
  BY <1>6, Zenon DEF Only, Selected
<1>9. /\ f = [k \in 0 .. n |-> f[k]] /\ f[0] = <<>>
      /\ \A k \in 1 .. n: f[k] = IF k \in which THEN Append(f[k - 1], s[k]) ELSE f[k - 1]
  <2>1. \A k \in 1 .. n: k \in 0 .. n /\ k # 0
    BY <1>1
  <2>2. 0 \in 0 .. n
    BY <1>1
  <2> HIDE DEF n
  <2> QED
    BY <1>7, <2>1, <2>2 DEF Selected, n
<1>10. \A k \in 0 .. n: f[k] = g[k]
  <2> DEFINE Q == {k \in Nat: k <= n => f[k] = g[k]}
  <2>1. 0 \in Q
    BY <1>3, <1>9
  <2>2. ASSUME NEW k \in Q PROVE k + 1 \in Q
    <3>1. ASSUME k + 1 <= n PROVE f[k + 1] = g[k + 1]
      <4>1. k \in Nat /\ k + 1 \in 1 .. n /\ (k + 1) - 1 = k /\ f[k] = g[k]
        BY <1>1, <3>1
      <4> QED
        BY <1>4, <1>9, <4>1
    <3> QED
      BY <3>1
  <2>3. Q = Nat
    <3> HIDE DEF Q
    <3> QED
      BY <2>1, <2>2, InductionBySet DEF Q
  <2> QED
    BY <1>1, <2>3
<1>11. f \in [0 .. n -> V]
  BY <1>9, <1>10
<1> QED
  BY <1>8, <1>9, <1>11 DEF Picks

\* What is picked from a sequence is of its elements.
LEMMA OnlyType ==
  ASSUME NEW S, NEW s \in Seq(S), NEW which
  PROVE  Only(s, which) \in Seq(S)
<1>1. PICK f: Picks(S, s, which, f)
  BY OnlyIs
<1>2. Len(s) \in 0 .. Len(s)
  OBVIOUS
<1> QED
  BY <1>1, <1>2 DEF Picks

\* What is picked of the first elements depends on nothing else.
LEMMA PicksAgree ==
  ASSUME NEW S, NEW s \in Seq(S), NEW t \in Seq(S), NEW v, NEW w, NEW f, NEW g,
         Picks(S, s, v, f), Picks(S, t, w, g),
         NEW n \in Nat, n <= Len(s), n <= Len(t), \A k \in 1 .. n: s[k] = t[k] /\ (k \in v <=> k \in w)
  PROVE  f[n] = g[n]
<1> DEFINE Q == {k \in Nat: k <= n => f[k] = g[k]}
<1>1. 0 \in Q
  BY DEF Picks
<1>2. ASSUME NEW k \in Q PROVE k + 1 \in Q
  <2>1. ASSUME k + 1 <= n PROVE f[k + 1] = g[k + 1]
    <3>1. k + 1 \in 1 .. Len(s) /\ k + 1 \in 1 .. Len(t) /\ k + 1 \in 1 .. n /\ (k + 1) - 1 = k /\ f[k] = g[k]
      BY <2>1
    <3>2. f[k + 1] = IF k + 1 \in v THEN Append(f[k], s[k + 1]) ELSE f[k]
      BY <3>1 DEF Picks
    <3>3. g[k + 1] = IF k + 1 \in w THEN Append(g[k], t[k + 1]) ELSE g[k]
      BY <3>1 DEF Picks
    <3> QED
      BY <3>1, <3>2, <3>3
  <2> QED
    BY <2>1
<1>3. Q = Nat
  <2> HIDE DEF Q
  <2> QED
    BY <1>1, <1>2, InductionBySet DEF Q
<1> QED
  BY <1>3

\* One more element is picked or it is not.
LEMMA OnlyAppend ==
  ASSUME NEW S, NEW s \in Seq(S), NEW x \in S, NEW v, NEW w, \A k \in 1 .. Len(s): k \in v <=> k \in w
  PROVE  Only(Append(s, x), w) = IF Len(s) + 1 \in w THEN Append(Only(s, v), x) ELSE Only(s, v)
<1> DEFINE n == Len(s)
           t == Append(s, x)
<1>1. t \in Seq(S) /\ Len(t) = n + 1 /\ t[n + 1] = x /\ \A k \in 1 .. n: t[k] = s[k]
  BY Appended
<1>2. PICK f: Picks(S, s, v, f)
  BY OnlyIs
<1>3. PICK g: Picks(S, t, w, g)
  <2> HIDE DEF t
  <2> QED
    BY <1>1, OnlyIs
<1> HIDE DEF t
<1>4. f[n] = g[n]
  BY <1>1, <1>2, <1>3, PicksAgree
<1>5. n + 1 \in 1 .. Len(t) /\ (n + 1) - 1 = n
  BY <1>1
<1>6. g[n + 1] = IF n + 1 \in w THEN Append(g[n], x) ELSE g[n]
  BY <1>1, <1>3, <1>5 DEF Picks
<1>7. Only(s, v) = f[n] /\ Only(t, w) = g[n + 1]
  BY <1>1, <1>2, <1>3 DEF Picks
<1> QED
  BY <1>4, <1>6, <1>7 DEF t

\* The first chosen place comes first, and nothing comes of no place.
LEMMA PicksFirst ==
  ASSUME NEW S, NEW s \in Seq(S), NEW which, NEW f, Picks(S, s, which, f), NEW n \in Nat, n <= Len(s),
         \A k \in 1 .. n: k \notin which
  PROVE  f[n] = <<>>
<1> DEFINE Q == {k \in Nat: k <= n => f[k] = <<>>}
<1>1. 0 \in Q
  BY DEF Picks
<1>2. ASSUME NEW k \in Q PROVE k + 1 \in Q
  <2>1. ASSUME k + 1 <= n PROVE f[k + 1] = <<>>
    <3>1. k + 1 \in 1 .. Len(s) /\ k + 1 \in 1 .. n /\ (k + 1) - 1 = k /\ f[k] = <<>>
      BY <2>1
    <3> QED
      BY <3>1 DEF Picks
  <2> QED
    BY <2>1
<1>3. Q = Nat
  <2> HIDE DEF Q
  <2> QED
    BY <1>1, <1>2, InductionBySet DEF Q
<1> QED
  BY <1>3

\* Where nothing is to be picked nothing is.
LEMMA OnlyNone ==
  ASSUME NEW S, NEW s \in Seq(S), NEW which, \A k \in 1 .. Len(s): k \notin which
  PROVE  Only(s, which) = <<>>
<1>1. PICK f: Picks(S, s, which, f)
  BY OnlyIs
<1>2. f[Len(s)] = <<>>
  BY <1>1, PicksFirst
<1> QED
  BY <1>1, <1>2 DEF Picks

\* The first that is picked is at the least place.
LEMMA OnlyHead ==
  ASSUME NEW S, NEW s \in Seq(S), NEW which, NEW i \in 1 .. Len(s), i \in which, \A k \in 1 .. i - 1: k \notin which
  PROVE  /\ Only(s, which) # <<>> /\ Head(Only(s, which)) = s[i]
         /\ (\A k \in i + 1 .. Len(s): k \notin which) => Only(s, which) = <<s[i]>>
<1>1. PICK f: Picks(S, s, which, f)
  BY OnlyIs
<1>2. i - 1 \in Nat /\ i - 1 <= Len(s)
  OBVIOUS
<1>3. f[i - 1] = <<>>
  BY <1>1, <1>2, PicksFirst
<1>4. f[i] = <<s[i]>>
  <2>1. f[i] = Append(<<>>, s[i])
    BY <1>1, <1>3 DEF Picks
  <2> QED
    BY <2>1
<1> DEFINE Q == {k \in Nat: i <= k /\ k <= Len(s) =>
                   /\ Len(f[k]) > 0 /\ f[k][1] = s[i]
                   /\ (\A j \in i + 1 .. Len(s): j \notin which) => f[k] = <<s[i]>>}
<1>5. 0 \in Q
  OBVIOUS
<1>6. ASSUME NEW k \in Q PROVE k + 1 \in Q
  <2>1. ASSUME i <= k + 1, k + 1 <= Len(s)
        PROVE  /\ Len(f[k + 1]) > 0 /\ f[k + 1][1] = s[i]
               /\ (\A j \in i + 1 .. Len(s): j \notin which) => f[k + 1] = <<s[i]>>
    <3>1. CASE i = k + 1
      <4>1. Len(<<s[i]>>) = 1 /\ <<s[i]>>[1] = s[i]
        OBVIOUS
      <4> QED
        BY <1>4, <3>1, <4>1
    <3>2. CASE i # k + 1
      <4>1. k \in Nat /\ i <= k /\ k <= Len(s) /\ k + 1 \in 1 .. Len(s) /\ (k + 1) - 1 = k /\ k \in 0 .. Len(s)
        BY <2>1, <3>2
      <4>2. /\ Len(f[k]) > 0 /\ f[k][1] = s[i]
            /\ (\A j \in i + 1 .. Len(s): j \notin which) => f[k] = <<s[i]>>
        BY <4>1
      <4>3. f[k + 1] = IF k + 1 \in which THEN Append(f[k], s[k + 1]) ELSE f[k]
        BY <1>1, <4>1 DEF Picks
      <4>4. f[k] \in Seq(S) /\ s[k + 1] \in S
        BY <1>1, <4>1, ElementOfSeq DEF Picks
      <4>5. Len(Append(f[k], s[k + 1])) = Len(f[k]) + 1 /\ Append(f[k], s[k + 1])[1] = f[k][1]
        BY <4>2, <4>4, AppendProperties
      <4>6. (\A j \in i + 1 .. Len(s): j \notin which) => k + 1 \notin which
        BY <4>1
      <4>7. Len(f[k]) \in Nat
        BY <4>4
      <4> QED
        BY <4>2, <4>3, <4>5, <4>6, <4>7
    <3> QED
      BY <3>1, <3>2
  <2> QED
    BY <2>1
<1>7. Q = Nat
  <2> HIDE DEF Q
  <2> QED
    BY <1>5, <1>6, InductionBySet DEF Q
<1>8. /\ Len(f[Len(s)]) > 0 /\ f[Len(s)][1] = s[i]
      /\ (\A j \in i + 1 .. Len(s): j \notin which) => f[Len(s)] = <<s[i]>>
  <2>1. Len(s) \in Nat /\ i <= Len(s)
    OBVIOUS
  <2> QED
    BY <1>7, <2>1
<1>9. Only(s, which) = f[Len(s)] /\ Only(s, which) \in Seq(S)
  BY <1>1, OnlyType DEF Picks
<1> QED
  BY <1>8, <1>9

-----------------------------------------------------------------------------
(* TermClip: reading a clipboard *)

\* No type of data has an empty name.
LEMMA BlankIs == Blank # "image" /\ Blank # "pdf" /\ Blank # "plain" /\ Blank # "html" /\ Blank # "Control+V"
BY Zenon DEF Blank

\* What may be on a clipboard.
LEMMA ItemIs ==
  ASSUME NEW i \in Item
  PROVE  /\ i.kind \in {"file", "string"} /\ i.type \in {"image", "pdf", "plain", "html", Blank} /\ i.val \in Data
         /\ i.kind = "file" => i.type \in {"image", "pdf"} /\ i.val # Blank
         /\ i.kind = "string" => i.type # "image"
<1>0. Blank # "image"
  BY BlankIs
<1>1. CASE i \in [kind : {"file"}, type : {"image", "pdf"}, val : Data \ {Blank}]
  BY <1>1
<1>2. CASE i \in [kind : {"string"}, type : {"plain", "html", Blank, "pdf"}, val : Data]
  BY <1>0, <1>2
<1> QED
  BY <1>1, <1>2 DEF Item

\* The kinds of text, from the plainest one.
LEMMA PlainnessIs ==
  /\ Plainness("plain") = 1 /\ Plainness("html") = 2 /\ Plainness(Blank) = 3
  /\ \A t, u \in {"plain", "html", Blank}: Plainness(t) \in 1 .. 3 /\ (Plainness(t) = Plainness(u) => t = u)
<1>1. Plainness("plain") = 1 /\ Plainness("html") = 2 /\ Plainness(Blank) = 3
  BY BlankIs DEF Plainness
<1>2. \A t \in {"plain", "html", Blank}: Plainness(t) \in 1 .. 3
  BY <1>1
<1>3. ASSUME NEW t \in {"plain", "html", Blank}, NEW u \in {"plain", "html", Blank}, Plainness(t) = Plainness(u) PROVE t = u
  <2>1. CASE t = "plain"
    BY <1>1, <1>3, <2>1
  <2>2. CASE t = "html"
    BY <1>1, <1>3, <2>2
  <2>3. CASE t = Blank
    BY <1>1, <1>3, <2>3
  <2> QED
    BY <2>1, <2>2, <2>3
<1> QED
  BY <1>1, <1>2, <1>3

\* The places of a sequence.
LEMMA Places ==
  ASSUME NEW S, NEW s \in Seq(S)
  PROVE  DOMAIN s = 1 .. Len(s) /\ Len(s) \in Nat
OBVIOUS

\* The least of some places.
LEMMA FirstPlace ==
  ASSUME NEW n \in Nat, NEW T \in SUBSET (1 .. n), T # {}
  PROVE  \E i \in T: \A j \in T: i <= j
<1>1. T \in SUBSET Nat
  OBVIOUS
<1> QED
  BY <1>1, LeastNumber

\* The texts of a type, of which there are some, are read from the first.
LEMMA TextsOfType ==
  ASSUME NEW c \in Seq(Item), NEW t \in {"plain", "html", Blank},
         NEW i \in DOMAIN c, c[i].kind = "string", c[i].type = t,
         \A j \in DOMAIN c: c[j].kind = "string" /\ c[j].type = t => i <= j,
         \A j \in DOMAIN c: c[j].kind = "string" /\ c[j].type \in {"plain", "html", Blank} => Plainness(t) <= Plainness(c[j].type)
  PROVE  /\ OfType(c, t) # <<>> /\ Plainest(c) = {i}
         /\ FirstText(OfType(c, t)) = IF c[i].val = Blank THEN <<>> ELSE <<c[i]>>
<1>0. DOMAIN c = 1 .. Len(c) /\ Len(c) \in Nat
  BY Places
<1>1. \A u, v \in {"plain", "html", Blank}: Plainness(u) \in 1 .. 3 /\ (Plainness(u) = Plainness(v) => u = v)
  BY PlainnessIs
<1>2. OfType(c, t) # <<>> /\ Head(OfType(c, t)) = c[i]
  <2> DEFINE w == {j \in DOMAIN c : c[j].kind = "string" /\ c[j].type = t}
  <2>0. i \in 1 .. Len(c) /\ i \in w
    BY <1>0
  <2>1. ASSUME NEW k \in 1 .. i - 1 PROVE k \notin w
    <3>1. k \in DOMAIN c /\ ~(i <= k)
      BY <1>0, <2>0
    <3> QED
      BY <3>1
  <2>2. OfType(c, t) = Only(c, w)
    BY DEF OfType
  <2> HIDE DEF w
  <2> QED
    BY <2>0, <2>1, <2>2, OnlyHead
<1>3. ASSUME NEW k \in DOMAIN c PROVE k \in Plainest(c) <=> k = i
  <2>1. k \in Plainest(c) <=>
          /\ c[k].kind = "string" /\ c[k].type \in {"plain", "html", Blank}
          /\ \A j \in DOMAIN c: c[j].kind = "string" /\ c[j].type \in {"plain", "html", Blank} =>
               \/ Plainness(c[k].type) < Plainness(c[j].type)
               \/ Plainness(c[k].type) = Plainness(c[j].type) /\ k <= j
    BY DEF Plainest
  <2>2. CASE k \in Plainest(c)
    <3>1. c[k].kind = "string" /\ c[k].type \in {"plain", "html", Blank}
      BY <2>1, <2>2
    <3>2. Plainness(t) <= Plainness(c[k].type)
      BY <3>1
    <3>3. \/ Plainness(c[k].type) < Plainness(t)
          \/ Plainness(c[k].type) = Plainness(t) /\ k <= i
      BY <2>1, <2>2
    <3>4. c[k].type = t /\ k <= i
      BY <1>1, <3>1, <3>2, <3>3
    <3>5. i <= k
      BY <3>1, <3>4
    <3>6. k \in 1 .. Len(c) /\ i \in 1 .. Len(c)
      BY <1>0
    <3>7. k = i
      BY <3>4, <3>5, <3>6
    <3> QED
      BY <2>2, <3>7
  <2>3. CASE k = i
    <3>1. ASSUME NEW j \in DOMAIN c, c[j].kind = "string", c[j].type \in {"plain", "html", Blank}
          PROVE  Plainness(t) < Plainness(c[j].type) \/ (Plainness(t) = Plainness(c[j].type) /\ i <= j)
      <4>1. CASE c[j].type = t
        BY <3>1, <4>1
      <4>2. CASE c[j].type # t
        <5>1. Plainness(t) <= Plainness(c[j].type)
          BY <3>1
        <5>2. Plainness(t) \in 1 .. 3 /\ Plainness(c[j].type) \in 1 .. 3 /\ Plainness(t) # Plainness(c[j].type)
          BY <1>1, <3>1, <4>2
        <5> QED
          BY <5>1, <5>2
      <4> QED
        BY <4>1, <4>2
    <3> QED
      BY <2>1, <2>3, <3>1
  <2> QED
    BY <2>2, <2>3
<1>4. Plainest(c) \subseteq DOMAIN c
  BY DEF Plainest
<1>5. Plainest(c) = {i}
  BY <1>3, <1>4
<1> QED
  BY <1>2, <1>5 DEF FirstText

LEMMA NoTextsOfType ==
  ASSUME NEW c \in Seq(Item), NEW t, \A j \in DOMAIN c: ~(c[j].kind = "string" /\ c[j].type = t)
  PROVE  OfType(c, t) = <<>>
<1> DEFINE w == {j \in DOMAIN c : c[j].kind = "string" /\ c[j].type = t}
<1>1. \A k \in 1 .. Len(c): k \notin w
  OBVIOUS
<1>2. OfType(c, t) = Only(c, w)
  BY DEF OfType
<1> HIDE DEF w
<1> QED
  BY <1>1, <1>2, OnlyNone

\* The data that are read are those that are wanted.
LEMMA ReadAsWanted ==
  ASSUME NEW c \in Seq(Item)
  PROVE  extractDataTransferItems(c) \in Seq(Item) /\ DataOf(extractDataTransferItems(c)) = Wanted(c)
<1> DEFINE pictures == {i \in DOMAIN c : IsImage(c[i])}
           Texts(t) == {j \in DOMAIN c : c[j].kind = "string" /\ c[j].type = t}
           picked == {i \in (IF pictures # {} THEN pictures ELSE Plainest(c)) : c[i].val # Blank}
<1>0. DOMAIN c = 1 .. Len(c) /\ Len(c) \in Nat
  BY Places
<1>1. Wanted(c) = DataOf(Only(c, picked))
  BY DEF Wanted
<1>2. Images(c) = Only(c, pictures)
  BY DEF Images
<1>3. CASE pictures # {}
  <2>1. PICK i \in pictures: \A j \in pictures: i <= j
    <3>1. pictures \in SUBSET (1 .. Len(c))
      BY <1>0
    <3> HIDE DEF pictures
    <3> QED
      BY <1>0, <1>3, <3>1, FirstPlace
  <2>2. i \in 1 .. Len(c) /\ \A k \in 1 .. i - 1: k \notin pictures
    BY <1>0, <2>1
  <2>3. Images(c) # <<>>
    <3> HIDE DEF pictures
    <3> QED
      BY <1>2, <2>1, <2>2, OnlyHead
  <2>4. \A k \in pictures: c[k].val # Blank
    <3>1. \A k \in DOMAIN c: c[k] \in Item
      BY ElementOfSeq
    <3> QED
      BY <3>1, ItemIs DEF IsImage
  <2>5. picked = pictures
    BY <1>3, <2>4
  <2>6. extractDataTransferItems(c) = Images(c)
    BY <2>3 DEF extractDataTransferItems
  <2> HIDE DEF pictures, picked
  <2> QED
    BY <1>1, <1>2, <2>5, <2>6, OnlyType
<1>4. CASE pictures = {}
  <2>1. Images(c) = <<>>
    <3> HIDE DEF pictures
    <3> QED
      BY <1>2, <1>4, OnlyNone
  <2>2. picked = {i \in Plainest(c) : c[i].val # Blank}
    BY <1>4
  <2>3. ASSUME NEW t \in {"plain", "html", Blank}, NEW i \in Texts(t), \A j \in Texts(t): i <= j,
               \A j \in DOMAIN c: c[j].kind = "string" /\ c[j].type \in {"plain", "html", Blank} => Plainness(t) <= Plainness(c[j].type),
               extractDataTransferItems(c) = FirstText(OfType(c, t))
        PROVE  extractDataTransferItems(c) \in Seq(Item) /\ DataOf(extractDataTransferItems(c)) = Wanted(c)
    <3>1. /\ i \in DOMAIN c /\ c[i].kind = "string" /\ c[i].type = t
          /\ \A j \in DOMAIN c: c[j].kind = "string" /\ c[j].type = t => i <= j
      BY <2>3
    <3>2. Plainest(c) = {i} /\ FirstText(OfType(c, t)) = IF c[i].val = Blank THEN <<>> ELSE <<c[i]>>
      <4> HIDE DEF Texts
      <4> QED
        BY <2>3, <3>1, TextsOfType
    <3>3. c[i] \in Item
      BY <1>0, <3>1, ElementOfSeq
    <3>6. DataOf(<<>>) = <<>> /\ <<>> \in Seq(Item)
      BY DEF DataOf
    <3>4. CASE c[i].val = Blank
      <4>1. \A k \in 1 .. Len(c): k \notin picked
        BY <2>2, <3>2, <3>4
      <4> HIDE DEF picked
      <4>2. Only(c, picked) = <<>>
        BY <4>1, OnlyNone
      <4>3. extractDataTransferItems(c) = <<>>
        BY <2>3, <3>2, <3>4
      <4> QED
        BY <1>1, <3>6, <4>2, <4>3
    <3>5. CASE c[i].val # Blank
      <4>1. picked = {i}
        BY <2>2, <3>2, <3>5
      <4>2. i \in 1 .. Len(c) /\ i \in picked /\ (\A k \in 1 .. i - 1: k \notin picked) /\ (\A k \in i + 1 .. Len(c): k \notin picked)
        <5>1. i \in 1 .. Len(c)
          BY <1>0, <3>1
        <5>2. \A k \in 1 .. i - 1: k # i
          BY <5>1
        <5>3. \A k \in i + 1 .. Len(c): k # i
          BY <5>1
        <5> HIDE DEF picked
        <5> QED
          BY <4>1, <5>1, <5>2, <5>3
      <4> HIDE DEF picked
      <4>3. Only(c, picked) = <<c[i]>>
        BY <4>2, OnlyHead
      <4>4. extractDataTransferItems(c) = <<c[i]>>
        BY <2>3, <3>2, <3>5
      <4>5. <<c[i]>> \in Seq(Item)
        BY <3>3
      <4> QED
        BY <1>1, <4>3, <4>4, <4>5
    <3> QED
      BY <3>4, <3>5
  <2>4. \A t \in {"plain", "html", Blank}: Texts(t) # {} => OfType(c, t) # <<>> /\ \E i \in Texts(t): \A j \in Texts(t): i <= j
    <3> SUFFICES ASSUME NEW t \in {"plain", "html", Blank}, Texts(t) # {}
                 PROVE  OfType(c, t) # <<>> /\ \E i \in Texts(t): \A j \in Texts(t): i <= j
      OBVIOUS
    <3> DEFINE w == Texts(t)
    <3>1. OfType(c, t) = Only(c, w) /\ w \in SUBSET (1 .. Len(c)) /\ w # {}
      BY <1>0 DEF OfType
    <3> HIDE DEF w
    <3>2. PICK i \in w: \A j \in w: i <= j
      BY <1>0, <3>1, FirstPlace
    <3>3. i \in 1 .. Len(c) /\ \A k \in 1 .. i - 1: k \notin w
      <4>1. i \in 1 .. Len(c)
        BY <3>1
      <4>2. ASSUME NEW k \in 1 .. i - 1 PROVE k \notin w
        <5>1. ~(i <= k)
          BY <4>1
        <5> QED
          BY <3>2, <5>1
      <4> QED
        BY <4>1, <4>2
    <3>4. OfType(c, t) # <<>>
      BY <3>1, <3>2, <3>3, OnlyHead
    <3> QED
      BY <3>2, <3>4 DEF w
  <2>5. \A t \in {"plain", "html", Blank}: Texts(t) = {} => OfType(c, t) = <<>>
    BY NoTextsOfType
  <2>6. Plainness("plain") = 1 /\ Plainness("html") = 2 /\ Plainness(Blank) = 3
    BY PlainnessIs
  <2>7. ASSUME NEW t \in {"plain", "html", Blank}, Texts(t) # {},
               t # "plain" => Texts("plain") = {}, t = Blank => Texts("html") = {}
        PROVE  extractDataTransferItems(c) \in Seq(Item) /\ DataOf(extractDataTransferItems(c)) = Wanted(c)
    <3>1. extractDataTransferItems(c) = FirstText(OfType(c, t))
      <4> HIDE DEF Texts
      <4> QED
        BY <2>1, <2>4, <2>5, <2>7 DEF extractDataTransferItems
    <3>2. PICK i \in Texts(t): \A j \in Texts(t): i <= j
      BY <2>4, <2>7
    <3>3. ASSUME NEW j \in DOMAIN c, c[j].kind = "string", c[j].type \in {"plain", "html", Blank} PROVE Plainness(t) <= Plainness(c[j].type)
      <4>1. j \in Texts(c[j].type)
        BY <3>3
      <4>2. t # "plain" => c[j].type # "plain"
        BY <2>7, <4>1
      <4>3. t = Blank => c[j].type # "html"
        BY <2>7, <4>1
      <4>4. Plainness(c[j].type) \in 1 .. 3 /\ Plainness(t) \in 1 .. 3
        BY <3>3, PlainnessIs
      <4>5. CASE t = "plain"
        BY <2>6, <4>4, <4>5
      <4>6. CASE t = "html"
        <5>1. c[j].type \in {"html", Blank}
          BY <3>3, <4>2, <4>6
        <5> QED
          BY <2>6, <4>6, <5>1
      <4>7. CASE t = Blank
        <5>1. c[j].type = Blank
          BY <3>3, <4>2, <4>3, <4>7
        <5> QED
          BY <4>7, <4>4, <5>1
      <4> QED
        BY <4>5, <4>6, <4>7
    <3> QED
      BY <2>3, <3>1, <3>2, <3>3
  <2>8. CASE \A t \in {"plain", "html", Blank}: Texts(t) = {}
    <3>1. extractDataTransferItems(c) = <<>>
      <4> HIDE DEF Texts
      <4> QED
        BY <2>1, <2>5, <2>8 DEF extractDataTransferItems
    <3>2. Plainest(c) = {}
      <4>1. ASSUME NEW k \in Plainest(c) PROVE FALSE
        <5>1. k \in DOMAIN c /\ c[k].kind = "string" /\ c[k].type \in {"plain", "html", Blank}
          BY DEF Plainest
        <5>2. k \in Texts(c[k].type)
          BY <5>1
        <5> QED
          BY <2>8, <5>1, <5>2
      <4> QED
        BY <4>1
    <3>3. \A k \in 1 .. Len(c): k \notin picked
      BY <2>2, <3>2
    <3> HIDE DEF picked
    <3>4. Only(c, picked) = <<>>
      BY <3>3, OnlyNone
    <3> QED
      BY <1>1, <3>1, <3>4
  <2>9. CASE Texts("plain") # {}
    BY <2>7, <2>9, BlankIs
  <2>10. CASE Texts("plain") = {} /\ Texts("html") # {}
    BY <2>7, <2>10, BlankIs
  <2>11. CASE Texts("plain") = {} /\ Texts("html") = {} /\ Texts(Blank) # {}
    BY <2>7, <2>11
  <2> HIDE DEF Texts
  <2> QED
    BY <2>8, <2>9, <2>10, <2>11
<1> QED
  BY <1>3, <1>4

\* Of one image at most, both interfaces read the same.
LEMMA ReadAlike ==
  ASSUME NEW c \in Seq(Item)
  PROVE  Len(Images(c)) > 1 \/ extractClipboardData(c) = extractDataTransferItems(c)
<1> DEFINE Of(t) == Only(c, {i \in DOMAIN c : c[i].type = t})
<1>0. extractClipboardData(c) =
        IF Of("image") # <<>> THEN <<Head(Of("image"))>>
        ELSE IF Of("plain") # <<>> THEN FirstText(Of("plain"))
        ELSE IF Of("html") # <<>> THEN FirstText(Of("html"))
        ELSE IF Of(Blank) # <<>> THEN FirstText(Of(Blank)) ELSE <<>>
  BY DEF extractClipboardData
<1>1. \A i \in DOMAIN c: c[i] \in Item
  BY ElementOfSeq
<1>2. Of("image") = Images(c)
  <2>1. {i \in DOMAIN c : c[i].type = "image"} = {i \in DOMAIN c : IsImage(c[i])}
    BY <1>1, ItemIs DEF IsImage
  <2> QED
    BY <2>1 DEF Images
<1>3. ASSUME NEW t \in {"plain", "html", Blank} PROVE Of(t) = OfType(c, t)
  <2>1. {i \in DOMAIN c : c[i].type = t} = {i \in DOMAIN c : c[i].kind = "string" /\ c[i].type = t}
    BY <1>1, ItemIs, BlankIs
  <2> QED
    BY <2>1 DEF OfType
<1>4. Images(c) \in Seq(Item)
  BY OnlyType DEF Images
<1> HIDE DEF Of
<1>5. CASE Images(c) # <<>>
  <2>1. extractClipboardData(c) = <<Head(Images(c))>> /\ extractDataTransferItems(c) = Images(c)
    BY <1>0, <1>2, <1>5 DEF extractDataTransferItems
  <2>2. Len(Images(c)) \in Nat /\ Len(Images(c)) # 0
    BY <1>4, <1>5, EmptySeq
  <2>3. Len(Images(c)) = 1 => Images(c) = <<Head(Images(c))>>
    BY <1>4
  <2>4. Len(Images(c)) > 1 \/ Len(Images(c)) = 1
    <3> DEFINE n == Len(Images(c))
    <3>1. n \in Nat /\ n # 0
      BY <2>2
    <3> HIDE DEF n
    <3>2. n > 1 \/ n = 1
      BY <3>1
    <3> QED
      BY <3>2 DEF n
  <2> QED
    BY <2>1, <2>3, <2>4, Zenon
<1>6. CASE Images(c) = <<>>
  <2>1. Of("plain") = OfType(c, "plain") /\ Of("html") = OfType(c, "html") /\ Of(Blank) = OfType(c, Blank)
    BY <1>3
  <2>2. extractClipboardData(c) =
          IF OfType(c, "plain") # <<>> THEN FirstText(OfType(c, "plain"))
          ELSE IF OfType(c, "html") # <<>> THEN FirstText(OfType(c, "html"))
          ELSE IF OfType(c, Blank) # <<>> THEN FirstText(OfType(c, Blank)) ELSE <<>>
    BY <1>0, <1>2, <1>6, <2>1
  <2>3. extractDataTransferItems(c) =
          IF OfType(c, "plain") # <<>> THEN FirstText(OfType(c, "plain"))
          ELSE IF OfType(c, "html") # <<>> THEN FirstText(OfType(c, "html"))
          ELSE IF OfType(c, Blank) # <<>> THEN FirstText(OfType(c, Blank)) ELSE <<>>
    BY <1>6 DEF extractDataTransferItems
  <2> QED
    BY <2>2, <2>3
<1> QED
  BY <1>5, <1>6

-----------------------------------------------------------------------------
(* TermClip: reading the buffer *)

\* f[k] are the first k sequences of T, one after the other.
Flattened(T, f) == f = [i \in 1 .. Len(T) |-> IF i = 1 THEN T[i] ELSE f[i - 1] \o T[i]]
Flattens(T, f) ==
  /\ FlattenSeq(T) = f[Len(T)]
  /\ f[1] = T[1] /\ \A k \in 2 .. Len(T): f[k] = f[k - 1] \o T[k]
LEMMA FlattenIs ==
  ASSUME NEW S, NEW T \in Seq(Seq(S)), Len(T) > 0
  PROVE  \E f: Flattens(T, f)
<1> DEFINE V == Seq(S)
           n == Len(T)
           c == <<>>
           G == [k \in Nat |-> [v \in V |-> IF k \in 1 .. n THEN v \o T[k] ELSE v]]
<1>1. n \in Nat /\ c \in V /\ n > 0
  OBVIOUS
<1>2. G \in [Nat -> [V -> V]]
  <2>1. ASSUME NEW k \in Nat, NEW v \in V PROVE (IF k \in 1 .. n THEN v \o T[k] ELSE v) \in V
    <3>1. CASE k \in 1 .. n
      <4>1. T[k] \in V
        BY <3>1, ElementOfSeq
      <4> QED
        BY <3>1, <4>1, ConcatProperties
    <3> QED
      BY <3>1
  <2> QED
    BY <2>1
<1>3. Iterates(V, c, G, n)
  <2> HIDE DEF V, c, G, n
  <2> QED
    BY <1>1, <1>2, GivenByTheOneBefore
<1>4. PICK g \in [0 .. n -> V]: g[0] = c /\ \A k \in 1 .. n: g[k] = G[k][g[k - 1]]
  BY <1>3 DEF Iterates
<1>5. \A k \in 1 .. n: g[k] = g[k - 1] \o T[k]
  <2>1. ASSUME NEW k \in 1 .. n PROVE g[k] = g[k - 1] \o T[k]
    <3>1. k \in Nat /\ k - 1 \in 0 .. n
      BY <1>1
    <3>2. g[k - 1] \in V
      BY <3>1
    <3>3. g[k] = G[k][g[k - 1]]
      BY <1>4
    <3> HIDE DEF V
    <3> QED
      BY <3>1, <3>2, <3>3
  <2> QED
    BY <2>1
<1>6. g[1] = T[1]
  <2>1. 1 \in 1 .. n /\ 1 - 1 = 0
    BY <1>1
  <2>2. T[1] \in Seq(S)
    BY <2>1, ElementOfSeq
  <2>3. g[1] = g[1 - 1] \o T[1]
    BY <1>5, <2>1
  <2>4. g[1] = <<>> \o T[1]
    BY <1>4, <2>1, <2>3
  <2> QED
    BY <2>2, <2>4
<1>7. PICK h: h = [i \in 1 .. n |-> g[i]]
  OBVIOUS
<1>8. Flattened(T, h)
  <2>1. ASSUME NEW i \in 1 .. n PROVE h[i] = IF i = 1 THEN T[i] ELSE h[i - 1] \o T[i]
    <3>1. i # 1 => i - 1 \in 1 .. n
      BY <1>1
    <3> QED
      BY <1>5, <1>6, <1>7, <3>1
  <2>2. h = [i \in 1 .. n |-> h[i]]
    BY <1>7
  <2> QED
    BY <2>1, <2>2 DEF Flattened
<1>9. PICK f: f = CHOOSE h2: Flattened(T, h2)
  OBVIOUS
<1>10. Flattened(T, f)
  BY <1>8, <1>9
<1>11. FlattenSeq(T) = f[n]
  <2>1. Len(T) # 0
    BY <1>1
  <2> QED
    BY <1>9, <2>1, Zenon DEF FlattenSeq, Flattened
<1>12. f[1] = T[1] /\ \A k \in 2 .. n: f[k] = f[k - 1] \o T[k]
  <2>1. 1 \in 1 .. n /\ \A k \in 2 .. n: k \in 1 .. n /\ k # 1
    BY <1>1
  <2> QED
    BY <1>10, <2>1 DEF Flattened
<1>13. Flattens(T, f)
  BY <1>11, <1>12 DEF Flattens
<1> QED
  BY <1>13

\* One sequence is its own concatenation.
LEMMA FlattenOne ==
  ASSUME NEW S, NEW T \in Seq(Seq(S)), Len(T) = 1
  PROVE  FlattenSeq(T) = T[1]
<1>0. Len(T) > 0
  OBVIOUS
<1>1. PICK f: Flattens(T, f)
  BY <1>0, FlattenIs
<1> QED
  BY <1>1 DEF Flattens

\* One more sequence is appended.
LEMMA FlattenAppend ==
  ASSUME NEW S, NEW T \in Seq(Seq(S)), NEW U \in Seq(Seq(S)), Len(T) > 0, Len(U) = Len(T) + 1,
         \A k \in 1 .. Len(T): U[k] = T[k]
  PROVE  FlattenSeq(U) = FlattenSeq(T) \o U[Len(U)]
<1>0. Len(T) \in Nat
  OBVIOUS
<1>1. PICK f: Flattens(T, f)
  BY FlattenIs
<1>2. PICK g: Flattens(U, g)
  <2>1. Len(U) \in Nat /\ Len(U) > 0
    BY <1>0
  <2> QED
    BY <2>1, FlattenIs
<1> DEFINE Q == {k \in Nat: k + 1 <= Len(T) => f[k + 1] = g[k + 1]}
<1>3. 0 \in Q
  <2>1. 1 \in 1 .. Len(T)
    BY <1>0
  <2>2. f[1] = T[1] /\ g[1] = U[1]
    BY <1>1, <1>2 DEF Flattens
  <2>3. 0 \in Nat /\ 0 + 1 = 1
    OBVIOUS
  <2> QED
    BY <2>1, <2>2, <2>3
<1>4. ASSUME NEW k \in Q PROVE k + 1 \in Q
  <2>1. ASSUME k + 1 + 1 <= Len(T) PROVE f[k + 1 + 1] = g[k + 1 + 1]
    <3> DEFINE i == k + 1 + 1
    <3>1. i \in 2 .. Len(T) /\ i \in 2 .. Len(U) /\ i \in 1 .. Len(T) /\ i - 1 = k + 1 /\ f[k + 1] = g[k + 1]
      BY <1>0, <2>1
    <3> HIDE DEF i
    <3>2. f[i] = f[i - 1] \o T[i] /\ g[i] = g[i - 1] \o U[i] /\ U[i] = T[i]
      BY <1>1, <1>2, <3>1 DEF Flattens
    <3>3. f[i] = g[i]
      BY <3>1, <3>2
    <3> QED
      BY <3>3 DEF i
  <2>2. k + 1 \in Nat
    OBVIOUS
  <2> QED
    BY <2>1, <2>2
<1>5. Q = Nat
  <2> HIDE DEF Q
  <2> QED
    BY <1>3, <1>4, InductionBySet DEF Q
<1>6. f[Len(T)] = g[Len(T)]
  <2>1. Len(T) - 1 \in Nat /\ (Len(T) - 1) + 1 = Len(T)
    BY <1>0
  <2>2. Len(T) - 1 \in Q
    BY <1>5, <2>1
  <2> QED
    BY <1>0, <2>1, <2>2
<1>7. Len(U) \in 2 .. Len(U) /\ Len(U) - 1 = Len(T)
  BY <1>0
<1>8. g[Len(U)] = g[Len(T)] \o U[Len(U)]
  BY <1>2, <1>7 DEF Flattens
<1> QED
  BY <1>1, <1>2, <1>6, <1>8 DEF Flattens

\* The texts of one row, and of one more.
LEMMA RowsTextIs ==
  ASSUME NEW b \in Seq(BufferRow), NEW i \in 1 .. Len(b), NEW j \in i .. Len(b)
  PROVE  /\ RowsText(b, i, i) = b[i].text
         /\ j + 1 <= Len(b) => RowsText(b, i, j + 1) = RowsText(b, i, j) \o b[j + 1].text
<1> DEFINE V == Seq(STRING)
           R(m) == [k \in 1 .. (m - i + 1) |-> b[i + k - 1].text]
<1>0. Len(b) \in Nat /\ i \in Nat /\ j \in Nat /\ i <= j /\ i >= 1 /\ i <= Len(b) /\ j <= Len(b)
  OBVIOUS
<1>1. ASSUME NEW m \in i .. Len(b)
      PROVE  R(m) \in Seq(V) /\ Len(R(m)) = m - i + 1 /\ \A k \in 1 .. m - i + 1: R(m)[k] = b[i + k - 1].text
  <2>1. m - i + 1 \in Nat
    BY <1>0
  <2>2. \A k \in 1 .. (m - i + 1): b[i + k - 1].text \in V
    <3>1. ASSUME NEW k \in 1 .. (m - i + 1) PROVE b[i + k - 1].text \in V
      <4>1. i + k - 1 \in 1 .. Len(b)
        BY <1>0
      <4>2. b[i + k - 1] \in BufferRow
        BY <4>1, ElementOfSeq
      <4> QED
        BY <4>2 DEF BufferRow
    <3> QED
      BY <3>1
  <2> DEFINE n == m - i + 1
  <2>3. R(m) \in [1 .. n -> V]
    BY <2>2
  <2> HIDE DEF V, R
  <2>4. R(m) \in Seq(V) /\ Len(R(m)) = n
    BY <2>1, <2>3
  <2> QED
    BY <2>4 DEF R
<1>2. RowsText(b, i, i) = b[i].text
  <2>1. R(i) \in Seq(V) /\ Len(R(i)) = 1 /\ R(i)[1] = b[i].text
    <3>1. i \in i .. Len(b) /\ i - i + 1 = 1 /\ 1 \in 1 .. i - i + 1 /\ i + 1 - 1 = i
      BY <1>0
    <3> HIDE DEF R
    <3> QED
      BY <1>1, <3>1
  <2>2. RowsText(b, i, i) = FlattenSeq(R(i))
    BY DEF RowsText
  <2> HIDE DEF R
  <2> QED
    BY <2>1, <2>2, FlattenOne
<1>3. ASSUME j + 1 <= Len(b) PROVE RowsText(b, i, j + 1) = RowsText(b, i, j) \o b[j + 1].text
  <2>1. j \in i .. Len(b) /\ j + 1 \in i .. Len(b)
    BY <1>0, <1>3
  <2>2. RowsText(b, i, j) = FlattenSeq(R(j)) /\ RowsText(b, i, j + 1) = FlattenSeq(R(j + 1))
    BY DEF RowsText
  <2> HIDE DEF R
  <2>3. /\ R(j) \in Seq(V) /\ Len(R(j)) = j - i + 1 /\ \A k \in 1 .. j - i + 1: R(j)[k] = b[i + k - 1].text
        /\ R(j + 1) \in Seq(V) /\ Len(R(j + 1)) = j + 1 - i + 1 /\ \A k \in 1 .. j + 1 - i + 1: R(j + 1)[k] = b[i + k - 1].text
    <3>1. R(j) \in Seq(V) /\ Len(R(j)) = j - i + 1 /\ \A k \in 1 .. j - i + 1: R(j)[k] = b[i + k - 1].text
      BY <1>1, <2>1, Zenon
    <3>2. R(j + 1) \in Seq(V) /\ Len(R(j + 1)) = j + 1 - i + 1 /\ \A k \in 1 .. j + 1 - i + 1: R(j + 1)[k] = b[i + k - 1].text
      <4>1. PICK m: m = j + 1
        OBVIOUS
      <4>2. m \in i .. Len(b)
        BY <2>1, <4>1
      <4>3. R(m) \in Seq(V) /\ Len(R(m)) = m - i + 1 /\ \A k \in 1 .. m - i + 1: R(m)[k] = b[i + k - 1].text
        BY <1>1, <4>2, Zenon
      <4> QED
        BY <4>1, <4>3
    <3> QED
      BY <3>1, <3>2, Zenon
  <2>4. Len(R(j)) > 0 /\ Len(R(j + 1)) = Len(R(j)) + 1
    BY <1>0, <2>3
  <2>5. \A k \in 1 .. Len(R(j)): R(j + 1)[k] = R(j)[k]
    <3>1. \A k \in 1 .. j - i + 1: k \in 1 .. j + 1 - i + 1
      BY <1>0
    <3> QED
      BY <2>3, <3>1
  <2>6. R(j + 1)[Len(R(j + 1))] = b[j + 1].text
    <3>1. j + 1 - i + 1 \in 1 .. j + 1 - i + 1 /\ i + (j + 1 - i + 1) - 1 = j + 1
      BY <1>0
    <3> QED
      BY <2>3, <3>1
  <2> HIDE DEF V
  <2>7. FlattenSeq(R(j + 1)) = FlattenSeq(R(j)) \o R(j + 1)[Len(R(j + 1))]
    <3>1. PICK t, u: t = R(j) /\ u = R(j + 1)
      OBVIOUS
    <3>2. t \in Seq(Seq(STRING)) /\ u \in Seq(Seq(STRING)) /\ Len(t) > 0 /\ Len(u) = Len(t) + 1 /\ \A k \in 1 .. Len(t): u[k] = t[k]
      BY <2>3, <2>4, <2>5, <3>1 DEF V
    <3>3. FlattenSeq(u) = FlattenSeq(t) \o u[Len(u)]
      BY <3>2, FlattenAppend
    <3> QED
      BY <3>1, <3>3
  <2> QED
    BY <2>2, <2>6, <2>7
<1> QED
  BY <1>2, <1>3

Lines == Seq(Seq(STRING))
LEMMA JoinedIs ==
  ASSUME NEW ls \in Lines, NEW row \in BufferRow
  PROVE  /\ Joined(ls, row) \in Lines
         /\ row.wraps /\ ls # <<>> =>
              /\ Len(Joined(ls, row)) = Len(ls) /\ Joined(ls, row)[Len(ls)] = ls[Len(ls)] \o row.text
              /\ \A k \in 1 .. Len(ls) - 1: Joined(ls, row)[k] = ls[k]
         /\ ~(row.wraps /\ ls # <<>>) =>
              /\ Len(Joined(ls, row)) = Len(ls) + 1 /\ Joined(ls, row)[Len(ls) + 1] = row.text
              /\ \A k \in 1 .. Len(ls): Joined(ls, row)[k] = ls[k]
<1> DEFINE V == Seq(STRING)
<1>0. row.text \in V /\ Len(ls) \in Nat /\ ls \in Seq(V)
  BY DEF BufferRow, Lines
<1>1. CASE row.wraps /\ ls # <<>>
  <2> DEFINE n == Len(ls)
             e == ls[n] \o row.text
             t == [ls EXCEPT ![n] = e]
  <2>1. Joined(ls, row) = t
    BY <1>1 DEF Joined
  <2>2. n \in 1 .. Len(ls)
    <3>1. Len(ls) # 0
      BY <1>0, <1>1, EmptySeq
    <3> QED
      BY <1>0, <3>1
  <2>3. ls[n] \in V
    BY <1>0, <2>2, ElementOfSeq
  <2>4. e \in V
    BY <1>0, <2>3, ConcatProperties
  <2> HIDE DEF e, V
  <2>5. t \in Seq(V) /\ Len(t) = Len(ls) /\ t[n] = e /\ \A k \in 1 .. n - 1: t[k] = ls[k]
    BY <1>0, <2>2, <2>4
  <2> QED
    BY <1>1, <2>1, <2>5 DEF e, V, Lines
<1>2. CASE ~(row.wraps /\ ls # <<>>)
  <2>1. Joined(ls, row) = Append(ls, row.text)
    BY <1>2 DEF Joined
  <2> HIDE DEF V
  <2>2. Append(ls, row.text) \in Seq(V) /\ Len(Append(ls, row.text)) = Len(ls) + 1 /\ Append(ls, row.text)[Len(ls) + 1] = row.text
        /\ \A k \in 1 .. Len(ls): Append(ls, row.text)[k] = ls[k]
    BY <1>0, Appended
  <2> QED
    BY <1>2, <2>1, <2>2 DEF V, Lines
<1> QED
  BY <1>1, <1>2

\* f[n] are the lines of the first n rows after from.
Lined(b, from, n, f) == f = [k \in 0 .. n |-> IF k = 0 THEN <<>> ELSE Joined(f[k - 1], b[from + k])]
Builds(b, from, n, f) ==
  /\ f \in [0 .. n -> Lines] /\ f[0] = <<>> /\ \A k \in 1 .. n: f[k] = Joined(f[k - 1], b[from + k])
LEMMA WithinRows ==
  ASSUME NEW a \in Nat, NEW n \in Nat, NEW r \in Nat, a + r <= n, NEW k \in 1 .. r
  PROVE  a + k \in 1 .. n
OBVIOUS
LEMMA LinesAre ==
  ASSUME NEW b \in Seq(BufferRow), NEW x \in Int, NEW y \in Int,
         NEW from, NEW to, NEW rows, from = Clamped(x, b), to = Clamped(y, b), rows = IF to > from THEN to - from ELSE 0
  PROVE  \E f: /\ Builds(b, from, rows, f)
               /\ bufferLinesToText(b, x, y) = IF to >= Len(b) THEN WithoutBlankEnd(f[rows]) ELSE f[rows]
<1> DEFINE V == Lines
           c == <<>>
           G == [k \in Nat |-> [v \in V |-> IF k \in 1 .. rows THEN Joined(v, b[from + k]) ELSE v]]
<1>1. from \in 0 .. Len(b) /\ to \in 0 .. Len(b) /\ rows \in Nat /\ from + rows <= Len(b) /\ c \in V
  <2>1. Len(b) \in Nat
    OBVIOUS
  <2>2. from \in 0 .. Len(b) /\ to \in 0 .. Len(b)
    BY <2>1 DEF Clamped
  <2> QED
    BY <2>1, <2>2 DEF Lines
<1>2. \A k \in 1 .. rows: b[from + k] \in BufferRow
  <2>1. ASSUME NEW k \in 1 .. rows PROVE from + k \in 1 .. Len(b)
    <3>1. Len(b) \in Nat /\ from \in Nat /\ rows \in Nat /\ from + rows <= Len(b)
      BY <1>1
    <3> QED
      BY <3>1, WithinRows
  <2> QED
    BY <2>1, ElementOfSeq
<1>3. G \in [Nat -> [V -> V]]
  <2>1. ASSUME NEW k \in Nat, NEW v \in V PROVE (IF k \in 1 .. rows THEN Joined(v, b[from + k]) ELSE v) \in V
    BY <1>2, JoinedIs
  <2> QED
    BY <2>1
<1>4. Iterates(V, c, G, rows)
  <2> HIDE DEF V, c, G
  <2> QED
    BY <1>1, <1>3, GivenByTheOneBefore
<1>5. PICK g \in [0 .. rows -> V]: g[0] = c /\ \A k \in 1 .. rows: g[k] = G[k][g[k - 1]]
  BY <1>4 DEF Iterates
<1>6. \A k \in 1 .. rows: g[k] = Joined(g[k - 1], b[from + k])
  <2>1. ASSUME NEW k \in 1 .. rows PROVE g[k] = Joined(g[k - 1], b[from + k])
    <3>1. k \in Nat /\ k - 1 \in 0 .. rows
      BY <1>1
    <3>2. g[k - 1] \in V
      BY <3>1
    <3>3. g[k] = G[k][g[k - 1]]
      BY <1>5
    <3> HIDE DEF V
    <3> QED
      BY <3>1, <3>2, <3>3
  <2> QED
    BY <2>1
<1>7. Lined(b, from, rows, g)
  <2>1. ASSUME NEW k \in 0 .. rows
        PROVE  g[k] = IF k = 0 THEN <<>> ELSE Joined(g[k - 1], b[from + k])
    <3>1. k # 0 => k \in 1 .. rows
      BY <1>1
    <3> QED
      BY <1>5, <1>6, <3>1
  <2>2. g = [k \in 0 .. rows |-> g[k]]
    OBVIOUS
  <2> QED
    BY <2>1, <2>2 DEF Lined
<1>8. PICK f: f = CHOOSE h: Lined(b, from, rows, h)
  OBVIOUS
<1>9. Lined(b, from, rows, f)
  BY <1>7, <1>8
<1>10. bufferLinesToText(b, x, y) = IF to >= Len(b) THEN WithoutBlankEnd(f[rows]) ELSE f[rows]
  <2> DEFINE R == IF Clamped(y, b) > Clamped(x, b) THEN Clamped(y, b) - Clamped(x, b) ELSE 0
             F == CHOOSE h: Lined(b, Clamped(x, b), R, h)
  <2>1. bufferLinesToText(b, x, y) = IF Clamped(y, b) >= Len(b) THEN WithoutBlankEnd(F[R]) ELSE F[R]
    BY Zenon DEF bufferLinesToText, Lined
  <2>2. rows = R
    BY Zenon
  <2>3. F = CHOOSE h: Lined(b, from, R, h)
    BY Zenon
  <2> HIDE DEF R
  <2>4. F = f
    BY <1>8, <2>2, <2>3, Zenon
  <2> HIDE DEF F
  <2> QED
    BY <2>1, <2>2, <2>4, Zenon
<1>11. /\ f = [k \in 0 .. rows |-> f[k]] /\ f[0] = <<>>
       /\ \A k \in 1 .. rows: f[k] = Joined(f[k - 1], b[from + k])
  <2>1. \A k \in 1 .. rows: k \in 0 .. rows /\ k # 0
    BY <1>1
  <2>2. 0 \in 0 .. rows
    BY <1>1
  <2> QED
    BY <1>9, <2>1, <2>2 DEF Lined
<1>12. \A k \in 0 .. rows: f[k] \in V
  <2> DEFINE Q == {k \in Nat: k <= rows => f[k] \in V}
  <2>1. 0 \in Q
    BY <1>1, <1>11
  <2>2. ASSUME NEW k \in Q PROVE k + 1 \in Q
    <3>1. ASSUME k + 1 <= rows PROVE f[k + 1] \in V
      <4>1. k \in Nat /\ k + 1 \in 1 .. rows /\ (k + 1) - 1 = k /\ f[k] \in V
        BY <1>1, <3>1
      <4>2. f[k + 1] = Joined(f[k], b[from + (k + 1)])
        BY <1>11, <4>1
      <4> QED
        BY <1>2, <4>1, <4>2, JoinedIs
    <3> QED
      BY <3>1
  <2>3. Q = Nat
    <3> HIDE DEF Q
    <3> QED
      BY <2>1, <2>2, InductionBySet DEF Q
  <2> QED
    BY <1>1, <2>3
<1>13. f \in [0 .. rows -> V]
  BY <1>11, <1>12
<1> QED
  BY <1>10, <1>11, <1>13 DEF Builds

\* ls are the lines that start at the rows st, the last of which ends with the row `last`.
LinesFrom(b, st, ls, last) ==
  /\ st \in Seq(Nat) /\ Len(st) > 0 /\ Len(ls) = Len(st) /\ st[Len(st)] \in 1 .. last
  /\ \A k \in 1 .. Len(st): ls[k] = RowsText(b, st[k], IF k = Len(st) THEN last ELSE st[k + 1] - 1)

\* A row continues the last line or begins another one.
LEMMA OneMoreRow ==
  ASSUME NEW b \in Seq(BufferRow), NEW last \in Nat, last + 1 <= Len(b), NEW st, NEW ls \in Lines, LinesFrom(b, st, ls, last)
  PROVE  /\ b[last + 1].wraps => LinesFrom(b, st, Joined(ls, b[last + 1]), last + 1)
         /\ ~b[last + 1].wraps => LinesFrom(b, Append(st, last + 1), Joined(ls, b[last + 1]), last + 1)
<1> DEFINE row == b[last + 1]
           js == Joined(ls, row)
           n == Len(st)
<1>1. last + 1 \in 1 .. Len(b) /\ row \in BufferRow
  <2>1. Len(b) \in Nat
    OBVIOUS
  <2>2. last + 1 \in 1 .. Len(b)
    BY <2>1
  <2> QED
    BY <2>2, ElementOfSeq
<1>2. st \in Seq(Nat) /\ n \in Nat /\ n > 0 /\ n \in 1 .. n /\ Len(ls) = n /\ st[n] \in 1 .. last
  BY DEF LinesFrom
<1>3. \A k \in 1 .. n: ls[k] = RowsText(b, st[k], IF k = n THEN last ELSE st[k + 1] - 1)
  BY DEF LinesFrom
<1>4. ls # <<>>
  BY <1>2
<1>5. js \in Lines
  BY <1>1, JoinedIs
<1>6. ASSUME row.wraps PROVE LinesFrom(b, st, js, last + 1)
  <2>1. Len(js) = n /\ js[n] = ls[n] \o row.text /\ \A k \in 1 .. n - 1: js[k] = ls[k]
    <3>1. /\ Len(js) = Len(ls) /\ js[Len(ls)] = ls[Len(ls)] \o row.text
          /\ \A k \in 1 .. Len(ls) - 1: js[k] = ls[k]
      BY <1>1, <1>4, <1>6, JoinedIs
    <3> HIDE DEF js, n
    <3> QED
      BY <1>2, <3>1
  <2>2. ASSUME NEW k \in 1 .. n PROVE js[k] = RowsText(b, st[k], IF k = n THEN last + 1 ELSE st[k + 1] - 1)
    <3>1. CASE k = n
      <4>1. st[n] \in 1 .. Len(b) /\ last \in st[n] .. Len(b)
        BY <1>1, <1>2
      <4>2. RowsText(b, st[n], last + 1) = RowsText(b, st[n], last) \o row.text
        BY <4>1, RowsTextIs
      <4>3. ls[n] = RowsText(b, st[n], last)
        BY <1>2, <1>3
      <4> QED
        BY <2>1, <3>1, <4>2, <4>3
    <3>2. CASE k # n
      <4>1. k \in 1 .. n - 1
        BY <1>2, <3>2
      <4>2. js[k] = ls[k]
        BY <2>1, <4>1
      <4>3. ls[k] = RowsText(b, st[k], st[k + 1] - 1)
        BY <1>3, <3>2
      <4> QED
        BY <3>2, <4>2, <4>3
    <3> QED
      BY <3>1, <3>2
  <2>3. st[n] \in 1 .. last + 1
    BY <1>2
  <2> HIDE DEF js
  <2> QED
    BY <1>2, <2>1, <2>2, <2>3 DEF LinesFrom
<1>7. ASSUME ~row.wraps PROVE LinesFrom(b, Append(st, last + 1), js, last + 1)
  <2> DEFINE sn == Append(st, last + 1)
  <2>1. Len(js) = n + 1 /\ js[n + 1] = row.text /\ \A k \in 1 .. n: js[k] = ls[k]
    <3>1. ~(row.wraps /\ ls # <<>>)
      BY <1>7
    <3>2. /\ Len(js) = Len(ls) + 1 /\ js[Len(ls) + 1] = row.text
          /\ \A k \in 1 .. Len(ls): js[k] = ls[k]
      BY <1>1, <3>1, JoinedIs
    <3> HIDE DEF js, n
    <3> QED
      BY <1>2, <3>2
  <2>2. sn \in Seq(Nat) /\ Len(sn) = n + 1 /\ sn[n + 1] = last + 1 /\ \A k \in 1 .. n: sn[k] = st[k]
    BY <1>2, Appended
  <2> HIDE DEF sn, js
  <2>3. ASSUME NEW k \in 1 .. n + 1 PROVE js[k] = RowsText(b, sn[k], IF k = n + 1 THEN last + 1 ELSE sn[k + 1] - 1)
    <3>1. CASE k = n + 1
      <4>1. last + 1 \in (last + 1) .. Len(b)
        BY <1>1
      <4>2. RowsText(b, last + 1, last + 1) = row.text
        BY <1>1, <4>1, RowsTextIs
      <4> QED
        BY <2>1, <2>2, <3>1, <4>2
    <3>2. CASE k = n
      <4>1. k \in 1 .. n /\ k # n + 1 /\ js[k] = ls[k] /\ sn[k] = st[k]
        BY <1>2, <2>1, <2>2, <3>2
      <4>2. sn[k + 1] - 1 = last
        BY <2>2, <3>2
      <4>3. ls[k] = RowsText(b, st[k], last)
        BY <1>3, <3>2, <4>1
      <4> QED
        BY <4>1, <4>2, <4>3
    <3>3. CASE k # n + 1 /\ k # n
      <4>1. k \in 1 .. n /\ k + 1 \in 1 .. n
        BY <1>2, <3>3
      <4>2. js[k] = ls[k] /\ sn[k] = st[k] /\ sn[k + 1] = st[k + 1]
        BY <2>1, <2>2, <4>1
      <4>3. ls[k] = RowsText(b, st[k], st[k + 1] - 1)
        BY <1>3, <3>3, <4>1
      <4> QED
        BY <3>3, <4>2, <4>3
    <3> QED
      BY <3>1, <3>2, <3>3
  <2>4. last + 1 \in 1 .. last + 1 /\ n + 1 > 0
    BY <1>2
  <2>5. LinesFrom(b, sn, js, last + 1)
    BY <2>1, <2>2, <2>3, <2>4 DEF LinesFrom
  <2> QED
    BY <2>5 DEF sn
<1> QED
  BY <1>6, <1>7

\* The rows at which a line starts.
StartPlaces(b, from, to) == {i \in from + 1..to : i = from + 1 \/ ~b[i].wraps}
LEMMA LinesAreWanted ==
  ASSUME NEW b \in Seq(BufferRow), NEW from \in Nat, NEW to \in Nat, from < to, to <= Len(b), NEW f, Builds(b, from, to - from, f)
  PROVE  LinesFrom(b, Only([i \in 1..to |-> i], StartPlaces(b, from, to)), f[to - from], to)
<1> DEFINE s == [i \in 1..to |-> i]
           W == StartPlaces(b, from, to)
           m == to - from
<1>0. m \in Nat /\ m >= 1 /\ Len(b) \in Nat /\ from + m = to
  OBVIOUS
<1>1. s \in Seq(Nat) /\ Len(s) = to /\ \A i \in 1 .. to: s[i] = i
  OBVIOUS
<1> HIDE DEF s
<1>2. PICK g: Picks(Nat, s, W, g)
  BY <1>1, OnlyIs
<1>3. \A k \in 1 .. to: g[k] = IF k \in W THEN Append(g[k - 1], k) ELSE g[k - 1]
  BY <1>1, <1>2 DEF Picks
<1>4. g[from] = <<>>
  <2>1. \A k \in 1 .. from: k \notin W
    BY DEF StartPlaces
  <2>2. from <= Len(s)
    BY <1>1
  <2> HIDE DEF W
  <2> QED
    BY <1>1, <1>2, <2>1, <2>2, PicksFirst
<1>5. f[0] = <<>> /\ \A k \in 1 .. m: f[k] = Joined(f[k - 1], b[from + k])
  BY DEF Builds
<1>6. \A k \in 0 .. m: f[k] \in Lines
  BY DEF Builds
<1>7. ASSUME NEW i \in from + 1 .. to PROVE i \in W <=> (i = from + 1 \/ ~b[i].wraps)
  BY DEF StartPlaces
<1> HIDE DEF W
<1> DEFINE Q == {k \in Nat: k + 1 <= m => LinesFrom(b, g[from + (k + 1)], f[k + 1], from + (k + 1))}
<1>8. 0 \in Q
  <2> DEFINE a == from + 1
  <2>1. a \in 1 .. to /\ a \in from + 1 .. to /\ a - 1 = from /\ a \in 1 .. Len(b) /\ a \in a .. Len(b)
    BY <1>0
  <2>2. g[a] = <<a>>
    <3>1. a \in W
      BY <1>7, <2>1
    <3>2. g[a] = Append(g[a - 1], a)
      BY <1>3, <2>1, <3>1
    <3>3. g[a] = Append(<<>>, a)
      BY <1>4, <2>1, <3>2
    <3> QED
      BY <3>3
  <2>3. b[a] \in BufferRow
    BY <2>1, ElementOfSeq
  <2>4. f[1] = Joined(<<>>, b[a])
    <3>1. 1 \in 1 .. m /\ 1 - 1 = 0
      BY <1>0
    <3> QED
      BY <1>5, <3>1
  <2>5. <<>> \in Lines /\ Len(<<>>) = 0
    BY DEF Lines
  <2>6. Joined(<<>>, b[a]) = <<b[a].text>>
    BY DEF Joined
  <2>7. RowsText(b, a, a) = b[a].text
    BY <2>1, RowsTextIs
  <2>8. LinesFrom(b, g[a], f[1], a)
    <3>1. <<a>> \in Seq(Nat) /\ Len(<<a>>) = 1 /\ <<a>>[1] = a /\ a \in 1 .. a
      BY <1>0
    <3>2. Len(f[1]) = 1 /\ f[1][1] = b[a].text
      BY <2>4, <2>6
    <3>3. \A k \in 1 .. 1: k = 1
      OBVIOUS
    <3> QED
      BY <2>2, <2>7, <3>1, <3>2, <3>3 DEF LinesFrom
  <2>9. 0 \in Nat /\ 0 + 1 = 1 /\ from + (0 + 1) = a
    OBVIOUS
  <2> QED
    BY <2>8, <2>9
<1>9. ASSUME NEW k \in Q PROVE k + 1 \in Q
  <2>1. ASSUME k + 1 + 1 <= m PROVE LinesFrom(b, g[from + (k + 1 + 1)], f[k + 1 + 1], from + (k + 1 + 1))
    <3> DEFINE l == from + (k + 1)
    <3>1. k \in Nat /\ l \in Nat /\ l + 1 <= Len(b) /\ from + (k + 1 + 1) = l + 1 /\ l + 1 \in 1 .. to
          /\ l + 1 \in from + 1 .. to /\ l + 1 # from + 1 /\ (l + 1) - 1 = l
      BY <1>0, <2>1
    <3>2. k + 1 <= m /\ k + 1 \in 0 .. m /\ k + 1 + 1 \in 1 .. m /\ (k + 1 + 1) - 1 = k + 1
      BY <1>0, <2>1
    <3>3. LinesFrom(b, g[l], f[k + 1], l) /\ f[k + 1] \in Lines
      BY <1>6, <3>2
    <3>4. f[k + 1 + 1] = Joined(f[k + 1], b[from + (k + 1 + 1)])
      BY <1>5, <3>2
    <3>5. f[k + 1 + 1] = Joined(f[k + 1], b[l + 1])
      BY <3>1, <3>4
    <3>6. g[l + 1] = IF l + 1 \in W THEN Append(g[l], l + 1) ELSE g[l]
      BY <1>3, <3>1
    <3>7. l + 1 \in W <=> ~b[l + 1].wraps
      BY <1>7, <3>1
    <3> HIDE DEF l
    <3>8. LinesFrom(b, g[l + 1], f[k + 1 + 1], l + 1)
      <4>1. /\ b[l + 1].wraps => LinesFrom(b, g[l], Joined(f[k + 1], b[l + 1]), l + 1)
            /\ ~b[l + 1].wraps => LinesFrom(b, Append(g[l], l + 1), Joined(f[k + 1], b[l + 1]), l + 1)
        BY <3>1, <3>3, OneMoreRow
      <4> QED
        BY <3>5, <3>6, <3>7, <4>1
    <3> QED
      BY <3>1, <3>8
  <2>2. k + 1 \in Nat
    OBVIOUS
  <2> QED
    BY <2>1, <2>2
<1>10. Q = Nat
  <2> HIDE DEF Q
  <2> QED
    BY <1>8, <1>9, InductionBySet DEF Q
<1>11. LinesFrom(b, g[to], f[m], to)
  <2>1. m - 1 \in Nat /\ (m - 1) + 1 = m
    BY <1>0
  <2>2. m - 1 \in Q
    BY <1>10, <2>1
  <2>3. LinesFrom(b, g[from + ((m - 1) + 1)], f[(m - 1) + 1], from + ((m - 1) + 1))
    BY <1>0, <2>1, <2>2
  <2> QED
    BY <1>0, <2>1, <2>3
<1>12. Only(s, W) = g[to]
  BY <1>1, <1>2 DEF Picks
<1> QED
  BY <1>11, <1>12 DEF s, W

\* The blank lines at the end are those after the last that is not.
LEMMA BlankEnd ==
  ASSUME NEW ls \in Lines
  PROVE  WithoutBlankEnd(ls) = SubSeq(ls, 1, Cardinality({n \in DOMAIN ls : \E k \in n..Len(ls) : ls[k] # <<>>}))
<1> DEFINE full == {i \in DOMAIN ls : ls[i] # <<>>}
           kept == {n \in DOMAIN ls : \E k \in n..Len(ls) : ls[k] # <<>>}
<1>0. DOMAIN ls = 1 .. Len(ls) /\ Len(ls) \in Nat
  BY Places DEF Lines
<1>1. WithoutBlankEnd(ls) = SubSeq(ls, 1, IF full = {} THEN 0 ELSE CHOOSE i \in full : \A j \in full : j <= i)
  BY DEF WithoutBlankEnd
<1>2. CASE full = {}
  <2>1. kept = {}
    <3>1. ASSUME NEW n \in kept PROVE FALSE
      <4>1. PICK k \in n .. Len(ls): ls[k] # <<>>
        OBVIOUS
      <4>2. n \in 1 .. Len(ls)
        BY <1>0
      <4>3. k \in DOMAIN ls
        BY <1>0, <4>2
      <4> QED
        BY <1>2, <4>1, <4>3
    <3> HIDE DEF kept
    <3> QED
      BY <3>1
  <2> HIDE DEF kept, full
  <2>2. Cardinality(kept) = 0
    BY <2>1, FS_EmptySet
  <2> QED
    BY <1>1, <1>2, <2>2 DEF kept
<1>3. CASE full # {}
  <2> DEFINE back == {Len(ls) - i: i \in full}
  <2>1. back \in SUBSET Nat /\ back # {}
    BY <1>0, <1>3
  <2>2. PICK x \in back: \A y \in back: x <= y
    <3> HIDE DEF back
    <3> QED
      BY <2>1, LeastNumber
  <2>3. PICK m \in full: x = Len(ls) - m
    OBVIOUS
  <2>4. m \in 1 .. Len(ls) /\ ls[m] # <<>>
    BY <1>0, <2>3
  <2>5. \A j \in full: j <= m
    <3>1. ASSUME NEW j \in full PROVE j <= m
      <4>1. Len(ls) - j \in back /\ j \in 1 .. Len(ls)
        BY <1>0
      <4>2. Len(ls) - m <= Len(ls) - j
        BY <2>2, <2>3, <4>1
      <4> QED
        BY <1>0, <2>4, <4>1, <4>2
    <3> QED
      BY <3>1
  <2>6. (CHOOSE i \in full : \A j \in full : j <= i) = m
    <3>1. PICK i: i = CHOOSE k \in full : \A j \in full : j <= k
      OBVIOUS
    <3>2. i \in full /\ \A j \in full: j <= i
      BY <2>3, <2>5, <3>1, Zenon
    <3>3. i <= m /\ m <= i
      BY <2>3, <2>5, <3>2, Zenon
    <3>4. i \in 1 .. Len(ls)
      BY <1>0, <3>2
    <3>5. i = m
      BY <1>0, <2>4, <3>3, <3>4
    <3> QED
      BY <3>1, <3>5
  <2>7. kept = 1 .. m
    <3>1. ASSUME NEW n \in kept PROVE n \in 1 .. m
      <4>1. PICK k \in n .. Len(ls): ls[k] # <<>>
        OBVIOUS
      <4>2. n \in 1 .. Len(ls)
        BY <1>0
      <4>3. k \in full
        BY <1>0, <4>1, <4>2
      <4>4. k <= m
        BY <2>5, <4>3
      <4> QED
        BY <1>0, <2>4, <4>2, <4>4
    <3>2. ASSUME NEW n \in 1 .. m PROVE n \in kept
      <4>1. n \in DOMAIN ls /\ m \in n .. Len(ls)
        BY <1>0, <2>4
      <4> QED
        BY <2>4, <4>1
    <3> HIDE DEF kept
    <3> QED
      BY <3>1, <3>2
  <2> HIDE DEF kept, full
  <2>8. Cardinality(kept) = m
    <3>1. m \in Nat /\ 1 \in Nat /\ m >= 1
      BY <1>0, <2>4
    <3> QED
      BY <2>7, <3>1, FS_Interval
  <2> QED
    BY <1>1, <1>3, <2>6, <2>8 DEF kept
<1> QED
  BY <1>2, <1>3

\* The buffer's text is what its rows say.
LEMMA TextIsWanted ==
  ASSUME NEW b \in Seq(BufferRow), NEW x \in Int, NEW y \in Int
  PROVE  bufferLinesToText(b, x, y) = WantedLines(b, Clamped(x, b), Clamped(y, b))
<1>1. PICK from, to: from = Clamped(x, b) /\ to = Clamped(y, b)
  OBVIOUS
<1>2. from \in Nat /\ to \in Nat /\ from <= Len(b) /\ to <= Len(b) /\ Len(b) \in Nat
  <2>1. Len(b) \in Nat
    OBVIOUS
  <2> QED
    BY <1>1, <2>1 DEF Clamped
<1> DEFINE rows == IF to > from THEN to - from ELSE 0
           starts == Only([i \in 1..to |-> i], {i \in from + 1..to : i = from + 1 \/ ~b[i].wraps})
           EndOf(n) == IF n = Len(starts) THEN to ELSE starts[n + 1] - 1
           lines == [n \in DOMAIN starts |-> RowsText(b, starts[n], EndOf(n))]
<1>3. PICK f: /\ Builds(b, from, rows, f)
              /\ bufferLinesToText(b, x, y) = IF to >= Len(b) THEN WithoutBlankEnd(f[rows]) ELSE f[rows]
  BY <1>1, LinesAre
<1>4. WantedLines(b, from, to) =
        IF to < Len(b) THEN lines
        ELSE SubSeq(lines, 1, Cardinality({n \in DOMAIN lines : \E k \in n..Len(lines) : lines[k] # <<>>}))
  BY DEF WantedLines
<1>5. f[rows] \in Lines
  <2>1. rows \in 0 .. rows
    BY <1>2
  <2> QED
    BY <1>3, <2>1 DEF Builds
<1>6. f[rows] = lines
  <2>1. CASE from < to
    <3>1. rows = to - from
      BY <1>2, <2>1
    <3>2. starts = Only([i \in 1..to |-> i], StartPlaces(b, from, to))
      BY DEF StartPlaces
    <3>3. LinesFrom(b, starts, f[rows], to)
      <4> HIDE DEF rows, starts
      <4> QED
        BY <1>2, <1>3, <2>1, <3>1, <3>2, LinesAreWanted
    <3> HIDE DEF starts, rows
    <3>4. starts \in Seq(Nat) /\ Len(f[rows]) = Len(starts)
          /\ \A k \in 1 .. Len(starts): f[rows][k] = RowsText(b, starts[k], EndOf(k))
      BY <3>3 DEF LinesFrom
    <3>5. DOMAIN starts = 1 .. Len(starts) /\ DOMAIN f[rows] = 1 .. Len(starts) /\ f[rows] = [k \in DOMAIN f[rows] |-> f[rows][k]]
      BY <1>5, <3>4, Places DEF Lines
    <3> HIDE DEF EndOf
    <3> QED
      BY <3>4, <3>5
  <2>2. CASE ~(from < to)
    <3>1. rows = 0 /\ f[0] = <<>>
      BY <1>2, <1>3, <2>2 DEF Builds
    <3>2. starts = <<>>
      <4> DEFINE s == [i \in 1..to |-> i]
                 W == {i \in from + 1..to : i = from + 1 \/ ~b[i].wraps}
      <4>1. s \in Seq(Nat)
        BY <1>2
      <4>2. W = {}
        BY <1>2, <2>2
      <4> HIDE DEF s, W
      <4>3. Only(s, W) = <<>>
        BY <4>1, <4>2, OnlyNone
      <4> QED
        BY <4>3 DEF s, W
    <3>3. lines = <<>>
      <4> HIDE DEF EndOf, starts
      <4> QED
        BY <3>2
    <3> QED
      BY <3>1, <3>3
  <2> QED
    BY <2>1, <2>2
<1>7. lines \in Lines
  BY <1>5, <1>6
<1> HIDE DEF lines, rows
<1>8. to < Len(b) <=> ~(to >= Len(b))
  BY <1>2
<1>9. WithoutBlankEnd(lines) = SubSeq(lines, 1, Cardinality({n \in DOMAIN lines : \E k \in n..Len(lines) : lines[k] # <<>>}))
  BY <1>7, BlankEnd
<1> QED
  BY <1>1, <1>3, <1>4, <1>6, <1>8, <1>9, Zenon

\* The page and the menu agree on the key that pastes.
LEMMA KeysAgree ==
  ASSUME NEW p \in Platforms, NEW c \in CtrlVSettings
  PROVE  p = "darwin" \/ (shouldHandleCtrlVPaste(p, c) <=> pasteAccelerator(p, c) = "Control+V")
<1>1. c = {} \/ c = {TRUE} \/ c = {FALSE}
  BY DEF CtrlVSettings
<1>2. p = "darwin" \/ p = "win32" \/ p = "linux"
  BY DEF Platforms
<1>3. c = {FALSE} => TRUE \notin c
  BY Zenon
<1>4. CASE c = {}
  BY <1>2, <1>4, BlankIs DEF shouldHandleCtrlVPaste, pasteAccelerator
<1>5. CASE c = {TRUE}
  <2>1. c # {} /\ TRUE \in c
    BY <1>5
  <2> QED
    BY <1>2, <2>1, BlankIs DEF shouldHandleCtrlVPaste, pasteAccelerator
<1>6. CASE c = {FALSE}
  <2>1. c # {} /\ TRUE \notin c
    BY <1>3, <1>6
  <2> QED
    BY <1>2, <2>1, BlankIs DEF shouldHandleCtrlVPaste, pasteAccelerator
<1> QED
  BY <1>1, <1>4, <1>5, <1>6

\* Whatever is read is right.
LEMMA ReadingIsRight ==
  ASSUME NEW r \in Readings
  PROVE  Agrees(r)
<1>1. CASE \E b \in Buffers, x \in -1..3, y \in -1..3: r = <<"rows", b, x, y>>
  <2>1. PICK b \in Buffers, x \in -1..3, y \in -1..3: r = <<"rows", b, x, y>>
    BY <1>1
  <2>2. r[1] = "rows" /\ r[2] = b /\ r[3] = x /\ r[4] = y
    BY <2>1
  <2>3. b \in Seq(BufferRow) /\ x \in Int /\ y \in Int
    BY ClipAssumption
  <2>4. bufferLinesToText(b, x, y) = WantedLines(b, Clamped(x, b), Clamped(y, b))
    BY <2>3, TextIsWanted
  <2> QED
    BY <2>2, <2>4 DEF Agrees
<1>2. CASE \E p \in Platforms, c \in CtrlVSettings: r = <<"keys", p, c>>
  <2>1. PICK p \in Platforms, c \in CtrlVSettings: r = <<"keys", p, c>>
    BY <1>2
  <2>2. r[1] = "keys" /\ r[2] = p /\ r[3] = c
    BY <2>1
  <2>3. p = "darwin" \/ (shouldHandleCtrlVPaste(p, c) <=> pasteAccelerator(p, c) = "Control+V")
    BY KeysAgree
  <2> QED
    BY <2>2, <2>3 DEF Agrees
<1>3. CASE \E c \in Clipboards: r = <<"items", c>>
  <2>1. PICK c \in Clipboards: r = <<"items", c>>
    BY <1>3
  <2>2. r[1] = "items" /\ r[2] = c
    BY <2>1
  <2>3. c \in Seq(Item)
    BY ClipAssumption
  <2>4. DataOf(extractDataTransferItems(c)) = Wanted(c) /\ (Len(Images(c)) > 1 \/ extractClipboardData(c) = extractDataTransferItems(c))
    BY <2>3, ReadAsWanted, ReadAlike
  <2> QED
    BY <2>2, <2>4 DEF Agrees
<1> QED
  BY <1>1, <1>2, <1>3 DEF Readings

-----------------------------------------------------------------------------
(* TermClip: what is left of a paste *)

\* What the shell got are values among the first m that are wanted, in their order: the k-th
\* is the h[k]-th of them.
Gets(got, want, m, h) ==
  /\ h \in [1 .. Len(got) -> 1 .. m]
  /\ \A k \in 1 .. Len(got): k <= h[k] /\ want[h[k]] = got[k]
  /\ \A k, l \in 1 .. Len(got): k < l => h[k] < h[l]
\* What is still to be pasted are the others.
Rest(todo, want, m) == Len(todo) = Len(want) - m /\ \A k \in 1 .. Len(todo): todo[k].val = want[m + k]

\* One more value is sent, or left out.
LEMMA GetsMore ==
  ASSUME NEW got \in Seq(Data), NEW want \in Seq(Data), NEW m \in Nat, m < Len(want), NEW h, Gets(got, want, m, h)
  PROVE  /\ Gets(got, want, m + 1, h)
         /\ \E g: Gets(Append(got, want[m + 1]), want, m + 1, g)
<1> DEFINE n == Len(got)
           more == Append(got, want[m + 1])
<1>0. n \in Nat /\ Len(want) \in Nat /\ m + 1 \in 1 .. Len(want)
  OBVIOUS
<1>1. /\ h \in [1 .. n -> 1 .. m]
      /\ \A k \in 1 .. n: k <= h[k] /\ want[h[k]] = got[k]
      /\ \A k, l \in 1 .. n: k < l => h[k] < h[l]
  BY DEF Gets
<1>2. h \in [1 .. n -> 1 .. m + 1]
  BY <1>1
<1>3. Gets(got, want, m + 1, h)
  BY <1>1, <1>2 DEF Gets
<1>4. n <= m
  <2>1. CASE n = 0
    BY <2>1
  <2>2. CASE n # 0
    <3>1. n \in 1 .. n
      BY <1>0, <2>2
    <3>2. n <= h[n] /\ h[n] \in 1 .. m
      BY <1>1, <3>1
    <3> QED
      BY <1>0, <3>2
  <2> QED
    BY <2>1, <2>2
<1>5. want[m + 1] \in Data
  BY <1>0, ElementOfSeq
<1>6. Len(more) = n + 1 /\ more[n + 1] = want[m + 1] /\ \A k \in 1 .. n: more[k] = got[k]
  BY <1>5, Appended
<1> HIDE DEF more, n
<1>7. PICK g: g = [k \in 1 .. n + 1 |-> IF k = n + 1 THEN m + 1 ELSE h[k]]
  OBVIOUS
<1>8. g[n + 1] = m + 1 /\ \A k \in 1 .. n: g[k] = h[k] /\ k # n + 1
  BY <1>0, <1>7
<1>9. g \in [1 .. n + 1 -> 1 .. m + 1]
  BY <1>0, <1>1, <1>7
<1>10. \A k \in 1 .. n + 1: k = n + 1 \/ k \in 1 .. n
  BY <1>0
<1>11. ASSUME NEW k \in 1 .. n + 1 PROVE k <= g[k] /\ want[g[k]] = more[k]
  <2>1. CASE k = n + 1
    BY <1>0, <1>4, <1>6, <1>8, <2>1
  <2>2. CASE k \in 1 .. n
    BY <1>1, <1>6, <1>8, <2>2
  <2> QED
    BY <1>10, <2>1, <2>2
<1>12. ASSUME NEW k \in 1 .. n + 1, NEW l \in 1 .. n + 1, k < l PROVE g[k] < g[l]
  <2>1. k \in 1 .. n
    BY <1>0, <1>12
  <2>2. CASE l = n + 1
    <3>1. g[k] = h[k] /\ h[k] \in 1 .. m
      BY <1>1, <1>8, <2>1
    <3> QED
      BY <1>8, <2>2, <3>1
  <2>3. CASE l \in 1 .. n
    BY <1>1, <1>8, <1>12, <2>1, <2>3
  <2> QED
    BY <1>10, <2>2, <2>3
<1>13. Gets(more, want, m + 1, g)
  BY <1>6, <1>9, <1>11, <1>12 DEF Gets
<1> QED
  BY <1>3, <1>13 DEF more

\* What the shell got is what was wanted, in its order.
LEMMA GetsTells ==
  ASSUME NEW got \in Seq(Data), NEW want \in Seq(Data), NEW m \in 0 .. Len(want), NEW h, Gets(got, want, m, h)
  PROVE  /\ Len(got) <= Len(want)
         /\ \A i \in DOMAIN got : \E k \in i..Len(want) : want[k] = got[i]
         /\ \A i, j \in DOMAIN got : i < j => \E k, l \in DOMAIN want : k < l /\ want[k] = got[i] /\ want[l] = got[j]
<1> DEFINE n == Len(got)
<1>0. n \in Nat /\ Len(want) \in Nat /\ DOMAIN got = 1 .. n /\ DOMAIN want = 1 .. Len(want)
  BY Places
<1>1. /\ h \in [1 .. n -> 1 .. m]
      /\ \A k \in 1 .. n: k <= h[k] /\ want[h[k]] = got[k]
      /\ \A k, l \in 1 .. n: k < l => h[k] < h[l]
  BY DEF Gets
<1> HIDE DEF n
<1>2. \A k \in 1 .. n: h[k] \in 1 .. Len(want) /\ h[k] \in k .. Len(want)
  BY <1>0, <1>1
<1>3. n <= Len(want)
  <2>1. CASE n = 0
    BY <1>0, <2>1
  <2>2. CASE n # 0
    <3>1. n \in 1 .. n
      BY <1>0, <2>2
    <3>2. h[n] \in n .. Len(want)
      BY <1>2, <3>1
    <3> QED
      BY <1>0, <3>2
  <2> QED
    BY <2>1, <2>2
<1>4. \A i \in 1 .. n: \E k \in i..Len(want): want[k] = got[i]
  BY <1>1, <1>2
<1>5. \A i, j \in 1 .. n: i < j => \E k, l \in 1 .. Len(want): k < l /\ want[k] = got[i] /\ want[l] = got[j]
  BY <1>1, <1>2
<1>6. DOMAIN got = 1 .. n /\ DOMAIN want = 1 .. Len(want)
  BY <1>0
<1>7. Len(got) <= Len(want)
  BY <1>3 DEF n
<1>8. \A i \in DOMAIN got : \E k \in i..Len(want) : want[k] = got[i]
  BY <1>4, <1>6
<1>9. \A i, j \in DOMAIN got : i < j => \E k, l \in DOMAIN want : k < l /\ want[k] = got[i] /\ want[l] = got[j]
  BY <1>5, <1>6
<1> QED
  BY <1>7, <1>8, <1>9, Zenon

\* What is left of a sequence, place by place.
LEMMA RemoveAtIs ==
  ASSUME NEW S, NEW s \in Seq(S), NEW i \in 1 .. Len(s)
  PROVE  /\ RemoveAt(s, i) \in Seq(S) /\ Len(RemoveAt(s, i)) = Len(s) - 1
         /\ \A j \in 1 .. Len(s) - 1: RemoveAt(s, i)[j] = s[IF j < i THEN j ELSE j + 1]
<1> DEFINE a == SubSeq(s, 1, i - 1)
           b == SubSeq(s, i + 1, Len(s))
<1>1. a \in Seq(S) /\ Len(a) = i - 1 /\ \A j \in 1 .. Len(a): a[j] = s[j]
  OBVIOUS
<1>2. b \in Seq(S) /\ Len(b) = Len(s) - i /\ \A j \in 1 .. Len(b): b[j] = s[i + j]
  OBVIOUS
<1>3. RemoveAt(s, i) = a \o b
  BY DEF RemoveAt
<1> HIDE DEF a, b
<1>4. /\ a \o b \in Seq(S) /\ Len(a \o b) = Len(a) + Len(b)
      /\ \A j \in 1 .. Len(a) + Len(b):
           (a \o b)[j] = IF j <= Len(a) THEN a[j] ELSE b[j - Len(a)]
  BY <1>1, <1>2, ConcatProperties
<1>5. Len(s) \in Nat /\ Len(a) + Len(b) = Len(s) - 1
  BY <1>1, <1>2
<1>6. ASSUME NEW j \in 1 .. Len(s) - 1 PROVE (a \o b)[j] = s[IF j < i THEN j ELSE j + 1]
  <2>1. CASE j < i
    <3>1. j \in 1 .. Len(a) /\ j <= Len(a) /\ j \in 1 .. Len(a) + Len(b)
      BY <1>1, <1>5, <2>1
    <3> QED
      BY <1>1, <1>4, <2>1, <3>1
  <2>2. CASE ~(j < i)
    <3>1. ~(j <= Len(a)) /\ j - Len(a) \in 1 .. Len(b) /\ i + (j - Len(a)) = j + 1 /\ j \in 1 .. Len(a) + Len(b)
      BY <1>1, <1>2, <1>5, <2>2
    <3> QED
      BY <1>2, <1>4, <2>2, <3>1
  <2> QED
    BY <2>1, <2>2
<1> QED
  BY <1>3, <1>4, <1>5, <1>6

-----------------------------------------------------------------------------
(* TermClip: the invariant *)

Input == [v: Data, paste: Nat, mirrored: BOOLEAN]
Asks == {"copy", "query", "dir", "bell"}
Marks == {"begin", "clear"}
Paste == [id: Nat, gen: Nat, todo: Seq(Item)]
ClipType ==
  /\ clip.items \in Seq(Item) /\ sel.text \in Data
  /\ wrap \in [gen: Nat, loaded: BOOLEAN, mirrors: BOOLEAN] /\ find \in [open: BOOLEAN, focused: BOOLEAN]
  /\ selTimer \in BOOLEAN /\ hurried \in BOOLEAN
  /\ pastes \in Seq(Paste) /\ asked \in Seq(Seq(Item))
  /\ sent \in Seq(Input) /\ echoed \in Seq(Data)
  /\ output \in Seq(Asks) /\ applied \in Seq(Nat)
PaintType == paint \in [sync: BOOLEAN, repaint: BOOLEAN, span: Seq(Marks), last: Seq(Marks), scrolled: BOOLEAN]
\* A match whose time runs is of a search that still has the focus, or was left in a hurry.
CopyInv == CopiesMeant /\ (selTimer /\ sel.by = "search" => find.focused \/ hurried)
\* What had an effect was written.
ReplayInv == ReplaySilent /\ \A i \in DOMAIN applied: applied[i] <= Len(output)
\* What is remembered of a transaction came in it.
PaintInv ==
  /\ PaintType /\ ScrollsAfterClear
  /\ paint.sync => \E i \in DOMAIN paint.span: paint.span[i] = "begin"
  /\ paint.repaint => \E i, j \in DOMAIN paint.span: i < j /\ paint.span[i] = "begin" /\ paint.span[j] = "clear"
\* Of each paste a first part is dealt with, the m first values: the shell got all of them, or
\* the paste is broken; the others are still to come, or there are none.
Got(p) == InputValues(Only(sent, {i \in DOMAIN sent : sent[i].paste = p}))
Dealt(p, m) ==
  /\ \E h: Gets(Got(p), Wanted(asked[p]), m, h)
  /\ p \notin broken => Len(Got(p)) = m /\ \A k \in 1 .. m: Got(p)[k] = Wanted(asked[p])[k]
  /\ \A i \in DOMAIN pastes: pastes[i].id = p => Rest(pastes[i].todo, Wanted(asked[p]), m)
  /\ p \in broken \/ m = Len(Wanted(asked[p])) \/ \E i \in DOMAIN pastes: pastes[i].id = p
PasteInv ==
  /\ \A i \in DOMAIN pastes: pastes[i].id \in 1 .. Len(asked)
  /\ \A i, j \in DOMAIN pastes: pastes[i].id = pastes[j].id => i = j
  /\ \A i \in DOMAIN sent: sent[i].paste <= Len(asked)
  /\ \A p \in DOMAIN asked: \E m \in 0 .. Len(Wanted(asked[p])): Dealt(p, m)
ClipInv == ClipType /\ CopyInv /\ ReplayInv /\ PaintInv /\ PasteInv /\ EchoedOnce /\ ReadsRight

\* A text may be on the clipboard.
LEMMA TextIs ==
  ASSUME NEW t \in Data
  PROVE  Text(t) \in Seq(Item)
<1>1. [kind |-> "string", type |-> "plain", val |-> t] \in Item
  BY DEF Item
<1> QED
  BY <1>1 DEF Text

\* The values of what was sent, and of one more.
LEMMA InputValuesNext ==
  ASSUME NEW s \in Seq(Input), NEW x \in Input
  PROVE  /\ InputValues(s) \in Seq(Data) /\ InputValues(Append(s, x)) = Append(InputValues(s), x.v)
         /\ InputValues(<<>>) = <<>>
<1> DEFINE t == Append(s, x)
           n == Len(s)
<1>1. t \in Seq(Input) /\ n \in Nat /\ Len(t) = n + 1 /\ t[n + 1] = x /\ \A i \in 1 .. n: t[i] = s[i]
  BY Appended
<1>2. x.v \in Data /\ \A i \in 1 .. n: s[i].v \in Data
  <2>1. \A i \in 1 .. n: s[i] \in Input
    BY ElementOfSeq
  <2> QED
    BY <2>1 DEF Input
<1>3. InputValues(s) = [k \in 1 .. n |-> s[k].v]
  BY DEF InputValues
<1>4. InputValues(s) \in Seq(Data) /\ Len(InputValues(s)) = n /\ \A i \in 1 .. n: InputValues(s)[i] = s[i].v
  BY <1>1, <1>2, <1>3
<1> HIDE DEF t
<1>5. InputValues(t) = [k \in 1 .. n + 1 |-> t[k].v]
  BY <1>1 DEF InputValues
<1>6. Append(InputValues(s), x.v) \in Seq(Data) /\ Len(Append(InputValues(s), x.v)) = n + 1
      /\ Append(InputValues(s), x.v)[n + 1] = x.v /\ \A i \in 1 .. n: Append(InputValues(s), x.v)[i] = s[i].v
  <2>1. PICK u: u = InputValues(s)
    OBVIOUS
  <2>2. u \in Seq(Data) /\ Len(u) = n /\ \A i \in 1 .. n: u[i] = s[i].v
    BY <1>4, <2>1
  <2>3. Append(u, x.v) \in Seq(Data) /\ Len(Append(u, x.v)) = n + 1 /\ Append(u, x.v)[n + 1] = x.v
        /\ \A i \in 1 .. n: Append(u, x.v)[i] = u[i]
    BY <1>2, <2>2, Appended
  <2> QED
    BY <2>1, <2>2, <2>3
<1>7. \A k \in 1 .. n + 1: t[k].v = Append(InputValues(s), x.v)[k]
  <2>1. \A k \in 1 .. n + 1: k = n + 1 \/ k \in 1 .. n
    BY <1>1
  <2> QED
    BY <1>1, <1>6, <2>1
<1>8. Append(InputValues(s), x.v) = [k \in 1 .. n + 1 |-> Append(InputValues(s), x.v)[k]]
  BY <1>6
<1>9. InputValues(t) = Append(InputValues(s), x.v)
  BY <1>5, <1>7, <1>8
<1>10. InputValues(<<>>) = <<>>
  BY DEF InputValues
<1> QED
  BY <1>4, <1>9, <1>10 DEF t

\* The values of what is on a clipboard.
LEMMA ValuesAre ==
  ASSUME NEW c \in Seq(Item)
  PROVE  /\ DataOf(c) \in Seq(Data) /\ Len(DataOf(c)) = Len(c)
         /\ \A k \in 1 .. Len(c): DataOf(c)[k] = c[k].val
<1>1. \A k \in 1 .. Len(c): c[k].val \in Data
  BY ElementOfSeq, ItemIs
<1>2. DataOf(c) = [k \in 1 .. Len(c) |-> c[k].val] /\ Len(c) \in Nat
  BY DEF DataOf
<1> QED
  BY <1>1, <1>2

\* What a step puts into the shell.
LEMMA OneMoreInput ==
  ASSUME sent \in Seq(Input), NEW x \in Input, sent' = Append(sent, x)
  PROVE  /\ \A p: Got(p)' = IF x.paste = p THEN Append(Got(p), x.v) ELSE Got(p)
         /\ InputValues(Only(sent, {i \in DOMAIN sent : sent[i].mirrored}))' =
              IF x.mirrored THEN Append(InputValues(Only(sent, {i \in DOMAIN sent : sent[i].mirrored})), x.v)
              ELSE InputValues(Only(sent, {i \in DOMAIN sent : sent[i].mirrored}))
<1> DEFINE t == Append(sent, x)
           n == Len(sent)
<1>1. t \in Seq(Input) /\ n \in Nat /\ Len(t) = n + 1 /\ t[n + 1] = x /\ \A i \in 1 .. n: t[i] = sent[i]
  BY Appended
<1>2. DOMAIN t = 1 .. n + 1 /\ DOMAIN sent = 1 .. n
  BY <1>1, Places
<1>3. ASSUME NEW p PROVE Got(p)' = IF x.paste = p THEN Append(Got(p), x.v) ELSE Got(p)
  <2> DEFINE v == {i \in DOMAIN sent : sent[i].paste = p}
             w == {i \in DOMAIN t : t[i].paste = p}
  <2>1. \A k \in 1 .. n: k \in v <=> k \in w
    BY <1>1, <1>2
  <2>2. n + 1 \in w <=> x.paste = p
    BY <1>1, <1>2
  <2>3. Got(p) = InputValues(Only(sent, v)) /\ Got(p)' = InputValues(Only(t, w))
    BY DEF Got
  <2> HIDE DEF v, w
  <2>4. Only(t, w) = IF n + 1 \in w THEN Append(Only(sent, v), x) ELSE Only(sent, v)
    BY <2>1, OnlyAppend
  <2>5. Only(sent, v) \in Seq(Input)
    BY OnlyType
  <2>6. InputValues(Append(Only(sent, v), x)) = Append(InputValues(Only(sent, v)), x.v)
    BY <2>5, InputValuesNext
  <2> QED
    BY <2>2, <2>3, <2>4, <2>6
<1>4. InputValues(Only(t, {i \in DOMAIN t : t[i].mirrored})) =
        IF x.mirrored THEN Append(InputValues(Only(sent, {i \in DOMAIN sent : sent[i].mirrored})), x.v)
        ELSE InputValues(Only(sent, {i \in DOMAIN sent : sent[i].mirrored}))
  <2> DEFINE v == {i \in DOMAIN sent : sent[i].mirrored}
             w == {i \in DOMAIN t : t[i].mirrored}
  <2>1. \A k \in 1 .. n: k \in v <=> k \in w
    BY <1>1, <1>2
  <2>2. n + 1 \in w <=> x.mirrored
    BY <1>1, <1>2
  <2> HIDE DEF v, w
  <2>4. Only(t, w) = IF n + 1 \in w THEN Append(Only(sent, v), x) ELSE Only(sent, v)
    BY <2>1, OnlyAppend
  <2>5. Only(sent, v) \in Seq(Input)
    BY OnlyType
  <2>6. InputValues(Append(Only(sent, v), x)) = Append(InputValues(Only(sent, v)), x.v)
    BY <2>5, InputValuesNext
  <2>7. InputValues(Only(t, w)) = IF x.mirrored THEN Append(InputValues(Only(sent, v)), x.v) ELSE InputValues(Only(sent, v))
    BY <2>2, <2>4, <2>6
  <2> QED
    BY <2>7 DEF v, w
<1> QED
  BY <1>3, <1>4 DEF t

\* What a paste sent are data.
LEMMA GotIs ==
  ASSUME sent \in Seq(Input), NEW p
  PROVE  Got(p) \in Seq(Data)
<1>1. Only(sent, {i \in DOMAIN sent : sent[i].paste = p}) \in Seq(Input)
  BY OnlyType
<1>2. PICK x \in Input: TRUE
  <2>1. PICK e \in Data, f \in BOOLEAN: TRUE
    <3>1. "key" \in Data
      BY DEF Data
    <3> QED
      BY <3>1
  <2>2. [v |-> e, paste |-> 0, mirrored |-> f] \in Input
    BY DEF Input
  <2> QED
    BY <2>2
<1> QED
  BY <1>1, <1>2, InputValuesNext DEF Got

\* What is wanted of a clipboard are data.
LEMMA WantedTyped ==
  ASSUME NEW c \in Seq(Item)
  PROVE  Wanted(c) \in Seq(Data)
BY ReadAsWanted, ValuesAre

-----------------------------------------------------------------------------
(* TermClip: what each step leaves alone *)

\* What touches the clipboard, the selection and the search.
LEMMA CopyFrame ==
  ASSUME ClipNext
  PROVE  \/ UNCHANGED <<clip, sel, selTimer, find, hurried>>
         \/ UNCHANGED <<sel, selTimer, find, hurried>> /\ clip'.by # "search" /\ clip'.items \in Seq(Item)
         \/ sel' = NoSel /\ selTimer' = FALSE /\ UNCHANGED <<clip, find, hurried>>
         \/ \E t \in {Blank, "sel"} : UserSelects(t)
         \/ SearchOpens \/ executeSearch \/ SearchCloses \/ FocusLeaves \/ SelectionTimer \/ Copies
<1>1. CASE Types
  BY <1>1 DEF Types, Sent, selVars
<1>2. CASE sendDataToController
  BY <1>2 DEF sendDataToController, selVars
<1>3. CASE PasteBegins \/ MultiInput
  BY <1>3 DEF PasteBegins, MultiInput, selVars
<1>4. CASE ViewAgain
  BY <1>4 DEF ViewAgain
<1>5. CASE ReplaysFile
  BY <1>5 DEF ReplaysFile, selVars
<1>6. CASE \E i \in DOMAIN pastes : PasteGoesOn(i) \/ PasteFails(i) \/ PasteEnds(i)
  BY <1>6 DEF PasteGoesOn, PasteFails, PasteEnds, selVars
<1>7. CASE \E what \in {"copy", "query", "dir", "bell"} : ProgramAsks(what)
  <2>1. PICK what \in {"copy", "query", "dir", "bell"} : ProgramAsks(what)
    BY <1>7
  <2>2. UNCHANGED <<sel, selTimer, find, hurried>>
    BY <2>1 DEF ProgramAsks, selVars
  <2>3. CASE what = "copy"
    <3>1. handleOsc52Command(Len(output) + 1)
      BY <2>1, <2>3 DEF ProgramAsks
    <3>2. clip' = clip \/ clip' = [items |-> Text("program"), by |-> "program"]
      BY <3>1 DEF handleOsc52Command
    <3>3. Text("program") \in Seq(Item)
      BY TextIs DEF Data
    <3> QED
      BY <2>2, <3>2, <3>3
  <2>4. CASE what # "copy"
    BY <2>1, <2>2, <2>4 DEF ProgramAsks
  <2> QED
    BY <2>3, <2>4
<1>8. CASE (\E what \in {"begin", "clear"} : Paints(what)) \/ PaintEnds
  BY <1>8 DEF Paints, PaintEnds, selVars
<1>9. CASE \E items \in Contents : CopiesElsewhere(items)
  BY <1>9, ClipAssumption DEF CopiesElsewhere, selVars
<1>10. CASE \E r \in Readings : Reads(r)
  BY <1>10 DEF Reads, selVars
<1> QED
  BY <1>1, <1>2, <1>3, <1>4, <1>5, <1>6, <1>7, <1>8, <1>9, <1>10 DEF ClipNext

\* Selecting, searching and copying leave everything else alone.
LEMMA ClipSelection ==
  UserSelects("sel") \/ UserSelects(Blank) \/ SearchOpens \/ executeSearch \/ SearchCloses \/ FocusLeaves \/ SelectionTimer \/ Copies
  => UNCHANGED <<wrap, inVars, sent, echoed, outVars, reading>>
BY DEF UserSelects, SearchOpens, executeSearch, SearchCloses, FocusLeaves, SelectionTimer, Copies

\* What programs wrote changes when one writes or the file is replayed.
LEMMA OutFrame ==
  ASSUME ClipNext
  PROVE  \/ UNCHANGED <<output, applied>>
         \/ ReplaysFile
         \/ \E what \in {"copy", "query", "dir", "bell"} : ProgramAsks(what)
<1>1. CASE Types \/ sendDataToController \/ PasteBegins \/ MultiInput \/ ViewAgain
  BY <1>1 DEF Types, sendDataToController, PasteBegins, MultiInput, ViewAgain, outVars
<1>2. CASE \E i \in DOMAIN pastes : PasteGoesOn(i) \/ PasteFails(i) \/ PasteEnds(i)
  BY <1>2 DEF PasteGoesOn, PasteFails, PasteEnds, outVars
<1>3. CASE (\E what \in {"begin", "clear"} : Paints(what)) \/ PaintEnds
  BY <1>3 DEF Paints, PaintEnds
<1>4. CASE \/ \E t \in {Blank, "sel"} : UserSelects(t)
           \/ SearchOpens \/ executeSearch \/ SearchCloses \/ FocusLeaves \/ SelectionTimer \/ Copies
  BY <1>4, ClipSelection DEF outVars
<1>5. CASE (\E items \in Contents : CopiesElsewhere(items)) \/ (\E r \in Readings : Reads(r))
  BY <1>5 DEF CopiesElsewhere, Reads, outVars
<1> QED
  BY <1>1, <1>2, <1>3, <1>4, <1>5 DEF ClipNext

\* What paints, or forgets it with the view.
LEMMA PaintFrame ==
  ASSUME ClipNext
  PROVE  paint' = paint \/ paint' = NoPaint \/ (\E what \in {"begin", "clear"} : Paints(what)) \/ PaintEnds
<1>1. CASE Types \/ sendDataToController \/ PasteBegins \/ MultiInput
  BY <1>1 DEF Types, sendDataToController, PasteBegins, MultiInput, outVars
<1>2. CASE ViewAgain \/ ReplaysFile
  BY <1>2 DEF ViewAgain, ReplaysFile
<1>3. CASE \E i \in DOMAIN pastes : PasteGoesOn(i) \/ PasteFails(i) \/ PasteEnds(i)
  BY <1>3 DEF PasteGoesOn, PasteFails, PasteEnds, outVars
<1>4. CASE \E what \in {"copy", "query", "dir", "bell"} : ProgramAsks(what)
  BY <1>4 DEF ProgramAsks
<1>5. CASE \/ \E t \in {Blank, "sel"} : UserSelects(t)
           \/ SearchOpens \/ executeSearch \/ SearchCloses \/ FocusLeaves \/ SelectionTimer \/ Copies
  BY <1>5, ClipSelection DEF outVars
<1>6. CASE (\E items \in Contents : CopiesElsewhere(items)) \/ (\E r \in Readings : Reads(r))
  BY <1>6 DEF CopiesElsewhere, Reads, outVars
<1> QED
  BY <1>1, <1>2, <1>3, <1>4, <1>5, <1>6 DEF ClipNext

\* What is typed, and what answers a query, is no paste; the rest of the input is one's.
LEMMA InputFrame ==
  ASSUME ClipNext, ClipType
  PROVE  \/ UNCHANGED <<pastes, asked, broken>> /\ UNCHANGED <<sent, echoed>>
         \/ /\ UNCHANGED <<pastes, asked, broken>>
            /\ \E v \in Data: \/ Sent(v, wrap.gen, 0)
                              \/ sent' = Append(sent, [v |-> v, paste |-> 0, mirrored |-> FALSE]) /\ echoed' = echoed
         \/ PasteBegins
         \/ \E i \in DOMAIN pastes : PasteGoesOn(i) \/ PasteFails(i) \/ PasteEnds(i)
<1>0. "key" \in Data /\ "nl" \in Data /\ "answer" \in Data
  BY DEF Data
<1>1. CASE Types
  BY <1>0, <1>1 DEF Types, inVars
<1>2. CASE sendDataToController
  BY <1>0, <1>2 DEF sendDataToController, inVars
<1>3. CASE MultiInput \/ ViewAgain \/ ReplaysFile
  BY <1>3 DEF MultiInput, ViewAgain, ReplaysFile, inVars
<1>4. CASE \E what \in {"copy", "query", "dir", "bell"} : ProgramAsks(what)
  <2>1. PICK what \in {"copy", "query", "dir", "bell"} : ProgramAsks(what)
    BY <1>4
  <2>2. UNCHANGED <<pastes, asked, broken>>
    BY <2>1 DEF ProgramAsks, inVars
  <2>3. CASE what = "query"
    <3>1. Sent("answer", wrap.gen, 0)
      BY <2>1, <2>3 DEF ProgramAsks
    <3> QED
      BY <1>0, <2>2, <3>1
  <2>4. CASE what # "query"
    <3>1. UNCHANGED <<sent, echoed>>
      BY <2>1, <2>4 DEF ProgramAsks
    <3> QED
      BY <2>2, <3>1
  <2> QED
    BY <2>3, <2>4
<1>5. CASE (\E what \in {"begin", "clear"} : Paints(what)) \/ PaintEnds
  BY <1>5 DEF Paints, PaintEnds, inVars
<1>6. CASE \/ \E t \in {Blank, "sel"} : UserSelects(t)
           \/ SearchOpens \/ executeSearch \/ SearchCloses \/ FocusLeaves \/ SelectionTimer \/ Copies
  BY <1>6, ClipSelection DEF inVars
<1>7. CASE (\E items \in Contents : CopiesElsewhere(items)) \/ (\E r \in Readings : Reads(r))
  BY <1>7 DEF CopiesElsewhere, Reads, inVars
<1> QED
  BY <1>1, <1>2, <1>3, <1>4, <1>5, <1>6, <1>7 DEF ClipNext

\* The view is made anew, loads and mirrors.
LEMMA ViewFrame ==
  ASSUME ClipNext, ClipType
  PROVE  wrap' \in [gen: Nat, loaded: BOOLEAN, mirrors: BOOLEAN]
<1>1. CASE UNCHANGED wrap
  BY <1>1 DEF ClipType
<1>2. CASE MultiInput
  BY <1>2 DEF MultiInput, ClipType
<1>3. CASE ViewAgain
  BY <1>3 DEF ViewAgain, ClipType
<1>4. CASE ReplaysFile
  BY <1>4 DEF ReplaysFile, ClipType
<1>5. CASE Types \/ sendDataToController \/ PasteBegins
  BY <1>1, <1>5 DEF Types, sendDataToController, PasteBegins
<1>6. CASE \E i \in DOMAIN pastes : PasteGoesOn(i) \/ PasteFails(i) \/ PasteEnds(i)
  BY <1>1, <1>6 DEF PasteGoesOn, PasteFails, PasteEnds
<1>7. CASE \E what \in {"copy", "query", "dir", "bell"} : ProgramAsks(what)
  BY <1>1, <1>7 DEF ProgramAsks
<1>8. CASE (\E what \in {"begin", "clear"} : Paints(what)) \/ PaintEnds
  BY <1>1, <1>8 DEF Paints, PaintEnds
<1>9. CASE \/ \E t \in {Blank, "sel"} : UserSelects(t)
           \/ SearchOpens \/ executeSearch \/ SearchCloses \/ FocusLeaves \/ SelectionTimer \/ Copies
  BY <1>1, <1>9, ClipSelection
<1>10. CASE (\E items \in Contents : CopiesElsewhere(items)) \/ (\E r \in Readings : Reads(r))
  BY <1>1, <1>10 DEF CopiesElsewhere, Reads
<1> QED
  BY <1>2, <1>3, <1>4, <1>5, <1>6, <1>7, <1>8, <1>9, <1>10 DEF ClipNext

\* While nothing has been read nothing is read as text.
LEMMA ReadingFrame ==
  ASSUME ClipNext
  PROVE  reading' = <<>> \/ reading' \in Readings
<1>0. reading = <<>>
  BY DEF ClipNext
<1>1. CASE Types \/ sendDataToController \/ PasteBegins \/ MultiInput \/ ViewAgain \/ ReplaysFile
  BY <1>0, <1>1 DEF Types, sendDataToController, PasteBegins, MultiInput, ViewAgain, ReplaysFile
<1>2. CASE \E i \in DOMAIN pastes : PasteGoesOn(i) \/ PasteFails(i) \/ PasteEnds(i)
  BY <1>0, <1>2 DEF PasteGoesOn, PasteFails, PasteEnds
<1>3. CASE \E what \in {"copy", "query", "dir", "bell"} : ProgramAsks(what)
  BY <1>0, <1>3 DEF ProgramAsks
<1>4. CASE (\E what \in {"begin", "clear"} : Paints(what)) \/ PaintEnds
  BY <1>0, <1>4 DEF Paints, PaintEnds
<1>5. CASE \/ \E t \in {Blank, "sel"} : UserSelects(t)
           \/ SearchOpens \/ executeSearch \/ SearchCloses \/ FocusLeaves \/ SelectionTimer \/ Copies
  BY <1>0, <1>5, ClipSelection
<1>6. CASE (\E items \in Contents : CopiesElsewhere(items)) \/ (\E r \in Readings : Reads(r))
  BY <1>0, <1>6 DEF CopiesElsewhere, Reads
<1> QED
  BY <1>1, <1>2, <1>3, <1>4, <1>5, <1>6 DEF ClipNext

-----------------------------------------------------------------------------
(* TermClip: what each step keeps *)

\* A match is still copied only after its search was left in a hurry.
LEMMA CopyStep ==
  ASSUME ClipInv, ClipNext
  PROVE  /\ clip'.items \in Seq(Item) /\ sel'.text \in Data /\ find' \in [open: BOOLEAN, focused: BOOLEAN]
         /\ selTimer' \in BOOLEAN /\ hurried' \in BOOLEAN
         /\ CopyInv'
<1>0. /\ clip.items \in Seq(Item) /\ sel.text \in Data /\ find \in [open: BOOLEAN, focused: BOOLEAN]
      /\ selTimer \in BOOLEAN /\ hurried \in BOOLEAN
      /\ clip.by = "search" => hurried
      /\ selTimer /\ sel.by = "search" => find.focused \/ hurried
  BY DEF ClipInv, ClipType, CopyInv, CopiesMeant
<1>1. NoSel.text \in Data /\ NoSel.by = "none" /\ Blank \in Data /\ "sel" \in Data /\ "match" \in Data
  BY DEF NoSel, Data
<1> USE DEF CopyInv, CopiesMeant
<1>2. CASE UNCHANGED <<clip, sel, selTimer, find, hurried>>
  BY <1>0, <1>2
<1>3. CASE UNCHANGED <<sel, selTimer, find, hurried>> /\ clip'.by # "search" /\ clip'.items \in Seq(Item)
  BY <1>0, <1>3
<1>4. CASE sel' = NoSel /\ selTimer' = FALSE /\ UNCHANGED <<clip, find, hurried>>
  BY <1>0, <1>1, <1>4
<1>5. CASE \E t \in {Blank, "sel"} : UserSelects(t)
  <2>1. PICK t \in {Blank, "sel"} : UserSelects(t)
    BY <1>5
  <2>2. sel' = (IF t = Blank THEN NoSel ELSE [text |-> t, by |-> "user"]) /\ selTimer' = TRUE
        /\ find' = [find EXCEPT !.focused = FALSE] /\ clip' = clip /\ hurried' = hurried
    BY <2>1 DEF UserSelects, Selects
  <2>3. sel'.by # "search" /\ sel'.text \in Data
    BY <1>1, <2>1, <2>2
  <2> QED
    BY <1>0, <2>2, <2>3
<1>6. CASE SearchOpens
  BY <1>0, <1>6 DEF SearchOpens
<1>7. CASE executeSearch
  BY <1>0, <1>1, <1>7 DEF executeSearch, Selects
<1>8. CASE SearchCloses
  BY <1>0, <1>8 DEF SearchCloses, Hurries
<1>9. CASE FocusLeaves
  BY <1>0, <1>9 DEF FocusLeaves, Hurries
<1>10. CASE SelectionTimer
  <2>1. clip' = clip \/ (~find.focused /\ clip' = [items |-> Text(sel.text), by |-> sel.by])
    BY <1>10 DEF SelectionTimer, InSearch
  <2>2. selTimer /\ selTimer' = FALSE /\ UNCHANGED <<sel, find, hurried>>
    BY <1>10 DEF SelectionTimer
  <2>3. Text(sel.text) \in Seq(Item)
    BY <1>0, TextIs
  <2>4. clip'.items \in Seq(Item) /\ (clip'.by = "search" => hurried)
    BY <1>0, <2>1, <2>2, <2>3
  <2> QED
    BY <1>0, <2>2, <2>4
<1>11. CASE Copies
  <2>1. Text(sel.text) \in Seq(Item)
    BY <1>0, TextIs
  <2>2. clip' = [items |-> Text(sel.text), by |-> "user"] /\ UNCHANGED <<sel, selTimer, find, hurried>>
    BY <1>11 DEF Copies, selVars
  <2> QED
    BY <1>0, <2>1, <2>2
<1> QED
  BY <1>2, <1>3, <1>4, <1>5, <1>6, <1>7, <1>8, <1>9, <1>10, <1>11, CopyFrame

\* What has an effect was never written before.
LEMMA ReplayStep ==
  ASSUME ClipInv, ClipNext
  PROVE  output' \in Seq(Asks) /\ applied' \in Seq(Nat) /\ ReplayInv'
<1>0. /\ output \in Seq(Asks) /\ applied \in Seq(Nat)
      /\ \A i, j \in DOMAIN applied : i < j => applied[i] < applied[j]
      /\ \A i \in DOMAIN applied: applied[i] <= Len(output)
  BY DEF ClipInv, ClipType, ReplayInv, ReplaySilent
<1>1. CASE UNCHANGED <<output, applied>>
  BY <1>0, <1>1 DEF ReplayInv, ReplaySilent
<1>2. CASE ReplaysFile
  <2>1. UNCHANGED <<output, applied>>
    BY <1>2 DEF ReplaysFile, Handles
  <2> QED
    BY <1>1, <2>1
<1>3. CASE \E what \in {"copy", "query", "dir", "bell"} : ProgramAsks(what)
  <2>1. PICK what \in {"copy", "query", "dir", "bell"} : ProgramAsks(what)
    BY <1>3
  <2> DEFINE n == Len(output) + 1
  <2>2. output' = Append(output, what) /\ what \in Asks
    BY <2>1 DEF ProgramAsks, Asks
  <2>3. applied' = applied \/ applied' = Append(applied, n)
    <3>1. CASE what = "copy"
      <4>1. handleOsc52Command(n)
        BY <2>1, <3>1 DEF ProgramAsks
      <4> QED
        BY <4>1 DEF handleOsc52Command
    <3>2. CASE what = "dir"
      <4>1. handleOsc7Command(n)
        BY <2>1, <3>2 DEF ProgramAsks
      <4> QED
        BY <4>1 DEF handleOsc7Command
    <3>3. CASE what = "bell"
      <4>1. Bell(n)
        BY <2>1, <3>3 DEF ProgramAsks
      <4> QED
        BY <4>1 DEF Bell
    <3>4. CASE what = "query"
      BY <2>1, <3>4 DEF ProgramAsks
    <3> QED
      BY <2>1, <3>1, <3>2, <3>3, <3>4
  <2>4. output' \in Seq(Asks) /\ Len(output') = n /\ n \in Nat /\ Len(output) \in Nat
    BY <1>0, <2>2, Appended
  <2>5. CASE applied' = applied
    <3>1. \A i \in DOMAIN applied: applied[i] <= n
      <4>1. \A i \in DOMAIN applied: applied[i] \in Nat
        BY <1>0, ElementOfSeq
      <4> QED
        BY <1>0, <2>4, <4>1
    <3> QED
      BY <1>0, <2>4, <2>5, <3>1 DEF ReplayInv, ReplaySilent
  <2>6. CASE applied' = Append(applied, n)
    <3>1. /\ applied' \in Seq(Nat) /\ Len(applied) \in Nat /\ Len(applied') = Len(applied) + 1
          /\ applied'[Len(applied) + 1] = n
          /\ \A i \in 1 .. Len(applied): applied'[i] = applied[i]
      BY <1>0, <2>4, <2>6, Appended
    <3>2. DOMAIN applied = 1 .. Len(applied) /\ DOMAIN applied' = 1 .. Len(applied) + 1
      BY <1>0, <3>1, Places
    <3>3. \A i \in 1 .. Len(applied): applied'[i] \in Nat /\ applied'[i] <= Len(output) /\ applied'[i] < n
      <4>1. \A i \in 1 .. Len(applied): applied[i] \in Nat
        BY <1>0, ElementOfSeq
      <4>2. ASSUME NEW i \in 1 .. Len(applied)
            PROVE  applied'[i] \in Nat /\ applied'[i] <= Len(output) /\ applied'[i] < n
        <5>1. PICK a: a = applied[i]
          OBVIOUS
        <5>2. a \in Nat /\ a <= Len(output) /\ applied'[i] = a
          BY <1>0, <3>1, <3>2, <4>1, <5>1
        <5>3. a < n
          BY <2>4, <5>2
        <5> QED
          BY <5>2, <5>3
      <4> QED
        BY <4>2
    <3>4. \A i \in 1 .. Len(applied) + 1: i = Len(applied) + 1 \/ i \in 1 .. Len(applied)
      BY <3>1
    <3>5. ASSUME NEW i \in DOMAIN applied', NEW j \in DOMAIN applied', i < j PROVE applied'[i] < applied'[j]
      <4>1. i \in 1 .. Len(applied)
        BY <3>1, <3>2, <3>5
      <4>2. CASE j = Len(applied) + 1
        BY <3>1, <3>3, <4>1, <4>2
      <4>3. CASE j \in 1 .. Len(applied)
        BY <1>0, <3>1, <3>2, <3>5, <4>1, <4>3
      <4> QED
        BY <3>2, <3>4, <4>2, <4>3
    <3>6. ASSUME NEW i \in DOMAIN applied' PROVE applied'[i] <= Len(output')
      <4>1. CASE i = Len(applied) + 1
        BY <2>4, <3>1, <4>1
      <4>2. CASE i \in 1 .. Len(applied)
        BY <2>4, <3>3, <4>2
      <4> QED
        BY <3>2, <3>4, <4>1, <4>2
    <3> QED
      BY <2>4, <3>1, <3>5, <3>6 DEF ReplayInv, ReplaySilent
  <2> QED
    BY <2>3, <2>5, <2>6
<1> QED
  BY <1>1, <1>2, <1>3, OutFrame

\* The marks of the transaction are kept.
LEMMA PaintStep ==
  ASSUME ClipInv, ClipNext
  PROVE  PaintInv'
<1>0. /\ paint \in [sync: BOOLEAN, repaint: BOOLEAN, span: Seq(Marks), last: Seq(Marks), scrolled: BOOLEAN]
      /\ paint.scrolled => \E i, j \in DOMAIN paint.last : i < j /\ paint.last[i] = "begin" /\ paint.last[j] = "clear"
      /\ paint.sync => \E i \in DOMAIN paint.span: paint.span[i] = "begin"
      /\ paint.repaint => \E i, j \in DOMAIN paint.span: i < j /\ paint.span[i] = "begin" /\ paint.span[j] = "clear"
  BY DEF ClipInv, PaintInv, PaintType, ScrollsAfterClear
<1>1. CASE paint' = paint
  BY <1>0, <1>1 DEF PaintInv, PaintType, ScrollsAfterClear
<1>2. CASE paint' = NoPaint
  BY <1>2 DEF PaintInv, PaintType, ScrollsAfterClear, NoPaint
<1>3. CASE \E what \in {"begin", "clear"} : Paints(what)
  <2>1. PICK what \in {"begin", "clear"} : Paints(what)
    BY <1>3
  <2> DEFINE s == paint.span
             t == Append(s, what)
             n == Len(s)
  <2>2. s \in Seq(Marks) /\ what \in Marks
    BY <1>0, <2>1 DEF Marks
  <2>3. t \in Seq(Marks) /\ n \in Nat /\ Len(t) = n + 1 /\ t[n + 1] = what /\ \A i \in 1 .. n: t[i] = s[i]
    BY <2>2, Appended
  <2>4. DOMAIN s = 1 .. n /\ DOMAIN t = 1 .. n + 1 /\ n + 1 \in DOMAIN t /\ (\A i \in DOMAIN s: i \in DOMAIN t /\ i < n + 1)
    BY <2>2, <2>3, Places
  <2>5. /\ paint' \in [sync: BOOLEAN, repaint: BOOLEAN, span: Seq(Marks), last: Seq(Marks), scrolled: BOOLEAN]
        /\ paint'.span = t /\ paint'.last = paint.last /\ paint'.scrolled = paint.scrolled
        /\ what = "begin" => paint'.sync = TRUE /\ paint'.repaint = paint.repaint
        /\ what = "clear" => paint'.sync = paint.sync /\ paint'.repaint = (paint.repaint \/ paint.sync)
    <3>1. paint' = Painted(paint, what)
      BY <2>1 DEF Paints
    <3>2. CASE what = "begin"
      <4>1. paint' = [paint EXCEPT !.sync = TRUE, !.span = t]
        BY <3>1, <3>2 DEF Painted
      <4> HIDE DEF t
      <4> QED
        BY <1>0, <2>3, <3>2, <4>1
    <3>3. CASE what = "clear"
      <4>1. paint' = [[paint EXCEPT !.repaint = @ \/ paint.sync] EXCEPT !.span = t]
        BY <3>1, <3>3 DEF Painted, ClearScrollback
      <4> HIDE DEF t
      <4> QED
        BY <1>0, <2>3, <3>3, <4>1
    <3> QED
      BY <2>1, <3>2, <3>3
  <2> HIDE DEF t
  <2>6. paint'.sync => \E i \in DOMAIN t: t[i] = "begin"
    <3>1. CASE what = "begin"
      BY <2>3, <2>4, <3>1
    <3>2. CASE what = "clear"
      BY <1>0, <2>3, <2>4, <2>5, <3>2
    <3> QED
      BY <2>1, <3>1, <3>2
  <2>7. paint'.repaint => \E i, j \in DOMAIN t: i < j /\ t[i] = "begin" /\ t[j] = "clear"
    <3>1. paint.repaint => \E i, j \in DOMAIN t: i < j /\ t[i] = "begin" /\ t[j] = "clear"
      BY <1>0, <2>3, <2>4
    <3>2. what = "clear" /\ paint.sync => \E i, j \in DOMAIN t: i < j /\ t[i] = "begin" /\ t[j] = "clear"
      BY <1>0, <2>3, <2>4
    <3> QED
      BY <2>1, <2>5, <3>1, <3>2
  <2> QED
    BY <1>0, <2>5, <2>6, <2>7 DEF PaintInv, PaintType, ScrollsAfterClear
<1>4. CASE PaintEnds
  <2>1. PICK recent \in BOOLEAN :
         paint' = [sync |-> FALSE, repaint |-> FALSE, span |-> <<>>, last |-> paint.span, scrolled |-> paint.repaint /\ recent]
    BY <1>4 DEF PaintEnds
  <2> QED
    BY <1>0, <2>1 DEF PaintInv, PaintType, ScrollsAfterClear
<1> QED
  BY <1>1, <1>2, <1>3, <1>4, PaintFrame

\* What is read is right.
LEMMA ReadingStep ==
  ASSUME ClipNext
  PROVE  ReadsRight'
BY ReadingFrame, ReadingIsRight DEF ReadsRight

-----------------------------------------------------------------------------
(* TermClip: what enters the shell *)

InputInv ==
  /\ pastes \in Seq(Paste) /\ asked \in Seq(Seq(Item)) /\ sent \in Seq(Input) /\ echoed \in Seq(Data)
  /\ EchoedOnce /\ PasteInv

\* A paste is dealt with as before when the step is none of its own.
LEMMA DealtAlike ==
  ASSUME NEW p, NEW m, Dealt(p, m), Got(p)' = Got(p), asked'[p] = asked[p], p \in broken' <=> p \in broken,
         \A i \in DOMAIN pastes': pastes'[i].id = p => \E j \in DOMAIN pastes: pastes[j].id = p /\ pastes[j].todo = pastes'[i].todo,
         (\E j \in DOMAIN pastes: pastes[j].id = p) => \E i \in DOMAIN pastes': pastes'[i].id = p
  PROVE  Dealt(p, m)'
<1>1. (\E h: Gets(Got(p), Wanted(asked[p]), m, h))'
  BY DEF Dealt
<1>2. (p \notin broken => Len(Got(p)) = m /\ \A k \in 1 .. m: Got(p)[k] = Wanted(asked[p])[k])'
  BY DEF Dealt
<1>3. (\A i \in DOMAIN pastes: pastes[i].id = p => Rest(pastes[i].todo, Wanted(asked[p]), m))'
  BY DEF Dealt
<1>4. (p \in broken \/ m = Len(Wanted(asked[p])) \/ \E i \in DOMAIN pastes: pastes[i].id = p)'
  BY DEF Dealt
<1> QED
  BY <1>1, <1>2, <1>3, <1>4 DEF Dealt

\* What is sent to the shell, of the view that is there.
LEMMA SentIs ==
  ASSUME ClipType, NEW v \in Data, NEW gen, NEW paste \in Nat, Sent(v, gen, paste)
  PROVE  \/ UNCHANGED <<sent, echoed>> /\ ~(wrap.loaded /\ gen = wrap.gen)
         \/ /\ wrap.loaded /\ gen = wrap.gen
            /\ \E x \in Input: /\ x.v = v /\ x.paste = paste /\ sent' = Append(sent, x)
                               /\ echoed' = IF x.mirrored THEN Append(echoed, x.v) ELSE echoed
<1>1. CASE wrap.loaded /\ gen = wrap.gen
  <2>1. PICK x: x = [v |-> v, paste |-> paste, mirrored |-> wrap.mirrors]
    OBVIOUS
  <2>2. x \in Input /\ x.v = v /\ x.paste = paste /\ x.mirrored = wrap.mirrors
    BY <2>1 DEF Input, ClipType
  <2>3. sent' = Append(sent, x) /\ echoed' = IF wrap.mirrors THEN Append(echoed, v) ELSE echoed
    BY <1>1, <2>1 DEF Sent
  <2> QED
    BY <1>1, <2>2, <2>3
<1>2. CASE ~(wrap.loaded /\ gen = wrap.gen)
  BY <1>2 DEF Sent
<1> QED
  BY <1>1, <1>2

\* What is mirrored is echoed.
LEMMA EchoMore ==
  ASSUME sent \in Seq(Input), echoed \in Seq(Data), EchoedOnce, NEW x \in Input, sent' = Append(sent, x),
         echoed' = IF x.mirrored THEN Append(echoed, x.v) ELSE echoed
  PROVE  sent' \in Seq(Input) /\ echoed' \in Seq(Data) /\ EchoedOnce'
<1>1. x.v \in Data
  BY DEF Input
<1>2. sent' \in Seq(Input)
  BY Appended
<1>3. echoed' \in Seq(Data)
  <2>1. Append(echoed, x.v) \in Seq(Data)
    BY <1>1, Appended
  <2> QED
    BY <2>1
<1>4. EchoedOnce'
  BY OneMoreInput DEF EchoedOnce
<1> QED
  BY <1>2, <1>3, <1>4

\* What is typed, and what answers.
LEMMA TypedStep ==
  ASSUME ClipType, EchoedOnce, PasteInv, UNCHANGED <<pastes, asked, broken>>, NEW x \in Input, x.paste = 0,
         sent' = Append(sent, x), echoed' = IF x.mirrored THEN Append(echoed, x.v) ELSE echoed
  PROVE  InputInv'
<1>0. pastes \in Seq(Paste) /\ asked \in Seq(Seq(Item)) /\ sent \in Seq(Input) /\ echoed \in Seq(Data)
  BY DEF ClipType
<1>1. sent' \in Seq(Input) /\ echoed' \in Seq(Data) /\ EchoedOnce'
  BY <1>0, EchoMore
<1>2. DOMAIN asked = 1 .. Len(asked) /\ Len(asked) \in Nat
  BY <1>0, Places
<1>3. ASSUME NEW i \in DOMAIN sent' PROVE sent'[i].paste <= Len(asked)
  <2>1. Len(sent) \in Nat /\ Len(sent') = Len(sent) + 1 /\ sent'[Len(sent) + 1] = x /\ \A k \in 1 .. Len(sent): sent'[k] = sent[k]
    BY <1>0, Appended
  <2>2. DOMAIN sent' = 1 .. Len(sent) + 1 /\ DOMAIN sent = 1 .. Len(sent)
    BY <1>0, <1>1, <2>1, Places
  <2>3. CASE i = Len(sent) + 1
    BY <1>2, <2>1, <2>3
  <2>4. CASE i \in 1 .. Len(sent)
    BY <2>1, <2>2, <2>4 DEF PasteInv
  <2> QED
    BY <2>1, <2>2, <2>3, <2>4
<1>4. ASSUME NEW p \in DOMAIN asked PROVE (\E m \in 0 .. Len(Wanted(asked[p])): Dealt(p, m))'
  <2>1. Got(p)' = Got(p)
    <3>1. x.paste # p
      BY <1>2
    <3> QED
      BY <1>0, <3>1, OneMoreInput
  <2>2. PICK m \in 0 .. Len(Wanted(asked[p])): Dealt(p, m)
    BY DEF PasteInv
  <2>3. Dealt(p, m)'
    BY <2>1, <2>2, DealtAlike
  <2> QED
    BY <2>2, <2>3
<1>5. PasteInv'
  BY <1>3, <1>4 DEF PasteInv
<1> QED
  BY <1>0, <1>1, <1>5 DEF InputInv

\* A paste that begins has everything still to come.
LEMMA BeginsStep ==
  ASSUME ClipType, EchoedOnce, PasteInv, PasteBegins
  PROVE  InputInv'
<1>n. PICK n: n = Len(asked)
  OBVIOUS
<1>l. PICK l: l = Len(pastes)
  OBVIOUS
<1> DEFINE todo == extractDataTransferItems(clip.items)
           q == [id |-> n + 1, gen |-> wrap.gen, todo |-> todo]
<1>0. /\ pastes \in Seq(Paste) /\ asked \in Seq(Seq(Item)) /\ sent \in Seq(Input) /\ echoed \in Seq(Data)
      /\ clip.items \in Seq(Item) /\ wrap.gen \in Nat
  BY DEF ClipType
<1>1. asked' = Append(asked, clip.items) /\ pastes' = Append(pastes, q) /\ UNCHANGED <<broken, sent, echoed>>
  BY <1>n DEF PasteBegins
<1>2. todo \in Seq(Item) /\ DataOf(todo) = Wanted(clip.items)
  BY <1>0, ReadAsWanted
<1>3. n \in Nat /\ asked' \in Seq(Seq(Item)) /\ Len(asked') = n + 1 /\ asked'[n + 1] = clip.items
      /\ \A k \in 1 .. n: asked'[k] = asked[k]
  BY <1>0, <1>1, <1>n, Appended
<1>4. q \in Paste /\ q.id = n + 1 /\ q.todo = todo
  BY <1>0, <1>2, <1>3 DEF Paste
<1> HIDE DEF q, todo
<1>5. l \in Nat /\ pastes' \in Seq(Paste) /\ Len(pastes') = l + 1 /\ pastes'[l + 1] = q
      /\ \A k \in 1 .. l: pastes'[k] = pastes[k]
  BY <1>0, <1>1, <1>4, <1>l, Appended
<1>6. /\ DOMAIN pastes = 1 .. l /\ DOMAIN pastes' = 1 .. l + 1
      /\ DOMAIN asked = 1 .. n /\ DOMAIN asked' = 1 .. n + 1
  BY <1>0, <1>3, <1>5, <1>n, <1>l, Places
<1>7. \A i \in 1 .. l: pastes[i].id \in 1 .. n
  BY <1>6, <1>n DEF PasteInv
<1>8. \A i \in 1 .. l + 1: i = l + 1 \/ i \in 1 .. l
  BY <1>5
<1>9. ASSUME NEW i \in 1 .. l + 1 PROVE pastes'[i].id \in 1 .. n + 1
  <2>1. CASE i = l + 1
    BY <1>3, <1>4, <1>5, <2>1
  <2>2. CASE i \in 1 .. l
    <3>1. PICK k: k = pastes[i].id
      OBVIOUS
    <3>2. k \in 1 .. n /\ pastes'[i].id = k
      BY <1>5, <1>7, <2>2, <3>1
    <3> QED
      BY <1>3, <3>2
  <2> QED
    BY <1>8, <2>1, <2>2
<1>10. ASSUME NEW i \in 1 .. l + 1, NEW j \in 1 .. l + 1, pastes'[i].id = pastes'[j].id PROVE i = j
  <2>1. ASSUME NEW k \in 1 .. l PROVE pastes'[k].id = pastes[k].id /\ pastes'[k].id # n + 1
    <3>1. PICK d: d = pastes[k].id
      OBVIOUS
    <3>2. d \in 1 .. n /\ pastes'[k].id = d
      BY <1>5, <1>7, <3>1
    <3>3. d # n + 1
      BY <1>3, <3>2
    <3> QED
      BY <3>1, <3>2, <3>3
  <2>2. pastes'[l + 1].id = n + 1
    BY <1>4, <1>5
  <2>3. CASE i = l + 1 \/ j = l + 1
    BY <1>8, <1>10, <2>1, <2>2, <2>3
  <2>4. CASE i \in 1 .. l /\ j \in 1 .. l
    BY <1>6, <1>10, <2>1, <2>4 DEF PasteInv
  <2> QED
    BY <1>8, <2>3, <2>4
<1>11. \A i \in DOMAIN sent: sent[i].paste <= n /\ sent[i].paste \in Nat
  <2>1. \A i \in DOMAIN sent: sent[i].paste <= n
    BY <1>n DEF PasteInv
  <2>2. \A i \in DOMAIN sent: sent[i] \in Input
    BY <1>0, Places, ElementOfSeq
  <2> QED
    BY <2>1, <2>2 DEF Input
<1>12. ASSUME NEW p \in 1 .. n PROVE (\E m \in 0 .. Len(Wanted(asked[p])): Dealt(p, m))'
  <2>1. PICK m \in 0 .. Len(Wanted(asked[p])): Dealt(p, m)
    BY <1>6 DEF PasteInv
  <2>2. Got(p)' = Got(p)
    BY <1>1 DEF Got
  <2>3. asked'[p] = asked[p]
    BY <1>3
  <2>4. ASSUME NEW i \in DOMAIN pastes', pastes'[i].id = p
        PROVE  \E j \in DOMAIN pastes: pastes[j].id = p /\ pastes[j].todo = pastes'[i].todo
    <3>1. p # n + 1
      BY <1>3
    <3>2. i # l + 1
      BY <1>4, <1>5, <2>4, <3>1
    <3>3. i \in 1 .. l
      BY <1>6, <1>8, <3>2
    <3> QED
      BY <1>5, <1>6, <2>4, <3>3
  <2>5. (\E j \in DOMAIN pastes: pastes[j].id = p) => \E i \in DOMAIN pastes': pastes'[i].id = p
    BY <1>5, <1>6
  <2>6. Dealt(p, m)'
    BY <1>1, <2>1, <2>2, <2>3, <2>4, <2>5, DealtAlike
  <2> QED
    BY <2>1, <2>3, <2>6
<1>13. (\E m \in 0 .. Len(Wanted(asked[n + 1])): Dealt(n + 1, m))'
  <2> DEFINE want == Wanted(clip.items)
  <2>1. Got(n + 1)' = <<>>
    <3>1. \A i \in 1 .. Len(sent): i \notin {k \in DOMAIN sent: sent[k].paste = n + 1}
      BY <1>3, <1>11
    <3>2. Only(sent, {k \in DOMAIN sent: sent[k].paste = n + 1}) = <<>>
      BY <1>0, <3>1, OnlyNone
    <3>3. InputValues(<<>>) = <<>>
      BY DEF InputValues
    <3>4. Got(n + 1) = <<>>
      BY <3>2, <3>3 DEF Got
    <3> QED
      BY <1>1, <3>4 DEF Got
  <2>2. want \in Seq(Data) /\ Len(want) \in Nat /\ Len(want) = Len(todo) /\ \A k \in 1 .. Len(todo): todo[k].val = want[k]
    BY <1>0, <1>2, WantedTyped, ValuesAre
  <2> HIDE DEF want
  <2>3. Rest(todo, want, 0)
    BY <1>2, <2>2 DEF Rest
  <2>4. \E h: Gets(<<>>, want, 0, h)
    <3>1. PICK h: h = [k \in 1 .. 0 |-> k]
      OBVIOUS
    <3>2. Gets(<<>>, want, 0, h)
      BY <3>1 DEF Gets
    <3> QED
      BY <3>2
  <2>5. \A i \in 1 .. l + 1: pastes'[i].id = n + 1 => pastes'[i].todo = todo
    <3>1. \A i \in 1 .. l: pastes'[i].id # n + 1
      BY <1>3, <1>5, <1>7
    <3> QED
      BY <1>4, <1>5, <1>8, <3>1
  <2>6. Wanted(asked'[n + 1]) = want
    BY <1>3 DEF want
  <2>7. Dealt(n + 1, 0)'
    <3>1. l + 1 \in DOMAIN pastes' /\ pastes'[l + 1].id = n + 1
      BY <1>4, <1>5, <1>6
    <3>2. \A i \in DOMAIN pastes': pastes'[i].id = n + 1 => Rest(pastes'[i].todo, want, 0)
      BY <1>6, <2>3, <2>5
    <3>3. Len(<<>>) = 0
      OBVIOUS
    <3> QED
      BY <2>1, <2>4, <2>6, <3>1, <3>2, <3>3 DEF Dealt
  <2> QED
    BY <2>2, <2>6, <2>7
<1>14. PasteInv'
  <2>1. \A p \in 1 .. n + 1: p = n + 1 \/ p \in 1 .. n
    BY <1>3
  <2>2. \A i \in DOMAIN sent: sent[i].paste <= n + 1
    BY <1>3, <1>11
  <2>3. (\A p \in DOMAIN asked: \E m \in 0 .. Len(Wanted(asked[p])): Dealt(p, m))'
    BY <1>6, <1>12, <1>13, <2>1
  <2> QED
    BY <1>1, <1>3, <1>6, <1>9, <1>10, <2>2, <2>3 DEF PasteInv
<1>15. EchoedOnce'
  BY <1>1 DEF EchoedOnce
<1> QED
  BY <1>0, <1>1, <1>3, <1>5, <1>14, <1>15 DEF InputInv

\* A paste that goes on, whose first value that was to come is sent, or broken off.
LEMMA GoesOnStep ==
  ASSUME ClipType, EchoedOnce, PasteInv, NEW i \in DOMAIN pastes, PasteGoesOn(i)
  PROVE  InputInv'
<1>p. PICK p: p = pastes[i].id
  OBVIOUS
<1>t. PICK todo: todo = pastes[i].todo
  OBVIOUS
<1>w. PICK want: want = Wanted(asked[p])
  OBVIOUS
<1>0. /\ pastes \in Seq(Paste) /\ asked \in Seq(Seq(Item)) /\ sent \in Seq(Input) /\ echoed \in Seq(Data)
  BY DEF ClipType
<1>1. DOMAIN pastes = 1 .. Len(pastes) /\ DOMAIN asked = 1 .. Len(asked) /\ Len(asked) \in Nat
  BY <1>0, Places
<1>2. pastes[i] \in Paste /\ todo \in Seq(Item) /\ p \in 1 .. Len(asked) /\ p \in Nat
  <2>1. pastes[i] \in Paste
    BY <1>0, <1>1, ElementOfSeq
  <2>2. p \in 1 .. Len(asked)
    BY <1>p DEF PasteInv
  <2> QED
    BY <1>t, <1>1, <2>1, <2>2 DEF Paste
<1>3. todo # <<>> /\ Sent(Head(todo).val, pastes[i].gen, p) /\ UNCHANGED asked
  BY <1>p, <1>t DEF PasteGoesOn
<1>4. broken' = IF wrap.loaded /\ pastes[i].gen = wrap.gen THEN broken ELSE broken \cup {p}
  BY <1>p DEF PasteGoesOn, Breaks
<1>5. pastes' = [pastes EXCEPT ![i] = [pastes[i] EXCEPT !.todo = Tail(todo)]]
  BY <1>t DEF PasteGoesOn
<1>6. /\ Head(todo) \in Item /\ Head(todo) = todo[1] /\ Tail(todo) \in Seq(Item) /\ Len(todo) \in Nat \ {0}
      /\ Len(Tail(todo)) = Len(todo) - 1 /\ \A k \in 1 .. Len(Tail(todo)): Tail(todo)[k] = todo[k + 1]
  BY <1>2, <1>3, Shortened
<1>7. Head(todo).val \in Data
  BY <1>6, ItemIs
<1>8. /\ DOMAIN pastes' = DOMAIN pastes /\ pastes' \in Seq(Paste)
      /\ \A j \in DOMAIN pastes: pastes'[j].id = pastes[j].id
      /\ pastes'[i].todo = Tail(todo)
      /\ \A j \in DOMAIN pastes: j # i => pastes'[j] = pastes[j]
  <2>1. PICK q: q = [pastes[i] EXCEPT !.todo = Tail(todo)]
    OBVIOUS
  <2>2. q \in Paste /\ q.id = p /\ q.todo = Tail(todo)
    BY <1>2, <1>6, <1>p, <2>1 DEF Paste
  <2>3. pastes' = [pastes EXCEPT ![i] = q]
    BY <1>5, <2>1
  <2> QED
    BY <1>0, <1>p, <2>2, <2>3
<1>9. \A j \in DOMAIN pastes: pastes[j].id = p => j = i
  BY <1>p DEF PasteInv
<1>10. PICK m \in 0 .. Len(want): Dealt(p, m)
  BY <1>1, <1>2, <1>w DEF PasteInv
<1>11. asked[p] \in Seq(Item)
  BY <1>0, <1>2, ElementOfSeq
<1>12. want \in Seq(Data) /\ Len(want) \in Nat /\ m \in Nat
  BY <1>10, <1>11, <1>w, WantedTyped
<1>13. Rest(todo, want, m)
  BY <1>10, <1>p, <1>t, <1>w DEF Dealt
<1>14. m < Len(want) /\ Head(todo).val = want[m + 1] /\ m + 1 \in 0 .. Len(want) /\ Rest(Tail(todo), want, m + 1)
  <2>1. Len(todo) = Len(want) - m /\ \A k \in 1 .. Len(todo): todo[k].val = want[m + k]
    BY <1>13 DEF Rest
  <2>2. m < Len(want) /\ m + 1 \in 0 .. Len(want) /\ 1 \in 1 .. Len(todo)
    BY <1>6, <1>12, <2>1
  <2>3. Len(Tail(todo)) = Len(want) - (m + 1)
    BY <1>6, <1>12, <2>1
  <2>4. ASSUME NEW k \in 1 .. Len(Tail(todo)) PROVE Tail(todo)[k].val = want[m + 1 + k]
    <3>1. k + 1 \in 1 .. Len(todo) /\ m + (k + 1) = m + 1 + k
      BY <1>6, <1>12
    <3> QED
      BY <1>6, <2>1, <3>1
  <2> QED
    BY <1>6, <2>1, <2>2, <2>3, <2>4 DEF Rest
<1>15. PICK got \in Seq(Data): got = Got(p)
  BY <1>0, GotIs
<1>16. PICK h: Gets(got, want, m, h)
  BY <1>10, <1>15, <1>w DEF Dealt
<1>17. Gets(got, want, m + 1, h) /\ \E g: Gets(Append(got, want[m + 1]), want, m + 1, g)
  BY <1>12, <1>14, <1>16, GetsMore
<1>18. p \notin broken => Len(got) = m /\ \A k \in 1 .. m: got[k] = want[k]
  BY <1>10, <1>15, <1>w DEF Dealt
<1>19. /\ \A j \in DOMAIN pastes': pastes'[j].id = p => pastes'[j].todo = Tail(todo)
       /\ \E j \in DOMAIN pastes': pastes'[j].id = p
  BY <1>8, <1>9, <1>p
\* Another paste is as it was.
<1>20. ASSUME NEW o \in DOMAIN asked, o # p, Got(o)' = Got(o)
       PROVE  (\E n \in 0 .. Len(Wanted(asked[o])): Dealt(o, n))'
  <2>1. PICK n \in 0 .. Len(Wanted(asked[o])): Dealt(o, n)
    BY DEF PasteInv
  <2>2. o \in broken' <=> o \in broken
    BY <1>4, <1>20
  <2>3. \A j \in DOMAIN pastes': pastes'[j].id = o => \E k \in DOMAIN pastes: pastes[k].id = o /\ pastes[k].todo = pastes'[j].todo
    BY <1>8, <1>20, <1>p
  <2>4. (\E j \in DOMAIN pastes: pastes[j].id = o) => \E k \in DOMAIN pastes': pastes'[k].id = o
    BY <1>8
  <2>5. Dealt(o, n)'
    BY <1>3, <1>20, <2>1, <2>2, <2>3, <2>4, DealtAlike
  <2> QED
    BY <1>3, <2>1, <2>5
<1>21. CASE UNCHANGED <<sent, echoed>> /\ ~(wrap.loaded /\ pastes[i].gen = wrap.gen)
  <2>1. p \in broken'
    BY <1>4, <1>21
  <2>2. \A o: Got(o)' = Got(o)
    BY <1>21 DEF Got
  <2>3. Dealt(p, m + 1)'
    <3>1. Got(p)' = got /\ Wanted(asked'[p]) = want
      BY <1>3, <1>15, <1>w, <2>2
    <3>2. \A j \in DOMAIN pastes': pastes'[j].id = p => Rest(pastes'[j].todo, want, m + 1)
      BY <1>14, <1>19
    <3> QED
      BY <1>17, <2>1, <3>1, <3>2 DEF Dealt
  <2>4. (\A o \in DOMAIN asked: \E n \in 0 .. Len(Wanted(asked[o])): Dealt(o, n))'
    BY <1>3, <1>14, <1>20, <1>w, <2>2, <2>3
  <2>5. PasteInv'
    BY <1>3, <1>8, <1>21, <2>4 DEF PasteInv
  <2>6. EchoedOnce'
    BY <1>21 DEF EchoedOnce
  <2> QED
    BY <1>0, <1>3, <1>8, <1>21, <2>5, <2>6 DEF InputInv
<1>22. CASE /\ wrap.loaded /\ pastes[i].gen = wrap.gen
            /\ \E x \in Input: /\ x.v = Head(todo).val /\ x.paste = p /\ sent' = Append(sent, x)
                               /\ echoed' = IF x.mirrored THEN Append(echoed, x.v) ELSE echoed
  <2>1. PICK x \in Input: /\ x.v = Head(todo).val /\ x.paste = p /\ sent' = Append(sent, x)
                          /\ echoed' = IF x.mirrored THEN Append(echoed, x.v) ELSE echoed
    BY <1>22
  <2>2. broken' = broken
    BY <1>4, <1>22
  <2>3. sent' \in Seq(Input) /\ echoed' \in Seq(Data) /\ EchoedOnce'
    BY <1>0, <2>1, EchoMore
  <2>4. \A o: Got(o)' = IF o = p THEN Append(Got(o), want[m + 1]) ELSE Got(o)
    BY <1>0, <1>14, <2>1, OneMoreInput
  <2>5. Dealt(p, m + 1)'
    <3>1. PICK more: more = Append(got, want[m + 1])
      OBVIOUS
    <3>2. Got(p)' = more /\ Wanted(asked'[p]) = want
      BY <1>3, <1>15, <1>w, <2>4, <3>1
    <3>3. \A j \in DOMAIN pastes': pastes'[j].id = p => Rest(pastes'[j].todo, want, m + 1)
      BY <1>14, <1>19
    <3>4. p \notin broken => Len(more) = m + 1 /\ \A k \in 1 .. m + 1: more[k] = want[k]
      <4>1. Len(more) = Len(got) + 1 /\ more[Len(got) + 1] = want[m + 1] /\ \A k \in 1 .. Len(got): more[k] = got[k]
        BY <1>7, <1>14, <1>15, <3>1, Appended
      <4>2. \A k \in 1 .. m + 1: k = m + 1 \/ k \in 1 .. m
        BY <1>12
      <4>3. ASSUME p \notin broken, NEW k \in 1 .. m + 1 PROVE more[k] = want[k]
        BY <1>18, <4>1, <4>2, <4>3
      <4>4. ASSUME p \notin broken PROVE Len(more) = m + 1
        BY <1>18, <4>1, <4>4
      <4> QED
        BY <4>3, <4>4
    <3>5. \E g: Gets(more, want, m + 1, g)
      BY <1>17, <3>1
    <3> QED
      BY <1>19, <2>2, <3>2, <3>3, <3>4, <3>5 DEF Dealt
  <2>6. (\A o \in DOMAIN asked: \E n \in 0 .. Len(Wanted(asked[o])): Dealt(o, n))'
    BY <1>3, <1>14, <1>20, <1>w, <2>4, <2>5
  <2>7. ASSUME NEW k \in DOMAIN sent' PROVE sent'[k].paste <= Len(asked)
    <3>1. Len(sent) \in Nat /\ Len(sent') = Len(sent) + 1 /\ sent'[Len(sent) + 1] = x /\ \A j \in 1 .. Len(sent): sent'[j] = sent[j]
      BY <1>0, <2>1, Appended
    <3>2. DOMAIN sent' = 1 .. Len(sent) + 1 /\ DOMAIN sent = 1 .. Len(sent)
      BY <1>0, <2>3, <3>1, Places
    <3>3. CASE k = Len(sent) + 1
      <4>1. p <= Len(asked)
        BY <1>1, <1>2
      <4>2. sent'[k].paste = p
        BY <2>1, <3>1, <3>3
      <4> QED
        BY <4>1, <4>2
    <3>4. CASE k \in 1 .. Len(sent)
      BY <3>1, <3>2, <3>4 DEF PasteInv
    <3> QED
      BY <3>1, <3>2, <3>3, <3>4
  <2>8. PasteInv'
    BY <1>3, <1>8, <2>6, <2>7 DEF PasteInv
  <2> QED
    BY <1>0, <1>3, <1>8, <2>3, <2>8 DEF InputInv
<1>23. \/ UNCHANGED <<sent, echoed>> /\ ~(wrap.loaded /\ pastes[i].gen = wrap.gen)
       \/ /\ wrap.loaded /\ pastes[i].gen = wrap.gen
          /\ \E x \in Input: /\ x.v = Head(todo).val /\ x.paste = p /\ sent' = Append(sent, x)
                             /\ echoed' = IF x.mirrored THEN Append(echoed, x.v) ELSE echoed
  BY <1>2, <1>3, <1>7, SentIs
<1> QED
  BY <1>21, <1>22, <1>23

\* A paste that is over: it failed, or nothing is left of it.
LEMMA LeavesStep ==
  ASSUME ClipType, EchoedOnce, PasteInv, NEW i \in DOMAIN pastes, PasteFails(i) \/ PasteEnds(i)
  PROVE  InputInv'
<1>p. PICK p: p = pastes[i].id
  OBVIOUS
<1>l. PICK l: l = Len(pastes)
  OBVIOUS
<1>0. /\ pastes \in Seq(Paste) /\ asked \in Seq(Seq(Item)) /\ sent \in Seq(Input) /\ echoed \in Seq(Data)
  BY DEF ClipType
<1>1. pastes' = RemoveAt(pastes, i) /\ UNCHANGED <<asked, sent, echoed>>
  BY DEF PasteFails, PasteEnds
<1>2. broken' = broken \cup {p} \/ (broken' = broken /\ pastes[i].todo = <<>>)
  <2>1. CASE PasteFails(i)
    <3>1. broken' = broken \cup {pastes[i].id}
      BY <2>1 DEF PasteFails
    <3> QED
      BY <1>p, <3>1
  <2>2. CASE PasteEnds(i)
    BY <2>2 DEF PasteEnds
  <2> QED
    BY <2>1, <2>2
<1>3. DOMAIN pastes = 1 .. l /\ l \in Nat /\ i \in 1 .. l /\ DOMAIN asked = 1 .. Len(asked) /\ Len(asked) \in Nat
  BY <1>0, <1>l, Places
<1>4. /\ pastes' \in Seq(Paste) /\ Len(pastes') = l - 1
      /\ \A j \in 1 .. l - 1: pastes'[j] = pastes[IF j < i THEN j ELSE j + 1]
  <2>1. /\ RemoveAt(pastes, i) \in Seq(Paste) /\ Len(RemoveAt(pastes, i)) = Len(pastes) - 1
        /\ \A j \in 1 .. Len(pastes) - 1: RemoveAt(pastes, i)[j] = pastes[IF j < i THEN j ELSE j + 1]
    <3>1. i \in 1 .. Len(pastes)
      BY <1>3, <1>l
    <3> QED
      BY <1>0, <3>1, RemoveAtIs
  <2> QED
    BY <1>1, <1>l, <2>1
<1>5. DOMAIN pastes' = 1 .. l - 1
  BY <1>4, Places
<1>6. \A j \in 1 .. l - 1: (IF j < i THEN j ELSE j + 1) \in 1 .. l \ {i}
  BY <1>3
<1>7. \A j, k \in 1 .. l - 1: (IF j < i THEN j ELSE j + 1) = (IF k < i THEN k ELSE k + 1) => j = k
  BY <1>3
<1>8. \A k \in 1 .. l: k # i => \E j \in 1 .. l - 1: pastes'[j] = pastes[k]
  <2>1. ASSUME NEW k \in 1 .. l, k # i PROVE \E j \in 1 .. l - 1: pastes'[j] = pastes[k]
    <3>1. CASE k < i
      <4>1. k \in 1 .. l - 1
        BY <1>3, <3>1
      <4> QED
        BY <1>4, <3>1, <4>1
    <3>2. CASE ~(k < i)
      <4>1. k - 1 \in 1 .. l - 1 /\ ~(k - 1 < i) /\ (k - 1) + 1 = k
        BY <1>3, <2>1, <3>2
      <4> QED
        BY <1>4, <4>1
    <3> QED
      BY <3>1, <3>2
  <2> QED
    BY <2>1
<1>9. \A j \in DOMAIN pastes': \E k \in DOMAIN pastes: k # i /\ pastes'[j] = pastes[k]
  BY <1>3, <1>4, <1>5, <1>6
<1>10. \A j \in DOMAIN pastes: pastes[j].id = p => j = i
  BY <1>p DEF PasteInv
<1>11. \A j \in DOMAIN pastes': pastes'[j].id \in 1 .. Len(asked) /\ pastes'[j].id # p
  BY <1>9, <1>10 DEF PasteInv
<1>12. ASSUME NEW j \in DOMAIN pastes', NEW k \in DOMAIN pastes', pastes'[j].id = pastes'[k].id PROVE j = k
  <2>1. PICK a \in 1 .. l: a = (IF j < i THEN j ELSE j + 1) /\ pastes'[j] = pastes[a]
    BY <1>4, <1>5, <1>6
  <2>2. PICK b \in 1 .. l: b = (IF k < i THEN k ELSE k + 1) /\ pastes'[k] = pastes[b]
    BY <1>4, <1>5, <1>6
  <2>3. a = b
    BY <1>3, <1>12, <2>1, <2>2 DEF PasteInv
  <2> QED
    BY <1>5, <1>7, <2>1, <2>2, <2>3
<1>13. \A o: Got(o)' = Got(o)
  BY <1>1 DEF Got
<1>14. ASSUME NEW o \in DOMAIN asked, o # p PROVE (\E m \in 0 .. Len(Wanted(asked[o])): Dealt(o, m))'
  <2>1. PICK m \in 0 .. Len(Wanted(asked[o])): Dealt(o, m)
    BY DEF PasteInv
  <2>2. o \in broken' <=> o \in broken
    BY <1>2, <1>14
  <2>3. \A j \in DOMAIN pastes': pastes'[j].id = o => \E k \in DOMAIN pastes: pastes[k].id = o /\ pastes[k].todo = pastes'[j].todo
    BY <1>9
  <2>4. (\E j \in DOMAIN pastes: pastes[j].id = o) => \E k \in DOMAIN pastes': pastes'[k].id = o
    <3>1. ASSUME NEW j \in DOMAIN pastes, pastes[j].id = o PROVE \E k \in DOMAIN pastes': pastes'[k].id = o
      <4>1. j # i
        BY <1>14, <1>p, <3>1
      <4> QED
        BY <1>3, <1>5, <1>8, <3>1, <4>1
    <3> QED
      BY <3>1
  <2>5. Dealt(o, m)'
    BY <1>1, <1>13, <2>1, <2>2, <2>3, <2>4, DealtAlike
  <2> QED
    BY <1>1, <2>1, <2>5
<1>15. (\E m \in 0 .. Len(Wanted(asked[p])): Dealt(p, m))'
  <2>0. p \in DOMAIN asked
    BY <1>3, <1>p DEF PasteInv
  <2>w. PICK want: want = Wanted(asked[p])
    OBVIOUS
  <2>1. PICK m \in 0 .. Len(want): Dealt(p, m)
    BY <2>0, <2>w DEF PasteInv
  <2>2. want \in Seq(Data) /\ Len(want) \in Nat
    <3>1. asked[p] \in Seq(Item)
      BY <1>0, <1>3, <2>0, ElementOfSeq
    <3> QED
      BY <2>w, <3>1, WantedTyped
  <2>3. p \in broken' \/ m = Len(want)
    <3>1. CASE broken' = broken \cup {p}
      BY <3>1
    <3>2. CASE pastes[i].todo = <<>>
      <4>1. Rest(<<>>, want, m)
        BY <1>p, <2>1, <2>w, <3>2 DEF Dealt
      <4>2. 0 = Len(want) - m
        BY <4>1 DEF Rest
      <4> QED
        BY <2>1, <2>2, <4>2
    <3> QED
      BY <1>2, <3>1, <3>2
  <2>4. p \notin broken' => p \notin broken
    BY <1>2
  <2>5. Got(p)' = Got(p) /\ asked' = asked
    BY <1>1, <1>13
  <2>6. (\E h: Gets(Got(p), Wanted(asked[p]), m, h))'
    BY <2>1, <2>5 DEF Dealt
  <2>7. (p \notin broken => Len(Got(p)) = m /\ \A k \in 1 .. m: Got(p)[k] = Wanted(asked[p])[k])'
    BY <2>1, <2>4, <2>5 DEF Dealt
  <2>8. Dealt(p, m)'
    BY <1>11, <2>3, <2>5, <2>6, <2>7, <2>w DEF Dealt
  <2> QED
    BY <2>1, <2>5, <2>8, <2>w
<1>16. PasteInv'
  <2>1. (\A o \in DOMAIN asked: \E m \in 0 .. Len(Wanted(asked[o])): Dealt(o, m))'
    BY <1>1, <1>14, <1>15
  <2> QED
    BY <1>1, <1>11, <1>12, <2>1 DEF PasteInv
<1>17. EchoedOnce'
  BY <1>1 DEF EchoedOnce
<1> QED
  BY <1>0, <1>1, <1>4, <1>16, <1>17 DEF InputInv

\* Whatever the step is, each paste is dealt with.
LEMMA InputStep ==
  ASSUME ClipInv, ClipNext
  PROVE  InputInv'
<1>0. ClipType /\ EchoedOnce /\ PasteInv
  BY DEF ClipInv
<1>t. /\ pastes \in Seq(Paste) /\ asked \in Seq(Seq(Item)) /\ sent \in Seq(Input) /\ echoed \in Seq(Data)
  BY <1>0 DEF ClipType
<1>1. CASE UNCHANGED <<pastes, asked, broken>> /\ UNCHANGED <<sent, echoed>>
  <2>1. ASSUME NEW p \in DOMAIN asked PROVE (\E m \in 0 .. Len(Wanted(asked[p])): Dealt(p, m))'
    <3>1. PICK m \in 0 .. Len(Wanted(asked[p])): Dealt(p, m)
      BY <1>0 DEF PasteInv
    <3>2. Got(p)' = Got(p)
      BY <1>1 DEF Got
    <3>3. Dealt(p, m)'
      BY <1>1, <3>1, <3>2, DealtAlike
    <3> QED
      BY <1>1, <3>1, <3>3
  <2>2. PasteInv'
    BY <1>0, <1>1, <2>1 DEF PasteInv
  <2>3. EchoedOnce'
    BY <1>0, <1>1 DEF EchoedOnce
  <2> QED
    BY <1>t, <1>1, <2>2, <2>3 DEF InputInv
<1>2. CASE /\ UNCHANGED <<pastes, asked, broken>>
           /\ \E v \in Data: \/ Sent(v, wrap.gen, 0)
                             \/ sent' = Append(sent, [v |-> v, paste |-> 0, mirrored |-> FALSE]) /\ echoed' = echoed
  <2>1. PICK v \in Data: \/ Sent(v, wrap.gen, 0)
                         \/ sent' = Append(sent, [v |-> v, paste |-> 0, mirrored |-> FALSE]) /\ echoed' = echoed
    BY <1>2
  <2>2. \/ UNCHANGED <<sent, echoed>>
        \/ \E x \in Input: /\ x.paste = 0 /\ sent' = Append(sent, x)
                           /\ echoed' = IF x.mirrored THEN Append(echoed, x.v) ELSE echoed
    <3>1. CASE Sent(v, wrap.gen, 0)
      BY <1>0, <3>1, SentIs
    <3>2. CASE sent' = Append(sent, [v |-> v, paste |-> 0, mirrored |-> FALSE]) /\ echoed' = echoed
      <4>1. PICK x: x = [v |-> v, paste |-> 0, mirrored |-> FALSE]
        OBVIOUS
      <4>2. x \in Input /\ x.paste = 0 /\ x.mirrored = FALSE
        BY <4>1 DEF Input
      <4> QED
        BY <3>2, <4>1, <4>2
    <3> QED
      BY <2>1, <3>1, <3>2
  <2>3. CASE UNCHANGED <<sent, echoed>>
    BY <1>1, <1>2, <2>3
  <2>4. CASE \E x \in Input: /\ x.paste = 0 /\ sent' = Append(sent, x)
                             /\ echoed' = IF x.mirrored THEN Append(echoed, x.v) ELSE echoed
    <3>1. PICK x \in Input: /\ x.paste = 0 /\ sent' = Append(sent, x)
                            /\ echoed' = IF x.mirrored THEN Append(echoed, x.v) ELSE echoed
      BY <2>4
    <3> QED
      BY <1>0, <1>2, <3>1, TypedStep
  <2> QED
    BY <2>2, <2>3, <2>4
<1>3. CASE PasteBegins
  BY <1>0, <1>3, BeginsStep
<1>4. CASE \E i \in DOMAIN pastes : PasteGoesOn(i) \/ PasteFails(i) \/ PasteEnds(i)
  BY <1>0, <1>4, GoesOnStep, LeavesStep
<1> QED
  BY <1>0, <1>1, <1>2, <1>3, <1>4, InputFrame

-----------------------------------------------------------------------------
(* TermClip: its theorem *)

\* Each step keeps the invariant.
LEMMA ClipStep ==
  ASSUME ClipInv, ClipNext
  PROVE  ClipInv'
<1>1. ClipType'
  <2>1. wrap' \in [gen: Nat, loaded: BOOLEAN, mirrors: BOOLEAN]
    BY ViewFrame DEF ClipInv
  <2> QED
    BY <2>1, CopyStep, ReplayStep, InputStep DEF ClipType, InputInv
<1> QED
  BY <1>1, CopyStep, ReplayStep, PaintStep, InputStep, ReadingStep DEF ClipInv, InputInv

\* So does a step that changes nothing.
LEMMA ClipStutter ==
  ASSUME ClipInv, UNCHANGED clipVars
  PROVE  ClipInv'
<1>1. UNCHANGED <<clip, wrap, pastes, asked, broken, sent, echoed, sel, selTimer, find, hurried, output, applied, paint, reading>>
  BY DEF clipVars
<1>2. ClipType' /\ CopyInv'
  BY <1>1 DEF ClipInv, ClipType, CopyInv, CopiesMeant
<1>3. ReplayInv' /\ PaintInv'
  BY <1>1 DEF ClipInv, ReplayInv, ReplaySilent, PaintInv, PaintType, ScrollsAfterClear
<1>4. EchoedOnce' /\ ReadsRight'
  BY <1>1 DEF ClipInv, EchoedOnce, ReadsRight
<1>5. PasteInv'
  <2>1. ASSUME NEW p \in DOMAIN asked PROVE (\E m \in 0 .. Len(Wanted(asked[p])): Dealt(p, m))'
    <3>1. PICK m \in 0 .. Len(Wanted(asked[p])): Dealt(p, m)
      BY DEF ClipInv, PasteInv
    <3>2. Got(p)' = Got(p)
      BY <1>1 DEF Got
    <3>3. Dealt(p, m)'
      BY <1>1, <3>1, <3>2, DealtAlike
    <3> QED
      BY <1>1, <3>1, <3>3
  <2> QED
    BY <1>1, <2>1 DEF ClipInv, PasteInv
<1> QED
  BY <1>2, <1>3, <1>4, <1>5 DEF ClipInv

\* At first nothing was pasted, copied or written.
LEMMA ClipBegins ==
  ASSUME ClipInit
  PROVE  ClipInv
<1>1. PICK c \in Contents: clip = [items |-> c, by |-> "user"]
  BY DEF ClipInit
<1>2. c \in Seq(Item)
  BY <1>1, ClipAssumption
<1>3. Blank \in Data
  BY DEF Data
<1>4. ClipType
  <2>1. clip.items \in Seq(Item) /\ sel.text \in Data
    BY <1>1, <1>2, <1>3 DEF ClipInit, NoSel
  <2>2. /\ wrap \in [gen: Nat, loaded: BOOLEAN, mirrors: BOOLEAN] /\ find \in [open: BOOLEAN, focused: BOOLEAN]
        /\ selTimer \in BOOLEAN /\ hurried \in BOOLEAN
    BY DEF ClipInit
  <2>3. /\ pastes = <<>> /\ asked = <<>> /\ sent = <<>> /\ echoed = <<>> /\ output = <<>> /\ applied = <<>>
    BY DEF ClipInit
  <2> QED
    BY <2>1, <2>2, <2>3 DEF ClipType
<1>5. CopyInv
  BY <1>1 DEF ClipInit, CopyInv, CopiesMeant
<1>6. ReplayInv
  BY DEF ClipInit, ReplayInv, ReplaySilent
<1>7. PaintInv
  BY DEF ClipInit, PaintInv, PaintType, NoPaint, ScrollsAfterClear
<1>8. PasteInv
  BY DEF ClipInit, PasteInv
<1>9. EchoedOnce
  <2>1. sent = <<>> /\ echoed = <<>>
    BY DEF ClipInit
  <2>2. sent \in Seq(Input)
    BY <2>1
  <2>3. Only(sent, {i \in DOMAIN sent : sent[i].mirrored}) = <<>>
    <3>1. \A k \in 1 .. Len(sent): k \notin {i \in DOMAIN sent : sent[i].mirrored}
      BY <2>1
    <3> QED
      BY <2>2, <3>1, OnlyNone
  <2>4. InputValues(<<>>) = <<>>
    BY DEF InputValues
  <2> QED
    BY <2>1, <2>3, <2>4 DEF EchoedOnce
<1>10. ReadsRight
  BY DEF ClipInit, ReadsRight
<1> QED
  BY <1>4, <1>5, <1>6, <1>7, <1>8, <1>9, <1>10 DEF ClipInv

\* The invariant says what was promised.
LEMMA ClipInvTells ==
  ASSUME ClipInv
  PROVE  ClipTells
<1>0. /\ pastes \in Seq(Paste) /\ asked \in Seq(Seq(Item)) /\ sent \in Seq(Input)
  BY DEF ClipInv, ClipType
<1>1. ASSUME NEW p \in DOMAIN asked
      PROVE  /\ Len(Got(p)) <= Len(Wanted(asked[p]))
             /\ \A i \in DOMAIN Got(p) : \E k \in i..Len(Wanted(asked[p])) : Wanted(asked[p])[k] = Got(p)[i]
             /\ \A i, j \in DOMAIN Got(p) : i < j => \E k, l \in DOMAIN Wanted(asked[p]) :
                  k < l /\ Wanted(asked[p])[k] = Got(p)[i] /\ Wanted(asked[p])[l] = Got(p)[j]
             /\ (p \notin broken /\ \A i \in DOMAIN pastes : pastes[i].id # p) => Got(p) = Wanted(asked[p])
  <2>1. PICK got \in Seq(Data): got = Got(p)
    BY <1>0, GotIs
  <2>2. PICK want \in Seq(Data): want = Wanted(asked[p])
    <3>1. asked[p] \in Seq(Item)
      BY <1>0, Places, ElementOfSeq
    <3> QED
      BY <3>1, WantedTyped
  <2>3. PICK m \in 0 .. Len(want): Dealt(p, m)
    BY <2>2 DEF ClipInv, PasteInv
  <2>4. PICK h: Gets(got, want, m, h)
    BY <2>1, <2>2, <2>3 DEF Dealt
  <2>5. /\ Len(got) <= Len(want)
        /\ \A i \in DOMAIN got : \E k \in i..Len(want) : want[k] = got[i]
        /\ \A i, j \in DOMAIN got : i < j => \E k, l \in DOMAIN want : k < l /\ want[k] = got[i] /\ want[l] = got[j]
    BY <2>4, GetsTells
  <2>6. ASSUME p \notin broken, \A i \in DOMAIN pastes : pastes[i].id # p PROVE got = want
    <3>1. m = Len(want) /\ Len(got) = m /\ \A k \in 1 .. m: got[k] = want[k]
      BY <2>1, <2>2, <2>3, <2>6 DEF Dealt
    <3> QED
      BY <3>1
  <2> QED
    BY <2>1, <2>2, <2>5, <2>6
<1>2. PastesKept
  BY <1>1 DEF PastesKept, Got
<1> QED
  BY <1>2 DEF ClipInv, CopyInv, ReplayInv, PaintInv, ClipTells

\* For whatever is on the clipboards and in the buffers, and however many pastes, views and
\* inputs there are: of each paste the shell got what was wanted, in order, and all of it unless
\* it was broken off; no match is copied that nobody asked for; a replay has no effect; what is
\* mirrored is echoed once; the view scrolls after a clearing only; what is read is right.
THEOREM ClipAlwaysTells == ClipSpec => []ClipTells
<1>1. ClipInit => ClipInv
  BY ClipBegins
<1>2. ClipInv /\ [ClipNext]_clipVars => ClipInv'
  BY ClipStep, ClipStutter
<1>3. ClipInv => ClipTells
  BY ClipInvTells
<1> QED
  BY <1>1, <1>2, <1>3, PTL DEF ClipSpec

=============================================================================

---------------------------- MODULE AgentWorkdirs ----------------------------
(***************************************************************************)
(* Where an agent works, from what its host says: its processes, the state *)
(* files Claude Code keeps and the records of a conversation's log         *)
(* (internal/session/local.go, workdir.go, claude_state.go).               *)
(*                                                                         *)
(* A record is what can be read of it: a line that is no JSON, or of a     *)
(* kind nothing is read from, is none of these.                            *)
(***************************************************************************)
EXTENDS Naturals, FiniteSets, Sequences, SequencesExt

CONSTANTS
  Dirs,   \* working directories
  Pids,   \* process IDs, of one host
  NoDir

ASSUME WorkdirsAssumption == Pids \subseteq Nat \ {0} /\ IsFiniteSet(Pids) /\ NoDir \notin Dirs

MaybeDir == Dirs \cup {NoDir}

\* Those of a list at some places, in their order.
Those(list, places) ==
  LET kept[n \in 0..Len(list)] ==
        IF n = 0 THEN <<>> ELSE IF n \in places THEN Append(kept[n - 1], list[n]) ELSE kept[n - 1]
  IN kept[Len(list)]

-----------------------------------------------------------------------------
(* Processes: whose child each is, what it runs and where.  "gone" is no   *)
(* process; "claude" and "codex" are interactive sessions by the agents'   *)
(* own rules.                                                              *)

Programs == {"gone", "shell", "claude", "codex"}
Tables   == [Pids -> [parent : Pids \cup {0}, runs : Programs, cwd : Dirs]]

Alive(table) == {p \in Pids : table[p].runs # "gone"}

\* descendantPIDs: the process and those under it, whatever their depth.
DescendantPIDs(table, root) ==
  LET Within[n \in 0..Cardinality(Pids)] ==
        IF n = 0 THEN {root}
        ELSE Within[n - 1] \cup {p \in Alive(table) : table[p].parent \in Within[n - 1]}
  IN Within[Cardinality(Pids)] \cap Alive(table)

IsInteractiveAgentCommand(runs) == runs \in {"claude", "codex"}

\* newestInteractiveAgentDescendantPID; 0 is none.
AgentOf(table, root) ==
  LET agents == {p \in DescendantPIDs(table, root) : IsInteractiveAgentCommand(table[p].runs)}
  IN IF agents = {} THEN 0 ELSE Max(agents)

\* descendantCWDFallback: the newest process that is elsewhere than the pane,
\* or where the agent itself is.
DescendantCWDFallback(table, tree, agent, base) ==
  LET read  == tree \cap Alive(table)
      moved == {p \in read : table[p].cwd # base}
  IN IF moved # {} THEN table[Max(moved)].cwd
     ELSE IF agent \in read THEN table[agent].cwd
     ELSE NoDir

-----------------------------------------------------------------------------
(* Claude's state files, in the order of their names.  What is "mistyped"  *)
(* has a cwd or session ID of another type, what is "unusable" has none    *)
(* that will do.                                                           *)

StateFiles == [name : Pids, pid : Pids, says : {"session", "mistyped", "unusable"}]

\* claudeStateFiles: an SSH host is asked for the one file with that name.
Asked(files, pid, remote) == IF remote THEN SelectSeq(files, LAMBDA f : f.name = pid) ELSE files

\* claudeWorkdir.locate: the first file with that pid decides, but for those
\* passed over.
Locate(files, pid, remote) ==
  LET mine == SelectSeq(Asked(files, pid, remote), LAMBDA f : f.pid = pid /\ f.says # "mistyped")
  IN mine # <<>> /\ Head(mine).says = "session"

-----------------------------------------------------------------------------
(* Logs.  A record of Claude's has a cwd and what its tools touched, or    *)
(* the files a snapshot tracks in the order of their names; one of Codex   *)
(* says where a command ran, a turn or the session is.                     *)

Touched == [by : {"bash", "file"}, dir : Dirs, auxiliary : BOOLEAN]
ClaudeRecords == [cwd : MaybeDir, touched : Seq(Touched)]
CodexRecords  == [by : {"exec", "turn", "meta"}, dir : Dirs]

FirstKnown(a, b) == IF a # NoDir THEN a ELSE b

\* claudeToolPath: files of Claude's own are none of its work.
ClaudeToolPath(t) == t.by = "bash" \/ ~t.auxiliary

\* claudeRecordPath: the last of what a record's tools touched.
ClaudeRecordPath(rec) ==
  LET used == {i \in DOMAIN rec.touched : ClaudeToolPath(rec.touched[i])}
  IN IF used = {} THEN [by |-> "none", dir |-> NoDir]
                  ELSE [by |-> rec.touched[Max(used)].by, dir |-> rec.touched[Max(used)].dir]

\* Where the records' latest path of a kind is.
LatestTouch(log, by) ==
  LET told == {i \in DOMAIN log : ClaudeRecordPath(log[i]).by = by}
  IN IF told = {} THEN NoDir ELSE ClaudeRecordPath(log[Max(told)]).dir

LatestCWD(log) ==
  LET told == {i \in DOMAIN log : log[i].cwd # NoDir}
  IN IF told = {} THEN NoDir ELSE log[Max(told)].cwd

\* parseClaudeProjectCWD: where a command went last, else where the process
\* is, else where the last file is.
ParseClaudeProjectCWD(log) ==
  FirstKnown(LatestTouch(log, "bash"), FirstKnown(LatestCWD(log), LatestTouch(log, "file")))

OfKind(log, by) == {i \in DOMAIN log : log[i].by = by}

\* parseCodexSessionCWD: a command's directory, else the turn's, else what
\* the session began with.
ParseCodexSessionCWD(log) ==
  LET latest(by) == IF OfKind(log, by) = {} THEN NoDir ELSE log[Max(OfKind(log, by))].dir
      began      == IF OfKind(log, "meta") = {} THEN NoDir ELSE log[Min(OfKind(log, "meta"))].dir
  IN FirstKnown(latest("exec"), FirstKnown(latest("turn"), began))

\* The distinct directories, in the order they were found in.
WithCWD(dirs, d) == IF d = NoDir \/ d \in ToSet(dirs) THEN dirs ELSE Append(dirs, d)
=============================================================================

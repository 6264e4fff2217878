------------------------------ MODULE PaneHeader ------------------------------
(***************************************************************************)
(* What a pane's header says of its repository: GetGitInfo with the two    *)
(* things the handler remembers of a pane (internal/api/handler.go), and   *)
(* below it the search for the directories its agent works in, on this     *)
(* host or over SSH (internal/session/local.go, ssh.go, workdir.go and     *)
(* agent_log_cache.go).                                                    *)
(*                                                                         *)
(* A request is a process; a step is a command it runs on the host or a    *)
(* section of a lock.  Commands of one kind that follow each other, the    *)
(* processes' directories and the repositories of what was found, are one  *)
(* step, of which any may fail.  One pane, whose session is restarted; the *)
(* agent has one session, with a transcript and a subagent's, or a         *)
(* rollout.  Pull requests, branches and names are left out.               *)
(***************************************************************************)
EXTENDS AgentWorkdirs

CONSTANTS
  Root,        \* the pane's shell
  Home,        \* where it starts
  TopOf,       \* the root of the work tree a directory is in
  RepoOf,      \* and its repository: the common directory
  FirstTables, \* the processes at the start
  FirstFiles,  \* Claude's state files
  LogRecords,  \* what agents write, by log
  FirstLogs,   \* and wrote before the server started
  Asking,      \* requests
  Opening,     \* those that open the pane in an editor
  MaxHappens   \* bound: what changes on the host, fails or is restarted

Logs == {"main", "sub", "rollout"}
Places == {"derived", "elsewhere"}

RecordsOf(f) == IF f = "rollout" THEN CodexRecords ELSE ClaudeRecords

ASSUME HeaderAssumption ==
  /\ Root \in Pids /\ Home \in Dirs
  /\ TopOf \in [Dirs -> Dirs] /\ RepoOf \in [Dirs -> Dirs]
  /\ FirstTables \subseteq Tables /\ FirstFiles \subseteq Seq(StateFiles)
  /\ LogRecords \in [Logs -> SUBSET (ClaudeRecords \cup CodexRecords)]
  /\ FirstLogs \subseteq {logs \in [Logs -> Seq(ClaudeRecords \cup CodexRecords)] :
                         logs["sub"] # <<>> => logs["main"] # <<>>}
  /\ \A f \in Logs : LogRecords[f] \subseteq RecordsOf(f) /\ \A begun \in FirstLogs : begun[f] \in Seq(RecordsOf(f))
  /\ Opening \subseteq Asking /\ MaxHappens \in Nat

VARIABLES
  onSsh,    \* the pane is of an SSH host
  table,    \* the processes of the pane's host
  files,    \* Claude's state files there
  logs,     \* the records of each log
  place,    \* where the session's transcripts are: derived from its cwd, or not
  paneSession,  \* the pane's session: the number of it
  logCache, \* agentLogCache
  probed,   \* remoteClaudeProjectDirs: the answer, and whether it is fresh
  sticky,   \* preferredCWDBySession
  cached,   \* gitInfoCacheBySession
  req,      \* the requests
  headerShows, \* what the header shows
  crossed,  \* a request was under way when the session was restarted
  happened  \* of those MaxHappens

paneHostVars  == <<onSsh, table, files, logs, place>>
cacheVars == <<logCache, probed>>
headerVars == <<paneHostVars, paneSession, cacheVars, sticky, cached, req, headerShows, crossed, happened>>

Paths == Places \X Logs
NoPlace == "nowhere"
NotCached == [of |-> 0, dirs |-> <<>>]
NotAsking == [at |-> "idle"]

Becomes(r, q) == req' = [req EXCEPT ![r] = q]

Happens == happened < MaxHappens /\ happened' = happened + 1
NoFault == UNCHANGED happened

\* A request is of the session it began with.  Nothing runs over a closed SSH
\* connection.
Gone(r) == req[r].of # paneSession
Cut(r)  == onSsh /\ Gone(r)
Runs(r)  == ~Cut(r) /\ NoFault
Fails(r) == IF Cut(r) THEN NoFault ELSE Happens

-----------------------------------------------------------------------------
(* The host.                                                               *)

HostChanges ==
  /\ Happens
  /\ UNCHANGED <<onSsh, paneSession, cacheVars, sticky, cached, req, headerShows, crossed>>

\* An agent or a command starts under a process, ends, or goes elsewhere;
\* what a process started lives on without it.
ProcessStarts(p, parent, program) ==
  /\ p \notin Alive(table) /\ parent \in Alive(table)
  /\ table' = [table EXCEPT ![p] = [parent |-> parent, runs |-> program, cwd |-> table[parent].cwd]]
  /\ HostChanges /\ UNCHANGED <<files, logs, place>>

ProcessEnds(p) ==
  /\ p \in Alive(table) \ {Root}
  /\ table' = [q \in Pids |-> [table[q] EXCEPT !.parent = IF @ = p THEN 0 ELSE @,
                                               !.runs = IF q = p THEN "gone" ELSE @]]
  /\ HostChanges /\ UNCHANGED <<files, logs, place>>

ProcessMoves(p, d) ==
  /\ p \in Alive(table) /\ table[p].cwd # d
  /\ table' = [table EXCEPT ![p].cwd = d]
  /\ HostChanges /\ UNCHANGED <<files, logs, place>>

\* The first record makes the log, where this version of Claude Code does;
\* logs only grow.
Writes(f, rec) ==
  /\ rec \in LogRecords[f]
  /\ f = "sub" => place # NoPlace
  /\ \E p \in Alive(table) : table[p].runs = IF f = "rollout" THEN "codex" ELSE "claude"
  /\ logs' = [logs EXCEPT ![f] = Append(@, rec)]
  /\ IF place = NoPlace /\ f = "main" THEN place' \in Places ELSE UNCHANGED place
  /\ HostChanges /\ UNCHANGED <<table, files>>

\* A transcript moves, and never comes back.
Relocates == place = "derived" /\ place' = "elsewhere" /\ HostChanges /\ UNCHANGED <<table, files, logs>>

LogExists(path) ==
  IF path[2] = "rollout" THEN logs["rollout"] # <<>> ELSE place = path[1] /\ logs[path[2]] # <<>>

Parsed(f) == IF f = "rollout" THEN ParseCodexSessionCWD(logs[f]) ELSE ParseClaudeProjectCWD(logs[f])

-----------------------------------------------------------------------------
(* GetGitInfo.                                                             *)

\* Served from the cache; whether gitInfoCacheTTL has passed is open.
AskCached(r) ==
  /\ r \notin Opening /\ req[r].at = "idle" /\ cached # NotCached
  /\ headerShows' = cached
  /\ UNCHANGED <<paneHostVars, paneSession, cacheVars, sticky, cached, req, crossed, happened>>

\* The pane's directory, and which agent is under its shell.
PaneCWD   == table[Root].cwd
PaneAgent == AgentOf(table, Root)

Begins(r) ==
  /\ req[r].at = "idle"
  /\ Becomes(r, [at |-> "snap", of |-> paneSession, base |-> PaneCWD])
  /\ UNCHANGED <<paneHostVars, paneSession, cacheVars, sticky, cached, headerShows, crossed, happened>>

Ask(r) == r \notin Opening /\ Begins(r)

\* PostOpenVSCode resolves the same, without that cache.
OpenPane(r) == r \in Opening /\ Begins(r)

\* What the requests of the frontend get, and what is kept for the next.
Reply(r, dirs) ==
  /\ Becomes(r, NotAsking)
  /\ IF r \notin Opening
     THEN cached' = [of |-> req[r].of, dirs |-> dirs] /\ headerShows' = cached'
     ELSE UNCHANGED <<cached, headerShows>>

\* recallPreferredCWDs: the ones of the base's repository that are not where
\* the pane is.
Recall(base) ==
  Those(sticky, {i \in DOMAIN sticky : RepoOf[sticky[i]] = RepoOf[base] /\ TopOf[sticky[i]] # TopOf[base]})

Candidates(q, dirs) == [at |-> "inspect", of |-> q.of, base |-> q.base, dirs |-> dirs]

\* resolveActiveGitContexts: what was found, or what was remembered, which is
\* dropped when it is of no use any more.
WithCandidates(r, dirs) ==
  LET base  == req[r].base
      known == Recall(base)
  IN /\ Becomes(r, Candidates(req[r], IF dirs = <<>> THEN known ELSE dirs))
     /\ sticky' = IF dirs = <<>> /\ known = <<>> THEN <<>> ELSE sticky

\* The repository of the pane's directory, or the answer that there is none;
\* then GetActiveWorkdirs: the shell's directory and the processes, and so
\* which agent.  A failure of it finds nothing.
SnapProcesses(r) ==
  /\ req[r].at = "snap"
  /\ LET agent == PaneAgent IN
       \/ Fails(r) /\ Reply(r, <<>>) /\ UNCHANGED sticky
       \/ /\ ~Cut(r)
          /\ IF Gone(r) \/ agent = 0 THEN NoFault ELSE Happens
          /\ WithCandidates(r, <<>>) /\ UNCHANGED <<cached, headerShows>>
       \/ /\ ~Gone(r) /\ agent # 0 /\ NoFault
          /\ Becomes(r, [at |-> "locate", of |-> req[r].of, base |-> req[r].base, shell |-> PaneCWD,
                         agent |-> agent, runs |-> table[agent].runs, tree |-> DescendantPIDs(table, agent)])
          /\ UNCHANGED <<cached, headerShows, sticky>>
  /\ UNCHANGED <<paneHostVars, paneSession, cacheVars, crossed>>

Searching(r) == UNCHANGED <<paneHostVars, paneSession, sticky, cached, headerShows, crossed>>

\* The directory that is looked under first: the one this host has it in, or
\* the one that was answered last.
FirstPlace ==
  CASE onSsh /\ probed.place # NoPlace -> probed.place
    [] ~onSsh /\ place = "elsewhere"   -> "elsewhere"
    [] OTHER                            -> "derived"

\* What is looked through for the session's directories, and what else is.
Search(q, at, dir, todo, found, probe) ==
  [at |-> at, of |-> q.of, base |-> q.base, shell |-> q.shell, agent |-> q.agent, tree |-> q.tree,
   dir |-> dir, todo |-> todo, found |-> found, probe |-> probe]

FallsBack(r) ==
  LET q == req[r]
  IN Becomes(r, [at |-> "fallback", of |-> q.of, base |-> q.base, shell |-> q.shell, agent |-> q.agent, tree |-> q.tree])

\* resolveSessionWorkdirs: the session the process runs, by its state file or
\* the log it has open.
OpenRollout(q) == q.agent \in Alive(table) /\ LogExists(<<"derived", "rollout">>)

LocateSession(r) ==
  /\ req[r].at = "locate"
  /\ LET q == req[r]
         read(dir, todo) == Becomes(r, Search(q, "stat", dir, todo, <<>>, onSsh /\ q.runs = "claude"))
     IN \/ Fails(r) /\ FallsBack(r)
        \/ /\ Runs(r)
           /\ CASE q.runs = "claude" /\ Locate(files, q.agent, onSsh) -> read(FirstPlace, <<"main", "sub">>)
                [] q.runs = "codex" /\ OpenRollout(q) -> read("derived", <<"rollout">>)
                [] OTHER -> FallsBack(r)
  /\ Searching(r) /\ UNCHANGED cacheVars

-----------------------------------------------------------------------------
(* Reading a log: readClaudeProjectCWD, readCodexSessionCWD and            *)
(* remoteCachedAgentLogCWD.                                                *)

Reading(q) == <<q.dir, Head(q.todo)>>

\* A log that is read: the size it has, or 0, and then what it says.
Loading(q, at, size, read) ==
  [at |-> at, of |-> q.of, base |-> q.base, shell |-> q.shell, agent |-> q.agent, tree |-> q.tree,
   dir |-> q.dir, todo |-> q.todo, found |-> q.found, probe |-> q.probe, size |-> size, read |-> read]

\* claudeWorkdir.workdirs, interactiveAgentSessionCWDs: the next log once one
\* was read, and in the end what was found, or another directory, or the
\* processes' own.
Onward(r, d) ==
  LET q     == req[r]
      todo  == Tail(q.todo)
      found == WithCWD(q.found, d)
  IN CASE todo # <<>>                   -> Becomes(r, Search(q, "stat", q.dir, todo, found, q.probe))
       [] todo = <<>> /\ found # <<>>   -> Becomes(r, Candidates(q, found))
       [] todo = <<>> /\ found = <<>>   ->
            IF q.probe THEN Becomes(r, Search(q, "probe", q.dir, todo, found, q.probe)) ELSE FallsBack(r)

\* Mutant: what was read once is not read again.
EverRead(path, size) == logCache[path].size > 0

\* cachedAgentLogCWD: by size and time, which are those of its records.
SameLog(path, size) == logCache[path].size = size

Loads(r, size) == Becomes(r, Loading(req[r], "load", size, NoDir))

\* Over SSH a log whose size is not known is read all the same; a subagent's is
\* listed first.
StatLog(r) ==
  /\ req[r].at = "stat"
  /\ LET path == Reading(req[r])
         size == Len(logs[path[2]])
     IN \/ /\ Runs(r) /\ LogExists(path)
           /\ IF SameLog(path, size) THEN Onward(r, logCache[path].dir) ELSE Loads(r, size)
        \/ /\ IF LogExists(path) THEN Fails(r) ELSE NoFault
           /\ \/ (~onSsh \/ path[2] = "sub") /\ Onward(r, NoDir)
              \/ onSsh /\ Loads(r, 0)
  /\ Searching(r) /\ UNCHANGED cacheVars

\* Here a transcript that went meanwhile says nothing, which is an answer.
LoadLog(r) ==
  /\ req[r].at = "load"
  /\ LET q    == req[r]
         path == Reading(q)
         read == LogExists(path) \/ (~onSsh /\ path[2] # "rollout")
     IN \/ /\ Runs(r) /\ read
           /\ Becomes(r, Loading(q, "store", q.size, IF LogExists(path) THEN Parsed(path[2]) ELSE NoDir))
        \/ (IF read THEN Fails(r) ELSE NoFault) /\ Onward(r, NoDir)
  /\ Searching(r) /\ UNCHANGED cacheVars

\* Mutant: what is kept is named by the size after reading.
SizeAfter(q) == Len(logs[Head(q.todo)])

SizeBefore(q) == q.size

\* Kept by the size it had before it was read; without one it is not kept.
StoreLog(r) ==
  /\ req[r].at = "store"
  /\ LET q == req[r] IN
       /\ logCache' = IF q.size = 0 THEN logCache
                      ELSE [logCache EXCEPT ![Reading(q)] = [size |-> SizeBefore(q), dir |-> q.read]]
       /\ Onward(r, q.read)
  /\ NoFault /\ Searching(r) /\ UNCHANGED probed

-----------------------------------------------------------------------------
(* The transcript's directory on an SSH host.                              *)

\* probeRemoteClaudeProjectDir: what it answers is kept, and looked under when
\* it is another directory than before; it is not asked again for a while.
Probe(r) ==
  /\ req[r].at = "probe"
  /\ \/ (IF probed.fresh THEN NoFault ELSE Fails(r)) /\ UNCHANGED probed /\ FallsBack(r)
     \/ /\ ~probed.fresh /\ Runs(r) /\ probed' = [place |-> place, fresh |-> TRUE]
        /\ IF place \in {NoPlace, req[r].dir} THEN FallsBack(r)
           ELSE Becomes(r, Search(req[r], "stat", place, <<"main", "sub">>, <<>>, FALSE))
  /\ Searching(r) /\ UNCHANGED logCache

\* descendantCWDFallback: some may not be read.
Fallback(r) ==
  /\ req[r].at = "fallback"
  /\ \E unread \in SUBSET req[r].tree :
       LET q     == req[r]
           lives == IF Gone(r) THEN {} ELSE q.tree \cap Alive(table)
       IN /\ IF unread \cap lives = {} THEN NoFault ELSE Happens
          /\ WithCandidates(r, WithCWD(<<>>, DescendantCWDFallback(table, lives \ unread, q.agent, q.shell)))
  /\ UNCHANGED <<paneHostVars, paneSession, cacheVars, cached, headerShows, crossed>>

-----------------------------------------------------------------------------
(* The worktrees the header shows.                                         *)

\* The first directory of each work tree of the pane's repository, but for
\* the one the pane is in itself.
Diverged(dirs, base) ==
  LET other(i) == /\ RepoOf[dirs[i]] = RepoOf[base] /\ TopOf[dirs[i]] # TopOf[base]
                  /\ \A j \in 1..(i - 1) : TopOf[dirs[j]] # TopOf[dirs[i]]
  IN Those(dirs, {i \in DOMAIN dirs : other(i)})

\* The trees are remembered, or that there are none.
Inspect(r) ==
  /\ req[r].at = "inspect"
  /\ \E failed \in SUBSET ToSet(req[r].dirs) :
       LET q     == req[r]
           trees == Diverged(Those(q.dirs, {i \in DOMAIN q.dirs : q.dirs[i] \notin failed}), q.base)
       IN /\ Cut(r) => failed = ToSet(q.dirs)
          /\ IF failed = {} \/ Cut(r) THEN NoFault ELSE Happens
          /\ sticky' = trees /\ Reply(r, IF trees = <<>> THEN <<q.base>> ELSE trees)
  /\ UNCHANGED <<paneHostVars, paneSession, cacheVars, crossed>>

-----------------------------------------------------------------------------
\* RestartSession: both are cleared between the old session and the new one,
\* which has processes of its own.
RestartPane ==
  /\ Happens /\ paneSession' = paneSession + 1
  /\ sticky' = <<>> /\ cached' = NotCached
  /\ table' = [p \in Pids |-> IF p = Root THEN [table[p] EXCEPT !.cwd = Home] ELSE [table[p] EXCEPT !.runs = "gone"]]
  /\ crossed' = (crossed \/ \E r \in Asking : req[r].at # "idle")
  /\ UNCHANGED <<onSsh, files, logs, place, cacheVars, req, headerShows>>

\* remoteClaudeProbeTTL.
ProbeExpires ==
  /\ probed.fresh /\ probed' = [probed EXCEPT !.fresh = FALSE]
  /\ UNCHANGED <<paneHostVars, paneSession, logCache, sticky, cached, req, headerShows, crossed, happened>>

HeaderInit ==
  /\ onSsh \in BOOLEAN /\ table \in FirstTables /\ files \in FirstFiles
  /\ logs \in FirstLogs /\ place \in IF logs["main"] = <<>> THEN {NoPlace} ELSE Places
  /\ paneSession = 1
  /\ logCache = [path \in Paths |-> [size |-> 0, dir |-> NoDir]]
  /\ probed = [place |-> NoPlace, fresh |-> FALSE]
  /\ sticky = <<>> /\ cached = NotCached /\ headerShows = NotCached
  /\ req = [r \in Asking |-> NotAsking] /\ crossed = FALSE /\ happened = 0

Resolve(r) ==
  \/ AskCached(r) \/ SnapProcesses(r) \/ LocateSession(r) \/ StatLog(r) \/ LoadLog(r) \/ StoreLog(r)
  \/ Probe(r) \/ Fallback(r) \/ Inspect(r)

OnHost ==
  \/ Relocates
  \/ \E p \in Pids :
       \/ ProcessEnds(p)
       \/ \E d \in Dirs : ProcessMoves(p, d)
       \/ \E parent \in Pids, program \in Programs \ {"gone"} : ProcessStarts(p, parent, program)
  \/ \E f \in Logs : \E rec \in LogRecords[f] : Writes(f, rec)

HeaderNext ==
  \/ OnHost \/ RestartPane \/ ProbeExpires
  \/ \E r \in Asking : Resolve(r) \/ Ask(r) \/ OpenPane(r)

RequestSteps(r) == Resolve(r) \/ Ask(r)

\* The dashboard asks again and again, commands end and time passes.
HeaderFairness ==
  /\ \A r \in Asking \ Opening : WF_headerVars(RequestSteps(r))
  /\ WF_headerVars(ProbeExpires)

HeaderSpec == HeaderInit /\ [][HeaderNext]_headerVars /\ HeaderFairness

-----------------------------------------------------------------------------
HeaderTypeOK ==
  /\ onSsh \in BOOLEAN /\ table \in Tables /\ place \in Places \cup {NoPlace}
  /\ \A f \in Logs : logs[f] \in Seq(RecordsOf(f))
  /\ paneSession \in 1..(MaxHappens + 1)
  /\ logCache \in [Paths -> [size : Nat, dir : MaybeDir]]
  /\ probed \in [place : Places \cup {NoPlace}, fresh : BOOLEAN]
  /\ sticky \in Seq(Dirs) /\ cached.dirs \in Seq(Dirs) /\ headerShows.dirs \in Seq(Dirs)
  /\ crossed \in BOOLEAN /\ happened \in 0..MaxHappens

\* A log that is what it was is not read again, so what is kept of it has to
\* be what it says, though it grew while it was read and another request read
\* it too.
LogsAsRead ==
  \A path \in Paths :
    LogExists(path) /\ logCache[path].size = Len(logs[path[2]]) => logCache[path].dir = Parsed(path[2])

\* clearGitInfoCache: no session is shown what was said of another with the
\* same ID.  A request that was under way over a restart answers and keeps what
\* it began with: the exception.
OwnSessions == ~crossed /\ cached # NotCached => cached.of = paneSession

\* What the pane's agent says of itself.
Workdirs ==
  LET agent == PaneAgent
      said  == CASE table[agent].runs = "claude" /\ Locate(files, agent, onSsh) /\ place # NoPlace ->
                      WithCWD(WithCWD(<<>>, Parsed("main")), Parsed("sub"))
                 [] table[agent].runs = "codex" /\ logs["rollout"] # <<>> -> WithCWD(<<>>, Parsed("rollout"))
                 [] OTHER -> <<>>
      base  == PaneCWD
  IN IF agent = 0 THEN <<>>
     ELSE IF said # <<>> THEN said
     ELSE WithCWD(<<>>, DescendantCWDFallback(table, DescendantPIDs(table, agent), agent, base))

\* What the header should say when an agent says where it works.
Right ==
  LET trees == Diverged(Workdirs, PaneCWD)
  IN headerShows.dirs = IF trees = <<>> THEN <<PaneCWD>> ELSE trees

\* Once the host is quiet a header comes to show where the pane's agent works,
\* though its transcript appeared or moved after it was looked for, a probe
\* failed or an answer is kept for its TTL.  When an agent says nothing the
\* trees shown last stay.
ShowsItsAgent == Workdirs # <<>> => Right
HeaderFollows == <>[]ShowsItsAgent
=============================================================================

----------------------------- MODULE ToolUpdates -----------------------------
(***************************************************************************)
(* The automatic updates of one tool on the hosts it is used on            *)
(* (internal/hosttools/global_auto.go), with what they share with the      *)
(* manual installation (Install and installWhen, service.go), the          *)
(* preference (PostAgmsgAutoUpdate, internal/api/agmsg_tool.go) and the    *)
(* hosts' list (internal/api/ssh_connections.go).                          *)
(*                                                                         *)
(* The tool on a host is outside panemux; its user may remove it or put an *)
(* older release in its place.  The calls an installation waits for are    *)
(* CallGate's; here an installation only excludes checks and another one.  *)
(***************************************************************************)
EXTENDS Naturals

CONSTANTS
  Machines,   \* the names hosts may have
  MaxResets,  \* bound: resets of a host's result
  NoResult, NoWorker

Releases == {"missing", "outdated", "current"}

\* globalAutoState, and runGlobalAuto's place and locals.
AutoState == [err : BOOLEAN, updated : BOOLEAN, running : BOOLEAN, pending : BOOLEAN, revision : Nat, of : Nat]
Worker ==
  [at : {"begin", "check", "pause", "recheck", "update", "finish", "continue"}, revision : Nat,
   previous : BOOLEAN, of : Nat, attempted : BOOLEAN, err : BOOLEAN, got : Releases \cup {"unknown"}]

ASSUME ToolAssumption == NoResult \notin AutoState /\ NoWorker \notin Worker

VARIABLES
  known,      \* the configured hosts
  tool,       \* the release the tool has on each: missing, outdated or current
  enabled,    \* the preference
  starting,   \* it was turned on: StartAutoUpdates is about to be called
  adding,     \* hosts saved for which AfterHostAdded is about to be called
  auto,       \* Service.globalAuto, or NoResult
  worker,     \* where runGlobalAuto is, or NoWorker
  manual,     \* a manual Install of each host: idle, holding or installed
  updating,   \* CallGate's pause of the host
  closing,    \* open, closed or joined
  resets,     \* ghost: results dropped for a new host or a manual success
  asked       \* ghost: a check was asked for that has not begun

hostVars    == <<known, tool, enabled, starting, adding>>
serviceVars == <<auto, worker, closing, asked>>
manualVars  == <<manual, updating, resets>>
toolVars    == <<hostVars, serviceVars, manualVars>>

Closed == closing # "open"

-----------------------------------------------------------------------------
(* Asking for a check.                                                     *)

\* Mutant: a service that is closed starts checks.
AcceptsAlways == TRUE

Accepts == ~Closed

\* Mutant: the queued check of a running worker is not made.
NeverAgain(h) == FALSE

\* continueGlobalAuto: only an explicit event queues another check.
Again(h) == auto[h].pending /\ ~Closed

Fresh == [err |-> FALSE, updated |-> FALSE, running |-> FALSE, pending |-> FALSE, revision |-> 0, of |-> 0]

Previous(h) == IF auto[h] = NoResult THEN Fresh ELSE auto[h]

NewWorker == [at |-> "begin", revision |-> 0, previous |-> FALSE, of |-> 0,
              attempted |-> FALSE, err |-> FALSE, got |-> "unknown"]

\* startGlobalAuto of a set of hosts, with resetGlobalAuto of some of them
\* before: a running worker is asked for another check.
Starts(hosts, reset) ==
  LET before(h) == IF h \in reset /\ auto[h] # NoResult
                   THEN [auto[h] EXCEPT !.err = FALSE, !.updated = FALSE, !.revision = @ + 1]
                   ELSE auto[h]
      prior(h) == IF before(h) = NoResult THEN Fresh ELSE before(h)
      asks == IF Accepts THEN hosts ELSE {}
  IN /\ auto' = [h \in Machines |->
          CASE h \notin asks -> before(h)
            [] h \in asks /\ prior(h).running -> [prior(h) EXCEPT !.pending = TRUE]
            [] OTHER -> [prior(h) EXCEPT !.updated = FALSE, !.running = TRUE]]
     /\ worker' = [h \in Machines |-> IF h \in asks /\ ~Previous(h).running THEN NewWorker ELSE worker[h]]
     /\ asked' = [h \in Machines |-> asked[h] \/ h \in asks]
     /\ resets' = [h \in Machines |-> IF h \in reset THEN resets[h] + 1 ELSE resets[h]]

\* PostAgmsgAutoUpdate; a save that failed leaves everything.
SetAutoUpdate(on) ==
  /\ enabled' = on /\ starting' = (starting \/ (on /\ ~enabled))
  /\ UNCHANGED <<known, tool, adding, serviceVars, manualVars>>

StartAutoUpdates ==
  /\ starting /\ starting' = FALSE
  /\ Starts(IF enabled THEN known ELSE {}, {})
  /\ UNCHANGED <<known, tool, enabled, adding, closing, manual, updating>>

\* A host's entry is saved; the name may have been another machine's.
AddHost(h) ==
  /\ h \notin known /\ resets[h] < MaxResets
  /\ known' = known \cup {h} /\ adding' = adding \cup {h}
  /\ \E r \in Releases : tool' = [tool EXCEPT ![h] = r]
  /\ UNCHANGED <<enabled, starting, serviceVars, manualVars>>

AfterHostAdded(h) ==
  /\ h \in adding /\ adding' = adding \ {h}
  /\ Starts(IF enabled THEN {h} ELSE {}, {h})
  /\ UNCHANGED <<known, tool, enabled, starting, closing, manual, updating>>

RemoveHost(h) ==
  /\ h \in known /\ known' = known \ {h}
  /\ UNCHANGED <<tool, enabled, starting, adding, serviceVars, manualVars>>

\* The user of the host removes the tool or puts an older release in its place.
Change(h) ==
  /\ \E r \in {"missing", "outdated"} : tool' = [tool EXCEPT ![h] = r]
  /\ UNCHANGED <<known, enabled, starting, adding, serviceVars, manualVars>>

-----------------------------------------------------------------------------
(* The worker.                                                             *)

At(h, at) == worker[h] # NoWorker /\ worker[h].at = at

\* The attempt ends with what it got.
Result(h, err, got, attempted) ==
  worker' = [worker EXCEPT ![h].at = "finish", ![h].err = err, ![h].got = got, ![h].attempted = attempted]

BeginRun(h) ==
  /\ At(h, "begin")
  /\ worker' = [worker EXCEPT ![h] = [NewWorker EXCEPT !.at = "check", !.revision = auto[h].revision,
                                                       !.previous = auto[h].updated, !.of = resets[h]]]
  /\ asked' = [asked EXCEPT ![h] = FALSE]
  /\ UNCHANGED <<hostVars, auto, closing, manualVars>>

\* check, refused while an installation runs; an unreachable host is unknown.
CheckTool(h) ==
  /\ At(h, "check")
  /\ IF h \notin known \/ updating[h]
     THEN Result(h, TRUE, "unknown", FALSE)
     ELSE \/ Result(h, TRUE, "unknown", FALSE)
          \/ /\ ~Closed
             /\ IF tool[h] = "outdated" /\ enabled
                THEN worker' = [worker EXCEPT ![h].at = "pause"]
                ELSE Result(h, FALSE, tool[h], FALSE)
  /\ UNCHANGED <<hostVars, auto, closing, asked, manualVars>>

\* installWhen: refused by another installation, or by the closed service.
PauseTool(h) ==
  /\ At(h, "pause")
  /\ IF updating[h] \/ Closed
     THEN Result(h, TRUE, "unknown", FALSE) /\ UNCHANGED updating
     ELSE worker' = [worker EXCEPT ![h].at = "recheck"] /\ updating' = [updating EXCEPT ![h] = TRUE]
  /\ UNCHANGED <<hostVars, auto, closing, asked, manual, resets>>

\* The check under the pause, and the prerequisites.
RecheckTool(h) ==
  /\ At(h, "recheck")
  /\ \/ /\ ~Closed /\ tool[h] = "outdated" /\ enabled
        /\ worker' = [worker EXCEPT ![h].at = "update"] /\ UNCHANGED updating
     \/ /\ ~Closed /\ ~(tool[h] = "outdated" /\ enabled)
        /\ Result(h, FALSE, tool[h], FALSE) /\ updating' = [updating EXCEPT ![h] = FALSE]
     \/ Result(h, TRUE, "unknown", FALSE) /\ updating' = [updating EXCEPT ![h] = FALSE]
  /\ UNCHANGED <<hostVars, auto, closing, asked, manual, resets>>

\* Mutant: the automatic update installs.
MayInstall(h) == tool[h] \in {"outdated", "missing"}

\* Tool.Update probes the host again.
MayUpdate(h) == tool[h] = "outdated"

\* The preference is read again before the installer.
UpdateTool(h) ==
  /\ At(h, "update") /\ updating' = [updating EXCEPT ![h] = FALSE]
  /\ \/ ~enabled /\ Result(h, FALSE, "outdated", FALSE) /\ UNCHANGED tool
     \/ /\ enabled /\ ~Closed /\ MayUpdate(h)
        /\ tool' = [tool EXCEPT ![h] = "current"] /\ Result(h, FALSE, "current", TRUE)
     \/ /\ enabled /\ Result(h, TRUE, "unknown", TRUE)
        /\ \/ UNCHANGED tool
           \/ MayUpdate(h) /\ tool' = [tool EXCEPT ![h] = "current"]
  /\ UNCHANGED <<known, enabled, starting, adding, auto, closing, asked, manual, resets>>

\* Mutant: the result is recorded whatever happened meanwhile.
RecordsAlways(h) == TRUE

\* A manual success, or a host added, supersedes the result.
Records(h) == auto[h].revision = worker[h].revision

FinishRun(h) ==
  /\ At(h, "finish")
  /\ LET w == worker[h] IN
     auto' = IF Records(h)
             THEN [auto EXCEPT ![h].err = w.err, ![h].of = w.of,
                     ![h].updated = (w.attempted \/ w.previous) /\ ~w.err /\ w.got = "current"]
             ELSE auto
  /\ worker' = [worker EXCEPT ![h].at = "continue"]
  /\ UNCHANGED <<hostVars, closing, asked, manualVars>>

ContinueRun(h) ==
  /\ At(h, "continue")
  /\ worker' = [worker EXCEPT ![h] = IF Again(h) THEN NewWorker ELSE NoWorker]
  /\ auto' = [auto EXCEPT ![h].running = Again(h), ![h].pending = FALSE]
  /\ UNCHANGED <<hostVars, closing, asked, manualVars>>

-----------------------------------------------------------------------------
(* The manual installation, and the end.                                   *)

InstallBegins(h) ==
  /\ h \in known /\ manual[h] = "idle" /\ ~updating[h] /\ resets[h] < MaxResets
  /\ manual' = [manual EXCEPT ![h] = "holding"] /\ updating' = [updating EXCEPT ![h] = TRUE]
  /\ UNCHANGED <<hostVars, serviceVars, resets>>

InstallEnds(h) ==
  /\ manual[h] = "holding" /\ updating' = [updating EXCEPT ![h] = FALSE]
  /\ \/ /\ tool[h] # "current" /\ tool' = [tool EXCEPT ![h] = "current"]
        /\ manual' = [manual EXCEPT ![h] = "installed"]
     \/ manual' = [manual EXCEPT ![h] = "idle"] /\ UNCHANGED tool
  /\ UNCHANGED <<known, enabled, starting, adding, serviceVars, resets>>

\* resetGlobalAuto after the success.
InstallResets(h) ==
  /\ manual[h] = "installed" /\ manual' = [manual EXCEPT ![h] = "idle"]
  /\ Starts({}, {h})
  /\ UNCHANGED <<hostVars, closing, updating>>

CloseService ==
  /\ closing = "open" /\ closing' = "closed"
  /\ UNCHANGED <<hostVars, auto, worker, asked, manualVars>>

\* runs.Wait returns.
Joined ==
  /\ closing = "closed" /\ \A h \in Machines : worker[h] = NoWorker
  /\ closing' = "joined"
  /\ UNCHANGED <<hostVars, auto, worker, asked, manualVars>>

-----------------------------------------------------------------------------
ToolInit ==
  /\ known \in SUBSET Machines /\ tool \in [Machines -> Releases]
  /\ enabled \in BOOLEAN /\ starting = enabled /\ adding = {}
  /\ auto = [h \in Machines |-> NoResult] /\ worker = [h \in Machines |-> NoWorker]
  /\ manual = [h \in Machines |-> "idle"] /\ updating = [h \in Machines |-> FALSE]
  /\ closing = "open"
  /\ resets = [h \in Machines |-> 0] /\ asked = [h \in Machines |-> FALSE]

Work(h) ==
  BeginRun(h) \/ CheckTool(h) \/ PauseTool(h) \/ RecheckTool(h) \/ UpdateTool(h) \/ FinishRun(h) \/ ContinueRun(h)

Manual(h) == InstallBegins(h) \/ InstallEnds(h) \/ InstallResets(h)

ToolNext ==
  \/ \E on \in BOOLEAN : SetAutoUpdate(on)
  \/ StartAutoUpdates \/ CloseService \/ Joined
  \/ \E h \in Machines : AddHost(h) \/ AfterHostAdded(h) \/ RemoveHost(h) \/ Change(h) \/ Work(h) \/ Manual(h)

\* A worker's goroutine runs; its checks and updates have timeouts.
ToolSteps == \E h \in Machines : Work(h)

ToolFairness == WF_toolVars(ToolSteps)

ToolSpec == ToolInit /\ [][ToolNext]_toolVars /\ ToolFairness

-----------------------------------------------------------------------------
\* Every variable has its type.
ToolTypeOK ==
  /\ known \subseteq Machines /\ tool \in [Machines -> Releases]
  /\ enabled \in BOOLEAN /\ starting \in BOOLEAN /\ adding \subseteq Machines
  /\ auto \in [Machines -> {NoResult} \cup AutoState] /\ worker \in [Machines -> {NoWorker} \cup Worker]
  /\ manual \in [Machines -> {"idle", "holding", "installed"}] /\ updating \in [Machines -> BOOLEAN]
  /\ closing \in {"open", "closed", "joined"}
  /\ resets \in [Machines -> Nat] /\ asked \in [Machines -> BOOLEAN]

\* A failure or a success that is shown belongs to an attempt that began after
\* the host's last manual installation and after the machine behind its name
\* was last replaced, however late that attempt ended (finishGlobalAuto).
ResultIsCurrent ==
  \A h \in Machines : auto[h] # NoResult /\ (auto[h].err \/ auto[h].updated) => auto[h].of = resets[h]

\* Once Close has returned nothing works on a host (Close, startGlobalAuto).
CloseJoins == closing = "joined" => \A h \in Machines : worker[h] = NoWorker

\* A tool its user removed comes back by a manual installation alone, whenever
\* it was removed ("It never installs a missing tool", global_auto.go:23).
NeverInstalls ==
  [][\A h \in known : tool[h] = "missing" /\ tool'[h] = "current" => manual[h] = "holding"]_toolVars

\* A check asked for while another runs is made, unless panemux ends first.
AskedIsChecked == \A h \in Machines : []<>(~asked[h] \/ Closed)

\* No attempt speaks for a machine or an installation it did not see, nor
\* works on a host after the end (finishGlobalAuto, Close).
AttemptsEnd == ResultIsCurrent /\ CloseJoins

\* What an automatic update does and what it leaves alone.
UpdatesFollowUse == NeverInstalls /\ AskedIsChecked
=============================================================================

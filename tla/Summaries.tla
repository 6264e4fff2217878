------------------------------ MODULE Summaries ------------------------------
(***************************************************************************)
(* The task summaries (internal/tasks/summaries.go), kept in memory and in *)
(* a file (summaries_persist.go, summary_store.go).  A summary is of one   *)
(* session's log; here each host has one session with a log.  The logs,    *)
(* the agents that summarize and the disk are outside this repository.     *)
(*                                                                         *)
(* Versions of a log are numbered; two versions may give one excerpt.  An  *)
(* answer is the version that was read for it.                             *)
(***************************************************************************)
EXTENDS Naturals, FiniteSets

CONSTANTS
  LogHosts,   \* hosts, with one session each
  MaxLog,     \* bound: versions of a log
  MaxRuns,    \* bound: attempts
  MaxGen,     \* bound: saves
  Slots,      \* summaryConcurrency
  NoEntry

Summary == [result : Nat, resultLog : Nat, triedLog : Nat, last : {"none", "ok", "failed", "unreadable"}, running : BOOLEAN]

ASSUME SummariesAssumption == IsFiniteSet(LogHosts) /\ MaxLog \in Nat \ {0} /\ NoEntry \notin Summary

VARIABLES
  log,        \* the version each log has
  remote,     \* the hosts the config has
  listed,     \* summaryTasks: the version the last collection listed, or 0
  hosts,      \* summaryHosts; all until it is told which
  entry,      \* summaries
  runs,       \* attempts under way
  begun,      \* attempts begun
  loaded,     \* the file was read (summaryLoaded and SummaryStore.loaded)
  gen,        \* summaryGen
  saves,      \* sets handed to the store and not yet written
  attempted,  \* SummaryStore.attempted
  storeErr,   \* SummaryStore.err is set
  answers,    \* the answers in the file
  usable,     \* and whether this build can use them
  found,      \* ghost: the file when this process began
  outlived    \* ghost: an attempt was under way when its entry was dropped

logVars     == <<log, remote>>
summaryVars == <<listed, hosts, entry, runs, begun>>
storeVars   == <<loaded, gen, saves, attempted, storeErr, answers, usable, found, outlived>>
sumVars     == <<logVars, summaryVars, storeVars>>

\* summaryInputHash of the excerpt: every second change is one it leaves out.
ExcerptOf(version) == (version + 1) \div 2

FreshSummary == [result |-> 0, resultLog |-> 0, triedLog |-> 0, last |-> "none", running |-> FALSE]

\* What is saved of the entries that have an answer.
Stored(e) == {[host |-> h, result |-> e[h].result, log |-> e[h].resultLog] :
                h \in {k \in LogHosts : e[k] # NoEntry /\ e[k].result # 0}}

KeptHost(h) == h \in hosts

-----------------------------------------------------------------------------
(* The store                                                               *)

\* summarySaveLocked: the set is taken under the lock and written after it.
Save(dirty) ==
  IF dirty /\ loaded'
  THEN gen' = gen + 1 /\ saves' = saves \cup {[gen |-> gen + 1, set |-> Stored(entry')]}
  ELSE UNCHANGED <<gen, saves>>

\* Mutant: saves are written in the order they reach the store.
InOrderAlways(s) == TRUE

InOrder(s) == s.gen >= attempted

\* SummaryStore.save: an older set is dropped; a write that fails is told.
WriteSave(s) ==
  /\ s \in saves /\ saves' = saves \ {s}
  /\ IF ~InOrder(s)
     THEN UNCHANGED <<attempted, storeErr, answers, usable>>
     ELSE /\ attempted' = s.gen
          /\ \/ answers' = s.set /\ usable' = TRUE /\ storeErr' = FALSE
             \/ storeErr' = TRUE /\ UNCHANGED <<answers, usable>>
  /\ UNCHANGED <<logVars, summaryVars, loaded, gen, found, outlived>>

\* loadSummariesLocked, the first time summaries are used: an unusable file is
\* moved aside. `read' says whether the file could be read.
LoadReads == IF loaded THEN {FALSE} ELSE BOOLEAN

LoadStore(read) ==
  /\ UNCHANGED outlived
  /\ IF loaded THEN UNCHANGED <<loaded, storeErr, answers, usable>>
     ELSE /\ loaded' = read /\ storeErr' = ~read /\ usable' = (usable \/ read)
          /\ answers' = IF read /\ ~usable THEN {} ELSE answers

\* A summary made meanwhile, or of another host, is not restored.
EntriesLoaded(read) ==
  LET restores == IF read /\ usable THEN {s \in answers : KeptHost(s.host) /\ entry[s.host] = NoEntry} ELSE {}
      restored(s) == [FreshSummary EXCEPT !.result = s.result, !.resultLog = s.log, !.triedLog = s.log, !.last = "ok"]
  IN [h \in LogHosts |-> IF \E s \in restores : s.host = h
                         THEN restored(CHOOSE s \in restores : s.host = h) ELSE entry[h]]

\* Whether what was loaded leaves something to save.
DirtyLoaded(read) == read /\ (Stored(entry) # {} \/ \E s \in answers : usable /\ ~KeptHost(s.host))

-----------------------------------------------------------------------------
(* The attempts                                                            *)

\* startSummaryLocked: whether an attempt at this version is to be made.
Due(e, version, retry) ==
  \/ e = NoEntry
  \/ /\ ~e.running
     /\ ~(e.last # "none" /\ e.triedLog = version /\ (e.last # "failed" \/ ~retry))

\* The attempts started for a set of hosts, given the entries before.
Attempts(e, due) ==
  /\ entry' = [h \in LogHosts |-> IF h \in due THEN [IF e[h] = NoEntry THEN FreshSummary ELSE e[h] EXCEPT !.running = TRUE]
                                  ELSE e[h]]
  /\ begun' = begun + Cardinality(due)
  /\ \E id \in [due -> begun + 1..begun + Cardinality(due)] :
       /\ \A g, h \in due : g # h => id[g] # id[h]
       /\ runs' = runs \cup {[id |-> id[h], host |-> h, log |-> listed[h], at |-> "waiting", read |-> 0, outcome |-> "none",
                              reuse |-> IF e[h] = NoEntry \/ e[h].result = 0 THEN 0 ELSE ExcerptOf(e[h].result)] : h \in due}

\* The attempt takes one of the slots, with the log read in it.
TakeSlot(r) ==
  /\ r \in runs /\ r.at = "waiting" /\ Cardinality({q \in runs : q.at = "slot"}) < Slots
  /\ runs' = (runs \ {r}) \cup {[r EXCEPT !.at = "slot"]}
  /\ UNCHANGED <<logVars, listed, hosts, entry, begun, storeVars>>

\* summarize: the log is read as it is by then; the agent is not asked about
\* an excerpt it has answered.
Summarize(r) ==
  /\ r \in runs /\ r.at = "slot"
  /\ \E outcome \in {"failed", "unreadable", IF ExcerptOf(log[r.host]) = r.reuse THEN "reused" ELSE "answer"} :
       runs' = (runs \ {r}) \cup {[r EXCEPT !.at = "done", !.read = log[r.host], !.outcome = outcome]}
  /\ UNCHANGED <<logVars, listed, hosts, entry, begun, storeVars>>

\* Mutant: the answer is for the version listed by the time it is made.
ListedNow(r) == listed[r.host]

AttemptedLog(r) == r.log

\* The end of runSummary; an entry that was forgotten takes nothing.
FinishSummary(r) ==
  /\ r \in runs /\ r.at = "done" /\ runs' = runs \ {r}
  /\ LET h == r.host
         tried == [entry[h] EXCEPT !.running = FALSE, !.triedLog = AttemptedLog(r), !.last =
                     IF r.outcome \in {"failed", "unreadable"} THEN r.outcome
                     ELSE IF r.outcome = "answer" \/ entry[h].result # 0 THEN "ok"
                     ELSE "none"]
     IN entry' = IF entry[h] = NoEntry THEN entry ELSE
          [entry EXCEPT ![h] =
             CASE r.outcome = "answer" -> [tried EXCEPT !.result = r.read, !.resultLog = AttemptedLog(r)]
               [] r.outcome = "reused" -> [tried EXCEPT !.resultLog = AttemptedLog(r)]
               [] OTHER -> tried]
  /\ UNCHANGED <<loaded, storeErr, answers, usable, attempted, found, outlived>>
  /\ Save(entry[r.host] # NoEntry /\ r.outcome \in {"answer", "reused"})
  /\ UNCHANGED <<logVars, listed, hosts, begun>>

-----------------------------------------------------------------------------
(* The callers                                                             *)

\* Summaries, of the tasks the last collections listed: the automatic ones
\* due are started, and those not listed for long, or too many, are dropped.
\* (When a task was last listed is left out, and the saves for it alone.)
Poll ==
  /\ begun + Cardinality({h \in LogHosts : listed[h] # 0}) =< MaxRuns /\ gen < MaxGen
  /\ \E automatic \in SUBSET {h \in LogHosts : listed[h] # 0} :
     \E pruned \in SUBSET {h \in LogHosts : entry[h] # NoEntry /\ ~entry[h].running /\ listed[h] = 0} :
     \E read \in LoadReads :
       LET e == EntriesLoaded(read) IN
       /\ LoadStore(read)
       /\ Attempts([h \in LogHosts |-> IF h \in pruned THEN NoEntry ELSE e[h]],
                   {h \in automatic : Due(e[h], listed[h], FALSE)})
       /\ Save(DirtyLoaded(read) \/ pruned # {})
  /\ UNCHANGED <<logVars, listed, hosts, attempted, found>>

\* RequestAgentSummary, of one session, retrying a failed attempt; what the
\* load left to save is saved with the entries as they were.
RequestSummary(h) ==
  /\ listed[h] # 0 /\ begun < MaxRuns /\ gen < MaxGen
  /\ \E read \in LoadReads :
       LET e == EntriesLoaded(read) IN
       LoadStore(read) /\ Attempts(e, IF Due(e[h], listed[h], TRUE) THEN {h} ELSE {}) /\ Save(DirtyLoaded(read))
  /\ UNCHANGED <<logVars, listed, hosts, attempted, found>>

\* rememberSummaryTasks after a collection.
Collect(h) ==
  /\ h \in remote /\ \E seen \in {0, log[h]} : listed' = [listed EXCEPT ![h] = seen]
  /\ UNCHANGED <<logVars, hosts, entry, runs, begun, storeVars>>

\* The hosts of the config change.
ConfigureHosts(names) == /\ remote' = names
                    /\ UNCHANGED <<log, summaryVars, storeVars>>

\* forgetSummaryHostsExcept: a running attempt is left to end.
ForgetHosts ==
  /\ gen < MaxGen /\ hosts' = remote
  /\ listed' = [h \in LogHosts |-> IF h \in remote THEN listed[h] ELSE 0]
  /\ entry' = [h \in LogHosts |-> IF h \in remote THEN entry[h] ELSE NoEntry]
  /\ UNCHANGED <<loaded, storeErr, answers, usable, attempted, found>>
  /\ outlived' = (outlived \/ \E r \in runs : r.host \notin remote)
  /\ Save(\E h \in LogHosts \ remote : entry[h] # NoEntry /\ entry[h].result # 0)
  /\ UNCHANGED <<logVars, runs, begun>>

LogGrows(h) == log[h] < MaxLog /\ log' = [log EXCEPT ![h] = @ + 1] /\ UNCHANGED <<remote, summaryVars, storeVars>>

Forgotten ==
  /\ listed' = [h \in LogHosts |-> 0] /\ hosts' = LogHosts /\ entry' = [h \in LogHosts |-> NoEntry]
  /\ runs' = {} /\ loaded' = FALSE /\ saves' = {} /\ storeErr' = FALSE /\ attempted' = 0

\* The process ends and another begins, perhaps another build of panemux.
RestartProcess ==
  /\ loaded /\ Forgotten /\ gen' = 0 /\ begun < MaxRuns
  /\ usable' \in {usable, FALSE} /\ found' = answers
  /\ UNCHANGED <<logVars, begun, answers, outlived>>

-----------------------------------------------------------------------------
SumInit ==
  /\ log \in [LogHosts -> {1}] /\ remote = LogHosts
  /\ listed = [h \in LogHosts |-> 0] /\ hosts = LogHosts /\ entry = [h \in LogHosts |-> NoEntry]
  /\ runs = {} /\ begun = 0
  /\ loaded = FALSE /\ gen = 0 /\ saves = {} /\ attempted = 0 /\ storeErr = FALSE
  /\ answers \in {{}, {[host |-> h, result |-> 1, log |-> 1] : h \in LogHosts}} /\ usable \in BOOLEAN /\ found = answers /\ outlived = FALSE

SumNext ==
  \/ Poll \/ ForgetHosts \/ RestartProcess
  \/ \E h \in LogHosts : RequestSummary(h) \/ Collect(h) \/ LogGrows(h)
  \/ \E names \in SUBSET LogHosts : ConfigureHosts(names)
  \/ \E r \in runs : TakeSlot(r) \/ Summarize(r) \/ FinishSummary(r)
  \/ \E s \in saves : WriteSave(s)

SumSpec == SumInit /\ [][SumNext]_sumVars

-----------------------------------------------------------------------------
Answers == [host : LogHosts, result : 1..MaxLog, log : 1..MaxLog]

\* Every variable has its type.
SumTypeOK ==
  /\ log \in [LogHosts -> 1..MaxLog] /\ remote \subseteq LogHosts /\ hosts \subseteq LogHosts
  /\ listed \in [LogHosts -> 0..MaxLog] /\ begun \in Nat
  /\ entry \in [LogHosts -> {NoEntry} \cup
       [result : 0..MaxLog, resultLog : 0..MaxLog, triedLog : 0..MaxLog,
        last : {"none", "ok", "failed", "unreadable"}, running : BOOLEAN]]
  /\ runs \subseteq [id : Nat, host : LogHosts, log : 0..MaxLog, at : {"waiting", "slot", "done"}, read : 0..MaxLog,
                     outcome : {"none", "failed", "unreadable", "reused", "answer"}, reuse : 0..MaxLog]
  /\ loaded \in BOOLEAN /\ storeErr \in BOOLEAN /\ usable \in BOOLEAN /\ outlived \in BOOLEAN
  /\ gen \in Nat /\ attempted \in 0..gen
  /\ saves \subseteq [gen : Nat, set : SUBSET Answers] /\ answers \subseteq Answers /\ found \subseteq Answers

\* A file this process could not read is as it was found.  Once it was read,
\* with no save under way and no error told, every answer in memory is in the
\* file, in whatever order the saves reached the store and whichever of them
\* failed (SummaryStore.save).
AnswersAreSaved ==
  IF ~loaded THEN answers = found
  ELSE saves = {} /\ ~storeErr => Stored(entry) \subseteq answers

\* An answer is of an excerpt its log had at the version the answer is said to
\* be current for, or since ("the answer is current again", summaries.go:22).
AnswerIsCurrent ==
  \A s \in Stored(entry) : \E v \in s.log..log[s.host] : ExcerptOf(v) = ExcerptOf(s.result)

\* It is, through logs that grow under an attempt, retries, restarts and a file
\* that is read late, as long as no attempt outlives its entry (runSummary).
CurrentAnswer == ~outlived => AnswerIsCurrent

\* What is shown of a task and what a restart brings back (runSummary,
\* SummaryStore.save).
SummariesHold == AnswersAreSaved /\ CurrentAnswer
=============================================================================

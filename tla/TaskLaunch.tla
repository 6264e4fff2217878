------------------------------ MODULE TaskLaunch ------------------------------
(***************************************************************************)
(* Tasks that the dashboard starts and resumes on a host, and the labels   *)
(* that wait for a task's session ID (internal/tasks/launch.go and         *)
(* pending.go, internal/api/task_launch.go).                               *)
(*                                                                         *)
(* A task is an agent in a window of a tmux session.  The host's shell     *)
(* starts it, so that a window has no agent to be listed at first.  An     *)
(* agent whose ID panemux gives it runs under a `given' conversation; any  *)
(* other picks its own once it runs.                                       *)
(***************************************************************************)
EXTENDS Naturals, FiniteSets

CONSTANTS
  Asks,        \* requests, each made once
  Pages,       \* who lists tasks at once
  Talks,       \* conversations an agent may have
  Given,       \* those whose IDs panemux makes up
  Began,       \* those that stopped before
  TmuxNames,   \* names of tmux sessions
  TalkName,    \* the name of each conversation's
  Windows,       \* bound: the windows on the host
  MaxMoves,    \* bound: what the user does there
  NoTalk, NoAsk

ASSUME TaskLaunchAssumption ==
  /\ Given \subseteq Talks /\ Began \subseteq Talks /\ MaxMoves \in Nat
  /\ TalkName \in [Talks -> TmuxNames] /\ NoTalk \notin Talks /\ NoAsk \notin Asks
  /\ IsFiniteSet(Talks) /\ IsFiniteSet(Asks)

VARIABLES
  window,    \* the agents of the host's tmux sessions
  plain,     \* tmux sessions with nothing but a shell
  logs,      \* conversations that have a log
  known,     \* the host is configured
  stray,     \* launch scripts that nobody waits for any more
  ask,       \* each request
  mapped,    \* resumeLocks: the lock of each conversation, or NoAsk
  users,     \* users of each lock, named by the request that made it
  held,      \* and whether somebody holds it
  pending,   \* PendingLabels, by tmux session: none, fresh or aged
  labelled,  \* labels recorded, by the tmux session they were for
  page,      \* the snapshot each lister works on
  ran, names, moves

launchHostVars == <<window, plain, logs, known, stray>>
lockVars   == <<mapped, users, held>>
labelVars  == <<pending, labelled, page>>
launchVars == <<launchHostVars, ask, lockVars, labelVars, ran, names, moves>>

NoWindow == [at |-> "none", name |-> NoTalk, talk |-> NoTalk, blind |-> FALSE]

WindowState ==
  [at : {"none", "starting", "asking", "running"}, name : TmuxNames \cup {NoTalk}, talk : Talks \cup {NoTalk}, blind : BOOLEAN]

NewAsk == [at |-> "new", talk |-> NoTalk, name |-> NoTalk, mode |-> "new", reuse |-> FALSE, blind |-> FALSE, lock |-> NoAsk]

AskState ==
  [at : {"new", "waiting", "holding", "launch", "label", "done"}, talk : Talks \cup {NoTalk},
   name : TmuxNames \cup {NoTalk}, mode : {"new", "resume"}, reuse : BOOLEAN, blind : BOOLEAN, lock : Asks \cup {NoAsk}]

NoPage == [at |-> "none"]

-----------------------------------------------------------------------------
(* The host                                                                *)

Busy     == {s \in Windows : window[s].at # "none"}
FreeWindows     == Windows \ Busy
InTmux(n) == {s \in Busy : window[s].name = n}

HasSession(n) == n \in plain \/ InTmux(n) # {}

\* What a collection lists: agents that run, with an ID or before they picked
\* one, and conversations that stopped.
Listed  == {s \in Busy : window[s].at \in {"asking", "running"}}
Running == {window[s].talk : s \in Listed} \ {NoTalk}
Stopped == logs \ Running

\* launchScriptTemplate, from has-session on.
Adds(w) == HasSession(w.name) => w.mode = "resume" /\ w.reuse

RunScript(w) ==
  IF Adds(w)
  THEN \E s \in FreeWindows : window' = [window EXCEPT ![s] =
         [at |-> "starting", name |-> w.name, talk |-> w.talk, blind |-> w.blind]]
  ELSE UNCHANGED window

\* The user's rc has run: the agent is there.  One that is given no
\* conversation asks for its first instruction, and picks an ID then.
AgentStarts(s) ==
  /\ window[s].at = "starting"
  /\ window' = [window EXCEPT ![s].at = IF window[s].talk = NoTalk THEN "asking" ELSE "running"]
  /\ logs' = logs \cup ({window[s].talk} \ {NoTalk})
  /\ ran' = ran \cup ({<<window[s].name, window[s].talk>>} \ {<<window[s].name, NoTalk>>})
  /\ UNCHANGED <<plain, known, stray, ask, lockVars, labelVars, names, moves>>

\* IDs that were never used are all alike.
NewTalk == CHOOSE t \in Talks : t \notin Given \cup logs

AgentPicks(s) ==
  LET t == NewTalk IN
  /\ window[s].at = "asking" /\ ~(Talks \subseteq Given \cup logs)
  /\ window' = [window EXCEPT ![s].at = "running", ![s].talk = t]
  /\ logs' = logs \cup {t} /\ ran' = ran \cup {<<window[s].name, t>>}
  /\ UNCHANGED <<plain, known, stray, ask, lockVars, labelVars, names, moves>>

\* An agent ends, or its rc never hands over.
AgentEnds(s) ==
  /\ s \in Busy /\ window' = [window EXCEPT ![s] = NoWindow]
  /\ UNCHANGED <<plain, logs, known, stray, ask, lockVars, labelVars, ran, names, moves>>

\* A pane is made again on a session's name, or an agent is started by hand
\* in a session that is there.
Moved == moves < MaxMoves /\ moves' = moves + 1
UserOpens(n) ==
  /\ Moved /\ n \in names \cup {TalkName[t] : t \in logs} /\ plain' = plain \cup {n}
  /\ UNCHANGED <<window, logs, known, stray, ask, lockVars, labelVars, ran, names>>
UserStarts(n) ==
  /\ Moved /\ HasSession(n)
  /\ \E s \in FreeWindows : window' = [window EXCEPT ![s] = [NoWindow EXCEPT !.at = "asking", !.name = n]]
  /\ UNCHANGED <<plain, logs, known, stray, ask, lockVars, labelVars, ran, names>>
HostChanges ==
  /\ Moved /\ known' = ~known
  /\ UNCHANGED <<window, plain, logs, stray, ask, lockVars, labelVars, ran, names>>

\* A script whose request gave up on it runs after all, or never does.
StrayEnds(w) ==
  /\ w \in stray /\ stray' = stray \ {w}
  /\ (RunScript(w) \/ UNCHANGED window)
  /\ UNCHANGED <<plain, logs, known, ask, lockVars, labelVars, ran, names, moves>>

-----------------------------------------------------------------------------
(* Launch                                                                  *)

Becomes(a, r) == ask' = [ask EXCEPT ![a] = r]
Ended(a)      == Becomes(a, [ask[a] EXCEPT !.at = "done"])

\* Launch: an agent's CLI may be known to be missing, and then nothing is
\* made.  An ID or a name is new.
Launch(a) ==
  /\ ask[a].at = "new" /\ known
  /\ \/ \E t \in Given :
          /\ t \notin logs /\ TalkName[t] \notin names /\ names' = names \cup {TalkName[t]}
          /\ Becomes(a, [NewAsk EXCEPT !.at = "launch", !.talk = t, !.name = TalkName[t]])
     \/ \E n \in TmuxNames \ names :
          /\ names' = names \cup {n} /\ (\A t \in Talks : TalkName[t] # n)
          /\ Becomes(a, [NewAsk EXCEPT !.at = "launch", !.name = n])
  /\ UNCHANGED <<launchHostVars, lockVars, labelVars, ran, moves>>

\* Mutant: the lock is forgotten by the first that is done with it.
LeavesAlways(l) == FALSE

\* Whether a lock that is let go is still needed.
Leaves(l) == users[l] > 1

\* release, and the holder's before it.
Release(a) ==
  LET l == ask[a].lock IN
  /\ users' = [users EXCEPT ![l] = @ - 1]
  /\ held' = IF ask[a].at = "waiting" THEN held ELSE [held EXCEPT ![l] = FALSE]
  /\ mapped' = IF Leaves(l) THEN mapped ELSE [mapped EXCEPT ![ask[a].talk] = NoAsk]

\* launch: the script's answer.  What the host refuses before it looks for the
\* session leaves nothing behind; a request that times out leaves its script.
LaunchAnswered(a) ==
  /\ ask[a].at = "launch"
  /\ \/ Adds(ask[a]) /\ RunScript(ask[a]) /\ UNCHANGED stray
        /\ IF ask[a].mode = "resume" THEN Ended(a) ELSE Becomes(a, [ask[a] EXCEPT !.at = "label"])
     \/ Ended(a) /\ UNCHANGED <<window, stray>>
     \/ Ended(a) /\ UNCHANGED window /\ stray' = stray \cup {ask[a]}
  /\ IF ask[a].mode = "resume" THEN Release(a) ELSE UNCHANGED lockVars
  /\ UNCHANGED <<plain, logs, known, labelVars, ran, names, moves>>

\* PostTask: labels are recorded for a conversation, or wait for one.
RecordLabels(a) ==
  /\ ask[a].at = "label" /\ Ended(a)
  /\ \/ ask[a].talk = NoTalk /\ pending' = [pending EXCEPT ![ask[a].name] = "fresh"] /\ UNCHANGED labelled
     \/ ask[a].talk # NoTalk /\ labelled' = labelled \cup {<<ask[a].name, ask[a].talk>>} /\ UNCHANGED pending
     \/ UNCHANGED <<labelled, pending>>
  /\ UNCHANGED <<launchHostVars, lockVars, page, ran, names, moves>>

-----------------------------------------------------------------------------
(* Resume                                                                  *)

\* joinResumeLock.
Resume(a, t) ==
  /\ ask[a].at = "new" /\ known
  /\ LET l == IF mapped[t] = NoAsk THEN a ELSE mapped[t]
     IN /\ mapped' = [mapped EXCEPT ![t] = l] /\ users' = [users EXCEPT ![l] = @ + 1]
        /\ Becomes(a, [NewAsk EXCEPT !.at = "waiting", !.talk = t, !.name = TalkName[t], !.mode = "resume", !.lock = l])
  /\ UNCHANGED <<launchHostVars, held, labelVars, ran, names, moves>>

\* lockResume: held, or no longer waited for.
LockTaken(a) ==
  /\ ask[a].at = "waiting" /\ ~held[ask[a].lock] /\ held' = [held EXCEPT ![ask[a].lock] = TRUE]
  /\ Becomes(a, [ask[a] EXCEPT !.at = "holding"])
  /\ UNCHANGED <<launchHostVars, mapped, users, labelVars, ran, names, moves>>
GivesUp(a) ==
  /\ ask[a].at = "waiting" /\ Release(a) /\ Ended(a)
  /\ UNCHANGED <<launchHostVars, labelVars, ran, names, moves>>

\* The collection: it fails, lists no such stopped task or no directory for
\* it, or says whether the task's tmux session is free.
TaskFound(a) ==
  LET t == ask[a].talk
      unseen == (\E s \in Busy : window[s].talk = t) \/ (\E w \in stray : w.talk = t)
  IN
  /\ ask[a].at = "holding"
  /\ \/ Release(a) /\ Ended(a) /\ UNCHANGED names
     \/ /\ known /\ t \in Stopped /\ names' = names \cup {ask[a].name} /\ UNCHANGED lockVars
        /\ Becomes(a, [ask[a] EXCEPT !.at = "launch", !.blind = unseen,
                         !.reuse = \A s \in Listed : window[s].name # ask[a].name])
  /\ UNCHANGED <<launchHostVars, labelVars, ran, moves>>

-----------------------------------------------------------------------------
(* The labels that wait                                                    *)

\* GET /api/tasks: the collection, and then Apply.
ListTasks(p) ==
  /\ page[p].at = "none"
  /\ \E ok \in BOOLEAN :
       page' = [page EXCEPT ![p] =
         [at |-> "listed", known |-> known, ok |-> ok,
          seen |-> {<<window[s].name, window[s].talk>> : s \in {r \in Listed : window[r].talk \notin Given}}]]
  /\ UNCHANGED <<launchHostVars, ask, lockVars, pending, labelled, ran, names, moves>>

Ages(n) ==
  /\ pending[n] = "fresh" /\ pending' = [pending EXCEPT ![n] = "aged"]
  /\ UNCHANGED <<launchHostVars, ask, lockVars, labelled, page, ran, names, moves>>

\* The conversations a snapshot shows in a tmux session, as sessionsIn.
IDsIn(list, n) == {t \in Talks : <<n, t>> \in list}

\* Mutant: the labels go to whichever conversation is found there.
KeepsToOneNever(ids) == ids # {}

KeepsToOne(ids) == Cardinality(ids) = 1

\* What becomes of one entry: it stays, goes, or is recorded.
Drops(n, v) ==
  \/ ~v.known
  \/ v.ok /\ Cardinality(IDsIn(v.seen, n)) > 1 /\ ~KeepsToOne(IDsIn(v.seen, n))
  \/ v.ok /\ IDsIn(v.seen, n) = {} /\ <<n, NoTalk>> \notin v.seen /\ pending[n] = "aged"

Claims(n, v) ==
  {t \in IDsIn(v.seen, n) : v.known /\ v.ok /\ KeepsToOne(IDsIn(v.seen, n)) /\ <<n, NoTalk>> \notin v.seen}

Apply(p) ==
  /\ page[p].at = "listed" /\ page' = [page EXCEPT ![p] = NoPage]
  /\ LET waits == {n \in TmuxNames : pending[n] # "none"}
         v == page[p]
     IN \E saved \in SUBSET {n \in waits : Claims(n, v) # {}} :
          /\ pending' = [n \in TmuxNames |-> IF n \in waits /\ (Drops(n, v) \/ n \in saved) THEN "none" ELSE pending[n]]
          /\ labelled' = labelled \cup {x \in saved \X Talks : x[2] \in Claims(x[1], v)}
  /\ UNCHANGED <<launchHostVars, ask, lockVars, ran, names, moves>>

-----------------------------------------------------------------------------
LaunchInit ==
  /\ window = [s \in Windows |-> NoWindow] /\ plain = {} /\ logs = Began /\ known = TRUE /\ stray = {}
  /\ ask = [a \in Asks |-> NewAsk] /\ mapped = [t \in Talks |-> NoAsk]
  /\ users = [a \in Asks |-> 0] /\ held = [a \in Asks |-> FALSE]
  /\ pending = [n \in TmuxNames |-> "none"] /\ labelled = {} /\ page = [p \in Pages |-> NoPage]
  /\ ran = {} /\ names = {} /\ moves = 0

LaunchNext ==
  \/ \E s \in Windows : AgentStarts(s) \/ AgentPicks(s) \/ AgentEnds(s)
  \/ \E n \in TmuxNames : UserOpens(n) \/ UserStarts(n) \/ Ages(n)
  \/ HostChanges \/ (\E w \in stray : StrayEnds(w))
  \/ \E a \in Asks :
       \/ Launch(a) \/ LaunchAnswered(a) \/ RecordLabels(a) \/ LockTaken(a) \/ GivesUp(a) \/ TaskFound(a)
       \/ \E t \in Talks : Resume(a, t)
  \/ \E p \in Pages : ListTasks(p) \/ Apply(p)

LaunchSpec == LaunchInit /\ [][LaunchNext]_launchVars

LaunchTypeOK ==
  /\ window \in [Windows -> WindowState]
  /\ ask \in [Asks -> AskState] /\ stray \subseteq AskState
  /\ plain \subseteq TmuxNames /\ logs \subseteq Talks /\ known \in BOOLEAN /\ names \subseteq TmuxNames
  /\ mapped \in [Talks -> Asks \cup {NoAsk}] /\ users \in [Asks -> 0..Cardinality(Asks)] /\ held \in [Asks -> BOOLEAN]
  /\ pending \in [TmuxNames -> {"none", "fresh", "aged"}] /\ labelled \cup ran \subseteq TmuxNames \X Talks

-----------------------------------------------------------------------------
(* Properties                                                              *)

\* No conversation runs twice, but for a resume that was asked for while the
\* agent of the one before was still behind the host's shell, or its script
\* was given up on: those the collection cannot see.
ResumedOnce ==
  \A s, r \in Busy : s # r /\ window[s].talk = window[r].talk /\ window[s].talk # NoTalk
                     => window[s].blind \/ window[r].blind

\* A lock is kept exactly while a resume needs it.
LocksFreed ==
  \A t \in Talks : mapped[t] # NoAsk <=> \E a \in Asks : ask[a].lock # NoAsk /\ ask[a].talk = t /\ ask[a].at # "done"

\* The labels of a task go to one conversation, which ran in the tmux session
\* they were given for.
LabelsOfOne ==
  /\ \A x \in labelled : x \in ran \/ x[2] \in Given
  /\ \A x, y \in labelled : x[1] = y[1] => x = y

\* What launches and resumes must not do.
LaunchesHold == ResumedOnce /\ LocksFreed /\ LabelsOfOne
=============================================================================

----------------------------- MODULE BoardAttach -----------------------------
(***************************************************************************)
(* The task dashboard's temporary terminals (internal/api/task_attach.go,  *)
(* host_terminal.go): the attach a task is given, one per task, and the    *)
(* host terminals of a connection, at most MaxHostTerminals.  Each is a    *)
(* session of the SessionManager that no layout lists; it lives until a    *)
(* DELETE, or until no WebSocket has read it for the grace period.         *)
(*                                                                         *)
(* HTTP requests, WebSocket handlers, grace timers, session pumps and the  *)
(* reports to the watcher all run concurrently; each critical section of   *)
(* boardAttaches.mu is one action.                                         *)
(***************************************************************************)
EXTENDS SessionManager

CONSTANTS
  Tasks,
  Connections,      \* ssh_connections a host terminal may be opened on
  Requests,         \* POST requests, each served once
  NoSession,
  NoTarget,
  MaxHostTerminals, \* maxHostTerminalsPerConnection
  MaxFired          \* bound: fired timers waiting for the mutex at once

ASSUME BoardAttachAssumption ==
  /\ NoSession \notin Sessions /\ NoTarget \notin Tasks \cup Connections
  /\ Tasks \cap Connections = {} /\ IsFiniteSet(Requests)
  /\ MaxHostTerminals \in Nat \ {0} /\ MaxFired \in Nat

VARIABLES
  requests,    \* where each request is, what it is for, the session it has
  byTask,      \* boardAttaches.byTask (a host terminal's key is its own)
  bySession,   \* boardAttaches.bySession
  target,      \* the boardAttach of a session: its task, or its connection
  timer,       \* boardAttach.timer is set
  generation,  \* boardAttach.generation
  fired,       \* timers that fired and wait for the mutex
  creating,    \* boardAttaches.creating
  opening,     \* boardAttaches.hostOpening
  doomed,      \* sessions a DELETE or a timer forgot and is about to remove
  socket       \* the session each WebSocket was opened on

Request ==
  [at : {"idle", "reserve", "removing", "creating", "adding", "watching", "releasing",
         "answered", "failed"},
   for : Tasks \cup Connections \cup {NoTarget}, session : Sessions \cup {NoSession}]

registryVars == <<byTask, bySession, target, timer, generation>>
requestVars  == <<requests, creating, opening>>
vars == <<managerVars, requestVars, registryVars, fired, doomed, socket>>

At(r, at) == requests[r].at = at
Move(r, at) == requests' = [requests EXCEPT ![r].at = at]
Forward(r, at, s) == requests' = [requests EXCEPT ![r].at = at, ![r].session = s]

\* A request that holds what it reserved.
Holding(r) == requests[r].at \in {"creating", "adding", "watching", "releasing"}

\* The sessions clients know of, from the answers.
Known == {requests[r].session : r \in {q \in Requests : At(q, "answered")}}

(***************************************************************************)
(* The registry                                                            *)
(***************************************************************************)
\* Mutant: forgetting leaves the task's entry.
ForgetSessionOnly(s) ==
  /\ bySession' = bySession \ {s}
  /\ timer' = timer \ {s}
  /\ UNCHANGED <<byTask, target, generation>>

\* forgetLocked
Forget(s) ==
  /\ bySession' = bySession \ {s}
  /\ byTask' = [t \in Tasks |-> IF byTask[t] = s THEN NoSession ELSE byTask[t]]
  /\ timer' = timer \ {s}
  /\ UNCHANGED <<target, generation>>

\* armBoardAttachLocked
Arm(s) ==
  /\ timer' = timer \cup {s}
  /\ generation' = [generation EXCEPT ![s] = @ + 1]

\* Mutant: a reader does not outdate the timer that already fired.
StopQuietly(s) ==
  /\ timer' = timer \ {s}
  /\ generation' = generation

Stop(s) ==
  /\ timer' = timer \ {s}
  /\ generation' = [generation EXCEPT ![s] = @ + 1]

\* Mutant: the grace period is not started again when the last reader leaves.
HeardReader(s, count) ==
  /\ IF s \in bySession /\ count > 0 /\ s \in timer THEN Stop(s)
     ELSE UNCHANGED <<timer, generation>>
  /\ UNCHANGED <<byTask, bySession, target>>

\* boardAttachSubscribers
Heard(s, count) ==
  /\ IF s \notin bySession            THEN UNCHANGED <<timer, generation>>
     ELSE IF count > 0 /\ s \in timer THEN Stop(s)
     ELSE IF count = 0 /\ s \notin timer THEN Arm(s)
     ELSE UNCHANGED <<timer, generation>>
  /\ UNCHANGED <<byTask, bySession, target>>

(***************************************************************************)
(* POST /api/tasks/attach and POST /api/hosts/terminal                     *)
(***************************************************************************)
Post(r, for) ==
  /\ At(r, "idle")
  /\ requests' = [requests EXCEPT ![r] = [at |-> "reserve", for |-> for, session |-> NoSession]]
  /\ UNCHANGED <<managerVars, creating, opening, registryVars, fired, doomed, socket>>

Usable(s) == s \in managed /\ state[s] # "exited"

\* reserveBoardAttach, one round of its loop
ReserveTask(r) ==
  LET t == requests[r].for
      a == byTask[t]
  IN
  /\ At(r, "reserve") /\ t \in Tasks
  /\ \/ /\ a # NoSession /\ Usable(a)
        /\ Forward(r, "answered", a)
        /\ UNCHANGED <<creating, registryVars>>
     \/ /\ a # NoSession /\ ~Usable(a)
        /\ Forget(a)
        /\ Forward(r, "removing", a)
        /\ UNCHANGED creating
     \/ /\ a = NoSession /\ t \notin creating
        /\ creating' = creating \cup {t}
        /\ Move(r, "creating")
        /\ UNCHANGED registryVars
  /\ UNCHANGED <<managerVars, opening, fired, doomed, socket>>

\* The request ends while another creation runs.
GiveUp(r) ==
  /\ At(r, "reserve") /\ requests[r].for \in creating /\ byTask[requests[r].for] = NoSession
  /\ Move(r, "failed")
  /\ UNCHANGED <<managerVars, creating, opening, registryVars, fired, doomed, socket>>

\* removeBoardAttachSession of an attach whose client exited
RemoveExited(r) ==
  /\ At(r, "removing")
  /\ Remove(requests[r].session)
  /\ Forward(r, "reserve", NoSession)
  /\ UNCHANGED <<creating, opening, registryVars, fired, doomed, socket>>

\* Mutant: only registered terminals count against the cap.
TerminalsRegistered(c) == Cardinality({s \in bySession : target[s] = c /\ Usable(s)})

\* Host terminals that count against the cap: open or being opened.
Terminals(c) == opening[c] + Cardinality({s \in bySession : target[s] = c /\ Usable(s)})

\* Mutant: the place is not taken.
Uncounted(c) == opening

\* hostOpening with one more terminal being opened.
Counted(c) == [opening EXCEPT ![c] = @ + 1]

\* reserveHostTerminal
ReserveHost(r) ==
  LET c == requests[r].for IN
  /\ At(r, "reserve") /\ c \in Connections
  /\ IF Terminals(c) >= MaxHostTerminals
       THEN Move(r, "failed") /\ opening' = opening
       ELSE Move(r, "creating") /\ opening' = Counted(c)
  /\ UNCHANGED <<managerVars, creating, registryVars, fired, doomed, socket>>

\* Mutant: a creation that failed is not released.
ReleaseKept(t) == UNCHANGED <<creating, opening>>

\* The deferred release of what was reserved for t.
Release(t) ==
  /\ creating' = creating \ {t}
  /\ opening' = [c \in Connections |-> IF c = t THEN opening[c] - 1 ELSE opening[c]]

\* The task is gone, or its session could not be created.
CreateFail(r) ==
  /\ At(r, "creating")
  /\ Move(r, "failed")
  /\ Release(requests[r].for)
  /\ UNCHANGED <<managerVars, registryVars, fired, doomed, socket>>

\* The session is created and registerBoardAttach registers it.
Register(r, s) ==
  LET t == requests[r].for IN
  /\ At(r, "creating")
  /\ CreateSession(s)
  /\ byTask' = [u \in Tasks |-> IF u = t THEN s ELSE byTask[u]]
  /\ bySession' = bySession \cup {s}
  /\ target' = [target EXCEPT ![s] = t]
  /\ Arm(s)
  /\ Forward(r, "adding", s)
  /\ UNCHANGED <<creating, opening, fired, doomed, socket>>

\* ... then manager.Add and manager.Watch, outside the mutex.
AddAttach(r) ==
  /\ At(r, "adding")
  /\ Add(requests[r].session)
  /\ Move(r, "watching")
  /\ UNCHANGED <<creating, opening, registryVars, fired, doomed, socket>>

WatchAttach(r) ==
  /\ At(r, "watching")
  /\ Watch(requests[r].session)
  /\ Move(r, "releasing")
  /\ UNCHANGED <<creating, opening, registryVars, fired, doomed, socket>>

Answer(r) ==
  /\ At(r, "releasing")
  /\ Release(requests[r].for)
  /\ Move(r, "answered")
  /\ UNCHANGED <<managerVars, registryVars, fired, doomed, socket>>

(***************************************************************************)
(* DELETE, the grace timer, and the WebSockets                             *)
(***************************************************************************)
Delete(s) ==
  /\ s \in Known
  /\ s \in bySession
  /\ Forget(s)
  /\ doomed' = doomed \cup {s}
  /\ UNCHANGED <<managerVars, requestVars, fired, socket>>

\* The grace period outlasts the two calls that follow the registration.
Fire(s) ==
  /\ s \in timer /\ Cardinality(fired) < MaxFired
  /\ \A r \in Requests : requests[r].session = s => ~At(r, "adding") /\ ~At(r, "watching")
  /\ fired' = fired \cup {<<s, generation[s]>>}
  /\ UNCHANGED <<managerVars, requestVars, registryVars, doomed, socket>>

TimerRun(x) ==
  LET s == x[1] IN
  /\ x \in fired
  /\ fired' = fired \ {x}
  /\ IF s \in bySession /\ generation[s] = x[2]
       THEN Forget(s) /\ doomed' = doomed \cup {s}
       ELSE UNCHANGED <<registryVars, doomed>>
  /\ UNCHANGED <<managerVars, requestVars, socket>>

RemoveDoomed(s) ==
  /\ s \in doomed
  /\ Remove(s)
  /\ doomed' = doomed \ {s}
  /\ UNCHANGED <<requestVars, registryVars, fired, socket>>

Open(k, s) ==
  /\ socket[k] = NoSession
  /\ s \in Known
  /\ Subscribe(s, k)
  /\ socket' = [socket EXCEPT ![k] = s]
  /\ UNCHANGED <<requestVars, registryVars, fired, doomed>>

Close(k) ==
  /\ socket[k] # NoSession
  /\ Unsubscribe(socket[k], k)
  /\ socket' = [socket EXCEPT ![k] = NoSession]
  /\ UNCHANGED <<requestVars, registryVars, fired, doomed>>

\* A report that is believed reaches boardAttachSubscribers.
Report(s, n) ==
  /\ Notify(s, n)
  /\ IF Believes(s, n) THEN Heard(s, n.count) ELSE UNCHANGED registryVars
  /\ UNCHANGED <<requestVars, fired, doomed, socket>>

\* The session's own end, and the end of its pump.
SessionStep(s) ==
  /\ EndSession(s) \/ EndOutput(s)
  /\ UNCHANGED <<requestVars, registryVars, fired, doomed, socket>>

-----------------------------------------------------------------------------
Init ==
  /\ ManagerInit
  /\ requests = [r \in Requests |-> [at |-> "idle", for |-> NoTarget, session |-> NoSession]]
  /\ byTask = [t \in Tasks |-> NoSession] /\ bySession = {}
  /\ target = [s \in Sessions |-> NoTarget]
  /\ timer = {} /\ generation = [s \in Sessions |-> 0]
  /\ fired = {}
  /\ creating = {} /\ opening = [c \in Connections |-> 0]
  /\ doomed = {}
  /\ socket = [k \in Sockets |-> NoSession]

RequestStep(r) ==
  \/ ReserveTask(r) \/ RemoveExited(r) \/ ReserveHost(r)
  \/ AddAttach(r) \/ WatchAttach(r) \/ Answer(r)
  \/ CreateFail(r)
  \/ \E s \in Sessions : Register(r, s)

Next ==
  \/ \E r \in Requests, for \in Tasks \cup Connections : Post(r, for)
  \/ \E r \in Requests : RequestStep(r) \/ GiveUp(r)
  \/ \E s \in Sessions :
       \/ Delete(s) \/ Fire(s) \/ RemoveDoomed(s) \/ SessionStep(s)
       \/ \E n \in notices[s] : Report(s, n)
  \/ \E x \in fired : TimerRun(x)
  \/ \E k \in Sockets : Close(k) \/ \E s \in Sessions : Open(k, s)

Spec == Init /\ [][Next]_vars

\* Requests are served, timers fire and run, and pumps and reports go on;
\* nothing makes a client post, connect, disconnect or delete.
Steps ==
  \/ \E r \in Requests : RequestStep(r)
  \/ \E s \in Sessions :
       \/ Fire(s) \/ RemoveDoomed(s) \/ \E n \in notices[s] : Report(s, n)
       \/ EndOutput(s) /\ UNCHANGED <<requestVars, registryVars, fired, doomed, socket>>
  \/ \E x \in fired : TimerRun(x)

Fairness == WF_vars(Steps)

FairSpec == Spec /\ Fairness

-----------------------------------------------------------------------------
TypeOK ==
  /\ ManagerTypeOK
  /\ requests \in [Requests -> Request]
  /\ byTask \in [Tasks -> Sessions \cup {NoSession}]
  /\ bySession \in SUBSET Sessions
  /\ target \in [Sessions -> Tasks \cup Connections \cup {NoTarget}]
  /\ timer \in SUBSET Sessions
  /\ generation \in [Sessions -> Nat]
  /\ fired \in SUBSET (Sessions \X Nat)
  /\ creating \in SUBSET (Tasks \cup Connections)
  /\ opening \in [Connections -> Nat]
  /\ doomed \in SUBSET Sessions
  /\ socket \in [Sockets -> Sessions \cup {NoSession}]

\* One registered attach per task, and the two maps of the registry agree.
RegistryConsistent ==
  /\ \A t \in Tasks : byTask[t] # NoSession => byTask[t] \in bySession /\ target[byTask[t]] = t
  /\ \A s \in bySession : target[s] \in Tasks => byTask[target[s]] = s

\* A registered terminal's grace period runs exactly while no WebSocket reads
\* it, as soon as every change of their number has been reported.
GraceFollowsReaders ==
  \A s \in bySession :
    (notices[s] = {} /\ delivered[s] = changes[s]) => (s \in timer <=> subs[s] = {})

\* A timer ends only a terminal its watcher last heard nobody reads: one that
\* fired as a WebSocket came back finds itself outdated.
TimerEndsUnread ==
  [][\A x \in fired :
       (TimerRun(x) /\ x[1] \in bySession /\ x[1] \notin bySession') => heard[x[1]] = 0]_vars

\* No more host terminals run on a connection than the cap, those being
\* opened counted, those being removed not.
HostCap ==
  \A c \in Connections :
    /\ opening[c] = Cardinality({r \in Requests : requests[r].for = c /\ Holding(r)})
    /\ Cardinality({s \in Sessions : /\ target[s] = c /\ state[s] = "connected"
                                     /\ s \in managed /\ s \notin doomed})
         <= MaxHostTerminals

\* Every request is answered or fails: none waits for a creation for ever.
RequestsEnd == \A r \in Requests : []<>(requests[r].at \in {"idle", "answered", "failed"})

\* A terminal nobody reads is destroyed, unless a WebSocket comes: none is
\* registered and unread, or about to be removed, for ever.
UnreadEnds ==
  \A s \in Sessions :
    /\ []<>(s \notin bySession \/ \E k \in Sockets : socket[k] = s)
    /\ []<>(s \notin doomed)

\* What bounds the terminals made for the board: their readers and the cap
\* (onSubscribers, hostTerminal).
AttachesBounded == GraceFollowsReaders /\ HostCap

\* "One attach per task ... two requests at once create one": a task has one
\* terminal, not counting one that is being removed.
OneAttachPerTask ==
  \A s, u \in managed \ doomed :
    (s # u /\ target[s] = target[u] /\ target[s] \in Tasks)
      => \E r \in Requests : At(r, "removing") /\ requests[r].session \in {s, u}
=============================================================================

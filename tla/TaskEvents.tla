----------------------------- MODULE TaskEvents -----------------------------
(***************************************************************************)
(* The task event stream, from the collections on every host to the store  *)
(* of every browser tab:                                                   *)
(*                                                                         *)
(*  - taskevents.Publisher: the model, the subscribers' buffered channels, *)
(*    the supervisor goroutine and one observation loop per host, all      *)
(*    under one mutex;                                                     *)
(*  - ws.TaskEventsHandler: one goroutine per connection between a         *)
(*    subscription and the wire;                                           *)
(*  - useTaskEvents: the tab's one socket, its store and its reconnection. *)
(*                                                                         *)
(* Each critical section is one action, except those that publish: the     *)
(* frames reach the subscribers one at a time while handlers drain their   *)
(* channels, so a publishing section is a `job`, one PublishFrame per      *)
(* frame, ended by Unlock, and the mutex is held while there is one.       *)
(* The environment (what the tasks do, the configured hosts, failures,     *)
(* lost connections, server restarts) spends a bounded number of faults.   *)
(***************************************************************************)
EXTENDS TaskEventModel, Sequences, FiniteSets

CONSTANTS
  Tabs,
  Conns,       \* WebSocket connections; one is reused once both ends left it
  NoConn,
  Slots,       \* room for more observation loops per host than there may be
  Buffer,      \* Options.Buffer
  WireCap,     \* frames in flight on a connection before a write blocks
  Worlds,      \* what the tasks may be when the server first starts
  MaxFaults,   \* bound: environment steps
  MaxSeq       \* bound: the position up to which a tab still connects

ASSUME BoundsAssumption ==
  /\ Buffer \in Nat \ {0} /\ WireCap \in Nat \ {0} /\ MaxFaults \in Nat /\ MaxSeq \in Nat
  /\ NoConn \notin Conns
  /\ Worlds \subseteq [Tasks -> Observations \cup {Absent}]
  /\ 1 \in Slots /\ 2 \in Slots
  /\ IsFiniteSet(Remotes) /\ IsFiniteSet(Tasks)

VARIABLES
  model,       \* Publisher.model
  subs,        \* Publisher.subs; a channel outside it is closed
  chan,        \* the frames each subscription's channel holds
  observing, closed, supervised,
  supervisors, \* superviseHosts goroutines running
  looping,     \* Publisher.looping
  loops,       \* observeHost goroutines, by host and slot
  job,         \* what the holder of the mutex is publishing, if anything
  handler,     \* the server side of each connection
  wire,        \* frames written to each connection and not yet received
  socket,      \* useTaskEvents: socket
  store,       \* useTaskEvents: store
  configured,  \* the hosts of ssh_connections
  world,       \* what each task really is on its host
  faults       \* environment steps so far

publisherVars == <<subs, chan, observing, closed, supervised, supervisors, looping, loops, job>>
connVars      == <<handler, wire, socket, store>>
envVars       == <<configured, world, faults>>
vars == <<model, publisherVars, connVars, envVars>>

(***************************************************************************)
(* Publisher                                                               *)
(***************************************************************************)
NoJob == [op |-> "none"]
Free  == job = NoJob

Ended      == [at |-> "ended"]
Collecting == [at |-> "collecting"]
Sleeping   == [at |-> "sleeping"]
Collected(status, seen) == [at |-> "collected", status |-> status, seen |-> seen]

Names == {Local} \cup configured

FreeSlot(h) == CHOOSE s \in Slots : loops[h][s] = Ended

\* Mutant: syncHostsLocked starts a loop without asking whether one runs.
UnwatchedAll(names) == names

Unwatched(names) == names \ looping

\* The loops of syncHostsLocked: one for each name that has none.
StartLoops(names) ==
  /\ looping' = looping \cup names
  /\ loops' = [h \in Hosts |-> IF h \in Unwatched(names)
                               THEN [loops[h] EXCEPT ![FreeSlot(h)] = Collecting]
                               ELSE loops[h]]

JobChanges ==
  IF job.op = "sync"         THEN SyncChanges(model, job.names)
  ELSE IF job.op = "observe" THEN HostChanges(model, job.host, job.status, job.seen)
  ELSE {}

\* Mutants: a buffer without a limit; a subscriber that is full misses a frame.
HasRoomAlways(k) == k \in Conns
FollowersAll     == subs

HasRoom(k) == Len(chan[k]) < Buffer
Followers  == {k \in subs : HasRoom(k)}

\* publishLocked, one frame: a subscriber whose buffer is full is closed.
PublishFrame ==
  \E c \in JobChanges :
    /\ model' = Commit(model, c)
    /\ chan' = [k \in Conns |-> IF k \in subs /\ HasRoom(k)
                                THEN Append(chan[k], Frame(model, c)) ELSE chan[k]]
    /\ subs' = Followers
    /\ UNCHANGED <<observing, closed, supervised, supervisors, looping, loops, job,
                   connVars, envVars>>

\* Mutant: dropping the last subscriber leaves observation running.
StillObserving == observing

KeepsObserving == IF subs = {} THEN FALSE ELSE observing

\* The end of publishLocked and of the critical section around it.
Unlock ==
  /\ ~Free /\ JobChanges = {}
  /\ observing' = KeepsObserving
  /\ IF job.op = "sync" /\ observing'
       THEN StartLoops(job.names)
       ELSE UNCHANGED <<looping, loops>>
  /\ job' = NoJob
  /\ UNCHANGED <<model, subs, chan, closed, supervised, supervisors, connVars, envVars>>

(***************************************************************************)
(* Subscribe: the snapshot goes out as the handler's first write.  The     *)
(* first subscriber starts observation; after Close there is no stream.    *)
(***************************************************************************)
Attached(k) == \E t \in Tabs : socket[t] = k

\* Mutant: the snapshot is taken before startLocked.
FirstWriteEarly(k) ==
  IF Attached(k) THEN [wire EXCEPT ![k] = <<Snapshot(model)>>] ELSE wire

FirstWrite(k) ==
  IF Attached(k) THEN [wire EXCEPT ![k] = <<Snapshot(model')>>] ELSE wire

Subscribe(k) ==
  /\ Free
  /\ handler[k] = "upgraded"
  /\ handler' = [handler EXCEPT ![k] = "streaming"]
  /\ IF ~closed /\ ~observing
       THEN LET s == StartChanges(model, Names)
            IN  /\ model' = Started(model, Names, Cardinality(s.pending)
                              + Cardinality(s.hosts) + Cardinality(s.tasks))
                /\ observing' = TRUE
                /\ StartLoops(Names)
                /\ supervised' = TRUE
                /\ supervisors' = supervisors + (IF supervised THEN 0 ELSE 1)
       ELSE UNCHANGED <<model, observing, looping, loops, supervised, supervisors>>
  /\ subs' = IF closed THEN subs ELSE subs \cup {k}
  /\ wire' = FirstWrite(k)
  /\ UNCHANGED <<chan, closed, job, socket, store, envVars>>

\* Close, on a graceful shutdown.
Close ==
  /\ Free /\ ~closed
  /\ faults < MaxFaults /\ faults' = faults + 1
  /\ closed' = TRUE
  /\ observing' = FALSE
  /\ subs' = {}
  /\ UNCHANGED <<model, chan, supervised, supervisors, looping, loops, job, connVars,
                 configured, world>>

(***************************************************************************)
(* superviseHosts: its timer and the stop channel wake it alike, and it    *)
(* ends when it finds observation stopped.                                 *)
(***************************************************************************)
SuperviseSync ==
  /\ Free /\ supervisors > 0 /\ observing
  /\ IF SyncChanges(model, Names) = {}
       THEN StartLoops(Names) /\ UNCHANGED job
       ELSE /\ job' = [op |-> "sync", names |-> Names]
            /\ UNCHANGED <<looping, loops>>
  /\ UNCHANGED <<model, subs, chan, observing, closed, supervised, supervisors,
                 connVars, envVars>>

\* Mutant: an ended supervisor is taken to run still.
SuperviseEndUnmarked ==
  /\ Free /\ supervisors > 0 /\ ~observing
  /\ supervisors' = supervisors - 1
  /\ UNCHANGED <<model, subs, chan, observing, closed, supervised, looping, loops, job,
                 connVars, envVars>>

SuperviseEnd ==
  /\ Free /\ supervisors > 0 /\ ~observing
  /\ supervised' = FALSE
  /\ supervisors' = supervisors - 1
  /\ UNCHANGED <<model, subs, chan, observing, closed, looping, loops, job,
                 connVars, envVars>>

(***************************************************************************)
(* observeHost, one loop of host h.                                        *)
(***************************************************************************)
ContinueLocked(h) == observing /\ model.hosts[h] # Absent

\* Mutant: an ended loop is taken to run still.
EndLoopUnmarked(h, s) ==
  /\ looping' = looping
  /\ loops' = [loops EXCEPT ![h][s] = Ended]

EndLoop(h, s) ==
  /\ looping' = looping \ {h}
  /\ loops' = [loops EXCEPT ![h][s] = Ended]

\* CollectHostLive reads the host at some moment while it runs, or fails.
CollectOK(h, s) ==
  /\ loops[h][s] = Collecting
  /\ loops' = [loops EXCEPT ![h][s] =
       Collected("ok", [t \in Tasks |-> IF TaskHost[t] = h THEN world[t] ELSE Absent])]
  /\ UNCHANGED <<model, subs, chan, observing, closed, supervised, supervisors, looping, job,
                 connVars, envVars>>

CollectFail(h, s) ==
  /\ loops[h][s] = Collecting
  /\ faults < MaxFaults /\ faults' = faults + 1
  /\ \E status \in Failures :
       loops' = [loops EXCEPT ![h][s] = Collected(status, [t \in Tasks |-> Absent])]
  /\ UNCHANGED <<model, subs, chan, observing, closed, supervised, supervisors, looping, job,
                 connVars, configured, world>>

\* The result arrives: its difference is published, or it is discarded with its loop.
Deliver(h, s) ==
  LET r == loops[h][s] IN
  /\ Free
  /\ r.at = "collected"
  /\ IF ContinueLocked(h)
       THEN /\ job' = IF HostChanges(model, h, r.status, r.seen) = {} THEN NoJob
                      ELSE [op |-> "observe", host |-> h, status |-> r.status, seen |-> r.seen]
            /\ loops' = [loops EXCEPT ![h][s] = Sleeping]
            /\ UNCHANGED looping
       ELSE EndLoop(h, s) /\ UNCHANGED job
  /\ UNCHANGED <<model, subs, chan, observing, closed, supervised, supervisors,
                 connVars, envVars>>

\* Interval passed, or observation stopped meanwhile.
Wake(h, s) ==
  /\ Free
  /\ loops[h][s] = Sleeping
  /\ IF ContinueLocked(h)
       THEN loops' = [loops EXCEPT ![h][s] = Collecting] /\ UNCHANGED looping
       ELSE EndLoop(h, s)
  /\ UNCHANGED <<model, subs, chan, observing, closed, supervised, supervisors, job,
                 connVars, envVars>>

(***************************************************************************)
(* TaskEventsHandler                                                       *)
(***************************************************************************)
Forward(k) ==
  /\ handler[k] = "streaming" /\ Attached(k)
  /\ chan[k] # <<>> /\ Len(wire[k]) < WireCap
  /\ wire' = [wire EXCEPT ![k] = Append(@, Head(chan[k]))]
  /\ chan' = [chan EXCEPT ![k] = Tail(@)]
  /\ UNCHANGED <<model, subs, observing, closed, supervised, supervisors, looping, loops, job,
                 handler, socket, store, envVars>>

\* ServeHTTP returns, its deferred cancel runs unsubscribe, and the connection closes.
HandlerExit(k) ==
  /\ Free
  /\ handler[k] = "streaming"
  /\ \/ ~Attached(k)
     \/ k \notin subs /\ chan[k] = <<>>
  /\ subs' = subs \ {k}
  /\ chan' = [chan EXCEPT ![k] = <<>>]
  /\ observing' = IF k \in subs /\ subs' = {} THEN FALSE ELSE observing
  /\ handler' = [handler EXCEPT ![k] = IF Attached(k) THEN "closed" ELSE "idle"]
  /\ UNCHANGED <<model, closed, supervised, supervisors, looping, loops, job,
                 wire, socket, store, envVars>>

(***************************************************************************)
(* useTaskEvents                                                           *)
(***************************************************************************)
Connect(t) ==
  /\ socket[t] = NoConn
  /\ model.seq <= MaxSeq
  /\ \E k \in Conns :
       /\ handler[k] = "idle" /\ ~Attached(k)
       /\ socket' = [socket EXCEPT ![t] = k]
       /\ handler' = [handler EXCEPT ![k] = "upgraded"]
  /\ UNCHANGED <<model, publisherVars, wire, store, envVars>>

\* Mutant: the tab goes on showing what it holds.
LoseNothing(t) ==
  LET k == socket[t]
  IN  /\ socket' = [socket EXCEPT ![t] = NoConn]
      /\ store' = store
      /\ wire' = [wire EXCEPT ![k] = <<>>]
      /\ handler' = [handler EXCEPT ![k] = IF @ = "closed" THEN "idle" ELSE @]

\* lose: what the tab holds is discarded and the socket closed.
Lose(t) ==
  LET k == socket[t]
  IN  /\ socket' = [socket EXCEPT ![t] = NoConn]
      /\ store' = [store EXCEPT ![t] = Absent]
      /\ wire' = [wire EXCEPT ![k] = <<>>]
      /\ handler' = [handler EXCEPT ![k] = IF @ = "closed" THEN "idle" ELSE @]

\* onmessage
Receive(t) ==
  LET k == socket[t] IN
  /\ k # NoConn
  /\ wire[k] # <<>>
  /\ LET next == ApplyTaskEventFrame(store[t], Head(wire[k]))
     IN  IF next = Refused THEN Lose(t)
         ELSE /\ store' = [store EXCEPT ![t] = next]
              /\ wire' = [wire EXCEPT ![k] = Tail(@)]
              /\ UNCHANGED <<handler, socket>>
  /\ UNCHANGED <<model, publisherVars, envVars>>

\* onclose, after everything the server wrote was received
ServerClosed(t) ==
  LET k == socket[t] IN
  /\ k # NoConn
  /\ handler[k] = "closed" /\ wire[k] = <<>>
  /\ Lose(t)
  /\ UNCHANGED <<model, publisherVars, envVars>>

\* onerror, a network failure, or the page reloading
Disconnect(t) ==
  /\ socket[t] # NoConn
  /\ faults < MaxFaults /\ faults' = faults + 1
  /\ Lose(t)
  /\ UNCHANGED <<model, publisherVars, configured, world>>

(***************************************************************************)
(* The environment                                                         *)
(***************************************************************************)
WorldStep(t) ==
  /\ faults < MaxFaults /\ faults' = faults + 1
  /\ \E o \in (Observations \cup {Absent}) \ {world[t]} : world' = [world EXCEPT ![t] = o]
  /\ UNCHANGED <<model, publisherVars, connVars, configured>>

Configure ==
  /\ faults < MaxFaults /\ faults' = faults + 1
  /\ \E r \in Remotes :
       configured' = IF r \in configured THEN configured \ {r} ELSE configured \cup {r}
  /\ UNCHANGED <<model, publisherVars, connVars, world>>

\* The process ends, crashed or after Close, and another one starts.
Restart ==
  /\ \/ closed /\ UNCHANGED faults
     \/ ~closed /\ faults < MaxFaults /\ faults' = faults + 1
  /\ model' = NewEventModel(model.epoch + 1)
  /\ subs' = {} /\ chan' = [k \in Conns |-> <<>>]
  /\ observing' = FALSE /\ closed' = FALSE
  /\ supervised' = FALSE /\ supervisors' = 0
  /\ looping' = {} /\ loops' = [h \in Hosts |-> [s \in Slots |-> Ended]]
  /\ job' = NoJob
  /\ handler' = [k \in Conns |-> IF Attached(k) THEN "closed" ELSE "idle"]
  /\ UNCHANGED <<wire, socket, store, configured, world>>

-----------------------------------------------------------------------------
Init ==
  /\ model = NewEventModel(1)
  /\ subs = {} /\ chan = [k \in Conns |-> <<>>]
  /\ observing = FALSE /\ closed = FALSE
  /\ supervised = FALSE /\ supervisors = 0
  /\ looping = {} /\ loops = [h \in Hosts |-> [s \in Slots |-> Ended]]
  /\ job = NoJob
  /\ handler = [k \in Conns |-> "idle"] /\ wire = [k \in Conns |-> <<>>]
  /\ socket = [t \in Tabs |-> NoConn] /\ store = [t \in Tabs |-> Absent]
  /\ configured = Remotes
  /\ world \in Worlds
  /\ faults = 0

Next ==
  \/ PublishFrame \/ Unlock \/ Close \/ SuperviseSync \/ SuperviseEnd
  \/ \E k \in Conns : Subscribe(k) \/ Forward(k) \/ HandlerExit(k)
  \/ \E h \in Hosts, s \in Slots :
       CollectOK(h, s) \/ CollectFail(h, s) \/ Deliver(h, s) \/ Wake(h, s)
  \/ \E t \in Tabs : Connect(t) \/ Receive(t) \/ ServerClosed(t) \/ Disconnect(t)
  \/ \E t \in Tasks : WorldStep(t)
  \/ Configure \/ Restart

Spec == Init /\ [][Next]_vars

(***************************************************************************)
(* Every goroutine that can run does, timers fire, and a tab reconnects    *)
(* after every close.  A publishing section always ends, so a goroutine    *)
(* that waits for the mutex needs only weak fairness once no more of them  *)
(* begin.  Nothing makes the environment do anything, but a server that    *)
(* shut down is started again.                                             *)
(***************************************************************************)
Fairness ==
  /\ WF_vars(PublishFrame) /\ WF_vars(Unlock)
  /\ WF_vars(SuperviseSync) /\ WF_vars(SuperviseEnd)
  /\ \A k \in Conns : WF_vars(Subscribe(k)) /\ WF_vars(Forward(k)) /\ WF_vars(HandlerExit(k))
  /\ \A h \in Hosts, s \in Slots :
       WF_vars(CollectOK(h, s)) /\ WF_vars(Deliver(h, s)) /\ WF_vars(Wake(h, s))
  /\ \A t \in Tabs : WF_vars(Connect(t)) /\ WF_vars(Receive(t)) /\ WF_vars(ServerClosed(t))
  /\ WF_vars(closed /\ Restart)

FairSpec == Spec /\ Fairness

-----------------------------------------------------------------------------
JobType ==
  {NoJob} \cup [op : {"sync"}, names : SUBSET Hosts]
          \cup [op : {"observe"}, host : Hosts, status : Statuses,
                seen : [Tasks -> Observations \cup {Absent}]]

LoopType ==
  {Ended, Collecting, Sleeping}
    \cup [at : {"collected"}, status : Statuses, seen : [Tasks -> Observations \cup {Absent}]]

TypeOK ==
  /\ model \in Image
  /\ subs \in SUBSET Conns
  /\ chan \in [Conns -> Seq(ChangeFrame)]
  /\ \A k \in Conns : Len(chan[k]) <= Buffer
  /\ observing \in BOOLEAN /\ closed \in BOOLEAN /\ supervised \in BOOLEAN
  /\ supervisors \in Nat
  /\ looping \in SUBSET Hosts
  /\ loops \in [Hosts -> [Slots -> LoopType]]
  /\ job \in JobType
  /\ handler \in [Conns -> {"idle", "upgraded", "streaming", "closed"}]
  /\ wire \in [Conns -> Seq(ChangeFrame \cup SnapshotFrame)]
  /\ socket \in [Tabs -> Conns \cup {NoConn}]
  /\ store \in [Tabs -> Image \cup {Absent}]
  /\ configured \in SUBSET Remotes
  /\ world \in [Tasks -> Observations \cup {Absent}]
  /\ faults \in Nat

\* The gap check of applyTaskEventFrame never fires: a connection's frames
\* reach its tab with none missing, repeated or out of place, for a slow
\* subscriber is closed rather than skipped.
NeverRefused ==
  \A t \in Tabs :
    LET k == socket[t] IN
    (k # NoConn /\ wire[k] # <<>>)
      => ApplyTaskEventFrame(store[t], Head(wire[k])) # Refused

\* An open subscription that has been drained shows exactly what the server
\* last published: no change is committed to the model without its frame.
DrainedIsCurrent ==
  \A t \in Tabs :
    LET k == socket[t] IN
    (k # NoConn /\ k \in subs /\ wire[k] = <<>> /\ chan[k] = <<>>) => store[t] = model

\* Observations of one host never overlap, whatever the order in which loops
\* end and subscribers, host lists and restarts start them, and there is one
\* supervisor.
OneLoopPerHost ==
  /\ \A h \in Hosts, s1, s2 \in Slots :
       (loops[h][s1] # Ended /\ loops[h][s2] # Ended) => s1 = s2
  /\ supervisors <= 1

\* While observation runs every host the model lists is being observed: no
\* interleaving of a loop's end with a restart leaves a host unwatched.
EveryHostObserved ==
  (observing /\ Free) =>
    /\ supervisors = 1
    /\ \A h \in Hosts : model.hosts[h] # Absent => \E s \in Slots : loops[h][s] # Ended

\* Observation runs exactly while someone listens (a publishing section
\* settles it as it ends).
ObserveWhileSubscribed == Free => (observing <=> subs # {})

\* Who is observed follows who listens and what is configured (syncHosts,
\* supervise, observeHost).
ObservedWhenHeard == OneLoopPerHost /\ EveryHostObserved /\ ObserveWhileSubscribed

\* No image lists a task whose host it does not list, on the server or in a
\* tab: such a task would count as one of a host that answered.
NoOrphan(image) ==
  \A k \in Tasks : image.tasks[k] # Absent => image.hosts[TaskHost[k]] # Absent
NoOrphanTask ==
  /\ NoOrphan(model)
  /\ \A t \in Tabs : store[t] # Absent => NoOrphan(store[t])

\* Once the environment rests, every tab ends up showing the hosts that are
\* configured, each ok, and on them exactly the tasks that really run.
ShowsWorld(t) ==
  /\ store[t] # Absent
  /\ \A h \in Hosts : store[t].hosts[h] = IF h \in Names THEN "ok" ELSE Absent
  /\ \A k \in Tasks :
       LET v == store[t].tasks[k] IN
       IF TaskHost[k] \notin Names \/ world[k] = Absent THEN v = Absent
       ELSE v # Absent /\ v.state = world[k].state
Converges == <>[](\A t \in Tabs : ShowsWorld(t))

=============================================================================

-------------------------- MODULE TaskEventsProofs --------------------------
(***************************************************************************)
(* What holds of the task event stream for any hosts, tasks, tabs,         *)
(* connections and bounds; and, last, what a tab shows, against what the   *)
(* server held: that it is always an image the server held, and that the   *)
(* whole stream implements TaskEventStream.                                *)
(***************************************************************************)
EXTENDS TaskEventsHistory, FiniteSetTheorems, Integers, TLAPS

-----------------------------------------------------------------------------
(***************************************************************************)
(* Lemmas about the operators of TaskEventModel: what they return, and     *)
(* that a tab's applyTaskEventFrame follows the server's model.            *)
(***************************************************************************)
Seen == [Tasks -> Observations \cup {Absent}]

\* An image by its parts.
LEMMA ImageParts ==
  ASSUME NEW m \in Image
  PROVE  /\ m.epoch \in Nat /\ m.seq \in Nat
         /\ m.hosts \in [Hosts -> Statuses \cup {Absent}]
         /\ m.tasks \in [Tasks -> Views \cup {Absent}]
         /\ m = [epoch |-> m.epoch, seq |-> m.seq, hosts |-> m.hosts, tasks |-> m.tasks]
BY DEF Image

\* The view of an observed task is a view.
LEMMA ViewType ==
  ASSUME NEW m \in Image, NEW o \in Observations, NEW prev \in Views \cup {Absent}
  PROVE  View(m, o, prev) \in Views
<1>1. o.state \in States /\ o.signature \in Signatures \cup {NoSignature}
  BY ObservationsAssumption
<1>2. o.waitingFor \in Reasons /\ NoReason \in Reasons
  BY DEF Reasons
<1>3. CASE o.state # "wait"
  BY <1>1, <1>2, <1>3 DEF View, Views, WaitIDs
<1>4. CASE o.state = "wait"
  <2>1. UnsignedWaitID(m.epoch, m.seq + 1) \in Nat \X Nat
    BY DEF UnsignedWaitID, Image
  <2>2. KeepsWaitID(o, prev) => prev.waitID \in WaitIDs
    BY DEF KeepsWaitID, IsUnsignedWaitID, WaitIDs
  <2> DEFINE id == IF o.signature # NoSignature THEN o.signature
                   ELSE IF KeepsWaitID(o, prev) THEN prev.waitID
                   ELSE UnsignedWaitID(m.epoch, m.seq + 1)
  <2>3. id \in WaitIDs
    BY <1>1, <2>1, <2>2 DEF WaitIDs
  <2>4. View(m, o, prev) = [state |-> o.state, waitingFor |-> o.waitingFor, waitID |-> id]
    BY <1>4 DEF View
  <2> HIDE DEF id
  <2> QED BY <1>1, <1>2, <2>3, <2>4 DEF Views
<1> QED BY <1>3, <1>4

\* Every change a sync or an observation publishes is well formed.
LEMMA SyncChangesType ==
  ASSUME NEW m \in Image, NEW names \in SUBSET Hosts
  PROVE  SyncChanges(m, names) \subseteq Change
BY ImageParts DEF SyncChanges, Orphans, HostChange, TaskChange, Change, Statuses

LEMMA HostChangesType ==
  ASSUME NEW m \in Image, NEW h \in Hosts, NEW status \in Statuses, NEW seen \in Seen
  PROVE  HostChanges(m, h, status, seen) \subseteq Change
<1>1. \A t \in Tasks : m.tasks[t] \in Views \cup {Absent}
  BY ImageParts
<1>2. \A t \in Tasks : seen[t] # Absent => View(m, seen[t], m.tasks[t]) \in Views
  BY <1>1, ViewType DEF Seen
<1> QED BY <1>1, <1>2, SentinelsAssumption
        DEF HostChanges, HostChange, TaskChange, Change, TasksOf

\* Committing a change gives the image at the next position of the same epoch.
LEMMA CommitType ==
  ASSUME NEW m \in Image, NEW c \in Change
  PROVE  /\ Commit(m, c) \in Image
         /\ Commit(m, c).epoch = m.epoch
         /\ Commit(m, c).seq = m.seq + 1
         /\ Frame(m, c) \in ChangeFrame
<1>1. m = [epoch |-> m.epoch, seq |-> m.seq, hosts |-> m.hosts, tasks |-> m.tasks]
  BY ImageParts
<1>2. CASE c.type = "host"
  <2>1. c.key \in Hosts /\ c.content \in Statuses
    BY <1>2 DEF Change
  <2>2. c.op \in {"added", "changed", "removed"}
    BY DEF Change
  <2> DEFINE content == IF c.op = "removed" THEN Absent ELSE c.content
  <2>3. Commit(m, c) = [epoch |-> m.epoch, seq |-> m.seq + 1,
                        hosts |-> [m.hosts EXCEPT ![c.key] = content], tasks |-> m.tasks]
    BY <1>1, <1>2 DEF Commit
  <2>4. [m.hosts EXCEPT ![c.key] = content] \in [Hosts -> Statuses \cup {Absent}]
    BY <2>1, ImageParts
  <2> HIDE DEF content
  <2>5. Commit(m, c) \in Image
    BY <2>3, <2>4, ImageParts DEF Image
  <2>6. Frame(m, c) \in ChangeFrame
    BY <1>2, <2>1, <2>2, ImageParts DEF Frame, ChangeFrame
  <2> QED BY <2>3, <2>5, <2>6
<1>3. CASE c.type = "task"
  <2>1. c.key \in Tasks /\ c.content \in Views
    BY <1>3 DEF Change
  <2>2. c.op \in {"added", "changed", "removed"}
    BY DEF Change
  <2> DEFINE content == IF c.op = "removed" THEN Absent ELSE c.content
  <2>3. Commit(m, c) = [epoch |-> m.epoch, seq |-> m.seq + 1, hosts |-> m.hosts,
                        tasks |-> [m.tasks EXCEPT ![c.key] = content]]
    BY <1>1, <1>3 DEF Commit
  <2>4. [m.tasks EXCEPT ![c.key] = content] \in [Tasks -> Views \cup {Absent}]
    BY <2>1, ImageParts
  <2> HIDE DEF content
  <2>5. Commit(m, c) \in Image
    BY <2>3, <2>4, ImageParts DEF Image
  <2>6. Frame(m, c) \in ChangeFrame
    BY <1>3, <2>1, <2>2, ImageParts DEF Frame, ChangeFrame
  <2> QED BY <2>3, <2>5, <2>6
<1> QED BY <1>2, <1>3 DEF Change

\* What startLocked leaves: an image later in the same epoch.
LEMMA StartedType ==
  ASSUME NEW m \in Image, NEW names \in SUBSET Hosts, NEW n \in Nat
  PROVE  /\ Started(m, names, n) \in Image
         /\ Started(m, names, n).epoch = m.epoch
         /\ Started(m, names, n).seq = m.seq + n
         /\ \A h \in Hosts :
              Started(m, names, n).hosts[h] = IF h \in names THEN "pending" ELSE Absent
<1> DEFINE hosts == [h \in Hosts |-> IF h \in names THEN "pending" ELSE Absent]
           tasks == [t \in Tasks |-> IF TaskHost[t] \in names THEN m.tasks[t] ELSE Absent]
<1>1. Started(m, names, n) = [epoch |-> m.epoch, seq |-> m.seq + n, hosts |-> hosts, tasks |-> tasks]
  BY DEF Started
<1>2. hosts \in [Hosts -> Statuses \cup {Absent}] /\ tasks \in [Tasks -> Views \cup {Absent}]
  BY ImageParts DEF Statuses
<1>3. \A h \in Hosts : hosts[h] = IF h \in names THEN "pending" ELSE Absent
  OBVIOUS
<1> HIDE DEF hosts, tasks
<1> QED BY <1>1, <1>2, <1>3, ImageParts DEF Image

LEMMA NewEventModelType ==
  ASSUME NEW epoch \in Nat
  PROVE  NewEventModel(epoch) \in Image
<1>1. /\ [h \in Hosts |-> Absent] \in [Hosts -> Statuses \cup {Absent}]
      /\ [t \in Tasks |-> Absent] \in [Tasks -> Views \cup {Absent}]
      /\ epoch \in Nat /\ 0 \in Nat
  OBVIOUS
<1> QED BY <1>1, Zenon DEF NewEventModel, Image

\* A tab that holds what the server held before a change, and is given its
\* frame, holds what the server held after it.
LEMMA FrameFollows ==
  ASSUME NEW m \in Image, NEW c \in Change
  PROVE  ApplyTaskEventFrame(m, Frame(m, c)) = Commit(m, c)
<1>1. m # Absent
  BY SentinelsAssumption
<1>2. m = [epoch |-> m.epoch, seq |-> m.seq, hosts |-> m.hosts, tasks |-> m.tasks]
  BY ImageParts
<1>3. CASE c.type = "host"
  BY <1>1, <1>2, <1>3 DEF ApplyTaskEventFrame, Frame, Commit, Applied
<1>4. CASE c.type = "task"
  BY <1>1, <1>2, <1>4 DEF ApplyTaskEventFrame, Frame, Commit, Applied
<1> QED BY <1>3, <1>4 DEF Change

\* The position in the stream a frame brings a tab to.
Position(f) == IF f.type = "snapshot" THEN f.image.seq ELSE f.seq
EpochOf(f)  == IF f.type = "snapshot" THEN f.image.epoch ELSE f.epoch

\* A frame that is taken brings the tab to its position, and a snapshot or the
\* frame of the next position is taken.
LEMMA ApplyPosition ==
  ASSUME NEW held \in Image \cup {Absent}, NEW f \in ChangeFrame \cup SnapshotFrame
  PROVE  LET next == ApplyTaskEventFrame(held, f)
         IN  /\ next # Refused => next.epoch = EpochOf(f) /\ next.seq = Position(f)
             /\ (\/ f.type = "snapshot"
                 \/ held # Absent /\ EpochOf(f) = held.epoch /\ Position(f) = held.seq + 1)
                => next \in Image
<1> DEFINE next == ApplyTaskEventFrame(held, f)
<1>1. CASE f.type = "snapshot"
  BY <1>1 DEF ApplyTaskEventFrame, SnapshotFrame, ChangeFrame, Position, EpochOf
<1>2. CASE f.type # "snapshot" /\ held # Absent /\ f.epoch = held.epoch /\ f.seq = held.seq + 1
  <2>1. \/ next = [held EXCEPT !.seq = f.seq, !.tasks[f.key] = Applied(f)]
        \/ next = [held EXCEPT !.seq = f.seq, !.hosts[f.key] = Applied(f)]
    BY <1>2 DEF ApplyTaskEventFrame
  <2>2. next \in [epoch : {held.epoch}, seq : {f.seq}, hosts : {next.hosts}, tasks : {next.tasks}]
    BY <1>2, <2>1, ImageParts
  <2>3. next.epoch = held.epoch /\ next.seq = f.seq
    BY <2>2
  <2>4. f.seq \in Nat /\ f.epoch \in Nat
    BY <1>2 DEF ChangeFrame, SnapshotFrame
  <2>5. next \in Image
    <3>1. f \in ChangeFrame
      BY <1>2 DEF SnapshotFrame
    <3>2. held = [epoch |-> held.epoch, seq |-> held.seq, hosts |-> held.hosts, tasks |-> held.tasks]
      BY <1>2, ImageParts
    <3>3. CASE f.type = "task"
      <4>1. f.key \in Tasks /\ Applied(f) \in Views \cup {Absent}
        BY <3>1, <3>3 DEF ChangeFrame, Applied
      <4>2. next = [epoch |-> held.epoch, seq |-> f.seq, hosts |-> held.hosts,
                    tasks |-> [held.tasks EXCEPT ![f.key] = Applied(f)]]
        BY <1>2, <3>2, <3>3 DEF ApplyTaskEventFrame
      <4>3. [held.tasks EXCEPT ![f.key] = Applied(f)] \in [Tasks -> Views \cup {Absent}]
        BY <1>2, <4>1, ImageParts
      <4> HIDE DEF next
      <4> QED BY <1>2, <2>4, <4>2, <4>3, ImageParts DEF Image
    <3>4. CASE f.type = "host"
      <4>1. f.key \in Hosts /\ Applied(f) \in Statuses \cup {Absent}
        BY <3>1, <3>4 DEF ChangeFrame, Applied
      <4>2. next = [epoch |-> held.epoch, seq |-> f.seq, tasks |-> held.tasks,
                    hosts |-> [held.hosts EXCEPT ![f.key] = Applied(f)]]
        BY <1>2, <3>2, <3>4 DEF ApplyTaskEventFrame
      <4>3. [held.hosts EXCEPT ![f.key] = Applied(f)] \in [Hosts -> Statuses \cup {Absent}]
        BY <1>2, <4>1, ImageParts
      <4> HIDE DEF next
      <4> QED BY <1>2, <2>4, <4>2, <4>3, ImageParts DEF Image
    <3> QED BY <3>1, <3>3, <3>4 DEF ChangeFrame
  <2> HIDE DEF next
  <2>6. next.epoch = EpochOf(f) /\ next.seq = Position(f)
    BY <1>2, <2>3 DEF EpochOf, Position
  <2> QED BY <1>2, <2>5, <2>6 DEF next
<1>3. CASE f.type # "snapshot" /\ ~(held # Absent /\ f.epoch = held.epoch /\ f.seq = held.seq + 1)
  <2>1. next = Refused
    BY <1>3 DEF ApplyTaskEventFrame
  <2> QED BY <1>3, <2>1 DEF EpochOf, Position
<1> QED BY <1>1, <1>2, <1>3

\* What a tab makes of a frame, if it takes it, is an image.
LEMMA ApplyType ==
  ASSUME NEW held \in Image \cup {Absent}, NEW f \in ChangeFrame \cup SnapshotFrame
  PROVE  ApplyTaskEventFrame(held, f) \in Image \cup {Refused}
<1>1. CASE \/ f.type = "snapshot"
           \/ held # Absent /\ EpochOf(f) = held.epoch /\ Position(f) = held.seq + 1
  BY <1>1, ApplyPosition
<1>2. CASE ~(\/ f.type = "snapshot"
             \/ held # Absent /\ EpochOf(f) = held.epoch /\ Position(f) = held.seq + 1)
  BY <1>2 DEF ApplyTaskEventFrame, EpochOf, Position
<1> QED BY <1>1, <1>2

-----------------------------------------------------------------------------
(* The publisher, its connections and its tabs                             *)
AnyFrame == ChangeFrame \cup SnapshotFrame

\* The positions startLocked takes are finitely many.
LEMMA StartChangesFinite ==
  ASSUME NEW m \in Image, NEW names \in SUBSET Hosts
  PROVE  LET s == StartChanges(m, names)
         IN  Cardinality(s.pending) + Cardinality(s.hosts) + Cardinality(s.tasks) \in Nat
<1> DEFINE s == StartChanges(m, names)
<1>1. IsFiniteSet(Hosts)
  BY BoundsAssumption, FS_Singleton, FS_Union DEF Hosts
<1>2. s.pending \subseteq Hosts /\ s.hosts \subseteq Hosts /\ s.tasks \subseteq Tasks
  BY DEF StartChanges, Orphans
<1>3. IsFiniteSet(s.pending) /\ IsFiniteSet(s.hosts) /\ IsFiniteSet(s.tasks)
  BY BoundsAssumption, <1>1, <1>2, FS_Subset
<1> HIDE DEF s
<1>4. /\ Cardinality(s.pending) \in Nat /\ Cardinality(s.hosts) \in Nat
      /\ Cardinality(s.tasks) \in Nat
  BY <1>3, FS_CardinalityType
<1> QED BY <1>4 DEF s

LEMMA NamesType == TypeOK => Names \in SUBSET Hosts
BY DEF TypeOK, Names, Hosts

LEMMA JobChangesType == TypeOK => JobChanges \subseteq Change
<1> SUFFICES ASSUME TypeOK PROVE JobChanges \subseteq Change
  OBVIOUS
<1>1. CASE job.op = "sync"
  <2>1. job.names \in SUBSET Hosts
    BY <1>1 DEF TypeOK, JobType, NoJob
  <2>2. JobChanges = SyncChanges(model, job.names)
    BY <1>1 DEF JobChanges
  <2> QED BY <2>1, <2>2, SyncChangesType DEF TypeOK
<1>2. CASE job.op = "observe"
  <2>1. job.host \in Hosts /\ job.status \in Statuses /\ job.seen \in Seen
    BY <1>2 DEF TypeOK, JobType, NoJob, Seen
  <2>2. JobChanges = HostChanges(model, job.host, job.status, job.seen)
    BY <1>2 DEF JobChanges
  <2> QED BY <2>1, <2>2, HostChangesType DEF TypeOK
<1> QED BY <1>1, <1>2 DEF JobChanges

\* Starting loops keeps the types of what it changes.
LEMMA StartLoopsType ==
  ASSUME TypeOK, NEW names \in SUBSET Hosts, StartLoops(names)
  PROVE  looping' \in SUBSET Hosts /\ loops' \in [Hosts -> [Slots -> LoopType]]
BY DEF TypeOK, StartLoops, LoopType, Collecting

LEMMA EndLoopType ==
  ASSUME TypeOK, NEW h \in Hosts, NEW s \in Slots, EndLoop(h, s)
  PROVE  looping' \in SUBSET Hosts /\ loops' \in [Hosts -> [Slots -> LoopType]]
BY DEF TypeOK, EndLoop, LoopType, Ended

LEMMA TypeInit == Init => TypeOK
<1> SUFFICES ASSUME Init PROVE TypeOK
  OBVIOUS
<1>1. model \in Image
  BY NewEventModelType DEF Init
<1>2. chan \in [Conns -> Seq(ChangeFrame)] /\ \A k \in Conns : Len(chan[k]) <= Buffer
  BY BoundsAssumption DEF Init
<1>3. loops \in [Hosts -> [Slots -> LoopType]] /\ job \in JobType
  BY DEF Init, LoopType, JobType
<1>4. /\ wire \in [Conns -> Seq(ChangeFrame \cup SnapshotFrame)]
      /\ world \in [Tasks -> Observations \cup {Absent}]
  BY BoundsAssumption DEF Init
<1>5. looping \in SUBSET Hosts /\ supervisors \in Nat /\ faults \in Nat
  BY DEF Init
<1>6. store \in [Tabs -> Image \cup {Absent}] /\ socket \in [Tabs -> Conns \cup {NoConn}]
  BY DEF Init
<1> QED BY <1>1, <1>2, <1>3, <1>4, <1>5, <1>6 DEF Init, TypeOK

\* The publisher's steps keep the types.
LEMMA TypePublisher ==
  ASSUME TypeOK,
         \/ PublishFrame \/ Unlock \/ Close \/ SuperviseSync \/ SuperviseEnd
  PROVE  TypeOK'
<1> USE DEF publisherVars, connVars, envVars
<1>1. CASE PublishFrame
  <2>1. PICK c \in JobChanges :
          /\ model' = Commit(model, c)
          /\ chan' = [k \in Conns |-> IF k \in subs /\ HasRoom(k)
                                      THEN Append(chan[k], Frame(model, c)) ELSE chan[k]]
    BY <1>1 DEF PublishFrame
  <2>2. c \in Change
    BY JobChangesType
  <2>3. model' \in Image /\ Frame(model, c) \in ChangeFrame
    BY <2>1, <2>2, CommitType DEF TypeOK
  <2>4. chan' \in [Conns -> Seq(ChangeFrame)] /\ \A k \in Conns : Len(chan'[k]) <= Buffer
    BY <2>1, <2>3, BoundsAssumption DEF TypeOK, HasRoom
  <2>5. subs' \in SUBSET Conns
    BY <1>1 DEF PublishFrame, Followers, TypeOK
  <2> QED BY <1>1, <2>3, <2>4, <2>5 DEF PublishFrame, TypeOK
<1>2. CASE Unlock
  <2>1. looping' \in SUBSET Hosts /\ loops' \in [Hosts -> [Slots -> LoopType]]
    <3>1. CASE UNCHANGED <<looping, loops>>
      BY <3>1 DEF TypeOK
    <3>2. CASE job.op = "sync" /\ StartLoops(job.names)
      <4>1. job.names \in SUBSET Hosts
        BY <3>2 DEF TypeOK, JobType, NoJob
      <4> QED BY <3>2, <4>1, StartLoopsType
    <3> QED BY <1>2, <3>1, <3>2 DEF Unlock
  <2>2. observing' \in BOOLEAN
    <3>1. observing' = KeepsObserving
      BY <1>2 DEF Unlock
    <3> QED BY <3>1 DEF KeepsObserving, TypeOK
  <2>3. job' \in JobType
    BY <1>2 DEF Unlock, JobType
  <2> QED BY <1>2, <2>1, <2>2, <2>3 DEF Unlock, TypeOK
<1>3. CASE Close
  <2>1. subs' \in SUBSET Conns /\ faults' \in Nat
    BY <1>3 DEF Close, TypeOK
  <2>3. observing' \in BOOLEAN /\ closed' \in BOOLEAN
    <3>1. observing' = FALSE /\ closed' = TRUE
      BY <1>3 DEF Close
    <3> QED BY <3>1, Zenon
  <2>2. UNCHANGED <<model, chan, supervised, supervisors, looping, loops, job, handler, wire,
                    socket, store, configured, world>>
    BY <1>3 DEF Close
  <2> QED BY <2>1, <2>2, <2>3 DEF TypeOK
<1>4. CASE SuperviseSync
  <2>1. looping' \in SUBSET Hosts /\ loops' \in [Hosts -> [Slots -> LoopType]]
    <3>1. CASE UNCHANGED <<looping, loops>>
      BY <3>1 DEF TypeOK
    <3>2. CASE StartLoops(Names)
      BY <3>2, NamesType, StartLoopsType
    <3> QED BY <1>4, <3>1, <3>2 DEF SuperviseSync
  <2>2. job' \in JobType
    BY <1>4, NamesType DEF SuperviseSync, TypeOK, JobType
  <2> QED BY <1>4, <2>1, <2>2 DEF SuperviseSync, TypeOK
<1>5. CASE SuperviseEnd
  <2>1. supervisors' \in Nat /\ supervised' \in BOOLEAN
    <3>1. supervisors' \in Nat
      BY <1>5 DEF SuperviseEnd, TypeOK
    <3>2. supervised' = FALSE
      BY <1>5 DEF SuperviseEnd
    <3> QED BY <3>1, <3>2, Zenon
  <2>2. UNCHANGED <<model, subs, chan, observing, closed, looping, loops, job, handler, wire,
                    socket, store, configured, world, faults>>
    BY <1>5 DEF SuperviseEnd
  <2> QED BY <2>1, <2>2 DEF TypeOK
<1> QED BY <1>1, <1>2, <1>3, <1>4, <1>5

\* So do the observation loops' steps.
LEMMA TypeLoops ==
  ASSUME TypeOK, NEW h \in Hosts, NEW s \in Slots,
         CollectOK(h, s) \/ CollectFail(h, s) \/ Deliver(h, s) \/ Wake(h, s)
  PROVE  TypeOK'
<1> USE DEF publisherVars, connVars, envVars
<1>1. CASE CollectOK(h, s)
  <2>1. [t \in Tasks |-> IF TaskHost[t] = h THEN world[t] ELSE Absent]
          \in [Tasks -> Observations \cup {Absent}]
    BY DEF TypeOK
  <2>2. loops' \in [Hosts -> [Slots -> LoopType]]
    BY <1>1, <2>1 DEF CollectOK, TypeOK, LoopType, Collected, Statuses
  <2> QED BY <1>1, <2>2 DEF CollectOK, TypeOK
<1>2. CASE CollectFail(h, s)
  <2>1. loops' \in [Hosts -> [Slots -> LoopType]]
    BY <1>2 DEF CollectFail, TypeOK, LoopType, Collected, Statuses
  <2> QED BY <1>2, <2>1 DEF CollectFail, TypeOK
<1>3. CASE Deliver(h, s)
  <2> DEFINE r == loops[h][s]
  <2>1. r \in LoopType /\ r.at = "collected"
    BY <1>3 DEF Deliver, TypeOK
  <2>2. r.status \in Statuses /\ r.seen \in [Tasks -> Observations \cup {Absent}]
    BY <2>1 DEF LoopType, Ended, Collecting, Sleeping
  <2>3. looping' \in SUBSET Hosts /\ loops' \in [Hosts -> [Slots -> LoopType]]
    <3>1. CASE EndLoop(h, s)
      BY <3>1, EndLoopType
    <3>2. CASE looping' = looping /\ loops' = [loops EXCEPT ![h][s] = Sleeping]
      BY <3>2 DEF TypeOK, LoopType
    <3> QED BY <1>3, <3>1, <3>2 DEF Deliver
  <2>4. job' \in JobType
    <3>1. CASE job' = job \/ job' = NoJob
      BY <3>1 DEF TypeOK, JobType
    <3>2. CASE job' = [op |-> "observe", host |-> h, status |-> r.status, seen |-> r.seen]
      BY <3>2, <2>2 DEF JobType
    <3> QED BY <1>3, <3>1, <3>2 DEF Deliver
  <2> QED BY <1>3, <2>3, <2>4 DEF Deliver, TypeOK
<1>4. CASE Wake(h, s)
  <2>1. looping' \in SUBSET Hosts /\ loops' \in [Hosts -> [Slots -> LoopType]]
    <3>1. CASE EndLoop(h, s)
      BY <3>1, EndLoopType
    <3>2. CASE looping' = looping /\ loops' = [loops EXCEPT ![h][s] = Collecting]
      BY <3>2 DEF TypeOK, LoopType
    <3> QED BY <1>4, <3>1, <3>2 DEF Wake
  <2> QED BY <1>4, <2>1 DEF Wake, TypeOK
<1> QED BY <1>1, <1>2, <1>3, <1>4

\* So do a connection's.
LEMMA TypeConnection ==
  ASSUME TypeOK, NEW k \in Conns, Subscribe(k) \/ Forward(k) \/ HandlerExit(k)
  PROVE  TypeOK'
<1> USE DEF publisherVars, connVars, envVars
<1>1. CASE Subscribe(k)
  <2>1. CASE ~closed /\ ~observing
    <3> DEFINE s == StartChanges(model, Names)
               n == Cardinality(s.pending) + Cardinality(s.hosts) + Cardinality(s.tasks)
    <3>1. n \in Nat
      BY NamesType, StartChangesFinite DEF TypeOK
    <3>2. /\ model' = Started(model, Names, n)
          /\ observing' = TRUE /\ supervised' = TRUE
          /\ StartLoops(Names)
          /\ supervisors' = supervisors + (IF supervised THEN 0 ELSE 1)
      BY <1>1, <2>1 DEF Subscribe
    <3> HIDE DEF n
    <3>3. model' \in Image
      BY <3>1, <3>2, NamesType, StartedType DEF TypeOK
    <3>4. supervisors' \in Nat
      BY <3>2 DEF TypeOK
    <3>5. looping' \in SUBSET Hosts /\ loops' \in [Hosts -> [Slots -> LoopType]]
      BY <3>2, NamesType, StartLoopsType
    <3>6. observing' \in BOOLEAN /\ supervised' \in BOOLEAN
      BY <3>2, Zenon
    <3>7. subs' \in SUBSET Conns
      BY <1>1 DEF Subscribe, TypeOK
    <3>8. handler' \in [Conns -> {"idle", "upgraded", "streaming", "closed"}]
      BY <1>1 DEF Subscribe, TypeOK
    <3>9. wire' \in [Conns -> Seq(ChangeFrame \cup SnapshotFrame)]
      BY <1>1, <3>3 DEF Subscribe, FirstWrite, Snapshot, SnapshotFrame, TypeOK
    <3>10. UNCHANGED <<chan, closed, job, socket, store, configured, world, faults>>
      BY <1>1 DEF Subscribe
    <3> QED BY <3>3, <3>4, <3>5, <3>6, <3>7, <3>8, <3>9, <3>10 DEF TypeOK
  <2>2. CASE ~(~closed /\ ~observing)
    <3>1. UNCHANGED <<model, observing, looping, loops, supervised, supervisors, chan, closed,
                      job, socket, store, configured, world, faults>>
      BY <1>1, <2>2 DEF Subscribe
    <3>2. subs' \in SUBSET Conns
      BY <1>1 DEF Subscribe, TypeOK
    <3>3. handler' \in [Conns -> {"idle", "upgraded", "streaming", "closed"}]
      BY <1>1 DEF Subscribe, TypeOK
    <3>4. wire' \in [Conns -> Seq(ChangeFrame \cup SnapshotFrame)]
      BY <1>1, <3>1 DEF Subscribe, FirstWrite, Snapshot, SnapshotFrame, TypeOK
    <3> QED BY <3>1, <3>2, <3>3, <3>4 DEF TypeOK
  <2> QED BY <2>1, <2>2
<1>2. CASE Forward(k)
  <2>1. chan[k] \in Seq(ChangeFrame) /\ chan[k] # <<>> /\ Len(chan[k]) <= Buffer
    BY <1>2 DEF Forward, TypeOK
  <2>2. /\ Head(chan[k]) \in ChangeFrame
        /\ Tail(chan[k]) \in Seq(ChangeFrame) /\ Len(Tail(chan[k])) = Len(chan[k]) - 1
    BY <2>1
  <2>3. chan' = [chan EXCEPT ![k] = Tail(chan[k])]
    BY <1>2 DEF Forward
  <2>4. chan' \in [Conns -> Seq(ChangeFrame)] /\ \A j \in Conns : Len(chan'[j]) <= Buffer
    BY <2>1, <2>2, <2>3, BoundsAssumption DEF TypeOK
  <2>5. wire' \in [Conns -> Seq(ChangeFrame \cup SnapshotFrame)]
    BY <1>2, <2>2 DEF Forward, TypeOK
  <2> QED BY <1>2, <2>4, <2>5 DEF Forward, TypeOK
<1>3. CASE HandlerExit(k)
  <2>1. chan' \in [Conns -> Seq(ChangeFrame)] /\ \A j \in Conns : Len(chan'[j]) <= Buffer
    BY <1>3, BoundsAssumption DEF HandlerExit, TypeOK
  <2>2. observing' = FALSE \/ observing' = observing
    BY <1>3 DEF HandlerExit
  <2>3. observing' \in BOOLEAN
    BY <2>2, Zenon DEF TypeOK
  <2>4. handler' \in [Conns -> {"idle", "upgraded", "streaming", "closed"}]
    BY <1>3 DEF HandlerExit, TypeOK
  <2>5. subs' \in SUBSET Conns
    BY <1>3 DEF HandlerExit, TypeOK
  <2>6. UNCHANGED <<model, closed, supervised, supervisors, looping, loops, job, wire, socket,
                    store, configured, world, faults>>
    BY <1>3 DEF HandlerExit
  <2> QED BY <2>1, <2>3, <2>4, <2>5, <2>6 DEF TypeOK
<1> QED BY <1>1, <1>2, <1>3

\* Giving up what the tab holds keeps the types of what it changes.
LEMMA LoseType ==
  ASSUME TypeOK, NEW t \in Tabs, socket[t] # NoConn, Lose(t)
  PROVE  /\ handler' \in [Conns -> {"idle", "upgraded", "streaming", "closed"}]
         /\ wire' \in [Conns -> Seq(ChangeFrame \cup SnapshotFrame)]
         /\ socket' \in [Tabs -> Conns \cup {NoConn}]
         /\ store' \in [Tabs -> Image \cup {Absent}]
<1>1. socket[t] \in Conns
  BY DEF TypeOK
<1>2. handler' \in [Conns -> {"idle", "upgraded", "streaming", "closed"}]
  BY <1>1 DEF TypeOK, Lose
<1>3. wire' \in [Conns -> Seq(ChangeFrame \cup SnapshotFrame)]
  BY <1>1 DEF TypeOK, Lose
<1> QED BY <1>2, <1>3 DEF TypeOK, Lose

\* So do a tab's.
LEMMA TypeTab ==
  ASSUME TypeOK, NEW t \in Tabs, Connect(t) \/ Receive(t) \/ ServerClosed(t) \/ Disconnect(t)
  PROVE  TypeOK'
<1> USE DEF publisherVars, connVars, envVars
<1>1. CASE Connect(t)
  <2>1. /\ socket' \in [Tabs -> Conns \cup {NoConn}]
        /\ handler' \in [Conns -> {"idle", "upgraded", "streaming", "closed"}]
    BY <1>1 DEF Connect, TypeOK
  <2> QED BY <1>1, <2>1 DEF Connect, TypeOK
<1>2. CASE Receive(t)
  <2> DEFINE k == socket[t]
             f == Head(wire[k])
             next == ApplyTaskEventFrame(store[t], f)
  <2>1. k \in Conns /\ wire[k] \in Seq(AnyFrame) /\ wire[k] # <<>>
    BY <1>2 DEF Receive, TypeOK, AnyFrame
  <2>2. f \in AnyFrame /\ Tail(wire[k]) \in Seq(AnyFrame)
    BY <2>1
  <2>3. next \in Image \cup {Refused}
    BY <2>2, ApplyType DEF TypeOK, AnyFrame
  <2>4. CASE next = Refused
    BY <1>2, <2>1, <2>4, LoseType DEF Receive, TypeOK
  <2>5. CASE next # Refused
    <3>1. /\ store' = [store EXCEPT ![t] = next]
          /\ wire' = [wire EXCEPT ![k] = Tail(wire[k])]
          /\ UNCHANGED <<handler, socket>>
      BY <1>2, <2>5 DEF Receive
    <3>2. store' \in [Tabs -> Image \cup {Absent}]
      BY <2>3, <2>5, <3>1 DEF TypeOK
    <3>3. wire' \in [Conns -> Seq(ChangeFrame \cup SnapshotFrame)]
      BY <2>2, <3>1 DEF TypeOK, AnyFrame
    <3> QED BY <1>2, <3>1, <3>2, <3>3 DEF Receive, TypeOK
  <2> QED BY <2>4, <2>5
<1>3. CASE ServerClosed(t)
  BY <1>3, LoseType DEF ServerClosed, TypeOK
<1>4. CASE Disconnect(t)
  BY <1>4, LoseType DEF Disconnect, TypeOK
<1> QED BY <1>1, <1>2, <1>3, <1>4

\* So do the environment's.
LEMMA TypeEnvironment ==
  ASSUME TypeOK, (\E t \in Tasks : WorldStep(t)) \/ Configure \/ Restart
  PROVE  TypeOK'
<1> USE DEF publisherVars, connVars, envVars
<1>1. CASE \E t \in Tasks : WorldStep(t)
  BY <1>1 DEF WorldStep, TypeOK
<1>2. CASE Configure
  BY <1>2 DEF Configure, TypeOK
<1>3. CASE Restart
  <2>1. model' \in Image
    <3>1. model' = NewEventModel(model.epoch + 1)
      BY <1>3 DEF Restart
    <3>2. model.epoch + 1 \in Nat
      BY ImageParts DEF TypeOK
    <3> QED BY <3>1, <3>2, NewEventModelType
  <2>2. chan' \in [Conns -> Seq(ChangeFrame)] /\ \A j \in Conns : Len(chan'[j]) <= Buffer
    BY <1>3, BoundsAssumption DEF Restart
  <2>3. loops' \in [Hosts -> [Slots -> LoopType]] /\ job' \in JobType
    BY <1>3 DEF Restart, LoopType, JobType
  <2>4. handler' \in [Conns -> {"idle", "upgraded", "streaming", "closed"}]
    BY <1>3 DEF Restart
  <2>5. subs' \in SUBSET Conns /\ looping' \in SUBSET Hosts /\ supervisors' \in Nat
    BY <1>3 DEF Restart
  <2>6. faults' \in Nat
    BY <1>3 DEF Restart, TypeOK
  <2>7. observing' = FALSE /\ closed' = FALSE /\ supervised' = FALSE
    BY <1>3 DEF Restart
  <2>8. observing' \in BOOLEAN /\ closed' \in BOOLEAN /\ supervised' \in BOOLEAN
    BY <2>7, Zenon
  <2>9. UNCHANGED <<wire, socket, store, configured, world>>
    BY <1>3 DEF Restart
  <2> QED BY <2>1, <2>2, <2>3, <2>4, <2>5, <2>6, <2>8, <2>9 DEF TypeOK
<1> QED BY <1>1, <1>2, <1>3

LEMMA TypeStep == TypeOK /\ [Next]_vars => TypeOK'
<1> SUFFICES ASSUME TypeOK, [Next]_vars PROVE TypeOK'
  OBVIOUS
<1>1. CASE UNCHANGED vars
  BY <1>1 DEF vars, publisherVars, connVars, envVars, TypeOK
<1>2. CASE Next
  BY <1>2, TypePublisher, TypeLoops, TypeConnection, TypeTab, TypeEnvironment DEF Next
<1> QED BY <1>1, <1>2

\* Every variable keeps its type, and no channel holds more than Buffer frames.
THEOREM TypeCorrect == Spec => []TypeOK
BY TypeInit, TypeStep, PTL DEF Spec

(***************************************************************************)
(* The goroutines.  What the code keeps true between its critical sections *)
(* needs more to be inductive: `looping` is exactly the hosts with a loop, *)
(* `supervised` tells whether a supervisor runs, and while a sync is being *)
(* published the hosts it lists are the only ones not yet looped.          *)
(***************************************************************************)
LoopInv ==
  /\ \A h \in Hosts : h \in looping <=> \E s \in Slots : loops[h][s] # Ended
  /\ \A h \in Hosts, s1, s2 \in Slots :
       (loops[h][s1] # Ended /\ loops[h][s2] # Ended) => s1 = s2

SupervisorInv ==
  /\ supervisors = IF supervised THEN 1 ELSE 0
  /\ observing => supervised

SubscribersInv ==
  /\ subs # {} => observing
  /\ (Free /\ observing) => subs # {}

Watched(h) == h \in looping \/ (job.op = "sync" /\ h \in job.names)
WatchInv == observing => \A h \in Hosts : model.hosts[h] # Absent => Watched(h)

ControlInv == LoopInv /\ SupervisorInv /\ SubscribersInv /\ WatchInv

LEMMA StartLoopsInv ==
  ASSUME TypeOK, LoopInv, NEW names \in SUBSET Hosts, StartLoops(names)
  PROVE  LoopInv' /\ looping' = looping \cup names
<1>1. looping' = looping \cup names
  BY DEF StartLoops
<1>2. \A h \in Hosts : h \in names \ looping =>
        /\ FreeSlot(h) \in Slots
        /\ \A s \in Slots : loops'[h][s] = IF s = FreeSlot(h) THEN Collecting ELSE Ended
  <2> SUFFICES ASSUME NEW h \in Hosts, h \in names \ looping
               PROVE  /\ FreeSlot(h) \in Slots
                      /\ \A s \in Slots : loops'[h][s] = IF s = FreeSlot(h) THEN Collecting ELSE Ended
    OBVIOUS
  <2>1. \A s \in Slots : loops[h][s] = Ended
    BY DEF LoopInv
  <2>2. FreeSlot(h) \in Slots
    BY <2>1, BoundsAssumption DEF FreeSlot
  <2>3. loops'[h] = [loops[h] EXCEPT ![FreeSlot(h)] = Collecting]
    BY DEF StartLoops, Unwatched
  <2> QED BY <2>1, <2>2, <2>3 DEF TypeOK
<1>3. \A h \in Hosts : h \notin names \ looping => loops'[h] = loops[h]
  BY DEF StartLoops, Unwatched
<1>4. Collecting # Ended
  BY DEF Collecting, Ended
<1>5. \A h \in Hosts : h \in looping' <=> \E s \in Slots : loops'[h][s] # Ended
  BY <1>1, <1>2, <1>3, <1>4 DEF LoopInv
<1>6. \A h \in Hosts, s1, s2 \in Slots :
        (loops'[h][s1] # Ended /\ loops'[h][s2] # Ended) => s1 = s2
  BY <1>2, <1>3 DEF LoopInv
<1> QED BY <1>1, <1>5, <1>6 DEF LoopInv

LEMMA EndLoopInv ==
  ASSUME TypeOK, LoopInv, NEW h \in Hosts, NEW s \in Slots, loops[h][s] # Ended, EndLoop(h, s)
  PROVE  LoopInv'
<1>1. \A g \in Hosts, r \in Slots :
        loops'[g][r] = IF g = h /\ r = s THEN Ended ELSE loops[g][r]
  BY DEF EndLoop, TypeOK
<1>2. looping' = looping \ {h}
  BY DEF EndLoop
<1> QED BY <1>1, <1>2 DEF LoopInv

\* A loop that moves on without ending or starting.
LEMMA MoveLoopInv ==
  ASSUME TypeOK, LoopInv, NEW h \in Hosts, NEW s \in Slots, NEW to, loops[h][s] # Ended,
         to # Ended, looping' = looping, loops' = [loops EXCEPT ![h][s] = to]
  PROVE  LoopInv'
<1>1. \A g \in Hosts, r \in Slots :
        loops'[g][r] = IF g = h /\ r = s THEN to ELSE loops[g][r]
  BY DEF TypeOK
<1> QED BY <1>1 DEF LoopInv

\* Only a sync adds hosts, and only those it lists.
LEMMA PublishedHosts ==
  ASSUME TypeOK, NEW c \in JobChanges, NEW h \in Hosts, Commit(model, c).hosts[h] # Absent
  PROVE  model.hosts[h] # Absent \/ (job.op = "sync" /\ h \in job.names)
<1>1. c \in Change
  BY JobChangesType
<1>2. CASE c.type # "host" \/ c.key # h
  BY <1>1, <1>2, ImageParts DEF Commit, TypeOK
<1>3. CASE c.type = "host" /\ c.key = h /\ c.op = "removed"
  BY <1>1, <1>3, ImageParts DEF Commit, TypeOK
<1>4. CASE c.type = "host" /\ c.key = h /\ c.op # "removed"
  <2>1. CASE job.op = "sync"
    <3>1. c \in SyncChanges(model, job.names)
      BY <2>1 DEF JobChanges
    <3>2. \/ \E t \in Tasks : c = TaskChange("removed", t, model.tasks[t])
          \/ \E g \in Hosts : c = HostChange("removed", g, model.hosts[g])
          \/ \E g \in job.names : c = HostChange("added", g, "pending")
      BY <3>1 DEF SyncChanges, Orphans
    <3>3. c.key \in job.names
      BY <1>4, <3>2 DEF HostChange, TaskChange
    <3> QED BY <1>4, <2>1, <3>3
  <2>2. CASE job.op = "observe"
    <3>1. c \in HostChanges(model, job.host, job.status, job.seen)
      BY <2>2 DEF JobChanges
    <3>2. model.hosts[job.host] # Absent
      BY <3>1 DEF HostChanges
    <3>3. c.type = "task" \/ c = HostChange("changed", job.host, job.status)
      BY <3>1 DEF HostChanges, TaskChange
    <3>4. c.key = job.host
      BY <1>4, <3>3 DEF HostChange
    <3> QED BY <1>4, <3>2, <3>4
  <2> QED BY <2>1, <2>2 DEF JobChanges
<1> QED BY <1>2, <1>3, <1>4

LEMMA ControlInit == Init => ControlInv
<1> SUFFICES ASSUME Init PROVE ControlInv
  OBVIOUS
<1>1. LoopInv
  BY DEF Init, LoopInv
<1>2. SupervisorInv
  BY DEF Init, SupervisorInv
<1>3. SubscribersInv /\ WatchInv
  BY DEF Init, SubscribersInv, WatchInv
<1> QED BY <1>1, <1>2, <1>3 DEF ControlInv

LEMMA ControlPublisher ==
  ASSUME TypeOK, ControlInv,
         PublishFrame \/ Unlock \/ Close \/ SuperviseSync \/ SuperviseEnd
  PROVE  ControlInv'
<1> USE DEF publisherVars, connVars, envVars, ControlInv
<1>1. CASE PublishFrame
  <2>1. PICK c \in JobChanges : model' = Commit(model, c)
    BY <1>1 DEF PublishFrame
  <2>2. UNCHANGED <<observing, supervised, supervisors, looping, loops, job>>
    BY <1>1 DEF PublishFrame
  <2>3. LoopInv' /\ SupervisorInv'
    BY <2>2 DEF LoopInv, SupervisorInv
  <2>4. ~Free
    BY <2>1 DEF Free, JobChanges, NoJob
  <2>5. SubscribersInv'
    BY <1>1, <2>2, <2>4 DEF PublishFrame, Followers, SubscribersInv, Free
  <2>6. WatchInv'
    BY <2>1, <2>2, PublishedHosts DEF WatchInv, Watched
  <2> QED BY <2>3, <2>5, <2>6
<1>2. CASE Unlock
  <2>1. /\ UNCHANGED <<model, subs, supervised, supervisors>>
        /\ observing' = KeepsObserving
        /\ job' = NoJob
    BY <1>2 DEF Unlock
  <2>2. observing' => observing /\ subs # {}
    BY <2>1 DEF KeepsObserving
  <2>3. subs # {} => observing'
    BY <2>1 DEF KeepsObserving, SubscribersInv
  <2>4. SupervisorInv' /\ SubscribersInv'
    BY <2>1, <2>2, <2>3 DEF SupervisorInv, SubscribersInv
  <2>5. CASE job.op = "sync" /\ observing'
    <3>1. StartLoops(job.names)
      BY <1>2, <2>5 DEF Unlock
    <3>2. job.names \in SUBSET Hosts
      BY <2>5 DEF TypeOK, JobType, NoJob
    <3>3. LoopInv' /\ looping' = looping \cup job.names
      BY <3>1, <3>2, StartLoopsInv
    <3>4. WatchInv'
      BY <2>1, <2>2, <2>5, <3>3 DEF WatchInv, Watched
    <3> QED BY <2>4, <3>3, <3>4
  <2>6. CASE ~(job.op = "sync" /\ observing')
    <3>1. UNCHANGED <<looping, loops>>
      BY <1>2, <2>6 DEF Unlock
    <3>2. LoopInv'
      BY <3>1 DEF LoopInv
    <3>3. WatchInv'
      BY <2>1, <2>2, <2>6, <3>1 DEF WatchInv, Watched
    <3> QED BY <2>4, <3>2, <3>3
  <2> QED BY <2>5, <2>6
<1>3. CASE Close
  <2>1. /\ UNCHANGED <<model, supervised, supervisors, looping, loops, job>>
        /\ observing' = FALSE /\ subs' = {}
    BY <1>3 DEF Close
  <2>2. ~observing'
    BY <2>1
  <2> QED BY <2>1, <2>2 DEF LoopInv, SupervisorInv, SubscribersInv, WatchInv
<1>4. CASE SuperviseSync
  <2>1. UNCHANGED <<model, subs, observing, supervised, supervisors>> /\ Free /\ observing
    BY <1>4 DEF SuperviseSync
  <2>2. SupervisorInv' /\ SubscribersInv'
    BY <2>1 DEF SupervisorInv, SubscribersInv
  <2>3. \A h \in Hosts : model.hosts[h] # Absent => h \in looping
    BY <2>1 DEF WatchInv, Watched, Free, NoJob
  <2>4. CASE SyncChanges(model, Names) = {}
    <3>1. StartLoops(Names)
      BY <1>4, <2>4 DEF SuperviseSync
    <3>2. LoopInv' /\ looping' = looping \cup Names
      BY <3>1, NamesType, StartLoopsInv
    <3> QED BY <2>1, <2>2, <2>3, <3>2 DEF WatchInv, Watched
  <2>5. CASE SyncChanges(model, Names) # {}
    <3>1. UNCHANGED <<looping, loops>>
      BY <1>4, <2>5 DEF SuperviseSync
    <3> QED BY <2>1, <2>2, <2>3, <3>1 DEF LoopInv, WatchInv, Watched
  <2> QED BY <2>4, <2>5
<1>5. CASE SuperviseEnd
  <2>1. /\ UNCHANGED <<model, subs, observing, looping, loops, job>>
        /\ ~observing /\ supervisors > 0
        /\ supervised' = FALSE /\ supervisors' = supervisors - 1
    BY <1>5 DEF SuperviseEnd
  <2>2. supervisors = 1
    BY <2>1 DEF SupervisorInv
  <2>3. SupervisorInv'
    BY <2>1, <2>2 DEF SupervisorInv
  <2> QED BY <2>1, <2>3 DEF LoopInv, SubscribersInv, WatchInv, Watched, Free
<1> QED BY <1>1, <1>2, <1>3, <1>4, <1>5

LEMMA ControlLoops ==
  ASSUME TypeOK, ControlInv, NEW h \in Hosts, NEW s \in Slots,
         CollectOK(h, s) \/ CollectFail(h, s) \/ Deliver(h, s) \/ Wake(h, s)
  PROVE  ControlInv'
<1> USE DEF publisherVars, connVars, envVars, ControlInv
<1>1. CASE CollectOK(h, s) \/ CollectFail(h, s)
  <2>1. PICK status, seen : loops' = [loops EXCEPT ![h][s] = Collected(status, seen)]
    BY <1>1 DEF CollectOK, CollectFail
  <2>2. /\ UNCHANGED <<model, subs, observing, supervised, supervisors, looping, job>>
        /\ loops[h][s] = Collecting
    BY <1>1 DEF CollectOK, CollectFail
  <2>3. Collected(status, seen) # Ended /\ Collecting # Ended
    BY DEF Collected, Collecting, Ended
  <2>4. LoopInv'
    BY <2>1, <2>2, <2>3, MoveLoopInv
  <2> QED BY <2>2, <2>4 DEF SupervisorInv, SubscribersInv, WatchInv, Watched, Free
<1>2. CASE Deliver(h, s) \/ Wake(h, s)
  <2>1. /\ UNCHANGED <<model, subs, observing, supervised, supervisors>>
        /\ Free /\ loops[h][s] # Ended
    BY <1>2 DEF Deliver, Wake, Sleeping, Ended
  <2>2. SupervisorInv'
    BY <2>1 DEF SupervisorInv
  <2>3. SubscribersInv'
    BY <2>1 DEF SubscribersInv, Free
  <2>4. observing => \A g \in Hosts : model.hosts[g] # Absent => g \in looping
    BY <2>1 DEF WatchInv, Watched, Free, NoJob
  <2>5. CASE ContinueLocked(h)
    <3>1. /\ looping' = looping
          /\ \/ loops' = [loops EXCEPT ![h][s] = Sleeping]
             \/ loops' = [loops EXCEPT ![h][s] = Collecting]
      BY <1>2, <2>5 DEF Deliver, Wake
    <3>2. LoopInv'
      BY <2>1, <3>1, MoveLoopInv DEF Sleeping, Collecting, Ended
    <3> QED BY <2>1, <2>2, <2>3, <2>4, <3>1, <3>2 DEF WatchInv, Watched
  <2>6. CASE ~ContinueLocked(h)
    <3>1. EndLoop(h, s)
      BY <1>2, <2>6 DEF Deliver, Wake
    <3>2. LoopInv'
      BY <2>1, <3>1, EndLoopInv
    <3> QED BY <2>1, <2>2, <2>3, <2>4, <2>6, <3>1, <3>2
            DEF WatchInv, Watched, ContinueLocked, EndLoop
  <2> QED BY <2>5, <2>6
<1> QED BY <1>1, <1>2

LEMMA ControlConnection ==
  ASSUME TypeOK, ControlInv, NEW k \in Conns, Subscribe(k) \/ HandlerExit(k)
  PROVE  ControlInv'
<1> USE DEF publisherVars, connVars, envVars, ControlInv
<1>1. CASE Subscribe(k)
  <2>1. Free /\ UNCHANGED job
    BY <1>1 DEF Subscribe
  <2>2. CASE ~closed /\ ~observing
    <3> DEFINE s == StartChanges(model, Names)
               n == Cardinality(s.pending) + Cardinality(s.hosts) + Cardinality(s.tasks)
    <3>1. n \in Nat
      BY NamesType, StartChangesFinite DEF TypeOK
    <3>2. /\ model' = Started(model, Names, n)
          /\ observing' = TRUE /\ supervised' = TRUE
          /\ StartLoops(Names)
          /\ supervisors' = supervisors + (IF supervised THEN 0 ELSE 1)
      BY <1>1, <2>2 DEF Subscribe
    <3> HIDE DEF n
    <3>3. \A h \in Hosts : model'.hosts[h] # Absent => h \in Names
      <4>1. model \in Image /\ Names \in SUBSET Hosts
        BY NamesType DEF TypeOK
      <4>2. \A h \in Hosts : Started(model, Names, n).hosts[h] = IF h \in Names THEN "pending" ELSE Absent
        BY <3>1, <4>1, StartedType
      <4> QED BY <3>2, <4>2
    <3>4. LoopInv' /\ looping' = looping \cup Names
      BY <3>2, NamesType, StartLoopsInv
    <3>5. SupervisorInv'
      BY <3>2 DEF SupervisorInv
    <3>6. subs' = subs \cup {k}
      BY <1>1, <2>2 DEF Subscribe
    <3>7. SubscribersInv'
      BY <3>2, <3>6 DEF SubscribersInv
    <3>8. WatchInv'
      BY <3>3, <3>4 DEF WatchInv, Watched
    <3> QED BY <3>4, <3>5, <3>7, <3>8
  <2>3. CASE ~(~closed /\ ~observing)
    <3>1. UNCHANGED <<model, observing, looping, loops, supervised, supervisors>>
      BY <1>1, <2>3 DEF Subscribe
    <3>2. subs' = subs \/ (observing /\ subs' = subs \cup {k})
      BY <1>1, <2>3 DEF Subscribe
    <3>3. SubscribersInv'
      BY <2>1, <3>1, <3>2 DEF SubscribersInv, Free
    <3> QED BY <2>1, <3>1, <3>3 DEF LoopInv, SupervisorInv, WatchInv, Watched
  <2> QED BY <2>2, <2>3
<1>2. CASE HandlerExit(k)
  <2>1. /\ UNCHANGED <<model, supervised, supervisors, looping, loops, job>>
        /\ subs' = subs \ {k} /\ Free
        /\ observing' = IF k \in subs /\ subs' = {} THEN FALSE ELSE observing
    BY <1>2 DEF HandlerExit
  <2>2. observing' => observing
    BY <2>1
  <2>3. SubscribersInv'
    BY <2>1 DEF SubscribersInv, Free
  <2> QED BY <2>1, <2>2, <2>3 DEF LoopInv, SupervisorInv, WatchInv, Watched
<1> QED BY <1>1, <1>2

LEMMA ControlStep == TypeOK /\ ControlInv /\ [Next]_vars => ControlInv'
<1> SUFFICES ASSUME TypeOK, ControlInv, [Next]_vars PROVE ControlInv'
  OBVIOUS
<1> USE DEF publisherVars, connVars, envVars
<1> DEFINE parts == <<model, subs, observing, supervised, supervisors, looping, loops, job>>
<1>1. CASE UNCHANGED parts
  BY <1>1 DEF ControlInv, LoopInv, SupervisorInv, SubscribersInv, WatchInv, Watched, Free
<1>2. CASE UNCHANGED vars
  BY <1>1, <1>2 DEF vars
<1>3. CASE \E k \in Conns : Forward(k)
  BY <1>1, <1>3 DEF Forward
<1>4. CASE \E t \in Tabs : Connect(t) \/ Receive(t) \/ ServerClosed(t) \/ Disconnect(t)
  BY <1>1, <1>4 DEF Connect, Receive, ServerClosed, Disconnect
<1>5. CASE (\E t \in Tasks : WorldStep(t)) \/ Configure
  BY <1>1, <1>5 DEF WorldStep, Configure
<1>6. CASE Restart
  <2>1. /\ subs' = {} /\ observing' = FALSE /\ supervised' = FALSE /\ supervisors' = 0
        /\ looping' = {} /\ loops' = [h \in Hosts |-> [s \in Slots |-> Ended]]
    BY <1>6 DEF Restart
  <2>2. ~observing' /\ ~supervised'
    BY <2>1
  <2> QED BY <2>1, <2>2 DEF ControlInv, LoopInv, SupervisorInv, SubscribersInv, WatchInv
<1> QED BY <1>2, <1>3, <1>4, <1>5, <1>6, ControlPublisher, ControlLoops, ControlConnection
        DEF Next

LEMMA ControlCorrect == Spec => []ControlInv
BY TypeCorrect, ControlInit, ControlStep, PTL DEF Spec

\* Observations of one host never overlap and there is at most one supervisor,
\* for any number of subscribers, hosts and observation loops.
THEOREM OneLoopPerHostCorrect == Spec => []OneLoopPerHost
<1>1. ControlInv => OneLoopPerHost
  BY DEF ControlInv, LoopInv, SupervisorInv, OneLoopPerHost
<1> QED BY <1>1, ControlCorrect, PTL

\* Observation runs exactly while someone listens.
THEOREM ObserveWhileSubscribedCorrect == Spec => []ObserveWhileSubscribed
<1>1. ControlInv => ObserveWhileSubscribed
  BY DEF ControlInv, SubscribersInv, ObserveWhileSubscribed
<1> QED BY <1>1, ControlCorrect, PTL

\* While it runs, every host the model lists has a loop.
THEOREM EveryHostObservedCorrect == Spec => []EveryHostObserved
<1>1. ControlInv => EveryHostObserved
  <2> SUFFICES ASSUME ControlInv, observing, Free
               PROVE  /\ supervisors = 1
                      /\ \A h \in Hosts : model.hosts[h] # Absent =>
                                           \E s \in Slots : loops[h][s] # Ended
    BY DEF EveryHostObserved
  <2>1. supervisors = 1
    BY DEF ControlInv, SupervisorInv
  <2>2. \A h \in Hosts : model.hosts[h] # Absent => h \in looping
    BY DEF ControlInv, WatchInv, Watched, Free, NoJob
  <2> QED BY <2>1, <2>2 DEF ControlInv, LoopInv
<1> QED BY <1>1, ControlCorrect, PTL

\* Who is observed follows who listens and what is configured.
THEOREM ObservedWhenHeardCorrect == Spec => []ObservedWhenHeard
<1>1. OneLoopPerHost /\ EveryHostObserved /\ ObserveWhileSubscribed => ObservedWhenHeard
  BY DEF ObservedWhenHeard
<1> QED BY <1>1, OneLoopPerHostCorrect, EveryHostObservedCorrect, ObserveWhileSubscribedCorrect, PTL

(***************************************************************************)
(* The connections.  One tab at most holds each; a snapshot is only ever   *)
(* the first thing on the wire, and only for a tab that holds nothing.     *)
(***************************************************************************)
ConnInv ==
  /\ \A t, u \in Tabs : (socket[t] = socket[u] /\ socket[t] # NoConn) => t = u
  /\ \A k \in Conns : ~Attached(k) => wire[k] = <<>>
  /\ \A k \in Conns : handler[k] = "idle" => ~Attached(k)
  /\ \A t \in Tabs : socket[t] = NoConn => store[t] = Absent
  /\ \A t \in Tabs, k \in Conns : (socket[t] = k /\ handler[k] = "upgraded")
                                 => store[t] = Absent /\ wire[k] = <<>>
  /\ \A k \in Conns, i \in Nat : (i \in 1..Len(wire[k]) /\ wire[k][i].type = "snapshot")
                                 => i = 1 /\ \A t \in Tabs : socket[t] = k => store[t] = Absent
  /\ \A k \in Conns : handler[k] # "streaming" => k \notin subs /\ chan[k] = <<>>

LEMMA ConnInit == Init => ConnInv
BY BoundsAssumption DEF Init, ConnInv, Attached

LEMMA ConnLose ==
  ASSUME TypeOK, ConnInv, NEW t \in Tabs, socket[t] # NoConn, Lose(t), UNCHANGED <<subs, chan>>
  PROVE  ConnInv'
<1>1. PICK k \in Conns : k = socket[t]
  BY DEF TypeOK
<1>2. /\ \A u \in Tabs : socket'[u] = IF u = t THEN NoConn ELSE socket[u]
      /\ \A u \in Tabs : store'[u] = IF u = t THEN Absent ELSE store[u]
      /\ \A j \in Conns : wire'[j] = IF j = k THEN <<>> ELSE wire[j]
      /\ \A j \in Conns : handler'[j] = IF j = k /\ handler[k] = "closed" THEN "idle" ELSE handler[j]
  BY <1>1 DEF Lose, TypeOK
<1>3. \A u \in Tabs : u # t => socket[u] # k
  BY <1>1 DEF ConnInv
<1>4. ~Attached(k)'
  <2>1. NoConn # k
    BY BoundsAssumption
  <2>2. \A u \in Tabs : socket'[u] # k
    BY <1>2, <1>3, <2>1
  <2> QED BY <2>2 DEF Attached
<1>5. \A j \in Conns : j # k => (Attached(j)' <=> Attached(j))
  BY <1>1, <1>2, BoundsAssumption DEF Attached
<1>6. \A u, v \in Tabs : (socket'[u] = socket'[v] /\ socket'[u] # NoConn) => u = v
  BY <1>2 DEF ConnInv
<1>7. \A j \in Conns : ~Attached(j)' => wire'[j] = <<>>
  BY <1>2, <1>5 DEF ConnInv
<1>8. \A j \in Conns : handler'[j] = "idle" => ~Attached(j)'
  BY <1>2, <1>4, <1>5 DEF ConnInv
<1>9. \A u \in Tabs : socket'[u] = NoConn => store'[u] = Absent
  BY <1>2 DEF ConnInv
<1>10. \A u \in Tabs, j \in Conns : (socket'[u] = j /\ handler'[j] = "upgraded")
                                 => store'[u] = Absent /\ wire'[j] = <<>>
  BY <1>2, BoundsAssumption DEF ConnInv
<1>11. \A j \in Conns, i \in Nat : (i \in 1..Len(wire'[j]) /\ wire'[j][i].type = "snapshot")
                                 => i = 1 /\ \A u \in Tabs : socket'[u] = j => store'[u] = Absent
  BY <1>2, BoundsAssumption DEF ConnInv
<1>12. \A j \in Conns : handler'[j] # "streaming" => j \notin subs' /\ chan'[j] = <<>>
  BY <1>2 DEF ConnInv
<1> QED BY <1>6, <1>7, <1>8, <1>9, <1>10, <1>11, <1>12 DEF ConnInv

LEMMA ConnReceive ==
  ASSUME TypeOK, ConnInv, NEW t \in Tabs, Receive(t)
  PROVE  ConnInv'
<1> DEFINE k == socket[t]
           next == ApplyTaskEventFrame(store[t], Head(wire[k]))
<1>1. k \in Conns /\ k # NoConn /\ wire[k] # <<>> /\ wire[k] \in Seq(AnyFrame)
  BY DEF Receive, TypeOK, AnyFrame
<1>2. UNCHANGED <<subs, chan>>
  BY DEF Receive, publisherVars
<1>3. CASE next = Refused
  BY <1>1, <1>2, <1>3, ConnLose DEF Receive
<1>4. CASE next # Refused
  <2>1. /\ \A u \in Tabs : u # t => store'[u] = store[u]
        /\ \A j \in Conns : wire'[j] = IF j = k THEN Tail(wire[k]) ELSE wire[j]
        /\ UNCHANGED <<handler, socket>>
    BY <1>1, <1>4 DEF Receive, TypeOK
  <2>2. \A i \in Nat : i \in 1..Len(Tail(wire[k])) =>
          i + 1 \in 1..Len(wire[k]) /\ Tail(wire[k])[i] = wire[k][i + 1] /\ i + 1 # 1
    BY <1>1
  <2>3. \A j \in Conns : Attached(j)' <=> Attached(j)
    BY <2>1 DEF Attached
  <2>4. Attached(k) /\ handler[k] # "upgraded" /\ handler[k] # "idle"
    BY <1>1 DEF ConnInv, Attached
  <2>5. \A u \in Tabs : u # t => socket[u] # k
    BY <1>1 DEF ConnInv
  <2> HIDE DEF k
  <2>6. \A j \in Conns, i \in Nat : (i \in 1..Len(wire'[j]) /\ wire'[j][i].type = "snapshot")
                                 => i = 1 /\ \A u \in Tabs : socket'[u] = j => store'[u] = Absent
    <3> SUFFICES ASSUME NEW j \in Conns, NEW i \in Nat,
                        i \in 1..Len(wire'[j]), wire'[j][i].type = "snapshot"
                 PROVE  i = 1 /\ \A u \in Tabs : socket'[u] = j => store'[u] = Absent
      OBVIOUS
    <3>1. CASE j = k
      <4>1. \A n \in Nat : (n \in 1..Len(wire[k]) /\ wire[k][n].type = "snapshot") => n = 1
        BY <1>1 DEF ConnInv
      <4>2. wire'[j] = Tail(wire[k])
        BY <2>1, <3>1
      <4>3. i + 1 \in Nat /\ i + 1 \in 1..Len(wire[k]) /\ wire[k][i + 1].type = "snapshot" /\ i + 1 # 1
        BY <2>2, <4>2
      <4> QED BY <4>1, <4>3
    <3>2. CASE j # k
      BY <2>1, <3>2 DEF ConnInv, k
    <3> QED BY <3>1, <3>2
  <2>7. \A j \in Conns : ~Attached(j)' => wire'[j] = <<>>
    BY <2>1, <2>3, <2>4 DEF ConnInv
  <2>8. \A u \in Tabs, j \in Conns : (socket'[u] = j /\ handler'[j] = "upgraded")
                                 => store'[u] = Absent /\ wire'[j] = <<>>
    BY <2>1, <2>4 DEF ConnInv, k
  <2>9. \A u \in Tabs : socket'[u] = NoConn => store'[u] = Absent
    BY <1>1, <2>1 DEF ConnInv, k
  <2> QED BY <1>2, <2>1, <2>3, <2>6, <2>7, <2>8, <2>9 DEF ConnInv
<1> QED BY <1>3, <1>4

LEMMA ConnConnect ==
  ASSUME TypeOK, ConnInv, NEW t \in Tabs, Connect(t)
  PROVE  ConnInv'
<1>1. PICK k \in Conns :
        /\ handler[k] = "idle" /\ ~Attached(k)
        /\ socket' = [socket EXCEPT ![t] = k]
        /\ handler' = [handler EXCEPT ![k] = "upgraded"]
  BY DEF Connect
<1>2. socket[t] = NoConn /\ UNCHANGED <<subs, chan, wire, store>>
  BY DEF Connect, publisherVars
<1>3. /\ \A u \in Tabs : socket'[u] = IF u = t THEN k ELSE socket[u]
      /\ \A j \in Conns : handler'[j] = IF j = k THEN "upgraded" ELSE handler[j]
  BY <1>1 DEF TypeOK
<1>4. store[t] = Absent /\ wire[k] = <<>> /\ \A u \in Tabs : socket[u] # k
  BY <1>1, <1>2 DEF ConnInv, Attached
<1>5. \A j \in Conns : Attached(j)' <=> (j = k \/ Attached(j))
  BY <1>2, <1>3, BoundsAssumption DEF Attached
<1>6. \A u, v \in Tabs : (socket'[u] = socket'[v] /\ socket'[u] # NoConn) => u = v
  BY <1>3, <1>4 DEF ConnInv
<1>7. \A j \in Conns, i \in Nat : (i \in 1..Len(wire'[j]) /\ wire'[j][i].type = "snapshot")
                               => i = 1 /\ \A u \in Tabs : socket'[u] = j => store'[u] = Absent
  BY <1>2, <1>3, <1>4 DEF ConnInv
<1>8. \A u \in Tabs, j \in Conns : (socket'[u] = j /\ handler'[j] = "upgraded")
                               => store'[u] = Absent /\ wire'[j] = <<>>
  BY <1>2, <1>3, <1>4 DEF ConnInv
<1> QED BY <1>1, <1>2, <1>3, <1>4, <1>5, <1>6, <1>7, <1>8 DEF ConnInv

LEMMA ConnServer ==
  ASSUME TypeOK, ConnInv, NEW k \in Conns, Subscribe(k) \/ Forward(k) \/ HandlerExit(k)
  PROVE  ConnInv'
<1>1. UNCHANGED <<socket, store>>
  BY DEF Subscribe, Forward, HandlerExit, envVars
<1>2. \A j \in Conns : Attached(j)' <=> Attached(j)
  BY <1>1 DEF Attached
<1>3. CASE Subscribe(k)
  <2>1. /\ handler[k] = "upgraded" /\ handler' = [handler EXCEPT ![k] = "streaming"]
        /\ UNCHANGED chan /\ subs' \subseteq subs \cup {k}
        /\ \A j \in Conns : wire'[j] = IF j = k /\ Attached(k) THEN <<Snapshot(model')>> ELSE wire[j]
    BY <1>3 DEF Subscribe, FirstWrite, TypeOK
  <2>2. \A j \in Conns : handler'[j] = IF j = k THEN "streaming" ELSE handler[j]
    BY <2>1 DEF TypeOK
  <2>3. \A t \in Tabs : socket[t] = k => store[t] = Absent
    BY <2>1 DEF ConnInv
  <2>4. \A j \in Conns, i \in Nat : (i \in 1..Len(wire'[j]) /\ wire'[j][i].type = "snapshot")
                                 => i = 1 /\ \A t \in Tabs : socket'[t] = j => store'[t] = Absent
    BY <1>1, <2>1, <2>3 DEF ConnInv
  <2> QED BY <1>1, <1>2, <2>1, <2>2, <2>4 DEF ConnInv
<1>4. CASE Forward(k)
  <2>1. /\ handler[k] = "streaming" /\ Attached(k) /\ chan[k] # <<>>
        /\ chan[k] \in Seq(ChangeFrame) /\ wire[k] \in Seq(AnyFrame)
        /\ UNCHANGED <<subs, handler>>
    BY <1>4 DEF Forward, TypeOK, AnyFrame
  <2>2. /\ \A j \in Conns : wire'[j] = IF j = k THEN Append(wire[k], Head(chan[k])) ELSE wire[j]
        /\ \A j \in Conns : j # k => chan'[j] = chan[j]
    BY <1>4 DEF Forward, TypeOK
  <2>3. Head(chan[k]) \in ChangeFrame
    BY <2>1
  <2>4. Head(chan[k]).type # "snapshot" /\ Head(chan[k]) \in AnyFrame
    BY <2>3 DEF ChangeFrame, AnyFrame
  <2>5. \A i \in Nat : (i \in 1..Len(Append(wire[k], Head(chan[k])))
                       /\ Append(wire[k], Head(chan[k]))[i].type = "snapshot")
                      => i \in 1..Len(wire[k]) /\ wire[k][i].type = "snapshot"
    BY <2>1, <2>4
  <2>6. ASSUME NEW j \in Conns, NEW i \in Nat,
               i \in 1..Len(wire'[j]), wire'[j][i].type = "snapshot"
        PROVE  i = 1 /\ \A t \in Tabs : socket'[t] = j => store'[t] = Absent
    <3>1. i \in 1..Len(wire[j]) /\ wire[j][i].type = "snapshot"
      <4>1. CASE j = k
        BY <2>2, <2>5, <2>6, <4>1
      <4>2. CASE j # k
        BY <2>2, <2>6, <4>2
      <4> QED BY <4>1, <4>2
    <3> QED BY <1>1, <3>1 DEF ConnInv
  <2> QED BY <1>1, <1>2, <2>1, <2>2, <2>6 DEF ConnInv
<1>5. CASE HandlerExit(k)
  <2>1. /\ \A j \in Conns : handler'[j] = IF j = k THEN (IF Attached(k) THEN "closed" ELSE "idle")
                                                  ELSE handler[j]
        /\ \A j \in Conns : chan'[j] = IF j = k THEN <<>> ELSE chan[j]
        /\ subs' = subs \ {k} /\ UNCHANGED wire
    BY <1>5 DEF HandlerExit, TypeOK
  <2> QED BY <1>1, <1>2, <2>1 DEF ConnInv
<1> QED BY <1>3, <1>4, <1>5

LEMMA ConnPublisher ==
  ASSUME TypeOK, ConnInv,
         \/ PublishFrame \/ Unlock \/ Close \/ SuperviseSync \/ SuperviseEnd
         \/ \E h \in Hosts, s \in Slots :
              CollectOK(h, s) \/ CollectFail(h, s) \/ Deliver(h, s) \/ Wake(h, s)
         \/ (\E t \in Tasks : WorldStep(t)) \/ Configure
  PROVE  ConnInv'
<1>1. UNCHANGED <<handler, wire, socket, store>>
  BY DEF connVars, PublishFrame, Unlock, Close, SuperviseSync, SuperviseEnd, CollectOK, CollectFail,
         Deliver, Wake, WorldStep, Configure
<1>2. \A k \in Conns : k \notin subs => k \notin subs' /\ chan'[k] = chan[k]
  BY DEF PublishFrame, Followers, Unlock, Close, SuperviseSync, SuperviseEnd, CollectOK, CollectFail,
         Deliver, Wake, WorldStep, Configure, publisherVars
<1>3. \A k \in Conns : Attached(k)' <=> Attached(k)
  BY <1>1 DEF Attached
<1>4. \A k \in Conns : handler'[k] # "streaming" => k \notin subs' /\ chan'[k] = <<>>
  BY <1>1, <1>2 DEF ConnInv
<1> QED BY <1>1, <1>3, <1>4 DEF ConnInv

LEMMA ConnRestart ==
  ASSUME TypeOK, ConnInv, Restart
  PROVE  ConnInv'
<1>1. /\ UNCHANGED <<wire, socket, store>> /\ subs' = {}
      /\ \A k \in Conns : chan'[k] = <<>>
      /\ \A k \in Conns : handler'[k] = IF Attached(k) THEN "closed" ELSE "idle"
  BY DEF Restart
<1>2. \A k \in Conns : Attached(k)' <=> Attached(k)
  BY <1>1 DEF Attached
<1> QED BY <1>1, <1>2 DEF ConnInv

LEMMA ConnStep == TypeOK /\ ConnInv /\ [Next]_vars => ConnInv'
<1> SUFFICES ASSUME TypeOK, ConnInv, [Next]_vars PROVE ConnInv'
  OBVIOUS
<1>1. CASE UNCHANGED vars
  BY <1>1 DEF vars, publisherVars, connVars, envVars, ConnInv, Attached
<1>2. CASE \E t \in Tabs : ServerClosed(t) \/ Disconnect(t)
  BY <1>2, ConnLose DEF ServerClosed, Disconnect, publisherVars
<1> QED BY <1>1, <1>2, ConnReceive, ConnConnect, ConnServer, ConnPublisher, ConnRestart DEF Next

LEMMA ConnCorrect == Spec => []ConnInv
BY TypeCorrect, ConnInit, ConnStep, PTL DEF Spec

(***************************************************************************)
(* No frame is missing between a tab and the model.  A connection with the *)
(* image s at its tab, the frames w on its wire and c in its channel is    *)
(* consecutive from position b of epoch e when s holds that position and   *)
(* each frame is one further.                                              *)
(***************************************************************************)
Consecutive(s, w, c, e, b) ==
  /\ s # Absent => s.epoch = e /\ s.seq = b
  /\ (s = Absent /\ w # <<>>) => w[1].type = "snapshot"
  /\ \A i \in Nat : i \in 1..Len(w) => EpochOf(w[i]) = e /\ Position(w[i]) = b + i
  /\ \A i \in Nat : i \in 1..Len(c) => c[i].epoch = e /\ c[i].seq = b + Len(w) + i

\* ... and then meets the image m when m is where the frames lead.
Meets(w, c, e, b, m) == e = m.epoch /\ m.seq = b + Len(w) + Len(c)

\* The first write, of a snapshot of m.
LEMMA FirstConsecutive ==
  ASSUME NEW m \in Image
  PROVE  \E e \in Nat, b \in Int : /\ Consecutive(Absent, <<Snapshot(m)>>, <<>>, e, b)
                                   /\ Meets(<<Snapshot(m)>>, <<>>, e, b, m)
<1> DEFINE w == <<Snapshot(m)>>
           n == m.seq
<1>1. m.epoch \in Nat /\ n \in Nat
  BY ImageParts
<1>2. /\ w # <<>> /\ Len(w) = 1 /\ w[1].type = "snapshot"
      /\ EpochOf(w[1]) = m.epoch /\ Position(w[1]) = n
  BY DEF EpochOf, Position, Snapshot
<1>3. \A i \in Nat : i \notin 1..Len(<<>>)
  OBVIOUS
<1> HIDE DEF w, n
<1>4. \A i \in Nat : i \in 1..Len(w) => i = 1
  BY <1>2
<1>5. n - 1 \in Int /\ n - 1 + 1 = n /\ n - 1 + 1 + 0 = n
  BY <1>1
<1>6. Consecutive(Absent, w, <<>>, m.epoch, n - 1)
  BY <1>2, <1>3, <1>4, <1>5 DEF Consecutive
<1>7. Meets(w, <<>>, m.epoch, n - 1, m)
  BY <1>2, <1>5 DEF Meets, n
<1> QED BY <1>1, <1>5, <1>6, <1>7 DEF w

\* publishLocked sends the frame after m to the channel.
LEMMA PublishConsecutive ==
  ASSUME NEW s, NEW w, NEW c \in Seq(ChangeFrame), NEW e \in Nat, NEW b \in Int,
         NEW f \in ChangeFrame, NEW m, NEW m2, Len(w) \in Nat,
         Consecutive(s, w, c, e, b), Meets(w, c, e, b, m),
         f.epoch = m.epoch, f.seq = m.seq + 1, m2.epoch = m.epoch, m2.seq = m.seq + 1
  PROVE  Consecutive(s, w, Append(c, f), e, b) /\ Meets(w, Append(c, f), e, b, m2)
<1> DEFINE d == Append(c, f)
<1>1. Len(d) = Len(c) + 1 /\ Len(c) \in Nat
  OBVIOUS
<1>2. \A i \in Nat : i \in 1..Len(d) =>
        (i = Len(c) + 1 /\ d[i] = f) \/ (i \in 1..Len(c) /\ d[i] = c[i])
  OBVIOUS
<1> HIDE DEF d
<1>3. f.epoch = e /\ f.seq = b + Len(w) + (Len(c) + 1)
  BY <1>1 DEF Meets
<1>4. \A i \in Nat : i \in 1..Len(d) => d[i].epoch = e /\ d[i].seq = b + Len(w) + i
  BY <1>2, <1>3 DEF Consecutive
<1>5. Meets(w, d, e, b, m2)
  BY <1>1 DEF Meets
<1> QED BY <1>4, <1>5 DEF Consecutive, d

\* The handler moves a frame from the channel to the wire.
LEMMA ForwardConsecutive ==
  ASSUME NEW s, NEW w \in Seq(AnyFrame), NEW c \in Seq(ChangeFrame), NEW e \in Nat, NEW b \in Int,
         NEW m, c # <<>>, s = Absent => w # <<>>, Consecutive(s, w, c, e, b)
  PROVE  /\ Append(w, Head(c)) # <<>>
         /\ Consecutive(s, Append(w, Head(c)), Tail(c), e, b)
         /\ Meets(w, c, e, b, m) => Meets(Append(w, Head(c)), Tail(c), e, b, m)
<1> DEFINE f == Head(c)
           v == Append(w, f)
           d == Tail(c)
<1>1. /\ f \in ChangeFrame /\ f = c[1] /\ 1 \in 1..Len(c)
      /\ Len(d) = Len(c) - 1 /\ Len(c) \in Nat /\ Len(w) \in Nat
      /\ \A i \in Nat : i \in 1..Len(d) => i + 1 \in 1..Len(c) /\ d[i] = c[i + 1]
  OBVIOUS
<1>2. f \in AnyFrame /\ EpochOf(f) = f.epoch /\ Position(f) = f.seq
  BY <1>1 DEF AnyFrame, ChangeFrame, EpochOf, Position
<1> HIDE DEF f
<1>3. /\ Len(v) = Len(w) + 1 /\ v # <<>>
      /\ w # <<>> => v[1] = w[1]
      /\ \A i \in Nat : i \in 1..Len(v) =>
           (i = Len(w) + 1 /\ v[i] = f) \/ (i \in 1..Len(w) /\ v[i] = w[i])
  <2>1. Len(v) = Len(w) + 1 /\ v # <<>>
    BY <1>2
  <2>2. w # <<>> => v[1] = w[1]
    BY <1>2
  <2>3. \A i \in Nat : i \in 1..Len(v) =>
           (i = Len(w) + 1 /\ v[i] = f) \/ (i \in 1..Len(w) /\ v[i] = w[i])
    BY <1>2
  <2> QED BY <2>1, <2>2, <2>3
<1> HIDE DEF v, d
<1>4. f.epoch = e /\ f.seq = b + (Len(w) + 1)
  BY <1>1 DEF Consecutive
<1>5. \A i \in Nat : i \in 1..Len(v) => EpochOf(v[i]) = e /\ Position(v[i]) = b + i
  BY <1>2, <1>3, <1>4 DEF Consecutive
<1>6. \A i \in Nat : i \in 1..Len(d) => d[i].epoch = e /\ d[i].seq = b + Len(v) + i
  <2> SUFFICES ASSUME NEW i \in Nat, i \in 1..Len(d)
               PROVE  d[i].epoch = e /\ d[i].seq = b + Len(v) + i
    OBVIOUS
  <2>1. c[i + 1].epoch = e /\ c[i + 1].seq = b + Len(w) + (i + 1)
    BY <1>1 DEF Consecutive
  <2>2. b + Len(w) + (i + 1) = b + Len(v) + i
    BY <1>1, <1>3
  <2> QED BY <1>1, <2>1, <2>2
<1>7. Meets(w, c, e, b, m) => Meets(v, d, e, b, m)
  BY <1>1, <1>3 DEF Meets
<1>8. ASSUME s = Absent PROVE v[1].type = "snapshot"
  <2>1. w # <<>>
    BY <1>8
  <2>2. w[1].type = "snapshot" /\ v[1] = w[1]
    BY <1>3, <1>8, <2>1 DEF Consecutive
  <2> QED BY <2>2
<1> QED BY <1>3, <1>5, <1>6, <1>7, <1>8 DEF Consecutive, v, d, f

\* The tab takes the first frame of the wire, and is where that frame leads.
LEMMA TakeConsecutive ==
  ASSUME NEW s, NEW w \in Seq(AnyFrame), NEW c, NEW e \in Nat, NEW b \in Int,
         NEW m, NEW next, w # <<>>, Len(c) \in Nat, Consecutive(s, w, c, e, b),
         next # Absent, next.epoch = EpochOf(Head(w)), next.seq = Position(Head(w))
  PROVE  /\ Consecutive(next, Tail(w), c, e, b + 1)
         /\ Meets(w, c, e, b, m) => Meets(Tail(w), c, e, b + 1, m)
<1> DEFINE v == Tail(w)
<1>1. /\ Head(w) = w[1] /\ 1 \in 1..Len(w)
      /\ Len(v) = Len(w) - 1 /\ Len(w) \in Nat
      /\ \A i \in Nat : i \in 1..Len(v) => i + 1 \in 1..Len(w) /\ v[i] = w[i + 1]
  OBVIOUS
<1> HIDE DEF v
<1>2. next.epoch = e /\ next.seq = b + 1
  BY <1>1 DEF Consecutive
<1>3. \A i \in Nat : i \in 1..Len(v) => EpochOf(v[i]) = e /\ Position(v[i]) = b + 1 + i
  <2> SUFFICES ASSUME NEW i \in Nat, i \in 1..Len(v)
               PROVE  EpochOf(v[i]) = e /\ Position(v[i]) = b + 1 + i
    OBVIOUS
  <2>1. EpochOf(w[i + 1]) = e /\ Position(w[i + 1]) = b + (i + 1)
    BY <1>1 DEF Consecutive
  <2>2. b + (i + 1) = b + 1 + i
    OBVIOUS
  <2> QED BY <1>1, <2>1, <2>2
<1>4. \A i \in Nat : i \in 1..Len(c) => c[i].epoch = e /\ c[i].seq = b + 1 + Len(v) + i
  <2> SUFFICES ASSUME NEW i \in Nat, i \in 1..Len(c)
               PROVE  c[i].epoch = e /\ c[i].seq = b + 1 + Len(v) + i
    OBVIOUS
  <2>1. c[i].epoch = e /\ c[i].seq = b + Len(w) + i
    BY DEF Consecutive
  <2>2. b + Len(w) + i = b + 1 + Len(v) + i
    BY <1>1
  <2> QED BY <2>1, <2>2
<1>5. Meets(w, c, e, b, m) => Meets(v, c, e, b + 1, m)
  BY <1>1 DEF Meets
<1> QED BY <1>2, <1>3, <1>4, <1>5 DEF Consecutive, v

\* Such a tab takes the first frame of its wire.
LEMMA ConsecutiveTaken ==
  ASSUME NEW s \in Image \cup {Absent}, NEW w \in Seq(AnyFrame), NEW c,
         NEW e \in Nat, NEW b \in Int, w # <<>>, Consecutive(s, w, c, e, b)
  PROVE  LET next == ApplyTaskEventFrame(s, Head(w))
         IN  /\ next \in Image /\ next # Refused
             /\ next.epoch = EpochOf(Head(w)) /\ next.seq = Position(Head(w))
<1>1. Head(w) = w[1] /\ 1 \in 1..Len(w) /\ Head(w) \in AnyFrame
  OBVIOUS
<1>2. EpochOf(Head(w)) = e /\ Position(Head(w)) = b + 1
  BY <1>1 DEF Consecutive
<1>3. \/ Head(w).type = "snapshot"
      \/ s # Absent /\ EpochOf(Head(w)) = s.epoch /\ Position(Head(w)) = s.seq + 1
  BY <1>1, <1>2 DEF Consecutive
<1>4. ApplyTaskEventFrame(s, Head(w)) \in Image
  BY <1>1, <1>3, ApplyPosition DEF AnyFrame
<1>5. ApplyTaskEventFrame(s, Head(w)) # Refused
  BY <1>4, SentinelsAssumption
<1> QED BY <1>1, <1>4, <1>5, ApplyPosition DEF AnyFrame

Streamed(k) == handler[k] \in {"streaming", "closed"}

\* What holds of the connection k of tab t.
Joined(t, k) ==
  /\ \E e \in Nat, b \in Int :
       /\ Consecutive(store[t], wire[k], chan[k], e, b)
       /\ k \in subs => Meets(wire[k], chan[k], e, b, model)
  /\ (handler[k] = "streaming" /\ store[t] = Absent) => wire[k] # <<>>

PipeInv ==
  \A t \in Tabs, k \in Conns : (socket[t] = k /\ Streamed(k)) => Joined(t, k)

\* A connection none of whose parts change stays consecutive.
LEMMA PipeKeep ==
  ASSUME NEW t \in Tabs, NEW k \in Conns, Joined(t, k),
         store'[t] = store[t], handler'[k] = handler[k],
         wire'[k] = wire[k], chan'[k] = chan[k], k \in subs' => k \in subs /\ model' = model
  PROVE  Joined(t, k)'
<1>1. PICK e \in Nat, b \in Int :
        /\ Consecutive(store[t], wire[k], chan[k], e, b)
        /\ k \in subs => Meets(wire[k], chan[k], e, b, model)
  BY DEF Joined
<1>2. /\ Consecutive(store'[t], wire'[k], chan'[k], e, b)
      /\ k \in subs' => Meets(wire'[k], chan'[k], e, b, model')
  BY <1>1 DEF Consecutive
<1>3. (handler'[k] = "streaming" /\ store'[t] = Absent) => wire'[k] # <<>>
  BY DEF Joined
<1> QED BY <1>2, <1>3 DEF Joined

LEMMA PipePublish ==
  ASSUME TypeOK, PipeInv, PublishFrame
  PROVE  PipeInv'
<1>1. PICK c \in JobChanges :
        /\ model' = Commit(model, c)
        /\ chan' = [k \in Conns |-> IF k \in subs /\ HasRoom(k)
                                    THEN Append(chan[k], Frame(model, c)) ELSE chan[k]]
  BY DEF PublishFrame
<1>2. subs' = {k \in subs : HasRoom(k)} /\ UNCHANGED <<handler, wire, socket, store>>
  BY DEF PublishFrame, Followers, connVars
<1>3. c \in Change /\ model \in Image
  BY JobChangesType DEF TypeOK
<1>4. model'.epoch = model.epoch /\ model'.seq = model.seq + 1
  BY <1>1, <1>3, CommitType, ImageParts
<1> DEFINE f == Frame(model, c)
<1>5. f.epoch = model.epoch /\ f.seq = model.seq + 1 /\ f \in ChangeFrame
  BY <1>3, CommitType DEF Frame
<1> HIDE DEF f
<1> SUFFICES ASSUME NEW t \in Tabs, NEW k \in Conns, socket'[t] = k, Streamed(k)'
             PROVE  Joined(t, k)'
  BY DEF PipeInv
<1>6. socket[t] = k /\ Streamed(k) /\ Joined(t, k)
  BY <1>2 DEF Streamed, PipeInv
<1>7. CASE k \in subs /\ HasRoom(k)
  <2>1. PICK e \in Nat, b \in Int :
          /\ Consecutive(store[t], wire[k], chan[k], e, b)
          /\ Meets(wire[k], chan[k], e, b, model)
    BY <1>6, <1>7 DEF Joined
  <2>2. chan'[k] = Append(chan[k], f) /\ chan[k] \in Seq(ChangeFrame) /\ Len(wire[k]) \in Nat
    BY <1>1, <1>7 DEF f, TypeOK
  <2>3. /\ Consecutive(store[t], wire[k], Append(chan[k], f), e, b)
        /\ Meets(wire[k], Append(chan[k], f), e, b, model')
    BY <1>4, <1>5, <2>1, <2>2, PublishConsecutive
  <2>4. /\ Consecutive(store'[t], wire'[k], chan'[k], e, b)
        /\ Meets(wire'[k], chan'[k], e, b, model')
    BY <1>2, <2>2, <2>3
  <2>5. (handler'[k] = "streaming" /\ store'[t] = Absent) => wire'[k] # <<>>
    BY <1>2, <1>6 DEF Joined
  <2> QED BY <2>4, <2>5 DEF Joined
<1>8. CASE ~(k \in subs /\ HasRoom(k))
  <2>1. store'[t] = store[t] /\ handler'[k] = handler[k] /\ wire'[k] = wire[k]
    BY <1>2
  <2>2. chan'[k] = chan[k] /\ k \notin subs'
    BY <1>1, <1>2, <1>8
  <2> QED BY <1>6, <2>1, <2>2, PipeKeep
<1> QED BY <1>7, <1>8

LEMMA PipeSubscribe ==
  ASSUME TypeOK, ControlInv, ConnInv, PipeInv, NEW k \in Conns, Subscribe(k)
  PROVE  PipeInv'
<1>1. UNCHANGED <<socket, store>>
  BY DEF Subscribe, envVars
<1>2. /\ handler[k] = "upgraded" /\ UNCHANGED chan
      /\ subs' \subseteq subs \cup {k}
      /\ \A j \in Conns : handler'[j] = IF j = k THEN "streaming" ELSE handler[j]
      /\ \A j \in Conns : wire'[j] = IF j = k /\ Attached(k) THEN <<Snapshot(model')>> ELSE wire[j]
  BY DEF Subscribe, FirstWrite, TypeOK
<1>3. chan[k] = <<>>
  BY <1>2 DEF ConnInv
<1>4. subs # {} => model' = model
  BY DEF Subscribe, ControlInv, SubscribersInv
<1>5. model' \in Image
  BY TypeConnection DEF TypeOK
<1> SUFFICES ASSUME NEW t \in Tabs, NEW j \in Conns, socket'[t] = j, Streamed(j)'
             PROVE  Joined(t, j)'
  BY DEF PipeInv
<1>6. CASE j = k
  <2>1. Attached(k) /\ store'[t] = Absent
    BY <1>1, <1>2, <1>6 DEF Attached, ConnInv
  <2>2. wire'[j] = <<Snapshot(model')>> /\ chan'[j] = <<>>
    BY <1>2, <1>3, <1>6, <2>1
  <2>3. PICK e \in Nat, b \in Int : /\ Consecutive(Absent, <<Snapshot(model')>>, <<>>, e, b)
                                    /\ Meets(<<Snapshot(model')>>, <<>>, e, b, model')
    BY <1>5, FirstConsecutive
  <2>4. /\ Consecutive(store'[t], wire'[j], chan'[j], e, b)
        /\ Meets(wire'[j], chan'[j], e, b, model')
    BY <2>1, <2>2, <2>3
  <2>5. wire'[j] # <<>>
    BY <2>2
  <2> QED BY <2>4, <2>5 DEF Joined
<1>7. CASE j # k
  <2>1. socket[t] = j /\ Streamed(j)
    BY <1>1, <1>2, <1>7 DEF Streamed
  <2>2. j \in subs' => j \in subs /\ model' = model
    BY <1>2, <1>4, <1>7
  <2>3. Joined(t, j)
    BY <2>1 DEF PipeInv
  <2>4. store'[t] = store[t] /\ handler'[j] = handler[j] /\ wire'[j] = wire[j] /\ chan'[j] = chan[j]
    BY <1>1, <1>2, <1>7
  <2> QED BY <2>2, <2>3, <2>4, PipeKeep
<1> QED BY <1>6, <1>7

LEMMA PipeForward ==
  ASSUME TypeOK, PipeInv, NEW k \in Conns, Forward(k)
  PROVE  PipeInv'
<1>1. /\ handler[k] = "streaming" /\ chan[k] # <<>>
      /\ chan[k] \in Seq(ChangeFrame) /\ wire[k] \in Seq(AnyFrame)
      /\ UNCHANGED <<model, subs, handler, socket, store>>
      /\ \A j \in Conns : wire'[j] = IF j = k THEN Append(wire[k], Head(chan[k])) ELSE wire[j]
      /\ \A j \in Conns : chan'[j] = IF j = k THEN Tail(chan[k]) ELSE chan[j]
  BY DEF Forward, TypeOK, AnyFrame
<1> SUFFICES ASSUME NEW t \in Tabs, NEW j \in Conns, socket'[t] = j, Streamed(j)'
             PROVE  Joined(t, j)'
  BY DEF PipeInv
<1>2. socket[t] = j /\ Streamed(j) /\ Joined(t, j)
  BY <1>1 DEF Streamed, PipeInv
<1>3. CASE j = k
  <2>1. PICK e \in Nat, b \in Int :
          /\ Consecutive(store[t], wire[k], chan[k], e, b)
          /\ k \in subs => Meets(wire[k], chan[k], e, b, model)
    BY <1>2, <1>3 DEF Joined
  <2>2. store[t] = Absent => wire[k] # <<>>
    BY <1>1, <1>2, <1>3 DEF Joined
  <2>3. /\ Append(wire[k], Head(chan[k])) # <<>>
        /\ Consecutive(store[t], Append(wire[k], Head(chan[k])), Tail(chan[k]), e, b)
        /\ k \in subs => Meets(Append(wire[k], Head(chan[k])), Tail(chan[k]), e, b, model)
    BY <1>1, <2>1, <2>2, ForwardConsecutive
  <2>4. /\ Consecutive(store'[t], wire'[k], chan'[k], e, b)
        /\ k \in subs' => Meets(wire'[k], chan'[k], e, b, model')
    BY <1>1, <2>3
  <2>5. wire'[k] # <<>>
    BY <1>1, <2>3
  <2> QED BY <1>3, <2>4, <2>5 DEF Joined
<1>4. CASE j # k
  BY <1>1, <1>2, <1>4, PipeKeep
<1> QED BY <1>3, <1>4

LEMMA PipeHandlerExit ==
  ASSUME TypeOK, PipeInv, NEW k \in Conns, HandlerExit(k)
  PROVE  PipeInv'
<1>1. /\ UNCHANGED <<model, wire, socket, store>> /\ subs' = subs \ {k}
      /\ \A j \in Conns : chan'[j] = IF j = k THEN <<>> ELSE chan[j]
      /\ \A j \in Conns : j # k => handler'[j] = handler[j]
      /\ handler[k] = "streaming" /\ handler'[k] \in {"closed", "idle"}
  BY DEF HandlerExit, TypeOK
<1> SUFFICES ASSUME NEW t \in Tabs, NEW j \in Conns, socket'[t] = j, Streamed(j)'
             PROVE  Joined(t, j)'
  BY DEF PipeInv
<1>2. CASE j = k
  <2>1. Joined(t, k)
    BY <1>1, <1>2 DEF Streamed, PipeInv
  <2>2. PICK e \in Nat, b \in Int : Consecutive(store[t], wire[k], chan[k], e, b)
    BY <2>1 DEF Joined
  <2>3. chan'[k] = <<>> /\ k \notin subs' /\ handler'[k] # "streaming"
    BY <1>1
  <2>4. \A i \in Nat : i \notin 1..Len(<<>>)
    OBVIOUS
  <2>5. Consecutive(store'[t], wire'[k], chan'[k], e, b)
    BY <1>1, <2>2, <2>3, <2>4 DEF Consecutive
  <2> QED BY <1>2, <2>3, <2>5 DEF Joined
<1>3. CASE j # k
  <2>1. Joined(t, j)
    BY <1>1, <1>3 DEF Streamed, PipeInv
  <2> QED BY <1>1, <1>3, <2>1, PipeKeep
<1> QED BY <1>2, <1>3

\* A tab that leaves its connection, whichever way.
LEMMA PipeLose ==
  ASSUME TypeOK, ConnInv, PipeInv, NEW t \in Tabs, socket[t] # NoConn, Lose(t),
         UNCHANGED <<model, subs, chan>>
  PROVE  PipeInv'
<1>1. PICK k \in Conns : k = socket[t]
  BY DEF TypeOK
<1>2. /\ \A u \in Tabs : u # t => socket'[u] = socket[u] /\ store'[u] = store[u]
      /\ socket'[t] = NoConn
      /\ \A j \in Conns : j # k => wire'[j] = wire[j] /\ handler'[j] = handler[j]
  BY <1>1 DEF Lose, TypeOK
<1> SUFFICES ASSUME NEW u \in Tabs, NEW j \in Conns, socket'[u] = j, Streamed(j)'
             PROVE  Joined(u, j)'
  BY DEF PipeInv
<1>3. u # t
  BY <1>2, BoundsAssumption
<1>4. j # k
  BY <1>1, <1>2, <1>3 DEF ConnInv
<1>5. Joined(u, j)
  BY <1>2, <1>3, <1>4 DEF Streamed, PipeInv
<1> QED BY <1>2, <1>3, <1>4, <1>5, PipeKeep

LEMMA PipeReceive ==
  ASSUME TypeOK, ConnInv, PipeInv, NEW t \in Tabs, Receive(t)
  PROVE  PipeInv'
<1>1. PICK k \in Conns : k = socket[t]
  BY DEF Receive, TypeOK
<1>2. /\ k # NoConn /\ wire[k] # <<>> /\ wire[k] \in Seq(AnyFrame)
      /\ UNCHANGED <<model, subs, chan>>
  BY <1>1 DEF Receive, TypeOK, AnyFrame, publisherVars
<1> DEFINE next == ApplyTaskEventFrame(store[t], Head(wire[k]))
<1>3. CASE next = Refused
  BY <1>1, <1>2, <1>3, PipeLose DEF Receive
<1>4. CASE next # Refused
  <2>1. /\ store' = [store EXCEPT ![t] = next]
        /\ wire' = [wire EXCEPT ![k] = Tail(wire[k])]
        /\ UNCHANGED <<handler, socket>>
    BY <1>1, <1>2, <1>4 DEF Receive
  <2>2. Head(wire[k]) \in AnyFrame
    BY <1>2
  <2>3. next.epoch = EpochOf(Head(wire[k])) /\ next.seq = Position(Head(wire[k]))
    BY <1>4, <2>2, ApplyPosition DEF AnyFrame, TypeOK
  <2>4. next # Absent
    BY <1>4, <2>2, ApplyType, SentinelsAssumption DEF AnyFrame, TypeOK
  <2> HIDE DEF next
  <2>5. /\ \A u \in Tabs : store'[u] = IF u = t THEN next ELSE store[u]
        /\ \A j \in Conns : wire'[j] = IF j = k THEN Tail(wire[k]) ELSE wire[j]
    BY <2>1 DEF TypeOK
  <2> SUFFICES ASSUME NEW u \in Tabs, NEW j \in Conns, socket'[u] = j, Streamed(j)'
               PROVE  Joined(u, j)'
    BY DEF PipeInv
  <2>6. Joined(u, j)
    BY <2>1 DEF PipeInv, Streamed
  <2>7. CASE u = t
    <3>1. j = k
      BY <1>1, <2>1, <2>7
    <3>2. PICK e \in Nat, b \in Int :
            /\ Consecutive(store[t], wire[k], chan[k], e, b)
            /\ k \in subs => Meets(wire[k], chan[k], e, b, model)
      BY <2>6, <2>7, <3>1 DEF Joined
    <3>3. Len(chan[k]) \in Nat
      BY DEF TypeOK
    <3>4. /\ Consecutive(next, Tail(wire[k]), chan[k], e, b + 1)
          /\ Meets(wire[k], chan[k], e, b, model)
               => Meets(Tail(wire[k]), chan[k], e, b + 1, model)
      BY <1>2, <2>3, <2>4, <3>2, <3>3, TakeConsecutive
    <3>5. /\ Consecutive(store'[t], wire'[k], chan'[k], e, b + 1)
          /\ k \in subs' => Meets(wire'[k], chan'[k], e, b + 1, model')
      BY <1>2, <2>5, <3>2, <3>4
    <3>6. store'[t] # Absent /\ b + 1 \in Int
      BY <2>4, <2>5
    <3> QED BY <2>7, <3>1, <3>5, <3>6 DEF Joined
  <2>8. CASE u # t
    <3>1. j # k
      BY <1>1, <1>2, <2>1, <2>8 DEF ConnInv
    <3> QED BY <1>2, <2>1, <2>5, <2>6, <2>8, <3>1, PipeKeep
  <2> QED BY <2>7, <2>8
<1> QED BY <1>3, <1>4

LEMMA PipeConnect ==
  ASSUME TypeOK, PipeInv, NEW t \in Tabs, Connect(t)
  PROVE  PipeInv'
<1>1. PICK k \in Conns : /\ handler[k] = "idle"
                         /\ socket' = [socket EXCEPT ![t] = k]
                         /\ handler' = [handler EXCEPT ![k] = "upgraded"]
  BY DEF Connect
<1>2. UNCHANGED <<model, subs, chan, wire, store>>
  BY DEF Connect, publisherVars
<1> SUFFICES ASSUME NEW u \in Tabs, NEW j \in Conns, socket'[u] = j, Streamed(j)'
             PROVE  Joined(u, j)'
  BY DEF PipeInv
<1>3. j # k /\ handler'[j] = handler[j]
  BY <1>1 DEF Streamed, TypeOK
<1>4. u # t /\ socket[u] = j
  BY <1>1, <1>3 DEF TypeOK
<1>5. Joined(u, j)
  BY <1>3, <1>4 DEF PipeInv, Streamed
<1> QED BY <1>2, <1>3, <1>5, PipeKeep

\* A new server has no subscriptions; what the old one wrote is still received.
LEMMA PipeRestart ==
  ASSUME TypeOK, PipeInv, ConnInv, Restart
  PROVE  PipeInv'
<1>1. /\ UNCHANGED <<wire, socket, store>> /\ subs' = {}
      /\ \A k \in Conns : chan'[k] = <<>>
      /\ \A k \in Conns : handler'[k] \in {"closed", "idle"}
  BY DEF Restart
<1> SUFFICES ASSUME NEW t \in Tabs, NEW k \in Conns, socket'[t] = k, Streamed(k)'
             PROVE  Joined(t, k)'
  BY DEF PipeInv
<1>2. \A i \in Nat : i \notin 1..Len(<<>>)
  OBVIOUS
<1>3. k \notin subs' /\ chan'[k] = <<>> /\ handler'[k] # "streaming"
  BY <1>1
<1>4. CASE Streamed(k)
  <2>1. Joined(t, k)
    BY <1>1, <1>4 DEF PipeInv
  <2>2. PICK e \in Nat, b \in Int : Consecutive(store[t], wire[k], chan[k], e, b)
    BY <2>1 DEF Joined
  <2>3. Consecutive(store'[t], wire'[k], chan'[k], e, b)
    BY <1>1, <1>2, <1>3, <2>2 DEF Consecutive
  <2> QED BY <1>3, <2>3 DEF Joined
<1>5. CASE ~Streamed(k)
  <2>1. socket[t] = k /\ Attached(k)
    BY <1>1 DEF Attached
  <2>2. handler[k] = "upgraded"
    BY <1>5, <2>1 DEF ConnInv, Streamed, TypeOK
  <2>3. store'[t] = Absent /\ wire'[k] = <<>>
    BY <1>1, <2>1, <2>2 DEF ConnInv
  <2>4. Consecutive(store'[t], wire'[k], chan'[k], 0, 0)
    BY <1>2, <1>3, <2>3 DEF Consecutive
  <2>5. 0 \in Nat /\ 0 \in Int
    OBVIOUS
  <2> QED BY <1>3, <2>4, <2>5 DEF Joined
<1> QED BY <1>4, <1>5

LEMMA PipeOther ==
  ASSUME TypeOK, PipeInv,
         \/ Unlock \/ Close \/ SuperviseSync \/ SuperviseEnd
         \/ \E h \in Hosts, s \in Slots :
              CollectOK(h, s) \/ CollectFail(h, s) \/ Deliver(h, s) \/ Wake(h, s)
         \/ (\E t \in Tasks : WorldStep(t)) \/ Configure \/ UNCHANGED vars
  PROVE  PipeInv'
<1>1. UNCHANGED <<model, chan, handler, wire, socket, store>> /\ subs' \subseteq subs
  BY DEF connVars, Unlock, Close, SuperviseSync, SuperviseEnd, CollectOK, CollectFail,
         Deliver, Wake, WorldStep, Configure, vars, publisherVars
<1> SUFFICES ASSUME NEW t \in Tabs, NEW k \in Conns, socket'[t] = k, Streamed(k)'
             PROVE  Joined(t, k)'
  BY DEF PipeInv
<1>2. Joined(t, k)
  BY <1>1 DEF PipeInv, Streamed
<1> QED BY <1>1, <1>2, PipeKeep

LEMMA PipeStep == TypeOK /\ ControlInv /\ ConnInv /\ PipeInv /\ [Next]_vars => PipeInv'
<1> SUFFICES ASSUME TypeOK, ControlInv, ConnInv, PipeInv, [Next]_vars PROVE PipeInv'
  OBVIOUS
<1>1. CASE \E t \in Tabs : ServerClosed(t) \/ Disconnect(t)
  BY <1>1, PipeLose DEF ServerClosed, Disconnect, publisherVars
<1> QED BY <1>1, PipePublish, PipeSubscribe, PipeForward, PipeHandlerExit, PipeReceive,
           PipeConnect, PipeRestart, PipeOther DEF Next

LEMMA PipeInit == Init => PipeInv
BY BoundsAssumption DEF Init, PipeInv

LEMMA PipeCorrect == Spec => []PipeInv
BY TypeCorrect, ControlCorrect, ConnCorrect, PipeInit, PipeStep, PTL DEF Spec

\* A tab never refuses a frame (applyTaskEventFrame): nothing is missing,
\* repeated or out of place on the way from publishLocked to it.
THEOREM NeverRefusedCorrect == Spec => []NeverRefused
<1>1. TypeOK /\ ConnInv /\ PipeInv => NeverRefused
  <2> SUFFICES ASSUME TypeOK, ConnInv, PipeInv, NEW t \in Tabs, NEW k, k = socket[t],
                      k # NoConn, wire[k] # <<>>
               PROVE  ApplyTaskEventFrame(store[t], Head(wire[k])) # Refused
    BY DEF NeverRefused
  <2>1. k \in Conns /\ wire[k] \in Seq(AnyFrame) /\ store[t] \in Image \cup {Absent}
    BY DEF TypeOK, AnyFrame
  <2>2. Attached(k) /\ handler[k] # "upgraded"
    BY <2>1 DEF Attached, ConnInv
  <2>3. Streamed(k)
    BY <2>1, <2>2 DEF ConnInv, Streamed, TypeOK
  <2>4. PICK e \in Nat, b \in Int : Consecutive(store[t], wire[k], chan[k], e, b)
    BY <2>1, <2>3 DEF PipeInv, Joined
  <2> QED BY <2>1, <2>4, ConsecutiveTaken
<1> QED BY <1>1, TypeCorrect, ConnCorrect, PipeCorrect, PTL

-----------------------------------------------------------------------------
(***************************************************************************)
(* What was published.                                                     *)
(***************************************************************************)
\* The images so far: the current one is among them and the last, and an
\* epoch and a position name one of them.
PastInv ==
  /\ published \subseteq Image
  /\ model \in published
  /\ \A p \in published :
       p.epoch < model.epoch \/ (p.epoch = model.epoch /\ p.seq <= model.seq)
  /\ \A p, q \in published : (p.epoch = q.epoch /\ p.seq = q.seq) => p = q

\* A frame brings one image so far, or leads from one to another.
Sound(f, past) ==
  IF f.type = "snapshot" THEN f.image \in past
  ELSE \E p \in past : /\ f.epoch = p.epoch /\ f.seq = p.seq + 1
                       /\ ApplyTaskEventFrame(p, f) \in past

FramesInv ==
  \A k \in Conns, i \in Nat :
    /\ i \in 1..Len(chan[k]) => Sound(chan[k][i], published)
    /\ i \in 1..Len(wire[k]) => Sound(wire[k][i], published)

HInv == NoOrphan(model) /\ PastInv /\ FramesInv /\ StoreIsPublished

(***************************************************************************)
(* No task without its host.                                               *)
(***************************************************************************)
LEMMA NoOrphanPublish ==
  ASSUME TypeOK, NoOrphan(model), NEW c \in JobChanges
  PROVE  NoOrphan(Commit(model, c))
<1>1. c \in Change
  BY JobChangesType
<1> DEFINE m == Commit(model, c)
<1>2. /\ model.hosts \in [Hosts -> Statuses \cup {Absent}]
      /\ model.tasks \in [Tasks -> Views \cup {Absent}]
  BY ImageParts DEF TypeOK
<1>3. CASE c.type = "task" /\ c.op = "removed"
  <2>1. m.hosts = model.hosts /\ m.tasks = [model.tasks EXCEPT ![c.key] = Absent]
    BY <1>3, ImageParts DEF Commit, TypeOK
  <2> QED BY <1>2, <2>1 DEF NoOrphan
<1>4. CASE c.type = "task" /\ c.op # "removed"
  <2>1. m.hosts = model.hosts /\ m.tasks = [model.tasks EXCEPT ![c.key] = c.content]
    BY <1>4, ImageParts DEF Commit, TypeOK
  <2>2. model.hosts[TaskHost[c.key]] # Absent
    <3>1. CASE job.op = "sync"
      <4>1. c \in SyncChanges(model, job.names)
        BY <3>1 DEF JobChanges
      <4>2. \/ \E t \in Tasks : c = TaskChange("removed", t, model.tasks[t])
            \/ \E g \in Hosts : c = HostChange("removed", g, model.hosts[g])
            \/ \E g \in job.names : c = HostChange("added", g, "pending")
        BY <4>1 DEF SyncChanges, Orphans
      <4> QED BY <1>4, <4>2 DEF HostChange, TaskChange
    <3>2. CASE job.op = "observe"
      <4>1. c \in HostChanges(model, job.host, job.status, job.seen)
        BY <3>2 DEF JobChanges
      <4>2. model.hosts[job.host] # Absent
        BY <4>1 DEF HostChanges
      <4>3. \/ c = HostChange("changed", job.host, job.status)
            \/ \E t \in TasksOf(job.host), op \in {"added", "changed", "removed"} :
                 \E v : c = TaskChange(op, t, v)
        BY <4>1 DEF HostChanges
      <4>4. c.key \in TasksOf(job.host)
        BY <1>4, <4>3 DEF HostChange, TaskChange
      <4> QED BY <4>2, <4>4 DEF TasksOf
    <3> QED BY <3>1, <3>2 DEF JobChanges
  <2> QED BY <1>2, <2>1, <2>2 DEF NoOrphan
<1>5. CASE c.type = "host" /\ c.op # "removed"
  <2>1. m.tasks = model.tasks /\ m.hosts = [model.hosts EXCEPT ![c.key] = c.content]
    BY <1>5, ImageParts DEF Commit, TypeOK
  <2>2. c.content # Absent
    BY <1>1, <1>5, SentinelsAssumption DEF Change
  <2> QED BY <1>2, <2>1, <2>2, TaskHostAssumption DEF NoOrphan
<1>6. CASE c.type = "host" /\ c.op = "removed"
  <2>1. m.tasks = model.tasks /\ m.hosts = [model.hosts EXCEPT ![c.key] = Absent]
    BY <1>6, ImageParts DEF Commit, TypeOK
  <2>2. \A t \in Tasks : model.tasks[t] # Absent => TaskHost[t] # c.key
    <3>1. CASE job.op = "sync"
      <4>1. c \in SyncChanges(model, job.names)
        BY <3>1 DEF JobChanges
      <4> DEFINE gone == {h \in Hosts \ job.names : model.hosts[h] # Absent}
      <4>2. \/ \E t \in Orphans(model, gone) : c = TaskChange("removed", t, model.tasks[t])
            \/ \E h \in gone : /\ \A t \in Orphans(model, gone) : TaskHost[t] # h
                              /\ c = HostChange("removed", h, model.hosts[h])
            \/ \E h \in job.names : c = HostChange("added", h, "pending")
        <5> DEFINE orphans == Orphans(model, gone)
        <5>1. SyncChanges(model, job.names) =
                IF gone # {}
                  THEN {TaskChange("removed", t, model.tasks[t]) : t \in orphans}
                       \cup {HostChange("removed", h, model.hosts[h]) :
                               h \in {g \in gone : \A t \in orphans : TaskHost[t] # g}}
                  ELSE {HostChange("added", h, "pending") :
                          h \in {g \in job.names : model.hosts[g] = Absent}}
          BY DEF SyncChanges
        <5> HIDE DEF gone, orphans
        <5>2. CASE gone = {}
          BY <4>1, <5>1, <5>2
        <5>3. CASE gone # {}
          BY <4>1, <5>1, <5>3 DEF orphans
        <5> QED BY <5>2, <5>3
      <4> HIDE DEF gone
      <4>3. PICK h \in gone : /\ \A t \in Orphans(model, gone) : TaskHost[t] # h
                              /\ c = HostChange("removed", h, model.hosts[h])
        BY <1>6, <4>2 DEF HostChange, TaskChange
      <4>4. c.key = h
        BY <4>3 DEF HostChange
      <4> QED BY <4>3, <4>4 DEF Orphans, gone
    <3>2. CASE job.op = "observe"
      <4>1. c \in HostChanges(model, job.host, job.status, job.seen)
        BY <3>2 DEF JobChanges
      <4>2. c.type = "task" \/ c = HostChange("changed", job.host, job.status)
        BY <4>1 DEF HostChanges, TaskChange
      <4> QED BY <1>6, <4>2 DEF HostChange
    <3> QED BY <3>1, <3>2 DEF JobChanges
  <2> QED BY <1>2, <2>1, <2>2, TaskHostAssumption DEF NoOrphan
<1> QED BY <1>1, <1>3, <1>4, <1>5, <1>6 DEF Change

LEMMA NoOrphanStarted ==
  ASSUME NEW m \in Image, NEW names \in SUBSET Hosts, NEW n \in Nat
  PROVE  NoOrphan(Started(m, names, n))
BY SentinelsAssumption, TaskHostAssumption DEF NoOrphan, Started, Statuses

(***************************************************************************)
(* The history grows by images later than every one before.                *)
(***************************************************************************)
Succeeds(m) ==
  \/ m = model
  \/ m.epoch = model.epoch /\ m.seq > model.seq
  \/ m.epoch = model.epoch + 1 /\ m.seq = 0

LEMMA PastGrows ==
  ASSUME TypeOK, PastInv, model' \in Image, Succeeds(model'), published' = published \cup {model'}
  PROVE  PastInv'
<1>1. \A p \in published' : p.epoch \in Nat /\ p.seq \in Nat
  BY ImageParts DEF PastInv
<1>2. /\ model.epoch \in Nat /\ model.seq \in Nat
      /\ model'.epoch \in Nat /\ model'.seq \in Nat
  BY ImageParts DEF TypeOK
<1>3. published' \subseteq Image /\ model' \in published'
  BY DEF PastInv
<1>4. CASE model' = model
  BY <1>4 DEF PastInv
<1>5. CASE model' # model
  <2>1. \A p \in published :
          p.epoch < model'.epoch \/ (p.epoch = model'.epoch /\ p.seq < model'.seq)
    BY <1>1, <1>2, <1>5 DEF PastInv, Succeeds
  <2>2. \A p \in published' :
          p.epoch < model'.epoch \/ (p.epoch = model'.epoch /\ p.seq <= model'.seq)
    BY <1>1, <1>2, <2>1
  <2>3. \A p, q \in published' : (p.epoch = q.epoch /\ p.seq = q.seq) => p = q
    BY <1>1, <1>2, <2>1 DEF PastInv
  <2> QED BY <1>3, <2>2, <2>3 DEF PastInv
<1> QED BY <1>4, <1>5

\* startLocked with nothing to publish changes nothing.
LEMMA StartedQuiet ==
  ASSUME NEW m \in Image, NEW names \in SUBSET Hosts, NoOrphan(m), NEW n,
         LET s == StartChanges(m, names)
         IN  n = Cardinality(s.pending) + Cardinality(s.hosts) + Cardinality(s.tasks)
  PROVE  n \in Nat /\ (n = 0 => Started(m, names, n) = m)
<1> DEFINE s == StartChanges(m, names)
<1>1. n \in Nat
  BY StartChangesFinite
<1>2. CASE n = 0
  <2>1. IsFiniteSet(Hosts)
    BY BoundsAssumption, FS_Singleton, FS_Union DEF Hosts
  <2>2. s.pending \subseteq Hosts /\ s.hosts \subseteq Hosts /\ s.tasks \subseteq Tasks
    BY DEF StartChanges, Orphans
  <2>3. IsFiniteSet(s.pending) /\ IsFiniteSet(s.hosts)
    BY <2>1, <2>2, FS_Subset
  <2>4. IsFiniteSet(s.tasks)
    BY <2>2, BoundsAssumption, FS_Subset
  <2> HIDE DEF s
  <2>5. Cardinality(s.pending) \in Nat /\ Cardinality(s.hosts) \in Nat /\ Cardinality(s.tasks) \in Nat
    BY <2>3, <2>4, FS_CardinalityType
  <2>6. Cardinality(s.pending) = 0 /\ Cardinality(s.hosts) = 0
    BY <1>2, <2>5 DEF s
  <2>7. s.pending = {} /\ s.hosts = {}
    BY <2>3, <2>6, FS_EmptySet
  <2>8. \A h \in Hosts : m.hosts[h] = IF h \in names THEN "pending" ELSE Absent
    BY <2>7, SentinelsAssumption DEF s, StartChanges, Statuses
  <2>9. [h \in Hosts |-> IF h \in names THEN "pending" ELSE Absent] = m.hosts
    BY <2>8, ImageParts
  <2>10. \A t \in Tasks : TaskHost[t] \notin names => m.tasks[t] = Absent
    BY <2>8, TaskHostAssumption DEF NoOrphan
  <2>11. [t \in Tasks |-> IF TaskHost[t] \in names THEN m.tasks[t] ELSE Absent] = m.tasks
    BY <2>10, ImageParts
  <2>12. m.seq + n = m.seq
    BY <1>2, ImageParts
  <2> QED BY <1>1, <2>9, <2>11, <2>12, ImageParts DEF Started
<1> QED BY <1>1, <1>2

\* Every step moves to a later image or keeps the current one.
LEMMA ModelSucceeds ==
  ASSUME TypeOK, NoOrphan(model), Next
  PROVE  model' \in Image /\ Succeeds(model') /\ NoOrphan(model')
<1> USE DEF publisherVars, connVars, envVars
<1>1. CASE model' = model
  BY <1>1 DEF TypeOK, Succeeds
<1>2. CASE PublishFrame
  <2>1. PICK c \in JobChanges : model' = Commit(model, c)
    BY <1>2 DEF PublishFrame
  <2>2. c \in Change /\ model \in Image
    BY JobChangesType DEF TypeOK
  <2>3. model' \in Image /\ model'.epoch = model.epoch /\ model'.seq = model.seq + 1
    BY <2>1, <2>2, CommitType
  <2>4. NoOrphan(model')
    BY <2>1, NoOrphanPublish
  <2> QED BY <2>2, <2>3, <2>4, ImageParts DEF Succeeds
<1>3. CASE \E k \in Conns : Subscribe(k)
  <2> DEFINE s == StartChanges(model, Names)
             n == Cardinality(s.pending) + Cardinality(s.hosts) + Cardinality(s.tasks)
  <2>1. model \in Image /\ Names \in SUBSET Hosts
    BY NamesType DEF TypeOK
  <2>2. model' = model \/ model' = Started(model, Names, n)
    BY <1>3 DEF Subscribe
  <2>3. n \in Nat /\ (n = 0 => Started(model, Names, n) = model)
    BY <2>1, StartedQuiet
  <2> HIDE DEF n
  <2>4. CASE model' = Started(model, Names, n)
    <3>1. model' \in Image /\ model'.epoch = model.epoch /\ model'.seq = model.seq + n
      BY <2>1, <2>3, <2>4, StartedType
    <3>2. NoOrphan(model')
      BY <2>1, <2>3, <2>4, NoOrphanStarted
    <3>3. model.seq \in Nat
      BY <2>1, ImageParts
    <3> QED BY <2>3, <2>4, <3>1, <3>2, <3>3 DEF Succeeds
  <2> QED BY <1>1, <2>2, <2>4
<1>4. CASE Restart
  <2>1. model.epoch + 1 \in Nat
    BY ImageParts DEF TypeOK
  <2>2. model' = NewEventModel(model.epoch + 1)
    BY <1>4 DEF Restart
  <2>3. model' \in Image
    BY <2>1, <2>2, NewEventModelType
  <2>4. NoOrphan(model')
    BY <2>2 DEF NewEventModel, NoOrphan
  <2>5. model'.epoch = model.epoch + 1 /\ model'.seq = 0
    BY <2>2 DEF NewEventModel
  <2> QED BY <2>3, <2>4, <2>5 DEF Succeeds
<1>5. CASE Unlock \/ Close \/ SuperviseSync \/ SuperviseEnd
  BY <1>1, <1>5 DEF Unlock, Close, SuperviseSync, SuperviseEnd
<1>6. CASE \E k \in Conns : Forward(k) \/ HandlerExit(k)
  BY <1>1, <1>6 DEF Forward, HandlerExit
<1>7. CASE \E h \in Hosts, r \in Slots :
             CollectOK(h, r) \/ CollectFail(h, r) \/ Deliver(h, r) \/ Wake(h, r)
  BY <1>1, <1>7 DEF CollectOK, CollectFail, Deliver, Wake
<1>8. CASE \E t \in Tabs : Connect(t) \/ Receive(t) \/ ServerClosed(t) \/ Disconnect(t)
  BY <1>1, <1>8 DEF Connect, Receive, ServerClosed, Disconnect
<1>9. CASE (\E t \in Tasks : WorldStep(t)) \/ Configure
  BY <1>1, <1>9 DEF WorldStep, Configure
<1> QED BY <1>2, <1>3, <1>4, <1>5, <1>6, <1>7, <1>8, <1>9 DEF Next

(***************************************************************************)
(* What is under way was published, and so is what a tab makes of it.      *)
(***************************************************************************)
LEMMA SoundGrows ==
  ASSUME NEW f, NEW past, NEW past2, past \subseteq past2, Sound(f, past)
  PROVE  Sound(f, past2)
BY DEF Sound

LEMMA FramesKeep ==
  ASSUME FramesInv, published \subseteq published', UNCHANGED wire,
         \A k \in Conns : chan'[k] = chan[k] \/ chan'[k] = <<>>
  PROVE  FramesInv'
<1>1. \A i \in Nat : i \notin 1..Len(<<>>)
  OBVIOUS
<1> QED BY <1>1, SoundGrows DEF FramesInv

LEMMA FramesPublish ==
  ASSUME TypeOK, PastInv, FramesInv, PublishFrame, published' = published \cup {model'}
  PROVE  FramesInv'
<1>1. PICK c \in JobChanges :
        /\ model' = Commit(model, c)
        /\ chan' = [k \in Conns |-> IF k \in subs /\ HasRoom(k)
                                    THEN Append(chan[k], Frame(model, c)) ELSE chan[k]]
  BY DEF PublishFrame
<1>2. c \in Change /\ model \in Image /\ UNCHANGED wire
  BY JobChangesType DEF TypeOK, PublishFrame, connVars
<1> DEFINE f == Frame(model, c)
<1>3. /\ f \in ChangeFrame /\ f.type # "snapshot"
      /\ f.epoch = model.epoch /\ f.seq = model.seq + 1
  BY <1>2, CommitType DEF Frame, Change
<1>4. ApplyTaskEventFrame(model, f) = model'
  BY <1>1, <1>2, FrameFollows
<1> HIDE DEF f
<1>5. Sound(f, published')
  BY <1>3, <1>4 DEF Sound, PastInv
<1> SUFFICES ASSUME NEW k \in Conns, NEW i \in Nat
             PROVE  /\ i \in 1..Len(chan'[k]) => Sound(chan'[k][i], published')
                    /\ i \in 1..Len(wire'[k]) => Sound(wire'[k][i], published')
  BY DEF FramesInv
<1>6. i \in 1..Len(wire'[k]) => Sound(wire'[k][i], published')
  BY <1>2, SoundGrows DEF FramesInv
<1>7. chan[k] \in Seq(ChangeFrame) /\ (chan'[k] = chan[k] \/ chan'[k] = Append(chan[k], f))
  BY <1>1 DEF TypeOK, f
<1>8. i \in 1..Len(Append(chan[k], f)) =>
        \/ Append(chan[k], f)[i] = f
        \/ i \in 1..Len(chan[k]) /\ Append(chan[k], f)[i] = chan[k][i]
  BY <1>3, <1>7
<1>9. i \in 1..Len(chan[k]) => Sound(chan[k][i], published')
  BY SoundGrows DEF FramesInv
<1> QED BY <1>5, <1>6, <1>7, <1>8, <1>9

LEMMA FramesSubscribe ==
  ASSUME FramesInv, NEW k \in Conns, Subscribe(k), published' = published \cup {model'}
  PROVE  FramesInv'
<1>1. UNCHANGED chan /\ \A j \in Conns : wire'[j] = wire[j] \/ wire'[j] = <<Snapshot(model')>>
  BY DEF Subscribe, FirstWrite
<1>2. Sound(Snapshot(model'), published')
  BY DEF Sound, Snapshot
<1>3. \A i \in Nat : i \in 1..Len(<<Snapshot(model')>>) => <<Snapshot(model')>>[i] = Snapshot(model')
  OBVIOUS
<1> SUFFICES ASSUME NEW j \in Conns, NEW i \in Nat
             PROVE  /\ i \in 1..Len(chan'[j]) => Sound(chan'[j][i], published')
                    /\ i \in 1..Len(wire'[j]) => Sound(wire'[j][i], published')
  BY DEF FramesInv
<1>4. i \in 1..Len(chan'[j]) => Sound(chan'[j][i], published')
  BY <1>1, SoundGrows DEF FramesInv
<1>5. CASE wire'[j] = wire[j]
  BY <1>4, <1>5, SoundGrows DEF FramesInv
<1>6. CASE wire'[j] = <<Snapshot(model')>>
  BY <1>2, <1>3, <1>4, <1>6
<1> QED BY <1>1, <1>5, <1>6

LEMMA FramesForward ==
  ASSUME TypeOK, FramesInv, NEW k \in Conns, Forward(k), published \subseteq published'
  PROVE  FramesInv'
<1>1. /\ chan[k] # <<>> /\ chan[k] \in Seq(ChangeFrame) /\ wire[k] \in Seq(AnyFrame)
      /\ \A j \in Conns : wire'[j] = IF j = k THEN Append(wire[k], Head(chan[k])) ELSE wire[j]
      /\ \A j \in Conns : chan'[j] = IF j = k THEN Tail(chan[k]) ELSE chan[j]
  BY DEF Forward, TypeOK, AnyFrame
<1> SUFFICES ASSUME NEW j \in Conns, NEW i \in Nat
             PROVE  /\ i \in 1..Len(chan'[j]) => Sound(chan'[j][i], published')
                    /\ i \in 1..Len(wire'[j]) => Sound(wire'[j][i], published')
  BY DEF FramesInv
<1>2. CASE j # k
  BY <1>1, <1>2, SoundGrows DEF FramesInv
<1>3. CASE j = k
  <2> DEFINE f == Head(chan[k])
  <2>1. f = chan[k][1] /\ 1 \in 1..Len(chan[k]) /\ f \in ChangeFrame
    BY <1>1
  <2>2. f \in AnyFrame
    BY <2>1 DEF AnyFrame
  <2>3. i \in 1..Len(Tail(chan[k])) => i + 1 \in 1..Len(chan[k]) /\ Tail(chan[k])[i] = chan[k][i + 1]
    BY <1>1
  <2> HIDE DEF f
  <2>4. i \in 1..Len(Append(wire[k], f)) =>
          \/ Append(wire[k], f)[i] = f
          \/ i \in 1..Len(wire[k]) /\ Append(wire[k], f)[i] = wire[k][i]
    BY <1>1, <2>2
  <2>5. /\ Sound(f, published')
        /\ i \in 1..Len(wire[k]) => Sound(wire[k][i], published')
        /\ i + 1 \in 1..Len(chan[k]) => Sound(chan[k][i + 1], published')
    BY <2>1, SoundGrows DEF FramesInv
  <2>6. wire'[j] = Append(wire[k], f) /\ chan'[j] = Tail(chan[k])
    BY <1>1, <1>3 DEF f
  <2> QED BY <2>3, <2>4, <2>5, <2>6
<1> QED BY <1>2, <1>3

LEMMA FramesLose ==
  ASSUME TypeOK, FramesInv, StoreIsPublished, NEW t \in Tabs, socket[t] # NoConn, Lose(t),
         UNCHANGED chan, published \subseteq published'
  PROVE  FramesInv' /\ StoreIsPublished' /\ store' = [store EXCEPT ![t] = Absent]
<1>1. \A j \in Conns : wire'[j] = wire[j] \/ wire'[j] = <<>>
  BY DEF Lose, TypeOK
<1>2. store' = [store EXCEPT ![t] = Absent]
  BY DEF Lose
<1>3. \A i \in Nat : i \notin 1..Len(<<>>)
  OBVIOUS
<1>4. FramesInv'
  BY <1>1, <1>3, SoundGrows DEF FramesInv
<1> QED BY <1>2, <1>4 DEF StoreIsPublished, TypeOK

\* What a tab that takes a frame shows next was published; if it showed an
\* image before, exactly one position later.
LEMMA FramesTake ==
  ASSUME TypeOK, PastInv, ConnInv, FramesInv, StoreIsPublished, published \subseteq published',
         NEW t \in Tabs, NEW k \in Conns, k = socket[t], wire[k] # <<>>, UNCHANGED chan,
         NEW next, next = ApplyTaskEventFrame(store[t], Head(wire[k])), next # Refused,
         store' = [store EXCEPT ![t] = next], wire' = [wire EXCEPT ![k] = Tail(@)]
  PROVE  /\ FramesInv' /\ StoreIsPublished'
         /\ next \in published
         /\ store[t] # Absent => next.epoch = store[t].epoch /\ next.seq = store[t].seq + 1
<1> DEFINE f == Head(wire[k])
<1>1. wire[k] \in Seq(AnyFrame) /\ store[t] \in Image \cup {Absent}
  BY DEF TypeOK, AnyFrame
<1>2. f = wire[k][1] /\ 1 \in 1..Len(wire[k]) /\ f \in AnyFrame
  BY <1>1
<1>3. Sound(f, published)
  BY <1>2 DEF FramesInv
<1>4. f.type = "snapshot" => store[t] = Absent
  BY <1>2 DEF ConnInv
<1>5. next.epoch = EpochOf(f) /\ next.seq = Position(f)
  BY <1>1, <1>2, ApplyPosition DEF AnyFrame
<1> HIDE DEF f
<1>8. /\ next \in published
      /\ store[t] # Absent => next.epoch = store[t].epoch /\ next.seq = store[t].seq + 1
  <2>1. CASE f.type = "snapshot"
    <3>1. next = f.image
      BY <2>1 DEF ApplyTaskEventFrame, f
    <3> QED BY <1>3, <1>4, <2>1, <3>1 DEF Sound
  <2>2. CASE f.type # "snapshot"
    <3>1. store[t] # Absent /\ f.epoch = store[t].epoch /\ f.seq = store[t].seq + 1
      BY <2>2 DEF ApplyTaskEventFrame, f
    <3>2. PICK p \in published : /\ f.epoch = p.epoch /\ f.seq = p.seq + 1
                                 /\ ApplyTaskEventFrame(p, f) \in published
      BY <1>3, <2>2 DEF Sound
    <3>3. store[t] \in published /\ p.seq \in Nat /\ store[t].seq \in Nat
      BY <3>1, <3>2, ImageParts DEF StoreIsPublished, PastInv
    <3>4. p = store[t]
      <4>1. p.seq + 1 = store[t].seq + 1 /\ p.epoch = store[t].epoch
        BY <3>1, <3>2
      <4> DEFINE x == p.seq
                 y == store[t].seq
      <4>2. x \in Nat /\ y \in Nat /\ x + 1 = y + 1
        BY <3>3, <4>1
      <4> HIDE DEF x, y
      <4>3. x = y
        BY <4>2
      <4> QED BY <3>3, <4>1, <4>3 DEF PastInv, x, y
    <3>5. next \in published
      <4>1. next = ApplyTaskEventFrame(p, f)
        BY <3>4 DEF f
      <4> QED BY <3>2, <4>1
    <3>6. next.epoch = store[t].epoch /\ next.seq = store[t].seq + 1
      BY <1>5, <2>2, <3>1 DEF EpochOf, Position
    <3> QED BY <3>5, <3>6
  <2> QED BY <2>1, <2>2
<1>9. \A i \in Nat : i \in 1..Len(Tail(wire[k])) =>
        i + 1 \in 1..Len(wire[k]) /\ Tail(wire[k])[i] = wire[k][i + 1]
  BY <1>1
<1>10. \A j \in Conns : wire'[j] = IF j = k THEN Tail(wire[k]) ELSE wire[j]
  BY DEF TypeOK
<1>11. FramesInv'
  <2> SUFFICES ASSUME NEW j \in Conns, NEW i \in Nat
               PROVE  /\ i \in 1..Len(chan'[j]) => Sound(chan'[j][i], published')
                      /\ i \in 1..Len(wire'[j]) => Sound(wire'[j][i], published')
    BY DEF FramesInv
  <2>1. i \in 1..Len(chan'[j]) => Sound(chan'[j][i], published')
    BY SoundGrows DEF FramesInv
  <2>2. CASE j # k
    BY <1>10, <2>1, <2>2, SoundGrows DEF FramesInv
  <2>3. CASE j = k
    <3>1. i + 1 \in 1..Len(wire[k]) => Sound(wire[k][i + 1], published')
      BY SoundGrows DEF FramesInv
    <3> DEFINE v == Tail(wire[k])
    <3>2. wire'[j] = v
      BY <1>10, <2>3
    <3>3. i \in 1..Len(v) => i + 1 \in 1..Len(wire[k]) /\ v[i] = wire[k][i + 1]
      BY <1>9
    <3> HIDE DEF v
    <3>4. i \in 1..Len(wire'[j]) => Sound(wire'[j][i], published')
      BY <3>1, <3>2, <3>3
    <3> QED BY <2>1, <3>4
  <2> QED BY <2>2, <2>3
<1>12. StoreIsPublished'
  BY <1>8 DEF StoreIsPublished, TypeOK
<1> QED BY <1>8, <1>11, <1>12

(***************************************************************************)
(* The invariant, and the step of the abstract stream each step takes.     *)
(***************************************************************************)
\* The tab's side of the step: nothing, one Synchronize or Follow, or a Discard.
TabStep(t) ==
  \/ store' = [store EXCEPT ![t] = Absent]
  \/ \E p \in published :
       /\ store' = [store EXCEPT ![t] = p]
       /\ store[t] # Absent => p.epoch = store[t].epoch /\ p.seq = store[t].seq + 1

LEMMA HistoryReceive ==
  ASSUME TypeOK, PastInv, ConnInv, FramesInv, StoreIsPublished, published \subseteq published',
         NEW t \in Tabs, Receive(t)
  PROVE  FramesInv' /\ StoreIsPublished' /\ TabStep(t) /\ model' = model
<1>1. PICK k \in Conns : k = socket[t]
  BY DEF Receive, TypeOK
<1>2. k # NoConn /\ wire[k] # <<>> /\ UNCHANGED <<model, chan>>
  BY <1>1 DEF Receive, publisherVars
<1> DEFINE next == ApplyTaskEventFrame(store[t], Head(wire[k]))
<1>3. CASE next = Refused
  BY <1>1, <1>2, <1>3, FramesLose DEF Receive, TabStep
<1>4. CASE next # Refused
  <2>1. store' = [store EXCEPT ![t] = next] /\ wire' = [wire EXCEPT ![k] = Tail(@)]
    BY <1>1, <1>4 DEF Receive
  <2>2. /\ FramesInv' /\ StoreIsPublished'
        /\ next \in published
        /\ store[t] # Absent => next.epoch = store[t].epoch /\ next.seq = store[t].seq + 1
    BY <1>1, <1>2, <1>4, <2>1, FramesTake
  <2> HIDE DEF next
  <2> QED BY <1>2, <2>1, <2>2 DEF TabStep
<1> QED BY <1>3, <1>4

\* The steps that leave every tab as it is.
LEMMA HistoryQuiet ==
  ASSUME TypeOK, PastInv, FramesInv, StoreIsPublished, published' = published \cup {model'},
         \/ PublishFrame \/ Unlock \/ Close \/ SuperviseSync \/ SuperviseEnd
         \/ \E k \in Conns : Subscribe(k) \/ Forward(k) \/ HandlerExit(k)
         \/ \E h \in Hosts, s \in Slots :
              CollectOK(h, s) \/ CollectFail(h, s) \/ Deliver(h, s) \/ Wake(h, s)
         \/ \E t \in Tabs : Connect(t)
         \/ (\E t \in Tasks : WorldStep(t)) \/ Configure \/ Restart
  PROVE  FramesInv' /\ StoreIsPublished' /\ store' = store
<1>1. store' = store
  BY DEF PublishFrame, Unlock, Close, SuperviseSync, SuperviseEnd, Subscribe, Forward, HandlerExit,
         CollectOK, CollectFail, Deliver, Wake, Connect, WorldStep, Configure, Restart,
         connVars, envVars
<1>2. StoreIsPublished'
  BY <1>1 DEF StoreIsPublished
<1>3. published \subseteq published'
  OBVIOUS
<1>4. CASE \/ Unlock \/ Close \/ SuperviseSync \/ SuperviseEnd
           \/ \E k \in Conns : HandlerExit(k)
           \/ \E h \in Hosts, s \in Slots :
                CollectOK(h, s) \/ CollectFail(h, s) \/ Deliver(h, s) \/ Wake(h, s)
           \/ \E t \in Tabs : Connect(t)
           \/ (\E t \in Tasks : WorldStep(t)) \/ Configure \/ Restart
  <2>1. UNCHANGED wire
    BY <1>4 DEF Unlock, Close, SuperviseSync, SuperviseEnd, HandlerExit,
         CollectOK, CollectFail, Deliver, Wake, Connect, WorldStep, Configure, Restart, connVars
  <2>2. \A k \in Conns : chan'[k] = chan[k] \/ chan'[k] = <<>>
    BY <1>4 DEF Unlock, Close, SuperviseSync, SuperviseEnd, HandlerExit, CollectOK, CollectFail,
         Deliver, Wake, Connect, WorldStep, Configure, Restart, publisherVars, TypeOK
  <2> QED BY <1>1, <1>2, <1>3, <2>1, <2>2, FramesKeep
<1> QED BY <1>1, <1>2, <1>3, <1>4, FramesPublish, FramesSubscribe, FramesForward

\* Only steps that leave every tab as it is change the model.
LEMMA HistoryStep ==
  ASSUME TypeOK, ConnInv, HInv, HNext
  PROVE  /\ HInv' /\ published' = published \cup {model'} /\ Succeeds(model')
         /\ \/ store' = store
            \/ model' = model /\ \E t \in Tabs : TabStep(t)
<1>1. Next /\ published' = published \cup {model'}
  BY DEF HNext
<1>2. model' \in Image /\ Succeeds(model') /\ NoOrphan(model')
  BY <1>1, ModelSucceeds DEF HInv
<1>3. PastInv'
  BY <1>1, <1>2, PastGrows DEF HInv
<1>4. NoOrphan(model)'
  BY <1>2 DEF NoOrphan
<1>5. published \subseteq published'
  BY <1>1
<1>6. CASE \E t \in Tabs : Receive(t)
  BY <1>1, <1>2, <1>3, <1>4, <1>5, <1>6, HistoryReceive DEF HInv
<1>7. CASE \E t \in Tabs : ServerClosed(t) \/ Disconnect(t)
  <2>1. PICK t \in Tabs : ServerClosed(t) \/ Disconnect(t)
    BY <1>7
  <2>2. socket[t] # NoConn /\ Lose(t) /\ UNCHANGED <<model, chan>>
    BY <2>1 DEF ServerClosed, Disconnect, publisherVars
  <2>3. FramesInv' /\ StoreIsPublished' /\ store' = [store EXCEPT ![t] = Absent]
    BY <1>5, <2>2, FramesLose DEF HInv
  <2> QED BY <1>1, <1>2, <1>3, <1>4, <2>2, <2>3 DEF HInv, TabStep
<1>8. CASE ~\E t \in Tabs : Receive(t) \/ ServerClosed(t) \/ Disconnect(t)
  <2>1. FramesInv' /\ StoreIsPublished' /\ store' = store
    BY <1>1, <1>8, HistoryQuiet DEF Next, HInv
  <2> QED BY <1>1, <1>2, <1>3, <1>4, <2>1 DEF HInv
<1> QED BY <1>6, <1>7, <1>8

LEMMA HistoryInit == HInit => HInv
<1> SUFFICES ASSUME HInit PROVE HInv
  OBVIOUS
<1>1. Init /\ published = {model}
  BY DEF HInit
<1>2. model \in Image
  BY <1>1, TypeInit DEF TypeOK
<1>3. NoOrphan(model)
  BY <1>1 DEF Init, NewEventModel, NoOrphan
<1>4. PastInv
  BY <1>1, <1>2, ImageParts DEF PastInv
<1>5. \A i \in Nat : i \notin 1..Len(<<>>)
  OBVIOUS
<1>6. FramesInv /\ StoreIsPublished
  BY <1>1, <1>5 DEF Init, FramesInv, StoreIsPublished
<1> QED BY <1>3, <1>4, <1>6 DEF HInv

\* The history only watches: a behaviour with it is one of Spec.
LEMMA HistoryImplements == HSpec => Spec
<1>1. HInit => Init
  BY DEF HInit
<1>2. [HNext]_hvars => [Next]_vars
  BY DEF HNext, hvars
<1> QED BY <1>1, <1>2, PTL DEF HSpec, Spec

LEMMA HistoryCorrect == HSpec => []HInv
<1>1. TypeOK /\ ConnInv /\ HInv /\ [HNext]_hvars => HInv'
  <2> SUFFICES ASSUME TypeOK, ConnInv, HInv, [HNext]_hvars PROVE HInv'
    OBVIOUS
  <2>1. CASE UNCHANGED hvars
    <3>1. UNCHANGED <<model, chan, wire, store, published>>
      BY <2>1 DEF hvars, vars, publisherVars, connVars
    <3> QED BY <3>1 DEF HInv, PastInv, FramesInv, StoreIsPublished, NoOrphan
  <2> QED BY <2>1, HistoryStep
<1> QED BY <1>1, HistoryInit, HistoryImplements, TypeCorrect, ConnCorrect, PTL DEF HSpec

\* A tab shows only images the server held.
THEOREM StoreIsPublishedCorrect == HSpec => []StoreIsPublished
<1>1. HInv => StoreIsPublished
  BY DEF HInv
<1> QED BY <1>1, HistoryCorrect, PTL

\* The publisher, its handlers and the tabs implement TaskEventStream: a tab
\* gets an image some server published, moves to the next one of that server,
\* or discards what it shows.
THEOREM StreamImplemented == HSpec => StreamSpec
<1>1. HInit => Stream!Init
  BY DEF HInit, Init, NewEventModel, Stream!Init
<1>2. TypeOK /\ ConnInv /\ HInv /\ [HNext]_hvars => [Stream!Next]_(Stream!vars)
  <2> SUFFICES ASSUME TypeOK, ConnInv, HInv, [HNext]_hvars
               PROVE  [Stream!Next]_(Stream!vars)
    OBVIOUS
  <2>1. CASE UNCHANGED hvars
    BY <2>1 DEF hvars, vars, connVars, Stream!vars
  <2>2. CASE HNext
    <3>1. /\ published' = published \cup {model'} /\ Succeeds(model')
          /\ \/ store' = store
             \/ model' = model /\ \E t \in Tabs : TabStep(t)
      BY <2>2, HistoryStep
    <3>2. CASE store' = store /\ model' # model
      <4>1. Stream!Later(model, model')
        BY <3>1, <3>2 DEF Succeeds, Stream!Later
      <4>2. Stream!Publish
        BY <3>1, <3>2, <4>1 DEF Stream!Publish
      <4> QED BY <4>2 DEF Stream!Next
    <3>3. ASSUME model' = model PROVE published' = published
      BY <3>1, <3>3 DEF HInv, PastInv
    <3>4. CASE store' = store /\ model' = model
      BY <3>3, <3>4 DEF Stream!vars
    <3>5. CASE model' = model /\ \E t \in Tabs : TabStep(t)
      <4>1. PICK t \in Tabs : TabStep(t)
        BY <3>5
      <4>2. UNCHANGED <<model, published>>
        BY <3>3, <3>5
      <4>3. CASE store' = [store EXCEPT ![t] = Absent]
        BY <4>2, <4>3 DEF Stream!Discard, Stream!Next
      <4>4. CASE \E p \in published :
                   /\ store' = [store EXCEPT ![t] = p]
                   /\ store[t] # Absent => p.epoch = store[t].epoch /\ p.seq = store[t].seq + 1
        BY <4>2, <4>4 DEF Stream!Synchronize, Stream!Follow, Stream!Next
      <4> QED BY <4>1, <4>3, <4>4 DEF TabStep
    <3> QED BY <3>1, <3>2, <3>4, <3>5
  <2> QED BY <2>1, <2>2
<1> QED BY <1>1, <1>2, HistoryImplements, TypeCorrect, ConnCorrect, HistoryCorrect, PTL
        DEF HSpec, StreamSpec, Stream!Spec

\* No image names a task whose host it does not, on the server or in a tab.
NoOrphanPast == \A p \in published : NoOrphan(p)

LEMMA NoOrphanPastCorrect == HSpec => []NoOrphanPast
<1>1. HInit => NoOrphanPast
  BY HistoryInit DEF HInit, HInv, NoOrphanPast
<1>2. TypeOK /\ ConnInv /\ HInv /\ NoOrphanPast /\ [HNext]_hvars => NoOrphanPast'
  <2> SUFFICES ASSUME TypeOK, ConnInv, HInv, NoOrphanPast, [HNext]_hvars PROVE NoOrphanPast'
    OBVIOUS
  <2>1. CASE UNCHANGED hvars
    BY <2>1 DEF hvars, NoOrphanPast
  <2>2. CASE HNext
    <3>1. published' = published \cup {model'} /\ HInv'
      BY <2>2, HistoryStep
    <3>2. NoOrphan(model')
      BY <3>1 DEF HInv, NoOrphan
    <3> QED BY <3>1, <3>2 DEF NoOrphanPast
  <2> QED BY <2>1, <2>2
<1> QED BY <1>1, <1>2, HistoryImplements, TypeCorrect, ConnCorrect, HistoryCorrect, PTL DEF HSpec

\* syncHosts removes a host's tasks with it, and no tab sees the one without
\* the other.
THEOREM NoOrphanTaskCorrect == HSpec => []NoOrphanTask
<1>1. HInv /\ NoOrphanPast => NoOrphanTask
  BY DEF HInv, PastInv, StoreIsPublished, NoOrphanPast, NoOrphanTask
<1> QED BY <1>1, HistoryCorrect, NoOrphanPastCorrect, PTL

\* A drained subscription shows what the server holds.
THEOREM DrainedIsCurrentCorrect == HSpec => []DrainedIsCurrent
<1>1. TypeOK /\ ConnInv /\ PipeInv /\ HInv => DrainedIsCurrent
  <2> SUFFICES ASSUME TypeOK, ConnInv, PipeInv, HInv, NEW t \in Tabs, NEW k, k = socket[t],
                      k # NoConn, k \in subs, wire[k] = <<>>, chan[k] = <<>>
               PROVE  store[t] = model
    BY DEF DrainedIsCurrent
  <2>1. k \in Conns /\ handler[k] = "streaming"
    BY DEF TypeOK, ConnInv
  <2>2. Joined(t, k)
    BY <2>1 DEF PipeInv, Streamed
  <2>3. store[t] # Absent
    BY <2>1, <2>2 DEF Joined
  <2>4. PICK e \in Nat, b \in Int : /\ Consecutive(store[t], wire[k], chan[k], e, b)
                                    /\ Meets(wire[k], chan[k], e, b, model)
    BY <2>2 DEF Joined
  <2>5. Len(wire[k]) = 0 /\ Len(chan[k]) = 0
    OBVIOUS
  <2>6. store[t].epoch = model.epoch /\ store[t].seq = model.seq
    BY <2>3, <2>4, <2>5 DEF Consecutive, Meets
  <2> QED BY <2>3, <2>6 DEF HInv, PastInv, StoreIsPublished
<1> QED BY <1>1, HistoryImplements, TypeCorrect, ConnCorrect, PipeCorrect, HistoryCorrect, PTL

(***************************************************************************)
(* Wait IDs.  An unsigned one is the epoch and the position of the image   *)
(* it came with, so a new one was never seen before, and a task that shows *)
(* an old one shows what it showed then.                                   *)
(***************************************************************************)
ShowsUnsigned(m, t) == m.tasks[t] # Absent /\ IsUnsignedWaitID(m.tasks[t].waitID)

\* An ID is no newer than any image that shows it.
WaitIDsDated ==
  \A p \in published, t \in Tasks :
    ShowsUnsigned(p, t) => p.tasks[t].waitID[1] = p.epoch /\ p.tasks[t].waitID[2] <= p.seq

LEMMA ViewUnsigned ==
  ASSUME NEW m \in Image, NEW o \in Observations, NEW prev \in Views \cup {Absent},
         IsUnsignedWaitID(View(m, o, prev).waitID)
  PROVE  View(m, o, prev) = prev \/ View(m, o, prev).waitID = <<m.epoch, m.seq + 1>>
<1>1. o.signature \in Signatures \cup {NoSignature}
  BY ObservationsAssumption
<1>2. o.state = "wait"
  BY SentinelsAssumption DEF View, IsUnsignedWaitID
<1>3. o.signature = NoSignature
  BY <1>1, <1>2, SentinelsAssumption DEF View, IsUnsignedWaitID
<1>4. CASE KeepsWaitID(o, prev)
  <2>1. prev \in Views /\ prev.state = "wait" /\ prev.waitingFor = o.waitingFor
    BY <1>4 DEF KeepsWaitID
  <2>2. prev = [state |-> prev.state, waitingFor |-> prev.waitingFor, waitID |-> prev.waitID]
    BY <2>1 DEF Views
  <2> QED BY <1>2, <1>3, <1>4, <2>1, <2>2 DEF View
<1>5. CASE ~KeepsWaitID(o, prev)
  BY <1>2, <1>3, <1>5 DEF View, UnsignedWaitID
<1> QED BY <1>4, <1>5

\* A change of a task shows it no unsigned wait, the one it showed, or one of
\* the change's own position.
LEMMA ChangeUnsigned ==
  ASSUME TypeOK, NEW c \in JobChanges, c.type = "task", c.op # "removed",
         IsUnsignedWaitID(c.content.waitID)
  PROVE  c.content = model.tasks[c.key] \/ c.content.waitID = <<model.epoch, model.seq + 1>>
<1>1. job.op # "sync"
  <2> SUFFICES ASSUME job.op = "sync" PROVE FALSE
    OBVIOUS
  <2>1. c \in SyncChanges(model, job.names)
    BY DEF JobChanges
  <2>2. \/ \E t \in Tasks : c = TaskChange("removed", t, model.tasks[t])
        \/ c.type = "host"
    BY <2>1 DEF SyncChanges, Orphans, HostChange
  <2> QED BY <2>2 DEF TaskChange
<1>2. c \in HostChanges(model, job.host, job.status, job.seen) /\ job.op = "observe"
  BY <1>1 DEF JobChanges
<1>3. job.seen \in [Tasks -> Observations \cup {Absent}]
  BY <1>2 DEF TypeOK, JobType, NoJob
<1>4. PICK t \in TasksOf(job.host), op \in {"added", "changed"} :
        job.seen[t] # Absent /\ c = TaskChange(op, t, View(model, job.seen[t], model.tasks[t]))
  <2>1. \/ c.type = "host"
        \/ \E t \in Tasks : c = TaskChange("removed", t, model.tasks[t])
        \/ \E t \in TasksOf(job.host), op \in {"added", "changed"} :
             job.seen[t] # Absent /\ c = TaskChange(op, t, View(model, job.seen[t], model.tasks[t]))
    BY <1>2 DEF HostChanges, HostChange, TasksOf
  <2> QED BY <2>1 DEF TaskChange
<1>5. c.key = t /\ c.content = View(model, job.seen[t], model.tasks[t])
  BY <1>4 DEF TaskChange
<1>6. /\ model \in Image /\ job.seen[t] \in Observations
      /\ model.tasks[t] \in Views \cup {Absent}
  BY <1>3, <1>4, ImageParts DEF TypeOK, TasksOf
<1> QED BY <1>5, <1>6, ViewUnsigned

\* What a step makes of the unsigned waits: it keeps them, ends them, or begins one.
LEMMA UnsignedStep ==
  ASSUME TypeOK, Next, NEW t \in Tasks, ShowsUnsigned(model', t)
  PROVE  /\ model'.epoch = model.epoch
         /\ \/ model'.tasks[t] = model.tasks[t]
            \/ /\ model'.tasks[t].waitID = <<model'.epoch, model'.seq>>
               /\ model'.seq > model.seq
               /\ \A u \in Tasks \ {t} : model'.tasks[u] = model.tasks[u]
<1> USE DEF publisherVars, connVars, envVars
<1>0. model \in Image
  BY DEF TypeOK
<1>1. CASE model' = model
  BY <1>1
<1>2. CASE PublishFrame
  <2>1. PICK c \in JobChanges : model' = Commit(model, c)
    BY <1>2 DEF PublishFrame
  <2>2. c \in Change
    BY <2>1, JobChangesType
  <2>3. model'.epoch = model.epoch /\ model'.seq = model.seq + 1 /\ model'.seq > model.seq
    BY <1>0, <2>1, <2>2, CommitType, ImageParts
  <2>4. CASE c.type = "host"
    <3>1. model'.tasks = model.tasks
      BY <1>0, <2>1, <2>4, ImageParts DEF Commit
    <3> QED BY <2>3, <3>1
  <2>5. CASE c.type = "task"
    <3>1. model'.tasks = [model.tasks EXCEPT ![c.key] = IF c.op = "removed" THEN Absent ELSE c.content]
      BY <1>0, <2>1, <2>5, ImageParts DEF Commit
    <3>2. \A u \in Tasks : model'.tasks[u] = IF u = c.key THEN (IF c.op = "removed" THEN Absent ELSE c.content)
                                             ELSE model.tasks[u]
      BY <1>0, <3>1, ImageParts
    <3>3. CASE t = c.key
      <4>1. c.op # "removed" /\ model'.tasks[t] = c.content /\ IsUnsignedWaitID(c.content.waitID)
        BY <3>2, <3>3 DEF ShowsUnsigned
      <4>2. c.content = model.tasks[t] \/ c.content.waitID = <<model.epoch, model.seq + 1>>
        BY <2>5, <3>3, <4>1, ChangeUnsigned
      <4> QED BY <2>3, <3>2, <3>3, <4>1, <4>2
    <3> QED BY <2>3, <3>2, <3>3
  <2> QED BY <2>2, <2>4, <2>5 DEF Change
<1>3. CASE \E k \in Conns : Subscribe(k)
  <2> DEFINE s == StartChanges(model, Names)
             n == Cardinality(s.pending) + Cardinality(s.hosts) + Cardinality(s.tasks)
  <2>1. model' = model \/ model' = Started(model, Names, n)
    BY <1>3 DEF Subscribe
  <2> HIDE DEF n
  <2>2. CASE model' = Started(model, Names, n)
    BY <2>2 DEF Started, ShowsUnsigned
  <2> QED BY <1>1, <2>1, <2>2
<1>4. CASE Restart
  BY <1>4 DEF Restart, NewEventModel, ShowsUnsigned
<1>5. CASE Unlock \/ Close \/ SuperviseSync \/ SuperviseEnd
  BY <1>1, <1>5 DEF Unlock, Close, SuperviseSync, SuperviseEnd
<1>6. CASE \E k \in Conns : Forward(k) \/ HandlerExit(k)
  BY <1>1, <1>6 DEF Forward, HandlerExit
<1>7. CASE \E h \in Hosts, r \in Slots :
             CollectOK(h, r) \/ CollectFail(h, r) \/ Deliver(h, r) \/ Wake(h, r)
  BY <1>1, <1>7 DEF CollectOK, CollectFail, Deliver, Wake
<1>8. CASE \E u \in Tabs : Connect(u) \/ Receive(u) \/ ServerClosed(u) \/ Disconnect(u)
  BY <1>1, <1>8 DEF Connect, Receive, ServerClosed, Disconnect
<1>9. CASE (\E u \in Tasks : WorldStep(u)) \/ Configure
  BY <1>1, <1>9 DEF WorldStep, Configure
<1> QED BY <1>2, <1>3, <1>4, <1>5, <1>6, <1>7, <1>8, <1>9 DEF Next

\* Every image is later than the ones before and shows their waits or one that
\* none of them showed.
LEMMA DatedStep ==
  ASSUME TypeOK, PastInv, PastInv', WaitIDsDated, Next, published' = published \cup {model'}
  PROVE  WaitIDsDated'
<1> SUFFICES ASSUME NEW p \in published', NEW t \in Tasks, ShowsUnsigned(p, t)
             PROVE  p.tasks[t].waitID[1] = p.epoch /\ p.tasks[t].waitID[2] <= p.seq
  BY DEF WaitIDsDated
<1>1. CASE p \in published
  BY <1>1 DEF WaitIDsDated
<1>2. CASE p = model' /\ p \notin published
  <2>1. p # model /\ model \in published
    BY <1>2 DEF PastInv
  <2>2. p.epoch = model.epoch /\ p.seq \in Nat /\ model.seq \in Nat /\ model.epoch \in Nat
    BY <1>2, UnsignedStep, ImageParts DEF PastInv, TypeOK
  <2>3. model.seq <= p.seq
    BY <1>2, <2>1, <2>2 DEF PastInv
  <2>4. CASE p.tasks[t] = model.tasks[t]
    <3>1. ShowsUnsigned(model, t) /\ model.tasks[t].waitID[2] \in Nat
      BY <2>4 DEF ShowsUnsigned, IsUnsignedWaitID
    <3>2. model.tasks[t].waitID[1] = model.epoch /\ model.tasks[t].waitID[2] <= model.seq
      BY <2>1, <3>1 DEF WaitIDsDated
    <3> QED BY <2>2, <2>3, <2>4, <3>1, <3>2
  <2>5. CASE p.tasks[t].waitID = <<p.epoch, p.seq>>
    BY <2>2, <2>5
  <2> QED BY <1>2, <2>4, <2>5, UnsignedStep
<1> QED BY <1>1, <1>2

\* Two images show one ID only if the later of them goes on showing it.
SameWait(p, q, t, u) ==
  (ShowsUnsigned(p, t) /\ ShowsUnsigned(q, u) /\ p.tasks[t].waitID = q.tasks[u].waitID)
    => t = u /\ p.tasks[t] = q.tasks[u]

LEMMA OneWaitStep ==
  ASSUME TypeOK, PastInv, PastInv', WaitIDsDated, WaitIDNamesOneWait, Next,
         published' = published \cup {model'}
  PROVE  WaitIDNamesOneWait'
<1>1. CASE model' \in published
  BY <1>1 DEF WaitIDNamesOneWait
<1>2. CASE model' \notin published
  <2> DEFINE new == model'
  <2>1. model \in published /\ new # model
    BY <1>2 DEF PastInv
  <2>2. \A p \in published' : p.epoch \in Nat /\ p.seq \in Nat
    BY ImageParts DEF PastInv
  <2>3. \A p \in published : p.epoch = new.epoch => p.seq < new.seq
    <3> SUFFICES ASSUME NEW p \in published, p.epoch = new.epoch PROVE p.seq < new.seq
      OBVIOUS
    <3>1. p.seq <= new.seq /\ p # new
      BY <1>2, <2>2 DEF PastInv
    <3>2. p.seq # new.seq
      BY <3>1 DEF PastInv
    <3> QED BY <2>2, <3>1, <3>2
  <2>4. WaitIDsDated'
    BY DatedStep
  <2>5. \A p \in published, t, u \in Tasks :
          /\ SameWait(p, new, u, t)
          /\ ShowsUnsigned(p, u) /\ ShowsUnsigned(new, t) /\ p.tasks[u].waitID = new.tasks[t].waitID
               => new.epoch = model.epoch /\ new.tasks[t] = model.tasks[t]
    <3> SUFFICES ASSUME NEW p \in published, NEW t \in Tasks, NEW u \in Tasks,
                        ShowsUnsigned(p, u), ShowsUnsigned(new, t),
                        p.tasks[u].waitID = new.tasks[t].waitID
                 PROVE  /\ u = t /\ p.tasks[u] = new.tasks[t]
                        /\ new.epoch = model.epoch /\ new.tasks[t] = model.tasks[t]
      BY DEF SameWait
    <3>1. new.epoch = model.epoch
      BY UnsignedStep
    <3>2. new.tasks[t] = model.tasks[t]
      <4> SUFFICES ASSUME new.tasks[t].waitID = <<new.epoch, new.seq>> PROVE FALSE
        BY UnsignedStep
      <4>1. p.epoch = new.epoch /\ new.seq <= p.seq
        BY DEF WaitIDsDated
      <4> QED BY <2>2, <2>3, <4>1
    <3>3. ShowsUnsigned(model, t) /\ p.tasks[u].waitID = model.tasks[t].waitID
      BY <3>2 DEF ShowsUnsigned
    <3> QED BY <2>1, <3>1, <3>2, <3>3 DEF WaitIDNamesOneWait, ShowsUnsigned
  <2>6. \A t, u \in Tasks : SameWait(new, new, t, u)
    <3> SUFFICES ASSUME NEW t \in Tasks, NEW u \in Tasks, ShowsUnsigned(new, t), ShowsUnsigned(new, u),
                        new.tasks[t].waitID = new.tasks[u].waitID, t # u
                 PROVE  FALSE
      BY DEF SameWait
    <3>1. PICK v \in {t, u} : new.tasks[v] = model.tasks[v] /\ ShowsUnsigned(model, v)
      <4>1. new.tasks[t] = model.tasks[t] \/ new.tasks[u] = model.tasks[u]
        BY UnsignedStep
      <4> QED BY <4>1 DEF ShowsUnsigned
    <3>2. CASE v = t
      BY <2>1, <2>5, <3>1, <3>2 DEF SameWait
    <3>3. CASE v = u
      BY <2>1, <2>5, <3>1, <3>3 DEF SameWait
    <3> QED BY <3>1, <3>2, <3>3
  <2> SUFFICES ASSUME NEW p \in published', NEW q \in published', NEW t \in Tasks, NEW u \in Tasks,
                      ShowsUnsigned(p, t), ShowsUnsigned(q, u),
                      p.tasks[t].waitID = q.tasks[u].waitID
               PROVE  /\ t = u /\ p.tasks[t] = q.tasks[u]
                      /\ \A r \in published' :
                           (r.epoch = p.epoch /\ p.seq <= r.seq /\ r.seq <= q.seq) => r.tasks[t] = p.tasks[t]
    BY DEF WaitIDNamesOneWait, ShowsUnsigned
  <2>7. p.epoch = q.epoch
    BY <2>4 DEF WaitIDsDated
  <2> HIDE DEF new
  <2>8. CASE p \in published /\ q \in published
    <3>1. /\ t = u /\ p.tasks[t] = q.tasks[u]
          /\ \A r \in published :
               (r.epoch = p.epoch /\ p.seq <= r.seq /\ r.seq <= q.seq) => r.tasks[t] = p.tasks[t]
      BY <2>8 DEF WaitIDNamesOneWait, ShowsUnsigned
    <3>2. ~(new.epoch = p.epoch /\ new.seq <= q.seq)
      BY <2>2, <2>3, <2>7, <2>8 DEF new
    <3> QED BY <3>1, <3>2 DEF new
  <2>9. CASE p \in published /\ q = new
    <3>1. t = u /\ p.tasks[t] = new.tasks[u] /\ new.epoch = model.epoch /\ new.tasks[u] = model.tasks[u]
      BY <2>5, <2>9 DEF SameWait
    <3>2. ShowsUnsigned(model, u) /\ p.tasks[t].waitID = model.tasks[u].waitID
      BY <2>9, <3>1 DEF ShowsUnsigned
    <3>3. \A r \in published : (r.epoch = p.epoch /\ p.seq <= r.seq /\ r.seq <= model.seq) => r.tasks[t] = p.tasks[t]
      BY <2>1, <2>9, <3>2 DEF WaitIDNamesOneWait, ShowsUnsigned
    <3>4. \A r \in published : r.epoch = p.epoch => r.seq <= model.seq
      <4>1. p.epoch = model.epoch /\ model.epoch \in Nat
        BY <2>1, <2>2, <2>7, <2>9, <3>1 DEF new
      <4>2. \A r \in published : r.epoch < model.epoch \/ (r.epoch = model.epoch /\ r.seq <= model.seq)
        BY DEF PastInv
      <4> QED BY <2>2, <4>1, <4>2
    <3> QED BY <2>9, <3>1, <3>3, <3>4 DEF new
  <2>10. CASE p = new /\ q \in published
    <3>1. t = u /\ p.tasks[t] = q.tasks[u]
      BY <2>5, <2>10 DEF SameWait
    <3>2. q.seq < p.seq /\ q.seq \in Nat /\ p.seq \in Nat
      BY <2>2, <2>3, <2>7, <2>10 DEF new
    <3>3. \A r \in published' : ~(p.seq <= r.seq /\ r.seq <= q.seq)
      BY <2>2, <3>2
    <3> QED BY <3>1, <3>3
  <2>11. CASE p = new /\ q = new
    <3>1. t = u
      BY <2>6, <2>11 DEF SameWait
    <3>2. \A r \in published' : (r.epoch = p.epoch /\ p.seq <= r.seq /\ r.seq <= q.seq) => r = p
      <4> SUFFICES ASSUME NEW r \in published', r.epoch = p.epoch, p.seq <= r.seq, r.seq <= p.seq
                   PROVE  r = p
        BY <2>11
      <4>1. r.seq = p.seq
        BY <2>2
      <4> QED BY <4>1 DEF PastInv
    <3> QED BY <2>11, <3>1, <3>2
  <2> QED BY <2>8, <2>9, <2>10, <2>11 DEF new
<1> QED BY <1>1, <1>2

\* An unsigned wait ID names one uninterrupted wait: a notification that was
\* dismissed for one never hides another.
THEOREM WaitIDNamesOneWaitCorrect == HSpec => []WaitIDNamesOneWait
<1>1. HInit => WaitIDsDated /\ WaitIDNamesOneWait
  BY DEF HInit, Init, NewEventModel, WaitIDsDated, WaitIDNamesOneWait, ShowsUnsigned
<1>2. TypeOK /\ HInv /\ HInv' /\ WaitIDsDated /\ WaitIDNamesOneWait /\ [HNext]_hvars
        => (WaitIDsDated /\ WaitIDNamesOneWait)'
  <2> SUFFICES ASSUME TypeOK, HInv, HInv', WaitIDsDated, WaitIDNamesOneWait, [HNext]_hvars
               PROVE  (WaitIDsDated /\ WaitIDNamesOneWait)'
    OBVIOUS
  <2>1. CASE UNCHANGED hvars
    BY <2>1 DEF hvars, WaitIDsDated, WaitIDNamesOneWait
  <2>2. CASE HNext
    BY <2>2, DatedStep, OneWaitStep DEF HNext, HInv
  <2> QED BY <2>1, <2>2
<1> QED BY <1>1, <1>2, HistoryImplements, TypeCorrect, HistoryCorrect, PTL DEF HSpec

=============================================================================

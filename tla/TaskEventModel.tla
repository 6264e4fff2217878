--------------------------- MODULE TaskEventModel ---------------------------
(***************************************************************************)
(* What the task event stream carries, and the two pure halves of it:      *)
(*                                                                         *)
(*  - the server's eventModel (internal/taskevents/model.go): what was     *)
(*    last observed on each host, and the changes an observation or a new  *)
(*    host list makes to it, one numbered frame per change;                *)
(*  - the browser's applyTaskEventFrame (frontend/src/utils/taskEvents.ts):*)
(*    what a tab makes of a frame, or that it refuses it.                  *)
(*                                                                         *)
(* Both hold an image: the stream position and the status of every known   *)
(* host and the view of every known task, Absent for the others.  A wait   *)
(* ID is a signature of the agent's, or for an unsigned wait the pair      *)
(* <<epoch, seq>> of the frame that published it.                          *)
(***************************************************************************)
EXTENDS Naturals

CONSTANTS
  Local,        \* the panemux host, always observed
  Remotes,      \* the names ssh_connections may list
  Tasks,        \* task IDs; an ID names its host
  TaskHost,     \* the host of each task ID
  Observations, \* what a collection can say of a running task
  Signatures,   \* the wait signatures agents record
  NoSignature,  \* a wait whose start the agent did not record
  NoWaitID,     \* the wait ID of a task that does not wait
  NoReason,     \* the waiting_for of a task that does not wait
  Absent,       \* an unknown host, a task that is not listed
  Refused       \* applyTaskEventFrame's { ok: false }

Hosts == {Local} \cup Remotes

Failures == {"connecting", "error"}
Statuses == {"pending", "ok"} \cup Failures
States   == {"wait", "other"}   \* busy, idle, run and unknown are alike here

ASSUME TaskHostAssumption == TaskHost \in [Tasks -> Hosts]

ASSUME ObservationsAssumption ==
  \A o \in Observations :
    /\ o.state \in States
    /\ o.signature \in Signatures \cup {NoSignature}

Reasons == {o.waitingFor : o \in Observations} \cup {NoReason}
WaitIDs == Signatures \cup {NoWaitID} \cup (Nat \X Nat)
Views   == [state : States, waitingFor : Reasons, waitID : WaitIDs]
Image   == [epoch : Nat, seq : Nat,
            hosts : [Hosts -> Statuses \cup {Absent}],
            tasks : [Tasks -> Views \cup {Absent}]]

ASSUME SentinelsAssumption ==
  /\ \A s \in Signatures \cup {NoWaitID} : s \notin Nat \X Nat
  /\ NoSignature \notin Signatures
  /\ NoWaitID \notin Signatures
  /\ Absent \notin Statuses /\ Absent \notin Observations
  /\ Absent \notin Views /\ Absent \notin Image
  /\ Refused \notin Image

\* newEventModel
NewEventModel(epoch) ==
  [epoch |-> epoch, seq |-> 0,
   hosts |-> [h \in Hosts |-> Absent], tasks |-> [t \in Tasks |-> Absent]]

TasksOf(h) == {t \in Tasks : TaskHost[t] = h}

(***************************************************************************)
(* model.go: a change is what one frame publishes.                         *)
(***************************************************************************)
HostChange(op, h, status) == [type |-> "host", op |-> op, key |-> h, content |-> status]
TaskChange(op, t, view)   == [type |-> "task", op |-> op, key |-> t, content |-> view]

Change == [type : {"host"}, op : {"added", "changed", "removed"}, key : Hosts, content : Statuses]
     \cup [type : {"task"}, op : {"added", "changed", "removed"}, key : Tasks, content : Views]

IsUnsignedWaitID(id) == id \in Nat \X Nat

\* The wait ID of an unsigned wait the frame `seq` publishes.
UnsignedWaitID(epoch, seq) == <<epoch, seq>>

\* Mutant: an unsigned wait is told from the previous one by nothing.
KeepsAnyWaitID(o, prev) ==
  prev # Absent /\ prev.state = "wait" /\ IsUnsignedWaitID(prev.waitID)

\* The same unsigned wait goes on.
KeepsWaitID(o, prev) ==
  /\ prev # Absent
  /\ prev.state = "wait"
  /\ prev.waitingFor = o.waitingFor
  /\ IsUnsignedWaitID(prev.waitID)

\* view, with the wait ID a new unsigned wait is given once its frame has a seq.
View(m, o, prev) ==
  IF o.state # "wait"
    THEN [state |-> o.state, waitingFor |-> NoReason, waitID |-> NoWaitID]
    ELSE [state |-> o.state, waitingFor |-> o.waitingFor,
          waitID |-> IF o.signature # NoSignature THEN o.signature
                     ELSE IF KeepsWaitID(o, prev) THEN prev.waitID
                     ELSE UnsignedWaitID(m.epoch, m.seq + 1)]

(***************************************************************************)
(* syncHosts: what is left to publish before the model's hosts are names.  *)
(* A removed host goes after each of its tasks, and every removal before   *)
(* the first addition; the order among names and IDs is left open.         *)
(***************************************************************************)
\* Mutant: a removed host leaves its tasks behind.
OrphansForgotten(m, gone) == {}

Orphans(m, gone) == {t \in Tasks : TaskHost[t] \in gone /\ m.tasks[t] # Absent}

SyncChanges(m, names) ==
  LET gone     == {h \in Hosts \ names : m.hosts[h] # Absent}
      orphans  == Orphans(m, gone)
      emptied  == {h \in gone : \A t \in orphans : TaskHost[t] # h}
      added    == {h \in names : m.hosts[h] = Absent}
  IN  IF gone # {}
        THEN {TaskChange("removed", t, m.tasks[t]) : t \in orphans}
             \cup {HostChange("removed", h, m.hosts[h]) : h \in emptied}
        ELSE {HostChange("added", h, "pending") : h \in added}

(***************************************************************************)
(* applyHost: what is left to publish of one observation of host h.  The   *)
(* host's status comes first; only an ok host's tasks are compared, those  *)
(* no longer running first.                                                *)
(***************************************************************************)
HostChanges(m, h, status, seen) ==
  LET ended == {t \in TasksOf(h) : m.tasks[t] # Absent /\ seen[t] = Absent}
      moved == {t \in TasksOf(h) : /\ seen[t] # Absent
                                   /\ View(m, seen[t], m.tasks[t]) # m.tasks[t]}
  IN  IF m.hosts[h] = Absent THEN {}
      ELSE IF m.hosts[h] # status THEN {HostChange("changed", h, status)}
      ELSE IF status # "ok" THEN {}
      ELSE IF ended # {} THEN {TaskChange("removed", t, m.tasks[t]) : t \in ended}
      ELSE {TaskChange(IF m.tasks[t] = Absent THEN "added" ELSE "changed",
                       t, View(m, seen[t], m.tasks[t])) : t \in moved}

\* The change to the model that goes with publishing c: hostFrame, taskFrame.
Commit(m, c) ==
  LET content == IF c.op = "removed" THEN Absent ELSE c.content
  IN  IF c.type = "host"
        THEN [m EXCEPT !.seq = @ + 1, !.hosts[c.key] = content]
        ELSE [m EXCEPT !.seq = @ + 1, !.tasks[c.key] = content]

\* The frames of the stream.
ChangeFrame ==
  [type : {"host"}, op : {"added", "changed", "removed"}, key : Hosts, content : Statuses,
   epoch : Nat, seq : Nat] \cup
  [type : {"task"}, op : {"added", "changed", "removed"}, key : Tasks, content : Views,
   epoch : Nat, seq : Nat]
SnapshotFrame == [type : {"snapshot"}, image : Image]

Frame(m, c) ==
  [type |-> c.type, op |-> c.op, key |-> c.key, content |-> c.content,
   epoch |-> m.epoch, seq |-> m.seq + 1]

Snapshot(m) == [type |-> "snapshot", image |-> m]

(***************************************************************************)
(* markPending and syncHosts of startLocked, which no subscriber hears.    *)
(***************************************************************************)
StartChanges(m, names) ==
  LET known   == {h \in Hosts : m.hosts[h] # Absent}
      settled == {h \in known : m.hosts[h] # "pending"}
      gone    == known \ names
  IN  [pending |-> settled, hosts |-> gone \cup (names \ known), tasks |-> Orphans(m, gone)]

Started(m, names, n) ==
  [epoch |-> m.epoch, seq |-> m.seq + n,
   hosts |-> [h \in Hosts |-> IF h \in names THEN "pending" ELSE Absent],
   tasks |-> [t \in Tasks |-> IF TaskHost[t] \in names THEN m.tasks[t] ELSE Absent]]

(***************************************************************************)
(* taskEvents.ts: applyTaskEventFrame on the tab's store (Absent before    *)
(* the connection's snapshot).                                             *)
(***************************************************************************)
\* Mutant: a removal is stored like any other view.
AppliedAlways(f) == f.content

Applied(f) == IF f.op = "removed" THEN Absent ELSE f.content

ApplyTaskEventFrame(store, f) ==
  IF f.type = "snapshot" THEN f.image
  ELSE IF store = Absent THEN Refused
  ELSE IF f.epoch # store.epoch \/ f.seq # store.seq + 1 THEN Refused
  ELSE IF f.type = "task"
    THEN [store EXCEPT !.seq = f.seq,
            !.tasks[f.key] = Applied(f)]
    ELSE [store EXCEPT !.seq = f.seq,
            !.hosts[f.key] = Applied(f)]
=============================================================================

------------------------------ MODULE TaskRecords ------------------------------
(***************************************************************************)
(* What a person records about tasks, done and labels, and the file it is  *)
(* kept in (internal/tasks/records.go, and its users in                    *)
(* internal/api/task_records.go, task_launch.go and tasks.go).             *)
(*                                                                         *)
(* A store serves from memory while the file is what it last read or       *)
(* wrote.  A hand may edit, spoil or remove the file at any time.          *)
(***************************************************************************)
EXTENDS Naturals, FiniteSets

CONSTANTS
  Tasks,       \* tasks with a session ID
  Labels,
  Writers,     \* requests that record something, each made once
  MaxHands,    \* bound: edits by hand
  NoWriter

ASSUME RecordsAssumption == Tasks # {} /\ NoWriter \notin Writers /\ MaxHands \in Nat

VARIABLES
  disk,      \* its stamp (0: there is none), whether it can be read, and what it holds
  memory,    \* what the store has, and the file's stamp it belongs to
  writer,    \* each request
  holder,    \* who holds the store's lock
  meant,     \* what the changes so far leave recorded
  mixed,     \* two changes overlapped in a way the store does not keep apart
  changes,   \* of the file, which date it
  hands

recordVars == <<disk, memory, writer, holder, meant, mixed, changes, hands>>

Blank == [done |-> FALSE, labels |-> {}]
Nothing == [tasks |-> [t \in Tasks |-> Blank], foreign |-> FALSE]

\* The records of an agent this build does not know are one value: foreign.
Contents == [tasks : [Tasks -> [done : BOOLEAN, labels : SUBSET Labels]], foreign : BOOLEAN]

Request == [at |-> "new", op |-> "put", task |-> CHOOSE t \in Tasks : TRUE, rec |-> Blank, stamp |-> 0]

Stages == {"new", "look", "lookRead", "lookDone", "save", "saveRead", "write", "stamp", "done"}

Requested ==
  [at : Stages, op : {"put", "add"}, task : Tasks, rec : [done : BOOLEAN, labels : SUBSET Labels], stamp : Nat]

Reaches(w, at) == writer' = [writer EXCEPT ![w].at = at]

\* A request that failed or was answered lets go of the lock.
Unlocks(w) == Reaches(w, "done") /\ holder' = NoWriter

-----------------------------------------------------------------------------
(* Reading                                                                 *)

\* loadLocked, first half: the file's stamp.  What it was read as is used
\* while the stamp is the same.
Stat(w) ==
  /\ writer[w].at \in {"look", "save"} /\ holder = NoWriter
  /\ \/ /\ holder' = w /\ UNCHANGED memory
        /\ writer' = [writer EXCEPT ![w].stamp = disk.stamp,
             ![w].at = LET had == memory.had /\ memory.stamp = disk.stamp
                       IN CASE ~had -> IF @ = "look" THEN "lookRead" ELSE "saveRead"
                            [] OTHER -> IF @ = "look" THEN "lookDone" ELSE "write"]
     \/ memory' = [memory EXCEPT !.had = FALSE] /\ Reaches(w, "done") /\ UNCHANGED holder
  /\ UNCHANGED <<disk, meant, mixed, changes, hands>>

\* Mutant: a file that cannot be read is taken for an empty one.
ReadableAlways == TRUE

Readable == disk.ok

\* And the file itself, when it changed.
Read(w) ==
  /\ writer[w].at \in {"lookRead", "saveRead"}
  /\ IF Readable
     THEN /\ memory' = [had |-> TRUE, stamp |-> writer[w].stamp, held |-> IF disk.ok THEN disk.held ELSE Nothing]
          /\ Reaches(w, IF writer[w].at = "lookRead" THEN "lookDone" ELSE "write") /\ UNCHANGED holder
     ELSE memory' = [memory EXCEPT !.had = FALSE] /\ Unlocks(w)
  /\ UNCHANGED <<disk, meant, mixed, changes, hands>>

-----------------------------------------------------------------------------
(* Writing                                                                 *)

\* PutTaskRecord and a launch with an ID replace a record; addTaskLabels reads
\* what there is first, one at a time since PendingLabels' lock is held.
PutTaskRecord(w, t, rec) ==
  /\ writer[w].at = "new"
  /\ writer' = [writer EXCEPT ![w] = [Request EXCEPT !.at = "save", !.task = t, !.rec = rec]]
  /\ UNCHANGED <<disk, memory, holder, meant, mixed, changes, hands>>
AddTaskLabels(w, t, l) ==
  /\ writer[w].at = "new" /\ \A v \in Writers : writer[v].op = "add" => writer[v].at = "done"
  /\ writer' = [writer EXCEPT ![w] = [Request EXCEPT !.at = "look", !.op = "add", !.task = t, !.rec.labels = {l}]]
  /\ UNCHANGED <<disk, memory, holder, meant, mixed, changes, hands>>

\* Records answered; the lock is let go before PutTaskRecord takes it.
Merge(w) ==
  LET had == memory.held.tasks[writer[w].task] IN
  /\ writer[w].at = "lookDone" /\ holder' = NoWriter
  /\ writer' = [writer EXCEPT ![w].at = "save", ![w].rec = [done |-> had.done, labels |-> had.labels \cup @.labels]]
  /\ UNCHANGED <<disk, memory, meant, mixed, changes, hands>>

\* addTaskLabels means to keep the rest of the record, as it is by then.
Meant(w) ==
  LET was == meant.tasks[writer[w].task]
      new == writer[w].rec
  IN [meant EXCEPT !.tasks[writer[w].task] =
        IF writer[w].op = "put" THEN new ELSE [done |-> was.done, labels |-> was.labels \cup new.labels]]

\* A change that falls between what addTaskLabels read and what it saves.
Between(t) == \E w \in Writers : writer[w].op = "add" /\ writer[w].task = t /\ writer[w].at \in {"lookDone", "save", "saveRead"}

\* Mutant: what this build does not know is not written back.
WithRecordKnown(w) == [tasks |-> [memory.held.tasks EXCEPT ![writer[w].task] = writer[w].rec], foreign |-> FALSE]

WithRecord(w) == [memory.held EXCEPT !.tasks[writer[w].task] = writer[w].rec]

\* writeLocked: the file is replaced, or stays as it is.
Write(w) ==
  /\ writer[w].at = "write"
  /\ \/ /\ changes' = changes + 1 /\ disk' = [stamp |-> changes', ok |-> TRUE, held |-> WithRecord(w)]
        /\ meant' = Meant(w) /\ mixed' = (mixed \/ Between(writer[w].task))
        /\ Reaches(w, "stamp") /\ UNCHANGED holder
     \/ Unlocks(w) /\ UNCHANGED <<disk, meant, mixed, changes>>
  /\ UNCHANGED <<memory, hands>>

Stamped(w) ==
  /\ writer[w].at = "stamp" /\ Unlocks(w)
  /\ memory' = [had |-> TRUE, stamp |-> disk.stamp, held |-> WithRecord(w)]
  /\ UNCHANGED <<disk, meant, mixed, changes, hands>>

-----------------------------------------------------------------------------
(* The file is edited, spoiled or removed by hand.                         *)

Edited ==
  {[stamp |-> changes + 1, ok |-> TRUE, held |-> [disk.held EXCEPT !.tasks[t].done = ~@]] : t \in Tasks}
    \cup {[stamp |-> changes + 1, ok |-> TRUE, held |-> [disk.held EXCEPT !.foreign = ~@]],
          [stamp |-> changes + 1, ok |-> FALSE, held |-> disk.held],
          [stamp |-> 0, ok |-> TRUE, held |-> Nothing]}

\* The file appears after a request found none and before it reads it: what is
\* read goes by the stamp of no file.
Appeared == \E w \in Writers : writer[w].at \in {"lookRead", "saveRead"} /\ writer[w].stamp = 0

Hand ==
  /\ hands < MaxHands /\ hands' = hands + 1 /\ changes' = changes + 1 /\ disk' \in Edited
  /\ meant' = disk'.held
  /\ mixed' = (mixed \/ Appeared \/ \E w \in Writers : writer[w].at \in {"write", "stamp"} \/ Between(writer[w].task))
  /\ UNCHANGED <<memory, writer, holder>>

RecordsInit ==
  /\ disk \in {[stamp |-> 0, ok |-> TRUE, held |-> Nothing]}
              \cup {[stamp |-> 1, ok |-> TRUE, held |-> [Nothing EXCEPT !.foreign = had]] : had \in BOOLEAN}
  /\ memory = [had |-> FALSE, stamp |-> 0, held |-> Nothing] /\ meant = disk.held
  /\ writer = [w \in Writers |-> Request] /\ holder = NoWriter /\ mixed = FALSE /\ hands = 0 /\ changes = 1

RecordsNext ==
  \/ \E w \in Writers :
       \/ Stat(w) \/ Read(w) \/ Merge(w) \/ Write(w) \/ Stamped(w)
       \/ \E t \in Tasks :
            \/ \E done \in BOOLEAN, ls \in SUBSET Labels : PutTaskRecord(w, t, [done |-> done, labels |-> ls])
            \/ \E l \in Labels : AddTaskLabels(w, t, l)
  \/ Hand

RecordsSpec == RecordsInit /\ [][RecordsNext]_recordVars

RecordsTypeOK ==
  /\ disk.held \in Contents /\ memory.held \in Contents /\ meant \in Contents /\ disk.ok \in BOOLEAN
  /\ writer \in [Writers -> Requested] /\ changes \in Nat
  /\ holder \in Writers \cup {NoWriter} /\ mixed \in BOOLEAN /\ hands \in 0..MaxHands
  /\ disk.stamp \in 0..changes /\ memory.stamp \in 0..changes

-----------------------------------------------------------------------------
(* Properties                                                              *)

\* The file holds what was recorded and edited: no change undoes another, a
\* file that cannot be read is left as it is, and so is what this build does
\* not know.  Changes that fall within a save, or between addTaskLabels' two
\* steps, are the exception, and so is a file that appears between the look at
\* its stamp and the read: removed again, it is still served from memory.
ChangesKept == ~mixed => disk.held = meant

\* What is served from memory is what the file holds.
ServedIsCurrent == (memory.had /\ memory.stamp = disk.stamp /\ ~mixed) => disk.ok /\ memory.held = disk.held

RecordsHold == ChangesKept /\ ServedIsCurrent
=============================================================================

---------------------------- MODULE StoresProofs ----------------------------
(***************************************************************************)
(* What the files kept about tasks and the dashboard guarantee for any     *)
(* tasks, requests, terminals and collections; and the types of all the    *)
(* parts that keep something.                                              *)
(***************************************************************************)
EXTENDS Stores, PanesProofs, LayoutProofs, FiniteSetTheorems, TLAPS

-----------------------------------------------------------------------------
(***************************************************************************)
(* The records.  A request works on the file as it was when it took the    *)
(* lock: what is in memory by then is the file (`Based'), and labels are   *)
(* added to the record as it is (`Added').                                 *)
(***************************************************************************)
Reading(w) == writer[w].at \in {"lookRead", "saveRead"}
Holding(w) == writer[w].at \in {"lookRead", "saveRead", "lookDone", "write", "stamp"}

OneHolds == \A w \in Writers : Holding(w) => holder = w

OneAdds ==
  \A v, w \in Writers :
    writer[v].op = "add" /\ writer[w].op = "add" /\ writer[v].at # "done" /\ writer[w].at # "done" => v = w

AbsentIsEmpty == disk.stamp = 0 => disk.ok /\ disk.held = Nothing

StampsInOrder == \A w \in Writers : writer[w].stamp =< changes

\* The stamp of no file stands for no records.
AbsentServed == memory.had /\ memory.stamp = 0 => memory.held = Nothing
StaysAbsent  == \A w \in Writers : Reading(w) /\ writer[w].stamp = 0 => disk.stamp = 0

Based ==
  \A w \in Writers :
    /\ writer[w].at = "write" \/ (writer[w].at = "lookDone" /\ writer[w].op = "add") => memory.held = disk.held
    /\ writer[w].at = "stamp" => disk.held = WithRecord(w) /\ disk.ok /\ disk.stamp # 0

Added ==
  \A w \in Writers :
    writer[w].op = "add" /\ writer[w].at \in {"save", "saveRead", "write"} =>
      LET is == meant.tasks[writer[w].task]
      IN  writer[w].rec.done = is.done /\ is.labels \subseteq writer[w].rec.labels

DiskType   == disk \in [stamp : Nat, ok : BOOLEAN, held : Contents]
MemoryType == memory \in [had : BOOLEAN, stamp : Nat, held : Contents]

RecordsShape == RecordsTypeOK /\ DiskType /\ MemoryType

Unmixed == AbsentServed /\ StaysAbsent /\ Based /\ Added /\ ChangesKept /\ ServedIsCurrent

RecordsInv == RecordsShape /\ OneHolds /\ OneAdds /\ AbsentIsEmpty /\ StampsInOrder /\ (~mixed => Unmixed)

LEMMA NothingType == Nothing \in Contents /\ [Nothing EXCEPT !.foreign = TRUE] \in Contents
                     /\ [Nothing EXCEPT !.foreign = FALSE] = Nothing
<1>1. [t \in Tasks |-> Blank] \in [Tasks -> [done : BOOLEAN, labels : SUBSET Labels]]
  BY DEF Blank
<1>2. \A b \in BOOLEAN : [Nothing EXCEPT !.foreign = b] = [tasks |-> [t \in Tasks |-> Blank], foreign |-> b]
  BY DEF Nothing
<1>3. Nothing = [tasks |-> [t \in Tasks |-> Blank], foreign |-> FALSE]
  BY DEF Nothing
<1> HIDE DEF Nothing
<1> QED BY <1>1, <1>2, <1>3 DEF Contents

LEMMA RequestTyped == Request \in Requested
<1>1. (CHOOSE t \in Tasks : TRUE) \in Tasks
  BY RecordsAssumption
<1> QED BY <1>1 DEF Request, Requested, Blank, Stages

LEMMA RecordsInvInit == RecordsInit => RecordsInv
<1> SUFFICES ASSUME RecordsInit PROVE RecordsInv
  OBVIOUS
<1>1. DiskType /\ AbsentIsEmpty /\ disk.ok /\ disk.stamp \in 0..1
  <2>1. PICK had \in BOOLEAN : \/ disk = [stamp |-> 0, ok |-> TRUE, held |-> Nothing]
                              \/ disk = [stamp |-> 1, ok |-> TRUE, held |-> [Nothing EXCEPT !.foreign = had]]
    BY DEF RecordsInit
  <2>2. [Nothing EXCEPT !.foreign = had] \in Contents
    BY NothingType
  <2>3. Nothing \in Contents
    BY NothingType
  <2>4. DiskType
    <3>1. \A c \in Contents : /\ [stamp |-> 0, ok |-> TRUE, held |-> c] \in [stamp : Nat, ok : BOOLEAN, held : Contents]
                              /\ [stamp |-> 1, ok |-> TRUE, held |-> c] \in [stamp : Nat, ok : BOOLEAN, held : Contents]
      OBVIOUS
    <3> QED BY <3>1, <2>1, <2>2, <2>3, Zenon DEF DiskType
  <2>5. disk.ok /\ disk.stamp \in 0..1 /\ (disk.stamp = 0 => disk.held = Nothing)
    BY <2>1
  <2> QED BY <2>4, <2>5 DEF AbsentIsEmpty
<1>2. MemoryType /\ ~memory.had /\ memory.stamp = 0 /\ meant = disk.held /\ changes = 1 /\ hands = 0 /\ ~mixed
  BY NothingType DEF RecordsInit, MemoryType
<1>3. writer \in [Writers -> Requested] /\ \A w \in Writers : writer[w].at = "new" /\ writer[w].stamp = 0 /\ writer[w].op = "put"
  BY RequestTyped DEF RecordsInit, Request
<1>4. RecordsShape
  <2>1. disk.held \in Contents /\ memory.held \in Contents /\ disk.ok \in BOOLEAN
    BY <1>1, <1>2 DEF DiskType, MemoryType
  <2>2. disk.stamp \in 0..changes /\ memory.stamp \in 0..changes /\ hands \in 0..MaxHands
    BY <1>1, <1>2, RecordsAssumption
  <2>3. holder \in Writers \cup {NoWriter} /\ mixed \in BOOLEAN
    BY DEF RecordsInit
  <2> QED BY <2>1, <2>2, <2>3, <1>1, <1>2, <1>3 DEF RecordsShape, RecordsTypeOK
<1>5. OneHolds /\ OneAdds /\ StampsInOrder
  BY <1>2, <1>3 DEF OneHolds, OneAdds, StampsInOrder, Holding
<1>6. Unmixed
  BY <1>1, <1>2, <1>3 DEF Unmixed, AbsentServed, StaysAbsent, Reading, Based, Added, ChangesKept, ServedIsCurrent
<1> QED BY <1>1, <1>4, <1>5, <1>6 DEF RecordsInv

\* The request that moves, and all the others.
LEMMA OneMoves ==
  ASSUME RecordsTypeOK, NEW w \in Writers, NEW r \in Requested, writer' = [writer EXCEPT ![w] = r]
  PROVE  writer' \in [Writers -> Requested] /\ writer'[w] = r /\ \A v \in Writers \ {w} : writer'[v] = writer[v]
BY DEF RecordsTypeOK

LEMMA StageMoves ==
  ASSUME RecordsTypeOK, NEW w \in Writers, NEW at \in Stages, Reaches(w, at)
  PROVE  /\ writer' \in [Writers -> Requested]
         /\ writer'[w] = [writer[w] EXCEPT !.at = at]
         /\ \A v \in Writers \ {w} : writer'[v] = writer[v]
<1>1. [writer[w] EXCEPT !.at = at] \in Requested
  BY DEF RecordsTypeOK, Requested
<1>2. writer' = [writer EXCEPT ![w] = [writer[w] EXCEPT !.at = at]]
  BY DEF Reaches
<1> QED BY <1>1, <1>2, OneMoves

LEMMA WithRecordType ==
  ASSUME RecordsShape, NEW w \in Writers
  PROVE  WithRecord(w) \in Contents /\ writer[w] \in Requested
BY DEF RecordsShape, RecordsTypeOK, MemoryType, WithRecord, Contents, Requested

LEMMA StatKeeps == ASSUME RecordsInv, NEW w \in Writers, Stat(w) PROVE RecordsInv'
<1> DEFINE had == memory.had /\ memory.stamp = disk.stamp
           at == CASE ~had -> (IF writer[w].at = "look" THEN "lookRead" ELSE "saveRead")
                   [] OTHER -> (IF writer[w].at = "look" THEN "lookDone" ELSE "write")
<1>0. RecordsTypeOK /\ DiskType /\ MemoryType /\ writer[w] \in Requested /\ writer[w].at \in {"look", "save"} /\ holder = NoWriter
  BY WithRecordType DEF RecordsInv, RecordsShape, Stat
<1>f. UNCHANGED <<disk, meant, mixed, changes, hands>>
  BY DEF Stat
<1>n. \A v \in Writers : ~Holding(v)
  BY <1>0, RecordsAssumption DEF RecordsInv, OneHolds
<1>1. ASSUME holder' = w, UNCHANGED memory, writer' = [writer EXCEPT ![w].stamp = disk.stamp, ![w].at = at]
      PROVE  RecordsInv'
  <2>1. at \in {"lookRead", "saveRead", "lookDone", "write"} /\ (at \in {"lookDone", "write"} => had)
        /\ (at \in {"saveRead", "write"} => writer[w].at = "save")
    BY <1>0
  <2> HIDE DEF at
  <2>2. [writer[w] EXCEPT !.stamp = disk.stamp, !.at = at] \in Requested
    BY <1>0, <2>1 DEF Requested, DiskType, Stages
  <2>3. writer' = [writer EXCEPT ![w] = [writer[w] EXCEPT !.stamp = disk.stamp, !.at = at]]
    BY <1>1
  <2>4. /\ writer' \in [Writers -> Requested] /\ writer'[w] = [writer[w] EXCEPT !.stamp = disk.stamp, !.at = at]
        /\ \A v \in Writers \ {w} : writer'[v] = writer[v]
    BY <2>2, <2>3, <1>0, OneMoves
  <2>5. /\ writer'[w].at = at /\ writer'[w].stamp = disk.stamp /\ writer'[w].op = writer[w].op
        /\ writer'[w].task = writer[w].task /\ writer'[w].rec = writer[w].rec
    BY <2>4, <2>2 DEF Requested
  <2>6. RecordsShape'
    BY <2>4, <1>1, <1>f, <1>0 DEF RecordsShape, RecordsTypeOK, DiskType, MemoryType
  <2>7. OneHolds' /\ OneAdds'
    BY <2>4, <2>5, <2>1, <1>1, <1>n, <1>0 DEF RecordsInv, OneHolds, OneAdds, Holding
  <2>8. AbsentIsEmpty' /\ StampsInOrder'
    <3>1. AbsentIsEmpty'
      BY <1>f DEF RecordsInv, AbsentIsEmpty
    <3>2. disk.stamp =< changes
      BY <1>0 DEF RecordsTypeOK
    <3> QED BY <3>1, <3>2, <2>4, <2>5, <1>f DEF RecordsInv, StampsInOrder
  <2>9. ASSUME ~mixed' PROVE Unmixed'
    <3>1. Unmixed
      BY <2>9, <1>f DEF RecordsInv
    <3>2. AbsentServed' /\ ChangesKept' /\ ServedIsCurrent'
      BY <3>1, <1>1, <1>f DEF Unmixed, AbsentServed, ChangesKept, ServedIsCurrent
    <3>3. StaysAbsent'
      BY <3>1, <2>4, <2>5, <1>f DEF Unmixed, StaysAbsent, Reading
    <3>4. Based'
      <4>1. had => memory.held = disk.held
        BY <3>1, <2>9, <1>f DEF Unmixed, ServedIsCurrent
      <4>2. \A v \in Writers \ {w} : writer'[v].at \notin {"lookDone", "write", "stamp"}
        BY <1>n, <2>4 DEF Holding
      <4> QED BY <4>1, <4>2, <2>1, <2>5, <1>1, <1>f DEF Based
    <3>5. Added'
      <4> SUFFICES ASSUME NEW v \in Writers, writer'[v].op = "add", writer'[v].at \in {"save", "saveRead", "write"}
                   PROVE  /\ writer'[v].rec.done = meant.tasks[writer'[v].task].done
                          /\ meant.tasks[writer'[v].task].labels \subseteq writer'[v].rec.labels
        BY <1>f DEF Added
      <4>1. /\ writer[v].op = "add" /\ writer[v].at \in {"save", "saveRead", "write"}
            /\ writer'[v].task = writer[v].task /\ writer'[v].rec = writer[v].rec
        <5>1. CASE v = w
          BY <5>1, <2>5, <2>1
        <5>2. CASE v # w
          BY <5>2, <2>4
        <5> QED BY <5>1, <5>2
      <4> QED BY <4>1, <3>1 DEF Unmixed, Added
    <3> QED BY <3>2, <3>3, <3>4, <3>5 DEF Unmixed
  <2> QED BY <2>6, <2>7, <2>8, <2>9 DEF RecordsInv
<1>2. ASSUME memory' = [memory EXCEPT !.had = FALSE], Reaches(w, "done"), UNCHANGED holder PROVE RecordsInv'
  <2>4. /\ writer' \in [Writers -> Requested] /\ writer'[w] = [writer[w] EXCEPT !.at = "done"]
        /\ \A v \in Writers \ {w} : writer'[v] = writer[v]
    BY <1>2, <1>0, StageMoves DEF Stages
  <2>5. writer'[w].at = "done" /\ writer'[w].stamp = writer[w].stamp
    BY <2>4, <1>0 DEF Requested
  <2>6. MemoryType' /\ ~memory'.had /\ memory'.held = memory.held /\ memory'.stamp = memory.stamp
    BY <1>2, <1>0 DEF MemoryType
  <2>7. RecordsShape'
    BY <2>4, <2>6, <1>2, <1>f, <1>0 DEF RecordsShape, RecordsTypeOK, DiskType, MemoryType
  <2>8. OneHolds' /\ OneAdds' /\ AbsentIsEmpty' /\ StampsInOrder'
    <3>1. OneHolds'
      BY <2>4, <2>5, <1>n DEF OneHolds, Holding
    <3>2. OneAdds'
      <4>1. \A v \in Writers : writer'[v].at # "done" => writer'[v] = writer[v]
        BY <2>4, <2>5
      <4> QED BY <4>1 DEF RecordsInv, OneAdds
    <3>3. AbsentIsEmpty'
      BY <1>f DEF RecordsInv, AbsentIsEmpty
    <3>4. StampsInOrder'
      BY <2>4, <2>5, <1>f DEF RecordsInv, StampsInOrder
    <3> QED BY <3>1, <3>2, <3>3, <3>4
  <2>9. ASSUME ~mixed' PROVE Unmixed'
    <3>1. Unmixed
      BY <2>9, <1>f DEF RecordsInv
    <3>2. AbsentServed' /\ ChangesKept' /\ ServedIsCurrent'
      BY <3>1, <2>6, <1>f DEF Unmixed, AbsentServed, ChangesKept, ServedIsCurrent
    <3>3. StaysAbsent'
      BY <3>1, <2>4, <2>5, <1>f DEF Unmixed, StaysAbsent, Reading
    <3>4. Based'
      BY <2>4, <2>5, <1>n DEF Based, Holding
    <3>5. Added'
      BY <3>1, <2>4, <2>5, <1>f DEF Unmixed, Added
    <3> QED BY <3>2, <3>3, <3>4, <3>5 DEF Unmixed
  <2> QED BY <2>7, <2>8, <2>9 DEF RecordsInv
<1> QED BY <1>1, <1>2 DEF Stat

\* A request that moves on without the file, the memory or what was meant.
LEMMA OnlyMoves ==
  ASSUME RecordsInv, NEW w \in Writers, NEW r \in Requested, writer' = [writer EXCEPT ![w] = r],
         r.at \notin {"lookRead", "lookDone", "saveRead", "write", "stamp"}, ~Holding(w) \/ holder' = NoWriter,
         holder' = holder \/ (holder = w /\ holder' = NoWriter), ~Holding(w) => holder' = holder,
         r.stamp =< changes,
         r.op = "add" /\ r.at # "done" => \A v \in Writers \ {w} : writer[v].op = "add" => writer[v].at = "done",
         ~mixed /\ r.op = "add" /\ r.at = "save" =>
           r.rec.done = meant.tasks[r.task].done /\ meant.tasks[r.task].labels \subseteq r.rec.labels,
         UNCHANGED <<disk, memory, meant, mixed, changes, hands>>
  PROVE  RecordsInv'
<1>0. RecordsTypeOK /\ DiskType /\ MemoryType /\ writer[w] \in Requested
  BY WithRecordType DEF RecordsInv, RecordsShape
<1>1. /\ writer' \in [Writers -> Requested] /\ writer'[w] = r /\ \A v \in Writers \ {w} : writer'[v] = writer[v]
  BY <1>0, OneMoves
<1>2. RecordsShape'
  BY <1>1, <1>0, RecordsAssumption DEF RecordsShape, RecordsTypeOK, DiskType, MemoryType
<1>3. OneHolds'
  BY <1>1 DEF RecordsInv, OneHolds, Holding
<1>4. OneAdds'
  BY <1>1 DEF RecordsInv, OneAdds
<1>5. AbsentIsEmpty' /\ StampsInOrder'
  BY <1>1 DEF RecordsInv, AbsentIsEmpty, StampsInOrder
<1>6. ASSUME ~mixed' PROVE Unmixed'
  <2>1. Unmixed
    BY <1>6 DEF RecordsInv
  <2>2. AbsentServed' /\ ChangesKept' /\ ServedIsCurrent'
    BY <2>1 DEF Unmixed, AbsentServed, ChangesKept, ServedIsCurrent
  <2>3. StaysAbsent' /\ Based'
    BY <2>1, <1>1 DEF Unmixed, StaysAbsent, Reading, Based, WithRecord
  <2>4. Added'
    BY <2>1, <1>6, <1>1 DEF Unmixed, Added
  <2> QED BY <2>2, <2>3, <2>4 DEF Unmixed
<1> QED BY <1>2, <1>3, <1>4, <1>5, <1>6 DEF RecordsInv

LEMMA PutTaskRecordKeeps ==
  ASSUME RecordsInv, NEW w \in Writers, NEW t \in Tasks, NEW rec \in [done : BOOLEAN, labels : SUBSET Labels],
         PutTaskRecord(w, t, rec)
  PROVE  RecordsInv'
<1> DEFINE r == [Request EXCEPT !.at = "save", !.task = t, !.rec = rec]
<1>1. r \in Requested /\ r.at = "save" /\ r.op = "put" /\ r.stamp = 0
  BY RequestTyped DEF Requested, Request, Stages
<1>2. ~Holding(w) /\ UNCHANGED <<disk, memory, holder, meant, mixed, changes, hands>> /\ 0 =< changes
  BY DEF PutTaskRecord, Holding, RecordsInv, RecordsShape, RecordsTypeOK
<1>3. writer' = [writer EXCEPT ![w] = r]
  BY DEF PutTaskRecord
<1> HIDE DEF r
<1> QED BY <1>1, <1>2, <1>3, OnlyMoves

LEMMA AddTaskLabelsKeeps ==
  ASSUME RecordsInv, NEW w \in Writers, NEW t \in Tasks, NEW l \in Labels, AddTaskLabels(w, t, l) PROVE RecordsInv'
<1> DEFINE r == [Request EXCEPT !.at = "look", !.op = "add", !.task = t, !.rec.labels = {l}]
<1>1. r \in Requested /\ r.at = "look" /\ r.op = "add" /\ r.stamp = 0
  BY RequestTyped DEF Requested, Request, Stages, Blank
<1>2. ~Holding(w) /\ UNCHANGED <<disk, memory, holder, meant, mixed, changes, hands>> /\ 0 =< changes
  BY DEF AddTaskLabels, Holding, RecordsInv, RecordsShape, RecordsTypeOK
<1>3. writer' = [writer EXCEPT ![w] = r] /\ \A v \in Writers : writer[v].op = "add" => writer[v].at = "done"
  BY DEF AddTaskLabels
<1> HIDE DEF r
<1> QED BY <1>1, <1>2, <1>3, OnlyMoves

LEMMA MergeKeeps == ASSUME RecordsInv, NEW w \in Writers, Merge(w) PROVE RecordsInv'
<1> DEFINE had == memory.held.tasks[writer[w].task]
           rec == [done |-> had.done, labels |-> had.labels \cup writer[w].rec.labels]
           r   == [writer[w] EXCEPT !.at = "save", !.rec = rec]
<1>0. writer[w] \in Requested /\ MemoryType /\ RecordsTypeOK
  BY WithRecordType DEF RecordsInv, RecordsShape
<1>1. had.done \in BOOLEAN /\ had.labels \subseteq Labels /\ writer[w].rec.labels \subseteq Labels
  BY <1>0 DEF MemoryType, Contents, Requested
<1> HIDE DEF had
<1>2. rec \in [done : BOOLEAN, labels : SUBSET Labels] /\ rec.done = had.done /\ had.labels \subseteq rec.labels
  BY <1>1
<1> HIDE DEF rec
<1>3. /\ r \in Requested /\ r.at = "save" /\ r.op = writer[w].op /\ r.stamp = writer[w].stamp
      /\ r.task = writer[w].task /\ r.rec = rec
  BY <1>0, <1>2 DEF Requested, Stages
<1>4. writer[w].at = "lookDone" /\ holder' = NoWriter /\ UNCHANGED <<disk, memory, meant, mixed, changes, hands>>
  BY DEF Merge
<1>5. writer' = [writer EXCEPT ![w] = r]
  BY DEF Merge, had, rec
<1>6. Holding(w) /\ holder = w
  BY <1>4 DEF RecordsInv, OneHolds, Holding
<1>7. r.stamp =< changes
  BY <1>3 DEF RecordsInv, StampsInOrder
<1>8. r.op = "add" => \A v \in Writers \ {w} : writer[v].op = "add" => writer[v].at = "done"
  BY <1>3, <1>4 DEF RecordsInv, OneAdds
<1>9. ~mixed /\ writer[w].op = "add" => rec.done = meant.tasks[writer[w].task].done /\ meant.tasks[writer[w].task].labels \subseteq rec.labels
  <2>1. ~mixed /\ writer[w].op = "add" => memory.held = meant
    BY <1>4 DEF RecordsInv, Unmixed, Based, ChangesKept
  <2> QED BY <2>1, <1>2 DEF had
<1> HIDE DEF r
<1> QED BY <1>3, <1>4, <1>5, <1>6, <1>7, <1>8, <1>9, OnlyMoves

LEMMA ReadKeeps == ASSUME RecordsInv, NEW w \in Writers, Read(w) PROVE RecordsInv'
<1>0. /\ RecordsTypeOK /\ DiskType /\ MemoryType /\ writer[w] \in Requested
      /\ writer[w].at \in {"lookRead", "saveRead"} /\ holder = w
  BY WithRecordType DEF RecordsInv, RecordsShape, Read, OneHolds, Holding
<1>f. UNCHANGED <<disk, meant, mixed, changes, hands>>
  BY DEF Read
<1>1. ASSUME disk.ok, NEW at \in {"lookDone", "write"}, writer[w].at = "lookRead" => at = "lookDone",
             writer[w].at = "saveRead" => at = "write",
             memory' = [had |-> TRUE, stamp |-> writer[w].stamp, held |-> disk.held],
             Reaches(w, at), UNCHANGED holder
      PROVE  RecordsInv'
  <2>1. /\ writer' \in [Writers -> Requested] /\ writer'[w] = [writer[w] EXCEPT !.at = at]
        /\ \A v \in Writers \ {w} : writer'[v] = writer[v]
    BY <1>1, <1>0, StageMoves DEF Stages
  <2>2. /\ writer'[w].at = at /\ writer'[w].stamp = writer[w].stamp /\ writer'[w].op = writer[w].op
        /\ writer'[w].task = writer[w].task /\ writer'[w].rec = writer[w].rec
    BY <2>1, <1>0 DEF Requested
  <2>3. memory'.had /\ memory'.stamp = writer[w].stamp /\ memory'.held = disk.held /\ MemoryType'
    BY <1>1, <1>0 DEF MemoryType, DiskType, Requested
  <2>4. writer[w].stamp \in 0..changes
    BY <1>0 DEF RecordsInv, StampsInOrder, Requested, RecordsTypeOK
  <2>5. RecordsShape'
    BY <2>1, <2>3, <2>4, <1>1, <1>f, <1>0 DEF RecordsShape, RecordsTypeOK, DiskType, MemoryType
  <2>6. OneHolds' /\ OneAdds'
    <3>1. OneHolds'
      BY <2>1, <1>0, <1>1 DEF RecordsInv, OneHolds, Holding
    <3>2. \A v \in Writers : writer'[v].at # "done" => writer[v].at # "done" /\ writer'[v].op = writer[v].op
      BY <2>1, <2>2, <1>0
    <3> QED BY <3>1, <3>2 DEF RecordsInv, OneAdds
  <2>7. AbsentIsEmpty' /\ StampsInOrder'
    BY <2>1, <2>2, <1>f DEF RecordsInv, AbsentIsEmpty, StampsInOrder
  <2>8. ASSUME ~mixed' PROVE Unmixed'
    <3>1. Unmixed
      BY <2>8, <1>f DEF RecordsInv
    <3>2. AbsentServed'
      BY <3>1, <2>3, <1>0 DEF RecordsInv, Unmixed, StaysAbsent, Reading, AbsentIsEmpty, AbsentServed
    <3>3. ChangesKept' /\ ServedIsCurrent'
      BY <3>1, <2>3, <1>1, <1>f DEF Unmixed, ChangesKept, ServedIsCurrent
    <3>4. StaysAbsent'
      BY <3>1, <2>1, <2>2, <1>f DEF Unmixed, StaysAbsent, Reading
    <3>5. Based'
      <4>1. \A v \in Writers \ {w} : writer'[v].at \notin {"lookDone", "write", "stamp"}
        BY <2>1, <1>0 DEF RecordsInv, OneHolds, Holding
      <4> QED BY <4>1, <2>2, <2>3, <1>f DEF Based
    <3>6. Added'
      <4>1. \A v \in Writers : writer'[v].at \in {"save", "saveRead", "write"} =>
              /\ writer[v].at \in {"save", "saveRead", "write"} /\ writer'[v].op = writer[v].op
              /\ writer'[v].task = writer[v].task /\ writer'[v].rec = writer[v].rec
        BY <2>1, <2>2, <1>0, <1>1
      <4> QED BY <4>1, <3>1, <1>f DEF Unmixed, Added
    <3> QED BY <3>2, <3>3, <3>4, <3>5, <3>6 DEF Unmixed
  <2> QED BY <2>5, <2>6, <2>7, <2>8 DEF RecordsInv
<1>2. ASSUME memory' = [memory EXCEPT !.had = FALSE], Unlocks(w) PROVE RecordsInv'
  <2>1. /\ writer' \in [Writers -> Requested] /\ writer'[w] = [writer[w] EXCEPT !.at = "done"]
        /\ \A v \in Writers \ {w} : writer'[v] = writer[v]
    BY <1>2, <1>0, StageMoves DEF Stages, Unlocks
  <2>2. writer'[w].at = "done" /\ writer'[w].stamp = writer[w].stamp /\ holder' = NoWriter
    BY <2>1, <1>0, <1>2 DEF Requested, Unlocks
  <2>3. MemoryType' /\ ~memory'.had /\ memory'.held = memory.held /\ memory'.stamp = memory.stamp
    BY <1>2, <1>0 DEF MemoryType
  <2>4. \A v \in Writers : ~Holding(v)'
    BY <2>1, <2>2, <1>0 DEF RecordsInv, OneHolds, Holding
  <2>5. RecordsShape'
    BY <2>1, <2>2, <2>3, <1>f, <1>0 DEF RecordsShape, RecordsTypeOK, DiskType, MemoryType
  <2>6. OneHolds' /\ OneAdds'
    <3>1. \A v \in Writers : writer'[v].at # "done" => writer'[v] = writer[v]
      BY <2>1, <2>2
    <3> QED BY <3>1, <2>4 DEF RecordsInv, OneHolds, OneAdds
  <2>7. AbsentIsEmpty' /\ StampsInOrder'
    BY <2>1, <2>2, <1>f DEF RecordsInv, AbsentIsEmpty, StampsInOrder
  <2>8. ASSUME ~mixed' PROVE Unmixed'
    <3>1. Unmixed
      BY <2>8, <1>f DEF RecordsInv
    <3>2. AbsentServed' /\ ChangesKept' /\ ServedIsCurrent'
      BY <3>1, <2>3, <1>f DEF Unmixed, AbsentServed, ChangesKept, ServedIsCurrent
    <3>3. StaysAbsent' /\ Based'
      BY <2>4 DEF Holding, StaysAbsent, Reading, Based
    <3>4. Added'
      BY <3>1, <2>1, <2>2, <1>f DEF Unmixed, Added
    <3> QED BY <3>2, <3>3, <3>4 DEF Unmixed
  <2> QED BY <2>5, <2>6, <2>7, <2>8 DEF RecordsInv
<1> QED BY <1>1, <1>2, <1>0 DEF Read, Readable

\* What a request writes is what it was meant to leave.
LEMMA WrittenIsMeant ==
  ASSUME RecordsInv, ~mixed, NEW w \in Writers, writer[w].at = "write" PROVE Meant(w) = WithRecord(w)
<1> DEFINE t == writer[w].task
<1>1. memory.held = meant
  BY DEF RecordsInv, Unmixed, Based, ChangesKept
<1>2. writer[w] \in Requested /\ meant \in Contents
  BY WithRecordType DEF RecordsInv, RecordsShape, RecordsTypeOK
<1>3. t \in Tasks /\ meant.tasks[t] \in [done : BOOLEAN, labels : SUBSET Labels]
      /\ writer[w].rec \in [done : BOOLEAN, labels : SUBSET Labels] /\ writer[w].op \in {"put", "add"}
  BY <1>2 DEF Requested, Contents
<1>4. CASE writer[w].op = "put"
  BY <1>4, <1>1 DEF Meant, WithRecord
<1>5. CASE writer[w].op = "add"
  <2>1. writer[w].rec.done = meant.tasks[t].done /\ meant.tasks[t].labels \subseteq writer[w].rec.labels
    BY <1>5 DEF RecordsInv, Unmixed, Added
  <2>2. [done |-> meant.tasks[t].done, labels |-> meant.tasks[t].labels \cup writer[w].rec.labels] = writer[w].rec
    BY <2>1, <1>3
  <2>3. Meant(w) = [meant EXCEPT !.tasks[t] =
                      [done |-> meant.tasks[t].done, labels |-> meant.tasks[t].labels \cup writer[w].rec.labels]]
    BY <1>5 DEF Meant
  <2> QED BY <2>2, <2>3, <1>1 DEF WithRecord
<1> QED BY <1>3, <1>4, <1>5

LEMMA MeantKeepsOthers ==
  ASSUME RecordsShape, NEW w \in Writers
  PROVE  Meant(w) \in Contents /\ \A t \in Tasks \ {writer[w].task} : Meant(w).tasks[t] = meant.tasks[t]
<1> DEFINE t == writer[w].task
           was == meant.tasks[t]
           new == writer[w].rec
           r   == IF writer[w].op = "put" THEN new ELSE [done |-> was.done, labels |-> was.labels \cup new.labels]
<1>1. writer[w] \in Requested /\ meant \in Contents
  BY WithRecordType DEF RecordsShape, RecordsTypeOK
<1>2. t \in Tasks /\ was \in [done : BOOLEAN, labels : SUBSET Labels] /\ new \in [done : BOOLEAN, labels : SUBSET Labels]
  BY <1>1 DEF Requested, Contents
<1>3. r \in [done : BOOLEAN, labels : SUBSET Labels]
  BY <1>2
<1>4. Meant(w) = [meant EXCEPT !.tasks[t] = r]
  BY DEF Meant
<1> HIDE DEF r
<1>5. [meant.tasks EXCEPT ![t] = r] \in [Tasks -> [done : BOOLEAN, labels : SUBSET Labels]]
  BY <1>1, <1>2, <1>3 DEF Contents
<1>6. Meant(w) \in Contents
  BY <1>1, <1>4, <1>5 DEF Contents
<1>7. \A u \in Tasks \ {t} : Meant(w).tasks[u] = meant.tasks[u]
  BY <1>1, <1>2, <1>4 DEF Contents
<1> QED BY <1>6, <1>7

LEMMA WriteKeeps == ASSUME RecordsInv, NEW w \in Writers, Write(w) PROVE RecordsInv'
<1>0. RecordsTypeOK /\ DiskType /\ MemoryType /\ writer[w] \in Requested /\ writer[w].at = "write" /\ holder = w
  BY WithRecordType DEF RecordsInv, RecordsShape, Write, OneHolds, Holding
<1>f. UNCHANGED <<memory, hands>>
  BY DEF Write
<1>1. ASSUME changes' = changes + 1, disk' = [stamp |-> changes', ok |-> TRUE, held |-> WithRecord(w)],
             meant' = Meant(w), mixed' = (mixed \/ Between(writer[w].task)), Reaches(w, "stamp"), UNCHANGED holder
      PROVE  RecordsInv'
  <2>1. /\ writer' \in [Writers -> Requested] /\ writer'[w] = [writer[w] EXCEPT !.at = "stamp"]
        /\ \A v \in Writers \ {w} : writer'[v] = writer[v]
    BY <1>1, <1>0, StageMoves DEF Stages
  <2>2. /\ writer'[w].at = "stamp" /\ writer'[w].stamp = writer[w].stamp /\ writer'[w].op = writer[w].op
        /\ writer'[w].task = writer[w].task /\ writer'[w].rec = writer[w].rec
    BY <2>1, <1>0 DEF Requested
  <2>3. changes \in Nat /\ memory.stamp \in 0..changes /\ memory.stamp \in 0..changes' /\ changes' \in 0..changes'
        /\ changes' \in Nat /\ changes' # 0
    BY <1>0, <1>1 DEF RecordsTypeOK
  <2>4. disk'.stamp = changes' /\ disk'.ok /\ disk'.held = WithRecord(w) /\ WithRecord(w) \in Contents /\ DiskType'
    BY <1>1, <2>3, WithRecordType DEF RecordsInv, DiskType
  <2>5. meant' \in Contents /\ \A t \in Tasks \ {writer[w].task} : meant'.tasks[t] = meant.tasks[t]
    BY <1>1, MeantKeepsOthers DEF RecordsInv
  <2>6. mixed' \in BOOLEAN
    BY <1>1 DEF Between
  <2>7. RecordsShape'
    BY <2>1, <2>3, <2>4, <2>5, <2>6, <1>1, <1>f, <1>0 DEF RecordsShape, RecordsTypeOK, DiskType, MemoryType
  <2>8. \A v \in Writers \ {w} : ~Holding(v) /\ ~Holding(v)'
    BY <2>1, <1>0 DEF RecordsInv, OneHolds, Holding
  <2>9. OneHolds' /\ OneAdds'
    <3>1. OneHolds'
      BY <2>8, <1>0, <1>1 DEF OneHolds
    <3>2. \A v \in Writers : writer'[v].at # "done" => writer[v].at # "done" /\ writer'[v].op = writer[v].op
      BY <2>1, <2>2, <1>0
    <3> QED BY <3>1, <3>2 DEF RecordsInv, OneAdds
  <2>10. AbsentIsEmpty' /\ StampsInOrder'
    <3>1. \A v \in Writers : writer'[v].stamp = writer[v].stamp /\ writer[v].stamp \in Nat
      BY <2>1, <2>2, <1>0 DEF RecordsTypeOK, Requested
    <3> QED BY <3>1, <2>3, <2>4, <1>1 DEF RecordsInv, AbsentIsEmpty, StampsInOrder
  <2>11. ASSUME ~mixed' PROVE Unmixed'
    <3>1. Unmixed /\ ~mixed /\ ~Between(writer[w].task)
      BY <2>11, <1>1 DEF RecordsInv
    <3>2. AbsentServed' /\ ServedIsCurrent'
      <4>1. memory'.stamp # disk'.stamp
        BY <2>3, <2>4, <1>1, <1>f
      <4> QED BY <4>1, <3>1, <1>f DEF Unmixed, AbsentServed, ServedIsCurrent
    <3>3. ChangesKept'
      BY <3>1, <2>4, <1>0, <1>1, WrittenIsMeant DEF ChangesKept
    <3>4. StaysAbsent'
      BY <2>2, <2>8 DEF StaysAbsent, Reading, Holding
    <3>5. Based'
      <4>1. WithRecord(w)' = WithRecord(w)
        BY <2>2, <1>f DEF WithRecord
      <4> QED BY <4>1, <2>2, <2>3, <2>4, <2>8 DEF Based, Holding
    <3>6. Added'
      <4> SUFFICES ASSUME NEW v \in Writers, writer'[v].op = "add", writer'[v].at \in {"save", "saveRead", "write"}
                   PROVE  /\ writer'[v].rec.done = meant'.tasks[writer'[v].task].done
                          /\ meant'.tasks[writer'[v].task].labels \subseteq writer'[v].rec.labels
        BY DEF Added
      <4>1. v # w /\ writer'[v] = writer[v] /\ writer[v].at = "save"
        BY <2>1, <2>2, <2>8 DEF Holding
      <4>2. writer[v].task \in Tasks \ {writer[w].task}
        BY <4>1, <3>1, <1>0 DEF Between, RecordsTypeOK, Requested
      <4> QED BY <4>1, <4>2, <2>5, <3>1 DEF Unmixed, Added
    <3> QED BY <3>2, <3>3, <3>4, <3>5, <3>6 DEF Unmixed
  <2> QED BY <2>7, <2>9, <2>10, <2>11 DEF RecordsInv
<1>2. ASSUME Unlocks(w), UNCHANGED <<disk, meant, mixed, changes>> PROVE RecordsInv'
  <2> DEFINE r == [writer[w] EXCEPT !.at = "done"]
  <2>1. r \in Requested /\ r.at = "done" /\ r.stamp = writer[w].stamp
    BY <1>0 DEF Requested, Stages
  <2>2. writer' = [writer EXCEPT ![w] = r] /\ holder' = NoWriter /\ Holding(w)
    BY <1>2, <1>0 DEF Unlocks, Reaches, Holding
  <2>3. r.stamp =< changes
    BY <2>1 DEF RecordsInv, StampsInOrder
  <2> HIDE DEF r
  <2> QED BY <2>1, <2>2, <2>3, <1>0, <1>2, <1>f, OnlyMoves
<1> QED BY <1>1, <1>2 DEF Write

LEMMA StampedKeeps == ASSUME RecordsInv, NEW w \in Writers, Stamped(w) PROVE RecordsInv'
<1>0. RecordsTypeOK /\ DiskType /\ MemoryType /\ writer[w] \in Requested /\ writer[w].at = "stamp" /\ holder = w
  BY WithRecordType DEF RecordsInv, RecordsShape, Stamped, OneHolds, Holding
<1>f. UNCHANGED <<disk, meant, mixed, changes, hands>>
  BY DEF Stamped
<1>1. /\ writer' \in [Writers -> Requested] /\ writer'[w] = [writer[w] EXCEPT !.at = "done"]
      /\ \A v \in Writers \ {w} : writer'[v] = writer[v]
  BY <1>0, StageMoves DEF Stages, Stamped, Unlocks
<1>2. writer'[w].at = "done" /\ writer'[w].stamp = writer[w].stamp /\ holder' = NoWriter
  BY <1>1, <1>0 DEF Requested, Stamped, Unlocks
<1>3. /\ memory'.had /\ memory'.stamp = disk.stamp /\ memory'.held = WithRecord(w) /\ MemoryType'
      /\ memory'.held \in Contents
  BY <1>0, WithRecordType DEF RecordsInv, Stamped, MemoryType, DiskType
<1>4. \A v \in Writers : ~Holding(v)'
  BY <1>1, <1>2, <1>0 DEF RecordsInv, OneHolds, Holding
<1>5. RecordsShape'
  BY <1>1, <1>2, <1>3, <1>f, <1>0 DEF RecordsShape, RecordsTypeOK, DiskType
<1>6. OneHolds' /\ OneAdds'
  <2>1. \A v \in Writers : writer'[v].at # "done" => writer'[v] = writer[v]
    BY <1>1, <1>2
  <2> QED BY <2>1, <1>4 DEF RecordsInv, OneHolds, OneAdds
<1>7. AbsentIsEmpty' /\ StampsInOrder'
  BY <1>1, <1>2, <1>f DEF RecordsInv, AbsentIsEmpty, StampsInOrder
<1>8. ASSUME ~mixed' PROVE Unmixed'
  <2>1. Unmixed
    BY <1>8, <1>f DEF RecordsInv
  <2>2. disk.held = WithRecord(w) /\ disk.ok /\ disk.stamp # 0
    BY <2>1, <1>0 DEF Unmixed, Based
  <2>3. AbsentServed' /\ ServedIsCurrent' /\ ChangesKept'
    BY <2>1, <2>2, <1>3, <1>f DEF Unmixed, AbsentServed, ServedIsCurrent, ChangesKept
  <2>4. StaysAbsent' /\ Based'
    BY <1>4 DEF Holding, StaysAbsent, Reading, Based
  <2>5. Added'
    BY <2>1, <1>1, <1>2, <1>f DEF Unmixed, Added
  <2> QED BY <2>3, <2>4, <2>5 DEF Unmixed
<1> QED BY <1>5, <1>6, <1>7, <1>8 DEF RecordsInv

LEMMA EditedType ==
  ASSUME RecordsInv, NEW d \in Edited
  PROVE  /\ d \in [stamp : Nat, ok : BOOLEAN, held : Contents]
         /\ d.stamp = changes + 1 \/ (d.stamp = 0 /\ d.ok /\ d.held = Nothing)
<1>1. disk.held \in Contents /\ changes + 1 \in Nat /\ Nothing \in Contents
  BY NothingType DEF RecordsInv, RecordsShape, RecordsTypeOK
<1>2. ASSUME NEW t \in Tasks PROVE [disk.held EXCEPT !.tasks[t].done = ~@] \in Contents
  <2> DEFINE was == disk.held.tasks[t]
             new == [was EXCEPT !.done = ~@]
  <2>1. was \in [done : BOOLEAN, labels : SUBSET Labels]
    BY <1>1 DEF Contents
  <2> HIDE DEF was
  <2>2. new \in [done : BOOLEAN, labels : SUBSET Labels]
    BY <2>1
  <2> HIDE DEF new
  <2>3. [disk.held.tasks EXCEPT ![t] = new] \in [Tasks -> [done : BOOLEAN, labels : SUBSET Labels]]
    BY <1>1, <2>2 DEF Contents
  <2>4. [disk.held EXCEPT !.tasks = [disk.held.tasks EXCEPT ![t] = new]] \in Contents
    BY <1>1, <2>3 DEF Contents
  <2> QED BY <2>4 DEF new, was
<1>3. [disk.held EXCEPT !.foreign = ~@] \in Contents
  BY <1>1 DEF Contents
<1>4. CASE \E t \in Tasks : d = [stamp |-> changes + 1, ok |-> TRUE, held |-> [disk.held EXCEPT !.tasks[t].done = ~@]]
  BY <1>1, <1>2, <1>4
<1>5. CASE d = [stamp |-> changes + 1, ok |-> TRUE, held |-> [disk.held EXCEPT !.foreign = ~@]]
  BY <1>1, <1>3, <1>5
<1>6. CASE d = [stamp |-> changes + 1, ok |-> FALSE, held |-> disk.held]
  BY <1>1, <1>6
<1>7. CASE d = [stamp |-> 0, ok |-> TRUE, held |-> Nothing]
  BY <1>1, <1>7
<1> QED BY <1>4, <1>5, <1>6, <1>7 DEF Edited

LEMMA HandKeeps == ASSUME RecordsInv, Hand PROVE RecordsInv'
<1>0. RecordsTypeOK /\ DiskType /\ MemoryType
  BY DEF RecordsInv, RecordsShape
<1>1. /\ DiskType' /\ disk'.held \in Contents /\ disk'.ok \in BOOLEAN /\ disk'.stamp \in Nat
      /\ disk'.stamp = changes + 1 \/ (disk'.stamp = 0 /\ disk'.ok /\ disk'.held = Nothing)
  BY EditedType DEF Hand, DiskType
<1>2. /\ hands < MaxHands /\ hands' = hands + 1 /\ changes' = changes + 1 /\ meant' = disk'.held
      /\ UNCHANGED <<memory, writer, holder>>
      /\ mixed' = (mixed \/ Appeared \/ \E w \in Writers : writer[w].at \in {"write", "stamp"} \/ Between(writer[w].task))
  BY DEF Hand
<1>3. changes \in Nat /\ memory.stamp \in 0..changes /\ hands' \in 0..MaxHands
  BY <1>0, <1>2, RecordsAssumption DEF RecordsTypeOK
<1>4. RecordsShape'
  <2>1. mixed' \in BOOLEAN
    BY <1>2 DEF Appeared, Between
  <2>2. disk'.stamp \in 0..changes' /\ memory'.stamp \in 0..changes' /\ changes' \in Nat
    BY <1>1, <1>2, <1>3
  <2> QED BY <2>1, <2>2, <1>0, <1>1, <1>2, <1>3 DEF RecordsShape, RecordsTypeOK, MemoryType
<1>5. OneHolds' /\ OneAdds'
  BY <1>2 DEF RecordsInv, OneHolds, OneAdds, Holding
<1>6. AbsentIsEmpty' /\ StampsInOrder'
  <2>1. \A w \in Writers : writer[w].stamp \in Nat
    BY <1>0 DEF RecordsTypeOK, Requested
  <2> QED BY <2>1, <1>1, <1>2, <1>3 DEF RecordsInv, AbsentIsEmpty, StampsInOrder
<1>7. ASSUME ~mixed' PROVE Unmixed'
  <2>1. Unmixed /\ ~Appeared /\ \A w \in Writers : writer[w].at \notin {"write", "stamp"} /\ ~Between(writer[w].task)
    BY <1>7, <1>2 DEF RecordsInv
  <2>2. \A w \in Writers : writer[w].op = "add" => writer[w].at \notin {"lookDone", "save", "saveRead"}
    BY <2>1 DEF Between
  <2>3. AbsentServed' /\ ServedIsCurrent' /\ ChangesKept'
    BY <2>1, <1>1, <1>2, <1>3 DEF Unmixed, AbsentServed, ServedIsCurrent, ChangesKept
  <2>4. StaysAbsent'
    BY <2>1, <1>2 DEF StaysAbsent, Reading, Appeared
  <2>5. Based' /\ Added'
    BY <2>1, <2>2, <1>2 DEF Based, Added
  <2> QED BY <2>3, <2>4, <2>5 DEF Unmixed
<1> QED BY <1>4, <1>5, <1>6, <1>7 DEF RecordsInv

LEMMA RecordsStep == RecordsInv /\ [RecordsNext]_recordVars => RecordsInv'
<1> SUFFICES ASSUME RecordsInv, [RecordsNext]_recordVars PROVE RecordsInv'
  OBVIOUS
<1>1. ASSUME NEW w \in Writers, Stat(w) \/ Read(w) \/ Merge(w) \/ Write(w) \/ Stamped(w) PROVE RecordsInv'
  BY <1>1, StatKeeps, ReadKeeps, MergeKeeps, WriteKeeps, StampedKeeps
<1>2. ASSUME NEW w \in Writers, NEW t \in Tasks, NEW done \in BOOLEAN, NEW ls \in SUBSET Labels,
             PutTaskRecord(w, t, [done |-> done, labels |-> ls])
      PROVE  RecordsInv'
  <2>1. [done |-> done, labels |-> ls] \in [done : BOOLEAN, labels : SUBSET Labels]
    OBVIOUS
  <2> QED BY <1>2, <2>1, PutTaskRecordKeeps
<1>3. ASSUME NEW w \in Writers, NEW t \in Tasks, NEW l \in Labels, AddTaskLabels(w, t, l) PROVE RecordsInv'
  BY <1>3, AddTaskLabelsKeeps
<1>4. CASE Hand
  BY <1>4, HandKeeps
<1>5. CASE UNCHANGED recordVars
  <2>1. UNCHANGED <<disk, memory, writer, holder, meant, mixed, changes, hands>>
    BY <1>5 DEF recordVars
  <2> QED BY <2>1 DEF RecordsInv, RecordsShape, RecordsTypeOK, DiskType, MemoryType, OneHolds, Holding, OneAdds,
                     AbsentIsEmpty, StampsInOrder, Unmixed, AbsentServed, StaysAbsent, Reading, Based, WithRecord,
                     Added, ChangesKept, ServedIsCurrent
<1> QED BY <1>1, <1>2, <1>3, <1>4, <1>5 DEF RecordsNext

\* The file keeps what people recorded, through requests that overlap, saves
\* that fail and edits by hand, and what is served is what it holds
\* (RecordStore).
THEOREM RecordsHoldCorrect == RecordsSpec => []RecordsHold
<1>1. RecordsInv => RecordsHold
  BY DEF RecordsInv, Unmixed, RecordsHold, ChangesKept, ServedIsCurrent
<1> QED BY <1>1, RecordsInvInit, RecordsStep, PTL DEF RecordsSpec

-----------------------------------------------------------------------------
(***************************************************************************)
(* The collections.  What was heard of the server is at most what it has;  *)
(* a collection that runs knows of every task started by then, or another  *)
(* follows it (`KnowsOrAgain'), and what it read is no older than what is  *)
(* shown and than what it knew of (`ReadsAreNew').                         *)
(***************************************************************************)
Versions == [Kinds -> Nat]

CollectionsShape ==
  /\ data \in [loaded : BOOLEAN, shown : Versions] /\ versions \in Versions /\ heard \in Versions
  /\ collection \in [at : {"none", "asked", "listed", "read"}, saves : Nat, got : Versions, knew : Nat]
  /\ recordSaves \in Nat
  /\ requests \in [RequestIDs -> [at : {"none", "sent", "served", "done"}, kind : Kinds, got : Nat]]

HeardOf ==
  /\ \A k \in Kinds : heard[k] =< versions[k]
  /\ \A i \in RequestIDs : requests[i].at = "served" => requests[i].got =< versions[requests[i].kind]
  /\ data.shown["task"] =< versions["task"]

KnowsOrAgain == InFlight => collectAgain \/ collection.knew >= heard["task"]

ReadsAreNew ==
  /\ collection.saves =< recordSaves /\ collection.knew =< versions["task"]
  /\ collection.at \in {"listed", "read"} =>
       collection.got["task"] >= data.shown["task"] /\ collection.got["task"] >= collection.knew
       /\ collection.got["task"] =< versions["task"]
  /\ collection.at = "read" /\ collection.saves = recordSaves => collection.got["record"] >= heard["record"]

CollectionsInv == CollectionsShape /\ HeardOf /\ KnowsOrAgain /\ ReadsAreNew /\ CollectionsHold

LEMMA CollectionsInvInit == CollectionsInit => CollectionsInv
<1> SUFFICES ASSUME CollectionsInit PROVE CollectionsInv
  OBVIOUS
<1>1. NoVersions \in Versions /\ \A k \in Kinds : NoVersions[k] = 0
  BY DEF NoVersions, Versions
<1>2. CollectionsShape
  BY <1>1 DEF CollectionsInit, CollectionsShape, NoCollection, Kinds
<1>3. HeardOf
  BY <1>1 DEF CollectionsInit, HeardOf, Kinds
<1>4. KnowsOrAgain /\ ReadsAreNew /\ CollectionsHold
  BY <1>1 DEF CollectionsInit, KnowsOrAgain, ReadsAreNew, NoCollection, InFlight, CollectionsHold, RecordsStay,
              StartedIsCollected, Kinds
<1> QED BY <1>2, <1>3, <1>4 DEF CollectionsInv

\* A collection that begins knows of all that was heard.
LEMMA BegunIsNew ==
  ASSUME CollectionsInv
  PROVE  /\ Begun(heard) \in [at : {"none", "asked", "listed", "read"}, saves : Nat, got : Versions, knew : Nat]
         /\ Begun(heard).at = "asked" /\ Begun(heard).saves = recordSaves /\ Begun(heard).knew = heard["task"]
<1>1. NoVersions \in Versions
  BY DEF NoVersions, Versions
<1> QED BY <1>1 DEF CollectionsInv, CollectionsShape, Begun, NoCollection, Versions, Kinds

\* refresh alone, with what was heard.
LEMMA RefreshKeeps ==
  ASSUME CollectionsInv, Refresh(heard), UNCHANGED <<data, recordSaves, collectAgain, versions, requests, heard, missed>>
  PROVE  CollectionsInv'
<1>1. CASE InFlight
  <2>1. UNCHANGED collection
    BY <1>1 DEF Refresh
  <2> QED BY <2>1 DEF CollectionsInv, CollectionsShape, HeardOf, KnowsOrAgain, ReadsAreNew, CollectionsHold, InFlight,
                     RecordsStay, StartedIsCollected
<1>2. CASE ~InFlight
  <2>1. collection' = Begun(heard)
    BY <1>2 DEF Refresh
  <2>2. CollectionsShape' /\ HeardOf'
    BY <2>1, BegunIsNew DEF CollectionsInv, CollectionsShape, HeardOf
  <2>3. heard["task"] =< versions["task"] /\ heard["task"] \in Nat
    BY DEF CollectionsInv, HeardOf, CollectionsShape, Versions, Kinds
  <2>4. collection'.at = "asked" /\ collection'.saves = recordSaves /\ collection'.knew = heard["task"] /\ recordSaves \in Nat
    BY <2>1, BegunIsNew DEF CollectionsInv, CollectionsShape
  <2>5. KnowsOrAgain' /\ ReadsAreNew'
    BY <2>3, <2>4 DEF KnowsOrAgain, ReadsAreNew
  <2>6. CollectionsHold'
    BY <1>2 DEF CollectionsInv, CollectionsHold, RecordsStay, StartedIsCollected
  <2> QED BY <2>2, <2>5, <2>6 DEF CollectionsInv
<1> QED BY <1>1, <1>2

LEMMA WatchKeeps == ASSUME CollectionsInv, Watch PROVE CollectionsInv'
<1>1. CASE watching'
  BY <1>1, RefreshKeeps DEF Watch
<1>2. CASE ~watching'
  <2>1. UNCHANGED <<data, collection, recordSaves, collectAgain, versions, requests, heard, missed>>
    BY <1>2 DEF Watch
  <2> QED BY <2>1 DEF CollectionsInv, CollectionsShape, HeardOf, KnowsOrAgain, ReadsAreNew, CollectionsHold, InFlight,
                     RecordsStay, StartedIsCollected
<1> QED BY <1>1, <1>2

LEMMA ReadsKeeps ==
  ASSUME CollectionsInv, Collects PROVE CollectionsInv'
<1>f. UNCHANGED <<data, recordSaves, collectAgain, versions, requests, heard, missed>>
  BY DEF Collects, Reads
<1>0. /\ CollectionsShape /\ HeardOf /\ KnowsOrAgain /\ ReadsAreNew /\ CollectionsHold
      /\ versions \in Versions /\ collection.got \in Versions /\ heard \in Versions /\ data.shown \in Versions
  BY DEF CollectionsInv, CollectionsShape
<1>1. ASSUME NEW to \in {"listed", "read"}, NEW kinds \in SUBSET Kinds,
             collection.at # "none", to = "listed" => kinds = {"task", "link"},
             to = "read" => kinds = {"summary", "record"} /\ collection.at = "listed",
             collection' = [collection EXCEPT !.at = to,
                              !.got = [k \in Kinds |-> IF k \in kinds THEN versions[k] ELSE collection.got[k]]]
      PROVE  CollectionsInv'
  <2> DEFINE got == [k \in Kinds |-> IF k \in kinds THEN versions[k] ELSE collection.got[k]]
  <2>1. got \in Versions
    BY <1>0 DEF Versions
  <2>2. to = "listed" => got["task"] = versions["task"]
    BY <1>1 DEF Kinds
  <2>3. to = "read" => got["task"] = collection.got["task"] /\ got["record"] = versions["record"]
    BY <1>1 DEF Kinds
  <2> HIDE DEF got
  <2>4. /\ collection' \in [at : {"none", "asked", "listed", "read"}, saves : Nat, got : Versions, knew : Nat]
        /\ collection'.at = to /\ collection'.got = got /\ collection'.saves = collection.saves
        /\ collection'.knew = collection.knew
    BY <1>0, <1>1, <2>1 DEF CollectionsShape, got
  <2>5. CollectionsShape' /\ HeardOf'
    BY <2>4, <1>0, <1>f DEF CollectionsShape, HeardOf
  <2>6. KnowsOrAgain' /\ CollectionsHold'
    BY <2>4, <1>0, <1>1, <1>f DEF KnowsOrAgain, InFlight, CollectionsHold, RecordsStay, StartedIsCollected
  <2>7. /\ versions["task"] \in Nat /\ versions["record"] >= heard["record"]
        /\ versions["task"] >= data.shown["task"] /\ versions["task"] >= collection.knew
    BY <1>0 DEF HeardOf, Versions, Kinds, ReadsAreNew, CollectionsShape
  <2>8. ReadsAreNew'
    <3>1. CASE to = "listed"
      BY <3>1, <2>2, <2>4, <2>7, <1>0, <1>f DEF ReadsAreNew
    <3>2. CASE to = "read"
      <4>1. collection.at = "listed" /\ got["task"] = collection.got["task"] /\ got["record"] = versions["record"]
        BY <3>2, <2>3, <1>1
      <4>2. /\ collection.saves =< recordSaves /\ collection.knew =< versions["task"]
            /\ collection.got["task"] >= data.shown["task"] /\ collection.got["task"] >= collection.knew
            /\ collection.got["task"] =< versions["task"]
        BY <4>1, <1>0 DEF ReadsAreNew
      <4> QED BY <4>1, <4>2, <2>4, <2>7, <1>f DEF ReadsAreNew
    <3> QED BY <3>1, <3>2
  <2> QED BY <2>5, <2>6, <2>8 DEF CollectionsInv
<1>2. CASE Reads("asked", "listed", {"task", "link"})
  <2>1. /\ {"task", "link"} \in SUBSET Kinds /\ collection.at # "none" /\ "listed" # "read"
        /\ collection' = [collection EXCEPT !.at = "listed",
                            !.got = [k \in Kinds |-> IF k \in {"task", "link"} THEN versions[k] ELSE collection.got[k]]]
    BY <1>2 DEF Reads, Kinds
  <2> QED BY <2>1, <1>1
<1>3. CASE Reads("listed", "read", {"summary", "record"})
  <2>1. /\ {"summary", "record"} \in SUBSET Kinds /\ collection.at = "listed" /\ "listed" # "none" /\ "listed" # "read"
        /\ collection' = [collection EXCEPT !.at = "read",
                            !.got = [k \in Kinds |-> IF k \in {"summary", "record"} THEN versions[k] ELSE collection.got[k]]]
    BY <1>3 DEF Reads, Kinds
  <2> QED BY <2>1, <1>1
<1> QED BY <1>2, <1>3 DEF Collects

LEMMA ArrivesKeeps == ASSUME CollectionsInv, CollectionArrives PROVE CollectionsInv'
<1>0. /\ CollectionsShape /\ HeardOf /\ KnowsOrAgain /\ ReadsAreNew /\ CollectionsHold
      /\ versions \in Versions /\ collection.got \in Versions /\ heard \in Versions /\ data.shown \in Versions
  BY DEF CollectionsInv, CollectionsShape
<1>1. PICK shows \in BOOLEAN : CollectionEnds(shows) /\ (shows => collection.at = "read" /\ collection.saves = recordSaves)
  <2>1. CASE collection.at = "read" /\ CollectionEnds(~Outdated(collection))
    <3>1. (~Outdated(collection)) \in BOOLEAN
      BY DEF Outdated
    <3> QED BY <2>1, <3>1 DEF Outdated
  <2>2. CASE InFlight /\ CollectionEnds(FALSE)
    BY <2>2
  <2> QED BY <2>1, <2>2 DEF CollectionArrives
<1>2. InFlight
  BY DEF CollectionArrives, InFlight
<1>f. UNCHANGED <<recordSaves, versions, requests, heard>> /\ missed' = ~shows /\ collectAgain' = FALSE
  BY <1>1 DEF CollectionEnds
<1>3. /\ collection' \in [at : {"none", "asked", "listed", "read"}, saves : Nat, got : Versions, knew : Nat]
      /\ collection'.saves =< recordSaves /\ collection'.at \in {"none", "asked"}
      /\ collection'.knew =< versions["task"]
      /\ collection'.at # "none" => collection'.knew = heard["task"]
      /\ collectAgain => collection'.at # "none"
  <2>1. CASE collectAgain
    <3>1. heard["task"] =< versions["task"] /\ recordSaves \in Nat
      BY <1>0 DEF HeardOf, Kinds, CollectionsShape
    <3> QED BY <2>1, <3>1, <1>1, BegunIsNew DEF CollectionEnds
  <2>2. CASE ~collectAgain
    <3>1. NoVersions \in Versions /\ versions["task"] \in Nat /\ recordSaves \in Nat
      BY <1>0 DEF NoVersions, Versions, Kinds, CollectionsShape
    <3> QED BY <2>2, <3>1, <1>1 DEF CollectionEnds, NoCollection
  <2> QED BY <2>1, <2>2
<1>4. data' \in [loaded : BOOLEAN, shown : Versions] /\ (data' = data \/ (shows /\ data' = [loaded |-> TRUE, shown |-> collection.got]))
  BY <1>1, <1>0 DEF CollectionEnds, CollectionsShape
<1>5. CollectionsShape'
  BY <1>0, <1>3, <1>4, <1>f DEF CollectionsShape
<1>6. HeardOf'
  BY <1>0, <1>1, <1>4, <1>f DEF HeardOf, ReadsAreNew
<1>7. KnowsOrAgain' /\ ReadsAreNew'
  BY <1>0, <1>3, <1>f DEF KnowsOrAgain, InFlight, ReadsAreNew, Versions, Kinds
<1>8. RecordsStay'
  BY <1>0, <1>1, <1>4, <1>f DEF CollectionsHold, RecordsStay, ReadsAreNew
<1>9. StartedIsCollected'
  <2>1. CASE ~shows
    BY <2>1, <1>f DEF StartedIsCollected
  <2>2. CASE collectAgain
    BY <2>2, <1>0, <1>3, <1>f DEF StartedIsCollected, InFlight, Versions, Kinds
  <2>3. CASE shows /\ ~collectAgain
    <3>1. data'.shown["task"] = collection.got["task"]
      BY <2>3, <1>1 DEF CollectionEnds
    <3>2. collection.knew >= heard["task"] /\ collection.got["task"] >= collection.knew
      BY <2>3, <1>0, <1>1, <1>2 DEF KnowsOrAgain, ReadsAreNew
    <3>3. collection.knew \in Nat /\ heard["task"] \in Nat /\ collection.got["task"] \in Nat
      BY <1>0 DEF CollectionsShape, Versions, Kinds
    <3> QED BY <3>1, <3>2, <3>3, <1>f DEF StartedIsCollected
  <2> QED BY <2>1, <2>2, <2>3
<1> QED BY <1>5, <1>6, <1>7, <1>8, <1>9 DEF CollectionsInv, CollectionsHold

\* What is asked and answered: a request's new state, and the others.
LEMMA RequestMoves ==
  ASSUME CollectionsShape, NEW i \in RequestIDs, NEW r, requests' = [requests EXCEPT ![i] = r],
         r \in [at : {"none", "sent", "served", "done"}, kind : Kinds, got : Nat]
  PROVE  /\ requests' \in [RequestIDs -> [at : {"none", "sent", "served", "done"}, kind : Kinds, got : Nat]]
         /\ requests'[i] = r /\ \A j \in RequestIDs \ {i} : requests'[j] = requests[j]
BY DEF CollectionsShape

LEMMA AskKeeps == ASSUME CollectionsInv, NEW k \in Kinds, Ask(k) PROVE CollectionsInv'
<1>1. PICK i \in RequestIDs : requests' = [requests EXCEPT ![i] = [at |-> "sent", kind |-> k, got |-> 0]]
  BY DEF Ask
<1>2. UNCHANGED <<data, collection, recordSaves, collectAgain, versions, heard, missed>>
  BY DEF Ask
<1>3. /\ requests' \in [RequestIDs -> [at : {"none", "sent", "served", "done"}, kind : Kinds, got : Nat]]
      /\ requests'[i].at = "sent" /\ \A j \in RequestIDs \ {i} : requests'[j] = requests[j]
  BY <1>1, RequestMoves DEF CollectionsInv
<1>4. CollectionsShape' /\ HeardOf'
  BY <1>2, <1>3 DEF CollectionsInv, CollectionsShape, HeardOf
<1>5. KnowsOrAgain' /\ ReadsAreNew' /\ CollectionsHold'
  BY <1>2 DEF CollectionsInv, KnowsOrAgain, ReadsAreNew, CollectionsHold, InFlight, RecordsStay, StartedIsCollected
<1> QED BY <1>4, <1>5 DEF CollectionsInv

LEMMA RefusedKeeps == ASSUME CollectionsInv, NEW i \in RequestIDs, RequestRefused(i) PROVE CollectionsInv'
<1>1. requests' = [requests EXCEPT ![i] = [requests[i] EXCEPT !.at = "done", !.got = 0]]
  BY DEF RequestRefused
<1>2. UNCHANGED <<data, collection, recordSaves, collectAgain, versions, heard, missed>>
  BY DEF RequestRefused
<1>3. [requests[i] EXCEPT !.at = "done", !.got = 0] \in [at : {"none", "sent", "served", "done"}, kind : Kinds, got : Nat]
  BY DEF CollectionsInv, CollectionsShape
<1>4. /\ requests' \in [RequestIDs -> [at : {"none", "sent", "served", "done"}, kind : Kinds, got : Nat]]
      /\ requests'[i] = [requests[i] EXCEPT !.at = "done", !.got = 0]
      /\ \A j \in RequestIDs \ {i} : requests'[j] = requests[j]
  BY <1>1, <1>3, RequestMoves DEF CollectionsInv
<1>5. requests'[i].at = "done"
  BY <1>4 DEF CollectionsInv, CollectionsShape
<1>6. CollectionsShape' /\ HeardOf'
  BY <1>2, <1>4, <1>5 DEF CollectionsInv, CollectionsShape, HeardOf
<1>7. KnowsOrAgain' /\ ReadsAreNew' /\ CollectionsHold'
  BY <1>2 DEF CollectionsInv, KnowsOrAgain, ReadsAreNew, CollectionsHold, InFlight, RecordsStay, StartedIsCollected
<1> QED BY <1>6, <1>7 DEF CollectionsInv

LEMMA ServedKeeps == ASSUME CollectionsInv, NEW i \in RequestIDs, RequestServed(i) PROVE CollectionsInv'
<1> DEFINE k == requests[i].kind
           r == [requests[i] EXCEPT !.at = "served", !.got = versions[k] + 1]
<1>0. CollectionsShape /\ HeardOf /\ ReadsAreNew /\ versions \in Versions /\ data.shown \in Versions
      /\ heard \in Versions /\ collection.got \in Versions
  BY DEF CollectionsInv, CollectionsShape
<1>1. k \in Kinds /\ versions[k] \in Nat /\ r \in [at : {"none", "sent", "served", "done"}, kind : Kinds, got : Nat]
      /\ r.got = versions[k] + 1 /\ r.kind = k
  <2>1. requests[i] \in [at : {"none", "sent", "served", "done"}, kind : Kinds, got : Nat]
    BY <1>0 DEF CollectionsShape
  <2>2. k \in Kinds
    BY <2>1
  <2>3. versions[k] \in Nat /\ versions[k] + 1 \in Nat
    BY <2>2, <1>0 DEF Versions
  <2> HIDE DEF k
  <2> QED BY <2>1, <2>2, <2>3 DEF k
<1>2. UNCHANGED <<data, collection, recordSaves, collectAgain, heard, missed>>
  BY DEF RequestServed
<1>3. requests' = [requests EXCEPT ![i] = r] /\ versions' = [versions EXCEPT ![k] = versions[k] + 1]
  BY DEF RequestServed
<1> HIDE DEF r
<1>4. /\ requests' \in [RequestIDs -> [at : {"none", "sent", "served", "done"}, kind : Kinds, got : Nat]]
      /\ requests'[i] = r /\ \A j \in RequestIDs \ {i} : requests'[j] = requests[j]
  BY <1>0, <1>1, <1>3, RequestMoves
<1>5. versions' \in Versions /\ versions'[k] = versions[k] + 1 /\ (\A j \in Kinds : versions'[j] >= versions[j])
  BY <1>0, <1>1, <1>3 DEF Versions
<1> HIDE DEF k
<1>6. CollectionsShape'
  BY <1>0, <1>2, <1>4, <1>5 DEF CollectionsShape
<1>7. HeardOf'
  <2>1. \A j \in Kinds : heard'[j] =< versions'[j]
    BY <1>0, <1>2, <1>5 DEF HeardOf, Versions
  <2>2. data'.shown["task"] =< versions'["task"]
    BY <1>0, <1>2, <1>5 DEF HeardOf, Versions, Kinds
  <2>3. ASSUME NEW j \in RequestIDs, requests'[j].at = "served" PROVE requests'[j].got =< versions'[requests'[j].kind]
    <3>1. CASE j = i
      BY <3>1, <1>1, <1>4, <1>5
    <3>2. CASE j # i
      <4>1. requests[j].kind \in Kinds /\ requests[j].got \in Nat /\ requests[j].got =< versions[requests[j].kind]
        BY <2>3, <3>2, <1>0, <1>4 DEF CollectionsShape, HeardOf
      <4> QED BY <4>1, <3>2, <1>0, <1>4, <1>5 DEF Versions
    <3> QED BY <3>1, <3>2
  <2> QED BY <2>1, <2>2, <2>3 DEF HeardOf
<1>8. ReadsAreNew'
  <2>1. versions'["task"] >= versions["task"] /\ versions'["task"] \in Nat /\ versions["task"] \in Nat
        /\ collection.got["task"] \in Nat /\ collection.knew \in Nat
    BY <1>0, <1>5 DEF Versions, Kinds, CollectionsShape
  <2> QED BY <2>1, <1>0, <1>2 DEF ReadsAreNew
<1>9. KnowsOrAgain' /\ CollectionsHold'
  BY <1>2 DEF CollectionsInv, KnowsOrAgain, CollectionsHold, InFlight, RecordsStay, StartedIsCollected
<1> QED BY <1>6, <1>7, <1>8, <1>9 DEF CollectionsInv

LEMMA AnsweredKeeps == ASSUME CollectionsInv, NEW i \in RequestIDs, RequestAnswered(i) PROVE CollectionsInv'
<1> DEFINE k == requests[i].kind
           v == requests[i].got
           r == [requests[i] EXCEPT !.at = "done", !.got = 0]
           told == IF k = "record" \/ v > heard[k] THEN v ELSE heard[k]
<1>0. /\ CollectionsShape /\ HeardOf /\ ReadsAreNew /\ KnowsOrAgain /\ CollectionsHold /\ versions \in Versions
      /\ data.shown \in Versions /\ heard \in Versions /\ collection.got \in Versions /\ recordSaves \in Nat
      /\ collection.saves \in Nat /\ collection.knew \in Nat
  BY DEF CollectionsInv, CollectionsShape
<1>1. /\ k \in Kinds /\ v \in Nat /\ r \in [at : {"none", "sent", "served", "done"}, kind : Kinds, got : Nat]
      /\ r.at = "done" /\ v =< versions[k]
  BY <1>0 DEF RequestAnswered, CollectionsShape, HeardOf
<1>2. UNCHANGED <<versions, missed>> /\ requests' = [requests EXCEPT ![i] = r] /\ heard' = [heard EXCEPT ![k] = told]
  BY DEF RequestAnswered
<1>3. /\ recordSaves' = (IF k = "record" THEN recordSaves + 1 ELSE recordSaves)
      /\ data' = (IF k \in {"record", "summary"} /\ data.loaded THEN [data EXCEPT !.shown[k] = v] ELSE data)
      /\ IF k \in {"task", "link"} THEN Follow(k) ELSE UNCHANGED <<collection, collectAgain>>
  BY DEF RequestAnswered
<1>4. /\ requests' \in [RequestIDs -> [at : {"none", "sent", "served", "done"}, kind : Kinds, got : Nat]]
      /\ requests'[i] = r /\ \A j \in RequestIDs \ {i} : requests'[j] = requests[j]
  BY <1>0, <1>1, <1>2, RequestMoves
<1>5. told \in Nat /\ told =< versions[k] /\ (k = "record" => told = v) /\ told >= v /\ (k # "record" => told >= heard[k])
  BY <1>0, <1>1 DEF HeardOf, Versions
<1> HIDE DEF told, r
<1>6. heard' \in Versions /\ heard'[k] = told /\ \A j \in Kinds \ {k} : heard'[j] = heard[j]
  BY <1>0, <1>1, <1>2, <1>5 DEF Versions
<1>7. /\ data' \in [loaded : BOOLEAN, shown : Versions] /\ data'.shown["task"] = data.shown["task"] /\ data'.loaded = data.loaded
      /\ (k = "record" /\ data.loaded => data'.shown["record"] = v) /\ (k # "record" => data'.shown["record"] = data.shown["record"])
  <2>1. CASE k \in {"record", "summary"} /\ data.loaded
    BY <2>1, <1>0, <1>1, <1>3 DEF CollectionsShape, Versions, Kinds
  <2>2. CASE ~(k \in {"record", "summary"} /\ data.loaded)
    BY <2>2, <1>0, <1>3 DEF CollectionsShape
  <2> QED BY <2>1, <2>2
<1>8. HeardOf'
  <2>1. \A j \in Kinds : heard'[j] =< versions'[j]
    BY <1>0, <1>2, <1>5, <1>6 DEF HeardOf
  <2>2. \A j \in RequestIDs : requests'[j].at = "served" => j # i /\ requests'[j] = requests[j]
    BY <1>1, <1>4
  <2> QED BY <2>1, <2>2, <1>0, <1>2, <1>7 DEF HeardOf
<1>9. RecordsStay'
  BY <1>0, <1>5, <1>6, <1>7 DEF CollectionsHold, RecordsStay, Kinds, Versions
<1>10. ASSUME UNCHANGED collection, k = "task" => collectAgain' /\ InFlight, k # "task" => UNCHANGED collectAgain,
              collectAgain' \in {TRUE, collectAgain}
       PROVE  CollectionsInv'
  <2>1. CollectionsShape'
    BY <1>0, <1>2, <1>3, <1>4, <1>6, <1>7, <1>10 DEF CollectionsShape
  <2>2. k # "task" => heard'["task"] = heard["task"]
    BY <1>6 DEF Kinds
  <2>3. KnowsOrAgain' /\ StartedIsCollected'
    BY <2>2, <1>0, <1>2, <1>7, <1>10 DEF KnowsOrAgain, InFlight, CollectionsHold, StartedIsCollected
  <2>4. ReadsAreNew'
    <3>1. CASE k = "record"
      BY <3>1, <1>0, <1>2, <1>3, <1>7, <1>10 DEF ReadsAreNew
    <3>2. CASE k # "record"
      <4>1. heard'["record"] = heard["record"] /\ recordSaves' = recordSaves
        BY <3>2, <1>3, <1>6 DEF Kinds
      <4> QED BY <4>1, <1>0, <1>2, <1>7, <1>10 DEF ReadsAreNew
    <3> QED BY <3>1, <3>2
  <2> QED BY <2>1, <2>3, <2>4, <1>8, <1>9 DEF CollectionsInv, CollectionsHold
<1>11. ASSUME collection' = Begun(heard'), k \in {"task", "link"}, ~InFlight PROVE CollectionsInv'
  <2>1. NoVersions \in Versions
    BY DEF NoVersions, Versions
  <2>2. heard'["task"] \in Nat /\ heard'["task"] =< versions'["task"] /\ recordSaves' = recordSaves
    BY <1>3, <1>6, <1>8, <1>11 DEF HeardOf, Versions, Kinds
  <2>3. /\ collection' \in [at : {"none", "asked", "listed", "read"}, saves : Nat, got : Versions, knew : Nat]
        /\ collection'.at = "asked" /\ collection'.saves = recordSaves /\ collection'.knew = heard'["task"]
    BY <2>1, <2>2, <1>0, <1>11 DEF Begun, NoCollection
  <2>4. CollectionsShape'
    BY <2>2, <2>3, <1>0, <1>2, <1>4, <1>6, <1>7 DEF CollectionsShape
  <2>5. KnowsOrAgain' /\ ReadsAreNew' /\ StartedIsCollected'
    BY <2>2, <2>3, <1>0 DEF KnowsOrAgain, InFlight, ReadsAreNew, StartedIsCollected
  <2> QED BY <2>4, <2>5, <1>8, <1>9 DEF CollectionsInv, CollectionsHold
<1>12. CASE k \in {"task", "link"}
  BY <1>12, <1>3, <1>10, <1>11 DEF Follow, Refresh
<1>13. CASE k \notin {"task", "link"}
  BY <1>13, <1>3, <1>10
<1> QED BY <1>12, <1>13

LEMMA CollectionsStep == CollectionsInv /\ [CollectionsNext]_collectionVars => CollectionsInv'
<1> SUFFICES ASSUME CollectionsInv, [CollectionsNext]_collectionVars PROVE CollectionsInv'
  OBVIOUS
<1>1. CASE Watch \/ PollTasks \/ Collects \/ CollectionArrives
  BY <1>1, WatchKeeps, RefreshKeeps, ReadsKeeps, ArrivesKeeps DEF PollTasks
<1>2. ASSUME NEW k \in Kinds, Ask(k) PROVE CollectionsInv'
  BY <1>2, AskKeeps
<1>3. ASSUME NEW i \in RequestIDs, RequestServed(i) \/ RequestRefused(i) \/ RequestAnswered(i) PROVE CollectionsInv'
  BY <1>3, ServedKeeps, RefusedKeeps, AnsweredKeeps
<1>4. CASE UNCHANGED collectionVars
  <2>1. UNCHANGED <<watching, data, collection, recordSaves, collectAgain, versions, requests, heard, missed>>
    BY <1>4 DEF collectionVars
  <2> QED BY <2>1 DEF CollectionsInv, CollectionsShape, HeardOf, KnowsOrAgain, ReadsAreNew, CollectionsHold, InFlight,
                     RecordsStay, StartedIsCollected
<1> QED BY <1>1, <1>2, <1>3, <1>4 DEF CollectionsNext

\* The dashboard shows no record older than the last one saved, and a task
\* that was started is shown or will be collected (useTasks).
THEOREM CollectionsHoldCorrect == CollectionsSpec => []CollectionsHold
<1>1. CollectionsInv => CollectionsHold
  BY DEF CollectionsInv
<1> QED BY <1>1, CollectionsInvInit, CollectionsStep, PTL DEF CollectionsSpec

-----------------------------------------------------------------------------
(***************************************************************************)
(* The popups.  An answer names a terminal that was made for what its      *)
(* request asks (`AnswersMatch'), the newest request is the popup's, and   *)
(* while nothing fails every terminal that runs is shown, about to be      *)
(* ended, on its way in an answer, or the next answer of a request for the *)
(* same task (`Wanted').                                                   *)
(***************************************************************************)
Made(s) == posts[s].at \in {"answered", "done"}

PopupType == [of : Things \cup {NoThing}, phase : {"none", "connecting", "ready", "failed"}, shows : 0..MaxPosts]
PostType  == [at : {"none", "sent", "answered", "done"}, of : Things \cup {NoThing}, mount : Nat, ok : BOOLEAN,
              got : 0..MaxPosts]

PopupsShape ==
  /\ shared \in BOOLEAN /\ popup \in PopupType /\ newest \in 0..MaxPosts /\ sessionRef \in 0..MaxPosts
  /\ openFor \in Things \cup {NoThing} /\ mount \in Nat /\ away \in BOOLEAN /\ posts \in [PostIDs -> PostType]
  /\ live \in [PostIDs -> BOOLEAN] /\ ending \subseteq PostIDs /\ mishap \in BOOLEAN

AnswersMatch ==
  \A i \in PostIDs :
    /\ posts[i].at # "none" => posts[i].of \in Things
    /\ posts[i].at = "sent" => ~posts[i].ok
    /\ posts[i].at = "answered" /\ posts[i].ok =>
         posts[i].got \in PostIDs /\ Made(posts[i].got) /\ posts[posts[i].got].of = posts[i].of
         /\ (~shared => posts[i].got = i)

ScreenMatches ==
  /\ popup = NoPopup \/ popup.of \in Things
  /\ newest # 0 => posts[newest].at # "none" /\ popup.of = posts[newest].of /\ openFor = popup.of
  /\ newest = 0 => openFor = NoThing /\ sessionRef = 0
  /\ sessionRef # 0 =>
       Made(sessionRef) /\ posts[sessionRef].of = popup.of
       /\ (~shared => sessionRef = newest /\ posts[newest].at = "done")
  /\ popup.phase = "ready" => popup.shows \in PostIDs /\ Made(popup.shows)

AliveApart ==
  /\ \A s \in PostIDs : live[s] => Made(s)
  /\ shared => \A s, t \in PostIDs : live[s] /\ live[t] /\ posts[s].of = posts[t].of => s = t
  /\ ~shared => \A s \in ending : posts[s].at = "done"

Wanted(s) ==
  \/ s \in ending \/ s = sessionRef
  \/ \E i \in PostIDs : posts[i].at = "answered" /\ posts[i].got = s
  \/ shared /\ \E i \in PostIDs : posts[i].at = "sent" /\ posts[i].of = posts[s].of

PopupsCalm ==
  /\ \A i \in PostIDs : posts[i].at = "answered" => posts[i].ok /\ (shared => live[posts[i].got])
  /\ \A s \in PostIDs : live[s] => Wanted(s)
  /\ shared => /\ sessionRef # 0 => live[sessionRef]
               /\ newest # 0 /\ posts[newest].at = "done" => sessionRef # 0

PopupsInv ==
  PopupsShape /\ AnswersMatch /\ ScreenMatches /\ AliveApart /\ (~mishap => PopupsCalm) /\ ShownIsAsked /\ ShownIsKept

LEMMA PostIDsType == PostIDs \subseteq Nat /\ 0 \notin PostIDs /\ 0..MaxPosts = PostIDs \cup {0}
BY TaskPopupsAssumption DEF PostIDs

LEMMA NoPostType == NoPopup \in PopupType /\ NoPopup.of = NoThing /\ NoPopup.phase = "none" /\ NoPost \in PostType
                    /\ NoPost.at = "none"
BY TaskPopupsAssumption DEF NoPopup, NoPost, PopupType, PostType

LEMMA PopupsInvInit == PopupsInit => PopupsInv
<1> SUFFICES ASSUME PopupsInit PROVE PopupsInv
  OBVIOUS
<1>1. PopupsShape
  BY NoPostType, PostIDsType DEF PopupsInit, PopupsShape
<1>2. \A i \in PostIDs : posts[i].at = "none" /\ ~live[i]
  BY NoPostType DEF PopupsInit
<1>3. AnswersMatch /\ AliveApart /\ PopupsCalm
  BY <1>2 DEF PopupsInit, AnswersMatch, AliveApart, PopupsCalm
<1>4. ScreenMatches /\ ShownIsAsked /\ ShownIsKept
  BY NoPostType DEF PopupsInit, ScreenMatches, ShownIsAsked, ShownIsKept
<1> QED BY <1>1, <1>3, <1>4 DEF PopupsInv

\* The request that moves, and the others.
LEMMA PostMoves ==
  ASSUME PopupsShape, NEW i \in PostIDs, NEW r \in PostType, posts' = [posts EXCEPT ![i] = r]
  PROVE  posts' \in [PostIDs -> PostType] /\ posts'[i] = r /\ \A j \in PostIDs \ {i} : posts'[j] = posts[j]
BY DEF PopupsShape

\* A new request, whatever becomes of the terminal shown before it.
LEMMA AskingKeeps ==
  ASSUME PopupsInv, NEW x \in Things, AskFor(x), openFor' = x, away' \in BOOLEAN,
         \/ sessionRef' = 0 /\ EndsTerminal(sessionRef)
         \/ shared /\ UNCHANGED <<sessionRef, ending>> /\ popup.of = x,
         UNCHANGED <<shared, mount, live, mishap>>
  PROVE  PopupsInv'
<1>0. PopupsShape /\ AnswersMatch /\ ScreenMatches /\ AliveApart /\ ShownIsKept
  BY DEF PopupsInv
<1>1. PICK i \in PostIDs : /\ posts[i].at = "none" /\ newest' = i
                          /\ posts' = [posts EXCEPT ![i] = [NoPost EXCEPT !.at = "sent", !.of = x, !.mount = mount]]
  BY DEF AskFor
<1>2. /\ popup' = [of |-> x, phase |-> "connecting", shows |-> 0] /\ popup' \in PopupType /\ popup'.of = x
      /\ popup'.phase = "connecting"
  BY TaskPopupsAssumption DEF AskFor, PopupType
<1>3. [NoPost EXCEPT !.at = "sent", !.of = x, !.mount = mount] \in PostType
  BY NoPostType, <1>0 DEF PostType, PopupsShape
<1>4. /\ posts' \in [PostIDs -> PostType] /\ \A j \in PostIDs \ {i} : posts'[j] = posts[j]
      /\ posts'[i].at = "sent" /\ posts'[i].of = x /\ ~posts'[i].ok
  <2>1. posts'[i] = [NoPost EXCEPT !.at = "sent", !.of = x, !.mount = mount]
    BY <1>0, <1>1, <1>3, PostMoves
  <2> QED BY <2>1, <1>0, <1>1, <1>3, PostMoves DEF NoPost
<1>5. \A s \in PostIDs : Made(s) => s # i /\ posts'[s] = posts[s] /\ Made(s)'
  BY <1>1, <1>4 DEF Made
<1>6. /\ sessionRef' \in 0..MaxPosts /\ ending' \subseteq PostIDs /\ ending \subseteq ending' /\ newest' # 0
      /\ sessionRef' \in {0, sessionRef} /\ sessionRef # sessionRef' => sessionRef \in ending'
  BY <1>0, <1>1, PostIDsType DEF EndsTerminal, PopupsShape
<1>7. PopupsShape'
  BY <1>0, <1>1, <1>2, <1>4, <1>6, PostIDsType DEF PopupsShape
<1>8. AnswersMatch'
  <2>1. \A j \in PostIDs : posts'[j].at = "answered" => j # i /\ posts'[j] = posts[j]
    BY <1>4
  <2> QED BY <2>1, <1>0, <1>4, <1>5 DEF AnswersMatch
<1>9. ScreenMatches'
  <2>1. sessionRef' # 0 => shared /\ sessionRef' = sessionRef /\ popup.of = x
    BY <1>6
  <2>2. sessionRef' # 0 => Made(sessionRef') /\ sessionRef' \in PostIDs /\ posts[sessionRef'].of = x
    BY <2>1, <1>0, PostIDsType DEF ScreenMatches, PopupsShape
  <2> QED BY <2>1, <2>2, <1>1, <1>2, <1>4, <1>5, <1>6 DEF ScreenMatches, Made
<1>10. AliveApart'
  <2>1. ~shared => \A s \in ending' : posts[s].at = "done"
    BY <1>0, PostIDsType DEF EndsTerminal, ScreenMatches, AliveApart
  <2> QED BY <2>1, <1>0, <1>5, <1>6 DEF AliveApart, Made
<1>11. ASSUME ~mishap' PROVE PopupsCalm'
  <2>1. PopupsCalm
    BY <1>11 DEF PopupsInv
  <2>2. \A s \in PostIDs : live[s] => Wanted(s)'
    <3> SUFFICES ASSUME NEW s \in PostIDs, live[s] PROVE Wanted(s)'
      OBVIOUS
    <3>1. Wanted(s) /\ posts'[s] = posts[s]
      BY <2>1, <1>0, <1>5 DEF PopupsCalm, AliveApart
    <3>2. CASE s \in ending \/ s = sessionRef
      BY <3>2, <1>6 DEF Wanted
    <3>3. CASE \E j \in PostIDs : posts[j].at = "answered" /\ posts[j].got = s
      BY <3>3, <1>1, <1>4 DEF Wanted
    <3>4. CASE shared /\ \E j \in PostIDs : posts[j].at = "sent" /\ posts[j].of = posts[s].of
      BY <3>1, <3>4, <1>1, <1>4 DEF Wanted
    <3> QED BY <3>1, <3>2, <3>3, <3>4 DEF Wanted
  <2>3. \A j \in PostIDs : posts'[j].at = "answered" => posts'[j].ok /\ (shared => live[posts'[j].got])
    BY <2>1, <1>4 DEF PopupsCalm
  <2>4. shared => (sessionRef' # 0 => live[sessionRef'])
    BY <2>1, <1>6 DEF PopupsCalm
  <2>5. posts'[newest'].at # "done"
    BY <1>1, <1>4
  <2> QED BY <2>2, <2>3, <2>4, <2>5 DEF PopupsCalm
<1>12. ShownIsAsked' /\ ShownIsKept'
  BY <1>2, <1>6, <1>0, PostIDsType DEF ShownIsAsked, ShownIsKept, PopupsShape
<1> QED BY <1>7, <1>8, <1>9, <1>10, <1>11, <1>12 DEF PopupsInv

\* end, with the page or the showing that goes.
LEMMA EndingKeeps ==
  ASSUME PopupsInv, End, away' \in BOOLEAN, mount' \in Nat, popup' = NoPopup \/ (popup' = popup /\ away'),
         UNCHANGED <<shared, posts, live, mishap>>
  PROVE  PopupsInv'
<1>0. PopupsShape /\ AnswersMatch /\ ScreenMatches /\ AliveApart /\ ShownIsAsked
  BY DEF PopupsInv
<1>1. newest' = 0 /\ openFor' = NoThing /\ sessionRef' = 0 /\ ending' = ending \cup ({sessionRef} \ {0})
  BY DEF End, EndsTerminal
<1>2. PopupsShape'
  BY <1>0, <1>1, NoPostType, PostIDsType DEF PopupsShape
<1>3. AnswersMatch'
  BY <1>0 DEF AnswersMatch, Made
<1>4. ScreenMatches'
  BY <1>0, <1>1, NoPostType DEF ScreenMatches, Made
<1>5. AliveApart'
  BY <1>0, <1>1 DEF AliveApart, Made, ScreenMatches
<1>6. ASSUME ~mishap' PROVE PopupsCalm'
  <2>1. PopupsCalm
    BY <1>6 DEF PopupsInv
  <2>2. \A s \in PostIDs : Wanted(s) => Wanted(s)'
    BY <1>1, PostIDsType DEF Wanted
  <2> QED BY <2>1, <2>2, <1>1 DEF PopupsCalm
<1>7. ShownIsAsked' /\ ShownIsKept'
  <2>1. ending' \subseteq PostIDs
    BY <1>2 DEF PopupsShape
  <2> QED BY <2>1, <1>0, <1>1, NoPostType, PostIDsType DEF ShownIsAsked, ShownIsKept
<1> QED BY <1>2, <1>3, <1>4, <1>5, <1>6, <1>7 DEF PopupsInv

LEMMA AskAgainKeeps ==
  ASSUME PopupsInv, AskAgain, away' \in BOOLEAN, UNCHANGED <<shared, mount, live, mishap>> PROVE PopupsInv'
<1>1. popup.of \in Things
  BY DEF AskAgain, PopupsInv, ScreenMatches
<1>2. CASE shared
  BY <1>1, <1>2, AskingKeeps DEF AskAgain
<1>3. CASE ~shared
  BY <1>1, <1>3, AskingKeeps DEF AskAgain
<1> QED BY <1>2, <1>3

LEMMA PageKeeps ==
  ASSUME PopupsInv, (\E x \in Things : OpenPopup(x)) \/ RetryPopup \/ ClosePopup \/ Remount \/ PageHide \/ PageShow
  PROVE  PopupsInv'
<1>0. PopupsShape
  BY DEF PopupsInv
<1>1. ASSUME NEW x \in Things, OpenPopup(x) PROVE PopupsInv'
  <2>1. EndsTerminal(sessionRef) /\ sessionRef' = 0
    BY <1>1 DEF OpenPopup, EndsTerminal
  <2>2. AskFor(x) /\ openFor' = x /\ away' \in BOOLEAN /\ UNCHANGED <<shared, mount, live, mishap>>
    BY <1>0, <1>1 DEF OpenPopup, PopupsShape
  <2> QED BY <2>1, <2>2, AskingKeeps
<1>2. CASE RetryPopup
  BY <1>0, <1>2, AskAgainKeeps DEF RetryPopup, PopupsShape
<1>3. CASE ClosePopup
  BY <1>0, <1>3, EndingKeeps DEF ClosePopup, PopupsShape
<1>4. CASE Remount
  <2>1. End /\ mount' \in Nat /\ away' \in BOOLEAN
    BY <1>0, <1>4 DEF Remount, End, PopupsShape
  <2> QED BY <2>1, <1>4, EndingKeeps DEF Remount
<1>5. CASE PageHide
  BY <1>0, <1>5, EndingKeeps DEF PageHide, PopupsShape
<1>6. CASE PageShow
  <2>1. CASE popup = NoPopup
    <3>1. UNCHANGED <<shared, popup, newest, sessionRef, openFor, posts, ending, mount, live, mishap>> /\ away' = FALSE
      BY <1>6, <2>1 DEF PageShow, screenRefs
    <3>2. AnswersMatch' /\ ScreenMatches' /\ AliveApart' /\ (~mishap' => PopupsCalm') /\ ShownIsKept'
      BY <3>1 DEF PopupsInv, AnswersMatch, ScreenMatches, AliveApart, PopupsCalm, Wanted, Made, ShownIsKept
    <3>3. PopupsShape' /\ ShownIsAsked'
      BY <3>1, <2>1, NoPostType DEF PopupsInv, PopupsShape, ShownIsAsked
    <3> QED BY <3>2, <3>3 DEF PopupsInv
  <2>2. CASE popup # NoPopup
    BY <1>6, <2>2, AskAgainKeeps DEF PageShow
  <2> QED BY <2>1, <2>2
<1> QED BY <1>1, <1>2, <1>3, <1>4, <1>5, <1>6

\* A post that is done, or answered, keeps what it is for.
LEMMA AnsweredPost ==
  ASSUME PopupsInv, NEW i \in PostIDs, NEW r \in PostType, posts' = [posts EXCEPT ![i] = r],
         r.of = posts[i].of, r.at \in {"answered", "done"}, posts[i].at \in {"sent", "answered"}
  PROVE  /\ posts' \in [PostIDs -> PostType] /\ posts'[i] = r /\ \A j \in PostIDs \ {i} : posts'[j] = posts[j]
         /\ \A j \in PostIDs : posts'[j].of = posts[j].of
         /\ \A j \in PostIDs : Made(j) => Made(j)'
         /\ Made(i)' /\ (newest # 0 => posts'[newest].at # "none")
         /\ \A j \in PostIDs \ {i} : posts[j].at # "none" => posts[j].of \in Things
         /\ r.of \in Things
<1>1. posts' \in [PostIDs -> PostType] /\ posts'[i] = r /\ \A j \in PostIDs \ {i} : posts'[j] = posts[j]
  BY PostMoves DEF PopupsInv
<1>2. newest \in PostIDs \cup {0}
  BY PostIDsType DEF PopupsInv, PopupsShape
<1> QED BY <1>1, <1>2 DEF PopupsInv, Made, AnswersMatch, ScreenMatches

LEMMA PostAnsweredKeeps == ASSUME PopupsInv, NEW i \in PostIDs, PostAnswered(i) PROVE PopupsInv'
<1> DEFINE p == posts[i]
           r == [NoPost EXCEPT !.at = "done", !.of = posts[i].of]
<1>0. PopupsShape /\ AnswersMatch /\ ScreenMatches /\ AliveApart /\ ShownIsAsked /\ ShownIsKept /\ p \in PostType
  BY DEF PopupsInv, PopupsShape
<1>1. ~away /\ p.at = "answered" /\ posts' = [posts EXCEPT ![i] = r] /\ UNCHANGED <<shared, newest, openFor, mount, away, live, mishap>>
  BY DEF PostAnswered
<1>2. r \in PostType /\ r.at = "done" /\ r.of = posts[i].of
  BY <1>0, NoPostType DEF PostType, NoPost
<1>3. /\ posts' \in [PostIDs -> PostType] /\ posts'[i] = r /\ \A j \in PostIDs \ {i} : posts'[j] = posts[j]
      /\ \A j \in PostIDs : posts'[j].of = posts[j].of
      /\ \A j \in PostIDs : Made(j) => Made(j)'
      /\ (newest # 0 => posts'[newest].at # "none") /\ r.of \in Things
      /\ \A j \in PostIDs \ {i} : posts[j].at # "none" => posts[j].of \in Things
  BY <1>1, <1>2, AnsweredPost
<1> HIDE DEF r
<1>4. AnswersMatch'
  <2>1. \A j \in PostIDs : posts'[j].at \in {"answered", "sent"} => posts'[j] = posts[j]
    BY <1>2, <1>3
  <2> QED BY <2>1, <1>0, <1>1, <1>3 DEF AnswersMatch
<1>5. p.ok => /\ p.got \in PostIDs /\ Made(p.got) /\ posts[p.got].of = p.of
              /\ (~shared => p.got = i)
  BY <1>0, <1>1 DEF AnswersMatch
<1>6. \A j \in PostIDs : posts[j].at = "done" => posts'[j].at = "done"
  BY <1>2, <1>3
<1>7. ASSUME i = newest PROVE ~shared => sessionRef = 0
  BY <1>0, <1>1, <1>7 DEF ScreenMatches
<1>8. \A j \in PostIDs : posts'[j].at = "answered" => posts'[j] = posts[j] /\ j # i
  BY <1>2, <1>3
<1>9. \A j \in PostIDs : posts[j].at = "sent" => posts'[j] = posts[j]
  BY <1>1, <1>3
<1>10. newest \in PostIDs \cup {0} /\ sessionRef \in PostIDs \cup {0}
  BY <1>0, PostIDsType DEF PopupsShape
<1>11. ASSUME i = newest, p.ok, sessionRef' = p.got, popup' = [popup EXCEPT !.phase = "ready", !.shows = p.got],
              UNCHANGED ending
       PROVE  PopupsInv'
  <2>1. /\ popup' \in PopupType /\ popup'.of = popup.of /\ popup'.phase = "ready" /\ popup'.shows = p.got
        /\ popup.of = p.of /\ popup.of \in Things
    BY <1>0, <1>3, <1>2, <1>5, <1>11, PostIDsType DEF PopupType, PopupsShape, ScreenMatches
  <2>2. PopupsShape'
    BY <2>1, <1>0, <1>1, <1>3, <1>5, <1>11, PostIDsType DEF PopupsShape
  <2>3. ScreenMatches'
    BY <2>1, <1>0, <1>1, <1>2, <1>3, <1>5, <1>11, PostIDsType DEF ScreenMatches
  <2>4. AliveApart'
    BY <1>0, <1>1, <1>3, <1>6, <1>11 DEF AliveApart
  <2>5. ASSUME ~mishap' PROVE PopupsCalm'
    <3>1. PopupsCalm
      BY <2>5, <1>1 DEF PopupsInv
    <3>2. ASSUME NEW s \in PostIDs, live[s] PROVE Wanted(s)'
      <4>1. Wanted(s) /\ posts'[s].of = posts[s].of
        BY <3>1, <3>2, <1>3 DEF PopupsCalm
      <4>2. CASE s \in ending
        BY <4>2, <1>11 DEF Wanted
      <4>3. CASE s = sessionRef
        <5>1. shared /\ posts[s].of = popup.of /\ live[p.got]
          BY <4>3, <1>0, <1>1, <1>7, <1>11, <3>1, PostIDsType DEF ScreenMatches, PopupsCalm
        <5>2. s = p.got
          BY <5>1, <2>1, <3>2, <1>0, <1>5, <1>11 DEF AliveApart
        <5> QED BY <5>2, <1>11 DEF Wanted
      <4>4. ASSUME NEW j \in PostIDs, posts[j].at = "answered", posts[j].got = s PROVE Wanted(s)'
        BY <4>4, <1>3, <1>11 DEF Wanted
      <4>5. CASE shared /\ \E j \in PostIDs : posts[j].at = "sent" /\ posts[j].of = posts[s].of
        BY <4>5, <4>1, <1>1, <1>9 DEF Wanted
      <4> QED BY <4>1, <4>2, <4>3, <4>4, <4>5 DEF Wanted
    <3> QED BY <3>1, <3>2, <1>1, <1>5, <1>8, <1>11, PostIDsType DEF PopupsCalm
  <2>6. ShownIsAsked'
    BY <2>1, <1>3, <1>5, <1>11 DEF ShownIsAsked
  <2>7. ShownIsKept'
    BY <1>0, <1>1, <1>5, <1>11 DEF ShownIsKept, AliveApart
  <2> QED BY <2>2, <2>3, <2>4, <2>5, <2>6, <2>7, <1>4 DEF PopupsInv
<1>12. ASSUME i = newest, ~p.ok, sessionRef' = sessionRef, popup' = [popup EXCEPT !.phase = "failed", !.shows = p.got],
              UNCHANGED ending
       PROVE  PopupsInv'
  <2>1. popup' \in PopupType /\ popup'.of = popup.of /\ popup'.phase = "failed" /\ popup.of \in Things
    BY <1>0, <1>3, <1>2, <1>12, PostIDsType DEF PopupType, PopupsShape, ScreenMatches, PostType
  <2>2. PopupsShape'
    BY <2>1, <1>0, <1>1, <1>3, <1>12 DEF PopupsShape
  <2>3. ScreenMatches'
    BY <2>1, <1>0, <1>1, <1>3, <1>6, <1>7, <1>10, <1>12 DEF ScreenMatches
  <2>4. AliveApart'
    BY <1>0, <1>1, <1>3, <1>6, <1>12 DEF AliveApart
  <2>5. mishap'
    BY <1>0, <1>1, <1>12 DEF PopupsInv, PopupsCalm, PopupsShape
  <2>6. ShownIsAsked' /\ ShownIsKept'
    BY <2>1, <1>0, <1>1, <1>12 DEF ShownIsAsked, ShownIsKept
  <2> QED BY <2>2, <2>3, <2>4, <2>5, <2>6, <1>4 DEF PopupsInv
<1>13. ASSUME i # newest, UNCHANGED <<sessionRef, popup>>,
              \/ p.ok /\ ~Left(p) /\ ending' = ending \cup ({p.got} \ {0})
              \/ ~(p.ok /\ ~Left(p)) /\ UNCHANGED ending
       PROVE  PopupsInv'
  <2>1. ending' \subseteq PostIDs /\ ending \subseteq ending' /\ (~shared => ending' \subseteq ending \cup {i})
    BY <1>0, <1>5, <1>13, PostIDsType DEF PopupsShape
  <2>2. PopupsShape'
    BY <2>1, <1>0, <1>1, <1>3, <1>13 DEF PopupsShape
  <2>3. ScreenMatches'
    BY <1>0, <1>1, <1>3, <1>6, <1>10, <1>13, PostIDsType DEF ScreenMatches, PopupsShape
  <2>4. AliveApart'
    BY <2>1, <1>0, <1>1, <1>2, <1>3, <1>6 DEF AliveApart
  <2>5. ASSUME ~mishap' PROVE PopupsCalm'
    <3>1. PopupsCalm
      BY <2>5, <1>1 DEF PopupsInv
    <3>2. ASSUME NEW s \in PostIDs, live[s] PROVE Wanted(s)'
      <4>1. Wanted(s) /\ posts'[s].of = posts[s].of
        BY <3>1, <3>2, <1>3 DEF PopupsCalm
      <4>2. CASE s \in ending \/ s = sessionRef
        BY <4>2, <2>1, <1>13 DEF Wanted
      <4>3. ASSUME NEW j \in PostIDs, posts[j].at = "answered", posts[j].got = s, j # i PROVE Wanted(s)'
        BY <4>3, <1>3 DEF Wanted
      <4>4. CASE shared /\ \E j \in PostIDs : posts[j].at = "sent" /\ posts[j].of = posts[s].of
        BY <4>4, <4>1, <1>1, <1>9 DEF Wanted
      <4>5. CASE p.got = s
        <5>1. p.ok /\ posts[s].of = p.of /\ s # 0
          BY <4>5, <3>1, <1>1, <1>5, PostIDsType DEF PopupsCalm
        <5>2. CASE ~Left(p)
          BY <5>1, <5>2, <4>5, <1>13 DEF Wanted
        <5>3. CASE Left(p)
          <6>1. shared /\ (p.got = sessionRef \/ p.of = openFor)
            BY <5>3 DEF Left
          <6>2. CASE p.got = sessionRef
            BY <6>2, <4>5, <1>13 DEF Wanted
          <6>3. CASE p.of = openFor
            <7>1. newest # 0 /\ newest \in PostIDs /\ posts[newest].of = p.of /\ popup.of = p.of /\ posts[newest].at # "none"
              <8>1. p.of \in Things /\ NoThing \notin Things
                BY <1>2, <1>3, TaskPopupsAssumption
              <8> QED BY <8>1, <6>3, <1>0, <1>10 DEF ScreenMatches
            <7>2. posts[newest].at \in {"sent", "answered", "done"}
              BY <7>1, <1>0 DEF PopupsShape, PostType
            <7>3. CASE posts[newest].at = "sent"
              BY <7>1, <7>3, <6>1, <5>1, <4>4
            <7>4. CASE posts[newest].at = "answered"
              <8>1. posts[newest].ok /\ live[posts[newest].got]
                BY <7>1, <7>4, <6>1, <3>1 DEF PopupsCalm
              <8>2. posts[newest].got \in PostIDs /\ posts[posts[newest].got].of = p.of
                BY <8>1, <7>1, <7>4, <1>0 DEF AnswersMatch
              <8>3. posts[newest].got = s
                BY <8>1, <8>2, <5>1, <6>1, <3>2, <1>0 DEF AliveApart
              <8> QED BY <8>3, <7>1, <7>4, <4>3, <1>13
            <7>5. CASE posts[newest].at = "done"
              <8>1. sessionRef # 0 /\ live[sessionRef]
                BY <7>1, <7>5, <6>1, <3>1 DEF PopupsCalm
              <8>2. sessionRef \in PostIDs /\ posts[sessionRef].of = p.of
                BY <8>1, <7>1, <1>0, <1>10 DEF ScreenMatches
              <8>3. sessionRef = s
                BY <8>1, <8>2, <5>1, <6>1, <3>2, <1>0 DEF AliveApart
              <8> QED BY <8>3, <4>2
            <7> QED BY <7>2, <7>3, <7>4, <7>5
          <6> QED BY <6>1, <6>2, <6>3
        <5> QED BY <5>2, <5>3
      <4> QED BY <4>1, <4>2, <4>3, <4>4, <4>5 DEF Wanted
    <3>3. newest # 0 => posts'[newest] = posts[newest]
      BY <1>3, <1>10, <1>13
    <3> QED BY <3>1, <3>2, <3>3, <1>1, <1>8, <1>13 DEF PopupsCalm
  <2>6. ShownIsAsked'
    BY <1>0, <1>1, <1>3, <1>13 DEF ShownIsAsked
  <2>7. ShownIsKept'
    BY <2>1, <1>0, <1>1, <1>13, PostIDsType DEF ShownIsKept, ScreenMatches
  <2> QED BY <2>2, <2>3, <2>4, <2>5, <2>6, <2>7, <1>4 DEF PopupsInv
<1>14. CASE IsCurrent(i)
  BY <1>14, <1>11, <1>12, <1>0 DEF PostAnswered, IsCurrent, PostType
<1>15. CASE ~IsCurrent(i)
  BY <1>15, <1>13 DEF PostAnswered, IsCurrent, EndsTerminal
<1> QED BY <1>14, <1>15

LEMMA ServePostKeeps == ASSUME PopupsInv, NEW i \in PostIDs, ServePost(i) PROVE PopupsInv'
<1> DEFINE p == posts[i]
<1>0. PopupsShape /\ AnswersMatch /\ ScreenMatches /\ AliveApart /\ ShownIsAsked /\ ShownIsKept /\ p \in PostType
  BY DEF PopupsInv, PopupsShape
<1>1. /\ p.at = "sent" /\ ~Made(i)
      /\ UNCHANGED <<shared, popup, newest, sessionRef, openFor, mount, away, ending>>
  BY DEF ServePost, pageVars, screenRefs, Made
<1>2. newest \in PostIDs \cup {0} /\ sessionRef \in PostIDs \cup {0}
  BY <1>0, PostIDsType DEF PopupsShape
\* What holds whatever the server answers.
<1>3. ASSUME NEW r \in PostType, r.at = "answered", r.of = p.of, posts' = [posts EXCEPT ![i] = r],
             live' \in [PostIDs -> BOOLEAN], mishap' \in BOOLEAN, mishap => mishap',
             \A s \in PostIDs \ {i} : live'[s] = live[s],
             r.ok => r.got \in PostIDs /\ (~shared => r.got = i) /\ (r.got = i \/ (Made(r.got) /\ posts[r.got].of = p.of)),
             live'[i] => \A s \in PostIDs : shared /\ live[s] => posts[s].of # p.of,
             ~mishap' => r.ok /\ live'[r.got] /\ (live'[i] => r.got = i)
      PROVE  PopupsInv'
  <2>1. /\ posts' \in [PostIDs -> PostType] /\ posts'[i] = r /\ \A j \in PostIDs \ {i} : posts'[j] = posts[j]
        /\ \A j \in PostIDs : posts'[j].of = posts[j].of
        /\ \A j \in PostIDs : Made(j) => Made(j)' /\ j # i
        /\ Made(i)' /\ (newest # 0 => posts'[newest].at # "none")
        /\ \A j \in PostIDs \ {i} : posts[j].at # "none" => posts[j].of \in Things
        /\ r.of \in Things
    BY <1>1, <1>3, AnsweredPost
  <2>2. PopupsShape'
    BY <2>1, <1>0, <1>1, <1>3 DEF PopupsShape
  <2>3. AnswersMatch'
    <3>1. ASSUME NEW j \in PostIDs, j # i, posts[j].at = "answered", posts[j].ok
          PROVE  /\ posts[j].got \in PostIDs /\ posts'[posts[j].got].at \in {"answered", "done"}
                 /\ posts'[posts[j].got].of = posts[j].of /\ (~shared => posts[j].got = j)
      BY <2>1, <3>1, <1>0 DEF AnswersMatch, Made
    <3>2. r.ok => r.got \in PostIDs /\ posts'[r.got].at \in {"answered", "done"} /\ posts'[r.got].of = r.of
                  /\ (~shared => r.got = i)
      BY <2>1, <1>3 DEF Made
    <3>3. \A j \in PostIDs : posts'[j].at # "none" => posts'[j].of \in Things
      BY <2>1
    <3>4. \A j \in PostIDs : posts'[j].at = "sent" => ~posts'[j].ok
      BY <2>1, <1>0, <1>3 DEF AnswersMatch
    <3>5. \A j \in PostIDs : posts'[j].at = "answered" /\ posts'[j].ok =>
            /\ posts'[j].got \in PostIDs /\ posts'[posts'[j].got].at \in {"answered", "done"}
            /\ posts'[posts'[j].got].of = posts'[j].of /\ (~shared => posts'[j].got = j)
      BY <3>1, <3>2, <2>1
    <3> QED BY <3>3, <3>4, <3>5, <1>1 DEF AnswersMatch, Made
  <2>4. ScreenMatches'
    <3>1. newest # 0 /\ posts[newest].at = "done" => posts'[newest].at = "done"
      BY <2>1, <1>1, <1>2
    <3>2. sessionRef # 0 => Made(sessionRef)' /\ posts'[sessionRef].of = popup.of
      BY <2>1, <1>0, <1>1, <1>2 DEF ScreenMatches, Made
    <3>3. ~shared /\ sessionRef # 0 => newest # 0
      BY <1>0 DEF ScreenMatches
    <3>4. popup.phase = "ready" => popup.shows \in PostIDs /\ Made(popup.shows)'
      BY <2>1, <1>0, <1>1 DEF ScreenMatches, Made
    <3>5. newest # 0 => posts'[newest].of = posts[newest].of
      BY <2>1, <1>2
    <3> QED BY <3>1, <3>2, <3>3, <3>4, <3>5, <2>1, <1>0, <1>1 DEF ScreenMatches
  <2>5. AliveApart'
    <3>1. \A s \in PostIDs : live'[s] => Made(s)'
      BY <2>1, <1>0, <1>3 DEF AliveApart
    <3>2. ASSUME shared, NEW s \in PostIDs, NEW t \in PostIDs, live'[s], live'[t], posts[s].of = posts[t].of PROVE s = t
      <4>1. CASE s # i /\ t # i
        BY <4>1, <3>2, <1>0, <1>3 DEF AliveApart
      <4>2. CASE s = i /\ t # i
        BY <4>2, <3>2, <1>3
      <4>3. CASE s # i /\ t = i
        BY <4>3, <3>2, <1>3
      <4> QED BY <4>1, <4>2, <4>3
    <3>3. ~shared => \A s \in ending : posts'[s].at = "done"
      BY <2>1, <1>0, <1>1 DEF AliveApart, PopupsShape
    <3> QED BY <3>1, <3>2, <3>3, <2>1, <1>1 DEF AliveApart
  <2>6. ASSUME ~mishap' PROVE PopupsCalm'
    <3>1. PopupsCalm /\ r.ok /\ live'[r.got] /\ (live'[i] => r.got = i) /\ r.got \in PostIDs
      BY <2>6, <1>3 DEF PopupsInv, PopupsShape
    <3>2. ASSUME NEW s \in PostIDs, live'[s] PROVE Wanted(s)'
      <4>1. CASE r.got = s
        BY <4>1, <2>1, <1>3 DEF Wanted
      <4>2. CASE r.got # s
        <5>1. s # i /\ live[s] /\ Wanted(s) /\ posts'[s].of = posts[s].of
          BY <4>2, <3>1, <3>2, <2>1, <1>3 DEF PopupsCalm
        <5>2. CASE s \in ending \/ s = sessionRef
          BY <5>2, <1>1 DEF Wanted
        <5>3. CASE \E j \in PostIDs : posts[j].at = "answered" /\ posts[j].got = s
          BY <5>3, <2>1, <1>1 DEF Wanted
        <5>4. ASSUME shared, NEW j \in PostIDs, posts[j].at = "sent", posts[j].of = posts[s].of PROVE Wanted(s)'
          <6>1. CASE j # i
            BY <6>1, <5>4, <5>1, <2>1, <1>1 DEF Wanted
          <6>2. CASE j = i
            <7>1. r.got # i
              BY <6>2, <5>1, <5>4, <3>1, <1>3
            <7>2. posts[r.got].of = posts[s].of /\ live[r.got]
              BY <7>1, <6>2, <5>4, <3>1, <1>3
            <7> QED BY <7>2, <5>1, <5>4, <4>2, <3>1, <1>0 DEF AliveApart
          <6> QED BY <6>1, <6>2
        <5> QED BY <5>1, <5>2, <5>3, <5>4 DEF Wanted
      <4> QED BY <4>1, <4>2
    <3>3. \A j \in PostIDs : posts'[j].at = "answered" => posts'[j].ok /\ (shared => live'[posts'[j].got])
      <4> SUFFICES ASSUME NEW j \in PostIDs, posts'[j].at = "answered" PROVE posts'[j].ok /\ (shared => live'[posts'[j].got])
        OBVIOUS
      <4>1. CASE j = i
        BY <4>1, <3>1, <2>1
      <4>2. CASE j # i
        <5>1. posts'[j] = posts[j] /\ posts[j].ok /\ (shared => live[posts[j].got])
          BY <4>2, <3>1, <2>1 DEF PopupsCalm
        <5>2. posts[j].got \in PostIDs /\ posts[j].got # i
          BY <5>1, <4>2, <2>1, <1>0, <1>1 DEF AnswersMatch
        <5> QED BY <5>1, <5>2, <1>3
      <4> QED BY <4>1, <4>2
    <3>4. shared /\ sessionRef # 0 => live'[sessionRef]
      BY <3>1, <1>0, <1>1, <1>2, <1>3 DEF PopupsCalm, ScreenMatches
    <3>5. shared /\ newest # 0 /\ posts'[newest].at = "done" => sessionRef # 0
      BY <3>1, <2>1, <1>2, <1>3 DEF PopupsCalm
    <3> QED BY <3>2, <3>3, <3>4, <3>5, <1>1 DEF PopupsCalm
  <2>7. ShownIsAsked' /\ ShownIsKept'
    BY <2>1, <1>0, <1>1 DEF ShownIsAsked, ShownIsKept
  <2> QED BY <2>2, <2>3, <2>4, <2>5, <2>6, <2>7 DEF PopupsInv
<1> DEFINE is(s) == [p EXCEPT !.at = "answered", !.ok = TRUE, !.got = s]
<1>4. \A s \in PostIDs : /\ is(s) \in PostType /\ is(s).at = "answered" /\ is(s).of = p.of /\ is(s).ok /\ is(s).got = s
                         /\ [posts EXCEPT ![i].at = "answered", ![i].ok = TRUE, ![i].got = s] = [posts EXCEPT ![i] = is(s)]
  BY <1>0, PostIDsType DEF PostType, PopupsShape
<1> HIDE DEF is
<1>5. ASSUME NEW s \in Alive, shared, posts[s].of = p.of, UNCHANGED <<live, mishap>>,
             posts' = [posts EXCEPT ![i].at = "answered", ![i].ok = TRUE, ![i].got = s]
      PROVE  PopupsInv'
  <2>1. s \in PostIDs /\ live[s] /\ Made(s) /\ posts' = [posts EXCEPT ![i] = is(s)] /\ ~live[i]
    BY <1>0, <1>1, <1>4, <1>5 DEF Alive, AliveApart
  <2>2. /\ live' \in [PostIDs -> BOOLEAN] /\ mishap' \in BOOLEAN /\ (mishap => mishap') /\ ~live'[i]
        /\ \A t \in PostIDs \ {i} : live'[t] = live[t]
    BY <2>1, <1>0, <1>5 DEF PopupsShape
  <2>3. is(s) \in PostType /\ is(s).at = "answered" /\ is(s).of = p.of /\ is(s).ok /\ is(s).got = s /\ live'[s]
    BY <2>1, <1>4, <1>5
  <2> QED BY <2>1, <2>2, <2>3, <1>3, <1>5
<1>6. ASSUME ~(shared /\ \E s \in Alive : posts[s].of = p.of), live' = [live EXCEPT ![i] = TRUE], UNCHANGED mishap,
             posts' = [posts EXCEPT ![i].at = "answered", ![i].ok = TRUE, ![i].got = i]
      PROVE  PopupsInv'
  <2>1. posts' = [posts EXCEPT ![i] = is(i)] /\ \A s \in PostIDs : shared /\ live[s] => posts[s].of # p.of
    BY <1>4, <1>6 DEF Alive
  <2>2. live' \in [PostIDs -> BOOLEAN] /\ live'[i] /\ \A s \in PostIDs \ {i} : live'[s] = live[s]
    BY <1>0, <1>6 DEF PopupsShape
  <2>3. is(i) \in PostType /\ is(i).at = "answered" /\ is(i).of = p.of /\ is(i).ok /\ is(i).got = i
    BY <1>4
  <2>4. mishap' \in BOOLEAN /\ (mishap => mishap')
    BY <1>0, <1>6 DEF PopupsShape
  <2> QED BY <2>1, <2>2, <2>3, <2>4, <1>3
<1>7. ASSUME posts' = [posts EXCEPT ![i].at = "answered"], mishap' = TRUE, UNCHANGED live PROVE PopupsInv'
  <2> DEFINE r == [p EXCEPT !.at = "answered"]
  <2>1. posts' = [posts EXCEPT ![i] = r] /\ r \in PostType /\ r.at = "answered" /\ r.of = p.of /\ r.ok = p.ok
    BY <1>0, <1>7 DEF PostType, PopupsShape
  <2>2. ~p.ok
    BY <1>1, <1>0 DEF AnswersMatch
  <2> HIDE DEF r
  <2> QED BY <2>1, <2>2, <1>0, <1>1, <1>3, <1>7 DEF PopupsShape, AliveApart
<1> QED BY <1>5, <1>6, <1>7 DEF ServePost

LEMMA LoseKeeps == ASSUME PopupsInv, NEW i \in PostIDs, Lose(i) PROVE PopupsInv'
<1> DEFINE r == [posts[i] EXCEPT !.ok = FALSE, !.got = 0]
<1>0. PopupsShape /\ AnswersMatch /\ ScreenMatches /\ AliveApart /\ ShownIsAsked /\ ShownIsKept /\ posts[i] \in PostType
  BY DEF PopupsInv, PopupsShape
<1>1. /\ posts[i].at = "answered" /\ mishap' /\ mishap' = TRUE
      /\ UNCHANGED <<shared, popup, newest, sessionRef, openFor, mount, away, live, ending>>
  BY DEF Lose, pageVars, screenRefs
<1>2. r \in PostType /\ r.at = "answered" /\ r.of = posts[i].of /\ ~r.ok /\ posts' = [posts EXCEPT ![i] = r]
  BY <1>0, <1>1, PostIDsType DEF Lose, PostType, PopupsShape
<1>3. /\ posts' \in [PostIDs -> PostType] /\ posts'[i] = r /\ \A j \in PostIDs \ {i} : posts'[j] = posts[j]
      /\ \A j \in PostIDs : posts'[j].of = posts[j].of /\ posts'[j].at = posts[j].at
  BY <1>0, <1>1, <1>2, PostMoves
<1> HIDE DEF r
<1>4. PopupsShape'
  BY <1>0, <1>1, <1>3 DEF PopupsShape
<1>5. AnswersMatch'
  BY <1>0, <1>1, <1>2, <1>3 DEF AnswersMatch, Made
<1>6. newest \in PostIDs \cup {0} /\ sessionRef \in PostIDs \cup {0}
  BY <1>0, PostIDsType DEF PopupsShape
<1>7. ScreenMatches'
  BY <1>0, <1>1, <1>3, <1>6 DEF ScreenMatches, Made
<1>8. AliveApart'
  BY <1>0, <1>1, <1>3, <1>4 DEF AliveApart, Made, PopupsShape
<1>9. ShownIsAsked' /\ ShownIsKept'
  BY <1>0, <1>1, <1>3 DEF ShownIsAsked, ShownIsKept
<1> QED BY <1>1, <1>4, <1>5, <1>7, <1>8, <1>9 DEF PopupsInv

\* A terminal fewer, and a DELETE.
LEMMA EndsKeeps ==
  ASSUME PopupsInv, NEW s \in PostIDs, live' \in {live, [live EXCEPT ![s] = FALSE]},
         ending' \in {ending, ending \ {s}}, ~mishap' => live' = [live EXCEPT ![s] = FALSE],
         mishap' \in BOOLEAN, mishap => mishap', ~mishap' /\ shared => ~HandedOut(s),
         UNCHANGED <<shared, popup, newest, sessionRef, openFor, mount, away, posts>>
  PROVE  PopupsInv'
<1>0. PopupsShape /\ AnswersMatch /\ ScreenMatches /\ AliveApart /\ ShownIsAsked /\ ShownIsKept
  BY DEF PopupsInv
<1>1. live' \in [PostIDs -> BOOLEAN] /\ (\A t \in PostIDs : live'[t] => live[t]) /\ ending' \subseteq ending
      /\ \A t \in PostIDs \ {s} : live'[t] = live[t] /\ (t \in ending => t \in ending')
  BY <1>0 DEF PopupsShape
<1>2. PopupsShape'
  BY <1>0, <1>1 DEF PopupsShape
<1>3. AnswersMatch' /\ ScreenMatches' /\ ShownIsAsked'
  BY <1>0 DEF AnswersMatch, ScreenMatches, ShownIsAsked, Made
<1>4. AliveApart' /\ ShownIsKept'
  BY <1>0, <1>1 DEF AliveApart, ShownIsKept, Made
<1>5. ASSUME ~mishap' PROVE PopupsCalm'
  <2>1. PopupsCalm /\ ~live'[s]
    BY <1>0, <1>5 DEF PopupsInv, PopupsShape
  <2>2. \A t \in PostIDs : live'[t] => Wanted(t)'
    <3> SUFFICES ASSUME NEW t \in PostIDs, live'[t] PROVE Wanted(t)'
      OBVIOUS
    <3>1. t # s /\ live[t] /\ Wanted(t)
      BY <2>1, <1>1 DEF PopupsCalm
    <3> QED BY <3>1, <1>1 DEF Wanted
  <2>3. ASSUME shared PROVE /\ \A j \in PostIDs : posts[j].at = "answered" => live'[posts[j].got]
                            /\ sessionRef # 0 => live'[sessionRef]
    <3>1. s # sessionRef /\ \A j \in PostIDs : posts[j].at = "answered" => posts[j].got # s
      BY <2>3, <1>5 DEF HandedOut
    <3>2. \A j \in PostIDs : posts[j].at = "answered" => posts[j].got \in PostIDs
      BY <2>1, <1>0 DEF PopupsCalm, AnswersMatch
    <3>3. sessionRef \in PostIDs \cup {0}
      BY <1>0, PostIDsType DEF PopupsShape
    <3> QED BY <3>1, <3>2, <3>3, <2>1, <2>3, <1>1 DEF PopupsCalm
  <2> QED BY <2>1, <2>2, <2>3 DEF PopupsCalm
<1> QED BY <1>2, <1>3, <1>4, <1>5 DEF PopupsInv

LEMMA ServerKeeps == ASSUME PopupsInv, NEW s \in PostIDs, Delete(s) \/ TerminalEnds(s) PROVE PopupsInv'
<1>0. mishap \in BOOLEAN /\ shared \in BOOLEAN
  BY DEF PopupsInv, PopupsShape
<1>1. CASE Delete(s)
  <2>1. /\ ending' = ending \ {s} /\ UNCHANGED <<shared, popup, newest, sessionRef, openFor, mount, away, posts>>
        /\ \/ live' = [live EXCEPT ![s] = FALSE] /\ mishap' = (mishap \/ HandedOut(s))
           \/ mishap' = TRUE /\ UNCHANGED live
    BY <1>1 DEF Delete, pageVars, screenRefs
  <2>2. mishap' \in BOOLEAN
    BY <2>1, <1>0 DEF HandedOut
  <2> QED BY <2>1, <2>2, EndsKeeps
<1>2. CASE TerminalEnds(s)
  <2>1. /\ ending' = ending /\ UNCHANGED <<shared, popup, newest, sessionRef, openFor, mount, away, posts>>
        /\ live' = [live EXCEPT ![s] = FALSE] /\ mishap' = (mishap \/ shared)
    BY <1>2 DEF TerminalEnds, pageVars, screenRefs
  <2> QED BY <2>1, <1>0, EndsKeeps
<1> QED BY <1>1, <1>2

LEMMA PopupsStep == PopupsInv /\ [PopupsNext]_popupVars => PopupsInv'
<1> SUFFICES ASSUME PopupsInv, [PopupsNext]_popupVars PROVE PopupsInv'
  OBVIOUS
<1>1. CASE (\E x \in Things : OpenPopup(x)) \/ RetryPopup \/ ClosePopup \/ Remount \/ PageHide \/ PageShow
  BY <1>1, PageKeeps
<1>2. ASSUME NEW i \in PostIDs, ServePost(i) \/ Lose(i) \/ PostAnswered(i) \/ Delete(i) \/ TerminalEnds(i)
      PROVE  PopupsInv'
  BY <1>2, ServePostKeeps, LoseKeeps, PostAnsweredKeeps, ServerKeeps
<1>3. CASE UNCHANGED popupVars
  <2>1. UNCHANGED <<shared, popup, newest, sessionRef, openFor, mount, away, posts, live, ending, mishap>>
    BY <1>3 DEF popupVars, pageVars, screenRefs, wireVars
  <2> QED BY <2>1 DEF PopupsInv, PopupsShape, AnswersMatch, ScreenMatches, AliveApart, PopupsCalm, Wanted, Made,
                     ShownIsAsked, ShownIsKept
<1> QED BY <1>1, <1>2, <1>3 DEF PopupsNext

\* A popup shows a terminal made for what it was opened for, a host's while it
\* is there, and none is left running that nothing shows (useTaskInput,
\* useHostTerminal).
THEOREM PopupsHoldCorrect == PopupsSpec => []PopupsHold
<1>1. PopupsInv => PopupsHold
  <2> SUFFICES ASSUME PopupsInv PROVE PopupsHold
    OBVIOUS
  <2>1. NoneLeftOpen
    BY DEF PopupsInv, PopupsCalm, Wanted, NoneLeftOpen, Alive
  <2> QED BY <2>1 DEF PopupsInv, PopupsHold
<1> QED BY <1>1, PopupsInvInit, PopupsStep, PTL DEF PopupsSpec

\* What the dashboard shows, of its popups and its collections together: both
\* may take their steps in any order.
THEOREM DashboardHoldsCorrect == PopupsSpec /\ CollectionsSpec => []DashboardHolds
<1>1. PopupsHold /\ CollectionsHold => DashboardHolds
  BY DEF DashboardHolds
<1> QED BY <1>1, PopupsHoldCorrect, CollectionsHoldCorrect, PTL

-----------------------------------------------------------------------------
(***************************************************************************)
(* The summaries.  The newest set handed to the store is in the file, or   *)
(* on its way (`LatestKept'); an attempt reads the log as it is by then    *)
(* (`ReadsFollow'), and while none outlived its entry, one attempt runs    *)
(* for a host, of the entry as it is (`OneRuns').                          *)
(***************************************************************************)
Run == [id : Nat, host : LogHosts, log : Nat, at : {"waiting", "slot", "done"}, read : Nat,
        outcome : {"none", "failed", "unreadable", "reused", "answer"}, reuse : Nat]
Answer == [host : LogHosts, result : Nat \ {0}, log : Nat]

SumShape ==
  /\ log \in [LogHosts -> Nat \ {0}] /\ listed \in [LogHosts -> Nat] /\ begun \in Nat
  /\ entry \in [LogHosts -> {NoEntry} \cup Summary] /\ runs \subseteq Run
  /\ loaded \in BOOLEAN /\ storeErr \in BOOLEAN /\ usable \in BOOLEAN /\ outlived \in BOOLEAN
  /\ gen \in Nat /\ attempted \in 0..gen /\ answers \subseteq Answer
  /\ saves \subseteq [gen : 0..gen, set : SUBSET Answer]

NothingLoaded == ~loaded => saves = {} /\ attempted = gen /\ answers = found

LatestKept ==
  /\ \A s \in saves : s.gen = gen => Stored(entry) \subseteq s.set
  /\ loaded => \/ \E s \in saves : s.gen = gen
               \/ attempted = gen /\ (storeErr \/ Stored(entry) \subseteq answers)

ReadsFollow ==
  /\ \A h \in LogHosts : listed[h] =< log[h]
  /\ \A r \in runs :
       /\ r.log =< log[r.host]
       /\ r.at = "done" => r.log =< r.read /\ 0 < r.read /\ r.read =< log[r.host]
                           /\ (r.outcome = "reused" => r.reuse = ExcerptOf(r.read))

OneRuns ==
  \A r \in runs :
    /\ entry[r.host] # NoEntry /\ entry[r.host].running
    /\ r.reuse = IF entry[r.host].result = 0 THEN 0 ELSE ExcerptOf(entry[r.host].result)
    /\ \A q \in runs : q.host = r.host => q = r

IsCurrentAnswer(s) == \E v \in s.log..log[s.host] : ExcerptOf(v) = ExcerptOf(s.result)

AllCurrent ==
  /\ \A s \in Stored(entry) : IsCurrentAnswer(s)
  /\ \A s \in answers : IsCurrentAnswer(s)
  /\ \A w \in saves : \A s \in w.set : IsCurrentAnswer(s)

SumInv == SumShape /\ NothingLoaded /\ LatestKept /\ ReadsFollow /\ (~outlived => OneRuns /\ AllCurrent)

LEMMA ExcerptsCount == \A n \in Nat : ExcerptOf(n) \in Nat /\ (n > 0 => ExcerptOf(n) > 0)
BY DEF ExcerptOf

LEMMA StoredMember ==
  ASSUME NEW e, NEW s
  PROVE  s \in Stored(e) <=> \E h \in LogHosts : /\ e[h] # NoEntry /\ e[h].result # 0
                                                /\ s = [host |-> h, result |-> e[h].result, log |-> e[h].resultLog]
BY DEF Stored

LEMMA StoredType ==
  ASSUME NEW e \in [LogHosts -> {NoEntry} \cup Summary] PROVE Stored(e) \in SUBSET Answer
<1> SUFFICES ASSUME NEW s \in Stored(e) PROVE s \in Answer
  OBVIOUS
<1>1. PICK h \in LogHosts : e[h] # NoEntry /\ e[h].result # 0
                            /\ s = [host |-> h, result |-> e[h].result, log |-> e[h].resultLog]
  BY StoredMember
<1>2. e[h] \in Summary
  BY <1>1
<1> QED BY <1>1, <1>2 DEF Summary, Answer

\* Entries that keep their answers, or lose them, store no more.
LEMMA StoredFewer ==
  ASSUME NEW e, NEW f,
         \A h \in LogHosts : f[h] # NoEntry /\ f[h].result # 0 =>
           e[h] # NoEntry /\ e[h].result = f[h].result /\ e[h].resultLog = f[h].resultLog
  PROVE  Stored(f) \subseteq Stored(e)
<1> SUFFICES ASSUME NEW s \in Stored(f) PROVE s \in Stored(e)
  OBVIOUS
<1>1. PICK h \in LogHosts : f[h] # NoEntry /\ f[h].result # 0
                            /\ s = [host |-> h, result |-> f[h].result, log |-> f[h].resultLog]
  BY StoredMember
<1> QED BY <1>1, StoredMember

\* An answer stays current for a log that only grows.
LEMMA StaysCurrent ==
  ASSUME NEW s \in Answer, IsCurrentAnswer(s), log \in [LogHosts -> Nat \ {0}], log' \in [LogHosts -> Nat \ {0}],
         \A h \in LogHosts : log[h] =< log'[h]
  PROVE  IsCurrentAnswer(s)'
<1>1. s.host \in LogHosts /\ s.log \in Nat /\ log[s.host] \in Nat /\ log'[s.host] \in Nat /\ log[s.host] =< log'[s.host]
  BY DEF Answer
<1>2. s.log..log[s.host] \subseteq s.log..log'[s.host]
  BY <1>1
<1> QED BY <1>2 DEF IsCurrentAnswer

LEMMA AllStayCurrent ==
  ASSUME SumShape, AllCurrent, log' \in [LogHosts -> Nat \ {0}], \A h \in LogHosts : log[h] =< log'[h],
         \A s \in Stored(entry') : s \in Stored(entry) \/ s \in answers \/ (s \in Answer /\ IsCurrentAnswer(s)'),
         \A w \in saves' : w \in saves \/ w.set = Stored(entry'),
         \A s \in answers' : s \in answers \/ \E w \in saves : s \in w.set
  PROVE  AllCurrent'
<1>1. \A s \in answers : IsCurrentAnswer(s)'
  BY StaysCurrent DEF SumShape, AllCurrent
<1>2. \A w \in saves : \A s \in w.set : IsCurrentAnswer(s)'
  BY StaysCurrent DEF SumShape, AllCurrent
<1>3. \A s \in Stored(entry) : IsCurrentAnswer(s)'
  <2>1. Stored(entry) \in SUBSET Answer
    BY StoredType DEF SumShape
  <2> QED BY <2>1, StaysCurrent DEF SumShape, AllCurrent
<1>4. \A s \in Stored(entry') : IsCurrentAnswer(s)'
  BY <1>1, <1>3
<1> QED BY <1>1, <1>2, <1>4 DEF AllCurrent

\* What is handed to the store is the newest, and is on its way.
LEMMA SaveKeeps ==
  ASSUME SumShape, LatestKept, NEW dirty \in BOOLEAN, Save(dirty), entry' \in [LogHosts -> {NoEntry} \cup Summary],
         loaded' \in BOOLEAN, UNCHANGED attempted, ~loaded' => saves = {},
         ~dirty /\ loaded' =>
           /\ \A s \in saves : s.gen = gen => Stored(entry') \subseteq s.set
           /\ \/ \E s \in saves : s.gen = gen
              \/ attempted = gen /\ (storeErr' \/ Stored(entry') \subseteq answers')
  PROVE  /\ gen' \in Nat /\ attempted' \in 0..gen' /\ saves' \subseteq [gen : 0..gen', set : SUBSET Answer]
         /\ LatestKept' /\ (\A w \in saves' : w \in saves \/ w.set = Stored(entry'))
         /\ (~loaded' => UNCHANGED <<gen, saves>>)
<1>0. gen \in Nat /\ attempted \in 0..gen /\ saves \subseteq [gen : 0..gen, set : SUBSET Answer] /\ Stored(entry') \in SUBSET Answer
  BY StoredType DEF SumShape
<1>1. CASE dirty /\ loaded'
  <2> DEFINE new == [gen |-> gen + 1, set |-> Stored(entry')]
  <2>1. gen' = gen + 1 /\ saves' = saves \cup {new}
    BY <1>1 DEF Save
  <2>2. new \in [gen : 0..gen', set : SUBSET Answer] /\ new.gen = gen' /\ new.set = Stored(entry')
    BY <1>0, <2>1
  <2>3. \A s \in saves : s.gen # gen' /\ s \in [gen : 0..gen', set : SUBSET Answer]
    <3>1. \A s \in saves : s \in [gen : 0..gen, set : SUBSET Answer]
      BY <1>0
    <3>2. 0..gen \subseteq 0..gen' /\ gen' \notin 0..gen
      BY <1>0, <2>1
    <3> QED BY <3>1, <3>2
  <2> HIDE DEF new
  <2> QED BY <1>0, <2>1, <2>2, <2>3, <1>1 DEF LatestKept
<1>2. CASE ~(dirty /\ loaded')
  <2>1. UNCHANGED <<gen, saves>>
    BY <1>2 DEF Save
  <2> QED BY <2>1, <1>0, <1>2 DEF LatestKept
<1> QED BY <1>1, <1>2

LEMMA WriteSaveKeeps == ASSUME SumInv, NEW s \in saves, WriteSave(s) PROVE SumInv'
<1>0. SumShape /\ NothingLoaded /\ LatestKept /\ ReadsFollow
  BY DEF SumInv
<1>1. /\ saves' = saves \ {s} /\ UNCHANGED <<log, remote, listed, hosts, entry, runs, begun, loaded, gen, found, outlived>>
  BY DEF WriteSave, logVars, summaryVars
<1>2. s.gen \in 0..gen /\ s.set \in SUBSET Answer /\ gen \in Nat /\ attempted \in 0..gen
  BY <1>0 DEF SumShape
<1>3. /\ attempted' \in 0..gen /\ storeErr' \in BOOLEAN /\ usable' \in BOOLEAN /\ answers' \in {answers, s.set}
  BY <1>0, <1>2 DEF WriteSave, SumShape
<1>4. SumShape'
  <2>1. answers' \subseteq Answer
    BY <1>0, <1>2, <1>3 DEF SumShape
  <2>2. saves' \subseteq [gen : 0..gen, set : SUBSET Answer]
    BY <1>0, <1>1 DEF SumShape
  <2> QED BY <2>1, <2>2, <1>0, <1>1, <1>3 DEF SumShape
<1>5. NothingLoaded'
  <2>1. loaded
    BY <1>0 DEF NothingLoaded, SumShape
  <2> QED BY <2>1, <1>1 DEF NothingLoaded
<1>6. LatestKept'
  <2>1. \A w \in saves' : w.gen = gen' => Stored(entry') \subseteq w.set
    BY <1>0, <1>1 DEF LatestKept
  <2>2. CASE s.gen = gen
    <3>1. InOrder(s) /\ Stored(entry) \subseteq s.set
      BY <1>0, <1>2, <2>2 DEF InOrder, LatestKept
    <3>2. attempted' = gen' /\ (storeErr' \/ Stored(entry') \subseteq answers')
      BY <3>1, <1>1, <2>2 DEF WriteSave
    <3> QED BY <2>1, <3>2 DEF LatestKept
  <2>3. CASE s.gen # gen /\ \E w \in saves : w.gen = gen
    <3>1. \E w \in saves' : w.gen = gen'
      BY <2>3, <1>1
    <3> QED BY <2>1, <3>1 DEF LatestKept
  <2>4. CASE s.gen # gen /\ ~\E w \in saves : w.gen = gen
    <3>1. loaded => attempted = gen /\ (storeErr \/ Stored(entry) \subseteq answers)
      BY <1>0, <2>4 DEF LatestKept
    <3>2. loaded => ~InOrder(s)
      BY <3>1, <1>2, <2>4 DEF InOrder
    <3>3. loaded => UNCHANGED <<attempted, storeErr, answers>>
      BY <3>2 DEF WriteSave
    <3> QED BY <2>1, <3>1, <3>3, <1>1 DEF LatestKept
  <2> QED BY <2>2, <2>3, <2>4
<1>7. ReadsFollow' /\ (~outlived' => OneRuns')
  BY <1>0, <1>1 DEF SumInv, ReadsFollow, OneRuns
<1>8. ASSUME ~outlived' PROVE AllCurrent'
  <2>1. AllCurrent
    BY <1>1, <1>8 DEF SumInv
  <2>2. \A h \in LogHosts : log[h] =< log[h]
    BY <1>0 DEF SumShape
  <2> QED BY <2>1, <2>2, <1>0, <1>1, <1>3, AllStayCurrent DEF SumShape
<1> QED BY <1>4, <1>5, <1>6, <1>7, <1>8 DEF SumInv

\* The runs that move, one at a time, without the entries and the store.
LEMMA RunKeeps ==
  ASSUME SumInv, NEW r \in runs, NEW q \in Run, q.host = r.host, q.log = r.log, q.reuse = r.reuse,
         q.at = "done" => q.log =< q.read /\ 0 < q.read /\ q.read =< log[q.host]
                          /\ (q.outcome = "reused" => q.reuse = ExcerptOf(q.read)),
         runs' = (runs \ {r}) \cup {q},
         UNCHANGED <<log, remote, listed, hosts, entry, begun, loaded, gen, saves, attempted, storeErr, answers, usable,
                     found, outlived>>
  PROVE  SumInv'
<1>0. SumShape /\ NothingLoaded /\ LatestKept /\ ReadsFollow
  BY DEF SumInv
<1>1. SumShape' /\ NothingLoaded' /\ LatestKept'
  BY <1>0 DEF SumShape, NothingLoaded, LatestKept
<1>2. ReadsFollow'
  BY <1>0 DEF ReadsFollow
<1>3. ASSUME ~outlived' PROVE OneRuns' /\ AllCurrent'
  BY <1>3 DEF SumInv, OneRuns, AllCurrent, IsCurrentAnswer
<1> QED BY <1>1, <1>2, <1>3 DEF SumInv

LEMMA AttemptKeeps == ASSUME SumInv, NEW r \in runs, TakeSlot(r) \/ Summarize(r) PROVE SumInv'
<1>0. r \in Run /\ r.log =< log[r.host] /\ log[r.host] \in Nat \ {0} /\ r.log \in Nat
  BY DEF SumInv, SumShape, ReadsFollow, Run
<1>1. CASE TakeSlot(r)
  <2> DEFINE q == [r EXCEPT !.at = "slot"]
  <2>1. q \in Run /\ q.at = "slot" /\ q.host = r.host /\ q.log = r.log /\ q.reuse = r.reuse /\ runs' = (runs \ {r}) \cup {q}
    BY <1>0, <1>1 DEF TakeSlot, Run
  <2>2. UNCHANGED <<log, remote, listed, hosts, entry, begun, loaded, gen, saves, attempted, storeErr, answers, usable,
                    found, outlived>>
    BY <1>1 DEF TakeSlot, logVars, storeVars
  <2> HIDE DEF q
  <2> QED BY <2>1, <2>2, RunKeeps
<1>2. CASE Summarize(r)
  <2>1. PICK outcome \in {"failed", "unreadable", IF ExcerptOf(log[r.host]) = r.reuse THEN "reused" ELSE "answer"} :
          runs' = (runs \ {r}) \cup {[r EXCEPT !.at = "done", !.read = log[r.host], !.outcome = outcome]}
    BY <1>2 DEF Summarize
  <2> DEFINE q == [r EXCEPT !.at = "done", !.read = log[r.host], !.outcome = outcome]
  <2>2. outcome \in {"failed", "unreadable", "reused", "answer"} /\ (outcome = "reused" => ExcerptOf(log[r.host]) = r.reuse)
    BY <2>1
  <2>3. /\ q \in Run /\ q.at = "done" /\ q.host = r.host /\ q.log = r.log /\ q.reuse = r.reuse /\ q.outcome = outcome
        /\ q.read = log[r.host]
    BY <1>0, <2>2 DEF Run
  <2>4. UNCHANGED <<log, remote, listed, hosts, entry, begun, loaded, gen, saves, attempted, storeErr, answers, usable,
                    found, outlived>>
    BY <1>2 DEF Summarize, logVars, storeVars
  <2>5. runs' = (runs \ {r}) \cup {q}
    BY <2>1
  <2> HIDE DEF q
  <2> QED BY <1>0, <2>2, <2>3, <2>4, <2>5, RunKeeps
<1> QED BY <1>1, <1>2

LEMMA FinishSummaryKeeps == ASSUME SumInv, NEW r \in runs, FinishSummary(r) PROVE SumInv'
<1> DEFINE h == r.host
           e == entry[h]
           said == IF r.outcome \in {"failed", "unreadable"} THEN r.outcome
                   ELSE IF r.outcome = "answer" \/ e.result # 0 THEN "ok"
                   ELSE "none"
           tried == [e EXCEPT !.running = FALSE, !.triedLog = r.log, !.last = said]
           ended == CASE r.outcome = "answer" -> [tried EXCEPT !.result = r.read, !.resultLog = r.log]
                      [] r.outcome = "reused" -> [tried EXCEPT !.resultLog = r.log]
                      [] OTHER -> tried
           dirty == e # NoEntry /\ r.outcome \in {"answer", "reused"}
<1>0. SumShape /\ NothingLoaded /\ LatestKept /\ ReadsFollow /\ r \in Run
  BY DEF SumInv, SumShape
<1>1. /\ h \in LogHosts /\ r.log \in Nat /\ r.read \in Nat /\ r.log =< r.read /\ 0 < r.read /\ r.read =< log[h]
      /\ r.outcome \in {"none", "failed", "unreadable", "reused", "answer"}
      /\ r.outcome = "reused" => r.reuse = ExcerptOf(r.read)
  BY <1>0 DEF FinishSummary, ReadsFollow, Run
<1>2. /\ runs' = runs \ {r} /\ Save(dirty)
      /\ UNCHANGED <<log, remote, listed, hosts, begun, loaded, storeErr, answers, usable, attempted, found, outlived>>
  BY DEF FinishSummary, logVars
<1>3. entry' = IF e = NoEntry THEN entry ELSE [entry EXCEPT ![h] = ended]
  BY DEF FinishSummary, AttemptedLog
<1>4. said \in {"none", "ok", "failed", "unreadable"}
  BY <1>1
<1> HIDE DEF said
<1>5. ASSUME e # NoEntry
      PROVE  /\ ended \in Summary /\ ~ended.running /\ (r.outcome \notin {"answer", "reused"} => ended.result = e.result /\ ended.resultLog = e.resultLog)
             /\ (r.outcome = "answer" => ended.result = r.read /\ ended.resultLog = r.log)
             /\ (r.outcome = "reused" => ended.result = e.result /\ ended.resultLog = r.log)
  <2>1. e \in Summary
    BY <1>0, <1>1, <1>5 DEF SumShape
  <2>2. tried \in Summary /\ ~tried.running /\ tried.result = e.result /\ tried.resultLog = e.resultLog
    BY <2>1, <1>1, <1>4 DEF Summary
  <2> HIDE DEF tried
  <2> QED BY <2>2, <1>1 DEF Summary
<1> HIDE DEF ended
<1>6. /\ entry' \in [LogHosts -> {NoEntry} \cup Summary] /\ \A g \in LogHosts \ {h} : entry'[g] = entry[g]
      /\ e = NoEntry => entry'[h] = NoEntry
      /\ e # NoEntry => entry'[h] = ended /\ ended # NoEntry
  BY <1>0, <1>1, <1>3, <1>5, SummariesAssumption DEF SumShape
<1>7. ~dirty => Stored(entry') \subseteq Stored(entry)
  <2>1. ~dirty => \A g \in LogHosts : entry'[g] # NoEntry /\ entry'[g].result # 0 =>
                    entry[g] # NoEntry /\ entry[g].result = entry'[g].result /\ entry[g].resultLog = entry'[g].resultLog
    BY <1>5, <1>6
  <2> QED BY <2>1, StoredFewer
<1>8. dirty \in BOOLEAN
  OBVIOUS
<1> HIDE DEF dirty
<1>9. /\ gen' \in Nat /\ attempted' \in 0..gen' /\ saves' \subseteq [gen : 0..gen', set : SUBSET Answer]
      /\ LatestKept' /\ (\A w \in saves' : w \in saves \/ w.set = Stored(entry'))
      /\ (~loaded' => UNCHANGED <<gen, saves>>)
  <2>1. loaded' \in BOOLEAN /\ (~loaded' => saves = {})
    BY <1>0, <1>2 DEF SumShape, NothingLoaded
  <2>2. ~dirty /\ loaded' =>
           /\ \A s \in saves : s.gen = gen => Stored(entry') \subseteq s.set
           /\ \/ \E s \in saves : s.gen = gen
              \/ attempted = gen /\ (storeErr' \/ Stored(entry') \subseteq answers')
    BY <1>0, <1>2, <1>7 DEF LatestKept
  <2> QED BY <2>1, <2>2, <1>0, <1>2, <1>6, <1>8, SaveKeeps
<1>10. SumShape'
  BY <1>0, <1>2, <1>6, <1>9 DEF SumShape
<1>11. NothingLoaded'
  BY <1>0, <1>2, <1>9 DEF NothingLoaded
<1>12. ReadsFollow'
  BY <1>0, <1>2 DEF ReadsFollow
<1>13. ASSUME ~outlived' PROVE OneRuns' /\ AllCurrent'
  <2>1. OneRuns /\ AllCurrent
    BY <1>2, <1>13 DEF SumInv
  <2>2. \A q \in runs' : q.host # h /\ q \in runs /\ q.host \in LogHosts
    BY <2>1, <1>0, <1>2 DEF OneRuns, SumShape, Run
  <2>3. OneRuns'
    BY <2>1, <2>2, <1>6 DEF OneRuns
  <2>4. ASSUME NEW s \in Stored(entry') PROVE s \in Stored(entry) \/ (s \in Answer /\ IsCurrentAnswer(s)')
    <3>1. PICK g \in LogHosts : entry'[g] # NoEntry /\ entry'[g].result # 0
                                /\ s = [host |-> g, result |-> entry'[g].result, log |-> entry'[g].resultLog]
      BY <2>4, StoredMember
    <3>2. CASE g # h
      BY <3>1, <3>2, <1>6, StoredMember
    <3>3. CASE g = h
      <4>1. e # NoEntry /\ entry'[h] = ended
        BY <3>1, <3>3, <1>6
      <4>2. CASE r.outcome \notin {"answer", "reused"}
        BY <4>1, <4>2, <3>1, <3>3, <1>5, StoredMember
      <4>3. CASE r.outcome \in {"answer", "reused"}
        <5>1. s.host = h /\ s.log = r.log /\ s.result = ended.result /\ s \in Answer
          <6>1. s \in Stored(entry') /\ Stored(entry') \in SUBSET Answer
            BY <2>4, <1>6, StoredType
          <6> QED BY <6>1, <4>1, <4>3, <3>1, <3>3, <1>5
        <5>2. ExcerptOf(r.read) = ExcerptOf(s.result)
          <6>1. CASE r.outcome = "answer"
            BY <6>1, <5>1, <4>1, <1>5
          <6>2. CASE r.outcome = "reused"
            <7>1. r.reuse = IF e.result = 0 THEN 0 ELSE ExcerptOf(e.result)
              BY <2>1 DEF OneRuns
            <7>2. ExcerptOf(r.read) # 0
              BY <1>1, ExcerptsCount
            <7> QED BY <7>1, <7>2, <6>2, <5>1, <4>1, <1>1, <1>5
          <6> QED BY <4>3, <6>1, <6>2
        <5>3. log[h] \in Nat /\ r.read \in s.log..log[s.host]
          BY <5>1, <1>0, <1>1 DEF SumShape
        <5> QED BY <5>1, <5>2, <5>3, <1>2 DEF IsCurrentAnswer
      <4> QED BY <4>2, <4>3
    <3> QED BY <3>2, <3>3
  <2>5. \A g \in LogHosts : log[g] =< log'[g]
    BY <1>0, <1>2 DEF SumShape
  <2> QED BY <2>1, <2>3, <2>4, <2>5, <1>0, <1>2, <1>9, AllStayCurrent DEF SumShape
<1> QED BY <1>9, <1>10, <1>11, <1>12, <1>13 DEF SumInv

\* What the load leaves in memory: an entry that was there, or one of the file.
LEMMA LoadedEntries ==
  ASSUME SumShape, NEW read \in BOOLEAN
  PROVE  LET e == EntriesLoaded(read) IN
         /\ e \in [LogHosts -> {NoEntry} \cup Summary]
         /\ \A h \in LogHosts :
              \/ e[h] = entry[h]
              \/ /\ entry[h] = NoEntry /\ read /\ usable /\ e[h] # NoEntry /\ ~e[h].running
                 /\ [host |-> h, result |-> e[h].result, log |-> e[h].resultLog] \in answers
<1> DEFINE restores == IF read /\ usable THEN {s \in answers : KeptHost(s.host) /\ entry[s.host] = NoEntry} ELSE {}
           restored(s) == [FreshSummary EXCEPT !.result = s.result, !.resultLog = s.log, !.triedLog = s.log, !.last = "ok"]
           e == EntriesLoaded(read)
           chosen(h) == CHOOSE s \in restores : s.host = h
<1>1. e = [h \in LogHosts |-> IF \E s \in restores : s.host = h THEN restored(chosen(h)) ELSE entry[h]]
  BY DEF EntriesLoaded
<1>2. restores \subseteq answers /\ (restores # {} => read /\ usable) /\ \A s \in restores : entry[s.host] = NoEntry
  OBVIOUS
<1>3. \A s \in Answer : /\ restored(s) \in Summary /\ restored(s).result = s.result /\ restored(s).resultLog = s.log
                        /\ ~restored(s).running
  BY DEF FreshSummary, Summary, Answer
<1> HIDE DEF restores, restored
<1>4. ASSUME NEW h \in LogHosts, \E s \in restores : s.host = h
      PROVE  /\ e[h] \in Summary /\ entry[h] = NoEntry /\ read /\ usable /\ ~e[h].running
             /\ [host |-> h, result |-> e[h].result, log |-> e[h].resultLog] \in answers
  <2>1. chosen(h) \in restores /\ chosen(h).host = h
    BY <1>4
  <2>2. chosen(h) \in Answer /\ chosen(h) \in answers
    BY <2>1, <1>2 DEF SumShape
  <2>3. e[h] = restored(chosen(h))
    BY <1>1, <1>4
  <2>4. [host |-> h, result |-> chosen(h).result, log |-> chosen(h).log] = chosen(h)
    BY <2>1, <2>2 DEF Answer
  <2> HIDE DEF chosen, e
  <2> QED BY <2>1, <2>2, <2>3, <2>4, <1>2, <1>3
<1>5. ASSUME NEW h \in LogHosts, ~\E s \in restores : s.host = h PROVE e[h] = entry[h] /\ entry[h] \in {NoEntry} \cup Summary
  BY <1>1, <1>5 DEF SumShape
<1>6. e \in [LogHosts -> {NoEntry} \cup Summary]
  <2>1. \A h \in LogHosts : e[h] \in {NoEntry} \cup Summary
    BY <1>4, <1>5
  <2>2. e = [h \in LogHosts |-> e[h]]
    BY <1>1
  <2> HIDE DEF e
  <2> QED BY <2>1, <2>2
<1> HIDE DEF e
<1> QED BY <1>4, <1>5, <1>6, SummariesAssumption DEF e

\* Attempts that begin, on entries that were loaded and some dropped.
LEMMA AttemptBegins ==
  ASSUME SumInv, NEW read \in LoadReads, LoadStore(read), NEW dirty \in BOOLEAN, Save(dirty), DirtyLoaded(read) => dirty,
         NEW pruned \in SUBSET {h \in LogHosts : entry[h] # NoEntry /\ ~entry[h].running}, pruned # {} => dirty,
         NEW due \in SUBSET LogHosts, due \cap pruned = {},
         \A h \in due : EntriesLoaded(read)[h] = NoEntry \/ ~EntriesLoaded(read)[h].running,
         Attempts([h \in LogHosts |-> IF h \in pruned THEN NoEntry ELSE EntriesLoaded(read)[h]], due),
         UNCHANGED <<log, remote, listed, hosts, attempted, found>>
  PROVE  SumInv'
<1> DEFINE e == EntriesLoaded(read)
           f == [h \in LogHosts |-> IF h \in pruned THEN NoEntry ELSE e[h]]
           begins(h) == [IF f[h] = NoEntry THEN FreshSummary ELSE f[h] EXCEPT !.running = TRUE]
           reuse(h) == IF f[h] = NoEntry \/ f[h].result = 0 THEN 0 ELSE ExcerptOf(f[h].result)
           run(h, i) == [id |-> i, host |-> h, log |-> listed[h], at |-> "waiting", read |-> 0, outcome |-> "none",
                         reuse |-> reuse(h)]
<1>0. SumShape /\ NothingLoaded /\ LatestKept /\ ReadsFollow /\ read \in BOOLEAN /\ (loaded => ~read)
  BY DEF SumInv, LoadReads
<1>1. /\ e \in [LogHosts -> {NoEntry} \cup Summary]
      /\ \A h \in LogHosts :
              \/ e[h] = entry[h]
              \/ /\ entry[h] = NoEntry /\ read /\ usable /\ e[h] # NoEntry /\ ~e[h].running
                 /\ [host |-> h, result |-> e[h].result, log |-> e[h].resultLog] \in answers
  BY <1>0, LoadedEntries
<1>2. \A h \in due : e[h] = NoEntry \/ ~e[h].running
  OBVIOUS
<1>3. Attempts(f, due) /\ UNCHANGED outlived
  BY DEF LoadStore
<1> HIDE DEF e
<1>4. f \in [LogHosts -> {NoEntry} \cup Summary] /\ \A h \in LogHosts : f[h] = IF h \in pruned THEN NoEntry ELSE e[h]
  BY <1>1
<1> HIDE DEF f
<1>5. \A h \in LogHosts : begins(h) \in Summary /\ begins(h).running
                          /\ (f[h] = NoEntry => begins(h).result = 0)
                          /\ (f[h] # NoEntry => begins(h).result = f[h].result /\ begins(h).resultLog = f[h].resultLog)
  <2> SUFFICES ASSUME NEW h \in LogHosts
               PROVE  begins(h) \in Summary /\ begins(h).running
                      /\ (f[h] = NoEntry => begins(h).result = 0)
                      /\ (f[h] # NoEntry => begins(h).result = f[h].result /\ begins(h).resultLog = f[h].resultLog)
    OBVIOUS
  <2>1. FreshSummary \in Summary /\ FreshSummary.result = 0
    BY DEF FreshSummary, Summary
  <2>2. f[h] # NoEntry => f[h] \in Summary
    BY <1>4
  <2> QED BY <2>1, <2>2 DEF Summary
<1>6. entry' = [h \in LogHosts |-> IF h \in due THEN begins(h) ELSE f[h]]
  BY <1>3 DEF Attempts
<1>7. PICK id \in [due -> begun + 1..begun + Cardinality(due)] :
        runs' = runs \cup {run(h, id[h]) : h \in due}
  BY <1>3 DEF Attempts
<1>8. begun' = begun + Cardinality(due) /\ Cardinality(due) \in Nat /\ begun \in Nat /\ \A h \in due : id[h] \in Nat
  <2>1. IsFiniteSet(due)
    BY SummariesAssumption, FS_Subset
  <2>2. Cardinality(due) \in Nat
    BY <2>1, FS_CardinalityType
  <2> QED BY <2>2, <1>0, <1>3 DEF Attempts, SumShape
<1> HIDE DEF begins
<1>9. /\ entry' \in [LogHosts -> {NoEntry} \cup Summary]
      /\ \A h \in LogHosts : entry'[h] = IF h \in due THEN begins(h) ELSE f[h]
  BY <1>4, <1>5, <1>6
<1>10. \A h \in LogHosts : reuse(h) \in Nat /\ reuse(h) = IF begins(h).result = 0 THEN 0 ELSE ExcerptOf(begins(h).result)
  <2> SUFFICES ASSUME NEW h \in LogHosts
               PROVE  reuse(h) \in Nat /\ reuse(h) = IF begins(h).result = 0 THEN 0 ELSE ExcerptOf(begins(h).result)
    OBVIOUS
  <2>1. f[h] # NoEntry => f[h].result \in Nat
    BY <1>4 DEF Summary
  <2> QED BY <2>1, <1>5, ExcerptsCount
<1> HIDE DEF reuse
<1>11. \A h \in due : run(h, id[h]) \in Run /\ run(h, id[h]).host = h /\ run(h, id[h]).log = listed[h]
                      /\ run(h, id[h]).at = "waiting" /\ run(h, id[h]).reuse = reuse(h)
  BY <1>0, <1>8, <1>10 DEF Run, SumShape
<1>12. \A s \in Stored(entry') : s \in Stored(entry) \/ (read /\ usable /\ s \in answers)
  <2> SUFFICES ASSUME NEW s \in Stored(entry') PROVE s \in Stored(entry) \/ (read /\ usable /\ s \in answers)
    OBVIOUS
  <2>1. PICK h \in LogHosts : entry'[h] # NoEntry /\ entry'[h].result # 0
                              /\ s = [host |-> h, result |-> entry'[h].result, log |-> entry'[h].resultLog]
    BY StoredMember
  <2>2. h \notin pruned /\ e[h] # NoEntry /\ entry'[h].result = e[h].result /\ entry'[h].resultLog = e[h].resultLog
    BY <2>1, <1>4, <1>5, <1>9
  <2> QED BY <2>1, <2>2, <1>1, StoredMember
<1>13. /\ loaded' \in BOOLEAN /\ storeErr' \in BOOLEAN /\ usable' \in BOOLEAN /\ answers' \subseteq answers
       /\ (loaded => UNCHANGED <<loaded, storeErr, answers, usable>>)
       /\ (~loaded => loaded' = read /\ (read /\ usable => answers' = answers) /\ (~read => answers' = answers))
       /\ (~loaded' => ~loaded)
  BY <1>0 DEF LoadStore, SumShape
<1>14. /\ gen' \in Nat /\ attempted' \in 0..gen' /\ saves' \subseteq [gen : 0..gen', set : SUBSET Answer]
       /\ LatestKept' /\ (\A w \in saves' : w \in saves \/ w.set = Stored(entry'))
       /\ (~loaded' => UNCHANGED <<gen, saves>>)
  <2>1. ~loaded' => saves = {}
    BY <1>0, <1>13 DEF NothingLoaded
  <2>2. ASSUME ~dirty, loaded'
        PROVE  /\ \A s \in saves : s.gen = gen => Stored(entry') \subseteq s.set
               /\ \/ \E s \in saves : s.gen = gen
                  \/ attempted = gen /\ (storeErr' \/ Stored(entry') \subseteq answers')
    <3>1. CASE loaded
      <4>1. Stored(entry') \subseteq Stored(entry)
        BY <3>1, <1>0, <1>12
      <4> QED BY <4>1, <3>1, <1>0, <1>13 DEF LatestKept
    <3>2. CASE ~loaded
      <4>1. read /\ saves = {} /\ attempted = gen
        BY <2>2, <3>2, <1>0, <1>13 DEF NothingLoaded
      <4>2. Stored(entry) = {}
        BY <2>2, <4>1 DEF DirtyLoaded
      <4>3. Stored(entry') \subseteq answers'
        BY <4>1, <4>2, <3>2, <1>12, <1>13
      <4> QED BY <4>1, <4>3
    <3> QED BY <3>1, <3>2
  <2> QED BY <2>1, <2>2, <1>0, <1>9, <1>13, SaveKeeps DEF SumInv
<1>15. SumShape'
  <2>1. runs' \subseteq Run
    BY <1>0, <1>7, <1>11 DEF SumShape
  <2>2. begun' \in Nat
    BY <1>8
  <2> QED BY <2>1, <2>2, <1>0, <1>3, <1>9, <1>13, <1>14 DEF SumShape
<1>16. NothingLoaded'
  BY <1>0, <1>13, <1>14 DEF NothingLoaded
<1>17. ReadsFollow'
  <2>1. \A r \in runs' : r \in runs \/ \E h \in due : r = run(h, id[h])
    BY <1>7
  <2>2. \A h \in due : listed[h] =< log[h]
    BY <1>0 DEF ReadsFollow
  <2> HIDE DEF run
  <2> QED BY <2>1, <2>2, <1>0, <1>11 DEF ReadsFollow
<1>18. ASSUME ~outlived' PROVE OneRuns' /\ AllCurrent'
  <2>1. OneRuns /\ AllCurrent
    BY <1>3, <1>18 DEF SumInv
  <2>2. \A r \in runs : r.host \in LogHosts /\ r.host \notin due /\ r.host \notin pruned /\ entry'[r.host] = entry[r.host]
    <3> SUFFICES ASSUME NEW r \in runs
                 PROVE  r.host \in LogHosts /\ r.host \notin due /\ r.host \notin pruned /\ entry'[r.host] = entry[r.host]
      OBVIOUS
    <3>1. r.host \in LogHosts /\ entry[r.host] # NoEntry /\ entry[r.host].running
      BY <2>1, <1>0 DEF OneRuns, SumShape, Run
    <3>2. e[r.host] = entry[r.host] /\ r.host \notin due /\ r.host \notin pruned
      BY <3>1, <1>1, <1>2
    <3> QED BY <3>1, <3>2, <1>4, <1>9
  <2>3. \A r \in runs' : r \in runs \/ \E h \in due : r = run(h, id[h])
    BY <1>7
  <2>4. \A h \in due : run(h, id[h]).host = h /\ run(h, id[h]).reuse = reuse(h) /\ entry'[h] = begins(h) /\ begins(h) \in Summary
    BY <1>5, <1>9, <1>11
  <2> HIDE DEF run
  <2>5. OneRuns'
    <3> SUFFICES ASSUME NEW r \in runs'
                 PROVE  /\ entry'[r.host] # NoEntry /\ entry'[r.host].running
                        /\ r.reuse = IF entry'[r.host].result = 0 THEN 0 ELSE ExcerptOf(entry'[r.host].result)
                        /\ \A q \in runs' : q.host = r.host => q = r
      BY DEF OneRuns
    <3>1. CASE r \in runs
      BY <3>1, <2>1, <2>2, <2>3, <2>4 DEF OneRuns
    <3>2. CASE \E h \in due : r = run(h, id[h])
      <4>1. PICK h \in due : r = run(h, id[h])
        BY <3>2
      <4>2. entry'[h] # NoEntry /\ entry'[h].running
        BY <2>4, <1>5, SummariesAssumption
      <4>3. \A q \in runs' : q.host = r.host => q = r
        BY <4>1, <2>2, <2>3, <2>4
      <4> QED BY <4>1, <4>2, <4>3, <2>4, <1>10
    <3> QED BY <3>1, <3>2, <2>3
  <2>6. \A h \in LogHosts : log[h] =< log'[h]
    BY <1>0 DEF SumShape
  <2> QED BY <2>1, <2>5, <2>6, <1>0, <1>12, <1>13, <1>14, <1>15, AllStayCurrent DEF SumShape
<1> QED BY <1>14, <1>15, <1>16, <1>17, <1>18 DEF SumInv

LEMMA SumInvInit == SumInit => SumInv
<1> SUFFICES ASSUME SumInit PROVE SumInv
  OBVIOUS
<1>1. /\ log \in [LogHosts -> {1}] /\ listed = [h \in LogHosts |-> 0] /\ entry = [h \in LogHosts |-> NoEntry]
      /\ runs = {} /\ begun = 0 /\ loaded = FALSE /\ gen = 0 /\ saves = {} /\ attempted = 0 /\ storeErr = FALSE
      /\ usable \in BOOLEAN /\ found = answers /\ outlived = FALSE
      /\ \A s \in answers : \E h \in LogHosts : s = [host |-> h, result |-> 1, log |-> 1]
  BY DEF SumInit
<1>2. Stored(entry) = {}
  BY <1>1, StoredMember
<1>3. answers \subseteq Answer
  BY <1>1 DEF Answer
<1>4. \A h \in LogHosts : log[h] = 1 /\ listed[h] = 0
  BY <1>1
<1>5. SumShape
  <2>1. log \in [LogHosts -> Nat \ {0}]
    BY <1>1
  <2>2. listed \in [LogHosts -> Nat] /\ entry \in [LogHosts -> {NoEntry} \cup Summary]
    BY <1>1
  <2>3. attempted \in 0..gen /\ gen \in Nat /\ begun \in Nat
    BY <1>1
  <2> QED BY <2>1, <2>2, <2>3, <1>1, <1>3 DEF SumShape
<1>6. NothingLoaded /\ LatestKept /\ ReadsFollow /\ OneRuns
  BY <1>1, <1>2, <1>4 DEF NothingLoaded, LatestKept, ReadsFollow, OneRuns
<1>7. \A s \in answers : IsCurrentAnswer(s)
  <2> SUFFICES ASSUME NEW s \in answers PROVE IsCurrentAnswer(s)
    OBVIOUS
  <2>1. s.host \in LogHosts /\ s.log = 1 /\ s.result = 1
    BY <1>1
  <2>2. 1 \in s.log..log[s.host]
    BY <1>4, <2>1
  <2> QED BY <2>1, <2>2 DEF IsCurrentAnswer
<1> QED BY <1>1, <1>2, <1>5, <1>6, <1>7 DEF SumInv, AllCurrent

LEMMA DueWaits ==
  ASSUME NEW e \in {NoEntry} \cup Summary, NEW version, NEW retry \in BOOLEAN, Due(e, version, retry)
  PROVE  e = NoEntry \/ ~e.running
BY DEF Due

LEMMA PollKeeps == ASSUME SumInv, Poll PROVE SumInv'
<1>1. PICK automatic \in SUBSET {h \in LogHosts : listed[h] # 0},
           pruned \in SUBSET {h \in LogHosts : entry[h] # NoEntry /\ ~entry[h].running /\ listed[h] = 0},
           read \in LoadReads :
        /\ LoadStore(read)
        /\ Attempts([h \in LogHosts |-> IF h \in pruned THEN NoEntry ELSE EntriesLoaded(read)[h]],
                    {h \in automatic : Due(EntriesLoaded(read)[h], listed[h], FALSE)})
        /\ Save(DirtyLoaded(read) \/ pruned # {})
  BY DEF Poll
<1> DEFINE due == {h \in automatic : Due(EntriesLoaded(read)[h], listed[h], FALSE)}
           dirty == DirtyLoaded(read) \/ pruned # {}
<1>2. read \in BOOLEAN /\ SumShape /\ UNCHANGED <<log, remote, listed, hosts, attempted, found>>
  BY DEF LoadReads, SumInv, Poll, logVars
<1>3. \A h \in due : EntriesLoaded(read)[h] = NoEntry \/ ~EntriesLoaded(read)[h].running
  <2>1. \A h \in LogHosts : EntriesLoaded(read)[h] \in {NoEntry} \cup Summary
    BY <1>2, LoadedEntries
  <2> QED BY <2>1, DueWaits
<1>4. dirty \in BOOLEAN /\ Save(dirty)
  BY <1>1, <1>2 DEF DirtyLoaded
<1>5. due \in SUBSET LogHosts /\ due \cap pruned = {}
      /\ pruned \in SUBSET {h \in LogHosts : entry[h] # NoEntry /\ ~entry[h].running}
  OBVIOUS
<1>6. (DirtyLoaded(read) => dirty) /\ (pruned # {} => dirty)
  OBVIOUS
<1>7. Attempts([h \in LogHosts |-> IF h \in pruned THEN NoEntry ELSE EntriesLoaded(read)[h]], due)
  BY <1>1
<1> HIDE DEF due, dirty
<1> QED BY <1>1, <1>2, <1>3, <1>4, <1>5, <1>6, <1>7, AttemptBegins

LEMMA RequestSummaryKeeps == ASSUME SumInv, NEW h \in LogHosts, RequestSummary(h) PROVE SumInv'
<1>1. PICK read \in LoadReads :
        /\ LoadStore(read)
        /\ Attempts(EntriesLoaded(read), IF Due(EntriesLoaded(read)[h], listed[h], TRUE) THEN {h} ELSE {})
        /\ Save(DirtyLoaded(read))
  BY DEF RequestSummary
<1> DEFINE due == IF Due(EntriesLoaded(read)[h], listed[h], TRUE) THEN {h} ELSE {}
<1>2. read \in BOOLEAN /\ SumShape /\ UNCHANGED <<log, remote, listed, hosts, attempted, found>>
  BY DEF LoadReads, SumInv, RequestSummary, logVars
<1>3. /\ EntriesLoaded(read) \in [LogHosts -> {NoEntry} \cup Summary]
      /\ \A g \in LogHosts : EntriesLoaded(read)[g] \in {NoEntry} \cup Summary
  BY <1>2, LoadedEntries
<1>4. \A g \in due : EntriesLoaded(read)[g] = NoEntry \/ ~EntriesLoaded(read)[g].running
  BY <1>3, DueWaits
<1>5. [g \in LogHosts |-> IF g \in {} THEN NoEntry ELSE EntriesLoaded(read)[g]] = EntriesLoaded(read)
  BY <1>3
<1>6. Attempts([g \in LogHosts |-> IF g \in {} THEN NoEntry ELSE EntriesLoaded(read)[g]], due)
  BY <1>1, <1>5
<1>7. due \in SUBSET LogHosts /\ due \cap {} = {} /\ DirtyLoaded(read) \in BOOLEAN
  BY <1>2 DEF DirtyLoaded
<1> HIDE DEF due
<1>8. {} \in SUBSET {g \in LogHosts : entry[g] # NoEntry /\ ~entry[g].running}
  OBVIOUS
<1> QED BY <1>1, <1>2, <1>4, <1>6, <1>7, <1>8, AttemptBegins

\* What is seen of the logs, which only grow, and of the config.
LEMMA SeenKeeps ==
  ASSUME SumInv, log' \in [LogHosts -> Nat \ {0}], \A h \in LogHosts : log[h] =< log'[h],
         listed' \in [LogHosts -> Nat], \A h \in LogHosts : listed'[h] =< log'[h],
         UNCHANGED <<hosts, entry, runs, begun, storeVars>>
  PROVE  SumInv'
<1>0. SumShape /\ NothingLoaded /\ LatestKept /\ ReadsFollow /\ UNCHANGED <<loaded, gen, saves, attempted, storeErr, answers, usable, found, outlived>>
  BY DEF SumInv, storeVars
<1>1. SumShape' /\ NothingLoaded' /\ LatestKept'
  BY <1>0 DEF SumShape, NothingLoaded, LatestKept
<1>2. ReadsFollow'
  <2>1. ASSUME NEW r \in runs
        PROVE  /\ r.log =< log'[r.host]
               /\ r.at = "done" => r.log =< r.read /\ 0 < r.read /\ r.read =< log'[r.host]
                                   /\ (r.outcome = "reused" => r.reuse = ExcerptOf(r.read))
    <3>1. r.host \in LogHosts /\ r.log \in Nat /\ r.read \in Nat
      BY <1>0 DEF SumShape, Run
    <3>2. log[r.host] \in Nat /\ log'[r.host] \in Nat /\ log[r.host] =< log'[r.host]
      BY <3>1, <1>0 DEF SumShape
    <3>3. r.log =< log[r.host] /\ (r.at = "done" => r.log =< r.read /\ 0 < r.read /\ r.read =< log[r.host]
                                   /\ (r.outcome = "reused" => r.reuse = ExcerptOf(r.read)))
      BY <1>0 DEF ReadsFollow
    <3> QED BY <3>1, <3>2, <3>3
  <2> QED BY <2>1 DEF ReadsFollow
<1>3. ASSUME ~outlived' PROVE OneRuns' /\ AllCurrent'
  <2>1. OneRuns /\ AllCurrent
    BY <1>0, <1>3 DEF SumInv
  <2>2. OneRuns'
    BY <2>1 DEF OneRuns
  <2>3. AllCurrent'
    BY <2>1, <1>0, AllStayCurrent
  <2> QED BY <2>2, <2>3
<1> QED BY <1>0, <1>1, <1>2, <1>3 DEF SumInv

LEMMA SeeingKeeps ==
  ASSUME SumInv, (\E h \in LogHosts : Collect(h) \/ LogGrows(h)) \/ (\E hs \in SUBSET LogHosts : ConfigureHosts(hs))
  PROVE  SumInv'
<1>0. SumShape /\ ReadsFollow
  BY DEF SumInv
<1>1. log \in [LogHosts -> Nat \ {0}] /\ listed \in [LogHosts -> Nat] /\ \A h \in LogHosts : listed[h] =< log[h]
  BY <1>0 DEF SumShape, ReadsFollow
<1>2. ASSUME NEW h \in LogHosts, Collect(h) PROVE SumInv'
  <2>1. UNCHANGED <<log, hosts, entry, runs, begun, storeVars>> /\ \E seen \in {0, log[h]} : listed' = [listed EXCEPT ![h] = seen]
    BY <1>2 DEF Collect, logVars
  <2>2. listed' \in [LogHosts -> Nat] /\ \A g \in LogHosts : listed'[g] =< log'[g] /\ log[g] =< log'[g]
    BY <2>1, <1>1
  <2> QED BY <2>1, <2>2, <1>1, SeenKeeps
<1>3. ASSUME NEW h \in LogHosts, LogGrows(h) PROVE SumInv'
  <2>1. UNCHANGED <<listed, hosts, entry, runs, begun, storeVars>> /\ log' = [log EXCEPT ![h] = @ + 1]
    BY <1>3 DEF LogGrows, summaryVars
  <2>2. log' \in [LogHosts -> Nat \ {0}] /\ \A g \in LogHosts : log[g] =< log'[g] /\ listed'[g] =< log'[g]
    BY <2>1, <1>1
  <2> QED BY <2>1, <2>2, <1>1, SeenKeeps
<1>4. ASSUME NEW hs \in SUBSET LogHosts, ConfigureHosts(hs) PROVE SumInv'
  <2>1. UNCHANGED <<log, listed, hosts, entry, runs, begun, storeVars>>
    BY <1>4 DEF ConfigureHosts, summaryVars
  <2>2. \A g \in LogHosts : log[g] =< log'[g] /\ listed'[g] =< log'[g]
    BY <2>1, <1>1
  <2> QED BY <2>1, <2>2, <1>1, SeenKeeps
<1> QED BY <1>2, <1>3, <1>4

LEMMA ForgetHostsKeeps == ASSUME SumInv, ForgetHosts PROVE SumInv'
<1> DEFINE dirty == \E h \in LogHosts \ remote : entry[h] # NoEntry /\ entry[h].result # 0
<1>0. SumShape /\ NothingLoaded /\ LatestKept /\ ReadsFollow
  BY DEF SumInv
<1>1. /\ listed' = [h \in LogHosts |-> IF h \in remote THEN listed[h] ELSE 0]
      /\ entry' = [h \in LogHosts |-> IF h \in remote THEN entry[h] ELSE NoEntry]
      /\ UNCHANGED <<log, runs, begun, loaded, storeErr, answers, usable, attempted, found>>
      /\ outlived' = (outlived \/ \E r \in runs : r.host \notin remote) /\ Save(dirty)
  BY DEF ForgetHosts, logVars
<1>2. entry' \in [LogHosts -> {NoEntry} \cup Summary] /\ \A h \in LogHosts : entry'[h] = IF h \in remote THEN entry[h] ELSE NoEntry
  BY <1>0, <1>1 DEF SumShape
<1>3. listed' \in [LogHosts -> Nat] /\ \A h \in LogHosts : listed'[h] =< listed[h]
  BY <1>0, <1>1 DEF SumShape
<1>4. Stored(entry') \subseteq Stored(entry)
  BY <1>2, StoredFewer
<1>5. /\ gen' \in Nat /\ attempted' \in 0..gen' /\ saves' \subseteq [gen : 0..gen', set : SUBSET Answer]
      /\ LatestKept' /\ (\A w \in saves' : w \in saves \/ w.set = Stored(entry'))
      /\ (~loaded' => UNCHANGED <<gen, saves>>)
  <2>1. ~loaded' => saves = {}
    BY <1>0, <1>1 DEF NothingLoaded
  <2>2. loaded' \in BOOLEAN /\ dirty \in BOOLEAN
    BY <1>0, <1>1 DEF SumShape
  <2>3. loaded' => /\ \A s \in saves : s.gen = gen => Stored(entry') \subseteq s.set
                   /\ \/ \E s \in saves : s.gen = gen
                      \/ attempted = gen /\ (storeErr' \/ Stored(entry') \subseteq answers')
    BY <1>0, <1>1, <1>4 DEF LatestKept
  <2> HIDE DEF dirty
  <2> QED BY <2>1, <2>2, <2>3, <1>0, <1>1, <1>2, SaveKeeps
<1> HIDE DEF dirty
<1>6. SumShape'
  <2>1. outlived' \in BOOLEAN
    BY <1>0, <1>1 DEF SumShape
  <2> QED BY <2>1, <1>0, <1>1, <1>2, <1>3, <1>5 DEF SumShape
<1>7. NothingLoaded'
  BY <1>0, <1>1, <1>5 DEF NothingLoaded
<1>8. ReadsFollow'
  <2>1. \A h \in LogHosts : listed'[h] =< log[h]
    <3> SUFFICES ASSUME NEW h \in LogHosts PROVE listed'[h] =< log[h]
      OBVIOUS
    <3>1. listed'[h] \in Nat /\ listed[h] \in Nat /\ log[h] \in Nat /\ listed'[h] =< listed[h] /\ listed[h] =< log[h]
      BY <1>0, <1>3 DEF SumShape, ReadsFollow
    <3> QED BY <3>1
  <2> QED BY <2>1, <1>0, <1>1 DEF ReadsFollow
<1>9. ASSUME ~outlived' PROVE OneRuns' /\ AllCurrent'
  <2>1. OneRuns /\ AllCurrent /\ \A r \in runs : r.host \in remote
    BY <1>1, <1>9 DEF SumInv
  <2>2. \A r \in runs : entry'[r.host] = entry[r.host]
    BY <2>1, <1>0, <1>2 DEF SumShape, Run
  <2>3. OneRuns'
    BY <2>1, <2>2, <1>1 DEF OneRuns
  <2>4. \A h \in LogHosts : log[h] =< log'[h]
    BY <1>0, <1>1 DEF SumShape
  <2> QED BY <2>1, <2>3, <2>4, <1>0, <1>1, <1>4, <1>5, AllStayCurrent DEF SumShape
<1> QED BY <1>5, <1>6, <1>7, <1>8, <1>9 DEF SumInv

LEMMA RestartProcessKeeps == ASSUME SumInv, RestartProcess PROVE SumInv'
<1>0. SumShape
  BY DEF SumInv
<1>1. /\ listed' = [h \in LogHosts |-> 0] /\ entry' = [h \in LogHosts |-> NoEntry]
      /\ runs' = {} /\ loaded' = FALSE /\ saves' = {} /\ storeErr' = FALSE /\ attempted' = 0 /\ gen' = 0
      /\ usable' \in {usable, FALSE} /\ found' = answers /\ UNCHANGED <<log, begun, answers, outlived>>
  BY DEF RestartProcess, Forgotten, logVars
<1>2. Stored(entry') = {}
  BY <1>1, StoredMember
<1>3. SumShape'
  <2>1. log' \in [LogHosts -> Nat \ {0}] /\ begun' \in Nat /\ answers' \subseteq Answer /\ outlived' \in BOOLEAN
    BY <1>0, <1>1 DEF SumShape
  <2>2. listed' \in [LogHosts -> Nat] /\ entry' \in [LogHosts -> {NoEntry} \cup Summary]
    BY <1>1
  <2>3. attempted' \in 0..gen' /\ gen' \in Nat
    BY <1>1
  <2>4. usable' \in BOOLEAN
    BY <1>0, <1>1 DEF SumShape
  <2> QED BY <2>1, <2>2, <2>3, <2>4, <1>1 DEF SumShape
<1>4. \A h \in LogHosts : listed'[h] = 0 /\ log'[h] \in Nat
  BY <1>0, <1>1 DEF SumShape
<1>5. NothingLoaded' /\ LatestKept' /\ ReadsFollow' /\ OneRuns'
  BY <1>1, <1>2, <1>4 DEF NothingLoaded, LatestKept, ReadsFollow, OneRuns
<1>6. ASSUME ~outlived' PROVE AllCurrent'
  <2>1. AllCurrent
    BY <1>1, <1>6 DEF SumInv
  <2> QED BY <2>1, <1>1, <1>2 DEF AllCurrent, IsCurrentAnswer
<1> QED BY <1>3, <1>5, <1>6 DEF SumInv

LEMMA SumStep == SumInv /\ [SumNext]_sumVars => SumInv'
<1> SUFFICES ASSUME SumInv, [SumNext]_sumVars PROVE SumInv'
  OBVIOUS
<1>1. CASE Poll
  BY <1>1, PollKeeps
<1>2. CASE ForgetHosts
  BY <1>2, ForgetHostsKeeps
<1>3. CASE RestartProcess
  BY <1>3, RestartProcessKeeps
<1>4. CASE \E h \in LogHosts : RequestSummary(h)
  BY <1>4, RequestSummaryKeeps
<1>5. CASE (\E h \in LogHosts : Collect(h) \/ LogGrows(h)) \/ (\E hs \in SUBSET LogHosts : ConfigureHosts(hs))
  BY <1>5, SeeingKeeps
<1>6. CASE \E r \in runs : TakeSlot(r) \/ Summarize(r)
  BY <1>6, AttemptKeeps
<1>7. CASE \E r \in runs : FinishSummary(r)
  BY <1>7, FinishSummaryKeeps
<1>8. CASE \E s \in saves : WriteSave(s)
  BY <1>8, WriteSaveKeeps
<1>9. CASE UNCHANGED sumVars
  BY <1>9 DEF sumVars, logVars, summaryVars, storeVars, SumInv, SumShape, NothingLoaded, LatestKept, ReadsFollow, OneRuns,
              AllCurrent, IsCurrentAnswer, Stored
<1> QED BY <1>1, <1>2, <1>3, <1>4, <1>5, <1>6, <1>7, <1>8, <1>9 DEF SumNext

\* What is shown of a task and what a restart brings back: an answer in memory
\* is in the file once its saves have ended well, in whatever order they did,
\* and an answer is of an excerpt its log had when it was said to be current.
THEOREM SummariesHoldCorrect == SumSpec => []SummariesHold
<1>1. SumInv => SummariesHold
  <2> SUFFICES ASSUME SumInv PROVE SummariesHold
    OBVIOUS
  <2>1. AnswersAreSaved
    BY DEF SumInv, SumShape, NothingLoaded, LatestKept, AnswersAreSaved
  <2>2. CurrentAnswer
    BY DEF SumInv, AllCurrent, IsCurrentAnswer, CurrentAnswer, AnswerIsCurrent
  <2> QED BY <2>1, <2>2 DEF SummariesHold
<1> QED BY <1>1, SumInvInit, SumStep, PTL DEF SumSpec

\* What the files say of tasks, of the summaries and of the records together.
THEOREM FilesHoldCorrect == SumSpec /\ RecordsSpec => []FilesHold
<1>1. SummariesHold /\ RecordsHold => FilesHold
  BY DEF FilesHold
<1> QED BY <1>1, SummariesHoldCorrect, RecordsHoldCorrect, PTL

-----------------------------------------------------------------------------
(***************************************************************************)
(* The types.  An answer is of a version, never of none: an attempt is     *)
(* begun at one that was listed, and one that ended has read one           *)
(* (`SumBounded').  A version of the server's is of a request it served,   *)
(* and no more saves are answered than requests are done (`Counted').      *)
(***************************************************************************)
AnEntry ==
  {e \in [result : 0..MaxLog, resultLog : 0..MaxLog, triedLog : 0..MaxLog,
          last : {"none", "ok", "failed", "unreadable"}, running : BOOLEAN] : e.result # 0 => e.resultLog # 0}

ARun ==
  {r \in [id : Nat, host : LogHosts, log : 1..MaxLog, at : {"waiting", "slot", "done"}, read : 0..MaxLog,
          outcome : {"none", "failed", "unreadable", "reused", "answer"}, reuse : 0..MaxLog] : r.at = "done" => r.read # 0}

Entries == [LogHosts -> {NoEntry} \cup AnEntry]

SumBounded ==
  /\ log \in [LogHosts -> 1..MaxLog] /\ remote \subseteq LogHosts /\ hosts \subseteq LogHosts
  /\ listed \in [LogHosts -> 0..MaxLog] /\ entry \in Entries /\ runs \subseteq ARun
  /\ (\A s \in saves : s.set \subseteq Answers) /\ answers \subseteq Answers /\ found \subseteq Answers

LEMMA IsAnEntry ==
  ASSUME NEW e, e \in AnEntry \/ e = FreshSummary
  PROVE  /\ e \in AnEntry /\ e # NoEntry /\ [e EXCEPT !.running = TRUE] \in AnEntry
         /\ e.result \in 0..MaxLog /\ e.resultLog \in 0..MaxLog /\ (e.result # 0 => e.resultLog # 0)
<1>1. MaxLog \in Nat \ {0} /\ NoEntry \notin Summary
  BY SummariesAssumption
<1>2. FreshSummary \in AnEntry
  BY <1>1 DEF FreshSummary, AnEntry
<1>3. e \in AnEntry
  BY <1>2
<1>4. e \in Summary
  BY <1>1, <1>3 DEF AnEntry, Summary
<1>5. [e EXCEPT !.running = TRUE] \in AnEntry
  BY <1>3 DEF AnEntry
<1> QED BY <1>1, <1>3, <1>4, <1>5 DEF AnEntry

LEMMA StoredAnswers ==
  ASSUME NEW e \in Entries
  PROVE  Stored(e) \subseteq Answers
<1> SUFFICES ASSUME NEW s \in Stored(e) PROVE s \in Answers
  OBVIOUS
<1>1. PICK h \in LogHosts : e[h] # NoEntry /\ e[h].result # 0
                            /\ s = [host |-> h, result |-> e[h].result, log |-> e[h].resultLog]
  BY StoredMember
<1>2. e[h] \in AnEntry
  BY <1>1 DEF Entries
<1>3. e[h].result \in 0..MaxLog /\ e[h].resultLog \in 0..MaxLog /\ e[h].resultLog # 0 /\ MaxLog \in Nat
  BY <1>1, <1>2, IsAnEntry, SummariesAssumption
<1>4. e[h].result \in 1..MaxLog /\ e[h].resultLog \in 1..MaxLog
  BY <1>1, <1>3
<1> QED BY <1>1, <1>4 DEF Answers

LEMMA LoadedBounded ==
  ASSUME SumBounded, NEW read \in BOOLEAN
  PROVE  EntriesLoaded(read) \in Entries
<1> DEFINE restores == IF read /\ usable THEN {s \in answers : KeptHost(s.host) /\ entry[s.host] = NoEntry} ELSE {}
           restored(s) == [FreshSummary EXCEPT !.result = s.result, !.resultLog = s.log, !.triedLog = s.log, !.last = "ok"]
           e(h) == IF \E s \in restores : s.host = h THEN restored(CHOOSE s \in restores : s.host = h) ELSE entry[h]
<1>1. EntriesLoaded(read) = [h \in LogHosts |-> e(h)]
  BY DEF EntriesLoaded
<1>2. \A s \in Answers : restored(s) \in AnEntry
  <2> SUFFICES ASSUME NEW s \in Answers PROVE restored(s) \in AnEntry
    OBVIOUS
  <2>1. s.result \in 1..MaxLog /\ s.log \in 1..MaxLog /\ MaxLog \in Nat
    BY SummariesAssumption DEF Answers
  <2>2. ASSUME NEW g \in AnEntry, NEW n \in 0..MaxLog, NEW v \in 0..MaxLog, v # 0
        PROVE  [g EXCEPT !.result = n, !.resultLog = v, !.triedLog = v, !.last = "ok"] \in AnEntry
    <3> DEFINE q == [g EXCEPT !.result = n, !.resultLog = v, !.triedLog = v, !.last = "ok"]
    <3>1. /\ q \in [result : 0..MaxLog, resultLog : 0..MaxLog, triedLog : 0..MaxLog,
                    last : {"none", "ok", "failed", "unreadable"}, running : BOOLEAN]
          /\ q.resultLog = v
      BY <2>2 DEF AnEntry
    <3> HIDE DEF q
    <3>2. q \in AnEntry
      BY <2>2, <3>1 DEF AnEntry
    <3> QED BY <3>2 DEF q
  <2>3. s.result \in 0..MaxLog /\ s.log \in 0..MaxLog /\ s.log # 0
    BY <2>1
  <2>4. FreshSummary \in AnEntry
    BY IsAnEntry
  <2> QED BY <2>2, <2>3, <2>4
<1>3. \A s \in restores : s \in Answers
  BY DEF SumBounded
<1>4. ASSUME NEW h \in LogHosts PROVE e(h) \in {NoEntry} \cup AnEntry
  <2>1. CASE \E s \in restores : s.host = h
    <3>1. (CHOOSE s \in restores : s.host = h) \in restores
      BY <2>1
    <3> HIDE DEF restores
    <3>2. restored(CHOOSE s \in restores : s.host = h) \in AnEntry
      <4> HIDE DEF restored
      <4> QED BY <1>2, <1>3, <3>1
    <3> HIDE DEF restored
    <3> QED BY <2>1, <3>2
  <2>2. CASE ~\E s \in restores : s.host = h
    <3>1. entry[h] \in {NoEntry} \cup AnEntry
      BY DEF SumBounded, Entries
    <3> HIDE DEF restores, restored
    <3> QED BY <2>2, <3>1
  <2> QED BY <2>1, <2>2
<1> HIDE DEF e
<1> QED BY <1>1, <1>4 DEF Entries

\* An attempt is begun at the version that was listed, and what it reuses is
\* the excerpt of a version there was.
LEMMA AttemptsBounded ==
  ASSUME SumBounded, begun \in Nat, NEW e \in Entries, NEW due \in SUBSET LogHosts, \A h \in due : listed[h] # 0,
         Attempts(e, due)
  PROVE  entry' \in Entries /\ runs' \subseteq ARun
<1>0. MaxLog \in Nat /\ \A h \in LogHosts : e[h] \in {NoEntry} \cup AnEntry
  BY SummariesAssumption DEF Entries
<1>1. entry' \in Entries
  <2>1. ASSUME NEW h \in LogHosts
        PROVE  (IF h \in due THEN [IF e[h] = NoEntry THEN FreshSummary ELSE e[h] EXCEPT !.running = TRUE] ELSE e[h])
                 \in {NoEntry} \cup AnEntry
    BY <1>0, IsAnEntry
  <2> QED BY <2>1 DEF Attempts, Entries
<1>2. PICK id \in [due -> begun + 1..begun + Cardinality(due)] :
        runs' = runs \cup {[id |-> id[h], host |-> h, log |-> listed[h], at |-> "waiting", read |-> 0, outcome |-> "none",
                            reuse |-> IF e[h] = NoEntry \/ e[h].result = 0 THEN 0 ELSE ExcerptOf(e[h].result)] : h \in due}
  BY DEF Attempts
<1>3. ASSUME NEW h \in due
      PROVE  [id |-> id[h], host |-> h, log |-> listed[h], at |-> "waiting", read |-> 0, outcome |-> "none",
              reuse |-> IF e[h] = NoEntry \/ e[h].result = 0 THEN 0 ELSE ExcerptOf(e[h].result)] \in ARun
  <2> DEFINE reuse == IF e[h] = NoEntry \/ e[h].result = 0 THEN 0 ELSE ExcerptOf(e[h].result)
  <2>1. id[h] \in Nat
    BY FS_Subset, FS_CardinalityType, SummariesAssumption
  <2>2. listed[h] \in 1..MaxLog
    BY <1>0 DEF SumBounded
  <2>3. reuse \in 0..MaxLog
    <3>1. ASSUME NEW n \in 0..MaxLog PROVE ExcerptOf(n) \in 0..MaxLog
      BY <1>0 DEF ExcerptOf
    <3>2. e[h] # NoEntry => e[h].result \in 0..MaxLog
      BY <1>0, IsAnEntry
    <3> QED BY <1>0, <3>1, <3>2
  <2> HIDE DEF reuse
  <2>4. h \in LogHosts
    OBVIOUS
  <2>5. [id |-> id[h], host |-> h, log |-> listed[h], at |-> "waiting", read |-> 0, outcome |-> "none", reuse |-> reuse] \in ARun
    BY <1>0, <2>1, <2>2, <2>3, <2>4 DEF ARun
  <2> QED BY <2>5 DEF reuse
<1>4. runs \subseteq ARun
  BY DEF SumBounded
<1> QED BY <1>1, <1>2, <1>3, <1>4

LEMMA SavesBounded ==
  ASSUME \A s \in saves : s.set \subseteq Answers, entry' \in Entries, NEW dirty, Save(dirty)
  PROVE  \A s \in saves' : s.set \subseteq Answers
<1>1. Stored(entry') \subseteq Answers
  BY StoredAnswers
<1> QED BY <1>1 DEF Save

\* A step that loads the file, begins attempts and saves.
LEMMA LoadsBounded ==
  ASSUME SumBounded, begun \in Nat, NEW read \in BOOLEAN, LoadStore(read), NEW e \in Entries, NEW due \in SUBSET LogHosts,
         \A h \in due : listed[h] # 0, Attempts(e, due), NEW dirty, Save(dirty),
         UNCHANGED <<log, remote, listed, hosts, found>>
  PROVE  SumBounded'
<1>1. entry' \in Entries /\ runs' \subseteq ARun
  BY AttemptsBounded
<1>2. \A s \in saves' : s.set \subseteq Answers
  BY <1>1, SavesBounded DEF SumBounded
<1>3. answers' \subseteq Answers
  BY DEF LoadStore, SumBounded
<1> QED BY <1>1, <1>2, <1>3 DEF SumBounded, Entries, ARun, AnEntry, Answers

LEMMA PollBounded == ASSUME SumBounded, begun \in Nat, Poll \/ \E h \in LogHosts : RequestSummary(h) PROVE SumBounded'
<1>1. CASE Poll
  <2>1. PICK automatic \in SUBSET {h \in LogHosts : listed[h] # 0},
             pruned \in SUBSET {h \in LogHosts : entry[h] # NoEntry /\ ~entry[h].running /\ listed[h] = 0},
             read \in LoadReads :
          /\ LoadStore(read)
          /\ Attempts([h \in LogHosts |-> IF h \in pruned THEN NoEntry ELSE EntriesLoaded(read)[h]],
                      {h \in automatic : Due(EntriesLoaded(read)[h], listed[h], FALSE)})
          /\ Save(DirtyLoaded(read) \/ pruned # {})
    BY <1>1 DEF Poll
  <2> DEFINE e   == [h \in LogHosts |-> IF h \in pruned THEN NoEntry ELSE EntriesLoaded(read)[h]]
             due == {h \in automatic : Due(EntriesLoaded(read)[h], listed[h], FALSE)}
             dirty == DirtyLoaded(read) \/ pruned # {}
  <2>2. read \in BOOLEAN /\ UNCHANGED <<log, remote, listed, hosts, found>>
    BY <1>1 DEF LoadReads, Poll, logVars
  <2>3. EntriesLoaded(read) \in Entries
    BY <2>2, LoadedBounded
  <2>4. e \in Entries
    BY <2>3 DEF Entries
  <2>5. due \in SUBSET LogHosts /\ \A h \in due : listed[h] # 0
    OBVIOUS
  <2>6. Attempts(e, due) /\ LoadStore(read) /\ Save(dirty)
    BY <2>1
  <2> HIDE DEF e, due, dirty
  <2> QED BY <2>2, <2>4, <2>5, <2>6, LoadsBounded
<1>2. ASSUME NEW h \in LogHosts, RequestSummary(h) PROVE SumBounded'
  <2>1. PICK read \in LoadReads :
          /\ LoadStore(read)
          /\ Attempts(EntriesLoaded(read), IF Due(EntriesLoaded(read)[h], listed[h], TRUE) THEN {h} ELSE {})
          /\ Save(DirtyLoaded(read))
    BY <1>2 DEF RequestSummary
  <2> DEFINE due == IF Due(EntriesLoaded(read)[h], listed[h], TRUE) THEN {h} ELSE {}
  <2>2. read \in BOOLEAN /\ listed[h] # 0 /\ UNCHANGED <<log, remote, listed, hosts, found>>
    BY <1>2 DEF LoadReads, RequestSummary, logVars
  <2>3. EntriesLoaded(read) \in Entries
    BY <2>2, LoadedBounded
  <2>4. due \in SUBSET LogHosts /\ \A g \in due : listed[g] # 0
    BY <2>2
  <2>5. Attempts(EntriesLoaded(read), due)
    BY <2>1
  <2> HIDE DEF due
  <2> QED BY <2>1, <2>2, <2>3, <2>4, <2>5, LoadsBounded
<1> QED BY <1>1, <1>2

LEMMA LogsBounded ==
  ASSUME SumBounded,
         \/ ForgetHosts \/ RestartProcess
         \/ \E h \in LogHosts : Collect(h) \/ LogGrows(h)
         \/ \E hs \in SUBSET LogHosts : ConfigureHosts(hs)
  PROVE  SumBounded'
<1>0. /\ MaxLog \in Nat \ {0} /\ log \in [LogHosts -> 1..MaxLog] /\ remote \subseteq LogHosts /\ hosts \subseteq LogHosts
      /\ listed \in [LogHosts -> 0..MaxLog] /\ entry \in Entries /\ runs \subseteq ARun
      /\ (\A s \in saves : s.set \subseteq Answers) /\ answers \subseteq Answers /\ found \subseteq Answers
  BY SummariesAssumption DEF SumBounded
<1>1. CASE ForgetHosts
  <2> DEFINE dirty == \E h \in LogHosts \ remote : entry[h] # NoEntry /\ entry[h].result # 0
  <2>1. /\ hosts' = remote /\ UNCHANGED <<log, remote, runs, answers, found>> /\ Save(dirty)
        /\ listed' = [h \in LogHosts |-> IF h \in remote THEN listed[h] ELSE 0]
        /\ entry' = [h \in LogHosts |-> IF h \in remote THEN entry[h] ELSE NoEntry]
    BY <1>1 DEF ForgetHosts, logVars
  <2> HIDE DEF dirty
  <2>2. entry' \in Entries
    BY <1>0, <2>1 DEF Entries
  <2>3. listed' \in [LogHosts -> 0..MaxLog]
    BY <1>0, <2>1
  <2>4. \A s \in saves' : s.set \subseteq Answers
    BY <1>0, <2>1, <2>2, SavesBounded
  <2> QED BY <1>0, <2>1, <2>2, <2>3, <2>4 DEF SumBounded, Entries
<1>2. CASE RestartProcess
  <2>1. /\ listed' = [h \in LogHosts |-> 0] /\ hosts' = LogHosts /\ entry' = [h \in LogHosts |-> NoEntry]
        /\ runs' = {} /\ saves' = {} /\ found' = answers /\ UNCHANGED <<log, remote, answers>>
    BY <1>2 DEF RestartProcess, Forgotten, logVars
  <2>2. listed' \in [LogHosts -> 0..MaxLog]
    BY <1>0, <2>1
  <2>3. entry' \in Entries
    BY <2>1 DEF Entries
  <2> QED BY <1>0, <2>1, <2>2, <2>3 DEF SumBounded, Entries
<1>3. ASSUME NEW h \in LogHosts, Collect(h) PROVE SumBounded'
  <2>1. /\ \E seen \in {0, log[h]} : listed' = [listed EXCEPT ![h] = seen]
        /\ UNCHANGED <<log, remote, hosts, entry, runs, saves, answers, found>>
    BY <1>3 DEF Collect, logVars, storeVars
  <2>2. listed' \in [LogHosts -> 0..MaxLog]
    BY <1>0, <2>1
  <2> QED BY <1>0, <2>1, <2>2 DEF SumBounded, Entries
<1>4. ASSUME NEW h \in LogHosts, LogGrows(h) PROVE SumBounded'
  <2>1. /\ log[h] < MaxLog /\ log' = [log EXCEPT ![h] = log[h] + 1]
        /\ UNCHANGED <<remote, listed, hosts, entry, runs, saves, answers, found>>
    BY <1>4 DEF LogGrows, summaryVars, storeVars
  <2>2. log[h] + 1 \in 1..MaxLog
    BY <1>0, <2>1
  <2>3. log' \in [LogHosts -> 1..MaxLog]
    BY <1>0, <2>1, <2>2
  <2> QED BY <1>0, <2>1, <2>3 DEF SumBounded, Entries
<1>5. ASSUME NEW hs \in SUBSET LogHosts, ConfigureHosts(hs) PROVE SumBounded'
  <2>1. remote' = hs /\ UNCHANGED <<log, listed, hosts, entry, runs, saves, answers, found>>
    BY <1>5 DEF ConfigureHosts, summaryVars, storeVars
  <2> QED BY <1>0, <2>1 DEF SumBounded, Entries
<1> QED BY <1>1, <1>2, <1>3, <1>4, <1>5

LEMMA RunsBounded ==
  ASSUME SumBounded, NEW r \in runs, TakeSlot(r) \/ Summarize(r)
  PROVE  SumBounded'
<1>1. UNCHANGED <<log, remote, listed, hosts, entry, saves, answers, found>>
  BY DEF TakeSlot, Summarize, logVars, storeVars
<1>2. r \in ARun /\ runs \subseteq ARun /\ log \in [LogHosts -> 1..MaxLog] /\ MaxLog \in Nat
  BY SummariesAssumption DEF SumBounded
<1>3. runs' \subseteq ARun
  <2>1. CASE TakeSlot(r)
    <3>1. [r EXCEPT !.at = "slot"] \in ARun
      BY <1>2 DEF ARun
    <3>2. runs' = (runs \ {r}) \cup {[r EXCEPT !.at = "slot"]}
      BY <2>1 DEF TakeSlot
    <3> QED BY <1>2, <3>1, <3>2
  <2>2. CASE Summarize(r)
    <3>1. PICK outcome \in {"failed", "unreadable", "reused", "answer"} :
            runs' = (runs \ {r}) \cup {[r EXCEPT !.at = "done", !.read = log[r.host], !.outcome = outcome]}
      BY <2>2 DEF Summarize
    <3>2. log[r.host] \in 0..MaxLog /\ log[r.host] # 0
      BY <1>2 DEF ARun
    <3>3. [r EXCEPT !.at = "done", !.read = log[r.host], !.outcome = outcome] \in ARun
      <4> DEFINE read == log[r.host]
                 q == [r EXCEPT !.at = "done", !.read = read, !.outcome = outcome]
      <4>1. read \in 0..MaxLog /\ read # 0
        BY <3>2
      <4> HIDE DEF read
      <4>2. q.read # 0 /\ q \in [id : Nat, host : LogHosts, log : 1..MaxLog, at : {"waiting", "slot", "done"}, read : 0..MaxLog,
                     outcome : {"none", "failed", "unreadable", "reused", "answer"}, reuse : 0..MaxLog]
        BY <1>2, <4>1 DEF ARun
      <4>3. q \in ARun
        BY <4>2 DEF ARun
      <4> QED BY <4>3 DEF read
    <3> QED BY <1>2, <3>1, <3>3
  <2> QED BY <2>1, <2>2
<1> QED BY <1>1, <1>3 DEF SumBounded, Entries

LEMMA FinishBounded ==
  ASSUME SumBounded, NEW r \in runs, FinishSummary(r)
  PROVE  SumBounded'
<1>1. /\ UNCHANGED <<log, remote, listed, hosts, answers, found>> /\ runs' = runs \ {r} /\ r.at = "done"
      /\ Save(entry[r.host] # NoEntry /\ r.outcome \in {"answer", "reused"})
  BY DEF FinishSummary, logVars
<1>2. r \in ARun /\ r.log \in 1..MaxLog /\ r.read \in 1..MaxLog /\ r.host \in LogHosts /\ MaxLog \in Nat
  BY <1>1, SummariesAssumption DEF SumBounded, ARun
<1> DEFINE h     == r.host
           last  == IF r.outcome \in {"failed", "unreadable"} THEN r.outcome
                    ELSE IF r.outcome = "answer" \/ entry[h].result # 0 THEN "ok" ELSE "none"
           tried == [entry[h] EXCEPT !.running = FALSE, !.triedLog = r.log, !.last = last]
<1>3. entry' \in Entries
  <2>1. CASE entry[h] = NoEntry
    <3>1. entry' = entry
      BY <2>1 DEF FinishSummary
    <3> QED BY <3>1 DEF SumBounded, Entries
  <2>2. CASE entry[h] # NoEntry
    <3>1. entry[h] \in AnEntry
      BY <1>2, <2>2 DEF SumBounded, Entries
    <3>2. last \in {"none", "ok", "failed", "unreadable"}
      OBVIOUS
    <3>3. entry' = [entry EXCEPT ![h] = CASE r.outcome = "answer" -> [tried EXCEPT !.result = r.read, !.resultLog = r.log]
                                           [] r.outcome = "reused" -> [tried EXCEPT !.resultLog = r.log]
                                           [] OTHER -> tried]
      BY <2>2 DEF FinishSummary, AttemptedLog
    <3> HIDE DEF last
    <3>a. /\ r.log \in 0..MaxLog /\ r.log # 0 /\ r.read \in 0..MaxLog
      <4>1. \A n \in 1..MaxLog : n \in 0..MaxLog /\ n # 0
        OBVIOUS
      <4> HIDE DEF tried
      <4> QED BY <1>2, <4>1
    <3>4. tried \in AnEntry
      <4> DEFINE was == entry[h]
                 is(e, v, l) == [e EXCEPT !.running = FALSE, !.triedLog = v, !.last = l]
      <4>1. ASSUME NEW e \in AnEntry, NEW v \in 0..MaxLog, NEW l \in {"none", "ok", "failed", "unreadable"}
            PROVE  is(e, v, l) \in AnEntry
        <5>1. is(e, v, l).result = e.result /\ is(e, v, l).resultLog = e.resultLog
              /\ is(e, v, l) \in [result : 0..MaxLog, resultLog : 0..MaxLog, triedLog : 0..MaxLog,
                                  last : {"none", "ok", "failed", "unreadable"}, running : BOOLEAN]
          BY <4>1 DEF AnEntry
        <5> HIDE DEF is
        <5> QED BY <4>1, <5>1 DEF AnEntry
      <4> QED BY <3>1, <3>2, <3>a, <4>1
    <3> HIDE DEF tried
    <3>5. [tried EXCEPT !.result = r.read, !.resultLog = r.log] \in AnEntry /\ [tried EXCEPT !.resultLog = r.log] \in AnEntry
      <4> DEFINE full(e) == e \in [result : 0..MaxLog, resultLog : 0..MaxLog, triedLog : 0..MaxLog,
                                  last : {"none", "ok", "failed", "unreadable"}, running : BOOLEAN]
      <4>1. ASSUME NEW v \in 0..MaxLog, v # 0, NEW n \in 0..MaxLog, NEW e \in AnEntry
            PROVE  [e EXCEPT !.result = n, !.resultLog = v] \in AnEntry /\ [e EXCEPT !.resultLog = v] \in AnEntry
        <5>1. full([e EXCEPT !.result = n, !.resultLog = v]) /\ [e EXCEPT !.result = n, !.resultLog = v].resultLog = v
          BY <4>1 DEF AnEntry
        <5>2. full([e EXCEPT !.resultLog = v]) /\ [e EXCEPT !.resultLog = v].resultLog = v
          BY <4>1 DEF AnEntry
        <5> QED BY <4>1, <5>1, <5>2 DEF AnEntry
      <4> HIDE DEF h
      <4> QED BY <3>a, <3>4, <4>1
    <3>6. \E e \in AnEntry : entry' = [entry EXCEPT ![h] = e]
      BY <3>3, <3>4, <3>5
    <3> QED BY <3>6 DEF SumBounded, Entries
  <2> QED BY <2>1, <2>2
<1>4. \A s \in saves' : s.set \subseteq Answers
  BY <1>1, <1>3, SavesBounded DEF SumBounded
<1> QED BY <1>1, <1>3, <1>4 DEF SumBounded, Entries

LEMMA WriteBounded ==
  ASSUME SumBounded, NEW s \in saves, WriteSave(s)
  PROVE  SumBounded'
<1>1. /\ UNCHANGED <<log, remote, listed, hosts, entry, runs, found>>
      /\ saves' = saves \ {s} /\ (answers' = answers \/ answers' = s.set)
  BY DEF WriteSave, logVars, summaryVars
<1>2. s.set \subseteq Answers
  BY DEF SumBounded
<1> QED BY <1>1, <1>2 DEF SumBounded, Entries

LEMMA SumBoundedStep == SumBounded /\ SumInv /\ [SumNext]_sumVars => SumBounded'
<1> SUFFICES ASSUME SumBounded, SumInv, [SumNext]_sumVars PROVE SumBounded'
  OBVIOUS
<1>1. begun \in Nat
  BY DEF SumInv, SumShape
<1>2. CASE Poll \/ \E h \in LogHosts : RequestSummary(h)
  BY <1>1, <1>2, PollBounded
<1>3. CASE \/ ForgetHosts \/ RestartProcess
           \/ \E h \in LogHosts : Collect(h) \/ LogGrows(h)
           \/ \E hs \in SUBSET LogHosts : ConfigureHosts(hs)
  BY <1>3, LogsBounded
<1>4. CASE \E r \in runs : TakeSlot(r) \/ Summarize(r) \/ FinishSummary(r)
  BY <1>4, RunsBounded, FinishBounded
<1>5. CASE \E s \in saves : WriteSave(s)
  BY <1>5, WriteBounded
<1>6. CASE UNCHANGED sumVars
  <2>1. UNCHANGED <<log, remote, listed, hosts, entry, runs, saves, answers, found>>
    BY <1>6 DEF sumVars, logVars, summaryVars, storeVars
  <2> QED BY <2>1 DEF SumBounded, Entries
<1> QED BY <1>2, <1>3, <1>4, <1>5, <1>6 DEF SumNext

LEMMA SumBoundedInit == SumInit => SumBounded
<1> SUFFICES ASSUME SumInit PROVE SumBounded
  OBVIOUS
<1>1. 1 \in 1..MaxLog /\ 0 \in 0..MaxLog
  BY SummariesAssumption
<1>2. log \in [LogHosts -> 1..MaxLog] /\ listed \in [LogHosts -> 0..MaxLog]
  BY <1>1 DEF SumInit
<1>3. entry \in Entries
  BY DEF SumInit, Entries
<1>4. answers \subseteq Answers
  <2>1. \A h \in LogHosts : [host |-> h, result |-> 1, log |-> 1] \in Answers
    BY <1>1 DEF Answers
  <2> QED BY <2>1 DEF SumInit
<1> QED BY <1>2, <1>3, <1>4 DEF SumInit, SumBounded

LEMMA SumTyped == SumInv /\ SumBounded => SumTypeOK
<1> SUFFICES ASSUME SumInv, SumBounded PROVE SumTypeOK
  OBVIOUS
<1>1. MaxLog \in Nat
  BY SummariesAssumption
<1>2. entry \in [LogHosts -> {NoEntry} \cup
       [result : 0..MaxLog, resultLog : 0..MaxLog, triedLog : 0..MaxLog,
        last : {"none", "ok", "failed", "unreadable"}, running : BOOLEAN]]
  BY DEF SumBounded, Entries, AnEntry
<1>3. runs \subseteq [id : Nat, host : LogHosts, log : 0..MaxLog, at : {"waiting", "slot", "done"}, read : 0..MaxLog,
                     outcome : {"none", "failed", "unreadable", "reused", "answer"}, reuse : 0..MaxLog]
  <2>1. 1..MaxLog \subseteq 0..MaxLog
    BY <1>1
  <2> SUFFICES ASSUME NEW r \in runs
               PROVE  r \in [id : Nat, host : LogHosts, log : 0..MaxLog, at : {"waiting", "slot", "done"}, read : 0..MaxLog,
                             outcome : {"none", "failed", "unreadable", "reused", "answer"}, reuse : 0..MaxLog]
    OBVIOUS
  <2>2. r \in ARun
    BY DEF SumBounded
  <2> QED BY <2>1, <2>2 DEF ARun
<1>4. saves \subseteq [gen : Nat, set : SUBSET Answers]
  <2> SUFFICES ASSUME NEW s \in saves PROVE s \in [gen : Nat, set : SUBSET Answers]
    OBVIOUS
  <2>1. s \in [gen : 0..gen, set : SUBSET Answer] /\ s.set \in SUBSET Answers /\ gen \in Nat
    BY DEF SumInv, SumShape, SumBounded
  <2>2. s = [gen |-> s.gen, set |-> s.set] /\ s.gen \in Nat
    BY <2>1
  <2> QED BY <2>1, <2>2
<1> QED BY <1>2, <1>3, <1>4 DEF SumInv, SumShape, SumBounded, SumTypeOK

-----------------------------------------------------------------------------
Served   == {i \in RequestIDs : requests[i].at \in {"served", "done"}}
Finished == {i \in RequestIDs : requests[i].at = "done"}

Counted ==
  /\ \A k \in Kinds : versions[k] =< Cardinality(Served)
  /\ recordSaves =< Cardinality(Finished)

LEMMA RequestsCounted ==
  /\ MaxRequests \in Nat /\ RequestIDs \subseteq Nat /\ IsFiniteSet(RequestIDs) /\ Cardinality(RequestIDs) = MaxRequests
  /\ \A S \in SUBSET RequestIDs : IsFiniteSet(S) /\ Cardinality(S) \in 0..MaxRequests
<1>1. MaxRequests \in Nat
  BY TaskCollectionsAssumption
<1>2. RequestIDs \subseteq Nat /\ IsFiniteSet(RequestIDs) /\ Cardinality(RequestIDs) = MaxRequests
  BY <1>1, FS_Interval DEF RequestIDs
<1>3. ASSUME NEW S \in SUBSET RequestIDs PROVE IsFiniteSet(S) /\ Cardinality(S) \in 0..MaxRequests
  <2>1. IsFiniteSet(S) /\ Cardinality(S) =< MaxRequests
    BY <1>2, FS_Subset
  <2>2. Cardinality(S) \in Nat
    BY <2>1, FS_CardinalityType
  <2> QED BY <1>1, <2>1, <2>2
<1> QED BY <1>1, <1>2, <1>3

\* Of what the requests are only some more are served, or done.
LEMMA CountsGrow ==
  ASSUME NEW S \in SUBSET RequestIDs, NEW T \in SUBSET RequestIDs, S \subseteq T
  PROVE  /\ Cardinality(S) =< Cardinality(T) /\ Cardinality(S) \in Nat /\ Cardinality(T) \in 0..MaxRequests
         /\ \A i \in T \ S : Cardinality(S) + 1 =< Cardinality(T)
<1>1. IsFiniteSet(S) /\ IsFiniteSet(T) /\ Cardinality(S) \in 0..MaxRequests /\ Cardinality(T) \in 0..MaxRequests
  BY RequestsCounted
<1>2. Cardinality(S) =< Cardinality(T)
  BY <1>1, FS_Subset
<1>3. ASSUME NEW i \in T \ S PROVE Cardinality(S) + 1 =< Cardinality(T)
  <2>1. Cardinality(S \cup {i}) = Cardinality(S) + 1 /\ IsFiniteSet(S \cup {i})
    BY <1>1, FS_AddElement
  <2>2. Cardinality(S \cup {i}) =< Cardinality(T)
    BY <1>1, FS_Subset
  <2> QED BY <2>1, <2>2
<1> QED BY <1>1, <1>2, <1>3

\* What is copied is a version; one more is made by a request that is served,
\* and one save more by one that is done.
LEMMA CountedStep == CollectionsTypeOK /\ Counted /\ [CollectionsNext]_collectionVars => CollectionsTypeOK' /\ Counted'
<1> SUFFICES ASSUME CollectionsTypeOK, Counted, [CollectionsNext]_collectionVars PROVE CollectionsTypeOK' /\ Counted'
  OBVIOUS
<1> DEFINE Got  == [Kinds -> Version]
           Coll == [at : {"none", "asked", "listed", "read"}, saves : Version, got : Got, knew : Version]
           Req  == [at : {"none", "sent", "served", "done"}, kind : Kinds, got : Version]
<1>0. /\ watching \in BOOLEAN /\ collectAgain \in BOOLEAN /\ missed \in BOOLEAN /\ recordSaves \in Version
      /\ data \in [loaded : BOOLEAN, shown : Got] /\ versions \in Got /\ heard \in Got
      /\ collection \in Coll /\ requests \in [RequestIDs -> Req]
  BY DEF CollectionsTypeOK
<1>1. MaxRequests \in Nat /\ 0 \in Version /\ NoVersions \in Got /\ Version \subseteq Nat
  BY TaskCollectionsAssumption DEF Version, NoVersions
<1>2. "task" \in Kinds /\ "record" \in Kinds
  BY DEF Kinds
<1>3. NoCollection \in Coll
  BY <1>1 DEF NoCollection
<1>4. ASSUME NEW h \in Got PROVE Begun(h) \in Coll
  <2>1. ASSUME NEW c \in Coll, NEW saves0 \in Version, NEW knew \in Version
        PROVE  [c EXCEPT !.at = "asked", !.saves = saves0, !.knew = knew] \in Coll
    OBVIOUS
  <2>2. h["task"] \in Version
    BY <1>2
  <2> HIDE DEF Coll
  <2> QED BY <1>0, <1>3, <2>1, <2>2 DEF Begun
<1>5. ASSUME NEW S \in SUBSET RequestIDs PROVE Cardinality(S) \in 0..MaxRequests
  BY RequestsCounted
<1>6. ASSUME UNCHANGED <<recordSaves, versions>>,
             \A i \in RequestIDs : (i \in Served => i \in Served') /\ (i \in Finished => i \in Finished')
      PROVE  Counted'
  <2>1. Served \in SUBSET RequestIDs /\ Finished \in SUBSET RequestIDs /\ Served' \in SUBSET RequestIDs /\ Finished' \in SUBSET RequestIDs
    BY DEF Served, Finished
  <2>2. Served \subseteq Served' /\ Finished \subseteq Finished'
    BY <1>6, <2>1
  <2>3. /\ Cardinality(Served) \in Nat /\ Cardinality(Served') \in Nat /\ Cardinality(Served) =< Cardinality(Served')
        /\ Cardinality(Finished) \in Nat /\ Cardinality(Finished') \in Nat /\ Cardinality(Finished) =< Cardinality(Finished')
    BY <1>1, <2>1, <2>2, CountsGrow
  <2>4. (\A k \in Kinds : versions'[k] \in Nat /\ versions'[k] =< Cardinality(Served)) /\ recordSaves' \in Nat /\ recordSaves' =< Cardinality(Finished)
    BY <1>0, <1>1, <1>6 DEF Counted
  <2>5. \A m, n, k \in Nat : m =< n /\ n =< k => m =< k
    OBVIOUS
  <2>6. Cardinality(Served)' = Cardinality(Served') /\ Cardinality(Finished)' = Cardinality(Finished')
    OBVIOUS
  <2> QED BY <2>3, <2>4, <2>5, <2>6 DEF Counted
<1>7. ASSUME watching' \in BOOLEAN, collection' \in Coll, collectAgain' \in BOOLEAN, missed' \in BOOLEAN,
             data' \in [loaded : BOOLEAN, shown : Got], UNCHANGED <<recordSaves, versions, requests, heard>>
      PROVE  CollectionsTypeOK' /\ Counted'
  <2>1. Counted'
    BY <1>6, <1>7 DEF Served, Finished
  <2> QED BY <1>0, <1>7, <2>1 DEF CollectionsTypeOK
<1>8. CASE Watch \/ PollTasks
  <2>1. watching' \in BOOLEAN /\ UNCHANGED <<data, recordSaves, collectAgain, versions, requests, heard, missed>>
    BY <1>0, <1>8 DEF Watch, PollTasks
  <2>2. collection' = collection \/ collection' = Begun(heard)
    BY <1>8 DEF Watch, PollTasks, Refresh
  <2>3. collection' \in Coll
    BY <1>0, <1>4, <2>2
  <2> HIDE DEF Coll
  <2> QED BY <1>0, <1>7, <2>1, <2>3
<1>9. CASE Collects
  <2>1. PICK to \in {"listed", "read"}, kinds \in SUBSET Kinds :
          collection' = [collection EXCEPT !.at = to, !.got = [k \in Kinds |-> IF k \in kinds THEN versions[k] ELSE collection.got[k]]]
    BY <1>9 DEF Collects, Reads, Kinds
  <2>2. UNCHANGED <<watching, data, recordSaves, collectAgain, versions, requests, heard, missed>>
    BY <1>9 DEF Collects, Reads
  <2>3. [k \in Kinds |-> IF k \in kinds THEN versions[k] ELSE collection.got[k]] \in Got
    BY <1>0
  <2>4. collection' \in Coll
    BY <1>0, <2>1, <2>3
  <2> HIDE DEF Coll
  <2> QED BY <1>0, <1>7, <2>2, <2>4
<1>10. CASE CollectionArrives
  <2>1. PICK shows \in BOOLEAN : CollectionEnds(shows)
    BY <1>10 DEF CollectionArrives, Outdated
  <2>2. missed' \in BOOLEAN /\ collectAgain' \in BOOLEAN /\ UNCHANGED <<watching, recordSaves, versions, requests, heard>>
    BY <2>1 DEF CollectionEnds
  <2>3. data' \in [loaded : BOOLEAN, shown : Got]
    BY <1>0, <2>1 DEF CollectionEnds
  <2>4. collection' \in Coll
    BY <1>0, <1>3, <1>4, <2>1 DEF CollectionEnds
  <2> HIDE DEF Coll
  <2> QED BY <1>0, <1>7, <2>2, <2>3, <2>4
<1>11. ASSUME NEW k \in Kinds, Ask(k) PROVE CollectionsTypeOK' /\ Counted'
  <2>1. PICK i \in RequestIDs : requests[i].at = "none" /\ requests' = [requests EXCEPT ![i] = [at |-> "sent", kind |-> k, got |-> 0]]
    BY <1>11 DEF Ask
  <2>2. UNCHANGED <<watching, data, collection, recordSaves, collectAgain, versions, heard, missed>>
    BY <1>11 DEF Ask
  <2>3. requests' \in [RequestIDs -> Req]
    BY <1>0, <1>1, <2>1
  <2>4. \A j \in RequestIDs : j # i => requests'[j] = requests[j]
    BY <1>0, <2>1
  <2>5. \A j \in RequestIDs : (j \in Served => j \in Served') /\ (j \in Finished => j \in Finished')
    BY <2>1, <2>4 DEF Served, Finished
  <2>6. Counted'
    BY <1>6, <2>2, <2>5
  <2> QED BY <1>0, <2>2, <2>3, <2>6 DEF CollectionsTypeOK
<1>12. ASSUME NEW i \in RequestIDs, RequestServed(i) PROVE CollectionsTypeOK' /\ Counted'
  <2> DEFINE k == requests[i].kind
             v == versions[k] + 1
  <2>1. /\ requests[i].at = "sent" /\ versions' = [versions EXCEPT ![k] = v]
        /\ requests' = [requests EXCEPT ![i].at = "served", ![i].got = v]
        /\ UNCHANGED <<watching, data, collection, recordSaves, collectAgain, heard, missed>>
    BY <1>12 DEF RequestServed
  <2>2. k \in Kinds /\ requests[i] \in Req
    BY <1>0
  <2>3. Served \in SUBSET RequestIDs /\ Served' \in SUBSET RequestIDs /\ Served \subseteq Served' /\ i \in Served' \ Served
        /\ Finished' = Finished
    <3>1. \A j \in RequestIDs : requests'[j].at = IF j = i THEN "served" ELSE requests[j].at
      BY <1>0, <2>1
    <3>2. i \in Served' /\ i \notin Served
      BY <2>1, <3>1 DEF Served
    <3>3. ASSUME NEW j \in RequestIDs PROVE (j \in Served => j \in Served') /\ (j \in Finished' <=> j \in Finished)
      <4>1. CASE j = i
        <5>1. requests'[j].at = "served" /\ requests[j].at = "sent"
          BY <2>1, <3>1, <4>1
        <5> QED BY <5>1 DEF Served, Finished
      <4>2. CASE j # i
        <5>1. requests'[j].at = requests[j].at
          BY <3>1, <4>2
        <5> QED BY <5>1 DEF Served, Finished
      <4> QED BY <4>1, <4>2
    <3>4. Served \in SUBSET RequestIDs /\ Served' \in SUBSET RequestIDs /\ Finished \in SUBSET RequestIDs /\ Finished' \in SUBSET RequestIDs
      BY DEF Served, Finished
    <3>5. Finished' = Finished
      BY <3>3, <3>4
    <3> QED BY <3>2, <3>3, <3>4, <3>5
  <2>4. /\ Cardinality(Served) \in Nat /\ Cardinality(Served') \in 0..MaxRequests
        /\ Cardinality(Served) + 1 =< Cardinality(Served')
    BY <2>3, CountsGrow
  <2>5. \A g \in Kinds : versions[g] \in Nat /\ versions[g] =< Cardinality(Served)
    BY <1>0, <1>1 DEF Counted
  <2>6. v \in Version /\ v =< Cardinality(Served')
    <3>1. versions[k] \in Nat /\ versions[k] =< Cardinality(Served)
      BY <2>2, <2>5
    <3> HIDE DEF k
    <3> QED BY <1>1, <2>4, <3>1 DEF Version
  <2>7. \A g \in Kinds : versions'[g] = IF g = k THEN v ELSE versions[g]
    BY <1>0, <2>1, <2>2
  <2>8. \A g \in Kinds : versions'[g] =< Cardinality(Served')
    <3> SUFFICES ASSUME NEW g \in Kinds PROVE versions'[g] =< Cardinality(Served')
      OBVIOUS
    <3>1. versions[g] \in Nat /\ versions[g] =< Cardinality(Served)
      BY <2>5
    <3>2. versions[g] =< Cardinality(Served')
      BY <2>4, <3>1
    <3> HIDE DEF v
    <3> QED BY <2>6, <2>7, <3>2
  <2> HIDE DEF v
  <2>9. versions' \in Got
    BY <1>0, <2>1, <2>6
  <2>10. requests' \in [RequestIDs -> Req]
    <3>1. [requests[i] EXCEPT !.at = "served", !.got = v] \in Req
      BY <2>2, <2>6
    <3>2. requests' = [requests EXCEPT ![i] = [requests[i] EXCEPT !.at = "served", !.got = v]]
      BY <2>1
    <3> QED BY <1>0, <3>1, <3>2
  <2>11. recordSaves' =< Cardinality(Finished')
    BY <2>1, <2>3 DEF Counted
  <2> QED BY <1>0, <2>1, <2>8, <2>9, <2>10, <2>11 DEF CollectionsTypeOK, Counted
<1>13. ASSUME NEW i \in RequestIDs, requests[i].at \in {"sent", "served"},
              requests' = [requests EXCEPT ![i] = [requests[i] EXCEPT !.at = "done", !.got = 0]]
       PROVE  /\ requests' \in [RequestIDs -> Req]
              /\ \A j \in RequestIDs : (j \in Served => j \in Served') /\ (j \in Finished => j \in Finished')
              /\ i \in Finished' \ Finished
  <2>1. requests[i] \in Req
    BY <1>0
  <2>2. [requests[i] EXCEPT !.at = "done", !.got = 0] \in Req
    BY <1>1, <2>1
  <2>3. requests' \in [RequestIDs -> Req]
    BY <1>0, <1>13, <2>2
  <2>4. \A j \in RequestIDs : requests'[j].at = IF j = i THEN "done" ELSE requests[j].at
    BY <1>0, <1>13
  <2> QED BY <1>13, <2>3, <2>4 DEF Served, Finished
<1>14. ASSUME NEW i \in RequestIDs, RequestRefused(i) PROVE CollectionsTypeOK' /\ Counted'
  <2>1. /\ requests[i].at \in {"sent", "served"} /\ requests' = [requests EXCEPT ![i] = [requests[i] EXCEPT !.at = "done", !.got = 0]]
        /\ UNCHANGED <<watching, data, collection, recordSaves, collectAgain, versions, heard, missed>>
    BY <1>14 DEF RequestRefused
  <2>2. requests' \in [RequestIDs -> Req] /\ Counted'
    BY <1>6, <1>13, <2>1
  <2> QED BY <1>0, <2>1, <2>2 DEF CollectionsTypeOK
<1>15. ASSUME NEW i \in RequestIDs, RequestAnswered(i) PROVE CollectionsTypeOK' /\ Counted'
  <2> DEFINE k == requests[i].kind
             v == requests[i].got
  <2>1. /\ requests[i].at \in {"sent", "served"} /\ requests' = [requests EXCEPT ![i] = [requests[i] EXCEPT !.at = "done", !.got = 0]]
        /\ UNCHANGED <<watching, versions, missed>>
    BY <1>15 DEF RequestAnswered
  <2>2. k \in Kinds /\ v \in Version
    BY <1>0
  <2>3. \E u \in Version : heard' = [heard EXCEPT ![k] = u]
    <3>1. heard' = [heard EXCEPT ![k] = IF k = "record" \/ v > heard[k] THEN v ELSE heard[k]]
      BY <1>15 DEF RequestAnswered
    <3>2. heard[k] \in Version
      BY <1>0, <2>2
    <3> QED BY <2>2, <3>1, <3>2
  <2>4. heard' \in Got
    BY <1>0, <2>3
  <2>5. data' \in [loaded : BOOLEAN, shown : Got]
    <3>1. data' = data \/ data' = [data EXCEPT !.shown = [data.shown EXCEPT ![k] = v]]
      BY <1>15 DEF RequestAnswered
    <3>2. [data.shown EXCEPT ![k] = v] \in Got
      BY <1>0, <2>2
    <3>3. [data EXCEPT !.shown = [data.shown EXCEPT ![k] = v]] \in [loaded : BOOLEAN, shown : Got]
      BY <1>0, <3>2
    <3> QED BY <1>0, <3>1, <3>3
  <2>6. collection' \in Coll /\ collectAgain' \in BOOLEAN
    <3>1. Begun(heard') \in Coll
      BY <1>4, <2>4
    <3>2. collection' = collection \/ collection' = Begun(heard')
      BY <1>15 DEF RequestAnswered, Follow, Refresh
    <3>3. collectAgain' = collectAgain \/ collectAgain' = TRUE
      BY <1>15 DEF RequestAnswered, Follow
    <3> HIDE DEF Coll
    <3> QED BY <1>0, <3>1, <3>2, <3>3
  <2>7. requests' \in [RequestIDs -> Req] /\ i \in Finished' \ Finished
        /\ \A j \in RequestIDs : (j \in Served => j \in Served') /\ (j \in Finished => j \in Finished')
    BY <1>13, <2>1
  <2>8. /\ Served \in SUBSET RequestIDs /\ Served' \in SUBSET RequestIDs /\ Served \subseteq Served'
        /\ Finished \in SUBSET RequestIDs /\ Finished' \in SUBSET RequestIDs /\ Finished \subseteq Finished'
    BY <2>7 DEF Served, Finished
  <2>9. /\ Cardinality(Served) \in Nat /\ Cardinality(Served') \in 0..MaxRequests /\ Cardinality(Served) =< Cardinality(Served')
    BY <2>8, CountsGrow
  <2>10. /\ Cardinality(Finished) \in Nat /\ Cardinality(Finished') \in 0..MaxRequests
         /\ Cardinality(Finished) + 1 =< Cardinality(Finished')
    BY <2>7, <2>8, CountsGrow
  <2>11. recordSaves \in Nat /\ recordSaves =< Cardinality(Finished)
    BY <1>0, <1>1 DEF Counted
  <2>12. recordSaves' = recordSaves \/ recordSaves' = recordSaves + 1
    BY <1>15 DEF RequestAnswered
  <2>13. recordSaves' \in Version /\ recordSaves' =< Cardinality(Finished')
    BY <1>1, <2>10, <2>11, <2>12 DEF Version
  <2>14. \A g \in Kinds : versions'[g] =< Cardinality(Served')
    <3> SUFFICES ASSUME NEW g \in Kinds PROVE versions'[g] =< Cardinality(Served')
      OBVIOUS
    <3>1. versions[g] \in Nat /\ versions[g] =< Cardinality(Served) /\ versions'[g] = versions[g]
      BY <1>0, <1>1, <2>1 DEF Counted
    <3> QED BY <2>9, <3>1
  <2>15. Counted'
    BY <2>13, <2>14 DEF Counted
  <2> QED BY <1>0, <2>1, <2>4, <2>5, <2>6, <2>7, <2>13, <2>15 DEF CollectionsTypeOK
<1>16. CASE UNCHANGED collectionVars
  <2>1. UNCHANGED <<watching, data, collection, recordSaves, collectAgain, versions, requests, heard, missed>>
    BY <1>16 DEF collectionVars
  <2>2. Counted'
    BY <1>6, <2>1 DEF Served, Finished
  <2> QED BY <1>0, <2>1, <2>2 DEF CollectionsTypeOK
<1> QED BY <1>8, <1>9, <1>10, <1>11, <1>12, <1>14, <1>15, <1>16 DEF CollectionsNext

LEMMA CountedInit == CollectionsInit => CollectionsTypeOK /\ Counted
<1> SUFFICES ASSUME CollectionsInit PROVE CollectionsTypeOK /\ Counted
  OBVIOUS
<1>1. 0 \in Version /\ NoVersions \in [Kinds -> Version] /\ "task" \in Kinds
  BY TaskCollectionsAssumption DEF Version, NoVersions, Kinds
<1>2. Counted
  <2>1. Cardinality(Served) \in Nat /\ Cardinality(Finished) \in Nat
    BY RequestsCounted DEF Served, Finished
  <2>2. recordSaves = 0 /\ \A k \in Kinds : versions[k] = 0
    BY DEF CollectionsInit, NoVersions
  <2>3. \A n \in Nat : 0 =< n
    OBVIOUS
  <2> QED BY <2>1, <2>2, <2>3 DEF Counted
<1> QED BY <1>1, <1>2 DEF CollectionsInit, CollectionsTypeOK, NoCollection

-----------------------------------------------------------------------------
MountsBounded == mount \in 1..MaxMounts

LEMMA MountsStep == MountsBounded /\ [PopupsNext]_popupVars => MountsBounded'
<1> SUFFICES ASSUME MountsBounded, [PopupsNext]_popupVars PROVE MountsBounded'
  OBVIOUS
<1>1. mount' = mount \/ (mount < MaxMounts /\ mount' = mount + 1)
  BY DEF PopupsNext, OpenPopup, RetryPopup, ClosePopup, Remount, PageHide, PageShow, ServePost, Lose, PostAnswered, Delete,
         TerminalEnds, pageVars, popupVars
<1>2. MaxMounts \in Nat /\ mount \in 1..MaxMounts
  BY TaskPopupsAssumption DEF MountsBounded
<1>3. \A n, m \in Nat : n \in 1..m /\ n < m => n + 1 \in 1..m
  OBVIOUS
<1>4. mount' \in 1..MaxMounts
  <2>1. CASE mount' = mount
    BY <1>2, <2>1
  <2>2. CASE mount < MaxMounts /\ mount' = mount + 1
    <3>1. mount \in Nat
      BY <1>2
    <3> QED BY <1>2, <1>3, <2>2, <3>1
  <2> QED BY <1>1, <2>1, <2>2
<1> QED BY <1>4 DEF MountsBounded

LEMMA PopupsTypes == PopupsSpec => []PopupsTypeOK
<1>1. PopupsInit => MountsBounded
  BY TaskPopupsAssumption DEF PopupsInit, MountsBounded
<1>2. PopupsInv /\ MountsBounded => PopupsTypeOK
  BY DEF PopupsInv, PopupsShape, PopupType, PopupsTypeOK, MountsBounded
<1> QED BY <1>1, <1>2, MountsStep, PopupsInvInit, PopupsStep, PTL DEF PopupsSpec

\* Every variable of the parts has its type, for all values of their constants.
THEOREM StoresTypeCorrect ==
  PanesSpec /\ RingSpec /\ SumSpec /\ LayoutSpec /\ RecordsSpec /\ PopupsSpec /\ CollectionsSpec => []StoresTypeOK
<1>1. SumSpec => []SumTypeOK
  BY SumInvInit, SumStep, SumBoundedInit, SumBoundedStep, SumTyped, PTL DEF SumSpec
<1>2. RecordsSpec => []RecordsTypeOK
  <2>1. RecordsInv => RecordsTypeOK
    BY DEF RecordsInv, RecordsShape
  <2> QED BY <2>1, RecordsInvInit, RecordsStep, PTL DEF RecordsSpec
<1>3. CollectionsSpec => []CollectionsTypeOK
  BY CountedInit, CountedStep, PTL DEF CollectionsSpec
<1>4. PanesTypeOK /\ RingTypeOK /\ SumTypeOK /\ LayoutTypeOK /\ RecordsTypeOK /\ PopupsTypeOK /\ CollectionsTypeOK
        => StoresTypeOK
  BY DEF StoresTypeOK
<1>5. ASSUME PanesSpec, RingSpec, SumSpec, LayoutSpec, RecordsSpec, PopupsSpec, CollectionsSpec
      PROVE  []StoresTypeOK
  <2>1. []PanesTypeOK /\ []RingTypeOK /\ []SumTypeOK /\ []LayoutTypeOK /\ []RecordsTypeOK /\ []PopupsTypeOK /\ []CollectionsTypeOK
    BY <1>1, <1>2, <1>3, <1>5, PanesTypeCorrect, RingTypeCorrect, LayoutTypeCorrect, PopupsTypes
  <2> QED BY <1>4, <2>1, PTL
<1> QED BY <1>5
=============================================================================

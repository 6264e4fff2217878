------------------------------- MODULE Stores -------------------------------
(***************************************************************************)
(* The parts that keep something: the panes and their configuration, the   *)
(* output a session keeps, the layouts a dashboard edits, what is recorded *)
(* about tasks in files, and what the dashboard shows of them and types    *)
(* into.  They share no state; the properties of what is kept about tasks  *)
(* go together two by two.                                                 *)
(***************************************************************************)
EXTENDS Panes, ReplayBuffer, LayoutEdits, Summaries, TaskRecords, TaskPopups, TaskCollections

\* Every part's variables have their types.
StoresTypeOK ==
  /\ PanesTypeOK /\ RingTypeOK /\ SumTypeOK /\ LayoutTypeOK /\ RecordsTypeOK
  /\ PopupsTypeOK /\ CollectionsTypeOK

\* What a file says about tasks stays what it should be: summaries.json with
\* the log it summarises (Summaries), tasks.json with what was recorded
\* (TaskRecords).
FilesHold == SummariesHold /\ RecordsHold

\* The dashboard shows and ends the terminals it should, and what it shows of
\* the tasks is not older than what it was told.
DashboardHolds == PopupsHold /\ CollectionsHold
=============================================================================

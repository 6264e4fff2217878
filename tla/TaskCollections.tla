--------------------------- MODULE TaskCollections ---------------------------
(***************************************************************************)
(* The dashboard's collections of tasks and what a person does to a task   *)
(* meanwhile (frontend/src/hooks/useTasks.ts).                             *)
(*                                                                         *)
(* What the server knows is a version of each kind: the records, the tasks *)
(* on the hosts, the summaries and the connections.                        *)
(***************************************************************************)
EXTENDS Naturals

CONSTANT MaxRequests  \* bound: requests a person makes

ASSUME TaskCollectionsAssumption == MaxRequests \in Nat

VARIABLES
  watching,      \* enabled and isVisible
  data,          \* what is shown: the version of each kind, once loaded
  collection,    \* the one in flight (inFlight), and what it has read
  recordSaves,
  collectAgain,
  versions,      \* the server's, of each kind
  requests,      \* what was asked for, and the version that answers it
  heard,         \* the version of the last record answered, and the newest of the others
  missed         \* the last collection failed, or was dropped for a save

collectionVars == <<watching, data, collection, recordSaves, collectAgain, versions, requests, heard, missed>>

Kinds      == {"record", "task", "summary", "link"}
RequestIDs == 1..MaxRequests
Version    == 0..MaxRequests
NoVersions    == [k \in Kinds |-> 0]
NoCollection       == [at |-> "none", saves |-> 0, got |-> NoVersions, knew |-> 0]
InFlight    == collection.at # "none"

-----------------------------------------------------------------------------
(* Collections                                                             *)

\* One begins, with what was heard of by then.
Begun(h) == [NoCollection EXCEPT !.at = "asked", !.saves = recordSaves, !.knew = h["task"]]

\* refresh
Refresh(h) == collection' = IF InFlight THEN collection ELSE Begun(h)

\* The effect that polls while the dashboard is shown.
Watch ==
  /\ watching' = ~watching
  /\ IF watching' THEN Refresh(heard) ELSE UNCHANGED collection
  /\ UNCHANGED <<data, recordSaves, collectAgain, versions, requests, heard, missed>>

PollTasks ==
  /\ watching /\ ~InFlight /\ Refresh(heard)
  /\ UNCHANGED <<watching, data, recordSaves, collectAgain, versions, requests, heard, missed>>

\* GetTasks: the hosts are read before the summaries and the records.
Reads(from, to, kinds) ==
  /\ collection.at = from
  /\ collection' = [collection EXCEPT !.at = to, !.got = [k \in Kinds |-> IF k \in kinds THEN versions[k] ELSE collection.got[k]]]
  /\ UNCHANGED <<watching, data, recordSaves, collectAgain, versions, requests, heard, missed>>

Collects == Reads("asked", "listed", {"task", "link"}) \/ Reads("listed", "read", {"summary", "record"})

\* Mutant: no answer is dropped.
OutdatedNever(c) == FALSE

\* The answer of a collection that was running when a save landed is dropped.
Outdated(c) == c.saves # recordSaves

\* One waits for it when a task was started meanwhile.
CollectionEnds(shows) ==
  /\ missed' = ~shows
  /\ data' = IF shows THEN [loaded |-> TRUE, shown |-> collection.got] ELSE data
  /\ collection' = IF collectAgain THEN Begun(heard) ELSE NoCollection
  /\ collectAgain' = FALSE
  /\ UNCHANGED <<watching, recordSaves, versions, requests, heard>>

CollectionArrives ==
  \/ collection.at = "read" /\ CollectionEnds(~Outdated(collection))
  \/ InFlight /\ CollectionEnds(FALSE)

-----------------------------------------------------------------------------
(* Requests                                                                *)

\* Mutant: a collection that runs already is enough.
FollowSkips(k) == Refresh(heard') /\ UNCHANGED collectAgain

\* refreshAfterAction, and for a reconnected host refresh.
Follow(k) ==
  IF k = "task" /\ InFlight THEN collectAgain' = TRUE /\ UNCHANGED collection
  ELSE Refresh(heard') /\ UNCHANGED collectAgain

\* launch and resume (and inputGiven), saveRecord, requestSummary, reconnect
Ask(k) ==
  /\ \E i \in RequestIDs :
       /\ requests[i].at = "none" /\ \A j \in RequestIDs : j < i => requests[j].at # "none"
       /\ requests' = [requests EXCEPT ![i] = [at |-> "sent", kind |-> k, got |-> 0]]
  /\ UNCHANGED <<watching, data, collection, recordSaves, collectAgain, versions, heard, missed>>

RequestServed(i) ==
  LET k == requests[i].kind IN
  /\ requests[i].at = "sent"
  /\ versions' = [versions EXCEPT ![k] = @ + 1]
  /\ requests' = [requests EXCEPT ![i].at = "served", ![i].got = versions[k] + 1]
  /\ UNCHANGED <<watching, data, collection, recordSaves, collectAgain, heard, missed>>

\* A refusal, or an answer that is lost.
RequestRefused(i) ==
  /\ requests[i].at \in {"sent", "served"} /\ requests' = [requests EXCEPT ![i] = [@ EXCEPT !.at = "done", !.got = 0]]
  /\ UNCHANGED <<watching, data, collection, recordSaves, collectAgain, versions, heard, missed>>

RequestAnswered(i) ==
  LET k == requests[i].kind
      v == requests[i].got
  IN
  /\ requests[i].at = "served" /\ requests' = [requests EXCEPT ![i] = [@ EXCEPT !.at = "done", !.got = 0]]
  /\ heard' = [heard EXCEPT ![k] = IF k = "record" \/ v > @ THEN v ELSE @]
  /\ recordSaves' = IF k = "record" THEN recordSaves + 1 ELSE recordSaves
  /\ IF k \in {"record", "summary"} /\ data.loaded
     THEN data' = [data EXCEPT !.shown[k] = v] ELSE UNCHANGED data
  /\ IF k \in {"task", "link"} THEN Follow(k) ELSE UNCHANGED <<collection, collectAgain>>
  /\ UNCHANGED <<watching, versions, missed>>

-----------------------------------------------------------------------------
CollectionsInit ==
  /\ watching = FALSE /\ data = [loaded |-> FALSE, shown |-> NoVersions] /\ collection = NoCollection
  /\ recordSaves = 0 /\ collectAgain = FALSE /\ versions = NoVersions
  /\ requests = [i \in RequestIDs |-> [at |-> "none", kind |-> "task", got |-> 0]]
  /\ heard = NoVersions /\ missed = FALSE

CollectionsNext ==
  \/ Watch \/ PollTasks \/ Collects \/ CollectionArrives
  \/ \E k \in Kinds : Ask(k)
  \/ \E i \in RequestIDs : RequestServed(i) \/ RequestRefused(i) \/ RequestAnswered(i)

CollectionsSpec == CollectionsInit /\ [][CollectionsNext]_collectionVars

CollectionsTypeOK ==
  /\ watching \in BOOLEAN /\ collectAgain \in BOOLEAN /\ missed \in BOOLEAN /\ recordSaves \in Version
  /\ data \in [loaded : BOOLEAN, shown : [Kinds -> Version]]
  /\ versions \in [Kinds -> Version] /\ heard \in [Kinds -> Version]
  /\ collection \in [at : {"none", "asked", "listed", "read"}, saves : Version, got : [Kinds -> Version], knew : Version]
  /\ requests \in [RequestIDs -> [at : {"none", "sent", "served", "done"}, kind : Kinds, got : Version]]

-----------------------------------------------------------------------------
(* Properties                                                              *)

\* A poll never puts an old record back: what is shown is no older than the
\* answer of the last save.
RecordsStay == data.loaded => data.shown["record"] >= heard["record"]

\* A task that was started is shown, or a collection that began since runs or
\* will; but for one that failed or was dropped, after which a poll shows it.
StartedIsCollected ==
  \/ data.shown["task"] >= heard["task"]
  \/ InFlight /\ (collectAgain \/ collection.knew >= heard["task"])
  \/ missed

CollectionsHold == RecordsStay /\ StartedIsCollected
=============================================================================

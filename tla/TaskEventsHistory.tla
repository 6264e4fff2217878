-------------------------- MODULE TaskEventsHistory --------------------------
(***************************************************************************)
(* TaskEvents with two history variables, for the properties that relate   *)
(* what a tab shows now to what the server held at other times.            *)
(***************************************************************************)
EXTENDS TaskEvents

VARIABLES
  published,  \* every image the server held
  outlived    \* loops whose host was removed since their collection began

hvars == <<vars, published, outlived>>

InFlight(l) == l.at \in {"collecting", "collected"}

HInit == Init /\ published = {model} /\ outlived = {}

HNext ==
  /\ Next
  /\ published' = published \cup {model'}
  /\ outlived' = {x \in Hosts \X Slots :
                    /\ InFlight(loops'[x[1]][x[2]])
                    /\ \/ x \in outlived /\ InFlight(loops[x[1]][x[2]])
                       \/ model'.hosts[x[1]] = Absent}

HSpec == HInit /\ [][HNext]_hvars

HFairSpec == HSpec /\ Fairness

-----------------------------------------------------------------------------
\* A tab shows only what the server once held: applying the frames of its
\* connection one by one never makes an image of the tab's own.
StoreIsPublished == \A t \in Tabs : store[t] # Absent => store[t] \in published

\* An unsigned wait ID names one uninterrupted wait of one task: no two
\* tasks share it, its reason never changes, and between two images that
\* show it every image of that server shows it.
WaitIDNamesOneWait ==
  \A p, q \in published : \A t, u \in Tasks :
    (/\ p.tasks[t] # Absent /\ q.tasks[u] # Absent
     /\ IsUnsignedWaitID(p.tasks[t].waitID) /\ p.tasks[t].waitID = q.tasks[u].waitID)
    => /\ t = u /\ p.tasks[t] = q.tasks[u]
       /\ \A r \in published :
            (r.epoch = p.epoch /\ p.seq <= r.seq /\ r.seq <= q.seq) => r.tasks[t] = p.tasks[t]

\* observeHost's comment: it ends when the host is removed, and a result that
\* arrives after that is discarded, its loop with it.
RemovedHostResultDiscarded ==
  [][\A h \in Hosts, s \in Slots :
       (<<h, s>> \in outlived /\ loops[h][s].at = "collected" /\ ~InFlight(loops'[h][s]))
         => loops'[h][s] = Ended]_hvars

(***************************************************************************)
(* What the stream promises a tab, and the mapping under which it does.    *)
(***************************************************************************)
Stream == INSTANCE TaskEventStream WITH hub <- model, view <- store
StreamSpec == Stream!Spec
=============================================================================

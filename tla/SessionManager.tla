---------------------------- MODULE SessionManager ----------------------------
(***************************************************************************)
(* session.Manager: the terminal sessions the server serves, the output    *)
(* pump of each, its subscribers (WebSockets reading it) and the watcher   *)
(* that is told their number (internal/session/manager.go).                *)
(*                                                                         *)
(* A subscriber-count change is numbered under the session's mutex and     *)
(* reported after it is released, by the goroutine that made the change:   *)
(* a report is a `notice` that Notify delivers or drops, in any order.     *)
(*                                                                         *)
(* The output itself, its replay buffer and its chunks are left out: here  *)
(* a session's output only ends.                                           *)
(***************************************************************************)
EXTENDS Naturals, FiniteSets

CONSTANTS
  Sessions,   \* session IDs, one session each
  Sockets,    \* what may subscribe
  MaxChanges  \* bound: each session's subscriber-count changes before a last Subscribe

ASSUME SessionManagerAssumption == IsFiniteSet(Sockets) /\ MaxChanges \in [Sessions -> Nat]

VARIABLES
  state,      \* Session.State of each session, "absent" before it is created
  managed,    \* Manager.sessions
  pumping,    \* sessions whose pump goroutine runs
  ended,      \* managedSession.closed
  subs,       \* managedSession.subscribers
  changes,    \* managedSession.changes
  delivered,  \* managedSession.delivered
  watched,    \* sessions whose managedSession.watch is set
  notices,    \* counts changed and not yet reported
  heard,      \* what watch was last called with
  since       \* changes when the watcher was set

sessionVars == <<state, managed, pumping, ended>>
countVars   == <<subs, changes, delivered, watched, notices, heard, since>>
managerVars == <<sessionVars, countVars>>

Notice == [change : Nat, count : Nat, watched : BOOLEAN]

-----------------------------------------------------------------------------
(* A session is created by its factory; its program exits, or its host is  *)
(* lost, when it will.                                                     *)
CreateSession(s) ==
  /\ state[s] = "absent"
  /\ state' = [state EXCEPT ![s] = "connected"]
  /\ UNCHANGED <<managed, pumping, ended, countVars>>

EndSession(s) ==
  /\ state[s] = "connected"
  /\ \E e \in {"exited", "disconnected"} : state' = [state EXCEPT ![s] = e]
  /\ UNCHANGED <<managed, pumping, ended, countVars>>

Add(s) ==
  /\ managed' = managed \cup {s}
  /\ pumping' = pumping \cup {s}
  /\ UNCHANGED <<state, ended, countVars>>

\* Remove takes the session out and closes it; there may be none.
Remove(s) ==
  /\ managed' = managed \ {s}
  /\ state' = IF s \in managed THEN [state EXCEPT ![s] = "exited"] ELSE state
  /\ UNCHANGED <<pumping, ended, countVars>>

Watch(s) ==
  /\ IF s \in managed
       THEN watched' = watched \cup {s} /\ since' = [since EXCEPT ![s] = changes[s]]
       ELSE UNCHANGED <<watched, since>>
  /\ UNCHANGED <<sessionVars, subs, changes, delivered, notices, heard>>

\* Mutant: the count reported is the one before the change.
CountBefore(s, now) == Cardinality(subs[s])

Count(s, now) == Cardinality(now)

\* countChangedLocked, with the subscribers as they now are.
CountChanged(s, now) ==
  /\ subs' = [subs EXCEPT ![s] = now]
  /\ changes' = [changes EXCEPT ![s] = @ + 1]
  /\ notices' = [notices EXCEPT ![s] = @ \cup
       {[change |-> changes[s] + 1, count |-> Count(s, now), watched |-> s \in watched]}]
  /\ UNCHANGED <<delivered, watched, heard, since>>

Subscribe(s, k) ==
  /\ s \in managed
  /\ changes[s] < MaxChanges[s]
  /\ IF s \in ended THEN UNCHANGED countVars
     ELSE CountChanged(s, subs[s] \cup {k})
  /\ UNCHANGED sessionVars

\* The unsubscribe func: nothing to do once closeSubscribers ran.
Unsubscribe(s, k) ==
  /\ IF k \in subs[s] THEN CountChanged(s, subs[s] \ {k}) ELSE UNCHANGED countVars
  /\ UNCHANGED sessionVars

\* The pump reads the end of the output: closeSubscribers.
EndOutput(s) ==
  /\ s \in pumping /\ state[s] # "connected"
  /\ pumping' = pumping \ {s}
  /\ ended' = ended \cup {s}
  /\ IF subs[s] # {} THEN CountChanged(s, {}) ELSE UNCHANGED countVars
  /\ UNCHANGED <<state, managed>>

\* Mutant: whatever is reported last is believed.
BelievesAny(s, n) == n.watched

Believes(s, n) == n.watched /\ n.change > delivered[s]

\* The func countChangedLocked returned.
Notify(s, n) ==
  /\ n \in notices[s]
  /\ notices' = [notices EXCEPT ![s] = @ \ {n}]
  /\ IF Believes(s, n)
       THEN /\ delivered' = [delivered EXCEPT ![s] = n.change]
            /\ heard' = [heard EXCEPT ![s] = n.count]
       ELSE UNCHANGED <<delivered, heard>>
  /\ UNCHANGED <<sessionVars, subs, changes, watched, since>>

-----------------------------------------------------------------------------
ManagerInit ==
  /\ state = [s \in Sessions |-> "absent"]
  /\ managed = {} /\ pumping = {} /\ ended = {}
  /\ subs = [s \in Sessions |-> {}]
  /\ changes = [s \in Sessions |-> 0]
  /\ delivered = [s \in Sessions |-> 0]
  /\ watched = {}
  /\ notices = [s \in Sessions |-> {}]
  /\ heard = [s \in Sessions |-> 0]
  /\ since = [s \in Sessions |-> 0]

ManagerNext ==
  \E s \in Sessions :
    \/ CreateSession(s) \/ EndSession(s) \/ Add(s) \/ Remove(s) \/ Watch(s) \/ EndOutput(s)
    \/ \E k \in Sockets : Subscribe(s, k) \/ Unsubscribe(s, k)
    \/ \E n \in notices[s] : Notify(s, n)

ManagerSpec == ManagerInit /\ [][ManagerNext]_managerVars

-----------------------------------------------------------------------------
ManagerTypeOK ==
  /\ state \in [Sessions -> {"absent", "connected", "disconnected", "exited"}]
  /\ managed \in SUBSET Sessions /\ pumping \in SUBSET Sessions /\ ended \in SUBSET Sessions
  /\ subs \in [Sessions -> SUBSET Sockets]
  /\ changes \in [Sessions -> Nat] /\ delivered \in [Sessions -> Nat]
  /\ watched \in SUBSET Sessions
  /\ notices \in [Sessions -> SUBSET Notice]
  /\ heard \in [Sessions -> Nat] /\ since \in [Sessions -> Nat]

\* Watch's promise: reports made out of order never leave the watcher a stale
\* count; once none is under way, the last count it heard is the current one
\* (if there was a change since it was set).
LastHeardIsCurrent ==
  \A s \in Sessions :
    (s \in watched /\ changes[s] > since[s] /\ notices[s] = {})
      => heard[s] = Cardinality(subs[s])
=============================================================================

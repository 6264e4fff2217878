------------------------------- MODULE CallGate -------------------------------
(***************************************************************************)
(* hosttools.CallGate (internal/hosttools/calls.go) and the installation   *)
(* that pauses it (installWhen, service.go), for one tool: the agent       *)
(* message tool on each host.  A call admitted by Begin may run until its  *)
(* release; an update announces itself, waits for the calls under way and  *)
(* then replaces the tool; no call begins meanwhile.                       *)
(***************************************************************************)
EXTENDS Naturals

CONSTANTS
  Hosts,
  Updates,   \* installations, manual or automatic, each run at most once
  NoHost

ASSUME CallGateAssumption == NoHost \notin Hosts

VARIABLES
  active,    \* callSlot.active
  updating,  \* callSlot.updating
  revision,  \* callSlot.revision
  update,    \* where each installation is, and its host
  installed  \* the hosts where the tool can be used

gateVars == <<active, updating, revision, update, installed>>

Stages == {"idle", "draining", "admitted", "installing", "installed", "done"}

Ended == [at |-> "done", host |-> NoHost]

Go(u, at) == update' = [update EXCEPT ![u].at = at]

-----------------------------------------------------------------------------
(* Calls                                                                   *)

\* Mutant: a call is admitted although an update was announced.
AdmitsAlways(h) == h \in Hosts

Admits(h) == ~updating[h]

Begin(h) ==
  /\ Admits(h)
  /\ active' = [active EXCEPT ![h] = @ + 1]
  /\ UNCHANGED <<updating, revision, update, installed>>

\* The end of calls on each of a set of hosts.
Release(hosts) ==
  /\ active' = [h \in Hosts |-> IF h \in hosts THEN active[h] - 1 ELSE active[h]]
  /\ UNCHANGED <<updating, revision, update, installed>>

-----------------------------------------------------------------------------
(* Installations: Pause, prerequisites, Install, invalidate, resume        *)

\* Mutant: the update does not wait for the calls under way.
NothingToDrain(h) == h \in Hosts

Drained(h) == active[h] = 0

\* Pause; another update of the host refuses this one.
Pause(u, h) ==
  /\ update[u].at = "idle"
  /\ update' = [update EXCEPT ![u] =
       IF updating[h] THEN Ended
       ELSE [at |-> IF Drained(h) THEN "admitted" ELSE "draining", host |-> h]]
  /\ updating' = [updating EXCEPT ![h] = TRUE]
  /\ UNCHANGED <<active, revision, installed>>

Drain(u) ==
  /\ update[u].at = "draining" /\ Drained(update[u].host)
  /\ Go(u, "admitted")
  /\ UNCHANGED <<active, updating, revision, installed>>

\* Whatever ends it, the deferred resume lifts the pause.
Resumes(u) ==
  /\ update' = [update EXCEPT ![u] = Ended]
  /\ updating' = [updating EXCEPT ![update[u].host] = FALSE]

\* Cancelled while draining; nothing to update, or a prerequisite fails.
GiveUp(u) ==
  /\ update[u].at \in {"draining", "admitted"}
  /\ Resumes(u)
  /\ UNCHANGED <<active, revision, installed>>

StartInstall(u) ==
  /\ update[u].at = "admitted"
  /\ Go(u, "installing")
  /\ UNCHANGED <<active, updating, revision, installed>>

\* The installer ends: the tool is there, or it failed and left it so or not.
\* Mutant: a failure leaves the revision as it was.
RevisedIfInstalled(h, ok) == IF ok THEN revision[h] + 1 ELSE revision[h]

Revised(h, ok) == revision[h] + 1

Install(u) ==
  LET h == update[u].host IN
  /\ update[u].at = "installing"
  /\ \E ok \in BOOLEAN :
       /\ installed' = IF ok THEN installed \cup {h} ELSE installed \ {h}
       /\ revision' = [revision EXCEPT ![h] = Revised(h, ok)]
  /\ Go(u, "installed")
  /\ UNCHANGED <<active, updating>>

Resume(u) ==
  /\ update[u].at = "installed"
  /\ Resumes(u)
  /\ UNCHANGED <<active, revision, installed>>

\* The process ends and another starts; an installer under way may be cut short.
GateRestart ==
  /\ active' = [h \in Hosts |-> 0]
  /\ updating' = [h \in Hosts |-> FALSE]
  /\ revision' = [h \in Hosts |-> 0]
  /\ update' = [u \in Updates |-> IF update[u].at = "idle" THEN update[u] ELSE Ended]
  /\ \E broken \in SUBSET {update[u].host : u \in {v \in Updates : update[v].at = "installing"}} :
       installed' = installed \ broken

-----------------------------------------------------------------------------
GateInit ==
  /\ active = [h \in Hosts |-> 0]
  /\ updating = [h \in Hosts |-> FALSE]
  /\ revision = [h \in Hosts |-> 0]
  /\ update = [u \in Updates |-> [at |-> "idle", host |-> NoHost]]
  /\ installed \in SUBSET Hosts

\* An installation goes on, unless it is given up.
UpdateStep(u) == Drain(u) \/ StartInstall(u) \/ Install(u) \/ Resume(u)

GateNext ==
  \/ \E h \in Hosts : Begin(h) \/ \E u \in Updates : Pause(u, h)
  \/ \E hosts \in SUBSET {h \in Hosts : active[h] > 0} : Release(hosts)
  \/ \E u \in Updates : UpdateStep(u) \/ GiveUp(u)
  \/ GateRestart

GateSpec == GateInit /\ [][GateNext]_gateVars

GateTypeOK ==
  /\ active \in [Hosts -> Nat]
  /\ updating \in [Hosts -> BOOLEAN]
  /\ revision \in [Hosts -> Nat]
  /\ update \in [Updates -> [at : Stages, host : Hosts \cup {NoHost}]]
  /\ installed \in SUBSET Hosts

\* A tool is replaced only while no call uses it, and by one update at a time,
\* whatever the order of announcements, calls and cancellations.
InstallsAlone ==
  \A u \in Updates :
    update[u].at \in {"admitted", "installing", "installed"} =>
      /\ active[update[u].host] = 0
      /\ \A v \in Updates : (v # u /\ update[v].host = update[u].host)
                              => update[v].at \in {"idle", "done"}
=============================================================================

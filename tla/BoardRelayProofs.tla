--------------------------- MODULE BoardRelayProofs ---------------------------
(***************************************************************************)
(* What BoardRelay guarantees for any hosts, panes, messages and limits.   *)
(* The relay's operations are leases of the call gate, each given back     *)
(* once; so no tool is replaced under a poll or a broadcast and what a     *)
(* client remembers of a host is current; and no row is passed by.         *)
(***************************************************************************)
EXTENDS BoardRelay, FiniteSetTheorems, SequenceTheorems, TLAPS

-----------------------------------------------------------------------------
(***************************************************************************)
(* What CallGate guarantees for any hosts, updates and callers: a tool is  *)
(* replaced only while no call uses it, by one update at a time.           *)
(***************************************************************************)
\* An update holds its host's pause from Pause to resume.
Holds(u) == update[u].at \notin {"idle", "done"}

PauseHeld ==
  /\ \A u \in Updates : Holds(u) => update[u].host \in Hosts /\ updating[update[u].host]
  /\ \A u, v \in Updates : Holds(u) /\ Holds(v) /\ update[u].host = update[v].host => u = v
  /\ \A u \in Updates : update[u].at \in {"admitted", "installing", "installed"}
                          => active[update[u].host] = 0

GateInv == GateTypeOK /\ PauseHeld

LEMMA GateInvInit == GateInit => GateInv
BY SMT DEF GateInit, GateInv, GateTypeOK, PauseHeld, Holds, Stages

\* The pause held, one update per host and nobody calling: what InstallsAlone says.
LEMMA PauseHeldAlone == GateInv => InstallsAlone
BY SMT DEF GateInv, PauseHeld, Holds, GateTypeOK, InstallsAlone, Stages

-----------------------------------------------------------------------------
(* Types                                                                   *)

LEMMA BeginType == ASSUME GateTypeOK, NEW h \in Hosts, Begin(h) PROVE GateTypeOK'
BY SMT DEF GateTypeOK, Begin

LEMMA ReleaseType ==
  ASSUME GateTypeOK, NEW hosts \in SUBSET {h \in Hosts : active[h] > 0}, Release(hosts)
  PROVE  GateTypeOK'
BY SMT DEF GateTypeOK, Release

LEMMA UpdateType ==
  ASSUME GateTypeOK, NEW u \in Updates, NEW at \in Stages, NEW h \in Hosts \cup {NoHost},
         update' = [update EXCEPT ![u] = [at |-> at, host |-> h]]
  PROVE  update' \in [Updates -> [at : Stages, host : Hosts \cup {NoHost}]]
BY SMT DEF GateTypeOK

\* Moving on keeps the host.
LEMMA GoType ==
  ASSUME GateTypeOK, NEW u \in Updates, NEW at \in Stages, Go(u, at)
  PROVE  /\ update' \in [Updates -> [at : Stages, host : Hosts \cup {NoHost}]]
         /\ update'[u] = [at |-> at, host |-> update[u].host]
         /\ \A v \in Updates : v # u => update'[v] = update[v]
BY SMT DEF GateTypeOK, Go

-----------------------------------------------------------------------------
(* Each step keeps the type and the pause                                  *)

LEMMA BeginInv == ASSUME GateInv, NEW h \in Hosts, Begin(h) PROVE GateInv'
<1>1. GateTypeOK'
  BY BeginType DEF GateInv
<1>2. \A u \in Updates : update[u].at \in {"admitted", "installing", "installed"}
                            => update[u].host # h
  BY SMT DEF GateInv, PauseHeld, Holds, Begin, Admits
<1>3. PauseHeld'
  BY <1>2, SMT DEF GateInv, GateTypeOK, PauseHeld, Holds, Begin, Admits
<1> QED BY <1>1, <1>3 DEF GateInv

LEMMA ReleaseInv ==
  ASSUME GateInv, NEW hosts \in SUBSET {h \in Hosts : active[h] > 0}, Release(hosts)
  PROVE  GateInv'
<1>1. GateTypeOK'
  BY ReleaseType DEF GateInv
<1>2. PauseHeld'
  BY SMT DEF GateInv, GateTypeOK, PauseHeld, Holds, Release
<1> QED BY <1>1, <1>2 DEF GateInv

LEMMA PauseInv == ASSUME GateInv, NEW u \in Updates, NEW h \in Hosts, Pause(u, h) PROVE GateInv'
<1> USE DEF GateInv, GateTypeOK
<1>0. h \in Hosts /\ NoHost \notin Hosts
  BY CallGateAssumption
<1>1. CASE updating[h]
  <2>1. update' = [update EXCEPT ![u] = [at |-> "done", host |-> NoHost]]
    BY <1>1 DEF Pause, Ended
  <2>2. update' \in [Updates -> [at : Stages, host : Hosts \cup {NoHost}]]
    BY <2>1, UpdateType DEF Stages
  <2>3. updating' = updating
    BY <1>1, ZenonT(30) DEF Pause
  <2>4. GateTypeOK'
    BY <2>2, <2>3 DEF Pause
  <2>5. PauseHeld'
    BY <2>1, <2>3, SMT DEF PauseHeld, Holds, Pause
  <2> QED BY <2>4, <2>5
<1>2. CASE ~updating[h]
  <2> DEFINE at == IF Drained(h) THEN "admitted" ELSE "draining"
  <2>1. update' = [update EXCEPT ![u] = [at |-> at, host |-> h]]
    BY <1>2 DEF Pause
  <2>2. update' \in [Updates -> [at : Stages, host : Hosts \cup {NoHost}]]
    BY <2>1, UpdateType DEF Stages
  <2>3. updating' \in [Hosts -> BOOLEAN] /\ updating'[h]
        /\ \A g \in Hosts : updating[g] => updating'[g]
    BY SMT DEF Pause
  <2>4. GateTypeOK'
    BY <2>2, <2>3 DEF Pause
  <2>5. \A v \in Updates : Holds(v) => update[v].host # h
    BY <1>2 DEF PauseHeld
  <2>6. update'[u] = [at |-> at, host |-> h] /\ \A v \in Updates : v # u => update'[v] = update[v]
    BY <2>1
  <2>7. at \in {"admitted", "draining"} /\ (at = "admitted" => active[h] = 0)
    BY DEF Drained
  <2>8. active' = active
    BY DEF Pause
  <2> HIDE DEF at
  <2>9. PauseHeld'
    BY <2>3, <2>5, <2>6, <2>7, <2>8, SMT DEF PauseHeld, Holds
  <2> QED BY <2>4, <2>9
<1> QED BY <1>1, <1>2

\* An update that goes on without resuming: what it needs of its host still holds.
LEMMA GoInv ==
  ASSUME GateInv, NEW u \in Updates, NEW at \in {"admitted", "installing", "installed"}, Go(u, at),
         Holds(u), active[update[u].host] = 0, UNCHANGED <<active, updating>>,
         revision' \in [Hosts -> Nat], installed' \in SUBSET Hosts
  PROVE  GateInv'
<1> USE DEF GateInv
<1>1. /\ update' \in [Updates -> [at : Stages, host : Hosts \cup {NoHost}]]
      /\ update'[u] = [at |-> at, host |-> update[u].host]
      /\ \A v \in Updates : v # u => update'[v] = update[v]
  BY GoType DEF Stages
<1>2. GateTypeOK'
  BY <1>1 DEF GateTypeOK
<1>3. PauseHeld'
  BY <1>1, SMT DEF PauseHeld, Holds, GateTypeOK
<1> QED BY <1>2, <1>3

\* Resuming lifts the pause of the host that the update alone held.
LEMMA ResumesInv ==
  ASSUME GateInv, NEW u \in Updates, Holds(u), Resumes(u), UNCHANGED <<active, revision, installed>>
  PROVE  GateInv'
<1> USE DEF GateInv, GateTypeOK
<1>1. update' = [update EXCEPT ![u] = [at |-> "done", host |-> NoHost]]
  BY DEF Resumes, Ended
<1>2. update' \in [Updates -> [at : Stages, host : Hosts \cup {NoHost}]]
  BY <1>1, UpdateType DEF Stages
<1>3. updating' \in [Hosts -> BOOLEAN]
      /\ \A g \in Hosts : g # update[u].host => updating'[g] = updating[g]
  BY SMT DEF Resumes, PauseHeld
<1>4. \A v \in Updates : (v # u /\ Holds(v)) => update[v].host # update[u].host
  BY DEF PauseHeld
<1>5. PauseHeld'
  BY <1>1, <1>3, <1>4, SMT DEF PauseHeld, Holds
<1>6. GateTypeOK'
  BY <1>2, <1>3
<1> QED BY <1>5, <1>6

LEMMA UpdateStepInv ==
  ASSUME GateInv, NEW u \in Updates, UpdateStep(u) PROVE GateInv'
<1> USE DEF GateInv
<1>1. CASE Drain(u)
  <2>1. Holds(u) /\ active[update[u].host] = 0
    BY <1>1 DEF Drain, Drained, Holds
  <2> QED BY <1>1, <2>1, GoInv DEF Drain, GateTypeOK
<1>2. CASE StartInstall(u)
  <2>1. Holds(u) /\ active[update[u].host] = 0
    BY <1>2 DEF StartInstall, PauseHeld, Holds
  <2> QED BY <1>2, <2>1, GoInv DEF StartInstall, GateTypeOK
<1>3. CASE Install(u)
  <2>1. Holds(u) /\ active[update[u].host] = 0 /\ update[u].host \in Hosts
    BY <1>3 DEF Install, PauseHeld, Holds
  <2>2. revision' \in [Hosts -> Nat] /\ installed' \in SUBSET Hosts
    BY <1>3, <2>1, SMT DEF Install, Revised, GateTypeOK
  <2> QED BY <1>3, <2>1, <2>2, GoInv DEF Install
<1>4. CASE Resume(u)
  <2>1. Holds(u)
    BY <1>4 DEF Resume, Holds
  <2> QED BY <1>4, <2>1, ResumesInv DEF Resume
<1> QED BY <1>1, <1>2, <1>3, <1>4 DEF UpdateStep

LEMMA GiveUpInv == ASSUME GateInv, NEW u \in Updates, GiveUp(u) PROVE GateInv'
<1>1. Holds(u)
  BY DEF GiveUp, Holds
<1> QED BY <1>1, ResumesInv DEF GiveUp

LEMMA GateRestartInv == ASSUME GateInv, GateRestart PROVE GateInv'
<1> USE DEF GateInv, GateTypeOK
<1>1. \A u \in Updates : update'[u] = IF update[u].at = "idle" THEN update[u] ELSE Ended
  BY DEF GateRestart
<1>2. update' \in [Updates -> [at : Stages, host : Hosts \cup {NoHost}]]
  BY SMT DEF GateRestart, Ended, Stages
<1>3. active' \in [Hosts -> Nat] /\ updating' \in [Hosts -> BOOLEAN] /\ revision' \in [Hosts -> Nat]
  BY SMT DEF GateRestart
<1>4. installed' \in SUBSET Hosts
  BY DEF GateRestart
<1>5. \A u \in Updates : ~Holds(u)'
  BY <1>1 DEF Holds, Ended
<1>6. PauseHeld'
  BY <1>5 DEF PauseHeld, Holds
<1> QED BY <1>2, <1>3, <1>4, <1>6

LEMMA GateInvStep == GateInv /\ [GateNext]_gateVars => GateInv'
<1> SUFFICES ASSUME GateInv, [GateNext]_gateVars PROVE GateInv'
  OBVIOUS
<1>1. CASE UNCHANGED gateVars
  BY <1>1 DEF gateVars, GateInv, GateTypeOK, PauseHeld, Holds
<1>2. ASSUME NEW h \in Hosts, Begin(h) PROVE GateInv'
  BY <1>2, BeginInv
<1>3. ASSUME NEW h \in Hosts, NEW u \in Updates, Pause(u, h) PROVE GateInv'
  BY <1>3, PauseInv
<1>4. ASSUME NEW hosts \in SUBSET {h \in Hosts : active[h] > 0}, Release(hosts) PROVE GateInv'
  BY <1>4, ReleaseInv
<1>5. ASSUME NEW u \in Updates, UpdateStep(u) \/ GiveUp(u) PROVE GateInv'
  BY <1>5, UpdateStepInv, GiveUpInv
<1>6. CASE GateRestart
  BY <1>6, GateRestartInv
<1> QED BY <1>1, <1>2, <1>3, <1>4, <1>5, <1>6 DEF GateNext

\* The gate's counts and pauses are what they claim to be whatever calls it.
THEOREM GateInvariant == GateSpec => []GateInv
BY GateInvInit, GateInvStep, PTL DEF GateSpec

\* For any hosts, updates and callers, a tool is replaced only while no call
\* uses it and by one update at a time (Begin, Pause and resume of CallGate).
THEOREM GateInstallsAlone == GateSpec => []InstallsAlone
BY GateInvariant, PauseHeldAlone, PTL

-----------------------------------------------------------------------------
(* The relay                                                               *)
Routes == [Panes -> Hosts \cup {NoHost}]

Polls == [at : {"idle", "pass", "reading", "rows"}, todo : Seq(Hosts), backfill : BOOLEAN,
          changed : BOOLEAN, host : Hosts \cup {NoHost}, next : Nat, last : Nat,
          leased : SUBSET Hosts, routes : Routes]

CastAts == {"idle", "next", "sending", "delivered", "failed", "failedDelivered", "done"}
CastRecords == [at : CastAts, todo : Seq(Panes), body : Bodies, routes : Routes]

(***************************************************************************)
(* The shape of a poll and of a broadcast under way.                       *)
(***************************************************************************)
PollShape ==
  /\ poll.at \in {"reading", "rows"} => poll.host \in Hosts /\ poll.host \in poll.leased
  /\ poll.at \in {"idle", "pass"} => poll.leased = {}
  /\ poll.at = "rows" => poll.next >= 1 /\ poll.last <= Len(log[poll.host])

Underway(c) == cast[c].at \notin {"idle", "done"}

CastShape ==
  \A c \in Casts : Underway(c) =>
    /\ cast[c].todo # <<>>
    /\ \A i \in DOMAIN cast[c].todo : cast[c].routes[cast[c].todo[i]] \in Hosts

ClientType ==
  /\ known \in [Hosts -> {"unknown", "absent", "present"}]
  /\ seenRevision \in [Hosts -> Nat]
LogType == log \in [Hosts -> Seq(Row)] /\ \A h \in Hosts : Len(log[h]) <= MaxLog
CursorType ==
  cursors \in [Hosts -> 0 .. MaxLog] /\ saved \in [Hosts -> 0 .. MaxLog] /\ backfilled \in BOOLEAN
GhostType ==
  /\ history \in SUBSET Place /\ seen \in SUBSET Place /\ missed \in SUBSET Place
  /\ read \in SUBSET Hosts
  /\ faults \in Nat /\ crashes \in Nat /\ moved \in BOOLEAN
  /\ forwards \in [Place -> Nat]
RelayType ==
  /\ ClientType /\ owner \in Routes /\ LogType /\ CursorType
  /\ poll \in Polls /\ live \in [Keys -> Nat] /\ cast \in [Casts -> CastRecords] /\ GhostType

LEMMA RelayTypeIsTypeOK == GateTypeOK /\ RelayType <=> TypeOK
BY DEF RelayType, ClientType, LogType, CursorType, GhostType, Polls, CastRecords, CastAts, Routes,
       TypeOK

-----------------------------------------------------------------------------
(* How a poll and a cast move                                              *)

PollOf(at, todo, backfill, changed, host, next, last, leased, routes) ==
  [at |-> at, todo |-> todo, backfill |-> backfill, changed |-> changed, host |-> host,
   next |-> next, last |-> last, leased |-> leased, routes |-> routes]

LEMMA PollOfType ==
  ASSUME NEW at \in {"idle", "pass", "reading", "rows"}, NEW todo \in Seq(Hosts),
         NEW backfill \in BOOLEAN, NEW changed \in BOOLEAN, NEW host \in Hosts \cup {NoHost},
         NEW next \in Nat, NEW last \in Nat, NEW leased \in SUBSET Hosts, NEW routes \in Routes
  PROVE  PollOf(at, todo, backfill, changed, host, next, last, leased, routes) \in Polls
BY DEF PollOf, Polls

\* Field by field, so that a poll's record can be rewritten as a whole.
LEMMA PollIsOf ==
  ASSUME NEW p \in Polls
  PROVE  /\ p = PollOf(p.at, p.todo, p.backfill, p.changed, p.host, p.next, p.last, p.leased, p.routes)
         /\ p.at \in {"idle", "pass", "reading", "rows"} /\ p.todo \in Seq(Hosts)
         /\ p.backfill \in BOOLEAN /\ p.changed \in BOOLEAN /\ p.host \in Hosts \cup {NoHost}
         /\ p.next \in Nat /\ p.last \in Nat /\ p.leased \in SUBSET Hosts /\ p.routes \in Routes
BY DEF PollOf, Polls

NoRoutes == [p \in Panes |-> NoHost]

LEMMA NoPollIsOf ==
  NoPoll = PollOf("idle", <<>>, FALSE, FALSE, NoHost, 1, 0, {}, NoRoutes) /\ NoPoll \in Polls
<1>1. NoPoll = PollOf("idle", <<>>, FALSE, FALSE, NoHost, 1, 0, {}, NoRoutes)
  BY DEF NoPoll, PollOf, NoRoutes
<1>2. NoRoutes \in Routes /\ <<>> \in Seq(Hosts)
  BY DEF NoRoutes, Routes
<1> QED BY <1>1, <1>2, PollOfType

LEMMA HeadTail ==
  ASSUME NEW S, NEW s \in Seq(S), s # <<>>
  PROVE  Head(s) \in S /\ Tail(s) \in Seq(S)
OBVIOUS

LEMMA StartPollMoves ==
  ASSUME RelayType, StartPoll
  PROVE  poll' = PollOf("pass", Sorted, ~backfilled, FALSE, NoHost, 1, 0, {}, NoRoutes) /\ poll' \in Polls
<1>1. poll' = PollOf("pass", Sorted, ~backfilled, FALSE, NoHost, 1, 0, {}, NoRoutes)
  BY NoPollIsOf DEF StartPoll, PollOf
<1>2. NoRoutes \in Routes
  BY DEF NoRoutes, Routes
<1>3. Sorted \in Seq(Hosts)
  BY BoardRelayAssumption
<1>4. (~backfilled) \in BOOLEAN
  BY DEF RelayType, CursorType
<1> QED BY <1>1, <1>2, <1>3, <1>4, PollOfType

LEMMA PollHostMoves ==
  ASSUME RelayType, PollHost
  PROVE  /\ Head(poll.todo) \in Hosts
         /\ poll' = PollOf("reading", Tail(poll.todo), poll.backfill, poll.changed, Head(poll.todo),
                           poll.next, poll.last, {Head(poll.todo)}, poll.routes)
         /\ poll' \in Polls
<1>1. poll \in Polls
  BY DEF RelayType
<1>2. Head(poll.todo) \in Hosts /\ Tail(poll.todo) \in Seq(Hosts)
  <2>1. poll.todo \in Seq(Hosts) /\ poll.todo # <<>>
    BY <1>1, PollIsOf DEF PollHost
  <2> QED BY <2>1, HeadTail, Zenon
<1>3. poll' = PollOf("reading", Tail(poll.todo), poll.backfill, poll.changed, Head(poll.todo),
                     poll.next, poll.last, {Head(poll.todo)}, poll.routes)
  BY <1>1 DEF PollHost, PollOf, Polls
<1>4. /\ poll.backfill \in BOOLEAN /\ poll.changed \in BOOLEAN
      /\ poll.next \in Nat /\ poll.last \in Nat /\ poll.routes \in Routes
  BY <1>1, PollIsOf
<1>5. Head(poll.todo) \in Hosts \cup {NoHost} /\ {Head(poll.todo)} \in SUBSET Hosts
  BY <1>2
<1> QED BY <1>2, <1>3, <1>4, <1>5, PollOfType

LEMMA HostRefusedMoves ==
  ASSUME RelayType, HostRefused
  PROVE  /\ poll' = PollOf("pass", Tail(poll.todo), poll.backfill, poll.changed, poll.host,
                           poll.next, poll.last, poll.leased, poll.routes)
         /\ poll' \in Polls
<1>1. poll \in Polls
  BY DEF RelayType
<1>2. Tail(poll.todo) \in Seq(Hosts)
  <2>1. poll.todo \in Seq(Hosts) /\ poll.todo # <<>>
    BY <1>1, PollIsOf DEF HostRefused
  <2> QED BY <2>1, HeadTail, Zenon
<1>3. poll' = PollOf("pass", Tail(poll.todo), poll.backfill, poll.changed, poll.host,
                     poll.next, poll.last, poll.leased, poll.routes)
  BY <1>1 DEF HostRefused, PollOf, Polls
<1> QED BY <1>1, <1>2, <1>3, PollIsOf, PollOfType

LEMMA LeaveMoves ==
  ASSUME RelayType, NEW changed \in BOOLEAN, Leave(changed)
  PROVE  /\ poll' = PollOf("pass", poll.todo, poll.backfill, poll.changed \/ changed, NoHost, 1, 0,
                           {}, NoRoutes)
         /\ poll' \in Polls
<1>1. poll \in Polls
  BY DEF RelayType
<1>2. poll' = PollOf("pass", poll.todo, poll.backfill, poll.changed \/ changed, NoHost, 1, 0, {},
                     NoRoutes)
  BY NoPollIsOf DEF Leave, PollOf
<1>3. NoRoutes \in Routes
  BY DEF NoRoutes, Routes
<1>4. (poll.changed \/ changed) \in BOOLEAN
  BY <1>1, PollIsOf
<1> QED BY <1>1, <1>2, <1>3, <1>4, PollIsOf, PollOfType

LEMMA FirstAfterType ==
  ASSUME RelayType, NEW h \in Hosts, NEW limit \in Nat \ {0}
  PROVE  /\ Len(log[h]) \in 0 .. MaxLog /\ cursors[h] \in 0 .. MaxLog
         /\ Oldest(h, limit) \in Nat \ {0} /\ FirstAfter(h, limit) \in Nat \ {0}
<1>1. log[h] \in Seq(Row) /\ Len(log[h]) <= MaxLog
  BY DEF RelayType, LogType
<1>2. Len(log[h]) \in Nat /\ MaxLog \in Nat
  BY <1>1, BoardRelayAssumption
<1>3. cursors[h] \in 0 .. MaxLog
  BY DEF RelayType, CursorType
<1> QED BY <1>1, <1>2, <1>3, SMT DEF Oldest, FirstAfter

LEMMA ReadLimitType == ReadLimit \in Nat \ {0}
BY BoardRelayAssumption DEF ReadLimit

LEMMA SinceMoves ==
  ASSUME RelayType, PollShape, Since, Ready(poll.host) = "present"
  PROVE  /\ poll.host \in Hosts
         /\ poll' = PollOf("rows", poll.todo, poll.backfill, poll.changed, poll.host,
                           FirstAfter(poll.host, ReadLimit), Len(log[poll.host]), poll.leased, owner)
         /\ poll' \in Polls
<1>1. poll \in Polls /\ owner \in Routes /\ poll.host \in Hosts
  BY DEF RelayType, PollShape, Since
<1>2. /\ FirstAfter(poll.host, ReadLimit) \in Nat
      /\ Len(log[poll.host]) \in Nat
  BY <1>1, FirstAfterType, ReadLimitType, BoardRelayAssumption, SMT
<1>3. poll' = PollOf("rows", poll.todo, poll.backfill, poll.changed, poll.host,
                     FirstAfter(poll.host, ReadLimit), Len(log[poll.host]), poll.leased, owner)
  BY <1>1 DEF Since, PollOf, Polls
<1> QED BY <1>1, <1>2, <1>3, PollIsOf, PollOfType

LEMMA AdmitMoves ==
  ASSUME RelayType, NEW d \in Hosts, AdmitDestination(d)
  PROVE  /\ poll' = PollOf("rows", poll.todo, poll.backfill, poll.changed, poll.host, poll.next,
                           poll.last, poll.leased \cup {d}, poll.routes)
         /\ poll' \in Polls /\ d \notin poll.leased
<1>1. poll \in Polls
  BY DEF RelayType
<1>2. poll' = PollOf("rows", poll.todo, poll.backfill, poll.changed, poll.host, poll.next,
                     poll.last, poll.leased \cup {d}, poll.routes)
  BY <1>1 DEF AdmitDestination, PollOf, Polls
<1>3. poll.leased \cup {d} \in SUBSET Hosts
  BY <1>1, PollIsOf
<1>4. d \notin poll.leased
  BY DEF AdmitDestination, Wanted
<1> QED BY <1>1, <1>2, <1>3, <1>4, PollIsOf, PollOfType

LEMMA ProcessRowMoves ==
  ASSUME RelayType, ProcessRow
  PROVE  /\ poll' = PollOf("rows", poll.todo, poll.backfill, poll.changed, poll.host, poll.next + 1,
                           poll.last, poll.leased, poll.routes)
         /\ poll' \in Polls
<1>1. poll \in Polls
  BY DEF RelayType
<1>2. poll' = PollOf("rows", poll.todo, poll.backfill, poll.changed, poll.host, poll.next + 1,
                     poll.last, poll.leased, poll.routes)
  BY <1>1 DEF ProcessRow, PollOf, Polls
<1>3. poll.next + 1 \in Nat
  BY <1>1, PollIsOf
<1> QED BY <1>1, <1>2, <1>3, PollIsOf, PollOfType

\* What leaves the poll where no host is leased.
LEMMA PollEnds == ASSUME poll' = NoPoll PROVE poll' \in Polls /\ poll'.at = "idle" /\ poll'.leased = {}
BY NoPollIsOf DEF PollOf

-----------------------------------------------------------------------------
(* How a broadcast moves                                                   *)
CastOf(at, todo, body, routes) == [at |-> at, todo |-> todo, body |-> body, routes |-> routes]

LEMMA CastOfType ==
  ASSUME NEW at \in CastAts, NEW todo \in Seq(Panes), NEW body \in Bodies, NEW routes \in Routes
  PROVE  CastOf(at, todo, body, routes) \in CastRecords
BY DEF CastOf, CastRecords

LEMMA CastIsOf ==
  ASSUME NEW r \in CastRecords
  PROVE  /\ r = CastOf(r.at, r.todo, r.body, r.routes)
         /\ r.at \in CastAts /\ r.todo \in Seq(Panes) /\ r.body \in Bodies /\ r.routes \in Routes
BY DEF CastOf, CastRecords

LEMMA CastExcept ==
  ASSUME NEW r \in CastRecords, NEW at, NEW todo
  PROVE  /\ [r EXCEPT !.at = at] = CastOf(at, r.todo, r.body, r.routes)
         /\ [r EXCEPT !.at = at, !.todo = todo] = CastOf(at, todo, r.body, r.routes)
<1>1. [r EXCEPT !.at = at] = CastOf(at, r.todo, r.body, r.routes)
  BY DEF CastOf, CastRecords
<1>2. ASSUME NEW q, q = [r EXCEPT !.at = at, !.todo = todo]
      PROVE  q = CastOf(at, todo, r.body, r.routes)
  BY <1>2 DEF CastOf, CastRecords
<1> QED BY <1>1, <1>2

\* One broadcast moves, the others stay.
CastMoves(c, r) ==
  /\ r \in CastRecords /\ cast' \in [Casts -> CastRecords]
  /\ cast'[c] = r
  /\ \A d \in Casts : d # c => cast'[d] = cast[d]

LEMMA CastMovesTo ==
  ASSUME RelayType, NEW c \in Casts, NEW r \in CastRecords, cast' = [cast EXCEPT ![c] = r]
  PROVE  CastMoves(c, r)
BY DEF RelayType, CastMoves

LEMMA CastAtMoves ==
  ASSUME RelayType, NEW c \in Casts, NEW at \in CastAts, CastAt(c, at)
  PROVE  CastMoves(c, CastOf(at, cast[c].todo, cast[c].body, cast[c].routes))
<1>1. cast[c] \in CastRecords
  BY DEF RelayType
<1>2. cast' = [cast EXCEPT ![c] = CastOf(at, cast[c].todo, cast[c].body, cast[c].routes)]
  <2>1. [cast[c] EXCEPT !.at = at] = CastOf(at, cast[c].todo, cast[c].body, cast[c].routes)
    BY <1>1 DEF CastOf, CastRecords
  <2>2. cast' = [cast EXCEPT ![c] = [cast[c] EXCEPT !.at = at]]
    BY DEF CastAt
  <2> QED BY <2>1, <2>2
<1>3. CastOf(at, cast[c].todo, cast[c].body, cast[c].routes) \in CastRecords
  BY <1>1, CastIsOf, CastOfType
<1> QED BY <1>2, <1>3, CastMovesTo

LEMMA NoCastType ==
  /\ NoCast = CastOf("idle", <<>>, NoCast.body, NoRoutes) /\ NoCast.body \in Bodies
  /\ NoCast \in CastRecords /\ CastOf("done", <<>>, NoCast.body, NoRoutes) \in CastRecords
<1>1. NoCast = CastOf("idle", <<>>, NoCast.body, NoRoutes)
  BY DEF NoCast, CastOf, NoRoutes
<1>2. NoCast.body \in Bodies
  BY BoardRelayAssumption DEF NoCast
<1>3. NoRoutes \in Routes /\ <<>> \in Seq(Panes)
  BY DEF NoRoutes, Routes
<1>4. \A at \in {"idle", "done"} : CastOf(at, <<>>, NoCast.body, NoRoutes) \in CastRecords
  BY <1>2, <1>3, CastOfType DEF CastAts
<1> QED BY <1>1, <1>2, <1>4

CastDone == CastOf("done", <<>>, NoCast.body, NoRoutes)

LEMMA CastDoneIs == [NoCast EXCEPT !.at = "done"] = CastDone /\ CastDone \in CastRecords
<1>1. NoCast = CastOf("idle", <<>>, NoCast.body, NoRoutes) /\ CastDone \in CastRecords
  BY NoCastType DEF CastDone
<1>2. [NoCast EXCEPT !.at = "done"] = CastOf("done", <<>>, NoCast.body, NoRoutes)
  <2>1. NoCast \in CastRecords
    BY NoCastType
  <2>2. NoCast.todo = <<>> /\ NoCast.routes = NoRoutes
    BY DEF NoCast, NoRoutes
  <2> QED BY <2>1, <2>2, CastExcept
<1> QED BY <1>1, <1>2 DEF CastDone

LEMMA CastEndsMoves ==
  ASSUME RelayType, NEW c \in Casts, CastEnds(c)
  PROVE  CastMoves(c, CastDone)
BY CastDoneIs, CastMovesTo DEF CastEnds

LEMMA CastShapeMoves ==
  ASSUME CastShape, NEW c \in Casts, NEW r, CastMoves(c, r),
         r.at \notin {"idle", "done"} =>
           r.todo # <<>> /\ \A i \in DOMAIN r.todo : r.routes[r.todo[i]] \in Hosts
  PROVE  CastShape'
BY DEF CastShape, CastMoves, Underway

LEMMA ToType ==
  ASSUME RelayType, CastShape, NEW c \in Casts, Underway(c)
  PROVE  To(c) \in Hosts /\ Head(cast[c].todo) \in Panes /\ CastKey(c) \in Keys
<1>1. cast[c].todo \in Seq(Panes) /\ cast[c].body \in Bodies /\ cast[c].todo # <<>>
  BY CastIsOf DEF RelayType, CastShape
<1>2. 1 \in DOMAIN cast[c].todo /\ Head(cast[c].todo) = cast[c].todo[1]
  BY <1>1
<1>3. Head(cast[c].todo) \in Panes
  BY <1>1, HeadTail, Zenon
<1>4. To(c) \in Hosts
  BY <1>2 DEF CastShape, To
<1> QED BY <1>1, <1>3, <1>4 DEF CastKey, Keys

LEMMA BroadcastMoves ==
  ASSUME RelayType, NEW c \in Casts, NEW todo \in Targets, NEW body \in Bodies, Broadcast(c, todo, body)
  PROVE  /\ CastMoves(c, CastOf("next", todo, body, owner))
         /\ cast[c].at = "idle" /\ todo # <<>> /\ \A i \in DOMAIN todo : owner[todo[i]] \in Hosts
<1>1. todo \in Seq(Panes) /\ todo # <<>>
  BY BoardRelayAssumption
<1>2. owner \in Routes
  BY DEF RelayType
<1>3. NoCast \in CastRecords
  BY NoCastType
<1>4. [NoCast EXCEPT !.at = "next", !.todo = todo, !.body = body, !.routes = owner]
        = CastOf("next", todo, body, owner)
  <2>1. ASSUME NEW q,
               q = [NoCast EXCEPT !.at = "next", !.todo = todo, !.body = body, !.routes = owner]
        PROVE  q = CastOf("next", todo, body, owner)
    BY <1>3, <2>1 DEF CastOf, CastRecords
  <2> QED BY <2>1
<1>5. cast' = [cast EXCEPT ![c] = CastOf("next", todo, body, owner)]
  BY <1>4 DEF Broadcast
<1>6. CastOf("next", todo, body, owner) \in CastRecords
  BY <1>1, <1>2, CastOfType DEF CastAts
<1>7. ASSUME NEW i \in DOMAIN todo PROVE owner[todo[i]] \in Hosts
  <2>1. todo[i] \in Panes
    BY <1>1
  <2>2. owner[todo[i]] # NoHost
    BY DEF Broadcast, Range
  <2> QED BY <2>1, <2>2, <1>2 DEF Routes
<1>8. cast[c].at = "idle"
  BY DEF Broadcast
<1> QED BY <1>1, <1>5, <1>6, <1>7, <1>8, CastMovesTo

LEMMA TailOf ==
  ASSUME NEW S, NEW s \in Seq(S), s # <<>>, Len(s) # 1
  PROVE  /\ Tail(s) \in Seq(S) /\ Tail(s) # <<>>
         /\ \A i \in DOMAIN Tail(s) : i + 1 \in DOMAIN s /\ Tail(s)[i] = s[i + 1]
<1>1. Len(s) \in Nat \ {0} /\ DOMAIN s = 1 .. Len(s)
  BY EmptySeq, LenProperties
<1>2. /\ Tail(s) \in Seq(S) /\ Len(Tail(s)) = Len(s) - 1 /\ DOMAIN Tail(s) = 1 .. Len(s) - 1
      /\ \A i \in 1 .. Len(Tail(s)) : Tail(s)[i] = s[i + 1]
  BY <1>1, HeadTailProperties, LenProperties
<1>3. Len(Tail(s)) # 0
  BY <1>1, <1>2
<1>4. Tail(s) # <<>>
  BY <1>3, EmptySeq
<1> QED BY <1>1, <1>2, <1>4

LEMMA CastSentMoves ==
  ASSUME RelayType, CastShape, NEW c \in Casts, CastSent(c)
  PROVE  /\ CastMoves(c, CastDone) \/ CastMoves(c, CastOf("next", Tail(cast[c].todo), cast[c].body,
                                                          cast[c].routes))
         /\ CastShape'
<1>1. /\ cast[c] \in CastRecords /\ cast[c].todo \in Seq(Panes) /\ cast[c].todo # <<>>
      /\ \A i \in DOMAIN cast[c].todo : cast[c].routes[cast[c].todo[i]] \in Hosts
  BY CastIsOf DEF RelayType, CastShape, CastSent, Underway
<1>2. CASE Len(cast[c].todo) = 1
  <2>1. CastMoves(c, CastDone)
    BY <1>2, CastEndsMoves DEF CastSent
  <2>2. CastDone.at = "done"
    BY DEF CastDone, CastOf
  <2> QED BY <2>1, <2>2, CastShapeMoves
<1>3. CASE Len(cast[c].todo) # 1
  <2> DEFINE tail == Tail(cast[c].todo)
             r == CastOf("next", tail, cast[c].body, cast[c].routes)
  <2>1. /\ tail \in Seq(Panes) /\ tail # <<>>
        /\ \A i \in DOMAIN tail : i + 1 \in DOMAIN cast[c].todo /\ tail[i] = cast[c].todo[i + 1]
    BY <1>1, <1>3, TailOf
  <2>2. cast' = [cast EXCEPT ![c] = [cast[c] EXCEPT !.at = "next", !.todo = tail]]
    BY <1>3 DEF CastSent
  <2>3. [cast[c] EXCEPT !.at = "next", !.todo = tail] = r
    BY <1>1, CastExcept
  <2>4. r \in CastRecords
    BY <1>1, <2>1, CastIsOf, CastOfType DEF CastAts
  <2>5. CastMoves(c, r)
    BY <2>2, <2>3, <2>4, CastMovesTo
  <2>6. r.todo = tail /\ r.routes = cast[c].routes
    BY DEF CastOf
  <2>7. \A i \in DOMAIN r.todo : r.routes[r.todo[i]] \in Hosts
    BY <1>1, <2>1, <2>6
  <2> HIDE DEF r
  <2>8. CastShape'
    BY <2>1, <2>5, <2>6, <2>7, CastShapeMoves
  <2> QED BY <2>5, <2>8 DEF r
<1> QED BY <1>2, <1>3

LEMMA CastAtShape ==
  ASSUME RelayType, CastShape, NEW c \in Casts, NEW at \in CastAts, CastAt(c, at), Underway(c)
  PROVE  CastShape'
<1> DEFINE r == CastOf(at, cast[c].todo, cast[c].body, cast[c].routes)
<1>1. CastMoves(c, r)
  BY CastAtMoves
<1>2. r.todo = cast[c].todo /\ r.routes = cast[c].routes
  BY DEF CastOf
<1>3. r.todo # <<>> /\ \A i \in DOMAIN r.todo : r.routes[r.todo[i]] \in Hosts
  BY <1>2 DEF CastShape
<1> HIDE DEF r
<1> QED BY <1>1, <1>3, CastShapeMoves

-----------------------------------------------------------------------------
(* Leases, counted                                                         *)
UsesBy(r, h) == r.at \in {"sending", "delivered"} /\ r.routes[Head(r.todo)] = h

LEMMA UsingIs ==
  ASSUME NEW h PROVE Using(h) \in SUBSET Casts /\ \A d \in Casts : d \in Using(h) <=> UsesBy(cast[d], h)
BY DEF Using, UsesBy, To

LEMMA UsingIsNext ==
  ASSUME NEW h
  PROVE  Using(h)' \in SUBSET Casts /\ \A d \in Casts : d \in Using(h)' <=> UsesBy(cast'[d], h)
BY DEF Using, UsesBy, To

LEMMA UsingCount ==
  ASSUME NEW S \in SUBSET Casts, NEW T \in SUBSET Casts, NEW c \in Casts,
         \A d \in Casts : d # c => (d \in T <=> d \in S)
  PROVE  /\ Cardinality(S) \in Nat /\ Cardinality(T) \in Nat
         /\ (c \in T <=> c \in S) => Cardinality(T) = Cardinality(S)
         /\ (c \in T /\ c \notin S) => Cardinality(T) = Cardinality(S) + 1
         /\ (c \notin T /\ c \in S) => Cardinality(T) = Cardinality(S) - 1 /\ Cardinality(S) > 0
<1>1. IsFiniteSet(S) /\ IsFiniteSet(T) /\ Cardinality(S) \in Nat /\ Cardinality(T) \in Nat
  BY FS_Subset, FS_CardinalityType, BoardRelayAssumption
<1>2. (c \in T <=> c \in S) => T = S
  OBVIOUS
<1>3. ASSUME c \in T, c \notin S PROVE Cardinality(T) = Cardinality(S) + 1
  <2>1. T = S \cup {c}
    BY <1>3
  <2> QED BY <1>1, <1>3, <2>1, FS_AddElement
<1>4. ASSUME c \notin T, c \in S PROVE Cardinality(S) = Cardinality(T) + 1
  <2>1. S = T \cup {c}
    BY <1>4
  <2> QED BY <1>1, <1>4, <2>1, FS_AddElement
<1> QED BY <1>1, <1>2, <1>3, <1>4

\* A broadcast that moves changes the count of its own host only, by itself.
LEMMA UsingMoves ==
  ASSUME NEW c \in Casts, NEW r, CastMoves(c, r), NEW h \in Hosts
  PROVE  /\ Cardinality(Using(h)) \in Nat /\ Cardinality(Using(h)') \in Nat
         /\ (UsesBy(r, h) <=> UsesBy(cast[c], h)) => Cardinality(Using(h)') = Cardinality(Using(h))
         /\ (UsesBy(r, h) /\ ~UsesBy(cast[c], h))
              => Cardinality(Using(h)') = Cardinality(Using(h)) + 1
         /\ (~UsesBy(r, h) /\ UsesBy(cast[c], h))
              => Cardinality(Using(h)') = Cardinality(Using(h)) - 1 /\ Cardinality(Using(h)) > 0
<1>1. /\ Using(h) \in SUBSET Casts /\ Using(h)' \in SUBSET Casts
      /\ c \in Using(h) <=> UsesBy(cast[c], h)
      /\ c \in Using(h)' <=> UsesBy(r, h)
  BY UsingIs, UsingIsNext DEF CastMoves
<1>2. \A d \in Casts : d # c => (d \in Using(h)' <=> d \in Using(h))
  BY UsingIs, UsingIsNext DEF CastMoves
<1> HIDE DEF UsesBy
<1> QED BY <1>1, <1>2, UsingCount

LEMMA UsingSame ==
  ASSUME UNCHANGED cast, NEW h PROVE Using(h)' = Using(h)
BY DEF Using, To

LEMMA CountedStays ==
  ASSUME LeasesCounted, UNCHANGED <<active, cast>>, poll'.leased = poll.leased PROVE LeasesCounted'
BY UsingSame DEF LeasesCounted

LEMMA CountedPollBegins ==
  ASSUME RelayType, GateTypeOK, LeasesCounted, NEW d \in Hosts, Begin(d), UNCHANGED cast,
         d \notin poll.leased, poll'.leased = poll.leased \cup {d}
  PROVE  LeasesCounted'
<1>1. \A h \in Hosts : active'[h] = (IF h = d THEN active[h] + 1 ELSE active[h]) /\ active[h] \in Nat
  BY DEF Begin, GateTypeOK
<1>2. ASSUME NEW h \in Hosts
      PROVE active'[h] = (IF h \in poll'.leased THEN 1 ELSE 0) + Cardinality(Using(h)')
  <2>1. active[h] = (IF h \in poll.leased THEN 1 ELSE 0) + Cardinality(Using(h))
    BY DEF LeasesCounted
  <2>2. Using(h)' = Using(h) /\ Cardinality(Using(h)) \in Nat
    BY UsingSame, UsingIs, FS_Subset, FS_CardinalityType, BoardRelayAssumption
  <2> QED BY <1>1, <2>1, <2>2
<1> QED BY <1>2 DEF LeasesCounted

LEMMA CountedPollLeaves ==
  ASSUME RelayType, GateTypeOK, LeasesCounted, Release(poll.leased), UNCHANGED cast, poll'.leased = {}
  PROVE  LeasesCounted' /\ poll.leased \in SUBSET {h \in Hosts : active[h] > 0}
<1>0. poll.leased \in SUBSET Hosts
  BY PollIsOf DEF RelayType
<1>1. \A h \in Hosts : /\ active'[h] = IF h \in poll.leased THEN active[h] - 1 ELSE active[h]
                       /\ active[h] \in Nat
  BY DEF Release, GateTypeOK
<1>2. ASSUME NEW h \in Hosts
      PROVE /\ active'[h] = Cardinality(Using(h)')
            /\ h \in poll.leased => active[h] > 0
  <2>1. active[h] = (IF h \in poll.leased THEN 1 ELSE 0) + Cardinality(Using(h))
    BY DEF LeasesCounted
  <2>2. Using(h)' = Using(h) /\ Cardinality(Using(h)) \in Nat
    BY UsingSame, UsingIs, FS_Subset, FS_CardinalityType, BoardRelayAssumption
  <2> QED BY <1>1, <2>1, <2>2
<1>3. \A h \in Hosts : Cardinality(Using(h)') \in Nat
  BY UsingIsNext, FS_Subset, FS_CardinalityType, BoardRelayAssumption
<1> QED BY <1>0, <1>2, <1>3 DEF LeasesCounted

LEMMA CountedCastStays ==
  ASSUME LeasesCounted, NEW c \in Casts, NEW r, CastMoves(c, r), UNCHANGED active,
         poll'.leased = poll.leased, \A h \in Hosts : UsesBy(r, h) <=> UsesBy(cast[c], h)
  PROVE  LeasesCounted'
BY UsingMoves DEF LeasesCounted

LEMMA CountedCastBegins ==
  ASSUME RelayType, GateTypeOK, LeasesCounted, NEW c \in Casts, NEW r, CastMoves(c, r),
         NEW d \in Hosts, Begin(d), poll'.leased = poll.leased,
         \A h \in Hosts : ~UsesBy(cast[c], h), \A h \in Hosts : UsesBy(r, h) <=> h = d
  PROVE  LeasesCounted'
<1>1. \A h \in Hosts : active'[h] = (IF h = d THEN active[h] + 1 ELSE active[h]) /\ active[h] \in Nat
  BY DEF Begin, GateTypeOK
<1>2. ASSUME NEW h \in Hosts
      PROVE active'[h] = (IF h \in poll'.leased THEN 1 ELSE 0) + Cardinality(Using(h)')
  <2>1. active[h] = (IF h \in poll.leased THEN 1 ELSE 0) + Cardinality(Using(h))
    BY DEF LeasesCounted
  <2>2. /\ Cardinality(Using(h)') = IF h = d THEN Cardinality(Using(h)) + 1 ELSE Cardinality(Using(h))
        /\ Cardinality(Using(h)) \in Nat
    BY UsingMoves
  <2> QED BY <1>1, <2>1, <2>2
<1> QED BY <1>2 DEF LeasesCounted

LEMMA CountedCastLeaves ==
  ASSUME RelayType, GateTypeOK, LeasesCounted, NEW c \in Casts, NEW r, CastMoves(c, r),
         NEW d \in Hosts, Release({d}), poll'.leased = poll.leased,
         \A h \in Hosts : ~UsesBy(r, h), \A h \in Hosts : UsesBy(cast[c], h) <=> h = d
  PROVE  LeasesCounted' /\ {d} \in SUBSET {h \in Hosts : active[h] > 0}
<1>1. \A h \in Hosts : active'[h] = (IF h = d THEN active[h] - 1 ELSE active[h]) /\ active[h] \in Nat
  BY DEF Release, GateTypeOK
<1>2. ASSUME NEW h \in Hosts
      PROVE /\ active'[h] = (IF h \in poll'.leased THEN 1 ELSE 0) + Cardinality(Using(h)')
            /\ h = d => active[h] > 0
  <2>1. active[h] = (IF h \in poll.leased THEN 1 ELSE 0) + Cardinality(Using(h))
    BY DEF LeasesCounted
  <2>2. /\ Cardinality(Using(h)') = IF h = d THEN Cardinality(Using(h)) - 1 ELSE Cardinality(Using(h))
        /\ Cardinality(Using(h)) \in Nat
        /\ h = d => Cardinality(Using(h)) > 0
    BY UsingMoves
  <2> QED BY <1>1, <2>1, <2>2
<1> QED BY <1>2 DEF LeasesCounted

-----------------------------------------------------------------------------
(* Every step of the board is a step of the gate, keeps the leases counted *)
(* and the poll and the broadcasts in shape.                               *)
Leased == RelayType /\ GateTypeOK /\ PollShape /\ CastShape /\ LeasesCounted
LeasedNext == [GateNext]_gateVars /\ PollShape' /\ CastShape' /\ LeasesCounted'

LEMMA CastShapeStays == ASSUME CastShape, UNCHANGED cast PROVE CastShape'
BY DEF CastShape, Underway

LEMMA StartPollLeased == ASSUME Leased, StartPoll PROVE LeasedNext
<1>1. poll'.at = "pass" /\ poll'.leased = {}
  BY StartPollMoves DEF Leased, PollOf
<1>2. UNCHANGED <<gateVars, active, cast>> /\ poll.leased = {}
  BY DEF StartPoll, Leased, PollShape, gateVars
<1>3. PollShape'
  BY <1>1 DEF PollShape
<1> QED BY <1>1, <1>2, <1>3, CountedStays, CastShapeStays DEF LeasedNext, Leased

LEMMA PollHostLeased == ASSUME Leased, PollHost PROVE LeasedNext
<1> DEFINE h == Head(poll.todo)
<1>1. poll'.at = "reading" /\ poll'.host = h /\ poll'.leased = {h} /\ h \in Hosts
  BY PollHostMoves DEF Leased, PollOf
<1>2. poll.leased = {}
  BY DEF PollHost, Leased, PollShape
<1>3. Begin(h) /\ UNCHANGED cast
  BY DEF PollHost, Lease
<1>4. PollShape'
  BY <1>1 DEF PollShape
<1>5. GateNext
  BY <1>1, <1>3 DEF GateNext
<1> HIDE DEF h
<1>6. poll'.leased = poll.leased \cup {h} /\ h \notin poll.leased
  BY <1>1, <1>2
<1>7. LeasesCounted'
  BY <1>1, <1>3, <1>6, CountedPollBegins DEF Leased
<1> QED BY <1>3, <1>4, <1>5, <1>7, CastShapeStays DEF LeasedNext, Leased

LEMMA HostRefusedLeased == ASSUME Leased, HostRefused PROVE LeasedNext
<1>1. poll'.at = "pass" /\ poll'.leased = poll.leased
  BY HostRefusedMoves DEF Leased, PollOf
<1>2. UNCHANGED <<gateVars, active, cast>> /\ poll.leased = {}
  BY DEF HostRefused, Leased, PollShape, gateVars
<1>3. PollShape'
  BY <1>1, <1>2 DEF PollShape
<1> QED BY <1>1, <1>2, <1>3, CountedStays, CastShapeStays DEF LeasedNext, Leased

LEMMA LeaveLeased ==
  ASSUME Leased, NEW changed \in BOOLEAN, Leave(changed), UNCHANGED cast PROVE LeasedNext
<1>1. poll'.at = "pass" /\ poll'.leased = {}
  BY LeaveMoves DEF Leased, PollOf
<1>2. Release(poll.leased)
  BY DEF Leave
<1>3. PollShape'
  BY <1>1 DEF PollShape
<1>4. LeasesCounted' /\ poll.leased \in SUBSET {h \in Hosts : active[h] > 0}
  BY <1>1, <1>2, CountedPollLeaves DEF Leased
<1>5. GateNext
  BY <1>2, <1>4 DEF GateNext
<1> QED BY <1>3, <1>4, <1>5, CastShapeStays DEF LeasedNext, Leased

LEMMA SinceLeased == ASSUME Leased, Since PROVE LeasedNext
<1>1. CASE Ready(poll.host) = "present"
  <2>1. /\ poll'.at = "rows" /\ poll'.host = poll.host /\ poll'.leased = poll.leased
        /\ poll'.next = FirstAfter(poll.host, ReadLimit) /\ poll'.last = Len(log[poll.host])
        /\ poll.host \in Hosts /\ poll.host \in poll.leased
    BY <1>1, SinceMoves DEF Leased, PollOf, Since, PollShape
  <2>2. UNCHANGED <<gateVars, active, cast, log>>
    BY <1>1 DEF Since, gateVars
  <2>3. poll'.next >= 1 /\ poll'.last <= Len(log[poll.host])
    BY <2>1, FirstAfterType, ReadLimitType, BoardRelayAssumption, SMT DEF Leased
  <2>4. PollShape'
    BY <2>1, <2>2, <2>3 DEF PollShape
  <2> QED BY <2>1, <2>2, <2>4, CountedStays, CastShapeStays DEF LeasedNext, Leased
<1>2. CASE Ready(poll.host) # "present"
  <2>1. Leave(FALSE) /\ UNCHANGED cast
    BY <1>2 DEF Since
  <2> QED BY <2>1, LeaveLeased
<1> QED BY <1>1, <1>2

LEMMA AdmitLeased == ASSUME Leased, NEW d \in Hosts, AdmitDestination(d) PROVE LeasedNext
<1>1. /\ poll'.at = "rows" /\ poll'.host = poll.host /\ poll'.leased = poll.leased \cup {d}
      /\ poll'.next = poll.next /\ poll'.last = poll.last /\ d \notin poll.leased
  BY AdmitMoves DEF Leased, PollOf
<1>2. Begin(d) /\ UNCHANGED <<cast, log>> /\ poll.at = "rows"
  BY DEF AdmitDestination, Lease
<1>3. PollShape'
  BY <1>1, <1>2 DEF PollShape, Leased
<1>4. LeasesCounted'
  BY <1>1, <1>2, CountedPollBegins DEF Leased
<1>5. GateNext
  BY <1>2 DEF GateNext
<1> QED BY <1>2, <1>3, <1>4, <1>5, CastShapeStays DEF LeasedNext, Leased

\* Stores only grow.
LogGrows ==
  \A h \in Hosts : /\ Len(log[h]) \in Nat /\ Len(log'[h]) \in Nat /\ Len(log[h]) <= Len(log'[h])
                   /\ \A i \in 1 .. Len(log[h]) : log'[h][i] = log[h][i]

LEMMA TakesGrows ==
  ASSUME LogType, NEW h \in Hosts, NEW row \in Row, CanTake(h), log' = Takes(h, row)
  PROVE  /\ LogType' /\ LogGrows
         /\ Len(log'[h]) = Len(log[h]) + 1 /\ log'[h][Len(log[h]) + 1] = row
         /\ \A g \in Hosts : g # h => log'[g] = log[g]
<1>1. log[h] \in Seq(Row) /\ Len(log[h]) \in Nat /\ Len(log[h]) < MaxLog /\ MaxLog \in Nat
  BY LenProperties, BoardRelayAssumption DEF LogType, CanTake
<1>2. log'[h] = Append(log[h], row) /\ \A g \in Hosts : g # h => log'[g] = log[g]
  BY DEF Takes, LogType
<1>3. Append(log[h], row) \in Seq(Row) /\ Len(Append(log[h], row)) = Len(log[h]) + 1
      /\ Append(log[h], row)[Len(log[h]) + 1] = row
      /\ \A i \in 1 .. Len(log[h]) : Append(log[h], row)[i] = log[h][i]
  BY <1>1
<1>4. \A g \in Hosts : log[g] \in Seq(Row) /\ Len(log[g]) \in Nat /\ Len(log[g]) <= MaxLog
  BY LenProperties DEF LogType
<1>5. log' \in [Hosts -> Seq(Row)]
  BY <1>1, <1>3 DEF Takes, LogType
<1>6. \A g \in Hosts : Len(log'[g]) <= MaxLog
  BY <1>1, <1>2, <1>3, <1>4
<1>7. LogType'
  BY <1>5, <1>6 DEF LogType
<1>8. LogGrows
  <2>1. ASSUME NEW g \in Hosts
        PROVE  /\ Len(log[g]) \in Nat /\ Len(log'[g]) \in Nat /\ Len(log[g]) <= Len(log'[g])
               /\ \A i \in 1 .. Len(log[g]) : log'[g][i] = log[g][i]
    <3>1. CASE g = h
      BY <3>1, <1>1, <1>2, <1>3
    <3>2. CASE g # h
      BY <3>2, <1>2, <1>4
    <3> QED BY <3>1, <3>2
  <2> QED BY <2>1 DEF LogGrows
<1> QED BY <1>2, <1>3, <1>7, <1>8

LEMMA LogStays == ASSUME LogType, UNCHANGED log PROVE LogType' /\ LogGrows
<1>1. \A h \in Hosts : Len(log[h]) \in Nat
  BY LenProperties DEF LogType
<1> QED BY <1>1 DEF LogType, LogGrows

LEMMA PollShapeGrows ==
  ASSUME RelayType, PollShape, LogGrows, UNCHANGED poll PROVE PollShape'
<1>1. poll.last \in Nat
  BY PollIsOf DEF RelayType
<1>2. poll.at = "rows" => poll.last <= Len(log'[poll.host])
  BY <1>1 DEF PollShape, LogGrows
<1> QED BY <1>2 DEF PollShape

LEMMA CurrentType ==
  ASSUME RelayType, PollShape, poll.at = "rows", poll.next <= poll.last
  PROVE  /\ poll.host \in Hosts /\ poll.next \in 1 .. Len(log[poll.host])
         /\ Current \in Row /\ <<poll.host, poll.next>> \in Place
         /\ Len(log[poll.host]) \in Nat
<1>1. poll.host \in Hosts /\ poll.next \in Nat /\ poll.last \in Nat
  BY PollIsOf DEF RelayType, PollShape
<1>2. log[poll.host] \in Seq(Row) /\ Len(log[poll.host]) \in Nat /\ Len(log[poll.host]) <= MaxLog
  BY <1>1, LenProperties DEF RelayType, LogType
<1>3. poll.next \in 1 .. Len(log[poll.host]) /\ MaxLog \in Nat
  BY <1>1, <1>2, BoardRelayAssumption DEF PollShape
<1>4. Current \in Row
  BY <1>2, <1>3, ElementOfSeq DEF Current
<1>5. poll.next \in 1 .. MaxLog
  BY <1>2, <1>3
<1> QED BY <1>1, <1>2, <1>3, <1>4, <1>5 DEF Place

\* What a row that is forwarded, and where.
LEMMA ForwardedTo ==
  ASSUME RelayType, PollShape, poll.at = "rows", poll.next <= poll.last,
         Forwarded(poll.host, Current)
  PROVE  /\ Current.to \in Panes /\ poll.routes[Current.to] \in Hosts
         /\ poll.routes[Current.to] # poll.host
         /\ [Current EXCEPT !.copy = TRUE] \in Row
<1>1. Current \in Row /\ poll.routes \in Routes
  BY CurrentType, PollIsOf DEF RelayType
<1>2. Current.to \in Panes /\ poll.routes[Current.to] # NoHost
  BY <1>1 DEF Row, Forwarded, Accepted
<1>3. poll.routes[Current.to] \in Hosts
  BY <1>1, <1>2 DEF Routes
<1>4. [Current EXCEPT !.copy = TRUE] \in Row
  <2> HIDE DEF Current
  <2> QED BY <1>1 DEF Row
<1> QED BY <1>2, <1>3, <1>4 DEF Forwarded

LEMMA ProcessRowLog ==
  ASSUME RelayType, PollShape, ProcessRow
  PROVE  /\ LogType' /\ LogGrows
         /\ log'[poll.host] = log[poll.host]
         /\ known' \in [Hosts -> {"unknown", "absent", "present"}]
<1> DEFINE h == poll.host
           d == poll.routes[Current.to]
<1>1. poll.at = "rows" /\ poll.next <= poll.last
  BY DEF ProcessRow
<1>2. LogType /\ known \in [Hosts -> {"unknown", "absent", "present"}]
  BY DEF RelayType, ClientType
<1>3. CASE ~Forwarded(h, Current)
  <2>1. UNCHANGED <<log, known>>
    BY <1>3 DEF ProcessRow
  <2> QED BY <1>2, <2>1, LogStays
<1>4. CASE Forwarded(h, Current)
  <2>1. d \in Hosts /\ d # h /\ [Current EXCEPT !.copy = TRUE] \in Row /\ h \in Hosts
    BY <1>1, <1>4, ForwardedTo DEF PollShape
  <2>2. Send(d, Current)
    BY <1>4 DEF ProcessRow
  <2>3. known' \in [Hosts -> {"unknown", "absent", "present"}]
    BY <1>2, <2>2 DEF Send, Probed, Ready
  <2> HIDE DEF d, h
  <2>4. \/ CanTake(d) /\ log' = Takes(d, [Current EXCEPT !.copy = TRUE])
        \/ UNCHANGED log
    BY <2>2 DEF Send, Reaches
  <2>5. LogType' /\ LogGrows /\ log'[h] = log[h]
    <3>1. CASE CanTake(d) /\ log' = Takes(d, [Current EXCEPT !.copy = TRUE])
      BY <3>1, <1>2, <2>1, TakesGrows
    <3>2. CASE UNCHANGED log
      BY <3>2, <1>2, LogStays
    <3> QED BY <2>4, <3>1, <3>2
  <2> QED BY <2>3, <2>5 DEF h
<1> QED BY <1>3, <1>4

LEMMA ProcessRowLeased == ASSUME Leased, ProcessRow PROVE LeasedNext
<1>1. /\ poll'.at = "rows" /\ poll'.host = poll.host /\ poll'.leased = poll.leased
      /\ poll'.next = poll.next + 1 /\ poll'.last = poll.last
  BY ProcessRowMoves DEF Leased, PollOf
<1>2. UNCHANGED <<gateVars, active, cast>> /\ poll.at = "rows"
  BY DEF ProcessRow, gateVars
<1>3. log'[poll.host] = log[poll.host]
  BY ProcessRowLog DEF Leased
<1>4. poll.next \in Nat
  BY PollIsOf DEF Leased, RelayType
<1>5. PollShape'
  BY <1>1, <1>2, <1>3, <1>4 DEF PollShape, Leased
<1> QED BY <1>1, <1>2, <1>5, CountedStays, CastShapeStays DEF LeasedNext, Leased

LEMMA EndPollLeased == ASSUME Leased, EndPoll PROVE LeasedNext
<1>1. poll'.at = "idle" /\ poll'.leased = {}
  BY PollEnds DEF EndPoll
<1>2. UNCHANGED <<gateVars, active, cast>> /\ poll.leased = {}
  BY DEF EndPoll, Leased, PollShape, gateVars
<1>3. PollShape'
  BY <1>1 DEF PollShape
<1> QED BY <1>1, <1>2, <1>3, CountedStays, CastShapeStays DEF LeasedNext, Leased

\* The steps that move no lease: poll and store as they were, or the store grown.
LEMMA CastQuiet ==
  ASSUME Leased, NEW c \in Casts, NEW r, CastMoves(c, r), UNCHANGED <<active, poll>>, LogGrows,
         [GateNext]_gateVars, CastShape', \A h \in Hosts : UsesBy(r, h) <=> UsesBy(cast[c], h)
  PROVE  LeasedNext
BY CountedCastStays, PollShapeGrows DEF LeasedNext, Leased

LEMMA BoardQuiet ==
  ASSUME Leased, UNCHANGED <<active, poll, cast>>, LogGrows, [GateNext]_gateVars
  PROVE  LeasedNext
BY CountedStays, CastShapeStays, PollShapeGrows DEF LeasedNext, Leased

LEMMA GrowsNot == ASSUME RelayType, UNCHANGED log PROVE LogGrows
BY LogStays DEF RelayType

LEMMA CastDoneShape ==
  ASSUME Leased, NEW c \in Casts, CastEnds(c)
  PROVE  CastMoves(c, CastDone) /\ CastShape' /\ \A h \in Hosts : ~UsesBy(CastDone, h)
<1>1. CastMoves(c, CastDone) /\ CastDone.at = "done"
  BY CastEndsMoves DEF CastDone, CastOf, Leased
<1> QED BY <1>1, CastShapeMoves DEF Leased, UsesBy

LEMMA BroadcastLeased ==
  ASSUME Leased, NEW c \in Casts, NEW todo \in Targets, NEW body \in Bodies, Broadcast(c, todo, body)
  PROVE  LeasedNext
<1> DEFINE r == CastOf("next", todo, body, owner)
<1>1. CastMoves(c, r) /\ cast[c].at = "idle" /\ todo # <<>>
      /\ \A i \in DOMAIN todo : owner[todo[i]] \in Hosts
  BY BroadcastMoves DEF Leased
<1>2. UNCHANGED <<active, poll, log>> /\ UNCHANGED gateVars
  BY DEF Broadcast, relayVars, gateVars
<1>3. r.at = "next" /\ r.todo = todo /\ r.routes = owner
  BY DEF CastOf
<1> HIDE DEF r
<1>4. \A h \in Hosts : ~UsesBy(r, h) /\ ~UsesBy(cast[c], h)
  BY <1>1, <1>3 DEF UsesBy
<1>5. CastShape'
  BY <1>1, <1>3, CastShapeMoves DEF Leased
<1> QED BY <1>1, <1>2, <1>4, <1>5, CastQuiet, GrowsNot DEF Leased

LEMMA CastLeaseLeased == ASSUME Leased, NEW c \in Casts, CastLease(c) PROVE LeasedNext
<1> DEFINE r == CastOf("sending", cast[c].todo, cast[c].body, cast[c].routes)
           d == To(c)
<1>1. cast[c].at = "next" /\ Begin(d) /\ CastAt(c, "sending") /\ UNCHANGED <<poll, log>>
  BY DEF CastLease, Lease, relayVars
<1>2. CastMoves(c, r) /\ CastShape' /\ d \in Hosts
  BY <1>1, CastAtMoves, CastAtShape, ToType DEF Leased, Underway, CastAts
<1>3. (\A h \in Hosts : ~UsesBy(cast[c], h)) /\ \A h \in Hosts : UsesBy(r, h) <=> h = d
  BY <1>1 DEF UsesBy, CastOf, To
<1> HIDE DEF r, d
<1>4. LeasesCounted'
  BY <1>1, <1>2, <1>3, CountedCastBegins DEF Leased
<1>5. GateNext
  BY <1>1, <1>2 DEF GateNext
<1> QED BY <1>1, <1>2, <1>4, <1>5, PollShapeGrows, GrowsNot DEF LeasedNext, Leased

LEMMA CastRefusedLeased == ASSUME Leased, NEW c \in Casts, CastRefused(c) PROVE LeasedNext
<1>1. CastMoves(c, CastDone) /\ CastShape' /\ \A h \in Hosts : ~UsesBy(CastDone, h)
  BY CastDoneShape DEF CastRefused
<1>2. UNCHANGED <<active, poll, log>> /\ UNCHANGED gateVars /\ cast[c].at = "next"
  BY DEF CastRefused, relayVars, gateVars
<1>3. \A h \in Hosts : ~UsesBy(cast[c], h)
  BY <1>2 DEF UsesBy
<1> QED BY <1>1, <1>2, <1>3, CastQuiet, GrowsNot DEF Leased

LEMMA CastForgetLeased == ASSUME Leased, NEW c \in Casts, CastForget(c) PROVE LeasedNext
<1>1. CastMoves(c, CastDone) /\ CastShape' /\ \A h \in Hosts : ~UsesBy(CastDone, h)
  BY CastDoneShape DEF CastForget
<1>2. UNCHANGED <<active, poll, log>> /\ UNCHANGED gateVars
      /\ cast[c].at \in {"failed", "failedDelivered"}
  BY DEF CastForget, relayVars, gateVars
<1>3. \A h \in Hosts : ~UsesBy(cast[c], h)
  BY <1>2 DEF UsesBy
<1> QED BY <1>1, <1>2, <1>3, CastQuiet, GrowsNot DEF Leased

\* The message of a broadcast, on its host's store.
CastRow(c) == [from |-> System, to |-> Head(cast[c].todo), body |-> cast[c].body, copy |-> FALSE]

LEMMA CastDeliversLog ==
  ASSUME RelayType, CastShape, NEW c \in Casts, CastDelivers(c)
  PROVE  /\ To(c) \in Hosts /\ CastRow(c) \in Row /\ CanTake(To(c)) /\ log' = Takes(To(c), CastRow(c))
         /\ LogType' /\ LogGrows
<1>1. To(c) \in Hosts /\ Head(cast[c].todo) \in Panes /\ cast[c].body \in Bodies
  BY ToType, CastIsOf DEF CastDelivers, Underway, RelayType
<1>2. CastRow(c) \in Row
  BY <1>1 DEF CastRow, Row
<1>3. CanTake(To(c)) /\ log' = Takes(To(c), CastRow(c))
  BY DEF CastDelivers, Reaches, CastRow
<1> QED BY <1>1, <1>2, <1>3, TakesGrows DEF RelayType

LEMMA CastDeliversLeased == ASSUME Leased, NEW c \in Casts, CastDelivers(c) PROVE LeasedNext
<1> DEFINE r == CastOf("delivered", cast[c].todo, cast[c].body, cast[c].routes)
<1>1. /\ cast[c].at = "sending" /\ CastAt(c, "delivered") /\ UNCHANGED <<poll, active>>
      /\ UNCHANGED gateVars
  BY DEF CastDelivers, relayVars, gateVars
<1>2. CastMoves(c, r) /\ CastShape'
  BY <1>1, CastAtMoves, CastAtShape DEF Leased, Underway, CastAts
<1>3. \A h \in Hosts : UsesBy(r, h) <=> UsesBy(cast[c], h)
  BY <1>1 DEF UsesBy, CastOf
<1>4. LogGrows
  BY CastDeliversLog DEF Leased
<1> HIDE DEF r
<1> QED BY <1>1, <1>2, <1>3, <1>4, CastQuiet

\* Giving back a broadcast's lease.
LEMMA CastLeavesLeased ==
  ASSUME Leased, NEW c \in Casts, NEW r, CastMoves(c, r), CastShape', Release({To(c)}),
         cast[c].at \in {"sending", "delivered"}, r.at \notin {"sending", "delivered"},
         UNCHANGED <<poll, log>>
  PROVE  LeasedNext
<1>1. To(c) \in Hosts
  BY ToType DEF Leased, Underway
<1>2. (\A h \in Hosts : ~UsesBy(r, h)) /\ \A h \in Hosts : UsesBy(cast[c], h) <=> h = To(c)
  BY DEF UsesBy, To
<1>3. LeasesCounted' /\ {To(c)} \in SUBSET {h \in Hosts : active[h] > 0}
  BY <1>1, <1>2, CountedCastLeaves DEF Leased
<1>4. GateNext
  BY <1>3 DEF GateNext
<1> QED BY <1>3, <1>4, PollShapeGrows, GrowsNot DEF LeasedNext, Leased

LEMMA CastSentLeased == ASSUME Leased, NEW c \in Casts, CastSent(c) PROVE LeasedNext
<1> DEFINE r == CastOf("next", Tail(cast[c].todo), cast[c].body, cast[c].routes)
<1>1. (CastMoves(c, CastDone) \/ CastMoves(c, r)) /\ CastShape'
  BY CastSentMoves DEF Leased
<1>2. CastDone.at = "done" /\ r.at = "next"
  BY DEF CastDone, CastOf
<1>3. Release({To(c)}) /\ cast[c].at = "delivered" /\ UNCHANGED <<poll, log>>
  BY DEF CastSent, relayVars
<1> HIDE DEF r
<1> QED BY <1>1, <1>2, <1>3, CastLeavesLeased

LEMMA CastFailsLeased == ASSUME Leased, NEW c \in Casts, CastFails(c) PROVE LeasedNext
<1> DEFINE at == IF cast[c].at = "sending" THEN "failed" ELSE "failedDelivered"
           r == CastOf(at, cast[c].todo, cast[c].body, cast[c].routes)
<1>1. /\ cast[c].at \in {"sending", "delivered"} /\ CastAt(c, at) /\ Release({To(c)})
      /\ UNCHANGED <<poll, log>>
  BY DEF CastFails, relayVars
<1>2. at \in CastAts /\ at \notin {"sending", "delivered"}
  BY DEF CastAts
<1> HIDE DEF at
<1>3. CastMoves(c, r) /\ CastShape'
  BY <1>1, <1>2, CastAtMoves, CastAtShape DEF Leased, Underway
<1>4. r.at = at
  BY DEF CastOf
<1> HIDE DEF r
<1> QED BY <1>1, <1>2, <1>3, <1>4, CastLeavesLeased

LEMMA PostLog ==
  ASSUME RelayType, NEW w \in Writes, NEW body \in Bodies, Post(w[1], w[2], body)
  PROVE  /\ owner[w[1]] \in Hosts /\ CanTake(owner[w[1]])
         /\ [from |-> w[1], to |-> w[2], body |-> body, copy |-> FALSE] \in Row
         /\ log' = Takes(owner[w[1]], [from |-> w[1], to |-> w[2], body |-> body, copy |-> FALSE])
         /\ LogType' /\ LogGrows
<1>1. w[1] \in Panes /\ w[2] \in Panes \cup {System}
  BY BoardRelayAssumption
<1>2. owner[w[1]] \in Hosts
  BY <1>1 DEF RelayType, Routes, Post
<1>3. [from |-> w[1], to |-> w[2], body |-> body, copy |-> FALSE] \in Row
  BY <1>1 DEF Row
<1>4. /\ CanTake(owner[w[1]])
      /\ log' = Takes(owner[w[1]], [from |-> w[1], to |-> w[2], body |-> body, copy |-> FALSE])
  BY DEF Post
<1> QED BY <1>2, <1>3, <1>4, TakesGrows DEF RelayType

LEMMA PostLeased ==
  ASSUME Leased, NEW w \in Writes, NEW body \in Bodies, Post(w[1], w[2], body) PROVE LeasedNext
<1>1. LogGrows
  BY PostLog DEF Leased
<1>2. UNCHANGED <<active, poll, cast>> /\ UNCHANGED gateVars
  BY DEF Post, relayVars, gateVars
<1> QED BY <1>1, <1>2, BoardQuiet

LEMMA ExpireLeased == ASSUME Leased, NEW key \in Keys, Expire(key) PROVE LeasedNext
<1>1. UNCHANGED <<active, poll, cast, log>> /\ UNCHANGED gateVars
  BY DEF Expire, relayVars, gateVars
<1> QED BY <1>1, BoardQuiet, GrowsNot DEF Leased

LEMMA RerouteLeased ==
  ASSUME Leased, NEW p \in Panes, NEW h \in Hosts \cup {NoHost}, Reroute(p, h) PROVE LeasedNext
<1>1. UNCHANGED <<active, poll, cast, log>> /\ UNCHANGED gateVars
  BY DEF Reroute, relayVars, gateVars
<1> QED BY <1>1, BoardQuiet, GrowsNot DEF Leased

LEMMA UpdateLeased == ASSUME Leased, NEW u \in Updates, Update(u) PROVE LeasedNext
<1>1. GateNext
  BY DEF Update, GateNext
<1>2. UNCHANGED active
  BY DEF Update, UpdateStep, GiveUp, Pause, Drain, StartInstall, Install, Resume
<1>3. UNCHANGED <<poll, cast, log>>
  BY DEF Update, relayVars
<1> QED BY <1>1, <1>2, <1>3, BoardQuiet, GrowsNot DEF Leased

LEMMA CrashCast ==
  ASSUME RelayType, Crash
  PROVE  /\ cast' \in [Casts -> CastRecords]
         /\ \A c \in Casts : cast'[c].at \in {"idle", "done"}
<1>1. cast' = [c \in Casts |-> IF cast[c].at = "idle" THEN NoCast ELSE CastDone]
  BY CastDoneIs DEF Crash
<1>2. NoCast \in CastRecords /\ NoCast.at = "idle" /\ CastDone \in CastRecords /\ CastDone.at = "done"
  BY NoCastType, CastDoneIs DEF CastDone, CastOf
<1> QED BY <1>1, <1>2

LEMMA CrashLeased == ASSUME Leased, Crash PROVE LeasedNext
<1>1. GateNext /\ active' = [h \in Hosts |-> 0]
  BY DEF Crash, GateNext, GateRestart
<1>2. poll'.at = "idle" /\ poll'.leased = {}
  BY PollEnds DEF Crash
<1>3. \A c \in Casts : cast'[c].at \in {"idle", "done"}
  BY CrashCast DEF Leased
<1>4. \A h \in Hosts : Using(h)' = {}
  BY <1>3, UsingIsNext DEF UsesBy
<1>5. LeasesCounted'
  BY <1>1, <1>2, <1>4, FS_EmptySet DEF LeasesCounted
<1>6. PollShape' /\ CastShape'
  BY <1>2, <1>3 DEF PollShape, CastShape, Underway
<1> QED BY <1>1, <1>5, <1>6 DEF LeasedNext

LEMMA PollStepLeased == ASSUME Leased, PollStep PROVE LeasedNext
<1>1. CASE SinceFails
  BY <1>1, LeaveLeased DEF SinceFails
<1>2. CASE DestinationRefused
  BY <1>2, LeaveLeased DEF DestinationRefused, Refused
<1>3. CASE EndRows
  <2>1. (cursors[poll.host] # poll.last) \in BOOLEAN /\ UNCHANGED cast
        /\ Leave(cursors[poll.host] # poll.last)
    BY <1>3 DEF EndRows
  <2> QED BY <2>1, LeaveLeased
<1> QED BY <1>1, <1>2, <1>3, StartPollLeased, PollHostLeased, HostRefusedLeased, SinceLeased,
           ProcessRowLeased, EndPollLeased, AdmitLeased DEF PollStep

LEMMA CastStepLeased == ASSUME Leased, NEW c \in Casts, CastStep(c) PROVE LeasedNext
BY CastLeaseLeased, CastRefusedLeased, CastDeliversLeased, CastSentLeased, CastFailsLeased,
   CastForgetLeased DEF CastStep

\* A step of the board is a step of the gate, or none of it.
LEMMA LeasedStep == ASSUME Leased, [Next]_vars PROVE LeasedNext
<1>1. CASE UNCHANGED vars
  <2>1. UNCHANGED <<active, poll, cast, log>> /\ UNCHANGED gateVars
    BY <1>1 DEF vars, relayVars, gateVars
  <2> QED BY <2>1, BoardQuiet, GrowsNot DEF Leased
<1>2. CASE Next
  BY <1>2, PollStepLeased, CastStepLeased, BroadcastLeased, ExpireLeased, PostLeased, RerouteLeased,
     UpdateLeased, CrashLeased DEF Next
<1> QED BY <1>1, <1>2

-----------------------------------------------------------------------------
(* Types                                                                   *)
LEMMA ClientStays == ASSUME ClientType, UNCHANGED clientVars PROVE ClientType'
BY DEF ClientType, clientVars
LEMMA GhostStays == ASSUME GhostType, UNCHANGED <<history, faults>>, UNCHANGED ghostVars PROVE GhostType'
BY DEF GhostType, ghostVars
LEMMA CursorStays == ASSUME CursorType, UNCHANGED <<cursors, saved, backfilled>> PROVE CursorType'
BY DEF CursorType

LEMMA LeaseClient ==
  ASSUME ClientType, GateTypeOK, NEW h \in Hosts, Lease(h) PROVE ClientType'
<1>1. Refreshed(h) \in {"unknown", "absent", "present"} /\ revision[h] \in Nat
  BY DEF Refreshed, ClientType, GateTypeOK
<1> QED BY <1>1 DEF Lease, ClientType

LEMMA ProbedClient ==
  ASSUME ClientType, NEW h \in Hosts, known' \in {known, Probed(h)}, UNCHANGED seenRevision
  PROVE  ClientType'
BY DEF ClientType, Probed, Ready

LEMMA SpendsFaults == ASSUME faults \in Nat, Spends \/ UNCHANGED faults PROVE faults' \in Nat
BY DEF Spends

LEMMA StartPollType == ASSUME Leased, StartPoll PROVE RelayType'
<1> USE DEF RelayType, Leased
<1>1. poll' \in Polls
  BY StartPollMoves
<1>2. CursorType'
  BY DEF StartPoll, CursorType
<1>3. UNCHANGED <<owner, live, cast, log>> /\ UNCHANGED clientVars /\ UNCHANGED ghostVars
      /\ UNCHANGED <<history, faults>>
  BY DEF StartPoll
<1> QED BY <1>1, <1>2, <1>3, ClientStays, GhostStays, LogStays

LEMMA PollHostType == ASSUME Leased, PollHost PROVE RelayType'
<1> USE DEF RelayType, Leased
<1>1. poll' \in Polls /\ Head(poll.todo) \in Hosts
  BY PollHostMoves
<1>2. ClientType'
  BY <1>1, LeaseClient DEF PollHost
<1>3. UNCHANGED <<owner, live, cast, log>> /\ UNCHANGED <<cursors, saved, backfilled>>
      /\ UNCHANGED ghostVars /\ UNCHANGED <<history, faults>>
  BY DEF PollHost
<1> QED BY <1>1, <1>2, <1>3, GhostStays, LogStays, CursorStays

LEMMA HostRefusedType == ASSUME Leased, HostRefused PROVE RelayType'
<1> USE DEF RelayType, Leased
<1>1. poll' \in Polls
  BY HostRefusedMoves
<1>2. UNCHANGED <<owner, live, cast, log>> /\ UNCHANGED <<cursors, saved, backfilled>>
      /\ UNCHANGED ghostVars /\ UNCHANGED <<history, faults>> /\ UNCHANGED clientVars
  BY DEF HostRefused
<1> QED BY <1>1, <1>2, ClientStays, GhostStays, LogStays, CursorStays

LEMMA SinceType == ASSUME Leased, Since PROVE RelayType'
<1> USE DEF RelayType, Leased
<1>1. poll.host \in Hosts
  BY DEF PollShape, Since
<1>2. ClientType'
  BY <1>1, ProbedClient DEF Since
<1>3. UNCHANGED <<owner, live, cast, log>> /\ UNCHANGED <<cursors, saved, backfilled>>
      /\ UNCHANGED <<history, faults>> /\ UNCHANGED <<seen, forwards, crashes, moved>>
  BY DEF Since
<1>4. poll' \in Polls /\ GhostType'
  <2>1. CASE Ready(poll.host) = "present"
    <3>1. poll' \in Polls
      BY <2>1, SinceMoves
    <3>2. /\ Oldest(poll.host, ReadLimit) \in Nat \ {0} /\ cursors[poll.host] \in 0 .. MaxLog
          /\ Len(log[poll.host]) \in 0 .. MaxLog
      BY <1>1, FirstAfterType, ReadLimitType
    <3>3. Oldest(poll.host, ReadLimit) - 1 <= MaxLog
      BY <3>2, ReadLimitType, BoardRelayAssumption DEF Oldest
    <3>4. cursors[poll.host] + 1 .. Oldest(poll.host, ReadLimit) - 1 \subseteq 1 .. MaxLog
      BY <3>2, <3>3, BoardRelayAssumption
    <3>5. {<<poll.host, i>> : i \in cursors[poll.host] + 1 .. Oldest(poll.host, ReadLimit) - 1}
            \subseteq Place
      BY <1>1, <3>4 DEF Place
    <3>6. /\ missed' = missed \cup {<<poll.host, i>> : i \in cursors[poll.host] + 1
                                                              .. Oldest(poll.host, ReadLimit) - 1}
          /\ read' = read \cup {poll.host}
      BY <2>1 DEF Since
    <3>7. GhostType'
      BY <1>1, <1>3, <3>5, <3>6 DEF GhostType
    <3> QED BY <3>1, <3>7
  <2>2. CASE Ready(poll.host) # "present"
    <3>1. Leave(FALSE) /\ UNCHANGED <<missed, read>>
      BY <2>2 DEF Since
    <3>2. poll' \in Polls
      BY <3>1, LeaveMoves
    <3> QED BY <3>1, <3>2, <1>3, GhostStays DEF ghostVars
  <2> QED BY <2>1, <2>2
<1> QED BY <1>2, <1>3, <1>4, LogStays, CursorStays

LEMMA SinceFailsType == ASSUME Leased, SinceFails PROVE RelayType'
<1> USE DEF RelayType, Leased
<1>1. poll.host \in Hosts /\ poll' \in Polls
  BY LeaveMoves DEF PollShape, SinceFails
<1>2. ClientType'
  BY <1>1, ProbedClient DEF SinceFails
<1>3. UNCHANGED <<owner, live, cast, log>> /\ UNCHANGED <<cursors, saved, backfilled>>
      /\ UNCHANGED history /\ UNCHANGED ghostVars
  BY DEF SinceFails
<1>4. faults' \in Nat
  BY SpendsFaults DEF SinceFails, GhostType
<1>5. GhostType'
  BY <1>3, <1>4 DEF GhostType, ghostVars
<1> QED BY <1>1, <1>2, <1>3, <1>5, LogStays, CursorStays

LEMMA AdmitType == ASSUME Leased, NEW d \in Hosts, AdmitDestination(d) PROVE RelayType'
<1> USE DEF RelayType, Leased
<1>1. poll' \in Polls
  BY AdmitMoves
<1>2. ClientType'
  BY LeaseClient DEF AdmitDestination
<1>3. UNCHANGED <<owner, live, cast, log>> /\ UNCHANGED <<cursors, saved, backfilled>>
      /\ UNCHANGED ghostVars /\ UNCHANGED <<history, faults>>
  BY DEF AdmitDestination
<1> QED BY <1>1, <1>2, <1>3, GhostStays, LogStays, CursorStays

LEMMA DestinationRefusedType == ASSUME Leased, DestinationRefused PROVE RelayType'
<1> USE DEF RelayType, Leased
<1>1. poll' \in Polls
  BY LeaveMoves DEF DestinationRefused, Refused
<1>2. UNCHANGED <<owner, live, cast, log>> /\ UNCHANGED <<cursors, saved, backfilled>>
      /\ UNCHANGED ghostVars /\ UNCHANGED <<history, faults>> /\ UNCHANGED clientVars
  BY DEF DestinationRefused, Refused
<1> QED BY <1>1, <1>2, ClientStays, GhostStays, LogStays, CursorStays

LEMMA KeyOfRow ==
  ASSUME NEW h \in Hosts, NEW row \in Row, row.to \in Panes PROVE LedgerKey(h, row) \in Keys
BY DEF LedgerKey, Keys, Row

LEMMA ConsumedType ==
  ASSUME live \in [Keys -> Nat], NEW h \in Hosts, NEW row \in Row
  PROVE  Consumed(h, row) \in [Keys -> Nat]
<1>1. CASE row.from = System /\ row.to \in Panes /\ live[LedgerKey(h, row)] > 0
  <2> DEFINE key == LedgerKey(h, row)
  <2>1. key \in Keys
    BY <1>1, KeyOfRow
  <2>2. Consumed(h, row) = [live EXCEPT ![key] = @ - 1]
    BY <1>1 DEF Consumed
  <2>3. live[key] > 0
    BY <1>1
  <2> HIDE DEF key
  <2>4. live[key] - 1 \in Nat
    BY <2>1, <2>3
  <2> QED BY <2>1, <2>2, <2>4
<1>2. CASE ~(row.from = System /\ row.to \in Panes /\ live[LedgerKey(h, row)] > 0)
  <2>1. Consumed(h, row) = live
    BY <1>2 DEF Consumed
  <2> QED BY <2>1
<1> QED BY <1>1, <1>2

LEMMA ProcessRowType == ASSUME Leased, ProcessRow PROVE RelayType'
<1> USE DEF RelayType, Leased
<1>0. poll.at = "rows" /\ poll.next <= poll.last
  BY DEF ProcessRow
<1>1. /\ poll.host \in Hosts /\ Current \in Row /\ <<poll.host, poll.next>> \in Place
  BY <1>0, CurrentType
<1>2. poll' \in Polls /\ LogType' /\ known' \in [Hosts -> {"unknown", "absent", "present"}]
  BY ProcessRowMoves, ProcessRowLog
<1>3. ClientType'
  BY <1>2 DEF ProcessRow, ClientType
<1>4. live' \in [Keys -> Nat]
  BY <1>1, ConsumedType DEF ProcessRow
<1>5. UNCHANGED <<owner, cast>> /\ UNCHANGED <<cursors, saved, backfilled>>
      /\ UNCHANGED <<missed, read, crashes, moved>>
  BY DEF ProcessRow
<1>6. history' \in SUBSET Place /\ seen' \in SUBSET Place
  BY <1>1 DEF ProcessRow, GhostType
<1>7. forwards' \in [Place -> Nat] /\ faults' \in Nat
  <2>1. CASE Forwarded(poll.host, Current)
    <3>1. forwards' = [forwards EXCEPT ![<<poll.host, poll.next>>] = @ + 1]
      BY <2>1 DEF ProcessRow
    <3>2. forwards' \in [Place -> Nat]
      BY <3>1, <1>1 DEF GhostType
    <3>3. Spends \/ UNCHANGED faults
      BY <2>1 DEF ProcessRow, Send
    <3> QED BY <3>2, <3>3, SpendsFaults DEF GhostType
  <2>2. CASE ~Forwarded(poll.host, Current)
    BY <2>2 DEF ProcessRow, GhostType
  <2> QED BY <2>1, <2>2
<1>8. GhostType'
  BY <1>5, <1>6, <1>7 DEF GhostType
<1> QED BY <1>2, <1>3, <1>4, <1>5, <1>8, CursorStays

LEMMA EndRowsType == ASSUME Leased, EndRows PROVE RelayType'
<1> USE DEF RelayType, Leased
<1> DEFINE moves == cursors[poll.host] # poll.last
<1>1. moves \in BOOLEAN /\ Leave(moves)
  BY DEF EndRows
<1>2. poll' \in Polls
  BY <1>1, LeaveMoves
<1>3. poll.last \in 0 .. MaxLog
  <2>1. poll.host \in Hosts /\ poll.last <= Len(log[poll.host])
    BY DEF PollShape, EndRows
  <2>2. Len(log[poll.host]) <= MaxLog /\ Len(log[poll.host]) \in Nat /\ poll.last \in Nat
    BY <2>1, LenProperties, PollIsOf DEF LogType
  <2> QED BY <2>1, <2>2, BoardRelayAssumption
<1>4. CursorType'
  BY <1>3 DEF EndRows, CursorType
<1>5. UNCHANGED <<owner, live, cast, log>> /\ UNCHANGED clientVars
      /\ UNCHANGED ghostVars /\ UNCHANGED <<history, faults>>
  BY DEF EndRows
<1> QED BY <1>2, <1>4, <1>5, ClientStays, GhostStays, LogStays

LEMMA EndPollType == ASSUME Leased, EndPoll PROVE RelayType'
<1> USE DEF RelayType, Leased
<1>1. poll' \in Polls
  BY PollEnds DEF EndPoll
<1>2. CursorType'
  BY DEF EndPoll, CursorType
<1>3. UNCHANGED <<owner, live, cast, log>> /\ UNCHANGED clientVars
      /\ UNCHANGED ghostVars /\ UNCHANGED history
  BY DEF EndPoll
<1>4. faults' \in Nat
  BY SpendsFaults DEF EndPoll, GhostType
<1>5. GhostType'
  BY <1>3, <1>4 DEF GhostType, ghostVars
<1> QED BY <1>1, <1>2, <1>3, <1>5, ClientStays, LogStays

LEMMA BroadcastType ==
  ASSUME Leased, NEW c \in Casts, NEW todo \in Targets, NEW body \in Bodies, Broadcast(c, todo, body)
  PROVE  RelayType'
<1> USE DEF RelayType, Leased
<1>1. cast' \in [Casts -> CastRecords]
  BY BroadcastMoves DEF CastMoves
<1>2. UNCHANGED <<owner, live, log, poll>> /\ UNCHANGED clientVars
      /\ UNCHANGED <<cursors, saved, backfilled>>
      /\ UNCHANGED ghostVars /\ UNCHANGED <<history, faults>>
  BY DEF Broadcast, relayVars
<1> QED BY <1>1, <1>2, ClientStays, GhostStays, LogStays, CursorStays

LEMMA CastLeaseType == ASSUME Leased, NEW c \in Casts, CastLease(c) PROVE RelayType'
<1> USE DEF RelayType, Leased
<1>1. cast[c].at = "next" /\ CastAt(c, "sending") /\ Lease(To(c))
  BY DEF CastLease
<1>2. cast' \in [Casts -> CastRecords] /\ To(c) \in Hosts /\ CastKey(c) \in Keys
  BY <1>1, CastAtMoves, ToType DEF CastMoves, CastAts, Underway
<1>3. live' \in [Keys -> Nat]
  BY <1>2 DEF CastLease
<1>4. ClientType'
  BY <1>1, <1>2, LeaseClient
<1>5. UNCHANGED <<owner, log, poll>> /\ UNCHANGED <<cursors, saved, backfilled>>
      /\ UNCHANGED ghostVars /\ UNCHANGED <<history, faults>>
  BY DEF CastLease, relayVars
<1> QED BY <1>2, <1>3, <1>4, <1>5, GhostStays, LogStays, CursorStays

LEMMA CastRefusedType == ASSUME Leased, NEW c \in Casts, CastRefused(c) PROVE RelayType'
<1> USE DEF RelayType, Leased
<1>1. cast' \in [Casts -> CastRecords]
  BY CastEndsMoves DEF CastMoves, CastRefused
<1>2. UNCHANGED <<owner, live, log, poll>> /\ UNCHANGED clientVars
      /\ UNCHANGED <<cursors, saved, backfilled>>
      /\ UNCHANGED ghostVars /\ UNCHANGED <<history, faults>>
  BY DEF CastRefused, relayVars
<1> QED BY <1>1, <1>2, ClientStays, GhostStays, LogStays, CursorStays

LEMMA CastDeliversType == ASSUME Leased, NEW c \in Casts, CastDelivers(c) PROVE RelayType'
<1> USE DEF RelayType, Leased
<1>1. cast' \in [Casts -> CastRecords]
  BY CastAtMoves DEF CastMoves, CastDelivers, CastAts
<1>2. LogType' /\ To(c) \in Hosts
  BY CastDeliversLog
<1>3. ClientType'
  BY <1>2, ProbedClient DEF CastDelivers
<1>4. UNCHANGED <<owner, live, poll>> /\ UNCHANGED <<cursors, saved, backfilled>>
      /\ UNCHANGED ghostVars /\ UNCHANGED <<history, faults>>
  BY DEF CastDelivers, relayVars
<1> QED BY <1>1, <1>2, <1>3, <1>4, GhostStays, CursorStays

LEMMA CastSentType == ASSUME Leased, NEW c \in Casts, CastSent(c) PROVE RelayType'
<1> USE DEF RelayType, Leased
<1>1. cast' \in [Casts -> CastRecords]
  BY CastSentMoves DEF CastMoves
<1>2. UNCHANGED <<owner, live, log, poll>> /\ UNCHANGED clientVars
      /\ UNCHANGED <<cursors, saved, backfilled>>
      /\ UNCHANGED ghostVars /\ UNCHANGED <<history, faults>>
  BY DEF CastSent, relayVars
<1> QED BY <1>1, <1>2, ClientStays, GhostStays, LogStays, CursorStays

LEMMA CastFailsType == ASSUME Leased, NEW c \in Casts, CastFails(c) PROVE RelayType'
<1> USE DEF RelayType, Leased
<1> DEFINE at == IF cast[c].at = "sending" THEN "failed" ELSE "failedDelivered"
<1>1. at \in CastAts /\ CastAt(c, at) /\ Underway(c)
  BY DEF CastAts, CastFails, Underway
<1> HIDE DEF at
<1>2. cast' \in [Casts -> CastRecords] /\ To(c) \in Hosts
  BY <1>1, CastAtMoves, ToType DEF CastMoves
<1>3. ClientType'
  BY <1>2, ProbedClient DEF CastFails
<1>4. UNCHANGED <<owner, live, log, poll>> /\ UNCHANGED <<cursors, saved, backfilled>>
      /\ UNCHANGED ghostVars /\ UNCHANGED history
  BY DEF CastFails, relayVars
<1>5. faults' \in Nat
  BY SpendsFaults DEF CastFails, GhostType
<1>6. GhostType'
  BY <1>4, <1>5 DEF GhostType, ghostVars
<1> QED BY <1>2, <1>3, <1>4, <1>6, LogStays, CursorStays

LEMMA CastForgetType == ASSUME Leased, NEW c \in Casts, CastForget(c) PROVE RelayType'
<1> USE DEF RelayType, Leased
<1>1. CastEnds(c) /\ Underway(c)
  BY DEF CastForget, Underway
<1>2. cast' \in [Casts -> CastRecords] /\ CastKey(c) \in Keys
  BY <1>1, CastEndsMoves, ToType DEF CastMoves
<1>3. live' \in [Keys -> Nat]
  BY <1>2 DEF CastForget, Forgotten
<1>4. UNCHANGED <<owner, log, poll>> /\ UNCHANGED clientVars
      /\ UNCHANGED <<cursors, saved, backfilled>>
      /\ UNCHANGED ghostVars /\ UNCHANGED <<history, faults>>
  BY DEF CastForget, relayVars
<1> QED BY <1>2, <1>3, <1>4, ClientStays, GhostStays, LogStays, CursorStays

LEMMA ExpireType == ASSUME Leased, NEW key \in Keys, Expire(key) PROVE RelayType'
<1> USE DEF RelayType, Leased
<1>1. live' \in [Keys -> Nat]
  BY DEF Expire
<1>2. UNCHANGED <<owner, log, poll, cast>> /\ UNCHANGED clientVars
      /\ UNCHANGED <<cursors, saved, backfilled>>
      /\ UNCHANGED ghostVars /\ UNCHANGED history
  BY DEF Expire, relayVars
<1>3. faults' \in Nat
  BY SpendsFaults DEF Expire, GhostType
<1>4. GhostType'
  BY <1>2, <1>3 DEF GhostType, ghostVars
<1> QED BY <1>1, <1>2, <1>4, ClientStays, LogStays, CursorStays

LEMMA PostType ==
  ASSUME Leased, NEW w \in Writes, NEW body \in Bodies, Post(w[1], w[2], body) PROVE RelayType'
<1> USE DEF RelayType, Leased
<1>1. LogType'
  BY PostLog
<1>2. UNCHANGED <<owner, live, poll, cast>> /\ UNCHANGED clientVars
      /\ UNCHANGED <<cursors, saved, backfilled>>
      /\ UNCHANGED ghostVars /\ UNCHANGED <<history, faults>>
  BY DEF Post, relayVars
<1> QED BY <1>1, <1>2, ClientStays, GhostStays, CursorStays

LEMMA RerouteType ==
  ASSUME Leased, NEW p \in Panes, NEW h \in Hosts \cup {NoHost}, Reroute(p, h) PROVE RelayType'
<1> USE DEF RelayType, Leased
<1>1. owner' \in Routes
  BY DEF Reroute, Routes
<1>2. UNCHANGED <<live, log, poll, cast>> /\ UNCHANGED clientVars
      /\ UNCHANGED <<cursors, saved, backfilled>>
      /\ UNCHANGED <<seen, missed, read, forwards, crashes>> /\ UNCHANGED history
  BY DEF Reroute, relayVars
<1>3. faults' \in Nat /\ moved' = TRUE
  BY SpendsFaults DEF Reroute, GhostType
<1>4. GhostType'
  BY <1>2, <1>3 DEF GhostType
<1> QED BY <1>1, <1>2, <1>4, ClientStays, LogStays, CursorStays

LEMMA UpdateTypes == ASSUME Leased, NEW u \in Updates, Update(u) PROVE RelayType'
<1> USE DEF RelayType, Leased
<1>1. UNCHANGED <<owner, live, log, poll, cast>> /\ UNCHANGED clientVars
      /\ UNCHANGED <<cursors, saved, backfilled>>
      /\ UNCHANGED ghostVars /\ UNCHANGED <<history, faults>>
  BY DEF Update, relayVars
<1> QED BY <1>1, ClientStays, GhostStays, LogStays, CursorStays

LEMMA CrashType == ASSUME Leased, Crash PROVE RelayType'
<1> USE DEF RelayType, Leased
<1>1. cast' \in [Casts -> CastRecords] /\ poll' \in Polls
  BY CrashCast, PollEnds DEF Crash
<1>2. ClientType'
  BY DEF Crash, ClientType
<1>3. CursorType'
  BY DEF Crash, CursorType
<1>4. live' \in [Keys -> Nat]
  BY DEF Crash
<1>5. faults' \in Nat
  BY SpendsFaults DEF Crash, GhostType
<1>6. GhostType'
  BY <1>5 DEF GhostType, Crash
<1>7. UNCHANGED <<owner, log>>
  BY DEF Crash
<1> QED BY <1>1, <1>2, <1>3, <1>4, <1>6, <1>7, LogStays

LEMMA RelayTypeStep == ASSUME Leased, [Next]_vars PROVE RelayType'
<1>1. CASE UNCHANGED vars
  <2>1. UNCHANGED <<owner, live, log, poll, cast>> /\ UNCHANGED clientVars
        /\ UNCHANGED <<cursors, saved, backfilled>>
        /\ UNCHANGED ghostVars /\ UNCHANGED <<history, faults>>
    BY <1>1 DEF vars, relayVars
  <2> QED BY <2>1, ClientStays, GhostStays, LogStays, CursorStays DEF RelayType, Leased
<1>2. CASE PollStep
  BY <1>2, StartPollType, PollHostType, HostRefusedType, SinceType, SinceFailsType,
     DestinationRefusedType, ProcessRowType, EndRowsType, EndPollType, AdmitType DEF PollStep
<1>3. ASSUME NEW c \in Casts, CastStep(c) PROVE RelayType'
  BY <1>3, CastLeaseType, CastRefusedType, CastDeliversType, CastSentType, CastFailsType,
     CastForgetType DEF CastStep
<1>4. CASE Next
  BY <1>2, <1>3, <1>4, BroadcastType, ExpireType, PostType, RerouteType, UpdateTypes, CrashType
     DEF Next
<1> QED BY <1>1, <1>4

-----------------------------------------------------------------------------
(* The invariant that the rest stands on                                   *)
RelayInv == GateInv /\ RelayType /\ PollShape /\ CastShape /\ LeasesCounted

LEMMA RelayInvInit == Init => RelayInv
<1> SUFFICES ASSUME Init PROVE RelayInv
  OBVIOUS
<1>1. GateInv
  BY GateInvInit DEF Init
<1>2. poll \in Polls /\ poll.at = "idle" /\ poll.leased = {}
  BY NoPollIsOf DEF Init, PollOf
<1>3. cast \in [Casts -> CastRecords] /\ \A c \in Casts : cast[c].at = "idle"
  BY NoCastType DEF Init, NoCast
<1>4. <<>> \in Seq(Row) /\ Len(<<>>) = 0 /\ MaxLog \in Nat
  BY EmptySeq, BoardRelayAssumption
<1>5. LogType /\ CursorType
  <2>1. log = [h \in Hosts |-> <<>>] /\ cursors = [h \in Hosts |-> 0] /\ saved = [h \in Hosts |-> 0]
        /\ backfilled = FALSE
    BY DEF Init
  <2>2. LogType
    <3>1. \A h \in Hosts : log[h] = <<>>
      BY <2>1
    <3>2. log \in [Hosts -> Seq(Row)]
      BY <1>4, <2>1
    <3> QED BY <1>4, <3>1, <3>2 DEF LogType
  <2>3. CursorType
    <3>1. 0 \in 0 .. MaxLog
      BY <1>4
    <3> QED BY <2>1, <3>1 DEF CursorType
  <2> QED BY <2>2, <2>3
<1>6. owner \in Routes
  BY BoardRelayAssumption DEF Init, Routes
<1>7. ClientType /\ GhostType /\ live \in [Keys -> Nat]
  BY DEF Init, ClientType, GhostType
<1>8. PollShape /\ CastShape
  BY <1>2, <1>3 DEF PollShape, CastShape, Underway
<1>9. \A h \in Hosts : Using(h) = {} /\ active[h] = 0
  BY <1>3 DEF Using, Init, GateInit
<1>10. LeasesCounted
  <2>1. \A h \in Hosts : h \notin poll.leased /\ Cardinality(Using(h)) = 0 /\ active[h] = 0
    BY <1>2, <1>9, FS_EmptySet
  <2>2. ASSUME NEW h \in Hosts
        PROVE  active[h] = (IF h \in poll.leased THEN 1 ELSE 0) + Cardinality(Using(h))
    BY <2>1
  <2> QED BY <2>2 DEF LeasesCounted
<1> QED BY <1>1, <1>2, <1>3, <1>5, <1>6, <1>7, <1>8, <1>10 DEF RelayInv, RelayType

LEMMA RelayInvStep == RelayInv /\ [Next]_vars => RelayInv' /\ [GateNext]_gateVars
<1> SUFFICES ASSUME RelayInv, [Next]_vars PROVE RelayInv' /\ [GateNext]_gateVars
  OBVIOUS
<1>1. Leased
  BY DEF RelayInv, Leased, GateInv
<1>2. LeasedNext /\ RelayType'
  BY <1>1, LeasedStep, RelayTypeStep
<1>3. GateInv'
  BY <1>2, GateInvStep DEF RelayInv, LeasedNext
<1> QED BY <1>2, <1>3 DEF RelayInv, LeasedNext

THEOREM RelayInvariant == Spec => []RelayInv
BY RelayInvInit, RelayInvStep, PTL DEF Spec

\* Every variable of the relay, its clients and the gate keeps its type
\* (relay.go, ledger.go, client.go, calls.go).
THEOREM RelayTypeCorrect == Spec => []TypeOK
<1>1. RelayInv => TypeOK
  BY RelayTypeIsTypeOK DEF RelayInv, GateInv
<1> QED BY <1>1, RelayInvariant, PTL

\* Every lease taken by a poll or a broadcast is given back once: the gate
\* counts those that have one (pollHost's and Broadcast's releases).
THEOREM LeasesCountedCorrect == Spec => []LeasesCounted
<1>1. RelayInv => LeasesCounted
  BY DEF RelayInv
<1> QED BY <1>1, RelayInvariant, PTL

\* The relay, its broadcasts and the updates use the gate only through its
\* operations: what the gate promises to any caller, it promises them.
THEOREM GateImplemented == Spec => GateSpec
<1>1. Init => GateInit
  BY DEF Init
<1> QED BY <1>1, RelayInvStep, RelayInvariant, PTL DEF Spec, GateSpec

\* No tool is replaced while a poll or a broadcast uses it (Pause, Begin).
THEOREM RelayInstallsAlone == Spec => []InstallsAlone
BY GateImplemented, GateInstallsAlone, PTL

\* Calls and updates exclude each other, and the gate counts the calls exactly.
THEOREM CallsAndUpdatesCorrect == Spec => []CallsAndUpdates
<1>1. InstallsAlone /\ LeasesCounted => CallsAndUpdates
  BY DEF CallsAndUpdates
<1> QED BY <1>1, RelayInstallsAlone, LeasesCountedCorrect, PTL

-----------------------------------------------------------------------------
(* What a client remembers.  Using a host, the client has looked at its    *)
(* revision since; and what it found at the present revision is so.        *)
DiscoveryInv ==
  \A h \in Hosts :
    /\ seenRevision[h] <= revision[h]
    /\ active[h] > 0 => seenRevision[h] = revision[h]
    /\ (seenRevision[h] = revision[h] /\ known[h] # "unknown")
         => (known[h] = "present" <=> h \in installed)

DiscoveryNext == RelayInv /\ RelayInv' /\ DiscoveryInv

LEMMA DiscoveryTypes ==
  ASSUME RelayInv
  PROVE  \A h \in Hosts : /\ seenRevision[h] \in Nat /\ revision[h] \in Nat /\ active[h] \in Nat
                          /\ known[h] \in {"unknown", "absent", "present"}
BY DEF RelayInv, GateInv, GateTypeOK, RelayType, ClientType

\* Nothing begins, and neither the tool nor what is known of it changes.
LEMMA DiscoveryStays ==
  ASSUME DiscoveryNext, UNCHANGED <<revision, installed, known, seenRevision>>,
         \A h \in Hosts : active'[h] > 0 => active[h] > 0
  PROVE  DiscoveryInv'
BY DEF DiscoveryInv, DiscoveryNext

LEMMA DiscoveryQuiet ==
  ASSUME DiscoveryNext, UNCHANGED gateVars, UNCHANGED clientVars PROVE DiscoveryInv'
BY DiscoveryStays DEF gateVars, clientVars

LEMMA DiscoveryRelease ==
  ASSUME DiscoveryNext, NEW hosts \in SUBSET Hosts, Release(hosts), UNCHANGED clientVars
  PROVE  DiscoveryInv'
<1>1. \A h \in Hosts : active'[h] > 0 => active[h] > 0
  BY DiscoveryTypes DEF Release, DiscoveryNext
<1> QED BY <1>1, DiscoveryStays DEF Release, clientVars

LEMMA DiscoveryLease ==
  ASSUME DiscoveryNext, NEW d \in Hosts, Lease(d) PROVE DiscoveryInv'
<1>1. UNCHANGED <<revision, installed>> /\ \A h \in Hosts : h # d => active'[h] = active[h]
  BY DEF Lease, Begin, DiscoveryNext, RelayInv, GateInv, GateTypeOK
<1>2. /\ seenRevision'[d] = revision[d] /\ known'[d] = Refreshed(d)
      /\ \A h \in Hosts : h # d => seenRevision'[h] = seenRevision[h] /\ known'[h] = known[h]
  BY DEF Lease, DiscoveryNext, RelayInv, RelayType, ClientType
<1>3. Refreshed(d) = IF seenRevision[d] = revision[d] THEN known[d] ELSE "unknown"
  BY DEF Refreshed
<1>4. ASSUME NEW h \in Hosts
      PROVE  /\ seenRevision'[h] <= revision'[h]
             /\ active'[h] > 0 => seenRevision'[h] = revision'[h]
             /\ (seenRevision'[h] = revision'[h] /\ known'[h] # "unknown")
                  => (known'[h] = "present" <=> h \in installed')
  <2>1. CASE h = d
    BY <2>1, <1>1, <1>2, <1>3, DiscoveryTypes DEF DiscoveryInv, DiscoveryNext
  <2>2. CASE h # d
    BY <2>2, <1>1, <1>2 DEF DiscoveryInv, DiscoveryNext
  <2> QED BY <2>1, <2>2
<1> QED BY <1>4 DEF DiscoveryInv

\* A probe of a host that is leased, whose lease may end with it.
LEMMA DiscoveryProbe ==
  ASSUME DiscoveryNext, NEW d \in Hosts, known' \in {known, Probed(d)}, UNCHANGED seenRevision,
         UNCHANGED gateVars \/ \E hosts \in SUBSET Hosts : Release(hosts), active[d] > 0
  PROVE  DiscoveryInv'
<1>1. UNCHANGED <<revision, installed>> /\ \A h \in Hosts : active'[h] > 0 => active[h] > 0
  BY DiscoveryTypes DEF Release, DiscoveryNext, gateVars
<1>2. /\ known'[d] \in {known[d], Ready(d)}
      /\ \A h \in Hosts : h # d => known'[h] = known[h]
  BY DEF Probed, DiscoveryNext, RelayInv, RelayType, ClientType
<1>3. /\ Ready(d) \in {"absent", "present"}
      /\ Ready(d) # known[d] => (Ready(d) = "present" <=> d \in installed)
  BY DiscoveryTypes DEF Ready, DiscoveryNext
<1>4. known'[d] # "unknown" => (known'[d] = "present" <=> d \in installed)
  <2>1. known[d] # "unknown" => (known[d] = "present" <=> d \in installed)
    BY DEF DiscoveryInv, DiscoveryNext
  <2>2. CASE known'[d] = known[d]
    BY <2>1, <2>2
  <2>3. CASE known'[d] # known[d]
    BY <1>2, <1>3, <2>3
  <2> QED BY <2>2, <2>3
<1> QED BY <1>1, <1>2, <1>4 DEF DiscoveryInv, DiscoveryNext

LEMMA LeasedActive ==
  ASSUME RelayInv, NEW h \in Hosts, h \in poll.leased \/ Using(h) # {} PROVE active[h] > 0
<1>1. active[h] = (IF h \in poll.leased THEN 1 ELSE 0) + Cardinality(Using(h))
  BY DEF RelayInv, LeasesCounted
<1>2. IsFiniteSet(Using(h)) /\ Cardinality(Using(h)) \in Nat
  BY UsingIs, FS_Subset, FS_CardinalityType, BoardRelayAssumption
<1>3. Using(h) # {} => Cardinality(Using(h)) # 0
  BY <1>2, FS_EmptySet
<1> QED BY <1>1, <1>2, <1>3

LEMMA DiscoveryCurrent == RelayInv /\ DiscoveryInv => DiscoveryIsCurrent
BY LeasedActive DEF DiscoveryInv, DiscoveryIsCurrent

LEMMA DiscoveryUpdate == ASSUME DiscoveryNext, NEW u \in Updates, Update(u) PROVE DiscoveryInv'
<1>1. UNCHANGED clientVars
  BY DEF Update
<1>2. CASE Install(u)
  <2> DEFINE h == update[u].host
  <2>1. active[h] = 0 /\ h \in Hosts
    BY <1>2 DEF Install, DiscoveryNext, RelayInv, GateInv, PauseHeld, Holds
  <2>2. UNCHANGED active
    BY <1>2 DEF Install
  <2>3. /\ revision'[h] = revision[h] + 1 /\ \A g \in Hosts : g # h => revision'[g] = revision[g]
        /\ \A g \in Hosts : g # h => (g \in installed' <=> g \in installed)
    BY <1>2, <2>1 DEF Install, Revised, DiscoveryNext, RelayInv, GateInv, GateTypeOK
  <2> HIDE DEF h
  <2>4. ASSUME NEW g \in Hosts
        PROVE  /\ seenRevision'[g] <= revision'[g]
               /\ active'[g] > 0 => seenRevision'[g] = revision'[g]
               /\ (seenRevision'[g] = revision'[g] /\ known'[g] # "unknown")
                    => (known'[g] = "present" <=> g \in installed')
    <3>1. UNCHANGED <<known, seenRevision>>
      BY <1>1 DEF clientVars
    <3>2. CASE g = h
      BY <3>1, <3>2, <2>1, <2>2, <2>3, DiscoveryTypes DEF DiscoveryInv, DiscoveryNext
    <3>3. CASE g # h
      BY <3>1, <3>3, <2>2, <2>3 DEF DiscoveryInv, DiscoveryNext
    <3> QED BY <3>2, <3>3
  <2> QED BY <2>4 DEF DiscoveryInv
<1>3. CASE ~Install(u)
  <2>1. UNCHANGED <<revision, installed, active>>
    BY <1>3 DEF Update, UpdateStep, GiveUp, Pause, Drain, StartInstall, Resume
  <2> QED BY <2>1, <1>1, DiscoveryStays DEF clientVars
<1> QED BY <1>2, <1>3

LEMMA DiscoveryCrash == ASSUME DiscoveryNext, Crash PROVE DiscoveryInv'
<1>1. \A h \in Hosts : /\ known'[h] = "unknown" /\ seenRevision'[h] = 0
                       /\ revision'[h] = 0 /\ active'[h] = 0
  BY DEF Crash, GateRestart
<1> QED BY <1>1 DEF DiscoveryInv

LEMMA DiscoveryPollStep == ASSUME DiscoveryNext, PollStep PROVE DiscoveryInv'
<1>0. RelayType /\ PollShape
  BY DEF DiscoveryNext, RelayInv
<1>1. CASE PollHost \/ \E d \in Hosts : AdmitDestination(d)
  BY <1>0, <1>1, PollHostMoves, DiscoveryLease DEF PollHost, AdmitDestination
<1>2. CASE Since \/ SinceFails
  <2>1. poll.host \in Hosts /\ poll.host \in poll.leased /\ poll.leased \in SUBSET Hosts
    BY <1>0, <1>2, PollIsOf DEF PollShape, Since, SinceFails, RelayType
  <2>2. active[poll.host] > 0
    BY <2>1, LeasedActive DEF DiscoveryNext
  <2>3. UNCHANGED gateVars \/ Release(poll.leased)
    BY <1>2 DEF Since, SinceFails, Leave
  <2>4. known' \in {known, Probed(poll.host)} /\ UNCHANGED seenRevision
    BY <1>2 DEF Since, SinceFails
  <2> QED BY <2>1, <2>2, <2>3, <2>4, DiscoveryProbe
<1>3. CASE ProcessRow
  <2>0. poll.at = "rows" /\ poll.next <= poll.last /\ UNCHANGED gateVars /\ UNCHANGED seenRevision
    BY <1>3 DEF ProcessRow
  <2>1. CASE Forwarded(poll.host, Current)
    <3> DEFINE d == poll.routes[Current.to]
    <3>1. d \in Hosts /\ Current.to \in Panes /\ Send(d, Current) /\ Wanted = {}
      BY <1>0, <1>3, <2>0, <2>1, ForwardedTo DEF ProcessRow
    <3>2. poll.next \in poll.next .. poll.last
      <4>1. poll.next \in Nat /\ poll.last \in Nat
        BY <1>0, PollIsOf DEF RelayType
      <4> QED BY <2>0, <4>1
    <3>3. d \in Involved
      BY <3>1, <3>2 DEF Involved, Current
    <3>4. d \in poll.leased
      BY <3>1, <3>3, CallGateAssumption DEF Wanted
    <3>5. active[d] > 0
      BY <3>1, <3>4, LeasedActive DEF DiscoveryNext
    <3>6. known' = Probed(d)
      BY <3>1 DEF Send
    <3> HIDE DEF d
    <3> QED BY <2>0, <3>1, <3>5, <3>6, DiscoveryProbe
  <2>2. CASE ~Forwarded(poll.host, Current)
    BY <1>3, <2>0, <2>2, DiscoveryQuiet DEF ProcessRow, clientVars
  <2> QED BY <2>1, <2>2
<1>4. CASE DestinationRefused \/ EndRows
  <2>1. Release(poll.leased) /\ UNCHANGED clientVars /\ poll.leased \in SUBSET Hosts
    BY <1>0, <1>4, PollIsOf DEF DestinationRefused, Refused, EndRows, Leave, RelayType
  <2> QED BY <2>1, DiscoveryRelease
<1>5. CASE StartPoll \/ HostRefused \/ EndPoll
  BY <1>5, DiscoveryQuiet DEF StartPoll, HostRefused, EndPoll
<1> QED BY <1>1, <1>2, <1>3, <1>4, <1>5 DEF PollStep

LEMMA DiscoveryCastStep == ASSUME DiscoveryNext, NEW c \in Casts, CastStep(c) PROVE DiscoveryInv'
<1>0. RelayType /\ CastShape
  BY DEF DiscoveryNext, RelayInv
<1>1. Underway(c) /\ To(c) \in Hosts
  <2>1. Underway(c)
    BY DEF CastStep, CastLease, CastRefused, CastDelivers, CastSent, CastFails, CastForget, Underway
  <2> QED BY <1>0, <2>1, ToType
<1>2. CASE CastLease(c)
  BY <1>1, <1>2, DiscoveryLease DEF CastLease
<1>3. CASE CastDelivers(c) \/ CastFails(c)
  <2>1. c \in Using(To(c))
    BY <1>3 DEF Using, CastDelivers, CastFails
  <2>2. active[To(c)] > 0
    BY <1>1, <2>1, LeasedActive DEF DiscoveryNext
  <2>3. UNCHANGED gateVars \/ Release({To(c)})
    BY <1>3 DEF CastDelivers, CastFails
  <2>4. known' \in {known, Probed(To(c))} /\ UNCHANGED seenRevision
    BY <1>3 DEF CastDelivers, CastFails
  <2>5. {To(c)} \in SUBSET Hosts
    BY <1>1
  <2> QED BY <1>1, <2>2, <2>3, <2>4, <2>5, DiscoveryProbe
<1>4. CASE CastSent(c)
  <2>1. Release({To(c)}) /\ UNCHANGED clientVars /\ {To(c)} \in SUBSET Hosts
    BY <1>1, <1>4 DEF CastSent
  <2> QED BY <2>1, DiscoveryRelease
<1>5. CASE CastRefused(c) \/ CastForget(c)
  BY <1>5, DiscoveryQuiet DEF CastRefused, CastForget
<1> QED BY <1>2, <1>3, <1>4, <1>5 DEF CastStep

LEMMA DiscoveryStep == ASSUME DiscoveryNext, [Next]_vars PROVE DiscoveryInv'
<1>1. CASE UNCHANGED vars
  BY <1>1, DiscoveryQuiet DEF vars
<1>2. ASSUME \/ \E c \in Casts, todo \in Targets, b \in Bodies : Broadcast(c, todo, b)
             \/ \E key \in Keys : Expire(key)
             \/ \E w \in Writes, b \in Bodies : Post(w[1], w[2], b)
             \/ \E p \in Panes, h \in Hosts \cup {NoHost} : Reroute(p, h)
      PROVE DiscoveryInv'
  <2>1. UNCHANGED gateVars /\ UNCHANGED clientVars
    BY <1>2 DEF Broadcast, Expire, Post, Reroute
  <2> QED BY <2>1, DiscoveryQuiet
<1> QED BY <1>1, <1>2, DiscoveryPollStep, DiscoveryCastStep, DiscoveryUpdate, DiscoveryCrash DEF Next

LEMMA DiscoveryInit == Init => DiscoveryInv
<1> SUFFICES ASSUME Init PROVE DiscoveryInv
  OBVIOUS
<1>1. ASSUME NEW h \in Hosts
      PROVE  seenRevision[h] = 0 /\ revision[h] = 0 /\ active[h] = 0 /\ known[h] = "unknown"
  BY DEF Init, GateInit
<1>2. 0 <= 0 /\ ~(0 > 0)
  OBVIOUS
<1> QED BY <1>1, <1>2 DEF DiscoveryInv

\* A client that uses a host remembers what is so: no update leaves it
\* believing the tool absent, or there when it is gone (begin, invalidate).
THEOREM DiscoveryIsCurrentCorrect == Spec => []DiscoveryIsCurrent
<1>1. RelayInv /\ RelayInv' /\ DiscoveryInv /\ [Next]_vars => DiscoveryInv'
  BY DiscoveryStep DEF DiscoveryNext
<1> QED BY <1>1, DiscoveryInit, DiscoveryCurrent, RelayInvariant, PTL DEF Spec

-----------------------------------------------------------------------------
(* No row is passed by: a poll's rows up to the next one were processed,   *)
(* or were lost to the bound of its read.                                  *)
RowsDone ==
  poll.at = "rows" =>
    \A i \in 1 .. MaxLog : i < poll.next => <<poll.host, i>> \in seen \cup missed

LEMMA LeaveAt == ASSUME NEW changed, Leave(changed) PROVE poll'.at = "pass"
BY NoPollIsOf DEF Leave, PollOf

SkipInv == NoneSkipped /\ RowsDone
SkipNext == RelayInv /\ RelayInv' /\ SkipInv

LEMMA SkipStays ==
  ASSUME SkipNext, UNCHANGED <<cursors, saved>>, seen \subseteq seen', missed \subseteq missed',
         poll'.at # "rows" \/ (poll.at = "rows" /\ poll'.next = poll.next /\ poll'.host = poll.host)
  PROVE  SkipInv'
BY DEF SkipNext, SkipInv, NoneSkipped, RowsDone

LEMMA SkipSince == ASSUME SkipNext, Since PROVE SkipInv'
<1>0. RelayType /\ PollShape
  BY DEF SkipNext, RelayInv
<1>1. CASE Ready(poll.host) # "present"
  <2>1. poll'.at = "pass" /\ UNCHANGED <<cursors, saved, seen, missed>>
    BY <1>1, LeaveAt DEF Since
  <2> QED BY <2>1, SkipStays
<1>2. CASE Ready(poll.host) = "present"
  <2> DEFINE h == poll.host
             limit == ReadLimit
  <2>1. /\ h \in Hosts /\ poll'.at = "rows" /\ poll'.host = h /\ poll'.next = FirstAfter(h, limit)
    BY <1>0, <1>2, SinceMoves DEF PollOf
  <2>2. /\ missed' = missed \cup {<<h, i>> : i \in cursors[h] + 1 .. Oldest(h, limit) - 1}
        /\ UNCHANGED <<cursors, saved, seen>>
    BY <1>2 DEF Since
  <2>3. Oldest(h, limit) \in Nat /\ cursors[h] \in Nat
    BY <1>0, <2>1, FirstAfterType, ReadLimitType, BoardRelayAssumption
  <2>4. \A i \in 1 .. MaxLog : i <= cursors[h] => <<h, i>> \in seen \cup missed
    BY <2>1 DEF SkipNext, SkipInv, NoneSkipped
  <2>5. FirstAfter(h, limit) = IF cursors[h] >= Oldest(h, limit) THEN cursors[h] + 1 ELSE Oldest(h, limit)
    BY DEF FirstAfter
  <2> HIDE DEF h, limit
  <2>6. ASSUME NEW i \in 1 .. MaxLog, i < FirstAfter(h, limit) PROVE <<h, i>> \in seen' \cup missed'
    <3>1. CASE i <= cursors[h]
      BY <3>1, <2>2, <2>4
    <3>2. CASE ~(i <= cursors[h])
      <4>1. i \in Nat /\ i > cursors[h]
        BY <3>2, <2>3
      <4>2. i \in cursors[h] + 1 .. Oldest(h, limit) - 1
        BY <4>1, <2>3, <2>5, <2>6
      <4> QED BY <2>2, <4>2
    <3> QED BY <3>1, <3>2
  <2>7. RowsDone'
    BY <2>1, <2>6 DEF RowsDone
  <2>8. NoneSkipped'
    BY <2>2 DEF SkipNext, SkipInv, NoneSkipped
  <2> QED BY <2>7, <2>8 DEF SkipInv
<1> QED BY <1>1, <1>2

LEMMA SkipProcessRow == ASSUME SkipNext, ProcessRow PROVE SkipInv'
<1>0. RelayType /\ PollShape
  BY DEF SkipNext, RelayInv
<1>1. poll'.at = "rows" /\ poll'.host = poll.host /\ poll'.next = poll.next + 1 /\ poll.next \in Nat
  BY <1>0, ProcessRowMoves, PollIsOf DEF PollOf, RelayType
<1>2. /\ seen' = seen \cup {<<poll.host, poll.next>>} /\ poll.at = "rows"
      /\ UNCHANGED <<cursors, saved, missed>>
  BY DEF ProcessRow
<1>3. NoneSkipped'
  BY <1>2 DEF SkipNext, SkipInv, NoneSkipped
<1>4. ASSUME NEW i \in 1 .. MaxLog, i < poll.next + 1 PROVE <<poll.host, i>> \in seen' \cup missed'
  <2>1. i < poll.next \/ i = poll.next
    BY <1>1, <1>4
  <2> QED BY <1>2, <2>1 DEF SkipNext, SkipInv, RowsDone
<1>5. RowsDone'
  BY <1>1, <1>4 DEF RowsDone
<1> QED BY <1>3, <1>5 DEF SkipInv

LEMMA SkipEndRows == ASSUME SkipNext, EndRows PROVE SkipInv'
<1>0. RelayType /\ PollShape
  BY DEF SkipNext, RelayInv
<1>1. poll'.at = "pass" /\ poll.host \in Hosts /\ poll.next \in Nat /\ poll.last \in Nat
  BY <1>0, LeaveAt, PollIsOf DEF EndRows, PollShape, RelayType
<1>2. poll.at = "rows" /\ poll.next > poll.last /\ UNCHANGED <<saved, seen, missed>>
  BY DEF EndRows, ghostVars
<1>3. /\ cursors'[poll.host] = poll.last
      /\ \A h \in Hosts : h # poll.host => cursors'[h] = cursors[h]
  BY <1>0, <1>1 DEF EndRows, RelayType, CursorType
<1>4. \A i \in 1 .. MaxLog : i <= poll.last => <<poll.host, i>> \in seen \cup missed
  BY <1>1, <1>2 DEF SkipNext, SkipInv, RowsDone
<1>5. NoneSkipped'
  BY <1>2, <1>3, <1>4 DEF SkipNext, SkipInv, NoneSkipped
<1> QED BY <1>1, <1>5 DEF SkipInv, RowsDone

LEMMA SkipPollStep == ASSUME SkipNext, PollStep PROVE SkipInv'
<1>0. RelayType /\ PollShape
  BY DEF SkipNext, RelayInv
<1>1. CASE StartPoll \/ PollHost \/ HostRefused
  <2>1. poll'.at # "rows" /\ UNCHANGED <<cursors, saved>> /\ UNCHANGED <<seen, missed>>
    BY <1>0, <1>1, StartPollMoves, PollHostMoves, HostRefusedMoves
       DEF StartPoll, PollHost, HostRefused, PollOf, ghostVars
  <2> QED BY <2>1, SkipStays
<1>2. CASE SinceFails \/ DestinationRefused
  <2>1. poll'.at # "rows" /\ UNCHANGED <<cursors, saved>> /\ UNCHANGED <<seen, missed>>
    BY <1>2, LeaveAt DEF SinceFails, DestinationRefused, Refused, ghostVars
  <2> QED BY <2>1, SkipStays
<1>3. CASE \E d \in Hosts : AdmitDestination(d)
  <2>1. /\ poll.at = "rows" /\ poll'.next = poll.next /\ poll'.host = poll.host
        /\ UNCHANGED <<cursors, saved>> /\ UNCHANGED <<seen, missed>>
    BY <1>0, <1>3, AdmitMoves DEF AdmitDestination, PollOf, ghostVars
  <2> QED BY <2>1, SkipStays
<1>4. CASE EndPoll
  <2>1. poll'.at = "idle" /\ UNCHANGED <<cursors, seen, missed>> /\ (saved' = cursors \/ saved' = saved)
    BY <1>4, PollEnds DEF EndPoll, ghostVars
  <2> QED BY <2>1 DEF SkipNext, SkipInv, NoneSkipped, RowsDone
<1> QED BY <1>1, <1>2, <1>3, <1>4, SkipSince, SkipProcessRow, SkipEndRows DEF PollStep

\* Every other step but a crash leaves poll, cursors and rows as they are.
LEMMA OthersStay ==
  ASSUME \/ \E c \in Casts : CastStep(c) \/ \E todo \in Targets, b \in Bodies : Broadcast(c, todo, b)
         \/ \E key \in Keys : Expire(key)
         \/ \E w \in Writes, b \in Bodies : Post(w[1], w[2], b)
         \/ \E p \in Panes, h \in Hosts \cup {NoHost} : Reroute(p, h)
         \/ \E u \in Updates : Update(u)
         \/ UNCHANGED vars
  PROVE  UNCHANGED <<poll, cursors, saved, seen, missed, forwards, crashes, history>>
BY DEF CastStep, CastLease, CastRefused, CastDelivers, CastSent, CastFails, CastForget, Broadcast,
       Expire, Post, Reroute, Update, vars, relayVars, ghostVars

LEMMA SkipStep == ASSUME SkipNext, [Next]_vars PROVE SkipInv'
<1>1. CASE Crash
  <2>1. poll'.at = "idle" /\ UNCHANGED <<saved, seen, missed>> /\ cursors' = saved
    BY <1>1, PollEnds DEF Crash
  <2> QED BY <2>1 DEF SkipNext, SkipInv, NoneSkipped, RowsDone
<1>2. CASE PollStep
  BY <1>2, SkipPollStep
<1>3. CASE UNCHANGED <<poll, cursors, saved, seen, missed, forwards, crashes, history>>
  BY <1>3 DEF SkipNext, SkipInv, NoneSkipped, RowsDone
<1> QED BY <1>1, <1>2, <1>3, OthersStay DEF Next

LEMMA SkipInit == Init => SkipInv
<1> SUFFICES ASSUME Init PROVE SkipInv
  OBVIOUS
<1>1. \A h \in Hosts : cursors[h] = 0 /\ saved[h] = 0
  BY DEF Init
<1>2. poll.at = "idle"
  BY NoPollIsOf DEF Init, PollOf
<1> QED BY <1>1, <1>2 DEF SkipInv, NoneSkipped, RowsDone

\* No cursor, in memory or saved, passes a row that was not processed, unless
\* the store grew by more than a read returns (pollHost, Poll's persist).
THEOREM NoneSkippedCorrect == Spec => []NoneSkipped
<1>1. RelayInv /\ RelayInv' /\ SkipInv /\ [Next]_vars => SkipInv'
  BY SkipStep DEF SkipNext
<1>2. SkipInv => NoneSkipped
  BY DEF SkipInv
<1> QED BY <1>1, <1>2, SkipInit, RelayInvariant, PTL DEF Spec

-----------------------------------------------------------------------------
(* A row is sent on once in a process's life: until the cursor passes it,  *)
(* a row that was not processed was not sent on since the last crash; and  *)
(* a batch one row of which was processed has all its destinations.        *)
Unread(h, i) == i > cursors[h] /\ ~(poll.at = "rows" /\ poll.host = h /\ i < poll.next)

BatchWhole ==
  poll.at = "rows" =>
    \/ Wanted = {}
    \/ \A i \in 1 .. MaxLog : i > cursors[poll.host] => forwards[<<poll.host, i>>] <= crashes

CursorBound ==
  /\ \A h \in Hosts : cursors[h] <= Len(log[h]) /\ saved[h] <= Len(log[h])
  /\ poll.at = "rows" =>
       /\ cursors[poll.host] < poll.next /\ cursors[poll.host] <= poll.last
       /\ poll.next <= poll.last + 1

UnreadUnsent ==
  \A h \in Hosts : \A i \in 1 .. MaxLog : Unread(h, i) => forwards[<<h, i>>] <= crashes

OnceInv == ForwardedOnce /\ UnreadUnsent /\ BatchWhole /\ CursorBound
OnceNext == RelayInv /\ RelayInv' /\ OnceInv

LEMMA GrowsStep == ASSUME RelayInv, [Next]_vars PROVE LogGrows
<1>0. RelayType /\ PollShape /\ CastShape /\ LogType
  BY DEF RelayInv, RelayType
<1>1. CASE UNCHANGED log
  BY <1>0, <1>1, GrowsNot
<1>2. CASE ProcessRow
  BY <1>0, <1>2, ProcessRowLog
<1>3. ASSUME NEW c \in Casts, CastDelivers(c) PROVE LogGrows
  BY <1>0, <1>3, CastDeliversLog
<1>4. ASSUME NEW w \in Writes, NEW b \in Bodies, Post(w[1], w[2], b) PROVE LogGrows
  BY <1>0, <1>4, PostLog
<1>5. CASE PollStep /\ ~ProcessRow
  <2>1. UNCHANGED log
    BY <1>5 DEF PollStep, StartPoll, PollHost, HostRefused, Since, SinceFails, DestinationRefused,
                EndRows, EndPoll, AdmitDestination
  <2> QED BY <2>1, <1>1
<1>6. ASSUME NEW c \in Casts, CastStep(c), ~CastDelivers(c) PROVE LogGrows
  <2>1. UNCHANGED log
    BY <1>6 DEF CastStep, CastLease, CastRefused, CastSent, CastFails, CastForget
  <2> QED BY <2>1, <1>1
<1>7. ASSUME \/ \E c \in Casts, todo \in Targets, b \in Bodies : Broadcast(c, todo, b)
             \/ \E key \in Keys : Expire(key)
             \/ \E p \in Panes, h \in Hosts \cup {NoHost} : Reroute(p, h)
             \/ \E u \in Updates : Update(u)
             \/ Crash \/ UNCHANGED vars
      PROVE  LogGrows
  <2>1. UNCHANGED log
    BY <1>7 DEF Broadcast, Expire, Reroute, Update, Crash, vars
  <2> QED BY <2>1, <1>1
<1> QED BY <1>2, <1>3, <1>4, <1>5, <1>6, <1>7 DEF Next

LEMMA WantedShrinks ==
  ASSUME RelayInv, LogGrows, poll.at = "rows", poll'.host = poll.host, poll'.last = poll.last,
         poll'.routes = poll.routes, poll'.next \in Nat, poll'.next >= poll.next,
         poll.leased \subseteq poll'.leased
  PROVE  Wanted' \subseteq Wanted
<1>1. poll.host \in Hosts /\ poll.next \in Nat /\ poll.last \in Nat /\ poll.next >= 1
      /\ poll.last <= Len(log[poll.host]) /\ Len(log[poll.host]) \in Nat
  BY PollIsOf DEF RelayInv, RelayType, PollShape, LogGrows
<1>2. \A j \in poll'.next .. poll'.last : j \in poll.next .. poll.last /\ j \in 1 .. Len(log[poll.host])
  BY <1>1
<1>3. \A j \in poll'.next .. poll'.last : log'[poll.host][j] = log[poll.host][j]
  BY <1>1, <1>2 DEF LogGrows
<1>4. Involved' \subseteq Involved
  BY <1>2, <1>3 DEF Involved
<1> QED BY <1>4 DEF Wanted

LEMMA OnceType ==
  ASSUME RelayInv
  PROVE  /\ \A h \in Hosts : \A i \in 1 .. MaxLog : <<h, i>> \in Place /\ forwards[<<h, i>>] \in Nat
         /\ crashes \in Nat /\ \A h \in Hosts : cursors[h] \in Nat
         /\ poll.next \in Nat /\ poll.last \in Nat /\ MaxLog \in Nat
BY PollIsOf, BoardRelayAssumption DEF RelayInv, RelayType, GhostType, CursorType, Place

LEMMA BoundStays ==
  ASSUME OnceNext, LogGrows, UNCHANGED <<cursors, saved>>
  PROVE  \A h \in Hosts : cursors'[h] <= Len(log'[h]) /\ saved'[h] <= Len(log'[h])
<1>1. \A h \in Hosts : cursors[h] \in Nat /\ saved[h] \in Nat
  BY BoardRelayAssumption DEF OnceNext, RelayInv, RelayType, CursorType
<1> QED BY <1>1 DEF OnceNext, OnceInv, CursorBound, LogGrows

\* The poll is at no rows before or after, or at the same ones.
LEMMA OnceStays ==
  ASSUME OnceNext, LogGrows, UNCHANGED <<cursors, saved, forwards, crashes>>,
         \/ poll'.at # "rows" /\ (poll.at # "rows" \/ Wanted # {})
         \/ /\ poll.at = "rows" /\ poll'.at = "rows" /\ poll'.host = poll.host
            /\ poll'.next = poll.next /\ poll'.last = poll.last /\ poll'.routes = poll.routes
            /\ poll.leased \subseteq poll'.leased
  PROVE  OnceInv'
<1>1. ForwardedOnce'
  BY DEF OnceNext, OnceInv, ForwardedOnce
<1>2. \A h \in Hosts : cursors'[h] <= Len(log'[h]) /\ saved'[h] <= Len(log'[h])
  BY BoundStays
<1>3. CASE poll'.at # "rows"
  <2>1. BatchWhole' /\ CursorBound'
    BY <1>2, <1>3 DEF BatchWhole, CursorBound
  <2>2. ASSUME NEW h \in Hosts, NEW i \in 1 .. MaxLog, i > cursors[h]
        PROVE  forwards[<<h, i>>] <= crashes
    BY <1>3, <2>2 DEF OnceNext, OnceInv, UnreadUnsent, Unread, BatchWhole
  <2>3. UnreadUnsent'
    BY <2>2 DEF UnreadUnsent, Unread
  <2> QED BY <1>1, <2>1, <2>3 DEF OnceInv
<1>4. CASE poll'.at = "rows"
  <2>1. Wanted' \subseteq Wanted
    BY <1>4, WantedShrinks, OnceType DEF OnceNext
  <2>2. BatchWhole'
    BY <1>4, <2>1 DEF OnceNext, OnceInv, BatchWhole
  <2>3. UnreadUnsent'
    BY <1>4 DEF OnceNext, OnceInv, UnreadUnsent, Unread
  <2>4. CursorBound'
    BY <1>2, <1>4 DEF OnceNext, OnceInv, CursorBound
  <2> QED BY <1>1, <2>2, <2>3, <2>4 DEF OnceInv
<1> QED BY <1>3, <1>4

LEMMA OnceSince == ASSUME OnceNext, LogGrows, Since PROVE OnceInv'
<1>0. RelayType /\ PollShape /\ poll.at = "reading"
  BY DEF OnceNext, RelayInv, Since
<1>u. UNCHANGED <<cursors, saved, forwards, crashes, log>>
  BY DEF Since
<1>1. CASE Ready(poll.host) # "present"
  <2>1. poll'.at = "pass"
    BY <1>1, LeaveAt DEF Since
  <2> QED BY <1>0, <1>u, <2>1, OnceStays
<1>2. CASE Ready(poll.host) = "present"
  <2> DEFINE h == poll.host
  <2>1. /\ h \in Hosts /\ poll'.at = "rows" /\ poll'.host = h /\ poll'.next = FirstAfter(h, ReadLimit)
        /\ poll'.last = Len(log[h])
    BY <1>0, <1>2, SinceMoves DEF PollOf
  <2>2. Oldest(h, ReadLimit) \in Nat /\ cursors[h] \in Nat
    BY <1>0, <2>1, FirstAfterType, ReadLimitType, BoardRelayAssumption
  <2>a. ReadLimit \in Nat /\ Len(log[h]) \in Nat
    BY <1>0, <2>1, ReadLimitType DEF RelayType, LogType
  <2>b. cursors[h] <= Len(log[h])
    BY <2>1 DEF OnceNext, OnceInv, CursorBound
  <2>3. FirstAfter(h, ReadLimit) > cursors[h] /\ FirstAfter(h, ReadLimit) <= Len(log[h]) + 1
    BY <2>2, <2>a, <2>b DEF FirstAfter, Oldest
  <2>4. \A g \in Hosts : \A i \in 1 .. MaxLog : i > cursors[g] => forwards[<<g, i>>] <= crashes
    BY <1>0 DEF OnceNext, OnceInv, UnreadUnsent, Unread
  <2> HIDE DEF h
  <2>5. UnreadUnsent' /\ BatchWhole'
    BY <1>u, <2>1, <2>4 DEF UnreadUnsent, Unread, BatchWhole
  <2>6. CursorBound'
    BY <1>u, <2>1, <2>3 DEF OnceNext, OnceInv, CursorBound
  <2>7. ForwardedOnce'
    BY <1>u DEF OnceNext, OnceInv, ForwardedOnce
  <2> QED BY <2>5, <2>6, <2>7 DEF OnceInv
<1> QED BY <1>1, <1>2

LEMMA OnceProcessRow == ASSUME OnceNext, LogGrows, ProcessRow PROVE OnceInv'
<1> DEFINE h == poll.host
           n == poll.next
<1>0. RelayType /\ PollShape
  BY DEF OnceNext, RelayInv
<1>1. /\ poll'.at = "rows" /\ poll'.host = h /\ poll'.next = n + 1 /\ poll'.last = poll.last
      /\ poll'.routes = poll.routes /\ poll'.leased = poll.leased
  BY <1>0, ProcessRowMoves DEF PollOf
<1>2. /\ poll.at = "rows" /\ n <= poll.last /\ Wanted = {}
      /\ UNCHANGED <<cursors, saved, crashes>>
  BY DEF ProcessRow
<1>3. h \in Hosts /\ <<h, n>> \in Place /\ n \in Nat /\ n \in 1 .. MaxLog
  <2>1. <<h, n>> \in Place /\ h \in Hosts
    BY <1>0, <1>2, CurrentType
  <2>2. n \in 1 .. MaxLog
    BY <2>1 DEF Place
  <2> QED BY <2>1, <2>2, OnceType DEF OnceNext
<1>4. forwards' = forwards \/ forwards' = [forwards EXCEPT ![<<h, n>>] = @ + 1]
  BY DEF ProcessRow
<1>5. forwards[<<h, n>>] <= crashes
  <2>1. n > cursors[h]
    BY <1>2 DEF OnceNext, OnceInv, CursorBound
  <2>2. ~(n < n)
    BY <1>3
  <2> QED BY <1>3, <2>1, <2>2 DEF OnceNext, OnceInv, UnreadUnsent, Unread
<1>6. \A x \in Place : x # <<h, n>> => forwards'[x] = forwards[x]
  BY <1>3, <1>4 DEF OnceNext, RelayInv, RelayType, GhostType
<1>7. forwards'[<<h, n>>] <= 1 + crashes
  BY <1>3, <1>4, <1>5, OnceType DEF OnceNext, RelayInv, RelayType, GhostType
<1> HIDE DEF h, n
<1>8. ForwardedOnce'
  BY <1>2, <1>3, <1>6, <1>7 DEF OnceNext, OnceInv, ForwardedOnce
<1>9. ASSUME NEW g \in Hosts, NEW i \in 1 .. MaxLog, Unread(g, i)' PROVE forwards'[<<g, i>>] <= crashes'
  <2>1. i > cursors[g] /\ ~(g = h /\ i < n + 1)
    BY <1>1, <1>2, <1>9 DEF Unread
  <2>2. <<g, i>> # <<h, n>>
    BY <1>3, <2>1
  <2>3. ~(g = h /\ i < n) /\ i \in Nat
    BY <1>3, <2>1
  <2>4. Unread(g, i)
    BY <2>1, <2>3 DEF Unread, h, n
  <2>5. forwards[<<g, i>>] <= crashes /\ <<g, i>> \in Place
    BY <2>4, OnceType DEF OnceNext, OnceInv, UnreadUnsent
  <2> QED BY <1>2, <1>6, <2>2, <2>5
<1>10. UnreadUnsent'
  BY <1>9 DEF UnreadUnsent
<1>11. Wanted' \subseteq Wanted
  <2>1. poll'.next \in Nat /\ poll'.next >= poll.next
    BY <1>1, <1>3 DEF n
  <2> QED BY <1>1, <1>2, <2>1, WantedShrinks DEF OnceNext, h
<1>12. BatchWhole'
  BY <1>2, <1>11 DEF BatchWhole
<1>13. CursorBound'
  <2>1. \A g \in Hosts : cursors'[g] <= Len(log'[g]) /\ saved'[g] <= Len(log'[g])
    BY <1>2, BoundStays
  <2>2. cursors[h] < n + 1 /\ cursors[h] <= poll.last /\ n + 1 <= poll.last + 1
    BY <1>2, <1>3, OnceType DEF OnceNext, OnceInv, CursorBound, h, n
  <2> QED BY <1>1, <1>2, <2>1, <2>2 DEF CursorBound
<1> QED BY <1>8, <1>10, <1>12, <1>13 DEF OnceInv

LEMMA OnceEndRows == ASSUME OnceNext, LogGrows, EndRows PROVE OnceInv'
<1> DEFINE h == poll.host
<1>0. RelayType /\ PollShape
  BY DEF OnceNext, RelayInv
<1>1. /\ poll'.at = "pass" /\ h \in Hosts /\ poll.at = "rows" /\ poll.next > poll.last
      /\ UNCHANGED <<saved, crashes, forwards, log>> /\ poll.last <= Len(log[h])
  BY <1>0, LeaveAt DEF EndRows, PollShape, ghostVars
<1>2. /\ cursors'[h] = poll.last /\ \A g \in Hosts : g # h => cursors'[g] = cursors[g]
  BY <1>0, <1>1 DEF EndRows, RelayType, CursorType
<1>3. cursors[h] <= poll.last
  BY <1>1 DEF OnceNext, OnceInv, CursorBound
<1>4. ForwardedOnce'
  BY <1>1 DEF OnceNext, OnceInv, ForwardedOnce
<1>5. ASSUME NEW g \in Hosts, NEW i \in 1 .. MaxLog, i > cursors'[g] PROVE forwards[<<g, i>>] <= crashes
  <2>1. CASE g # h
    BY <1>2, <1>5, <2>1 DEF OnceNext, OnceInv, UnreadUnsent, Unread
  <2>2. CASE g = h
    <3>1. i > poll.last /\ i \in Nat
      BY <1>2, <1>5, <2>2
    <3>2. i > cursors[h]
      BY <1>1, <1>3, <3>1, OnceType DEF OnceNext
    <3>3. \/ i >= poll.next
          \/ i < poll.next
      BY <3>1, OnceType DEF OnceNext
    <3>4. CASE i >= poll.next
      <4>1. ~(i < poll.next)
        BY <3>1, <3>4, OnceType DEF OnceNext
      <4> QED BY <1>1, <2>2, <3>2, <4>1 DEF OnceNext, OnceInv, UnreadUnsent, Unread
    <3>5. CASE i < poll.next
      <4>1. poll.next <= poll.last + 1 /\ poll.next \in Nat /\ poll.last \in Nat
        BY <1>1, OnceType DEF OnceNext, OnceInv, CursorBound
      <4> QED BY <3>1, <3>5, <4>1
    <3> QED BY <3>3, <3>4, <3>5
  <2> QED BY <2>1, <2>2
<1>6. UnreadUnsent'
  BY <1>1, <1>5 DEF UnreadUnsent, Unread
<1>7. BatchWhole' /\ CursorBound'
  BY <1>1, <1>2 DEF OnceNext, OnceInv, BatchWhole, CursorBound
<1> QED BY <1>4, <1>6, <1>7 DEF OnceInv

LEMMA OnceEndPoll == ASSUME OnceNext, LogGrows, EndPoll PROVE OnceInv'
<1>1. /\ poll.at = "pass" /\ poll'.at = "idle" /\ UNCHANGED <<cursors, crashes, forwards, log>>
      /\ saved' = cursors \/ saved' = saved
  BY PollEnds DEF EndPoll, ghostVars
<1>2. \A h \in Hosts : cursors'[h] <= Len(log'[h]) /\ saved'[h] <= Len(log'[h])
  BY <1>1 DEF OnceNext, OnceInv, CursorBound
<1>3. BatchWhole' /\ CursorBound'
  BY <1>1, <1>2 DEF BatchWhole, CursorBound
<1>4. UnreadUnsent' /\ ForwardedOnce'
  BY <1>1 DEF OnceNext, OnceInv, UnreadUnsent, Unread, ForwardedOnce
<1> QED BY <1>3, <1>4 DEF OnceInv

LEMMA OnceCrash == ASSUME OnceNext, LogGrows, Crash PROVE OnceInv'
<1>1. poll'.at = "idle" /\ UNCHANGED <<saved, forwards, log>> /\ cursors' = saved /\ crashes' = crashes + 1
  BY PollEnds DEF Crash
<1>2. BatchWhole' /\ CursorBound'
  BY <1>1 DEF BatchWhole, CursorBound, OnceNext, OnceInv
<1>3. \A x \in Place : forwards[x] <= crashes + 1 /\ forwards[x] <= 1 + (crashes + 1)
  BY OnceType DEF OnceNext, OnceInv, ForwardedOnce, RelayInv, RelayType, GhostType
<1>4. ForwardedOnce'
  BY <1>1, <1>3 DEF ForwardedOnce
<1>5. UnreadUnsent'
  BY <1>1, <1>3, OnceType DEF OnceNext, UnreadUnsent
<1> QED BY <1>2, <1>4, <1>5 DEF OnceInv

LEMMA OncePollStep == ASSUME OnceNext, LogGrows, PollStep PROVE OnceInv'
<1>0. RelayType /\ PollShape
  BY DEF OnceNext, RelayInv
<1>1. CASE StartPoll \/ PollHost \/ HostRefused \/ SinceFails
  <2>1. /\ poll.at # "rows" /\ poll'.at # "rows"
        /\ UNCHANGED <<cursors, saved>> /\ UNCHANGED <<forwards, crashes>>
    BY <1>0, <1>1, StartPollMoves, PollHostMoves, HostRefusedMoves, LeaveAt
       DEF StartPoll, PollHost, HostRefused, SinceFails, PollOf, ghostVars
  <2> QED BY <2>1, OnceStays
<1>2. CASE DestinationRefused
  <2>1. poll'.at # "rows" /\ UNCHANGED <<cursors, saved>> /\ UNCHANGED <<forwards, crashes>>
    BY <1>2, LeaveAt DEF DestinationRefused, Refused, ghostVars
  <2>2. Wanted # {}
    BY <1>2 DEF DestinationRefused
  <2> QED BY <2>1, <2>2, OnceStays
<1>3. CASE \E d \in Hosts : AdmitDestination(d)
  <2>1. /\ poll.at = "rows" /\ poll'.at = "rows" /\ poll'.host = poll.host
        /\ poll'.next = poll.next /\ poll'.last = poll.last /\ poll'.routes = poll.routes
        /\ poll.leased \subseteq poll'.leased
        /\ UNCHANGED <<cursors, saved>> /\ UNCHANGED <<forwards, crashes>>
    BY <1>0, <1>3, AdmitMoves DEF AdmitDestination, PollOf, ghostVars
  <2> QED BY <2>1, OnceStays
<1> QED BY <1>1, <1>2, <1>3, OnceSince, OnceProcessRow, OnceEndRows, OnceEndPoll DEF PollStep

LEMMA OnceStep == ASSUME OnceNext, [Next]_vars PROVE OnceInv'
<1>1. LogGrows
  BY GrowsStep DEF OnceNext
<1>2. CASE UNCHANGED <<poll, cursors, saved, seen, missed, forwards, crashes, history>>
  <2>1. UNCHANGED <<cursors, saved, forwards, crashes>> /\ poll' = poll
    BY <1>2
  <2>2. /\ poll'.at = poll.at /\ poll'.host = poll.host /\ poll'.next = poll.next
        /\ poll'.last = poll.last /\ poll'.routes = poll.routes /\ poll.leased \subseteq poll'.leased
    BY <2>1
  <2> QED BY <1>1, <2>1, <2>2, OnceStays
<1> QED BY <1>1, <1>2, OnceCrash, OncePollStep, OthersStay DEF Next

LEMMA OnceInit == Init => OnceInv
<1> SUFFICES ASSUME Init PROVE OnceInv
  OBVIOUS
<1>1. /\ \A h \in Hosts : cursors[h] = 0 /\ saved[h] = 0 /\ Len(log[h]) = 0
      /\ \A x \in Place : forwards[x] = 0
      /\ crashes = 0
  BY EmptySeq DEF Init
<1>2. poll.at = "idle"
  BY NoPollIsOf DEF Init, PollOf
<1>3. BatchWhole /\ CursorBound
  BY <1>1, <1>2 DEF BatchWhole, CursorBound
<1>4. UnreadUnsent /\ ForwardedOnce
  BY <1>1 DEF UnreadUnsent, ForwardedOnce, Place
<1> QED BY <1>3, <1>4 DEF OnceInv

\* A row is sent on at most once in the life of a process: a batch whose
\* destinations cannot all be admitted is left whole, and only a crash before
\* the cursors are saved sends a row again (pollHost's leases, Poll's persist).
THEOREM ForwardedOnceCorrect == Spec => []ForwardedOnce
<1>1. RelayInv /\ RelayInv' /\ OnceInv /\ [Next]_vars => OnceInv'
  BY OnceStep DEF OnceNext
<1>2. OnceInv => ForwardedOnce
  BY DEF OnceInv
<1> QED BY <1>1, <1>2, OnceInit, RelayInvariant, PTL DEF Spec

-----------------------------------------------------------------------------
(* panemux knows its own rows: what the ledger holds, and what is a copy.  *)

\* What is known of a row is of one that the store has.
RowsKept ==
  \A h \in Hosts : \A i \in 1 .. MaxLog :
    (<<h, i>> \in seen \/ <<h, i>> \in history \/ forwards[<<h, i>>] > 0) => i <= Len(log[h])

LedgerInv == RowsKept /\ LedgerBacked

\* While panes stay put, every route in use is the current one; the ledger
\* speaks of rows at home, and a copy is away from its author's home.
RoutesCurrent ==
  /\ poll.at = "rows" => poll.routes = owner
  /\ \A c \in Casts : Underway(c) => cast[c].routes = owner
  /\ \A key \in Keys : live[key] > 0 => owner[key[2]] = key[1]

CopiesAway ==
  \A h \in Hosts : \A i \in 1 .. Len(log[h]) : log[h][i].copy =>
    /\ log[h][i].from \in Panes /\ owner[log[h][i].from] # h
    /\ <<h, i>> \notin history /\ forwards[<<h, i>>] = 0

EchoInv == ~moved => RoutesCurrent /\ CopiesAway

LEMMA RowsKeptStays ==
  ASSUME RelayInv, RowsKept, LogGrows, seen' = seen, history' \subseteq history, forwards' = forwards
  PROVE  RowsKept'
<1>1. ASSUME NEW h \in Hosts, NEW i \in 1 .. MaxLog,
             <<h, i>> \in seen' \/ <<h, i>> \in history' \/ forwards'[<<h, i>>] > 0
      PROVE  i <= Len(log'[h])
  <2>1. i <= Len(log[h])
    BY <1>1 DEF RowsKept
  <2>2. Len(log[h]) \in Nat /\ Len(log'[h]) \in Nat /\ Len(log[h]) <= Len(log'[h]) /\ i \in Nat
    BY DEF LogGrows
  <2> QED BY <2>1, <2>2
<1> QED BY <1>1 DEF RowsKept

LEMMA RowsKeptProcess == ASSUME RelayInv, RowsKept, LogGrows, ProcessRow PROVE RowsKept'
<1> DEFINE h == poll.host  n == poll.next
<1>1. /\ poll.at = "rows" /\ h \in Hosts /\ n \in 1 .. Len(log[h]) /\ <<h, n>> \in Place
      /\ Len(log[h]) \in Nat
  BY CurrentType DEF ProcessRow, RelayInv
<1>2. seen' = seen \cup {<<h, n>>} /\ history' \subseteq history \cup {<<h, n>>}
  BY DEF ProcessRow
<1>3. \A x \in Place : x # <<h, n>> => forwards'[x] = forwards[x]
  BY DEF ProcessRow, RelayInv, RelayType, GhostType
<1> HIDE DEF h, n
<1>4. ASSUME NEW g \in Hosts, NEW i \in 1 .. MaxLog,
             <<g, i>> \in seen' \/ <<g, i>> \in history' \/ forwards'[<<g, i>>] > 0
      PROVE  i <= Len(log'[g])
  <2>1. Len(log[g]) \in Nat /\ Len(log'[g]) \in Nat /\ Len(log[g]) <= Len(log'[g]) /\ i \in Nat
    BY DEF LogGrows
  <2>2. CASE <<g, i>> = <<h, n>>
    BY <1>1, <2>1, <2>2
  <2>3. CASE <<g, i>> # <<h, n>>
    <3>1. <<g, i>> \in seen \/ <<g, i>> \in history \/ forwards[<<g, i>>] > 0
      BY <1>2, <1>3, <1>4, <2>3 DEF Place
    <3> QED BY <2>1, <3>1 DEF RowsKept
  <2> QED BY <2>2, <2>3
<1> QED BY <1>4 DEF RowsKept

LEMMA RowsKeptStep == ASSUME RelayInv, RowsKept, [Next]_vars PROVE RowsKept'
<1>0. LogGrows
  BY GrowsStep
<1>1. CASE PollStep /\ ~ProcessRow
  <2>1. UNCHANGED <<seen, history, forwards>>
    BY <1>1 DEF PollStep, StartPoll, PollHost, HostRefused, Since, SinceFails, DestinationRefused,
                EndRows, EndPoll, AdmitDestination, ghostVars
  <2> QED BY <1>0, <2>1, RowsKeptStays
<1>2. CASE Crash
  BY <1>0, <1>2, RowsKeptStays DEF Crash
<1>3. CASE UNCHANGED <<poll, cursors, saved, seen, missed, forwards, crashes, history>>
  BY <1>0, <1>3, RowsKeptStays
<1> QED BY <1>0, <1>1, <1>2, <1>3, RowsKeptProcess, OthersStay DEF Next

SendsBy(r, key) ==
  r.at \in {"sending", "failed"} /\ <<r.routes[Head(r.todo)], Head(r.todo), r.body>> = key

\* A broadcast that moves changes the count of its own sends only, by itself.
LEMMA SendingMoves ==
  ASSUME NEW c \in Casts, NEW r, CastMoves(c, r), NEW key
  PROVE  /\ Cardinality(Sending(key)) \in Nat /\ Cardinality(Sending(key)') \in Nat
         /\ (SendsBy(cast[c], key) => SendsBy(r, key))
              => Cardinality(Sending(key)') >= Cardinality(Sending(key))
         /\ (SendsBy(r, key) /\ ~SendsBy(cast[c], key))
              => Cardinality(Sending(key)') = Cardinality(Sending(key)) + 1
         /\ (~SendsBy(r, key) /\ SendsBy(cast[c], key))
              => Cardinality(Sending(key)') = Cardinality(Sending(key)) - 1
<1>1. /\ Sending(key) \in SUBSET Casts /\ \A d \in Casts : d \in Sending(key) <=> SendsBy(cast[d], key)
      /\ Sending(key)' \in SUBSET Casts /\ \A d \in Casts : d \in Sending(key)' <=> SendsBy(cast'[d], key)
  BY DEF Sending, SendsBy, CastKey, To
<1>2. (c \in Sending(key)' <=> SendsBy(r, key)) /\ (c \in Sending(key) <=> SendsBy(cast[c], key))
  BY <1>1 DEF CastMoves
<1>3. \A d \in Casts : d # c => (d \in Sending(key)' <=> d \in Sending(key))
  BY <1>1 DEF CastMoves
<1>4. /\ Cardinality(Sending(key)) \in Nat /\ Cardinality(Sending(key)') \in Nat
      /\ (c \in Sending(key)' <=> c \in Sending(key))
           => Cardinality(Sending(key)') = Cardinality(Sending(key))
      /\ (c \in Sending(key)' /\ c \notin Sending(key))
           => Cardinality(Sending(key)') = Cardinality(Sending(key)) + 1
      /\ (c \notin Sending(key)' /\ c \in Sending(key))
           => Cardinality(Sending(key)') = Cardinality(Sending(key)) - 1
  BY <1>1, <1>3, UsingCount
<1> HIDE DEF SendsBy
<1> QED BY <1>2, <1>4

LEMMA SendingStays ==
  ASSUME NEW key, UNCHANGED cast
  PROVE  Sending(key)' = Sending(key) /\ Cardinality(Sending(key)) \in Nat
<1>1. Sending(key)' = Sending(key)
  BY DEF Sending, CastKey, To
<1>2. Sending(key) \subseteq Casts
  BY DEF Sending
<1> QED BY <1>1, <1>2, FS_Subset, FS_CardinalityType, BoardRelayAssumption

LEMMA SentFinite ==
  ASSUME LogType, NEW key \in Keys
  PROVE  IsFiniteSet(SentRows(key)) /\ Cardinality(SentRows(key)) \in Nat
<1>1. key[1] \in Hosts
  BY DEF Keys
<1>2. log[key[1]] \in Seq(Row)
  BY <1>1 DEF LogType
<1>3. DOMAIN log[key[1]] = 1 .. Len(log[key[1]]) /\ Len(log[key[1]]) \in Nat
  BY <1>2, LenProperties
<1>4. IsFiniteSet(1 .. Len(log[key[1]]))
  BY <1>3, FS_Interval
<1>5. SentRows(key) \subseteq 1 .. Len(log[key[1]])
  BY <1>3 DEF SentRows
<1> QED BY <1>4, <1>5, FS_Subset, FS_CardinalityType

LEMMA SentFiniteNext ==
  ASSUME LogType', NEW key \in Keys
  PROVE  IsFiniteSet(SentRows(key)') /\ Cardinality(SentRows(key)') \in Nat
<1>1. log'[key[1]] \in Seq(Row)
  BY DEF Keys, LogType
<1>2. DOMAIN log'[key[1]] = 1 .. Len(log'[key[1]]) /\ Len(log'[key[1]]) \in Nat
  BY <1>1, LenProperties
<1>3. IsFiniteSet(1 .. Len(log'[key[1]]))
  BY <1>2, FS_Interval
<1>4. SentRows(key)' \subseteq 1 .. Len(log'[key[1]])
  BY <1>2 DEF SentRows
<1> QED BY <1>3, <1>4, FS_Subset, FS_CardinalityType

\* A row that was sent stays where it is, until it is read.
LEMMA SentStays ==
  ASSUME LogType, LogType', LogGrows, NEW key \in Keys, NEW i \in SentRows(key),
         <<key[1], i>> \notin seen'
  PROVE  i \in SentRows(key)'
<1>1. key[1] \in Hosts
  BY DEF Keys
<1>2. log[key[1]] \in Seq(Row) /\ log'[key[1]] \in Seq(Row)
  BY <1>1 DEF LogType
<1>3. /\ DOMAIN log[key[1]] = 1 .. Len(log[key[1]]) /\ Len(log[key[1]]) \in Nat
      /\ DOMAIN log'[key[1]] = 1 .. Len(log'[key[1]]) /\ Len(log'[key[1]]) \in Nat
  BY <1>2, LenProperties
<1>4. i \in 1 .. Len(log[key[1]])
  BY <1>3 DEF SentRows
<1>5. log'[key[1]][i] = log[key[1]][i] /\ i \in DOMAIN log'[key[1]]
  BY <1>1, <1>3, <1>4 DEF LogGrows
<1> QED BY <1>5 DEF SentRows, LedgerKey

LEMMA SentCount ==
  ASSUME LogType, LogType', LogGrows, NEW key \in Keys, seen' = seen
  PROVE  /\ Cardinality(SentRows(key)) \in Nat /\ Cardinality(SentRows(key)') \in Nat
         /\ Cardinality(SentRows(key)) <= Cardinality(SentRows(key)')
<1>1. SentRows(key) \subseteq SentRows(key)'
  BY SentStays DEF SentRows
<1>2. IsFiniteSet(SentRows(key)) /\ Cardinality(SentRows(key)) \in Nat
  BY SentFinite
<1>3. IsFiniteSet(SentRows(key)') /\ Cardinality(SentRows(key)') \in Nat
  BY SentFiniteNext
<1> QED BY <1>1, <1>2, <1>3, FS_Subset

\* The ledger's counts of one key: sends and rows that stay cover what stays.
LEMMA LedgerCovers ==
  ASSUME RelayInv, RelayInv', LogGrows, LedgerBacked, NEW key \in Keys, seen' = seen,
         live'[key] <= live[key],
         Cardinality(Sending(key)) \in Nat, Cardinality(Sending(key)') \in Nat,
         Cardinality(Sending(key)') >= Cardinality(Sending(key))
  PROVE  live'[key] <= Cardinality(SentRows(key)') + Cardinality(Sending(key)')
<1>1. live[key] \in Nat /\ live'[key] \in Nat /\ LogType /\ LogType'
  BY DEF RelayInv, RelayType
<1>2. /\ Cardinality(SentRows(key)) \in Nat /\ Cardinality(SentRows(key)') \in Nat
      /\ Cardinality(SentRows(key)) <= Cardinality(SentRows(key)')
  BY <1>1, SentCount
<1>3. live[key] <= Cardinality(SentRows(key)) + Cardinality(Sending(key))
  BY DEF LedgerBacked
<1> QED BY <1>1, <1>2, <1>3

LEMMA LedgerQuiet ==
  ASSUME RelayInv, RelayInv', LogGrows, LedgerBacked, seen' = seen, UNCHANGED cast,
         \A key \in Keys : live'[key] <= live[key]
  PROVE  LedgerBacked'
<1>1. ASSUME NEW key \in Keys
      PROVE  live'[key] <= Cardinality(SentRows(key)') + Cardinality(Sending(key)')
  <2>1. Cardinality(Sending(key)) \in Nat /\ Sending(key)' = Sending(key)
    BY SendingStays
  <2> QED BY <2>1, LedgerCovers
<1> QED BY <1>1 DEF LedgerBacked

\* A broadcast that moves, and neither gives up a send nor records one.
LEMMA LedgerCast ==
  ASSUME RelayInv, RelayInv', LogGrows, LedgerBacked, seen' = seen, UNCHANGED live,
         NEW c \in Casts, NEW r, CastMoves(c, r),
         \A key \in Keys : SendsBy(cast[c], key) => SendsBy(r, key)
  PROVE  LedgerBacked'
<1>1. ASSUME NEW key \in Keys
      PROVE  live'[key] <= Cardinality(SentRows(key)') + Cardinality(Sending(key)')
  <2>1. /\ Cardinality(Sending(key)) \in Nat /\ Cardinality(Sending(key)') \in Nat
        /\ Cardinality(Sending(key)') >= Cardinality(Sending(key))
    <3> HIDE DEF SendsBy
    <3> QED BY SendingMoves
  <2>2. live'[key] <= live[key]
    BY DEF RelayInv, RelayType
  <2> QED BY <2>1, <2>2, LedgerCovers
<1> QED BY <1>1 DEF LedgerBacked

LEMMA LedgerLease ==
  ASSUME RelayInv, RelayInv', LogGrows, LedgerBacked, NEW c \in Casts, CastLease(c)
  PROVE  LedgerBacked'
<1> DEFINE r == CastOf("sending", cast[c].todo, cast[c].body, cast[c].routes)
<1>0. PICK k \in Keys : k = CastKey(c)
  BY ToType DEF CastLease, Underway, RelayInv
<1>1. CastMoves(c, r) /\ cast[c].at = "next" /\ seen' = seen /\ live' = [live EXCEPT ![k] = @ + 1]
  BY <1>0, CastAtMoves DEF CastLease, CastAts, RelayInv, ghostVars
<1>2. \A key \in Keys : ~SendsBy(cast[c], key) /\ (key = k => SendsBy(r, key))
  BY <1>0, <1>1 DEF SendsBy, CastOf, CastKey, To
<1> HIDE DEF r
<1>3. ASSUME NEW key \in Keys
      PROVE  live'[key] <= Cardinality(SentRows(key)') + Cardinality(Sending(key)')
  <2>1. /\ Cardinality(Sending(key)) \in Nat /\ Cardinality(Sending(key)') \in Nat
        /\ Cardinality(Sending(key)') >= Cardinality(Sending(key))
        /\ key = k => Cardinality(Sending(key)') = Cardinality(Sending(key)) + 1
    BY <1>1, <1>2, SendingMoves
  <2>2. CASE key # k
    <3>1. live'[key] <= live[key]
      BY <1>1, <2>2 DEF RelayInv, RelayType
    <3> QED BY <1>1, <2>1, <3>1, LedgerCovers
  <2>3. CASE key = k
    <3>1. live'[key] = live[key] + 1 /\ live[key] \in Nat /\ LogType /\ LogType'
      BY <1>1, <2>3 DEF RelayInv, RelayType
    <3>2. /\ Cardinality(SentRows(key)) \in Nat /\ Cardinality(SentRows(key)') \in Nat
          /\ Cardinality(SentRows(key)) <= Cardinality(SentRows(key)')
      BY <1>1, <3>1, SentCount
    <3>3. live[key] <= Cardinality(SentRows(key)) + Cardinality(Sending(key))
      BY DEF LedgerBacked
    <3> QED BY <2>1, <2>3, <3>1, <3>2, <3>3
  <2> QED BY <2>2, <2>3
<1> QED BY <1>3 DEF LedgerBacked

\* The send has arrived: its row is one more that waits to be read.
LEMMA LedgerDelivers ==
  ASSUME RelayInv, RelayInv', RowsKept, LogGrows, LedgerBacked, NEW c \in Casts, CastDelivers(c)
  PROVE  LedgerBacked'
<1> DEFINE r == CastOf("delivered", cast[c].todo, cast[c].body, cast[c].routes)
<1>0. PICK k \in Keys : k = CastKey(c)
  BY ToType DEF CastDelivers, Underway, RelayInv
<1>1. CastMoves(c, r) /\ cast[c].at = "sending" /\ seen' = seen /\ live' = live
  BY CastAtMoves DEF CastDelivers, CastAts, RelayInv, ghostVars
<1>2. \A key \in Keys : ~SendsBy(r, key) /\ (SendsBy(cast[c], key) <=> key = k)
  BY <1>0, <1>1 DEF SendsBy, CastOf, CastKey, To
<1> HIDE DEF r
<1>3. PICK d \in Hosts : d = To(c)
  BY CastDeliversLog DEF RelayInv
<1>4. /\ CastRow(c) \in Row /\ CanTake(d) /\ log' = Takes(d, CastRow(c)) /\ LogType
  BY <1>3, CastDeliversLog DEF RelayInv, RelayType
<1>5. PICK n : n = Len(log[d]) + 1
  OBVIOUS
<1>6. Len(log'[d]) = n /\ log'[d][n] = CastRow(c) /\ LogType' /\ Len(log[d]) \in Nat
  BY <1>4, <1>5, TakesGrows DEF LogGrows
<1>7. n \in SentRows(k)' /\ n \notin SentRows(k)
  <2>1. k[1] = d /\ k = <<d, Head(cast[c].todo), cast[c].body>>
    BY <1>0, <1>3 DEF CastKey
  <2>2. log'[d] \in Seq(Row) /\ log[d] \in Seq(Row)
    BY <1>4, <1>6 DEF LogType
  <2>3. DOMAIN log'[d] = 1 .. n /\ DOMAIN log[d] = 1 .. Len(log[d]) /\ n \in Nat
    BY <1>5, <1>6, <2>2, LenProperties
  <2>4. <<d, n>> \notin seen
    <3>1. n <= MaxLog /\ MaxLog \in Nat
      BY <1>6, BoardRelayAssumption DEF LogType
    <3>2. n \in 1 .. MaxLog
      BY <1>5, <1>6, <3>1
    <3> QED BY <1>5, <1>6, <3>2 DEF RowsKept
  <2>5. log'[d][n].from = System /\ LedgerKey(d, log'[d][n]) = k
    BY <1>6, <2>1 DEF LedgerKey, CastRow
  <2>6. n \in SentRows(k)'
    <3>1. n \in DOMAIN log'[k[1]]
      BY <1>5, <1>6, <2>1, <2>3
    <3> QED BY <1>1, <2>1, <2>4, <2>5, <3>1 DEF SentRows, LedgerKey
  <2>7. n \notin SentRows(k)
    BY <1>5, <1>6, <2>1, <2>3 DEF SentRows
  <2> QED BY <2>6, <2>7
<1>8. Cardinality(SentRows(k)') >= Cardinality(SentRows(k)) + 1
  <2>1. SentRows(k) \cup {n} \subseteq SentRows(k)'
    BY <1>1, <1>4, <1>6, <1>7, SentStays DEF SentRows
  <2>2. IsFiniteSet(SentRows(k)) /\ Cardinality(SentRows(k)) \in Nat /\ IsFiniteSet(SentRows(k)')
    BY <1>1, <1>4, <1>6, SentFinite, SentFiniteNext
  <2>3. Cardinality(SentRows(k) \cup {n}) = Cardinality(SentRows(k)) + 1
    BY <1>7, <2>2, FS_AddElement
  <2>4. Cardinality(SentRows(k) \cup {n}) <= Cardinality(SentRows(k)')
    BY <2>1, <2>2, FS_Subset
  <2>5. Cardinality(SentRows(k)') \in Nat
    BY <2>2, FS_CardinalityType
  <2> QED BY <2>2, <2>3, <2>4, <2>5
<1>9. ASSUME NEW key \in Keys
      PROVE  live'[key] <= Cardinality(SentRows(key)') + Cardinality(Sending(key)')
  <2>1. /\ Cardinality(Sending(key)) \in Nat /\ Cardinality(Sending(key)') \in Nat
        /\ key # k => Cardinality(Sending(key)') >= Cardinality(Sending(key))
        /\ key = k => Cardinality(Sending(key)') = Cardinality(Sending(key)) - 1
    BY <1>1, <1>2, SendingMoves
  <2>2. live[key] \in Nat /\ live'[key] = live[key]
    BY <1>1 DEF RelayInv, RelayType
  <2>3. CASE key # k
    BY <1>1, <2>1, <2>2, <2>3, LedgerCovers
  <2>4. CASE key = k
    <3>1. Cardinality(SentRows(key)) \in Nat /\ Cardinality(SentRows(key)') \in Nat
      BY <1>1, <1>4, <1>6, SentCount
    <3>2. live[key] <= Cardinality(SentRows(key)) + Cardinality(Sending(key))
      BY DEF LedgerBacked
    <3> QED BY <1>8, <2>1, <2>2, <2>4, <3>1, <3>2
  <2> QED BY <2>3, <2>4
<1> QED BY <1>9 DEF LedgerBacked

LEMMA LedgerForget ==
  ASSUME RelayInv, RelayInv', LogGrows, LedgerBacked, NEW c \in Casts, CastForget(c)
  PROVE  LedgerBacked'
<1>0. PICK k \in Keys : k = CastKey(c)
  BY ToType DEF CastForget, Underway, RelayInv
<1>1. /\ CastMoves(c, CastDone) /\ CastDone.at = "done" /\ seen' = seen
      /\ live' = IF live[k] = 0 THEN live ELSE [live EXCEPT ![k] = @ - 1]
  BY <1>0, CastEndsMoves DEF CastForget, CastDone, CastOf, RelayInv, ghostVars, Forgotten
<1>2. \A key \in Keys : ~SendsBy(CastDone, key) /\ (SendsBy(cast[c], key) => key = k)
  BY <1>0, <1>1 DEF SendsBy, CastKey, To
<1>3. ASSUME NEW key \in Keys
      PROVE  live'[key] <= Cardinality(SentRows(key)') + Cardinality(Sending(key)')
  <2>1. /\ Cardinality(Sending(key)) \in Nat /\ Cardinality(Sending(key)') \in Nat
        /\ key # k => Cardinality(Sending(key)') >= Cardinality(Sending(key))
        /\ Cardinality(Sending(key)') >= Cardinality(Sending(key)) - 1
    <3> HIDE DEF SendsBy
    <3>1. /\ Cardinality(Sending(key)) \in Nat /\ Cardinality(Sending(key)') \in Nat
          /\ ~SendsBy(cast[c], key) => Cardinality(Sending(key)') >= Cardinality(Sending(key))
          /\ SendsBy(cast[c], key) => Cardinality(Sending(key)') = Cardinality(Sending(key)) - 1
      BY <1>1, <1>2, SendingMoves
    <3> QED BY <1>2, <3>1
  <2>2. live \in [Keys -> Nat]
    BY DEF RelayInv, RelayType
  <2>3. CASE key # k
    <3>1. live'[key] <= live[key]
      BY <1>1, <2>2, <2>3
    <3> QED BY <1>1, <2>1, <2>3, <3>1, LedgerCovers
  <2>4. CASE key = k
    <3>1. live[key] \in Nat /\ (live'[key] = 0 \/ live'[key] = live[key] - 1) /\ LogType /\ LogType'
      BY <1>1, <2>2, <2>4 DEF RelayInv, RelayType
    <3>2. /\ Cardinality(SentRows(key)) \in Nat /\ Cardinality(SentRows(key)') \in Nat
          /\ Cardinality(SentRows(key)) <= Cardinality(SentRows(key)')
      BY <1>1, <3>1, SentCount
    <3>3. live[key] <= Cardinality(SentRows(key)) + Cardinality(Sending(key))
      BY DEF LedgerBacked
    <3> QED BY <2>1, <3>1, <3>2, <3>3
  <2> QED BY <2>3, <2>4
<1> QED BY <1>3 DEF LedgerBacked

\* A row of panemux's own is read: an occurrence goes with it.
LEMMA LedgerProcess ==
  ASSUME RelayInv, RelayInv', LogGrows, LedgerBacked, ProcessRow
  PROVE  LedgerBacked'
<1>1. PICK h \in Hosts, row \in Row, n \in Nat : h = poll.host /\ n = poll.next /\ row = Current
  BY CurrentType DEF ProcessRow, RelayInv
<1>2. /\ seen' = seen \cup {<<h, n>>} /\ UNCHANGED cast /\ row = log[h][n]
      /\ live' = Consumed(h, row)
  BY <1>1 DEF ProcessRow, Current
<1>3. LogType /\ LogType' /\ live \in [Keys -> Nat]
  BY DEF RelayInv, RelayType
<1>4. ASSUME NEW key \in Keys
      PROVE  live'[key] <= Cardinality(SentRows(key)') + Cardinality(Sending(key)')
  <2>1. Cardinality(Sending(key)) \in Nat /\ Sending(key)' = Sending(key)
    BY <1>2, SendingStays
  <2>2. /\ IsFiniteSet(SentRows(key)) /\ Cardinality(SentRows(key)) \in Nat
        /\ IsFiniteSet(SentRows(key)') /\ Cardinality(SentRows(key)') \in Nat
    BY <1>3, SentFinite, SentFiniteNext
  <2>3. live[key] <= Cardinality(SentRows(key)) + Cardinality(Sending(key)) /\ live[key] \in Nat
    BY <1>3 DEF LedgerBacked
  <2>4. CASE row.from = System /\ LedgerKey(h, row) = key
    <3>1. key[2] \in Panes /\ row.to \in Panes
      BY <2>4 DEF Keys, LedgerKey
    <3>2. live'[key] = 0 \/ live'[key] = live[key] - 1
      BY <1>2, <1>3, <2>4, <3>1 DEF Consumed
    <3>3. SentRows(key) \ {n} \subseteq SentRows(key)'
      <4>1. ASSUME NEW i \in SentRows(key), i # n PROVE i \in SentRows(key)'
        <5>1. <<key[1], i>> \notin seen'
          BY <1>2, <4>1 DEF SentRows
        <5> QED BY <1>3, <5>1, SentStays
      <4> QED BY <4>1
    <3>4. /\ IsFiniteSet(SentRows(key) \ {n})
          /\ Cardinality(SentRows(key) \ {n}) >= Cardinality(SentRows(key)) - 1
      <4>1. CASE n \in SentRows(key)
        <5>1. IsFiniteSet(SentRows(key) \ {n})
              /\ Cardinality(SentRows(key) \ {n}) = Cardinality(SentRows(key)) - 1
          BY <2>2, <4>1, FS_RemoveElement
        <5> QED BY <2>2, <5>1
      <4>2. CASE n \notin SentRows(key)
        <5>1. SentRows(key) \ {n} = SentRows(key)
          BY <4>2
        <5> QED BY <2>2, <5>1
      <4> QED BY <4>1, <4>2
    <3>5. /\ Cardinality(SentRows(key) \ {n}) <= Cardinality(SentRows(key)')
          /\ Cardinality(SentRows(key) \ {n}) \in Nat
      BY <2>2, <3>3, <3>4, FS_Subset, FS_CardinalityType
    <3> QED BY <2>1, <2>2, <2>3, <3>2, <3>4, <3>5
  <2>5. CASE ~(row.from = System /\ LedgerKey(h, row) = key)
    <3>1. live'[key] = live[key]
      BY <1>2, <1>3, <2>5 DEF Consumed
    <3>2. SentRows(key) \subseteq SentRows(key)'
      <4>1. ASSUME NEW i \in SentRows(key) PROVE i \in SentRows(key)'
        <5>1. <<key[1], i>> # <<h, n>>
          BY <1>2, <2>5 DEF SentRows
        <5>2. <<key[1], i>> \notin seen'
          BY <1>2, <5>1 DEF SentRows
        <5> QED BY <1>3, <5>2, SentStays
      <4> QED BY <4>1
    <3>3. Cardinality(SentRows(key)) <= Cardinality(SentRows(key)')
      BY <2>2, <3>2, FS_Subset
    <3> QED BY <2>1, <2>2, <2>3, <3>1, <3>3
  <2> QED BY <2>4, <2>5
<1> QED BY <1>4 DEF LedgerBacked

LEMMA LedgerCastStep ==
  ASSUME RelayInv, RelayInv', RowsKept, LogGrows, LedgerBacked, NEW c \in Casts, CastStep(c)
  PROVE  LedgerBacked'
<1>0. RelayType /\ CastShape
  BY DEF RelayInv
<1>1. CASE CastRefused(c)
  <2>1. CastMoves(c, CastDone) /\ cast[c].at = "next" /\ seen' = seen /\ UNCHANGED live
    BY <1>0, <1>1, CastEndsMoves DEF CastRefused, ghostVars
  <2>2. \A key \in Keys : ~SendsBy(cast[c], key)
    BY <2>1 DEF SendsBy
  <2> QED BY <2>1, <2>2, LedgerCast
<1>2. CASE CastSent(c)
  <2>1. /\ CastMoves(c, CastDone) \/ CastMoves(c, CastOf("next", Tail(cast[c].todo), cast[c].body,
                                                         cast[c].routes))
        /\ cast[c].at = "delivered" /\ seen' = seen /\ UNCHANGED live
    BY <1>0, <1>2, CastSentMoves DEF CastSent, ghostVars
  <2>2. \A key \in Keys : ~SendsBy(cast[c], key)
    BY <2>1 DEF SendsBy
  <2> QED BY <2>1, <2>2, LedgerCast
<1>3. CASE CastFails(c)
  <2> DEFINE at == IF cast[c].at = "sending" THEN "failed" ELSE "failedDelivered"
             r == CastOf(at, cast[c].todo, cast[c].body, cast[c].routes)
  <2>1. CastMoves(c, r) /\ seen' = seen /\ UNCHANGED live
    BY <1>0, <1>3, CastAtMoves DEF CastFails, CastAts, ghostVars
  <2>2. \A key \in Keys : SendsBy(cast[c], key) => SendsBy(r, key)
    BY <1>3 DEF SendsBy, CastFails, CastOf
  <2> HIDE DEF r
  <2> QED BY <2>1, <2>2, LedgerCast
<1> QED BY <1>1, <1>2, <1>3, LedgerLease, LedgerDelivers, LedgerForget DEF CastStep

LEMMA LedgerStep ==
  ASSUME RelayInv, RelayInv', LedgerInv, [Next]_vars
  PROVE  LedgerInv'
<1>0. LogGrows /\ RowsKept /\ LedgerBacked /\ RowsKept'
  BY GrowsStep, RowsKeptStep DEF LedgerInv
<1>a. live \in [Keys -> Nat] /\ \A key \in Keys : live[key] <= live[key]
  BY DEF RelayInv, RelayType
<1>1. CASE PollStep /\ ~ProcessRow
  <2>1. UNCHANGED <<seen, cast, live>>
    BY <1>1 DEF PollStep, StartPoll, PollHost, HostRefused, Since, SinceFails, DestinationRefused,
                EndRows, EndPoll, AdmitDestination, ghostVars
  <2> QED BY <1>0, <1>a, <2>1, LedgerQuiet DEF LedgerInv
<1>2. ASSUME NEW c \in Casts, NEW todo \in Targets, NEW b \in Bodies, Broadcast(c, todo, b)
      PROVE  LedgerBacked'
  <2>1. /\ CastMoves(c, CastOf("next", todo, b, owner)) /\ cast[c].at = "idle"
        /\ seen' = seen /\ UNCHANGED live
    BY <1>2, BroadcastMoves DEF Broadcast, RelayInv, ghostVars
  <2>2. \A key \in Keys : ~SendsBy(cast[c], key)
    BY <2>1 DEF SendsBy
  <2> QED BY <1>0, <2>1, <2>2, LedgerCast
<1>3. ASSUME NEW k \in Keys, Expire(k) PROVE LedgerBacked'
  <2>1. live' = [live EXCEPT ![k] = @ - 1] /\ UNCHANGED <<seen, cast>>
    BY <1>3 DEF Expire, ghostVars
  <2>2. \A key \in Keys : live'[key] <= live[key]
    BY <1>a, <2>1
  <2> QED BY <1>0, <2>1, <2>2, LedgerQuiet
<1>4. CASE \/ \E w \in Writes, b \in Bodies : Post(w[1], w[2], b)
           \/ \E p \in Panes, h \in Hosts \cup {NoHost} : Reroute(p, h)
           \/ \E u \in Updates : Update(u)
           \/ UNCHANGED vars
  <2>1. UNCHANGED <<seen, cast, live>>
    BY <1>4 DEF Post, Reroute, Update, vars, ghostVars
  <2> QED BY <1>0, <1>a, <2>1, LedgerQuiet DEF LedgerInv
<1>5. ASSUME Crash PROVE LedgerBacked'
  <2>1. ASSUME NEW key \in Keys
        PROVE  live'[key] <= Cardinality(SentRows(key)') + Cardinality(Sending(key)')
    <3>1. live'[key] = 0 /\ LogType'
      BY <1>5 DEF Crash, RelayInv, RelayType
    <3>2. Cardinality(SentRows(key)') \in Nat
      BY <3>1, SentFiniteNext
    <3>3. Sending(key)' \in SUBSET Casts
      BY DEF Sending
    <3>4. Cardinality(Sending(key)') \in Nat
      BY <3>3, FS_Subset, FS_CardinalityType, BoardRelayAssumption
    <3> QED BY <3>1, <3>2, <3>4
  <2> QED BY <2>1 DEF LedgerBacked
<1>6. LedgerBacked'
  BY <1>0, <1>1, <1>2, <1>3, <1>4, <1>5, LedgerProcess, LedgerCastStep DEF Next, LedgerInv
<1> QED BY <1>0, <1>6 DEF LedgerInv

LEMMA LedgerInit == Init => LedgerInv
<1> SUFFICES ASSUME Init PROVE LedgerInv
  OBVIOUS
<1>1. RowsKept
  BY DEF Init, RowsKept, Place
<1>2. ASSUME NEW key \in Keys
      PROVE  live[key] <= Cardinality(SentRows(key)) + Cardinality(Sending(key))
  <2>1. live[key] = 0 /\ LogType
    BY RelayInvInit DEF Init, RelayInv, RelayType
  <2>2. Cardinality(SentRows(key)) \in Nat
    BY <2>1, SentFinite
  <2>3. Sending(key) \in SUBSET Casts
    BY DEF Sending
  <2>4. Cardinality(Sending(key)) \in Nat
    BY <2>3, FS_Subset, FS_CardinalityType, BoardRelayAssumption
  <2> QED BY <2>1, <2>2, <2>4
<1> QED BY <1>1, <1>2 DEF LedgerInv, LedgerBacked

LEMMA LedgerAlways == Spec => []LedgerInv
<1>1. RelayInv /\ RelayInv' /\ LedgerInv /\ [Next]_vars => LedgerInv'
  BY LedgerStep
<1> QED BY <1>1, LedgerInit, RelayInvariant, PTL DEF Spec

-----------------------------------------------------------------------------
(* Copies.                                                                 *)
LEMMA LedgerAtHome ==
  ASSUME RelayInv, RoutesCurrent, NEW c \in Casts, Underway(c)
  PROVE  owner[CastKey(c)[2]] = CastKey(c)[1]
BY DEF RoutesCurrent, CastKey, To

LEMMA CopiesStay ==
  ASSUME RelayInv, CopiesAway, UNCHANGED <<log, owner>>, history' \subseteq history,
         forwards' = forwards
  PROVE  CopiesAway'
BY DEF CopiesAway

\* A row that is no copy is added: it is not known yet, and copies stay as they were.
LEMMA CopiesGrow ==
  ASSUME RelayInv, CopiesAway, RowsKept, NEW d \in Hosts, NEW row \in Row, CanTake(d),
         log' = Takes(d, row), UNCHANGED owner,
         row.copy => row.from \in Panes /\ owner[row.from] # d,
         \A h \in Hosts : \A i \in 1 .. Len(log[h]) : log[h][i].copy =>
           <<h, i>> \notin history' /\ forwards'[<<h, i>>] = 0,
         <<d, Len(log[d]) + 1>> \notin history' /\ ~(forwards'[<<d, Len(log[d]) + 1>>] > 0),
         forwards' \in [Place -> Nat]
  PROVE  CopiesAway'
<1>1. /\ LogType' /\ LogGrows /\ Len(log'[d]) = Len(log[d]) + 1 /\ log'[d][Len(log[d]) + 1] = row
      /\ \A g \in Hosts : g # d => log'[g] = log[g]
  BY TakesGrows DEF RelayInv, RelayType
<1>2. ASSUME NEW h \in Hosts, NEW i \in 1 .. Len(log'[h]), log'[h][i].copy
      PROVE  /\ log'[h][i].from \in Panes /\ owner'[log'[h][i].from] # h
             /\ <<h, i>> \notin history' /\ forwards'[<<h, i>>] = 0
  <2>1. Len(log[h]) \in Nat /\ Len(log'[h]) \in Nat /\ i \in Nat
    BY <1>1 DEF LogGrows
  <2>2. CASE i \in 1 .. Len(log[h])
    <3>1. log'[h][i] = log[h][i]
      BY <1>1, <2>2 DEF LogGrows
    <3> QED BY <1>2, <2>2, <3>1 DEF CopiesAway
  <2>3. CASE i \notin 1 .. Len(log[h])
    <3>1. h = d /\ i = Len(log[d]) + 1
      BY <1>1, <2>1, <2>3
    <3>2. <<h, i>> \in Place
      <4>1. Len(log'[h]) <= MaxLog /\ MaxLog \in Nat
        BY <1>1, BoardRelayAssumption DEF LogType
      <4> QED BY <2>1, <4>1 DEF Place
    <3>3. forwards'[<<h, i>>] = 0
      BY <3>1, <3>2
    <3> QED BY <1>1, <1>2, <3>1, <3>3
  <2> QED BY <2>2, <2>3
<1> QED BY <1>2 DEF CopiesAway

LEMMA RoutesPoll ==
  ASSUME RelayInv, RoutesCurrent, owner' = owner, [Next]_vars
  PROVE  poll'.at = "rows" => poll'.routes = owner
<1>0. RelayType /\ PollShape
  BY DEF RelayInv
<1>1. CASE StartPoll \/ PollHost \/ HostRefused \/ SinceFails \/ DestinationRefused \/ EndRows
           \/ EndPoll \/ Crash
  <2>1. poll'.at # "rows"
    BY <1>0, <1>1, StartPollMoves, PollHostMoves, HostRefusedMoves, LeaveAt, PollEnds
       DEF StartPoll, PollHost, HostRefused, SinceFails, DestinationRefused, Refused, EndRows, EndPoll,
           Crash, PollOf
  <2> QED BY <2>1
<1>2. CASE Since
  <2>1. CASE Ready(poll.host) # "present"
    BY <1>2, <2>1, LeaveAt DEF Since
  <2>2. CASE Ready(poll.host) = "present"
    BY <1>0, <1>2, <2>2 DEF Since, RelayType, Polls
  <2> QED BY <2>1, <2>2
<1>3. CASE ProcessRow \/ \E d \in Hosts : AdmitDestination(d)
  <2>1. poll.at = "rows" /\ poll'.routes = poll.routes
    BY <1>0, <1>3, ProcessRowMoves, AdmitMoves DEF ProcessRow, AdmitDestination, PollOf
  <2> QED BY <2>1 DEF RoutesCurrent
<1>4. CASE UNCHANGED poll
  BY <1>4 DEF RoutesCurrent
<1> QED BY <1>1, <1>2, <1>3, <1>4, OthersStay DEF Next, PollStep

LEMMA RoutesCastMoves ==
  ASSUME RoutesCurrent, owner' = owner, NEW c \in Casts, NEW r, CastMoves(c, r),
         r.at \notin {"idle", "done"} => r.routes = owner
  PROVE  \A d \in Casts : Underway(d)' => cast'[d].routes = owner
<1>1. ASSUME NEW d \in Casts, Underway(d)' PROVE cast'[d].routes = owner
  <2>1. CASE d = c
    BY <1>1, <2>1 DEF CastMoves, Underway
  <2>2. CASE d # c
    BY <1>1, <2>2 DEF CastMoves, Underway, RoutesCurrent
  <2> QED BY <2>1, <2>2
<1> QED BY <1>1

LEMMA RoutesCast ==
  ASSUME RelayInv, RoutesCurrent, owner' = owner, [Next]_vars
  PROVE  \A d \in Casts : Underway(d)' => cast'[d].routes = owner
<1>0. RelayType /\ CastShape
  BY DEF RelayInv
<1>1. ASSUME NEW c \in Casts, CastRefused(c) \/ CastForget(c) \/ CastSent(c)
      PROVE  \A d \in Casts : Underway(d)' => cast'[d].routes = owner
  <2>1. Underway(c) /\ CastDone.at = "done"
    BY <1>1 DEF CastRefused, CastForget, CastSent, Underway, CastDone, CastOf
  <2>2. \/ CastMoves(c, CastDone)
        \/ CastMoves(c, CastOf("next", Tail(cast[c].todo), cast[c].body, cast[c].routes))
    BY <1>0, <1>1, CastEndsMoves, CastSentMoves DEF CastRefused, CastForget
  <2> QED BY <2>1, <2>2, RoutesCastMoves DEF CastOf, RoutesCurrent
<1>2. ASSUME NEW c \in Casts, CastLease(c) \/ CastDelivers(c) \/ CastFails(c)
      PROVE  \A d \in Casts : Underway(d)' => cast'[d].routes = owner
  <2>1. PICK at \in CastAts : CastAt(c, at)
    BY <1>2 DEF CastLease, CastDelivers, CastFails, CastAts
  <2>2. CastMoves(c, CastOf(at, cast[c].todo, cast[c].body, cast[c].routes)) /\ Underway(c)
    BY <1>0, <1>2, <2>1, CastAtMoves DEF CastLease, CastDelivers, CastFails, Underway
  <2> QED BY <2>2, RoutesCastMoves DEF CastOf, RoutesCurrent
<1>3. ASSUME NEW c \in Casts, NEW todo \in Targets, NEW b \in Bodies, Broadcast(c, todo, b)
      PROVE  \A d \in Casts : Underway(d)' => cast'[d].routes = owner
  <2>1. CastMoves(c, CastOf("next", todo, b, owner))
    BY <1>0, <1>3, BroadcastMoves
  <2> QED BY <2>1, RoutesCastMoves DEF CastOf
<1>4. CASE Crash
  <2>1. \A d \in Casts : cast'[d].at \in {"idle", "done"}
    BY <1>4, CastDoneIs DEF Crash, NoCast, CastDone, CastOf
  <2> QED BY <2>1 DEF Underway
<1>5. CASE UNCHANGED cast
  BY <1>5 DEF RoutesCurrent, Underway
<1>6. CASE PollStep
  <2>1. UNCHANGED cast
    BY <1>6 DEF PollStep, StartPoll, PollHost, HostRefused, Since, SinceFails, DestinationRefused,
                ProcessRow, EndRows, EndPoll, AdmitDestination
  <2> QED BY <1>5, <2>1
<1>7. CASE \/ \E key \in Keys : Expire(key)
           \/ \E w \in Writes, b \in Bodies : Post(w[1], w[2], b)
           \/ \E p \in Panes, h \in Hosts \cup {NoHost} : Reroute(p, h)
           \/ \E u \in Updates : Update(u)
           \/ UNCHANGED vars
  <2>1. UNCHANGED cast
    BY <1>7 DEF Expire, Post, Reroute, Update, vars
  <2> QED BY <1>5, <2>1
<1> QED BY <1>1, <1>2, <1>3, <1>4, <1>6, <1>7 DEF Next, CastStep

LEMMA LedgerAtHomeStep ==
  ASSUME RelayInv, RelayInv', RoutesCurrent, owner' = owner, [Next]_vars
  PROVE  \A key \in Keys : live'[key] > 0 => owner[key[2]] = key[1]
<1>0. live \in [Keys -> Nat] /\ RelayType
  BY DEF RelayInv, RelayType
<1>a. ASSUME \A key \in Keys : live'[key] > 0 => live[key] > 0
      PROVE  \A key \in Keys : live'[key] > 0 => owner[key[2]] = key[1]
  BY <1>a DEF RoutesCurrent
<1>1. ASSUME NEW c \in Casts, CastLease(c)
      PROVE  \A key \in Keys : live'[key] > 0 => owner[key[2]] = key[1]
  <2>1. PICK k \in Keys : k = CastKey(c)
    BY <1>1, ToType DEF CastLease, Underway, RelayInv
  <2>2. owner[k[2]] = k[1]
    BY <1>1, <2>1, LedgerAtHome DEF CastLease, Underway
  <2>3. live' = [live EXCEPT ![k] = @ + 1]
    BY <1>1, <2>1 DEF CastLease
  <2>4. \A key \in Keys : key # k => live'[key] = live[key]
    BY <1>0, <2>3
  <2> QED BY <2>2, <2>4 DEF RoutesCurrent
<1>2. ASSUME NEW c \in Casts, CastForget(c)
      PROVE  \A key \in Keys : live'[key] > 0 => live[key] > 0
  <2>1. PICK k \in Keys : k = CastKey(c)
    BY <1>2, ToType DEF CastForget, Underway, RelayInv
  <2>2. live' = IF live[k] = 0 THEN live ELSE [live EXCEPT ![k] = @ - 1]
    BY <1>2, <2>1 DEF CastForget, Forgotten
  <2> QED BY <1>0, <2>2
<1>3. ASSUME NEW k \in Keys, Expire(k)
      PROVE  \A key \in Keys : live'[key] > 0 => live[key] > 0
  BY <1>0, <1>3 DEF Expire
<1>4. ASSUME ProcessRow PROVE \A key \in Keys : live'[key] > 0 => live[key] > 0
  BY <1>0, <1>4 DEF ProcessRow, Consumed
<1>5. ASSUME Crash PROVE \A key \in Keys : live'[key] > 0 => live[key] > 0
  BY <1>5 DEF Crash
<1>6. ASSUME \/ PollStep /\ ~ProcessRow
             \/ \E c \in Casts : CastStep(c) /\ ~CastLease(c) /\ ~CastForget(c)
             \/ \E c \in Casts, todo \in Targets, b \in Bodies : Broadcast(c, todo, b)
             \/ \E w \in Writes, b \in Bodies : Post(w[1], w[2], b)
             \/ \E p \in Panes, h \in Hosts \cup {NoHost} : Reroute(p, h)
             \/ \E u \in Updates : Update(u)
             \/ UNCHANGED vars
      PROVE  \A key \in Keys : live'[key] > 0 => live[key] > 0
  <2>1. UNCHANGED live
    BY <1>6 DEF PollStep, StartPoll, PollHost, HostRefused, Since, SinceFails, DestinationRefused,
                EndRows, EndPoll, AdmitDestination, CastStep, CastRefused, CastDelivers, CastSent,
                CastFails, Broadcast, Post, Reroute, Update, vars
  <2> QED BY <2>1
<1> QED BY <1>a, <1>1, <1>2, <1>3, <1>4, <1>5, <1>6 DEF Next

\* What a row that is processed becomes, while panes stay put: a copy is
\* neither kept nor sent, and only what a pane wrote is sent on, away from it.
LEMMA CopiesProcess ==
  ASSUME RelayInv, RelayInv', RowsKept, RoutesCurrent, CopiesAway, ProcessRow
  PROVE  CopiesAway'
<1>1. PICK h \in Hosts, row \in Row, n \in Nat :
        /\ h = poll.host /\ n = poll.next /\ row = Current /\ row = log[h][n]
        /\ n \in 1 .. Len(log[h]) /\ <<h, n>> \in Place
  BY CurrentType DEF ProcessRow, RelayInv, Current
<1>2. /\ UNCHANGED owner /\ poll.routes = owner /\ poll.at = "rows" /\ poll.next <= poll.last
      /\ history' = IF Accepted(h, row) THEN history \cup {<<h, n>>} ELSE history
  BY <1>1 DEF ProcessRow, RoutesCurrent
<1>3. /\ forwards \in [Place -> Nat] /\ forwards' \in [Place -> Nat]
  BY DEF RelayInv, RelayType, GhostType
<1>4. CASE row.copy
  <2>1. row.from \in Panes /\ owner[row.from] # h
    BY <1>1, <1>4 DEF CopiesAway
  <2>2. ~Accepted(h, row)
    BY <2>1, BoardRelayAssumption DEF Accepted, ValidFrom
  <2>3. ~Forwarded(h, row)
    BY <2>2 DEF Forwarded
  <2>4. UNCHANGED <<log, forwards>>
    BY <1>1, <2>3 DEF ProcessRow
  <2> QED BY <1>2, <2>2, <2>4, CopiesStay
<1>5. CASE ~row.copy
  <2>1. /\ \A x \in Place : x # <<h, n>> => forwards'[x] = forwards[x]
        /\ ~Forwarded(h, row) => UNCHANGED <<log, forwards>>
    BY <1>1, <1>3 DEF ProcessRow
  <2>2. \A g \in Hosts : \A i \in 1 .. Len(log[g]) : log[g][i].copy =>
           <<g, i>> \notin history' /\ forwards'[<<g, i>>] = 0
    <3>1. ASSUME NEW g \in Hosts, NEW i \in 1 .. Len(log[g]), log[g][i].copy
          PROVE  <<g, i>> \notin history' /\ forwards'[<<g, i>>] = 0
      <4>1. <<g, i>> # <<h, n>> /\ <<g, i>> \notin history /\ forwards[<<g, i>>] = 0
        BY <1>1, <1>5, <3>1 DEF CopiesAway
      <4>2. <<g, i>> \in Place
        <5>1. Len(log[g]) <= MaxLog /\ Len(log[g]) \in Nat /\ MaxLog \in Nat
          BY LogStays, BoardRelayAssumption, LenProperties DEF RelayInv, RelayType, LogType
        <5> QED BY <5>1 DEF Place
      <4> QED BY <1>2, <2>1, <4>1, <4>2
    <3> QED BY <3>1
  <2>3. CASE UNCHANGED log
    BY <1>2, <2>2, <2>3 DEF CopiesAway
  <2>4. CASE Forwarded(h, row) /\ ~UNCHANGED log
    <3>a. RelayType /\ PollShape /\ Forwarded(poll.host, Current)
      BY <1>1, <2>4 DEF RelayInv
    <3>1. PICK d \in Hosts : d = poll.routes[row.to]
      BY <1>1, <1>2, <3>a, ForwardedTo
    <3>2. /\ row.to \in Panes /\ d # h /\ [row EXCEPT !.copy = TRUE] \in Row
      BY <1>1, <1>2, <3>a, <3>1, ForwardedTo
    <3>3. Send(d, row)
      BY <1>1, <2>4, <3>1 DEF ProcessRow
    <3>4. CanTake(d) /\ log' = Takes(d, [row EXCEPT !.copy = TRUE])
      BY <2>4, <3>3 DEF Send, Reaches
    <3>5. row.from \in Panes /\ owner[row.from] = h
      <4>1. ValidFrom(h, row)
        BY <2>4 DEF Forwarded, Accepted
      <4>2. CASE row.from = System
        <5>1. LedgerKey(h, row) \in Keys /\ live[LedgerKey(h, row)] > 0
          BY <3>2, <4>1, <4>2, KeyOfRow DEF ValidFrom
        <5>2. owner[row.to] = h
          BY <5>1 DEF RoutesCurrent, LedgerKey
        <5> QED BY <1>2, <3>1, <3>2, <5>2
      <4>3. CASE row.from # System
        BY <4>1, <4>3 DEF ValidFrom, Row
      <4> QED BY <4>2, <4>3
    <3>6. [row EXCEPT !.copy = TRUE].from = row.from
      BY DEF Row
    <3>7. PICK m : m = Len(log[d]) + 1
      OBVIOUS
    <3>8. <<d, m>> \notin history' /\ ~(forwards'[<<d, m>>] > 0)
      <4>1. Len(log[d]) \in Nat /\ Len(log[d]) < MaxLog /\ MaxLog \in Nat
        BY <3>4, BoardRelayAssumption, LenProperties DEF CanTake, RelayInv, RelayType, LogType
      <4>2. m \in 1 .. MaxLog /\ ~(m <= Len(log[d]))
        BY <3>7, <4>1
      <4>3. <<d, m>> \notin history /\ ~(forwards[<<d, m>>] > 0) /\ <<d, m>> \in Place
        BY <4>2 DEF RowsKept, Place
      <4> QED BY <1>2, <2>1, <3>2, <4>3
    <3> QED BY <1>2, <1>3, <2>2, <3>2, <3>4, <3>5, <3>6, <3>7, <3>8, CopiesGrow
  <2> QED BY <2>1, <2>3, <2>4
<1> QED BY <1>4, <1>5

LEMMA CopiesStep ==
  ASSUME RelayInv, RelayInv', RowsKept, RoutesCurrent, CopiesAway, owner' = owner, [Next]_vars
  PROVE  CopiesAway'
<1>a. ASSUME NEW d \in Hosts, NEW row \in Row, CanTake(d), log' = Takes(d, row), ~row.copy,
             UNCHANGED <<history, forwards>>
      PROVE  CopiesAway'
  <2>1. Len(log[d]) \in Nat /\ Len(log[d]) < MaxLog /\ MaxLog \in Nat
    BY <1>a, BoardRelayAssumption, LenProperties DEF CanTake, RelayInv, RelayType, LogType
  <2>2. Len(log[d]) + 1 \in 1 .. MaxLog /\ ~(Len(log[d]) + 1 <= Len(log[d]))
    BY <2>1
  <2>3. <<d, Len(log[d]) + 1>> \notin history' /\ ~(forwards'[<<d, Len(log[d]) + 1>>] > 0)
    BY <1>a, <2>2 DEF RowsKept
  <2>4. forwards' \in [Place -> Nat]
    BY DEF RelayInv, RelayType, GhostType
  <2>5. \A g \in Hosts : \A i \in 1 .. Len(log[g]) : log[g][i].copy =>
           <<g, i>> \notin history' /\ forwards'[<<g, i>>] = 0
    BY <1>a DEF CopiesAway
  <2> QED BY <1>a, <2>3, <2>4, <2>5, CopiesGrow
<1>1. ASSUME NEW c \in Casts, CastDelivers(c) PROVE CopiesAway'
  <2>1. /\ To(c) \in Hosts /\ CastRow(c) \in Row /\ CanTake(To(c)) /\ log' = Takes(To(c), CastRow(c))
        /\ ~CastRow(c).copy
    BY <1>1, CastDeliversLog DEF RelayInv, CastRow
  <2>2. UNCHANGED <<history, forwards>>
    BY <1>1 DEF CastDelivers, ghostVars
  <2> QED BY <1>a, <2>1, <2>2
<1>2. ASSUME NEW w \in Writes, NEW b \in Bodies, Post(w[1], w[2], b) PROVE CopiesAway'
  <2>1. UNCHANGED <<history, forwards>>
    BY <1>2 DEF Post, ghostVars
  <2> QED BY <1>a, <1>2, <2>1, PostLog DEF RelayInv
<1>3. CASE PollStep /\ ~ProcessRow
  <2>1. UNCHANGED <<log, history, forwards>>
    BY <1>3 DEF PollStep, StartPoll, PollHost, HostRefused, Since, SinceFails, DestinationRefused,
                EndRows, EndPoll, AdmitDestination, ghostVars
  <2> QED BY <2>1, CopiesStay
<1>4. CASE \/ \E c \in Casts : CastStep(c) /\ ~CastDelivers(c)
           \/ \E c \in Casts, todo \in Targets, b \in Bodies : Broadcast(c, todo, b)
           \/ \E key \in Keys : Expire(key)
           \/ \E p \in Panes, h \in Hosts \cup {NoHost} : Reroute(p, h)
           \/ \E u \in Updates : Update(u)
           \/ Crash \/ UNCHANGED vars
  <2>1. UNCHANGED <<log, forwards>> /\ history' \subseteq history
    BY <1>4 DEF CastStep, CastLease, CastRefused, CastSent, CastFails, CastForget, Broadcast, Expire,
                Reroute, Update, Crash, vars, ghostVars
  <2> QED BY <2>1, CopiesStay
<1> QED BY <1>1, <1>2, <1>3, <1>4, CopiesProcess DEF Next

\* Only a pane that moves changes who lives where.
LEMMA HomesStay ==
  ASSUME RelayInv, [Next]_vars, ~moved' PROVE ~moved /\ owner' = owner
<1>1. CASE \E p \in Panes, h \in Hosts \cup {NoHost} : Reroute(p, h)
  BY <1>1 DEF Reroute
<1>2. CASE Crash
  BY <1>2 DEF Crash
<1>3. CASE PollStep
  <2>1. CASE \/ StartPoll \/ PollHost \/ HostRefused \/ SinceFails
             \/ \E d \in Hosts : AdmitDestination(d)
    <3>1. UNCHANGED <<owner, ghostVars>>
      BY <2>1 DEF StartPoll, PollHost, HostRefused, SinceFails, AdmitDestination
    <3> QED BY <3>1 DEF ghostVars
  <2>2. CASE Since
    BY <2>2 DEF Since
  <2>3. CASE DestinationRefused
    BY <2>3 DEF DestinationRefused, ghostVars
  <2>4. CASE ProcessRow
    BY <2>4 DEF ProcessRow
  <2>5. CASE EndRows \/ EndPoll
    BY <2>5 DEF EndRows, EndPoll, ghostVars
  <2> QED BY <1>3, <2>1, <2>2, <2>3, <2>4, <2>5 DEF PollStep
<1>4. ASSUME NEW c \in Casts, CastStep(c) PROVE ~moved /\ owner' = owner
  BY <1>4 DEF CastStep, CastLease, CastRefused, CastDelivers, CastSent, CastFails, CastForget, ghostVars
<1>5. ASSUME NEW u \in Updates, Update(u) PROVE ~moved /\ owner' = owner
  <2>1. UNCHANGED <<owner, ghostVars>>
    BY <1>5 DEF Update
  <2> QED BY <2>1 DEF ghostVars
<1>6. CASE \/ \E c \in Casts : \E todo \in Targets, b \in Bodies : Broadcast(c, todo, b)
           \/ \E key \in Keys : Expire(key)
           \/ \E w \in Writes, b \in Bodies : Post(w[1], w[2], b)
  <2>1. UNCHANGED <<owner, ghostVars>>
    BY <1>6 DEF Broadcast, Expire, Post
  <2> QED BY <2>1 DEF ghostVars
<1>7. CASE UNCHANGED vars
  BY <1>7 DEF vars, ghostVars
<1> QED BY <1>1, <1>2, <1>3, <1>4, <1>5, <1>6, <1>7 DEF Next

LEMMA EchoStep ==
  ASSUME RelayInv, RelayInv', LedgerInv, EchoInv, [Next]_vars PROVE EchoInv'
<1> SUFFICES ASSUME ~moved' PROVE RoutesCurrent' /\ CopiesAway'
  BY DEF EchoInv
<1>1. owner' = owner /\ RoutesCurrent /\ CopiesAway /\ RowsKept
  BY HomesStay DEF EchoInv, LedgerInv
<1>2. poll'.at = "rows" => poll'.routes = owner
  BY <1>1, RoutesPoll
<1>3. \A d \in Casts : Underway(d)' => cast'[d].routes = owner
  BY <1>1, RoutesCast
<1>4. \A key \in Keys : live'[key] > 0 => owner[key[2]] = key[1]
  BY <1>1, LedgerAtHomeStep
<1>5. RoutesCurrent'
  BY <1>1, <1>2, <1>3, <1>4 DEF RoutesCurrent
<1>6. CopiesAway'
  BY <1>1, CopiesStep
<1> QED BY <1>5, <1>6

LEMMA EchoInit == Init => EchoInv
<1> SUFFICES ASSUME Init PROVE RoutesCurrent /\ CopiesAway
  BY DEF EchoInv
<1>1. poll.at = "idle"
  BY NoPollIsOf DEF Init, PollOf
<1>2. \A c \in Casts : cast[c].at = "idle"
  BY DEF Init, NoCast
<1>3. \A h \in Hosts : Len(log[h]) = 0
  BY EmptySeq DEF Init
<1>4. \A key \in Keys : ~(live[key] > 0)
  BY DEF Init
<1> QED BY <1>1, <1>2, <1>3, <1>4 DEF RoutesCurrent, CopiesAway, Underway

\* The ledger never holds more of panemux's own messages than were sent and
\* may still be read back; and while panes stay put no forwarded copy is taken
\* for its author's row, so that messages do not echo (ledger.go, validFrom).
THEOREM OwnRowsKnownCorrect == Spec => []OwnRowsKnown
<1>1. RelayInv /\ RelayInv' /\ LedgerInv /\ EchoInv /\ [Next]_vars => EchoInv'
  BY EchoStep
<1>2. RelayInv /\ LedgerInv /\ EchoInv => OwnRowsKnown
  <2> SUFFICES ASSUME RelayInv, LedgerInv, EchoInv PROVE OwnRowsKnown
    OBVIOUS
  <2>1. NoEcho
    <3>1. \A h \in Hosts : DOMAIN log[h] = 1 .. Len(log[h])
      BY LenProperties DEF RelayInv, RelayType, LogType
    <3> QED BY <3>1 DEF NoEcho, EchoInv, CopiesAway
  <2> QED BY <2>1 DEF OwnRowsKnown, LedgerInv
<1> QED BY <1>1, <1>2, EchoInit, LedgerAlways, RelayInvariant, PTL DEF Spec

=============================================================================

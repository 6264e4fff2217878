------------------------------ MODULE BoardRelay ------------------------------
(***************************************************************************)
(* The agent board's relay (internal/board/relay.go, ledger.go): one       *)
(* goroutine polls the message store of every host, keeps what it accepts  *)
(* in the board's history and forwards it to the recipient's host;         *)
(* broadcasts send messages of panemux's own, which the ledger lets the    *)
(* poll recognise when it reads them back.  Every operation on a host is a *)
(* lease of the CallGate (internal/agmsg/client_lease.go), so that the     *)
(* tool is not replaced under it, and finds out once whether the host has  *)
(* the tool (client.go).  A crash loses all but the saved cursors.         *)
(*                                                                         *)
(* A host's store only grows, and its rows are named by their position:    *)
(* the cursor is the position of the last row read.                        *)
(***************************************************************************)
EXTENDS CallGate, Sequences, FiniteSets, Functions

CONSTANTS
  Panes,
  System,         \* SystemID
  Bodies,
  Casts,          \* broadcast requests, each served once
  Limit,          \* RelayConfig.Limit
  BackfillLimit,  \* RelayConfig.BackfillLimit
  Sorted,         \* the hosts, in the order of their names
  Tooled,         \* the sets of hosts that may have the tool at first
  Homes,          \* where panes may be configured at first
  Writes,         \* who writes to whom, pairs of pane and recipient
  Targets,        \* the lists of panes a broadcast may be for
  MaxLog,         \* bound: rows a host's store takes
  MaxFaults       \* bound: failures, crashes and panes that move

ASSUME BoardRelayAssumption ==
  /\ System \notin Panes
  /\ Limit \in Nat \ {0} /\ BackfillLimit \in Nat \ {0}
  /\ MaxLog \in Nat /\ MaxFaults \in Nat
  /\ IsFiniteSet(Casts) /\ Bodies # {}
  /\ Homes \subseteq [Panes -> Hosts] /\ Writes \subseteq Panes \X (Panes \cup {System})
  /\ Targets \subseteq Seq(Panes) \ {<<>>}
  /\ Sorted \in Seq(Hosts) /\ Tooled \subseteq SUBSET Hosts

VARIABLES
  known,         \* agmsg.Client: whether the tool is there, once found out
  seenRevision,  \* agmsg.Client.seenRevision
  owner,         \* Routing.PaneHosts
  log,           \* each host's store
  cursors,       \* Relay.cursors
  saved,         \* the cursor file
  backfilled,    \* Relay.backfilled
  poll,          \* where Poll and pollHost are
  live,          \* ownSendLedger.entries: occurrences that have not expired
  history,       \* BoardCache.history, as the places of the rows it holds
  cast,          \* where each Broadcast is
  faults,
  \* what the properties speak of:
  seen,          \* rows processed by this process or one before it
  missed,        \* rows newer than the cursor that a read left out
  read,          \* hosts this process has read
  forwards,      \* Sends made for a row
  crashes,
  moved          \* some pane has moved

clientVars == <<known, seenRevision>>
relayVars  == <<cursors, saved, backfilled, poll>>
ghostVars  == <<seen, missed, read, forwards, crashes, moved>>
vars == <<gateVars, clientVars, owner, log, relayVars, live, history, cast, faults, ghostVars>>

Row == [from : Panes \cup {System}, to : Panes \cup {System}, body : Bodies, copy : BOOLEAN]
Keys == Hosts \X Panes \X Bodies
Place == Hosts \X (1 .. MaxLog)

Spends == faults < MaxFaults /\ faults' = faults + 1

-----------------------------------------------------------------------------
(* agmsg.Client                                                            *)

\* Mutant: what was found out before an update is still believed.
Remembered(h) == known[h]

Refreshed(h) == IF seenRevision[h] = revision[h] THEN known[h] ELSE "unknown"

\* LeaseMessages: begin
Lease(h) ==
  /\ Begin(h)
  /\ known' = [known EXCEPT ![h] = Refreshed(h)]
  /\ seenRevision' = [seenRevision EXCEPT ![h] = revision[h]]

\* ready: what is known, or what a probe finds
Ready(h) ==
  IF known[h] # "unknown" THEN known[h] ELSE IF h \in installed THEN "present" ELSE "absent"

Probed(h) == [known EXCEPT ![h] = Ready(h)]

-----------------------------------------------------------------------------
(* Poll                                                                    *)
NoPoll == [at |-> "idle", todo |-> <<>>, backfill |-> FALSE, changed |-> FALSE, host |-> NoHost,
           next |-> 1, last |-> 0, leased |-> {}, routes |-> [p \in Panes |-> NoHost]]

StartPoll ==
  /\ poll.at = "idle"
  /\ poll' = [NoPoll EXCEPT !.at = "pass", !.todo = Sorted, !.backfill = ~backfilled]
  /\ backfilled' = TRUE
  /\ UNCHANGED <<gateVars, clientVars, owner, log, cursors, saved, live, history, cast, faults,
                 ghostVars>>

\* pollHost of the next host: its lease is granted, or it is left for the next poll.
PollHost ==
  LET h == Head(poll.todo) IN
  /\ poll.at = "pass" /\ poll.todo # <<>>
  /\ Lease(h)
  /\ poll' = [poll EXCEPT !.at = "reading", !.todo = Tail(@), !.host = h, !.leased = {h}]
  /\ UNCHANGED <<owner, log, cursors, saved, backfilled, live, history, cast, faults, ghostVars>>

HostRefused ==
  /\ poll.at = "pass" /\ poll.todo # <<>> /\ ~Admits(Head(poll.todo))
  /\ poll' = [poll EXCEPT !.todo = Tail(@)]
  /\ UNCHANGED <<gateVars, clientVars, owner, log, cursors, saved, backfilled, live, history, cast,
                 faults, ghostVars>>

\* Mutant: only the polled host's own lease is given back.
LeaveDestinations(changed) ==
  /\ Release({poll.host})
  /\ poll' = [NoPoll EXCEPT !.at = "pass", !.todo = poll.todo, !.backfill = poll.backfill,
                            !.changed = poll.changed \/ changed]

\* The host is done with, its cursor moved or not.
Leave(changed) ==
  /\ Release(poll.leased)
  /\ poll' = [NoPoll EXCEPT !.at = "pass", !.todo = poll.todo, !.backfill = poll.backfill,
                            !.changed = poll.changed \/ changed]

\* The oldest row api.sh returns, and the first of filterRowsAfter's
Oldest(h, limit) == IF Len(log[h]) <= limit THEN 1 ELSE Len(log[h]) - limit + 1

\* Mutant: the row the cursor names is returned again.
FirstFrom(h, limit) ==
  IF cursors[h] >= Oldest(h, limit) THEN cursors[h] ELSE Oldest(h, limit)

FirstAfter(h, limit) ==
  IF cursors[h] >= Oldest(h, limit) THEN cursors[h] + 1 ELSE Oldest(h, limit)

ReadLimit == IF poll.backfill THEN BackfillLimit ELSE Limit

Since ==
  LET h == poll.host IN
  /\ poll.at = "reading"
  /\ known' = Probed(h)
  /\ IF Ready(h) = "present"
       THEN /\ poll' = [poll EXCEPT !.at = "rows", !.next = FirstAfter(h, ReadLimit),
                                    !.last = Len(log[h]), !.routes = owner]
            /\ missed' = missed \cup {<<h, i>> : i \in cursors[h] + 1 .. Oldest(h, ReadLimit) - 1}
            /\ read' = read \cup {h}
            /\ UNCHANGED gateVars
       ELSE Leave(FALSE) /\ UNCHANGED <<missed, read>>
  /\ UNCHANGED <<seenRevision, owner, log, cursors, saved, backfilled, live, history, cast, faults,
                 seen, forwards, crashes, moved>>

SinceFails ==
  /\ poll.at = "reading"
  /\ Spends
  /\ known' \in {known, Probed(poll.host)}
  /\ Leave(FALSE)
  /\ UNCHANGED <<seenRevision, owner, log, cursors, saved, backfilled, live, history, cast, ghostVars>>

-----------------------------------------------------------------------------
(* The rows of one host                                                    *)

\* Every destination of the batch.
Involved == {poll.routes[log[poll.host][i].to] : i \in
               {j \in poll.next .. poll.last : log[poll.host][j].to \in Panes}}

Wanted == (Involved \ {NoHost}) \ poll.leased

AdmitDestination(d) ==
  /\ poll.at = "rows" /\ d \in Wanted
  /\ Lease(d)
  /\ poll' = [poll EXCEPT !.leased = @ \cup {d}]
  /\ UNCHANGED <<owner, log, cursors, saved, backfilled, live, history, cast, faults, ghostVars>>

\* Mutant: the batch of a paused destination is passed over.
RefusedAway ==
  /\ Leave(TRUE)
  /\ cursors' = [cursors EXCEPT ![poll.host] = poll.last]

\* A paused destination leaves the batch to the next poll.
Refused == Leave(FALSE) /\ UNCHANGED cursors

DestinationRefused ==
  /\ poll.at = "rows"
  /\ \E d \in Wanted : ~Admits(d)
  /\ Refused
  /\ UNCHANGED <<clientVars, owner, log, saved, backfilled, live, history, cast, faults, ghostVars>>

Current == log[poll.host][poll.next]
LedgerKey(h, row) == <<h, row.to, row.body>>

\* Mutant: any known pane may have written a row.
ValidFromAnyPane(h, row) ==
  IF row.from = System THEN row.to \in Panes /\ live[LedgerKey(h, row)] > 0
  ELSE owner[row.from] # NoHost

ValidFrom(h, row) ==
  IF row.from = System THEN row.to \in Panes /\ live[LedgerKey(h, row)] > 0 ELSE owner[row.from] = h

\* Consume, by validFrom
Consumed(h, row) ==
  IF row.from = System /\ row.to \in Panes /\ live[LedgerKey(h, row)] > 0
    THEN [live EXCEPT ![LedgerKey(h, row)] = @ - 1] ELSE live

Accepted(h, row) ==
  ValidFrom(h, row) /\ (row.to = System \/ poll.routes[row.to] # NoHost)

Forwarded(h, row) ==
  Accepted(h, row) /\ row.to # System /\ poll.routes[row.to] # h

Takes(h, row) == [log EXCEPT ![h] = Append(@, row)]
CanTake(h) == h \in installed /\ Len(log[h]) < MaxLog

\* A message of panemux gets there: the client finds the tool, and the tool is.
Reaches(h) == Ready(h) = "present" /\ CanTake(h)

\* The row is forwarded, to a host that has the tool, or the Send fails.
Send(d, row) ==
  /\ known' = Probed(d)
  /\ \/ /\ Reaches(d)
        /\ log' = Takes(d, [row EXCEPT !.copy = TRUE])
        /\ UNCHANGED faults
     \/ /\ IF Reaches(d) THEN Spends ELSE UNCHANGED faults
        /\ UNCHANGED log

\* processRowUsing
ProcessRow ==
  LET h == poll.host
      row == Current
  IN
  /\ poll.at = "rows" /\ poll.next <= poll.last
  /\ Wanted = {}
  /\ live' = Consumed(h, row)
  /\ history' = IF Accepted(h, row) THEN history \cup {<<h, poll.next>>} ELSE history
  /\ IF Forwarded(h, row)
       THEN /\ Send(poll.routes[row.to], row)
            /\ forwards' = [forwards EXCEPT ![<<h, poll.next>>] = @ + 1]
       ELSE UNCHANGED <<known, log, faults, forwards>>
  /\ seen' = seen \cup {<<h, poll.next>>}
  /\ poll' = [poll EXCEPT !.next = @ + 1]
  /\ UNCHANGED <<gateVars, seenRevision, owner, cursors, saved, backfilled, cast, missed, read,
                 crashes, moved>>

\* The cursor moves to the newest row.
EndRows ==
  /\ poll.at = "rows" /\ poll.next > poll.last
  /\ Leave(cursors[poll.host] # poll.last)
  /\ cursors' = [cursors EXCEPT ![poll.host] = poll.last]
  /\ UNCHANGED <<clientVars, owner, log, saved, backfilled, live, history, cast, faults, ghostVars>>

\* Every cursor is saved when one moved; saving may fail.
EndPoll ==
  /\ poll.at = "pass" /\ poll.todo = <<>>
  /\ \/ saved' = (IF poll.changed THEN cursors ELSE saved) /\ UNCHANGED faults
     \/ poll.changed /\ Spends /\ UNCHANGED saved
  /\ poll' = NoPoll
  /\ UNCHANGED <<gateVars, clientVars, owner, log, cursors, backfilled, live, history, cast, ghostVars>>

-----------------------------------------------------------------------------
(* Broadcast, from System                                                  *)
NoCast == [at |-> "idle", todo |-> <<>>, body |-> CHOOSE b \in Bodies : TRUE,
           routes |-> [p \in Panes |-> NoHost]]

To(c)      == cast[c].routes[Head(cast[c].todo)]
CastKey(c) == <<To(c), Head(cast[c].todo), cast[c].body>>
CastAt(c, at) == cast' = [cast EXCEPT ![c].at = at]
CastEnds(c) == cast' = [cast EXCEPT ![c] = [NoCast EXCEPT !.at = "done"]]

Broadcast(c, todo, body) ==
  /\ cast[c].at = "idle"
  /\ \A p \in Range(todo) : owner[p] # NoHost
  /\ cast' = [cast EXCEPT ![c] = [NoCast EXCEPT !.at = "next", !.todo = todo, !.body = body,
                                               !.routes = owner]]
  /\ UNCHANGED <<gateVars, clientVars, owner, log, relayVars, live, history, faults, ghostVars>>

\* The next pane: its host is leased and the send recorded, or there it ends.
CastLease(c) ==
  /\ cast[c].at = "next"
  /\ Lease(To(c))
  /\ live' = [live EXCEPT ![CastKey(c)] = @ + 1]
  /\ CastAt(c, "sending")
  /\ UNCHANGED <<owner, log, relayVars, history, faults, ghostVars>>

CastRefused(c) ==
  /\ cast[c].at = "next" /\ ~Admits(To(c))
  /\ CastEnds(c)
  /\ UNCHANGED <<gateVars, clientVars, owner, log, relayVars, live, history, faults, ghostVars>>

CastDelivers(c) ==
  /\ cast[c].at = "sending" /\ Reaches(To(c))
  /\ known' = Probed(To(c))
  /\ log' = Takes(To(c), [from |-> System, to |-> Head(cast[c].todo), body |-> cast[c].body,
                          copy |-> FALSE])
  /\ CastAt(c, "delivered")
  /\ UNCHANGED <<gateVars, seenRevision, owner, relayVars, live, history, faults, ghostVars>>

\* Send returns: no error, and the next pane is due, or an error, delivered or not.
CastSent(c) ==
  /\ cast[c].at = "delivered"
  /\ Release({To(c)})
  /\ IF Len(cast[c].todo) = 1 THEN CastEnds(c)
     ELSE cast' = [cast EXCEPT ![c].at = "next", ![c].todo = Tail(@)]
  /\ UNCHANGED <<clientVars, owner, log, relayVars, live, history, faults, ghostVars>>

CastFails(c) ==
  /\ cast[c].at \in {"sending", "delivered"}
  /\ IF cast[c].at = "sending" /\ ~Reaches(To(c)) THEN UNCHANGED faults ELSE Spends
  /\ known' \in {known, Probed(To(c))}
  /\ Release({To(c)})
  /\ CastAt(c, IF cast[c].at = "sending" THEN "failed" ELSE "failedDelivered")
  /\ UNCHANGED <<seenRevision, owner, log, relayVars, live, history, ghostVars>>

\* Mutants: the occurrence of a failed send is left to expire; one is
\* forgotten that is not there.
ForgottenAlways(key) == [live EXCEPT ![key] = @ - 1]
NotForgotten(key) == live

Forgotten(key) == IF live[key] = 0 THEN live ELSE [live EXCEPT ![key] = @ - 1]

CastForget(c) ==
  /\ cast[c].at \in {"failed", "failedDelivered"}
  /\ live' = Forgotten(CastKey(c))
  /\ CastEnds(c)
  /\ UNCHANGED <<gateVars, clientVars, owner, log, relayVars, history, faults, ghostVars>>

\* An occurrence outlives its TTL: its row is not read back in time.
Expire(key) ==
  /\ live[key] > 0 /\ Spends
  /\ live' = [live EXCEPT ![key] = @ - 1]
  /\ UNCHANGED <<gateVars, clientVars, owner, log, relayVars, history, cast, ghostVars>>

-----------------------------------------------------------------------------
(* Agents, configuration, updates, crashes                                 *)
Post(p, to, body) ==
  /\ owner[p] # NoHost /\ CanTake(owner[p])
  /\ log' = Takes(owner[p], [from |-> p, to |-> to, body |-> body, copy |-> FALSE])
  /\ UNCHANGED <<gateVars, clientVars, owner, relayVars, live, history, cast, faults, ghostVars>>

Reroute(p, h) ==
  /\ h # owner[p] /\ Spends
  /\ owner' = [owner EXCEPT ![p] = h]
  /\ moved' = TRUE
  /\ UNCHANGED <<gateVars, clientVars, log, relayVars, live, history, cast, seen, missed, read,
                 forwards, crashes>>

Update(u) ==
  /\ UpdateStep(u) \/ GiveUp(u) \/ \E h \in Hosts : Pause(u, h)
  /\ UNCHANGED <<clientVars, owner, log, relayVars, live, history, cast, faults, ghostVars>>

Crash ==
  /\ Spends
  /\ GateRestart
  /\ known' = [h \in Hosts |-> "unknown"] /\ seenRevision' = [h \in Hosts |-> 0]
  /\ cursors' = saved
  /\ backfilled' = FALSE
  /\ poll' = NoPoll
  /\ live' = [key \in Keys |-> 0]
  /\ history' = {} /\ read' = {}
  /\ cast' = [c \in Casts |-> IF cast[c].at = "idle" THEN NoCast ELSE [NoCast EXCEPT !.at = "done"]]
  /\ crashes' = crashes + 1
  /\ UNCHANGED <<owner, log, saved, seen, missed, forwards, moved>>

-----------------------------------------------------------------------------
Init ==
  /\ GateInit /\ installed \in Tooled
  /\ known = [h \in Hosts |-> "unknown"] /\ seenRevision = [h \in Hosts |-> 0]
  /\ owner \in Homes
  /\ log = [h \in Hosts |-> <<>>]
  /\ cursors = [h \in Hosts |-> 0] /\ saved = [h \in Hosts |-> 0]
  /\ backfilled = FALSE /\ poll = NoPoll
  /\ live = [key \in Keys |-> 0] /\ history = {}
  /\ cast = [c \in Casts |-> NoCast]
  /\ faults = 0
  /\ seen = {} /\ missed = {} /\ read = {} /\ forwards = [x \in Place |-> 0]
  /\ crashes = 0 /\ moved = FALSE

PollStep ==
  \/ StartPoll \/ PollHost \/ HostRefused \/ Since \/ SinceFails
  \/ DestinationRefused \/ ProcessRow \/ EndRows \/ EndPoll
  \/ \E d \in Hosts : AdmitDestination(d)

CastStep(c) ==
  \/ CastLease(c) \/ CastRefused(c)
  \/ CastDelivers(c) \/ CastSent(c) \/ CastFails(c) \/ CastForget(c)

Next ==
  \/ PollStep
  \/ \E c \in Casts : \/ CastStep(c)
                      \/ \E todo \in Targets, b \in Bodies : Broadcast(c, todo, b)
  \/ \E key \in Keys : Expire(key)
  \/ \E w \in Writes, b \in Bodies : Post(w[1], w[2], b)
  \/ \E p \in Panes, h \in Hosts \cup {NoHost} : Reroute(p, h)
  \/ \E u \in Updates : Update(u)
  \/ Crash

Spec == Init /\ [][Next]_vars

\* The poll's goroutine, broadcasts and installations go on; an installation
\* that waits for the calls under way need not be cancelled.
Fairness ==
  /\ WF_vars(PollStep)
  /\ \A c \in Casts : WF_vars(CastStep(c))
  /\ \A u \in Updates : WF_vars(UpdateStep(u) /\ Update(u))

FairSpec == Spec /\ Fairness

-----------------------------------------------------------------------------
TypeOK ==
  /\ GateTypeOK
  /\ known \in [Hosts -> {"unknown", "absent", "present"}]
  /\ seenRevision \in [Hosts -> Nat]
  /\ owner \in [Panes -> Hosts \cup {NoHost}]
  /\ log \in [Hosts -> Seq(Row)] /\ \A h \in Hosts : Len(log[h]) <= MaxLog
  /\ cursors \in [Hosts -> 0 .. MaxLog] /\ saved \in [Hosts -> 0 .. MaxLog]
  /\ backfilled \in BOOLEAN
  /\ poll \in [at : {"idle", "pass", "reading", "rows"}, todo : Seq(Hosts), backfill : BOOLEAN,
               changed : BOOLEAN, host : Hosts \cup {NoHost}, next : Nat, last : Nat,
               leased : SUBSET Hosts, routes : [Panes -> Hosts \cup {NoHost}]]
  /\ live \in [Keys -> Nat]
  /\ history \in SUBSET Place /\ seen \in SUBSET Place /\ missed \in SUBSET Place
  /\ read \in SUBSET Hosts
  /\ cast \in [Casts -> [at : {"idle", "next", "sending", "delivered", "failed", "failedDelivered",
                              "done"},
                         todo : Seq(Panes), body : Bodies,
                         routes : [Panes -> Hosts \cup {NoHost}]]]
  /\ faults \in Nat /\ crashes \in Nat /\ moved \in BOOLEAN
  /\ forwards \in [Place -> Nat]

\* Neither the cursor nor the cursor file passes a row that was not processed,
\* unless the store grew by more than one read returns: an update of a
\* destination, a failed read or a crash costs no message.
NoneSkipped ==
  \A h \in Hosts :
    \A i \in 1 .. MaxLog : (i <= cursors[h] \/ i <= saved[h]) => <<h, i>> \in seen \cup missed

\* A row is sent on to its destination once, and again only after a crash: a
\* batch that cannot be admitted is left whole.
ForwardedOnce == \A x \in Place : forwards[x] <= 1 + crashes

\* No row is taken for panemux's own without a send behind it: the ledger
\* never holds more occurrences than sends that may still arrive or wait to be read.
SentRows(key) ==
  {i \in DOMAIN log[key[1]] : /\ log[key[1]][i].from = System
                             /\ LedgerKey(key[1], log[key[1]][i]) = key
                             /\ <<key[1], i>> \notin seen}
Sending(key) == {c \in Casts : cast[c].at \in {"sending", "failed"} /\ CastKey(c) = key}
LedgerBacked ==
  \A key \in Keys : live[key] <= Cardinality(SentRows(key)) + Cardinality(Sending(key))

\* Messages do not echo: a forwarded copy, read back from the host it was sent
\* to, is neither kept a second time nor forwarded again, while panes stay put.
NoEcho ==
  ~moved => \A h \in Hosts : \A i \in DOMAIN log[h] :
              log[h][i].copy => <<h, i>> \notin history /\ forwards[<<h, i>>] = 0

\* panemux knows the rows it sent from those it was sent (ledger.go, validFrom).
OwnRowsKnown == LedgerBacked /\ NoEcho

\* While a tool is replaced no poll and no broadcast uses it, and every lease
\* taken is given back once.
Using(h) == {c \in Casts : cast[c].at \in {"sending", "delivered"} /\ To(c) = h}
LeasesCounted ==
  \A h \in Hosts :
    active[h] = (IF h \in poll.leased THEN 1 ELSE 0) + Cardinality(Using(h))

\* The calls of polls and broadcasts and the updates exclude each other, to the
\* lease (Begin, Pause, pollHost, Broadcast).
CallsAndUpdates == InstallsAlone /\ LeasesCounted

\* What a client remembers of a host it has leased is so: no update leaves it
\* believing the tool absent, or there when it is gone.
DiscoveryIsCurrent ==
  \A h \in Hosts :
    (known[h] # "unknown" /\ (h \in poll.leased \/ Using(h) # {}))
      => (known[h] = "present" <=> h \in installed)

\* Once nothing fails any more, every row of every host that has the tool is
\* read.
RowsRead == <>[](\A h \in installed : cursors[h] = Len(log[h]))

\* An update that waits for the calls under way gets its turn.
UpdatesEnd == \A u \in Updates : []<>(update[u].at \in {"idle", "done"})

\* "Before steady-state polling, the relay performs one larger but still
\* bounded backfill per host": the first read of a host is the larger one.
BackfillPerHost ==
  [][\A h \in Hosts : (h \notin read /\ h \in read') => poll.backfill]_vars
=============================================================================

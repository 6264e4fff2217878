------------------------------ MODULE HostPool ------------------------------
(***************************************************************************)
(* hostexec.Pool (internal/hostexec/pool.go): the command connections to   *)
(* SSH hosts that the task board, the agent board and the host tools       *)
(* share, dialed when a call needs one.  Around it: the handlers that edit *)
(* ssh_connections (internal/api/ssh_connections.go) and the collections   *)
(* that drop the hosts no longer configured (internal/tasks/service.go).   *)
(*                                                                         *)
(* A critical section of Pool.mu is one action; connections are closed     *)
(* after it.  Entries and connections are named, and a name is used again  *)
(* once nothing refers to what had it.                                     *)
(***************************************************************************)
EXTENDS Naturals

CONSTANTS
  Hosts,
  Calls,       \* callers of Run and Connect, each again and again
  Entries,     \* names for hostConn values: a bound
  Conns,       \* names for connections: a bound
  NoHost, NoEntry, NoConn,
  MaxVersion   \* bound: how often a host's details change

ASSUME HostPoolAssumption ==
  /\ NoHost \notin Hosts /\ NoEntry \notin Entries /\ NoConn \notin Conns
  /\ MaxVersion \in Nat

VARIABLES
  configured,  \* the keys of cfg.SSHConnections
  details,     \* the version of each host's ssh_connections entry
  owed,        \* hosts a handler is about to Reconnect
  pruning,     \* the lists of names read by collections that are about to Retain them
  hosts,       \* Pool.hosts
  entry,       \* each hostConn, with its dial
  closed,      \* Pool.closed
  conn,        \* the connections
  doomed,      \* connections somebody is about to close
  call,        \* where each caller is
  settled      \* the version of each host's details when Reconnect was last done

confVars == <<configured, details, owed, pruning>>
poolVars == <<hosts, entry, closed, conn, doomed>>
vars == <<confVars, poolVars, call, settled>>

NewEntry == [host |-> NoHost, conn |-> NoConn, failed |-> FALSE, dial |-> "none", with |-> 0]
NewConn  == [open |-> FALSE, with |-> 0]
NoCall   == [at |-> "idle", host |-> NoHost, entry |-> NoEntry, conn |-> NoConn, since |-> 0]

\* What a host's calls are given.
Link(h) == IF hosts[h] = NoEntry THEN NoConn ELSE entry[hosts[h]].conn

-----------------------------------------------------------------------------
(* Names that nothing refers to                                            *)
Waits(c, e) == call[c].at \in {"waiting", "answered"} /\ call[c].entry = e

Referred(e) == (\E h \in Hosts : hosts[h] = e) \/ (\E c \in Calls : Waits(c, e))

\* An entry that neither the pool, nor a dial, nor a caller refers to any more is gone.
Collected(after) ==
  entry' = [e \in Entries |-> IF after[e].dial # "none" \/ Referred(e)' THEN after[e] ELSE NewEntry]

Free == {e \in Entries : entry[e] = NewEntry}

Unused ==
  {x \in Conns : /\ ~conn[x].open
                 /\ \A e \in Entries : entry[e].conn # x
                 /\ \A c \in Calls : call[c].conn # x}

\* Which of the names is taken makes no difference.
AnyOf(names) == CHOOSE x \in names : TRUE

-----------------------------------------------------------------------------
(* Run, Connect                                                            *)

\* known: asked before the lock.
Ask(c, h) ==
  /\ call[c].at = "idle" /\ h \in configured
  /\ call' = [call EXCEPT ![c] = [NoCall EXCEPT !.at = "known", !.host = h, !.since = settled[h]]]
  /\ UNCHANGED <<confVars, poolVars, settled>>

Fails(c) == call' = [call EXCEPT ![c] = NoCall]
Runs(c, x) == call' = [call EXCEPT ![c].at = "running", ![c].entry = NoEntry,
                                      ![c].conn = x, ![c].since = 0]
WaitsFor(c, e) == call' = [call EXCEPT ![c].at = "waiting", ![c].entry = e]

Dialing(h) == [NewEntry EXCEPT !.host = h, !.dial = "started"]

\* beginConnect
Connect(c) ==
  LET h == call[c].host
      e == hosts[h]
  IN
  /\ call[c].at = "known"
  /\ \/ closed /\ Fails(c) /\ UNCHANGED <<hosts, entry>>
     \/ /\ ~closed /\ e = NoEntry
        /\ Free # {}
        /\ hosts' = [hosts EXCEPT ![h] = AnyOf(Free)]
        /\ entry' = [entry EXCEPT ![AnyOf(Free)] = Dialing(h)]
        /\ WaitsFor(c, AnyOf(Free))
     \/ ~closed /\ e # NoEntry /\ UNCHANGED hosts /\
        \/ entry[e].conn # NoConn /\ Runs(c, entry[e].conn) /\ UNCHANGED entry
        \/ entry[e].conn = NoConn /\ entry[e].dial # "none" /\ WaitsFor(c, e) /\ UNCHANGED entry
        \/ entry[e].conn = NoConn /\ entry[e].dial = "none" /\ entry[e].failed  \* before RetryAfter
           /\ Fails(c) /\ UNCHANGED entry
        \/ /\ entry[e].conn = NoConn /\ entry[e].dial = "none"
           /\ entry' = [entry EXCEPT ![e].dial = "started"]
           /\ WaitsFor(c, e)
  /\ UNCHANGED <<confVars, closed, conn, doomed, settled>>

\* The context ends first, or the caller does not wait (WithoutDialWait).
StopWaiting(c) ==
  /\ call[c].at = "waiting"
  /\ Fails(c)
  /\ UNCHANGED <<confVars, hosts, closed, conn, doomed, settled>>
  /\ Collected(entry)

\* Mutant: the dial a caller waited for always left a connection.
GotAny(c, x) == Runs(c, x)

Got(c, x) == IF x # NoConn THEN Runs(c, x) ELSE Fails(c)

\* The dial the caller waited for is over: it failed, or left a connection,
\* or its result was not wanted.
Answered(c) ==
  /\ call[c].at = "answered"
  /\ Got(c, entry[call[c].entry].conn)
  /\ UNCHANGED <<confVars, hosts, closed, conn, doomed, settled>>
  /\ Collected(entry)

\* The command ended, or ran out of time on a connection that still answers.
Finish(c) ==
  /\ call[c].at = "running" /\ conn[call[c].conn].open
  /\ Fails(c)
  /\ UNCHANGED <<confVars, poolVars, settled>>

\* Mutant: a caller's failure lets go of whatever connection the host has now.
DroppedAny(h, x) ==
  IF hosts[h] # NoEntry THEN [entry EXCEPT ![hosts[h]].conn = NoConn] ELSE entry

\* Mutant: the connection is closed and stays its host's.
DroppedNone(h, x) == entry

Dropped(h, x) ==
  IF hosts[h] # NoEntry /\ Link(h) = x THEN [entry EXCEPT ![hosts[h]].conn = NoConn] ELSE entry

\* Closing a connection that is closed changes nothing.
Opened(conns) == {x \in conns \ {NoConn} : conn[x].open}

\* drop: the connection failed the caller, or does not answer.
Drop(c) ==
  /\ call[c].at = "running"
  /\ entry' = Dropped(call[c].host, call[c].conn)
  /\ doomed' = doomed \cup Opened({call[c].conn})
  /\ Fails(c)
  /\ UNCHANGED <<confVars, hosts, closed, conn, settled>>

-----------------------------------------------------------------------------
(* dial, on a goroutine of its own                                         *)
ReadDetails(e) ==
  /\ entry[e].dial = "started"
  /\ entry' = [entry EXCEPT ![e].dial = "dialing", ![e].with = details[entry[e].host]]
  /\ UNCHANGED <<confVars, hosts, closed, conn, doomed, call, settled>>

\* close(done)
\* Mutant: only those that wait for the host's present entry are told.
TellCurrent(e) ==
  call' = [c \in Calls |-> IF Waits(c, e) /\ hosts[entry[e].host] = e
                             THEN [call[c] EXCEPT !.at = "answered"] ELSE call[c]]

Tell(e) ==
  call' = [c \in Calls |-> IF Waits(c, e) THEN [call[c] EXCEPT !.at = "answered"] ELSE call[c]]

Wanted(e) == ~closed /\ hosts[entry[e].host] = e

DialConnects(e) ==
  /\ entry[e].dial = "dialing" /\ Unused # {}
  /\ conn' = [conn EXCEPT ![AnyOf(Unused)] = [open |-> TRUE, with |-> entry[e].with]]
  /\ doomed' = IF Wanted(e) THEN doomed ELSE doomed \cup {AnyOf(Unused)}
  /\ Tell(e)
  /\ UNCHANGED <<confVars, hosts, closed, settled>>
  /\ Collected([entry EXCEPT ![e].dial = "none", ![e].with = 0, ![e].failed = FALSE,
                             ![e].conn = IF Wanted(e) THEN AnyOf(Unused) ELSE @])

DialFails(e) ==
  /\ entry[e].dial \in {"started", "dialing"}
  /\ Tell(e)
  /\ UNCHANGED <<confVars, hosts, closed, conn, doomed, settled>>
  /\ Collected([entry EXCEPT ![e].dial = "none", ![e].with = 0, ![e].failed = @ \/ Wanted(e)])

-----------------------------------------------------------------------------
(* Reconnect, Retain, Close                                                *)

\* The entries of some hosts are removed and their connections closed.
Forget(names) ==
  /\ hosts' = [h \in Hosts |-> IF h \in names THEN NoEntry ELSE hosts[h]]
  /\ doomed' = doomed \cup Opened({Link(h) : h \in names})
  /\ UNCHANGED <<call, conn>>
  /\ Collected(entry)

\* Mutant: the connection goes, and a dial under way keeps its entry.
Clear(names) ==
  /\ entry' = [e \in Entries |-> IF \E h \in names : hosts[h] = e
                                   THEN [entry[e] EXCEPT !.conn = NoConn, !.failed = FALSE]
                                   ELSE entry[e]]
  /\ doomed' = doomed \cup Opened({Link(h) : h \in names})
  /\ UNCHANGED <<hosts, call, conn>>

Discard(names) == Forget(names)

\* A host that is not configured when it is asked about is left alone.
Reconnect(h) ==
  /\ h \in owed
  /\ owed' = owed \ {h}
  /\ \/ Discard({h}) /\ settled' = [settled EXCEPT ![h] = details[h]]
     \/ h \notin configured /\ UNCHANGED <<hosts, entry, conn, doomed, call, settled>>
  /\ UNCHANGED <<configured, details, pruning, closed>>

\* Mutant: a host that was removed stays.
Stays(names) == {h \in Hosts : hosts[h] # NoEntry}

Kept(names) == names

Retain(names) ==
  /\ names \in pruning
  /\ pruning' = pruning \ {names}
  /\ Forget(Hosts \ Kept(names))
  /\ UNCHANGED <<configured, details, owed, closed, settled>>

Close ==
  /\ ~closed /\ closed' = TRUE
  /\ Forget(Hosts)
  /\ UNCHANGED <<confVars, settled>>

CloseConn(x) ==
  /\ x \in doomed
  /\ doomed' = doomed \ {x}
  /\ conn' = [conn EXCEPT ![x] = NewConn]
  /\ UNCHANGED <<confVars, hosts, entry, closed, call, settled>>

-----------------------------------------------------------------------------
(* The configuration, and collections                                      *)

\* PUT: the entry is saved, and the host is to be dialed again.
Edit(h) ==
  /\ h \in configured /\ details[h] < MaxVersion
  /\ details' = [details EXCEPT ![h] = @ + 1]
  /\ owed' = owed \cup {h}
  /\ UNCHANGED <<configured, pruning, poolVars, call, settled>>

\* POST of the task board's Reconnect
AskReconnect(h) ==
  /\ h \in configured
  /\ owed' = owed \cup {h}
  /\ UNCHANGED <<configured, details, pruning, poolVars, call, settled>>

Add(h) ==
  /\ h \notin configured /\ details[h] < MaxVersion
  /\ configured' = configured \cup {h}
  /\ details' = [details EXCEPT ![h] = @ + 1]
  /\ UNCHANGED <<owed, pruning, poolVars, call, settled>>

Remove(h) ==
  /\ h \in configured
  /\ configured' = configured \ {h}
  /\ UNCHANGED <<details, owed, pruning, poolVars, call, settled>>

\* hostNames of a collection; forgetHostsExcept follows (bound: before the next).
Collect ==
  /\ pruning = {}
  /\ pruning' = {configured}
  /\ UNCHANGED <<configured, details, owed, poolVars, call, settled>>

-----------------------------------------------------------------------------
Init ==
  /\ configured \in SUBSET Hosts
  /\ details = [h \in Hosts |-> 0] /\ owed = {} /\ pruning = {}
  /\ hosts = [h \in Hosts |-> NoEntry]
  /\ entry = [e \in Entries |-> NewEntry]
  /\ closed = FALSE
  /\ conn = [x \in Conns |-> NewConn] /\ doomed = {}
  /\ call = [c \in Calls |-> NoCall]
  /\ settled = [h \in Hosts |-> 0]

CallStep(c) ==
  \/ Connect(c) \/ StopWaiting(c) \/ Answered(c) \/ Finish(c) \/ Drop(c)
  \/ \E h \in Hosts : Ask(c, h)

DialEnds(e) == DialConnects(e) \/ DialFails(e)

DialStep(e) == ReadDetails(e) \/ DialEnds(e)

ConfigStep(h) == Edit(h) \/ AskReconnect(h) \/ Add(h) \/ Remove(h) \/ Reconnect(h)

Next ==
  \/ \E c \in Calls : CallStep(c)
  \/ \E e \in Entries : DialStep(e)
  \/ \E h \in Hosts : ConfigStep(h)
  \/ \E x \in Conns : CloseConn(x)
  \/ Collect \/ \E names \in pruning : Retain(names)
  \/ Close

Spec == Init /\ [][Next]_vars

\* A dial ends (it has a time limit), and collections go on: a dashboard is open.
Fairness ==
  /\ \A e \in Entries : WF_vars(DialEnds(e))
  /\ WF_vars(Collect)
  /\ WF_vars(\E names \in pruning : Retain(names))

FairSpec == Spec /\ Fairness

-----------------------------------------------------------------------------
EntryType ==
  [host : Hosts \cup {NoHost}, conn : Conns \cup {NoConn}, failed : BOOLEAN,
   dial : {"none", "started", "dialing"}, with : 0 .. MaxVersion]

ConnType == [open : BOOLEAN, with : 0 .. MaxVersion]

CallType ==
  [at : {"idle", "known", "waiting", "answered", "running"}, host : Hosts \cup {NoHost},
   entry : Entries \cup {NoEntry}, conn : Conns \cup {NoConn}, since : 0 .. MaxVersion]

TypeOK ==
  /\ configured \in SUBSET Hosts /\ details \in [Hosts -> 0 .. MaxVersion]
  /\ owed \in SUBSET Hosts /\ pruning \in SUBSET SUBSET Hosts
  /\ hosts \in [Hosts -> Entries \cup {NoEntry}]
  /\ entry \in [Entries -> EntryType]
  /\ closed \in BOOLEAN
  /\ conn \in [Conns -> ConnType] /\ doomed \in SUBSET Conns
  /\ call \in [Calls -> CallType]
  /\ \A c \in Calls : call[c].at = "running" <=> call[c].conn # NoConn
  /\ settled \in [Hosts -> 0 .. MaxVersion]

\* No connection is lost: one that is open is what its host's calls are given,
\* or somebody is about to close it, and the first of these ends with Close.
NoLeak ==
  \A x \in Conns : conn[x].open => x \in doomed \/ (~closed /\ \E h \in Hosts : Link(h) = x)

\* "So the next collection dials it with the new details": a call made after
\* an edit was answered is given no connection dialed with what the edit
\* replaced, unless it is closed already.
FreshDetails ==
  [][\A c \in Calls :
       (call'[c].at = "running" /\ call[c].at # "running")
         => LET x == conn[call'[c].conn] IN x.open => x.with >= call[c].since]_vars

\* The pool keeps the promise of HostLinks.
Links == INSTANCE HostLinks WITH
  link <- [h \in Hosts |-> Link(h)], open <- {x \in Conns : conn[x].open}
LinksSpec == Links!Spec

\* A caller that waits for a dial is told, also when the dial's result is
\* not wanted any more.
WaitersEnd == \A c \in Calls : []<>(call[c].at # "waiting")

\* The connection of a host that was removed goes, even one that was dialed
\* after the removal.
RemovedDisconnected ==
  \A h \in Hosts : []<>(h \in configured \/ Link(h) = NoConn)
=============================================================================

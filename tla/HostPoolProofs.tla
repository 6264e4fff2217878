---------------------------- MODULE HostPoolProofs ----------------------------
(***************************************************************************)
(* What the execution pool guarantees for any hosts, callers, connections  *)
(* and edits: it keeps the promise of HostLinks, loses no connection, and  *)
(* gives no caller one made with details that an edit replaced.  And what  *)
(* the launches of tasks on those hosts guarantee for any requests,        *)
(* windows, names and conversations.                                       *)
(***************************************************************************)
EXTENDS HostPool, TaskLaunch, FiniteSetTheorems, TLAPS

\* A caller past known() has a host, one that waits for a dial an entry, and
\* a dial is of a host.
CallsOK ==
  /\ call \in [Calls -> CallType]
  /\ \A c \in Calls :
       /\ call[c].at = "running" <=> call[c].conn # NoConn
       /\ call[c].at # "idle" => call[c].host \in Hosts
       /\ call[c].at \in {"waiting", "answered"} => call[c].entry \in Entries

EntriesOK ==
  /\ entry \in [Entries -> EntryType]
  /\ \A e \in Entries : entry[e].dial # "none" => entry[e].host \in Hosts

ConfOK ==
  /\ configured \in SUBSET Hosts /\ details \in [Hosts -> 0 .. MaxVersion]
  /\ owed \in SUBSET Hosts /\ pruning \in SUBSET SUBSET Hosts
  /\ settled \in [Hosts -> 0 .. MaxVersion]

PoolOK ==
  /\ hosts \in [Hosts -> Entries \cup {NoEntry}] /\ closed \in BOOLEAN
  /\ conn \in [Conns -> ConnType] /\ doomed \in SUBSET Conns

\* What the pool has for a host, and what a caller waits for, is of that host.
Owners ==
  /\ \A h \in Hosts : hosts[h] # NoEntry => entry[hosts[h]].host = h
  /\ \A c \in Calls :
       call[c].at \in {"waiting", "answered"} => entry[call[c].entry].host = call[c].host

TypeInv == CallsOK /\ EntriesOK /\ ConfOK /\ PoolOK /\ Owners

LEMMA TypeInvTypes == TypeInv => TypeOK
BY DEF TypeInv, CallsOK, EntriesOK, ConfOK, PoolOK, TypeOK

-----------------------------------------------------------------------------
(* Records and their changes                                               *)

LEMMA NewRecords == NewEntry \in EntryType /\ NewConn \in ConnType /\ NoCall \in CallType
BY HostPoolAssumption DEF NewEntry, NewConn, NoCall, EntryType, ConnType, CallType

LEMMA EntryChanges ==
  ASSUME NEW r \in EntryType
  PROVE  /\ \A d \in {"none", "started", "dialing"} : [r EXCEPT !.dial = d] \in EntryType
         /\ \A v \in 0 .. MaxVersion : [r EXCEPT !.dial = "dialing", !.with = v] \in EntryType
         /\ [r EXCEPT !.conn = NoConn] \in EntryType
         /\ \A x \in Conns \cup {NoConn} :
              [r EXCEPT !.dial = "none", !.with = 0, !.failed = FALSE, !.conn = x] \in EntryType
         /\ \A b \in BOOLEAN : [r EXCEPT !.dial = "none", !.with = 0, !.failed = b] \in EntryType
<1>0. 0 \in 0 .. MaxVersion
  BY HostPoolAssumption
<1>1. \A d \in {"none", "started", "dialing"} : [r EXCEPT !.dial = d] \in EntryType
  BY DEF EntryType
<1>2. \A v \in 0 .. MaxVersion : [r EXCEPT !.dial = "dialing", !.with = v] \in EntryType
  BY DEF EntryType
<1>3. [r EXCEPT !.conn = NoConn] \in EntryType
  BY DEF EntryType
<1>4. ASSUME NEW x \in Conns \cup {NoConn}
      PROVE  [r EXCEPT !.dial = "none", !.with = 0, !.failed = FALSE, !.conn = x] \in EntryType
  BY <1>0 DEF EntryType
<1>5. ASSUME NEW b \in BOOLEAN
      PROVE  [r EXCEPT !.dial = "none", !.with = 0, !.failed = b] \in EntryType
  BY <1>0 DEF EntryType
<1> QED BY <1>1, <1>2, <1>3, <1>4, <1>5

LEMMA CallChanges ==
  ASSUME NEW r \in CallType
  PROVE  /\ [r EXCEPT !.at = "answered"] \in CallType
         /\ \A x \in Conns \cup {NoConn} :
              [r EXCEPT !.at = "running", !.entry = NoEntry, !.conn = x, !.since = 0] \in CallType
         /\ \A e \in Entries : [r EXCEPT !.at = "waiting", !.entry = e] \in CallType
         /\ \A h \in Hosts, v \in 0 .. MaxVersion :
              [NoCall EXCEPT !.at = "known", !.host = h, !.since = v] \in CallType
<1>0. 0 \in 0 .. MaxVersion
  BY HostPoolAssumption
<1>1. [r EXCEPT !.at = "answered"] \in CallType
  BY DEF CallType
<1>2. ASSUME NEW x \in Conns \cup {NoConn}
      PROVE  [r EXCEPT !.at = "running", !.entry = NoEntry, !.conn = x, !.since = 0] \in CallType
  BY <1>0 DEF CallType
<1>3. \A e \in Entries : [r EXCEPT !.at = "waiting", !.entry = e] \in CallType
  BY DEF CallType
<1>4. ASSUME NEW h \in Hosts, NEW v \in 0 .. MaxVersion
      PROVE  [NoCall EXCEPT !.at = "known", !.host = h, !.since = v] \in CallType
  BY <1>0 DEF CallType, NoCall
<1> QED BY <1>1, <1>2, <1>3, <1>4

\* What is left of the entries once those nothing refers to are gone.
LEMMA CollectedKeeps ==
  ASSUME NEW after \in [Entries -> EntryType], Collected(after)
  PROVE  /\ entry' \in [Entries -> EntryType]
         /\ \A e \in Entries :
              /\ entry'[e] \in {after[e], NewEntry}
              /\ after[e].dial # "none" \/ Referred(e)' => entry'[e] = after[e]
BY NewRecords DEF Collected

-----------------------------------------------------------------------------
(* Where a caller goes                                                     *)

LEMMA AskedOK ==
  ASSUME CallsOK, ConfOK, NEW c \in Calls, NEW h \in Hosts, Ask(c, h)
  PROVE  /\ CallsOK'
         /\ call'[c].at = "known" /\ call'[c].host = h /\ call'[c].conn = NoConn
         /\ call'[c].since = settled[h]
         /\ \A d \in Calls \ {c} : call'[d] = call[d]
<1> DEFINE q == [NoCall EXCEPT !.at = "known", !.host = h, !.since = settled[h]]
<1>1. q \in CallType
  BY CallChanges DEF CallsOK, ConfOK
<1>2. q.at = "known" /\ q.host = h /\ q.conn = NoConn /\ q.since = settled[h]
  BY DEF NoCall
<1>3. call' = [call EXCEPT ![c] = q]
  BY DEF Ask
<1> HIDE DEF q
<1> QED BY <1>1, <1>2, <1>3 DEF CallsOK

LEMMA FailsOK ==
  ASSUME CallsOK, NEW c \in Calls, Fails(c)
  PROVE  /\ CallsOK'
         /\ call'[c].at = "idle" /\ call'[c].conn = NoConn
         /\ \A d \in Calls \ {c} : call'[d] = call[d]
<1>1. NoCall \in CallType /\ NoCall.at = "idle" /\ NoCall.conn = NoConn
  BY NewRecords DEF NoCall
<1> QED BY <1>1 DEF CallsOK, Fails

LEMMA RunsOK ==
  ASSUME CallsOK, NEW c \in Calls, call[c].at # "idle", NEW x \in Conns, Runs(c, x)
  PROVE  /\ CallsOK'
         /\ call'[c].at = "running" /\ call'[c].host = call[c].host /\ call'[c].conn = x
         /\ \A d \in Calls \ {c} : call'[d] = call[d]
<1> DEFINE q == [call[c] EXCEPT !.at = "running", !.entry = NoEntry, !.conn = x, !.since = 0]
<1>1. q \in CallType /\ x # NoConn
  BY CallChanges, HostPoolAssumption DEF CallsOK
<1>2. q.at = "running" /\ q.host = call[c].host /\ q.conn = x
  BY DEF CallsOK, CallType
<1>3. call' = [call EXCEPT ![c] = q]
  BY DEF Runs
<1> HIDE DEF q
<1> QED BY <1>1, <1>2, <1>3 DEF CallsOK

LEMMA WaitsForOK ==
  ASSUME CallsOK, NEW c \in Calls, call[c].at = "known", NEW e \in Entries, WaitsFor(c, e)
  PROVE  /\ CallsOK'
         /\ call'[c].at = "waiting" /\ call'[c].host = call[c].host /\ call'[c].conn = NoConn
         /\ call'[c].entry = e /\ call'[c].since = call[c].since
         /\ \A d \in Calls \ {c} : call'[d] = call[d]
<1> DEFINE q == [call[c] EXCEPT !.at = "waiting", !.entry = e]
<1>1. q \in CallType
  BY CallChanges DEF CallsOK
<1>2. q.at = "waiting" /\ q.host = call[c].host /\ q.entry = e /\ q.conn = NoConn
      /\ q.since = call[c].since
  BY DEF CallsOK, CallType
<1>3. call' = [call EXCEPT ![c] = q]
  BY DEF WaitsFor
<1> HIDE DEF q
<1> QED BY <1>1, <1>2, <1>3 DEF CallsOK

LEMMA TellOK ==
  ASSUME CallsOK, NEW e \in Entries, Tell(e)
  PROVE  /\ CallsOK'
         /\ \A c \in Calls :
              /\ call'[c].at = IF Waits(c, e) THEN "answered" ELSE call[c].at
              /\ call'[c].host = call[c].host /\ call'[c].entry = call[c].entry
              /\ call'[c].conn = call[c].conn /\ call'[c].since = call[c].since
<1> DEFINE q(c) == [call[c] EXCEPT !.at = "answered"]
<1>1. ASSUME NEW c \in Calls, Waits(c, e)
      PROVE  /\ q(c) \in CallType
             /\ q(c).at = "answered" /\ q(c).host = call[c].host
             /\ q(c).entry = call[c].entry /\ q(c).conn = call[c].conn
             /\ q(c).since = call[c].since
             /\ call[c].conn = NoConn /\ call[c].host \in Hosts /\ call[c].entry \in Entries
  <2>1. call[c] \in CallType
    BY DEF CallsOK
  <2>2. q(c) \in CallType
    BY <2>1, CallChanges
  <2>3. /\ q(c).at = "answered" /\ q(c).host = call[c].host
        /\ q(c).entry = call[c].entry /\ q(c).conn = call[c].conn
        /\ q(c).since = call[c].since
    BY <2>1 DEF CallType
  <2>4. call[c].conn = NoConn /\ call[c].host \in Hosts /\ call[c].entry \in Entries
    BY <1>1 DEF CallsOK, Waits
  <2> QED BY <2>2, <2>3, <2>4
<1>2. call' = [c \in Calls |-> IF Waits(c, e) THEN q(c) ELSE call[c]]
  BY DEF Tell
<1>3. ASSUME NEW c \in Calls
      PROVE  call'[c] = IF Waits(c, e) THEN q(c) ELSE call[c]
  BY <1>2
<1>4. call' \in [Calls -> CallType]
  BY <1>1, <1>2 DEF CallsOK
<1> HIDE DEF q
<1> QED BY <1>1, <1>3, <1>4 DEF CallsOK

-----------------------------------------------------------------------------
(* Types                                                                   *)

LEMMA CollectedOK ==
  ASSUME NEW after \in [Entries -> EntryType],
         \A e \in Entries : after[e].dial # "none" => after[e].host \in Hosts,
         Collected(after)
  PROVE  EntriesOK'
<1>1. NewEntry.dial = "none"
  BY DEF NewEntry
<1>2. /\ entry' \in [Entries -> EntryType]
      /\ \A e \in Entries : entry'[e] \in {after[e], NewEntry}
  BY CollectedKeeps
<1> QED BY <1>1, <1>2 DEF EntriesOK

LEMMA AnyOfOne == ASSUME NEW those, those # {} PROVE AnyOf(those) \in those
BY DEF AnyOf

LEMMA DialingOK ==
  ASSUME NEW h \in Hosts
  PROVE  /\ Dialing(h) \in EntryType /\ Dialing(h).dial = "started" /\ Dialing(h).host = h
         /\ Dialing(h).conn = NoConn
<1>1. 0 \in 0 .. MaxVersion
  BY HostPoolAssumption
<1> QED BY <1>1 DEF Dialing, NewEntry, EntryType

LEMMA ConnectTypes ==
  ASSUME TypeInv, NEW c \in Calls, Connect(c)
  PROVE  TypeInv'
<1> DEFINE h == call[c].host
           e == hosts[h]
<1>1. /\ h \in Hosts /\ call[c].at = "known"
      /\ e \in Entries \cup {NoEntry} /\ (e # NoEntry => entry[e].host = h)
  BY DEF Connect, TypeInv, CallsOK, PoolOK, Owners
<1>2. ConfOK' /\ UNCHANGED <<closed, conn, doomed>>
  BY DEF Connect, TypeInv, ConfOK, confVars
<1> USE DEF TypeInv
<1>3. CASE Fails(c) /\ UNCHANGED <<hosts, entry>>
  <2>1. EntriesOK' /\ PoolOK'
    BY <1>2, <1>3 DEF EntriesOK, PoolOK
  <2>2. CallsOK' /\ Owners'
    BY <1>3, FailsOK DEF Owners
  <2> QED BY <1>2, <2>1, <2>2
<1>4. CASE /\ Free # {}
           /\ hosts' = [hosts EXCEPT ![h] = AnyOf(Free)]
           /\ entry' = [entry EXCEPT ![AnyOf(Free)] = Dialing(h)]
           /\ WaitsFor(c, AnyOf(Free))
  <2> DEFINE n == AnyOf(Free)
  <2>1. n \in Entries /\ entry[n].host = NoHost
    <3>1. n \in Free
      BY <1>4, AnyOfOne
    <3> HIDE DEF n
    <3> QED BY <3>1 DEF Free, NewEntry
  <2>2. CallsOK' /\ call'[c].entry = n /\ call'[c].host = h /\ \A d \in Calls \ {c} : call'[d] = call[d]
    BY <1>1, <1>4, <2>1, WaitsForOK
  <2>3. hosts' \in [Hosts -> Entries \cup {NoEntry}]
    BY <1>1, <1>4, <2>1 DEF PoolOK
  <2>4. entry'[n] = Dialing(h) /\ \A f \in Entries \ {n} : entry'[f] = entry[f]
    BY <1>4, <2>1 DEF EntriesOK
  <2>5. EntriesOK'
    <3>1. entry' \in [Entries -> EntryType]
      BY <1>1, <1>4, <2>1, DialingOK DEF EntriesOK
    <3>2. \A f \in Entries : entry'[f].dial # "none" => entry'[f].host \in Hosts
      BY <1>1, <2>4, DialingOK DEF EntriesOK
    <3> QED BY <3>1, <3>2 DEF EntriesOK
  <2>6. ASSUME NEW g \in Hosts, hosts'[g] # NoEntry
        PROVE  entry'[hosts'[g]].host = g
    <3>1. CASE g = h
      BY <1>1, <1>4, <2>4, <3>1, DialingOK DEF PoolOK
    <3>2. CASE g # h
      BY <1>1, <1>4, <2>1, <2>4, <2>6, <3>2, HostPoolAssumption DEF PoolOK, Owners
    <3> QED BY <3>1, <3>2
  <2>7. ASSUME NEW d \in Calls, call'[d].at \in {"waiting", "answered"}
        PROVE  entry'[call'[d].entry].host = call'[d].host
    <3>1. CASE d = c
      BY <1>1, <2>2, <2>4, <3>1, DialingOK
    <3>2. CASE d # c
      <4>1. /\ call[d].entry \in Entries /\ call[d].host \in Hosts
            /\ entry[call[d].entry].host = call[d].host
        BY <2>2, <2>7, <3>2 DEF CallsOK, Owners
      <4> QED BY <2>1, <2>2, <2>4, <3>2, <4>1, HostPoolAssumption
    <3> QED BY <3>1, <3>2
  <2> QED BY <1>2, <2>2, <2>3, <2>5, <2>6, <2>7 DEF PoolOK, Owners
<1>5. CASE e # NoEntry /\ entry[e].conn # NoConn /\ Runs(c, entry[e].conn) /\ UNCHANGED <<hosts, entry>>
  <2>1. entry[e].conn \in Conns
    BY <1>1, <1>5 DEF EntriesOK, EntryType
  <2>2. CallsOK' /\ Owners'
    BY <1>1, <1>5, <2>1, RunsOK DEF Owners
  <2> QED BY <1>2, <1>5, <2>2 DEF EntriesOK, PoolOK
<1>6. CASE e # NoEntry /\ WaitsFor(c, e) /\ UNCHANGED <<hosts, entry>>
  <2>1. CallsOK' /\ Owners'
    BY <1>1, <1>6, WaitsForOK DEF Owners
  <2> QED BY <1>2, <1>6, <2>1 DEF EntriesOK, PoolOK
<1>7. CASE /\ e # NoEntry /\ WaitsFor(c, e) /\ UNCHANGED hosts
           /\ entry' = [entry EXCEPT ![e].dial = "started"]
  <2>1. EntriesOK' /\ \A f \in Entries : entry'[f].host = entry[f].host
    <3> DEFINE q == [entry[e] EXCEPT !.dial = "started"]
    <3>1. q \in EntryType /\ q.host = entry[e].host
      <4>1. entry[e] \in EntryType
        BY <1>1, <1>7 DEF EntriesOK
      <4>2. \A r \in EntryType : [r EXCEPT !.dial = "started"].host = r.host
        BY DEF EntryType
      <4> QED BY <4>1, <4>2, EntryChanges
    <3>2. entry' = [entry EXCEPT ![e] = q]
      BY <1>7
    <3> HIDE DEF q
    <3>3. /\ entry'[e] = q /\ \A f \in Entries \ {e} : entry'[f] = entry[f]
          /\ entry' \in [Entries -> EntryType]
      BY <1>1, <1>7, <3>1, <3>2 DEF EntriesOK
    <3> QED BY <1>1, <1>7, <3>1, <3>3 DEF EntriesOK
  <2>2. /\ CallsOK' /\ call'[c].entry = e /\ call'[c].host = h
        /\ \A d \in Calls \ {c} : call'[d] = call[d]
    BY <1>1, <1>7, WaitsForOK
  <2>3. Owners'
    BY <1>1, <1>7, <2>1, <2>2 DEF Owners, CallsOK, PoolOK
  <2> QED BY <1>2, <1>7, <2>1, <2>2, <2>3 DEF PoolOK
<1> QED BY <1>3, <1>4, <1>5, <1>6, <1>7 DEF Connect

\* What the pool has and what callers wait for stays when the rest is gone.
LEMMA CollectedOwners ==
  ASSUME CallsOK', hosts' \in [Hosts -> Entries \cup {NoEntry}],
         NEW after \in [Entries -> EntryType],
         \A e \in Entries : after[e].dial # "none" => after[e].host \in Hosts,
         \A h \in Hosts : hosts'[h] # NoEntry => after[hosts'[h]].host = h,
         \A c \in Calls : call'[c].at \in {"waiting", "answered"}
                            => after[call'[c].entry].host = call'[c].host,
         Collected(after)
  PROVE  /\ EntriesOK' /\ Owners'
         /\ \A h \in Hosts : hosts'[h] # NoEntry => entry'[hosts'[h]] = after[hosts'[h]]
         /\ \A c \in Calls : call'[c].at \in {"waiting", "answered"}
                               => entry'[call'[c].entry] = after[call'[c].entry]
         /\ \A e \in Entries : /\ entry'[e] \in {after[e], NewEntry}
                               /\ after[e].dial # "none" => entry'[e] = after[e]
<1>1. EntriesOK'
  BY CollectedOK
<1>2. \A e \in Entries : /\ entry'[e] \in {after[e], NewEntry}
                         /\ after[e].dial # "none" \/ Referred(e)' => entry'[e] = after[e]
  BY CollectedKeeps
<1>3. \A h \in Hosts : hosts'[h] # NoEntry => entry'[hosts'[h]] = after[hosts'[h]]
  BY <1>2 DEF Referred
<1>4. ASSUME NEW c \in Calls, call'[c].at \in {"waiting", "answered"}
      PROVE  entry'[call'[c].entry] = after[call'[c].entry]
  <2>1. call'[c].entry \in Entries
    BY <1>4 DEF CallsOK
  <2>2. \A e \in Entries : call'[c].entry = e => Referred(e)'
    BY <1>4 DEF Referred, Waits
  <2> QED BY <1>2, <2>1, <2>2
<1>5. Owners'
  BY <1>3, <1>4 DEF Owners
<1> QED BY <1>1, <1>2, <1>3, <1>4, <1>5

LEMMA StopWaitingTypes ==
  ASSUME TypeInv, NEW c \in Calls, StopWaiting(c)
  PROVE  TypeInv'
<1> USE DEF TypeInv
<1>1. CallsOK' /\ call'[c].at = "idle" /\ \A d \in Calls \ {c} : call'[d] = call[d]
  BY FailsOK DEF StopWaiting
<1>2. ConfOK' /\ PoolOK' /\ hosts' = hosts /\ Collected(entry)
  BY DEF StopWaiting, ConfOK, PoolOK, confVars
<1>3. EntriesOK' /\ Owners'
  BY <1>1, <1>2, CollectedOwners DEF EntriesOK, Owners, PoolOK
<1> QED BY <1>1, <1>2, <1>3

LEMMA AnsweredTypes ==
  ASSUME TypeInv, NEW c \in Calls, Answered(c)
  PROVE  TypeInv'
<1> DEFINE x == entry[call[c].entry].conn
<1> USE DEF TypeInv
<1>1. x \in Conns \cup {NoConn} /\ call[c].at = "answered"
  BY DEF Answered, CallsOK, EntriesOK, EntryType
<1>2. /\ CallsOK' /\ call'[c].at \in {"idle", "running"}
      /\ \A d \in Calls \ {c} : call'[d] = call[d]
  <2>1. CASE x # NoConn
    BY <1>1, <2>1, RunsOK DEF Answered, Got
  <2>2. CASE x = NoConn
    BY <1>1, <2>2, FailsOK DEF Answered, Got
  <2> QED BY <2>1, <2>2
<1>3. ConfOK' /\ PoolOK' /\ hosts' = hosts /\ Collected(entry)
  BY DEF Answered, ConfOK, PoolOK, confVars
<1>4. EntriesOK' /\ Owners'
  BY <1>2, <1>3, CollectedOwners DEF EntriesOK, Owners, PoolOK
<1> QED BY <1>2, <1>3, <1>4

LEMMA FinishTypes ==
  ASSUME TypeInv, NEW c \in Calls, Finish(c)
  PROVE  TypeInv'
<1> USE DEF TypeInv
<1>1. CallsOK' /\ call'[c].at = "idle" /\ \A d \in Calls \ {c} : call'[d] = call[d]
  BY FailsOK DEF Finish
<1>2. ConfOK' /\ PoolOK' /\ EntriesOK'
  BY DEF Finish, ConfOK, PoolOK, EntriesOK, confVars, poolVars
<1>3. Owners'
  BY <1>1 DEF Finish, Owners, poolVars
<1> QED BY <1>1, <1>2, <1>3

\* A drop takes its host's connection away, or changes no entry.
LEMMA DroppedEntries ==
  ASSUME TypeInv, NEW h \in Hosts, NEW x \in Conns, entry' = Dropped(h, x)
  PROVE  /\ EntriesOK'
         /\ \A e \in Entries :
              \/ entry'[e] = entry[e] /\ ~(hosts[h] = e /\ entry[e].conn = x)
              \/ /\ hosts[h] = e /\ entry[e].conn = x /\ entry'[e].conn = NoConn
                 /\ entry'[e].host = entry[e].host /\ entry'[e].dial = entry[e].dial
                 /\ entry'[e].with = entry[e].with
<1> USE DEF TypeInv
<1>1. CASE hosts[h] # NoEntry /\ Link(h) = x
  <2> DEFINE e == hosts[h]
             q == [entry[e] EXCEPT !.conn = NoConn]
  <2>1. e \in Entries /\ entry[e] \in EntryType /\ entry[e].conn = x
    BY <1>1 DEF PoolOK, EntriesOK, Link
  <2>2. \A r \in EntryType : /\ [r EXCEPT !.conn = NoConn].conn = NoConn
                             /\ [r EXCEPT !.conn = NoConn].host = r.host
                             /\ [r EXCEPT !.conn = NoConn].dial = r.dial
                             /\ [r EXCEPT !.conn = NoConn].with = r.with
    BY DEF EntryType
  <2>3. /\ q \in EntryType /\ q.conn = NoConn /\ q.host = entry[e].host
        /\ q.dial = entry[e].dial /\ q.with = entry[e].with
    BY <2>1, <2>2, EntryChanges
  <2>4. entry' = [entry EXCEPT ![e] = q]
    BY <1>1 DEF Dropped
  <2> HIDE DEF q
  <2>5. /\ entry'[e] = q /\ \A f \in Entries \ {e} : entry'[f] = entry[f]
        /\ entry' \in [Entries -> EntryType]
    BY <2>1, <2>3, <2>4 DEF EntriesOK
  <2> QED BY <2>1, <2>3, <2>5 DEF EntriesOK
<1>2. CASE ~(hosts[h] # NoEntry /\ Link(h) = x)
  <2>1. entry' = entry
    BY <1>2 DEF Dropped
  <2>2. \A e \in Entries : ~(hosts[h] = e /\ entry[e].conn = x)
    BY <1>2, HostPoolAssumption DEF Link
  <2> QED BY <2>1, <2>2 DEF EntriesOK
<1> QED BY <1>1, <1>2

LEMMA DropTypes ==
  ASSUME TypeInv, NEW c \in Calls, Drop(c)
  PROVE  TypeInv'
<1> USE DEF TypeInv
<1>1. CallsOK' /\ call'[c].at = "idle" /\ \A d \in Calls \ {c} : call'[d] = call[d]
  BY FailsOK DEF Drop
<1>2. call[c].host \in Hosts /\ call[c].conn \in Conns
  BY DEF Drop, CallsOK, CallType
<1>3. EntriesOK' /\ \A e \in Entries : entry'[e].host = entry[e].host
  BY <1>2, DroppedEntries DEF Drop
<1>4. ConfOK' /\ PoolOK' /\ hosts' = hosts
  BY <1>2 DEF Drop, ConfOK, PoolOK, Opened, confVars
<1>5. Owners'
  BY <1>1, <1>3, <1>4 DEF Owners, PoolOK, CallsOK
<1> QED BY <1>1, <1>3, <1>4, <1>5

LEMMA ReadDetailsTypes ==
  ASSUME TypeInv, NEW e \in Entries, ReadDetails(e)
  PROVE  /\ TypeInv'
         /\ \A f \in Entries \ {e} : entry'[f] = entry[f]
         /\ entry'[e].host = entry[e].host /\ entry'[e].conn = entry[e].conn
         /\ entry'[e].dial = "dialing" /\ entry'[e].with = details[entry[e].host]
<1> DEFINE v == details[entry[e].host]
           q == [entry[e] EXCEPT !.dial = "dialing", !.with = v]
<1> USE DEF TypeInv
<1>1. entry[e] \in EntryType /\ entry[e].host \in Hosts /\ v \in 0 .. MaxVersion
  BY DEF ReadDetails, EntriesOK, ConfOK
<1>2. /\ q \in EntryType /\ q.host = entry[e].host /\ q.conn = entry[e].conn
      /\ q.dial = "dialing" /\ q.with = v
  <2>1. \A r \in EntryType : /\ [r EXCEPT !.dial = "dialing", !.with = v].host = r.host
                             /\ [r EXCEPT !.dial = "dialing", !.with = v].conn = r.conn
                             /\ [r EXCEPT !.dial = "dialing", !.with = v].dial = "dialing"
                             /\ [r EXCEPT !.dial = "dialing", !.with = v].with = v
    BY DEF EntryType
  <2> QED BY <1>1, <2>1, EntryChanges
<1>3. entry' = [entry EXCEPT ![e] = q]
  BY DEF ReadDetails
<1> HIDE DEF q
<1>4. /\ entry'[e] = q /\ \A f \in Entries \ {e} : entry'[f] = entry[f]
      /\ entry' \in [Entries -> EntryType]
  BY <1>2, <1>3 DEF EntriesOK
<1>5. EntriesOK'
  BY <1>1, <1>2, <1>4 DEF EntriesOK
<1>6. ConfOK' /\ PoolOK' /\ CallsOK' /\ UNCHANGED <<hosts, call>>
  BY DEF ReadDetails, ConfOK, PoolOK, CallsOK, confVars
<1>7. Owners'
  BY <1>2, <1>4, <1>6 DEF Owners, CallsOK, PoolOK
<1> QED BY <1>2, <1>4, <1>5, <1>6, <1>7

\* The entries when a dial has ended, before those nothing refers to are gone.
Connected(e) ==
  [entry EXCEPT ![e].dial = "none", ![e].with = 0, ![e].failed = FALSE,
                ![e].conn = IF Wanted(e) THEN AnyOf(Unused) ELSE @]

Failed(e) == [entry EXCEPT ![e].dial = "none", ![e].with = 0, ![e].failed = @ \/ Wanted(e)]

LEMMA ConnectedEntries ==
  ASSUME TypeInv, NEW e \in Entries, Unused # {}
  PROVE  /\ AnyOf(Unused) \in Unused
         /\ Connected(e) \in [Entries -> EntryType]
         /\ \A f \in Entries \ {e} : Connected(e)[f] = entry[f]
         /\ Connected(e)[e].host = entry[e].host /\ Connected(e)[e].dial = "none"
         /\ Connected(e)[e].conn = IF Wanted(e) THEN AnyOf(Unused) ELSE entry[e].conn
<1> DEFINE x == IF Wanted(e) THEN AnyOf(Unused) ELSE entry[e].conn
           q == [entry[e] EXCEPT !.dial = "none", !.with = 0, !.failed = FALSE, !.conn = x]
<1>1. AnyOf(Unused) \in Unused
  BY AnyOfOne
<1>2. entry[e] \in EntryType
  BY DEF TypeInv, EntriesOK
<1>3. x \in Conns \cup {NoConn}
  BY <1>1, <1>2 DEF Unused, EntryType
<1>4. Connected(e) = [entry EXCEPT ![e] = q]
  BY DEF Connected
<1> HIDE DEF x
<1>5. q \in EntryType /\ q.host = entry[e].host /\ q.dial = "none" /\ q.conn = x
  <2>1. \A r \in EntryType :
          LET p == [r EXCEPT !.dial = "none", !.with = 0, !.failed = FALSE, !.conn = x]
          IN  p.host = r.host /\ p.dial = "none" /\ p.conn = x
    BY DEF EntryType
  <2> QED BY <1>2, <1>3, <2>1, EntryChanges
<1> HIDE DEF q
<1> QED BY <1>1, <1>4, <1>5 DEF TypeInv, EntriesOK, x

LEMMA FailedEntries ==
  ASSUME TypeInv, NEW e \in Entries
  PROVE  /\ Failed(e) \in [Entries -> EntryType]
         /\ \A f \in Entries \ {e} : Failed(e)[f] = entry[f]
         /\ Failed(e)[e].host = entry[e].host /\ Failed(e)[e].dial = "none"
         /\ Failed(e)[e].conn = entry[e].conn
<1> DEFINE b == entry[e].failed \/ Wanted(e)
           q == [entry[e] EXCEPT !.dial = "none", !.with = 0, !.failed = b]
<1>1. entry[e] \in EntryType
  BY DEF TypeInv, EntriesOK
<1>2. b \in BOOLEAN
  OBVIOUS
<1>3. Failed(e) = [entry EXCEPT ![e] = q]
  BY DEF Failed
<1> HIDE DEF b
<1>4. q \in EntryType /\ q.host = entry[e].host /\ q.dial = "none" /\ q.conn = entry[e].conn
  <2>1. \A r \in EntryType :
          LET p == [r EXCEPT !.dial = "none", !.with = 0, !.failed = b]
          IN  p.host = r.host /\ p.dial = "none" /\ p.conn = r.conn
    BY DEF EntryType
  <2> QED BY <1>1, <1>2, <2>1, EntryChanges
<1> HIDE DEF q
<1> QED BY <1>3, <1>4 DEF TypeInv, EntriesOK

\* What a caller waits for, and what the pool has, when a dial has ended.
LEMMA DialEndOwners ==
  ASSUME TypeInv, NEW e \in Entries, NEW after \in [Entries -> EntryType],
         \A f \in Entries \ {e} : after[f] = entry[f],
         after[e].host = entry[e].host, after[e].dial = "none",
         Tell(e), UNCHANGED hosts, Collected(after)
  PROVE  /\ CallsOK' /\ EntriesOK' /\ Owners'
         /\ \A h \in Hosts : hosts[h] # NoEntry => entry'[hosts[h]] = after[hosts[h]]
         /\ \A c \in Calls : call[c].at \in {"waiting", "answered"}
                               => entry'[call[c].entry] = after[call[c].entry]
         /\ \A f \in Entries : /\ entry'[f] \in {after[f], NewEntry}
                               /\ after[f].dial # "none" => entry'[f] = after[f]
<1> USE DEF TypeInv
<1>1. /\ CallsOK'
      /\ \A c \in Calls :
           /\ call'[c].at \in {"waiting", "answered"} <=> call[c].at \in {"waiting", "answered"}
           /\ call'[c].host = call[c].host /\ call'[c].entry = call[c].entry
  BY TellOK DEF Waits
<1>2. \A f \in Entries : /\ after[f].host = entry[f].host
                         /\ after[f].dial # "none" => after[f].host \in Hosts
  BY DEF EntriesOK
<1>3. hosts' \in [Hosts -> Entries \cup {NoEntry}]
  BY DEF PoolOK
<1>4. \A h \in Hosts : hosts'[h] # NoEntry => after[hosts'[h]].host = h
  BY <1>2 DEF Owners, PoolOK
<1>5. \A c \in Calls : call'[c].at \in {"waiting", "answered"}
                         => after[call'[c].entry].host = call'[c].host
  BY <1>1, <1>2 DEF Owners, CallsOK
<1>6. /\ EntriesOK' /\ Owners'
      /\ \A h \in Hosts : hosts'[h] # NoEntry => entry'[hosts'[h]] = after[hosts'[h]]
      /\ \A c \in Calls : call'[c].at \in {"waiting", "answered"}
                            => entry'[call'[c].entry] = after[call'[c].entry]
      /\ \A f \in Entries : /\ entry'[f] \in {after[f], NewEntry}
                            /\ after[f].dial # "none" => entry'[f] = after[f]
  BY <1>1, <1>2, <1>3, <1>4, <1>5, CollectedOwners
<1> QED BY <1>1, <1>6

LEMMA DialConnectsTypes ==
  ASSUME TypeInv, NEW e \in Entries, DialConnects(e)
  PROVE  TypeInv'
<1> USE DEF TypeInv
<1>1. /\ Unused # {} /\ Tell(e) /\ UNCHANGED hosts /\ Collected(Connected(e))
      /\ UNCHANGED <<confVars, closed, settled>>
  BY DEF DialConnects, Connected
<1>2. CallsOK' /\ EntriesOK' /\ Owners'
  BY <1>1, ConnectedEntries, DialEndOwners
<1>3. AnyOf(Unused) \in Conns /\ entry[e].with \in 0 .. MaxVersion
  BY <1>1, AnyOfOne DEF Unused, EntriesOK, EntryType
<1>4. conn' \in [Conns -> ConnType] /\ doomed' \in SUBSET Conns
  <2>1. [open |-> TRUE, with |-> entry[e].with] \in ConnType
    BY <1>3 DEF ConnType
  <2> QED BY <1>3, <2>1 DEF DialConnects, PoolOK
<1>5. ConfOK' /\ PoolOK'
  BY <1>1, <1>4 DEF ConfOK, PoolOK, confVars
<1> QED BY <1>2, <1>5

LEMMA DialFailsTypes ==
  ASSUME TypeInv, NEW e \in Entries, DialFails(e)
  PROVE  TypeInv'
<1> USE DEF TypeInv
<1>1. /\ Tell(e) /\ UNCHANGED hosts /\ Collected(Failed(e))
      /\ UNCHANGED <<confVars, closed, settled, conn, doomed>>
  BY DEF DialFails, Failed
<1>2. CallsOK' /\ EntriesOK' /\ Owners'
  BY <1>1, FailedEntries, DialEndOwners
<1>3. ConfOK' /\ PoolOK'
  BY <1>1 DEF ConfOK, PoolOK, confVars
<1> QED BY <1>2, <1>3

\* When hosts are forgotten, the others keep what they have.
LEMMA ForgetOwners ==
  ASSUME TypeInv, NEW those \in SUBSET Hosts, Forget(those)
  PROVE  /\ CallsOK' /\ EntriesOK' /\ Owners'
         /\ hosts' = [h \in Hosts |-> IF h \in those THEN NoEntry ELSE hosts[h]]
         /\ hosts' \in [Hosts -> Entries \cup {NoEntry}]
         /\ conn' = conn /\ call' = call /\ doomed' \in SUBSET Conns
         /\ \A h \in Hosts : hosts'[h] # NoEntry => entry'[hosts'[h]] = entry[hosts'[h]]
         /\ \A c \in Calls : call[c].at \in {"waiting", "answered"}
                               => entry'[call[c].entry] = entry[call[c].entry]
         /\ \A e \in Entries : /\ entry'[e] \in {entry[e], NewEntry}
                               /\ entry[e].dial # "none" => entry'[e] = entry[e]
<1> USE DEF TypeInv
<1>1. /\ hosts' = [h \in Hosts |-> IF h \in those THEN NoEntry ELSE hosts[h]]
      /\ call' = call /\ conn' = conn /\ Collected(entry)
      /\ doomed' = doomed \cup Opened({Link(h) : h \in those})
  BY DEF Forget
<1>2. CallsOK' /\ hosts' \in [Hosts -> Entries \cup {NoEntry}]
  BY <1>1 DEF CallsOK, PoolOK
<1>3. \A h \in Hosts : hosts'[h] # NoEntry => hosts'[h] = hosts[h]
  BY <1>1
<1>4. doomed' \in SUBSET Conns
  <2>1. \A h \in Hosts : Link(h) \in Conns \cup {NoConn}
    BY DEF Link, PoolOK, EntriesOK, EntryType
  <2> QED BY <1>1, <2>1 DEF Opened, PoolOK
<1>5. \A c \in Calls : call'[c].at \in {"waiting", "answered"}
                         => entry[call'[c].entry].host = call'[c].host
  BY <1>1 DEF Owners
<1>6. \A h \in Hosts : hosts'[h] # NoEntry => entry[hosts'[h]].host = h
  BY <1>3 DEF Owners
<1>7. /\ EntriesOK' /\ Owners'
      /\ \A h \in Hosts : hosts'[h] # NoEntry => entry'[hosts'[h]] = entry[hosts'[h]]
      /\ \A c \in Calls : call'[c].at \in {"waiting", "answered"}
                            => entry'[call'[c].entry] = entry[call'[c].entry]
      /\ \A e \in Entries : /\ entry'[e] \in {entry[e], NewEntry}
                            /\ entry[e].dial # "none" => entry'[e] = entry[e]
  BY <1>1, <1>2, <1>5, <1>6, CollectedOwners DEF EntriesOK
<1> QED BY <1>1, <1>2, <1>4, <1>7

LEMMA ReconnectTypes ==
  ASSUME TypeInv, NEW h \in Hosts, Reconnect(h)
  PROVE  TypeInv'
<1> USE DEF TypeInv
<1>1. UNCHANGED <<configured, details, pruning, closed>> /\ owed' \in SUBSET Hosts
  BY DEF Reconnect, ConfOK
<1>2. CASE Discard({h}) /\ settled' = [settled EXCEPT ![h] = details[h]]
  <2>1. settled' \in [Hosts -> 0 .. MaxVersion]
    BY <1>2 DEF ConfOK
  <2>2. CallsOK' /\ EntriesOK' /\ Owners' /\ PoolOK'
    BY <1>1, <1>2, ForgetOwners DEF Discard, PoolOK
  <2> QED BY <1>1, <2>1, <2>2 DEF ConfOK
<1>3. CASE UNCHANGED <<hosts, entry, conn, doomed, call, settled>>
  BY <1>1, <1>3 DEF ConfOK, CallsOK, EntriesOK, Owners, PoolOK
<1> QED BY <1>2, <1>3 DEF Reconnect

LEMMA RetainTypes ==
  ASSUME TypeInv, NEW those \in pruning, Retain(those)
  PROVE  TypeInv'
<1> USE DEF TypeInv
<1>1. CallsOK' /\ EntriesOK' /\ Owners' /\ PoolOK'
  BY ForgetOwners DEF Retain, PoolOK
<1>2. ConfOK'
  BY DEF Retain, ConfOK
<1> QED BY <1>1, <1>2

LEMMA CloseTypes == ASSUME TypeInv, Close PROVE TypeInv'
<1> USE DEF TypeInv
<1>1. CallsOK' /\ EntriesOK' /\ Owners' /\ PoolOK'
  BY ForgetOwners DEF Close, PoolOK
<1>2. ConfOK'
  BY DEF Close, ConfOK, confVars
<1> QED BY <1>1, <1>2

LEMMA CloseConnTypes ==
  ASSUME TypeInv, NEW x \in Conns, CloseConn(x)
  PROVE  TypeInv'
<1> USE DEF TypeInv
<1>1. PoolOK'
  BY NewRecords DEF CloseConn, PoolOK
<1>2. CallsOK' /\ EntriesOK' /\ Owners' /\ ConfOK'
  BY DEF CloseConn, CallsOK, EntriesOK, Owners, ConfOK, confVars
<1> QED BY <1>1, <1>2

\* Everything but the pool: what a handler or a collection does before it.
Configures == Collect \/ \E h \in Hosts : Edit(h) \/ AskReconnect(h) \/ Add(h) \/ Remove(h)

LEMMA ConfiguresTypes ==
  ASSUME TypeInv, Configures
  PROVE  TypeInv' /\ UNCHANGED <<poolVars, call, settled>>
         /\ \A h \in Hosts : details'[h] >= details[h]
<1> USE DEF TypeInv
<1>1. UNCHANGED <<poolVars, call, settled>>
  BY DEF Configures, Collect, Edit, AskReconnect, Add, Remove
<1>2. CallsOK' /\ EntriesOK' /\ Owners' /\ PoolOK'
  BY <1>1 DEF CallsOK, EntriesOK, Owners, PoolOK, poolVars
<1>3. configured' \in SUBSET Hosts /\ owed' \in SUBSET Hosts /\ pruning' \in SUBSET SUBSET Hosts
  BY DEF Configures, Collect, Edit, AskReconnect, Add, Remove, ConfOK
<1>4. details' \in [Hosts -> 0 .. MaxVersion] /\ \A h \in Hosts : details'[h] >= details[h]
  <2>1. CASE UNCHANGED details
    BY <2>1 DEF ConfOK
  <2>2. ASSUME NEW h \in Hosts, details[h] < MaxVersion, details' = [details EXCEPT ![h] = @ + 1]
        PROVE  details' \in [Hosts -> 0 .. MaxVersion] /\ \A g \in Hosts : details'[g] >= details[g]
    BY <2>2, HostPoolAssumption DEF ConfOK
  <2> QED BY <2>1, <2>2 DEF Configures, Collect, Edit, AskReconnect, Add, Remove
<1> QED BY <1>1, <1>2, <1>3, <1>4 DEF ConfOK

LEMMA AskTypes ==
  ASSUME TypeInv, NEW c \in Calls, NEW h \in Hosts, Ask(c, h)
  PROVE  TypeInv'
<1> USE DEF TypeInv
<1>1. CallsOK' /\ call'[c].at = "known" /\ \A d \in Calls \ {c} : call'[d] = call[d]
  BY AskedOK
<1>2. ConfOK' /\ PoolOK' /\ EntriesOK'
  BY DEF Ask, ConfOK, PoolOK, EntriesOK, confVars, poolVars
<1>3. Owners'
  BY <1>1 DEF Ask, Owners, poolVars
<1> QED BY <1>1, <1>2, <1>3

LEMMA InitTypes == Init => TypeInv
<1> SUFFICES ASSUME Init PROVE TypeInv
  OBVIOUS
<1>1. CallsOK
  BY NewRecords DEF Init, CallsOK, NoCall
<1>2. EntriesOK
  BY NewRecords DEF Init, EntriesOK, NewEntry
<1>3. ConfOK /\ PoolOK
  <2>1. 0 \in 0 .. MaxVersion
    BY HostPoolAssumption
  <2>2. ConfOK
    BY <2>1 DEF Init, ConfOK
  <2>3. PoolOK
    BY NewRecords DEF Init, PoolOK
  <2> QED BY <2>2, <2>3
<1>4. Owners
  BY DEF Init, Owners, NoCall
<1> QED BY <1>1, <1>2, <1>3, <1>4 DEF TypeInv

\* The steps of the pool and of its users, one by one.
LEMMA Steps ==
  ASSUME Next
  PROVE  \/ \E c \in Calls : \/ Connect(c) \/ StopWaiting(c) \/ Answered(c) \/ Finish(c) \/ Drop(c)
                             \/ \E h \in Hosts : Ask(c, h)
         \/ \E e \in Entries : ReadDetails(e) \/ DialConnects(e) \/ DialFails(e)
         \/ \E h \in Hosts : Reconnect(h)
         \/ \E x \in Conns : CloseConn(x)
         \/ \E those \in pruning : Retain(those)
         \/ Close \/ Configures
BY DEF Next, CallStep, DialStep, DialEnds, ConfigStep, Configures

LEMMA StepTypes == TypeInv /\ [Next]_vars => TypeInv'
<1> SUFFICES ASSUME TypeInv, [Next]_vars PROVE TypeInv'
  OBVIOUS
<1>1. CASE UNCHANGED vars
  BY <1>1 DEF vars, confVars, poolVars, TypeInv, CallsOK, EntriesOK, ConfOK, PoolOK, Owners
<1>2. CASE Next
  BY <1>2, Steps, ConnectTypes, StopWaitingTypes, AnsweredTypes, FinishTypes, DropTypes, AskTypes,
     ReadDetailsTypes, DialConnectsTypes, DialFailsTypes, ReconnectTypes, RetainTypes,
     CloseTypes, CloseConnTypes, ConfiguresTypes
<1> QED BY <1>1, <1>2

LEMMA TypesHold == Spec => []TypeInv
BY InitTypes, StepTypes, PTL DEF Spec

(***************************************************************************)
(* Every variable keeps its type, and a caller has a connection exactly    *)
(* while it runs a command: whatever a dial came to, a caller that waited  *)
(* for it never runs on nothing (connect, pool.go).                        *)
(***************************************************************************)
THEOREM PoolTypeCorrect == Spec => []TypeOK
BY TypesHold, TypeInvTypes, PTL

-----------------------------------------------------------------------------
(* Connections                                                             *)

(***************************************************************************)
(* A connection is in one entry, and only calls of that entry's host run   *)
(* on it; an entry being dialed has none.                                  *)
(***************************************************************************)
Apart ==
  /\ \A e \in Entries : entry[e].dial # "none" => entry[e].conn = NoConn
  /\ \A e, f \in Entries : (entry[e].conn = entry[f].conn /\ entry[e].conn # NoConn) => e = f
  /\ \A e \in Entries, c \in Calls :
       (call[c].at = "running" /\ entry[e].conn = call[c].conn) => entry[e].host = call[c].host

(***************************************************************************)
(* What hosts are given is open and nobody closes it, everything else that *)
(* is open is about to be closed, and a closed pool has nothing.           *)
(***************************************************************************)
Whole ==
  /\ \A h \in Hosts : Link(h) # NoConn => conn[Link(h)].open /\ Link(h) \notin doomed
  /\ \A x \in doomed : conn[x].open
  /\ \A x \in Conns : conn[x].open => x \in doomed \/ \E h \in Hosts : Link(h) = x
  /\ closed => \A h \in Hosts : hosts[h] = NoEntry

ConnInv == TypeInv /\ Apart /\ Whole

\* Entries lose connections, and callers stop running.
LEMMA ApartShrinks ==
  ASSUME Apart,
         \A e \in Entries :
           /\ entry'[e].dial # "none" => entry'[e].conn = NoConn
           /\ entry'[e].conn # NoConn => /\ entry'[e].conn = entry[e].conn
                                         /\ entry'[e].host = entry[e].host,
         CallsOK, CallsOK',
         \A c \in Calls : call'[c].at = "running" => call'[c] = call[c]
  PROVE  Apart'
<1>1. \A e, f \in Entries : (entry'[e].conn = entry'[f].conn /\ entry'[e].conn # NoConn) => e = f
  BY DEF Apart
<1>2. ASSUME NEW e \in Entries, NEW c \in Calls,
             call'[c].at = "running", entry'[e].conn = call'[c].conn
      PROVE  entry'[e].host = call'[c].host
  <2>1. call'[c] = call[c] /\ call[c].conn # NoConn
    BY <1>2 DEF CallsOK
  <2> QED BY <1>2, <2>1 DEF Apart
<1> QED BY <1>1, <1>2 DEF Apart

\* A step that gives and takes no host's connection, and opens and closes none.
Quiet ==
  /\ \A h \in Hosts : Link(h)' = Link(h)
  /\ UNCHANGED <<conn, doomed, closed>>
  /\ closed => hosts' = hosts

LEMMA QuietWhole == ASSUME Whole, TypeInv, Quiet PROVE Whole'
BY DEF Whole, Quiet

LEMMA LinkTypes == ASSUME TypeInv PROVE \A h \in Hosts : Link(h) \in Conns \cup {NoConn}
BY DEF Link, TypeInv, PoolOK, EntriesOK, EntryType

LEMMA ConnectKeeps ==
  ASSUME ConnInv, NEW c \in Calls, Connect(c)
  PROVE  Quiet /\ Apart'
<1> DEFINE h == call[c].host
           e == hosts[h]
<1> USE DEF ConnInv
<1>1. /\ h \in Hosts /\ call[c].at = "known"
      /\ e \in Entries \cup {NoEntry} /\ (e # NoEntry => entry[e].host = h)
  <2>1. call[c].at = "known"
    BY DEF Connect
  <2>2. h \in Hosts
    BY <2>1 DEF TypeInv, CallsOK
  <2> HIDE DEF h
  <2>3. e \in Entries \cup {NoEntry}
    BY <2>2 DEF TypeInv, PoolOK
  <2>4. e # NoEntry => entry[e].host = h
    BY <2>2 DEF TypeInv, Owners
  <2> QED BY <2>1, <2>2, <2>3, <2>4 DEF h
<1>2. UNCHANGED <<closed, conn, doomed>> /\ TypeInv'
  BY ConnectTypes DEF Connect
<1>3. CASE Fails(c) /\ UNCHANGED <<hosts, entry>>
  <2>1. Apart'
    BY <1>2, <1>3, ApartShrinks, FailsOK DEF Apart, TypeInv
  <2> QED BY <1>2, <1>3, <2>1 DEF Quiet, Link
<1>4. CASE /\ ~closed /\ e = NoEntry
           /\ Free # {}
           /\ hosts' = [hosts EXCEPT ![h] = AnyOf(Free)]
           /\ entry' = [entry EXCEPT ![AnyOf(Free)] = Dialing(h)]
           /\ WaitsFor(c, AnyOf(Free))
  <2> DEFINE n == AnyOf(Free)
  <2>1. n \in Entries /\ entry[n].host = NoHost
    <3>1. n \in Free
      BY <1>4, AnyOfOne
    <3> HIDE DEF n
    <3> QED BY <3>1 DEF Free, NewEntry
  <2>2. /\ entry'[n] = Dialing(h) /\ \A f \in Entries \ {n} : entry'[f] = entry[f]
        /\ Dialing(h).conn = NoConn
    BY <1>1, <1>4, <2>1, DialingOK DEF TypeInv, EntriesOK
  <2>3. /\ call'[c].at = "waiting" /\ \A d \in Calls \ {c} : call'[d] = call[d]
    BY <1>1, <1>4, <2>1, WaitsForOK DEF TypeInv
  <2>4. Apart'
    BY <1>2, <2>2, <2>3, ApartShrinks DEF Apart, TypeInv
  <2>5. ASSUME NEW g \in Hosts PROVE Link(g)' = Link(g)
    <3>1. CASE g = h
      BY <1>1, <1>4, <2>1, <2>2, <3>1, HostPoolAssumption DEF Link, TypeInv, PoolOK
    <3>2. CASE g # h
      BY <1>1, <1>4, <2>1, <2>2, <3>2, HostPoolAssumption DEF Link, TypeInv, PoolOK, Owners
    <3> QED BY <3>1, <3>2
  <2> QED BY <1>2, <1>4, <2>4, <2>5 DEF Quiet
<1>5. CASE e # NoEntry /\ entry[e].conn # NoConn /\ Runs(c, entry[e].conn) /\ UNCHANGED <<hosts, entry>>
  <2>1. entry[e].conn \in Conns
    BY <1>1, <1>5 DEF TypeInv, EntriesOK, EntryType
  <2>2. /\ call'[c].conn = entry[e].conn /\ call'[c].host = h
        /\ \A d \in Calls \ {c} : call'[d] = call[d]
    BY <1>1, <1>5, <2>1, RunsOK DEF TypeInv
  <2>3. Apart'
    BY <1>1, <1>5, <2>2 DEF Apart
  <2> QED BY <1>2, <1>5, <2>3 DEF Quiet, Link
<1>6. CASE e # NoEntry /\ WaitsFor(c, e) /\ UNCHANGED <<hosts, entry>>
  <2>1. call'[c].at = "waiting" /\ \A d \in Calls \ {c} : call'[d] = call[d]
    BY <1>1, <1>6, WaitsForOK DEF TypeInv
  <2>2. Apart'
    BY <1>2, <1>6, <2>1, ApartShrinks DEF Apart, TypeInv
  <2> QED BY <1>2, <1>6, <2>2 DEF Quiet, Link
<1>7. CASE /\ e # NoEntry /\ WaitsFor(c, e) /\ UNCHANGED hosts
           /\ entry[e].conn = NoConn
           /\ entry' = [entry EXCEPT ![e].dial = "started"]
  <2>1. /\ \A f \in Entries : entry'[f].host = entry[f].host /\ entry'[f].conn = entry[f].conn
        /\ \A f \in Entries \ {e} : entry'[f] = entry[f]
    <3>1. \A r \in EntryType : /\ [r EXCEPT !.dial = "started"].host = r.host
                               /\ [r EXCEPT !.dial = "started"].conn = r.conn
      BY DEF EntryType
    <3>2. entry'[e] = [entry[e] EXCEPT !.dial = "started"] /\ \A f \in Entries \ {e} : entry'[f] = entry[f]
      BY <1>1, <1>7 DEF TypeInv, EntriesOK
    <3>3. entry[e] \in EntryType
      BY <1>1, <1>7 DEF TypeInv, EntriesOK
    <3>4. entry'[e].host = entry[e].host /\ entry'[e].conn = entry[e].conn
      BY <3>1, <3>2, <3>3
    <3> QED BY <3>2, <3>4
  <2>2. call'[c].at = "waiting" /\ \A d \in Calls \ {c} : call'[d] = call[d]
    BY <1>1, <1>7, WaitsForOK DEF TypeInv
  <2>3. Apart'
    <3>1. CallsOK' /\ Apart
      BY <1>2 DEF TypeInv
    <3>2. \A f \in Entries : entry'[f].dial # "none" => entry'[f].conn = NoConn
      BY <1>7, <2>1 DEF Apart
    <3>3. \A d \in Calls : call'[d].at = "running" => call'[d] = call[d]
      BY <2>2
    <3> QED BY <2>1, <3>1, <3>2, <3>3 DEF Apart
  <2>4. \A g \in Hosts : Link(g)' = Link(g)
    BY <1>7, <2>1 DEF Link, TypeInv, PoolOK
  <2> QED BY <1>2, <1>7, <2>3, <2>4 DEF Quiet
<1> QED BY <1>3, <1>4, <1>5, <1>6, <1>7 DEF Connect

LEMMA CallsQuiet ==
  ASSUME ConnInv, NEW c \in Calls, NEW h \in Hosts, Ask(c, h) \/ StopWaiting(c) \/ Finish(c)
  PROVE  Quiet /\ Apart'
<1> USE DEF ConnInv
<1>1. CASE Ask(c, h)
  <2>1. /\ CallsOK' /\ call'[c].at = "known" /\ \A d \in Calls \ {c} : call'[d] = call[d]
        /\ UNCHANGED poolVars
    BY <1>1, AskedOK DEF TypeInv, Ask
  <2>2. Apart'
    BY <2>1, ApartShrinks DEF Apart, TypeInv, poolVars
  <2> QED BY <2>1, <2>2 DEF Quiet, Link, poolVars
<1>2. CASE Finish(c)
  <2>1. /\ CallsOK' /\ call'[c].at = "idle" /\ \A d \in Calls \ {c} : call'[d] = call[d]
        /\ UNCHANGED poolVars
    BY <1>2, FailsOK DEF TypeInv, Finish
  <2>2. Apart'
    BY <2>1, ApartShrinks DEF Apart, TypeInv, poolVars
  <2> QED BY <2>1, <2>2 DEF Quiet, Link, poolVars
<1>3. CASE StopWaiting(c)
  <2>1. /\ CallsOK' /\ call'[c].at = "idle" /\ \A d \in Calls \ {c} : call'[d] = call[d]
        /\ UNCHANGED <<hosts, closed, conn, doomed>> /\ Collected(entry)
    BY <1>3, FailsOK DEF TypeInv, StopWaiting
  <2>2. /\ \A g \in Hosts : hosts'[g] # NoEntry => entry'[hosts'[g]] = entry[hosts'[g]]
        /\ \A e \in Entries : entry'[e] \in {entry[e], NewEntry}
    BY <2>1, CollectedOwners DEF TypeInv, EntriesOK, Owners, PoolOK
  <2>3. NewEntry.conn = NoConn /\ NewEntry.dial = "none"
    BY DEF NewEntry
  <2>4. Apart'
    BY <2>1, <2>2, <2>3, ApartShrinks DEF Apart, TypeInv
  <2> QED BY <2>1, <2>2, <2>4 DEF Quiet, Link
<1> QED BY <1>1, <1>2, <1>3

LEMMA AnsweredKeeps ==
  ASSUME ConnInv, NEW c \in Calls, Answered(c)
  PROVE  Quiet /\ Apart'
<1> DEFINE e == call[c].entry
           x == entry[e].conn
<1> USE DEF ConnInv
<1>1. /\ e \in Entries /\ x \in Conns \cup {NoConn} /\ call[c].at = "answered"
      /\ entry[e].host = call[c].host
  BY DEF Answered, TypeInv, CallsOK, EntriesOK, EntryType, Owners
<1>2. /\ CallsOK' /\ \A d \in Calls \ {c} : call'[d] = call[d]
      /\ \/ call'[c].at = "idle"
         \/ call'[c].at = "running" /\ x # NoConn /\ call'[c].conn = x /\ call'[c].host = call[c].host
  <2>1. CASE x # NoConn
    BY <1>1, <2>1, RunsOK DEF Answered, Got, TypeInv
  <2>2. CASE x = NoConn
    BY <1>1, <2>2, FailsOK DEF Answered, Got, TypeInv
  <2> QED BY <2>1, <2>2
<1>3. UNCHANGED <<hosts, closed, conn, doomed>> /\ Collected(entry)
  BY DEF Answered
<1>4. /\ \A g \in Hosts : hosts'[g] # NoEntry => entry'[hosts'[g]] = entry[hosts'[g]]
      /\ \A f \in Entries : entry'[f] \in {entry[f], NewEntry}
  BY <1>2, <1>3, CollectedOwners DEF TypeInv, EntriesOK, Owners, PoolOK
<1>5. NewEntry.conn = NoConn /\ NewEntry.dial = "none"
  BY DEF NewEntry
<1>6. ASSUME NEW f \in Entries, NEW d \in Calls, call'[d].at = "running", entry'[f].conn = call'[d].conn
      PROVE  entry'[f].host = call'[d].host
  <2>1. entry'[f] = entry[f]
    BY <1>2, <1>4, <1>5, <1>6 DEF CallsOK
  <2>2. CASE d = c
    BY <1>1, <1>2, <1>6, <2>1, <2>2 DEF Apart
  <2>3. CASE d # c
    BY <1>2, <1>6, <2>1, <2>3 DEF Apart
  <2> QED BY <2>2, <2>3
<1>7. Apart'
  BY <1>4, <1>5, <1>6 DEF Apart
<1> QED BY <1>3, <1>4, <1>7 DEF Quiet, Link

LEMMA DialsQuiet ==
  ASSUME ConnInv, NEW e \in Entries, ReadDetails(e) \/ DialFails(e)
  PROVE  Quiet /\ Apart'
<1> USE DEF ConnInv
<1>1. CASE ReadDetails(e)
  <2>1. /\ \A f \in Entries : entry'[f].host = entry[f].host /\ entry'[f].conn = entry[f].conn
        /\ \A f \in Entries : entry'[f].dial # "none" => entry[f].dial # "none"
    BY <1>1, ReadDetailsTypes DEF ReadDetails
  <2>2. UNCHANGED <<hosts, closed, conn, doomed, call>> /\ CallsOK'
    BY <1>1, ReadDetailsTypes DEF ReadDetails, TypeInv
  <2>3. Apart'
    BY <2>1, <2>2, ApartShrinks DEF Apart, TypeInv
  <2> QED BY <2>1, <2>2, <2>3 DEF Quiet, Link, TypeInv, PoolOK
<1>2. CASE DialFails(e)
  <2>1. Tell(e) /\ UNCHANGED <<hosts, closed, conn, doomed>> /\ Collected(Failed(e))
    BY <1>2 DEF DialFails, Failed
  <2>2. /\ CallsOK'
        /\ \A h \in Hosts : hosts[h] # NoEntry => entry'[hosts[h]] = Failed(e)[hosts[h]]
        /\ \A f \in Entries : entry'[f] \in {Failed(e)[f], NewEntry}
    BY <2>1, FailedEntries, DialEndOwners
  <2>3. \A c \in Calls : call'[c].at = "running" => call'[c] = call[c]
    BY <2>1 DEF Tell, Waits, TypeInv, CallsOK, CallType
  <2>4. /\ \A f \in Entries : /\ Failed(e)[f].conn = entry[f].conn /\ Failed(e)[f].host = entry[f].host
                              /\ Failed(e)[f].dial # "none" => entry[f].dial # "none"
        /\ NewEntry.conn = NoConn /\ NewEntry.dial = "none"
    BY FailedEntries DEF NewEntry
  <2>5. Apart'
    <3>1. ASSUME NEW f \in Entries
          PROVE  /\ entry'[f].dial # "none" => entry'[f].conn = NoConn
                 /\ entry'[f].conn # NoConn => /\ entry'[f].conn = entry[f].conn
                                               /\ entry'[f].host = entry[f].host
      BY <2>2, <2>4 DEF Apart
    <3> QED BY <2>2, <2>3, <3>1, ApartShrinks DEF TypeInv
  <2>6. \A h \in Hosts : Link(h)' = Link(h)
    BY <2>1, <2>2, <2>4 DEF Link, TypeInv, PoolOK
  <2> QED BY <2>1, <2>5, <2>6 DEF Quiet
<1> QED BY <1>1, <1>2

LEMMA ConfiguresQuiet == ASSUME ConnInv, Configures PROVE Quiet /\ Apart'
BY ConfiguresTypes DEF ConnInv, Quiet, Link, Apart, poolVars

LEMMA DropKeeps ==
  ASSUME ConnInv, NEW c \in Calls, Drop(c)
  PROVE  /\ Apart' /\ Whole'
         /\ \E those \in SUBSET Hosts :
              \A g \in Hosts : Link(g)' = IF g \in those THEN NoConn ELSE Link(g)
         /\ UNCHANGED conn
<1> DEFINE h == call[c].host
           x == call[c].conn
           those == {g \in Hosts : g = h /\ Link(g) = x}
<1> USE DEF ConnInv
<1>1. h \in Hosts /\ x \in Conns /\ call[c].at = "running"
  BY DEF Drop, TypeInv, CallsOK, CallType
<1>2. /\ UNCHANGED <<hosts, conn, closed>> /\ entry' = Dropped(h, x)
      /\ doomed' = doomed \cup Opened({x})
      /\ CallsOK' /\ call'[c].at = "idle" /\ \A d \in Calls \ {c} : call'[d] = call[d]
  BY FailsOK DEF Drop, TypeInv
<1>3. \A e \in Entries :
        \/ entry'[e] = entry[e] /\ ~(hosts[h] = e /\ entry[e].conn = x)
        \/ /\ hosts[h] = e /\ entry[e].conn = x /\ entry'[e].conn = NoConn
           /\ entry'[e].host = entry[e].host /\ entry'[e].dial = entry[e].dial
  BY <1>1, <1>2, DroppedEntries
<1>4. Apart'
  BY <1>2, <1>3, ApartShrinks DEF Apart, TypeInv
<1>5. \A g \in Hosts : Link(g)' = IF g \in those THEN NoConn ELSE Link(g)
  <2>1. ASSUME NEW g \in Hosts, hosts[g] # NoEntry PROVE Link(g)' = IF g \in those THEN NoConn ELSE Link(g)
    <3>1. hosts[g] \in Entries /\ entry[hosts[g]].host = g
      BY <2>1 DEF TypeInv, PoolOK, Owners
    <3>2. ASSUME hosts[g] = hosts[h] PROVE g = h
      <4>1. \A f \in Hosts : hosts[f] # NoEntry => entry[hosts[f]].host = f
        BY DEF TypeInv, Owners
      <4>2. hosts[h] # NoEntry => entry[hosts[h]].host = h
        BY <1>1, <4>1
      <4> QED BY <2>1, <3>1, <3>2, <4>2
    <3>3. CASE g = h /\ entry[hosts[g]].conn = x
      <4>1. entry'[hosts[g]].conn = NoConn
        BY <1>3, <3>1, <3>3
      <4> QED BY <1>2, <2>1, <3>3, <4>1 DEF Link
    <3>4. CASE ~(g = h /\ entry[hosts[g]].conn = x)
      <4>1. entry'[hosts[g]] = entry[hosts[g]]
        BY <1>3, <3>1, <3>2, <3>4
      <4> QED BY <1>2, <2>1, <3>4, <4>1 DEF Link
    <3> QED BY <3>3, <3>4
  <2>2. ASSUME NEW g \in Hosts, hosts[g] = NoEntry PROVE Link(g)' = IF g \in those THEN NoConn ELSE Link(g)
    BY <1>2, <2>2 DEF Link
  <2> QED BY <2>1, <2>2
<1>6. \A g \in Hosts : Link(g) = x => g = h
  BY <1>1, HostPoolAssumption DEF Link, Apart, TypeInv, PoolOK, Owners
<1>7. Whole'
  <2>1. \A g \in Hosts : Link(g)' # NoConn => Link(g)' = Link(g) /\ Link(g)' # x
    BY <1>5, <1>6
  <2>2. doomed' = doomed \cup (IF conn[x].open THEN {x} ELSE {})
    BY <1>1, <1>2, HostPoolAssumption DEF Opened
  <2>3. \A y \in Conns : conn[y].open => y \in doomed' \/ \E g \in Hosts : Link(g)' = y
    <3>1. ASSUME NEW y \in Conns, conn[y].open, y # x, y \notin doomed
          PROVE  \E g \in Hosts : Link(g)' = y
      <4>1. PICK g \in Hosts : Link(g) = y
        BY <3>1 DEF Whole
      <4> QED BY <1>5, <3>1, <4>1
    <3> QED BY <2>2, <3>1
  <2>4. \A g \in Hosts : Link(g)' # NoConn => conn'[Link(g)'].open /\ Link(g)' \notin doomed'
    <3>1. ASSUME NEW g \in Hosts, Link(g)' # NoConn
          PROVE  conn'[Link(g)'].open /\ Link(g)' \notin doomed'
      <4>1. Link(g)' = Link(g) /\ Link(g)' # x
        BY <2>1, <3>1
      <4>2. conn[Link(g)].open /\ Link(g) \notin doomed
        BY <3>1, <4>1 DEF Whole
      <4> QED BY <1>2, <2>2, <4>1, <4>2
    <3> QED BY <3>1
  <2>5. \A y \in doomed' : conn'[y].open
    BY <1>2, <2>2 DEF Whole
  <2>6. closed' => \A g \in Hosts : hosts'[g] = NoEntry
    BY <1>2 DEF Whole
  <2> QED BY <1>2, <2>3, <2>4, <2>5, <2>6 DEF Whole
<1> QED BY <1>2, <1>4, <1>5, <1>7

LEMMA ForgetKeeps ==
  ASSUME ConnInv, NEW those \in SUBSET Hosts, Forget(those),
         closed' = closed \/ those = Hosts
  PROVE  /\ Apart' /\ Whole'
         /\ \A g \in Hosts : Link(g)' = IF g \in those THEN NoConn ELSE Link(g)
         /\ UNCHANGED conn
<1> USE DEF ConnInv
<1>1. /\ CallsOK' /\ conn' = conn /\ call' = call
      /\ hosts' = [h \in Hosts |-> IF h \in those THEN NoEntry ELSE hosts[h]]
      /\ doomed' = doomed \cup Opened({Link(h) : h \in those})
      /\ \A h \in Hosts : hosts'[h] # NoEntry => entry'[hosts'[h]] = entry[hosts'[h]]
      /\ \A e \in Entries : entry'[e] \in {entry[e], NewEntry}
  BY ForgetOwners DEF Forget
<1>2. NewEntry.conn = NoConn /\ NewEntry.dial = "none"
  BY DEF NewEntry
<1>3. Apart'
  BY <1>1, <1>2, ApartShrinks DEF Apart, TypeInv
<1>4. \A g \in Hosts : Link(g)' = IF g \in those THEN NoConn ELSE Link(g)
  BY <1>1 DEF Link
<1>5. \A y : y \in doomed' <=> \/ y \in doomed
                               \/ y # NoConn /\ \E h \in those : Link(h) = y
  BY <1>1 DEF Opened, Whole
<1>6. \A g, h \in Hosts : Link(g) = Link(h) /\ Link(g) # NoConn => g = h
  BY DEF Link, Apart, TypeInv, PoolOK, Owners
<1>7. Whole'
  <2>1. \A g \in Hosts : Link(g)' # NoConn => conn'[Link(g)'].open /\ Link(g)' \notin doomed'
    BY <1>1, <1>4, <1>5, <1>6 DEF Whole
  <2>2. \A y \in doomed' : conn'[y].open
    BY <1>1, <1>5 DEF Whole
  <2>3. \A y \in Conns : conn'[y].open => y \in doomed' \/ \E g \in Hosts : Link(g)' = y
    <3>1. ASSUME NEW y \in Conns, conn[y].open PROVE y \in doomed' \/ \E g \in Hosts : Link(g)' = y
      <4>1. y # NoConn
        BY HostPoolAssumption
      <4> QED BY <1>4, <1>5, <3>1, <4>1 DEF Whole
    <3> QED BY <1>1, <3>1
  <2>4. closed' => \A g \in Hosts : hosts'[g] = NoEntry
    BY <1>1 DEF Whole
  <2> QED BY <2>1, <2>2, <2>3, <2>4 DEF Whole
<1> QED BY <1>1, <1>3, <1>4, <1>7

LEMMA CloseConnKeeps ==
  ASSUME ConnInv, NEW x \in Conns, CloseConn(x)
  PROVE  /\ Apart' /\ Whole'
         /\ \A g \in Hosts : Link(g)' = Link(g) /\ Link(g) # x
         /\ conn[x].open
         /\ \A y \in Conns : conn'[y].open <=> conn[y].open /\ y # x
<1> USE DEF ConnInv
<1>1. /\ x \in doomed /\ doomed' = doomed \ {x} /\ conn' = [conn EXCEPT ![x] = NewConn]
      /\ UNCHANGED <<hosts, entry, closed, call>>
  BY DEF CloseConn
<1>2. Apart' /\ \A g \in Hosts : Link(g)' = Link(g)
  BY <1>1 DEF Apart, Link
<1>3. conn[x].open /\ \A g \in Hosts : Link(g) # x
  BY <1>1, HostPoolAssumption DEF Whole
<1>4. \A y \in Conns : conn'[y].open <=> conn[y].open /\ y # x
  BY <1>1 DEF NewConn, TypeInv, PoolOK, ConnType
<1>5. Whole'
  <2>1. \A g \in Hosts : Link(g)' # NoConn => conn'[Link(g)'].open /\ Link(g)' \notin doomed'
    BY <1>1, <1>2, <1>3, <1>4, LinkTypes DEF Whole
  <2>2. \A y \in doomed' : conn'[y].open
    BY <1>1, <1>4 DEF Whole, TypeInv, PoolOK
  <2>3. \A y \in Conns : conn'[y].open => y \in doomed' \/ \E g \in Hosts : Link(g)' = y
    BY <1>1, <1>2, <1>4 DEF Whole
  <2> QED BY <1>1, <2>1, <2>2, <2>3 DEF Whole
<1> QED BY <1>2, <1>3, <1>4, <1>5

LEMMA DialConnectsKeeps ==
  ASSUME ConnInv, NEW e \in Entries, DialConnects(e)
  PROVE  /\ Apart' /\ Whole'
         /\ \E x \in Conns :
              /\ ~conn[x].open /\ \A g \in Hosts : Link(g) # x
              /\ \A y \in Conns : conn'[y].open <=> conn[y].open \/ y = x
              /\ \/ \A g \in Hosts : Link(g)' = Link(g)
                 \/ \E h \in Hosts : /\ Link(h) = NoConn
                                     /\ \A g \in Hosts : Link(g)' = IF g = h THEN x ELSE Link(g)
<1> DEFINE x == AnyOf(Unused)
           h == entry[e].host
<1> USE DEF ConnInv
<1>1. /\ Unused # {} /\ Tell(e) /\ UNCHANGED <<hosts, closed>> /\ Collected(Connected(e))
      /\ conn' = [conn EXCEPT ![x] = [open |-> TRUE, with |-> entry[e].with]]
      /\ doomed' = IF Wanted(e) THEN doomed ELSE doomed \cup {x}
  BY DEF DialConnects, Connected
<1>2. x \in Conns /\ x # NoConn /\ h \in Hosts /\ entry[e].conn = NoConn
  BY <1>1, AnyOfOne, HostPoolAssumption DEF Unused, DialConnects, TypeInv, EntriesOK, Apart
<1>3. /\ ~conn[x].open /\ \A f \in Entries : entry[f].conn # x
      /\ \A c \in Calls : call[c].conn # x
  <2>1. x \in Unused
    BY <1>1, AnyOfOne
  <2> HIDE DEF x
  <2> QED BY <2>1 DEF Unused
<1>4. /\ \A f \in Entries \ {e} : Connected(e)[f] = entry[f]
      /\ Connected(e)[e].host = h /\ Connected(e)[e].dial = "none"
      /\ Connected(e)[e].conn = IF Wanted(e) THEN x ELSE NoConn
  BY <1>1, <1>2, ConnectedEntries
<1>5. /\ CallsOK' /\ EntriesOK' /\ Owners'
      /\ \A g \in Hosts : hosts[g] # NoEntry => entry'[hosts[g]] = Connected(e)[hosts[g]]
      /\ \A f \in Entries : entry'[f] \in {Connected(e)[f], NewEntry}
  BY <1>1, ConnectedEntries, DialEndOwners
<1> HIDE DEF x
<1>6. /\ NewEntry.conn = NoConn /\ NewEntry.dial = "none"
      /\ \A c \in Calls : call'[c].at = "running" => call'[c] = call[c]
  BY <1>1 DEF NewEntry, Tell, Waits, TypeInv, CallsOK, CallType
<1>7. \A f \in Entries :
        /\ entry'[f].dial # "none" => entry'[f].conn = NoConn
        /\ entry'[f].conn # NoConn =>
             /\ entry'[f].host = entry[f].host
             /\ IF f = e THEN Wanted(e) /\ entry'[f].conn = x ELSE entry'[f].conn = entry[f].conn
  <2> SUFFICES ASSUME NEW f \in Entries
               PROVE  /\ entry'[f].dial # "none" => entry'[f].conn = NoConn
                      /\ entry'[f].conn # NoConn =>
                           /\ entry'[f].host = entry[f].host
                           /\ IF f = e THEN Wanted(e) /\ entry'[f].conn = x
                                       ELSE entry'[f].conn = entry[f].conn
    OBVIOUS
  <2>1. CASE f = e
    BY <1>4, <1>5, <1>6, <2>1
  <2>2. CASE f # e
    BY <1>4, <1>5, <1>6, <2>2 DEF Apart
  <2> QED BY <2>1, <2>2
<1>8. Apart'
  <2>1. \A f, g \in Entries : (entry'[f].conn = entry'[g].conn /\ entry'[f].conn # NoConn) => f = g
    BY <1>3, <1>7 DEF Apart
  <2>2. ASSUME NEW f \in Entries, NEW c \in Calls,
               call'[c].at = "running", entry'[f].conn = call'[c].conn
        PROVE  entry'[f].host = call'[c].host
    <3>1. call'[c] = call[c] /\ call[c].conn # NoConn /\ call[c].conn # x
      BY <1>3, <1>5, <1>6, <2>2 DEF CallsOK
    <3> QED BY <1>7, <2>2, <3>1 DEF Apart
  <2> QED BY <1>7, <2>1, <2>2 DEF Apart
<1>9. \A g \in Hosts : hosts[g] = e => g = h
  BY HostPoolAssumption DEF TypeInv, Owners
<1>10. \A g \in Hosts : Link(g)' = IF Wanted(e) /\ g = h THEN x ELSE Link(g)
  <2> SUFFICES ASSUME NEW g \in Hosts PROVE Link(g)' = IF Wanted(e) /\ g = h THEN x ELSE Link(g)
    OBVIOUS
  <2>1. CASE hosts[g] = NoEntry
    BY <1>1, <2>1, HostPoolAssumption DEF Link, Wanted
  <2>2. CASE hosts[g] = e
    BY <1>1, <1>2, <1>4, <1>5, <1>9, <2>2, HostPoolAssumption DEF Link, Wanted, Whole
  <2>3. CASE hosts[g] \notin {e, NoEntry}
    BY <1>1, <1>4, <1>5, <2>3 DEF Link, Wanted, TypeInv, PoolOK
  <2> QED BY <2>1, <2>2, <2>3
<1>11. \A g \in Hosts : Link(g) # x
  BY <1>2, <1>3 DEF Link, TypeInv, PoolOK
<1>12. Wanted(e) => Link(h) = NoConn
  BY <1>2 DEF Link, Wanted
<1>13. \A y \in Conns : conn'[y].open <=> conn[y].open \/ y = x
  BY <1>1, <1>2 DEF TypeInv, PoolOK, ConnType
<1>14. Whole'
  <2>1. \A g \in Hosts : Link(g)' # NoConn => conn'[Link(g)'].open /\ Link(g)' \notin doomed'
    <3>1. x \notin doomed
      BY <1>3 DEF Whole
    <3> SUFFICES ASSUME NEW g \in Hosts, Link(g)' # NoConn
                 PROVE  conn'[Link(g)'].open /\ Link(g)' \notin doomed'
      OBVIOUS
    <3>2. CASE Wanted(e) /\ g = h
      BY <1>1, <1>2, <1>10, <1>13, <3>1, <3>2
    <3>3. CASE ~(Wanted(e) /\ g = h)
      BY <1>1, <1>10, <1>11, <1>13, <3>3, LinkTypes DEF Whole
    <3> QED BY <3>2, <3>3
  <2>2. \A y \in doomed' : conn'[y].open
    BY <1>1, <1>2, <1>13 DEF Whole, TypeInv, PoolOK
  <2>3. \A y \in Conns : conn'[y].open => y \in doomed' \/ \E g \in Hosts : Link(g)' = y
    <3> SUFFICES ASSUME NEW y \in Conns, conn'[y].open
                 PROVE  y \in doomed' \/ \E g \in Hosts : Link(g)' = y
      OBVIOUS
    <3>1. CASE y = x
      BY <1>1, <1>2, <1>10, <3>1
    <3>2. CASE y # x
      <4>1. y # NoConn /\ (y \in doomed \/ \E g \in Hosts : Link(g) = y)
        BY <1>13, <3>2, HostPoolAssumption DEF Whole
      <4> QED BY <1>1, <1>10, <1>12, <4>1
    <3> QED BY <3>1, <3>2
  <2>4. closed' => \A g \in Hosts : hosts'[g] = NoEntry
    BY <1>1 DEF Whole
  <2> QED BY <2>1, <2>2, <2>3, <2>4 DEF Whole
<1>15. CASE Wanted(e)
  BY <1>2, <1>3, <1>8, <1>10, <1>11, <1>12, <1>13, <1>14, <1>15
<1>16. CASE ~Wanted(e)
  BY <1>2, <1>3, <1>8, <1>10, <1>11, <1>13, <1>14, <1>16
<1> QED BY <1>15, <1>16

-----------------------------------------------------------------------------
(* The promise of HostLinks                                                *)

\* How a step looks from outside, once it is known what it does to the
\* connections hosts are given and to those that are open.
LEMMA QuietLinks ==
  ASSUME Quiet
  PROVE  UNCHANGED Links!linkVars
BY DEF Quiet, Links!linkVars

LEMMA LetGoLinks ==
  ASSUME NEW those \in SUBSET Hosts, UNCHANGED conn,
         \A g \in Hosts : Link(g)' = IF g \in those THEN NoConn ELSE Link(g)
  PROVE  Links!Next
<1>1. Links!LetGo(those)
  BY DEF Links!LetGo
<1> QED BY <1>1 DEF Links!Next

LEMMA CloseLinks ==
  ASSUME NEW x \in Conns, conn[x].open, \A g \in Hosts : Link(g)' = Link(g) /\ Link(g) # x,
         \A y \in Conns : conn'[y].open <=> conn[y].open /\ y # x
  PROVE  Links!Next
<1>1. Links!Close(x)
  BY DEF Links!Close, Links!Linked
<1> QED BY <1>1 DEF Links!Next

LEMMA ConnectLinks ==
  ASSUME NEW x \in Conns, ~conn[x].open,
         \A y \in Conns : conn'[y].open <=> conn[y].open \/ y = x,
         \/ \A g \in Hosts : Link(g)' = Link(g)
         \/ \E h \in Hosts : /\ Link(h) = NoConn
                             /\ \A g \in Hosts : Link(g)' = IF g = h THEN x ELSE Link(g)
  PROVE  Links!Next
<1>1. CASE \A g \in Hosts : Link(g)' = Link(g)
  <2>1. Links!Discard(x)
    BY <1>1 DEF Links!Discard
  <2> QED BY <2>1 DEF Links!Next
<1>2. ASSUME NEW h \in Hosts, Link(h) = NoConn,
             \A g \in Hosts : Link(g)' = IF g = h THEN x ELSE Link(g)
      PROVE  Links!Next
  <2>1. Links!Connect(h, x)
    BY <1>2 DEF Links!Connect
  <2> QED BY <2>1 DEF Links!Next
<1> QED BY <1>1, <1>2

LEMMA ConnInvInit == Init => ConnInv /\ Links!Init
<1> SUFFICES ASSUME Init PROVE ConnInv /\ Links!Init
  OBVIOUS
<1>1. /\ \A h \in Hosts : hosts[h] = NoEntry
      /\ \A e \in Entries : entry[e].conn = NoConn /\ entry[e].dial = "none"
      /\ \A x \in Conns : ~conn[x].open
      /\ doomed = {}
  BY DEF Init, NewEntry, NewConn
<1>2. TypeInv
  BY InitTypes
<1>3. Apart
  BY <1>1, <1>2 DEF Apart, TypeInv, CallsOK
<1>4. Whole
  BY <1>1 DEF Whole, Link
<1>5. Links!Init
  BY <1>1 DEF Links!Init, Link
<1> QED BY <1>2, <1>3, <1>4, <1>5 DEF ConnInv

LEMMA ConnInvStep == ConnInv /\ [Next]_vars => ConnInv' /\ [Links!Next]_(Links!linkVars)
<1> SUFFICES ASSUME ConnInv, [Next]_vars
             PROVE  ConnInv' /\ [Links!Next]_(Links!linkVars)
  OBVIOUS
<1>1. TypeInv /\ Whole /\ TypeInv'
  BY StepTypes DEF ConnInv
<1>2. ASSUME Quiet, Apart' PROVE ConnInv' /\ UNCHANGED Links!linkVars
  BY <1>1, <1>2, QuietWhole, QuietLinks DEF ConnInv
<1>3. CASE UNCHANGED vars
  <2>1. Quiet /\ Apart'
    BY <1>3 DEF vars, poolVars, Quiet, Link, Apart, ConnInv
  <2> QED BY <1>2, <2>1
<1>4. ASSUME NEW c \in Calls, Connect(c) \/ StopWaiting(c) \/ Answered(c) \/ Finish(c)
                              \/ (\E h \in Hosts : Ask(c, h))
      PROVE  ConnInv' /\ UNCHANGED Links!linkVars
  <2>1. call[c].at # "idle" => call[c].host \in Hosts
    BY <1>1 DEF TypeInv, CallsOK
  <2>2. \E h \in Hosts : TRUE
    BY <1>4, <2>1 DEF Connect, StopWaiting, Answered, Finish
  <2> QED BY <1>2, <1>4, <2>2, ConnectKeeps, CallsQuiet, AnsweredKeeps
<1>5. ASSUME NEW c \in Calls, Drop(c) PROVE ConnInv' /\ Links!Next
  BY <1>1, <1>5, DropKeeps, LetGoLinks DEF ConnInv
<1>6. ASSUME NEW e \in Entries, ReadDetails(e) \/ DialFails(e)
      PROVE  ConnInv' /\ UNCHANGED Links!linkVars
  BY <1>2, <1>6, DialsQuiet
<1>7. ASSUME NEW e \in Entries, DialConnects(e) PROVE ConnInv' /\ Links!Next
  <2>1. Apart' /\ Whole'
    BY <1>7, DialConnectsKeeps
  <2>2. Links!Next
    BY <1>7, DialConnectsKeeps, ConnectLinks
  <2> QED BY <1>1, <2>1, <2>2 DEF ConnInv
<1>8. ASSUME NEW those \in SUBSET Hosts, Forget(those), closed' = closed \/ those = Hosts
      PROVE  ConnInv' /\ Links!Next
  BY <1>1, <1>8, ForgetKeeps, LetGoLinks DEF ConnInv
<1>9. ASSUME NEW h \in Hosts, Reconnect(h) PROVE ConnInv' /\ [Links!Next]_(Links!linkVars)
  <2>1. CASE Discard({h})
    BY <1>8, <1>9, <2>1 DEF Reconnect, Discard
  <2>2. CASE UNCHANGED <<hosts, entry, conn, doomed, call, settled>>
    <3>1. Quiet /\ Apart'
      BY <1>9, <2>2 DEF Reconnect, Quiet, Link, Apart, ConnInv
    <3> QED BY <1>2, <3>1
  <2> QED BY <1>9, <2>1, <2>2 DEF Reconnect
<1>10. ASSUME NEW those \in pruning, Retain(those) PROVE ConnInv' /\ Links!Next
  <2>1. Hosts \ Kept(those) \in SUBSET Hosts /\ closed' = closed
    BY <1>10 DEF Retain
  <2> QED BY <1>8, <1>10, <2>1 DEF Retain
<1>11. CASE Close
  BY <1>8, <1>11 DEF Close
<1>12. ASSUME NEW x \in Conns, CloseConn(x) PROVE ConnInv' /\ Links!Next
  BY <1>1, <1>12, CloseConnKeeps, CloseLinks DEF ConnInv
<1>13. CASE Configures
  BY <1>2, <1>13, ConfiguresQuiet
<1> QED BY <1>3, <1>4, <1>5, <1>6, <1>7, <1>9, <1>10, <1>11, <1>12, <1>13, Steps

LEMMA ConnInvHolds == Spec => []ConnInv
BY ConnInvInit, ConnInvStep, PTL DEF Spec

(***************************************************************************)
(* However calls, dials that come late, edits, collections and Close       *)
(* interleave, no connection is lost (dial, drop, Reconnect, Retain and    *)
(* Close, pool.go).                                                        *)
(***************************************************************************)
THEOREM NoLeakCorrect == Spec => []NoLeak
<1>1. ConnInv => NoLeak
  <2> SUFFICES ASSUME ConnInv, NEW x \in Conns, conn[x].open
               PROVE  x \in doomed \/ (~closed /\ \E h \in Hosts : Link(h) = x)
    BY DEF NoLeak
  <2>1. x # NoConn
    BY HostPoolAssumption
  <2> QED BY <2>1 DEF ConnInv, Whole, Link
<1> QED BY <1>1, ConnInvHolds, PTL

(***************************************************************************)
(* The pool implements HostLinks: a host's users share one connection, a   *)
(* connection that is shared is not closed, and one that was let go is not *)
(* given out again (docs/behavior/tasks.md).                               *)
(***************************************************************************)
THEOREM LinksImplemented == Spec => LinksSpec
BY ConnInvInit, ConnInvStep, ConnInvHolds, PTL DEF Spec, LinksSpec, Links!Spec

-----------------------------------------------------------------------------
(* Details                                                                 *)

\* Neither the dial nor the connection of an entry is older than v.
FreshFor(e, v) ==
  /\ entry[e].dial = "dialing" => entry[e].with >= v
  /\ entry[e].conn # NoConn /\ conn[entry[e].conn].open => conn[entry[e].conn].with >= v

(***************************************************************************)
(* Reconnect settles on details that were there, and lets go of what is    *)
(* older; so what the pool has for a host, and what a caller waits for, is *)
(* as new as what was settled when the host was asked about.               *)
(***************************************************************************)
Fresh ==
  /\ \A h \in Hosts : settled[h] =< details[h]
  /\ \A h \in Hosts : hosts[h] # NoEntry => FreshFor(hosts[h], settled[h])
  /\ \A c \in Calls :
       call[c].at \in {"known", "waiting", "answered"} => call[c].since =< settled[call[c].host]
  /\ \A c \in Calls :
       call[c].at \in {"waiting", "answered"} => FreshFor(call[c].entry, call[c].since)

FreshInv == ConnInv /\ Fresh

LEMMA Versions ==
  ASSUME TypeInv
  PROVE  /\ \A h \in Hosts : settled[h] \in Nat /\ details[h] \in Nat
         /\ \A c \in Calls : call[c].since \in Nat
         /\ \A e \in Entries : entry[e].with \in Nat
         /\ \A x \in Conns : conn[x].with \in Nat
BY HostPoolAssumption
   DEF TypeInv, ConfOK, CallsOK, EntriesOK, PoolOK, CallType, EntryType, ConnType

\* The same of the entry as the step leaves it.
FreshAfter(e, v) ==
  /\ entry'[e].dial = "dialing" => entry'[e].with >= v
  /\ entry'[e].conn # NoConn /\ conn'[entry'[e].conn].open => conn'[entry'[e].conn].with >= v

LEMMA FreshParts ==
  ASSUME \A h \in Hosts : settled'[h] =< details'[h],
         \A h \in Hosts : hosts'[h] # NoEntry => FreshAfter(hosts'[h], settled'[h]),
         \A c \in Calls :
           call'[c].at \in {"known", "waiting", "answered"} => call'[c].since =< settled'[call'[c].host],
         \A c \in Calls :
           call'[c].at \in {"waiting", "answered"} => FreshAfter(call'[c].entry, call'[c].since)
  PROVE  Fresh'
BY DEF Fresh, FreshFor, FreshAfter

LEMMA FreshConnect ==
  ASSUME FreshInv, NEW c \in Calls, Connect(c)
  PROVE  /\ Fresh'
         /\ call'[c].at = "running" => conn[call'[c].conn].with >= call[c].since
         /\ \A d \in Calls \ {c} : call'[d] = call[d]
<1> DEFINE h == call[c].host
           e == hosts[h]
<1> USE DEF FreshInv, ConnInv
<1>1. /\ h \in Hosts /\ call[c].at = "known"
      /\ e \in Entries \cup {NoEntry} /\ (e # NoEntry => entry[e].host = h)
      /\ call[c].since =< settled[h] /\ (e # NoEntry => FreshFor(e, settled[h]))
      /\ call[c].since \in Nat /\ settled[h] \in Nat
  BY Versions DEF Connect, TypeInv, CallsOK, PoolOK, Owners, Fresh
<1>2. UNCHANGED <<details, settled, conn>>
  BY DEF Connect, confVars
<1>3. CASE Fails(c) /\ UNCHANGED <<hosts, entry>>
  BY <1>2, <1>3, FailsOK DEF Fresh, FreshFor, TypeInv
<1>4. CASE /\ e = NoEntry
           /\ Free # {}
           /\ hosts' = [hosts EXCEPT ![h] = AnyOf(Free)]
           /\ entry' = [entry EXCEPT ![AnyOf(Free)] = Dialing(h)]
           /\ WaitsFor(c, AnyOf(Free))
  <2> DEFINE n == AnyOf(Free)
  <2>1. n \in Entries /\ entry[n].host = NoHost
    <3>1. n \in Free
      BY <1>4, AnyOfOne
    <3> HIDE DEF n
    <3> QED BY <3>1 DEF Free, NewEntry
  <2>2. /\ entry'[n].dial = "started" /\ entry'[n].conn = NoConn
        /\ \A f \in Entries \ {n} : entry'[f] = entry[f]
    BY <1>1, <1>4, <2>1, DialingOK DEF TypeInv, EntriesOK
  <2>3. /\ call'[c].at = "waiting" /\ call'[c].entry = n /\ call'[c].host = h
        /\ call'[c].since = call[c].since /\ \A d \in Calls \ {c} : call'[d] = call[d]
    BY <1>1, <1>4, <2>1, WaitsForOK DEF TypeInv
  <2>4. /\ \A g \in Hosts : hosts[g] # n
        /\ \A d \in Calls : call[d].at \in {"waiting", "answered"} =>
             call[d].entry # n /\ call[d].entry \in Entries
    BY <2>1, HostPoolAssumption DEF TypeInv, Owners, CallsOK
  <2> HIDE DEF n
  <2>5. hosts'[h] = n /\ \A g \in Hosts \ {h} : hosts'[g] = hosts[g]
    BY <1>1, <1>4 DEF TypeInv, PoolOK, n
  <2>6. /\ \A v : FreshAfter(n, v)
        /\ \A v : \A f \in Entries \ {n} : FreshFor(f, v) => FreshAfter(f, v)
    BY <1>2, <2>2 DEF FreshAfter, FreshFor
  <2>7. \A g \in Hosts : hosts'[g] # NoEntry => FreshAfter(hosts'[g], settled'[g])
    BY <1>2, <2>4, <2>5, <2>6 DEF Fresh, TypeInv, PoolOK
  <2>8. \A d \in Calls : call'[d].at \in {"waiting", "answered"} => FreshAfter(call'[d].entry, call'[d].since)
    BY <2>3, <2>4, <2>6 DEF Fresh
  <2>9. Fresh'
    <3>1. \A g \in Hosts : settled'[g] =< details'[g]
      BY <1>2 DEF Fresh
    <3>2. \A d \in Calls :
            call'[d].at \in {"known", "waiting", "answered"} => call'[d].since =< settled'[call'[d].host]
      <4>1. call'[c].since =< settled'[call'[c].host]
        BY <1>1, <1>2, <2>3
      <4>2. ASSUME NEW d \in Calls, d # c, call'[d].at \in {"known", "waiting", "answered"}
            PROVE  call'[d].since =< settled'[call'[d].host]
        BY <1>2, <2>3, <4>2 DEF Fresh
      <4> QED BY <4>1, <4>2
    <3> QED BY <2>7, <2>8, <3>1, <3>2, FreshParts
  <2> QED BY <2>3, <2>9
<1>5. CASE e # NoEntry /\ entry[e].conn # NoConn /\ Runs(c, entry[e].conn) /\ UNCHANGED <<hosts, entry>>
  <2>1. entry[e].conn \in Conns
    BY <1>1, <1>5 DEF TypeInv, EntriesOK, EntryType
  <2>2. /\ call'[c].conn = entry[e].conn /\ call'[c].at = "running"
        /\ \A d \in Calls \ {c} : call'[d] = call[d]
    BY <1>1, <1>5, <2>1, RunsOK DEF TypeInv
  <2>3. conn[entry[e].conn].open
    BY <1>1, <1>5 DEF Whole, Link
  <2>4. conn[entry[e].conn].with >= call[c].since
    <3>1. call[c].since =< settled[h]
      BY <1>1 DEF Fresh
    <3>2. conn[entry[e].conn].with >= settled[h]
      BY <1>1, <1>5, <2>3 DEF Fresh, FreshFor
    <3>3. /\ conn[entry[e].conn].with \in Nat /\ call[c].since \in Nat /\ settled[h] \in Nat
      BY <1>1, <2>1, Versions
    <3> QED BY <3>1, <3>2, <3>3
  <2>5. /\ (call'[c].at \notin {"known", "waiting", "answered"}) /\ hosts' = hosts /\ entry' = entry
    BY <1>5, <2>2
  <2>6. \A d \in Calls : call'[d].at \in {"known", "waiting", "answered"} => call'[d] = call[d]
    BY <2>2, <2>5
  <2>7. Fresh'
    BY <1>2, <2>5, <2>6 DEF Fresh, FreshFor
  <2> QED BY <2>2, <2>4, <2>7
<1>6. CASE /\ e # NoEntry /\ WaitsFor(c, e) /\ UNCHANGED hosts /\ entry[e].conn = NoConn
           /\ entry' = entry \/ entry' = [entry EXCEPT ![e].dial = "started"]
  <2>1. /\ call'[c].at = "waiting" /\ call'[c].entry = e /\ call'[c].host = h
        /\ call'[c].since = call[c].since /\ \A d \in Calls \ {c} : call'[d] = call[d]
    BY <1>1, <1>6, WaitsForOK DEF TypeInv
  <2>2. \A f \in Entries : entry'[f] = entry[f] \/ (f = e /\ entry'[f].dial = "started" /\ entry'[f].conn = NoConn)
    <3>1. entry[e] \in EntryType
      BY <1>1, <1>6 DEF TypeInv, EntriesOK
    <3>2. \A r \in EntryType : /\ [r EXCEPT !.dial = "started"].dial = "started"
                               /\ [r EXCEPT !.dial = "started"].conn = r.conn
      BY DEF EntryType
    <3>3. CASE entry' = entry
      BY <3>3
    <3>4. CASE entry' = [entry EXCEPT ![e].dial = "started"]
      <4>1. entry'[e] = [entry[e] EXCEPT !.dial = "started"] /\ \A f \in Entries \ {e} : entry'[f] = entry[f]
        BY <1>1, <1>6, <3>4 DEF TypeInv, EntriesOK
      <4>2. entry'[e].dial = "started" /\ entry'[e].conn = NoConn
        BY <1>6, <3>1, <3>2, <4>1
      <4> QED BY <4>1, <4>2
    <3> QED BY <1>6, <3>3, <3>4
  <2>3. \A v : \A f \in Entries : FreshFor(f, v) => FreshAfter(f, v)
    BY <1>2, <2>2 DEF FreshFor, FreshAfter
  <2>4. FreshFor(e, call[c].since)
    <3>1. entry[e].with \in Nat
      BY <1>1, <1>6, Versions
    <3> QED BY <1>1, <1>6, <3>1 DEF FreshFor
  <2>5. \A d \in Calls : call'[d].at \in {"waiting", "answered"} => FreshAfter(call'[d].entry, call'[d].since)
    <3>1. FreshAfter(call'[c].entry, call'[c].since)
      BY <1>1, <1>6, <2>1, <2>3, <2>4
    <3>2. \A d \in Calls \ {c} : call[d].at \in {"waiting", "answered"} => FreshAfter(call[d].entry, call[d].since)
      BY <2>3 DEF Fresh, TypeInv, CallsOK
    <3> QED BY <2>1, <3>1, <3>2
  <2>6. \A g \in Hosts : hosts'[g] # NoEntry => FreshAfter(hosts'[g], settled'[g])
    BY <1>2, <1>6, <2>3 DEF Fresh, TypeInv, PoolOK
  <2>7. Fresh'
    BY <1>1, <1>2, <2>1, <2>5, <2>6, FreshParts DEF Fresh
  <2> QED BY <2>1, <2>7
<1> QED BY <1>3, <1>4, <1>5, <1>6 DEF Connect

\* A step by which entries lose what they have, and callers go, keeps what is left fresh.
LEMMA FreshKeeps ==
  ASSUME Fresh, TypeInv, TypeInv',
         \A h \in Hosts : /\ settled'[h] =< details'[h] /\ settled[h] =< settled'[h]
                          /\ hosts'[h] # NoEntry => /\ hosts'[h] = hosts[h]
                                                    /\ settled'[h] = settled[h],
         \A e \in Entries :
           /\ entry'[e].dial = "dialing" => entry[e].dial = "dialing" /\ entry'[e].with = entry[e].with
           /\ entry'[e].conn # NoConn => entry'[e].conn = entry[e].conn,
         \A x \in Conns : conn'[x] = conn[x] \/ ~conn'[x].open,
         \A c \in Calls :
           \/ call'[c].at \in {"idle", "running"}
           \/ call'[c].at = "known" /\ call'[c].since =< settled'[call'[c].host]
           \/ /\ call'[c].at = "known" <=> call[c].at = "known"
              /\ call'[c].at \in {"waiting", "answered"} <=> call[c].at \in {"waiting", "answered"}
              /\ call'[c].entry = call[c].entry /\ call'[c].host = call[c].host
              /\ call'[c].since = call[c].since
  PROVE  Fresh'
<1>1. \A v : \A e \in Entries : FreshFor(e, v) => FreshAfter(e, v)
  BY DEF FreshFor, FreshAfter, TypeInv, EntriesOK, EntryType
<1>2. \A h \in Hosts : hosts'[h] # NoEntry => FreshAfter(hosts'[h], settled'[h])
  BY <1>1 DEF Fresh, TypeInv, PoolOK
<1>3. \A c \in Calls : call'[c].at \in {"waiting", "answered"} => FreshAfter(call'[c].entry, call'[c].since)
  BY <1>1 DEF Fresh, TypeInv, CallsOK
<1>4. ASSUME NEW c \in Calls, call'[c].at \in {"known", "waiting", "answered"}
      PROVE  call'[c].since =< settled'[call'[c].host]
  <2>1. CASE call'[c].at = "known" /\ call'[c].since =< settled'[call'[c].host]
    BY <2>1
  <2>2. CASE /\ call[c].at \in {"known", "waiting", "answered"}
             /\ call'[c].host = call[c].host /\ call'[c].since = call[c].since
    <3>1. /\ call[c].host \in Hosts /\ call[c].since =< settled[call[c].host]
          /\ call[c].since \in Nat /\ settled[call[c].host] \in Nat /\ settled'[call[c].host] \in Nat
      BY <2>2, HostPoolAssumption, Versions DEF Fresh, TypeInv, CallsOK, ConfOK
    <3> QED BY <2>2, <3>1
  <2> QED BY <1>4, <2>1, <2>2
<1> QED BY <1>2, <1>3, <1>4, FreshParts

LEMMA FreshCalls ==
  ASSUME FreshInv, TypeInv', NEW c \in Calls,
         StopWaiting(c) \/ Finish(c) \/ Drop(c) \/ Answered(c) \/ (\E h \in Hosts : Ask(c, h))
  PROVE  Fresh' /\ \A d \in Calls \ {c} : call'[d] = call[d]
<1> USE DEF FreshInv, ConnInv
<1>1. UNCHANGED <<hosts, conn, details, settled>>
  BY DEF StopWaiting, Finish, Drop, Answered, Ask, confVars, poolVars
<1>2. \A e \in Entries :
           /\ entry'[e].dial = "dialing" => entry[e].dial = "dialing" /\ entry'[e].with = entry[e].with
           /\ entry'[e].conn # NoConn => entry'[e].conn = entry[e].conn
  <2>1. NewEntry.conn = NoConn /\ NewEntry.dial = "none"
    BY DEF NewEntry
  <2>2. CASE Finish(c) \/ (\E h \in Hosts : Ask(c, h))
    BY <2>2 DEF Finish, Ask, poolVars
  <2>3. CASE Drop(c)
    <3>1. call[c].host \in Hosts /\ call[c].conn \in Conns
      BY <2>3 DEF Drop, TypeInv, CallsOK, CallType
    <3> QED BY <2>3, <3>1, DroppedEntries DEF Drop
  <2>4. CASE StopWaiting(c) \/ Answered(c)
    <3>1. \A e \in Entries : entry'[e] \in {entry[e], NewEntry}
      BY <2>4, CollectedKeeps DEF StopWaiting, Answered, TypeInv, EntriesOK
    <3> QED BY <2>1, <3>1
  <2> QED BY <2>2, <2>3, <2>4
<1>3. /\ \A d \in Calls \ {c} : call'[d] = call[d]
      /\ \/ call'[c].at \in {"idle", "running"}
         \/ call'[c].at = "known" /\ call'[c].since =< settled'[call'[c].host]
  <2>1. CASE StopWaiting(c) \/ Finish(c) \/ Drop(c)
    BY <2>1, FailsOK DEF StopWaiting, Finish, Drop, TypeInv
  <2>2. CASE Answered(c)
    <3>1. /\ call[c].at = "answered" /\ Got(c, entry[call[c].entry].conn)
          /\ entry[call[c].entry].conn \in Conns \cup {NoConn}
      BY <2>2 DEF Answered, TypeInv, CallsOK, EntriesOK, EntryType
    <3> QED BY <3>1, FailsOK, RunsOK DEF Got, TypeInv
  <2>3. ASSUME NEW h \in Hosts, Ask(c, h)
        PROVE  /\ \A d \in Calls \ {c} : call'[d] = call[d]
               /\ call'[c].at = "known" /\ call'[c].since =< settled'[call'[c].host]
    BY <1>1, <2>3, AskedOK, Versions DEF TypeInv
  <2> QED BY <2>1, <2>2, <2>3
<1>4. \A h \in Hosts : settled[h] =< details[h] /\ settled[h] =< settled[h]
  BY Versions DEF Fresh
<1> QED BY <1>1, <1>2, <1>3, <1>4, FreshKeeps

LEMMA FreshReadDetails ==
  ASSUME FreshInv, NEW e \in Entries, ReadDetails(e)
  PROVE  Fresh' /\ UNCHANGED call
<1> USE DEF FreshInv, ConnInv
<1>1. UNCHANGED <<hosts, conn, details, settled, call>>
  BY DEF ReadDetails, confVars
<1>2. /\ \A f \in Entries \ {e} : entry'[f] = entry[f]
      /\ entry'[e].conn = entry[e].conn /\ entry'[e].with = details[entry[e].host]
      /\ entry[e].host \in Hosts
  BY ReadDetailsTypes DEF ReadDetails, TypeInv, EntriesOK
<1>3. \A v : \A f \in Entries \ {e} : FreshFor(f, v) => FreshAfter(f, v)
  BY <1>1, <1>2 DEF FreshFor, FreshAfter
<1>4. \A v \in Nat : v =< settled[entry[e].host] /\ FreshFor(e, v) => FreshAfter(e, v)
  <2>1. /\ settled[entry[e].host] =< details[entry[e].host]
        /\ settled[entry[e].host] \in Nat /\ details[entry[e].host] \in Nat
    BY <1>2, Versions DEF Fresh
  <2> QED BY <1>1, <1>2, <2>1 DEF FreshFor, FreshAfter
<1>5. \A h \in Hosts : hosts'[h] # NoEntry => FreshAfter(hosts'[h], settled'[h])
  BY <1>1, <1>3, <1>4, Versions DEF Fresh, TypeInv, PoolOK, Owners
<1>6. ASSUME NEW c \in Calls, call'[c].at \in {"waiting", "answered"}
      PROVE  FreshAfter(call'[c].entry, call'[c].since)
  <2>1. /\ call[c].entry \in Entries /\ entry[call[c].entry].host = call[c].host
        /\ call[c].since =< settled[call[c].host] /\ FreshFor(call[c].entry, call[c].since)
        /\ call[c].since \in Nat
    BY <1>1, <1>6, Versions DEF Fresh, TypeInv, CallsOK, Owners
  <2> QED BY <1>1, <1>3, <1>4, <2>1
<1> QED BY <1>1, <1>5, <1>6, FreshParts DEF Fresh

LEMMA FreshDialFails ==
  ASSUME FreshInv, TypeInv', NEW e \in Entries, DialFails(e)
  PROVE  Fresh' /\ \A c \in Calls : call'[c].at = "running" => call[c].at = "running"
<1> USE DEF FreshInv, ConnInv
<1>1. Tell(e) /\ UNCHANGED <<hosts, conn, details, settled>> /\ Collected(Failed(e))
  BY DEF DialFails, Failed, confVars
<1>2. \A f \in Entries :
        /\ entry'[f].dial = "dialing" => entry[f].dial = "dialing" /\ entry'[f].with = entry[f].with
        /\ entry'[f].conn # NoConn => entry'[f].conn = entry[f].conn
  <2>1. \A f \in Entries : entry'[f] \in {Failed(e)[f], NewEntry}
    BY <1>1, FailedEntries, CollectedKeeps
  <2>2. NewEntry.conn = NoConn /\ NewEntry.dial = "none"
    BY DEF NewEntry
  <2>3. Failed(e)[e].dial = "none" /\ Failed(e)[e].conn = entry[e].conn
    BY FailedEntries
  <2>4. \A f \in Entries \ {e} : Failed(e)[f] = entry[f]
    BY FailedEntries
  <2>5. ASSUME NEW f \in Entries
        PROVE  /\ entry'[f].dial = "dialing" => entry[f].dial = "dialing" /\ entry'[f].with = entry[f].with
               /\ entry'[f].conn # NoConn => entry'[f].conn = entry[f].conn
    BY <2>1, <2>2, <2>3, <2>4
  <2> QED BY <2>5
<1>3. \A c \in Calls :
        /\ call'[c].at = IF Waits(c, e) THEN "answered" ELSE call[c].at
        /\ call'[c].host = call[c].host /\ call'[c].entry = call[c].entry
        /\ call'[c].since = call[c].since
  BY <1>1, TellOK DEF TypeInv
<1>4. \A c \in Calls :
        /\ call'[c].at = "known" <=> call[c].at = "known"
        /\ call'[c].at \in {"waiting", "answered"} <=> call[c].at \in {"waiting", "answered"}
        /\ call'[c].at = "running" => call[c].at = "running"
  BY <1>3 DEF Waits
<1>5. \A h \in Hosts : settled[h] =< details[h] /\ settled[h] =< settled[h]
  BY Versions DEF Fresh
<1> QED BY <1>1, <1>2, <1>3, <1>4, <1>5, FreshKeeps

LEMMA FreshDialConnects ==
  ASSUME FreshInv, TypeInv', NEW e \in Entries, DialConnects(e)
  PROVE  Fresh' /\ \A c \in Calls : call'[c].at = "running" => call[c].at = "running"
<1> DEFINE x == AnyOf(Unused)
<1> USE DEF FreshInv, ConnInv
<1>1. /\ Unused # {} /\ Tell(e) /\ UNCHANGED <<hosts, details, settled>> /\ Collected(Connected(e))
      /\ conn' = [conn EXCEPT ![x] = [open |-> TRUE, with |-> entry[e].with]]
      /\ entry[e].dial = "dialing"
  BY DEF DialConnects, Connected, confVars
<1>2. x \in Conns /\ \A f \in Entries : entry[f].conn # x
  <2>1. x \in Unused
    BY <1>1, AnyOfOne
  <2> HIDE DEF x
  <2> QED BY <2>1 DEF Unused
<1>3. /\ \A f \in Entries \ {e} : Connected(e)[f] = entry[f]
      /\ Connected(e)[e].dial = "none"
      /\ Connected(e)[e].conn = IF Wanted(e) THEN x ELSE entry[e].conn
      /\ entry[e].conn = NoConn
  BY <1>1, ConnectedEntries DEF Apart
<1>4. \A f \in Entries : entry'[f] \in {Connected(e)[f], NewEntry}
  BY <1>1, ConnectedEntries, CollectedKeeps
<1> HIDE DEF x
<1>5. conn'[x].with = entry[e].with /\ \A y \in Conns \ {x} : conn'[y] = conn[y]
  BY <1>1, <1>2 DEF TypeInv, PoolOK
<1>6. NewEntry.conn = NoConn /\ NewEntry.dial = "none"
  BY DEF NewEntry
<1>7. \A v : \A f \in Entries : FreshFor(f, v) => FreshAfter(f, v)
  <2> SUFFICES ASSUME NEW v, NEW f \in Entries, FreshFor(f, v) PROVE FreshAfter(f, v)
    OBVIOUS
  <2>1. CASE entry'[f] = NewEntry
    BY <1>6, <2>1 DEF FreshAfter
  <2>2. CASE f = e /\ entry'[f] = Connected(e)[e]
    BY <1>1, <1>3, <1>5, <2>2 DEF FreshFor, FreshAfter
  <2>3. CASE f # e /\ entry'[f] = entry[f]
    BY <1>2, <1>5, <2>3 DEF FreshFor, FreshAfter, TypeInv, EntriesOK, EntryType
  <2> QED BY <1>3, <1>4, <2>1, <2>2, <2>3
<1>8. \A c \in Calls :
        /\ call'[c].at = IF Waits(c, e) THEN "answered" ELSE call[c].at
        /\ call'[c].host = call[c].host /\ call'[c].entry = call[c].entry
        /\ call'[c].since = call[c].since
  BY <1>1, TellOK DEF TypeInv
<1>9. \A c \in Calls :
        /\ call'[c].at = "known" <=> call[c].at = "known"
        /\ call'[c].at \in {"waiting", "answered"} <=> call[c].at \in {"waiting", "answered"}
        /\ call'[c].at = "running" => call[c].at = "running"
  BY <1>8 DEF Waits
<1>10. \A h \in Hosts : hosts'[h] # NoEntry => FreshAfter(hosts'[h], settled'[h])
  BY <1>1, <1>7 DEF Fresh, TypeInv, PoolOK
<1>11. \A c \in Calls : call'[c].at \in {"waiting", "answered"} => FreshAfter(call'[c].entry, call'[c].since)
  BY <1>7, <1>8, <1>9 DEF Fresh, TypeInv, CallsOK
<1>12. Fresh'
  BY <1>1, <1>8, <1>9, <1>10, <1>11, FreshParts DEF Fresh
<1> QED BY <1>9, <1>12

LEMMA FreshForget ==
  ASSUME FreshInv, TypeInv', NEW those \in SUBSET Hosts, Forget(those), UNCHANGED details,
         \A h \in Hosts : settled'[h] = settled[h] \/ (h \in those /\ settled'[h] = details[h])
  PROVE  Fresh' /\ UNCHANGED call
<1> USE DEF FreshInv, ConnInv
<1>1. /\ conn' = conn /\ call' = call
      /\ hosts' = [h \in Hosts |-> IF h \in those THEN NoEntry ELSE hosts[h]]
      /\ \A e \in Entries : entry'[e] \in {entry[e], NewEntry}
  BY ForgetOwners
<1>2. NewEntry.conn = NoConn /\ NewEntry.dial = "none"
  BY DEF NewEntry
<1>3. \A h \in Hosts : /\ settled'[h] =< details'[h] /\ settled[h] =< settled'[h]
                       /\ hosts'[h] # NoEntry => hosts'[h] = hosts[h] /\ settled'[h] = settled[h]
  BY <1>1, Versions DEF Fresh
<1> QED BY <1>1, <1>2, <1>3, FreshKeeps

LEMMA FreshInit == Init => FreshInv
<1> SUFFICES ASSUME Init PROVE FreshInv
  OBVIOUS
<1>1. ConnInv
  BY ConnInvInit
<1>2. /\ \A h \in Hosts : hosts[h] = NoEntry /\ settled[h] = 0 /\ details[h] = 0
      /\ \A c \in Calls : call[c].at = "idle"
  BY DEF Init, NoCall
<1>3. Fresh
  BY <1>2 DEF Fresh
<1> QED BY <1>1, <1>3 DEF FreshInv

(***************************************************************************)
(* A step that gives a caller a connection gives it one as new as the      *)
(* details that were settled when it asked.                                *)
(***************************************************************************)
GivesFresh ==
  \A c \in Calls :
    (call'[c].at = "running" /\ call[c].at # "running")
      => LET x == conn[call'[c].conn] IN x.open => x.with >= call[c].since

LEMMA FreshStep == FreshInv /\ [Next]_vars => FreshInv' /\ [GivesFresh]_vars
<1> SUFFICES ASSUME FreshInv, [Next]_vars PROVE FreshInv' /\ [GivesFresh]_vars
  OBVIOUS
<1>1. ConnInv' /\ TypeInv /\ TypeInv'
  BY ConnInvStep DEF FreshInv, ConnInv
<1>2. CASE UNCHANGED vars
  BY <1>1, <1>2 DEF vars, confVars, poolVars, FreshInv, Fresh, FreshFor
<1>3. ASSUME NEW c \in Calls, Connect(c) PROVE Fresh' /\ GivesFresh
  BY <1>3, FreshConnect DEF GivesFresh
<1>4. ASSUME NEW c \in Calls, Answered(c) PROVE Fresh' /\ GivesFresh
  <2>1. Fresh' /\ \A d \in Calls \ {c} : call'[d] = call[d]
    BY <1>1, <1>4, FreshCalls
  <2> DEFINE x == entry[call[c].entry].conn
  <2>2. /\ call[c].at = "answered" /\ Got(c, x) /\ x \in Conns \cup {NoConn}
        /\ FreshFor(call[c].entry, call[c].since)
    BY <1>1, <1>4 DEF Answered, TypeInv, CallsOK, EntriesOK, EntryType, FreshInv, Fresh
  <2>3. call'[c].at = "running" => call'[c].conn = x /\ x # NoConn
    BY <1>1, <2>2, FailsOK, RunsOK DEF Got, TypeInv
  <2>4. call'[c].at = "running" =>
          LET y == conn[call'[c].conn] IN y.open => y.with >= call[c].since
    BY <2>2, <2>3 DEF FreshFor
  <2> QED BY <2>1, <2>4 DEF GivesFresh
<1>5. ASSUME NEW c \in Calls,
             StopWaiting(c) \/ Finish(c) \/ Drop(c) \/ (\E h \in Hosts : Ask(c, h))
      PROVE  Fresh' /\ GivesFresh
  <2>1. Fresh' /\ \A d \in Calls \ {c} : call'[d] = call[d]
    BY <1>1, <1>5, FreshCalls
  <2>2. call'[c].at # "running"
    BY <1>1, <1>5, FailsOK, AskedOK DEF StopWaiting, Finish, Drop, TypeInv
  <2> QED BY <2>1, <2>2 DEF GivesFresh
<1>6. ASSUME NEW e \in Entries, ReadDetails(e) \/ DialConnects(e) \/ DialFails(e)
      PROVE  Fresh' /\ GivesFresh
  BY <1>1, <1>6, FreshReadDetails, FreshDialConnects, FreshDialFails DEF GivesFresh
<1>7. ASSUME NEW those \in SUBSET Hosts, Forget(those), UNCHANGED details,
             \A h \in Hosts : settled'[h] = settled[h] \/ (h \in those /\ settled'[h] = details[h])
      PROVE  Fresh' /\ GivesFresh
  BY <1>1, <1>7, FreshForget DEF GivesFresh
<1>8. ASSUME NEW h \in Hosts, Reconnect(h) PROVE Fresh' /\ GivesFresh
  <2>1. CASE Discard({h}) /\ settled' = [settled EXCEPT ![h] = details[h]]
    <3>1. \A g \in Hosts : settled'[g] = settled[g] \/ (g \in {h} /\ settled'[g] = details[g])
      BY <1>1, <2>1 DEF TypeInv, ConfOK
    <3> QED BY <1>7, <1>8, <2>1, <3>1 DEF Reconnect, Discard
  <2>2. CASE UNCHANGED <<hosts, entry, conn, doomed, call, settled>>
    BY <1>8, <2>2 DEF Reconnect, FreshInv, Fresh, FreshFor, GivesFresh
  <2> QED BY <1>8, <2>1, <2>2 DEF Reconnect
<1>9. ASSUME NEW those \in pruning, Retain(those) PROVE Fresh' /\ GivesFresh
  <2>1. Hosts \ Kept(those) \in SUBSET Hosts /\ UNCHANGED <<details, settled>>
    BY <1>9 DEF Retain
  <2> QED BY <1>7, <1>9, <2>1 DEF Retain
<1>10. ASSUME Close PROVE Fresh' /\ GivesFresh
  <2>1. Forget(Hosts) /\ UNCHANGED details /\ UNCHANGED settled
    BY <1>10 DEF Close, confVars
  <2>2. Hosts \in SUBSET Hosts
    OBVIOUS
  <2> QED BY <1>7, <2>1, <2>2
<1>11. ASSUME NEW x \in Conns, CloseConn(x) PROVE Fresh' /\ GivesFresh
  <2>1. /\ UNCHANGED <<hosts, entry, call, details, settled>>
        /\ \A y \in Conns : conn'[y] = conn[y] \/ ~conn'[y].open
    BY <1>1, <1>11 DEF CloseConn, confVars, NewConn, TypeInv, PoolOK
  <2>2. \A h \in Hosts : settled[h] =< details[h] /\ settled[h] =< settled[h]
    BY <1>1, Versions DEF FreshInv, Fresh
  <2>3. Fresh'
    BY <1>1, <2>1, <2>2, FreshKeeps DEF FreshInv
  <2> QED BY <2>1, <2>3 DEF GivesFresh
<1>12. ASSUME Configures PROVE Fresh' /\ GivesFresh
  <2>1. UNCHANGED <<poolVars, call, settled>> /\ \A h \in Hosts : details'[h] >= details[h]
    BY <1>1, <1>12, ConfiguresTypes
  <2>2. \A h \in Hosts : settled[h] =< details'[h]
    <3>1. \A h \in Hosts : details'[h] \in Nat
      BY <1>1, Versions, HostPoolAssumption DEF TypeInv, ConfOK
    <3> QED BY <1>1, <2>1, <3>1, Versions DEF FreshInv, Fresh
  <2>3. /\ UNCHANGED <<hosts, entry, conn, call, settled>>
        /\ \A h \in Hosts : settled[h] =< settled[h]
    BY <1>1, <2>1, Versions DEF poolVars
  <2>4. Fresh'
    BY <1>1, <2>2, <2>3, FreshKeeps DEF FreshInv
  <2> QED BY <2>3, <2>4 DEF GivesFresh
<1>13. CASE Next
  BY <1>1, <1>3, <1>4, <1>5, <1>6, <1>8, <1>9, <1>10, <1>11, <1>12, <1>13, Steps DEF FreshInv
<1> QED BY <1>1, <1>2, <1>13

(***************************************************************************)
(* "So the next collection dials it with the new details": a call made     *)
(* after an edit was answered gets no connection made with what the edit   *)
(* replaced, whatever was being dialed then (PutConfigSSHConnection and    *)
(* Reconnect).                                                             *)
(***************************************************************************)
THEOREM FreshDetailsCorrect == Spec => FreshDetails
<1>1. [][GivesFresh]_vars => FreshDetails
  BY PTL DEF FreshDetails, GivesFresh
<1> QED BY <1>1, FreshInit, FreshStep, PTL DEF Spec

-----------------------------------------------------------------------------
(***************************************************************************)
(* The tasks that are started and resumed.  Whoever may still make a       *)
(* window for a conversation claims it: the windows, the requests that are *)
(* at the host and the scripts nobody waits for.  A conversation with a    *)
(* new ID has one claimant; one that is resumed has the holder of its      *)
(* lock, and others only where that one, or they, are blind                *)
(* (`BlindPairs').                                                         *)
(***************************************************************************)

\* What is said of the agents that run, and in a snapshot, is what ran.
AgentsRan ==
  /\ \A s \in Windows :
       /\ window[s].at # "none" => window[s].name \in TmuxNames
       /\ window[s].at = "asking" => window[s].talk = NoTalk
       /\ window[s].at = "running" => window[s].talk \in Talks /\ <<window[s].name, window[s].talk>> \in ran
  /\ \A p \in Pages : page[p].at = "listed" =>
       \A n \in TmuxNames, t \in Talks : <<n, t>> \in page[p].seen => <<n, t>> \in ran

\* What a request has at each of its stages.
StagedAs(r) ==
  /\ r.at = "new" \/ r.mode = "new" => r.lock = NoAsk
  /\ r.at \in {"waiting", "holding"} => r.mode = "resume"
  /\ r.at = "label" => r.mode = "new"
  /\ r.at # "new" => r.name \in TmuxNames
  /\ r.at # "new" /\ r.mode = "resume" => r.talk \in Talks /\ r.lock \in Asks
  /\ r.at # "new" /\ r.mode = "new" /\ r.talk # NoTalk => r.talk \in Given

AsksStaged == (\A a \in Asks : StagedAs(ask[a])) /\ (\A w \in stray : w.name \in TmuxNames)

\* Who uses a lock, and who has it.
Using(l) == {a \in Asks : ask[a].lock = l /\ ask[a].at # "done"}
Holds(a) == ask[a].lock # NoAsk /\ ask[a].at \in {"holding", "launch"}

LocksCounted == \A l \in Asks : users[l] = Cardinality(Using(l))

LocksMapped ==
  /\ \A l \in Asks : \A a \in Using(l) :
       mapped[ask[a].talk] = l /\ ask[l].lock = l /\ ask[a].talk = ask[l].talk
  /\ \A t \in Talks, l \in Asks : mapped[t] = l => ask[l].lock = l /\ ask[l].talk = t /\ Using(l) # {}

OneHolder ==
  /\ \A a \in Asks : Holds(a) => held[ask[a].lock]
  /\ \A a, b \in Asks : Holds(a) /\ Holds(b) /\ ask[a].lock = ask[b].lock => a = b

LocksInv == LocksCounted /\ LocksMapped /\ OneHolder

\* Who claims a conversation.
InWindow(t) == \E s \in Windows : window[s].at # "none" /\ window[s].talk = t
InStray(t)  == \E w \in stray : w.talk = t
AtHost(a, t) == ask[a].at = "launch" /\ ask[a].talk = t

\* It has a log, or an ID that is not given again.
ClaimsKnown ==
  \A t \in Talks : InWindow(t) \/ InStray(t) \/ (\E a \in Asks : AtHost(a, t)) =>
    t \in logs \/ (t \in Given /\ TalkName[t] \in names)

NewAlone ==
  \A a \in Asks, t \in Talks : AtHost(a, t) /\ ask[a].mode = "new" =>
    t \notin logs /\ ~InWindow(t) /\ ~InStray(t) /\ \A b \in Asks : AtHost(b, t) => b = a

BlindPairs ==
  \A t \in Talks :
    /\ \A s, r \in Windows :
         s # r /\ window[s].at # "none" /\ window[r].at # "none" /\ window[s].talk = t /\ window[r].talk = t
           => window[s].blind \/ window[r].blind
    /\ \A w, v \in stray : w # v /\ w.talk = t /\ v.talk = t => w.blind \/ v.blind
    /\ \A s \in Windows, w \in stray :
         window[s].at # "none" /\ window[s].talk = t /\ w.talk = t => window[s].blind \/ w.blind
    /\ \A a \in Asks, s \in Windows :
         AtHost(a, t) /\ window[s].at # "none" /\ window[s].talk = t => window[s].blind \/ ask[a].blind
    /\ \A a \in Asks, w \in stray : AtHost(a, t) /\ w.talk = t => w.blind \/ ask[a].blind

ClaimsInv == ClaimsKnown /\ NewAlone /\ BlindPairs

\* Labels of a launch, waiting labels and recorded ones do not share a name.
Labelling(a) == ask[a].mode = "new" /\ ask[a].at \in {"launch", "label"}

NamesOnce ==
  /\ \A a, b \in Asks : Labelling(a) /\ Labelling(b) /\ ask[a].name = ask[b].name => a = b
  /\ \A a \in Asks : Labelling(a) =>
       /\ ask[a].name \in names /\ pending[ask[a].name] = "none"
       /\ \A x \in labelled : x[1] # ask[a].name
  /\ \A n \in TmuxNames : pending[n] # "none" => n \in names /\ \A x \in labelled : x[1] # n
  /\ \A x \in labelled : x[1] \in names

LabelsInv == NamesOnce /\ LabelsOfOne

LaunchInv == LaunchTypeOK /\ AgentsRan /\ AsksStaged /\ LocksInv /\ ClaimsInv /\ LabelsInv

-----------------------------------------------------------------------------
LEMMA AskUpdates ==
  ASSUME NEW r \in AskState, NEW x \in {"holding", "label", "done"}
  PROVE  LET d == [r EXCEPT !.at = x] IN
         d \in AskState /\ d.at = x /\ d.talk = r.talk /\ d.name = r.name /\ d.mode = r.mode /\ d.lock = r.lock
BY DEF AskState

\* A request that goes to the host.
Found(r, blind, free) == [r EXCEPT !.at = "launch", !.blind = blind, !.reuse = free]

LEMMA AskFound ==
  ASSUME NEW r \in AskState, NEW blind \in BOOLEAN, NEW free \in BOOLEAN
  PROVE  LET d == Found(r, blind, free) IN
         /\ d \in AskState /\ d.at = "launch" /\ d.talk = r.talk /\ d.name = r.name /\ d.mode = r.mode /\ d.lock = r.lock
         /\ d.blind = blind
BY DEF AskState, Found

LEMMA NewAsks ==
  /\ NewAsk \in AskState /\ NewAsk.at = "new" /\ NewAsk.mode = "new" /\ NewAsk.lock = NoAsk /\ NewAsk.talk = NoTalk
BY DEF AskState, NewAsk

\* A launch, whose agent is given its ID or picks one.
Launching(t, n)  == [NewAsk EXCEPT !.at = "launch", !.talk = t, !.name = n]
LaunchingAny(n) == [NewAsk EXCEPT !.at = "launch", !.name = n]

LEMMA AskedNew ==
  ASSUME NEW t \in Talks, NEW n \in TmuxNames
  PROVE  LET d == Launching(t, n) IN
         d \in AskState /\ d.at = "launch" /\ d.talk = t /\ d.name = n /\ d.mode = "new" /\ d.lock = NoAsk
<1> DEFINE r == NewAsk
           d == [r EXCEPT !.at = "launch", !.talk = t, !.name = n]
<1>1. Launching(t, n) = d
  BY DEF Launching
<1>2. r \in AskState /\ r.mode = "new" /\ r.lock = NoAsk
  BY NewAsks
<1> HIDE DEF r
<1>3. d \in AskState /\ d.at = "launch" /\ d.talk = t /\ d.name = n /\ d.mode = "new" /\ d.lock = NoAsk
  BY <1>2 DEF AskState
<1> QED BY <1>1, <1>3

LEMMA AskedAny ==
  ASSUME NEW n \in TmuxNames
  PROVE  LET d == LaunchingAny(n) IN
         d \in AskState /\ d.at = "launch" /\ d.talk = NoTalk /\ d.name = n /\ d.mode = "new" /\ d.lock = NoAsk
<1> DEFINE r == NewAsk
           d == [r EXCEPT !.at = "launch", !.name = n]
<1>1. LaunchingAny(n) = d
  BY DEF LaunchingAny
<1>2. r \in AskState /\ r.mode = "new" /\ r.lock = NoAsk /\ r.talk = NoTalk
  BY NewAsks
<1> HIDE DEF r
<1>3. d \in AskState /\ d.at = "launch" /\ d.talk = NoTalk /\ d.name = n /\ d.mode = "new" /\ d.lock = NoAsk
  BY <1>2 DEF AskState
<1> QED BY <1>1, <1>3

\* A request that waits for a lock.
Waiting(t, l) == [NewAsk EXCEPT !.at = "waiting", !.talk = t, !.name = TalkName[t], !.mode = "resume", !.lock = l]

LEMMA AskedResume ==
  ASSUME NEW t \in Talks, NEW l \in Asks
  PROVE  /\ Waiting(t, l) \in AskState /\ Waiting(t, l).at = "waiting" /\ Waiting(t, l).talk = t
         /\ Waiting(t, l).name = TalkName[t] /\ Waiting(t, l).mode = "resume" /\ Waiting(t, l).lock = l
<1> DEFINE r == NewAsk
           d == [r EXCEPT !.at = "waiting", !.talk = t, !.name = TalkName[t], !.mode = "resume", !.lock = l]
<1>1. r \in AskState /\ TalkName[t] \in TmuxNames
  BY NewAsks, TaskLaunchAssumption
<1>2. Waiting(t, l) = d
  BY DEF Waiting
<1> HIDE DEF r
<1>3. d \in AskState /\ d.at = "waiting" /\ d.talk = t /\ d.name = TalkName[t] /\ d.mode = "resume" /\ d.lock = l
  BY <1>1 DEF AskState
<1> QED BY <1>2, <1>3

\* A window as a step leaves it.
LEMMA WindowUpdates ==
  ASSUME NEW w \in WindowState, NEW t \in Talks, NEW n \in TmuxNames
  PROVE  /\ LET d == [w EXCEPT !.at = "running"] IN
            d \in WindowState /\ d.at = "running" /\ d.name = w.name /\ d.talk = w.talk /\ d.blind = w.blind
         /\ LET d == [w EXCEPT !.at = "asking"] IN
            d \in WindowState /\ d.at = "asking" /\ d.name = w.name /\ d.talk = w.talk /\ d.blind = w.blind
         /\ LET d == [w EXCEPT !.at = "running", !.talk = t] IN
            d \in WindowState /\ d.at = "running" /\ d.name = w.name /\ d.talk = t /\ d.blind = w.blind
         /\ LET d == [w EXCEPT !.at = "asking", !.name = n] IN
            d \in WindowState /\ d.at = "asking" /\ d.name = n /\ d.talk = w.talk /\ d.blind = w.blind
BY DEF WindowState

LEMMA NoWindowState == NoWindow \in WindowState /\ NoWindow.at = "none" /\ NoWindow.talk = NoTalk
BY DEF WindowState, NoWindow

LEMMA ScriptWindow ==
  ASSUME NEW w \in AskState
  PROVE  LET d == [at |-> "starting", name |-> w.name, talk |-> w.talk, blind |-> w.blind] IN
         d \in WindowState /\ d.at = "starting" /\ d.name = w.name /\ d.talk = w.talk /\ d.blind = w.blind
BY DEF AskState, WindowState

-----------------------------------------------------------------------------
\* The locks.  A request that is done with a lock takes itself out of the
\* set of its users, and the last one takes the lock out of the map.
LEMMA UsersAreFinite ==
  ASSUME NEW l
  PROVE  IsFiniteSet(Using(l)) /\ Cardinality(Using(l)) \in Nat /\ Cardinality(Using(l)) =< Cardinality(Asks)
<1>1. IsFiniteSet(Asks) /\ Using(l) \in SUBSET Asks
  BY TaskLaunchAssumption DEF Using
<1> QED BY <1>1, FS_Subset, FS_CardinalityType

LEMMA UsersBounded ==
  ASSUME LocksInv', users' \in [Asks -> Nat] PROVE users' \in [Asks -> 0..Cardinality(Asks)]
<1>1. ASSUME NEW l \in Asks PROVE users'[l] \in 0..Cardinality(Asks)
  <2>1. IsFiniteSet(Asks) /\ Using(l)' \in SUBSET Asks
    BY TaskLaunchAssumption DEF Using
  <2>2. Cardinality(Using(l)') =< Cardinality(Asks) /\ Cardinality(Asks) \in Nat
    BY <2>1, FS_Subset, FS_CardinalityType
  <2>3. users'[l] = Cardinality(Using(l)')
    BY DEF LocksInv, LocksCounted
  <2> QED BY <2>2, <2>3
<1> QED BY <1>1

\* A request leaves its lock.
LEMMA ReleaseKeepsLocks ==
  ASSUME LaunchTypeOK, AsksStaged, LocksInv, NEW a \in Asks, Release(a), Ended(a),
         ask[a].at \in {"waiting", "holding"} \/ (ask[a].at = "launch" /\ ask[a].mode = "resume")
  PROVE  LocksInv' /\ mapped' \in [Talks -> Asks \cup {NoAsk}] /\ users' \in [Asks -> Nat] /\ held' \in [Asks -> BOOLEAN]
<1> PICK l : l = ask[a].lock
  OBVIOUS
<1> DEFINE d == [ask[a] EXCEPT !.at = "done"]
<1>1. ask \in [Asks -> AskState] /\ ask' = [ask EXCEPT ![a] = d] /\ users \in [Asks -> Nat] /\ held \in [Asks -> BOOLEAN]
      /\ mapped \in [Talks -> Asks \cup {NoAsk}]
  BY DEF LaunchTypeOK, Ended, Becomes
<1>2. d.at = "done" /\ d.lock = l /\ d.talk = ask[a].talk
  BY <1>1, AskUpdates
<1> HIDE DEF d
<1>3. l \in Asks /\ l # NoAsk /\ ask[a].talk \in Talks
  BY <1>1, TaskLaunchAssumption DEF AsksStaged, StagedAs
<1>4. a \in Using(l) /\ mapped[ask[a].talk] = l /\ ask[l].lock = l /\ ask[l].talk = ask[a].talk
  BY <1>3 DEF Using, LocksInv, LocksMapped
<1>5. Using(l)' = Using(l) \ {a} /\ \A k \in Asks : k # l => Using(k)' = Using(k)
  BY <1>1, <1>2, <1>4 DEF Using
<1>6. Cardinality(Using(l)') = users[l] - 1 /\ users[l] - 1 \in Nat
  <2>1. Cardinality(Using(l) \ {a}) = Cardinality(Using(l)) - 1 /\ IsFiniteSet(Using(l) \ {a})
    BY <1>4, UsersAreFinite, FS_RemoveElement
  <2> QED BY <1>3, <1>5, <2>1, FS_CardinalityType DEF LocksInv, LocksCounted
<1>7. users' = [users EXCEPT ![l] = users[l] - 1]
      /\ held' = (IF ask[a].at = "waiting" THEN held ELSE [held EXCEPT ![l] = FALSE])
      /\ mapped' = (IF users[l] > 1 THEN mapped ELSE [mapped EXCEPT ![ask[a].talk] = NoAsk])
  BY DEF Release, Leaves
<1>8. LocksCounted'
  BY <1>1, <1>3, <1>5, <1>6, <1>7 DEF LocksInv, LocksCounted
<1>9. \A b \in Asks : ask'[b].lock = ask[b].lock /\ ask'[b].talk = ask[b].talk /\ (b # a => ask'[b] = ask[b])
  BY <1>1, <1>2
<1>10. users[l] > 1 <=> Using(l)' # {}
  <2>1. Using(l)' # {} => Cardinality(Using(l)') # 0
    BY <1>4, <1>5, UsersAreFinite, FS_RemoveElement, FS_EmptySet
  <2>2. Using(l)' = {} => Cardinality(Using(l)') = 0
    BY FS_EmptySet
  <2> QED BY <1>1, <1>3, <1>6, <2>1, <2>2
<1>11. LocksMapped'
  <2>1. ASSUME NEW k \in Asks, NEW b \in Using(k)'
        PROVE  mapped'[ask'[b].talk] = k /\ ask'[k].lock = k /\ ask'[b].talk = ask'[k].talk
    <3>1. b \in Asks /\ b # a /\ b \in Using(k) /\ ask'[b] = ask[b]
      BY <1>1, <1>2, <1>5, <1>9 DEF Using
    <3>2. mapped[ask[b].talk] = k /\ ask[k].lock = k /\ ask[b].talk = ask[k].talk
      BY <3>1 DEF LocksInv, LocksMapped
    <3>3. CASE ask[b].talk = ask[a].talk
      <4>1. k = l
        BY <1>4, <3>2, <3>3
      <4>2. users[l] > 1
        BY <1>10, <4>1
      <4> QED BY <1>7, <1>9, <3>1, <3>2, <4>2
    <3>4. CASE ask[b].talk # ask[a].talk
      BY <1>1, <1>7, <1>9, <3>1, <3>2, <3>4
    <3> QED BY <3>3, <3>4
  <2>2. ASSUME NEW t \in Talks, NEW k \in Asks, mapped'[t] = k
        PROVE  ask'[k].lock = k /\ ask'[k].talk = t /\ Using(k)' # {}
    <3>1. mapped[t] = k /\ k # NoAsk
      BY <1>1, <1>7, <2>2, TaskLaunchAssumption
    <3>2. ask[k].lock = k /\ ask[k].talk = t /\ Using(k) # {}
      BY <3>1 DEF LocksInv, LocksMapped
    <3>3. CASE k = l
      <4>1. t = ask[a].talk
        BY <1>4, <3>2, <3>3
      <4>2. users[l] > 1
        BY <1>1, <1>7, <2>2, <3>1, <4>1
      <4>3. Using(l)' # {}
        BY <1>10, <4>2
      <4> QED BY <1>9, <3>1, <3>2, <3>3, <4>3
    <3>4. CASE k # l
      <4>1. Using(k)' = Using(k)
        BY <1>5, <3>4
      <4> QED BY <1>9, <3>1, <3>2, <4>1
    <3> QED BY <3>3, <3>4
  <2> QED BY <2>1, <2>2 DEF LocksMapped
<1>12. OneHolder'
  <2>1. ASSUME NEW b \in Asks, Holds(b)' PROVE b # a /\ Holds(b) /\ ask'[b] = ask[b]
    BY <1>1, <1>2, <2>1 DEF Holds
  <2>2. ASSUME NEW b \in Asks, Holds(b)' PROVE held'[ask'[b].lock]
    <3>1. b # a /\ Holds(b) /\ ask'[b] = ask[b] /\ held[ask[b].lock]
      BY <2>1, <2>2 DEF LocksInv, OneHolder
    <3>2. CASE ask[a].at = "waiting"
      BY <1>7, <3>1, <3>2
    <3>3. CASE ask[a].at # "waiting"
      <4>1. Holds(a)
        BY <1>3, <3>3 DEF Holds
      <4>2. ask[b].lock # l
        BY <3>1, <4>1 DEF LocksInv, OneHolder
      <4> QED BY <1>1, <1>7, <3>1, <3>3, <4>2
    <3> QED BY <3>2, <3>3
  <2> QED BY <2>1, <2>2 DEF LocksInv, OneHolder
<1>13. mapped' \in [Talks -> Asks \cup {NoAsk}] /\ users' \in [Asks -> Nat] /\ held' \in [Asks -> BOOLEAN]
  BY <1>1, <1>3, <1>6, <1>7, UsersAreFinite
<1> QED BY <1>8, <1>11, <1>12, <1>13 DEF LocksInv

\* A request joins its conversation's lock.
LEMMA ResumeKeepsLocks ==
  ASSUME LaunchTypeOK, AsksStaged, LocksInv, NEW a \in Asks, NEW t \in Talks, Resume(a, t)
  PROVE  LocksInv' /\ mapped' \in [Talks -> Asks \cup {NoAsk}] /\ users' \in [Asks -> Nat]
         /\ ask' \in [Asks -> AskState] /\ StagedAs(ask'[a]) /\ ask'[a].at = "waiting"
<1> PICK l : l = IF mapped[t] = NoAsk THEN a ELSE mapped[t]
  OBVIOUS
<1> DEFINE d == Waiting(t, l)
<1>1. ask \in [Asks -> AskState] /\ users \in [Asks -> Nat] /\ mapped \in [Talks -> Asks \cup {NoAsk}]
  BY DEF LaunchTypeOK
<1>2. ask[a].at = "new" /\ ask[a].lock = NoAsk
  BY DEF Resume, AsksStaged, StagedAs
<1>3. l \in Asks
  BY <1>1 DEF LocksInv, LocksMapped
<1>4. mapped' = [mapped EXCEPT ![t] = l] /\ users' = [users EXCEPT ![l] = users[l] + 1] /\ ask' = [ask EXCEPT ![a] = d]
      /\ held' = held
  BY DEF Resume, Becomes, Waiting
<1>5. d \in AskState /\ d.at = "waiting" /\ d.talk = t /\ d.name = TalkName[t] /\ d.mode = "resume" /\ d.lock = l
  BY <1>3, AskedResume
<1> HIDE DEF d
<1>6. mapped[t] = NoAsk => Using(a) = {}
  <2> SUFFICES ASSUME NEW b \in Using(a) PROVE FALSE
    OBVIOUS
  <2>1. ask[a].lock = a
    BY DEF LocksInv, LocksMapped
  <2> QED BY <1>2, <2>1, TaskLaunchAssumption
<1>7. a \notin Using(l) /\ Using(l)' = Using(l) \cup {a} /\ \A k \in Asks : k # l => Using(k)' = Using(k)
  <2>1. NoAsk \notin Asks
    BY TaskLaunchAssumption
  <2> QED BY <1>1, <1>2, <1>3, <1>4, <1>5, <2>1 DEF Using
<1>8. Cardinality(Using(l)') = users[l] + 1
  <2>1. Cardinality(Using(l) \cup {a}) = Cardinality(Using(l)) + 1
    BY <1>7, UsersAreFinite, FS_AddElement
  <2> QED BY <1>3, <1>7, <2>1 DEF LocksInv, LocksCounted
<1>9. LocksCounted'
  BY <1>1, <1>3, <1>4, <1>7, <1>8 DEF LocksInv, LocksCounted
<1>10. ask'[a] = d /\ \A b \in Asks : b # a => ask'[b] = ask[b]
  BY <1>1, <1>4
<1>11. ask'[l].lock = l /\ ask'[l].talk = t
  <2>1. CASE mapped[t] = NoAsk
    BY <1>5, <1>10, <2>1
  <2>2. CASE mapped[t] # NoAsk
    <3>1. ask[l].lock = l /\ ask[l].talk = t /\ l # NoAsk
      BY <1>1, <2>2 DEF LocksInv, LocksMapped
    <3> QED BY <1>2, <1>3, <1>10, <3>1
  <2> QED BY <2>1, <2>2
<1>12. LocksMapped'
  <2>1. ASSUME NEW k \in Asks, NEW b \in Using(k)'
        PROVE  mapped'[ask'[b].talk] = k /\ ask'[k].lock = k /\ ask'[b].talk = ask'[k].talk
    <3>1. CASE b = a
      <4>1. k = l
        BY <1>5, <1>10, <2>1, <3>1 DEF Using
      <4> QED BY <1>1, <1>4, <1>5, <1>10, <1>11, <3>1, <4>1
    <3>2. CASE b # a
      <4>1. b \in Asks /\ b \in Using(k) /\ ask'[b] = ask[b]
        BY <1>7, <1>10, <3>2 DEF Using
      <4>2. mapped[ask[b].talk] = k /\ ask[k].lock = k /\ ask[b].talk = ask[k].talk
        BY <4>1 DEF LocksInv, LocksMapped
      <4>3. k # NoAsk
        BY TaskLaunchAssumption
      <4>4. ask'[k] = ask[k]
        BY <1>2, <1>10, <4>2, <4>3
      <4>5. mapped'[ask[b].talk] = k
        BY <1>1, <1>4, <4>2, <4>3
      <4> QED BY <4>1, <4>2, <4>4, <4>5
    <3> QED BY <3>1, <3>2
  <2>2. ASSUME NEW u \in Talks, NEW k \in Asks, mapped'[u] = k
        PROVE  ask'[k].lock = k /\ ask'[k].talk = u /\ Using(k)' # {}
    <3>1. CASE u = t
      <4>1. k = l
        BY <1>1, <1>4, <2>2, <3>1
      <4>2. Using(l)' # {}
        BY <1>7
      <4> QED BY <1>11, <3>1, <4>1, <4>2
    <3>2. CASE u # t
      <4>1. mapped[u] = k /\ k # NoAsk
        BY <1>1, <1>4, <2>2, <3>2, TaskLaunchAssumption
      <4>2. ask[k].lock = k /\ ask[k].talk = u /\ Using(k) # {}
        BY <4>1 DEF LocksInv, LocksMapped
      <4>3. k # a /\ ask'[k] = ask[k]
        BY <1>2, <1>10, <4>1, <4>2
      <4>4. k # l
        BY <1>11, <3>2, <4>2, <4>3
      <4>5. Using(k)' = Using(k)
        BY <1>7, <4>4
      <4> QED BY <4>2, <4>3, <4>5
    <3> QED BY <3>1, <3>2
  <2> QED BY <2>1, <2>2 DEF LocksMapped
<1>13. OneHolder'
  <2>1. \A b \in Asks : Holds(b)' => b # a /\ Holds(b) /\ ask'[b] = ask[b]
    BY <1>5, <1>10 DEF Holds
  <2> QED BY <1>4, <2>1 DEF LocksInv, OneHolder
<1>14. StagedAs(d)
  BY <1>3, <1>5, TaskLaunchAssumption DEF StagedAs
<1>15. mapped' \in [Talks -> Asks \cup {NoAsk}] /\ users' \in [Asks -> Nat] /\ ask' \in [Asks -> AskState]
  BY <1>1, <1>3, <1>4, <1>5
<1> QED BY <1>5, <1>9, <1>10, <1>12, <1>13, <1>14, <1>15 DEF LocksInv

\* The lock of a request that goes on stays as it is.
LEMMA LocksAside ==
  ASSUME LaunchTypeOK, LocksInv, NEW a \in Asks, NEW d \in AskState, ask' = [ask EXCEPT ![a] = d], UNCHANGED <<mapped, users>>,
         d.lock = ask[a].lock,
         d.lock # NoAsk => d.talk = ask[a].talk /\ d.at # "done" /\ ask[a].at # "done",
         \/ held' = held /\ (Holds(a)' => Holds(a))
         \/ d.lock \in Asks /\ ~held[d.lock] /\ held' = [held EXCEPT ![d.lock] = TRUE]
  PROVE  LocksInv'
<1>1. ask \in [Asks -> AskState] /\ held \in [Asks -> BOOLEAN] /\ NoAsk \notin Asks
  BY TaskLaunchAssumption DEF LaunchTypeOK
<1>2. \A b \in Asks : ask'[b].lock = ask[b].lock /\ (b # a => ask'[b] = ask[b])
      /\ (ask[b].lock # NoAsk => ask'[b].talk = ask[b].talk)
  BY <1>1
<1>3. \A k \in Asks : Using(k)' = Using(k)
  BY <1>1, <1>2 DEF Using
<1>4. LocksCounted'
  BY <1>3 DEF LocksInv, LocksCounted
<1>5. LocksMapped'
  <2>1. ASSUME NEW k \in Asks, NEW b \in Using(k)'
        PROVE  mapped'[ask'[b].talk] = k /\ ask'[k].lock = k /\ ask'[b].talk = ask'[k].talk
    <3>1. b \in Asks /\ b \in Using(k) /\ ask[b].lock = k
      BY <1>3 DEF Using
    <3>2. mapped[ask[b].talk] = k /\ ask[k].lock = k /\ ask[b].talk = ask[k].talk
      BY <3>1 DEF LocksInv, LocksMapped
    <3> QED BY <1>1, <1>2, <3>1, <3>2
  <2>2. ASSUME NEW u \in Talks, NEW k \in Asks, mapped'[u] = k
        PROVE  ask'[k].lock = k /\ ask'[k].talk = u /\ Using(k)' # {}
    <3>1. k # NoAsk /\ ask[k].lock = k /\ ask[k].talk = u /\ Using(k) # {}
      BY <1>1, <2>2 DEF LocksInv, LocksMapped
    <3> QED BY <1>2, <1>3, <3>1
  <2> QED BY <2>1, <2>2 DEF LocksMapped
<1>6. OneHolder'
  <2>1. \A b \in Asks : b # a => (Holds(b)' <=> Holds(b))
    BY <1>2 DEF Holds
  <2>2. CASE held' = held /\ (Holds(a)' => Holds(a))
    BY <1>2, <2>1, <2>2 DEF LocksInv, OneHolder
  <2>3. CASE d.lock \in Asks /\ ~held[d.lock] /\ held' = [held EXCEPT ![d.lock] = TRUE]
    <3>1. \A b \in Asks : b # a /\ Holds(b) => ask[b].lock # d.lock /\ ask[b].lock \in Asks
      BY <1>1, <2>3 DEF LocksInv, OneHolder, Holds, AskState
    <3> QED BY <1>1, <1>2, <2>1, <2>3, <3>1 DEF LocksInv, OneHolder
  <2> QED BY <2>2, <2>3
<1> QED BY <1>4, <1>5, <1>6 DEF LocksInv

-----------------------------------------------------------------------------
\* Steps after which nobody claims a conversation that did not before.
LEMMA ClaimsShrink ==
  ASSUME ClaimsInv,
         \A s \in Windows, t \in Talks : window'[s].at # "none" /\ window'[s].talk = t =>
           window[s].at # "none" /\ window[s].talk = t /\ (window[s].blind => window'[s].blind),
         stray' \subseteq stray,
         \A a \in Asks, t \in Talks : AtHost(a, t)' =>
           AtHost(a, t) /\ (ask[a].blind => ask'[a].blind) /\ ask'[a].mode = ask[a].mode,
         logs \subseteq logs', \A t \in Talks : t \in logs' => t \in logs \/ InWindow(t),
         names \subseteq names'
  PROVE  ClaimsInv'
<1>1. \A t \in Talks : InWindow(t)' => InWindow(t)
  BY DEF InWindow
<1>2. \A t \in Talks : InStray(t)' => InStray(t)
  BY DEF InStray
<1>3. ClaimsKnown'
  BY <1>1, <1>2 DEF ClaimsInv, ClaimsKnown
<1>4. NewAlone'
  BY <1>1, <1>2 DEF ClaimsInv, NewAlone
<1>5. BlindPairs'
  BY DEF ClaimsInv, BlindPairs
<1> QED BY <1>3, <1>4, <1>5 DEF ClaimsInv

\* Steps that leave labels and the requests that give them as they are.
LEMMA LabelsAside ==
  ASSUME LabelsInv, UNCHANGED <<pending, labelled>>, names \subseteq names', ran \subseteq ran',
         \A a \in Asks : Labelling(a)' => Labelling(a) /\ ask'[a].name = ask[a].name
  PROVE  LabelsInv'
<1>1. NamesOnce'
  BY DEF LabelsInv, NamesOnce
<1>2. LabelsOfOne'
  BY DEF LabelsInv, LabelsOfOne
<1> QED BY <1>1, <1>2 DEF LabelsInv

\* Steps of which the requests know nothing.
LEMMA AsksAside ==
  ASSUME AsksStaged, LocksInv, UNCHANGED <<ask, mapped, users, held>>, stray' \subseteq stray
  PROVE  AsksStaged' /\ LocksInv' /\ (\A a \in Asks : (Labelling(a)' <=> Labelling(a)) /\ \A t : AtHost(a, t)' <=> AtHost(a, t))
<1>1. AsksStaged'
  BY DEF AsksStaged
<1>2. \A l : Using(l)' = Using(l)
  BY DEF Using
<1>3. LocksInv'
  BY <1>2 DEF LocksInv, LocksCounted, LocksMapped, OneHolder, Holds
<1> QED BY <1>1, <1>3 DEF Labelling, AtHost

LEMMA AgentsAside ==
  ASSUME AgentsRan, UNCHANGED <<window, page>>, ran \subseteq ran' PROVE AgentsRan'
BY DEF AgentsRan

LEMMA LaunchTypes ==
  ASSUME LaunchTypeOK
  PROVE  /\ window \in [Windows -> WindowState] /\ ask \in [Asks -> AskState] /\ stray \subseteq AskState
         /\ plain \subseteq TmuxNames /\ logs \subseteq Talks /\ known \in BOOLEAN /\ names \subseteq TmuxNames
         /\ mapped \in [Talks -> Asks \cup {NoAsk}] /\ users \in [Asks -> 0..Cardinality(Asks)] /\ held \in [Asks -> BOOLEAN]
         /\ pending \in [TmuxNames -> {"none", "fresh", "aged"}]
         /\ labelled \subseteq TmuxNames \X Talks /\ ran \subseteq TmuxNames \X Talks
         /\ NoTalk \notin Talks /\ TalkName \in [Talks -> TmuxNames] /\ Given \subseteq Talks
         /\ \A s \in Windows : window[s].at \in {"none", "starting", "asking", "running"}
                               /\ window[s].talk \in Talks \cup {NoTalk}
BY TaskLaunchAssumption DEF LaunchTypeOK, WindowState

\* The agents.
LEMMA AgentStartsKeeps ==
  ASSUME LaunchInv, NEW s \in Windows, AgentStarts(s) PROVE LaunchInv'
<1> DEFINE to == IF window[s].talk = NoTalk THEN "asking" ELSE "running"
           w == [window[s] EXCEPT !.at = to]
<1>1. LaunchTypeOK /\ AgentsRan /\ AsksStaged /\ LocksInv /\ ClaimsInv /\ LabelsInv
  BY DEF LaunchInv
<1>2. window[s].at = "starting" /\ window' = [window EXCEPT ![s].at = to] /\ logs' = logs \cup ({window[s].talk} \ {NoTalk})
      /\ ran' = ran \cup ({<<window[s].name, window[s].talk>>} \ {<<window[s].name, NoTalk>>})
      /\ UNCHANGED <<plain, known, stray, ask, mapped, users, held, pending, labelled, page, names>>
  BY DEF AgentStarts, lockVars, labelVars
<1>3. window' = [window EXCEPT ![s] = w]
  BY <1>2
<1>4. window[s] \in WindowState /\ window[s].name \in TmuxNames
  BY <1>1, <1>2, LaunchTypes DEF AgentsRan
<1>5. w \in WindowState /\ w.at = to /\ w.name = window[s].name /\ w.talk = window[s].talk /\ w.blind = window[s].blind
  BY <1>4 DEF WindowState
<1> HIDE DEF w, to
<1>6. to = IF window[s].talk = NoTalk THEN "asking" ELSE "running"
  BY DEF to
<1>7. window' \in [Windows -> WindowState] /\ window'[s] = w /\ \A r \in Windows : r # s => window'[r] = window[r]
  BY <1>1, <1>3, <1>5, LaunchTypes
<1>8. window[s].talk # NoTalk => window[s].talk \in Talks /\ <<window[s].name, window[s].talk>> \in TmuxNames \X Talks
  BY <1>1, <1>4, LaunchTypes
<1>9. LaunchTypeOK'
  <2>1. ran' \subseteq TmuxNames \X Talks /\ logs' \subseteq Talks
    BY <1>1, <1>2, <1>8, LaunchTypes
  <2> QED BY <1>1, <1>2, <1>7, <2>1, LaunchTypes DEF LaunchTypeOK
<1>10. ran \subseteq ran' /\ (window[s].talk # NoTalk => <<window[s].name, window[s].talk>> \in ran')
  BY <1>2
<1>11. AgentsRan'
  BY <1>1, <1>2, <1>4, <1>5, <1>6, <1>7, <1>8, <1>10 DEF AgentsRan
<1>12. AsksStaged' /\ LocksInv' /\ \A a \in Asks : (Labelling(a)' <=> Labelling(a)) /\ \A t : AtHost(a, t)' <=> AtHost(a, t)
  BY <1>1, <1>2, AsksAside
<1>13. ClaimsInv'
  <2>1. \A t \in Talks : t \in logs' => t \in logs \/ InWindow(t)
    BY <1>2 DEF InWindow
  <2>2. \A r \in Windows, t \in Talks : window'[r].at # "none" /\ window'[r].talk = t =>
           window[r].at # "none" /\ window[r].talk = t /\ (window[r].blind => window'[r].blind)
    BY <1>2, <1>5, <1>7
  <2> QED BY <1>1, <1>2, <1>12, <2>1, <2>2, ClaimsShrink
<1>14. LabelsInv'
  BY <1>1, <1>2, <1>10, <1>12, LabelsAside
<1> QED BY <1>9, <1>11, <1>12, <1>13, <1>14 DEF LaunchInv

\* The ID an agent picks was nobody's.
LEMMA AgentPicksKeeps ==
  ASSUME LaunchInv, NEW s \in Windows, AgentPicks(s) PROVE LaunchInv'
<1> PICK t : t = NewTalk
  OBVIOUS
<1> DEFINE w == [window[s] EXCEPT !.at = "running", !.talk = t]
<1>1. LaunchTypeOK /\ AgentsRan /\ AsksStaged /\ LocksInv /\ ClaimsInv /\ LabelsInv
  BY DEF LaunchInv
<1>2. /\ window[s].at = "asking" /\ ~(Talks \subseteq Given \cup logs)
      /\ window' = [window EXCEPT ![s].at = "running", ![s].talk = t]
      /\ logs' = logs \cup {t} /\ ran' = ran \cup {<<window[s].name, t>>}
      /\ UNCHANGED <<plain, known, stray, ask, mapped, users, held, pending, labelled, page, names>>
  BY DEF AgentPicks, lockVars, labelVars
<1>3. t \in Talks /\ t \notin Given \cup logs
  BY <1>2 DEF NewTalk
<1>4. window' = [window EXCEPT ![s] = w]
  BY <1>1, <1>2, LaunchTypes
<1>5. window[s] \in WindowState /\ window[s].name \in TmuxNames
  BY <1>1, <1>2, LaunchTypes DEF AgentsRan
<1>6. w \in WindowState /\ w.at = "running" /\ w.name = window[s].name /\ w.talk = t
  BY <1>3, <1>5 DEF WindowState
<1> HIDE DEF w
<1>7. window' \in [Windows -> WindowState] /\ window'[s] = w /\ \A r \in Windows : r # s => window'[r] = window[r]
  BY <1>1, <1>4, <1>6, LaunchTypes
<1>8. LaunchTypeOK'
  <2>1. ran' \subseteq TmuxNames \X Talks /\ logs' \subseteq Talks
    BY <1>1, <1>2, <1>3, <1>5, LaunchTypes
  <2> QED BY <1>1, <1>2, <1>7, <2>1, LaunchTypes DEF LaunchTypeOK
<1>9. AgentsRan'
  BY <1>1, <1>2, <1>3, <1>5, <1>6, <1>7 DEF AgentsRan
<1>10. AsksStaged' /\ LocksInv' /\ \A a \in Asks : (Labelling(a)' <=> Labelling(a)) /\ \A u : AtHost(a, u)' <=> AtHost(a, u)
  BY <1>1, <1>2, AsksAside
<1>11. ~InWindow(t) /\ ~InStray(t) /\ \A a \in Asks : ~AtHost(a, t)
  BY <1>1, <1>3 DEF ClaimsInv, ClaimsKnown
<1>12. \A r \in Windows, u \in Talks : window'[r].at # "none" /\ window'[r].talk = u =>
         (r = s /\ u = t) \/ (u # t /\ r # s /\ window[r].at # "none" /\ window[r].talk = u /\ window'[r] = window[r])
  BY <1>6, <1>7, <1>11 DEF InWindow
<1>13. ClaimsInv'
  <2>1. \A u \in Talks : InStray(u)' <=> InStray(u)
    BY <1>2 DEF InStray
  <2>2. \A u \in Talks : InWindow(u)' => u = t \/ InWindow(u)
    BY <1>12 DEF InWindow
  <2>3. ClaimsKnown'
    BY <1>1, <1>2, <1>10, <2>1, <2>2 DEF ClaimsInv, ClaimsKnown
  <2>4. NewAlone'
    BY <1>1, <1>2, <1>10, <1>11, <2>1, <2>2 DEF ClaimsInv, NewAlone
  <2>5. BlindPairs'
    <3> SUFFICES ASSUME NEW u \in Talks
                 PROVE  /\ \A p, r \in Windows :
                             p # r /\ window'[p].at # "none" /\ window'[r].at # "none" /\ window'[p].talk = u /\ window'[r].talk = u
                               => window'[p].blind \/ window'[r].blind
                        /\ \A x, v \in stray' : x # v /\ x.talk = u /\ v.talk = u => x.blind \/ v.blind
                        /\ \A r \in Windows, v \in stray' :
                             window'[r].at # "none" /\ window'[r].talk = u /\ v.talk = u => window'[r].blind \/ v.blind
                        /\ \A a \in Asks, r \in Windows :
                             AtHost(a, u)' /\ window'[r].at # "none" /\ window'[r].talk = u => window'[r].blind \/ ask'[a].blind
                        /\ \A a \in Asks, v \in stray' : AtHost(a, u)' /\ v.talk = u => v.blind \/ ask'[a].blind
      BY DEF BlindPairs
    <3>1. CASE u = t
      BY <1>2, <1>10, <1>11, <1>12, <3>1 DEF InStray
    <3>2. CASE u # t
      <4>1. \A r \in Windows : window'[r].at # "none" /\ window'[r].talk = u =>
              window[r].at # "none" /\ window[r].talk = u /\ window'[r] = window[r]
        BY <1>12, <3>2
      <4>2. stray' = stray /\ ask' = ask /\ \A a \in Asks : AtHost(a, u)' <=> AtHost(a, u)
        BY <1>2, <1>10
      <4> QED BY <1>1, <4>1, <4>2 DEF ClaimsInv, BlindPairs
    <3> QED BY <3>1, <3>2
  <2> QED BY <2>3, <2>4, <2>5 DEF ClaimsInv
<1>14. LabelsInv'
  BY <1>1, <1>2, <1>10, LabelsAside
<1> QED BY <1>8, <1>9, <1>10, <1>13, <1>14 DEF LaunchInv

\* A window that goes, or an agent started by hand.
LEMMA AgentEndsKeeps ==
  ASSUME LaunchInv, NEW s \in Windows, AgentEnds(s) PROVE LaunchInv'
<1>1. LaunchTypeOK /\ AgentsRan /\ AsksStaged /\ LocksInv /\ ClaimsInv /\ LabelsInv
  BY DEF LaunchInv
<1>2. /\ window' = [window EXCEPT ![s] = NoWindow]
      /\ UNCHANGED <<plain, logs, known, stray, ask, mapped, users, held, pending, labelled, page, ran, names>>
  BY DEF AgentEnds, lockVars, labelVars
<1>3. window' \in [Windows -> WindowState] /\ window'[s].at = "none" /\ \A r \in Windows : r # s => window'[r] = window[r]
  BY <1>1, <1>2, LaunchTypes, NoWindowState
<1>4. LaunchTypeOK'
  BY <1>1, <1>2, <1>3, LaunchTypes DEF LaunchTypeOK
<1>5. AgentsRan'
  BY <1>1, <1>2, <1>3 DEF AgentsRan
<1>6. AsksStaged' /\ LocksInv' /\ \A a \in Asks : (Labelling(a)' <=> Labelling(a)) /\ \A u : AtHost(a, u)' <=> AtHost(a, u)
  BY <1>1, <1>2, AsksAside
<1>7. ClaimsInv'
  BY <1>1, <1>2, <1>3, <1>6, ClaimsShrink
<1>8. LabelsInv'
  BY <1>1, <1>2, <1>6, LabelsAside
<1> QED BY <1>4, <1>5, <1>6, <1>7, <1>8 DEF LaunchInv

LEMMA UserStartsKeeps ==
  ASSUME LaunchInv, NEW n \in TmuxNames, UserStarts(n) PROVE LaunchInv'
<1>1. LaunchTypeOK /\ AgentsRan /\ AsksStaged /\ LocksInv /\ ClaimsInv /\ LabelsInv
  BY DEF LaunchInv
<1> DEFINE w == [NoWindow EXCEPT !.at = "asking", !.name = n]
<1>2. UNCHANGED <<plain, logs, known, stray, ask, mapped, users, held, pending, labelled, page, ran, names>>
  BY DEF UserStarts, lockVars, labelVars
<1>3. PICK s \in FreeWindows : window' = [window EXCEPT ![s] = w]
  BY DEF UserStarts
<1>4. w \in WindowState /\ w.at = "asking" /\ w.name = n /\ w.talk = NoTalk
  BY DEF NoWindow, WindowState
<1> HIDE DEF w
<1>5. s \in Windows /\ window' \in [Windows -> WindowState] /\ window'[s] = w /\ \A r \in Windows : r # s => window'[r] = window[r]
  BY <1>1, <1>3, <1>4, LaunchTypes DEF FreeWindows
<1>6. LaunchTypeOK'
  BY <1>1, <1>2, <1>5, LaunchTypes DEF LaunchTypeOK
<1>7. AgentsRan'
  BY <1>1, <1>2, <1>4, <1>5 DEF AgentsRan
<1>8. AsksStaged' /\ LocksInv' /\ \A a \in Asks : (Labelling(a)' <=> Labelling(a)) /\ \A u : AtHost(a, u)' <=> AtHost(a, u)
  BY <1>1, <1>2, AsksAside
<1>9. ClaimsInv'
  <2>1. \A r \in Windows, t \in Talks : window'[r].at # "none" /\ window'[r].talk = t =>
           window[r].at # "none" /\ window[r].talk = t /\ (window[r].blind => window'[r].blind)
    BY <1>4, <1>5, TaskLaunchAssumption
  <2> QED BY <1>1, <1>2, <1>8, <2>1, ClaimsShrink
<1>10. LabelsInv'
  BY <1>1, <1>2, <1>8, LabelsAside
<1> QED BY <1>6, <1>7, <1>8, <1>9, <1>10 DEF LaunchInv

\* What changes neither a window nor a request.
LEMMA HostMovesKeeps ==
  ASSUME LaunchInv, HostChanges \/ (\E n \in TmuxNames : UserOpens(n)) PROVE LaunchInv'
<1>1. LaunchTypeOK /\ AgentsRan /\ AsksStaged /\ LocksInv /\ ClaimsInv /\ LabelsInv
  BY DEF LaunchInv
<1>2. UNCHANGED <<window, logs, stray, ask, mapped, users, held, pending, labelled, page, ran, names>>
      /\ known' \in BOOLEAN /\ plain' \subseteq TmuxNames
  BY <1>1, LaunchTypes DEF HostChanges, UserOpens, lockVars, labelVars
<1>3. LaunchTypeOK'
  BY <1>1, <1>2, LaunchTypes DEF LaunchTypeOK
<1>4. AgentsRan'
  BY <1>1, <1>2, AgentsAside
<1>5. AsksStaged' /\ LocksInv' /\ \A a \in Asks : (Labelling(a)' <=> Labelling(a)) /\ \A u : AtHost(a, u)' <=> AtHost(a, u)
  BY <1>1, <1>2, AsksAside
<1>6. ClaimsInv'
  BY <1>1, <1>2, <1>5, ClaimsShrink
<1>7. LabelsInv'
  BY <1>1, <1>2, <1>5, LabelsAside
<1> QED BY <1>3, <1>4, <1>5, <1>6, <1>7 DEF LaunchInv

-----------------------------------------------------------------------------
\* Scripts.  One that adds a window hands its claim on to the window.
MeetsBlind(t, blind, busy, strays, asks) ==
  /\ \A s \in Windows : busy[s].at # "none" /\ busy[s].talk = t => busy[s].blind \/ blind
  /\ \A v \in strays : v.talk = t => v.blind \/ blind
  /\ \A b \in Asks : asks[b].at = "launch" /\ asks[b].talk = t => asks[b].mode # "new" /\ (asks[b].blind \/ blind)

LEMMA ClaimsMove ==
  ASSUME ClaimsInv, NEW s \in Windows, window[s].at = "none", NEW t, NEW blind \in BOOLEAN,
         window'[s].talk = t, window'[s].blind = blind, \A r \in Windows : r # s => window'[r] = window[r],
         stray' \subseteq stray,
         \A a \in Asks : ask'[a].at = "launch" => ask'[a] = ask[a],
         UNCHANGED <<logs, names>>,
         t \in Talks => (InWindow(t) \/ InStray(t) \/ \E a \in Asks : AtHost(a, t)) /\ MeetsBlind(t, blind, window, stray', ask')
  PROVE  ClaimsInv'
<1>1. \A a \in Asks, u \in Talks : AtHost(a, u)' => AtHost(a, u) /\ ask'[a] = ask[a]
  BY DEF AtHost
<1>2. \A u \in Talks : InStray(u)' => InStray(u)
  BY DEF InStray
<1>3. \A u \in Talks : InWindow(u)' => InWindow(u) \/ u = t
  BY DEF InWindow
<1>4. ClaimsKnown'
  BY <1>1, <1>2, <1>3 DEF ClaimsInv, ClaimsKnown
<1>5. t \in Talks => \A b \in Asks : AtHost(b, t)' => ask'[b].mode # "new" /\ (ask'[b].blind \/ blind)
  BY DEF MeetsBlind, AtHost
<1>6. NewAlone'
  BY <1>1, <1>2, <1>3, <1>5 DEF ClaimsInv, NewAlone
<1>7. BlindPairs'
  <2> SUFFICES ASSUME NEW u \in Talks
               PROVE  /\ \A p, r \in Windows :
                           p # r /\ window'[p].at # "none" /\ window'[r].at # "none" /\ window'[p].talk = u /\ window'[r].talk = u
                             => window'[p].blind \/ window'[r].blind
                      /\ \A x, v \in stray' : x # v /\ x.talk = u /\ v.talk = u => x.blind \/ v.blind
                      /\ \A r \in Windows, v \in stray' :
                           window'[r].at # "none" /\ window'[r].talk = u /\ v.talk = u => window'[r].blind \/ v.blind
                      /\ \A a \in Asks, r \in Windows :
                           AtHost(a, u)' /\ window'[r].at # "none" /\ window'[r].talk = u => window'[r].blind \/ ask'[a].blind
                      /\ \A a \in Asks, v \in stray' : AtHost(a, u)' /\ v.talk = u => v.blind \/ ask'[a].blind
    BY DEF BlindPairs
  <2>1. ASSUME NEW p \in Windows, NEW r \in Windows, p # r, window'[p].at # "none", window'[r].at # "none",
               window'[p].talk = u, window'[r].talk = u
        PROVE  window'[p].blind \/ window'[r].blind
    <3>1. CASE p = s
      BY <2>1, <3>1 DEF MeetsBlind
    <3>2. CASE r = s
      BY <2>1, <3>2 DEF MeetsBlind
    <3>3. CASE p # s /\ r # s
      BY <2>1, <3>3 DEF ClaimsInv, BlindPairs
    <3> QED BY <3>1, <3>2, <3>3
  <2>2. \A x, v \in stray' : x # v /\ x.talk = u /\ v.talk = u => x.blind \/ v.blind
    BY DEF ClaimsInv, BlindPairs
  <2>3. ASSUME NEW r \in Windows, NEW v \in stray', window'[r].at # "none", window'[r].talk = u, v.talk = u
        PROVE  window'[r].blind \/ v.blind
    <3>1. CASE r = s
      BY <2>3, <3>1 DEF MeetsBlind
    <3>2. CASE r # s
      BY <2>3, <3>2 DEF ClaimsInv, BlindPairs
    <3> QED BY <3>1, <3>2
  <2>4. ASSUME NEW a \in Asks, NEW r \in Windows, AtHost(a, u)', window'[r].at # "none", window'[r].talk = u
        PROVE  window'[r].blind \/ ask'[a].blind
    <3>1. CASE r = s
      BY <1>5, <2>4, <3>1
    <3>2. CASE r # s
      BY <1>1, <2>4, <3>2 DEF ClaimsInv, BlindPairs
    <3> QED BY <3>1, <3>2
  <2>5. \A a \in Asks, v \in stray' : AtHost(a, u)' /\ v.talk = u => v.blind \/ ask'[a].blind
    BY <1>1 DEF ClaimsInv, BlindPairs
  <2> QED BY <2>1, <2>2, <2>3, <2>4, <2>5
<1> QED BY <1>4, <1>6, <1>7 DEF ClaimsInv

\* What a script leaves in the windows.
LEMMA ScriptRuns ==
  ASSUME LaunchTypeOK, AgentsRan, NEW w \in AskState, w.name \in TmuxNames, RunScript(w), UNCHANGED <<page, ran>>
  PROVE  /\ window' \in [Windows -> WindowState] /\ AgentsRan'
         /\ \/ window' = window
            \/ \E s \in Windows : /\ window[s].at = "none" /\ window'[s].talk = w.talk /\ window'[s].blind = w.blind
                                  /\ \A r \in Windows : r # s => window'[r] = window[r]
<1>1. CASE window' = window
  BY <1>1, LaunchTypes, AgentsAside
<1>2. CASE \E s \in FreeWindows : window' = [window EXCEPT ![s] =
              [at |-> "starting", name |-> w.name, talk |-> w.talk, blind |-> w.blind]]
  <2> DEFINE d == [at |-> "starting", name |-> w.name, talk |-> w.talk, blind |-> w.blind]
  <2>1. PICK s \in FreeWindows : window' = [window EXCEPT ![s] = d]
    BY <1>2
  <2>2. d \in WindowState /\ d.at = "starting" /\ d.name = w.name /\ d.talk = w.talk /\ d.blind = w.blind
    BY ScriptWindow
  <2> HIDE DEF d
  <2>3. s \in Windows /\ window[s].at = "none"
    BY DEF FreeWindows, Busy
  <2>4. window' \in [Windows -> WindowState] /\ window'[s] = d /\ \A r \in Windows : r # s => window'[r] = window[r]
    BY <2>1, <2>2, <2>3, LaunchTypes
  <2>5. AgentsRan'
    BY <2>2, <2>3, <2>4 DEF AgentsRan
  <2> QED BY <2>2, <2>3, <2>4, <2>5
<1> QED BY <1>1, <1>2 DEF RunScript

LEMMA StrayEndsKeeps ==
  ASSUME LaunchInv, NEW w \in stray, StrayEnds(w) PROVE LaunchInv'
<1>1. LaunchTypeOK /\ AgentsRan /\ AsksStaged /\ LocksInv /\ ClaimsInv /\ LabelsInv
  BY DEF LaunchInv
<1>2. /\ stray' = stray \ {w} /\ (RunScript(w) \/ UNCHANGED window)
      /\ UNCHANGED <<plain, logs, known, ask, mapped, users, held, pending, labelled, page, ran, names>>
  BY DEF StrayEnds, lockVars, labelVars
<1>3. w \in AskState /\ w.name \in TmuxNames
  BY <1>1, LaunchTypes DEF AsksStaged
<1>4. /\ window' \in [Windows -> WindowState] /\ AgentsRan'
      /\ \/ window' = window
         \/ \E s \in Windows : /\ window[s].at = "none" /\ window'[s].talk = w.talk /\ window'[s].blind = w.blind
                               /\ \A r \in Windows : r # s => window'[r] = window[r]
  <2>1. CASE RunScript(w)
    BY <1>1, <1>2, <1>3, <2>1, ScriptRuns
  <2>2. CASE UNCHANGED window
    BY <1>1, <1>2, <2>2, LaunchTypes, AgentsAside
  <2> QED BY <1>2, <2>1, <2>2
<1>5. LaunchTypeOK'
  BY <1>1, <1>2, <1>4, LaunchTypes DEF LaunchTypeOK
<1>6. AsksStaged' /\ LocksInv' /\ \A a \in Asks : (Labelling(a)' <=> Labelling(a)) /\ \A u : AtHost(a, u)' <=> AtHost(a, u)
  BY <1>1, <1>2, AsksAside
<1>7. ClaimsInv'
  <2>1. CASE window' = window
    BY <1>1, <1>2, <1>6, <2>1, ClaimsShrink
  <2>2. ASSUME NEW s \in Windows, window[s].at = "none", window'[s].talk = w.talk, window'[s].blind = w.blind,
               \A r \in Windows : r # s => window'[r] = window[r]
        PROVE  ClaimsInv'
    <3>1. w.blind \in BOOLEAN
      BY <1>3 DEF AskState
    <3>2. w.talk \in Talks => InStray(w.talk) /\ MeetsBlind(w.talk, w.blind, window, stray', ask')
      <4>1. w.talk \in Talks => InStray(w.talk)
        BY DEF InStray
      <4>2. w.talk \in Talks => \A b \in Asks : AtHost(b, w.talk) => ask[b].mode # "new" /\ (ask[b].blind \/ w.blind)
        BY <1>1, <4>1 DEF ClaimsInv, NewAlone, BlindPairs
      <4>3. w.talk \in Talks => \A v \in stray' : v.talk = w.talk => v.blind \/ w.blind
        BY <1>1, <1>2 DEF ClaimsInv, BlindPairs
      <4>4. w.talk \in Talks => \A r \in Windows : window[r].at # "none" /\ window[r].talk = w.talk => window[r].blind \/ w.blind
        BY <1>1 DEF ClaimsInv, BlindPairs
      <4> QED BY <1>2, <4>1, <4>2, <4>3, <4>4 DEF MeetsBlind, AtHost
    <3> QED BY <1>1, <1>2, <2>2, <3>1, <3>2, ClaimsMove
  <2> QED BY <1>4, <2>1, <2>2
<1>8. LabelsInv'
  BY <1>1, <1>2, <1>6, LabelsAside
<1> QED BY <1>4, <1>5, <1>6, <1>7, <1>8 DEF LaunchInv

-----------------------------------------------------------------------------
\* Requests.  Every one of their steps changes one request.
LEMMA OneAskMoves ==
  ASSUME LaunchTypeOK, NEW a \in Asks, NEW d \in AskState, ask' = [ask EXCEPT ![a] = d]
  PROVE  ask' \in [Asks -> AskState] /\ ask'[a] = d /\ \A b \in Asks : b # a => ask'[b] = ask[b]
BY LaunchTypes

\* A request that is done, that gives its labels next or that has the lock.
LEMMA AskGoesOn ==
  ASSUME LaunchTypeOK, AsksStaged, NEW a \in Asks, NEW x \in {"holding", "label", "done"}, ask[a].at # "new",
         x = "label" => ask[a].mode = "new", x = "holding" => ask[a].mode = "resume",
         Becomes(a, [ask[a] EXCEPT !.at = x]), stray' \subseteq stray \cup {ask[a]}
  PROVE  /\ ask' \in [Asks -> AskState] /\ AsksStaged' /\ stray' \subseteq AskState
         /\ ask' = [ask EXCEPT ![a] = ask'[a]] /\ ask'[a].at = x
         /\ ask'[a].talk = ask[a].talk /\ ask'[a].name = ask[a].name /\ ask'[a].mode = ask[a].mode /\ ask'[a].lock = ask[a].lock
         /\ \A b \in Asks : b # a => ask'[b] = ask[b]
<1> DEFINE d == [ask[a] EXCEPT !.at = x]
<1>1. ask[a] \in AskState /\ StagedAs(ask[a])
  BY LaunchTypes DEF AsksStaged
<1>2. d \in AskState /\ d.at = x /\ d.talk = ask[a].talk /\ d.name = ask[a].name /\ d.mode = ask[a].mode /\ d.lock = ask[a].lock
  BY <1>1, AskUpdates
<1>3. ask' = [ask EXCEPT ![a] = d]
  BY DEF Becomes
<1> HIDE DEF d
<1>4. ask' \in [Asks -> AskState] /\ ask'[a] = d /\ \A b \in Asks : b # a => ask'[b] = ask[b]
  BY <1>2, <1>3, OneAskMoves
<1>5. StagedAs(d)
  BY <1>1, <1>2 DEF StagedAs
<1>6. ask[a].name \in TmuxNames
  BY <1>1 DEF StagedAs
<1>7. AsksStaged'
  <2>1. \A b \in Asks : StagedAs(ask'[b])
    BY <1>4, <1>5 DEF AsksStaged
  <2>2. \A w \in stray' : w.name \in TmuxNames
    BY <1>6 DEF AsksStaged
  <2> QED BY <2>1, <2>2 DEF AsksStaged, StagedAs
<1> QED BY <1>1, <1>2, <1>3, <1>4, <1>7, LaunchTypes

\* One request at a time is at the host for a conversation: one that resumes
\* it has its lock, and one that gives it its ID has it alone.
LEMMA OneAtHost ==
  ASSUME LaunchTypeOK, AsksStaged, LocksInv, ClaimsInv, NEW t \in Talks, NEW a \in Asks, NEW b \in Asks, AtHost(a, t), AtHost(b, t)
  PROVE  a = b
<1>1. CASE ask[a].mode = "new" \/ ask[b].mode = "new"
  BY <1>1 DEF ClaimsInv, NewAlone
<1>2. CASE ask[a].mode # "new" /\ ask[b].mode # "new"
  <2>1. ask[a].mode = "resume" /\ ask[b].mode = "resume"
    BY <1>2, LaunchTypes DEF AskState
  <2>2. ask[a].lock \in Asks /\ ask[b].lock \in Asks
    BY <2>1 DEF AsksStaged, StagedAs, AtHost
  <2>3. a \in Using(ask[a].lock) /\ b \in Using(ask[b].lock)
    BY DEF Using, AtHost
  <2>4. mapped[t] = ask[a].lock /\ mapped[t] = ask[b].lock
    BY <2>2, <2>3 DEF LocksInv, LocksMapped, AtHost
  <2>5. Holds(a) /\ Holds(b)
    BY <2>2, TaskLaunchAssumption DEF Holds, AtHost
  <2> QED BY <2>4, <2>5 DEF LocksInv, OneHolder
<1> QED BY <1>1, <1>2

\* What a request claims is claimed by what it leaves behind.
LEMMA AskHandsOn ==
  ASSUME LaunchTypeOK, AsksStaged, LocksInv, ClaimsInv, NEW a \in Asks, ask[a].at = "launch", ask'[a].at # "launch",
         \A b \in Asks : b # a => ask'[b] = ask[b], UNCHANGED <<logs, names>>,
         \/ window' = window /\ stray' = stray
         \/ window' = window /\ stray' = stray \cup {ask[a]}
         \/ /\ stray' = stray
            /\ \E s \in Windows : /\ window[s].at = "none" /\ window'[s].talk = ask[a].talk /\ window'[s].blind = ask[a].blind
                                  /\ \A r \in Windows : r # s => window'[r] = window[r]
  PROVE  ClaimsInv'
<1> PICK w : w = ask[a]
  OBVIOUS
<1> PICK t : t = w.talk
  OBVIOUS
<1>1. w \in AskState /\ w.talk = t /\ AtHost(a, t) /\ w.blind \in BOOLEAN
  BY LaunchTypes DEF AtHost, AskState
<1>2. \A b \in Asks : ask'[b].at = "launch" => b # a /\ ask'[b] = ask[b]
  OBVIOUS
<1>3. ASSUME t \in Talks
      PROVE  /\ \A b \in Asks : ~AtHost(b, t)'
             /\ \A s \in Windows : window[s].at # "none" /\ window[s].talk = t => window[s].blind \/ w.blind
             /\ \A v \in stray : v.talk = t => v.blind \/ w.blind
  <2>1. \A b \in Asks : ~AtHost(b, t)'
    BY <1>1, <1>2, <1>3, OneAtHost DEF AtHost
  <2>2. \A s \in Windows : window[s].at # "none" /\ window[s].talk = t => window[s].blind \/ w.blind
    BY <1>1, <1>3 DEF ClaimsInv, BlindPairs
  <2>3. \A v \in stray : v.talk = t => v.blind \/ w.blind
    BY <1>1, <1>3 DEF ClaimsInv, BlindPairs
  <2> QED BY <2>1, <2>2, <2>3
<1>4. \A b \in Asks, u \in Talks : AtHost(b, u)' => AtHost(b, u) /\ ask'[b] = ask[b]
  BY <1>2 DEF AtHost
<1>5. CASE window' = window /\ stray' = stray
  BY <1>4, <1>5, ClaimsShrink
<1>6. ASSUME NEW s \in Windows, window[s].at = "none", window'[s].talk = w.talk, window'[s].blind = w.blind,
             \A r \in Windows : r # s => window'[r] = window[r], stray' = stray
      PROVE  ClaimsInv'
  <2>1. t \in Talks => (\E b \in Asks : AtHost(b, t)) /\ MeetsBlind(t, w.blind, window, stray', ask')
    BY <1>1, <1>3, <1>6 DEF MeetsBlind, AtHost
  <2> QED BY <1>1, <1>2, <1>6, <2>1, ClaimsMove
<1>7. CASE window' = window /\ stray' = stray \cup {w}
  <2>1. \A u \in Talks : (InWindow(u)' <=> InWindow(u)) /\ (InStray(u)' => InStray(u) \/ u = t)
    BY <1>1, <1>7 DEF InWindow, InStray
  <2>2. ClaimsKnown'
    BY <1>1, <1>4, <2>1 DEF ClaimsInv, ClaimsKnown
  <2>3. NewAlone'
    BY <1>3, <1>4, <2>1 DEF ClaimsInv, NewAlone
  <2>4. BlindPairs'
    <3> SUFFICES ASSUME NEW u \in Talks
                 PROVE  /\ \A p, r \in Windows :
                             p # r /\ window'[p].at # "none" /\ window'[r].at # "none" /\ window'[p].talk = u /\ window'[r].talk = u
                               => window'[p].blind \/ window'[r].blind
                        /\ \A x, v \in stray' : x # v /\ x.talk = u /\ v.talk = u => x.blind \/ v.blind
                        /\ \A r \in Windows, v \in stray' :
                             window'[r].at # "none" /\ window'[r].talk = u /\ v.talk = u => window'[r].blind \/ v.blind
                        /\ \A b \in Asks, r \in Windows :
                             AtHost(b, u)' /\ window'[r].at # "none" /\ window'[r].talk = u => window'[r].blind \/ ask'[b].blind
                        /\ \A b \in Asks, v \in stray' : AtHost(b, u)' /\ v.talk = u => v.blind \/ ask'[b].blind
      BY DEF BlindPairs
    <3>1. \A p, r \in Windows :
             p # r /\ window[p].at # "none" /\ window[r].at # "none" /\ window[p].talk = u /\ window[r].talk = u
               => window[p].blind \/ window[r].blind
      BY DEF ClaimsInv, BlindPairs
    <3>2. ASSUME NEW x \in stray', NEW v \in stray', x # v, x.talk = u, v.talk = u PROVE x.blind \/ v.blind
      <4>1. CASE x = w
        BY <1>1, <1>3, <1>7, <3>2, <4>1
      <4>2. CASE v = w
        BY <1>1, <1>3, <1>7, <3>2, <4>2
      <4>3. CASE x \in stray /\ v \in stray
        BY <3>2, <4>3 DEF ClaimsInv, BlindPairs
      <4> QED BY <1>7, <4>1, <4>2, <4>3
    <3>3. ASSUME NEW r \in Windows, NEW v \in stray', window[r].at # "none", window[r].talk = u, v.talk = u
          PROVE  window[r].blind \/ v.blind
      <4>1. CASE v = w
        BY <1>1, <1>3, <3>3, <4>1
      <4>2. CASE v \in stray
        BY <3>3, <4>2 DEF ClaimsInv, BlindPairs
      <4> QED BY <1>7, <4>1, <4>2
    <3>4. \A b \in Asks, r \in Windows :
             AtHost(b, u)' /\ window[r].at # "none" /\ window[r].talk = u => window[r].blind \/ ask'[b].blind
      BY <1>4 DEF ClaimsInv, BlindPairs
    <3>5. ASSUME NEW b \in Asks, NEW v \in stray', AtHost(b, u)', v.talk = u PROVE v.blind \/ ask'[b].blind
      <4>1. CASE v = w
        BY <1>1, <1>3, <3>5, <4>1
      <4>2. CASE v \in stray
        BY <1>4, <3>5, <4>2 DEF ClaimsInv, BlindPairs
      <4> QED BY <1>7, <4>1, <4>2
    <3> QED BY <1>7, <3>1, <3>2, <3>3, <3>4, <3>5
  <2> QED BY <2>2, <2>3, <2>4 DEF ClaimsInv
<1> QED BY <1>5, <1>6, <1>7

\* The answer of a script.
LEMMA LaunchAnsweredKeeps ==
  ASSUME LaunchInv, NEW a \in Asks, LaunchAnswered(a) PROVE LaunchInv'
<1>1. LaunchTypeOK /\ AgentsRan /\ AsksStaged /\ LocksInv /\ ClaimsInv /\ LabelsInv
  BY DEF LaunchInv
<1>2. /\ ask[a].at = "launch"
      /\ \/ RunScript(ask[a]) /\ stray' = stray
         \/ window' = window /\ stray' \in {stray, stray \cup {ask[a]}}
      /\ UNCHANGED <<plain, logs, known, pending, labelled, page, ran, names>>
      /\ IF ask[a].mode = "resume" THEN Release(a) ELSE UNCHANGED <<mapped, users, held>>
      /\ Ended(a) \/ (ask[a].mode # "resume" /\ Becomes(a, [ask[a] EXCEPT !.at = "label"]))
  BY DEF LaunchAnswered, lockVars, labelVars
<1>3. ask[a] \in AskState /\ ask[a].mode \in {"new", "resume"} /\ StagedAs(ask[a]) /\ ask[a].name \in TmuxNames
  BY <1>1, <1>2, LaunchTypes DEF AskState, AsksStaged, StagedAs
<1>4. PICK x \in {"label", "done"} :
        /\ Becomes(a, [ask[a] EXCEPT !.at = x]) /\ (x = "label" => ask[a].mode = "new")
        /\ (ask[a].mode = "resume" => Ended(a))
  BY <1>2, <1>3 DEF Ended
<1>5. /\ ask' \in [Asks -> AskState] /\ AsksStaged' /\ stray' \subseteq AskState
      /\ ask' = [ask EXCEPT ![a] = ask'[a]] /\ ask'[a].at = x
      /\ ask'[a].talk = ask[a].talk /\ ask'[a].name = ask[a].name /\ ask'[a].mode = ask[a].mode /\ ask'[a].lock = ask[a].lock
      /\ \A b \in Asks : b # a => ask'[b] = ask[b]
  BY <1>1, <1>2, <1>4, AskGoesOn
<1>6. /\ window' \in [Windows -> WindowState] /\ AgentsRan'
      /\ \/ window' = window /\ stray' \in {stray, stray \cup {ask[a]}}
         \/ /\ stray' = stray
            /\ \E s \in Windows : /\ window[s].at = "none" /\ window'[s].talk = ask[a].talk /\ window'[s].blind = ask[a].blind
                                  /\ \A r \in Windows : r # s => window'[r] = window[r]
  <2>1. CASE RunScript(ask[a]) /\ stray' = stray
    BY <1>1, <1>2, <1>3, <2>1, ScriptRuns
  <2>2. CASE window' = window /\ stray' \in {stray, stray \cup {ask[a]}}
    BY <1>1, <1>2, <2>2, LaunchTypes, AgentsAside
  <2> QED BY <1>2, <2>1, <2>2
<1>7. LocksInv' /\ mapped' \in [Talks -> Asks \cup {NoAsk}] /\ users' \in [Asks -> Nat] /\ held' \in [Asks -> BOOLEAN]
  <2>1. CASE ask[a].mode = "resume"
    BY <1>1, <1>2, <1>4, <2>1, ReleaseKeepsLocks
  <2>2. CASE ask[a].mode # "resume"
    <3>1. ask[a].lock = NoAsk /\ ask'[a] \in AskState
      BY <1>3, <1>5, <2>2 DEF StagedAs
    <3>2. LocksInv'
      BY <1>1, <1>2, <1>5, <2>2, <3>1, LocksAside DEF Holds
    <3> QED BY <1>1, <1>2, <2>2, <3>2, LaunchTypes DEF LaunchTypeOK
  <2> QED BY <2>1, <2>2
<1>8. users' \in [Asks -> 0..Cardinality(Asks)]
  BY <1>7, UsersBounded
<1>9. LaunchTypeOK'
  BY <1>1, <1>2, <1>5, <1>6, <1>7, <1>8, LaunchTypes DEF LaunchTypeOK
<1>10. ClaimsInv'
  BY <1>1, <1>2, <1>5, <1>6, AskHandsOn
<1>11. LabelsInv'
  <2>1. \A b \in Asks : Labelling(b)' => Labelling(b) /\ ask'[b].name = ask[b].name
    BY <1>2, <1>5 DEF Labelling
  <2> QED BY <1>1, <1>2, <2>1, LabelsAside
<1> QED BY <1>5, <1>6, <1>7, <1>9, <1>10, <1>11 DEF LaunchInv

\* Steps of a request away from the host.
LEMMA AskElsewhere ==
  ASSUME ClaimsInv, NEW a \in Asks, ask'[a].at # "launch" \/ ask'[a].talk \notin Talks, \A b \in Asks : b # a => ask'[b] = ask[b],
         UNCHANGED <<window, stray, logs>>, names \subseteq names'
  PROVE  ClaimsInv'
<1>1. \A b \in Asks, u \in Talks : AtHost(b, u)' => AtHost(b, u) /\ ask'[b] = ask[b]
  BY DEF AtHost
<1> QED BY <1>1, ClaimsShrink

\* The labels of a launch.
LEMMA RecordLabelsKeeps ==
  ASSUME LaunchInv, NEW a \in Asks, RecordLabels(a) PROVE LaunchInv'
<1>1. LaunchTypeOK /\ AgentsRan /\ AsksStaged /\ LocksInv /\ ClaimsInv /\ LabelsInv
  BY DEF LaunchInv
<1>2. /\ ask[a].at = "label" /\ Becomes(a, [ask[a] EXCEPT !.at = "done"])
      /\ UNCHANGED <<window, plain, logs, known, stray, mapped, users, held, page, ran, names>>
  BY DEF RecordLabels, Ended, launchHostVars, lockVars
<1> PICK n : n = ask[a].name
  OBVIOUS
<1> PICK t : t = ask[a].talk
  OBVIOUS
<1>3. \/ t = NoTalk /\ pending' = [pending EXCEPT ![n] = "fresh"] /\ labelled' = labelled
      \/ t # NoTalk /\ labelled' = labelled \cup {<<n, t>>} /\ pending' = pending
      \/ labelled' = labelled /\ pending' = pending
  BY DEF RecordLabels
<1>4. ask[a] \in AskState /\ StagedAs(ask[a])
  BY <1>1, LaunchTypes DEF AsksStaged
<1>5. n \in TmuxNames /\ ask[a].mode = "new" /\ ask[a].lock = NoAsk /\ (t # NoTalk => t \in Given /\ t \in Talks)
  BY <1>1, <1>2, <1>4, LaunchTypes DEF StagedAs
<1>6. /\ ask' \in [Asks -> AskState] /\ AsksStaged' /\ ask' = [ask EXCEPT ![a] = ask'[a]] /\ ask'[a].at = "done"
      /\ ask'[a].mode = "new" /\ ask'[a].lock = NoAsk /\ ask'[a] \in AskState
      /\ \A b \in Asks : b # a => ask'[b] = ask[b]
  BY <1>1, <1>2, <1>5, AskGoesOn
<1>7. pending' \in [TmuxNames -> {"none", "fresh", "aged"}] /\ labelled' \subseteq TmuxNames \X Talks
  BY <1>1, <1>3, <1>5, LaunchTypes
<1>8. LaunchTypeOK'
  BY <1>1, <1>2, <1>6, <1>7, LaunchTypes DEF LaunchTypeOK
<1>9. AgentsRan'
  BY <1>1, <1>2, AgentsAside
<1>10. LocksInv'
  BY <1>1, <1>2, <1>5, <1>6, LocksAside DEF Holds
<1>11. ClaimsInv'
  BY <1>1, <1>2, <1>6, AskElsewhere
<1>12. LabelsInv'
  <2>1. Labelling(a) /\ n \in names /\ pending[n] = "none" /\ (\A x \in labelled : x[1] # n)
        /\ \A b \in Asks : Labelling(b) /\ ask[b].name = n => b = a
    BY <1>1, <1>2, <1>5 DEF Labelling, LabelsInv, NamesOnce
  <2>2. \A b \in Asks : Labelling(b)' => b # a /\ Labelling(b) /\ ask'[b] = ask[b] /\ ask[b].name # n
    BY <1>6, <2>1 DEF Labelling
  <2>3. CASE labelled' = labelled /\ pending' = pending
    BY <1>1, <1>2, <2>2, <2>3, LabelsAside
  <2>4. CASE t = NoTalk /\ pending' = [pending EXCEPT ![n] = "fresh"] /\ labelled' = labelled
    <3>1. \A m \in TmuxNames : m # n => pending'[m] = pending[m]
      BY <1>1, <2>4, LaunchTypes
    <3>2. NamesOnce'
      BY <1>1, <1>2, <1>6, <2>1, <2>2, <2>4, <3>1, LaunchTypes DEF LabelsInv, NamesOnce, AsksStaged, StagedAs, Labelling
    <3>3. LabelsOfOne'
      BY <1>1, <1>2, <2>4 DEF LabelsInv, LabelsOfOne
    <3> QED BY <3>2, <3>3 DEF LabelsInv
  <2>5. CASE t # NoTalk /\ labelled' = labelled \cup {<<n, t>>} /\ pending' = pending
    <3>1. NamesOnce'
      BY <1>1, <1>2, <2>1, <2>2, <2>5 DEF LabelsInv, NamesOnce
    <3>2. LabelsOfOne'
      BY <1>1, <1>2, <1>5, <2>1, <2>5 DEF LabelsInv, LabelsOfOne
    <3> QED BY <3>1, <3>2 DEF LabelsInv
  <2> QED BY <1>3, <2>3, <2>4, <2>5
<1> QED BY <1>6, <1>8, <1>9, <1>10, <1>11, <1>12 DEF LaunchInv

\* The lock of a resume.
LEMMA LockTakenKeeps ==
  ASSUME LaunchInv, NEW a \in Asks, LockTaken(a) PROVE LaunchInv'
<1>1. LaunchTypeOK /\ AgentsRan /\ AsksStaged /\ LocksInv /\ ClaimsInv /\ LabelsInv
  BY DEF LaunchInv
<1>2. /\ ask[a].at = "waiting" /\ ~held[ask[a].lock] /\ held' = [held EXCEPT ![ask[a].lock] = TRUE]
      /\ Becomes(a, [ask[a] EXCEPT !.at = "holding"])
      /\ UNCHANGED <<window, plain, logs, known, stray, mapped, users, pending, labelled, page, ran, names>>
  BY DEF LockTaken, launchHostVars, labelVars
<1>3. ask[a].mode = "resume" /\ ask[a].lock \in Asks
  BY <1>1, <1>2 DEF AsksStaged, StagedAs
<1>4. /\ ask' \in [Asks -> AskState] /\ AsksStaged' /\ ask' = [ask EXCEPT ![a] = ask'[a]] /\ ask'[a].at = "holding"
      /\ ask'[a].talk = ask[a].talk /\ ask'[a].mode = "resume" /\ ask'[a].lock = ask[a].lock /\ ask'[a] \in AskState
      /\ \A b \in Asks : b # a => ask'[b] = ask[b]
  BY <1>1, <1>2, <1>3, AskGoesOn
<1>5. held' \in [Asks -> BOOLEAN]
  BY <1>1, <1>2, LaunchTypes
<1>6. LaunchTypeOK'
  BY <1>1, <1>2, <1>4, <1>5, LaunchTypes DEF LaunchTypeOK
<1>7. AgentsRan'
  BY <1>1, <1>2, AgentsAside
<1>8. LocksInv'
  BY <1>1, <1>2, <1>3, <1>4, LocksAside
<1>9. ClaimsInv'
  BY <1>1, <1>2, <1>4, AskElsewhere
<1>10. LabelsInv'
  <2>1. \A b \in Asks : Labelling(b)' => Labelling(b) /\ ask'[b].name = ask[b].name
    BY <1>4 DEF Labelling
  <2> QED BY <1>1, <1>2, <2>1, LabelsAside
<1> QED BY <1>4, <1>6, <1>7, <1>8, <1>9, <1>10 DEF LaunchInv

\* A request that ends before it was at the host.
LEMMA EndsEarlyKeeps ==
  ASSUME LaunchInv, NEW a \in Asks, ask[a].at \in {"waiting", "holding"}, Release(a), Ended(a),
         UNCHANGED <<window, plain, logs, known, stray, pending, labelled, page, ran, names>>
  PROVE  LaunchInv'
<1>1. LaunchTypeOK /\ AgentsRan /\ AsksStaged /\ LocksInv /\ ClaimsInv /\ LabelsInv
  BY DEF LaunchInv
<1>2. ask[a].mode = "resume"
  BY <1>1 DEF AsksStaged, StagedAs
<1>3. /\ ask' \in [Asks -> AskState] /\ AsksStaged' /\ ask'[a].at = "done" /\ ask'[a].mode = "resume"
      /\ \A b \in Asks : b # a => ask'[b] = ask[b]
  BY <1>1, <1>2, AskGoesOn DEF Ended
<1>4. LocksInv' /\ mapped' \in [Talks -> Asks \cup {NoAsk}] /\ users' \in [Asks -> Nat] /\ held' \in [Asks -> BOOLEAN]
  BY <1>1, ReleaseKeepsLocks
<1>5. LaunchTypeOK'
  BY <1>1, <1>3, <1>4, LaunchTypes, UsersBounded DEF LaunchTypeOK
<1>6. AgentsRan'
  BY <1>1, AgentsAside
<1>7. ClaimsInv'
  BY <1>1, <1>3, AskElsewhere
<1>8. LabelsInv'
  <2>1. \A b \in Asks : Labelling(b)' => Labelling(b) /\ ask'[b].name = ask[b].name
    BY <1>3 DEF Labelling
  <2> QED BY <1>1, <2>1, LabelsAside
<1> QED BY <1>3, <1>4, <1>5, <1>6, <1>7, <1>8 DEF LaunchInv

LEMMA ResumeKeeps ==
  ASSUME LaunchInv, NEW a \in Asks, NEW t \in Talks, Resume(a, t) PROVE LaunchInv'
<1>1. LaunchTypeOK /\ AgentsRan /\ AsksStaged /\ LocksInv /\ ClaimsInv /\ LabelsInv
  BY DEF LaunchInv
<1>2. /\ UNCHANGED <<window, plain, logs, known, stray, held, pending, labelled, page, ran, names>>
      /\ \A b \in Asks : b # a => ask'[b] = ask[b]
  BY <1>1, LaunchTypes DEF Resume, Becomes, launchHostVars, labelVars
<1>3. /\ LocksInv' /\ mapped' \in [Talks -> Asks \cup {NoAsk}] /\ users' \in [Asks -> Nat]
      /\ ask' \in [Asks -> AskState] /\ StagedAs(ask'[a]) /\ ask'[a].at = "waiting"
  BY <1>1, ResumeKeepsLocks
<1>4. AsksStaged'
  BY <1>1, <1>2, <1>3 DEF AsksStaged, StagedAs
<1>5. LaunchTypeOK'
  BY <1>1, <1>2, <1>3, LaunchTypes, UsersBounded DEF LaunchTypeOK
<1>6. AgentsRan'
  BY <1>1, <1>2, AgentsAside
<1>7. ClaimsInv'
  BY <1>1, <1>2, <1>3, AskElsewhere
<1>8. LabelsInv'
  <2>1. \A b \in Asks : Labelling(b)' => Labelling(b) /\ ask'[b].name = ask[b].name
    BY <1>2, <1>3 DEF Labelling
  <2> QED BY <1>1, <1>2, <2>1, LabelsAside
<1> QED BY <1>3, <1>4, <1>5, <1>6, <1>7, <1>8 DEF LaunchInv

\* A launch takes a name nobody had, and an ID nobody claims.
LEMMA LaunchKeeps ==
  ASSUME LaunchInv, NEW a \in Asks, Launch(a) PROVE LaunchInv'
<1>1. LaunchTypeOK /\ AgentsRan /\ AsksStaged /\ LocksInv /\ ClaimsInv /\ LabelsInv
  BY DEF LaunchInv
<1>2. /\ ask[a].at = "new" /\ ask[a].lock = NoAsk
      /\ UNCHANGED <<window, plain, logs, known, stray, mapped, users, held, pending, labelled, page, ran>>
  BY <1>1 DEF Launch, launchHostVars, lockVars, labelVars, AsksStaged, StagedAs
<1>3. \E d \in AskState, n \in TmuxNames \ names :
        /\ names' = names \cup {n} /\ ask' = [ask EXCEPT ![a] = d]
        /\ d.at = "launch" /\ d.name = n /\ d.mode = "new" /\ d.lock = NoAsk
        /\ d.talk = NoTalk \/ (d.talk \in Given /\ d.talk \notin logs /\ n = TalkName[d.talk])
  <2>1. ASSUME NEW t \in Given, t \notin logs, TalkName[t] \notin names, names' = names \cup {TalkName[t]},
               Becomes(a, Launching(t, TalkName[t]))
        PROVE  \E d \in AskState, n \in TmuxNames \ names :
                 /\ names' = names \cup {n} /\ ask' = [ask EXCEPT ![a] = d]
                 /\ d.at = "launch" /\ d.name = n /\ d.mode = "new" /\ d.lock = NoAsk
                 /\ d.talk = NoTalk \/ (d.talk \in Given /\ d.talk \notin logs /\ n = TalkName[d.talk])
    <3>1. t \in Talks /\ TalkName[t] \in TmuxNames
      BY TaskLaunchAssumption
    <3> PICK d : d = Launching(t, TalkName[t])
      OBVIOUS
    <3>2. /\ d \in AskState /\ d.at = "launch" /\ d.talk = t /\ d.name = TalkName[t] /\ d.mode = "new" /\ d.lock = NoAsk
          /\ ask' = [ask EXCEPT ![a] = d]
      BY <2>1, <3>1, AskedNew DEF Becomes
    <3> QED BY <2>1, <3>1, <3>2
  <2>2. ASSUME NEW n \in TmuxNames \ names, names' = names \cup {n}, Becomes(a, LaunchingAny(n))
        PROVE  \E d \in AskState, m \in TmuxNames \ names :
                 /\ names' = names \cup {m} /\ ask' = [ask EXCEPT ![a] = d]
                 /\ d.at = "launch" /\ d.name = m /\ d.mode = "new" /\ d.lock = NoAsk
                 /\ d.talk = NoTalk \/ (d.talk \in Given /\ d.talk \notin logs /\ m = TalkName[d.talk])
    BY <2>2, AskedAny DEF Becomes
  <2>3. \/ \E t \in Given : /\ t \notin logs /\ TalkName[t] \notin names /\ names' = names \cup {TalkName[t]}
                            /\ Becomes(a, Launching(t, TalkName[t]))
        \/ \E n \in TmuxNames \ names : names' = names \cup {n} /\ Becomes(a, LaunchingAny(n))
    BY DEF Launch, Launching, LaunchingAny
  <2> QED BY <2>1, <2>2, <2>3
<1>4. PICK d \in AskState, n \in TmuxNames \ names :
        /\ names' = names \cup {n} /\ ask' = [ask EXCEPT ![a] = d]
        /\ d.at = "launch" /\ d.name = n /\ d.mode = "new" /\ d.lock = NoAsk
        /\ d.talk = NoTalk \/ (d.talk \in Given /\ d.talk \notin logs /\ n = TalkName[d.talk])
  BY <1>3
<1>5. ask' \in [Asks -> AskState] /\ ask'[a] = d /\ \A b \in Asks : b # a => ask'[b] = ask[b]
  BY <1>1, <1>4, OneAskMoves
<1>6. StagedAs(d)
  BY <1>4 DEF StagedAs
<1>7. AsksStaged'
  BY <1>1, <1>2, <1>5, <1>6 DEF AsksStaged, StagedAs
<1>8. LaunchTypeOK'
  BY <1>1, <1>2, <1>4, <1>5, LaunchTypes DEF LaunchTypeOK
<1>9. AgentsRan'
  BY <1>1, <1>2, AgentsAside
<1>10. LocksInv'
  BY <1>1, <1>2, <1>4, <1>5, LocksAside DEF Holds
<1>11. ClaimsInv'
  <2>1. CASE d.talk = NoTalk
    BY <1>1, <1>2, <1>4, <1>5, <2>1, AskElsewhere, TaskLaunchAssumption
  <2>2. CASE d.talk # NoTalk
    <3> PICK t : t = d.talk
      OBVIOUS
    <3>1. t \in Talks /\ t \in Given /\ t \notin logs /\ TalkName[t] \notin names /\ TalkName[t] \in names' /\ NoTalk \notin Talks
      BY <1>4, <2>2, TaskLaunchAssumption
    <3>2. ~InWindow(t) /\ ~InStray(t) /\ \A b \in Asks : ~AtHost(b, t)
      BY <1>1, <3>1 DEF ClaimsInv, ClaimsKnown
    <3>3. \A b \in Asks, u \in Talks : AtHost(b, u)' <=> (b # a /\ u # t /\ AtHost(b, u)) \/ (b = a /\ u = t)
      BY <1>2, <1>4, <1>5, <3>2 DEF AtHost
    <3>4. \A u \in Talks : (InWindow(u)' <=> InWindow(u)) /\ (InStray(u)' <=> InStray(u))
      BY <1>2 DEF InWindow, InStray
    <3>5. ClaimsKnown'
      BY <1>1, <1>2, <1>4, <3>1, <3>3, <3>4 DEF ClaimsInv, ClaimsKnown
    <3>6. NewAlone'
      BY <1>1, <1>2, <1>5, <3>1, <3>2, <3>3, <3>4 DEF ClaimsInv, NewAlone
    <3>7. BlindPairs'
      <4>1. \A b \in Asks, u \in Talks : AtHost(b, u)' /\ b # a => AtHost(b, u) /\ ask'[b] = ask[b]
        BY <1>5, <3>3
      <4>2. \A u \in Talks : AtHost(a, u)' => u = t
        BY <3>3
      <4> QED BY <1>1, <1>2, <3>2, <4>1, <4>2 DEF ClaimsInv, BlindPairs, InWindow, InStray
    <3> QED BY <3>5, <3>6, <3>7 DEF ClaimsInv
  <2> QED BY <2>1, <2>2
<1>12. LabelsInv'
  <2>1. \A b \in Asks : b # a /\ Labelling(b)' => Labelling(b) /\ ask'[b].name = ask[b].name /\ ask[b].name \in names
    BY <1>1, <1>5 DEF Labelling, LabelsInv, NamesOnce
  <2>2. ask'[a].name = n /\ n \notin names /\ n \in TmuxNames
    BY <1>4, <1>5
  <2>3. pending[n] = "none" /\ \A x \in labelled : x[1] # n
    BY <1>1, <2>2 DEF LabelsInv, NamesOnce
  <2>4. NamesOnce'
    BY <1>1, <1>2, <1>4, <2>1, <2>2, <2>3 DEF LabelsInv, NamesOnce
  <2>5. LabelsOfOne'
    BY <1>1, <1>2 DEF LabelsInv, LabelsOfOne
  <2> QED BY <2>4, <2>5 DEF LabelsInv
<1> QED BY <1>7, <1>8, <1>9, <1>10, <1>11, <1>12 DEF LaunchInv

\* A stopped task is found: the request goes to the host, blind if there is a
\* window or a script of the conversation that the collection cannot see.
LEMMA TaskFoundKeeps ==
  ASSUME LaunchInv, NEW a \in Asks, TaskFound(a) PROVE LaunchInv'
<1> PICK t : t = ask[a].talk
  OBVIOUS
<1> DEFINE unseen == (\E s \in Busy : window[s].talk = t) \/ (\E w \in stray : w.talk = t)
           free == \A s \in Listed : window[s].name # ask[a].name
           d == Found(ask[a], unseen, free)
<1>1. LaunchTypeOK /\ AgentsRan /\ AsksStaged /\ LocksInv /\ ClaimsInv /\ LabelsInv
  BY DEF LaunchInv
<1>2. /\ ask[a].at = "holding"
      /\ UNCHANGED <<window, plain, logs, known, stray, pending, labelled, page, ran>>
      /\ \/ Release(a) /\ Ended(a) /\ names' = names
         \/ /\ t \in Stopped /\ names' = names \cup {ask[a].name} /\ UNCHANGED <<mapped, users, held>>
            /\ ask' = [ask EXCEPT ![a] = d]
  BY DEF TaskFound, launchHostVars, labelVars, lockVars, Becomes, Found
<1>3. CASE Release(a) /\ Ended(a) /\ names' = names
  BY <1>2, <1>3, EndsEarlyKeeps
<1>4. CASE /\ t \in Stopped /\ names' = names \cup {ask[a].name} /\ UNCHANGED <<mapped, users, held>>
           /\ ask' = [ask EXCEPT ![a] = d]
  <2>1. /\ ask[a] \in AskState /\ StagedAs(ask[a]) /\ ask[a].mode = "resume" /\ ask[a].lock \in Asks
        /\ ask[a].name \in TmuxNames /\ t \in Talks /\ t \in logs
    BY <1>1, <1>2, <1>4, LaunchTypes DEF AsksStaged, StagedAs, Stopped
  <2>2. unseen \in BOOLEAN /\ free \in BOOLEAN
    OBVIOUS
  <2>3. unseen <=> InWindow(t) \/ InStray(t)
    BY DEF InWindow, InStray, Busy
  <2> HIDE DEF unseen, free
  <2>4. /\ d \in AskState /\ d.at = "launch" /\ d.talk = ask[a].talk /\ d.name = ask[a].name /\ d.mode = ask[a].mode
        /\ d.lock = ask[a].lock /\ d.blind = unseen
    BY <2>1, <2>2, AskFound
  <2> HIDE DEF d
  <2>5. ask' \in [Asks -> AskState] /\ ask'[a] = d /\ \A b \in Asks : b # a => ask'[b] = ask[b]
    BY <1>1, <1>4, <2>4, OneAskMoves
  <2>6. StagedAs(d)
    BY <2>1, <2>4 DEF StagedAs
  <2>7. AsksStaged'
    BY <1>1, <1>2, <2>5, <2>6 DEF AsksStaged, StagedAs
  <2>8. LaunchTypeOK'
    BY <1>1, <1>2, <1>4, <2>1, <2>5, LaunchTypes DEF LaunchTypeOK
  <2>9. AgentsRan'
    BY <1>1, <1>2, AgentsAside
  <2>10. LocksInv'
    BY <1>1, <1>2, <1>4, <2>1, <2>4, <2>5, LocksAside, TaskLaunchAssumption DEF Holds
  <2>11. \A b \in Asks, u \in Talks : AtHost(b, u)' => (b # a /\ AtHost(b, u) /\ ask'[b] = ask[b]) \/ (b = a /\ u = t)
    BY <2>4, <2>5 DEF AtHost
  <2>12. AtHost(a, t)'
    BY <2>4, <2>5 DEF AtHost
  <2>13. \A u \in Talks : (InWindow(u)' <=> InWindow(u)) /\ (InStray(u)' <=> InStray(u))
    BY <1>2 DEF InWindow, InStray
  <2>14. \A b \in Asks : AtHost(b, t) => ask[b].mode # "new"
    BY <1>1, <2>1 DEF ClaimsInv, NewAlone
  <2>15. ClaimsInv'
    <3>1. ClaimsKnown'
      BY <1>1, <1>2, <1>4, <2>1, <2>11, <2>13 DEF ClaimsInv, ClaimsKnown
    <3>2. NewAlone'
      BY <1>1, <1>2, <2>1, <2>4, <2>5, <2>11, <2>13, <2>14 DEF ClaimsInv, NewAlone
    <3>3. BlindPairs'
      <4>1. \A u \in Talks, s \in Windows : AtHost(a, u)' /\ window[s].at # "none" /\ window[s].talk = u => ask'[a].blind
        BY <2>3, <2>4, <2>5, <2>11 DEF InWindow
      <4>2. \A u \in Talks, w \in stray : AtHost(a, u)' /\ w.talk = u => ask'[a].blind
        BY <2>3, <2>4, <2>5, <2>11 DEF InStray
      <4>3. \A b \in Asks, u \in Talks : b # a /\ AtHost(b, u)' => AtHost(b, u) /\ ask'[b] = ask[b]
        BY <2>11
      <4> QED BY <1>1, <1>2, <4>1, <4>2, <4>3 DEF ClaimsInv, BlindPairs
    <3> QED BY <3>1, <3>2, <3>3 DEF ClaimsInv
  <2>16. LabelsInv'
    <3>1. \A b \in Asks : Labelling(b)' => Labelling(b) /\ ask'[b].name = ask[b].name
      BY <2>1, <2>4, <2>5 DEF Labelling
    <3> QED BY <1>1, <1>2, <1>4, <3>1, LabelsAside
  <2> QED BY <2>7, <2>8, <2>9, <2>10, <2>15, <2>16 DEF LaunchInv
<1> QED BY <1>2, <1>3, <1>4

-----------------------------------------------------------------------------
\* Those who list tasks, and the labels that wait.
LEMMA ListTasksKeeps ==
  ASSUME LaunchInv, NEW p \in Pages, ListTasks(p) PROVE LaunchInv'
<1>1. LaunchTypeOK /\ AgentsRan /\ AsksStaged /\ LocksInv /\ ClaimsInv /\ LabelsInv
  BY DEF LaunchInv
<1> DEFINE seen == {<<window[s].name, window[s].talk>> : s \in {r \in Listed : window[r].talk \notin Given}}
<1>2. UNCHANGED <<window, plain, logs, known, stray, ask, mapped, users, held, pending, labelled, ran, names>>
  BY DEF ListTasks, launchHostVars, lockVars
<1>3. PICK ok \in BOOLEAN :
        page' = [page EXCEPT ![p] = [at |-> "listed", known |-> known, ok |-> ok, seen |-> seen]]
  BY DEF ListTasks
<1>4. LaunchTypeOK'
  BY <1>1, <1>2, LaunchTypes DEF LaunchTypeOK
<1>5. \A n \in TmuxNames, t \in Talks : <<n, t>> \in seen => <<n, t>> \in ran
  <2> SUFFICES ASSUME NEW n \in TmuxNames, NEW t \in Talks, <<n, t>> \in seen PROVE <<n, t>> \in ran
    OBVIOUS
  <2>1. PICK s \in Listed : <<n, t>> = <<window[s].name, window[s].talk>>
    OBVIOUS
  <2>2. s \in Windows /\ window[s].at \in {"asking", "running"} /\ window[s].talk = t /\ window[s].name = n
    BY <2>1 DEF Listed, Busy
  <2> QED BY <1>1, <2>2, TaskLaunchAssumption DEF AgentsRan
<1> HIDE DEF seen
<1>6. AgentsRan'
  <2>1. ASSUME NEW q \in Pages, page'[q].at = "listed", NEW n \in TmuxNames, NEW t \in Talks, <<n, t>> \in page'[q].seen
        PROVE  <<n, t>> \in ran
    <3>1. CASE page'[q] = page[q]
      BY <1>1, <2>1, <3>1 DEF AgentsRan
    <3>2. CASE page'[q] = [at |-> "listed", known |-> known, ok |-> ok, seen |-> seen]
      BY <1>5, <2>1, <3>2
    <3>3. page'[q] = page[q] \/ page'[q] = [at |-> "listed", known |-> known, ok |-> ok, seen |-> seen]
      BY <1>3
    <3> QED BY <3>1, <3>2, <3>3
  <2> QED BY <1>1, <1>2, <2>1 DEF AgentsRan
<1>7. AsksStaged' /\ LocksInv' /\ \A a \in Asks : (Labelling(a)' <=> Labelling(a)) /\ \A u : AtHost(a, u)' <=> AtHost(a, u)
  BY <1>1, <1>2, AsksAside
<1>8. ClaimsInv'
  BY <1>1, <1>2, <1>7, ClaimsShrink
<1>9. LabelsInv'
  BY <1>1, <1>2, <1>7, LabelsAside
<1> QED BY <1>4, <1>6, <1>7, <1>8, <1>9 DEF LaunchInv

LEMMA AgesKeeps ==
  ASSUME LaunchInv, NEW n \in TmuxNames, Ages(n) PROVE LaunchInv'
<1>1. LaunchTypeOK /\ AgentsRan /\ AsksStaged /\ LocksInv /\ ClaimsInv /\ LabelsInv
  BY DEF LaunchInv
<1>2. /\ pending[n] = "fresh" /\ pending' = [pending EXCEPT ![n] = "aged"]
      /\ UNCHANGED <<window, plain, logs, known, stray, ask, mapped, users, held, page, labelled, ran, names>>
  BY DEF Ages, launchHostVars, lockVars
<1>3. pending' \in [TmuxNames -> {"none", "fresh", "aged"}] /\ \A m \in TmuxNames : pending'[m] = "none" <=> pending[m] = "none"
  BY <1>1, <1>2, LaunchTypes
<1>4. LaunchTypeOK'
  BY <1>1, <1>2, <1>3, LaunchTypes DEF LaunchTypeOK
<1>5. AgentsRan'
  BY <1>1, <1>2, AgentsAside
<1>6. AsksStaged' /\ LocksInv' /\ \A a \in Asks : (Labelling(a)' <=> Labelling(a)) /\ \A u : AtHost(a, u)' <=> AtHost(a, u)
  BY <1>1, <1>2, AsksAside
<1>7. ClaimsInv'
  BY <1>1, <1>2, <1>6, ClaimsShrink
<1>8. LabelsInv'
  <2>1. \A a \in Asks : Labelling(a) => ask[a].name \in TmuxNames
    BY <1>1 DEF Labelling, AsksStaged, StagedAs
  <2>2. NamesOnce'
    BY <1>1, <1>2, <1>3, <1>6, <2>1 DEF LabelsInv, NamesOnce
  <2>3. LabelsOfOne'
    BY <1>1, <1>2 DEF LabelsInv, LabelsOfOne
  <2> QED BY <2>2, <2>3 DEF LabelsInv
<1> QED BY <1>4, <1>5, <1>6, <1>7, <1>8 DEF LaunchInv

\* A snapshot that lists one conversation of a session gives it the labels.
LEMMA ClaimsOne ==
  ASSUME NEW n, NEW v, NEW t \in Claims(n, v), NEW u \in Claims(n, v)
  PROVE  t = u /\ t \in Talks /\ <<n, t>> \in v.seen
<1>1. t \in IDsIn(v.seen, n) /\ u \in IDsIn(v.seen, n) /\ Cardinality(IDsIn(v.seen, n)) = 1
  BY DEF Claims, KeepsToOne
<1>2. IsFiniteSet(IDsIn(v.seen, n))
  BY TaskLaunchAssumption, FS_Subset DEF IDsIn
<1>3. \E x : IDsIn(v.seen, n) = {x}
  BY <1>1, <1>2, FS_Singleton
<1> QED BY <1>1, <1>3 DEF IDsIn

LEMMA ApplyKeeps ==
  ASSUME LaunchInv, NEW p \in Pages, Apply(p) PROVE LaunchInv'
<1>1. LaunchTypeOK /\ AgentsRan /\ AsksStaged /\ LocksInv /\ ClaimsInv /\ LabelsInv
  BY DEF LaunchInv
<1> PICK v : v = page[p]
  OBVIOUS
<1> PICK waits : waits = {n \in TmuxNames : pending[n] # "none"}
  OBVIOUS
<1>2. /\ page[p].at = "listed" /\ page' = [page EXCEPT ![p] = NoPage]
      /\ UNCHANGED <<window, plain, logs, known, stray, ask, mapped, users, held, ran, names>>
  BY DEF Apply, launchHostVars, lockVars
<1>3. PICK saved \in SUBSET {n \in waits : Claims(n, v) # {}} :
        /\ pending' = [n \in TmuxNames |-> IF n \in waits /\ (Drops(n, v) \/ n \in saved) THEN "none" ELSE pending[n]]
        /\ labelled' = labelled \cup {x \in saved \X Talks : x[2] \in Claims(x[1], v)}
  BY DEF Apply
<1>4. \A x \in labelled' : x \in labelled
        \/ (x \in TmuxNames \X Talks /\ x[1] \in saved /\ x[2] \in Claims(x[1], v) /\ pending[x[1]] # "none")
  BY <1>3
<1>5. \A n \in TmuxNames : pending'[n] # "none" => pending'[n] = pending[n] /\ n \notin saved
  BY <1>3
<1>6. pending' \in [TmuxNames -> {"none", "fresh", "aged"}] /\ labelled' \subseteq TmuxNames \X Talks
  BY <1>1, <1>3, <1>4, LaunchTypes
<1>7. LaunchTypeOK'
  BY <1>1, <1>2, <1>6, LaunchTypes DEF LaunchTypeOK
<1>8. AgentsRan'
  <2>1. \A q \in Pages : page'[q].at = "listed" => page'[q] = page[q]
    BY <1>2 DEF NoPage
  <2> QED BY <1>1, <1>2, <2>1 DEF AgentsRan
<1>9. AsksStaged' /\ LocksInv' /\ \A a \in Asks : (Labelling(a)' <=> Labelling(a)) /\ \A u : AtHost(a, u)' <=> AtHost(a, u)
  BY <1>1, <1>2, AsksAside
<1>10. ClaimsInv'
  BY <1>1, <1>2, <1>9, ClaimsShrink
<1>11. \A x \in labelled : pending[x[1]] = "none" \/ x[1] \notin TmuxNames
  BY <1>1 DEF LabelsInv, NamesOnce
<1>12. NamesOnce'
  <2>1. \A a \in Asks : Labelling(a) => ask[a].name \in TmuxNames /\ pending[ask[a].name] = "none" /\ pending'[ask[a].name] = "none"
    BY <1>1, <1>5 DEF Labelling, AsksStaged, StagedAs, LabelsInv, NamesOnce
  <2>2. \A a \in Asks : Labelling(a) => \A x \in labelled' : x[1] # ask[a].name
    BY <1>1, <1>4, <2>1 DEF LabelsInv, NamesOnce
  <2>3. \A n \in TmuxNames : pending'[n] # "none" => n \in names /\ \A x \in labelled' : x[1] # n
    BY <1>1, <1>4, <1>5 DEF LabelsInv, NamesOnce
  <2>4. \A x \in labelled' : x[1] \in names
    BY <1>1, <1>4 DEF LabelsInv, NamesOnce
  <2> QED BY <1>1, <1>2, <1>9, <2>1, <2>2, <2>3, <2>4 DEF LabelsInv, NamesOnce
<1>13. LabelsOfOne'
  <2>1. \A x \in labelled' : x \in ran \/ x[2] \in Given
    <3> SUFFICES ASSUME NEW x \in labelled', x \notin labelled PROVE x \in ran
      BY <1>1 DEF LabelsInv, LabelsOfOne
    <3>1. x \in TmuxNames \X Talks /\ x[2] \in Claims(x[1], v)
      BY <1>4
    <3>2. x = <<x[1], x[2]>> /\ x[1] \in TmuxNames /\ x[2] \in Talks /\ <<x[1], x[2]>> \in v.seen
      BY <3>1, ClaimsOne
    <3> QED BY <1>1, <1>2, <3>2 DEF AgentsRan
  <2>2. ASSUME NEW x \in labelled', NEW y \in labelled', x[1] = y[1] PROVE x = y
    <3>1. CASE x \in labelled /\ y \in labelled
      BY <1>1, <2>2, <3>1 DEF LabelsInv, LabelsOfOne
    <3>2. CASE x \notin labelled /\ y \notin labelled
      <4>1. x \in TmuxNames \X Talks /\ y \in TmuxNames \X Talks /\ x[2] \in Claims(x[1], v) /\ y[2] \in Claims(x[1], v)
        BY <1>4, <2>2, <3>2
      <4>2. x[2] = y[2]
        BY <4>1, ClaimsOne
      <4> QED BY <2>2, <4>1, <4>2
    <3>3. CASE (x \in labelled) # (y \in labelled)
      BY <1>4, <1>11, <2>2, <3>3
    <3> QED BY <3>1, <3>2, <3>3
  <2> QED BY <1>2, <2>1, <2>2 DEF LabelsOfOne
<1> QED BY <1>7, <1>8, <1>9, <1>10, <1>12, <1>13 DEF LaunchInv, LabelsInv

-----------------------------------------------------------------------------
LEMMA LaunchInitInv == LaunchInit => LaunchInv
<1> SUFFICES ASSUME LaunchInit PROVE LaunchInv
  OBVIOUS
<1>1. /\ window = [s \in Windows |-> NoWindow] /\ plain = {} /\ logs = Began /\ known = TRUE /\ stray = {}
      /\ ask = [a \in Asks |-> NewAsk] /\ mapped = [t \in Talks |-> NoAsk]
      /\ users = [a \in Asks |-> 0] /\ held = [a \in Asks |-> FALSE]
      /\ pending = [n \in TmuxNames |-> "none"] /\ labelled = {} /\ page = [q \in Pages |-> NoPage]
      /\ ran = {} /\ names = {}
  BY DEF LaunchInit
<1>2. \A s \in Windows : window[s] \in WindowState /\ window[s].at = "none"
  BY <1>1, NoWindowState
<1>3. \A a \in Asks : ask[a] \in AskState /\ ask[a].at = "new" /\ ask[a].lock = NoAsk /\ NoAsk \notin Asks
  BY <1>1, NewAsks, TaskLaunchAssumption
<1>4. \A l \in Asks : Using(l) = {}
  BY <1>3 DEF Using
<1>5. LaunchTypeOK
  <2>1. Cardinality(Asks) \in Nat
    BY TaskLaunchAssumption, FS_CardinalityType
  <2>2. users \in [Asks -> 0..Cardinality(Asks)]
    BY <1>1, <2>1
  <2> QED BY <1>1, <1>2, <1>3, <2>2, TaskLaunchAssumption DEF LaunchTypeOK
<1>6. AgentsRan
  BY <1>1, <1>2 DEF AgentsRan, NoPage
<1>7. AsksStaged
  BY <1>1, <1>3 DEF AsksStaged, StagedAs
<1>8. LocksInv
  BY <1>1, <1>3, <1>4, FS_EmptySet DEF LocksInv, LocksCounted, LocksMapped, OneHolder, Holds
<1>9. ClaimsInv
  BY <1>1, <1>2, <1>3 DEF ClaimsInv, ClaimsKnown, NewAlone, BlindPairs, InWindow, InStray, AtHost
<1>10. LabelsInv
  BY <1>1, <1>3 DEF LabelsInv, NamesOnce, LabelsOfOne, Labelling
<1> QED BY <1>5, <1>6, <1>7, <1>8, <1>9, <1>10 DEF LaunchInv

LEMMA LaunchStep == LaunchInv /\ [LaunchNext]_launchVars => LaunchInv'
<1> SUFFICES ASSUME LaunchInv, [LaunchNext]_launchVars PROVE LaunchInv'
  OBVIOUS
<1>1. CASE \E s \in Windows : AgentStarts(s) \/ AgentPicks(s) \/ AgentEnds(s)
  BY <1>1, AgentStartsKeeps, AgentPicksKeeps, AgentEndsKeeps
<1>2. CASE \E n \in TmuxNames : UserStarts(n) \/ Ages(n)
  BY <1>2, UserStartsKeeps, AgesKeeps
<1>3. CASE HostChanges \/ \E n \in TmuxNames : UserOpens(n)
  BY <1>3, HostMovesKeeps
<1>4. CASE \E w \in stray : StrayEnds(w)
  BY <1>4, StrayEndsKeeps
<1>5. ASSUME NEW a \in Asks,
             \/ Launch(a) \/ LaunchAnswered(a) \/ RecordLabels(a) \/ LockTaken(a) \/ GivesUp(a) \/ TaskFound(a)
             \/ \E t \in Talks : Resume(a, t)
      PROVE  LaunchInv'
  <2>1. CASE GivesUp(a)
    BY <2>1, EndsEarlyKeeps DEF GivesUp, launchHostVars, labelVars
  <2>2. CASE \E t \in Talks : Resume(a, t)
    BY <2>2, ResumeKeeps
  <2>3. CASE LaunchAnswered(a) \/ RecordLabels(a) \/ LockTaken(a)
    BY <2>3, LaunchAnsweredKeeps, RecordLabelsKeeps, LockTakenKeeps
  <2>4. CASE Launch(a) \/ TaskFound(a)
    BY <2>4, LaunchKeeps, TaskFoundKeeps
  <2> QED BY <1>5, <2>1, <2>2, <2>3, <2>4
<1>6. CASE \E p \in Pages : ListTasks(p) \/ Apply(p)
  BY <1>6, ListTasksKeeps, ApplyKeeps
<1>7. CASE UNCHANGED launchVars
  <2>1. LaunchInv /\ UNCHANGED <<window, plain, logs, known, stray, ask, mapped, users, held, pending, labelled, page, ran, names>>
    BY <1>7 DEF launchVars, launchHostVars, lockVars, labelVars
  <2>2. LaunchTypeOK' /\ AgentsRan'
    BY <2>1, LaunchTypes, AgentsAside DEF LaunchInv, LaunchTypeOK
  <2>3. AsksStaged' /\ LocksInv' /\ \A a \in Asks : (Labelling(a)' <=> Labelling(a)) /\ \A u : AtHost(a, u)' <=> AtHost(a, u)
    BY <2>1, AsksAside DEF LaunchInv
  <2> QED BY <2>1, <2>2, <2>3, ClaimsShrink, LabelsAside DEF LaunchInv
<1> QED BY <1>1, <1>2, <1>3, <1>4, <1>5, <1>6, <1>7 DEF LaunchNext

\* No conversation runs twice except where the collection is blind, a lock is
\* mapped exactly while a resume needs it, and the labels of a task are one
\* conversation's, for any requests, windows and names.
THEOREM LaunchesHoldCorrect == LaunchSpec => []LaunchesHold
<1>1. ASSUME LaunchInv PROVE LaunchesHold
  <2>1. LaunchTypeOK /\ AsksStaged /\ LocksInv /\ ClaimsInv /\ LabelsInv
    BY <1>1 DEF LaunchInv
  <2>2. ResumedOnce
    <3> SUFFICES ASSUME NEW s \in Busy, NEW r \in Busy, s # r, window[s].talk = window[r].talk, window[s].talk # NoTalk
                 PROVE  window[s].blind \/ window[r].blind
      BY DEF ResumedOnce
    <3>1. s \in Windows /\ r \in Windows /\ window[s].at # "none" /\ window[r].at # "none"
      BY DEF Busy
    <3>2. window[s].talk \in Talks
      BY <2>1, <3>1, LaunchTypes
    <3> QED BY <2>1, <3>1, <3>2 DEF ClaimsInv, BlindPairs
  <2>3. LocksFreed
    <3> SUFFICES ASSUME NEW t \in Talks
                 PROVE  mapped[t] # NoAsk <=> \E a \in Asks : ask[a].lock # NoAsk /\ ask[a].talk = t /\ ask[a].at # "done"
      BY DEF LocksFreed
    <3>1. ASSUME mapped[t] # NoAsk
          PROVE  \E a \in Asks : ask[a].lock # NoAsk /\ ask[a].talk = t /\ ask[a].at # "done"
      <4> PICK l \in Asks : mapped[t] = l
        BY <2>1, <3>1, LaunchTypes
      <4>1. ask[l].talk = t /\ Using(l) # {}
        BY <2>1 DEF LocksInv, LocksMapped
      <4>2. PICK a \in Using(l) : ask[a].talk = ask[l].talk
        BY <2>1, <4>1 DEF LocksInv, LocksMapped
      <4> QED BY <4>1, <4>2, TaskLaunchAssumption DEF Using
    <3>2. ASSUME NEW a \in Asks, ask[a].lock # NoAsk, ask[a].talk = t, ask[a].at # "done"
          PROVE  mapped[t] # NoAsk
      <4>1. ask[a].lock \in Asks
        BY <2>1, <3>2, LaunchTypes DEF AskState
      <4>2. a \in Using(ask[a].lock)
        BY <3>2 DEF Using
      <4> QED BY <2>1, <3>2, <4>1, <4>2 DEF LocksInv, LocksMapped
    <3> QED BY <3>1, <3>2
  <2> QED BY <2>1, <2>2, <2>3 DEF LaunchesHold, LabelsInv
<1> QED BY <1>1, LaunchInitInv, LaunchStep, PTL DEF LaunchSpec

\* Every variable of the launches keeps its type.
THEOREM LaunchTypeCorrect == LaunchSpec => []LaunchTypeOK
<1>1. LaunchInv => LaunchTypeOK
  BY DEF LaunchInv
<1> QED BY <1>1, LaunchInitInv, LaunchStep, PTL DEF LaunchSpec
=============================================================================

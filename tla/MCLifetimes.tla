----------------------------- MODULE MCLifetimes -----------------------------
(***************************************************************************)
(* What lives no longer than it is wanted, for TLC: the requests and       *)
(* terminals of BoardAttach and the calls and connections of HostPool.     *)
(* They share nothing here: a behaviour is one of either.                  *)
(***************************************************************************)
EXTENDS MCBoardAttach

CONSTANTS Hosts, Calls, Entries, Conns, NoHost, NoEntry, NoConn, MaxVersion

VARIABLES
  part,
  configured, details, owed, pruning, hosts, entry, closed, conn, dropped, call, settled

Pool == INSTANCE HostPool WITH doomed <- dropped

poolVars == <<configured, details, owed, pruning, hosts, entry, closed, conn, dropped, call, settled>>

lifetimeVars == <<part, vars, poolVars>>

\* Only the part that runs starts in any of its initial states.
LifetimesInit ==
  /\ part \in {"attach", "pool"}
  /\ Init /\ Pool!Init
  /\ part # "pool" => configured = {}

LifetimesNext ==
  \/ part = "attach" /\ Next /\ UNCHANGED <<part, poolVars>>
  \/ part = "pool" /\ Pool!Next /\ UNCHANGED <<part, vars>>

\* Pool!Fairness, of the pool's behaviours: a collection can go on in every
\* state of its own, and the attaches' behaviours have none.
PoolFairness ==
  /\ \A e \in Entries : WF_poolVars(part = "pool" /\ Pool!DialEnds(e))
  /\ WF_poolVars(part = "pool" /\ Pool!Collect)
  /\ WF_poolVars(part = "pool" /\ \E names \in pruning : Pool!Retain(names))

LifetimesSpec ==
  /\ LifetimesInit /\ [][LifetimesNext]_lifetimeVars
  /\ Fairness /\ PoolFairness

\* Every request is answered and a terminal nobody reads ends (BoardAttach).
AttachesEnd == RequestsEnd /\ UnreadEnds

\* No caller waits for ever and a removed host is disconnected (HostPool).
LinksEnd == Pool!WaitersEnd /\ Pool!RemovedDisconnected
=============================================================================

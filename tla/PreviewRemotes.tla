--------------------------- MODULE PreviewRemotes ---------------------------
(***************************************************************************)
(* The SSH host a preview is read from or relayed through                  *)
(* (internal/preview/remote.go and relay.go, session/preview_conn.go): one *)
(* connection its requests share, made when first needed and again once it *)
(* ended, stopped answering or was refused by a request.                   *)
(*                                                                         *)
(* A request is a file looked up over SFTP, a URL to be relayed, or a      *)
(* browser's connection to a relay.  The host is outside panemux: its      *)
(* connection may end or fall silent at any time.                          *)
(***************************************************************************)
EXTENDS Naturals, FiniteSets

CONSTANTS
  Viewers,     \* the goroutines that need the host
  Channels,    \* the connections that may be made to it
  MaxVisits,   \* bound: requests
  NoChannel, NoViewer

ASSUME PreviewAssumption == NoChannel \notin Channels /\ NoViewer \notin Viewers /\ MaxVisits \in Nat

VARIABLES
  channel,   \* Remote.conn, or NoChannel
  dialer,    \* the viewer that makes Remote.dialing, or NoViewer
  shut,      \* Remote.closed
  link,      \* each connection: unused, live, silent, ended or closed
  keeper,    \* keepAlive of each: off, waiting or pinging
  viewer,    \* what each viewer does
  watched,   \* the connections a lookup's watch is about to drop
  relays,    \* Relays: unopened, open or closed
  visits     \* requests so far

remoteVars  == <<channel, dialer, shut, link, keeper>>
viewerVars  == <<viewer, watched, visits>>
previewVars == <<remoteVars, viewerVars, relays>>

Idle == [at |-> "idle", kind |-> "file", via |-> NoChannel, tries |-> 0]

Reports == {"file", "page", "browser"}

Over == {"ended", "closed"}

-----------------------------------------------------------------------------
(* The connection                                                          *)

\* Mutant: the host's connection is forgotten whatever was dropped.
ForgetsAny(x, c) == NoChannel

Forgets(x, c) == IF c = x THEN NoChannel ELSE c

\* drop: closed, and forgotten when it is still the host's.
Drop(x) == channel' = Forgets(x, channel) /\ link' = [link EXCEPT ![x] = "closed"]

\* The host's connection ends, or nothing arrives on it any more.
Ends(x)   == /\ link[x] \in {"live", "silent"} /\ link' = [link EXCEPT ![x] = "ended"]
             /\ UNCHANGED <<channel, dialer, shut, keeper, viewerVars, relays>>
Silent(x) == /\ link[x] = "live" /\ link' = [link EXCEPT ![x] = "silent"]
             /\ UNCHANGED <<channel, dialer, shut, keeper, viewerVars, relays>>

\* Mutant: only a connection that ended is let go.
PingFailsEnded(x) == FALSE

PingFails(x) == link[x] \in Over \cup {"silent"}

\* keepAlive: whether it is the host's connection is asked before the ping.
KeeperTicks(x) ==
  /\ keeper[x] = "waiting"
  /\ keeper' = [keeper EXCEPT ![x] =
       IF link[x] \in Over \/ channel # x THEN "off" ELSE IF link[x] = "live" THEN @ ELSE "pinging"]
  /\ UNCHANGED <<channel, dialer, shut, link, viewerVars, relays>>
KeeperPinged(x) ==
  /\ keeper[x] = "pinging"
  /\ IF PingFails(x) THEN Drop(x) /\ keeper' = [keeper EXCEPT ![x] = "off"]
                     ELSE keeper' = [keeper EXCEPT ![x] = "waiting"] /\ UNCHANGED <<channel, link>>
  /\ UNCHANGED <<dialer, shut, viewerVars, relays>>

-----------------------------------------------------------------------------
(* The requests                                                            *)

Moves(u, at)       == viewer' = [viewer EXCEPT ![u].at = at]
GoesOver(u, x)     == viewer' = [viewer EXCEPT ![u].at = "use", ![u].via = x]
Answered(u)     == viewer' = [viewer EXCEPT ![u] = Idle]

\* A browser reaches a relay only while it listens.
AskRemote(u, kind) ==
  /\ viewer[u].at = "idle" /\ visits < MaxVisits /\ visits' = visits + 1
  /\ kind = "browser" => relays = "open"
  /\ viewer' = [viewer EXCEPT ![u] = [Idle EXCEPT !.at = "get", !.kind = kind]]
  /\ UNCHANGED <<remoteVars, watched, relays>>

\* next: the live connection, the attempt being made, or a new attempt; one
\* that ended is closed and forgotten.
NextConn(u) ==
  /\ viewer[u].at = "get"
  /\ LET ended == channel # NoChannel /\ link[channel] \in Over
     IN CASE shut -> Answered(u) /\ UNCHANGED <<channel, link, dialer>>
          [] ~shut /\ channel # NoChannel /\ ~ended -> GoesOver(u, channel) /\ UNCHANGED <<channel, link, dialer>>
          [] OTHER ->
               /\ IF ended THEN Drop(channel) ELSE UNCHANGED <<channel, link>>
               /\ IF dialer = NoViewer THEN dialer' = u /\ Moves(u, "dial") ELSE UNCHANGED dialer /\ Moves(u, "wait")
  /\ UNCHANGED <<shut, keeper, watched, visits, relays>>

\* Mutant: a connection made for a host that was closed meanwhile is kept.
KeptAlways(x) == TRUE

Kept(x) == ~shut

\* dial, once connect returned: those that wait look again, or fail too.
Told(u, works, x) ==
  viewer' = [v \in Viewers |->
    CASE v = u /\ works                   -> [viewer[v] EXCEPT !.at = "use", !.via = x]
      [] v # u /\ viewer[v].at = "wait"   -> IF works THEN [viewer[v] EXCEPT !.at = "get"] ELSE Idle
      [] OTHER                            -> IF v = u THEN Idle ELSE viewer[v]]
Dialed(u) ==
  /\ viewer[u].at = "dial" /\ dialer' = NoViewer
  /\ \/ Told(u, FALSE, NoChannel) /\ UNCHANGED <<channel, link, keeper>>
     \/ \E x \in Channels :
          /\ link[x] = "unused"
          /\ IF Kept(x)
             THEN /\ channel' = x /\ link' = [link EXCEPT ![x] = "live"]
                  /\ keeper' = [keeper EXCEPT ![x] = "waiting"] /\ Told(u, TRUE, x)
             ELSE link' = [link EXCEPT ![x] = "closed"] /\ UNCHANGED <<channel, keeper>> /\ Told(u, FALSE, x)
  /\ UNCHANGED <<shut, watched, visits, relays>>

\* A lookup runs once more over a new connection; any other request fails.
Refused(u) == IF viewer[u].kind = "file" /\ viewer[u].tries = 0
              THEN viewer' = [viewer EXCEPT ![u].at = "get", ![u].tries = 1]
              ELSE Answered(u)

\* The request over its connection.  A file that is not there, a port that
\* nothing listens at and a time limit leave the connection.
Served(u) ==
  /\ viewer[u].at = "use"
  /\ LET x == viewer[u].via IN
     /\ link[x] \in {"live", "ended", "closed"} \/ viewer[u].kind # "file"
     /\ \/ link[x] = "live" /\ Answered(u) /\ UNCHANGED <<channel, link, relays>>
        \/ link[x] = "silent" /\ Answered(u) /\ UNCHANGED <<channel, link, relays>>
        \/ /\ link[x] = "live" /\ viewer[u].kind = "page" /\ Moves(u, "listen")
           /\ UNCHANGED <<channel, link, relays>>
        \/ link[x] # "silent" /\ Drop(x) /\ Refused(u) /\ UNCHANGED relays
  /\ UNCHANGED <<dialer, shut, keeper, watched, visits>>

\* watch: nothing arrived for the time a lookup may wait.
WatchFires(u) ==
  /\ viewer[u].at = "use" /\ viewer[u].kind = "file" /\ link[viewer[u].via] = "silent"
  /\ watched' = watched \cup {viewer[u].via}
  /\ UNCHANGED <<remoteVars, viewer, visits, relays>>
WatchDrops(x) ==
  /\ x \in watched /\ watched' = watched \ {x} /\ Drop(x)
  /\ UNCHANGED <<dialer, shut, keeper, viewer, visits, relays>>

\* ensure: a relay is opened once, and none after Close.
EnsureRelay(u) ==
  /\ viewer[u].at = "listen" /\ Answered(u)
  /\ relays' = IF relays = "unopened" THEN "open" ELSE relays
  /\ UNCHANGED <<remoteVars, watched, visits>>

-----------------------------------------------------------------------------
(* The end: the relays first, then the host.                               *)

CloseRelays == relays # "closed" /\ relays' = "closed" /\ UNCHANGED <<remoteVars, viewerVars>>

CloseRemote ==
  /\ relays = "closed" /\ ~shut /\ shut' = TRUE /\ channel' = NoChannel
  /\ link' = IF channel = NoChannel THEN link ELSE [link EXCEPT ![channel] = "closed"]
  /\ UNCHANGED <<dialer, keeper, viewerVars, relays>>

PreviewInit ==
  /\ channel = NoChannel /\ dialer = NoViewer /\ shut = FALSE /\ watched = {} /\ visits = 0 /\ relays = "unopened"
  /\ link = [x \in Channels |-> "unused"] /\ keeper = [x \in Channels |-> "off"]
  /\ viewer = [u \in Viewers |-> Idle]

ViewerSteps(u) == NextConn(u) \/ Dialed(u) \/ Served(u) \/ WatchFires(u) \/ EnsureRelay(u)
KeeperSteps(x) == KeeperTicks(x) \/ KeeperPinged(x) \/ WatchDrops(x)

PreviewNext ==
  \/ \E u \in Viewers : ViewerSteps(u) \/ \E kind \in Reports : AskRemote(u, kind)
  \/ \E x \in Channels : KeeperSteps(x) \/ Ends(x) \/ Silent(x)
  \/ CloseRelays \/ CloseRemote

PreviewSteps == (\E u \in Viewers : ViewerSteps(u)) \/ \E x \in Channels : KeeperSteps(x)

\* Dials and lookups have time limits, tickers tick.
PreviewFairness == WF_previewVars(PreviewSteps)

PreviewSpec == PreviewInit /\ [][PreviewNext]_previewVars /\ PreviewFairness

PreviewTypeOK ==
  /\ channel \in Channels \cup {NoChannel} /\ dialer \in Viewers \cup {NoViewer} /\ shut \in BOOLEAN
  /\ link \in [Channels -> {"unused", "live", "silent", "ended", "closed"}]
  /\ keeper \in [Channels -> {"off", "waiting", "pinging"}]
  /\ viewer \in [Viewers -> [at : {"idle", "get", "dial", "wait", "use", "listen"}, kind : Reports,
                             via : Channels \cup {NoChannel}, tries : 0..1]]
  /\ watched \subseteq Channels /\ relays \in {"unopened", "open", "closed"} /\ visits \in 0..MaxVisits

-----------------------------------------------------------------------------
(* Properties                                                              *)

\* No connection is lost: whatever was made and not closed is the host's, so
\* that a request, a ping or Close lets go of it; none is left after Close.
NoneLost == \A x \in Channels : link[x] \in {"live", "silent", "ended"} => channel = x /\ ~shut

\* A connection that stopped answering is let go, whoever uses it, and every
\* request is answered.
SilenceEnds ==
  /\ \A x \in Channels : []<>(link[x] # "silent")
  /\ \A u \in Viewers : []<>(viewer[u].at = "idle")
=============================================================================

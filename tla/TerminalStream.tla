---------------------------- MODULE TerminalStream ----------------------------
(***************************************************************************)
(* The output of one pane, from its session to the terminal a browser      *)
(* shows: the session manager's pump and subscriptions                     *)
(* (internal/session/manager.go), the WebSocket handler                    *)
(* (internal/ws/handler.go), the socket that reconnects (useWebSocket.ts)  *)
(* and the terminal with its replay state (useTerminal.ts).                *)
(*                                                                         *)
(* Output is a sequence of numbered chunks.  A connection is a number, in  *)
(* the order they are made, and a frame on its way is in wire.  xterm.js   *)
(* parses what it is given later, in order: tape is what it has not parsed.*)
(* Resizes, input and the terminal's links are left out, and the ring that *)
(* keeps the last output is in ReplayBuffer.                               *)
(***************************************************************************)
EXTENDS Integers, Sequences, SequencesExt

CONSTANTS
  Window,      \* chunks the replay buffer keeps
  ChanRoom,    \* chunks a subscription's channel holds
  WireRoom,    \* frames the network holds before a write blocks
  MaxAttempts, \* maxReconnectAttempts
  MaxChunks,   \* bound: output
  MaxConns     \* bound: connections

ASSUME TerminalAssumption ==
  /\ Window \in Nat \ {0} /\ ChanRoom \in Nat \ {0} /\ WireRoom \in Nat \ {0}
  /\ MaxAttempts \in Nat \ {0} /\ MaxChunks \in Nat /\ MaxConns \in Nat \ {0}

Conns == 1..MaxConns

VARIABLES
  produced,  \* chunks the pane's program wrote
  retained,   \* managedSession.history
  state,     \* the session: connected, disconnected or exited
  subs,      \* connections with a subscription
  chan,      \* what is in their channels
  behind,    \* connections for which a chunk was dropped
  serving,    \* where ServeHTTP is for each connection
  wire,
  socket,    \* the browser's: connecting, open, waiting for another attempt,
             \* exhausted, or gone with its pane
  conn,      \* its connection
  last,      \* connections made
  attempts,  \* attemptsRef
  offered,   \* a restart was asked for, or its button is shown
  screen,    \* the terminal: attached to the page, replayActive,
             \* awaitingReplayEnd, replayWriteDepth and disableStdin
  pending,   \* pendingMessagesRef
  tape,
  shown,     \* chunks of the connection that were parsed
  mixed      \* when it opened, an older one's replay was not parsed yet

serverVars == <<produced, retained, state, subs, chan, behind, serving>>
socketVars == <<socket, conn, last, attempts>>
screenVars == <<screen, pending, tape, shown, mixed>>
terminalVars == <<serverVars, wire, socketVars, offered, screenVars>>

-----------------------------------------------------------------------------
(* The server.                                                             *)

\* Mutant: the window keeps everything.
NewestAll(s) == s

\* replayBuffer.append.
Newest(s) == SubSeq(s, IF Len(s) > Window THEN Len(s) - Window + 1 ELSE 1, Len(s))

\* publish: a full channel misses the chunk.
Publish ==
  /\ state = "connected" /\ produced < MaxChunks
  /\ produced' = produced + 1
  /\ retained' = Newest(Append(retained, produced'))
  /\ LET full == {k \in subs : Len(chan[k]) >= ChanRoom}
     IN /\ chan' = [k \in Conns |-> IF k \in subs \ full THEN Append(chan[k], produced') ELSE chan[k]]
        /\ behind' = behind \cup full
  /\ UNCHANGED <<state, subs, serving, wire, socketVars, offered, screenVars>>

\* Mutant: the channels stay open.
OutputEndsOpen ==
  /\ state = "connected"
  /\ state' \in {"disconnected", "exited"}
  /\ UNCHANGED <<produced, retained, subs, chan, behind, serving, wire, socketVars, offered, screenVars>>

\* pump ends: closeSubscribers.
OutputEnds ==
  /\ state = "connected"
  /\ state' \in {"disconnected", "exited"}
  /\ subs' = {}
  /\ UNCHANGED <<produced, retained, chan, behind, serving, wire, socketVars, offered, screenVars>>

\* Mutant: the buffered output is read before the subscription is there.
SnapshotEarly == IF retained = <<>> THEN <<>> ELSE Front(retained)

\* subscribe: the buffered output and the subscription at once.
SnapshotAtOnce == retained

Frame(k, type, chunks) == [type |-> type, chunks |-> chunks, conn |-> k]

\* ServeHTTP up to the first frame; an ended session's channel is closed.
Subscribe(k) ==
  /\ serving[k] = "none" /\ socket = "connecting" /\ conn = k
  /\ subs' = IF state = "connected" THEN subs \cup {k} ELSE subs
  /\ wire' = [wire EXCEPT ![k] =
       <<Frame(k, "connected", <<>>)>> \o
       IF SnapshotAtOnce = <<>> THEN <<>>
       ELSE <<Frame(k, "start", <<>>), Frame(k, "bytes", SnapshotAtOnce), Frame(k, "end", <<>>)>>]
  /\ serving' = [serving EXCEPT ![k] = "streaming"]
  /\ UNCHANGED <<produced, retained, state, chan, behind, socketVars, offered, screenVars>>

\* forwardTerminalOutput.
Forward(k) ==
  /\ serving[k] = "streaming" /\ chan[k] # <<>> /\ Len(wire[k]) < WireRoom
  /\ wire' = [wire EXCEPT ![k] = Append(@, Frame(k, "bytes", <<Head(chan[k])>>))]
  /\ chan' = [chan EXCEPT ![k] = Tail(@)]
  /\ UNCHANGED <<produced, retained, state, subs, behind, serving, socketVars, offered, screenVars>>

ReportEnd(k) ==
  /\ serving[k] = "streaming" /\ chan[k] = <<>> /\ k \notin subs
  /\ wire' = [wire EXCEPT ![k] = Append(@, Frame(k, state, <<>>))]
  /\ serving' = [serving EXCEPT ![k] = "reported"]
  /\ UNCHANGED <<produced, retained, state, subs, chan, behind, socketVars, offered, screenVars>>

\* The browser's side closed: the handler returns and unsubscribes.
HandlerReturns(k) ==
  /\ serving[k] \in {"streaming", "reported"} /\ (k # conn \/ socket \notin {"connecting", "open"})
  /\ serving' = [serving EXCEPT ![k] = "returned"]
  /\ subs' = subs \ {k} /\ chan' = [chan EXCEPT ![k] = <<>>]
  /\ UNCHANGED <<produced, retained, state, behind, wire, socketVars, offered, screenVars>>

-----------------------------------------------------------------------------
(* The socket.                                                             *)

NewConnection ==
  /\ last < MaxConns
  /\ socket' = "connecting" /\ conn' = last + 1 /\ last' = last + 1
  /\ shown' = <<>>

\* connect, when the timer fires; the attempts may be used up.
Retry ==
  /\ socket = "waiting"
  /\ \/ attempts < MaxAttempts /\ NewConnection /\ UNCHANGED offered
     \/ /\ attempts >= MaxAttempts /\ socket' = "exhausted" /\ offered' = TRUE
        /\ UNCHANGED <<conn, last, shown>>
  /\ UNCHANGED <<serverVars, wire, attempts, screen, pending, tape, mixed>>

\* onclose: what was on its way is lost.
SocketCloses(k) ==
  /\ socket \in {"connecting", "open"} /\ conn = k
  /\ socket' = "waiting" /\ attempts' = attempts + 1
  /\ wire' = [wire EXCEPT ![k] = <<>>]
  /\ UNCHANGED <<serverVars, conn, last, offered, screenVars>>

\* restartSession, recoverDisconnectedSession and reconnect: a new session
\* and a socket that counts its attempts anew.
Restart ==
  /\ offered /\ offered' = FALSE
  /\ retained' = <<>> /\ state' = "connected" /\ subs' = {}
  /\ NewConnection /\ attempts' = 0
  /\ wire' = [wire EXCEPT ![conn] = <<>>]
  /\ UNCHANGED <<produced, chan, behind, serving, screen, pending, tape, mixed>>

-----------------------------------------------------------------------------
(* The terminal.                                                           *)

FreshScreen == [attached |-> FALSE, replaying |-> FALSE, awaiting |-> FALSE, depth |-> 0, quiet |-> FALSE]

\* resetReplayState.
Reset(e) == [FreshScreen EXCEPT !.attached = e.attached]

Replayed == {i \in 1..Len(tape) : tape[i].replay}

\* onopen.
Open(k) ==
  /\ socket = "connecting" /\ conn = k /\ wire[k] # <<>>
  /\ socket' = "open" /\ attempts' = 0
  /\ screen' = IF screen.attached THEN Reset(screen) ELSE screen
  /\ mixed' = (Replayed # {})
  /\ UNCHANGED <<serverVars, wire, conn, last, offered, pending, tape, shown>>

\* Mutant: nothing is restored.
RestoreNever(e) == e

\* maybeRestoreTerminalInput.
Restore(e) == IF e.awaiting \/ e.depth > 0 THEN e ELSE [e EXCEPT !.quiet = FALSE]

\* Mutant: replayed writes are not counted.
BytesUncounted(e) == IF e.replaying THEN [e EXCEPT !.quiet = TRUE] ELSE e

\* writeTerminalBytes.
BytesWritten(e) == IF e.replaying THEN [e EXCEPT !.depth = @ + 1, !.quiet = TRUE] ELSE e

\* applyMessageToTerminal: what a frame does to the terminal and to what
\* xterm.js has to parse.
Applied(t, f) ==
  CASE f.type = "start" -> [t EXCEPT !.screen.replaying = TRUE, !.screen.awaiting = TRUE, !.screen.quiet = TRUE]
    [] f.type = "end"   -> [t EXCEPT !.screen = Restore([@ EXCEPT !.replaying = FALSE, !.awaiting = FALSE])]
    [] f.type = "bytes" -> [t EXCEPT !.screen = BytesWritten(@),
                                     !.tape = Append(@, [chunks |-> f.chunks, replay |-> t.screen.replaying, conn |-> f.conn])]
    [] OTHER            -> t

Ended(frames) == \E i \in 1..Len(frames) : frames[i].type \in {"disconnected", "exited"}

Show(frames) ==
  LET t == FoldLeft(Applied, [screen |-> screen, tape |-> tape], frames)
  IN tape' = t.tape /\ screen' = [t.screen EXCEPT !.attached = TRUE] /\ offered' = (offered \/ Ended(frames))

\* handleMessage: frames are kept while the terminal is not attached.
Receive(k) ==
  /\ socket = "open" /\ conn = k /\ wire[k] # <<>>
  /\ wire' = [wire EXCEPT ![k] = Tail(@)]
  /\ LET f == Head(wire[k]) IN
       IF screen.attached THEN Show(<<f>>) /\ UNCHANGED pending
       ELSE pending' = Append(pending, f) /\ UNCHANGED <<screen, tape, offered>>
  /\ UNCHANGED <<serverVars, socketVars, shown, mixed>>

\* xterm.js parses the oldest write and calls back.
Parse ==
  /\ tape # <<>> /\ tape' = Tail(tape)
  /\ LET w == Head(tape) IN
       /\ screen' = IF w.replay THEN Restore([screen EXCEPT !.depth = @ - 1]) ELSE screen
       /\ shown' = IF w.conn = conn THEN shown \o w.chunks ELSE shown
  /\ UNCHANGED <<serverVars, wire, socketVars, offered, pending, mixed>>

\* The pane leaves the page, in a workspace switch; its terminal is disposed
\* of at once unless it is put back first.
Unmount ==
  /\ socket # "gone" /\ screen.attached
  /\ socket' = "gone" /\ wire' = [wire EXCEPT ![conn] = <<>>]
  /\ screen' = [screen EXCEPT !.attached = FALSE]
  /\ offered' = FALSE
  /\ UNCHANGED <<serverVars, conn, last, attempts, pending, tape, shown, mixed>>

Dispose ==
  /\ socket = "gone" /\ (screen # FreshScreen \/ tape # <<>>)
  /\ screen' = FreshScreen /\ tape' = <<>>
  /\ UNCHANGED <<serverVars, wire, socketVars, offered, pending, shown, mixed>>

\* A disposed terminal may be made after its socket opens.
Mount ==
  /\ socket = "gone" /\ NewConnection /\ attempts' = 0
  /\ screen' \in {[screen EXCEPT !.attached = TRUE]} \cup (IF screen = FreshScreen /\ tape = <<>> THEN {FreshScreen} ELSE {})
  /\ UNCHANGED <<serverVars, wire, offered, pending, tape, mixed>>

\* attachTerminal and flushPendingMessages.
Attach ==
  /\ socket # "gone" /\ ~screen.attached
  /\ Show(pending) /\ pending' = <<>>
  /\ UNCHANGED <<serverVars, wire, socketVars, shown, mixed>>

-----------------------------------------------------------------------------
TerminalInit ==
  /\ produced = 0 /\ retained = <<>> /\ state = "connected"
  /\ subs = {} /\ behind = {}
  /\ chan = [k \in Conns |-> <<>>] /\ wire = chan
  /\ serving = [k \in Conns |-> "none"]
  /\ socket = "gone" /\ conn = 1 /\ last = 0 /\ attempts = 0 /\ offered = FALSE
  /\ screen = FreshScreen /\ pending = <<>> /\ tape = <<>> /\ shown = <<>> /\ mixed = FALSE

Connection(k) ==
  \/ Subscribe(k) \/ Forward(k) \/ ReportEnd(k) \/ HandlerReturns(k)
  \/ Open(k) \/ SocketCloses(k) \/ Receive(k)

TerminalNext ==
  \/ Publish \/ OutputEnds \/ Retry \/ Restart
  \/ Parse \/ Unmount \/ Dispose \/ Mount \/ Attach
  \/ \E k \in Conns : Connection(k)

\* The handler's goroutines run, and the browser's event loop.
TerminalSteps == Parse \/ Attach \/ \E k \in Conns : Forward(k) \/ ReportEnd(k) \/ Receive(k)

TerminalFairness == WF_terminalVars(TerminalSteps)

TerminalSpec == TerminalInit /\ [][TerminalNext]_terminalVars /\ TerminalFairness

-----------------------------------------------------------------------------
Frames ==
  [type : {"connected", "start", "end", "bytes", "disconnected", "exited"}, chunks : Seq(Nat), conn : Conns]

TerminalTypeOK ==
  /\ produced \in Nat /\ retained \in Seq(Nat) /\ Len(retained) <= Window
  /\ state \in {"connected", "disconnected", "exited"}
  /\ subs \subseteq Conns /\ behind \subseteq Conns
  /\ chan \in [Conns -> Seq(Nat)] /\ wire \in [Conns -> Seq(Frames)]
  /\ serving \in [Conns -> {"none", "streaming", "reported", "returned"}]
  /\ socket \in {"gone", "connecting", "open", "waiting", "exhausted"}
  /\ conn \in Conns /\ last \in 0..MaxConns /\ attempts \in Nat /\ offered \in BOOLEAN
  /\ screen \in [attached : BOOLEAN, replaying : BOOLEAN, awaiting : BOOLEAN, depth : Int, quiet : BOOLEAN]
  /\ pending \in Seq(Frames) /\ tape \in Seq([chunks : Seq(Nat), replay : BOOLEAN, conn : Conns])
  /\ shown \in Seq(Nat) /\ mixed \in BOOLEAN

\* What reached or will reach the terminal over a connection.
Flatten(k, writes) ==
  FoldLeft(LAMBDA s, w : IF w.conn = k THEN s \o w.chunks ELSE s, <<>>, writes)

Given(k) == shown \o Flatten(k, tape) \o Flatten(k, pending) \o Flatten(k, wire[k]) \o chan[k]

\* docs/scenarios.md H15: over one connection a terminal is given the buffered output once and
\* then all that follows, in order; a slow reader misses chunks, and what it
\* is given is still in order.
OutputInOrder ==
  LET s == Given(conn)
  IN socket = "open" =>
       /\ \A i \in 1..(Len(s) - 1) :
            s[i] < s[i + 1] /\ (conn \notin behind => s[i + 1] = s[i] + 1)
       /\ (conn \in subs \ behind /\ retained # <<>>) => s # <<>> /\ s[Len(s)] = produced

\* websocket.md: until the last write of a replay was parsed, terminal input
\* is suppressed, so that no query in old output is answered again.
ReplayIsQuiet == \A i \in Replayed : tape[i].conn = conn /\ socket = "open" => screen.quiet

\* The same, where no write of an older replay is still to call back.
LoneReplayIsQuiet == ~mixed => ReplayIsQuiet

\* Suppression ends while the connection lasts.
InputComesBack == []<>~(screen.quiet /\ socket = "open")

\* docs/scenarios.md H16: the end of a pane's program is shown, and a restart offered.
EndIsShown == []<>~(socket = "open" /\ state # "connected" /\ ~offered)

\* What a terminal shows of a session that lasts, and what it keeps from
\* answering again (subscribe, writeTerminalBytes).
ShownInOrder == OutputInOrder /\ LoneReplayIsQuiet

\* A terminal becomes usable after a replay, and a pane's end is told.
TerminalSettles == InputComesBack /\ EndIsShown
=============================================================================

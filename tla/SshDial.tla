------------------------------- MODULE SshDial -------------------------------
(***************************************************************************)
(* An SSH connection through a chain of ProxyJump hosts and the terminal   *)
(* made on it (internal/session/ssh.go, tmux_ssh.go and factory.go).  Hop  *)
(* 1 is reached directly, each further hop over the client of the one      *)
(* before, and the last is the pane's host; the dial of a hop begins with  *)
(* the dial of the hop before it.                                          *)
(*                                                                         *)
(* Time passes only in what waits; `stalled' is what passed in             *)
(* jumpClient.Dial, which has no time limit.                               *)
(***************************************************************************)
EXTENDS Naturals

CONSTANTS
  MaxHops,       \* bound: the length of a chain
  MaxTries,      \* dialRetryMaxAttempts
  Budget,        \* dialRetryBudget, in steps of the first backoff
  ShakeLimit,    \* sshHandshakeTimeout
  MaxStall       \* bound: how long a tunnel takes to open

ASSUME SshAssumption ==
  /\ MaxHops \in Nat \ {0} /\ MaxTries \in Nat \ {0}
  /\ Budget \in Nat /\ ShakeLimit \in Nat /\ MaxStall \in Nat

VARIABLES
  hops,     \* the length of this chain
  level,    \* the hop whose dial is under way
  step,     \* where that dial, or the terminal, is
  tries,    \* its attempts, for every hop
  open,     \* the transports of every hop that are open
  left,     \* those a timed out handshake left to be closed
  clock, stalled,
  shell,    \* the session's State
  shellEnd, \* how its shell ended: no, exited or lost
  monitor,  \* monitorSSHSession: off, waiting, marked or done
  eof,      \* the pipe its reader reads was closed
  told      \* the state the reader found at the end of the output

dialVars  == <<hops, level, step, tries, open, left, clock, stalled>>
shellVars == <<shell, shellEnd, monitor, eof, told>>
sshVars   == <<dialVars, shellVars>>

Hops    == 1..MaxHops
Dialing == {"begin", "attempt", "tunnel", "shake", "lost"}

\* Mutant: every attempt has the whole budget.
RemainingAll == Budget

Remaining == IF clock < Budget THEN Budget - clock ELSE 0

Shorter(m, n) == IF m < n THEN m ELSE n

Opened(l)    == open' = [open EXCEPT ![l] = @ + 1]
Shut(ls)     == [l \in Hops |-> IF l \in ls /\ open[l] > 0 THEN open[l] - 1 ELSE open[l]]
Passes(d)    == clock' = clock + d

-----------------------------------------------------------------------------
(* The dial                                                                *)

\* buildAuthMethods and buildHostKeyCallback, before anything is opened.
Begin ==
  /\ step = "begin" /\ tries' = [tries EXCEPT ![level] = 0]
  /\ step' \in {"attempt", "lost"}
  /\ UNCHANGED <<hops, level, open, left, clock, stalled, shellVars>>

\* dialTransportWithRetry, after an attempt at level l failed.
GivesUp(l, now) == tries[l] = MaxTries \/ now >= Budget
AfterFailure(l, now) ==
  IF GivesUp(l, now) THEN step' = "lost" /\ clock' = now
                     ELSE step' = "attempt" /\ clock' = now + tries[l]

\* An attempt: at a first hop directly, which takes at most what remains, or
\* by its ProxyCommand; at another by the dial of the hop before.
Attempt ==
  /\ step = "attempt"
  /\ IF clock >= Budget
     THEN step' = "lost" /\ UNCHANGED <<level, tries, open, clock>>
     ELSE /\ tries' = [tries EXCEPT ![level] = @ + 1]
          /\ IF level > 1
             THEN level' = level - 1 /\ step' = "begin" /\ UNCHANGED <<open, clock>>
             ELSE /\ UNCHANGED level
                  /\ \E d \in 0..Remaining :
                       \/ Passes(d) /\ Opened(1) /\ step' = "shake"
                       \/ step' = "dialed" /\ Passes(d) /\ UNCHANGED open
  /\ UNCHANGED <<hops, left, stalled, shellVars>>

\* The attempt failed: back in the loop of the hop it was made for.
TryAgain ==
  /\ step = "dialed" /\ AfterFailure(level, clock)
  /\ UNCHANGED <<hops, level, tries, open, left, stalled, shellVars>>

\* The dial of this hop failed: the hop it was dialed for failed to connect.
Lost ==
  /\ step = "lost"
  /\ IF level = hops THEN step' = "failed" /\ UNCHANGED level
                     ELSE step' = "dialed" /\ level' = level + 1
  /\ UNCHANGED <<hops, tries, open, left, clock, stalled, shellVars>>

\* dialThroughJump, once the hop before is connected: when its tunnel fails,
\* that hop's client and the one it was reached over are closed.
Tunnel ==
  /\ step = "tunnel"
  /\ \E d \in 0..MaxStall :
       /\ Passes(d) /\ stalled' = stalled + d
       /\ \/ Opened(level) /\ step' = "shake"
          \/ open' = Shut({level - 1, level - 2}) /\ step' = "dialed"
  /\ UNCHANGED <<hops, level, tries, left, shellVars>>

\* Mutant: the jump host's client is kept when the handshake fails.
ClosedWithNone(l) == {}

\* What is closed with the transport of a hop whose handshake failed.
ClosedWith(l) == {l - 1}

\* The handshake, within what remains of the budget; a transport whose
\* handshake did not end is closed in the background, which ends it.
Shake ==
  LET limit == Shorter(ShakeLimit, Remaining) IN
  /\ step = "shake"
  /\ \/ /\ limit > 0 /\ (\E d \in 0..limit : Passes(d)) /\ UNCHANGED <<open, left>>
        /\ IF level = hops THEN step' = "client" /\ UNCHANGED level ELSE step' = "tunnel" /\ level' = level + 1
     \/ /\ limit > 0 /\ (\E d \in 0..limit : Passes(d)) /\ UNCHANGED <<level, left>>
        /\ open' = Shut({level} \cup ClosedWith(level)) /\ step' = "lost"
     \/ /\ Passes(limit) /\ left' = [left EXCEPT ![level] = @ + 1] /\ UNCHANGED level
        /\ open' = Shut({level} \cup ClosedWith(level)) /\ step' = "lost"
  /\ UNCHANGED <<hops, tries, stalled, shellVars>>

CloseLeft(l) ==
  /\ left[l] > 0 /\ left' = [left EXCEPT ![l] = @ - 1]
  /\ UNCHANGED <<hops, level, step, tries, open, clock, stalled, shellVars>>

-----------------------------------------------------------------------------
(* The terminal                                                            *)

\* newSSHSessionFromClient and startTmuxSSHSession: a channel, its PTY and the
\* shell, or tmux; closeSSHResources when one of them fails.
StartShell ==
  /\ step = "client"
  /\ \/ step' = "running" /\ shell' = "connected" /\ monitor' = "waiting" /\ UNCHANGED open
     \/ step' = "failed" /\ open' = Shut({hops, hops - 1}) /\ UNCHANGED <<shell, monitor>>
  /\ UNCHANGED <<hops, level, tries, left, clock, stalled, shellEnd, eof, told>>

\* The shell exits, or the connection is lost, which its last clients stay
\* open for until the session is closed.
ShellEnds ==
  /\ step = "running" /\ shellEnd = "no" /\ shellEnd' \in {"exited", "lost"}
  /\ UNCHANGED <<dialVars, shell, monitor, eof, told>>

\* Session.Wait returned: the state is set, and then the pipe is closed.
MarkExited ==
  /\ monitor = "waiting" /\ shellEnd # "no" /\ monitor' = "marked"
  /\ shell' = IF shellEnd = "exited" THEN "exited" ELSE "disconnected"
  /\ UNCHANGED <<dialVars, shellEnd, eof, told>>

\* Mutant: the pipe is closed when the shell ended, before the state is set.
PipeClosesEarly == monitor \in {"waiting", "marked"} /\ shellEnd # "no"

PipeCloses == monitor = "marked"

ClosePipe ==
  /\ ~eof /\ PipeCloses /\ eof' = TRUE
  /\ UNCHANGED <<dialVars, shell, shellEnd, monitor, told>>

\* The reader of the output, at its end.
ReaderEnds ==
  /\ eof /\ told = "no" /\ told' = shell
  /\ UNCHANGED <<dialVars, shell, shellEnd, monitor, eof>>

\* Close: the channel first, which ends Wait as a shell that exits does.
CloseTerminal ==
  /\ step = "running" /\ step' = "closed" /\ shell' = "exited"
  /\ open' = Shut({hops, hops - 1}) /\ shellEnd' = IF shellEnd = "no" THEN "exited" ELSE shellEnd
  /\ UNCHANGED <<hops, level, tries, left, clock, stalled, monitor, eof, told>>

SshInit ==
  /\ hops \in Hops /\ level = hops /\ step = "begin" /\ clock = 0 /\ stalled = 0
  /\ tries = [l \in Hops |-> 0] /\ open = [l \in Hops |-> 0] /\ left = [l \in Hops |-> 0]
  /\ shell = "connecting" /\ shellEnd = "no" /\ monitor = "off" /\ eof = FALSE /\ told = "no"

DialSteps  == Begin \/ Attempt \/ TryAgain \/ Lost \/ Tunnel \/ Shake \/ StartShell
ShellSteps == MarkExited \/ ClosePipe \/ ReaderEnds
SshSteps   == DialSteps \/ ShellSteps

SshNext == DialSteps \/ ShellSteps \/ (\E l \in Hops : CloseLeft(l)) \/ ShellEnds \/ CloseTerminal

\* Every wait has an end, the tunnel's in what the operating system allows.
SshFairness == WF_sshVars(SshSteps)

SshSpec == SshInit /\ [][SshNext]_sshVars /\ SshFairness

SshTypeOK ==
  /\ hops \in Hops /\ level \in 1..hops /\ shell \in {"connecting", "connected", "disconnected", "exited"}
  /\ step \in Dialing \cup {"dialed", "client", "running", "failed", "closed"}
  /\ tries \in [Hops -> 0..MaxTries] /\ open \in [Hops -> Nat] /\ left \in [Hops -> Nat]
  /\ clock \in Nat /\ stalled \in 0..clock /\ shellEnd \in {"no", "exited", "lost"}
  /\ monitor \in {"off", "waiting", "marked"} /\ eof \in BOOLEAN
  /\ told \in {"no", "connected", "disconnected", "exited"}

-----------------------------------------------------------------------------
(* Properties                                                              *)

\* What a chain longer than two leaves open is stated apart: LowerHopsClosed.
Nested(l) == l =< hops - 2

\* Nothing is left open by a dial that failed, at any hop and attempt, by a
\* terminal that was not started, or by one that was closed.
NothingOpen ==
  step \in {"begin", "attempt", "lost", "dialed", "failed", "closed"} => \A l \in Hops : open[l] = 0 \/ Nested(l)

\* One budget bounds the whole chain: the hops share its deadline, so that
\* retries and handshakes do not add up (but for tunnels, which have none).
WithinBudget == clock - stalled =< Budget + MaxTries

\* The reader of a terminal's output never finds it connected at its end, and
\* a lost connection is told from a shell that exited until it is closed.
EndIsKnown ==
  /\ told # "connected"
  /\ (told # "no" /\ step = "running") => told = IF shellEnd = "lost" THEN "disconnected" ELSE "exited"

\* What a dial and a terminal's end must not do wrong.
DialIsSound == NothingOpen /\ WithinBudget /\ EndIsKnown

\* ssh.go:377: a client that was reached over further jump hosts closes them.
LowerHopsClosed == step \in {"failed", "closed"} => \A l \in Hops : open[l] = 0

\* A terminal whose shell ended or connection was lost tells its reader.
EndIsTold == []<>(shellEnd = "no" \/ told # "no")
=============================================================================

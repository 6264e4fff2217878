---------------------------- MODULE CommandCenter ----------------------------
(***************************************************************************)
(* The command center: the WebSocket connections that send prompts         *)
(* (internal/ws/board_command.go), the runner that answers one at a time   *)
(* by a claude process (internal/commandcenter/runner.go), and the files   *)
(* it keeps (session_store.go, history_store.go).                          *)
(*                                                                         *)
(* A turn is a prompt under way.  The process and the conversations it     *)
(* keeps are outside this repository: it prints lines, one of which may be *)
(* malformed, and ends; a conversation it was told to resume it may have   *)
(* forgotten.                                                              *)
(***************************************************************************)
EXTENDS Naturals, Sequences, SequencesExt, FiniteSets

CONSTANTS
  Clients,   \* connections to the command center
  EventRoom, \* events a turn's channel holds
  MaxLines,  \* bound: lines the first process prints, each later one may print one less
  MaxTurns,  \* bound: turns
  NoTurn, NoSession

\* What a turn's goroutine holds: its place, its number, the conversation and
\* whether it is the first turn of it, the lines read, and how the process ended.
TurnState ==
  [at : {"starting", "running", "waiting", "finished", "closing"}, n : 1..MaxTurns,
   id : {NoSession} \cup 1..MaxTurns, first : BOOLEAN, lines : 0..MaxLines,
   ends : {"none", "success", "failure", "timeout", "malformed"}]

ASSUME CommandAssumption ==
  EventRoom \in Nat \ {0} /\ MaxLines \in Nat /\ MaxTurns \in Nat /\ NoTurn \notin TurnState

VARIABLES
  busy,      \* Runner.busy
  turn,      \* of each client's query: what its goroutine has done, or NoTurn
  turns,     \* turns begun
  events,    \* of each client's query: the channel
  ended,     \* whether it is closed
  handler,   \* of each client: reading, streaming or gone
  writable,  \* no write of the current answer failed
  frames,    \* frames written for its last prompt
  session,   \* the session file: the conversation, or NoSession
  history,   \* the turns in the history file, and how many lines each printed
  claude     \* conversations claude completed a turn of, and may have forgotten since

runnerVars == <<busy, turn, turns, events, ended>>
filesVars  == <<session, history>>
clientVars == <<handler, writable, frames>>
commandVars == <<runnerVars, filesVars, claude, clientVars>>

\* An event, and the frame it becomes: of which turn, and with a warning.
Event(type, n, warned) == [type |-> type, of |-> n, warned |-> warned]

-----------------------------------------------------------------------------
(* The connection.                                                         *)

Free == ~busy

\* Query: one at a time; another is refused at once.
Prompt(c) ==
  /\ handler[c] = "reading" /\ turns < MaxTurns
  /\ IF Free
     THEN /\ busy' = TRUE /\ turns' = turns + 1
          /\ turn' = [turn EXCEPT ![c] = [at |-> "starting", n |-> turns + 1, id |-> NoSession, first |-> FALSE,
                                          lines |-> 0, ends |-> "none"]]
          /\ events' = [events EXCEPT ![c] = <<>>] /\ ended' = [ended EXCEPT ![c] = FALSE]
          /\ handler' = [handler EXCEPT ![c] = "streaming"]
          /\ writable' = [writable EXCEPT ![c] = TRUE] /\ frames' = [frames EXCEPT ![c] = <<>>]
     ELSE /\ \/ frames' = [frames EXCEPT ![c] = <<Event("busy", 0, FALSE)>>] /\ UNCHANGED handler
             \/ handler' = [handler EXCEPT ![c] = "gone"] /\ UNCHANGED frames
          /\ UNCHANGED <<runnerVars, writable>>
  /\ UNCHANGED <<filesVars, claude>>

\* Mutant: nobody reads the events once a write failed.
DrainsWritable(c) == writable[c]

Drains(c) == TRUE

\* streamBoardCommandEvents: once a write failed the rest is read unsent.
Stream(c) ==
  /\ handler[c] = "streaming" /\ events[c] # <<>> /\ Drains(c)
  /\ events' = [events EXCEPT ![c] = Tail(@)]
  /\ \/ writable[c] /\ frames' = [frames EXCEPT ![c] = Append(@, Head(events[c]))] /\ UNCHANGED writable
     \/ writable' = [writable EXCEPT ![c] = FALSE] /\ UNCHANGED frames
  /\ UNCHANGED <<busy, turn, turns, ended, filesVars, claude, handler>>

Streamed(c) ==
  /\ handler[c] = "streaming" /\ events[c] = <<>> /\ ended[c]
  /\ handler' = [handler EXCEPT ![c] = IF writable[c] THEN "reading" ELSE "gone"]
  /\ UNCHANGED <<runnerVars, filesVars, claude, writable, frames>>

-----------------------------------------------------------------------------
(* The turn.                                                               *)

Room(c) == Len(events[c]) < EventRoom

Emit(c, e) == Room(c) /\ events' = [events EXCEPT ![c] = Append(@, e)]

\* The last event; the goroutine then resets busy before it closes the channel.
Finish(c, type, warned) ==
  /\ Emit(c, Event(type, turn[c].n, warned))
  /\ turn' = [turn EXCEPT ![c].at = "finished"]

Quit(c) ==
  /\ turn[c] # NoTurn /\ turn[c].at = "finished"
  /\ busy' = FALSE /\ turn' = [turn EXCEPT ![c].at = "closing"]
  /\ UNCHANGED <<turns, events, ended, filesVars, claude, clientVars>>

CloseEvents(c) ==
  /\ turn[c] # NoTurn /\ turn[c].at = "closing"
  /\ ended' = [ended EXCEPT ![c] = TRUE] /\ turn' = [turn EXCEPT ![c] = NoTurn]
  /\ UNCHANGED <<busy, turns, events, filesVars, claude, clientVars>>

\* run, up to the process: a conversation to resume is the file's, and a new
\* one is named by panemux.
Start(c) ==
  /\ turn[c] # NoTurn /\ turn[c].at = "starting"
  /\ \/ /\ turn' = [turn EXCEPT ![c].at = "running", ![c].first = (session = NoSession),
                                ![c].id = IF session = NoSession THEN turn[c].n ELSE session]
        /\ UNCHANGED events
     \/ Finish(c, "error", FALSE)
  /\ UNCHANGED <<busy, turns, ended, filesVars, claude, clientVars>>

Running(c) == turn[c] # NoTurn /\ turn[c].at = "running"

\* streamOutput, one line.
Line(c) ==
  /\ Running(c) /\ turn[c].lines + turn[c].n =< MaxLines
  /\ Emit(c, Event("line", turn[c].n, FALSE))
  /\ turn' = [turn EXCEPT ![c].lines = @ + 1]
  /\ UNCHANGED <<busy, turns, ended, filesVars, claude, clientVars>>

\* Mutant: the malformed line is reported when it is read.
MalformedReported(c) ==
  /\ Running(c)
  /\ Emit(c, Event("error", turn[c].n, FALSE))
  /\ turn' = [turn EXCEPT ![c].at = "waiting", ![c].ends = "malformed"]
  /\ UNCHANGED <<busy, turns, ended, filesVars, claude, clientVars>>

\* A malformed line: the process is killed, and reported once it is reaped.
Malformed(c) ==
  /\ Running(c)
  /\ turn' = [turn EXCEPT ![c].at = "waiting", ![c].ends = "malformed"]
  /\ UNCHANGED <<busy, turns, events, ended, filesVars, claude, clientVars>>

\* Wait: the process ended by itself, or was killed at the timeout.  It can
\* answer when it began the conversation or had it, and may fail for any
\* reason, one of them that it forgot the conversation.
Exit(c) ==
  /\ Running(c)
  /\ \E how \in {"success", "failure", "timeout"} :
       /\ how = "success" => turn[c].first \/ turn[c].id \in claude
       /\ turn' = [turn EXCEPT ![c].at = "waiting", ![c].ends = how]
       /\ claude' = IF how = "success" THEN claude \cup {turn[c].id} ELSE claude
  /\ UNCHANGED <<busy, turns, events, ended, filesVars, clientVars>>

\* Mutant: a first turn's conversation is kept however the turn ended.
AfterTurnAlways(t) ==
  CASE t.first -> {t.id}
    [] ~t.first /\ t.ends = "failure" -> {session, NoSession}
    [] OTHER -> {session}

\* What the session file may hold after the turn: a first one that succeeded
\* is kept, one whose process failed is cleared unless it timed out, and the
\* file may fail to be written.
AfterTurn(t) ==
  CASE t.first /\ t.ends = "success" -> {t.id, session}
    [] ~t.first /\ t.ends = "failure" -> {session, NoSession}
    [] OTHER -> {session}

\* Mutant: a history that could not be written is only logged.
UnwarnedOf(kept) == FALSE

WarnedOf(kept) == ~kept

\* finishAfterStream: the history first, then the session file, then the last
\* event, an error too when a first turn's conversation was not kept.
FinishAfterStream(c) ==
  /\ turn[c] # NoTurn /\ turn[c].at = "waiting"
  /\ LET t == turn[c] IN
     \E kept \in BOOLEAN :
       /\ history' = IF kept THEN Append(history, [turn |-> t.n, lines |-> t.lines]) ELSE history
       /\ session' \in AfterTurn(t)
       /\ Finish(c, IF t.ends = "success" /\ (t.first => session' = t.id) THEN "done" ELSE "error",
                 WarnedOf(kept))
  /\ UNCHANGED <<busy, turns, ended, claude, clientVars>>

-----------------------------------------------------------------------------
CommandInit ==
  /\ busy = FALSE /\ turn = [c \in Clients |-> NoTurn] /\ turns = 0
  /\ events = [c \in Clients |-> <<>>] /\ ended = [c \in Clients |-> TRUE]
  /\ handler = [c \in Clients |-> "reading"] /\ writable = [c \in Clients |-> TRUE]
  /\ frames = [c \in Clients |-> <<>>]
  /\ session = NoSession /\ history = <<>>
  /\ claude = {}

Turn(c) == Start(c) \/ Line(c) \/ Malformed(c) \/ Exit(c) \/ FinishAfterStream(c) \/ Quit(c) \/ CloseEvents(c)

CommandNext == \E c \in Clients : Prompt(c) \/ Stream(c) \/ Streamed(c) \/ Turn(c)

\* The goroutines run, and a process ends, at its timeout at the latest.
CommandSteps ==
  \E c \in Clients :
    \/ Stream(c) \/ Streamed(c) \/ Start(c) \/ Exit(c) \/ FinishAfterStream(c) \/ Quit(c) \/ CloseEvents(c)

CommandFairness == WF_commandVars(CommandSteps)

CommandSpec == CommandInit /\ [][CommandNext]_commandVars /\ CommandFairness

-----------------------------------------------------------------------------
CommandEvents ==
  [type : {"line", "done", "error", "busy"}, of : 0..MaxTurns, warned : BOOLEAN]

\* Every variable has its type.
CommandTypeOK ==
  /\ busy \in BOOLEAN /\ turns \in 0..MaxTurns
  /\ turn \in [Clients -> {NoTurn} \cup TurnState]
  /\ events \in [Clients -> Seq(CommandEvents)] /\ ended \in [Clients -> BOOLEAN]
  /\ handler \in [Clients -> {"reading", "streaming", "gone"}] /\ writable \in [Clients -> BOOLEAN]
  /\ frames \in [Clients -> Seq(CommandEvents)]
  /\ session \in {NoSession} \cup 1..MaxTurns /\ history \in Seq([turn : 1..MaxTurns, lines : 0..MaxLines])
  /\ claude \subseteq 1..MaxTurns

\* At most one turn works on the files, and as long as it does the runner is
\* busy (Query's check and the reset of busy before the channel is closed).
Working(c) == turn[c] # NoTurn /\ turn[c].at # "closing"
OneTurnAtATime ==
  \A c \in Clients : Working(c) => /\ busy
                                  /\ \A d \in Clients : Working(d) => d = c

\* What a client was sent and what waits for it is one turn's lines and at
\* most one last event, after them all; an answer that is done without a
\* warning is in the history file with every line the client was sent
\* (streamBoardCommandEvents, finishAfterStream).
Answer(c) == IF writable[c] THEN frames[c] \o events[c] ELSE frames[c]
AnswerIsWhole ==
  \A c \in Clients : LET a == Answer(c) IN
    /\ \A i \in 1..Len(a) : i < Len(a) => a[i].type = "line" /\ a[i].of = a[Len(a)].of
    /\ (a # <<>> /\ Last(a).type = "done" /\ ~Last(a).warned) =>
         \E i \in 1..Len(history) : history[i] = [turn |-> Last(a).of, lines |-> Len(a) - 1]

\* The conversation the file names is one that claude completed a turn of: a
\* first turn that failed never leaves its ID to be resumed, and the ID is the
\* one panemux gave, not another process's (run, finishAfterStream).
SessionWasHeld == session # NoSession => session \in claude

\* The command center always becomes free again: a connection that failed
\* still drains its turn (Query: "the caller must drain it").
BecomesFree == []<>~busy

\* A turn has the files to itself and leaves what the clients and the files
\* were promised (Query, finishAfterStream).
TurnIsKept == OneTurnAtATime /\ AnswerIsWhole /\ SessionWasHeld
=============================================================================

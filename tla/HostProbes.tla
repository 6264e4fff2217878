------------------------------ MODULE HostProbes ------------------------------
(***************************************************************************)
(* A host's full collections and the probe of its agents' CLIs that each   *)
(* starts beside it (internal/tasks/availability.go and service.go), for a *)
(* host that is reached over a connection of the pool.                     *)
(*                                                                         *)
(* A launch is refused while the probe of the host's current connection    *)
(* found no CLI, and asks for another probe.                               *)
(***************************************************************************)
EXTENDS Naturals, FiniteSets

CONSTANTS
  Callers,      \* collections and launches under way at once
  ProbeLinks,     \* connections to the host, in the order they are made
  MaxChanges,   \* bound: changes of the host and of its connection
  NoLink

ASSUME ProbeAssumption == MaxChanges \in Nat

VARIABLES
  now,        \* the pool's connection, or NoLink
  worn,       \* those there were
  there,      \* the CLI is installed
  listed,     \* the host is configured
  entry,      \* probes: the last result, over which connection, younger than probeTTL
  probe,      \* the probe under way, and probing
  caller,     \* each collection and launch
  service,    \* open, cancelled, closed or joined
  changed

probeVars == <<now, worn, there, listed, entry, probe, caller, service, changed>>

NoEntry == [had |-> FALSE, over |-> NoLink, says |-> "failed", young |-> FALSE]
NoProbe == [at |-> "off", over |-> NoLink, says |-> "failed"]
AtRest  == [at |-> "rest", over |-> NoLink, force |-> FALSE]

-----------------------------------------------------------------------------
(* The host                                                                *)

Changes == changed < MaxChanges /\ changed' = changed + 1

\* A connection is made, and ends, fails or is replaced.
Connected == /\ now = NoLink /\ listed /\ \E x \in ProbeLinks \ worn : now' = x /\ worn' = worn \cup {x}
             /\ UNCHANGED <<there, listed, entry, probe, caller, service, changed>>
Dropped   == /\ Changes /\ now # NoLink /\ now' = NoLink
             /\ UNCHANGED <<worn, there, listed, entry, probe, caller, service>>
Installs  == /\ Changes /\ there' = ~there
             /\ UNCHANGED <<now, worn, listed, entry, probe, caller, service>>
Lists     == /\ Changes /\ listed' = ~listed
             /\ UNCHANGED <<now, worn, there, entry, probe, caller, service>>
Ages      == /\ entry.young /\ entry' = [entry EXCEPT !.young = FALSE]
             /\ UNCHANGED <<now, worn, there, listed, probe, caller, service, changed>>

-----------------------------------------------------------------------------
(* Collections                                                             *)

To(c, at) == caller' = [caller EXCEPT ![c].at = at]
Rests(c)  == caller' = [caller EXCEPT ![c] = AtRest]

\* forgetHostsExcept, at the start of a collection: what is known of a host
\* no longer configured goes, and then its connection.
Collect(c) ==
  /\ caller[c].at = "rest" /\ To(c, "collect")
  /\ IF listed THEN UNCHANGED entry ELSE entry' = NoEntry
  /\ UNCHANGED <<now, worn, there, listed, probe, service, changed>>

\* collectHost and collectHostAndProbe.
Collected(c) ==
  /\ caller[c].at = "collect"
  /\ \/ now # NoLink /\ listed /\ caller' = [caller EXCEPT ![c].at = "ask", ![c].force = FALSE] /\ UNCHANGED now
     \/ Rests(c) /\ listed /\ UNCHANGED now
     \/ Rests(c) /\ ~listed /\ now' = NoLink
  /\ UNCHANGED <<worn, there, listed, entry, probe, service, changed>>

-----------------------------------------------------------------------------
(* Probes                                                                  *)

\* beginProbe: the connection is read before the lock is taken.
AskProbe(c) ==
  /\ caller[c].at = "ask" /\ caller' = [caller EXCEPT ![c].at = "begin", ![c].over = now]
  /\ UNCHANGED <<now, worn, there, listed, entry, probe, service, changed>>

\* Mutant: a service that is closed starts probes.
AcceptingAlways == TRUE

Accepting == service \notin {"closed", "joined"}

Young(over) == entry.had /\ entry.over = over /\ entry.young

BeginProbe(c) ==
  /\ caller[c].at = "begin" /\ Rests(c)
  /\ LET over == caller[c].over
     IN IF Accepting /\ probe.at = "off" /\ over # NoLink /\ (caller[c].force \/ ~Young(over))
        THEN probe' = [at |-> "running", over |-> over, says |-> "failed"] ELSE UNCHANGED probe
  /\ UNCHANGED <<now, worn, there, listed, entry, service, changed>>

\* runProbe and parseProbeOutput.
ProbeAnswers ==
  /\ probe.at = "running"
  /\ probe' \in {[probe EXCEPT !.at = "answered", !.says = says] :
       says \in {"failed"} \cup (IF service = "open" /\ probe.over = now
                                 THEN {IF there THEN "found" ELSE "missing"} ELSE {})}
  /\ UNCHANGED <<now, worn, there, listed, entry, caller, service, changed>>

\* Mutant: a host stays marked as probed when what was found is not kept.
MarkKept(kept) == IF kept THEN NoProbe ELSE probe

MarkGone(kept) == NoProbe

\* probeHost: what was found over a connection that was replaced is not kept.
ProbeEnds ==
  LET kept == service = "open" /\ now = probe.over IN
  /\ probe.at = "answered" /\ probe' = MarkGone(kept)
  /\ entry' = IF ~kept THEN entry
              ELSE [had |-> TRUE, over |-> probe.over, says |-> probe.says, young |-> TRUE]
  /\ UNCHANGED <<now, worn, there, listed, caller, service, changed>>

-----------------------------------------------------------------------------
(* Launches                                                                *)

\* cliMissing, which reads the connection before what is known of it.
Launches(c) ==
  /\ caller[c].at = "rest" /\ caller' = [caller EXCEPT ![c].at = "launch", ![c].over = now]
  /\ UNCHANGED <<now, worn, there, listed, entry, probe, service, changed>>

Missing(over) == entry.had /\ entry.over = over /\ entry.says = "missing"

\* refuseMissingCLI.
Refuses(c) ==
  /\ caller[c].at = "launch"
  /\ IF Missing(caller[c].over) THEN caller' = [caller EXCEPT ![c].at = "ask", ![c].force = TRUE] ELSE Rests(c)
  /\ UNCHANGED <<now, worn, there, listed, entry, probe, service, changed>>

-----------------------------------------------------------------------------
(* Close                                                                   *)

Closes ==
  /\ \/ service = "open" /\ service' = "cancelled"
     \/ service = "cancelled" /\ service' = "closed"
     \/ service = "closed" /\ probe.at = "off" /\ service' = "joined"
  /\ UNCHANGED <<now, worn, there, listed, entry, probe, caller, changed>>

ProbeInit ==
  /\ now = NoLink /\ worn = {} /\ there \in BOOLEAN /\ listed = TRUE /\ entry = NoEntry /\ probe = NoProbe
  /\ caller = [c \in Callers |-> AtRest] /\ service = "open" /\ changed = 0

CallerSteps(c) == Collect(c) \/ Collected(c) \/ AskProbe(c) \/ BeginProbe(c) \/ Launches(c) \/ Refuses(c)

ProbeNext ==
  \/ Connected \/ Dropped \/ Installs \/ Lists \/ Ages \/ Closes \/ ProbeAnswers \/ ProbeEnds
  \/ \E c \in Callers : CallerSteps(c)

\* A probe has a time limit.
ProbeSteps == ProbeAnswers \/ ProbeEnds

ProbeFairness == WF_probeVars(ProbeSteps)

ProbeSpec == ProbeInit /\ [][ProbeNext]_probeVars /\ ProbeFairness

ProbeTypeOK ==
  /\ now \in worn \cup {NoLink} /\ worn \subseteq ProbeLinks /\ entry.over \in worn \cup {NoLink}
  /\ probe.at \in {"off", "running", "answered"}
  /\ \A c \in Callers : caller[c].at \in {"rest", "collect", "ask", "begin", "launch"}
  /\ service \in {"open", "cancelled", "closed", "joined"} /\ changed \in 0..MaxChanges

-----------------------------------------------------------------------------
(* Properties                                                              *)

\* Once Close returned no probe runs, and none is started by a collection or
\* a launch that came before.
ProbesHold == service = "joined" => probe.at = "off"

\* A host is not marked as being probed for ever, which would keep it from
\* being probed again and Close from returning.
ProbesFinish == []<>(probe.at = "off")
=============================================================================

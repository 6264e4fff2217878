------------------------------ MODULE MCStreams ------------------------------
(***************************************************************************)
(* The parts of the server whose goroutines must get somewhere, for TLC: a *)
(* pane's output, the command center, the updates of a tool, the host of a *)
(* preview, the dial of a chain of hosts, the probe of a host's agents and *)
(* a pane's header.  They share nothing: a behaviour is one of a part.     *)
(***************************************************************************)
EXTENDS Streams

CONSTANTS inBase, inTree, abroad \* the pane's work tree, another one, another repository

\* The pane's shell and an agent that it runs.
MCTables ==
  LET process(parent, runs) == [parent |-> parent, runs |-> runs, cwd |-> inBase]
  IN {<<process(0, "shell"), process(1, agent), process(0, "gone")>> : agent \in {"claude", "codex"}}

\* Its state file; or one of another type, and its own by another name.
MCFiles ==
  LET file(name, says) == [name |-> name, pid |-> 2, says |-> says]
  IN {<<file(2, "session")>>, <<file(2, "mistyped"), file(3, "session")>>}

MCTopOf  == [d \in Dirs |-> d]
MCRepoOf == [d \in Dirs |-> IF d = abroad THEN abroad ELSE inBase]

\* What a record says: the process's directory, or a command's in another.
MCLogRecords ==
  LET rollout == {[by |-> "meta", dir |-> inBase], [by |-> "exec", dir |-> inTree]}
      transcript == {[cwd |-> inBase, touched |-> touched] :
                       touched \in {<<>>, <<[by |-> "bash", dir |-> inTree, auxiliary |-> FALSE]>>}}
  IN [f \in Logs |-> IF f = "rollout" THEN rollout ELSE transcript]

MCFirstLogs ==
  LET none == [f \in Logs |-> <<>>]
  IN {none, [none EXCEPT !["main"] = <<[cwd |-> inBase, touched |-> <<>>]>>],
      [none EXCEPT !["rollout"] = <<[by |-> "meta", dir |-> inBase]>>]}

VARIABLE part

streamVars == <<part, terminalVars, commandVars, toolVars, previewVars, sshVars, probeVars, headerVars>>

\* Only the part that runs starts in any of its initial states.
StreamsInit ==
  /\ part \in {"terminal", "command", "tools", "preview", "ssh", "probes", "header", "headers"}
  /\ TerminalInit /\ CommandInit /\ ToolInit /\ PreviewInit /\ SshInit /\ ProbeInit /\ HeaderInit
  /\ part # "tools" => /\ known = {} /\ enabled = FALSE
                       /\ \A h \in Machines : tool[h] = "missing"
  /\ part # "ssh" => hops = 1
  /\ part # "probes" => there
  /\ CASE part = "header"  -> /\ table[2].runs = "codex" <=> logs["rollout"] # <<>>
                              /\ Len(files) = 2 => table[2].runs = "claude" /\ (onSsh => place = "derived")
       [] part = "headers" -> /\ ~onSsh /\ place = "derived"
                              /\ Len(files) = 1 /\ (table[2].runs = "codex" <=> logs["rollout"] # <<>>)
       [] OTHER -> ~onSsh /\ table[2].runs = "codex" /\ Len(files) = 1 /\ place = NoPlace /\ logs["rollout"] = <<>>

\* One request where two things happen, the second one to no process, or two
\* where one does.
Tracked ==
  CASE part = "header"  -> /\ \A r \in Opening : req'[r].at = "idle"
                           /\ happened' = MaxHappens => table' = table \/ paneSession' # paneSession
    [] part = "headers" -> happened' < MaxHappens

StreamsNext ==
  \/ part = "terminal" /\ TerminalNext
     /\ UNCHANGED <<part, commandVars, toolVars, previewVars, sshVars, probeVars, headerVars>>
  \/ part = "command" /\ CommandNext
     /\ UNCHANGED <<part, terminalVars, toolVars, previewVars, sshVars, probeVars, headerVars>>
  \/ part = "tools" /\ ToolNext
     /\ UNCHANGED <<part, terminalVars, commandVars, previewVars, sshVars, probeVars, headerVars>>
  \/ part = "preview" /\ PreviewNext
     /\ UNCHANGED <<part, terminalVars, commandVars, toolVars, sshVars, probeVars, headerVars>>
  \/ part = "ssh" /\ SshNext
     /\ UNCHANGED <<part, terminalVars, commandVars, toolVars, previewVars, probeVars, headerVars>>
  \/ part = "probes" /\ ProbeNext
     /\ UNCHANGED <<part, terminalVars, commandVars, toolVars, previewVars, sshVars, headerVars>>
  \/ part \in {"header", "headers"} /\ HeaderNext /\ Tracked
     /\ UNCHANGED <<part, terminalVars, commandVars, toolVars, previewVars, sshVars, probeVars>>

\* Each part's fairness, of its own behaviours.
StreamsFairness ==
  /\ WF_terminalVars(part = "terminal" /\ TerminalSteps)
  /\ WF_commandVars(part = "command" /\ CommandSteps)
  /\ WF_toolVars(part = "tools" /\ ToolSteps)
  /\ WF_previewVars(part = "preview" /\ PreviewSteps)
  /\ WF_sshVars(part = "ssh" /\ SshSteps)
  /\ WF_probeVars(part = "probes" /\ ProbeSteps)
  /\ \A r \in Asking \ Opening : WF_headerVars(part \in {"header", "headers"} /\ RequestSteps(r))
  /\ WF_headerVars(part \in {"header", "headers"} /\ ProbeExpires)

StreamsSpec == StreamsInit /\ [][StreamsNext]_streamVars /\ StreamsFairness

\* A host that stopped answering is let go, the end of a shell is told, a probe
\* ends and a header comes to show where its agent works.
PartsSettle == SilenceEnds /\ EndIsTold /\ ProbesFinish /\ <>[](part \in {"header", "headers"} => ShowsItsAgent)
=============================================================================

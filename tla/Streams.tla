------------------------------- MODULE Streams -------------------------------
(***************************************************************************)
(* The parts of the server whose goroutines must get somewhere, together:  *)
(* a pane's output, the command center, the updates of a tool, the host of *)
(* a preview, the dial of a chain of hosts, the probe of a host's agents   *)
(* and a pane's header.  They share no state.                              *)
(***************************************************************************)
EXTENDS TerminalStream, CommandCenter, ToolUpdates, PreviewRemotes, SshDial, HostProbes, PaneHeader

\* Every part's variables have their types.
StreamsTypeOK == TerminalTypeOK /\ CommandTypeOK /\ ToolTypeOK /\ PreviewTypeOK /\ SshTypeOK /\ ProbeTypeOK
                 /\ HeaderTypeOK

\* No connection to a host is lost, neither a preview's nor a dial's, no probe
\* runs over one once the tasks are closed, and what is kept of a log and of a
\* pane is what was read of that log and of that pane's session.
PartsHold == NoneLost /\ DialIsSound /\ ProbesHold /\ LogsAsRead /\ OwnSessions
=============================================================================

------------------------------ MODULE MCHostPool ------------------------------
(***************************************************************************)
(* What the server does on its hosts, for TLC: the pool of connections,    *)
(* and the conversations that are launched and resumed there.  They share  *)
(* nothing: a behaviour is one of a part.                                  *)
(*                                                                         *)
(* Callers are interchangeable.  Entries and connections are not: the      *)
(* model takes their names in TLC's own order.                             *)
(***************************************************************************)
EXTENDS HostPool, TaskLaunch, TLC

CONSTANTS given, began, picked1, picked2, n0, n1, n2

VARIABLE part

Symmetry == Permutations(Calls)

MCTalks    == {given, began, picked1, picked2}
MCTalkName == (given :> n0) @@ (began :> n1) @@ (picked1 :> n1) @@ (picked2 :> n1)

HostsInit ==
  /\ part \in {"pool", "launch"} /\ Init /\ LaunchInit
  /\ part # "pool" => configured = {}

HostsNext ==
  \/ part = "pool"   /\ Next       /\ UNCHANGED <<part, launchVars>>
  \/ part = "launch" /\ LaunchNext /\ UNCHANGED <<part, vars>>

HostsSpec == HostsInit /\ [][HostsNext]_<<part, vars, launchVars>>
=============================================================================

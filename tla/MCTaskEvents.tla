---------------------------- MODULE MCTaskEvents ----------------------------
(***************************************************************************)
(* Small instances of TaskEvents, with its history: the panemux host, one  *)
(* host that may be configured or not, and one task on either.             *)
(***************************************************************************)
EXTENDS TaskEventsHistory, TLC

CONSTANTS local, remote, lt, rt, sig, none

MCRemotes == {remote}

\* One task on the remote host, or two on the panemux host alone.
MCTasks        == {rt}
MCTaskHost     == rt :> remote
MCTasksTwo   == {lt, rt}
MCTaskHostBoth  == (lt :> local) @@ (rt :> remote)

Waits(reason, signature) == [state |-> "wait", waitingFor |-> reason, signature |-> signature]
Works == [state |-> "other", waitingFor |-> NoReason, signature |-> NoSignature]

MCObservations      == {Waits("input", none), Works}
MCObservationsWaits == {Waits("input", none), Waits("approval", none), Waits("input", sig), Works}

MCWorlds == {[t \in Tasks |-> Waits("input", none)]}

MCSymmetry == Permutations(Conns)
=============================================================================

---------------------------- MODULE MCBoardAttach ----------------------------
(***************************************************************************)
(* A small instance of BoardAttach: two sessions, one that a WebSocket may *)
(* come back to and one that is read once.                                 *)
(***************************************************************************)
EXTENDS BoardAttach, TLC

CONSTANTS s1, s2

MCSessions == {s1, s2}
MCMaxChanges == (s1 :> 3) @@ (s2 :> 0)

\* The sessions have different bounds and are not interchangeable.
MCSymmetry == Permutations(Sockets) \cup Permutations(Requests)
=============================================================================

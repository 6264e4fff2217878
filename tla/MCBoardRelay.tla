---------------------------- MODULE MCBoardRelay ----------------------------
(***************************************************************************)
(* A small instance of BoardRelay: two hosts with a pane each, a broadcast *)
(* to both and an update.                                                  *)
(***************************************************************************)
EXTENDS BoardRelay, TLC

CONSTANTS h1, h2, a, b

MCHosts   == {h1, h2}
MCPanes   == {a, b}
MCHomes   == {(a :> h1) @@ (b :> h2)}
MCWrites  == {<<a, b>>, <<b, System>>}
MCTargets == {<<b, a>>}
MCSorted  == <<h1, h2>>
MCTooled  == {{h1}}
=============================================================================

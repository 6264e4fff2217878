------------------------------ MODULE MCLayouts ------------------------------
(***************************************************************************)
(* A small instance of LayoutEdits: two tabs of a pane each, and a pane    *)
(* that may be added.                                                      *)
(***************************************************************************)
EXTENDS LayoutEdits, TLC

CONSTANTS p1, p2, A, B

MCPanesOf == (A :> p1) @@ (B :> p2)
=============================================================================

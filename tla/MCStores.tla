------------------------------- MODULE MCStores -------------------------------
(***************************************************************************)
(* The parts that keep something, for TLC: the panes and their             *)
(* configuration, the output a session keeps, the summaries, the layouts a *)
(* dashboard edits, what is recorded about tasks, and what the dashboard   *)
(* shows of them and types into.  They share nothing: a behaviour is one   *)
(* of a part.                                                              *)
(***************************************************************************)
EXTENDS Stores, MCLayouts

CONSTANTS a, b

VARIABLE part

storesVars == <<part, panesVars, ringVars, sumVars, layoutVars, recordVars, popupVars, collectionVars>>

MCPanes       == {a, b}
MCMaxSessions == (a :> 2) @@ (b :> 2)
MCSymmetry    == Permutations(Requests)

\* Only the part that runs starts in any of its initial states.
StoresInit ==
  /\ part \in {"panes", "ring", "summaries", "layouts", "records", "popups", "collections"}
  /\ PanesInit /\ RingInit /\ SumInit /\ LayoutInit /\ RecordsInit /\ PopupsInit /\ CollectionsInit
  /\ part # "summaries" => answers = {} /\ usable
  /\ part # "layouts" => active = A
  /\ part # "records" => disk.stamp = 0
  /\ part # "popups" => shared

StoresNext ==
  \/ part = "panes" /\ PanesNext
     /\ UNCHANGED <<part, ringVars, sumVars, layoutVars, recordVars, popupVars, collectionVars>>
  \/ part = "ring" /\ RingNext
     /\ UNCHANGED <<part, panesVars, sumVars, layoutVars, recordVars, popupVars, collectionVars>>
  \/ part = "summaries" /\ SumNext
     /\ UNCHANGED <<part, panesVars, ringVars, layoutVars, recordVars, popupVars, collectionVars>>
  \/ part = "layouts" /\ LayoutNext
     /\ UNCHANGED <<part, panesVars, ringVars, sumVars, recordVars, popupVars, collectionVars>>
  \/ part = "records" /\ RecordsNext
     /\ UNCHANGED <<part, panesVars, ringVars, sumVars, layoutVars, popupVars, collectionVars>>
  \/ part = "popups" /\ PopupsNext
     /\ UNCHANGED <<part, panesVars, ringVars, sumVars, layoutVars, recordVars, collectionVars>>
  \/ part = "collections" /\ CollectionsNext
     /\ UNCHANGED <<part, panesVars, ringVars, sumVars, layoutVars, recordVars, popupVars>>

StoresSpec == StoresInit /\ [][StoresNext]_storesVars
=============================================================================

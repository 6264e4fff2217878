------------------------------ MODULE PaneConfig ------------------------------
(***************************************************************************)
(* The workspaces and layouts of config.yaml, as the routes of             *)
(* internal/api change them (internal/config/config.go, snapshot.go).      *)
(*                                                                         *)
(* A layout is the set of the panes in it; how it splits is in LayoutTree. *)
(* The settings of the workspace bar and the titles are one value.         *)
(***************************************************************************)
EXTENDS Naturals, Sequences, SequencesExt

CONSTANTS
  Panes,       \* pane IDs
  Workspaces,  \* workspace IDs
  Looks        \* titles, tab position and bar width

\* Data: the workspaces in their order, the active one, the layout of each
\* (empty for an ID that is none) and the top-level layout that mirrors it.
Configs ==
  [items : Seq(Workspaces), active : Workspaces, look : Looks,
   layout : [Workspaces -> SUBSET Panes], mirror : SUBSET Panes]

HasWorkspace(c, w) == w \in ToSet(c.items)

AllPanes(c) == UNION {c.layout[w] : w \in ToSet(c.items)}

\* normalizeWorkspaces: the top-level layout is the active workspace's.
NormalizeWorkspaces(c) ==
  IF HasWorkspace(c, c.active) THEN [c EXCEPT !.mirror = c.layout[c.active]] ELSE c

SetActiveWorkspace(c, w) == [c EXCEPT !.active = w, !.mirror = c.layout[w]]

UpdateWorkspaceLayout(c, w, panes) ==
  [c EXCEPT !.layout[w] = panes, !.mirror = IF c.active = w THEN panes ELSE @]

UpdateLayout(c, panes) ==
  IF HasWorkspace(c, c.active) THEN UpdateWorkspaceLayout(c, c.active, panes)
                               ELSE [c EXCEPT !.mirror = panes]

RemovePaneFromLayout(c, p) ==
  NormalizeWorkspaces([c EXCEPT !.layout = [w \in Workspaces |-> @[w] \ {p}]])

AddDefaultWorkspace(c, w, p) ==
  [c EXCEPT !.items = Append(@, w), !.active = w, !.layout[w] = {p}, !.mirror = {p}]

\* RemoveWorkspace finds the workspace and takes it out of the list.
IndexOfWorkspace(c, w) == CHOOSE i \in DOMAIN c.items : c.items[i] = w
ItemsWithout(c, w) == RemoveAt(c.items, IndexOfWorkspace(c, w))

\* Mutant: the workspace that was active stays so though it is gone.
NextActiveSame(c, w) == c.active

\* The workspace after the removed one becomes active, or the last one left.
NextActive(c, w) ==
  LET i    == IndexOfWorkspace(c, w)
      left == ItemsWithout(c, w)
  IN IF c.active # w \/ left = <<>> THEN c.active
     ELSE left[IF i <= Len(left) THEN i ELSE Len(left)]

RemoveWorkspace(c, w) ==
  NormalizeWorkspaces([c EXCEPT !.items = ItemsWithout(c, w), !.active = NextActive(c, w),
                                !.layout[w] = {}])

\* write: what the file holds; the top-level layout is left out.
Written(c) == [items |-> c.items, active |-> c.active, look |-> c.look, layout |-> c.layout]

-----------------------------------------------------------------------------
\* What Validate asks of a configuration it loads, but for the pane IDs.
Loads(f) ==
  /\ f.items # <<>> /\ IsInjective(f.items)
  /\ f.active \in ToSet(f.items)
=============================================================================

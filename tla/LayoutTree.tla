------------------------------ MODULE LayoutTree ------------------------------
(***************************************************************************)
(* The split tree of a workspace and its edits                             *)
(* (frontend/src/utils/layoutTree.ts), and the same tree's edit in         *)
(* internal/config/config.go.                                              *)
(*                                                                         *)
(* A tree is a split.  Sizes are left out: every edit makes a list's sizes *)
(* add up again.  So is a pane written beside children, which only a       *)
(* configuration written by hand has.                                      *)
(***************************************************************************)
EXTENDS Naturals, Sequences, SequencesExt

CONSTANTS
  PaneIDs,
  NoPane,    \* of a split
  MaxDepth   \* bound: splits within each other

ASSUME TreeAssumption == NoPane \notin PaneIDs /\ MaxDepth \in Nat \ {0}

Axes  == {"horizontal", "vertical"}
Edges == {"left", "right", "top", "bottom"}

Leaf(p)       == [pane |-> p, dir |-> "none", kids |-> <<>>]
SplitOf(d, k) == [pane |-> NoPane, dir |-> d, kids |-> k]

\* removePaneFromTree answers it when nothing is left.
NoTree == [pane |-> NoPane, dir |-> "none", kids |-> <<>>]

Leaves == [pane : PaneIDs, dir : {"none"}, kids : {<<>>}]

NodesTo[n \in 0..MaxDepth] ==
  Leaves \cup [pane : {NoPane}, dir : Axes \cup {"none"}, kids : IF n = 0 THEN {<<>>} ELSE Seq(NodesTo[n - 1])]

Nodes == NodesTo[MaxDepth]

\* collectPanes: the panes of a tree in the order they are shown.
PanesBelow[t \in Nodes] ==
  IF t.pane # NoPane THEN <<t.pane>> ELSE FlattenSeq([i \in DOMAIN t.kids |-> PanesBelow[t.kids[i]]])

PanesIn(t) == PanesBelow[t]

\* layoutContainsPane, findPaneById.
ContainsPane(t, p) == p \in ToSet(PanesIn(t))

\* splitPaneInTree, and replacePaneInTree when it puts something else there.
ReplacedIn(t, p, new) ==
  LET replaced[c \in Nodes] ==
        IF c.pane = p THEN new ELSE [c EXCEPT !.kids = [i \in DOMAIN @ |-> replaced[@[i]]]]
  IN replaced[t]

SplitPaneInTree(t, p, d, q) == ReplacedIn(t, p, SplitOf(d, <<Leaf(p), Leaf(q)>>))

\* swapPanesInTree.
SwappedIn(t, p, q) ==
  LET swapped[c \in Nodes] ==
        [c EXCEPT !.pane = IF @ = p THEN q ELSE IF @ = q THEN p ELSE @,
                  !.kids = [i \in DOMAIN @ |-> swapped[@[i]]]]
  IN swapped[t]

SwapPanesInTree(t, p, q) == IF ContainsPane(t, p) /\ ContainsPane(t, q) THEN SwappedIn(t, p, q) ELSE t

\* removeFromChildren: a split that keeps one child is that child.
Remains(gone) ==
  LET left[c \in Nodes] ==
        LET sub == FlattenSeq([i \in DOMAIN c.kids |-> left[c.kids[i]]])
        IN IF c.pane \in gone THEN <<>>
           ELSE IF c.kids = <<>> THEN <<c>>
           ELSE IF Len(sub) > 1 THEN <<[c EXCEPT !.kids = sub]>>
           ELSE sub
  IN left

RemovedFrom(kids, gone) == FlattenSeq([i \in DOMAIN kids |-> Remains(gone)[kids[i]]])

\* removePaneChildren, of the server.
RemovePaneChildren(t, p) == [t EXCEPT !.kids = RemovedFrom(@, {p})]

RemovePaneFromTree(t, p) ==
  IF RemovedFrom(t.kids, {p}) = <<>> THEN NoTree ELSE RemovePaneChildren(t, p)

\* The tree without the splits that keep one child.
Settled(t) == [t EXCEPT !.kids = RemovedFrom(@, {})]

\* edgeAxis.
EdgeAxis(e) == IF e \in {"left", "right"} THEN "horizontal" ELSE "vertical"

\* What is put at an edge comes before or after the rest.
Beside(e, new, rest) == IF e \in {"left", "top"} THEN <<new>> \o rest ELSE rest \o <<new>>

InsertPaneAtWorkspaceEdge(t, e, p) ==
  IF t.dir = EdgeAxis(e) THEN [t EXCEPT !.kids = Beside(e, Leaf(p), @)]
                         ELSE SplitOf(EdgeAxis(e), Beside(e, Leaf(p), <<SplitOf(t.dir, t.kids)>>))

\* insertInChildren, insertRelativeToDirectChild.
InsertedIn(t, q, e, p) ==
  LET both == Beside(e, Leaf(p), <<Leaf(q)>>)
      inserted[c \in Nodes] ==
        LET at(k) == IF k.pane # q THEN <<inserted[k]>>
                     ELSE IF c.dir = EdgeAxis(e) THEN both
                     ELSE <<SplitOf(EdgeAxis(e), both)>>
        IN [c EXCEPT !.kids = FlattenSeq([i \in DOMAIN @ |-> at(@[i])])]
  IN inserted[t]

InsertPaneBesideTargetPane(t, q, e, p) == InsertedIn(t, q, e, p)

\* movePaneToWorkspaceEdge, movePaneBesideTargetPane: a pane alone stays.
MovePaneToWorkspaceEdge(t, p, e) ==
  LET without == RemovePaneFromTree(t, p)
  IN IF ~ContainsPane(t, p) \/ without = NoTree THEN t ELSE InsertPaneAtWorkspaceEdge(without, e, p)

MovePaneBesideTargetPane(t, p, q, e) ==
  LET without == RemovePaneFromTree(t, p)
  IN IF p = q \/ ~ContainsPane(t, p) \/ without = NoTree THEN t
     ELSE InsertPaneBesideTargetPane(without, q, e, p)
=============================================================================

------------------------------ MODULE LayoutEdits ------------------------------
(***************************************************************************)
(* The edits of a dashboard to its layouts (frontend/src/hooks/            *)
(* useLayout.ts and usePaneSettings.ts) and the server that keeps them     *)
(* (the layout routes of internal/api/handler.go, and config.go).          *)
(*                                                                         *)
(* An edit is a process: it works on what was shown when it began, which   *)
(* its callback captured, and its requests take time.  A request fails     *)
(* without an effect.                                                      *)
(***************************************************************************)
EXTENDS LayoutTree, FiniteSets

CONSTANTS
  Tabs,         \* workspace IDs
  FirstTabs,    \* those configured at the start
  PanesOf,      \* the pane each of them, and each new one, begins with
  NewPanes,     \* the names a dashboard makes up
  Edits,        \* what may be under way at once
  Orderly,      \* whether an edit waits for the one before, and a tab is always activated
  MaxEdits,     \* bound: edits since the page was loaded
  MaxFailures   \* bound: failed requests

ASSUME LayoutAssumption ==
  /\ FirstTabs \subseteq Tabs /\ FirstTabs # {} /\ Orderly \in BOOLEAN
  /\ PanesOf \in [Tabs -> PaneIDs] /\ NewPanes \subseteq PaneIDs
  /\ MaxEdits \in Nat /\ MaxFailures \in Nat

VARIABLES
  layout,    \* useLayout's layout, or NoTree
  tabs,      \* its workspaces: the tree of each
  active,    \* and the one shown
  saved,     \* the server's workspaces
  current,   \* and its active one
  alive,     \* panes with a session
  timer,     \* saveTimerRef: what is to be saved, or NoSave
  edit,      \* each edit under way
  posted,    \* createdPaneSessionsRef
  dialog,    \* currentPane of the settings, or NoPane
  captured,  \* the one saveSettings was made with
  restarted, \* what was changed by settings that restarted a session
  doubted,   \* tabs that may be shown otherwise than they are kept
  edits, failures

shownVars  == <<layout, tabs, active>>
savedVars  == <<saved, current, alive>>
paneSettingVars == <<dialog, captured, restarted>>
editVars   == <<edit, posted, edits>>
layoutVars == <<shownVars, savedVars, timer, editVars, paneSettingVars, doubted, failures>>

NoEdit == [op |-> "none"]
NoSave == [tab |-> NoPane]

Trivial(p) == SplitOf("horizontal", <<Leaf(p)>>)

Step(e, n) == edit' = [edit EXCEPT ![e] = n]
Done(e)    == Step(e, NoEdit)

Rest == (\A e \in Edits : edit[e] = NoEdit) /\ timer = NoSave

Fits(t) == t \in Nodes

\* A page without a layout takes no edit.
MayEdit(e) == /\ edit[e] = NoEdit /\ layout # NoTree /\ edits < MaxEdits /\ edits' = edits + 1
              /\ Orderly => Rest

\* generatePaneId.
Fresh(p) == p \notin alive \cup posted \cup UNION {ToSet(PanesIn(t)) : t \in Range(tabs) \cup Range(saved)}

Fails == failures < MaxFailures /\ failures' = failures + 1

-----------------------------------------------------------------------------
(* What is shown.  setLayout makes the callbacks anew.                     *)

Capture == captured' = dialog

\* replaceActiveWorkspaceLayout: the tab that is active by then.
ShowTree(t) ==
  /\ layout' = t /\ Capture
  /\ tabs' = IF t # NoTree /\ active \in DOMAIN tabs THEN [tabs EXCEPT ![active] = t] ELSE tabs

Show(view, w) == tabs' = view /\ active' = w /\ layout' = view[w] /\ Capture

\* PutWorkspaceLayout.
Put(w, t) == saved' = IF w \in DOMAIN saved THEN [saved EXCEPT ![w] = t] ELSE saved

\* What PUTs a layout is not told, or does nothing, when that fails.
SaveOrDoubt(w, t) ==
  \/ Put(w, t) /\ doubted' = doubted \ {w} /\ UNCHANGED failures
  \/ Fails /\ doubted' = doubted \cup {w} /\ UNCHANGED saved

-----------------------------------------------------------------------------
(* Edits within a tab                                                      *)

\* swapPanes and movePane: shown at once, and then saved.
Rearrange(e, t) ==
  /\ MayEdit(e) /\ Fits(t) /\ ShowTree(t) /\ Step(e, [op |-> "save", tab |-> active, tree |-> t])
  /\ UNCHANGED <<active, savedVars, timer, posted, dialog, restarted, doubted, failures>>

Arranged == LET panes == ToSet(PanesIn(layout)) IN
  {SwapPanesInTree(layout, p, q) : p, q \in panes}
    \cup {MovePaneToWorkspaceEdge(layout, p, g) : p \in panes, g \in Edges}
    \cup {MovePaneBesideTargetPane(layout, p, q, g) : p, q \in panes, g \in Edges}

\* saveLayout, with the tab that was active when the edit began.
SaveLayout(e) ==
  /\ edit[e].op = "save" /\ SaveOrDoubt(edit[e].tab, edit[e].tree) /\ Done(e)
  /\ UNCHANGED <<shownVars, current, alive, timer, posted, edits, paneSettingVars>>

SplitPane(e, p, d, q) ==
  /\ MayEdit(e) /\ ContainsPane(layout, p) /\ Fresh(q) /\ Fits(SplitPaneInTree(layout, p, d, q))
  /\ Step(e, [op |-> "split", tab |-> active, tree |-> SplitPaneInTree(layout, p, d, q), pane |-> q])
  /\ UNCHANGED <<shownVars, savedVars, timer, posted, paneSettingVars, doubted, failures>>

\* The session was posted, or could not be, which is ignored.
SplitPosted(e) ==
  /\ edit[e].op = "split"
  /\ \/ alive' = alive \cup {edit[e].pane} /\ UNCHANGED failures
     \/ Fails /\ UNCHANGED alive
  /\ ShowTree(edit[e].tree) /\ Step(e, [op |-> "save", tab |-> edit[e].tab, tree |-> edit[e].tree])
  /\ UNCHANGED <<active, saved, current, timer, posted, edits, dialog, restarted, doubted>>

ClosePane(e, p) ==
  /\ MayEdit(e) /\ ContainsPane(layout, p)
  /\ Step(e, [op |-> "close", tab |-> active, tree |-> RemovePaneFromTree(layout, p), pane |-> p])
  /\ UNCHANGED <<shownVars, savedVars, timer, posted, paneSettingVars, doubted, failures>>

\* DeleteSession takes the pane from every layout; that it failed is ignored.
\* A tab without panes is not saved.
ClosePosted(e) ==
  /\ edit[e].op = "close"
  /\ LET p == edit[e].pane
         w == edit[e].tab
     IN /\ \/ /\ p \in alive /\ alive' = alive \ {p}
              /\ saved' = [v \in DOMAIN saved |-> RemovePaneChildren(saved[v], p)]
              /\ doubted' = doubted \cup {v \in DOMAIN saved \ {w} : ContainsPane(saved[v], p)} /\ UNCHANGED failures
           \/ p \notin alive /\ doubted' = doubted \cup {w} /\ UNCHANGED <<alive, saved, failures>>
           \/ Fails /\ doubted' = doubted \cup {w} /\ UNCHANGED <<alive, saved>>
        /\ ShowTree(edit[e].tree)
        /\ IF edit[e].tree = NoTree THEN Done(e)
                                    ELSE Step(e, [op |-> "save", tab |-> w, tree |-> edit[e].tree])
  /\ UNCHANGED <<active, current, timer, posted, edits, dialog, restarted>>

\* updateSizes: a divider was dragged.  The save waits for the next of these
\* to be over, and nothing else puts it off or calls it off.
UpdateSizes(t) == ShowTree(t) /\ timer' = [tab |-> active, tree |-> t]

Resize ==
  /\ layout # NoTree /\ edits < MaxEdits /\ edits' = edits + 1 /\ (Orderly => Rest)
  /\ UpdateSizes(layout)
  /\ UNCHANGED <<active, savedVars, edit, posted, dialog, restarted, doubted, failures>>

TimerFires ==
  /\ timer # NoSave /\ timer' = NoSave /\ SaveOrDoubt(timer.tab, timer.tree)
  /\ UNCHANGED <<shownVars, current, alive, editVars, paneSettingVars>>

-----------------------------------------------------------------------------
(* Edits of several tabs                                                   *)

\* setActiveWorkspace: shown at once.
SetActive(e, w) ==
  /\ MayEdit(e) /\ w \in DOMAIN tabs \ {active} /\ Show(tabs, w)
  /\ Step(e, [op |-> "activate", tab |-> w])
  /\ UNCHANGED <<savedVars, timer, posted, dialog, restarted, doubted, failures>>

Activated(e) ==
  /\ edit[e].op = "activate" /\ Done(e)
  /\ \/ current' = (IF edit[e].tab \in DOMAIN saved THEN edit[e].tab ELSE current) /\ UNCHANGED failures
     \/ ~Orderly /\ Fails /\ UNCHANGED current
  /\ UNCHANGED <<shownVars, saved, alive, timer, posted, edits, paneSettingVars, doubted>>

\* movePane to another tab: shown at once, then saved there and here.
MoveToTab(e, p, w) ==
  LET from == CHOOSE v \in DOMAIN tabs : ContainsPane(tabs[v], p)
      left == RemovePaneFromTree(tabs[from], p)
      put  == InsertPaneAtWorkspaceEdge(tabs[w], "right", p)
  IN /\ MayEdit(e) /\ w \in DOMAIN tabs /\ \E v \in DOMAIN tabs : ContainsPane(tabs[v], p)
     /\ w # from /\ left # NoTree /\ Fits(put)
     /\ Show([tabs EXCEPT ![from] = left, ![w] = put], w)
     /\ Step(e, [op |-> "moveFrom", from |-> from, left |-> left, tab |-> w, tree |-> put,
                 tabs |-> tabs, active |-> active, layout |-> layout])
     /\ UNCHANGED <<savedVars, timer, posted, dialog, restarted, doubted, failures>>

\* Mutant: what was shown before is not shown again.
BackNot(n) == ShowTree(layout) /\ UNCHANGED active

Back(n) == tabs' = n.tabs /\ active' = n.active /\ layout' = n.layout /\ Capture

MoveSave(e) ==
  LET n == edit[e] IN
  /\ n.op \in {"moveFrom", "moveTo"}
  /\ \/ /\ UNCHANGED <<shownVars, captured, failures>>
        /\ IF n.op = "moveFrom" THEN Put(n.from, n.left) /\ Step(e, [n EXCEPT !.op = "moveTo"])
                                ELSE Put(n.tab, n.tree) /\ Done(e)
     \/ Fails /\ Back(n) /\ Step(e, [n EXCEPT !.op = "moveBack"]) /\ UNCHANGED saved
  /\ UNCHANGED <<current, alive, timer, posted, edits, dialog, restarted, doubted>>

MoveRollback(e) ==
  /\ edit[e].op = "moveBack" /\ SaveOrDoubt(edit[e].from, edit[e].tabs[edit[e].from]) /\ Done(e)
  /\ UNCHANGED <<shownVars, current, alive, timer, posted, edits, paneSettingVars>>

\* createPane: beside a pane that is shown, or in a tab that was chosen,
\* whose layouts are read first.  A pane whose session was made has no other.
CreatePane(e, p, t, w, chosen) ==
  Fits(t) /\ Step(e, [op |-> "post", pane |-> p, tree |-> t, tab |-> w, chosen |-> chosen, view |-> tabs])

CreateBeside(e, p, q, g) ==
  /\ MayEdit(e) /\ ContainsPane(layout, q) /\ Fresh(p)
  /\ CreatePane(e, p, InsertPaneBesideTargetPane(layout, q, g, p), active, FALSE)
  /\ UNCHANGED <<shownVars, savedVars, timer, posted, paneSettingVars, doubted, failures>>

CreateIn(e, p, w) ==
  /\ MayEdit(e) /\ (p \in posted \/ Fresh(p))
  /\ Step(e, [op |-> "choose", pane |-> p, tab |-> w])
  /\ UNCHANGED <<shownVars, savedVars, timer, posted, paneSettingVars, doubted, failures>>

HasIt(view, p) == {w \in DOMAIN view : ContainsPane(view[w], p)}

CreateChoose(e) ==
  LET n == edit[e] IN
  /\ n.op = "choose"
  /\ \/ /\ n.tab \in DOMAIN saved /\ HasIt(saved, n.pane) \subseteq {n.tab} /\ UNCHANGED failures
        /\ Step(e, [op |-> IF HasIt(saved, n.pane) # {} THEN "chosen" ELSE "post", pane |-> n.pane,
                    tree |-> IF HasIt(saved, n.pane) # {} THEN saved[n.tab]
                             ELSE InsertPaneAtWorkspaceEdge(saved[n.tab], "right", n.pane),
                    tab |-> n.tab, chosen |-> TRUE, view |-> saved])
        /\ Fits(InsertPaneAtWorkspaceEdge(saved[n.tab], "right", n.pane))
     \/ ~(n.tab \in DOMAIN saved /\ HasIt(saved, n.pane) \subseteq {n.tab}) /\ Done(e) /\ UNCHANGED failures
     \/ Fails /\ Done(e)
  /\ UNCHANGED <<shownVars, savedVars, timer, posted, edits, paneSettingVars, doubted>>

CreatePost(e) ==
  /\ edit[e].op = "post"
  /\ \/ /\ edit[e].pane \in posted \/ edit[e].pane \notin alive
        /\ alive' = alive \cup {edit[e].pane} /\ posted' = posted \cup {edit[e].pane}
        /\ Step(e, [edit[e] EXCEPT !.op = "put"]) /\ UNCHANGED failures
     \/ edit[e].pane \notin posted /\ Fails /\ Done(e) /\ UNCHANGED <<alive, posted>>
  /\ UNCHANGED <<shownVars, saved, current, timer, edits, paneSettingVars, doubted>>

CreatePut(e) ==
  /\ edit[e].op = "put"
  /\ \/ /\ edit[e].tab \in DOMAIN saved /\ Put(edit[e].tab, edit[e].tree) /\ UNCHANGED failures
        /\ Step(e, [edit[e] EXCEPT !.op = "chosen"])
     \/ edit[e].tab \notin DOMAIN saved /\ Done(e) /\ UNCHANGED <<saved, failures>>
     \/ Fails /\ Done(e) /\ UNCHANGED saved
  /\ UNCHANGED <<shownVars, current, alive, timer, posted, edits, paneSettingVars, doubted>>

\* The chosen tab is activated; what is not answered leaves the pane saved
\* and not shown, until it is tried again.
CreateShow(e) ==
  LET n == edit[e] IN
  /\ n.op = "chosen" /\ Done(e)
  /\ \/ /\ n.chosen => n.tab \in DOMAIN saved
        /\ current' = (IF n.chosen THEN n.tab ELSE current)
        /\ LET source == IF n.chosen THEN n.view ELSE tabs
           IN Show([v \in DOMAIN source \cup {n.tab} |-> IF v = n.tab THEN n.tree ELSE source[v]], n.tab)
        /\ doubted' = (IF n.chosen THEN {} ELSE doubted \ {n.tab})
        /\ posted' = posted \ {n.pane} /\ UNCHANGED failures
     \/ /\ n.chosen
        /\ IF n.tab \in DOMAIN saved THEN Fails ELSE UNCHANGED failures
        /\ doubted' = doubted \cup {n.tab}
        /\ UNCHANGED <<shownVars, current, posted, captured>>
  /\ UNCHANGED <<saved, alive, timer, edits, dialog, restarted>>

\* addWorkspace, deleteWorkspace, renameWorkspace: the server answers with
\* its workspaces, which are shown when the answer arrives.
Views ==
  {[saved |-> saved, current |-> current, gone |-> {}, made |-> {}]}
    \cup {[saved |-> [v \in DOMAIN saved \cup {w} |-> IF v = w THEN Trivial(PanesOf[w]) ELSE saved[v]],
           current |-> w, gone |-> {}, made |-> {PanesOf[w]}]
            : w \in {v \in Tabs \ DOMAIN saved : PanesOf[v] \notin alive}}
    \cup {[saved |-> [v \in DOMAIN saved \ {w} |-> saved[v]], current |-> c,
           gone |-> ToSet(PanesIn(saved[w])), made |-> {}]
            : w \in DOMAIN saved, c \in DOMAIN saved}

ChangeTabs(e) ==
  /\ MayEdit(e)
  /\ \E v \in Views :
       /\ v.current \in DOMAIN v.saved /\ (current \in DOMAIN v.saved /\ v.made = {} => v.current = current)
       /\ saved' = v.saved /\ current' = v.current /\ alive' = (alive \cup v.made) \ v.gone
       /\ Step(e, [op |-> "answer", view |-> v.saved, tab |-> v.current])
  /\ UNCHANGED <<shownVars, timer, posted, paneSettingVars, doubted, failures>>

TabsAnswered(e) ==
  /\ edit[e].op = "answer" /\ Show(edit[e].view, edit[e].tab) /\ Done(e) /\ doubted' = {}
  /\ UNCHANGED <<savedVars, timer, posted, edits, dialog, restarted, failures>>

-----------------------------------------------------------------------------
(* A pane's settings                                                       *)

OpenSettings(p) ==
  /\ dialog = NoPane /\ layout # NoTree /\ ContainsPane(layout, p) /\ dialog' = p
  /\ UNCHANGED <<shownVars, savedVars, timer, editVars, captured, restarted, doubted, failures>>

CloseSettings ==
  /\ dialog # NoPane /\ dialog' = NoPane
  /\ \A e \in Edits : edit[e].op # "settings"
  /\ UNCHANGED <<shownVars, savedVars, timer, editVars, captured, restarted, doubted, failures>>

\* saveSettings: a field the session is built from was changed, or another.
SaveSettings(e, field) ==
  /\ MayEdit(e) /\ dialog # NoPane /\ \A f \in Edits : edit[f].op # "settings"
  /\ Step(e, [op |-> "settings", tree |-> layout, field |-> field, before |-> captured])
  /\ UNCHANGED <<shownVars, savedVars, timer, posted, paneSettingVars, doubted, failures>>

\* needsRestart: of the pane as it was, when the callback knows it.
NeedsRestart(n) == n.before = NoPane \/ n.field = "session"

\* PutLayout saves the server's active workspace, which need not be the one
\* that is shown: movePane activates no tab.
SettingsSaved(e) ==
  LET n == edit[e] IN
  /\ n.op = "settings" /\ Done(e)
  /\ \/ /\ Put(current, n.tree) /\ layout' = n.tree /\ timer' = [tab |-> active, tree |-> n.tree]
        /\ tabs' = (IF active \in DOMAIN tabs THEN [tabs EXCEPT ![active] = n.tree] ELSE tabs)
        /\ doubted' = (IF current = active THEN doubted \ {active} ELSE doubted \cup {current})
        /\ dialog' = NoPane /\ captured' = NoPane
        /\ restarted' = (IF NeedsRestart(n) THEN restarted \cup {n.field} ELSE restarted)
        /\ UNCHANGED failures
     \/ Fails /\ UNCHANGED <<shownVars, saved, timer, paneSettingVars, doubted>>
  /\ UNCHANGED <<active, current, alive, posted, edits>>

-----------------------------------------------------------------------------
\* The page is loaded again.
Reload ==
  /\ Rest /\ Show(saved, current) /\ dialog' = NoPane /\ posted' = {} /\ doubted' = {}
  /\ UNCHANGED <<savedVars, timer, edit, edits, restarted, failures>>

LayoutInit ==
  /\ tabs = [w \in FirstTabs |-> Trivial(PanesOf[w])] /\ saved = tabs
  /\ active \in FirstTabs /\ current = active /\ layout = tabs[active]
  /\ alive = {PanesOf[w] : w \in FirstTabs}
  /\ timer = NoSave /\ edit = [e \in Edits |-> NoEdit] /\ posted = {}
  /\ dialog = NoPane /\ captured = NoPane /\ restarted = {} /\ doubted = {} /\ edits = 0 /\ failures = 0

Begin(e) ==
  \/ \E t \in Arranged : Rearrange(e, t)
  \/ \E p \in ToSet(PanesIn(layout)) :
       \/ ClosePane(e, p)
       \/ \E q \in NewPanes : (\E d \in Axes : SplitPane(e, p, d, q)) \/ (\E g \in Edges : CreateBeside(e, q, p, g))
  \/ \E w \in Tabs :
       \/ SetActive(e, w)
       \/ \E p \in NewPanes : CreateIn(e, p, w)
       \/ \E p \in UNION {ToSet(PanesIn(tabs[v])) : v \in DOMAIN tabs} : MoveToTab(e, p, w)
  \/ ChangeTabs(e)
  \/ \E field \in {"session", "other"} : SaveSettings(e, field)

Goes(e) ==
  \/ SaveLayout(e) \/ SplitPosted(e) \/ ClosePosted(e) \/ Activated(e) \/ MoveSave(e) \/ MoveRollback(e)
  \/ CreateChoose(e) \/ CreatePost(e) \/ CreatePut(e) \/ CreateShow(e) \/ TabsAnswered(e) \/ SettingsSaved(e)

LayoutNext ==
  \/ \E e \in Edits : Begin(e) \/ Goes(e)
  \/ Resize \/ TimerFires \/ Reload \/ CloseSettings
  \/ \E p \in ToSet(PanesIn(layout)) : OpenSettings(p)

LayoutSpec == LayoutInit /\ [][LayoutNext]_layoutVars

LayoutTypeOK ==
  /\ active \in Tabs /\ DOMAIN tabs \subseteq Tabs /\ DOMAIN saved \subseteq Tabs /\ current \in DOMAIN saved
  /\ doubted \subseteq Tabs /\ posted \subseteq NewPanes /\ restarted \subseteq {"session", "other"}
  /\ dialog \in PaneIDs \cup {NoPane}
  /\ edits \in 0..MaxEdits /\ failures \in 0..MaxFailures

-----------------------------------------------------------------------------
(* Properties                                                              *)

\* Edits that follow each other are kept as they are shown, unless a request
\* failed that nothing was done about, or a pane was deleted from two tabs:
\* reloading shows the same panes in the same places.  Only the server takes
\* a split of one child for that child in the tabs that were not edited.  A
\* move between tabs that fails is undone.
KeptAsShown ==
  (Rest /\ layout # NoTree) =>
    /\ \A w \in DOMAIN saved \ doubted : w \in DOMAIN tabs /\ Settled(tabs[w]) = Settled(saved[w])
    /\ layout = tabs[active]

\* behavior.md:41: a pane is in one place of one workspace.
PaneIDsUnique ==
  \A w, v \in DOMAIN saved :
    /\ IsInjective(PanesIn(saved[w]))
    /\ w # v => ToSet(PanesIn(saved[w])) \cap ToSet(PanesIn(saved[v])) = {}

\* usePaneSettings.ts: a change to anything else does not restart the session.
RestartsAsNeeded == restarted \subseteq {"session"}
=============================================================================

SPECIFICATION LayoutSpec
CONSTANTS
  p1 = p1
  p2 = p2
  A = A
  B = B
  PaneIDs = {p1, p2, p3}
  NoPane = noPane
  MaxDepth = 4
  Tabs = {A, B}
  FirstTabs = {A, B}
  PanesOf <- MCPanesOf
  NewPanes = {p3}
  Edits = {e1}
  Orderly = TRUE
  MaxEdits = 3
  MaxFailures = 1
INVARIANT RestartsAsNeeded
CHECK_DEADLOCK FALSE

SPECIFICATION StoresSpec
CONSTANTS
  a = a
  b = b
  Panes <- MCPanes
  Generated = {b}
  Workspaces = {v, w}
  Looks = {plain}
  FirstWorkspace = v
  FirstPane = b
  FirstLook = plain
  Requests = {r1, r2}
  Ports = {o1}
  MaxTotal = 1
  MaxPerSession = 1
  MaxSessions <- MCMaxSessions
  MaxLive = 1
  NoForward = noForward
  RingLimit = 5
  Lengths = {0, 1, 2, 3, 4, 5, 6}
  MaxBytes = 16
  LogHosts = {h}
  MaxLog = 3
  MaxRuns = 2
  MaxGen = 2
  Slots = 1
  NoEntry = noEntry
  p1 = p1
  p2 = p2
  A = A
  B = B
  PaneIDs = {p1, p2, p3}
  NoPane = noPane
  MaxDepth = 4
  Tabs = {A, B}
  FirstTabs = {A, B}
  PanesOf <- MCPanesOf
  NewPanes = {p3}
  Edits = {e1}
  Orderly = TRUE
  MaxEdits = 3
  MaxFailures = 1
  Tasks = {t1}
  Labels = {l1}
  Writers = {w1, w2}
  MaxHands = 2
  NoWriter = noWriter
  Things = {t1, t2}
  MaxPosts = 2
  MaxMounts = 2
  NoThing = noThing
  MaxRequests = 2
SYMMETRY MCSymmetry
INVARIANTS
  StoresTypeOK
  SavedIsRunning
  SessionsKept
  SnapshotIsNewest
  
  FilesHold
  DashboardHolds
CHECK_DEADLOCK FALSE

SPECIFICATION StreamsSpec
CONSTANTS
  Window = 1
  ChanRoom = 1
  WireRoom = 2
  MaxAttempts = 2
  MaxChunks = 2
  MaxConns = 2
  Clients = {c1, c2}
  EventRoom = 1
  MaxLines = 2
  MaxTurns = 2
  NoTurn = noTurn
  NoSession = noSession
  Machines = {h1}
  MaxResets = 1
  NoResult = noResult
  NoWorker = noWorker
  Viewers = {u1, u2}
  Channels = {x1, x2}
  MaxVisits = 2
  NoChannel = noChannel
  NoViewer = noViewer
  MaxHops = 3
  MaxTries = 3
  Budget = 5
  ShakeLimit = 2
  MaxStall = 1
  Callers = {k1, k2}
  ProbeLinks = {k3, k4}
  NoLink = noLink
  MaxChanges = 1
  inBase = inBase
  inTree = inTree
  abroad = abroad
  Dirs = {inBase, inTree, abroad}
  Pids = {1, 2, 3}
  NoDir = noDir
  Root = 1
  Home = inBase
  TopOf <- MCTopOf
  RepoOf <- MCRepoOf
  FirstTables <- MCTables
  FirstFiles <- MCFiles
  LogRecords <- MCLogRecords
  FirstLogs <- MCFirstLogs
  Asking = {g1, g2}
  Opening = {g2}
  MaxHappens = 2
INVARIANTS
  StreamsTypeOK
  ShownInOrder
  TurnIsKept
  AttemptsEnd
  PartsHold
PROPERTIES
  TerminalSettles
  BecomesFree
  
  PartsSettle
CHECK_DEADLOCK FALSE

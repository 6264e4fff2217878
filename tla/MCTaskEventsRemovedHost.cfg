SPECIFICATION HSpec
CONSTANTS
  local = local
  remote = remote
  lt = lt
  rt = rt
  sig = sig
  none = none
  Local = local
  Remotes <- MCRemotes
  Tasks <- MCTasks
  TaskHost <- MCTaskHost
  Observations <- MCObservations
  Signatures = {sig}
  NoSignature = none
  NoWaitID = noWaitID
  NoReason = "none"
  Absent = absent
  Refused = refused
  Tabs = {t1}
  Conns = {c1, c2}
  NoConn = noConn
  Slots = {1, 2}
  Buffer = 1
  WireCap = 1
  Worlds <- MCWorlds
  MaxFaults = 2
  MaxSeq = 4
PROPERTY RemovedHostResultDiscarded
CHECK_DEADLOCK FALSE

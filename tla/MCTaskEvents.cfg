SPECIFICATION HFairSpec
CONSTANTS
  local = local
  remote = remote
  lt = lt
  rt = rt
  sig = sig
  none = none
  Local = local
  Remotes <- MCRemotes
  Tasks <- MCTasksTwo
  TaskHost <- MCTaskHostBoth
  Observations <- MCObservationsWaits
  Signatures = {sig}
  NoSignature = none
  NoWaitID = noWaitID
  NoReason = "none"
  Absent = absent
  Refused = refused
  Tabs = {t1}
  Conns = {c1, c2}
  NoConn = noConn
  Slots = {1, 2}
  Buffer = 3
  WireCap = 1
  Worlds <- MCWorlds
  MaxFaults = 1
  MaxSeq = 50
INVARIANTS
  NeverRefused
  DrainedIsCurrent
  ObservedWhenHeard
  NoOrphanTask
  WaitIDNamesOneWait
PROPERTIES
  StreamSpec
  Converges

SPECIFICATION FairSpec
CONSTANTS
  h1 = h1
  h2 = h2
  a = a
  b = b
  Hosts <- MCHosts
  NoHost = noHost
  Updates = {u}
  Panes <- MCPanes
  System = system
  Bodies = {m}
  Casts = {c}
  Limit = 1
  BackfillLimit = 2
  Homes <- MCHomes
  Writes <- MCWrites
  Targets <- MCTargets
  Sorted <- MCSorted
  Tooled <- MCTooled
  MaxLog = 2
  MaxFaults = 1
INVARIANTS
  CallsAndUpdates
  NoneSkipped
  ForwardedOnce
  OwnRowsKnown
  DiscoveryIsCurrent
PROPERTIES
  RowsRead
  UpdatesEnd

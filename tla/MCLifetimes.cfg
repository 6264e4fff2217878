SPECIFICATION LifetimesSpec
CONSTANTS
  s1 = s1
  s2 = s2
  Sessions <- MCSessions
  Sockets = {k1}
  MaxChanges <- MCMaxChanges
  Tasks = {t}
  Connections = {c}
  Requests = {r1, r2}
  NoSession = noSession
  NoTarget = noTarget
  MaxHostTerminals = 1
  MaxFired = 1
  Hosts = {h1}
  Calls = {c1}
  Entries = {e1, e2}
  Conns = {x1}
  NoHost = noHost
  NoEntry = noEntry
  NoConn = noConn
  MaxVersion = 1
INVARIANTS
  RegistryConsistent
  LastHeardIsCurrent
  AttachesBounded
PROPERTIES
  TimerEndsUnread
  AttachesEnd
  LinksEnd
CHECK_DEADLOCK FALSE

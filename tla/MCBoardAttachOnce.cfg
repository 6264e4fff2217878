SPECIFICATION Spec
CONSTANTS
  s1 = s1
  s2 = s2
  Sessions <- MCSessions
  Sockets = {k1}
  MaxChanges <- MCMaxChanges
  Tasks = {t}
  Connections = {}
  Requests = {r1, r2}
  NoSession = noSession
  NoTarget = noTarget
  MaxHostTerminals = 1
  MaxFired = 1
SYMMETRY MCSymmetry
INVARIANT OneAttachPerTask
CHECK_DEADLOCK FALSE

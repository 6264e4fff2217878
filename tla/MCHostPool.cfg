SPECIFICATION HostsSpec
CONSTANTS
  Hosts = {h1}
  Calls = {c1, c2}
  Entries = {e1, e2}
  Conns = {x1, x2}
  NoHost = noHost
  NoEntry = noEntry
  NoConn = noConn
  MaxVersion = 1
  given = given
  began = began
  picked1 = picked1
  picked2 = picked2
  n0 = n0
  n1 = n1
  n2 = n2
  Asks = {q1, q2}
  Pages = {g1}
  Talks <- MCTalks
  Given = {given}
  Began = {began}
  TmuxNames = {n0, n1, n2}
  TalkName <- MCTalkName
  Windows = {1, 2}
  MaxMoves = 1
  NoTalk = noTalk
  NoAsk = noAsk
SYMMETRY Symmetry
INVARIANTS
  NoLeak
  LaunchesHold
PROPERTIES
  FreshDetails
  LinksSpec

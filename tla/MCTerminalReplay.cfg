SPECIFICATION TerminalSpec
CONSTANTS
  Window = 1
  ChanRoom = 1
  WireRoom = 2
  MaxAttempts = 2
  MaxChunks = 2
  MaxConns = 2
INVARIANT ReplayIsQuiet
CHECK_DEADLOCK FALSE

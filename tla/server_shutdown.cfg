SPECIFICATION Spec
CONSTANTS
  Conn = {c1, c2}
  Node = {n1, n2}
  Builds = {TRUE}
  N = 2
  NULL = NULL
  NL = NL
  Stamp = Stamp
  Uninit = Uninit
  SeekCmd <- MCNoSeek
  PieceKind = {"part", "end", "packet", "more"}
  BufSize = 2
  Failures = {}
  MaxRecv = 0
  MaxTicks = 0
CHECK_DEADLOCK FALSE
INVARIANTS DataLive

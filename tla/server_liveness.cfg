SPECIFICATION FairSpec
CONSTANTS
  Conn = {c1, c2}
  Node = {n1, n2}
  Builds = {TRUE, FALSE}
  N = 1
  NULL = NULL
  NL = NL
  Stamp = Stamp
  Uninit = Uninit
  SeekCmd <- MCOneSeek
  PieceKind = {"part", "packet"}
  BufSize = 2
  Failures = {"open"}
  MaxRecv = 1
  MaxTicks = 1
CHECK_DEADLOCK FALSE
PROPERTIES EveryClientServed SignalEndsServer

SPECIFICATION Spec
CONSTANTS
  Conn = {c1, c2, c3}
  Node = {n1, n2, n3}
  Builds = {TRUE, FALSE}
  N = 1
  NULL = NULL
  NL = NL
  Stamp = Stamp
  Uninit = Uninit
  SeekCmd <- MCNoSeek
  PieceKind = {"packet"}
  BufSize = 2
  Failures = {}
  MaxRecv = 0
  MaxTicks = 1
CHECK_DEADLOCK FALSE
SYMMETRY ServerSymmetry
INVARIANTS MutexHeldByHandler QueueSound DataLiveWhileServing NothingLeftAtExit FileRemovedAtExit
PROPERTIES ImplementsThreadList

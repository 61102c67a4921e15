SPECIFICATION Spec
CONSTANTS
  Conn = {c1, c2}
  Node = {n1, n2}
  Builds = {TRUE, FALSE}
  N = 2
  NULL = NULL
  NL = NL
  Stamp = Stamp
  Uninit = Uninit
  SeekCmd <- MCSeekCmd
  PieceKind = {"part", "end", "more"}
  BufSize = 2
  Failures = {"alloc", "open", "timer_open", "reset", "bad_seekto"}
  MaxRecv = 2
  MaxTicks = 1
CHECK_DEADLOCK FALSE
SYMMETRY ServerSymmetry
INVARIANTS TypeOK QueueSound PacketsContiguous
PROPERTIES ReplyEndsInPacket

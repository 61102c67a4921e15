SPECIFICATION FairSpec
CONSTANTS
  N = 1
  NULL = NULL
  p1 = p1
  p2 = p2
  f1 = f1
  f2 = f2
  a = a
  NL = NL
  Uninit = Uninit
  Proc = {p1, p2}
  File = {f1}
  FileOf <- OneFile
  Ptr = {b1, b2}
  Byte <- MCByte
  Chunk <- MCFewChunks
  ReadCount = {1}
  SeekOff <- MCNoOff
  AllocFailure = FALSE
  MaxCommand = 1
PROPERTIES EveryCallReturns

SPECIFICATION Spec
CONSTANTS
  N = 2
  NULL = NULL
  p1 = p1
  p2 = p2
  f1 = f1
  f2 = f2
  a = a
  NL = NL
  Uninit = Uninit
  Proc = {p1}
  File = {f1}
  FileOf <- SoleFile
  Ptr = {b1, b2, b3}
  Byte <- MCByte
  Chunk <- MCFewChunks
  ReadCount = {1, 4}
  SeekOff <- MCSeekOff
  AllocFailure = FALSE
  MaxCommand = 1
PROPERTIES LlseekVisitsEveryMember

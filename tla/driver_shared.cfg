SPECIFICATION Spec
CONSTANTS
  N = 2
  NULL = NULL
  p1 = p1
  p2 = p2
  f1 = f1
  f2 = f2
  a = a
  NL = NL
  Uninit = Uninit
  Proc = {p1, p2}
  File = {f1}
  FileOf <- OneFile
  Ptr = {b1, b2, b3}
  Byte <- MCByte
  Chunk <- MCChunk
  ReadCount = {1, 4}
  SeekOff <- MCManyOff
  AllocFailure = TRUE
  MaxCommand = 2
SYMMETRY FileSymmetry
INVARIANTS TypeOK BlocksOwnedOnce CopyInBounds DriverInv
PROPERTIES ImplementsCommandLog ReadReturnsLogSlice SeektoAgreesWithRead SeekMatchesLog

CONSTANTS
  Streams <- MCStreams
  Chunks = {1, 2, 5, 10, 12, 40}
  Byte = 4
  End = 8
  BufSize = 3
  MaxLen = 4
  FastIn = 5
  LitBits = 5
  DistBits = 2
  Garbage = Garbage

SPECIFICATION Spec

INVARIANTS
  InputKept
  NoSilentLoss

PROPERTIES
  DecodesInOrder
  Answered

CHECK_DEADLOCK FALSE

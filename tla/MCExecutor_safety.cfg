SPECIFICATION Spec
CONSTANTS
  ByteBits = 2
  DoubleBytes = 3
  Mantissa = 4
  Fraction = 6
  MaxBytes = 2
  FloatBytes = 1
  MaxFloat = 64
  MaxDouble = 240
  Buffers <- MCBuffers
  Reads <- MCReads
  Seqs <- MCSeqs
  Ignored = {"known"}
  Errors <- MCErrors
  MaxLength = 2
  MaxDepth = 2
  MaxEdges = 3
  MapSize = 2
  HitLimit = 1
INVARIANTS AsPromised CallsAsWritten HitsShow
PROPERTIES BytesOnce

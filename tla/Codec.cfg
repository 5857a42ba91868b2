SPECIFICATION Spec
CONSTANTS
  ByteBits = 3
  XorKey = 1
  Rotation = 1
  Attributes <- MCAttributes
  InputBytes = {0, 1, 5}
  MaxInput = 3
INVARIANTS
  GoReadsAsViewer
  CReadsAsViewer
  GoRewrites
  CRewrites
CHECK_DEADLOCK FALSE

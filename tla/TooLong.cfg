SPECIFICATION Spec
INVARIANT FitsReadBuf
CONSTANTS
  Radix = 2
  ReadBufSize = 3
  WordSize = 16
  RemLens = {0, 1, 2, 3, 7}
  TxLens = {1, 4}
  MaxQueue = 1

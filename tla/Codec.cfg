SPECIFICATION Spec
INVARIANT BuffersHold
INVARIANT WrittenAsAsked
INVARIANT RefusedIfTooLong
INVARIANT ReceivedAsSent
INVARIANT DeliveredByLevels
CONSTANTS
  Radix = 4
  TxBufLens = {5, 6, 19, 20, 28}
  RxBufLen = 12
  StrLens = {1, 2, 5}
  PacketIds = {11}
  MaxName = 3

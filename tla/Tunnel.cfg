SPECIFICATION LiveSpec
CONSTANTS
  MaxConns = 2
  MaxUp = 4
  MaxDown = 4
  RxCap = 3
  TxCap = 2
  ChanCap = 1
  RecvMax = 1
  ReadMax = 2
CHECK_DEADLOCK FALSE
INVARIANTS
  StackInv
  StreamsInOrder
PROPERTIES
  DownMoves

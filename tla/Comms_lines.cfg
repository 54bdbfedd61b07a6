CONSTANTS
  IndexSize = 6
  RingSlots = 8
  UartSize = 7
  SocketSize = 5
  TelnetSize = 5
  TxSize = 3
  LineSize = 3
  Scenarios <- AllScenarios
SPECIFICATION LiveSpec
INVARIANTS
  CommsInv
  InOrder
  NothingLost
  AnsweredOnce
  LinesIntact
PROPERTIES
  NoUnaskedRise
  AcceptedKeepsSlot
  EveryLineAnswered

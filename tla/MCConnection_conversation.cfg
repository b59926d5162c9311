SPECIFICATION FairSpec
CONSTANTS
  Commands <- AllCommands
  MAX_ROUNDS = 3
INVARIANTS
  TypeOK
  OneFrameInFlight
  RepliesAreExpected
  RunsAtMostOnce
  NoHangWithoutFault
PROPERTIES
  CommandsEnd
  DisconnectEndsHandler
  UnopenedHandlerEnds
  ImplementsCalls
CHECK_DEADLOCK FALSE

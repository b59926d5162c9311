SPECIFICATION FairSpec
CONSTANTS
  LEASE_INTERVAL = 4
  MESSAGE_TTL = 12
  MESSAGE_TIMEOUT = 13
  MAX_COUNTER = 2
INVARIANTS
  TypeOK
  DeliveredInOrder
  TokenHasFrame
  NoLostWakeup
  NonceNeverReused
  LeaseHolds
PROPERTIES
  AckSparesTheNextFrame
  ImplementsStream
  SendReturns
  RecvReturns
CHECK_DEADLOCK FALSE

SPECIFICATION FairSpec
CONSTANTS
  Commands <- JustConnect
  MAX_ROUNDS = 1
PROPERTY
  EphemeralRemoved
CHECK_DEADLOCK FALSE

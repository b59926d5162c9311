SPECIFICATION Spec
CONSTANTS
  LEASE_INTERVAL = 4
  MESSAGE_TTL = 12
  MESSAGE_TIMEOUT = 13
  MAX_COUNTER = 1
INVARIANT
  LeasePreventsExpiry
CHECK_DEADLOCK FALSE

SPECIFICATION Spec
CONSTANTS
  Processes = {p1, p2}
  Aliases = {a1, a2}
  Servers = {u1, u2}
  Local = u1
  SessionIds = {1}
  Absent = Absent
  Empty = Empty
  Torn = Torn
  None = None
  MAX_COMMANDS = 3
  MAX_FAILURES = 0
  MAX_REBOOTS = 1
PROPERTY
  ReauthSaves
CHECK_DEADLOCK FALSE

SPECIFICATION Spec
CONSTANTS
  Hosts = {p1}
  Handlers = {h1, h2}
  Ids = {s1}
  None = None
  MAX_STARTS = 1
INVARIANT
  CloseKillsShell
CHECK_DEADLOCK FALSE

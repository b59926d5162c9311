SPECIFICATION Spec
CONSTANTS
  Hosts = {p1, p2}
  Handlers = {h1, h2}
  Ids = {s1}
  None = None
  MAX_STARTS = 2
INVARIANT
  LookupForEachSession
CHECK_DEADLOCK FALSE

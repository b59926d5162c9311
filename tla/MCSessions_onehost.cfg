SPECIFICATION FairSpec
CONSTANTS
  Hosts = {p1}
  Handlers = {h1, h2, h3}
  Ids = {s1, s2}
  None = None
  MAX_STARTS = 2
INVARIANTS
  TypeOK
  LookupsMatchSessions
  ClosedStaysClosed
  EphemeralIsPrivate
  ToldSessionsResumable
  OpenShellsAreKept
PROPERTIES
  NoShellLeaks
  CloseNeverWaits
CHECK_DEADLOCK FALSE

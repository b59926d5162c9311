SPECIFICATION Spec
CONSTANTS
  Processes = {p1, p2}
  Aliases = {a1, a2}
  Servers = {u1, u2}
  Local = u1
  SessionIds = {1}
  Absent = Absent
  Empty = Empty
  Torn = Torn
  None = None
  MAX_COMMANDS = 5
  MAX_FAILURES = 1
  MAX_REBOOTS = 1
SYMMETRY Symmetry
INVARIANTS
  KeyOfEntryIsKept
  NoOrphanKeys
  DefaultIsSaved
  LastSessionIsUsable
  EntryLoads
CHECK_DEADLOCK FALSE

SPECIFICATION Spec
CONSTANTS
  Dirs = {d1, d2}
  Names <- MCNames
  RandomNames <- MCRandomNames
  Absent = Absent
  Empty = Empty
  None = None
  Queue = Queue
  MAX_INITS = 2
  MAX_SERVES = 4
SYMMETRY Symmetry
INVARIANTS
  OneOwnerPerName
  SavedNameIsReserved
  CredentialsMatch
CHECK_DEADLOCK FALSE

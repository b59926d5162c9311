SPECIFICATION Spec
CONSTANTS
  Processes = {p1, p2, p3}
  Entries = {e1, e2}
  Secrets = {s1, s2}
  None = None
INVARIANTS
  GetsDecrypt
PROPERTY
  ImplementsStore

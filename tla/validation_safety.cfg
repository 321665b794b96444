SPECIFICATION Spec
CONSTANTS
  root = root
  s1 = s1
  s2 = s2
  u1 = u1
  u2 = u2
  Root = root
  NoJob = NoJob
  Units = {u1, u2}
  Width = 1
  Copies = 2
  Slots = {s1, s2}
  MaxAttempts = 2
  FaultKinds = {"crash", "redis", "db", "late"}
  MaxFaults = 1
  MaxCancels = 1
  MaxRetries = 1
  MaxEdits = 0
SYMMETRY Symmetry
INVARIANTS TypeOK PublishedOnce
PROPERTIES DoneIsCovered
CHECK_DEADLOCK FALSE

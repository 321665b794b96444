SPECIFICATION FairSpec
CONSTANTS
  root = root
  s1 = s1
  s2 = s2
  u1 = u1
  Root = root
  NoJob = NoJob
  Units = {u1}
  Width = 2
  Copies = 2
  Slots = {s1, s2}
  MaxAttempts = 2
  FaultKinds = {"crash", "redis"}
  MaxFaults = 2
  MaxCancels = 1
  MaxRetries = 1
  MaxEdits = 1
INVARIANTS FanOutOnce
PROPERTIES JobSettles ComesToRest SettledIsFinal
CHECK_DEADLOCK FALSE

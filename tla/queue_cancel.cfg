SPECIFICATION Spec
CONSTANTS
  NoMsg = NoMsg
  d1 = d1
  j1 = j1
  w1 = w1
  w2 = w2
  Jobs = {j1}
  Dispatchers = {d1}
  Workers = {w1, w2}
  Slots = {1}
  BatchSize = 2
  MaxAttempts = 2
  FaultKinds = {"crash", "redis", "db", "late"}
  MaxFaults = 0
  MaxCancels = 1
  MaxRetries = 0
PROPERTIES TerminalIsFinal
CHECK_DEADLOCK FALSE

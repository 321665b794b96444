SPECIFICATION Spec
CONSTANTS
  NoMsg = NoMsg
  d1 = d1
  j1 = j1
  j2 = j2
  w1 = w1
  w2 = w2
  Jobs = {j1, j2}
  Dispatchers = {d1}
  Workers = {w1, w2}
  Slots = {1}
  BatchSize = 2
  MaxAttempts = 2
  FaultKinds = {"crash", "redis"}
  MaxFaults = 1
  MaxCancels = 0
  MaxRetries = 1
SYMMETRY Symmetry
INVARIANTS NoDuplicates Ownership
PROPERTIES TerminalIsFinal ImplementsLifecycle
CHECK_DEADLOCK FALSE

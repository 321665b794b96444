SPECIFICATION Spec
CONSTANTS
  w1 = w1
  w2 = w2
  f1 = f1
  f2 = f2
  f3 = f3
  Workers = {w1, w2}
  N = 2
  MaxFaults = 2
  Facts = {f1, f2, f3}
  Mentions <- MCMentions
INVARIANTS TypeOK MergedOnceAndWhole AcknowledgedIsKept
PROPERTIES DocumentIsStored
CHECK_DEADLOCK FALSE

SPECIFICATION Spec
CONSTANTS
  u1 = u1
  u2 = u2
  u3 = u3
  q1 = q1
  p1 = p1
  p2 = p2
  Old = Old
  NoQuery = NoQuery
  Uploads = {u1, u2, u3}
  Queries = {q1}
  Procs = {p1, p2}
  MaxTries = 2
  FaultKinds = {"redis", "pg", "expire", "crash"}
  MaxFaults = 1
SYMMETRY Symmetry
INVARIANTS TypeOK StoredOnce AcceptedIsKept CleanAnswersAreCurrent
PROPERTIES UploadsSurvive
CHECK_DEADLOCK FALSE

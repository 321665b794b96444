SPECIFICATION MCSpec
CONSTANTS
  c1 = c1
  c2 = c2
  t1 = t1
  n1 = n1
  n2 = n2
  n3 = n3
  n4 = n4
  p1 = p1
  p2 = p2
  w1 = w1
  w2 = w2
  mkg = mkg
  NoEntity = NoEntity
  Callers = {c1, c2}
  Teams = {t1, mkg}
  Master = mkg
  Names = {n1, n2, n3, n4}
  Words = {w1, w2}
  Long = {w1, w2}
  Mentioned <- MCMentioned
  Predicates = {p1, p2}
  FamilyOf <- MCFamilyOf
  MaxOps = 2
INVARIANTS TypeOK HistoryIsKept OneOfEach
PROPERTIES MergeLosesNothing
CHECK_DEADLOCK FALSE

SPECIFICATION Spec
CONSTANTS
  Instances = {"i1", "i2"}
  Teams = {"t1", "t2"}
  Master = "master"
  NoTeam = "null"
  Names = {"n1"}
  Labels = {"a"}
  NoInstance = "none"
  MaxRows = 2
  MaxStarts = 3
  MaxFaults = 1
INVARIANT TeamsMayShareNames
CHECK_DEADLOCK FALSE

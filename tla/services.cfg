SPECIFICATION MCSpec
CONSTANTS
  Services = {"timing", "scheduler", "clusters", "cache", "collaboration", "catalog", "scores", "startup", "schema", "pool", "chat", "research", "query", "resolver", "traversal", "knowledge", "history", "batches"}
  Stale = 12
  Timeout = 8
  Interval = 1
  MaxFailures = 5
  MaxWait = 4
  MayFail = TRUE
  MaxRuns = 2
  Users = {"u1", "u2"}
  Members = {"u1", "u2"}
  SharedWith = {"t1"}
  Teams = {"t1", "t2"}
  TeamOfNone = "null"
  Master = "master"
  Instances = {"i1", "i2"}
  NoInstance = "none"
  Callers = {"a", "b", "c"}
  Nested = {"c"}
  NoCaller = "none"
  Askers = {"c1", "c2"}
  Requests = {"r1", "r2"}
  NoOne = "none"
  NoId = "none"
  Clients = {"g1", "g2"}
  NoClient = "none"
  Nobody = "nobody"
  Monitors = {"m1"}
  Tasks = {1, 2}
  Jobs = {"j1", "j2"}
  Sessions = {"s1", "s2"}
  Comments = {"c1", "c2"}
  Campaigns = {"c1", "c2"}
  Programs = {"p1"}
  Items <- MCItems
  AttributeLabels = {"a1"}
  Entities = {"e1", "e2"}
  ScoredAttributes = {"a1"}
  TextAttributes = {}
  Names = {"n1", "n2"}
  RowLabels = {"a"}
  SchemaTables <- MCTables
  Chats = {1}
  Streams = {"s1", "s2"}
  Investigations = {"s2"}
  Queries = {"q1"}
  DocumentRows = {3}
  MentionKeys = {"k1", "k2"}
  Forms = {"f1"}
  Blank = "blank"
  Scores = {80}
  Certainties = {60, 80}
  Nodes = {"n1", "n2", "n3"}
  Persons = {"n1", "n2"}
  Sizes = {1, 4}
  Lengths = {0, 1, 2, 4}
  Daily = 1
  Weekly = 2
  Limit = 2
  MaxHops = 2
  MaxPaths = 2
  RateLimit = 2
  SessionLimit = 1
  CallLimit = 1
  Parallel = 2
  Abreast = 1
  Concurrency = 1
  RowsPerChunk = 2
  PastTheCut <- MCPastTheCut
  Budget = 3
  HistoryBudget = 8
  Keep = 6
  Warm = 1
  Target = 3
  Separator = 1
  Retries = 1
  LastDay = 1
  MaxSessions = 2
  MonitorEdits = 2
  MaxAttribute = 3
  MaxSize = 2
  MaxAnswer = 1
  MaxDocs = 2
  MaxPolls = 1
  MaxRequests = 3
  MaxCalls = 4
  ScoreEdits = 3
  MaxRows = 2
  MaxStarts = 3
  RowsInAll = 5
  MaxRotations = 1
  MaxPools = 2
  MaxTurns = 1
  MaxTalkers = 1
  MaxMentions = 2
  MaxEdges = 3
  MaxChanges = 1
  MaxDay = 2
  MaxEdits = 1
  MaxParallel = 2
  MaxRounds = 2
  MaxQuestions = 3
  MaxPages = 3
  MaxFaults = 1
INVARIANTS TypesOK NoPrematureReclaim LimitsHold AnswersAreWhole EachReasonIsToldOnce OwnEditsAreScored AuditIsAChain LastStartHolds DeletesSucceed
PROPERTIES DueMonitorIsRun
CHECK_DEADLOCK FALSE

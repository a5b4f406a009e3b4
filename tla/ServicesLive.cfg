SPECIFICATION ServicesFairSpec
CONSTANTS
  Moving = {"queue", "kafka", "collector", "metric", "observable", "transaction", "pool"}
  LogWriters = {1, 2}
  QueueLength = 2
  MaxEntries = 5
  LogCallers = {1, 2}
  Widths = {1}
  MaxAppends = 1
  Publishers = {1}
  MaxPublish = 2
  MaxRuns = 1
  Endpoints = {1, 2}
  CollectorQueue = 1
  Uncoded = {2}
  MaxPushed = 2
  MetricNames = {m1}
  MetricOptions = {"openobserve", "endpoint"}
  MaxStarts = 2
  Triggerers = {g1, g2}
  Events = {e1}
  Callables = {f1, f2}
  MaxCallbacks = 2
  MaxTriggers = 2
  MaxOpenConns = 1
  MaxCalls = 2
  Clients = {k1, k2}
  KeyCount = 1
  MaxActive = 3
  MaxOps = 2
  Queries = {q1}
  Moments = {2}
  Days = 1
  MaxLines = 1
  LogLimit = 1
  MaxQueries = 2
  Letters = {"a"}
  MaxValue = 1
  MaxListed = 1
  MaxPattern = 1
  Fields = {f1, f2}
  ConditionKeys = {k1}
  MaxFilterCalls = 0
  MaxRows = 3
  MaxPages = 2
  WordSize = 16
  Bases = {0, 1, 3}
  Escaping = {3}
  Codes = {0, 1, 9}
  HalfWord = 4
  MaxErrors = 3
  MaxDetails = 2
  MaxFuncs = 0
  ProbeRequests = {1, 2}
  ProbeTypes = {"liveness", "readiness"}
  MaxProbes = 2
  FieldKeys = {"a", "b"}
  MaxData = 6
  MaxChunks = 4
  MaxText = 2
PROPERTIES KafkaCloses QueuesDrain MetricProgress 
CHECK_DEADLOCK FALSE

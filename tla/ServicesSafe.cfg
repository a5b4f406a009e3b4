SPECIFICATION ServicesSpec
CONSTANTS
  Moving = {"queue", "kvs", "kafka", "collector", "metric", "observable", "transaction", "pool", "query", "matching", "eval", "filter", "pages", "errors", "builder", "probe", "text"}
  LogWriters = {1, 2}
  QueueLength = 2
  MaxEntries = 5
  LogCallers = {1, 2}
  Widths = {1, 2, 3}
  MaxAppends = 4
  Publishers = {1, 2}
  MaxPublish = 2
  MaxRuns = 2
  Endpoints = {1, 2}
  CollectorQueue = 2
  Uncoded = {2}
  MaxPushed = 4
  MetricNames = {m1}
  MetricOptions = {"log", "openobserve", "otel", "other", "stats", "endpoint", "noEndpoint"}
  MaxStarts = 2
  Triggerers = {g1, g2}
  Events = {e1}
  Callables = {f1, f2}
  MaxCallbacks = 2
  MaxTriggers = 2
  MaxOpenConns = 1
  MaxCalls = 3
  Clients = {k1, k2}
  KeyCount = 2
  MaxActive = 2
  MaxOps = 3
  Queries = {q1}
  Moments = {2, 3, 4}
  Days = 2
  MaxLines = 2
  LogLimit = 1
  MaxQueries = 2
  Letters = {"a", "b"}
  MaxValue = 3
  MaxListed = 1
  MaxPattern = 4
  Fields = {f1, f2}
  ConditionKeys = {k1, k2}
  MaxFilterCalls = 2
  MaxRows = 3
  MaxPages = 2
  WordSize = 16
  Bases = {0, 1, 3}
  Escaping = {3}
  Codes = {0, 1, 9}
  HalfWord = 4
  MaxErrors = 3
  MaxDetails = 2
  MaxFuncs = 2
  ProbeRequests = {1, 2}
  ProbeTypes = {"liveness", "readiness"}
  MaxProbes = 2
  FieldKeys = {"a", "b"}
  MaxData = 6
  MaxChunks = 4
  MaxText = 2
INVARIANTS ServicesTypeOK QueuesAccount ShallowKept  LogDataKept KafkaLifecycle OnceAtMostOnce TransactionsSettled SqlFaithful ExpressionsCorrect ErrorsRecovered CleansUp
PROPERTIES QuietAfterStop RemovalExact ScanDelsAll AnswerIsTrue
CHECK_DEADLOCK FALSE

\* Four rows and two workers, two nodes, any of them healthy, one retry
\* (fetchObject's).  Each cache in turn: two callers, entries that live two
\* ticks, calls that take up to one, an upstream that changes twice.
SPECIFICATION UpstreamSpec
CONSTANTS
  N = 4
  Concurrency = 2
  NoResult = NoResult
  Callers = {1, 2}
  Nodes = 2
  Retries = 1
  Nothing = Nothing
  Requesters = {"a", "b"}
  Lifetime = 2
  MaxDelay = 1
  MaxClock = 4
  MaxVersion = 2
INVARIANTS PoolSafe ReadsAccounted AnswersRecent NothingForgotten OneBuild
PROPERTIES PoolSettles KeepsPromise
CHECK_DEADLOCK FALSE

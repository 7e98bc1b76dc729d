\* Producers that log for ever, and the looper that makes them wait (buffers of the
\* other have no bound).  No symmetry: it is unsound for liveness.
CONSTANTS
  p1 = p1
  p2 = p2
  Producer <- TwoProducers
  Worker = worker
  Owner = owner
  Free = Free
  LooperType = {"ASYNC_SAFE"}
  Workload <- EndlessLoads
  DEFAULT_BUFFER_SIZE = 2
  THRESHOLD_BUFFER_SIZE = 5
  INCREMENT_BUFFER_SIZE = 1
SPECIFICATION BusySpec
PROPERTY PushReturns
\* The system stops when the looper is destroyed.
CHECK_DEADLOCK FALSE

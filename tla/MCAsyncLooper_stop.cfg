\* One message at most, and a looper that is destroyed.
CONSTANTS
  p1 = p1
  p2 = p2
  Producer <- TwoProducers
  Worker = worker
  Owner = owner
  Free = Free
  LooperType = {"ASYNC_SAFE"}
  Workload <- ShortLoads
  DEFAULT_BUFFER_SIZE = 2
  THRESHOLD_BUFFER_SIZE = 5
  INCREMENT_BUFFER_SIZE = 1
SPECIFICATION FairSpec
PROPERTY StopReturns
CHECK_DEADLOCK FALSE

\* Both kinds of looper.  No symmetry: it is unsound for liveness.
CONSTANTS
  p1 = p1
  p2 = p2
  Producer <- TwoProducers
  Worker = worker
  Owner = owner
  Free = Free
  LooperType = {"ASYNC_SAFE", "ASYNC_UNSAFE"}
  Workload <- Loads
  DEFAULT_BUFFER_SIZE = 2
  THRESHOLD_BUFFER_SIZE = 5
  INCREMENT_BUFFER_SIZE = 1
SPECIFICATION FairSpec
INVARIANT BuffersInBounds
INVARIANT SleepHasCause
INVARIANT IInv
INVARIANT OwnOrder
PROPERTY ImplementsLogStream
PROPERTY PushedIsWritten
PROPERTY StopWakes
\* The system stops when the looper is destroyed.
CHECK_DEADLOCK FALSE

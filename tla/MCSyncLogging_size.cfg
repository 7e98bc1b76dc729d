CONSTANTS
  t1 = t1
  t2 = t2
  name = name
  None = None
  Thread <- TwoThreads
  Name = {name}
  NameOf <- SameName
  Kinds <- TwoLoggers
  LimitLevel = 2
  Work <- Messages
  Times <- Alike
  MaxSize = 2
  MaxRestarts = 1
SPECIFICATION Spec
INVARIANT SizeLimited
\* The threads run out of messages.
CHECK_DEADLOCK FALSE

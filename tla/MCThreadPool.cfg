\* Three workers: several sleepers, and a woken worker whose task is stolen
\* by an awake one while a third sleeps.  Four descriptors: queues longer
\* than the idle workers.  No symmetry: it is unsound for
\* liveness.
CONSTANTS
  Worker = {w1, w2, w3}
  Main = main
  Sock = {s1, s2, s3, s4}
  NoSock = NoSock
  Free = Free
SPECIFICATION FairSpec
INVARIANT OwnedOnce
INVARIANT NoLostWakeup
INVARIANT IInv
PROPERTY ImplementsDispatch
PROPERTY ServedIfStaffed
PROPERTY AcceptLoopRuns

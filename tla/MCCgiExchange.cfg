\* Two exchanges at a time.  Eight pipe ends are what they need, so that one
\* failed fork makes pipe() fail from then on.  No symmetry: it is unsound for
\* liveness.
CONSTANTS
  Handler = {h1, h2}
  Server = server
  Free = Free
  NoRequest = NoRequest
  Cap = 1
  FdLimit = 8
  IntRange = 4
  Request <- Requests
SPECIFICATION FairSpec
INVARIANT WholeAnswer
INVARIANT PeerHoldsOn
INVARIANT ExchangeCleansUp
INVARIANT IInv
PROPERTY OnlyJamsHang
\* Every handler can hang: the system may stop.
CHECK_DEADLOCK FALSE

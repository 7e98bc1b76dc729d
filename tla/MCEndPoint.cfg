\* Every kind of request, with up to one change to the files while it is
\* served.  An int holds -4 to 3.
CONSTANTS
  page = page
  prog = prog
  dir = dir
  bare = bare
  index = index
  noindex = noindex
  err404 = err404
  Path <- MCPath
  IndexOf <- MCIndexOf
  ErrorPage = err404
  Undef = Undef
  MaxInt = 3
  MaxSize = 63
  SendMax = 3
  CgiOutput <- Outputs
  Site <- AllSites
  Request <- AllRequests
  MaxChanges = 1
SPECIFICATION FairSpec
INVARIANT AnsweredIffWhole
INVARIANT DeliversPrefix
INVARIANT LengthIsTrue
INVARIANT OpenWhileNeeded
INVARIANT IInv
 

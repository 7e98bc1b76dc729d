\* A page one byte larger than an int can say, and no change to the files.
CONSTANTS
  page = page
  prog = prog
  dir = dir
  bare = bare
  index = index
  noindex = noindex
  err404 = err404
  Path <- MCPath
  IndexOf <- MCIndexOf
  ErrorPage = err404
  Undef = Undef
  MaxInt = 3
  MaxSize = 63
  SendMax = 3
  CgiOutput <- Outputs
  Site <- LargeSites
  Request <- PageRequests
  MaxChanges = 0
SPECIFICATION Spec
INVARIANT SizeIsBodySize

\* The claim of the comment, with programs that read their body and do not
\* fill a pipe their parent is not reading.
CONSTANTS
  Handler = {h1, h2}
  Server = server
  Free = Free
  NoRequest = NoRequest
  Cap = 1
  FdLimit = 8
  IntRange = 4
  Request <- PlainRequests
SPECIFICATION FairSpec
PROPERTY ChildIsReaped
CHECK_DEADLOCK FALSE

\* The claim of the comment, without the proviso that a worker exists.
CONSTANTS
  Worker = {w1, w2}
  Main = main
  Sock = {s1, s2, s3}
  NoSock = NoSock
  Free = Free
SPECIFICATION FairSpec

PROPERTY AcceptedIsServed

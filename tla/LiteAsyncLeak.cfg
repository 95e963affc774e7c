\* The build that copies at `return ft;`.
SPECIFICATION FairSpec
CONSTANTS
  f1 = f1
  f2 = f2
  f3 = f3
  NoFuture = NoFuture
  Futures <- MCFutures
  Elision = {FALSE}
CHECK_DEADLOCK FALSE
INVARIANTS
  AsyncReleases

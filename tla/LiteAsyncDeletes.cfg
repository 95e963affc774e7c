\* The build that elides the copies at `return ft;`.
SPECIFICATION FairSpec
CONSTANTS
  f1 = f1
  f2 = f2
  f3 = f3
  NoFuture = NoFuture
  Futures <- MCFutures
  Elision = {TRUE}
CHECK_DEADLOCK FALSE
INVARIANTS
  BlockDeletedOnce

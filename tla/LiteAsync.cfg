\* Both builds, three futures.  A second wait() and a thread that was not
\* created block for ever: the system may stop.
SPECIFICATION FairSpec
CONSTANTS
  f1 = f1
  f2 = f2
  f3 = f3
  NoFuture = NoFuture
  Futures <- MCFutures
  Elision = {TRUE, FALSE}
CHECK_DEADLOCK FALSE
INVARIANTS
  CountsFutures
  HoldersKeepBlock
  OutliveWorker
  NoLostWakeup
  LastFutureReleases
PROPERTIES
  ImplementsOneShot
  FirstWaitReturns
  DestructorEnds

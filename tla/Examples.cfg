\* Three children and three meetings, as in barrier_example.cpp; the semaphore
\* with three children instead of one, AtomicBound with four threads instead of
\* two.  The programs end, or get stuck in the ways the properties name.
SPECIFICATION FairSpec
CONSTANTS
  Main = Main
  Child = c1
  c1 = c1
  c2 = c2
  c3 = c3
  Sibling = c2
  Nobody = Nobody
  None = None
  Start = Start
  Children <- MCChildren
  Limit = 10
  Phases = 3
  Items = 3
CHECK_DEADLOCK FALSE
INVARIANTS
  NobodyStuck
  SumConserved
  RequireHolds
  ClaimsConserved
  Overshoot
  OutputInOrder
  NoLostNotify
  CallerGets
  NoChildStranded
  OneToken
  ChildToBeNotified
  SumFollowsMeetings
  LatchCounts
  WholeOnReturn
  FrameOutlivesChild
  GuardExcludes
PROPERTIES
  FinishesOrStrands
  FinishesOrDeadlocks
  RequireMissesPending
  TurnsEnd
  RingEnds
  Alternates
  MainReturns
  StragglersStay
  PollingEnds
  WindowsEnds

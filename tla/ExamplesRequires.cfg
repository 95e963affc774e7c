\* The instance of Examples.cfg, any scheduling.  The programs end.
SPECIFICATION Spec
CONSTANTS
  Main = Main
  Child = c1
  c1 = c1
  c2 = c2
  c3 = c3
  Sibling = c2
  Nobody = Nobody
  None = None
  Start = Start
  Children <- MCChildren
  Limit = 10
  Phases = 3
  Items = 3
CHECK_DEADLOCK FALSE
INVARIANTS
  TestsRequire

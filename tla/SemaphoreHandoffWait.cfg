\* The one child of the code.
SPECIFICATION Spec
CONSTANTS
  Main = Main
  c1 = c1
  Children <- MCOne
CHECK_DEADLOCK FALSE
INVARIANTS
  MainWaitsForChild

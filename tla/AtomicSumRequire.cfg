\* The assertion of the test case, with its limit.
SPECIFICATION Spec
CONSTANTS
  Main = Main
  Sub = Sub
  Limit = 10
INVARIANTS
  RequireHolds

\* The two threads of the code.  A child that uses a dead string has no step.
SPECIFICATION Spec
CONSTANTS
  Main = Main
  Child = Child
  Nobody = Nobody
  Threads <- MCThreads
CHECK_DEADLOCK FALSE
INVARIANTS
  FlagMarksTheEnd

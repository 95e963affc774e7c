\* The two threads and the limit of the code.
SPECIFICATION Spec
CONSTANTS
  Main = Main
  Workers = {Main, Sub}
  Limit = 10
INVARIANTS
  ReturnsLimit

\* The result complete (NRVO), the limit of the code.
SPECIFICATION Spec
CONSTANTS
  Main = Main
  c1 = c1
  c2 = c2
  Nobody = Nobody
  None = None
  Start = Start
  Threads <- MCThreads
  Limit = 10
  Builds = {"nrvo"}
INVARIANTS
  CallerGetsDigits

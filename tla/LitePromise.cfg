\* Three future objects: one from the promise, a copy or a default-constructed
\* one to assign to, and a third.  A client that stops, and the first undefined
\* step, end a behaviour.
SPECIFICATION Spec
CONSTANTS
  f1 = f1
  f2 = f2
  f3 = f3
  Futures <- MCFutures
CHECK_DEADLOCK FALSE
INVARIANTS
  BlockKept
  UseAfterFree
PROPERTIES
  ImplementsOneShot

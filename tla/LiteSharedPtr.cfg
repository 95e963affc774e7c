\* operator= may overwrite each object's reference twice.  A crash ends the
\* program, and the client may end.
SPECIFICATION Spec
CONSTANTS
  p1 = p1
  p2 = p2
  p3 = p3
  b1 = b1
  b2 = b2
  NullPtr = NullPtr
  Ptrs <- MCPtrs
  Blocks <- MCBlocks
  MaxLost = 2
CHECK_DEADLOCK FALSE
INVARIANTS
  CountCoversHolders
  ValueAlive
PROPERTIES
  ImplementsOwnership

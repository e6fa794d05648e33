\* Four blocks of two ints; the client resets no pool it has freed blocks of.
CONSTANTS
  ElementSize = 2
  Capacity = 4
  ResetAfterFree = FALSE
  Element <- MCElement
SPECIFICATION Spec
INVARIANT PoolOK
PROPERTY ImplementsBlockPool

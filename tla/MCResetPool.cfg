\* Three blocks, and a client that resets a pool it has freed blocks of.
CONSTANTS
  ElementSize = 2
  Capacity = 3
  ResetAfterFree = TRUE
  Element <- MCElement
SPECIFICATION Spec
INVARIANT SectionCoversPool

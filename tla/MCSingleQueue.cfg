\* One block in all.
CONSTANTS
  ElementSize = 2
  Capacity = 1
  NumQueues = 2
  Element <- MCElement
SPECIFICATION Spec
INVARIANT FullWhenExhausted

\* Three elements of two ints.
CONSTANTS
  ElementSize = 2
  Capacity = 3
  Element <- MCElement
SPECIFICATION Spec
INVARIANT RingOK
PROPERTIES ImplementsFIFO FrontIsOldest

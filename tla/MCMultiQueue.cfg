\* Two queues that share three blocks of two ints.
CONSTANTS
  ElementSize = 2
  Capacity = 3
  NumQueues = 2
  Element <- MCElement
SPECIFICATION Spec
INVARIANT QueuesOK
PROPERTIES ImplementsQueues EndsReturned

\* Six nodes for seven keys: every rotation a remove can need, and a full tree
\* that lacks a key.  Two values, so that one lost or moved to another key shows.
CONSTANTS
  Capacity = 6
  Keys = {1, 2, 3, 4, 5, 6, 7}
  Values = {1, 2}
SPECIFICATION Spec
VIEW UpToAddresses
INVARIANTS TreeOK NoLeak
PROPERTY ImplementsDictionary
CHECK_DEADLOCK FALSE

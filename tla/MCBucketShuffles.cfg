\* Every permutation of up to five elements, and some of up to 26: aborts, losses, two rounds of sprays.
CONSTANTS
  MaxArranged = 4
  MelbourneJobs <- MCMelbourneJobs
  CacheJobs <- MCCacheJobs
SPECIFICATION Spec
INVARIANTS Conserved RangesSplit Delivered AbortsOnlyWhenTight
PROPERTIES ShufflesEnd

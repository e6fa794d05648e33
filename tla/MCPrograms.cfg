\* Every input of a few elements over a few values, in every random order.
CONSTANTS
  MaxArranged = 7
  MaxIterations = 6
  META_SIZE = 8
  OB_SIZE = 8
  ObjectInts = 2
  ShadowInts = 64
  Calls <- MCCalls
SPECIFICATION Spec
INVARIANTS MergeSorts AbortsOnlyUnbalanced NetworkSorts SearchesFind CentersFixed FirstRoundDivides CountsRight MeansRight VerticesSummed PAOApart PAOShuffles

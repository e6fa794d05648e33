\* Up to five elements; six leave no set to the iterators, nine are refused.
CONSTANTS
  LineSize = 1
  L1Sets = 5
  L1Ways = 4
  ActiveWays = 3
  ReadNobWays = 2
  LLCSize = 40
  ShadowPages = 11
  AllocPage = 3
  MaxObjects = 3
  Kinds = {"r_ob", "nob"}
  Lens = {1, 2, 3, 4, 5, 6, 9}
  Value <- MCValue
  Zero = 0
  Written = {}
  Contents <- MCContents
  MaxSections = 1
  MaxRetries = 2
SPECIFICATION ShuffleSpec
INVARIANTS Shuffled LocalsMatch
PROPERTIES Ends

\* Six elements: arr_out leaves no set for the iterators.
CONSTANTS
  LineSize = 1
  L1Sets = 5
  L1Ways = 4
  ActiveWays = 3
  ReadNobWays = 2
  LLCSize = 40
  ShadowPages = 11
  AllocPage = 3
  MaxObjects = 3
  Kinds = {"r_ob", "nob"}
  Lens = {6}
  Value <- MCValue
  Zero = 0
  Written = {}
  Contents <- MCContents
  MaxSections = 1
  MaxRetries = 1
SPECIFICATION ShuffleSpec
PROPERTIES Terminates

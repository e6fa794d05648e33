\* Two sections of the same objects of every kind, rewinds and leaky writes between them; a short writer starves beside a long reader.
CONSTANTS
  LineSize = 1
  L1Sets = 5
  L1Ways = 3
  ActiveWays = 2
  ReadNobWays = 2
  LLCSize = 40
  ShadowPages = 8
  AllocPage = 2
  MaxObjects = 2
  Kinds = {"r_ob", "w_ob", "nob", "r_nob"}
  Lens = {1, 3}
  Value <- MCValue
  Zero = 0
  Written = {1}
  Contents <- MCContents
  MaxSections = 2
SPECIFICATION Spec
INVARIANTS TypeOK ChunkReady IInv CopiesMatch NoAlias L1Resident
PROPERTIES CommittedStable ImplementsObliviousArrays

SPECIFICATION PairSpec
CONSTANTS
  root1 = root1
  p1 = p1
  p2 = p2
  int = int
  NoObj = NoObj
  Vectors <- MCVectors
  Pairs <- MCPairs
  Atoms = {}
  Prims <- MCPrims
  Stubborn = {}
  InitialSlots = 4
  Enlarge = FALSE
  ByteBits = 4
  MaxSlots = 4
  MaxLen = 2
PROPERTY VisitedListsAreMarked
CHECK_DEADLOCK FALSE

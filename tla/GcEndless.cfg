SPECIFICATION FairSpec
CONSTANTS
  v1 = v1
  v2 = v2
  v3 = v3
  a1 = a1
  prim = prim
  NoObj = NoObj
  Vectors <- TwoVectors
  Atoms <- OneAtom
  Prims <- NoneOfThem
  Stubborn <- NoneOfThem
  MaxLen = 2
  InitialSlots = 4
  Enlarge = FALSE
  ByteBits = 2
  MaxSlots = 4
PROPERTIES RecycleEnds

SPECIFICATION FairSpec
CONSTANTS
  v1 = v1
  v2 = v2
  v3 = v3
  a1 = a1
  prim = prim
  NoObj = NoObj
  Vectors <- ThreeVectors
  Atoms <- OneAtom
  Prims <- OnePrim
  Stubborn <- NoneOfThem
  MaxLen = 2
  InitialSlots = 3
  Enlarge = FALSE
  ByteBits = 3
  MaxSlots = 4
PROPERTIES FlatHeapRecycleEnds

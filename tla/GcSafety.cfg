SPECIFICATION Spec
CONSTANTS
  v1 = v1
  v2 = v2
  v3 = v3
  a1 = a1
  prim = prim
  NoObj = NoObj
  Vectors <- ThreeVectors
  Atoms <- OneAtom
  Prims <- NoneOfThem
  Stubborn <- OneAtom
  MaxLen = 2
  InitialSlots = 2
  Enlarge = TRUE
  ByteBits = 2
  MaxSlots = 4
SYMMETRY VectorSymmetry
INVARIANTS TypeOK SlotsMatchObjects FreeListExact UnionReadRight FlagsFit StackSufficesForTrees FlatHeapMarks IInv
PROPERTIES GarbageIsFreed RootFamilySurvives DeleteFreesAll FlatHeapProgress ImplementsCollector

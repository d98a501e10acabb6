SPECIFICATION Spec
CONSTANTS
  a1 = a1
  a2 = a2
  NoAlloc = NoAlloc
  NoBuffer = NoBuffer
  Allocs <- MCAllocs
  Buffers <- MCBuffers
  Kinds <- MCKinds
  MaxRaw = 1
  MaxCount <- MCMaxCount
INVARIANTS TypeOK CountsExact AllocatorsOutliveBuffers OwnershipExact

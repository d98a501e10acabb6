SPECIFICATION Spec
CONSTANTS
  v1 = v1
  v2 = v2
  b1 = b1
  b2 = b2
  b3 = b3
  n1 = n1
  o1 = o1
  NullObj = NullObj
  NoVec = NoVec
  Vecs <- TwoVectors
  Buffers <- ThreeBuffers
  Values <- GoodValues
  Queries <- FewQueries
  Indices <- FewIndices
  Lengths <- OneLength
  Minimal = 1
  MaxSlots = 2
  MaxPos = 1
SYMMETRY BufferSymmetry
PROPERTIES ErrorsKeepOutput

SPECIFICATION Spec
CONSTANTS
  NoString = NoString
  Bytes <- MCBytes
  MaxLen = 5
INVARIANTS TypeOK WritesInBuffer PassesAgree WellFormedIsDecoded DuplicateIsSame

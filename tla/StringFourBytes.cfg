SPECIFICATION Spec
CONSTANTS
  NoString = NoString
  Bytes <- MCBytes
  MaxLen = 4
INVARIANT EveryFormIsAccepted

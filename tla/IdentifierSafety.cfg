SPECIFICATION Spec
CONSTANTS
  NoString = NoString
  Inputs <- MCInputs
INVARIANTS TypeOK TablesFit VerdictRight OverrunsOnlyEmpty
CHECK_DEADLOCK FALSE

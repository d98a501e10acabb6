SPECIFICATION FairSpec
CONSTANTS
  p1 = p1
  p2 = p2
  p3 = p3
  int = int
  End = End
  None = None
  Pairs <- MCPairs
  Chars <- MCChars
  Prims <- MCPrims
  MaxSeen = 3
INVARIANTS TypeOK TailsAreTrusted IteratorFollowsList
PROPERTIES IsListAnswersRight IsListReturns IsListProgress CircleNeverReturns

--------------------------- MODULE MCManagedPairs ---------------------------
(* The smallest heap in which step 2 visits a pair that has a tail: a root  *)
(* vector of two elements and a list of two pairs.                          *)
EXTENDS ManagedPairsInv

CONSTANTS root1, p1, p2, int

MCVectors == {root1, p1, p2}
MCPairs   == {p1, p2}
MCPrims   == {int}
=============================================================================

----------------------------- MODULE MCEschPair -----------------------------
(* An instance of EschPair for TLC: three pairs and one value that every    *)
(* operation accepts.  A character differs from it only in that the setters *)
(* refuse it, so it adds no list that the number does not give.             *)
EXTENDS EschPair

CONSTANTS p1, p2, p3, int

MCPairs == {p1, p2, p3}
MCChars == {}
MCPrims == {int}
=============================================================================

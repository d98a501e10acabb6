----------------------------- MODULE MCEschVector -----------------------------
(***************************************************************************)
(* Values of the constants of EschVector for TLC.                          *)
(***************************************************************************)
EXTENDS EschVector, TLC

CONSTANTS v1, v2, b1, b2, b3, n1, o1

Integer1 == [type |-> "INTEGER", val |-> n1]
Object1  == [type |-> "OBJECT", val |-> o1]

TwoVectors  == {v1, v2}
ThreeBuffers == {b1, b2, b3}
GoodValues  == {Integer1, Object1, EndValue}
FewIndices  == {-2, -1, 1}
FewQueries  == {"INTEGER", "END"}
OneLength   == {0}

BufferSymmetry == Permutations(Buffers)
=============================================================================

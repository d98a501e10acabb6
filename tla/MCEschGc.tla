------------------------------ MODULE MCEschGc ------------------------------
(***************************************************************************)
(* Instances of EschGc for TLC.  Objects are model values; those of one    *)
(* kind are interchangeable, so safety runs use their symmetry.            *)
(***************************************************************************)
EXTENDS EschGcInv, TLC

CONSTANTS v1, v2, v3, a1, prim

TwoVectors   == {v1, v2}
ThreeVectors == {v1, v2, v3}
OneAtom      == {a1}
OnePrim      == {prim}
NoneOfThem   == {}

VectorSymmetry == Permutations(ThreeVectors)
=============================================================================

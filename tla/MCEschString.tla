---------------------------- MODULE MCEschString ----------------------------
(* An instance of EschString for TLC: every class of bytes, in texts of up  *)
(* to five, one more than a code point can have.                            *)
EXTENDS EschString

MCBytes == {"one", "two", "three", "four", "cont", "other"}
=============================================================================

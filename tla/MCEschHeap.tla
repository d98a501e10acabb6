----------------------------- MODULE MCEschHeap -----------------------------
(* An instance of EschHeap for TLC.  Five buffers hold a configuration and  *)
(* a vector while it is copied, or a string on its own.  Pairs have no      *)
(* buffer but the object and collectors have three more: vectors and        *)
(* strings stand between them.                                              *)
EXTENDS EschHeap, TLC

CONSTANTS a1, a2

MCAllocs  == {a1, a2}
MCBuffers == 1 .. 5
MCKinds   == {"string", "vector", "type", "custom"}

\* The second allocator gives no buffers: it is there to be handed those of
\* the first.
MCMaxCount == (a1 :> 6) @@ (a2 :> 0)
=============================================================================

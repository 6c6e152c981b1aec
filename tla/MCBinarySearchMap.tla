------------------------- MODULE MCBinarySearchMap -------------------------
(* The keys 1 .. MaxKey: only their order matters. *)
EXTENDS BinarySearchMap

CONSTANT MaxKey

MCKeys == 1 .. MaxKey
=============================================================================

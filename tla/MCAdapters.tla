----------------------------- MODULE MCAdapters -----------------------------
(* Elements of two bytes and sizes below 64: of the requests, 31 fits        *)
(* before it is multiplied by 1.3 and 33 wraps to one element.               *)
EXTENDS Adapters, TLC

SomeRequests == {0, 1, 3, 31, 33}

NodeSymmetry == Permutations(Nodes)
=============================================================================

----------------------------- MODULE MCHashTrie -----------------------------
(* Sizes below 8: enough to tell -2 from the five that two interrupted calls *)
(* and three keys can make of a length.                                      *)
EXTENDS HashTrie, TLC

KeySymmetry == Permutations(Keys)
=============================================================================

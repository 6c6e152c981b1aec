------------------------------ MODULE MCDeque ------------------------------
(* Three elements: one to be at each end and one in between.                *)
EXTENDS Deque, TLC

ElementSymmetry == Permutations(Links)
=============================================================================

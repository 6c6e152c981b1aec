-------------------------- MODULE MCLinearProbing --------------------------
(* Every hash function; keys and values are only compared with each other.  *)
EXTENDS LinearProbing, TLC

MCHashFunctions == [Keys -> Distance]
MCSymmetry      == Permutations(Keys) \cup Permutations(Values)
=============================================================================

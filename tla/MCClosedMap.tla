---------------------------- MODULE MCClosedMap ----------------------------
(* The keys 1 .. MaxKey, which the table only tests for equality: of the    *)
(* hash functions those that do not decrease stand for all, but those that  *)
(* leave the first bucket empty, as every table is to begin with.           *)
EXTENDS ClosedMap

CONSTANTS MaxKey

MCKeys == 1 .. MaxKey
MCHashFunctions ==
  {f \in [Keys -> Buckets] :
     f[1] = 0 /\ \A j, k \in Keys : j < k => f[j] <= f[k]}
=============================================================================

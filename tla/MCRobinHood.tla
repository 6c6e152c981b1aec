---------------------------- MODULE MCRobinHood ----------------------------
(* The keys 1 .. MaxKey, which the table only tests for equality, so that   *)
(* of the hash functions into HashRange those that do not decrease stand    *)
(* for all.  The homes 0, 1 and 7 are next to each other in a table of      *)
(* eight slots: clusters meet, wrap around and evict one another's entries. *)
(* Some key has home 0, the middle one, without which none are neighbours.  *)
EXTENDS RobinHood

CONSTANTS MaxKey, HashRange

MCKeys == 1 .. MaxKey
MCHashFunctions ==
  {f \in [Keys -> HashRange] :
     f[1] = 0 /\ \A j, k \in Keys : j < k => f[j] <= f[k]}
=============================================================================

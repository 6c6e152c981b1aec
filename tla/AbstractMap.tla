---------------------------- MODULE AbstractMap ----------------------------
(* What every map of libellul promises: a finite partial function from     *)
(* keys to values, changed one key at a time or emptied.                   *)
CONSTANTS Keys, Values

VARIABLE content

Without(k) == [x \in DOMAIN content \ {k} |-> content[x]]

Put(k, v) ==
  content' = [x \in DOMAIN content \cup {k} |-> IF x = k THEN v ELSE content[x]]
Remove(k) == k \in DOMAIN content /\ content' = Without(k)

Clear     == content' = [x \in {} |-> x]

Init == content = [x \in {} |-> x]
Next == Clear \/ \E k \in Keys : Remove(k) \/ \E v \in Values : Put(k, v)
Spec == Init /\ [][Next]_content
=============================================================================

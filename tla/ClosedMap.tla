----------------------------- MODULE ClosedMap -----------------------------
(***************************************************************************)
(* The hash table with closed addressing: an array of deques into which    *)
(* the caller's own entries are linked.  Its functions run to the end, but *)
(* foreach calls back: between two of its steps the callback may insert,   *)
(* find and remove, while the walk holds on to the link it saved before.   *)
(***************************************************************************)
EXTENDS Integers, FiniteSets, Functions, Ring

CONSTANTS
  Keys, Values,
  Entries,        \* the caller's T_MAP_ENTRY objects; the link comes first
  NBuckets,       \* T_MAP_NBUCKETS
  HashFunctions,  \* what the user's hash may be
  None

Buckets == 0 .. NBuckets - 1
Cells   == Buckets \cup Entries

ASSUME ClosedMapAssumption ==
  /\ NBuckets \in Nat \ {0}
  /\ IsFiniteSet(Entries)
  /\ Entries \cap Buckets = {}
  /\ None \notin Cells \cup Keys
  /\ HashFunctions \subseteq [Keys -> Nat]

VARIABLES
  hash,
  live,      \* new has been called, and delete has not
  ring,      \* the links of the bucket heads and of the entries
  key, val,  \* the fields of the entries in the table; the caller fills in
             \* those of the others, None here, before it inserts them
  size,
  walk,      \* the foreach being executed: bucket, entry given, saved link
  slip,      \* "removed" once a callback removed the entry that comes next,
             \* "undefined" when the walk took a bucket head for an entry
  seen,      \* history: entries the walk has given since they were inserted
  stable     \* history: in the table since the walk began

table   == <<hash, live, ring, key, val, size>>
history == <<slip, seen, stable>>
vars    == <<table, walk, history>>

linked  == {e \in Entries : key[e] # None}

Off     == [bucket |-> NBuckets, cur |-> None, nxt |-> None]
Walking == walk # Off

(* The caller's code runs: outside a foreach or in its callback. *)
Calling == slip # "undefined" /\ (Walking => walk.cur \in Entries)

Bucket(k)  == hash[k] % NBuckets
Chain(b)   == Around(ring.next, b, Cardinality(Entries))
Members    == UNION {Range(Chain(b)) : b \in Buckets}

(* Of the entries of its bucket that equal a key, the one that comes first, *)
(* or the one that comes last.                                              *)
Lookup(k, first) ==
  LET chain == Chain(Bucket(k))
      hits  == {n \in DOMAIN chain : key[chain[n]] = k}
      here  == CHOOSE n \in hits : \A m \in hits : IF first THEN n <= m ELSE n >= m
  IN  IF hits = {} THEN None ELSE chain[here]

find(k) == IF live THEN Lookup(k, TRUE) ELSE None

-----------------------------------------------------------------------------
Fresh(r) == [next |-> [c \in Cells |-> IF c \in Buckets THEN c ELSE r.next[c]],
             prev |-> [c \in Cells |-> IF c \in Buckets THEN c ELSE r.prev[c]]]

New ==
  /\ ~live
  /\ live' = TRUE
  /\ ring' = Fresh(ring)
  /\ size' = 0
  /\ UNCHANGED <<hash, key, val, walk, history>>

(* The entries stay with the caller, their links as they were. *)
Delete ==
  /\ live /\ ~Walking /\ Calling
  /\ live' = FALSE
  /\ ring' = Fresh(ring)
  /\ key' = [e \in Entries |-> None] /\ val' = key'
  /\ size' = 0
  /\ UNCHANGED <<hash, walk, history>>

Link(e, k, v, r) ==
  /\ ring' = r
  /\ key' = [key EXCEPT ![e] = k]
  /\ val' = [val EXCEPT ![e] = v]
  /\ size' = size + 1
  /\ seen' = seen \ {e}

(* Variant: all entries go to the same bucket.                              *)
Insert_LastBucket(e, k, v) ==
  /\ live /\ Calling
  /\ e \in linked => key[e] = k
  /\ LET found == Lookup(k, TRUE) IN
     \/ /\ found = None
        /\ Link(e, k, v, AddBack(LinkInit(ring, e), NBuckets - 1, e))
     \/ /\ found # None
        /\ val' = [val EXCEPT ![found] = v]
        /\ UNCHANGED <<ring, key, size, seen>>
  /\ UNCHANGED <<hash, live, walk, slip, stable>>

(* The caller fills in an entry and inserts it; the key of an entry that is *)
(* in the table stays as it is.  An equal key only gets the new value.      *)
Insert(e, k, v) ==
  /\ live /\ Calling
  /\ e \in linked => key[e] = k
  /\ LET found == Lookup(k, TRUE) IN
     \/ /\ found = None
        /\ Link(e, k, v, AddBack(LinkInit(ring, e), Bucket(k), e))
     \/ /\ found # None
        /\ val' = [val EXCEPT ![found] = v]
        /\ UNCHANGED <<ring, key, size, seen>>
  /\ UNCHANGED <<hash, live, walk, slip, stable>>

Take(e) ==
  /\ key' = [key EXCEPT ![e] = None]
  /\ val' = [val EXCEPT ![e] = None]
  /\ size' = size - 1
  /\ stable' = stable \ {e}
  /\ slip' = IF Walking /\ e = walk.nxt THEN "removed" ELSE slip

(* Variant: the chain is cut where the entry was.                           *)
Remove_Truncates(k) ==
  /\ live /\ Calling
  /\ LET e == Lookup(k, FALSE) IN
     /\ e # None
     /\ ring' = [next |-> [ring.next EXCEPT ![ring.prev[e]] = Bucket(k), ![e] = e],
                 prev |-> [ring.prev EXCEPT ![Bucket(k)] = ring.prev[e], ![e] = e]]
     /\ Take(e)
  /\ UNCHANGED <<hash, live, walk, seen>>

(* Variant: the neighbours are joined in one direction only.                *)
Remove_OneWay(k) ==
  /\ live /\ Calling
  /\ LET e == Lookup(k, FALSE) IN
     /\ e # None
     /\ ring' = [Unlink(ring, e) EXCEPT !.prev[ring.next[e]] = e]
     /\ Take(e)
  /\ UNCHANGED <<hash, live, walk, seen>>

(* The break leaves only the inner one of the two loops that deque_foreach  *)
(* is made of: the search goes on, and the last hit counts.                 *)
Remove(k) ==
  /\ live /\ Calling
  /\ LET e == Lookup(k, FALSE) IN
     /\ e # None
     /\ ring' = Unlink(ring, e)
     /\ Take(e)
  /\ UNCHANGED <<hash, live, walk, seen>>

-----------------------------------------------------------------------------
(* foreach *)

Enter(b) == walk' = [bucket |-> b, cur |-> None, nxt |-> ring.next[b]]

Foreach ==
  /\ live /\ ~Walking /\ Calling
  /\ Enter(0)
  /\ seen' = {}
  /\ stable' = linked
  /\ UNCHANGED <<table, slip>>

(* The end of a bucket: the walk has come back to its head. *)
WalkOn ==
  /\ walk.nxt = walk.bucket
  /\ IF walk.bucket + 1 \in Buckets
       THEN Enter(walk.bucket + 1) /\ UNCHANGED history
       ELSE walk' = Off /\ slip' = "none" /\ seen' = {} /\ stable' = {}

(* Variant: the next link is read when the callback has returned.           *)
WalkNext_Rereads ==
  /\ Walking /\ slip # "undefined"
  /\ LET l == IF walk.cur = None THEN walk.nxt ELSE ring.next[walk.cur] IN
     \/ /\ l = walk.bucket
        /\ IF walk.bucket + 1 \in Buckets
             THEN Enter(walk.bucket + 1) /\ UNCHANGED history
             ELSE walk' = Off /\ slip' = "none" /\ seen' = {} /\ stable' = {}
     \/ /\ l \in Entries
        /\ walk' = [walk EXCEPT !.cur = l, !.nxt = ring.next[l]]
        /\ seen' = seen \cup {l}
        /\ UNCHANGED <<slip, stable>>
  /\ UNCHANGED table

(* Variant: the walk skips the first entry of each bucket.                  *)
WalkNext_SkipsFirst ==
  /\ Walking /\ slip # "undefined"
  /\ \/ WalkOn
     \/ /\ walk.nxt \in Entries
        /\ walk' = IF walk.cur = None /\ ring.next[walk.nxt] \in Entries
                     THEN [walk EXCEPT !.cur = ring.next[walk.nxt],
                                       !.nxt = ring.next[ring.next[walk.nxt]]]
                     ELSE [walk EXCEPT !.cur = walk.nxt, !.nxt = ring.next[walk.nxt]]
        /\ seen' = seen \cup {walk'.cur}
        /\ UNCHANGED <<slip, stable>>
     \/ /\ walk.nxt \in Buckets \ {walk.bucket}
        /\ slip' = "undefined"
        /\ UNCHANGED <<walk, seen, stable>>
  /\ UNCHANGED table

(* The callback returns and the link that was saved before it is followed.  *)
(* If that entry is in another bucket by now, the walk will not see its own *)
(* head again and hands the callback a bucket head for an entry.            *)
WalkNext ==
  /\ Walking /\ slip # "undefined"
  /\ \/ WalkOn
     \/ /\ walk.nxt \in Entries
        /\ walk' = [walk EXCEPT !.cur = walk.nxt, !.nxt = ring.next[walk.nxt]]
        /\ seen' = seen \cup {walk.nxt}
        /\ UNCHANGED <<slip, stable>>
     \/ /\ walk.nxt \in Buckets \ {walk.bucket}
        /\ slip' = "undefined"
        /\ UNCHANGED <<walk, seen, stable>>
  /\ UNCHANGED table

Halted == slip = "undefined" /\ UNCHANGED vars

-----------------------------------------------------------------------------
Init ==
  /\ hash \in HashFunctions
  /\ live = FALSE
  /\ ring = [next |-> [c \in Cells |-> c], prev |-> [c \in Cells |-> c]]
  /\ key = [e \in Entries |-> None]
  /\ val = [e \in Entries |-> None]
  /\ size = 0
  /\ walk = Off
  /\ slip = "none"
  /\ seen = {} /\ stable = {}

Next ==
  \/ New \/ Delete \/ Foreach \/ WalkNext \/ Halted
  \/ \E k \in Keys :
       Remove(k) \/ \E e \in Entries, v \in Values : Insert(e, k, v)

Spec     == Init /\ [][Next]_vars
FairSpec == Spec /\ WF_vars(WalkNext)

-----------------------------------------------------------------------------
(* Properties *)

TypeOK ==
  /\ hash \in HashFunctions
  /\ live \in BOOLEAN
  /\ ring \in [next : [Cells -> Cells], prev : [Cells -> Cells]]
  /\ key \in [Entries -> Keys \cup {None}] /\ val \in [Entries -> Values \cup {None}]
  /\ size \in Nat
  /\ walk \in [bucket : Nat, cur : Cells \cup {None}, nxt : Cells \cup {None}]
  /\ slip \in {"none", "removed", "undefined"}
  /\ seen \subseteq Entries /\ stable \subseteq Entries

HomeOf(c) == IF c \in Buckets THEN c ELSE Bucket(key[c])

(* The types; and whatever callbacks do, the links of the entries in the    *)
(* table form closed rings around the heads, of which none leads from one   *)
(* bucket to another.                                                       *)
RingsClosed ==
  /\ TypeOK
  /\ Closed(ring, Buckets \cup linked)
  /\ \A c \in Buckets \cup linked : HomeOf(ring.next[c]) = HomeOf(c)

(* No entry is lost or counted twice: the chains hold what was inserted and *)
(* not removed, size is their number, and each is found, hence one per key. *)
EntriesExact ==
  /\ Members = linked
  /\ size = Cardinality(linked)
  /\ \A e \in linked : find(key[e]) = e

Content == [k \in {key[e] : e \in Members} |-> val[CHOOSE e \in linked : key[e] = k]]

(* What the chains hold is a map, whoever inserts and removes: no operation *)
(* on one key makes another appear, disappear or change its value.          *)
Map == INSTANCE AbstractMap WITH content <- Content
ImplementsMap == Map!Init /\ [][Map!Next]_table

(* The callback is only given entries that are in the table, and one it has *)
(* been given before only if it was removed and inserted again in between;  *)
(* a walk that ends has given every entry that stayed in the table.         *)
WalkExact ==
  [][slip = "none" /\ Walking =>
       /\ walk'.cur # walk.cur /\ walk'.cur \in Entries => walk'.cur \in linked \ seen
       /\ walk' = Off => stable \subseteq seen]_vars

(* A walk ends if its callbacks leave the next entry in place and do not go *)
(* on inserting for ever.                                                   *)
WalkEnds ==
  \/ []<>~Walking
  \/ <>(slip # "none")
  \/ []<><<Walking /\ size' > size>>_vars
=============================================================================

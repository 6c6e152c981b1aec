-------------------------- MODULE ClosedMapProofs --------------------------
(***************************************************************************)
(* Proofs about the hash table with closed addressing, for every number of *)
(* buckets and of entries and every hash function: however walks and their *)
(* callbacks interleave, the chains are closed rings that hold exactly the *)
(* entries that were inserted and not removed, each where find looks, and  *)
(* together they are a map.                                                *)
(***************************************************************************)
EXTENDS ClosedMap, RingProofs

InBucket(b) == {e \in linked : Bucket(key[e]) = b}

(* The entries of the bucket b are linked, in some order, around its head. *)
Chained(b) ==
  \E n \in Nat : \E g \in Numbering(Cells, n) :
    Ordered(ring, b, g, n) /\ Elements(g, n) = InBucket(b)

IInv ==
  /\ TypeOK
  /\ \A b \in Buckets : Chained(b)
  /\ size = Cardinality(linked)
  /\ \A d, e \in linked : key[d] = key[e] => d = e
  /\ ~live => linked = {}

-----------------------------------------------------------------------------
(* Buckets, chains and what Lookup finds in them *)

LEMMA Modulo == ASSUME NEW n \in Nat PROVE n % NBuckets \in Buckets
BY ClosedMapAssumption DEF Buckets

LEMMA HomeBucket == ASSUME TypeOK, NEW k \in Keys PROVE Bucket(k) \in Buckets
<1>1. hash[k] \in Nat
  BY ClosedMapAssumption DEF TypeOK
<1> QED
  BY <1>1, Modulo DEF Bucket

LEMMA EntryHome == ASSUME TypeOK, NEW e \in linked
                   PROVE  e \in Entries /\ key[e] \in Keys /\ Bucket(key[e]) \in Buckets /\ e \notin Buckets
<1>1. e \in Entries /\ key[e] \in Keys /\ e \notin Buckets
  BY ClosedMapAssumption DEF TypeOK, linked
<1> QED
  BY <1>1, HomeBucket

LEMMA RingType == ASSUME TypeOK PROVE ring \in Rings(Cells) /\ Buckets \subseteq Cells /\ Entries \subseteq Cells
BY DEF TypeOK, Rings, Cells

(* Going around a bucket gives its entries, once each. *)
LEMMA ChainIs ==
  ASSUME TypeOK, NEW b \in Buckets, Chained(b)
  PROVE  \E n \in Nat : /\ DOMAIN Chain(b) = 1 .. n
                        /\ \A i \in 1 .. n : Chain(b)[i] \in InBucket(b)
                        /\ \A e \in InBucket(b) : \E i \in 1 .. n : Chain(b)[i] = e
                        /\ \A i, j \in 1 .. n : Chain(b)[i] = Chain(b)[j] => i = j
<1>1. PICK n \in Nat : \E g \in Numbering(Cells, n) :
                         Ordered(ring, b, g, n) /\ Elements(g, n) = InBucket(b)
  BY DEF Chained
<1>2. PICK g \in Numbering(Cells, n) : Ordered(ring, b, g, n) /\ Elements(g, n) = InBucket(b)
  BY <1>1
<1>3. Cardinality(Entries) \in Nat /\ n \in 0 .. Cardinality(Entries)
  <2>1. Elements(g, n) \subseteq Entries /\ IsFiniteSet(Entries)
    BY <1>2, ClosedMapAssumption DEF InBucket, linked
  <2>2. Cardinality(Elements(g, n)) = n
    BY <1>2, NumbersCount DEF Ordered
  <2>3. Cardinality(Elements(g, n)) <= Cardinality(Entries)
    BY <2>1, FS_Subset
  <2>4. Cardinality(Entries) \in Nat
    BY <2>1, FS_CardinalityType
  <2> QED
    BY <2>2, <2>3, <2>4
<1>4. Chain(b) = Numbered(g, n)
  <2>1. ring \in Rings(Cells) /\ b \in Cells
    BY RingType
  <2>2. Cardinality(Entries) \in Nat /\ n \in 0 .. Cardinality(Entries)
    BY <1>3
  <2>3. Around(ring.next, b, Cardinality(Entries)) = Numbered(g, n)
    <3>1. Cycle(ring.next, b, g, n, Cells)
      BY <1>2, <2>1 DEF Cycle, Ordered, Numbering, Rings
    <3> QED
      BY <2>2, <3>1, AroundOrdered
  <2> QED
    BY <2>3 DEF Chain
<1>5. DOMAIN Chain(b) = 1 .. n /\ \A i \in 1 .. n : Chain(b)[i] = g[i]
  BY <1>4 DEF Numbered
<1>6. /\ \A i \in 1 .. n : g[i] \in InBucket(b)
      /\ \A e \in InBucket(b) : \E i \in 1 .. n : g[i] = e
      /\ \A i, j \in 1 .. n : g[i] = g[j] => i = j
  BY <1>2 DEF Elements, Ordered
<1> QED
  BY <1>5, <1>6

(* An entry that equals the key, if there is one in the table. *)
LEMMA LookupIs ==
  ASSUME IInv, NEW k \in Keys, NEW first \in BOOLEAN
  PROVE  \/ Lookup(k, first) = None /\ \A d \in linked : key[d] # k
         \/ Lookup(k, first) \in linked /\ key[Lookup(k, first)] = k
<1> DEFINE b == Bucket(k)
           chain == Chain(b)
           hits  == {n \in DOMAIN chain : key[chain[n]] = k}
           here  == CHOOSE n \in hits : \A m \in hits : IF first THEN n <= m ELSE n >= m
<1>1. TypeOK /\ b \in Buckets /\ Chained(b)
  BY HomeBucket DEF IInv
<1>2. PICK n \in Nat : /\ DOMAIN chain = 1 .. n
                       /\ \A i \in 1 .. n : chain[i] \in InBucket(b)
                       /\ \A e \in InBucket(b) : \E i \in 1 .. n : chain[i] = e
                       /\ \A i, j \in 1 .. n : chain[i] = chain[j] => i = j
  BY <1>1, ChainIs
<1>3. Lookup(k, first) = IF hits = {} THEN None ELSE chain[here]
  BY DEF Lookup
<1>4. CASE hits = {}
  <2>1. ASSUME NEW d \in linked, key[d] = k PROVE FALSE
    <3>1. d \in InBucket(b)
      BY <2>1 DEF InBucket
    <3>2. PICK i \in 1 .. n : chain[i] = d
      BY <1>2, <3>1
    <3> QED
      BY <1>2, <1>4, <2>1, <3>2
  <2> QED
    BY <1>3, <1>4, <2>1
<1>5. CASE hits # {}
  <2>1. PICK i : i \in hits
    BY <1>5
  <2>2. hits \subseteq 1 .. n /\ \A m \in hits : key[chain[m]] = k
    BY <1>2
  <2>3. \A m \in hits : chain[m] \in linked
    BY <1>2, <2>2 DEF InBucket
  <2> HIDE DEF hits, chain
  <2>4. \A m \in hits : m = i
    <3>1. \A d, e \in linked : key[d] = key[e] => d = e
      BY DEF IInv
    <3> QED
      BY <1>2, <2>1, <2>2, <2>3, <3>1
  <2>5. i <= i /\ i >= i
    BY <2>1, <2>2
  <2>6. \A m \in hits : IF first THEN i <= m ELSE i >= m
    BY <2>4, <2>5
  <2>7. here \in hits
    BY <2>1, <2>6
  <2> HIDE DEF here
  <2> QED
    BY <1>3, <1>5, <2>2, <2>3, <2>7
<1> QED
  BY <1>4, <1>5

(* find gives nothing exactly when the key is not there. *)
LEMMA FirstIs ==
  ASSUME IInv, NEW k \in Keys
  PROVE  \/ Lookup(k, TRUE) = None /\ \A d \in linked : key[d] # k
         \/ Lookup(k, TRUE) \in linked /\ key[Lookup(k, TRUE)] = k
<1>1. PICK yes \in BOOLEAN : yes = TRUE
  OBVIOUS
<1> QED
  BY <1>1, LookupIs

LEMMA LastIs ==
  ASSUME IInv, NEW k \in Keys
  PROVE  \/ Lookup(k, FALSE) = None /\ \A d \in linked : key[d] # k
         \/ Lookup(k, FALSE) \in linked /\ key[Lookup(k, FALSE)] = k
<1>1. PICK no \in BOOLEAN : no = FALSE
  OBVIOUS
<1> QED
  BY <1>1, LookupIs

-----------------------------------------------------------------------------
(* What the operations leave of the chains *)

(* A bucket that keeps its entries, and their links, stays chained. *)
LEMMA ChainSame ==
  ASSUME NEW b, Chained(b), InBucket(b)' = InBucket(b),
         \A c \in InBucket(b) \cup {b} : ring'.next[c] = ring.next[c] /\ ring'.prev[c] = ring.prev[c]
  PROVE  Chained(b)'
<1>1. PICK n \in Nat : \E g \in Numbering(Cells, n) :
                         Ordered(ring, b, g, n) /\ Elements(g, n) = InBucket(b)
  BY DEF Chained
<1>2. PICK g \in Numbering(Cells, n) : Ordered(ring, b, g, n) /\ Elements(g, n) = InBucket(b)
  BY <1>1
<1>3. Ordered(ring', b, g, n)
  BY <1>2, OrderedSame
<1> QED
  BY <1>2, <1>3 DEF Chained

(* The heads of New and Delete are deques without elements. *)
LEMMA FreshChained ==
  ASSUME TypeOK, ring' = Fresh(ring), linked' = {}
  PROVE  ring' \in Rings(Cells) /\ \A b \in Buckets : Chained(b)'
<1>1. ring' \in Rings(Cells)
  BY RingType DEF Fresh, Rings
<1>2. ASSUME NEW b \in Buckets PROVE Chained(b)'
  <2> DEFINE g == [i \in 0 .. 0 + 1 |-> b]
  <2>1. ring'.next[b] = b /\ ring'.prev[b] = b /\ b \in Cells
    BY DEF Fresh, Cells
  <2>2. g \in Numbering(Cells, 0)
    BY <2>1 DEF Numbering
  <2>3. Ordered(ring', b, g, 0) /\ Elements(g, 0) = {}
    BY <2>1 DEF Ordered, Elements
  <2>4. InBucket(b)' = {}
    BY DEF InBucket
  <2> HIDE DEF g
  <2> QED
    BY <2>2, <2>3, <2>4 DEF Chained
<1> QED
  BY <1>1, <1>2

(* The links of a bucket stay within it. *)
LEMMA ChainClosed ==
  ASSUME NEW b, Chained(b), NEW c \in InBucket(b) \cup {b}
  PROVE  /\ ring.next[c] \in InBucket(b) \cup {b} /\ ring.prev[ring.next[c]] = c
         /\ ring.prev[c] \in InBucket(b) \cup {b} /\ ring.next[ring.prev[c]] = c
<1>1. PICK n \in Nat : \E g \in Numbering(Cells, n) :
                         Ordered(ring, b, g, n) /\ Elements(g, n) = InBucket(b)
  BY DEF Chained
<1>2. PICK g \in Numbering(Cells, n) : Ordered(ring, b, g, n) /\ Elements(g, n) = InBucket(b)
  BY <1>1
<1>3. Closed(ring, InBucket(b) \cup {b})
  BY <1>2, OrderedClosed
<1> QED
  BY <1>3 DEF Closed

(* Entries of two buckets, and their heads, are different cells. *)
LEMMA BucketsApart ==
  ASSUME TypeOK, NEW a \in Buckets, NEW b \in Buckets, a # b,
         NEW c \in InBucket(a) \cup {a}, NEW d \in InBucket(b) \cup {b}
  PROVE  c # d
<1>1. \A e \in linked : e \notin Buckets
  BY EntryHome
<1> QED
  BY <1>1 DEF InBucket

(* An entry that is linked to its bucket. *)
LEMMA LinkChained ==
  ASSUME IInv, NEW k \in Keys, NEW e \in Entries \ linked, NEW v,
         \A d \in linked : key[d] # k,
         Link(e, k, v, AddBack(LinkInit(ring, e), Bucket(k), e)), hash' = hash
  PROVE  /\ ring' \in Rings(Cells)
         /\ linked' = linked \cup {e}
         /\ \A b \in Buckets : Chained(b)'
<1>0. PICK h \in Buckets : h = Bucket(k)
  BY HomeBucket DEF IInv
<1>1. TypeOK /\ h \in Buckets /\ h \in Cells /\ e \in Cells /\ e \notin Buckets /\ ring \in Rings(Cells)
  BY RingType, ClosedMapAssumption DEF IInv
<1>2. key' = [key EXCEPT ![e] = k] /\ ring' = AddBack(LinkInit(ring, e), h, e) /\ key \in [Entries -> Keys \cup {None}]
      /\ k # None
  BY <1>0, <1>1, ClosedMapAssumption DEF Link, TypeOK
<1>3. linked' = linked \cup {e}
  BY <1>2 DEF linked
<1>4. \A x : Bucket(x)' = Bucket(x)
  BY DEF Bucket
<1>5. /\ InBucket(h)' = InBucket(h) \cup {e}
      /\ \A b \in Buckets : b # h => InBucket(b)' = InBucket(b)
  <2>1. key'[e] = k /\ \A d \in linked : key'[d] = key[d]
    BY <1>2 DEF linked
  <2>2. \A b : InBucket(b)' = {d \in linked \cup {e} : Bucket(key'[d]) = b}
    BY <1>3, <1>4 DEF InBucket
  <2>3. ASSUME NEW b \in Buckets, NEW d
        PROVE  d \in InBucket(b)' <=> d \in InBucket(b) \/ (d = e /\ b = h)
    BY <1>0, <2>1, <2>2 DEF InBucket
  <2> QED
    BY <2>3
<1>6. Chained(h)
  BY <1>1 DEF IInv
<1>7. PICK n \in Nat : \E g \in Numbering(Cells, n) :
                         Ordered(ring, h, g, n) /\ Elements(g, n) = InBucket(h)
  BY <1>6 DEF Chained
<1>8. PICK g \in Numbering(Cells, n) : Ordered(ring, h, g, n) /\ Elements(g, n) = InBucket(h)
  BY <1>7
<1>9. e \notin Elements(g, n) /\ e # h
  BY <1>1, <1>8 DEF InBucket
<1>10. /\ ring' \in Rings(Cells)
       /\ \E f \in Numbering(Cells, n + 1) :
            Ordered(ring', h, f, n + 1) /\ Elements(f, n + 1) = Elements(g, n) \cup {e}
  BY <1>1, <1>2, <1>8, <1>9, AddBackOrdered
<1>11. Chained(h)'
  <2>1. n + 1 \in Nat
    OBVIOUS
  <2> QED
    BY <1>4, <1>5, <1>8, <1>10, <2>1 DEF Chained
<1>12. ASSUME NEW b \in Buckets, b # h PROVE Chained(b)'
  <2>1. Chained(b)
    BY DEF IInv
  <2>2. ring.prev[h] \in InBucket(h) \cup {h}
    BY <1>6, ChainClosed
  <2>3. ASSUME NEW c \in InBucket(b) \cup {b}
        PROVE  ring'.next[c] = ring.next[c] /\ ring'.prev[c] = ring.prev[c]
    <3>1. c # ring.prev[h] /\ c # h
      BY <1>1, <1>12, <2>2, BucketsApart
    <3>2. c \in Cells /\ c # e /\ ring.prev[h] # e
      BY <1>1, <2>2, RingType DEF InBucket, linked
    <3>3. /\ ring'.next[c] = IF c = ring.prev[h] THEN e ELSE IF c = e THEN h ELSE ring.next[c]
          /\ ring'.prev[c] = IF c = h THEN e ELSE IF c = e THEN ring.prev[h] ELSE ring.prev[c]
      BY <1>1, <1>2, <3>2 DEF AddBack, LinkInit, Rings
    <3> QED
      BY <3>1, <3>2, <3>3
  <2> QED
    BY <1>5, <1>12, <2>1, <2>3, ChainSame
<1> QED
  BY <1>3, <1>10, <1>11, <1>12

(* An entry that is taken out of its bucket. *)
LEMMA UnlinkChained ==
  ASSUME IInv, NEW e \in linked, ring' = Unlink(ring, e),
         key' = [key EXCEPT ![e] = None], hash' = hash
  PROVE  /\ ring' \in Rings(Cells)
         /\ linked' = linked \ {e}
         /\ \A b \in Buckets : Chained(b)'
<1>0. PICK h \in Buckets : h = Bucket(key[e])
  BY EntryHome DEF IInv
<1>1. TypeOK /\ h \in Buckets /\ h \in Cells /\ e \in Cells /\ e \in Entries /\ e \notin Buckets
      /\ ring \in Rings(Cells) /\ key \in [Entries -> Keys \cup {None}]
  BY EntryHome, RingType DEF IInv, TypeOK
<1>2. linked' = linked \ {e}
  BY <1>1 DEF linked
<1>3. \A x : Bucket(x)' = Bucket(x)
  BY DEF Bucket
<1>4. /\ InBucket(h)' = InBucket(h) \ {e}
      /\ \A b \in Buckets : b # h => InBucket(b)' = InBucket(b)
      /\ e \in InBucket(h)
  <2>1. \A d \in linked \ {e} : key'[d] = key[d]
    BY <1>1 DEF linked
  <2>2. \A b : InBucket(b)' = {d \in linked \ {e} : Bucket(key'[d]) = b}
    BY <1>2, <1>3 DEF InBucket
  <2>3. ASSUME NEW b \in Buckets, NEW d
        PROVE  d \in InBucket(b)' <=> d \in InBucket(b) /\ d # e
    BY <2>1, <2>2 DEF InBucket
  <2>4. e \in InBucket(h) /\ \A b \in Buckets : b # h => e \notin InBucket(b)
    BY <1>0 DEF InBucket
  <2> QED
    BY <2>3, <2>4
<1>5. Chained(h)
  BY <1>1 DEF IInv
<1>6. PICK n \in Nat : \E g \in Numbering(Cells, n) :
                         Ordered(ring, h, g, n) /\ Elements(g, n) = InBucket(h)
  BY <1>5 DEF Chained
<1>7. PICK g \in Numbering(Cells, n) : Ordered(ring, h, g, n) /\ Elements(g, n) = InBucket(h)
  BY <1>6
<1>8. /\ ring' \in Rings(Cells) /\ n - 1 \in Nat
      /\ \E f \in Numbering(Cells, n - 1) :
           Ordered(ring', h, f, n - 1) /\ Elements(f, n - 1) = Elements(g, n) \ {e}
  BY <1>1, <1>4, <1>7, UnlinkOrdered
<1>9. Chained(h)'
  BY <1>4, <1>7, <1>8 DEF Chained
<1>10. ASSUME NEW b \in Buckets, b # h PROVE Chained(b)'
  <2>1. Chained(b)
    BY DEF IInv
  <2>2. ring.prev[e] \in InBucket(h) \cup {h} /\ ring.next[e] \in InBucket(h) \cup {h}
    BY <1>4, <1>5, ChainClosed
  <2>3. ASSUME NEW c \in InBucket(b) \cup {b}
        PROVE  ring'.next[c] = ring.next[c] /\ ring'.prev[c] = ring.prev[c]
    <3>1. c # ring.prev[e] /\ c # ring.next[e] /\ c # e
      BY <1>1, <1>4, <1>10, <2>2, BucketsApart
    <3>2. c \in Cells
      BY <1>1, RingType DEF InBucket, linked
    <3>3. /\ ring'.next[c] = IF c = e THEN e ELSE IF c = ring.prev[e] THEN ring.next[e] ELSE ring.next[c]
          /\ ring'.prev[c] = IF c = e THEN e ELSE IF c = ring.next[e] THEN ring.prev[e] ELSE ring.prev[c]
      BY <1>1, <3>2 DEF Unlink, Rings
    <3> QED
      BY <3>1, <3>3
  <2> QED
    BY <1>4, <1>10, <2>1, <2>3, ChainSame
<1> QED
  BY <1>2, <1>8, <1>9, <1>10

-----------------------------------------------------------------------------
(* The invariant *)

LEMMA LinkedFinite == IsFiniteSet(linked) /\ Cardinality(linked) \in Nat
<1>1. linked \subseteq Entries /\ IsFiniteSet(Entries)
  BY ClosedMapAssumption DEF linked
<1> QED
  BY <1>1, FS_Subset, FS_CardinalityType

(* Nothing that the chains depend on has changed. *)
LEMMA ChainsSame ==
  ASSUME IInv, UNCHANGED <<hash, live, ring, key, size>>, TypeOK'
  PROVE  IInv'
<1>1. linked' = linked /\ \A b : InBucket(b)' = InBucket(b)
  BY DEF linked, InBucket, Bucket
<1>2. ASSUME NEW b \in Buckets PROVE Chained(b)'
  <2>1. Chained(b)
    BY DEF IInv
  <2> QED
    BY <1>1, <2>1, ChainSame
<1> QED
  BY <1>1, <1>2 DEF IInv

LEMMA InitInv == ASSUME Init PROVE IInv
<1>1. TypeOK
  BY ClosedMapAssumption DEF Init, TypeOK, Off, Cells, Buckets
<1>2. linked = {}
  BY DEF Init, linked
<1>3. ASSUME NEW b \in Buckets PROVE Chained(b)
  <2> DEFINE g == [i \in 0 .. 0 + 1 |-> b]
  <2>1. ring.next[b] = b /\ ring.prev[b] = b /\ b \in Cells
    BY DEF Init, Cells
  <2>2. g \in Numbering(Cells, 0)
    BY <2>1 DEF Numbering
  <2>3. Ordered(ring, b, g, 0) /\ Elements(g, 0) = {}
    BY <2>1 DEF Ordered, Elements
  <2>4. InBucket(b) = {}
    BY <1>2 DEF InBucket
  <2> HIDE DEF g
  <2> QED
    BY <2>2, <2>3, <2>4 DEF Chained
<1>4. size = Cardinality(linked)
  BY <1>2, FS_EmptySet DEF Init
<1> QED
  BY <1>1, <1>2, <1>3, <1>4 DEF IInv

(* The emptied table. *)
LEMMA EmptyInv ==
  ASSUME IInv, ring' = Fresh(ring), linked' = {}, size' = 0, TypeOK'
  PROVE  IInv'
<1>1. \A b \in Buckets : Chained(b)'
  BY FreshChained DEF IInv
<1>2. size' = Cardinality(linked')
  BY FS_EmptySet
<1> QED
  BY <1>1, <1>2 DEF IInv

LEMMA NewInv == ASSUME IInv, New PROVE IInv' /\ linked' = {}
<1>1. linked' = {}
  BY DEF IInv, New, linked
<1>2. ring' \in Rings(Cells)
  BY <1>1, FreshChained DEF IInv, New
<1>3. TypeOK'
  BY <1>2 DEF IInv, New, TypeOK, Rings, history
<1> QED
  BY <1>1, <1>3, EmptyInv DEF New

LEMMA DeleteInv == ASSUME IInv, Delete PROVE IInv' /\ linked' = {}
<1>1. linked' = {}
  BY DEF Delete, linked
<1>2. ring' \in Rings(Cells)
  BY <1>1, FreshChained DEF IInv, Delete
<1>3. TypeOK'
  BY <1>2 DEF IInv, Delete, TypeOK, Rings, history
<1> QED
  BY <1>1, <1>3, EmptyInv DEF Delete

LEMMA LinkInv ==
  ASSUME IInv, live, NEW k \in Keys, NEW e \in Entries \ linked, NEW v \in Values,
         \A d \in linked : key[d] # k,
         Link(e, k, v, AddBack(LinkInit(ring, e), Bucket(k), e)),
         UNCHANGED <<hash, live, walk, slip, stable>>
  PROVE  IInv' /\ linked' = linked \cup {e}
<1>1. /\ ring' \in Rings(Cells)
      /\ linked' = linked \cup {e}
      /\ \A b \in Buckets : Chained(b)'
  BY LinkChained
<1>2. TypeOK'
  BY <1>1 DEF IInv, TypeOK, Link, Rings
<1>3. size' = Cardinality(linked')
  BY <1>1, LinkedFinite, FS_AddElement DEF IInv, Link
<1>4. key'[e] = k /\ \A d \in linked : key'[d] = key[d]
  BY DEF IInv, TypeOK, Link, linked
<1>5. \A d, f \in linked' : key'[d] = key'[f] => d = f
  BY <1>1, <1>4 DEF IInv
<1> QED
  BY <1>1, <1>2, <1>3, <1>5 DEF IInv

(* What an insertion does: link an entry of its own, or overwrite.          *)
LEMMA InsertIs ==
  ASSUME IInv, NEW e \in Entries, NEW k \in Keys, NEW v \in Values, Insert(e, k, v)
  PROVE  \/ /\ e \notin linked /\ \A d \in linked : key[d] # k
            /\ Link(e, k, v, AddBack(LinkInit(ring, e), Bucket(k), e))
         \/ /\ UNCHANGED <<ring, key, size, seen>>
            /\ \E d \in linked : key[d] = k /\ val' = [val EXCEPT ![d] = v]
<1> DEFINE found == Lookup(k, TRUE)
<1>1. \/ found = None /\ \A d \in linked : key[d] # k
      \/ found \in linked /\ key[found] = k
  BY FirstIs
<1>2. None \notin linked
  BY ClosedMapAssumption DEF linked, Cells
<1>3. \/ found = None /\ Link(e, k, v, AddBack(LinkInit(ring, e), Bucket(k), e))
      \/ found # None /\ val' = [val EXCEPT ![found] = v] /\ UNCHANGED <<ring, key, size, seen>>
  BY DEF Insert
<1>4. e \in linked => key[e] = k
  BY DEF Insert
<1> HIDE DEF found
<1> QED
  BY <1>1, <1>2, <1>3, <1>4

LEMMA InsertInv ==
  ASSUME IInv, NEW e \in Entries, NEW k \in Keys, NEW v \in Values, Insert(e, k, v)
  PROVE  IInv'
<1>1. live /\ UNCHANGED <<hash, live, walk, slip, stable>>
  BY DEF Insert
<1>2. CASE /\ e \notin linked /\ \A d \in linked : key[d] # k
           /\ Link(e, k, v, AddBack(LinkInit(ring, e), Bucket(k), e))
  BY <1>1, <1>2, LinkInv
<1>3. CASE /\ UNCHANGED <<ring, key, size, seen>>
           /\ \E d \in linked : key[d] = k /\ val' = [val EXCEPT ![d] = v]
  <2>1. PICK d \in linked : val' = [val EXCEPT ![d] = v]
    BY <1>3
  <2>2. TypeOK'
    BY <1>1, <1>3, <2>1 DEF IInv, TypeOK
  <2> QED
    BY <1>1, <1>3, <2>2, ChainsSame
<1> QED
  BY <1>2, <1>3, InsertIs

(* What a removal does: it takes out the entry with the key. *)
LEMMA RemoveIs ==
  ASSUME IInv, NEW k \in Keys, Remove(k)
  PROVE  \E e \in linked : key[e] = k /\ ring' = Unlink(ring, e) /\ Take(e)
<1>1. None \notin linked
  BY ClosedMapAssumption DEF linked, Cells
<1> QED
  BY <1>1, LastIs DEF Remove

LEMMA RemoveInv == ASSUME IInv, NEW k \in Keys, Remove(k) PROVE IInv'
<1>1. PICK e \in linked : key[e] = k /\ ring' = Unlink(ring, e) /\ Take(e)
  BY RemoveIs
<1>2. UNCHANGED <<hash, live, walk, seen>>
  BY DEF Remove
<1>3. /\ ring' \in Rings(Cells)
      /\ linked' = linked \ {e}
      /\ \A b \in Buckets : Chained(b)'
  BY <1>1, <1>2, UnlinkChained DEF Take
<1>4. size' = Cardinality(linked') /\ size' \in Nat
  <2>1. Cardinality(linked \ {e}) = Cardinality(linked) - 1
    BY LinkedFinite, FS_RemoveElement
  <2>2. Cardinality(linked \ {e}) \in Nat
    BY LinkedFinite, FS_Subset, FS_CardinalityType
  <2> QED
    BY <1>1, <1>3, <2>1, <2>2 DEF IInv, Take
<1>5. TypeOK'
  BY <1>1, <1>2, <1>3, <1>4 DEF IInv, TypeOK, Take, Rings
<1>6. \A d \in linked' : d \in linked /\ key'[d] = key[d]
  BY <1>1, <1>3 DEF IInv, TypeOK, Take, linked
<1>7. ~live' => linked' = {}
  BY <1>2, <1>3 DEF IInv
<1> QED
  BY <1>3, <1>4, <1>5, <1>6, <1>7 DEF IInv

LEMMA ForeachInv == ASSUME IInv, Foreach PROVE IInv'
<1>1. TypeOK'
  <2>1. 0 \in Buckets /\ 0 \in Cells
    BY ClosedMapAssumption DEF Buckets, Cells
  <2> QED
    BY <2>1 DEF IInv, TypeOK, Foreach, Enter, table, linked, Cells
<1> QED
  BY <1>1, ChainsSame DEF Foreach, table

LEMMA WalkNextInv == ASSUME IInv, WalkNext PROVE IInv'
<1>1. TypeOK'
  <2>1. TypeOK /\ UNCHANGED table
    BY DEF IInv, WalkNext
  <2>2. CASE WalkOn
    <3>1. Off \in [bucket : Nat, cur : Cells \cup {None}, nxt : Cells \cup {None}]
      BY ClosedMapAssumption DEF Off
    <3>2. \A b \in Buckets : b \in Nat /\ b \in Cells
      BY DEF Buckets, Cells
    <3> QED
      BY <2>1, <2>2, <3>1, <3>2 DEF WalkOn, Enter, TypeOK, table, history
  <2>3. CASE /\ walk.nxt \in Entries
             /\ walk' = [walk EXCEPT !.cur = walk.nxt, !.nxt = ring.next[walk.nxt]]
             /\ seen' = seen \cup {walk.nxt}
             /\ UNCHANGED <<slip, stable>>
    BY <2>1, <2>3 DEF TypeOK, table, Cells
  <2>4. CASE slip' = "undefined" /\ UNCHANGED <<walk, seen, stable>>
    BY <2>1, <2>4 DEF TypeOK, table
  <2> QED
    BY <2>2, <2>3, <2>4 DEF WalkNext
<1> QED
  BY <1>1, ChainsSame DEF WalkNext, table

LEMMA NextInv == ASSUME IInv, [Next]_vars PROVE IInv'
<1>1. CASE UNCHANGED vars
  <2>1. TypeOK'
    BY <1>1 DEF IInv, TypeOK, vars, table, history
  <2> QED
    BY <1>1, <2>1, ChainsSame DEF vars, table
<1> QED
  BY <1>1, NewInv, DeleteInv, ForeachInv, WalkNextInv, RemoveInv, InsertInv DEF Next, Halted

LEMMA Invariant == Spec => []IInv
<1> QED
  BY InitInv, NextInv, PTL DEF Spec

LEMMA RingsHold == ASSUME IInv PROVE RingsClosed
<1>1. TypeOK
  BY DEF IInv
<1>2. ASSUME NEW c \in Buckets \cup linked
      PROVE  /\ ring.next[c] \in Buckets \cup linked /\ ring.prev[ring.next[c]] = c
             /\ ring.prev[c] \in Buckets \cup linked /\ ring.next[ring.prev[c]] = c
             /\ HomeOf(ring.next[c]) = HomeOf(c)
  <2>1. PICK b \in Buckets : b = HomeOf(c)
    BY <1>1, EntryHome DEF HomeOf
  <2>2. c \in InBucket(b) \cup {b}
    BY <2>1 DEF HomeOf, InBucket
  <2>3. /\ ring.next[c] \in InBucket(b) \cup {b} /\ ring.prev[ring.next[c]] = c
        /\ ring.prev[c] \in InBucket(b) \cup {b} /\ ring.next[ring.prev[c]] = c
    BY <2>2, ChainClosed DEF IInv
  <2>4. \A d \in InBucket(b) \cup {b} : d \in Buckets \cup linked /\ HomeOf(d) = b
    BY <1>1, EntryHome DEF InBucket, HomeOf
  <2> QED
    BY <2>1, <2>3, <2>4
<1> QED
  BY <1>1, <1>2 DEF RingsClosed, Closed

(* Whatever the callbacks of a walk insert and remove, the links of every   *)
(* bucket form one closed ring, and no ring leads into another bucket.      *)
THEOREM RingsStayClosed == Spec => []RingsClosed
<1>1. IInv => RingsClosed
  BY RingsHold
<1> QED
  BY <1>1, Invariant, PTL

LEMMA MembersAre == ASSUME IInv PROVE Members = linked
<1>1. ASSUME NEW b \in Buckets PROVE Range(Chain(b)) = InBucket(b)
  <2>1. PICK n \in Nat : /\ DOMAIN Chain(b) = 1 .. n
                         /\ \A i \in 1 .. n : Chain(b)[i] \in InBucket(b)
                         /\ \A e \in InBucket(b) : \E i \in 1 .. n : Chain(b)[i] = e
    BY ChainIs DEF IInv
  <2> QED
    BY <2>1 DEF Range
<1>2. \A e \in linked : Bucket(key[e]) \in Buckets
  BY EntryHome DEF IInv
<1> QED
  BY <1>1, <1>2 DEF Members, InBucket

LEMMA EntriesHold == ASSUME IInv PROVE EntriesExact
<1>1. ASSUME NEW e \in linked PROVE find(key[e]) = e
  <2>1. live
    BY DEF IInv
  <2>2. key[e] \in Keys
    BY EntryHome DEF IInv
  <2>3. Lookup(key[e], TRUE) \in linked /\ key[Lookup(key[e], TRUE)] = key[e]
    BY <2>2, FirstIs
  <2> QED
    BY <2>1, <2>3 DEF find, IInv
<1> QED
  BY <1>1, MembersAre DEF EntriesExact, IInv

(* Each entry of the table is in the chain where find looks for it, no      *)
(* other is, and size counts them.                                          *)
THEOREM EntriesStayExact == Spec => []EntriesExact
<1>1. IInv => EntriesExact
  BY EntriesHold
<1> QED
  BY <1>1, Invariant, PTL

-----------------------------------------------------------------------------
(* The refinement *)

(* The content of a table whose entries L have the keys kf and values vf. *)
MapOf(L, kf, vf) == [k \in {kf[e] : e \in L} |-> vf[CHOOSE e \in L : kf[e] = k]]

Apart(L, kf) == \A d, e \in L : kf[d] = kf[e] => d = e

LEMMA MapOfAt ==
  ASSUME NEW L, NEW kf, NEW vf, Apart(L, kf), NEW e \in L
  PROVE  kf[e] \in DOMAIN MapOf(L, kf, vf) /\ MapOf(L, kf, vf)[kf[e]] = vf[e]
<1> DEFINE k == kf[e]
<1>1. \A d \in L : kf[d] = k => d = e
  BY DEF Apart
<1>2. (CHOOSE d \in L : kf[d] = k) = e
  BY <1>1
<1>3. k \in {kf[d] : d \in L}
  OBVIOUS
<1> QED
  BY <1>2, <1>3 DEF MapOf

(* f gives each key of the entries, and no other, its value. *)
Holds(L, kf, vf, D, f) ==
  /\ Apart(L, kf)
  /\ f = [k \in D |-> f[k]]
  /\ \A k \in D : \E e \in L : kf[e] = k
  /\ \A e \in L : kf[e] \in D /\ f[kf[e]] = vf[e]

LEMMA MapOfIs ==
  ASSUME NEW L, NEW kf, NEW vf, NEW D, NEW f, Holds(L, kf, vf, D, f)
  PROVE  MapOf(L, kf, vf) = f
<1> USE DEF Holds
<1>1. DOMAIN MapOf(L, kf, vf) = D
  BY DEF MapOf
<1>2. ASSUME NEW k \in D PROVE MapOf(L, kf, vf)[k] = f[k]
  <2>1. PICK e \in L : kf[e] = k
    OBVIOUS
  <2> QED
    BY <2>1, MapOfAt
<1>3. MapOf(L, kf, vf) = [k \in D |-> MapOf(L, kf, vf)[k]]
  <2> DEFINE S == {kf[e] : e \in L}
             w(k) == vf[CHOOSE e \in L : kf[e] = k]
  <2>1. MapOf(L, kf, vf) = [k \in S |-> w(k)]
    BY DEF MapOf
  <2> HIDE DEF S, w
  <2> QED
    BY <1>1, <2>1
<1> QED
  BY <1>2, <1>3

Nothing == [x \in {} |-> x]

LEMMA MapOfNothing == ASSUME NEW kf, NEW vf PROVE MapOf({}, kf, vf) = Nothing
BY DEF MapOf, Nothing

PutIn(m, k, v)  == [x \in DOMAIN m \cup {k} |-> IF x = k THEN v ELSE m[x]]
WithoutIn(m, k) == [x \in DOMAIN m \ {k} |-> m[x]]

(* The entries differ in e at most, which has k and v now, and did not have *)
(* another key.                                                             *)
IsPut(L, kf, vf, M, kg, vg, e, k, v) ==
  /\ Apart(L, kf) /\ Apart(M, kg)
  /\ e \in M /\ kg[e] = k /\ vg[e] = v
  /\ e \in L => kf[e] = k
  /\ M = L \cup {e}
  /\ \A d \in L : d # e => kg[d] = kf[d] /\ vg[d] = vf[d]

LEMMA MapOfPut ==
  ASSUME NEW L, NEW kf, NEW vf, NEW M, NEW kg, NEW vg, NEW e, NEW k, NEW v,
         IsPut(L, kf, vf, M, kg, vg, e, k, v)
  PROVE  MapOf(M, kg, vg) = PutIn(MapOf(L, kf, vf), k, v)
<1> USE DEF IsPut
<1> DEFINE D == DOMAIN MapOf(L, kf, vf) \cup {k}
           f == [x \in D |-> IF x = k THEN v ELSE MapOf(L, kf, vf)[x]]
<1>1. \A x \in DOMAIN MapOf(L, kf, vf) : \E d \in L : kf[d] = x
  BY DEF MapOf
<1>2. ASSUME NEW x \in D PROVE \E d \in M : kg[d] = x
  <2>1. CASE x = k
    BY <2>1
  <2>2. CASE x # k
    <3>1. PICK d \in L : kf[d] = x
      BY <1>1, <2>2
    <3> QED
      BY <2>2, <3>1
  <2> QED
    BY <2>1, <2>2
<1>3. ASSUME NEW d \in M PROVE kg[d] \in D /\ f[kg[d]] = vg[d]
  <2>1. CASE d = e
    BY <2>1
  <2>2. CASE d # e
    <3>1. kg[d] = kf[d] /\ vg[d] = vf[d] /\ d \in L
      BY <2>2
    <3>2. kf[d] \in DOMAIN MapOf(L, kf, vf) /\ MapOf(L, kf, vf)[kf[d]] = vf[d]
      BY <3>1, MapOfAt
    <3>3. kg[d] # k
      BY <2>2 DEF Apart
    <3> QED
      BY <3>1, <3>2, <3>3
  <2> QED
    BY <2>1, <2>2
<1>4. f = [x \in D |-> f[x]]
  OBVIOUS
<1> HIDE DEF f, D
<1>5. Holds(M, kg, vg, D, f)
  BY <1>2, <1>3, <1>4 DEF Holds
<1>6. MapOf(M, kg, vg) = f
  BY <1>5, MapOfIs
<1> QED
  BY <1>6 DEF f, D, PutIn

(* All entries but e, which had k, are as they were. *)
IsWithout(L, kf, vf, M, kg, vg, e, k) ==
  /\ Apart(L, kf) /\ Apart(M, kg)
  /\ e \in L /\ kf[e] = k
  /\ M = L \ {e}
  /\ \A d \in M : kg[d] = kf[d] /\ vg[d] = vf[d]

LEMMA MapOfWithout ==
  ASSUME NEW L, NEW kf, NEW vf, NEW M, NEW kg, NEW vg, NEW e, NEW k,
         IsWithout(L, kf, vf, M, kg, vg, e, k)
  PROVE  MapOf(M, kg, vg) = WithoutIn(MapOf(L, kf, vf), k)
<1> USE DEF IsWithout
<1> DEFINE D == DOMAIN MapOf(L, kf, vf) \ {k}
           f == [x \in D |-> MapOf(L, kf, vf)[x]]
<1>1. \A x \in DOMAIN MapOf(L, kf, vf) : \E d \in L : kf[d] = x
  BY DEF MapOf
<1>2. ASSUME NEW x \in D PROVE \E d \in M : kg[d] = x
  BY <1>1
<1>3. ASSUME NEW d \in M PROVE kg[d] \in D /\ f[kg[d]] = vg[d]
  <2>1. d # e /\ kg[d] = kf[d] /\ vg[d] = vf[d] /\ d \in L
    OBVIOUS
  <2>2. kf[d] \in DOMAIN MapOf(L, kf, vf) /\ MapOf(L, kf, vf)[kf[d]] = vf[d]
    BY <2>1, MapOfAt
  <2>3. kf[d] # k
    BY <2>1 DEF Apart
  <2> QED
    BY <2>1, <2>2, <2>3
<1>4. f = [x \in D |-> f[x]]
  OBVIOUS
<1> HIDE DEF f, D
<1>5. Holds(M, kg, vg, D, f)
  BY <1>2, <1>3, <1>4 DEF Holds
<1>6. MapOf(M, kg, vg) = f
  BY <1>5, MapOfIs
<1> QED
  BY <1>6 DEF f, D, WithoutIn

(* What the chains hold is what was inserted, by keys that are all          *)
(* different: the invariant in the form that a step needs on both sides.    *)
Told == Members = linked /\ Apart(linked, key)

LEMMA ToldNow == ASSUME IInv PROVE Told
BY MembersAre DEF IInv, Told, Apart

LEMMA ContentIs == ASSUME Told PROVE Content = MapOf(linked, key, val)
BY DEF Told, Content, MapOf

LEMMA ContentIsThen == ASSUME Told' PROVE Content' = MapOf(linked', key', val')
BY DEF Told, Content, MapOf

LEMMA PutStep ==
  ASSUME Told, Told', NEW e, NEW k \in Keys, NEW v \in Values,
         e \in linked', key'[e] = k, val'[e] = v, e \in linked => key[e] = k,
         linked' = linked \cup {e},
         \A d \in linked : d # e => key'[d] = key[d] /\ val'[d] = val[d]
  PROVE  Map!Next
<1>1. IsPut(linked, key, val, linked', key', val', e, k, v)
  BY DEF IsPut, Told
<1>2. Content' = PutIn(Content, k, v)
  BY <1>1, MapOfPut, ContentIs, ContentIsThen
<1>3. Map!Put(k, v)
  BY <1>2 DEF Map!Put, PutIn
<1> QED
  BY <1>3 DEF Map!Next

LEMMA RemoveStep ==
  ASSUME Told, Told', NEW k \in Keys, NEW e \in linked, key[e] = k,
         linked' = linked \ {e},
         \A d \in linked' : key'[d] = key[d] /\ val'[d] = val[d]
  PROVE  Map!Next
<1>1. IsWithout(linked, key, val, linked', key', val', e, k)
  BY DEF IsWithout, Told
<1>2. Content' = WithoutIn(Content, k)
  BY <1>1, MapOfWithout, ContentIs, ContentIsThen
<1>3. k \in DOMAIN Content
  BY MapOfAt, ContentIs DEF Told
<1>4. Map!Remove(k)
  BY <1>2, <1>3 DEF Map!Remove, Map!Without, WithoutIn
<1> QED
  BY <1>4 DEF Map!Next

LEMMA NextStep ==
  ASSUME IInv, Told', [Next]_vars
  PROVE  [Map!Next]_table
<1>1. TypeOK /\ Told
  BY ToldNow DEF IInv
<1>2. CASE New \/ Delete
  <2>1. linked' = {}
    BY <1>2, NewInv, DeleteInv
  <2>2. Content' = Nothing
    BY <2>1, ContentIsThen, MapOfNothing
  <2> QED
    BY <2>2 DEF Map!Next, Map!Clear, Nothing
<1>3. ASSUME NEW e \in Entries, NEW k \in Keys, NEW v \in Values, Insert(e, k, v)
      PROVE  Map!Next
  <2>1. CASE /\ e \notin linked /\ \A d \in linked : key[d] # k
             /\ Link(e, k, v, AddBack(LinkInit(ring, e), Bucket(k), e))
    <3>1. key' = [key EXCEPT ![e] = k] /\ val' = [val EXCEPT ![e] = v] /\ k # None
      BY <2>1, ClosedMapAssumption DEF Link
    <3>2. linked' = linked \cup {e} /\ key'[e] = k /\ val'[e] = v
          /\ \A d \in linked : d # e => key'[d] = key[d] /\ val'[d] = val[d]
      BY <1>1, <3>1 DEF linked, TypeOK
    <3> QED
      BY <1>1, <2>1, <3>2, PutStep
  <2>2. CASE /\ UNCHANGED <<ring, key, size, seen>>
             /\ \E d \in linked : key[d] = k /\ val' = [val EXCEPT ![d] = v]
    <3>1. PICK d \in linked : key[d] = k /\ val' = [val EXCEPT ![d] = v]
      BY <2>2
    <3>2. linked' = linked /\ key' = key /\ d \in Entries
      BY <2>2 DEF linked
    <3>3. val'[d] = v /\ \A x \in linked : x # d => val'[x] = val[x]
      BY <1>1, <3>1, <3>2 DEF TypeOK, linked
    <3> QED
      BY <1>1, <3>1, <3>2, <3>3, PutStep
  <2> QED
    BY <1>3, <2>1, <2>2, InsertIs
<1>4. ASSUME NEW k \in Keys, Remove(k) PROVE Map!Next
  <2>1. PICK e \in linked : key[e] = k /\ ring' = Unlink(ring, e) /\ Take(e)
    BY <1>4, RemoveIs
  <2>2. linked' = linked \ {e} /\ \A d \in linked' : key'[d] = key[d] /\ val'[d] = val[d]
    BY <1>1, <2>1 DEF Take, linked, TypeOK
  <2> QED
    BY <1>1, <2>1, <2>2, RemoveStep
<1>5. CASE Foreach \/ WalkNext \/ UNCHANGED vars
  BY <1>5 DEF Foreach, WalkNext, vars
<1> QED
  BY <1>2, <1>3, <1>4, <1>5 DEF Next, Halted

(* A table of any size is a map, whoever inserts, removes and walks: no     *)
(* operation on one key makes another appear, disappear or change.          *)
THEOREM Refinement == Spec => ImplementsMap
<1>1. Init => Map!Init
  <2> SUFFICES ASSUME Init PROVE Map!Init
    OBVIOUS
  <2>1. Told /\ linked = {}
    BY InitInv, ToldNow DEF Init, linked
  <2>2. Content = Nothing
    BY <2>1, ContentIs, MapOfNothing
  <2> QED
    BY <2>2 DEF Map!Init, Nothing
<1>2. IInv => Told
  BY ToldNow
<1>3. IInv /\ Told' /\ [Next]_vars => [Map!Next]_table
  BY NextStep
<1> QED
  BY <1>1, <1>2, <1>3, Invariant, PTL DEF Spec, ImplementsMap

-----------------------------------------------------------------------------
(* A walk and what its callbacks do *)

(* A are those of the entries B around the head b that the walk has still   *)
(* to come by, if l is the link that it has saved.                          *)
Ahead(A, B, b, l, r) ==
  /\ A \subseteq B /\ l \in A \cup {b}
  /\ \A x \in A : r.next[x] \in A \cup {b}
  /\ \A x \in A : x # l => r.prev[x] \in A
  /\ l # b => r.prev[l] \notin A /\ r.prev[b] \in A

LEMMA AheadEnter ==
  ASSUME NEW B, NEW b, b \notin B, NEW r, Closed(r, B \cup {b})
  PROVE  Ahead(B, B, b, r.next[b], r)
<1>1. \A c \in B \cup {b} : /\ r.next[c] \in B \cup {b} /\ r.prev[r.next[c]] = c
                            /\ r.prev[c] \in B \cup {b} /\ r.next[r.prev[c]] = c
  BY DEF Closed
<1>2. \A x \in B : x # r.next[b] => r.prev[x] \in B
  BY <1>1
<1>3. r.next[b] # b => r.prev[r.next[b]] \notin B /\ r.prev[b] \in B
  BY <1>1
<1> QED
  BY <1>1, <1>2, <1>3 DEF Ahead

LEMMA AheadStep ==
  ASSUME NEW A, NEW B, NEW b, b \notin B, NEW l, NEW r, Closed(r, B \cup {b}),
         Ahead(A, B, b, l, r), l # b
  PROVE  l \in A /\ Ahead(A \ {l}, B, b, r.next[l], r)
<1>1. \A c \in B \cup {b} : /\ r.next[c] \in B \cup {b} /\ r.prev[r.next[c]] = c
                            /\ r.prev[c] \in B \cup {b} /\ r.next[r.prev[c]] = c
  BY DEF Closed
<1>2. /\ A \subseteq B /\ l \in A
      /\ \A x \in A : r.next[x] \in A \cup {b}
      /\ \A x \in A : x # l => r.prev[x] \in A
      /\ r.prev[l] \notin A /\ r.prev[b] \in A
  BY DEF Ahead
<1>3. \A x \in A : r.next[x] # l
  BY <1>1, <1>2
<1>4. \A x \in A \ {l} : r.next[x] \in (A \ {l}) \cup {b}
  BY <1>2, <1>3
<1>5. r.next[l] \in (A \ {l}) \cup {b}
  BY <1>2, <1>3
<1>6. \A x \in A \ {l} : x # r.next[l] => r.prev[x] \in A \ {l}
  BY <1>1, <1>2
<1>7. r.next[l] # b => r.prev[r.next[l]] \notin A \ {l} /\ r.prev[b] \in A \ {l}
  BY <1>1, <1>2
<1> QED
  BY <1>2, <1>4, <1>5, <1>6, <1>7 DEF Ahead

LEMMA AheadEnd ==
  ASSUME NEW A, NEW b, NEW r, NEW n \in Nat, NEW g, Ordered(r, b, g, n),
         Ahead(A, Elements(g, n), b, b, r)
  PROVE  A = {}
<1> DEFINE S == {i \in 1 .. n : g[i] \in A}
<1>1. /\ A \subseteq Elements(g, n)
      /\ \A x \in A : x # b => r.prev[x] \in A
  BY DEF Ahead
<1>2. \A x \in A : \E i \in S : x = g[i]
  BY <1>1 DEF Elements
<1>3. b \notin A
  BY <1>1 DEF Elements, Ordered
<1>4. ASSUME NEW i \in S PROVE i - 1 \in S
  <2>1. i \in 1 .. n /\ g[i] \in A /\ g[i] # b
    BY <1>3
  <2>2. i - 1 \in 0 .. n /\ (i - 1) + 1 = i /\ (i - 1 = 0 \/ i - 1 \in 1 .. n)
    BY <2>1
  <2>3. r.prev[g[(i - 1) + 1]] = g[i - 1]
    BY <2>2 DEF Ordered
  <2>4. g[i - 1] \in A
    BY <1>1, <2>1, <2>2, <2>3
  <2>5. i - 1 # 0
    BY <1>3, <2>4 DEF Ordered
  <2> QED
    BY <2>2, <2>4, <2>5
<1>5. S = {}
  <2> SUFFICES ASSUME S # {} PROVE FALSE
    OBVIOUS
  <2>1. S \subseteq Nat
    OBVIOUS
  <2> HIDE DEF S
  <2>2. PICK i \in S : \A j \in S : i <= j
    BY <2>1, Least
  <2>3. i \in Nat /\ ~(i <= i - 1)
    BY <2>1
  <2> QED
    BY <1>4, <2>2, <2>3
<1> HIDE DEF S
<1> QED
  BY <1>2, <1>5

(* Links outside the bucket do not matter. *)
LEMMA AheadSame ==
  ASSUME NEW A, NEW B, NEW b, NEW l, NEW r, NEW s, Ahead(A, B, b, l, r),
         \A c \in B \cup {b} : s.next[c] = r.next[c] /\ s.prev[c] = r.prev[c]
  PROVE  Ahead(A, B, b, l, s)
BY DEF Ahead

(* Another entry than the next one is removed, from this bucket or another. *)
LEMMA AheadUnlink ==
  ASSUME NEW C, NEW r \in Rings(C), NEW S \in SUBSET C, Closed(r, S), NEW e \in S,
         NEW A, NEW B, NEW b, b \notin B, B \cup {b} \subseteq S, NEW l,
         Ahead(A, B, b, l, r), e # b, e # l
  PROVE  Ahead(A \ {e}, B \ {e}, b, l, Unlink(r, e))
<1> DEFINE s == Unlink(r, e)
<1>1. \A c \in S : /\ r.next[c] \in S /\ r.prev[r.next[c]] = c
                   /\ r.prev[c] \in S /\ r.next[r.prev[c]] = c
  BY DEF Closed
<1>2. /\ \A c \in C : s.next[c] = IF c = e THEN e ELSE IF c = r.prev[e] THEN r.next[e] ELSE r.next[c]
      /\ \A c \in C : s.prev[c] = IF c = e THEN e ELSE IF c = r.next[e] THEN r.prev[e] ELSE r.prev[c]
  BY <1>1 DEF Unlink, Rings
<1> HIDE DEF s
<1>3. /\ A \subseteq B /\ l \in A \cup {b}
      /\ \A x \in A : r.next[x] \in A \cup {b}
      /\ \A x \in A : x # l => r.prev[x] \in A
      /\ l # b => r.prev[l] \notin A /\ r.prev[b] \in A
  BY DEF Ahead
<1>4. A \subseteq S /\ A \subseteq C /\ b \in S /\ b \in C /\ l \in S /\ l \in C
  BY <1>3
<1>5. ASSUME NEW x \in A \ {e} PROVE s.next[x] \in (A \ {e}) \cup {b}
  <2>1. s.next[x] = IF x = r.prev[e] THEN r.next[e] ELSE r.next[x]
    BY <1>2, <1>4
  <2>2. CASE x = r.prev[e]
    <3>1. r.next[x] = e /\ e \in A
      BY <1>1, <1>3, <2>2
    <3>2. r.next[e] # e
      BY <1>1, <2>2
    <3> QED
      BY <1>3, <2>1, <2>2, <3>1, <3>2
  <2>3. CASE x # r.prev[e]
    <3>1. r.next[x] # e
      BY <1>1, <1>4, <2>3
    <3> QED
      BY <1>3, <2>1, <2>3, <3>1
  <2> QED
    BY <2>2, <2>3
<1>6. ASSUME NEW x \in A \cup {b}, x # e, r.prev[x] \in A PROVE x # l => s.prev[x] \in A \ {e}
  <2>1. s.prev[x] = IF x = r.next[e] THEN r.prev[e] ELSE r.prev[x]
    BY <1>2, <1>4, <1>6
  <2>2. CASE x = r.next[e]
    <3>1. r.prev[x] = e /\ e \in A
      BY <1>1, <1>6, <2>2
    <3>2. r.prev[e] # e
      BY <1>1, <1>6, <2>2
    <3> QED
      BY <1>3, <2>1, <2>2, <3>1, <3>2
  <2>3. CASE x # r.next[e]
    <3>1. r.prev[x] # e
      BY <1>1, <1>4, <2>3
    <3> QED
      BY <1>6, <2>1, <2>3, <3>1
  <2> QED
    BY <2>2, <2>3
<1>7. l # b => s.prev[l] \notin A \ {e}
  <2> SUFFICES ASSUME l # b, s.prev[l] \in A PROVE FALSE
    OBVIOUS
  <2>1. s.prev[l] = IF l = r.next[e] THEN r.prev[e] ELSE r.prev[l]
    BY <1>2, <1>4
  <2>2. l = r.next[e] /\ r.prev[e] \in A
    BY <1>3, <2>1
  <2>3. r.prev[l] = e /\ r.next[r.prev[e]] = e
    BY <1>1, <2>2
  <2>4. e \in A
    BY <1>3, <2>2, <2>3
  <2> QED
    BY <1>3, <2>3, <2>4
<1>8. l # b => s.prev[b] \in A \ {e}
  BY <1>3, <1>6
<1>9. l \in (A \ {e}) \cup {b} /\ A \ {e} \subseteq B \ {e}
  BY <1>3
<1>10. \A x \in A \ {e} : x # l => s.prev[x] \in A \ {e}
  BY <1>3, <1>6
<1> QED
  BY <1>5, <1>7, <1>8, <1>9, <1>10 DEF Ahead, s

(* A new entry is linked to the end of the bucket. *)
LEMMA AheadAdd ==
  ASSUME NEW C, NEW r \in Rings(C), NEW A, NEW B \in SUBSET C, NEW b \in C, b \notin B,
         NEW e \in C, e \notin B, e # b, NEW l, l # b,
         Closed(r, B \cup {b}), Ahead(A, B, b, l, r)
  PROVE  Ahead(A \cup {e}, B \cup {e}, b, l, AddBack(LinkInit(r, e), b, e))
<1> DEFINE s == AddBack(LinkInit(r, e), b, e)
           last == r.prev[b]
<1>1. \A c \in B \cup {b} : /\ r.next[c] \in B \cup {b} /\ r.prev[r.next[c]] = c
                            /\ r.prev[c] \in B \cup {b} /\ r.next[r.prev[c]] = c
  BY DEF Closed
<1>2. last \in B \cup {b} /\ last # e /\ last \in C
  BY <1>1
<1>3. /\ \A c \in C : s.next[c] = IF c = last THEN e ELSE IF c = e THEN b ELSE r.next[c]
      /\ \A c \in C : s.prev[c] = IF c = b THEN e ELSE IF c = e THEN last ELSE r.prev[c]
  BY <1>2 DEF AddBack, LinkInit, Rings
<1>4. /\ A \subseteq B /\ l \in A
      /\ \A x \in A : r.next[x] \in A \cup {b}
      /\ \A x \in A : x # l => r.prev[x] \in A
      /\ r.prev[l] \notin A /\ last \in A
  BY DEF Ahead
<1> HIDE DEF s, last
<1>5. \A x \in A : x \in C /\ x # e /\ x # b
  BY <1>4
<1>6. \A x \in A \cup {e} : s.next[x] \in A \cup {e} \cup {b}
  BY <1>3, <1>4, <1>5
<1>7. \A x \in A \cup {e} : x # l => s.prev[x] \in A \cup {e}
  BY <1>3, <1>4, <1>5
<1>8. s.prev[l] = r.prev[l] /\ s.prev[b] = e
  BY <1>3, <1>4, <1>5
<1>9. r.prev[l] # e
  BY <1>1, <1>4
<1> QED
  BY <1>4, <1>6, <1>7, <1>8, <1>9 DEF Ahead, s

-----------------------------------------------------------------------------
(* The walk as a whole: the buckets before it, those after it, and the one  *)
(* that it is in.                                                           *)
Passed(b) == InBucket(b) \cap stable \subseteq seen
Unseen(b) == InBucket(b) \cap seen = {}

AheadNow(A) ==
  /\ Ahead(A, InBucket(walk.bucket), walk.bucket, walk.nxt, ring)
  /\ A \cap seen = {}
  /\ InBucket(walk.bucket) \cap stable \subseteq seen \cup A

WalkInv ==
  Walking /\ slip = "none" =>
    /\ live /\ walk.bucket \in Buckets /\ stable \subseteq linked
    /\ \A b \in Buckets : /\ b < walk.bucket => Passed(b)
                          /\ b > walk.bucket => Unseen(b)
    /\ \E A : AheadNow(A)

LEMMA BucketClosed ==
  ASSUME IInv, NEW b \in Buckets
  PROVE  /\ b \notin InBucket(b) /\ Closed(ring, InBucket(b) \cup {b})
         /\ InBucket(b) \subseteq linked /\ InBucket(b) \subseteq Entries
         /\ InBucket(b) \cup {b} \subseteq Buckets \cup linked
         /\ b \in Cells /\ InBucket(b) \in SUBSET Cells
<1>1. Chained(b)
  BY DEF IInv
<1>2. Closed(ring, InBucket(b) \cup {b})
  BY <1>1, ChainClosed DEF Closed
<1>3. b \notin InBucket(b)
  BY EntryHome DEF InBucket, IInv
<1> QED
  BY <1>2, <1>3 DEF InBucket, linked, Cells

LEMMA WalkSame ==
  ASSUME WalkInv, UNCHANGED <<hash, live, ring, key, walk, slip, seen, stable>>
  PROVE  WalkInv'
<1>1. linked' = linked /\ \A b : InBucket(b)' = InBucket(b)
  BY DEF linked, InBucket, Bucket
<1> QED
  BY <1>1 DEF WalkInv, Walking, Passed, Unseen, AheadNow

(* A callback inserts: the new entry is in front of the walk or, behind the *)
(* last entry of its bucket, passed over; it is in neither history.         *)
LEMMA WalkLink ==
  ASSUME IInv, WalkInv, NEW k \in Keys, NEW e \in Entries \ linked, NEW v \in Values,
         \A d \in linked : key[d] # k,
         Link(e, k, v, AddBack(LinkInit(ring, e), Bucket(k), e)),
         UNCHANGED <<hash, live, walk, slip, stable>>
  PROVE  WalkInv'
<1> SUFFICES ASSUME Walking', slip' = "none"
             PROVE  /\ live' /\ walk'.bucket \in Buckets /\ stable' \subseteq linked'
                    /\ \A b \in Buckets : /\ b < walk'.bucket => Passed(b)'
                                          /\ b > walk'.bucket => Unseen(b)'
                    /\ \E A : AheadNow(A)'
  BY DEF WalkInv
<1>1. Walking /\ slip = "none"
  BY DEF Walking
<1>2. PICK w \in Buckets : w = walk.bucket
  BY <1>1 DEF WalkInv
<1>3. PICK h \in Buckets : h = Bucket(k)
  BY HomeBucket DEF IInv
<1>4. PICK A : AheadNow(A)
  BY <1>1 DEF WalkInv
<1>5. linked' = linked \cup {e} /\ seen' = seen \ {e}
  BY LinkInv DEF Link, WalkInv, IInv, TypeOK, Walking
<1>6. key'[e] = k /\ \A d \in linked : key'[d] = key[d]
  BY DEF IInv, TypeOK, Link, linked
<1>7. ASSUME NEW b \in Buckets
      PROVE  InBucket(b)' = IF b = h THEN InBucket(b) \cup {e} ELSE InBucket(b)
  <2>1. \A x : Bucket(x)' = Bucket(x)
    BY DEF Bucket
  <2>2. ASSUME NEW d PROVE d \in InBucket(b)' <=> d \in InBucket(b) \/ (d = e /\ b = h)
    BY <1>3, <1>5, <1>6, <2>1 DEF InBucket
  <2> QED
    BY <2>2
<1>8. e \notin stable /\ \A b \in Buckets : e \notin InBucket(b)
  BY <1>1 DEF WalkInv, InBucket
<1>9. ASSUME NEW b \in Buckets
      PROVE  (b < walk'.bucket => Passed(b)') /\ (b > walk'.bucket => Unseen(b)')
  <2>1. (b < walk.bucket => Passed(b)) /\ (b > walk.bucket => Unseen(b))
    BY <1>1 DEF WalkInv
  <2> QED
    BY <1>5, <1>7, <1>8, <2>1 DEF Passed, Unseen
<1>10. \E D : AheadNow(D)'
  <2>1. /\ Ahead(A, InBucket(w), w, walk.nxt, ring) /\ A \cap seen = {}
        /\ InBucket(w) \cap stable \subseteq seen \cup A
    BY <1>2, <1>4 DEF AheadNow
  <2>2. /\ w \notin InBucket(w) /\ Closed(ring, InBucket(w) \cup {w})
        /\ w \in Cells /\ InBucket(w) \in SUBSET Cells /\ InBucket(w) \subseteq linked
        /\ ring \in Rings(Cells) /\ e \in Cells /\ e # w /\ e # h /\ h \in Cells
    BY BucketClosed, RingType, ClosedMapAssumption DEF IInv
  <2>3. ring' = AddBack(LinkInit(ring, e), h, e)
    BY <1>3 DEF Link
  <2>4. ASSUME NEW D, NEW B, B = InBucket(w)', D \cap seen' = {},
               InBucket(w)' \cap stable' \subseteq seen' \cup D,
               Ahead(D, B, w, walk.nxt, ring')
        PROVE  AheadNow(D)'
    BY <1>2, <2>4 DEF AheadNow
  <2>5. CASE w # h
    <3>1. InBucket(w)' = InBucket(w)
      BY <1>7, <2>5
    <3>2. ring.prev[h] \in InBucket(h) \cup {h}
      BY ChainClosed DEF IInv
    <3>3. ASSUME NEW c \in InBucket(w) \cup {w}
          PROVE  ring'.next[c] = ring.next[c] /\ ring'.prev[c] = ring.prev[c]
      <4>1. c # ring.prev[h] /\ c # h
        BY <2>5, <3>2, BucketsApart DEF IInv
      <4>2. c \in Cells /\ c # e /\ ring.prev[h] # e
        BY <1>8, <2>2, <3>2
      <4>3. /\ ring'.next[c] = IF c = ring.prev[h] THEN e ELSE IF c = e THEN h ELSE ring.next[c]
            /\ ring'.prev[c] = IF c = h THEN e ELSE IF c = e THEN ring.prev[h] ELSE ring.prev[c]
        BY <2>2, <2>3, <4>2 DEF AddBack, LinkInit, Rings
      <4> QED
        BY <4>1, <4>2, <4>3
    <3>4. Ahead(A, InBucket(w), w, walk.nxt, ring')
      BY <2>1, <3>3, AheadSame
    <3> QED
      BY <1>5, <1>8, <2>1, <2>4, <3>1, <3>4
  <2>6. CASE w = h /\ walk.nxt # w
    <3>1. InBucket(w)' = InBucket(w) \cup {e}
      BY <1>7, <2>6
    <3>2. Ahead(A \cup {e}, InBucket(w) \cup {e}, w, walk.nxt, ring')
      BY <1>8, <2>1, <2>2, <2>3, <2>6, AheadAdd
    <3> QED
      BY <1>5, <1>8, <2>1, <2>4, <3>1, <3>2
  <2>7. CASE w = h /\ walk.nxt = w
    <3>1. A = {}
      <4>1. Chained(w)
        BY DEF IInv
      <4>2. PICK n \in Nat : \E g \in Numbering(Cells, n) :
                               Ordered(ring, w, g, n) /\ Elements(g, n) = InBucket(w)
        BY <4>1 DEF Chained
      <4>3. PICK g \in Numbering(Cells, n) : Ordered(ring, w, g, n) /\ Elements(g, n) = InBucket(w)
        BY <4>2
      <4> QED
        BY <2>1, <2>7, <4>3, AheadEnd
    <3>2. \A B, r : Ahead({}, B, w, w, r)
      BY DEF Ahead
    <3>3. Ahead(A, InBucket(w)', w, walk.nxt, ring')
      BY <2>7, <3>1, <3>2
    <3> QED
      BY <1>5, <1>7, <1>8, <2>1, <2>4, <2>7, <3>1, <3>3
  <2> QED
    BY <2>5, <2>6, <2>7
<1>11. live' /\ walk'.bucket \in Buckets /\ stable' \subseteq linked'
  BY <1>1, <1>5 DEF WalkInv
<1> QED
  BY <1>9, <1>10, <1>11

(* A callback removes an entry, and it is not the one that comes next. *)
LEMMA WalkTake ==
  ASSUME IInv, WalkInv, NEW e \in linked, ring' = Unlink(ring, e), Take(e),
         UNCHANGED <<hash, live, walk, seen>>
  PROVE  WalkInv'
<1> SUFFICES ASSUME Walking', slip' = "none"
             PROVE  /\ live' /\ walk'.bucket \in Buckets /\ stable' \subseteq linked'
                    /\ \A b \in Buckets : /\ b < walk'.bucket => Passed(b)'
                                          /\ b > walk'.bucket => Unseen(b)'
                    /\ \E A : AheadNow(A)'
  BY DEF WalkInv
<1>1. Walking /\ slip = "none" /\ e # walk.nxt
  BY DEF Walking, Take
<1>2. PICK w \in Buckets : w = walk.bucket
  BY <1>1 DEF WalkInv
<1>3. PICK A : AheadNow(A)
  BY <1>1 DEF WalkInv
<1>4. linked' = linked \ {e} /\ stable' = stable \ {e} /\ \A d \in linked \ {e} : key'[d] = key[d]
  BY DEF IInv, TypeOK, Take, linked
<1>5. ASSUME NEW b \in Buckets PROVE InBucket(b)' = InBucket(b) \ {e}
  <2>1. \A x : Bucket(x)' = Bucket(x)
    BY DEF Bucket
  <2>2. ASSUME NEW d PROVE d \in InBucket(b)' <=> d \in InBucket(b) /\ d # e
    BY <1>4, <2>1 DEF InBucket
  <2> QED
    BY <2>2
<1>6. ASSUME NEW b \in Buckets
      PROVE  (b < walk'.bucket => Passed(b)') /\ (b > walk'.bucket => Unseen(b)')
  <2>1. (b < walk.bucket => Passed(b)) /\ (b > walk.bucket => Unseen(b))
    BY <1>1 DEF WalkInv
  <2> QED
    BY <1>4, <1>5, <2>1 DEF Passed, Unseen
<1>7. AheadNow(A \ {e})'
  <2>1. /\ Ahead(A, InBucket(w), w, walk.nxt, ring) /\ A \cap seen = {}
        /\ InBucket(w) \cap stable \subseteq seen \cup A
    BY <1>2, <1>3 DEF AheadNow
  <2>2. /\ w \notin InBucket(w) /\ InBucket(w) \cup {w} \subseteq Buckets \cup linked
        /\ ring \in Rings(Cells) /\ Buckets \cup linked \in SUBSET Cells
        /\ Closed(ring, Buckets \cup linked) /\ e \in Buckets \cup linked /\ e # w
    BY BucketClosed, RingType, RingsHold, EntryHome DEF IInv, RingsClosed, linked
  <2>3. Ahead(A \ {e}, InBucket(w) \ {e}, w, walk.nxt, ring')
    BY <1>1, <2>1, <2>2, AheadUnlink
  <2>4. InBucket(w)' = InBucket(w) \ {e}
    BY <1>5
  <2> QED
    BY <1>2, <1>4, <2>1, <2>3, <2>4 DEF AheadNow
<1>8. live' /\ walk'.bucket \in Buckets /\ stable' \subseteq linked'
  BY <1>1, <1>4 DEF WalkInv
<1> QED
  BY <1>6, <1>7, <1>8

LEMMA NotOff == ASSUME NEW w, w.bucket \in Buckets PROVE w # Off
BY DEF Off, Buckets

(* The walk begins a bucket that it has not given any entry of. *)
LEMMA WalkEnter ==
  ASSUME IInv, NEW b \in Buckets, Enter(b), UNCHANGED <<hash, ring, key>>,
         Unseen(b)', live', stable' \subseteq linked',
         \A d \in Buckets : /\ d < b => Passed(d)'
                            /\ d > b => Unseen(d)'
  PROVE  WalkInv'
<1>1. walk'.bucket = b /\ walk'.nxt = ring.next[b]
  BY DEF Enter
<1>2. InBucket(b)' = InBucket(b)
  BY DEF InBucket, linked, Bucket
<1>3. Ahead(InBucket(b), InBucket(b), b, ring.next[b], ring)
  BY BucketClosed, AheadEnter
<1>4. AheadNow(InBucket(b))'
  BY <1>1, <1>2, <1>3 DEF AheadNow, Unseen
<1> QED
  BY <1>1, <1>4 DEF WalkInv

LEMMA WalkBegins == ASSUME IInv, Foreach PROVE WalkInv'
<1>1. 0 \in Buckets /\ Enter(0) /\ live /\ UNCHANGED table /\ seen' = {} /\ stable' = linked
  BY ClosedMapAssumption DEF Foreach, Buckets
<1>2. linked' = linked
  BY <1>1 DEF linked, table
<1>3. \A b \in Buckets : ~(b < 0) /\ Unseen(b)'
  BY <1>1 DEF Buckets, Unseen
<1> QED
  BY <1>1, <1>2, <1>3, WalkEnter DEF table

(* At the end of a bucket, the walk has given what stayed in it. *)
LEMMA BucketEnds ==
  ASSUME IInv, WalkInv, Walking, slip = "none", walk.nxt = walk.bucket
  PROVE  Passed(walk.bucket)
<1>1. PICK w \in Buckets : w = walk.bucket
  BY DEF WalkInv
<1>2. PICK A : AheadNow(A)
  BY DEF WalkInv
<1>3. Chained(w)
  BY DEF IInv
<1>4. PICK n \in Nat : \E g \in Numbering(Cells, n) :
                         Ordered(ring, w, g, n) /\ Elements(g, n) = InBucket(w)
  BY <1>3 DEF Chained
<1>5. PICK g \in Numbering(Cells, n) : Ordered(ring, w, g, n) /\ Elements(g, n) = InBucket(w)
  BY <1>4
<1>6. Ahead(A, Elements(g, n), w, w, ring)
  BY <1>1, <1>2, <1>5 DEF AheadNow
<1>7. A = {}
  BY <1>5, <1>6, AheadEnd
<1> QED
  BY <1>1, <1>2, <1>7 DEF AheadNow, Passed

(* The next link is an entry in front of the walk. *)
LEMMA EntryAhead ==
  ASSUME IInv, WalkInv, Walking, slip = "none", walk.nxt # walk.bucket
  PROVE  /\ walk.nxt \in linked \ seen
         /\ walk.nxt \in InBucket(walk.bucket)
         /\ \A A : AheadNow(A) =>
              /\ walk.nxt \in A
              /\ Ahead(A \ {walk.nxt}, InBucket(walk.bucket), walk.bucket,
                       ring.next[walk.nxt], ring)
<1>1. PICK w \in Buckets : w = walk.bucket
  BY DEF WalkInv
<1>2. w \notin InBucket(w) /\ Closed(ring, InBucket(w) \cup {w}) /\ InBucket(w) \subseteq linked
  BY BucketClosed
<1>3. ASSUME NEW A, AheadNow(A)
      PROVE  /\ walk.nxt \in A
             /\ Ahead(A \ {walk.nxt}, InBucket(w), w, ring.next[walk.nxt], ring)
  <2>1. Ahead(A, InBucket(w), w, walk.nxt, ring) /\ walk.nxt # w
    BY <1>1, <1>3 DEF AheadNow
  <2> QED
    BY <1>2, <2>1, AheadStep
<1>4. PICK A : AheadNow(A)
  BY DEF WalkInv
<1>5. walk.nxt \in A /\ A \subseteq InBucket(w) /\ A \cap seen = {}
  BY <1>1, <1>3, <1>4 DEF AheadNow, Ahead
<1> QED
  BY <1>1, <1>2, <1>3, <1>5

LEMMA WalkGoesOn == ASSUME IInv, WalkInv, WalkNext PROVE WalkInv'
<1>1. UNCHANGED table /\ Walking /\ slip # "undefined"
  BY DEF WalkNext
<1>2. UNCHANGED <<hash, live, ring, key>> /\ linked' = linked
      /\ \A b : InBucket(b)' = InBucket(b)
  BY <1>1 DEF table, linked, InBucket, Bucket
<1>3. CASE WalkOn
  <2>1. CASE walk.bucket + 1 \in Buckets
    <3>1. Enter(walk.bucket + 1) /\ UNCHANGED history /\ walk.nxt = walk.bucket
      BY <1>3, <2>1 DEF WalkOn
    <3>2. CASE slip # "none"
      BY <3>1, <3>2 DEF WalkInv, history
    <3>3. CASE slip = "none"
      <4>1. Passed(walk.bucket)
        BY <1>1, <3>1, <3>3, BucketEnds
      <4>2. /\ live /\ walk.bucket \in Buckets /\ stable \subseteq linked
            /\ \A b \in Buckets : /\ b < walk.bucket => Passed(b)
                                  /\ b > walk.bucket => Unseen(b)
        BY <1>1, <3>3 DEF WalkInv
      <4>3. PICK w \in Buckets : w = walk.bucket
        BY <4>2
      <4>4. PICK x \in Buckets : x = w + 1
        BY <2>1, <4>3
      <4>5. ASSUME NEW b \in Buckets PROVE (b < x => Passed(b)') /\ (b > x => Unseen(b)')
        <5>1. (b < x => b < w \/ b = w) /\ (b > x => b > w)
          BY <4>4 DEF Buckets
        <5>2. Passed(b)' <=> Passed(b)
          BY <1>2, <3>1 DEF Passed, history
        <5>3. Unseen(b)' <=> Unseen(b)
          BY <1>2, <3>1 DEF Unseen, history
        <5> QED
          BY <4>1, <4>2, <4>3, <5>1, <5>2, <5>3
      <4>6. Unseen(x)'
        <5>1. x > w
          BY <4>4 DEF Buckets
        <5> QED
          BY <1>2, <3>1, <4>2, <4>3, <5>1 DEF Unseen, history
      <4>7. Enter(x) /\ live' /\ stable' \subseteq linked'
        BY <1>2, <3>1, <4>2, <4>3, <4>4 DEF history
      <4> QED
        BY <1>2, <4>5, <4>6, <4>7, WalkEnter
    <3> QED
      BY <3>2, <3>3
  <2>2. CASE walk.bucket + 1 \notin Buckets
    BY <1>3, <2>2 DEF WalkOn, WalkInv, Walking
  <2> QED
    BY <2>1, <2>2
<1>4. CASE /\ walk.nxt \in Entries
           /\ walk' = [walk EXCEPT !.cur = walk.nxt, !.nxt = ring.next[walk.nxt]]
           /\ seen' = seen \cup {walk.nxt}
           /\ UNCHANGED <<slip, stable>>
  <2>1. CASE slip # "none"
    BY <1>4, <2>1 DEF WalkInv
  <2>2. CASE slip = "none"
    <3>1. /\ live /\ walk.bucket \in Buckets /\ stable \subseteq linked
          /\ \A b \in Buckets : /\ b < walk.bucket => Passed(b)
                                /\ b > walk.bucket => Unseen(b)
      BY <1>1, <2>2 DEF WalkInv
    <3>2. walk.nxt # walk.bucket
      BY <1>4, <3>1, ClosedMapAssumption
    <3>3. /\ walk.nxt \in linked \ seen /\ walk.nxt \in InBucket(walk.bucket)
          /\ \A A : AheadNow(A) =>
               /\ walk.nxt \in A
               /\ Ahead(A \ {walk.nxt}, InBucket(walk.bucket), walk.bucket,
                        ring.next[walk.nxt], ring)
      BY <1>1, <2>2, <3>2, EntryAhead
    <3>4. walk'.bucket = walk.bucket /\ walk'.nxt = ring.next[walk.nxt]
      BY <1>4 DEF IInv, TypeOK
    <3>5. PICK A : AheadNow(A)
      BY <1>1, <2>2 DEF WalkInv
    <3>6. \E D : AheadNow(D)'
      <4>1. PICK w \in Buckets : w = walk.bucket
        BY <3>1
      <4>2. PICK l : l = walk.nxt
        OBVIOUS
      <4>3. Ahead(A \ {l}, InBucket(w), w, ring.next[l], ring)
        BY <3>3, <3>5, <4>1, <4>2
      <4>4. InBucket(w)' = InBucket(w) /\ walk'.bucket = w /\ walk'.nxt = ring.next[l] /\ ring' = ring
        BY <1>2, <3>4, <4>1, <4>2
      <4>5. (A \ {l}) \cap seen' = {}
        BY <1>4, <3>5, <4>2 DEF AheadNow
      <4>6. InBucket(w)' \cap stable' \subseteq seen' \cup (A \ {l})
        BY <1>2, <1>4, <3>5, <4>1, <4>2 DEF AheadNow
      <4>7. AheadNow(A \ {l})'
        BY <4>3, <4>4, <4>5, <4>6 DEF AheadNow
      <4> QED
        BY <4>7
    <3>7. ASSUME NEW b \in Buckets
          PROVE  (b < walk'.bucket => Passed(b)') /\ (b > walk'.bucket => Unseen(b)')
      <4>1. b > walk.bucket => walk.nxt \notin InBucket(b)
        BY <3>1, <3>3 DEF InBucket, Buckets
      <4> QED
        BY <1>2, <1>4, <3>1, <3>4, <4>1 DEF Passed, Unseen
    <3> QED
      BY <1>2, <1>4, <3>1, <3>4, <3>6, <3>7 DEF WalkInv
  <2> QED
    BY <2>1, <2>2
<1>5. CASE slip' = "undefined"
  BY <1>5 DEF WalkInv
<1> QED
  BY <1>3, <1>4, <1>5 DEF WalkNext

LEMMA NextWalk == ASSUME IInv, WalkInv, [Next]_vars PROVE WalkInv'
<1>1. CASE New
  BY <1>1 DEF New, WalkInv, Walking, history
<1>2. CASE Delete
  BY <1>2 DEF Delete, WalkInv, Walking
<1>3. ASSUME NEW e \in Entries, NEW k \in Keys, NEW v \in Values, Insert(e, k, v)
      PROVE  WalkInv'
  <2>1. UNCHANGED <<hash, live, walk, slip, stable>>
    BY <1>3 DEF Insert
  <2>2. CASE /\ e \notin linked /\ \A d \in linked : key[d] # k
             /\ Link(e, k, v, AddBack(LinkInit(ring, e), Bucket(k), e))
    BY <2>1, <2>2, WalkLink
  <2>3. CASE UNCHANGED <<ring, key, size, seen>>
    BY <2>1, <2>3, WalkSame
  <2> QED
    BY <1>3, <2>2, <2>3, InsertIs
<1>4. ASSUME NEW k \in Keys, Remove(k) PROVE WalkInv'
  <2>1. PICK e \in linked : key[e] = k /\ ring' = Unlink(ring, e) /\ Take(e)
    BY <1>4, RemoveIs
  <2> QED
    BY <1>4, <2>1, WalkTake DEF Remove
<1>5. CASE UNCHANGED vars
  BY <1>5, WalkSame DEF vars, table, history
<1> QED
  BY <1>1, <1>2, <1>3, <1>4, <1>5, WalkBegins, WalkGoesOn DEF Next, Halted

LEMMA InitWalk == ASSUME Init PROVE WalkInv
BY DEF Init, WalkInv, Walking

LEMMA Walks == Spec => [](IInv /\ WalkInv)
<1>1. Init => WalkInv
  BY InitWalk
<1>2. IInv /\ WalkInv /\ [Next]_vars => WalkInv'
  BY NextWalk
<1> QED
  BY <1>1, <1>2, Invariant, PTL DEF Spec

(* What the callback is given, and what it has been given at the end.       *)
WalkStep ==
  slip = "none" /\ Walking =>
    /\ walk'.cur # walk.cur /\ walk'.cur \in Entries => walk'.cur \in linked \ seen
    /\ walk' = Off => stable \subseteq seen

LEMMA OnlyWalkNext ==
  ASSUME Walking, [Next]_vars
  PROVE  WalkNext \/ UNCHANGED walk
BY DEF Next, Halted, vars, New, Delete, Insert, Remove, Foreach

LEMMA WalkStepHolds == ASSUME IInv, WalkInv, [Next]_vars PROVE WalkStep
<1> SUFFICES ASSUME slip = "none", Walking
             PROVE  /\ walk'.cur # walk.cur /\ walk'.cur \in Entries => walk'.cur \in linked \ seen
                    /\ walk' = Off => stable \subseteq seen
  BY DEF WalkStep
<1>1. /\ live /\ walk.bucket \in Buckets /\ stable \subseteq linked
      /\ \A b \in Buckets : /\ b < walk.bucket => Passed(b)
                            /\ b > walk.bucket => Unseen(b)
  BY DEF WalkInv
<1>2. CASE UNCHANGED walk
  BY <1>2 DEF Walking
<1>3. CASE WalkNext /\ WalkOn
  <2>1. walk'.cur = None /\ None \notin Entries
    BY <1>3, ClosedMapAssumption DEF WalkOn, Enter, Off, Cells
  <2>2. ASSUME walk' = Off PROVE stable \subseteq seen
    <3>1. walk.nxt = walk.bucket /\ walk.bucket + 1 \notin Buckets
      <4>1. ASSUME walk.bucket + 1 \in Buckets PROVE FALSE
        <5>1. walk'.bucket \in Buckets
          BY <1>3, <4>1 DEF WalkOn, Enter
        <5> QED
          BY <2>2, <5>1, NotOff
      <4> QED
        BY <1>3, <4>1 DEF WalkOn
    <3>2. Passed(walk.bucket)
      BY <3>1, BucketEnds
    <3>3. PICK w \in Buckets : w = walk.bucket
      BY <1>1
    <3>4. \A b \in Buckets : b < w \/ b = w
      BY <3>1, <3>3, ClosedMapAssumption DEF Buckets
    <3>5. \A b \in Buckets : Passed(b)
      BY <1>1, <3>2, <3>3, <3>4
    <3>6. ASSUME NEW e \in stable PROVE e \in seen
      <4>1. e \in linked
        BY <1>1
      <4>2. PICK b \in Buckets : b = Bucket(key[e])
        BY <4>1, EntryHome DEF IInv
      <4>3. e \in InBucket(b) /\ Passed(b)
        BY <3>5, <4>1, <4>2 DEF InBucket
      <4> QED
        BY <4>3 DEF Passed
    <3> QED
      BY <3>6
  <2> QED
    BY <2>1, <2>2
<1>4. CASE /\ walk.nxt \in Entries
           /\ walk' = [walk EXCEPT !.cur = walk.nxt, !.nxt = ring.next[walk.nxt]]
  <2>1. walk'.cur = walk.nxt /\ walk'.bucket = walk.bucket
    BY <1>4 DEF IInv, TypeOK
  <2>2. walk.nxt # walk.bucket
    BY <1>1, <1>4, ClosedMapAssumption
  <2>3. walk.nxt \in linked \ seen
    BY <2>2, EntryAhead
  <2>4. walk' # Off
    BY <1>1, <2>1, NotOff
  <2> QED
    BY <2>1, <2>3, <2>4
<1> QED
  BY <1>2, <1>3, <1>4, OnlyWalkNext DEF WalkNext

(* foreach with callbacks that insert and remove, in a table of any size:   *)
(* unless the entry that comes next is removed, no entry is given twice or  *)
(* after it was removed, and none that stays is missed.                     *)
THEOREM WalksStayExact == Spec => WalkExact
<1>1. IInv /\ WalkInv /\ [Next]_vars =>
        [slip = "none" /\ Walking =>
           /\ walk'.cur # walk.cur /\ walk'.cur \in Entries => walk'.cur \in linked \ seen
           /\ walk' = Off => stable \subseteq seen]_vars
  BY WalkStepHolds DEF WalkStep
<1> QED
  BY <1>1, Walks, PTL DEF Spec, WalkExact
=============================================================================

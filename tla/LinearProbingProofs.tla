------------------------ MODULE LinearProbingProofs ------------------------
(***************************************************************************)
(* Proofs about the linear-probing table, for any keys, values, hash       *)
(* function and size.  What makes a careful client's table a map is that   *)
(* the slots probed before that of a key are all used.                     *)
(***************************************************************************)
EXTENDS LinearProbing, FiniteSetTheorems, WellFoundedInduction, TLAPS

(* The probe for the key in slot s gets there: it passes only slots that    *)
(* hold other keys.                                                         *)
Passes(k, d) == \A e \in 0 .. d - 1 : slots[At(k, e)].key \notin {Empty, k}

Reached(s) ==
  \E d \in Distance : At(slots[s].key, d) = s /\ Passes(slots[s].key, d)

Unbroken == ~careless => \A s \in Used : Reached(s)
Counted  == length = Cardinality(Used)

IInv == TypeOK /\ Counted /\ Unbroken /\ PutIsRead

-----------------------------------------------------------------------------
(* Arithmetic *)

LEMMA MinIs ==
  ASSUME NEW S, S \subseteq Nat, NEW d \in S, \A e \in S : d <= e
  PROVE  Min(S) = d
<1>1. \E x \in S : \A y \in S : x <= y
  OBVIOUS
<1>2. Min(S) \in S /\ \A y \in S : Min(S) <= y
  BY <1>1 DEF Min
<1> DEFINE m == Min(S)
<1>3. m \in Nat /\ d \in Nat /\ m <= d /\ d <= m
  BY <1>2
<1> HIDE DEF m
<1>4. m = d
  BY <1>3
<1> QED
  BY <1>4 DEF m

LEMMA MinHas ==
  ASSUME NEW S, S \subseteq Nat, S # {}
  PROVE  Min(S) \in S /\ \A e \in S : Min(S) <= e
<1> DEFINE R == OpToRel(<, Nat)
<1>1. PICK x \in S : \A y \in S : ~ (<<y, x>> \in R)
  <2>1. IsWellFoundedOn(R, Nat)
    BY NatLessThanWellFounded
  <2> HIDE DEF R
  <2> QED
    BY <2>1, WFMin
<1>2. \A y \in S : ~(y < x)
  BY <1>1 DEF OpToRel
<1>3. \A y \in S : x <= y
  BY <1>2
<1> QED
  BY <1>3 DEF Min

LEMMA ModSmall ==
  ASSUME NEW N \in Nat \ {0}, NEW a \in 0 .. N - 1
  PROVE  a % N = a /\ (a + N) % N = a
<1>1. a % N = a
  OBVIOUS
<1>2. (a + N) % N = a
  OBVIOUS
<1> QED
  BY <1>1, <1>2

LEMMA ModInside ==
  ASSUME NEW h \in Int, NEW N \in Nat \ {0}
  PROVE  h % N \in 0 .. N - 1
OBVIOUS

(* The slot after the one that a probe is at is the next it gets to. *)
LEMMA AtNext ==
  ASSUME NEW N \in Nat \ {0}, NEW h \in 0 .. N - 1, NEW d \in 0 .. N - 1, NEW e \in 0 .. d - 1
  PROVE  (h + (e + 1)) % N = (((h + e) % N) + 1) % N
<1>1. CASE h + e < N - 1
  <2>1. (h + e) % N = h + e
    BY <1>1, ModSmall
  <2> QED
    BY <2>1
<1>2. CASE h + e = N - 1
  <2>1. (h + e) % N = h + e
    BY <1>2, ModSmall
  <2> QED
    BY <2>1
<1>3. CASE h + e >= N
  <2> DEFINE a == h + e - N
  <2>1. a \in 0 .. N - 1 /\ a + 1 \in 0 .. N - 1 /\ h + e = a + N /\ h + (e + 1) = (a + 1) + N
    BY <1>3
  <2> HIDE DEF a
  <2>2. (h + e) % N = a /\ (h + (e + 1)) % N = a + 1 /\ (a + 1) % N = a + 1
    BY <2>1, ModSmall
  <2> QED
    BY <2>2
<1> QED
  BY <1>1, <1>2, <1>3

(* Every slot is somewhere in the probe. *)
LEMMA EachSlotProbed ==
  ASSUME NEW N \in Nat \ {0}, NEW h \in 0 .. N - 1, NEW s \in 0 .. N - 1
  PROVE  \E d \in 0 .. N - 1 : (h + d) % N = s
<1>1. CASE s >= h
  <2>1. s - h \in 0 .. N - 1 /\ h + (s - h) = s
    BY <1>1
  <2> QED
    BY <2>1, ModSmall
<1>2. CASE s < h
  <2>1. s - h + N \in 0 .. N - 1 /\ h + (s - h + N) = s + N
    BY <1>2
  <2> QED
    BY <2>1, ModSmall
<1> QED
  BY <1>1, <1>2
-----------------------------------------------------------------------------
(* Where a probe ends *)

LEMMA Home == ASSUME TypeOK, NEW k \in Keys PROVE hash[k] \in Distance
BY LinearProbingAssumption DEF TypeOK, Distance

LEMMA AtSlot == ASSUME TypeOK, NEW k \in Keys, NEW d \in Distance PROVE At(k, d) \in Distance
<1>1. hash[k] + d \in Int
  BY Home DEF Distance
<1> QED
  BY <1>1, ModInside, LinearProbingAssumption DEF At, Distance

LEMMA EndAt ==
  ASSUME NEW k, NEW ks, NEW d \in Distance, slots[At(k, d)].key \in ks,
         \A e \in 0 .. d - 1 : slots[At(k, e)].key \notin ks
  PROVE  Ends(k, ks) /\ End(k, ks) = At(k, d)
<1>1. Probe(k, ks) \subseteq Nat /\ d \in Probe(k, ks)
  BY DEF Probe, Distance
<1>2. \A e \in Probe(k, ks) : d <= e
  BY DEF Probe, Distance
<1>3. Min(Probe(k, ks)) = d
  BY <1>1, <1>2, MinIs
<1> QED
  BY <1>1, <1>3 DEF Ends, End

LEMMA EndAtThen ==
  ASSUME NEW k, NEW ks, NEW d \in Distance, slots'[At(k, d)'].key \in ks,
         \A e \in 0 .. d - 1 : slots'[At(k, e)'].key \notin ks
  PROVE  Ends(k, ks)' /\ End(k, ks)' = At(k, d)'
<1>1. Probe(k, ks)' \subseteq Nat /\ d \in Probe(k, ks)'
  BY DEF Probe, Distance
<1>2. \A e \in Probe(k, ks)' : d <= e
  BY DEF Probe, Distance
<1>3. Min(Probe(k, ks)') = d
  BY <1>1, <1>2, MinIs
<1> QED
  BY <1>1, <1>3 DEF Ends, End

(* A probe that ends does so at some distance, behind slots it does not     *)
(* stop at.                                                                 *)
LEMMA EndIs ==
  ASSUME TypeOK, NEW k \in Keys, NEW ks, Ends(k, ks)
  PROVE  \E d \in Distance :
           /\ End(k, ks) = At(k, d) /\ At(k, d) \in Distance
           /\ slots[At(k, d)].key \in ks
           /\ \A e \in 0 .. d - 1 : slots[At(k, e)].key \notin ks
<1> DEFINE d == Min(Probe(k, ks))
<1>1. Probe(k, ks) \subseteq Nat /\ Probe(k, ks) # {}
  BY DEF Probe, Distance, Ends
<1>2. d \in Probe(k, ks) /\ \A e \in Probe(k, ks) : d <= e
  BY <1>1, MinHas
<1>3. End(k, ks) = At(k, d)
  BY DEF End
<1> HIDE DEF d
<1>4. d \in Distance /\ slots[At(k, d)].key \in ks
  BY <1>2 DEF Probe
<1>5. ASSUME NEW e \in 0 .. d - 1 PROVE slots[At(k, e)].key \notin ks
  <2>1. e \in Distance /\ ~(d <= e)
    BY <1>4, LinearProbingAssumption DEF Distance
  <2> QED
    BY <2>1, <1>2 DEF Probe
<1> QED
  BY <1>3, <1>4, <1>5, AtSlot

(* A key that is reached is found, in the slot where it was reached. *)
LEMMA ReachedIsFound ==
  ASSUME TypeOK, NEW s \in Used, Reached(s)
  PROVE  /\ contains(slots[s].key) /\ get(slots[s].key) = slots[s].val
         /\ End(slots[s].key, {Empty, slots[s].key}) = s
<1> DEFINE k == slots[s].key
<1>1. PICK d \in Distance : At(k, d) = s /\ Passes(k, d)
  BY DEF Reached
<1>2. slots[At(k, d)].key = k
  BY <1>1
<1> HIDE DEF k
<1>3. Ends(k, {Empty, k}) /\ End(k, {Empty, k}) = At(k, d)
  BY <1>1, <1>2, EndAt DEF Passes
<1>4. contains(k) /\ get(k) = slots[s].val
  BY <1>1, <1>2, <1>3 DEF contains, get
<1> QED
  BY <1>1, <1>3, <1>4 DEF k

LEMMA KeysAreApart ==
  ASSUME TypeOK, \A s \in Used : Reached(s)
  PROVE  \A s, t \in Used : slots[s].key = slots[t].key => s = t
<1> TAKE s, t \in Used
<1>1. /\ End(slots[s].key, {Empty, slots[s].key}) = s
      /\ End(slots[t].key, {Empty, slots[t].key}) = t
  BY ReachedIsFound
<1> QED
  BY <1>1

-----------------------------------------------------------------------------
(* What storing and emptying a slot do *)

Item == [key : Keys \cup {Empty}, val : Values \cup {None}]

Written(s, i) == slots' = [slots EXCEPT ![s] = i]

LEMMA WrittenIs ==
  ASSUME TypeOK, NEW s \in Distance, NEW i \in Item, Written(s, i)
  PROVE  /\ slots' \in [Distance -> Item]
         /\ slots'[s] = i
         /\ \A t \in Distance : t # s => slots'[t] = slots[t]
BY DEF TypeOK, Item, Written

LEMMA UsedFinite == IsFiniteSet(Used) /\ Cardinality(Used) \in 0 .. TableSize
<1>1. IsFiniteSet(Distance) /\ Cardinality(Distance) = TableSize
  BY FS_Interval, LinearProbingAssumption DEF Distance
<1>2. Used \in SUBSET Distance
  BY DEF Used
<1>3. IsFiniteSet(Used) /\ Cardinality(Used) <= TableSize
  BY <1>1, <1>2, FS_Subset
<1> QED
  BY <1>3, FS_CardinalityType, LinearProbingAssumption

LEMMA UsedFiniteThen == Cardinality(Used') \in 0 .. TableSize
<1>1. IsFiniteSet(Distance) /\ Cardinality(Distance) = TableSize
  BY FS_Interval, LinearProbingAssumption DEF Distance
<1>2. Used' \in SUBSET Distance
  BY DEF Used
<1>3. IsFiniteSet(Used') /\ Cardinality(Used') <= TableSize
  BY <1>1, <1>2, FS_Subset
<1> QED
  BY <1>3, FS_CardinalityType, LinearProbingAssumption

LEMMA StoreCounts ==
  ASSUME TypeOK, Counted, NEW s \in Distance, NEW k \in Keys, NEW v \in Values \cup {None},
         Store(k, v, s)
  PROVE  slots' \in [Distance -> Item] /\ Counted' /\ length' \in 0 .. TableSize
<1> DEFINE i == [key |-> k, val |-> v]
<1>1. i \in Item /\ i.key = k /\ k # Empty /\ Written(s, i)
  BY LinearProbingAssumption DEF Item, Store, Written
<1> HIDE DEF i
<1>2. /\ slots' \in [Distance -> Item] /\ slots'[s] = i
      /\ \A t \in Distance : t # s => slots'[t] = slots[t]
  BY <1>1, WrittenIs
<1>3. Used' = Used \cup {s}
  BY <1>1, <1>2 DEF Used
<1>4. Cardinality(Used') = IF s \in Used THEN Cardinality(Used) ELSE Cardinality(Used) + 1
  BY <1>3, UsedFinite, FS_AddElement
<1>5. length' = Cardinality(Used')
  BY <1>4 DEF Store, Counted, Used
<1> QED
  BY <1>2, <1>5, UsedFiniteThen DEF Counted

LEMMA EmptyCounts ==
  ASSUME TypeOK, Counted, NEW s \in Used, Written(s, Vacant), length' = length - 1
  PROVE  slots' \in [Distance -> Item] /\ Counted' /\ length' \in 0 .. TableSize
<1>1. s \in Distance /\ Vacant \in Item /\ Vacant.key = Empty
  BY DEF Used, Vacant, Item
<1>2. /\ slots' \in [Distance -> Item] /\ slots'[s] = Vacant
      /\ \A t \in Distance : t # s => slots'[t] = slots[t]
  BY <1>1, WrittenIs
<1>3. Used' = Used \ {s}
  BY <1>1, <1>2 DEF Used
<1>4. Cardinality(Used') = Cardinality(Used) - 1
  BY <1>3, UsedFinite, FS_RemoveElement
<1>5. length' = Cardinality(Used')
  BY <1>4 DEF Counted
<1> QED
  BY <1>2, <1>5, UsedFiniteThen DEF Counted

(* What is stored where its probe ended is found there. *)
LEMMA StoreFinds ==
  ASSUME TypeOK, hash' = hash,
         NEW k \in Keys, NEW v \in Values \cup {None}, NEW d \in Distance,
         Written(At(k, d), [key |-> k, val |-> v]),
         slots[At(k, d)].key \in {Empty, k}, Passes(k, d)
  PROVE  slots'[At(k, d)'] = [key |-> k, val |-> v] /\ Passes(k, d)'
<1> DEFINE i == [key |-> k, val |-> v]
           s == At(k, d)
<1>1. i \in Item /\ s \in Distance
  BY AtSlot DEF Item
<1>2. /\ slots'[s] = i
      /\ \A t \in Distance : t # s => slots'[t] = slots[t]
  BY <1>1, WrittenIs
<1>3. \A x, e : At(x, e)' = At(x, e)
  BY DEF At
<1>4. slots[s].key \in {Empty, k}
  OBVIOUS
<1> HIDE DEF i
<1>5. ASSUME NEW e \in 0 .. d - 1 PROVE slots'[At(k, e)'].key \notin {Empty, k}
  <2>1. e \in Distance /\ slots[At(k, e)].key \notin {Empty, k}
    BY LinearProbingAssumption DEF Distance, Passes
  <2>2. At(k, e) \in Distance /\ At(k, e) # s
    BY <1>4, <2>1, AtSlot
  <2> QED
    BY <2>1, <2>2, <1>2, <1>3
<1>6. Passes(k, d)'
  BY <1>5 DEF Passes
<1> QED
  BY <1>2, <1>3, <1>6 DEF i

LEMMA StoreReaches ==
  ASSUME TypeOK, \A t \in Used : Reached(t), hash' = hash,
         NEW k \in Keys, NEW v \in Values \cup {None}, NEW d \in Distance,
         Written(At(k, d), [key |-> k, val |-> v]),
         slots[At(k, d)].key \in {Empty, k}, Passes(k, d)
  PROVE  \A t \in Used' : Reached(t)'
<1> DEFINE i == [key |-> k, val |-> v]
           s == At(k, d)
<1>1. i \in Item /\ i.key = k /\ k # Empty /\ s \in Distance
  BY AtSlot, LinearProbingAssumption DEF Item
<1>2. /\ slots' \in [Distance -> Item] /\ slots'[s] = i
      /\ \A t \in Distance : t # s => slots'[t] = slots[t]
  BY <1>1, WrittenIs
<1>3. \A x, e : At(x, e)' = At(x, e)
  BY DEF At
<1> HIDE DEF i, s
<1> SUFFICES ASSUME NEW t \in Used' PROVE Reached(t)'
  OBVIOUS
<1>4. CASE t = s
  <2>1. slots'[t].key = k /\ At(k, d)' = t
    BY <1>1, <1>2, <1>3, <1>4 DEF s
  <2>2. Passes(k, d)'
    BY StoreFinds
  <2> QED
    BY <2>1, <2>2 DEF Reached
<1>5. CASE t # s
  <2>1. t \in Distance /\ t \in Used /\ slots'[t] = slots[t]
    BY <1>2, <1>5 DEF Used
  <2>2. PICK j \in Keys : slots[t].key = j /\ slots'[t].key = j
    BY <2>1 DEF TypeOK, Used
  <2>3. PICK f \in Distance : At(j, f) = t /\ Passes(j, f)
    BY <2>1, <2>2 DEF Reached
  <2>4. ASSUME NEW e \in 0 .. f - 1 PROVE slots'[At(j, e)'].key \notin {Empty, j}
    <3>1. e \in Distance /\ slots[At(j, e)].key \notin {Empty, j}
      BY <2>3, LinearProbingAssumption DEF Distance, Passes
    <3>2. At(j, e) \in Distance
      BY <3>1, <2>2, AtSlot
    <3>3. At(j, e) = s => slots[At(j, e)].key = k
      BY <3>1 DEF s
    <3> QED
      BY <3>1, <3>2, <3>3, <1>1, <1>2, <1>3
  <2>5. Passes(j, f)'
    BY <2>4 DEF Passes
  <2> QED
    BY <2>2, <2>3, <2>5, <1>3 DEF Reached
<1> QED
  BY <1>4, <1>5

(* A slot at the end of a run of used slots is on no other key's way.       *)
LEMMA EmptyReaches ==
  ASSUME TypeOK, \A t \in Used : Reached(t), hash' = hash,
         NEW s \in Used, AtTail(s), Written(s, Vacant)
  PROVE  \A t \in Used' : Reached(t)'
<1>1. s \in Distance /\ Vacant \in Item /\ Vacant.key = Empty
  BY DEF Used, Vacant, Item
<1>2. /\ slots' \in [Distance -> Item] /\ slots'[s] = Vacant
      /\ \A t \in Distance : t # s => slots'[t] = slots[t]
  BY <1>1, WrittenIs
<1>3. \A x, e : At(x, e)' = At(x, e)
  BY DEF At
<1> SUFFICES ASSUME NEW t \in Used' PROVE Reached(t)'
  OBVIOUS
<1>4. t \in Distance /\ t # s /\ t \in Used /\ slots'[t] = slots[t]
  BY <1>1, <1>2 DEF Used
<1>5. PICK j \in Keys : j # Empty /\ slots[t].key = j /\ slots'[t].key = j
  BY <1>4 DEF TypeOK, Used
<1>6. PICK f \in Distance : At(j, f) = t /\ Passes(j, f)
  BY <1>4, <1>5 DEF Reached
<1>7. slots[At(j, f)].key # Empty
  BY <1>4, <1>6 DEF Used
<1>8. ASSUME NEW e \in 0 .. f - 1 PROVE slots'[At(j, e)'].key \notin {Empty, j}
  <2>1. e \in Distance /\ slots[At(j, e)].key \notin {Empty, j}
    BY <1>6, LinearProbingAssumption DEF Distance, Passes
  <2>2. At(j, e) \in Distance
    BY <2>1, <1>5, AtSlot
  <2>3. At(j, e) # s
    <3> SUFFICES ASSUME At(j, e) = s PROVE FALSE
      OBVIOUS
    <3>1. At(j, e + 1) = (s + 1) % TableSize
      <4>1. hash[j] \in 0 .. TableSize - 1 /\ f \in 0 .. TableSize - 1
        BY <1>5, Home DEF Distance
      <4> QED
        BY <4>1, AtNext, LinearProbingAssumption DEF At
    <3>2. slots[At(j, e + 1)].key = Empty
      BY <3>1 DEF AtTail
    <3>3. e + 1 \in 0 .. f - 1 \/ e + 1 = f
      BY DEF Distance
    <3> QED
      BY <3>2, <3>3, <1>6, <1>7 DEF Passes
  <2> QED
    BY <2>1, <2>2, <2>3, <1>2, <1>3
<1>9. Passes(j, f)'
  BY <1>8 DEF Passes
<1> QED
  BY <1>3, <1>5, <1>6, <1>9 DEF Reached

-----------------------------------------------------------------------------
(* The actions *)

LEMMA InitInv == ASSUME Init PROVE IInv
<1>1. /\ slots \in [Distance -> Item]
      /\ \A s \in Distance : slots[s].key = Empty
  BY DEF Init, Vacant, Item
<1>2. Used = {}
  BY <1>1 DEF Used
<1>3. Cardinality(Used) = 0
  BY <1>2, FS_EmptySet
<1>4. 0 \in 0 .. TableSize
  BY LinearProbingAssumption
<1>5. NoOp \in [op : {"none", "put", "insert", "remove"}, key : Keys \cup {Empty},
                val : Values \cup {None}, ret : {0, 1}]
  BY DEF NoOp
<1>6. TypeOK
  BY <1>1, <1>4, <1>5 DEF Init, TypeOK, Item
<1> QED
  BY <1>2, <1>3, <1>6 DEF Init, IInv, Counted, Unbroken, PutIsRead, NoOp

LEMMA RenewInv ==
  ASSUME IInv, New \/ Delete
  PROVE  IInv' /\ Used' = {}
<1>1. /\ slots' \in [Distance -> Item]
      /\ \A s \in Distance : slots'[s].key = Empty
  BY DEF New, Delete, Vacant, Item
<1>2. Used' = {}
  BY <1>1 DEF Used
<1>3. Cardinality(Used') = 0
  BY <1>2, FS_EmptySet
<1>4. 0 \in 0 .. TableSize
  BY LinearProbingAssumption
<1>5. NoOp \in [op : {"none", "put", "insert", "remove"}, key : Keys \cup {Empty},
                val : Values \cup {None}, ret : {0, 1}]
  BY DEF NoOp
<1>6. hash' = hash /\ kind' = kind /\ length' = 0 /\ last' = NoOp
      /\ exists' \in BOOLEAN /\ careless' \in BOOLEAN
  BY DEF New, Delete
<1> HIDE DEF NoOp
<1>7. TypeOK'
  BY <1>1, <1>4, <1>5, <1>6 DEF IInv, TypeOK, Item
<1> QED
  BY <1>2, <1>3, <1>7 DEF New, Delete, IInv, Counted, Unbroken, PutIsRead, NoOp

(* What an action that stores in a slot, or in none, has to establish.      *)
LEMMA CallInv ==
  ASSUME IInv, NEW op \in {"put", "insert", "remove"}, NEW k \in Keys,
         NEW v \in Values \cup {None}, NEW ret \in {0, 1}, Called(op, k, v, ret),
         UNCHANGED <<hash, kind, exists>>, careless' \in BOOLEAN,
         slots' \in [Distance -> Item], Counted', length' \in 0 .. TableSize,
         Unbroken', PutIsRead'
  PROVE  IInv'
<1>1. TypeOK'
  BY DEF IInv, TypeOK, Called, Item
<1> QED
  BY <1>1 DEF IInv

LEMMA SameInv ==
  ASSUME IInv, UNCHANGED <<hash, slots, length>>, careless => careless'
  PROVE  slots' \in [Distance -> Item] /\ Counted' /\ length' \in 0 .. TableSize /\ Unbroken'
<1>1. slots' \in [Distance -> Item] /\ length' \in 0 .. TableSize
  BY DEF IInv, TypeOK, Item
<1>2. Used' = Used /\ \A s : Reached(s)' = Reached(s)
  BY DEF Used, Reached, Passes, At
<1> QED
  BY <1>1, <1>2 DEF IInv, Counted, Unbroken

(* A slot was stored where the probe ended. *)
LEMMA StoreInv ==
  ASSUME IInv, NEW k \in Keys, NEW v \in Values \cup {None}, NEW d \in Distance,
         Store(k, v, At(k, d)), hash' = hash, careless => careless',
         slots[At(k, d)].key \in {Empty, k}, ~careless' => Passes(k, d)
  PROVE  slots' \in [Distance -> Item] /\ Counted' /\ length' \in 0 .. TableSize /\ Unbroken'
<1>1. TypeOK /\ Counted /\ At(k, d) \in Distance
  BY AtSlot DEF IInv
<1>2. slots' \in [Distance -> Item] /\ Counted' /\ length' \in 0 .. TableSize
  BY <1>1, StoreCounts
<1>3. Unbroken'
  <2>1. Written(At(k, d), [key |-> k, val |-> v])
    BY DEF Store, Written
  <2>2. ~careless' => \A t \in Used : Reached(t)
    BY DEF IInv, Unbroken
  <2> QED
    BY <1>1, <2>1, <2>2, StoreReaches DEF Unbroken
<1> QED
  BY <1>2, <1>3

LEMMA PutReads ==
  ASSUME last'.op = "put", NEW k, last'.key = k,
         IF last'.ret = 1 THEN contains(k)' /\ get(k)' = last'.val
                          ELSE ~contains(k)' /\ Used' = Distance
  PROVE  PutIsRead'
BY DEF PutIsRead, contains, get, Ends, End, Probe, At

LEMMA PutInv == ASSUME IInv, NEW k \in Keys, NEW v \in Values, Put(k, v) PROVE IInv'
<1> DEFINE ks == {Empty, k}
<1>1. TypeOK /\ UNCHANGED <<hash, kind, exists, careless>> /\ careless \in BOOLEAN
  BY DEF IInv, TypeOK, Put
<1>2. CASE Ends(k, ks)
  <2>1. PICK d \in Distance :
           /\ End(k, ks) = At(k, d) /\ At(k, d) \in Distance
           /\ slots[At(k, d)].key \in ks
           /\ \A e \in 0 .. d - 1 : slots[At(k, e)].key \notin ks
    BY <1>1, <1>2, EndIs
  <2>2. Store(k, v, At(k, d)) /\ Called("put", k, v, 1)
    BY <1>2, <2>1 DEF Put
  <2>3. Passes(k, d)
    BY <2>1 DEF Passes
  <2>4. slots' \in [Distance -> Item] /\ Counted' /\ length' \in 0 .. TableSize /\ Unbroken'
    BY <1>1, <2>1, <2>2, <2>3, StoreInv
  <2>5. slots'[At(k, d)'] = [key |-> k, val |-> v] /\ Passes(k, d)'
    <3>1. Written(At(k, d), [key |-> k, val |-> v])
      BY <2>2 DEF Store, Written
    <3> QED
      BY <1>1, <2>1, <2>3, <3>1, StoreFinds
  <2>6. Ends(k, ks)' /\ End(k, ks)' = At(k, d)'
    <3>1. slots'[At(k, d)'].key \in ks
      BY <2>5
    <3>2. \A e \in 0 .. d - 1 : slots'[At(k, e)'].key \notin ks
      BY <2>5 DEF Passes
    <3> QED
      BY <3>1, <3>2, EndAtThen
  <2>7. contains(k)' /\ get(k)' = v
    BY <2>5, <2>6 DEF contains, get
  <2>8. last' = [op |-> "put", key |-> k, val |-> v, ret |-> 1]
    BY <2>2 DEF Called
  <2>9. PutIsRead'
    BY <2>7, <2>8, PutReads
  <2> QED
    BY <1>1, <2>2, <2>4, <2>9, CallInv
<1>3. CASE ~Ends(k, ks)
  <2>1. Called("put", k, v, 0) /\ UNCHANGED <<slots, length>>
    BY <1>3 DEF Put, Full
  <2>2. Used' = Distance
    <3>1. ASSUME NEW s \in Distance PROVE slots[s].key # Empty
      <4>1. PICK d \in Distance : At(k, d) = s
        BY <1>1, Home, EachSlotProbed, LinearProbingAssumption DEF At, Distance
      <4> QED
        BY <4>1, <1>3 DEF Ends, Probe
    <3> QED
      BY <3>1, <2>1 DEF Used
  <2>3. ~contains(k)'
    BY <1>1, <1>3, <2>1 DEF contains, Ends, Probe, At
  <2>4. last' = [op |-> "put", key |-> k, val |-> v, ret |-> 0]
    BY <2>1 DEF Called
  <2>5. PutIsRead'
    BY <2>2, <2>3, <2>4, PutReads
  <2>6. slots' \in [Distance -> Item] /\ Counted' /\ length' \in 0 .. TableSize /\ Unbroken'
    BY <1>1, <2>1, SameInv
  <2> QED
    BY <1>1, <2>1, <2>5, <2>6, CallInv
<1> QED
  BY <1>2, <1>3

LEMMA InsertInv == ASSUME IInv, NEW k \in Keys, Insert(k) PROVE IInv'
<1>1. /\ TypeOK /\ UNCHANGED <<hash, kind, exists>>
      /\ careless' = (careless \/ contains(k)) /\ careless' \in BOOLEAN
  BY DEF IInv, TypeOK, Insert, contains
<1>2. CASE Ends(k, {Empty})
  <2>1. PICK d \in Distance :
           /\ End(k, {Empty}) = At(k, d) /\ At(k, d) \in Distance
           /\ slots[At(k, d)].key \in {Empty}
           /\ \A e \in 0 .. d - 1 : slots[At(k, e)].key \notin {Empty}
    BY <1>1, <1>2, EndIs
  <2>2. Store(k, None, At(k, d)) /\ Called("insert", k, None, 1)
    BY <1>2, <2>1 DEF Insert
  <2>3. ASSUME ~careless' PROVE Passes(k, d)
    <3>1. ~contains(k) /\ Ends(k, {Empty, k})
      BY <1>1, <2>1, <2>3 DEF Ends, Probe
    <3>2. PICK m \in Distance :
             /\ End(k, {Empty, k}) = At(k, m)
             /\ slots[At(k, m)].key \in {Empty, k}
             /\ \A e \in 0 .. m - 1 : slots[At(k, e)].key \notin {Empty, k}
      BY <1>1, <3>1, EndIs
    <3>3. slots[At(k, m)].key = Empty
      BY <3>1, <3>2 DEF contains
    <3>4. ~(m < d)
      BY <3>3, <2>1 DEF Distance
    <3>5. \A e \in 0 .. d - 1 : e \in 0 .. m - 1
      BY <3>4 DEF Distance
    <3> QED
      BY <3>2, <3>5 DEF Passes
  <2>4. slots' \in [Distance -> Item] /\ Counted' /\ length' \in 0 .. TableSize /\ Unbroken'
    BY <1>1, <2>1, <2>2, <2>3, StoreInv
  <2>5. PutIsRead'
    BY <2>2 DEF PutIsRead, Called
  <2> QED
    BY <1>1, <2>2, <2>4, <2>5, CallInv
<1>3. CASE ~Ends(k, {Empty})
  <2>1. Called("insert", k, None, 0) /\ UNCHANGED <<slots, length>>
    BY <1>3 DEF Insert, Full
  <2>2. PutIsRead'
    BY <2>1 DEF PutIsRead, Called
  <2>3. slots' \in [Distance -> Item] /\ Counted' /\ length' \in 0 .. TableSize /\ Unbroken'
    BY <1>1, <2>1, SameInv
  <2> QED
    BY <1>1, <2>1, <2>2, <2>3, CallInv
<1> QED
  BY <1>2, <1>3

LEMMA RemoveInv == ASSUME IInv, NEW k \in Keys, Remove(k) PROVE IInv'
<1> DEFINE s == End(k, {Empty, k})
<1>1. /\ TypeOK /\ UNCHANGED <<hash, kind, exists>>
      /\ careless' = (careless \/ (contains(k) /\ ~AtTail(s))) /\ careless' \in BOOLEAN
  BY DEF IInv, TypeOK, Remove, contains, AtTail
<1>2. CASE contains(k)
  <2>1. Written(s, Vacant) /\ length' = length - 1 /\ Called("remove", k, None, 1)
    BY <1>2 DEF Remove, Written
  <2>2. s \in Used
    <3>1. s \in Distance
      BY <1>1, <1>2, EndIs DEF contains
    <3> QED
      BY <3>1, <1>2, LinearProbingAssumption DEF contains, Used
  <2> HIDE DEF s
  <2>3. slots' \in [Distance -> Item] /\ Counted' /\ length' \in 0 .. TableSize
    BY <1>1, <2>1, <2>2, EmptyCounts DEF IInv
  <2>4. Unbroken'
    <3>1. ASSUME ~careless' PROVE AtTail(s) /\ \A t \in Used : Reached(t)
      BY <1>1, <1>2, <3>1 DEF IInv, Unbroken
    <3> QED
      BY <1>1, <2>1, <2>2, <3>1, EmptyReaches DEF Unbroken
  <2>5. PutIsRead'
    BY <2>1 DEF PutIsRead, Called
  <2> QED
    BY <1>1, <2>1, <2>3, <2>4, <2>5, CallInv
<1>3. CASE ~contains(k)
  <2>1. Called("remove", k, None, 0) /\ UNCHANGED <<slots, length>>
    BY <1>3 DEF Remove
  <2>2. PutIsRead'
    BY <2>1 DEF PutIsRead, Called
  <2> HIDE DEF s
  <2>3. slots' \in [Distance -> Item] /\ Counted' /\ length' \in 0 .. TableSize /\ Unbroken'
    BY <1>1, <2>1, SameInv
  <2> QED
    BY <1>1, <2>1, <2>2, <2>3, CallInv
<1> QED
  BY <1>2, <1>3

LEMMA StutterInv == ASSUME IInv, UNCHANGED vars PROVE IInv'
BY DEF vars, IInv, TypeOK, Counted, Unbroken, Used, Reached, Passes, At, PutIsRead,
       contains, get, Ends, End, Probe

LEMMA NextInv == ASSUME IInv, [Next]_vars PROVE IInv'
BY RenewInv, PutInv, InsertInv, RemoveInv, StutterInv DEF Next

LEMMA Invariant == Spec => []IInv
BY InitInv, NextInv, PTL DEF Spec

(* For every client of a table of any size: the types are right, length is  *)
(* the number of used slots, and no careful client has a key twice.         *)
THEOREM SlotsStaySound == Spec => []SlotsSound
<1>1. IInv => SlotsSound
  BY KeysAreApart DEF IInv, Counted, Unbroken, SlotsSound
<1> QED
  BY <1>1, Invariant, PTL

(* A careful client finds every key, with its value, in a table of any size *)
(* and up to the last slot.                                                 *)
THEOREM CarefulClientsFind == Spec => []KeysAreFound
<1>1. IInv => KeysAreFound
  BY ReachedIsFound DEF IInv, Unbroken, KeysAreFound, CollidingKeysFound
<1> QED
  BY <1>1, Invariant, PTL

(* What put stores, get reads, whatever the client did before; and put only *)
(* refuses if all slots are used by other keys.                             *)
THEOREM PutsAreRead == Spec => []PutIsRead
<1>1. IInv => PutIsRead
  BY DEF IInv
<1> QED
  BY <1>1, Invariant, PTL

-----------------------------------------------------------------------------
(* The refinement *)

UsedIn(t) == {s \in Distance : t[s].key # Empty}

MapOf(t) ==
  [k \in {t[s].key : s \in UsedIn(t)} |->
     (CHOOSE e \in {t[s] : s \in UsedIn(t)} : e.key = k).val]

Apart(t) ==
  /\ t \in [Distance -> Item]
  /\ \A r, s \in UsedIn(t) : t[r].key = t[s].key => r = s

LEMMA ContentIs == Content = MapOf(slots) /\ Content' = MapOf(slots')
BY DEF Content, MapOf, Used, UsedIn

LEMMA MapOfAt ==
  ASSUME NEW t, Apart(t), NEW s \in UsedIn(t)
  PROVE  t[s].key \in DOMAIN MapOf(t) /\ MapOf(t)[t[s].key] = t[s].val
<1> DEFINE E == {t[r] : r \in UsedIn(t)}
           k == t[s].key
<1>1. t[s] \in E /\ \A e \in E : e.key = k => e = t[s]
  BY DEF Apart
<1>2. (CHOOSE e \in E : e.key = k) = t[s]
  BY <1>1
<1>3. k \in {t[r].key : r \in UsedIn(t)}
  OBVIOUS
<1> QED
  BY <1>2, <1>3 DEF MapOf

(* f gives each key of t, and no other, its value. *)
Holds(t, D, f) ==
  /\ Apart(t)
  /\ f = [k \in D |-> f[k]]
  /\ \A k \in D : \E s \in UsedIn(t) : t[s].key = k
  /\ \A s \in UsedIn(t) : t[s].key \in D /\ f[t[s].key] = t[s].val

LEMMA MapOfIs ==
  ASSUME NEW t, NEW D, NEW f, Holds(t, D, f)
  PROVE  MapOf(t) = f
<1> USE DEF Holds
<1>1. DOMAIN MapOf(t) = D
  BY DEF MapOf
<1>2. ASSUME NEW k \in D PROVE MapOf(t)[k] = f[k]
  <2>1. PICK s \in UsedIn(t) : t[s].key = k
    OBVIOUS
  <2> QED
    BY <2>1, MapOfAt
<1>3. MapOf(t) = [k \in D |-> MapOf(t)[k]]
  <2> DEFINE S == {t[s].key : s \in UsedIn(t)}
             e(k) == (CHOOSE x \in {t[s] : s \in UsedIn(t)} : x.key = k).val
  <2>1. MapOf(t) = [k \in S |-> e(k)]
    BY DEF MapOf
  <2> HIDE DEF S, e
  <2> QED
    BY <1>1, <2>1
<1> QED
  BY <1>2, <1>3

Nothing == [x \in {} |-> x]

LEMMA MapOfNothing == ASSUME NEW t, UsedIn(t) = {} PROVE MapOf(t) = Nothing
BY DEF MapOf, Nothing

PutIn(m, k, v)  == [x \in DOMAIN m \cup {k} |-> IF x = k THEN v ELSE m[x]]
WithoutIn(m, k) == [x \in DOMAIN m \ {k} |-> m[x]]

(* u differs from t in slot s, which holds k and v, and did not hold        *)
(* another key.                                                             *)
IsPut(t, u, s, k, v) ==
  /\ Apart(t) /\ Apart(u)
  /\ s \in UsedIn(u) /\ u[s].key = k /\ u[s].val = v
  /\ t[s].key \in {Empty, k}
  /\ \A r \in Distance : r # s => u[r] = t[r]

LEMMA MapOfPut ==
  ASSUME NEW t, NEW u, NEW s, NEW k, NEW v, IsPut(t, u, s, k, v)
  PROVE  MapOf(u) = PutIn(MapOf(t), k, v)
<1> USE DEF IsPut
<1> DEFINE D == DOMAIN MapOf(t) \cup {k}
           f == [x \in D |-> IF x = k THEN v ELSE MapOf(t)[x]]
<1>1. \A x \in DOMAIN MapOf(t) : \E r \in UsedIn(t) : t[r].key = x
  BY DEF MapOf
<1>2. ASSUME NEW x \in D PROVE \E r \in UsedIn(u) : u[r].key = x
  <2>1. CASE x = k
    BY <2>1
  <2>2. CASE x # k
    <3>1. PICK r \in UsedIn(t) : t[r].key = x
      BY <1>1, <2>2
    <3>2. r # s
      BY <2>2, <3>1 DEF UsedIn
    <3> QED
      BY <3>1, <3>2 DEF UsedIn
  <2> QED
    BY <2>1, <2>2
<1>3. ASSUME NEW r \in UsedIn(u) PROVE u[r].key \in D /\ f[u[r].key] = u[r].val
  <2>1. CASE r = s
    BY <2>1
  <2>2. CASE r # s
    <3>1. u[r] = t[r] /\ r \in UsedIn(t)
      BY <2>2 DEF UsedIn
    <3>2. t[r].key \in DOMAIN MapOf(t) /\ MapOf(t)[t[r].key] = t[r].val
      BY <3>1, MapOfAt
    <3>3. u[r].key # k
      BY <2>2 DEF Apart
    <3> QED
      BY <3>1, <3>2, <3>3
  <2> QED
    BY <2>1, <2>2
<1>4. f = [x \in D |-> f[x]]
  OBVIOUS
<1> HIDE DEF f, D
<1>5. Holds(u, D, f)
  BY <1>2, <1>3, <1>4 DEF Holds
<1>6. MapOf(u) = f
  BY <1>5, MapOfIs
<1> QED
  BY <1>6 DEF f, D, PutIn

(* u differs from t in slot s, which held k and is empty. *)
IsWithout(t, u, s, k) ==
  /\ Apart(t) /\ Apart(u)
  /\ s \in UsedIn(t) /\ t[s].key = k /\ u[s].key = Empty
  /\ \A r \in Distance : r # s => u[r] = t[r]

LEMMA MapOfWithout ==
  ASSUME NEW t, NEW u, NEW s, NEW k, IsWithout(t, u, s, k)
  PROVE  MapOf(u) = WithoutIn(MapOf(t), k)
<1> USE DEF IsWithout
<1> DEFINE D == DOMAIN MapOf(t) \ {k}
           f == [x \in D |-> MapOf(t)[x]]
<1>1. \A x \in DOMAIN MapOf(t) : \E r \in UsedIn(t) : t[r].key = x
  BY DEF MapOf
<1>2. ASSUME NEW x \in D PROVE \E r \in UsedIn(u) : u[r].key = x
  <2>1. PICK r \in UsedIn(t) : t[r].key = x
    BY <1>1
  <2>2. r # s
    BY <2>1
  <2> QED
    BY <2>1, <2>2 DEF UsedIn
<1>3. ASSUME NEW r \in UsedIn(u) PROVE u[r].key \in D /\ f[u[r].key] = u[r].val
  <2>1. r # s /\ u[r] = t[r] /\ r \in UsedIn(t)
    BY DEF UsedIn
  <2>2. t[r].key \in DOMAIN MapOf(t) /\ MapOf(t)[t[r].key] = t[r].val
    BY <2>1, MapOfAt
  <2>3. t[r].key # k
    BY <2>1 DEF Apart
  <2> QED
    BY <2>1, <2>2, <2>3
<1>4. f = [x \in D |-> f[x]]
  OBVIOUS
<1> HIDE DEF f, D
<1>5. Holds(u, D, f)
  BY <1>2, <1>3, <1>4 DEF Holds
<1>6. MapOf(u) = f
  BY <1>5, MapOfIs
<1> QED
  BY <1>6 DEF f, D, WithoutIn

LEMMA ApartNow == ASSUME IInv, ~careless PROVE Apart(slots)
<1>1. slots \in [Distance -> Item] /\ UsedIn(slots) = Used
  BY DEF IInv, TypeOK, Item, UsedIn, Used
<1> QED
  BY <1>1, KeysAreApart DEF IInv, Unbroken, Apart

AllApart == ~careless => Apart(slots)

LEMMA StoreStep ==
  ASSUME Apart(slots), Apart(slots'), NEW k \in Keys, NEW v \in Values \cup {None},
         NEW s \in Distance, Store(k, v, s), slots[s].key \in {Empty, k}
  PROVE  Map!Put(k, v) /\ Map!Next
<1> DEFINE i == [key |-> k, val |-> v]
<1>1. i.key = k /\ i.val = v /\ slots' = [slots EXCEPT ![s] = i]
  BY DEF Store
<1> HIDE DEF i
<1>2. slots'[s] = i /\ \A r \in Distance : r # s => slots'[r] = slots[r]
  BY <1>1 DEF Apart
<1>3. s \in UsedIn(slots')
  BY <1>1, <1>2, LinearProbingAssumption DEF UsedIn
<1>4. IsPut(slots, slots', s, k, v)
  BY <1>1, <1>2, <1>3 DEF IsPut
<1>5. Content' = PutIn(Content, k, v)
  BY <1>4, MapOfPut, ContentIs
<1>6. Map!Put(k, v)
  BY <1>5 DEF Map!Put, PutIn
<1> QED
  BY <1>6 DEF Map!Next

LEMMA EmptyStep ==
  ASSUME Apart(slots), Apart(slots'), NEW k \in Keys,
         NEW s \in Used, slots[s].key = k, slots' = [slots EXCEPT ![s] = Vacant]
  PROVE  Map!Next
<1>1. s \in Distance /\ s \in UsedIn(slots)
  BY DEF Used, UsedIn
<1>2. slots'[s].key = Empty /\ \A r \in Distance : r # s => slots'[r] = slots[r]
  BY <1>1 DEF Apart, Vacant
<1>3. IsWithout(slots, slots', s, k)
  BY <1>1, <1>2 DEF IsWithout
<1>4. Content' = WithoutIn(Content, k) /\ k \in DOMAIN Content
  BY <1>1, <1>3, MapOfWithout, MapOfAt, ContentIs
<1>5. Map!Remove(k)
  BY <1>4 DEF Map!Remove, Map!Without, WithoutIn
<1> QED
  BY <1>5 DEF Map!Next

LEMMA SameContent == slots' = slots => UNCHANGED Content
BY ContentIs

LEMMA NextStep ==
  ASSUME IInv, AllApart', [Next]_vars, ~careless'
  PROVE  Map!Next \/ UNCHANGED Content
<1>1. TypeOK /\ Apart(slots')
  BY DEF IInv, AllApart
<1>2. CASE New \/ Delete
  <2>1. Used' = {}
    BY <1>2, RenewInv
  <2>2. Content' = Nothing
    BY <2>1, MapOfNothing, ContentIs DEF Used, UsedIn
  <2> QED
    BY <2>2 DEF Map!Next, Map!Clear, Nothing
<1>3. ASSUME NEW k \in Keys, NEW v \in Values, Put(k, v)
      PROVE  Map!Next \/ UNCHANGED Content
  <2>1. Apart(slots)
    BY <1>3, ApartNow DEF Put
  <2>2. CASE Ends(k, {Empty, k})
    BY <1>1, <1>3, <2>1, <2>2, EndIs, StoreStep DEF Put
  <2> QED
    BY <1>3, <2>2, SameContent DEF Put, Full
<1>4. ASSUME NEW k \in Keys, Insert(k)
      PROVE  Map!Next \/ UNCHANGED Content
  <2>1. Apart(slots)
    BY <1>4, ApartNow DEF Insert
  <2>2. CASE Ends(k, {Empty})
    BY <1>1, <1>4, <2>1, <2>2, EndIs, StoreStep DEF Insert
  <2> QED
    BY <1>4, <2>2, SameContent DEF Insert, Full
<1>5. ASSUME NEW k \in Keys, Remove(k)
      PROVE  Map!Next \/ UNCHANGED Content
  <2>1. Apart(slots)
    BY <1>5, ApartNow DEF Remove
  <2>2. CASE contains(k)
    <3> DEFINE s == End(k, {Empty, k})
    <3>1. s \in Distance
      BY <1>1, <2>2, EndIs DEF contains
    <3>2. slots[s].key = k /\ slots' = [slots EXCEPT ![s] = Vacant]
      BY <1>5, <2>2 DEF contains, Remove
    <3> HIDE DEF s
    <3>3. s \in Used
      BY <3>1, <3>2, LinearProbingAssumption DEF Used
    <3> QED
      BY <1>1, <2>1, <3>2, <3>3, EmptyStep
  <2> QED
    BY <1>5, <2>2, SameContent DEF Remove
<1>6. CASE UNCHANGED vars
  BY <1>6, SameContent DEF vars
<1> QED
  BY <1>2, <1>3, <1>4, <1>5, <1>6 DEF Next

(* A table of any size is a map, up to and including its last slot, for a   *)
(* client that is careful; what else a client does is left out.             *)
THEOREM Refinement == Spec => ImplementsMap
<1>1. Init => Map!Init
  <2> SUFFICES ASSUME Init PROVE Map!Init
    OBVIOUS
  <2>1. UsedIn(slots) = {}
    BY DEF Init, UsedIn, Vacant
  <2>2. Content = Nothing
    BY <2>1, MapOfNothing, ContentIs
  <2> QED
    BY <2>2 DEF Map!Init, Nothing
<1>2. IInv => AllApart
  BY ApartNow DEF AllApart
<1>3. IInv /\ AllApart' /\ [Next]_vars => [careless' \/ Map!Next]_Content
  BY NextStep
<1> QED
  BY <1>1, <1>2, <1>3, Invariant, PTL DEF Spec, ImplementsMap
=============================================================================

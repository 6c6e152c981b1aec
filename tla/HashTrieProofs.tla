--------------------------- MODULE HashTrieProofs ---------------------------
(***************************************************************************)
(* Proofs about HashTrie, for every set of keys, width of a size_t and     *)
(* number of interrupted calls: no key is stored twice, what is freed can  *)
(* be reached only if a delete was interrupted, the trie is a map, and its *)
(* counters are off by as many as there were interrupted calls.            *)
(***************************************************************************)
EXTENDS HashTrie, SequenceTheorems, TLAPS

Unique == \A i, j \in DOMAIN entries : entries[i].key = entries[j].key => i = j

(* What a call has found out before its first store, and what remove has    *)
(* taken out before it frees.                                               *)
Found ==
  /\ op.name \in {"put", "remove"} => op.key \in Keys
  /\ op.name = "put" /\ op.at = 1 => Places(op.key) = {}
  /\ op.name = "remove" /\ op.at = 1 => Places(op.key) # {}
  /\ op.name = "remove" /\ op.at = 2 => Places(op.key) = {}

(* A map without a handle is quiet; one that is partly freed is being       *)
(* deleted, or that was interrupted, and then no call gets as far as a      *)
(* store.                                                                   *)
Freeing ==
  /\ ~live => op = Idle /\ ~dangling
  /\ dangling => op.name = "delete" \/ (op = Idle /\ cut)

IInv == TypeOK /\ Unique /\ Found /\ Freeing /\ FailsOnlyInterrupted

-----------------------------------------------------------------------------
(* The list *)

(* The key of a call is at one place, the one where the walk ends. *)
LEMMA PlaceIsThere ==
  ASSUME Unique, TypeOK, NEW k \in Keys, Places(k) # {}
  PROVE  /\ Place(k) \in DOMAIN entries /\ entries[Place(k)].key = k
         /\ Places(k) = {Place(k)}
<1>1. PICK i \in DOMAIN entries : entries[i].key = k
  BY DEF Places
<1>2. Places(k) = {i}
  BY <1>1 DEF Places, Unique
<1>3. i \in Nat
  BY <1>1 DEF TypeOK
<1>4. Place(k) = i
  BY <1>2, <1>3 DEF Place
<1> QED
  BY <1>1, <1>2, <1>4

(* The list with an entry in front of it. *)
LEMMA Prepended ==
  ASSUME TypeOK, NEW e \in Entry
  PROVE  LET s == <<e>> \o entries IN
         /\ s \in Seq(Entry)
         /\ DOMAIN s = 1 .. Len(entries) + 1
         /\ s[1] = e
         /\ \A i \in DOMAIN entries : s[i + 1] = entries[i]
BY DEF TypeOK

(* The list without one of its entries. *)
LEMMA Shortened ==
  ASSUME TypeOK, NEW p \in DOMAIN entries
  PROVE  LET s == Without(p) IN
         /\ s \in Seq(Entry)
         /\ DOMAIN s = 1 .. Len(entries) - 1
         /\ \A i \in DOMAIN s : s[i] = IF i < p THEN entries[i] ELSE entries[i + 1]
<1> DEFINE n == Len(entries)
           a == SubSeq(entries, 1, p - 1)
           b == SubSeq(entries, p + 1, n)
<1>1. entries \in Seq(Entry) /\ n \in Nat /\ p \in 1 .. n /\ DOMAIN entries = 1 .. n
  BY DEF TypeOK
<1>2. a \in Seq(Entry) /\ Len(a) = p - 1 /\ \A i \in 1 .. p - 1 : a[i] = entries[i]
  <2>1. p - 1 \in Int /\ p - 1 \in Nat /\ \A i \in 1 .. p - 1 : entries[i] \in Entry
    BY <1>1
  <2> QED
    BY <2>1, SubSeqProperties
<1>3. b \in Seq(Entry) /\ Len(b) = n - p /\ \A i \in 1 .. n - p : b[i] = entries[p + i]
  <2>1. p + 1 \in Int /\ n \in Int /\ \A i \in p + 1 .. n : entries[i] \in Entry
    BY <1>1
  <2>2. b = SubSeq(entries, p + 1, n)
    OBVIOUS
  <2> HIDE DEF b, n
  <2>3. /\ b \in Seq(Entry)
        /\ Len(b) = IF p + 1 <= n THEN n - (p + 1) + 1 ELSE 0
        /\ \A i \in 1 .. n - (p + 1) + 1 : b[i] = entries[(p + 1) + i - 1]
    BY <2>1, <2>2, SubSeqProperties
  <2>4. \A i \in 1 .. n - p : (p + 1) + i - 1 = p + i /\ i \in 1 .. n - (p + 1) + 1
    BY <1>1
  <2> QED
    BY <2>3, <2>4, <1>1
<1> HIDE DEF a, b, n
<1>4. /\ a \o b \in Seq(Entry) /\ Len(a \o b) = n - 1
      /\ \A i \in 1 .. n - 1 : (a \o b)[i] = IF i < p THEN entries[i] ELSE entries[i + 1]
  <2>1. /\ a \o b \in Seq(Entry)
        /\ Len(a \o b) = Len(a) + Len(b)
        /\ \A i \in 1 .. Len(a) + Len(b) :
             (a \o b)[i] = IF i <= Len(a) THEN a[i] ELSE b[i - Len(a)]
    BY <1>2, <1>3, ConcatProperties
  <2>2. Len(a) + Len(b) = n - 1
    BY <1>1, <1>2, <1>3
  <2>3. ASSUME NEW i \in 1 .. n - 1
        PROVE  (a \o b)[i] = IF i < p THEN entries[i] ELSE entries[i + 1]
    <3>1. CASE i < p
      BY <1>1, <1>2, <2>1, <2>2, <3>1
    <3>2. CASE ~(i < p)
      <4>1. i - (p - 1) \in 1 .. n - p /\ p + (i - (p - 1)) = i + 1 /\ ~(i <= p - 1)
        BY <1>1, <3>2
      <4> QED
        BY <1>2, <1>3, <2>1, <2>2, <3>2, <4>1
    <3> QED
      BY <3>1, <3>2
  <2> QED
    BY <2>1, <2>2, <2>3
<1>5. DOMAIN (a \o b) = 1 .. n - 1
  BY <1>4, LenProperties
<1> QED
  BY <1>4, <1>5 DEF Without, a, b, n

-----------------------------------------------------------------------------
(* The invariant *)

LEMMA PlusType == ASSUME NEW n \in Int, NEW d \in Int PROVE Plus(n, d) \in 0 .. SizeLimit - 1
BY HashTrieAssumption DEF Plus

LEMMA InitInv == Init => IInv
<1> SUFFICES ASSUME Init PROVE IInv
  OBVIOUS
<1>1. TypeOK
  <2>1. 0 \in 0 .. SizeLimit - 1 /\ 0 \in 0 .. MaxInterrupts
    BY HashTrieAssumption
  <2>2. Idle \in Calls
    BY DEF Idle, Calls
  <2>3. {live, dangling, cut} \subseteq BOOLEAN
    BY DEF Init
  <2>4. entries \in Seq(Entry)
    BY DEF Init
  <2> QED
    BY <2>1, <2>2, <2>3, <2>4 DEF Init, TypeOK
<1> QED
  BY <1>1 DEF Init, IInv, Unique, Found, Freeing, FailsOnlyInterrupted, Idle

(* Nothing is stored: a call begins, ends at once or is interrupted.        *)
LEMMA NoStoreInv ==
  ASSUME IInv, UNCHANGED <<entries, count, length>>,
         live' \in BOOLEAN, dangling' \in BOOLEAN, cut' \in BOOLEAN, root' \in {"leaf", "none"},
         op' \in Calls, fate' \in {"ok", "null", "freed"},
         interrupts' \in 0 .. MaxInterrupts,
         Found', Freeing', FailsOnlyInterrupted'
  PROVE  IInv'
BY DEF IInv, TypeOK, Unique

LEMMA NewInv == ASSUME IInv, New PROVE IInv'
<1>1. TypeOK'
  <2>1. /\ live' = TRUE /\ cut' = FALSE /\ root' \in {"leaf", "none"} /\ entries' = << >> /\ count' = 0 /\ length' = 0
        /\ UNCHANGED <<dangling, op, interrupts, fate>>
    BY DEF New
  <2>2. dangling \in BOOLEAN
    BY DEF IInv, TypeOK
  <2>3. {live', dangling', cut'} \subseteq BOOLEAN
    BY <2>1, <2>2
  <2>4. 0 \in 0 .. SizeLimit - 1 /\ entries' \in Seq(Entry)
    BY <2>1, HashTrieAssumption
  <2> QED
    BY <2>1, <2>3, <2>4 DEF IInv, TypeOK
<1> QED
  BY <1>1 DEF IInv, New, Quiet, Unique, Found, Freeing, FailsOnlyInterrupted, Idle

LEMMA FailInv ==
  ASSUME IInv, NullHandle \/ NullRoot \/ UseAfterFree
  PROVE  IInv'
<1>1. /\ UNCHANGED <<live, root, entries, count, length, dangling, cut, op, interrupts>>
      /\ op = Idle /\ op.name # "delete"
      /\ \/ fate' = "null" /\ (~live \/ root = "none")
         \/ fate' = "freed" /\ dangling
  BY DEF NullHandle, NullRoot, UseAfterFree, Fail, Quiet, Idle, tree
<1>2. Found' /\ Freeing'
  BY <1>1 DEF IInv, Found, Freeing, Places
<1>3. FailsOnlyInterrupted'
  BY <1>1 DEF IInv, Freeing, FailsOnlyInterrupted
<1> QED
  BY <1>1, <1>2, <1>3, NoStoreInv DEF IInv, TypeOK

(* What a call about the key k has found is kept with it. *)
LEMMA BeginInv ==
  ASSUME IInv, Quiet, live, ~dangling, NEW k \in Keys \cup {None},
         NEW name \in {"put", "remove", "delete"},
         op' = Call(name, k) \/ op' = Idle,
         name \in {"put", "remove"} => k \in Keys,
         name = "put" => Places(k) = {},
         name = "remove" => Places(k) # {},
         root' \in {"leaf", "none"},
         UNCHANGED <<entries, count, length, live, dangling, cut, interrupts, fate>>
  PROVE  IInv'
<1>1. op' \in Calls
  BY DEF Calls, Call, Idle
<1>2. Found'
  BY DEF Found, Call, Idle, Places
<1>3. Freeing' /\ FailsOnlyInterrupted'
  BY DEF Freeing, FailsOnlyInterrupted, Quiet
<1> QED
  BY <1>1, <1>2, <1>3, NoStoreInv DEF IInv, TypeOK

LEMMA UpdateInv == ASSUME IInv, NEW k \in Keys, NEW v \in Values, Update(k, v) PROVE IInv'
<1> DEFINE p == Place(k)
<1>1. p \in DOMAIN entries
  BY PlaceIsThere DEF IInv, Update
<1>2. /\ entries' = [entries EXCEPT ![p].value = v]
      /\ UNCHANGED <<live, root, count, length, dangling, cut, op, interrupts, fate>>
  BY DEF Update
<1> HIDE DEF p
<1>3. entries \in Seq(Entry) /\ DOMAIN entries = 1 .. Len(entries)
  BY DEF IInv, TypeOK
<1>4. /\ [entries[p] EXCEPT !.value = v] \in Entry
      /\ [entries[p] EXCEPT !.value = v].key = entries[p].key
  <2>1. entries[p] \in Entry
    BY <1>1, <1>3
  <2> QED
    BY <2>1 DEF Entry
<1>5. /\ entries' \in Seq(Entry) /\ DOMAIN entries' = DOMAIN entries
      /\ \A i \in DOMAIN entries : entries'[i].key = entries[i].key
  <2> DEFINE e == [entries[p] EXCEPT !.value = v]
  <2>1. entries' = [entries EXCEPT ![p] = e]
    BY <1>2
  <2> HIDE DEF e
  <2>2. e \in Entry /\ e.key = entries[p].key
    BY <1>4 DEF e
  <2>3. entries' \in Seq(Entry)
    BY <1>1, <1>3, <2>1, <2>2, ExceptSeq
  <2> QED
    BY <1>1, <1>3, <2>1, <2>2, <2>3
<1>6. \A x : Places(x)' = Places(x)
  BY <1>5 DEF Places
<1> QED
  BY <1>2, <1>5, <1>6 DEF IInv, TypeOK, Unique, Found, Freeing, FailsOnlyInterrupted

(* The next store of a call: only its counter of stores moves on. *)
LEMMA StoreOp ==
  ASSUME IInv, NEW name \in {"put", "remove"}, NEW n \in 1 .. Stores[name], Advance(name, n), UNCHANGED dangling
  PROVE  /\ op' \in Calls /\ Freeing' /\ FailsOnlyInterrupted'
         /\ live /\ ~dangling /\ op.key \in Keys
         /\ op' = Idle \/ (op'.name = name /\ op'.at = n + 1 /\ op'.key = op.key)
<1>1. op \in Calls /\ op.name = name /\ op.at = n /\ op.key \in Keys /\ fate = "ok"
      /\ UNCHANGED <<live, root, cut, interrupts, fate, dangling>>
  BY DEF IInv, TypeOK, Found, Advance
<1>2. live /\ ~dangling
  BY <1>1 DEF IInv, Freeing, Idle
<1>3. Freeing' /\ FailsOnlyInterrupted'
  BY <1>1, <1>2 DEF Freeing, FailsOnlyInterrupted
<1>4. op' = Idle \/ (n # Stores[name] /\ op' = [op EXCEPT !.at = n + 1])
  BY DEF Advance
<1>5. CASE op' = Idle
  BY <1>1, <1>2, <1>3, <1>5 DEF Idle, Calls
<1>6. CASE n # Stores[name] /\ op' = [op EXCEPT !.at = n + 1]
  <2>1. op'.name = name /\ op'.key = op.key /\ op'.at = n + 1
    BY <1>1, <1>6 DEF Calls
  <2>2. n + 1 \in 1 .. 4
    BY <1>6 DEF Stores
  <2>3. op' \in Calls
    BY <1>1, <1>6, <2>2 DEF Calls
  <2> QED
    BY <1>1, <1>2, <1>3, <2>1, <2>3
<1> QED
  BY <1>4, <1>5, <1>6

(* What remove frees is no longer in the list. *)
LEMMA FreesUnlinked ==
  ASSUME IInv, FreeEntry
  PROVE  UNCHANGED dangling /\ Advance("remove", 2) /\ UNCHANGED <<entries, count, length>>
<1>1. op.name = "remove" /\ op.at = 2 /\ dangling' = (dangling \/ Places(op.key) # {})
      /\ UNCHANGED <<entries, count, length>>
  BY DEF FreeEntry, Advance
<1>2. Places(op.key) = {} /\ dangling \in BOOLEAN
  BY <1>1 DEF IInv, Found, TypeOK
<1> QED
  BY <1>1, <1>2 DEF FreeEntry

LEMMA StoresAre == Stores["put"] = 3 /\ Stores["remove"] = 4
BY DEF Stores

LEMMA PutStoreInv == ASSUME IInv, PutStore PROVE IInv'
<1>1. CASE /\ Store("put", 1)
           /\ \E v \in Values : entries' = <<[key |-> op.key, value |-> v]>> \o entries
           /\ UNCHANGED <<count, length>>
  <2>1. PICK v \in Values : entries' = <<[key |-> op.key, value |-> v]>> \o entries
    BY <1>1
  <2> DEFINE e == [key |-> op.key, value |-> v]
  <2>2. /\ op' \in Calls /\ Freeing' /\ FailsOnlyInterrupted'
        /\ live /\ op.key \in Keys
        /\ op' = Idle \/ (op'.name = "put" /\ op'.at = 2 /\ op'.key = op.key)
    BY <1>1, StoreOp, StoresAre DEF Store
  <2>3. e \in Entry /\ e.key = op.key
    BY <2>2 DEF Entry
  <2>4. entries' = <<e>> \o entries
    BY <2>1
  <2> HIDE DEF e
  <2>5. /\ entries' \in Seq(Entry)
        /\ DOMAIN entries' = 1 .. Len(entries) + 1
        /\ entries'[1] = e
        /\ \A i \in DOMAIN entries : entries'[i + 1] = entries[i]
    BY <2>3, <2>4, Prepended DEF IInv
  <2>6. Places(op.key) = {}
    BY <1>1 DEF Store, Advance, IInv, Found
  <2>7. Unique'
    <3>1. Len(entries) \in Nat /\ DOMAIN entries = 1 .. Len(entries)
      BY DEF IInv, TypeOK
    <3>2. \A i \in DOMAIN entries' : i # 1 =>
            /\ i - 1 \in DOMAIN entries /\ entries'[i] = entries[i - 1]
            /\ entries'[i].key # e.key
      <4> TAKE i \in DOMAIN entries'
      <4> HAVE i # 1
      <4>1. i - 1 \in DOMAIN entries /\ (i - 1) + 1 = i
        BY <2>5, <3>1
      <4> QED
        BY <4>1, <2>3, <2>5, <2>6 DEF Places
    <3>3. ASSUME NEW i \in DOMAIN entries', NEW j \in DOMAIN entries',
                 entries'[i].key = entries'[j].key
          PROVE  i = j
      <4>1. CASE i # 1 /\ j # 1
        <5>1. i - 1 = j - 1
          BY <3>2, <3>3, <4>1 DEF IInv, Unique
        <5> QED
          BY <5>1, <2>5, <3>1
      <4> QED
        BY <2>5, <3>2, <3>3, <4>1
    <3> QED
      BY <3>3 DEF Unique
  <2>8. Found'
    BY <2>2 DEF Found, Idle
  <2> QED
    BY <1>1, <2>2, <2>5, <2>7, <2>8 DEF IInv, TypeOK, Store, Advance
<1>2. CASE \/ Store("put", 2) /\ count' = Plus(count, 1) /\ UNCHANGED <<entries, length>>
           \/ Store("put", 3) /\ length' = Plus(length, 1) /\ UNCHANGED <<entries, count>>
  <2>1. PICK n \in {2, 3} : Store("put", n)
    BY <1>2
  <2>2. /\ op' \in Calls /\ Freeing' /\ FailsOnlyInterrupted'
        /\ op.key \in Keys
        /\ op' = Idle \/ (op'.name = "put" /\ op'.at = n + 1 /\ op'.key = op.key)
    BY <2>1, StoreOp, StoresAre DEF Store
  <2>3. count' \in 0 .. SizeLimit - 1 /\ length' \in 0 .. SizeLimit - 1
    <3>1. /\ count \in Int /\ length \in Int /\ 1 \in Int
          /\ count \in 0 .. SizeLimit - 1 /\ length \in 0 .. SizeLimit - 1
      BY DEF IInv, TypeOK
    <3>2. Plus(count, 1) \in 0 .. SizeLimit - 1 /\ Plus(length, 1) \in 0 .. SizeLimit - 1
      BY <3>1, PlusType
    <3> QED
      BY <1>2, <3>1, <3>2
  <2>4. Found'
    BY <2>2 DEF Found, Idle
  <2> QED
    BY <1>2, <2>1, <2>2, <2>3, <2>4 DEF IInv, TypeOK, Store, Advance, Unique
<1> QED
  BY <1>1, <1>2 DEF PutStore

LEMMA RemoveStoreInv == ASSUME IInv, RemoveStore PROVE IInv'
<1>1. CASE Store("remove", 1) /\ entries' = Without(Place(op.key)) /\ UNCHANGED <<count, length>>
  <2>1. /\ op' \in Calls /\ Freeing' /\ FailsOnlyInterrupted'
        /\ live /\ op.key \in Keys
        /\ op' = Idle \/ (op'.name = "remove" /\ op'.at = 2 /\ op'.key = op.key)
    BY <1>1, StoreOp, StoresAre DEF Store
  <2> DEFINE p == Place(op.key)
  <2>2. p \in DOMAIN entries
    BY <1>1, <2>1, PlaceIsThere DEF Store, Advance, IInv, Found
  <2>3. entries' = Without(p)
    BY <1>1
  <2> HIDE DEF p
  <2>4. /\ entries' \in Seq(Entry)
        /\ DOMAIN entries' = 1 .. Len(entries) - 1
        /\ \A i \in DOMAIN entries' : entries'[i] = IF i < p THEN entries[i] ELSE entries[i + 1]
    BY <2>2, <2>3, Shortened DEF IInv
  <2>5. Unique'
    <3>1. Len(entries) \in Nat /\ DOMAIN entries = 1 .. Len(entries)
      BY DEF IInv, TypeOK
    <3>2. \A i \in DOMAIN entries' : i \in DOMAIN entries /\ i + 1 \in DOMAIN entries
      BY <2>4, <3>1
    <3>3. ASSUME NEW i \in DOMAIN entries', NEW j \in DOMAIN entries',
                 entries'[i].key = entries'[j].key
          PROVE  i = j
      <4> DEFINE old(x) == IF x < p THEN x ELSE x + 1
      <4>1. old(i) \in DOMAIN entries /\ entries'[i] = entries[old(i)]
        BY <2>4, <3>2
      <4>2. old(j) \in DOMAIN entries /\ entries'[j] = entries[old(j)]
        BY <2>4, <3>2
      <4>3. old(i) = old(j)
        <5> HIDE DEF old
        <5> QED
          BY <3>3, <4>1, <4>2 DEF IInv, Unique
      <4> QED
        BY <4>3, <2>2, <2>4, <3>1
    <3> QED
      BY <3>3 DEF Unique
  <2>6. \A i \in DOMAIN entries' : entries'[i].key # op.key
    <3>1. Len(entries) \in Nat /\ DOMAIN entries = 1 .. Len(entries)
      BY DEF IInv, TypeOK
    <3>2. entries[p].key = op.key /\ Places(op.key) = {p}
      BY <1>1, <2>1, PlaceIsThere DEF Store, Advance, IInv, Found, p
    <3>3. ASSUME NEW i \in DOMAIN entries' PROVE entries'[i].key # op.key
      <4>1. CASE i < p
        <5>1. i \in DOMAIN entries /\ i # p /\ entries'[i] = entries[i]
          BY <2>4, <3>1, <4>1
        <5> QED
          BY <3>2, <5>1 DEF Places
      <4>2. CASE ~(i < p)
        <5>1. i + 1 \in DOMAIN entries /\ i + 1 # p /\ entries'[i] = entries[i + 1]
          BY <2>2, <2>4, <3>1, <4>2
        <5> QED
          BY <3>2, <5>1 DEF Places
      <4> QED
        BY <4>1, <4>2
    <3> QED
      BY <3>3
  <2>7. Found'
    <3>1. op' = Idle => Found'
      BY DEF Found, Idle
    <3>2. op'.name = "remove" /\ op'.at = 2 /\ op'.key = op.key => Found'
      BY <2>1, <2>6 DEF Found, Places
    <3> QED
      BY <2>1, <3>1, <3>2
  <2> QED
    BY <1>1, <2>1, <2>4, <2>5, <2>7 DEF IInv, TypeOK, Store, Advance
<1>3. CASE FreeEntry
  <2>1. UNCHANGED dangling /\ Advance("remove", 2) /\ UNCHANGED <<entries, count, length>>
    BY <1>3, FreesUnlinked
  <2>2. /\ op' \in Calls /\ Freeing' /\ FailsOnlyInterrupted'
        /\ op.key \in Keys
        /\ op' = Idle \/ (op'.name = "remove" /\ op'.at = 3 /\ op'.key = op.key)
    BY <2>1, StoreOp, StoresAre
  <2>3. Found'
    BY <2>2 DEF Found, Idle
  <2> QED
    BY <2>1, <2>2, <2>3, NoStoreInv DEF IInv, TypeOK, Advance
<1>2. CASE \/ Store("remove", 3) /\ count' = Plus(count, -1) /\ UNCHANGED <<entries, length>>
           \/ Store("remove", 4) /\ length' = Plus(length, -1) /\ UNCHANGED <<entries, count>>
  <2>1. PICK n \in {3, 4} : Store("remove", n)
    BY <1>2
  <2>2. /\ op' \in Calls /\ Freeing' /\ FailsOnlyInterrupted'
        /\ op.key \in Keys
        /\ op' = Idle \/ (op'.name = "remove" /\ op'.at = n + 1 /\ op'.key = op.key)
    BY <2>1, StoreOp, StoresAre DEF Store
  <2>3. count' \in 0 .. SizeLimit - 1 /\ length' \in 0 .. SizeLimit - 1
    <3>1. /\ count \in Int /\ length \in Int /\ -1 \in Int
          /\ count \in 0 .. SizeLimit - 1 /\ length \in 0 .. SizeLimit - 1
      BY DEF IInv, TypeOK
    <3>2. Plus(count, -1) \in 0 .. SizeLimit - 1 /\ Plus(length, -1) \in 0 .. SizeLimit - 1
      BY <3>1, PlusType
    <3> QED
      BY <1>2, <3>1, <3>2
  <2>4. Found'
    BY <2>2 DEF Found, Idle
  <2> QED
    BY <1>2, <2>1, <2>2, <2>3, <2>4 DEF IInv, TypeOK, Store, Advance, Unique
<1> QED
  BY <1>1, <1>2, <1>3 DEF RemoveStore

LEMMA DeleteStepInv == ASSUME IInv, DeleteStep PROVE IInv'
<1>1. op \in Calls /\ op # Idle /\ live /\ op.name = "delete"
  BY DEF IInv, TypeOK, Freeing, DeleteStep, Idle
<1>2. CASE entries # << >> \/ ~dangling
  <2>1. /\ entries' = IF entries = << >> THEN << >> ELSE Tail(entries)
        /\ dangling' = TRUE
        /\ UNCHANGED <<live, op, root, count, length, cut, interrupts, fate>>
    BY <1>2 DEF DeleteStep
  <2>2. entries' \in Seq(Entry) /\ Unique'
    <3>1. CASE entries = << >>
      BY <2>1, <3>1 DEF Unique
    <3>2. CASE entries # << >>
      <4>1. /\ entries' \in Seq(Entry) /\ Len(entries') = Len(entries) - 1
            /\ \A i \in 1 .. Len(entries') : entries'[i] = entries[i + 1]
        BY <2>1, <3>2, HeadTailProperties DEF IInv, TypeOK
      <4>2. /\ DOMAIN entries = 1 .. Len(entries) /\ DOMAIN entries' = 1 .. Len(entries')
            /\ Len(entries) \in Nat
        BY <4>1 DEF IInv, TypeOK
      <4>3. \A i \in DOMAIN entries' : i + 1 \in DOMAIN entries /\ i \in Nat
        BY <4>1, <4>2
      <4>4. ASSUME NEW i \in DOMAIN entries', NEW j \in DOMAIN entries',
                   entries'[i].key = entries'[j].key
            PROVE  i = j
        <5>1. i + 1 = j + 1
          BY <4>1, <4>2, <4>3, <4>4 DEF IInv, Unique
        <5> QED
          BY <5>1, <4>3
      <4> QED
        BY <4>1, <4>4 DEF Unique
    <3> QED
      BY <3>1, <3>2
  <2>3. Found' /\ Freeing' /\ FailsOnlyInterrupted'
    BY <1>1, <2>1 DEF IInv, Found, Freeing, FailsOnlyInterrupted
  <2> QED
    BY <2>1, <2>2, <2>3 DEF IInv, TypeOK
<1>3. CASE entries = << >> /\ dangling
  <2>1. /\ live' = FALSE /\ dangling' = FALSE /\ op' = Idle
        /\ UNCHANGED <<entries, root, count, length, cut, interrupts, fate>>
    BY <1>3 DEF DeleteStep
  <2>2. op' \in Calls /\ live' \in BOOLEAN /\ dangling' \in BOOLEAN
    <3>1. Idle \in Calls
      BY DEF Idle, Calls
    <3> QED
      BY <2>1, <3>1
  <2>3. Found' /\ Freeing' /\ FailsOnlyInterrupted'
    BY <2>1 DEF IInv, Found, Freeing, FailsOnlyInterrupted, Idle, DeleteStep
  <2> QED
    BY <2>1, <2>2, <2>3 DEF IInv, TypeOK, Unique
<1> QED
  BY <1>2, <1>3 DEF IInv, TypeOK

LEMMA InterruptInv == ASSUME IInv, Interrupt PROVE IInv'
<1>1. /\ interrupts' \in 0 .. MaxInterrupts /\ op # Idle /\ op' = Idle /\ fate = "ok" /\ fate' = "ok"
      /\ cut' = (cut \/ op.name = "delete") /\ UNCHANGED <<live, root, entries, count, length, dangling>>
  BY HashTrieAssumption DEF IInv, TypeOK, Interrupt, tree
<1>2. live /\ (dangling => cut')
  BY <1>1 DEF IInv, Freeing
<1>3. op' \in Calls /\ op'.name = "idle"
  BY <1>1 DEF Idle, Calls
<1>4. Found' /\ Freeing' /\ FailsOnlyInterrupted'
  BY <1>1, <1>2, <1>3 DEF Found, Freeing, FailsOnlyInterrupted
<1>5. cut' \in BOOLEAN
  BY <1>1
<1> QED
  BY <1>1, <1>3, <1>4, <1>5, NoStoreInv DEF IInv, TypeOK

LEMMA NextInv == IInv /\ [Next]_vars => IInv'
<1> SUFFICES ASSUME IInv, [Next]_vars PROVE IInv'
  OBVIOUS
<1>1. CASE New
  BY <1>1, NewInv
<1>2. CASE Delete
  <2>1. None \in Keys \cup {None}
    OBVIOUS
  <2> QED
    BY <1>2, <2>1, BeginInv DEF Delete, Begin, Quiet, IInv, TypeOK
<1>3. CASE NullHandle \/ NullRoot \/ UseAfterFree
  BY <1>3, FailInv
<1>4. ASSUME NEW k \in Keys, Put(k) PROVE IInv'
  BY <1>4, BeginInv DEF Put, Begin, Quiet, IInv, TypeOK
<1>5. ASSUME NEW k \in Keys, Remove(k) PROVE IInv'
  BY <1>5, BeginInv DEF Remove, Begin, Quiet, IInv, TypeOK
<1>6. ASSUME NEW k \in Keys, NEW v \in Values, Update(k, v) PROVE IInv'
  BY <1>6, UpdateInv
<1>7. CASE PutStore
  BY <1>7, PutStoreInv
<1>8. CASE RemoveStore
  BY <1>8, RemoveStoreInv
<1>9. CASE DeleteStep
  BY <1>9, DeleteStepInv
<1>10. CASE Interrupt
  BY <1>10, InterruptInv
<1>11. CASE UNCHANGED vars
  BY <1>11 DEF IInv, TypeOK, Unique, Found, Freeing, FailsOnlyInterrupted, Places, vars, tree
<1> QED
  BY <1>1, <1>2, <1>3, <1>4, <1>5, <1>6, <1>7, <1>8, <1>9, <1>10, <1>11 DEF Next, Halted

LEMMA Invariant == Spec => []IInv
<1> QED
  BY InitInv, NextInv, PTL DEF Spec

(* The list never holds a key twice, whatever was interrupted and whatever  *)
(* could not be allocated.                                                  *)
THEOREM NoDuplicates == Spec => []KeysUnique
<1>1. IInv => KeysUnique
  BY DEF IInv, Unique, KeysUnique
<1> QED
  BY <1>1, Invariant, PTL

(* Unless a delete of this map was interrupted, what put, get and remove    *)
(* can reach has not been freed, between two stores of any call and         *)
(* wherever puts and removes were interrupted, and none of them uses freed  *)
(* memory; and NULL is only followed by contains and get without a map, and *)
(* by put without a root.                                                   *)
THEOREM FreedIsUnreachable == Spec => []FailsOnlyInterrupted
<1>1. IInv => FailsOnlyInterrupted
  BY DEF IInv
<1> QED
  BY <1>1, Invariant, PTL

-----------------------------------------------------------------------------
(* The refinement *)

Keyeds(s, k) == {e \in {s[i] : i \in DOMAIN s} : e.key = k}

(* The map that a list without duplicates stands for. *)
MapOf(s) ==
  [k \in {k \in Keys : \E i \in DOMAIN s : s[i].key = k} |->
     (CHOOSE e \in Keyeds(s, k) : TRUE).value]

UniqueIn(s) == \A i, j \in DOMAIN s : s[i].key = s[j].key => i = j

Nothing == [k \in {} |-> k]

LEMMA MapOfAt ==
  ASSUME NEW s \in Seq(Entry), UniqueIn(s), NEW i \in DOMAIN s
  PROVE  /\ s[i].key \in DOMAIN MapOf(s)
         /\ MapOf(s)[s[i].key] = s[i].value
<1>1. s[i] \in Entry /\ s[i].key \in Keys
  <2>1. s[i] \in Entry
    BY LenProperties, ElementOfSeq
  <2> QED
    BY <2>1 DEF Entry
<1>2. Keyeds(s, s[i].key) = {s[i]}
  BY DEF Keyeds, UniqueIn
<1>3. (CHOOSE e \in {s[i]} : TRUE) = s[i]
  OBVIOUS
<1>4. s[i].key \in {k \in Keys : \E j \in DOMAIN s : s[j].key = k}
  BY <1>1
<1> QED
  BY <1>2, <1>3, <1>4 DEF MapOf

(* It is known by its entries. *)
Holds(s, D, f) ==
  /\ s \in Seq(Entry) /\ UniqueIn(s)
  /\ D \subseteq Keys
  /\ f = [k \in D |-> f[k]]
  /\ \A k \in D : \E i \in DOMAIN s : s[i].key = k
  /\ \A i \in DOMAIN s : s[i].key \in D /\ f[s[i].key] = s[i].value

LEMMA MapOfIs ==
  ASSUME NEW s, NEW D, NEW f, Holds(s, D, f)
  PROVE  MapOf(s) = f
<1> USE DEF Holds
<1>1. DOMAIN MapOf(s) = D
  BY DEF MapOf
<1>2. ASSUME NEW k \in D PROVE MapOf(s)[k] = f[k]
  <2>1. PICK i \in DOMAIN s : s[i].key = k
    OBVIOUS
  <2>2. MapOf(s)[s[i].key] = s[i].value
    BY MapOfAt
  <2> QED
    BY <2>1, <2>2
<1>3. MapOf(s) = [k \in D |-> MapOf(s)[k]]
  <2> DEFINE S == {k \in Keys : \E i \in DOMAIN s : s[i].key = k}
             e(k) == (CHOOSE x \in Keyeds(s, k) : TRUE).value
  <2>1. MapOf(s) = [k \in S |-> e(k)]
    BY DEF MapOf
  <2> HIDE DEF S, e
  <2> QED
    BY <1>1, <2>1
<1> QED
  BY <1>2, <1>3

LEMMA ContentIs ==
  /\ Content = IF dangling THEN Nothing ELSE MapOf(entries)
  /\ Content' = IF dangling' THEN Nothing ELSE MapOf(entries')
<1>1. {k \in Keys : Places(k) # {}} = {k \in Keys : \E i \in DOMAIN entries : entries[i].key = k}
  BY DEF Places
<1>2. {k \in Keys : Places(k)' # {}} = {k \in Keys : \E i \in DOMAIN entries' : entries'[i].key = k}
  BY DEF Places
<1> QED
  BY <1>1, <1>2 DEF Content, MapOf, Keyed, Keyeds, Nothing

LEMMA MapOfNothing == MapOf(<< >>) = Nothing
<1>1. DOMAIN << >> = {}
  OBVIOUS
<1>2. {k \in Keys : \E i \in DOMAIN << >> : << >>[i].key = k} = {}
  BY <1>1
<1> QED
  BY <1>2 DEF MapOf, Nothing

PutIn(m, k, v) == [x \in DOMAIN m \cup {k} |-> IF x = k THEN v ELSE m[x]]
WithoutIn(m, k) == [x \in DOMAIN m \ {k} |-> m[x]]

(* An entry is put in front, or gets a new value. *)
IsPut(s, t, k, v) ==
  /\ s \in Seq(Entry) /\ UniqueIn(s)
  /\ t \in Seq(Entry) /\ UniqueIn(t)
  /\ k \in Keys
  /\ \E i \in DOMAIN t : t[i].key = k
  /\ \A i \in DOMAIN t : IF t[i].key = k THEN t[i].value = v
                                          ELSE \E j \in DOMAIN s : t[i] = s[j]
  /\ \A j \in DOMAIN s : s[j].key # k => \E i \in DOMAIN t : t[i] = s[j]

LEMMA MapOfPut ==
  ASSUME NEW s, NEW t, NEW k, NEW v, IsPut(s, t, k, v)
  PROVE  MapOf(t) = PutIn(MapOf(s), k, v)
<1> USE DEF IsPut
<1> DEFINE D == DOMAIN MapOf(s) \cup {k}
           f == [x \in D |-> IF x = k THEN v ELSE MapOf(s)[x]]
<1>1. \A x \in DOMAIN MapOf(s) : x \in Keys /\ \E j \in DOMAIN s : s[j].key = x
  BY DEF MapOf
<1>2. D \in SUBSET Keys
  BY <1>1
<1>3. \A x \in D : \E i \in DOMAIN t : t[i].key = x
  BY <1>1
<1>4. ASSUME NEW i \in DOMAIN t PROVE t[i].key \in D /\ f[t[i].key] = t[i].value
  <2>1. CASE t[i].key = k
    BY <2>1
  <2>2. CASE t[i].key # k
    <3>1. PICK j \in DOMAIN s : t[i] = s[j]
      BY <2>2
    <3>2. s[j].key \in DOMAIN MapOf(s) /\ MapOf(s)[s[j].key] = s[j].value
      BY MapOfAt
    <3> QED
      BY <2>2, <3>1, <3>2
  <2> QED
    BY <2>1, <2>2
<1>5. f = [x \in D |-> f[x]]
  OBVIOUS
<1> HIDE DEF f, D
<1>6. Holds(t, D, f)
  BY <1>2, <1>3, <1>4, <1>5 DEF Holds
<1>7. MapOf(t) = f
  BY <1>6, MapOfIs
<1> QED
  BY <1>7 DEF f, D, PutIn

(* An entry is removed. *)
IsWithout(s, t, k) ==
  /\ s \in Seq(Entry) /\ UniqueIn(s)
  /\ t \in Seq(Entry) /\ UniqueIn(t)
  /\ k \in Keys
  /\ \A i \in DOMAIN t : t[i].key # k /\ \E j \in DOMAIN s : t[i] = s[j]
  /\ \A j \in DOMAIN s : s[j].key # k => \E i \in DOMAIN t : t[i] = s[j]

LEMMA MapOfWithout ==
  ASSUME NEW s, NEW t, NEW k, IsWithout(s, t, k)
  PROVE  MapOf(t) = WithoutIn(MapOf(s), k)
<1> USE DEF IsWithout
<1> DEFINE D == DOMAIN MapOf(s) \ {k}
           f == [x \in D |-> MapOf(s)[x]]
<1>1. \A x \in DOMAIN MapOf(s) : x \in Keys /\ \E j \in DOMAIN s : s[j].key = x
  BY DEF MapOf
<1>2. D \in SUBSET Keys
  BY <1>1
<1>3. \A x \in D : \E i \in DOMAIN t : t[i].key = x
  BY <1>1
<1>4. ASSUME NEW i \in DOMAIN t PROVE t[i].key \in D /\ f[t[i].key] = t[i].value
  <2>1. PICK j \in DOMAIN s : t[i] = s[j] /\ t[i].key # k
    OBVIOUS
  <2>2. s[j].key \in DOMAIN MapOf(s) /\ MapOf(s)[s[j].key] = s[j].value
    BY MapOfAt
  <2> QED
    BY <2>1, <2>2
<1>5. f = [x \in D |-> f[x]]
  OBVIOUS
<1> HIDE DEF f, D
<1>6. Holds(t, D, f)
  BY <1>2, <1>3, <1>4, <1>5 DEF Holds
<1>7. MapOf(t) = f
  BY <1>6, MapOfIs
<1> QED
  BY <1>7 DEF f, D, WithoutIn

MapStep == Map!Next \/ UNCHANGED Content

LEMMA SameMap == UNCHANGED <<entries, dangling>> => MapStep
BY ContentIs DEF MapStep

LEMMA Emptied == ASSUME Content' = Nothing PROVE MapStep
BY DEF MapStep, Map!Next, Map!Clear, Nothing

(* Both kinds of put are the abstract one. *)
LEMMA PutStep ==
  ASSUME ~dangling, ~dangling', NEW k \in Keys, NEW v \in Values,
         MapOf(entries') = PutIn(MapOf(entries), k, v)
  PROVE  MapStep
<1>1. Content = MapOf(entries) /\ Content' = MapOf(entries')
  BY ContentIs
<1>2. Map!Put(k, v)
  BY <1>1 DEF Map!Put, PutIn
<1> QED
  BY <1>2 DEF MapStep, Map!Next

LEMMA RemoveStep ==
  ASSUME ~dangling, ~dangling', NEW k \in Keys, k \in DOMAIN MapOf(entries),
         MapOf(entries') = WithoutIn(MapOf(entries), k)
  PROVE  MapStep
<1>1. Content = MapOf(entries) /\ Content' = MapOf(entries')
  BY ContentIs
<1>2. Map!Remove(k)
  BY <1>1 DEF Map!Remove, Map!Without, WithoutIn
<1> QED
  BY <1>2 DEF MapStep, Map!Next

LEMMA UpdateStep ==
  ASSUME IInv, IInv', NEW k \in Keys, NEW v \in Values, Update(k, v)
  PROVE  MapStep
<1> DEFINE p == Place(k)
<1>1. p \in DOMAIN entries /\ entries[p].key = k
  BY PlaceIsThere DEF IInv, Update
<1>2. ~dangling /\ ~dangling' /\ entries' = [entries EXCEPT ![p].value = v]
  BY DEF Update
<1> HIDE DEF p
<1>3. /\ entries \in Seq(Entry) /\ UniqueIn(entries) /\ DOMAIN entries = 1 .. Len(entries)
      /\ entries' \in Seq(Entry) /\ UniqueIn(entries')
  BY DEF IInv, TypeOK, Unique, UniqueIn
<1>4. entries[p] \in Entry
  BY <1>1, <1>3
<1>5. /\ DOMAIN entries' = DOMAIN entries
      /\ entries'[p].key = k /\ entries'[p].value = v
      /\ \A i \in DOMAIN entries : i # p => entries'[i] = entries[i]
  BY <1>1, <1>2, <1>3, <1>4 DEF Entry
<1>6. \A i \in DOMAIN entries : entries[i].key = k => i = p
  BY <1>1, <1>3 DEF UniqueIn
<1>7. MapOf(entries') = PutIn(MapOf(entries), k, v)
  <2>1. \E i \in DOMAIN entries' : entries'[i].key = k
    BY <1>1, <1>5
  <2>2. \A i \in DOMAIN entries' :
          IF entries'[i].key = k THEN entries'[i].value = v
                                 ELSE \E j \in DOMAIN entries : entries'[i] = entries[j]
    BY <1>5, <1>6
  <2>3. \A j \in DOMAIN entries : entries[j].key # k =>
          \E i \in DOMAIN entries' : entries'[i] = entries[j]
    BY <1>1, <1>5
  <2>4. IsPut(entries, entries', k, v)
    BY <1>3, <2>1, <2>2, <2>3 DEF IsPut
  <2> QED
    BY <2>4, MapOfPut
<1> QED
  BY <1>2, <1>7, PutStep

LEMMA PutStoreStep == ASSUME IInv, IInv', PutStore PROVE MapStep
<1>1. CASE UNCHANGED entries
  BY <1>1, SameMap DEF PutStore, Store
<1>2. CASE dangling
  BY <1>2, ContentIs DEF PutStore, Store, MapStep
<1>3. CASE ~dangling /\ entries' # entries
  <2>1. /\ Store("put", 1)
        /\ \E v \in Values : entries' = <<[key |-> op.key, value |-> v]>> \o entries
    BY <1>3 DEF PutStore
  <2>2. op.key \in Keys /\ Places(op.key) = {} /\ ~dangling'
    BY <1>3, <2>1 DEF Store, Advance, IInv, Found
  <2>3. PICK v \in Values : entries' = <<[key |-> op.key, value |-> v]>> \o entries
    BY <2>1
  <2> DEFINE e == [key |-> op.key, value |-> v]
  <2>4. e \in Entry /\ e.key = op.key /\ e.value = v /\ entries' = <<e>> \o entries
    BY <2>2, <2>3 DEF Entry
  <2> HIDE DEF e
  <2>5. /\ DOMAIN entries' = 1 .. Len(entries) + 1
        /\ entries'[1] = e
        /\ \A i \in DOMAIN entries : entries'[i + 1] = entries[i]
    BY <2>4, Prepended DEF IInv
  <2>6. /\ entries \in Seq(Entry) /\ UniqueIn(entries)
        /\ entries' \in Seq(Entry) /\ UniqueIn(entries')
        /\ DOMAIN entries = 1 .. Len(entries) /\ Len(entries) \in Nat
    BY DEF IInv, TypeOK, Unique, UniqueIn
  <2>7. \A j \in DOMAIN entries : j + 1 \in DOMAIN entries' /\ entries'[j + 1] = entries[j]
    BY <2>5, <2>6
  <2>8. \A i \in DOMAIN entries' : i = 1 \/ \E j \in DOMAIN entries : entries'[i] = entries[j]
    <3> TAKE i \in DOMAIN entries'
    <3>1. i # 1 => i - 1 \in DOMAIN entries /\ (i - 1) + 1 = i
      BY <2>5, <2>6
    <3> QED
      BY <3>1, <2>5
  <2>9. \A j \in DOMAIN entries : entries[j].key # op.key
    BY <2>2 DEF Places
  <2>10. MapOf(entries') = PutIn(MapOf(entries), op.key, v)
    <3>1. 1 \in DOMAIN entries'
      BY <2>5, <2>6
    <3>2. \E i \in DOMAIN entries' : entries'[i].key = op.key
      BY <2>4, <2>5, <3>1
    <3>3. \A i \in DOMAIN entries' :
            IF entries'[i].key = op.key THEN entries'[i].value = v
            ELSE \E j \in DOMAIN entries : entries'[i] = entries[j]
      BY <2>4, <2>5, <2>8, <2>9
    <3>4. \A j \in DOMAIN entries : entries[j].key # op.key =>
            \E i \in DOMAIN entries' : entries'[i] = entries[j]
      BY <2>7
    <3>5. IsPut(entries, entries', op.key, v)
      BY <2>2, <2>6, <3>2, <3>3, <3>4 DEF IsPut
    <3> QED
      BY <3>5, MapOfPut
  <2> QED
    BY <1>3, <2>2, <2>10, PutStep
<1> QED
  BY <1>1, <1>2, <1>3

LEMMA RemoveStoreStep == ASSUME IInv, IInv', RemoveStore PROVE MapStep
<1>1. CASE UNCHANGED entries
  BY <1>1, SameMap, FreesUnlinked DEF RemoveStore, Store
<1>2. CASE dangling
  BY <1>2, ContentIs, FreesUnlinked DEF RemoveStore, Store, MapStep
<1>3. CASE ~dangling /\ entries' # entries
  <2>1. Store("remove", 1) /\ entries' = Without(Place(op.key))
    BY <1>3, FreesUnlinked DEF RemoveStore
  <2>2. op.key \in Keys /\ Places(op.key) # {} /\ ~dangling'
    BY <1>3, <2>1 DEF Store, Advance, IInv, Found
  <2> DEFINE p == Place(op.key)
  <2>3. p \in DOMAIN entries /\ entries[p].key = op.key /\ entries' = Without(p)
    BY <2>1, <2>2, PlaceIsThere DEF IInv
  <2> HIDE DEF p
  <2>4. /\ DOMAIN entries' = 1 .. Len(entries) - 1
        /\ \A i \in DOMAIN entries' : entries'[i] = IF i < p THEN entries[i] ELSE entries[i + 1]
    BY <2>3, Shortened DEF IInv
  <2>5. /\ entries \in Seq(Entry) /\ UniqueIn(entries)
        /\ entries' \in Seq(Entry) /\ UniqueIn(entries')
        /\ DOMAIN entries = 1 .. Len(entries) /\ Len(entries) \in Nat
    BY DEF IInv, TypeOK, Unique, UniqueIn
  <2>6. ASSUME NEW i \in DOMAIN entries'
        PROVE  entries'[i].key # op.key /\ \E j \in DOMAIN entries : entries'[i] = entries[j]
    <3>1. PICK j \in DOMAIN entries : j # p /\ entries'[i] = entries[j]
      <4>1. CASE i < p
        <5>1. i \in DOMAIN entries /\ i # p
          BY <4>1, <2>3, <2>4, <2>5
        <5> QED
          BY <4>1, <5>1, <2>4
      <4>2. CASE ~(i < p)
        <5>1. i + 1 \in DOMAIN entries /\ i + 1 # p
          BY <4>2, <2>3, <2>4, <2>5
        <5> QED
          BY <4>2, <5>1, <2>4
      <4> QED
        BY <4>1, <4>2
    <3>2. entries[j].key # op.key
      BY <3>1, <2>3, <2>5 DEF UniqueIn
    <3> QED
      BY <3>1, <3>2
  <2>7. ASSUME NEW j \in DOMAIN entries, entries[j].key # op.key
        PROVE  \E i \in DOMAIN entries' : entries'[i] = entries[j]
    <3>1. j # p
      BY <2>3, <2>7
    <3>2. CASE j < p
      <4>1. j \in DOMAIN entries'
        BY <3>2, <2>3, <2>4, <2>5
      <4> QED
        BY <3>2, <4>1, <2>4
    <3>3. CASE ~(j < p)
      <4>1. j - 1 \in DOMAIN entries' /\ ~(j - 1 < p) /\ (j - 1) + 1 = j
        BY <3>1, <3>3, <2>3, <2>4, <2>5
      <4> QED
        BY <4>1, <2>4
    <3> QED
      BY <3>2, <3>3
  <2>8. MapOf(entries') = WithoutIn(MapOf(entries), op.key)
    <3>1. IsWithout(entries, entries', op.key)
      BY <2>2, <2>5, <2>6, <2>7 DEF IsWithout
    <3> QED
      BY <3>1, MapOfWithout
  <2>9. op.key \in DOMAIN MapOf(entries)
    BY <2>3, <2>5, MapOfAt
  <2> QED
    BY <1>3, <2>2, <2>8, <2>9, RemoveStep
<1> QED
  BY <1>1, <1>2, <1>3

LEMMA NextStep ==
  ASSUME IInv, IInv', [Next]_vars
  PROVE  MapStep
<1>1. CASE New
  BY <1>1, MapOfNothing, ContentIs, Emptied DEF New, IInv, Freeing
<1>2. CASE \/ Delete \/ NullHandle \/ NullRoot \/ UseAfterFree \/ Interrupt \/ UNCHANGED vars
           \/ \E k \in Keys : Put(k) \/ Remove(k)
  BY <1>2, SameMap DEF Delete, NullHandle, NullRoot, UseAfterFree, Fail, Interrupt, Put, Remove, Begin, tree, vars
<1>3. CASE \E k \in Keys, v \in Values : Update(k, v)
  BY <1>3, UpdateStep
<1>4. CASE PutStore
  BY <1>4, PutStoreStep
<1>5. CASE RemoveStore
  BY <1>5, RemoveStoreStep
<1>6. CASE DeleteStep
  <2>1. dangling' = TRUE \/ (entries' = << >> /\ dangling' = FALSE)
    BY <1>6 DEF DeleteStep
  <2> QED
    BY <2>1, MapOfNothing, ContentIs, Emptied
<1> QED
  BY <1>1, <1>2, <1>3, <1>4, <1>5, <1>6 DEF Next, Halted

(* Whoever interrupts the calls, and whatever cannot be allocated: what     *)
(* contains and get see is a map, changed by one put, remove or delete at a *)
(* time.                                                                    *)
THEOREM Refinement == Spec => ImplementsMap
<1>1. Init => Map!Init
  <2> SUFFICES ASSUME Init PROVE Map!Init
    OBVIOUS
  <2>1. Content = Nothing
    BY MapOfNothing, ContentIs DEF Init
  <2> QED
    BY <2>1 DEF Map!Init, Nothing
<1>2. IInv /\ IInv' /\ [Next]_vars => [Map!Next]_Content
  BY NextStep DEF MapStep
<1> QED
  BY <1>1, <1>2, Invariant, PTL DEF Spec, ImplementsMap, Map!Spec

-----------------------------------------------------------------------------
(* The counters: arithmetic modulo the width of a size_t *)

LEMMA Division ==
  ASSUME NEW N \in Nat \ {0}, NEW a \in Int
  PROVE  /\ a = N * (a \div N) + (a % N)
         /\ a % N \in 0 .. N - 1 /\ a \div N \in Int
<1>1. a = N * (a \div N) + (a % N)
  OBVIOUS
<1>2. a % N \in 0 .. N - 1
  OBVIOUS
<1>3. a \div N \in Int
  OBVIOUS
<1> QED
  BY <1>1, <1>2, <1>3

LEMMA Multiples ==
  ASSUME NEW N \in Nat \ {0}, NEW a \in Int, NEW b \in Int
  PROVE  /\ N * (a - b) = N * a - N * b /\ N * (a + b) = N * a + N * b
         /\ N * a \in Int /\ N * b \in Int
OBVIOUS

LEMMA MultipleLarge == ASSUME NEW N \in Nat \ {0}, NEW m \in Int, m >= 1 PROVE N * m >= N
OBVIOUS

(* Two remainders of the same number are equal. *)
LEMMA RemainderUnique ==
  ASSUME NEW N \in Nat \ {0}, NEW p \in Int, NEW q \in Int,
         NEW r \in 0 .. N - 1, NEW s \in 0 .. N - 1, N * p + r = N * q + s
  PROVE  r = s
<1> DEFINE x == N * p
           y == N * q
<1>1. x \in Int /\ y \in Int /\ x + r = y + s
  BY Multiples
<1>2. CASE p = q
  <2>1. x = y
    BY <1>2
  <2> HIDE DEF x, y
  <2> QED
    BY <1>1, <2>1
<1>3. CASE p - q >= 1
  <2>1. x - y >= N
    BY <1>3, MultipleLarge, Multiples
  <2> HIDE DEF x, y
  <2> QED
    BY <1>1, <2>1
<1>4. CASE q - p >= 1
  <2>1. y - x >= N
    BY <1>4, MultipleLarge, Multiples
  <2> HIDE DEF x, y
  <2> QED
    BY <1>1, <2>1
<1> QED
  BY <1>2, <1>3, <1>4

(* One may add before the remainder is taken or after it. *)
LEMMA RemainderAdds ==
  ASSUME NEW N \in Nat \ {0}, NEW a \in Int, NEW b \in Int
  PROVE  ((a % N) + b) % N = (a + b) % N
<1> DEFINE p == a \div N
           u == a % N
           v == u + b
           w == a + b
<1>1. p \in Int /\ u \in Int /\ a = N * p + u
  <2> HIDE DEF p, u
  <2>1. a = N * (a \div N) + (a % N) /\ a % N \in 0 .. N - 1 /\ a \div N \in Int
    BY Division
  <2> QED
    BY <2>1 DEF p, u
<1>2. v = N * (v \div N) + (v % N) /\ v % N \in 0 .. N - 1 /\ v \div N \in Int
  <2>1. v \in Int
    BY <1>1
  <2> HIDE DEF v
  <2> QED
    BY <2>1, Division
<1>3. w = N * (w \div N) + (w % N) /\ w % N \in 0 .. N - 1 /\ w \div N \in Int
  <2>1. w \in Int
    OBVIOUS
  <2> HIDE DEF w
  <2> QED
    BY <2>1, Division
<1>4. w = N * p + v /\ v \in Int
  <2> DEFINE x == N * p
  <2>1. x \in Int /\ u \in Int /\ a = x + u
    BY <1>1
  <2> HIDE DEF x, u, p
  <2>2. u + b \in Int /\ a + b = x + (u + b)
    BY <2>1
  <2> QED
    BY <2>2 DEF x
<1> HIDE DEF p, u, v, w
<1>5. /\ N * (p + v \div N) = N * p + N * (v \div N)
      /\ N * p \in Int /\ N * (v \div N) \in Int /\ p + v \div N \in Int
  BY <1>1, <1>2
<1>6. w = N * (p + v \div N) + (v % N)
  <2> DEFINE x == N * p
             y == N * (v \div N)
             z == N * (p + v \div N)
             k == v % N
  <2>1. x \in Int /\ y \in Int /\ z = x + y /\ v = y + k /\ w = x + v /\ k \in Int
    BY <1>2, <1>4, <1>5
  <2> HIDE DEF x, y, z, k
  <2>2. w = z + k
    BY <2>1
  <2> QED
    BY <2>2 DEF z, k
<1>7. v % N = w % N
  BY <1>2, <1>3, <1>5, <1>6, RemainderUnique
<1> QED
  BY <1>7 DEF u, v, w

LEMMA PlusPlus ==
  ASSUME NEW m \in Int, NEW d \in Int, NEW e \in Int
  PROVE  Plus(Plus(m, d), e) = Plus(m + e, d)
<1>1. (((m + d) % SizeLimit) + e) % SizeLimit = ((m + d) + e) % SizeLimit
  <2> DEFINE a == m + d
  <2>1. a \in Int /\ SizeLimit \in Nat \ {0}
    BY HashTrieAssumption
  <2> HIDE DEF a
  <2>2. ((a % SizeLimit) + e) % SizeLimit = (a + e) % SizeLimit
    BY <2>1, RemainderAdds
  <2> QED
    BY <2>2 DEF a
<1>2. (m + d) + e = (m + e) + d
  OBVIOUS
<1> QED
  BY <1>1, <1>2 DEF Plus

-----------------------------------------------------------------------------
(* The counters: how far they are off *)

(* n is what the number m is stored as, at most i off. *)
Off(n, m, i) == \E d \in -i .. i : n = Plus(m, d)

(* What the call that is being executed has still to add to the number of   *)
(* entries that the counters are about, or has not yet taken off them.      *)
PendC == IF op.name = "put" /\ op.at = 2 THEN -1
         ELSE IF op.name = "remove" /\ op.at \in {2, 3} THEN 1 ELSE 0
PendL == IF op.name = "put" /\ op.at \in {2, 3} THEN -1
         ELSE IF op.name = "remove" /\ op.at \in {2, 3, 4} THEN 1 ELSE 0

Counted ==
  live /\ ~dangling =>
    /\ Off(count, Len(entries) + PendC, interrupts)
    /\ Off(length, Len(entries) + PendL, interrupts)

(* A store to a counter moves both; an interrupted call leaves it off by    *)
(* one more.                                                                *)
LEMMA OffStored ==
  ASSUME NEW n, NEW m \in Int, NEW i \in Nat, Off(n, m, i), NEW e \in Int
  PROVE  Off(Plus(n, e), m + e, i)
<1>1. PICK d \in -i .. i : n = Plus(m, d)
  BY DEF Off
<1>2. Plus(n, e) = Plus(m + e, d)
  BY <1>1, PlusPlus
<1> QED
  BY <1>2 DEF Off

LEMMA OffInterrupted ==
  ASSUME NEW n, NEW m \in Int, NEW i \in Nat, NEW e \in -1 .. 1, Off(n, m + e, i)
  PROVE  Off(n, m, i + 1)
<1>1. PICK d \in -i .. i : n = Plus(m + e, d)
  BY DEF Off
<1>2. d + e \in -(i + 1) .. i + 1 /\ (m + e) + d = m + (d + e)
  OBVIOUS
<1>3. n = Plus(m, d + e)
  BY <1>1, <1>2 DEF Plus
<1> QED
  BY <1>2, <1>3 DEF Off

LEMMA PendType == PendC \in -1 .. 1 /\ PendL \in -1 .. 1
BY DEF PendC, PendL

LEMMA NoPend == op.at = 1 => PendC = 0 /\ PendL = 0
BY DEF PendC, PendL

(* Nothing is stored, and no call ends that has stored something. *)
LEMMA NotCounted ==
  ASSUME Counted, UNCHANGED <<count, length, interrupts>>,
         Len(entries') = Len(entries),
         live' /\ ~dangling' => live /\ ~dangling,
         PendC' = PendC, PendL' = PendL
  PROVE  Counted'
BY DEF Counted

LEMMA BeginCounted ==
  ASSUME Counted, op.at = 1, op'.at = 1,
         UNCHANGED <<count, length, interrupts, entries>>,
         live' /\ ~dangling' => live /\ ~dangling
  PROVE  Counted'
BY NotCounted, NoPend DEF PendC, PendL

LEMMA NewCounted == ASSUME IInv, New PROVE Counted'
<1>1. entries' = << >> /\ count' = 0 /\ length' = 0 /\ op' = Idle /\ interrupts' = interrupts
  BY DEF New, Quiet
<1>2. PendC' = 0 /\ PendL' = 0
  BY <1>1 DEF PendC, PendL, Idle
<1>3. Plus(0, 0) = 0
  BY HashTrieAssumption DEF Plus
<1>4. Len(entries') = 0 /\ interrupts' \in Nat /\ 0 \in -interrupts' .. interrupts'
  BY <1>1 DEF IInv, TypeOK
<1>5. Off(0, 0, interrupts')
  BY <1>3, <1>4 DEF Off
<1> QED
  BY <1>1, <1>2, <1>4, <1>5 DEF Counted

LEMMA PutStoreCounted == ASSUME IInv, IInv', Counted, PutStore PROVE Counted'
<1>1. /\ entries \in Seq(Entry) /\ Len(entries) \in Nat /\ interrupts \in Nat
      /\ UNCHANGED <<live, dangling, interrupts>>
  BY DEF IInv, TypeOK, PutStore, Store, Advance
<1>2. CASE /\ Store("put", 1)
           /\ \E v \in Values : entries' = <<[key |-> op.key, value |-> v]>> \o entries
           /\ UNCHANGED <<count, length>>
  <2>1. PICK v \in Values : entries' = <<[key |-> op.key, value |-> v]>> \o entries
    BY <1>2
  <2>2. op.key \in Keys /\ op.name = "put" /\ op.at = 1 /\ op'.name = "put" /\ op'.at = 2
    BY <1>2 DEF Store, Advance, Stores, IInv, Found, TypeOK, Calls
  <2>3. Len(entries') = Len(entries) + 1
    <3> DEFINE e == [key |-> op.key, value |-> v]
    <3>1. e \in Entry /\ entries' = <<e>> \o entries
      BY <2>1, <2>2 DEF Entry
    <3> HIDE DEF e
    <3>2. entries' \in Seq(Entry) /\ DOMAIN entries' = 1 .. Len(entries) + 1
      BY <3>1, Prepended DEF IInv
    <3> QED
      BY <3>2, <1>1
  <2>4. PendC = 0 /\ PendL = 0 /\ PendC' = -1 /\ PendL' = -1
    BY <2>2 DEF PendC, PendL
  <2>5. Len(entries') + PendC' = Len(entries) + PendC /\ Len(entries') + PendL' = Len(entries) + PendL
    BY <1>1, <2>3, <2>4
  <2> QED
    BY <1>1, <1>2, <2>5 DEF Counted
<1>3. CASE Store("put", 2) /\ count' = Plus(count, 1) /\ UNCHANGED <<entries, length>>
  <2>1. op.name = "put" /\ op.at = 2 /\ op'.name = "put" /\ op'.at = 3
    BY <1>3 DEF Store, Advance, Stores, IInv, TypeOK, Calls
  <2>2. PendC = -1 /\ PendL = -1 /\ PendC' = 0 /\ PendL' = -1
    BY <2>1 DEF PendC, PendL
  <2>3. Len(entries) + PendC \in Int /\ (Len(entries) + PendC) + 1 = Len(entries') + PendC'
    BY <1>1, <1>3, <2>2
  <2>4. live /\ ~dangling => Off(count', Len(entries') + PendC', interrupts)
    BY <1>1, <1>3, <2>3, OffStored DEF Counted
  <2> QED
    BY <1>1, <1>3, <2>2, <2>4 DEF Counted
<1>4. CASE Store("put", 3) /\ length' = Plus(length, 1) /\ UNCHANGED <<entries, count>>
  <2>1. op.name = "put" /\ op.at = 3 /\ op' = Idle
    BY <1>4 DEF Store, Advance, Stores, IInv, TypeOK, Calls
  <2>2. PendC = 0 /\ PendL = -1 /\ PendC' = 0 /\ PendL' = 0
    BY <2>1 DEF PendC, PendL, Idle
  <2>3. Len(entries) + PendL \in Int /\ (Len(entries) + PendL) + 1 = Len(entries') + PendL'
    BY <1>1, <1>4, <2>2
  <2>4. live /\ ~dangling => Off(length', Len(entries') + PendL', interrupts)
    BY <1>1, <1>4, <2>3, OffStored DEF Counted
  <2> QED
    BY <1>1, <1>4, <2>2, <2>4 DEF Counted
<1> QED
  BY <1>2, <1>3, <1>4 DEF PutStore

LEMMA RemoveStoreCounted == ASSUME IInv, IInv', Counted, RemoveStore PROVE Counted'
<1>1. /\ entries \in Seq(Entry) /\ Len(entries) \in Nat /\ interrupts \in Nat
      /\ UNCHANGED <<live, dangling, interrupts>>
  BY FreesUnlinked DEF IInv, TypeOK, RemoveStore, Store, Advance
<1>2. CASE Store("remove", 1) /\ entries' = Without(Place(op.key)) /\ UNCHANGED <<count, length>>
  <2>1. op.key \in Keys /\ op.name = "remove" /\ op.at = 1 /\ op'.name = "remove" /\ op'.at = 2
    BY <1>2 DEF Store, Advance, Stores, IInv, Found, TypeOK, Calls
  <2>2. Len(entries') + 1 = Len(entries)
    <3> DEFINE p == Place(op.key)
    <3>1. p \in DOMAIN entries /\ entries' = Without(p)
      BY <1>2, <2>1, PlaceIsThere DEF IInv, Found
    <3> HIDE DEF p
    <3>2. entries' \in Seq(Entry) /\ DOMAIN entries' = 1 .. Len(entries) - 1
      BY <3>1, Shortened DEF IInv
    <3>3. Len(entries) >= 1
      BY <1>1, <3>1
    <3> QED
      BY <1>1, <3>2, <3>3
  <2>3. PendC = 0 /\ PendL = 0 /\ PendC' = 1 /\ PendL' = 1
    BY <2>1 DEF PendC, PendL
  <2>4. Len(entries') + PendC' = Len(entries) + PendC /\ Len(entries') + PendL' = Len(entries) + PendL
    BY <1>1, <2>2, <2>3
  <2> QED
    BY <1>1, <1>2, <2>4 DEF Counted
<1>3. CASE Store("remove", 3) /\ count' = Plus(count, -1) /\ UNCHANGED <<entries, length>>
  <2>1. op.name = "remove" /\ op.at = 3 /\ op'.name = "remove" /\ op'.at = 4
    BY <1>3 DEF Store, Advance, Stores, IInv, TypeOK, Calls
  <2>2. PendC = 1 /\ PendL = 1 /\ PendC' = 0 /\ PendL' = 1
    BY <2>1 DEF PendC, PendL
  <2>3. Len(entries) + PendC \in Int /\ (Len(entries) + PendC) + (-1) = Len(entries') + PendC' /\ -1 \in Int
    BY <1>1, <1>3, <2>2
  <2>4. live /\ ~dangling => Off(count', Len(entries') + PendC', interrupts)
    BY <1>1, <1>3, <2>3, OffStored DEF Counted
  <2> QED
    BY <1>1, <1>3, <2>2, <2>4 DEF Counted
<1>4. CASE Store("remove", 4) /\ length' = Plus(length, -1) /\ UNCHANGED <<entries, count>>
  <2>1. op.name = "remove" /\ op.at = 4 /\ op' = Idle
    BY <1>4 DEF Store, Advance, Stores, IInv, TypeOK, Calls
  <2>2. PendC = 0 /\ PendL = 1 /\ PendC' = 0 /\ PendL' = 0
    BY <2>1 DEF PendC, PendL, Idle
  <2>3. Len(entries) + PendL \in Int /\ (Len(entries) + PendL) + (-1) = Len(entries') + PendL' /\ -1 \in Int
    BY <1>1, <1>4, <2>2
  <2>4. live /\ ~dangling => Off(length', Len(entries') + PendL', interrupts)
    BY <1>1, <1>4, <2>3, OffStored DEF Counted
  <2> QED
    BY <1>1, <1>4, <2>2, <2>4 DEF Counted
<1>5. CASE FreeEntry
  <2>1. Advance("remove", 2) /\ UNCHANGED <<entries, count, length>>
    BY <1>5, FreesUnlinked
  <2>2. op.name = "remove" /\ op.at = 2 /\ op'.name = "remove" /\ op'.at = 3
    BY <2>1 DEF Advance, Stores, IInv, TypeOK, Calls
  <2>3. PendC = 1 /\ PendL = 1 /\ PendC' = 1 /\ PendL' = 1
    BY <2>2 DEF PendC, PendL
  <2> QED
    BY <1>1, <2>1, <2>3, NotCounted
<1> QED
  BY <1>2, <1>3, <1>4, <1>5 DEF RemoveStore

LEMMA InterruptCounted == ASSUME IInv, Counted, Interrupt PROVE Counted'
<1>1. /\ UNCHANGED <<live, dangling, entries, count, length>> /\ op' = Idle
      /\ interrupts' = interrupts + 1 /\ interrupts \in Nat /\ Len(entries) \in Nat
  BY DEF Interrupt, tree, IInv, TypeOK
<1>2. PendC' = 0 /\ PendL' = 0
  BY <1>1 DEF PendC, PendL, Idle
<1>3. live /\ ~dangling => Off(count, Len(entries), interrupts + 1)
                           /\ Off(length, Len(entries), interrupts + 1)
  <2> DEFINE m == Len(entries)
             i == interrupts
  <2>1. m \in Int /\ i \in Nat /\ PendC \in -1 .. 1 /\ PendL \in -1 .. 1
    BY <1>1, PendType
  <2>2. live /\ ~dangling => Off(count, m + PendC, i) /\ Off(length, m + PendL, i)
    BY DEF Counted
  <2> HIDE DEF m, i
  <2>3. live /\ ~dangling => Off(count, m, i + 1) /\ Off(length, m, i + 1)
    BY <2>1, <2>2, OffInterrupted
  <2> QED
    BY <2>3 DEF m, i
<1>4. Len(entries') + 0 = Len(entries)
  BY <1>1
<1> QED
  BY <1>1, <1>2, <1>3, <1>4 DEF Counted

LEMMA NextCounted == ASSUME IInv, IInv', Counted, [Next]_vars PROVE Counted'
<1>1. CASE New
  BY <1>1, NewCounted
<1>2. CASE Delete
  BY <1>2, BeginCounted DEF Delete, Begin, Quiet, Idle, Call
<1>3. CASE NullHandle \/ NullRoot \/ UseAfterFree
  BY <1>3, BeginCounted DEF NullHandle, NullRoot, UseAfterFree, Fail, tree, Quiet, Idle
<1>4. ASSUME NEW k \in Keys, Put(k) PROVE Counted'
  BY <1>4, BeginCounted DEF Put, Begin, Quiet, Idle, Call
<1>5. ASSUME NEW k \in Keys, Remove(k) PROVE Counted'
  BY <1>5, BeginCounted DEF Remove, Begin, Quiet, Idle, Call
<1>6. ASSUME NEW k \in Keys, NEW v \in Values, Update(k, v) PROVE Counted'
  <2>1. entries \in Seq(Entry) /\ entries' \in Seq(Entry) /\ DOMAIN entries' = DOMAIN entries
    BY <1>6 DEF Update, IInv, TypeOK
  <2>2. Len(entries') = Len(entries)
    BY <2>1
  <2> QED
    BY <1>6, <2>2, NotCounted DEF Update, PendC, PendL
<1>7. CASE PutStore
  BY <1>7, PutStoreCounted
<1>8. CASE RemoveStore
  BY <1>8, RemoveStoreCounted
<1>9. CASE DeleteStep
  BY <1>9 DEF DeleteStep, Counted
<1>10. CASE Interrupt
  BY <1>10, InterruptCounted
<1>11. CASE UNCHANGED vars
  BY <1>11, NotCounted DEF vars, tree, PendC, PendL
<1> QED
  BY <1>1, <1>2, <1>3, <1>4, <1>5, <1>6, <1>7, <1>8, <1>9, <1>10, <1>11 DEF Next, Halted

LEMMA CountedOff == IInv /\ Counted => OffByInterrupts
<1> SUFFICES ASSUME IInv, Counted, Quiet, live, ~dangling
             PROVE  \A n \in {count, length} :
                      \E d \in -interrupts .. interrupts : n = Plus(Len(entries), d)
  BY DEF OffByInterrupts
<1>1. PendC = 0 /\ PendL = 0
  BY NoPend DEF Quiet, Idle
<1>2. Len(entries) + 0 = Len(entries)
  BY DEF IInv, TypeOK
<1> QED
  BY <1>1, <1>2 DEF Counted, Off

(* Between calls, length and count are the number of entries, modulo the    *)
(* width of a size_t, give or take one for each call that was interrupted.  *)
THEOREM CountersOffByInterrupts == Spec => []OffByInterrupts
<1>1. Init => Counted
  BY DEF Init, Counted
<1>2. IInv /\ IInv' /\ Counted /\ [Next]_vars => Counted'
  BY NextCounted
<1> QED
  BY <1>1, <1>2, Invariant, CountedOff, PTL DEF Spec
=============================================================================

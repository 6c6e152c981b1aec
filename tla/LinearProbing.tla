--------------------------- MODULE LinearProbing ---------------------------
(***************************************************************************)
(* The linear-probing hash table of libellul, as a map (put, get) and as a *)
(* set (insert).  The table never grows, remove empties the slot without a *)
(* tombstone or a shift, and insert does not look for the element it adds. *)
(* What a client may rely on therefore depends on what it does.            *)
(***************************************************************************)
EXTENDS Integers, FiniteSets, FiniteSetsExt

CONSTANTS
  Keys, Values,
  Empty,           \* EMPTY_KEY
  None,            \* the value of a free slot, and of an element of a set
  TableSize,       \* TABLE_SIZE
  HashFunctions    \* what T_MAP_HASHFUN may be, reduced modulo TABLE_SIZE

ASSUME LinearProbingAssumption ==
  /\ Empty \notin Keys
  /\ TableSize \in Nat \ {0}
  /\ HashFunctions \subseteq [Keys -> 0 .. TableSize - 1]

VARIABLES
  hash,     \* T_MAP_HASHFUN
  kind,     \* "set" if the table was made with T_SET_ELEMENT, or "map"
  exists,   \* whether the map pointer is not NULL
  slots,    \* bucket and value of each index
  length,
  last,     \* the last operation and what it returned
  careless  \* history: since New the client has removed a key that is not
            \* at the end of a run of used slots, or inserted an element again

vars == <<hash, kind, exists, slots, length, last, careless>>

Vacant == [key |-> Empty, val |-> None]
NoOp   == [op |-> "none", key |-> Empty, val |-> None, ret |-> 1]
Distance == 0 .. TableSize - 1

Called(op, k, v, ret) ==
  last' = [op |-> op, key |-> k, val |-> v, ret |-> ret]

(* The probe sequence of k, and the first slot of it that holds one of ks.  *)
At(k, d)      == (hash[k] + d) % TableSize
Probe(k, ks)  == {d \in Distance : slots[At(k, d)].key \in ks}
Ends(k, ks)   == Probe(k, ks) # {}
End(k, ks)    == At(k, Min(Probe(k, ks)))

(* Variant: the home slot alone is looked at.                               *)
contains_HomeOnly(k) == slots[At(k, 0)].key = k

contains(k) == Ends(k, {Empty, k}) /\ slots[End(k, {Empty, k})].key = k
get(k)      == slots[End(k, {Empty, k})].val

-----------------------------------------------------------------------------
New ==
  /\ ~exists
  /\ exists' = TRUE
  /\ slots' = [s \in Distance |-> Vacant]
  /\ length' = 0
  /\ last' = NoOp
  /\ careless' = FALSE
  /\ UNCHANGED <<hash, kind>>

Delete ==
  /\ exists
  /\ exists' = FALSE
  /\ slots' = [s \in Distance |-> Vacant]
  /\ length' = 0
  /\ last' = NoOp
  /\ careless' = FALSE
  /\ UNCHANGED <<hash, kind>>

(* Variant: an update is counted as an insertion.                           *)
Store_AlwaysCounts(k, v, s) ==
  /\ slots' = [slots EXCEPT ![s] = [key |-> k, val |-> v]]
  /\ length' = length + 1

Store(k, v, s) ==
  /\ slots' = [slots EXCEPT ![s] = [key |-> k, val |-> v]]
  /\ length' = IF slots[s].key = Empty THEN length + 1 ELSE length

Full(op, k, v) ==
  /\ Called(op, k, v, 0)
  /\ UNCHANGED <<slots, length>>

(* Variant: the value of a key that is there is left as it is.              *)
Put_KeepsOld(k, v) ==
  /\ kind = "map" /\ exists
  /\ \/ /\ Ends(k, {Empty, k})
        /\ Store(k, IF contains(k) THEN get(k) ELSE v, End(k, {Empty, k}))
        /\ Called("put", k, v, 1)
     \/ /\ ~Ends(k, {Empty, k})
        /\ Full("put", k, v)
  /\ UNCHANGED <<hash, kind, exists, careless>>

Put(k, v) ==
  /\ kind = "map" /\ exists
  /\ \/ /\ Ends(k, {Empty, k})
        /\ Store(k, v, End(k, {Empty, k}))
        /\ Called("put", k, v, 1)
     \/ /\ ~Ends(k, {Empty, k})
        /\ Full("put", k, v)
  /\ UNCHANGED <<hash, kind, exists, careless>>

(* Variant: the element goes to its home slot, whoever is there.            *)
Insert_AtHome(k) ==
  /\ kind = "set" /\ exists
  /\ careless' = (careless \/ contains(k))
  /\ Store(k, None, At(k, 0))
  /\ Called("insert", k, None, 1)
  /\ UNCHANGED <<hash, kind, exists>>

Insert(k) ==
  /\ kind = "set" /\ exists
  /\ careless' = (careless \/ contains(k))
  /\ \/ /\ Ends(k, {Empty})
        /\ Store(k, None, End(k, {Empty}))
        /\ Called("insert", k, None, 1)
     \/ /\ ~Ends(k, {Empty})
        /\ Full("insert", k, None)
  /\ UNCHANGED <<hash, kind, exists>>

AtTail(s) == slots[(s + 1) % TableSize].key = Empty

Remove(k) ==
  /\ exists
  /\ careless' = (careless \/ (contains(k) /\ ~AtTail(End(k, {Empty, k}))))
  /\ \/ /\ contains(k)
        /\ slots' = [slots EXCEPT ![End(k, {Empty, k})] = Vacant]
        /\ length' = length - 1
        /\ Called("remove", k, None, 1)
     \/ /\ ~contains(k)
        /\ Called("remove", k, None, 0)
        /\ UNCHANGED <<slots, length>>
  /\ UNCHANGED <<hash, kind, exists>>

-----------------------------------------------------------------------------
Init ==
  /\ hash \in HashFunctions
  /\ kind \in {"map", "set"}
  /\ exists = FALSE
  /\ slots = [s \in Distance |-> Vacant]
  /\ length = 0
  /\ last = NoOp
  /\ careless = FALSE

Next ==
  \/ New \/ Delete
  \/ \E k \in Keys : Insert(k) \/ Remove(k) \/ \E v \in Values : Put(k, v)

Spec == Init /\ [][Next]_vars

-----------------------------------------------------------------------------
(* Properties *)

Used == {s \in Distance : slots[s].key # Empty}

TypeOK ==
  /\ hash \in HashFunctions
  /\ kind \in {"map", "set"}
  /\ exists \in BOOLEAN /\ careless \in BOOLEAN
  /\ slots \in [Distance -> [key : Keys \cup {Empty}, val : Values \cup {None}]]
  /\ length \in 0 .. TableSize
  /\ last \in [op : {"none", "put", "insert", "remove"}, key : Keys \cup {Empty},
               val : Values \cup {None}, ret : {0, 1}]

Content ==
  [k \in {slots[s].key : s \in Used} |->
     (CHOOSE e \in {slots[s] : s \in Used} : e.key = k).val]

(* For a client that removes keys at the end of runs only and inserts new   *)
(* elements only, the table is a map; refusing when it is full is a stutter. *)
Map == INSTANCE AbstractMap WITH content <- Content, Values <- Values \cup {None}
ImplementsMap == Map!Init /\ [][careless' \/ Map!Next]_Content

(* "any colliding key will be found by scanning sequential slots"           *)
(* (report/hashtables-open.tex): a stored key is found, with its value ...  *)
CollidingKeysFound ==
  \A s \in Used : contains(slots[s].key) /\ get(slots[s].key) = slots[s].val

(* ... but by a careful client only.                                        *)
KeysAreFound == ~careless => CollidingKeysFound

(* "each key is unique" (report/maps.tex): no two slots hold the same key,  *)
(* for a careful client; and whatever order a client removes keys in,       *)
(* length counts the used slots.                                            *)
SlotsSound ==
  /\ TypeOK
  /\ length = Cardinality(Used)
  /\ ~careless => \A s, t \in Used : slots[s].key = slots[t].key => s = t

(* Whatever was removed before, a put that returns 1 is read back by get,   *)
(* even when it created a second copy of the key; one that returns 0 found  *)
(* the table full of other keys.                                            *)
PutIsRead ==
  last.op = "put" =>
    IF last.ret = 1 THEN contains(last.key) /\ get(last.key) = last.val
                    ELSE ~contains(last.key) /\ Used = Distance
=============================================================================

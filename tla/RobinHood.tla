----------------------------- MODULE RobinHood -----------------------------
(***************************************************************************)
(* The Robin Hood hash table of libellul, one action per iteration of its  *)
(* loops.  While it probes, put carries the entry it has yet to place: an  *)
(* entry that is closer to its home than the carried one is evicted and    *)
(* carried on.  remove shifts the rest of the cluster back; a table that   *)
(* is half full is rebuilt, entry by entry, before the insertion.          *)
(***************************************************************************)
EXTENDS Integers, FiniteSets

CONSTANTS
  Keys, Values,
  Empty,            \* RH_EMPTY_KEY, the key that marks a free slot
  None,             \* the value of a free slot
  HashFunctions,    \* what T_MAP_HASHFUN may be
  InitialCapacity   \* RH_INITIAL_CAPACITY

ASSUME RobinHoodAssumption ==
  /\ Empty \notin Keys
  /\ HashFunctions \subseteq [Keys -> Nat]
  /\ InitialCapacity \in Nat \ {0, 1}

VARIABLES
  hash,      \* T_MAP_HASHFUN
  capacity,
  length,
  slots,     \* bucket, value and dib of each index
  old,       \* the slots rh_rehash is moving entries from
  i,         \* its next index into them
  pc,        \* the loop being executed, or "null" while the map is NULL
  arg,       \* the arguments of put
  carry,     \* the entry put or rh_rehash has in hand, and its distance
  h          \* the index the loop is at

vars == <<hash, capacity, length, slots, old, i, pc, arg, carry, h>>

Entry    == [key : Keys \cup {Empty}, val : Values \cup {None}, dib : Nat]
Vacant   == [key |-> Empty, val |-> None, dib |-> 0]
Nothing  == [key |-> Empty, val |-> None, dist |-> 0]
Fresh(c) == [s \in 0 .. c - 1 |-> Vacant]

Home(k, c)    == hash[k] % c
Succ(s)       == (s + 1) % capacity
IsEmpty(s)    == slots[s].key = Empty
Carried(k, v) == [key |-> k, val |-> v, dist |-> 0]
AsEntry(c)    == [key |-> c.key, val |-> c.val, dib |-> c.dist]

-----------------------------------------------------------------------------
(* new, delete *)

Create ==
  /\ capacity' = InitialCapacity
  /\ length' = 0
  /\ slots' = Fresh(InitialCapacity)

New ==
  /\ pc = "null"
  /\ pc' = "idle"
  /\ Create
  /\ UNCHANGED <<hash, old, i, arg, carry, h>>

Delete ==
  /\ pc = "idle"
  /\ pc' = "null"
  /\ capacity' = 0
  /\ length' = 0
  /\ slots' = Fresh(0)
  /\ h' = 0
  /\ UNCHANGED <<hash, old, i, arg, carry>>

-----------------------------------------------------------------------------
(* put *)

BeginProbe(k, v, c) ==
  /\ carry' = Carried(k, v)
  /\ h' = Home(k, c)

PutNull(k, v) ==
  /\ pc = "null"
  /\ arg' = Carried(k, v)
  /\ pc' = "put"
  /\ Create
  /\ BeginProbe(k, v, InitialCapacity)
  /\ UNCHANGED <<hash, old, i>>

Put(k, v) ==
  /\ pc = "idle"
  /\ arg' = Carried(k, v)
  /\ \/ /\ length * 2 < capacity
        /\ pc' = "put"
        /\ BeginProbe(k, v, capacity)
        /\ UNCHANGED <<capacity, length, slots, old, i>>
     \/ /\ length * 2 >= capacity
        /\ pc' = "rehash"
        /\ capacity' = 2 * capacity
        /\ length' = 0
        /\ slots' = Fresh(capacity')
        /\ old' = slots
        /\ i' = 0
        /\ UNCHANGED <<carry, h>>
  /\ UNCHANGED hash

(* Place the carried entry in a free slot. *)
Place ==
  /\ IsEmpty(h)
  /\ slots' = [slots EXCEPT ![h] = AsEntry(carry)]
  /\ length' = length + 1
  /\ UNCHANGED h

(* Variant: the eviction exchanges the keys only.                           *)
PassBy_ValueStays ==
  /\ ~IsEmpty(h)
  /\ \/ /\ carry.dist > slots[h].dib
        /\ slots' = [slots EXCEPT ![h] = AsEntry(carry)]
        /\ carry' = [key |-> slots[h].key, val |-> carry.val,
                     dist |-> slots[h].dib + 1]
     \/ /\ carry.dist <= slots[h].dib
        /\ carry' = [carry EXCEPT !.dist = @ + 1]
        /\ UNCHANGED slots
  /\ h' = Succ(h)
  /\ UNCHANGED length

(* Leave the resident where it is, or take it along if it is closer to its  *)
(* home than the carried entry to its own.                                  *)
PassBy ==
  /\ ~IsEmpty(h)
  /\ \/ /\ carry.dist > slots[h].dib
        /\ slots' = [slots EXCEPT ![h] = AsEntry(carry)]
        /\ carry' = [key |-> slots[h].key, val |-> slots[h].val,
                     dist |-> slots[h].dib + 1]
     \/ /\ carry.dist <= slots[h].dib
        /\ carry' = [carry EXCEPT !.dist = @ + 1]
        /\ UNCHANGED slots
  /\ h' = Succ(h)
  /\ UNCHANGED length

(* Variant: the resident keys are not looked at.                            *)
PutProbe_NoKeyTest ==
  /\ pc = "put"
  /\ \/ Place /\ pc' = "idle" /\ carry' = Nothing
     \/ PassBy /\ UNCHANGED pc
  /\ UNCHANGED <<hash, capacity, old, i, arg>>

PutProbe ==
  /\ pc = "put"
  /\ \/ Place /\ pc' = "idle" /\ carry' = Nothing
     \/ /\ ~IsEmpty(h) /\ slots[h].key = carry.key
        /\ slots' = [slots EXCEPT ![h].val = carry.val]
        /\ pc' = "idle" /\ carry' = Nothing
        /\ UNCHANGED <<length, h>>
     \/ slots[h].key # carry.key /\ PassBy /\ UNCHANGED pc
  /\ UNCHANGED <<hash, capacity, old, i, arg>>

-----------------------------------------------------------------------------
(* rh_rehash *)

(* Variant: an empty slot is skipped without stepping past it.              *)
RehashNext_Stuck ==
  /\ pc = "rehash"
  /\ \/ /\ i \in DOMAIN old
        /\ i' = IF old[i].key = Empty THEN i ELSE i + 1
        /\ IF old[i].key = Empty
             THEN UNCHANGED <<pc, carry, h>>
             ELSE pc' = "reinsert" /\ BeginProbe(old[i].key, old[i].val, capacity)
        /\ UNCHANGED old
     \/ /\ i \notin DOMAIN old
        /\ i' = 0
        /\ old' = Fresh(0)
        /\ pc' = "put"
        /\ BeginProbe(arg.key, arg.val, capacity)
  /\ UNCHANGED <<hash, capacity, length, slots, arg>>

RehashNext ==
  /\ pc = "rehash"
  /\ \/ /\ i \in DOMAIN old
        /\ i' = i + 1
        /\ IF old[i].key = Empty
             THEN UNCHANGED <<pc, carry, h>>
             ELSE pc' = "reinsert" /\ BeginProbe(old[i].key, old[i].val, capacity)
        /\ UNCHANGED old
     \/ /\ i \notin DOMAIN old
        /\ i' = 0
        /\ old' = Fresh(0)
        /\ pc' = "put"
        /\ BeginProbe(arg.key, arg.val, capacity)
  /\ UNCHANGED <<hash, capacity, length, slots, arg>>

Reinsert ==
  /\ pc = "reinsert"
  /\ \/ Place /\ pc' = "rehash" /\ carry' = Nothing
     \/ PassBy /\ UNCHANGED pc
  /\ UNCHANGED <<hash, capacity, old, i, arg>>

-----------------------------------------------------------------------------
(* remove *)

Remove(k) ==
  /\ pc = "idle"
  /\ pc' = "remove"
  /\ BeginProbe(k, None, capacity)
  /\ UNCHANGED <<hash, capacity, length, slots, old, i, arg>>

(* Variant: the slot is cleared and the cluster left as it is.              *)
RemoveProbe_NoShift ==
  /\ pc = "remove"
  /\ \/ /\ IsEmpty(h) \/ slots[h].dib < carry.dist
        /\ pc' = "idle" /\ carry' = Nothing
        /\ UNCHANGED <<length, slots, h>>
     \/ /\ ~IsEmpty(h) /\ slots[h].dib >= carry.dist
        /\ \/ /\ slots[h].key = carry.key
              /\ slots' = [slots EXCEPT ![h] = Vacant]
              /\ pc' = "idle" /\ carry' = Nothing
              /\ length' = length - 1
              /\ UNCHANGED h
           \/ /\ slots[h].key # carry.key
              /\ carry' = [carry EXCEPT !.dist = @ + 1]
              /\ h' = Succ(h)
              /\ UNCHANGED <<length, slots, pc>>
  /\ UNCHANGED <<hash, capacity, old, i, arg>>

RemoveProbe ==
  /\ pc = "remove"
  /\ \/ /\ IsEmpty(h) \/ slots[h].dib < carry.dist
        /\ pc' = "idle" /\ carry' = Nothing
        /\ UNCHANGED <<slots, h>>
     \/ /\ ~IsEmpty(h) /\ slots[h].dib >= carry.dist
        /\ \/ /\ slots[h].key = carry.key
              /\ slots' = [slots EXCEPT ![h] = Vacant]
              /\ pc' = "shift" /\ carry' = Nothing
              /\ UNCHANGED h
           \/ /\ slots[h].key # carry.key
              /\ carry' = [carry EXCEPT !.dist = @ + 1]
              /\ h' = Succ(h)
              /\ UNCHANGED <<slots, pc>>
  /\ UNCHANGED <<hash, capacity, length, old, i, arg>>

Shift ==
  /\ pc = "shift"
  /\ LET next == Succ(h) IN
     \/ /\ ~IsEmpty(next) /\ slots[next].dib > 0
        /\ slots' = [slots EXCEPT ![h] = [slots[next] EXCEPT !.dib = @ - 1],
                                  ![next] = Vacant]
        /\ h' = next
        /\ UNCHANGED <<length, pc>>
     \/ /\ IsEmpty(next) \/ slots[next].dib = 0
        /\ length' = length - 1
        /\ pc' = "idle"
        /\ UNCHANGED <<slots, h>>
  /\ UNCHANGED <<hash, capacity, old, i, arg, carry>>

-----------------------------------------------------------------------------
Init ==
  /\ hash \in HashFunctions
  /\ capacity = 0
  /\ length = 0
  /\ slots = Fresh(0)
  /\ old = Fresh(0)
  /\ i = 0
  /\ pc = "null"
  /\ arg = Nothing
  /\ carry = Nothing
  /\ h = 0

Loops == PutProbe \/ RehashNext \/ Reinsert \/ RemoveProbe \/ Shift
Next  ==
  \/ New \/ Delete \/ Loops
  \/ \E k \in Keys :
       Remove(k) \/ \E v \in Values : Put(k, v) \/ PutNull(k, v)

Spec     == Init /\ [][Next]_vars
FairSpec == Spec /\ WF_vars(Loops)

-----------------------------------------------------------------------------
(* get and contains: the probe ends at the first slot that is free, holds   *)
(* an entry closer to its home, or holds the key.                           *)
At(k, d)    == (Home(k, capacity) + d) % capacity
Stops(k, d) == IsEmpty(At(k, d)) \/ slots[At(k, d)].dib < d
Hits(k, d)  == ~Stops(k, d) /\ slots[At(k, d)].key = k
Probe(k, d) == Hits(k, d) /\ \A e \in 0 .. d - 1 : ~Stops(k, e) /\ ~Hits(k, e)

contains(k) == pc # "null" /\ \E d \in 0 .. capacity : Probe(k, d)
get(k)      == slots[At(k, CHOOSE d \in 0 .. capacity : Probe(k, d))].val

-----------------------------------------------------------------------------
(* Properties *)

Used == {s \in DOMAIN slots : ~IsEmpty(s)}

TypeOK ==
  /\ hash \in HashFunctions
  /\ capacity \in Nat
  /\ length \in Nat
  /\ slots \in [0 .. capacity - 1 -> Entry]
  /\ \A s \in DOMAIN old : old[s] \in Entry
  /\ i \in Nat
  /\ pc \in {"null", "idle", "put", "rehash", "reinsert", "remove", "shift"}
  /\ h \in Nat /\ (pc # "null" => h < capacity)

(* The entries, the one in hand and those rh_rehash has not moved yet: no   *)
(* eviction, shift or rebuild ever loses, invents or doubles an entry.      *)
Held == {[key |-> slots[s].key, val |-> slots[s].val] : s \in Used}
          \cup {[key |-> old[s].key, val |-> old[s].val] :
                  s \in {t \in DOMAIN old : t >= i /\ old[t].key # Empty}}
          \cup (IF pc = "reinsert" \/ (pc = "put" /\ carry.key # arg.key)
                  THEN {[key |-> carry.key, val |-> carry.val]} ELSE {})

Content == [k \in {e.key : e \in Held} |-> (CHOOSE e \in Held : e.key = k).val]

Map == INSTANCE AbstractMap WITH content <- Content
ImplementsMap == Map!Spec

(* Between operations every key that is in the table is found with its own  *)
(* value and no other key is: neither the early end of the probe (a closer  *)
(* resident) nor a shift that stops too soon ever hides an entry.           *)
FindsExactly ==
  pc \in {"null", "idle"} => \A k \in Keys :
    /\ contains(k) <=> k \in DOMAIN Content
    /\ contains(k) => get(k) = Content[k]

KeysUnique == \A e, f \in Held : e.key = f.key => e = f

DibExact ==
  \A s \in Used : slots[s].dib = (s - Home(slots[s].key, capacity)) % capacity

LengthExact ==
  /\ pc \in {"null", "idle"} => length = Cardinality(Used)
  /\ pc # "null" => Cardinality(Used) < capacity

(* In each iteration of each loop: no key is held twice, counting the entry *)
(* in hand and those not yet moved; dib is the distance to the home slot;   *)
(* length counts the entries and there is a free slot, the one thing that   *)
(* probes stop at when all residents are far from home.                     *)
TableSound == TypeOK /\ KeysUnique /\ DibExact /\ LengthExact

(* Every operation returns. *)
Returns == pc \notin {"null", "idle"} ~> pc = "idle"
=============================================================================

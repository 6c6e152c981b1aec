------------------------------ MODULE HashTrie ------------------------------
(***************************************************************************)
(* hashtrie.h.  Nodes are made by ht_new_leaf alone and nothing turns a    *)
(* leaf into an inner node, so the trie that the code builds is its root:  *)
(* one leaf with a list of entries, which no hash decides about.  A test   *)
(* may be interrupted between two stores, as in Deque.                     *)
(***************************************************************************)
EXTENDS Integers, Sequences

CONSTANTS
  Keys, Values,
  None,          \* the key that no call is about
  SizeLimit,     \* SIZE_MAX + 1
  MaxInterrupts  \* bound: how often a call is interrupted

ASSUME HashTrieAssumption ==
  /\ None \notin Keys
  /\ SizeLimit \in Nat \ {0, 1} /\ MaxInterrupts \in Nat

VARIABLES
  live,        \* the handle is not NULL
  root,        \* "leaf", or "none" if calloc failed
  entries,     \* the list of the leaf, first entry first
  count,       \* leaf.count
  length,      \* map->length
  dangling,    \* something is freed that the handle still leads to
  cut,         \* history: a delete of this map was interrupted
  op,          \* the call that is being executed, its next store, its key
  interrupts,  \* history: how many calls were interrupted
  fate         \* "ok", or an access through NULL ("null") or to freed memory
               \* ("freed")

tree == <<root, entries, count, length>>
vars == <<live, tree, dangling, cut, op, interrupts, fate>>

Entry == [key : Keys, value : Values]

Calls == [name : {"put", "remove", "delete", "idle"}, at : 1 .. 4,
          key : Keys \cup {None}]
Idle  == [name |-> "idle", at |-> 1, key |-> None]
Call(n, k) == [name |-> n, at |-> 1, key |-> k]
Stores == [put |-> 3, remove |-> 4]

Quiet == op = Idle /\ fate = "ok"

(* The walk along the list ends at the first entry that has the key. *)
Places(k) == {i \in DOMAIN entries : entries[i].key = k}
Place(k)  == CHOOSE i \in Places(k) : \A j \in Places(k) : i <= j

Without(i) == SubSeq(entries, 1, i - 1) \o SubSeq(entries, i + 1, Len(entries))

Plus(n, d) == (n + d) % SizeLimit

-----------------------------------------------------------------------------
(* new: either calloc may fail.  (If the first does, the handle stays NULL.) *)
New ==
  /\ Quiet /\ ~live
  /\ live' = TRUE
  /\ root' \in {"leaf", "none"}
  /\ entries' = << >> /\ count' = 0 /\ length' = 0
  /\ cut' = FALSE
  /\ UNCHANGED <<dangling, op, interrupts, fate>>

Fail(how) == fate' = how /\ UNCHANGED <<live, tree, dangling, cut, op, interrupts>>

(* contains and get, which alone do not test the handle *)
NullHandle == Quiet /\ ~live /\ Fail("null")

(* put, when the root was not allocated, and is not now either: the result  *)
(* of calloc is not tested.                                                 *)
NullRoot == Quiet /\ live /\ ~dangling /\ root = "none" /\ Fail("null")

(* Any call about a map of which something is freed.                        *)
UseAfterFree == Quiet /\ dangling /\ Fail("freed")

(* A call that begins: nothing is stored yet. *)
Begin(c) == op' = c /\ UNCHANGED <<entries, count, length>>

(* Variant: the list is not searched first. *)
Put_Blindly(k) ==
  /\ Quiet /\ live /\ ~dangling
  /\ root' = "leaf"
  /\ Begin(Call("put", k))
  /\ UNCHANGED <<live, dangling, cut, interrupts, fate>>

(* put, of a new key: a missing root is allocated again; an entry that      *)
(* cannot be allocated is not put.                                          *)
Put(k) ==
  /\ Quiet /\ live /\ ~dangling
  /\ Places(k) = {}
  /\ root' = "leaf"
  /\ Begin(Call("put", k)) \/ Begin(Idle)
  /\ UNCHANGED <<live, dangling, cut, interrupts, fate>>

(* put, of a key that is there: the one store that there is. *)
Update(k, v) ==
  /\ Quiet /\ live /\ ~dangling
  /\ Places(k) # {}
  /\ entries' = [entries EXCEPT ![Place(k)].value = v]
  /\ UNCHANGED <<live, root, count, length, dangling, cut, op, interrupts, fate>>

Remove(k) ==
  /\ Quiet /\ live /\ ~dangling
  /\ Places(k) # {}
  /\ Begin(Call("remove", k))
  /\ UNCHANGED <<live, root, dangling, cut, interrupts, fate>>

(* The n-th store of a call, which returns after the last one.              *)
Advance(name, n) ==
  /\ op.name = name /\ op.at = n /\ fate = "ok"
  /\ op' = IF n = Stores[name] THEN Idle ELSE [op EXCEPT !.at = n + 1]
  /\ UNCHANGED <<live, root, cut, interrupts, fate>>

Store(name, n) == Advance(name, n) /\ UNCHANGED dangling

PutStore ==
  \/ /\ Store("put", 1)
     /\ \E v \in Values : entries' = <<[key |-> op.key, value |-> v]>> \o entries
     /\ UNCHANGED <<count, length>>
  \/ /\ Store("put", 2)
     /\ count' = Plus(count, 1) /\ UNCHANGED <<entries, length>>
  \/ /\ Store("put", 3)
     /\ length' = Plus(length, 1) /\ UNCHANGED <<entries, count>>

(* free(cur), the one entry that has the key: is it still in the list? *)
FreeEntry ==
  /\ Advance("remove", 2)
  /\ dangling' = (dangling \/ Places(op.key) # {})
  /\ UNCHANGED <<entries, count, length>>

(* Variant: the entries behind the removed one are dropped with it. *)
RemoveStore_Truncates ==
  \/ Store("remove", 1) /\ entries' = SubSeq(entries, 1, Place(op.key) - 1) /\ UNCHANGED <<count, length>>
  \/ FreeEntry
  \/ Store("remove", 3) /\ count' = Plus(count, -1) /\ UNCHANGED <<entries, length>>
  \/ Store("remove", 4) /\ length' = Plus(length, -1) /\ UNCHANGED <<entries, count>>

(* Variant: length is left alone. *)
RemoveStore_KeepsLength ==
  \/ Store("remove", 1) /\ entries' = Without(Place(op.key)) /\ UNCHANGED <<count, length>>
  \/ FreeEntry
  \/ Store("remove", 3) /\ count' = Plus(count, -1) /\ UNCHANGED <<entries, length>>
  \/ Store("remove", 4) /\ UNCHANGED <<entries, count, length>>

(* Variant: the entry is freed first and then unlinked. *)
RemoveStore_FreesFirst ==
  \/ /\ Advance("remove", 1)
     /\ dangling' = (dangling \/ Places(op.key) # {})
     /\ UNCHANGED <<entries, count, length>>
  \/ /\ Advance("remove", 2)
     /\ entries' = Without(Place(op.key)) /\ dangling' = FALSE
     /\ UNCHANGED <<count, length>>
  \/ Store("remove", 3) /\ count' = Plus(count, -1) /\ UNCHANGED <<entries, length>>
  \/ Store("remove", 4) /\ length' = Plus(length, -1) /\ UNCHANGED <<entries, count>>

(* The entry is unlinked, then freed, then the counters are told. *)
RemoveStore ==
  \/ Store("remove", 1) /\ entries' = Without(Place(op.key)) /\ UNCHANGED <<count, length>>
  \/ FreeEntry
  \/ Store("remove", 3) /\ count' = Plus(count, -1) /\ UNCHANGED <<entries, length>>
  \/ Store("remove", 4) /\ length' = Plus(length, -1) /\ UNCHANGED <<entries, count>>

(* delete: ht_free, an entry at a time, then the root, the map and the      *)
(* handle.                                                                  *)
Delete ==
  /\ Quiet /\ live /\ ~dangling
  /\ Begin(Call("delete", None))
  /\ UNCHANGED <<live, root, dangling, cut, interrupts, fate>>

DeleteStep ==
  /\ op.name = "delete" /\ fate = "ok"
  /\ IF entries # << >> \/ ~dangling
       THEN /\ entries' = IF entries = << >> THEN << >> ELSE Tail(entries)
            /\ dangling' = TRUE
            /\ UNCHANGED <<live, op>>
       ELSE /\ live' = FALSE /\ dangling' = FALSE /\ op' = Idle
            /\ UNCHANGED entries
  /\ UNCHANGED <<root, count, length, cut, interrupts, fate>>

(* The handler jumps out of the test. *)
Interrupt ==
  /\ fate = "ok" /\ op # Idle /\ interrupts < MaxInterrupts
  /\ op' = Idle
  /\ interrupts' = interrupts + 1
  /\ cut' = (cut \/ op.name = "delete")
  /\ UNCHANGED <<live, tree, dangling, fate>>

Halted == fate # "ok" /\ UNCHANGED vars

-----------------------------------------------------------------------------
Init ==
  /\ live = FALSE /\ root = "none"
  /\ entries = << >> /\ count = 0 /\ length = 0
  /\ dangling = FALSE /\ cut = FALSE
  /\ op = Idle
  /\ interrupts = 0
  /\ fate = "ok"

Next ==
  \/ New \/ Delete \/ NullHandle \/ NullRoot \/ UseAfterFree
  \/ \E k \in Keys : Put(k) \/ Remove(k) \/ \E v \in Values : Update(k, v)
  \/ PutStore \/ RemoveStore \/ DeleteStep \/ Interrupt \/ Halted

Spec == Init /\ [][Next]_vars

-----------------------------------------------------------------------------
(* Properties *)

Keyed(k) == {e \in {entries[i] : i \in DOMAIN entries} : e.key = k}

Content ==
  IF dangling THEN [k \in {} |-> k]
  ELSE [k \in {k \in Keys : Places(k) # {}} |-> (CHOOSE e \in Keyed(k) : TRUE).value]

(* Each put, remove and delete takes effect at one store, or, interrupted   *)
(* or out of memory, not at all: what is left is a map, on which later      *)
(* calls do what they say.                                                  *)
Map == INSTANCE AbstractMap WITH content <- Content
ImplementsMap == Map!Spec

TypeOK ==
  /\ {live, dangling, cut} \subseteq BOOLEAN
  /\ root \in {"leaf", "none"}
  /\ entries \in Seq(Entry)
  /\ count \in 0 .. SizeLimit - 1 /\ length \in 0 .. SizeLimit - 1
  /\ op \in Calls
  /\ interrupts \in 0 .. MaxInterrupts
  /\ fate \in {"ok", "null", "freed"}

(* The types; and no key is ever in the list twice, whatever was            *)
(* interrupted, so that remove need not look for a second one.              *)
KeysUnique ==
  /\ TypeOK
  /\ \A i, j \in DOMAIN entries : entries[i].key = entries[j].key => i = j

(* Each interrupted call leaves length and count at most one off, modulo    *)
(* the width of a size_t: without interrupts they are the number of entries. *)
OffByInterrupts ==
  Quiet /\ live /\ ~dangling =>
    \A n \in {count, length} :
      \E d \in -interrupts .. interrupts : n = Plus(Len(entries), d)

(* Nothing that is freed can be reached from the handle, between calls or   *)
(* at any store of a put or remove, where a signal may end it; and no call  *)
(* uses freed memory: but for a delete of the map that is running or was    *)
(* interrupted.  The accesses through NULL are those of contains and get    *)
(* without a map, and of put without a root.                                *)
FailsOnlyInterrupted ==
  /\ dangling /\ op.name # "delete" => cut
  /\ fate = "freed" => cut
  /\ fate = "null" => ~live \/ root = "none"
=============================================================================

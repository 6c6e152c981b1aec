-------------------------- MODULE BinarySearchMap --------------------------
(***************************************************************************)
(* The binary search map of libellul, a sorted array of entries, as a map  *)
(* (put, get) and as a set (insert), one action per iteration of its       *)
(* loops: the two binary searches and the shifts that open and close a     *)
(* gap.  A gap is what an insertion or a removal moves through the array.  *)
(***************************************************************************)
EXTENDS Integers, FiniteSets

CONSTANTS
  Keys, Values,
  None,             \* the value that the elements of a set have
  Unset,            \* what calloc or realloc leaves in a new slot
  InitialCapacity,  \* INITIAL_CAPACITY
  MaxLength         \* the bound of this model on what a client stores

ASSUME BinarySearchMapAssumption ==
  /\ Keys \subseteq Int
  /\ Unset \notin [key : Keys, val : Values \cup {None}]
  /\ InitialCapacity \in Nat \ {0}
  /\ MaxLength \in Nat

VARIABLES
  kind,      \* "set" if the map was made with T_SET_ELEMENT, or "map"
  again,     \* history: since New, an element of the set was inserted again
  arr,       \* keys and values
  capacity,
  length,
  pc,        \* the loop being executed, "idle", or "null" without a map
  op,        \* the function being executed, "none" between calls
  arg,       \* its arguments, as an entry
  left, right, \* of the binary search
  gap        \* i, the slot that the next iteration of a shift writes

vars == <<kind, again, arr, capacity, length, pc, op, arg, left, right, gap>>

Entry     == [key : Keys, val : Values \cup {None}]
Blank(c)  == [s \in 0 .. c - 1 |-> Unset]
Mid       == left + (right - left) \div 2
locals    == <<op, arg, left, right, gap>>

(* The locals of a function are gone when it returns. *)
Return ==
  /\ pc' = "idle"
  /\ op' = "none" /\ arg' = Unset
  /\ left' = 0 /\ right' = 0 /\ gap' = 0

-----------------------------------------------------------------------------
New ==
  /\ pc = "null"
  /\ pc' = "idle"
  /\ capacity' = InitialCapacity
  /\ arr' = Blank(InitialCapacity)
  /\ length' = 0
  /\ again' = FALSE
  /\ UNCHANGED <<kind, locals>>

Delete ==
  /\ pc = "idle"
  /\ pc' = "null"
  /\ capacity' = 0
  /\ arr' = Blank(0)
  /\ length' = 0
  /\ again' = FALSE
  /\ UNCHANGED <<kind, locals>>

-----------------------------------------------------------------------------
(* bs_find, the first thing that get, contains, put and remove do *)

Search == left' = 0 /\ right' = length

Call(o, e) ==
  /\ pc = "idle"
  /\ pc' = "find"
  /\ op' = o
  /\ arg' = e
  /\ Search
  /\ UNCHANGED <<kind, again, arr, capacity, length, gap>>

Get(k)    == Call("get", [key |-> k, val |-> None])
Remove(k) == Call("remove", [key |-> k, val |-> None])
Put(k, v) == kind = "map" /\ Call("put", [key |-> k, val |-> v])

(* Variant: the slot above the middle is skipped.                           *)
NarrowFind_SkipsOne ==
  /\ pc = "find" /\ left < right
  /\ \/ arr[Mid].key < arg.key /\ left' = Mid + 2 /\ UNCHANGED right
     \/ arr[Mid].key > arg.key /\ right' = Mid /\ UNCHANGED left
  /\ UNCHANGED <<kind, again, arr, capacity, length, pc, op, arg, gap>>

(* Variant: the left bound does not pass the middle.                        *)
NarrowFind_KeepsMid ==
  /\ pc = "find" /\ left < right
  /\ \/ arr[Mid].key < arg.key /\ left' = Mid /\ UNCHANGED right
     \/ arr[Mid].key > arg.key /\ right' = Mid /\ UNCHANGED left
  /\ UNCHANGED <<kind, again, arr, capacity, length, pc, op, arg, gap>>

NarrowFind ==
  /\ pc = "find" /\ left < right
  /\ \/ arr[Mid].key < arg.key /\ left' = Mid + 1 /\ UNCHANGED right
     \/ arr[Mid].key > arg.key /\ right' = Mid /\ UNCHANGED left
  /\ UNCHANGED <<kind, again, arr, capacity, length, pc, op, arg, gap>>

(* Variant: put overwrites the left bound of its search.                    *)
Found_WritesLeft ==
  /\ pc = "find" /\ left < right /\ arr[Mid].key = arg.key
  /\ \/ op = "get" /\ Return /\ UNCHANGED arr
     \/ op = "put" /\ Return /\ arr' = [arr EXCEPT ![left] = arg]
     \/ /\ op = "remove" /\ pc' = "close" /\ gap' = Mid
        /\ UNCHANGED <<arr, op, arg, left, right>>
  /\ UNCHANGED <<kind, again, capacity, length>>

Found ==
  /\ pc = "find" /\ left < right /\ arr[Mid].key = arg.key
  /\ \/ op = "get" /\ Return /\ UNCHANGED arr
     \/ op = "put" /\ Return /\ arr' = [arr EXCEPT ![Mid] = arg]
     \/ /\ op = "remove" /\ pc' = "close" /\ gap' = Mid
        /\ UNCHANGED <<arr, op, arg, left, right>>
  /\ UNCHANGED <<kind, again, capacity, length>>

-----------------------------------------------------------------------------
(* The insertion of put and insert: grow, find the place, open a gap there. *)

(* Variant: the array grows when it is overfull.                            *)
Grow_OneLate ==
  \/ length <= capacity /\ UNCHANGED <<arr, capacity>>
  \/ /\ length > capacity
     /\ capacity' = 2 * capacity
     /\ arr' = [s \in 0 .. capacity' - 1 |-> IF s < capacity THEN arr[s] ELSE Unset]

Grow ==
  \/ length < capacity /\ UNCHANGED <<arr, capacity>>
  \/ /\ length >= capacity
     /\ capacity' = 2 * capacity
     /\ arr' = [s \in 0 .. capacity' - 1 |-> IF s < capacity THEN arr[s] ELSE Unset]

BeginInsert ==
  /\ pc' = "pos"
  /\ Grow
  /\ Search

Missing ==
  /\ pc = "find" /\ left >= right
  /\ \/ op = "put" /\ BeginInsert /\ UNCHANGED <<op, arg, gap>>
     \/ op # "put" /\ Return /\ UNCHANGED <<arr, capacity>>
  /\ UNCHANGED <<kind, again, length>>

(* The elements are sought in the live slots, wherever a gap may be.        *)
Live ==
  CASE pc = "open"  -> (0 .. length) \ {gap}
    [] pc = "close" -> (0 .. length - 1) \ {gap}
    [] OTHER        -> 0 .. length - 1

Stored == {arr[s].key : s \in Live}

(* insert does not call bs_find. *)
Insert(k) ==
  /\ kind = "set" /\ pc = "idle"
  /\ length < MaxLength
  /\ again' = (again \/ k \in Stored)
  /\ op' = "insert"
  /\ arg' = [key |-> k, val |-> None]
  /\ BeginInsert
  /\ UNCHANGED <<kind, length, gap>>

(* Variant: the second search goes the wrong way.                           *)
NarrowPos_Swapped ==
  /\ pc = "pos" /\ left < right
  /\ \/ arr[Mid].key > arg.key /\ left' = Mid + 1 /\ UNCHANGED right
     \/ arr[Mid].key <= arg.key /\ right' = Mid /\ UNCHANGED left
  /\ UNCHANGED <<kind, again, arr, capacity, length, pc, op, arg, gap>>

(* bs_find_insert_pos *)
NarrowPos ==
  /\ pc = "pos" /\ left < right
  /\ \/ arr[Mid].key < arg.key /\ left' = Mid + 1 /\ UNCHANGED right
     \/ arr[Mid].key >= arg.key /\ right' = Mid /\ UNCHANGED left
  /\ UNCHANGED <<kind, again, arr, capacity, length, pc, op, arg, gap>>

OpenGap ==
  /\ pc = "pos" /\ left >= right
  /\ pc' = "open"
  /\ gap' = length
  /\ UNCHANGED <<kind, again, arr, capacity, length, op, arg, left, right>>

ShiftUp ==
  /\ pc = "open" /\ gap > left
  /\ arr' = [arr EXCEPT ![gap] = arr[gap - 1]]
  /\ gap' = gap - 1
  /\ UNCHANGED <<kind, again, capacity, length, pc, op, arg, left, right>>

FillGap ==
  /\ pc = "open" /\ gap <= left
  /\ arr' = [arr EXCEPT ![left] = arg]
  /\ length' = length + 1
  /\ Return
  /\ UNCHANGED <<kind, again, capacity>>

-----------------------------------------------------------------------------
(* The end of remove *)

ShiftDown ==
  /\ pc = "close" /\ gap < length - 1
  /\ arr' = [arr EXCEPT ![gap] = arr[gap + 1]]
  /\ gap' = gap + 1
  /\ UNCHANGED <<kind, again, capacity, length, pc, op, arg, left, right>>

(* Variant: the last entry is not shifted.                                  *)
CloseGap_Early ==
  /\ pc = "close" /\ gap >= length - 2
  /\ length' = length - 1
  /\ Return
  /\ UNCHANGED <<kind, again, arr, capacity>>

CloseGap ==
  /\ pc = "close" /\ gap >= length - 1
  /\ length' = length - 1
  /\ Return
  /\ UNCHANGED <<kind, again, arr, capacity>>

-----------------------------------------------------------------------------
Init ==
  /\ kind \in {"map", "set"}
  /\ again = FALSE
  /\ arr = Blank(0)
  /\ capacity = 0
  /\ length = 0
  /\ pc = "null"
  /\ op = "none" /\ arg = Unset
  /\ left = 0 /\ right = 0 /\ gap = 0

Loops ==
  \/ NarrowFind \/ Found \/ Missing \/ NarrowPos \/ OpenGap
  \/ ShiftUp \/ FillGap \/ ShiftDown \/ CloseGap

Next ==
  \/ New \/ Delete \/ Loops
  \/ \E k \in Keys :
       Get(k) \/ Remove(k) \/ Insert(k) \/ \E v \in Values : Put(k, v)

Spec     == Init /\ [][Next]_vars
FairSpec == Spec /\ WF_vars(Loops)

-----------------------------------------------------------------------------
(* Properties *)

TypeOK ==
  /\ kind \in {"map", "set"} /\ again \in BOOLEAN
  /\ capacity \in Nat
  /\ arr \in [0 .. capacity - 1 -> Entry \cup {Unset}]
  /\ length \in 0 .. capacity
  /\ pc \in {"null", "idle", "find", "pos", "open", "close"}
  /\ op \in {"none", "get", "put", "remove", "insert"}
  /\ arg \in Entry \cup {Unset}
  /\ left \in Nat /\ right \in Nat /\ gap \in Nat

(* The types, with a length that never exceeds the capacity; no search or   *)
(* shift reads a slot outside the array or one that nothing was written to, *)
(* and an insertion never writes past the capacity.                         *)
ReadsWritten ==
  /\ TypeOK
  /\ Live \cup (IF pc \in {"open", "close"} THEN {gap} ELSE {}) \subseteq DOMAIN arr
  /\ \A s \in Live : arr[s] # Unset
  /\ pc \in {"find", "pos"} /\ left < right => Mid \in Live

(* The array stays sorted, around the gap while one moves through it: the   *)
(* position the second search returns is the right one whatever the keys,   *)
(* in a set that is given the same element again too.                       *)
Sorted == \A s, t \in Live : s < t => arr[s].key <= arr[t].key

(* "duplicate keys are forbidden" (report/bsearch.tex): no entry is stored  *)
(* twice, unless an element was inserted a second time, which insert, that  *)
(* never calls bs_find, does not notice.                                    *)
KeysUnique == ~again => \A s, t \in Live : s # t => arr[s].key # arr[t].key

(* A search never leaves the key it looks for outside its bounds: it is     *)
(* found if and only if it is in the array.                                 *)
WindowHoldsKey ==
  pc = "find" => \A s \in Live : arr[s].key = arg.key => s \in left .. right - 1

Content == [k \in Stored |-> arr[CHOOSE s \in Live : arr[s].key = k].val]

(* The array is a map, changed by the store that fills the gap, by the one  *)
(* that overwrites and when a removal starts to close the gap.              *)
Map == INSTANCE AbstractMap WITH content <- Content, Values <- Values \cup {None}
ImplementsMap == Map!Init /\ [][again' \/ Map!Next]_Content

(* Every operation returns. *)
Returns == pc \notin {"null", "idle"} ~> pc = "idle"
=============================================================================

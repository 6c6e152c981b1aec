----------------------- MODULE BinarySearchMapProofs -----------------------
(***************************************************************************)
(* What holds of the binary search map for every set of integer keys, any  *)
(* initial capacity and any number of operations: its types, that it reads *)
(* and writes inside what it has allocated and filled, that it stays       *)
(* sorted, that keys are unique and that a search misses none.             *)
(*                                                                         *)
(* None of the five is inductive.  That the array stays sorted follows     *)
(* from what the second search has established about the slots on either   *)
(* side of its bounds (Split); that the searches can rely on reading       *)
(* entries, from the bounds on the loop variables of each loop (Bounds);   *)
(* that an insertion makes no duplicate, from the absence of the key after *)
(* the first search has failed, until the gap is filled (Absent).          *)
(* The refinement follows: the shifts move entries, but the set of those   *)
(* that are held stays the same until the store that ends the call.        *)
(***************************************************************************)
EXTENDS BinarySearchMap, TLAPS

Bounds ==
  /\ pc # "null" => capacity > 0
  /\ pc \notin {"null", "idle"} => arg \in Entry
  /\ pc \in {"find", "pos"} => left <= right /\ right <= length
  /\ pc \in {"pos", "open"} => length < capacity
  /\ pc = "open" => left <= gap /\ gap <= length
  /\ pc = "close" => gap < length

Written == \A s \in Live : arr[s] \in Entry

Split ==
  /\ pc \in {"find", "pos", "open"} => \A s \in Live : s < left => arr[s].key < arg.key
  /\ pc = "find" => \A s \in Live : s >= right => arr[s].key > arg.key
  /\ pc = "pos"  => \A s \in Live : s >= right => arr[s].key >= arg.key
  /\ pc = "open" => \A s \in Live : s >= left => arr[s].key >= arg.key

Absent ==
  pc \in {"pos", "open"} /\ ~again => \A s \in Live : arr[s].key # arg.key

IInv ==
  TypeOK /\ Bounds /\ Written /\ Sorted /\ Split /\ KeysUnique /\ Absent

-----------------------------------------------------------------------------
(* The middle of two bounds is inside them (mid, as bs_find computes it).   *)
LEMMA MidInside ==
  ASSUME left \in Nat, right \in Nat, left < right
  PROVE  Mid \in left .. right - 1
  BY DEF Mid

(* The keys of live slots are integers that can be compared.                *)
LEMMA Comparable ==
  ASSUME IInv
  PROVE  /\ \A s \in Live : arr[s] \in Entry /\ arr[s].key \in Int
         /\ pc \notin {"null", "idle"} => arg.key \in Int
  BY BinarySearchMapAssumption DEF IInv, Written, Bounds, Entry

(* A freshly allocated array has the type of arr.                           *)
LEMMA BlankType == ASSUME NEW c PROVE Blank(c) \in [0 .. c - 1 -> Entry \cup {Unset}]
  BY DEF Blank

(* Before new, there is nothing to go wrong.                                *)
LEMMA InitInv == Init => IInv
<1> SUFFICES ASSUME Init PROVE IInv
  OBVIOUS
<1> USE DEF Init
<1>1. TypeOK
  <2>1. arr \in [0 .. capacity - 1 -> Entry \cup {Unset}]
    BY BlankType
  <2>2. length \in 0 .. capacity
    OBVIOUS
  <2> QED
    BY <2>1, <2>2 DEF TypeOK
<1>2. Live = {}
  BY DEF Live
<1> QED
  BY <1>1, <1>2 DEF IInv, Bounds, Written, Sorted, Split, KeysUnique, Absent

(* new allocates InitialCapacity slots and uses none of them.               *)
LEMMA NewInv ==
  ASSUME IInv, New
  PROVE  IInv'
<1> USE BinarySearchMapAssumption DEF New, locals
<1>1. TypeOK'
  <2>1. arr' \in [0 .. capacity' - 1 -> Entry \cup {Unset}]
    BY BlankType
  <2>2. capacity' \in Nat /\ length' \in 0 .. capacity'
    OBVIOUS
  <2> QED
    BY <2>1, <2>2 DEF IInv, TypeOK
<1>2. Live' = {}
  BY DEF Live
<1> QED
  BY <1>1, <1>2 DEF IInv, Bounds, Written, Sorted, Split, KeysUnique, Absent

(* delete frees them all.                                                   *)
LEMMA DeleteInv ==
  ASSUME IInv, Delete
  PROVE  IInv'
<1> USE DEF Delete, locals
<1>1. TypeOK'
  <2>1. arr' \in [0 .. capacity' - 1 -> Entry \cup {Unset}]
    BY BlankType
  <2>2. capacity' \in Nat /\ length' \in 0 .. capacity'
    OBVIOUS
  <2> QED
    BY <2>1, <2>2 DEF IInv, TypeOK
<1>2. Live' = {}
  BY DEF Live
<1> QED
  BY <1>1, <1>2 DEF IInv, Bounds, Written, Sorted, Split, KeysUnique, Absent

(* get, put and remove start bs_find with bounds that exclude nothing.      *)
LEMMA CallInv ==
  ASSUME IInv, NEW o \in {"get", "put", "remove"}, NEW e \in Entry, Call(o, e)
  PROVE  IInv'
<1> USE DEF Call, Search
<1>1. TypeOK'
  BY DEF IInv, TypeOK
<1>2. Live = 0 .. length - 1 /\ Live' = Live
  BY DEF Live, IInv, TypeOK
<1>3. Bounds'
  BY DEF IInv, TypeOK, Bounds
<1>4. Split'
  BY <1>2 DEF Split, IInv, TypeOK
<1>5. Written' /\ Sorted' /\ KeysUnique' /\ Absent'
  BY <1>2 DEF IInv, Written, Sorted, KeysUnique, Absent
<1> QED
  BY <1>1, <1>3, <1>4, <1>5 DEF IInv

(* An iteration of bs_find excludes slots on one side of the middle only.   *)
LEMMA NarrowFindInv ==
  ASSUME IInv, NarrowFind
  PROVE  IInv'
<1> USE DEF NarrowFind
<1>1. Mid \in left .. right - 1 /\ right <= length /\ length \in Nat
  BY MidInside DEF IInv, TypeOK, Bounds
<1>2. TypeOK'
  BY <1>1 DEF IInv, TypeOK
<1>3. Bounds'
  BY <1>1 DEF IInv, TypeOK, Bounds
<1>4. Live = 0 .. length - 1 /\ Live' = Live /\ Mid \in Live
  BY <1>1 DEF Live, IInv, TypeOK
<1>5. Written' /\ Sorted' /\ KeysUnique' /\ Absent'
  BY <1>4 DEF IInv, Written, Sorted, KeysUnique, Absent
<1>6. ASSUME NEW s \in Live
      PROVE  /\ s < left' => arr[s].key < arg.key
             /\ s >= right' => arr[s].key > arg.key
  <2>1. /\ s < Mid => arr[s].key <= arr[Mid].key
        /\ Mid < s => arr[Mid].key <= arr[s].key
    BY <1>4 DEF IInv, Sorted
  <2>2. /\ s < left => arr[s].key < arg.key
        /\ s >= right => arr[s].key > arg.key
    BY DEF IInv, Split
  <2> QED
    BY <1>1, <1>4, <2>1, <2>2, Comparable DEF IInv, TypeOK
<1>7. Split'
  BY <1>4, <1>6 DEF Split
<1> QED
  BY <1>2, <1>3, <1>5, <1>7 DEF IInv

(* A hit: get returns, put overwrites an entry of the same key and remove   *)
(* makes its slot the gap.                                                  *)
LEMMA FoundInv ==
  ASSUME IInv, Found
  PROVE  IInv'
<1> USE DEF Found
<1>1. Mid \in left .. right - 1 /\ right <= length /\ length \in Nat /\ capacity \in Nat
  BY MidInside DEF IInv, TypeOK, Bounds
<1>2. Live = 0 .. length - 1 /\ Mid \in Live
  BY <1>1 DEF Live, IInv, TypeOK
<1>3. CASE op = "get" /\ Return /\ UNCHANGED arr
  <2>1. Live' = Live
    BY <1>2, <1>3 DEF Live, Return
  <2> QED
    BY <1>3, <2>1 DEF Return, IInv, TypeOK, Bounds, Written, Sorted, Split, KeysUnique, Absent
<1>4. CASE op = "put" /\ Return /\ arr' = [arr EXCEPT ![Mid] = arg]
  <2>1. Live' = Live
    BY <1>2, <1>4 DEF Live, Return
  <2>2. arg \in Entry /\ Mid \in 0 .. capacity - 1
    BY <1>1 DEF IInv, Bounds, TypeOK
  <2>3. TypeOK'
    BY <1>4, <2>2 DEF Return, IInv, TypeOK
  <2>4. \A s \in Live : arr'[s] \in Entry /\ arr'[s].key = arr[s].key
    BY <1>2, <1>4, <2>2 DEF IInv, TypeOK, Written
  <2>5. Written' /\ Sorted' /\ KeysUnique'
    BY <2>1, <2>4 DEF IInv, Written, Sorted, KeysUnique
  <2> QED
    BY <1>4, <2>3, <2>5 DEF Return, IInv, Bounds, Split, Absent
<1>5. CASE op = "remove" /\ pc' = "close" /\ gap' = Mid /\ UNCHANGED <<arr, op, arg, left, right>>
  <2>1. Live' = Live \ {Mid}
    BY <1>2, <1>5 DEF Live
  <2>2. TypeOK' /\ Bounds'
    BY <1>1, <1>5 DEF IInv, TypeOK, Bounds
  <2>3. Written' /\ Sorted' /\ KeysUnique' /\ Split' /\ Absent'
    BY <1>5, <2>1 DEF IInv, Written, Sorted, KeysUnique, Split, Absent
  <2> QED
    BY <2>2, <2>3 DEF IInv
<1> QED
  BY <1>3, <1>4, <1>5

(* The array has room for one more entry afterwards, and what was in it.    *)
LEMMA GrowRoom ==
  ASSUME IInv, pc # "null", Grow
  PROVE  /\ capacity' \in Nat /\ capacity <= capacity' /\ length < capacity'
         /\ arr' \in [0 .. capacity' - 1 -> Entry \cup {Unset}]
         /\ \A s \in 0 .. length - 1 : arr'[s] = arr[s]
  BY DEF Grow, IInv, TypeOK, Bounds

(* The key is not there: get and remove return, and put starts to insert.   *)
LEMMA MissingInv ==
  ASSUME IInv, Missing
  PROVE  IInv'
<1> USE DEF Missing
<1>1. Live = 0 .. length - 1 /\ length \in Nat /\ left = right /\ right \in Nat
  BY DEF Live, IInv, TypeOK, Bounds
<1>2. CASE op # "put" /\ Return /\ UNCHANGED <<arr, capacity>>
  <2>1. Live' = Live
    BY <1>1, <1>2 DEF Live, Return
  <2> QED
    BY <1>2, <2>1 DEF Return, IInv, TypeOK, Bounds, Written, Sorted, Split, KeysUnique, Absent
<1>3. CASE op = "put" /\ BeginInsert /\ UNCHANGED <<op, arg, gap>>
  <2> USE DEF BeginInsert, Search
  <2>1. Live' = Live
    BY <1>1, <1>3 DEF Live
  <2>2. /\ capacity' \in Nat /\ capacity <= capacity' /\ length < capacity'
        /\ arr' \in [0 .. capacity' - 1 -> Entry \cup {Unset}]
        /\ \A s \in Live : arr'[s] = arr[s]
    BY <1>1, <1>3, GrowRoom
  <2>3. TypeOK'
    <3>1. length' \in 0 .. capacity'
      BY <1>1, <2>2
    <3>2. left' \in Nat /\ right' \in Nat
      BY <1>1, <1>3
    <3> QED
      BY <1>3, <2>2, <3>1, <3>2 DEF IInv, TypeOK
  <2>7. Bounds'
    BY <1>1, <1>3, <2>2 DEF IInv, Bounds
  <2>4. Written' /\ Sorted' /\ KeysUnique'
    BY <1>3, <2>1, <2>2 DEF IInv, Written, Sorted, KeysUnique
  <2>5. Split'
    BY <1>1, <1>3, <2>1 DEF Split
  <2>6. Absent'
    <3>1. \A s \in Live : arr[s].key # arg.key
      BY <1>1, Comparable DEF IInv, Split
    <3> QED
      BY <1>3, <2>1, <2>2, <3>1 DEF Absent
  <2> QED
    BY <2>3, <2>4, <2>5, <2>6, <2>7 DEF IInv
<1> QED
  BY <1>2, <1>3

(* insert starts the same way without a search for the element: if it is    *)
(* there, the client has inserted it again.                                 *)
LEMMA InsertInv ==
  ASSUME IInv, NEW k \in Keys, Insert(k)
  PROVE  IInv'
<1> USE DEF Insert, BeginInsert, Search
<1>1. Live = 0 .. length - 1 /\ length \in Nat /\ Live' = Live
  BY DEF Live, IInv, TypeOK
<1>2. /\ capacity' \in Nat /\ capacity <= capacity' /\ length < capacity'
      /\ arr' \in [0 .. capacity' - 1 -> Entry \cup {Unset}]
      /\ \A s \in Live : arr'[s] = arr[s]
  BY <1>1, GrowRoom
<1>3. TypeOK'
  <2>1. arg' \in Entry /\ again' \in BOOLEAN
    BY DEF Entry
  <2>2. length' \in 0 .. capacity' /\ left' \in Nat /\ right' \in Nat
    BY <1>1, <1>2
  <2>3. pc' = "pos" /\ op' = "insert" /\ UNCHANGED <<kind, gap>>
    OBVIOUS
  <2> QED
    BY <1>2, <2>1, <2>2, <2>3 DEF IInv, TypeOK
<1>4. Bounds'
  BY <1>1, <1>2 DEF IInv, TypeOK, Bounds, Entry
<1>5. Written' /\ Sorted' /\ KeysUnique'
  <2>1. ~again' => ~again
    BY DEF IInv, TypeOK
  <2>2. Written' /\ Sorted'
    BY <1>1, <1>2 DEF IInv, Written, Sorted
  <2>3. KeysUnique'
    <3>1. ~again => \A s, t \in Live : s # t => arr'[s].key # arr'[t].key
      BY <1>2 DEF IInv, KeysUnique
    <3> QED
      BY <1>1, <2>1, <3>1 DEF KeysUnique
  <2> QED
    BY <2>2, <2>3
<1>6. Split'
  BY <1>1 DEF Split
<1>7. Absent'
  BY <1>1, <1>2 DEF Absent, Stored
<1> QED
  BY <1>3, <1>4, <1>5, <1>6, <1>7 DEF IInv

(* An iteration of bs_find_insert_pos.                                      *)
LEMMA NarrowPosInv ==
  ASSUME IInv, NarrowPos
  PROVE  IInv'
<1> USE DEF NarrowPos
<1>1. Mid \in left .. right - 1 /\ right <= length /\ length \in Nat
  BY MidInside DEF IInv, TypeOK, Bounds
<1>2. TypeOK'
  BY <1>1 DEF IInv, TypeOK
<1>3. Bounds'
  BY <1>1 DEF IInv, TypeOK, Bounds
<1>4. Live = 0 .. length - 1 /\ Live' = Live /\ Mid \in Live
  BY <1>1 DEF Live, IInv, TypeOK
<1>5. Written' /\ Sorted' /\ KeysUnique' /\ Absent'
  BY <1>4 DEF IInv, Written, Sorted, KeysUnique, Absent
<1>6. ASSUME NEW s \in Live
      PROVE  /\ s < left' => arr[s].key < arg.key
             /\ s >= right' => arr[s].key >= arg.key
  <2>1. /\ s < Mid => arr[s].key <= arr[Mid].key
        /\ Mid < s => arr[Mid].key <= arr[s].key
    BY <1>4 DEF IInv, Sorted
  <2>2. /\ s < left => arr[s].key < arg.key
        /\ s >= right => arr[s].key >= arg.key
    BY DEF IInv, Split
  <2> QED
    BY <1>1, <1>4, <2>1, <2>2, Comparable DEF IInv, TypeOK
<1>7. Split'
  BY <1>4, <1>6 DEF Split
<1> QED
  BY <1>2, <1>3, <1>5, <1>7 DEF IInv

(* The slot after the last entry becomes the gap.                           *)
LEMMA OpenGapInv ==
  ASSUME IInv, OpenGap
  PROVE  IInv'
<1> USE DEF OpenGap
<1>1. left = right /\ right <= length /\ length \in Nat /\ left \in Nat
  BY DEF IInv, TypeOK, Bounds
<1>2. Live' = Live
  BY <1>1 DEF Live
<1>3. TypeOK' /\ Bounds'
  BY <1>1 DEF IInv, TypeOK, Bounds
<1>4. Written' /\ Sorted' /\ KeysUnique' /\ Absent' /\ Split'
  BY <1>1, <1>2 DEF IInv, Written, Sorted, KeysUnique, Absent, Split
<1> QED
  BY <1>3, <1>4 DEF IInv

(* The gap moves down past an entry, which keeps its place in the order.    *)
LEMMA ShiftUpInv ==
  ASSUME IInv, ShiftUp
  PROVE  IInv'
<1> USE DEF ShiftUp
<1>1. /\ gap \in Nat /\ left \in Nat /\ length \in Nat /\ capacity \in Nat
      /\ left < gap /\ gap <= length /\ length < capacity
  BY DEF IInv, TypeOK, Bounds
<1>2. Live = (0 .. length) \ {gap} /\ Live' = (0 .. length) \ {gap - 1}
  BY DEF Live
<1>3. gap - 1 \in Live
  BY <1>1, <1>2
<1>4. \A s \in Live' : arr'[s] = IF s = gap THEN arr[gap - 1] ELSE arr[s]
  BY <1>1, <1>2 DEF IInv, TypeOK
<1>5. TypeOK'
  BY <1>1, <1>3 DEF IInv, TypeOK, Written
<1>6. Bounds'
  BY <1>1 DEF IInv, Bounds
<1>7. Written'
  BY <1>2, <1>3, <1>4 DEF IInv, Written
<1>8. Sorted'
  BY <1>1, <1>2, <1>3, <1>4 DEF IInv, Sorted
<1>9. Split'
  BY <1>1, <1>2, <1>3, <1>4 DEF IInv, Split
<1>10. KeysUnique' /\ Absent'
  BY <1>1, <1>2, <1>3, <1>4 DEF IInv, KeysUnique, Absent
<1> QED
  BY <1>5, <1>6, <1>7, <1>8, <1>9, <1>10 DEF IInv

(* The entry is stored where the order wants it.                            *)
LEMMA FillGapInv ==
  ASSUME IInv, FillGap
  PROVE  IInv'
<1> USE DEF FillGap, Return
<1>1. /\ gap = left /\ left \in Nat /\ length \in Nat /\ capacity \in Nat
      /\ left <= length /\ length < capacity /\ arg \in Entry
  BY DEF IInv, TypeOK, Bounds
<1>2. Live = (0 .. length) \ {left} /\ Live' = Live \cup {left}
  BY <1>1 DEF Live
<1>3. \A s \in Live' : arr'[s] = IF s = left THEN arg ELSE arr[s]
  BY <1>1, <1>2 DEF IInv, TypeOK
<1>4. TypeOK'
  BY <1>1 DEF IInv, TypeOK
<1>5. Written'
  BY <1>1, <1>2, <1>3 DEF IInv, Written
<1>6. Sorted'
  <2>1. \A s \in Live : /\ s < left => arr[s].key < arg.key
                        /\ left < s => arg.key <= arr[s].key
    BY <1>1, <1>2, Comparable DEF IInv, Split
  <2> QED
    BY <1>1, <1>2, <1>3, <2>1, Comparable DEF IInv, Sorted
<1>7. KeysUnique'
  BY <1>1, <1>2, <1>3 DEF IInv, KeysUnique, Absent
<1> QED
  BY <1>1, <1>4, <1>5, <1>6, <1>7 DEF IInv, Bounds, Split, Absent

(* The gap of a removal moves up past an entry.                             *)
LEMMA ShiftDownInv ==
  ASSUME IInv, ShiftDown
  PROVE  IInv'
<1> USE DEF ShiftDown
<1>1. /\ gap \in Nat /\ length \in Nat /\ capacity \in Nat
      /\ gap + 1 < length /\ length <= capacity
  BY DEF IInv, TypeOK, Bounds
<1>2. Live = (0 .. length - 1) \ {gap} /\ Live' = (0 .. length - 1) \ {gap + 1}
  BY DEF Live
<1>3. gap + 1 \in Live
  BY <1>1, <1>2
<1>4. \A s \in Live' : arr'[s] = IF s = gap THEN arr[gap + 1] ELSE arr[s]
  BY <1>1, <1>2 DEF IInv, TypeOK
<1>5. TypeOK'
  BY <1>1, <1>3 DEF IInv, TypeOK, Written
<1>6. Bounds'
  BY <1>1 DEF IInv, Bounds
<1>7. Written'
  BY <1>2, <1>3, <1>4 DEF IInv, Written
<1>8. Sorted' /\ KeysUnique'
  BY <1>1, <1>2, <1>3, <1>4 DEF IInv, Sorted, KeysUnique
<1> QED
  BY <1>5, <1>6, <1>7, <1>8 DEF IInv, Split, Absent

(* The gap is the last slot, which is no longer used.                       *)
LEMMA CloseGapInv ==
  ASSUME IInv, CloseGap
  PROVE  IInv'
<1> USE DEF CloseGap, Return
<1>1. gap \in Nat /\ length \in Nat /\ gap = length - 1 /\ capacity \in Nat /\ length <= capacity
  BY DEF IInv, TypeOK, Bounds
<1>2. Live = 0 .. length - 2 /\ Live' = Live
  BY <1>1 DEF Live
<1>3. TypeOK'
  BY <1>1 DEF IInv, TypeOK
<1> QED
  BY <1>2, <1>3 DEF IInv, Bounds, Written, Sorted, Split, KeysUnique, Absent

(* No step of any client leaves the invariant.                              *)
LEMMA NextInv == IInv /\ [Next]_vars => IInv'
<1> SUFFICES ASSUME IInv, [Next]_vars PROVE IInv'
  OBVIOUS
<1>1. CASE \E k \in Keys : Get(k) \/ Remove(k) \/ \E v \in Values : Put(k, v)
  <2>1. PICK k \in Keys : Get(k) \/ Remove(k) \/ \E v \in Values : Put(k, v)
    BY <1>1
  <2>2. \A v \in Values \cup {None} : [key |-> k, val |-> v] \in Entry
    BY DEF Entry
  <2>3. CASE Get(k) \/ Remove(k)
    BY <2>2, <2>3, CallInv DEF Get, Remove
  <2>4. CASE \E v \in Values : Put(k, v)
    BY <2>2, <2>4, CallInv DEF Put
  <2> QED
    BY <2>1, <2>3, <2>4
<1>2. CASE \E k \in Keys : Insert(k)
  BY <1>2, InsertInv
<1>3. CASE Loops
  BY <1>3, NarrowFindInv, FoundInv, MissingInv, NarrowPosInv, OpenGapInv, ShiftUpInv,
     FillGapInv, ShiftDownInv, CloseGapInv DEF Loops
<1>4. CASE UNCHANGED vars
  BY <1>4 DEF vars, IInv, TypeOK, Bounds, Written, Sorted, Split, KeysUnique, Absent, Live
<1> QED
  BY <1>1, <1>2, <1>3, <1>4, NewInv, DeleteInv DEF Next

(* The inductive invariant.                                                 *)
LEMMA Invariant == Spec => []IInv
  BY InitInv, NextInv, PTL DEF Spec

-----------------------------------------------------------------------------
(* The variables have their types: the length never exceeds the capacity.   *)
THEOREM TypeCorrect == Spec => []TypeOK
<1>1. IInv => TypeOK
  BY DEF IInv
<1> QED
  BY <1>1, Invariant, PTL

(* No search or shift of put, insert, get or remove reads a slot outside    *)
(* the array or one that holds nothing.                                     *)
THEOREM ReadsAreWritten == Spec => []ReadsWritten
<1>1. IInv => ReadsWritten
  <2> SUFFICES ASSUME IInv PROVE ReadsWritten
    OBVIOUS
  <2>1. Live \cup (IF pc \in {"open", "close"} THEN {gap} ELSE {}) \subseteq DOMAIN arr
    BY DEF IInv, TypeOK, Bounds, Live
  <2>2. \A s \in Live : arr[s] # Unset
    BY BinarySearchMapAssumption DEF IInv, Written, Entry
  <2>3. pc \in {"find", "pos"} /\ left < right => Mid \in Live
    BY MidInside DEF IInv, TypeOK, Bounds, Live
  <2> QED
    BY <2>1, <2>2, <2>3 DEF ReadsWritten, IInv
<1> QED
  BY <1>1, Invariant, PTL

(* The array is sorted at every step of an insertion or a removal, a set    *)
(* that is given the same element again included.                           *)
THEOREM StaysSorted == Spec => []Sorted
<1>1. IInv => Sorted
  BY DEF IInv
<1> QED
  BY <1>1, Invariant, PTL

(* put never stores a key twice, and insert only if its client asks for it. *)
THEOREM NoDuplicates == Spec => []KeysUnique
<1>1. IInv => KeysUnique
  BY DEF IInv
<1> QED
  BY <1>1, Invariant, PTL

(* bs_find returns -1 only if the key is not in the array.                  *)
THEOREM SearchMissesNone == Spec => []WindowHoldsKey
<1>1. IInv => WindowHoldsKey
  <2> SUFFICES ASSUME IInv, pc = "find", NEW s \in Live, arr[s].key = arg.key
               PROVE  s \in left .. right - 1
    BY DEF WindowHoldsKey
  <2>1. s \in Nat
    BY DEF Live, IInv, TypeOK
  <2>2. ~(s < left) /\ ~(s >= right)
    BY Comparable DEF IInv, Split
  <2> QED
    BY <2>1, <2>2 DEF IInv, TypeOK
<1> QED
  BY <1>1, Invariant, PTL

-----------------------------------------------------------------------------
(* The refinement.  Of the array only the set of its live entries matters:  *)
(* a shift moves an entry and leaves the set as it is.                      *)

Held == {arr[s] : s \in Live}

Apart(E) ==
  /\ E \subseteq Entry
  /\ \A d, e \in E : d.key = e.key => d = e

MapOf(E) == [k \in {e.key : e \in E} |-> (CHOOSE e \in E : e.key = k).val]

Nothing         == [x \in {} |-> x]
PutIn(m, k, v)  == [x \in DOMAIN m \cup {k} |-> IF x = k THEN v ELSE m[x]]
WithoutIn(m, k) == [x \in DOMAIN m \ {k} |-> m[x]]

LEMMA HeldApart == ASSUME IInv, ~again PROVE Apart(Held)
BY DEF IInv, Written, KeysUnique, Apart, Held

LEMMA MapOfAt ==
  ASSUME NEW E, Apart(E), NEW e \in E
  PROVE  e.key \in DOMAIN MapOf(E) /\ MapOf(E)[e.key] = e.val
<1>1. (CHOOSE d \in E : d.key = e.key) = e
  BY DEF Apart
<1>2. e.key \in {d.key : d \in E}
  OBVIOUS
<1> QED
  BY <1>1, <1>2 DEF MapOf

(* f gives the keys of the entries in E, and no others, their values.       *)
Holds(E, D, f) ==
  /\ Apart(E)
  /\ f = [k \in D |-> f[k]]
  /\ \A k \in D : \E e \in E : e.key = k
  /\ \A e \in E : e.key \in D /\ f[e.key] = e.val

LEMMA MapOfIs ==
  ASSUME NEW E, NEW D, NEW f, Holds(E, D, f)
  PROVE  MapOf(E) = f
<1> USE DEF Holds
<1>1. DOMAIN MapOf(E) = D
  BY DEF MapOf
<1>2. ASSUME NEW k \in D PROVE MapOf(E)[k] = f[k]
  <2>1. PICK e \in E : e.key = k
    OBVIOUS
  <2> QED
    BY <2>1, MapOfAt
<1>3. MapOf(E) = [k \in D |-> MapOf(E)[k]]
  <2> DEFINE S == {e.key : e \in E}
             g(k) == (CHOOSE e \in E : e.key = k).val
  <2>1. MapOf(E) = [k \in S |-> g(k)]
    BY DEF MapOf
  <2> HIDE DEF S, g
  <2> QED
    BY <1>1, <2>1
<1> QED
  BY <1>2, <1>3

(* While keys are unique, the content is the map that the live entries are. *)
LEMMA ContentIs ==
  ASSUME IInv, ~again
  PROVE  Content = MapOf(Held)
<1> DEFINE f == Content
<1>1. Apart(Held)
  BY HeldApart
<1>2. Content = [k \in Stored |-> Content[k]]
  <2> DEFINE g(k) == arr[CHOOSE s \in Live : arr[s].key = k].val
  <2>1. Content = [k \in Stored |-> g(k)]
    BY DEF Content
  <2> HIDE DEF g
  <2> QED
    BY <2>1
<1>3. \A k \in Stored : \E e \in Held : e.key = k
  BY DEF Stored, Held
<1>4. ASSUME NEW e \in Held PROVE e.key \in Stored /\ Content[e.key] = e.val
  <2>1. PICK s \in Live : e = arr[s]
    BY DEF Held
  <2>2. (CHOOSE t \in Live : arr[t].key = e.key) = s
    BY <2>1 DEF IInv, KeysUnique
  <2>3. e.key \in Stored
    BY <2>1 DEF Stored
  <2> QED
    BY <2>1, <2>2, <2>3 DEF Content
<1>5. Holds(Held, Stored, Content)
  BY <1>1, <1>2, <1>3, <1>4 DEF Holds
<1> QED
  BY <1>5, MapOfIs

(* The content of an array without live entries.                            *)
LEMMA NothingStored == Live = {} => Content = Nothing
BY DEF Content, Stored, Nothing

(* Among entries with different keys, storing one in the place of the one   *)
(* with its key, if there is any, is put.                                   *)
LEMMA MapOfPut ==
  ASSUME NEW E, NEW F, NEW d \in Entry, Apart(E), F = {e \in E : e.key # d.key} \cup {d}
  PROVE  MapOf(F) = PutIn(MapOf(E), d.key, d.val)
<1> DEFINE D == DOMAIN MapOf(E) \cup {d.key}
           f == [x \in D |-> IF x = d.key THEN d.val ELSE MapOf(E)[x]]
<1>1. Apart(F)
  BY DEF Apart
<1>2. ASSUME NEW x \in D PROVE \E e \in F : e.key = x
  BY DEF MapOf
<1>3. ASSUME NEW e \in F PROVE e.key \in D /\ f[e.key] = e.val
  BY MapOfAt
<1>4. f = [x \in D |-> f[x]]
  OBVIOUS
<1> HIDE DEF f, D
<1>5. Holds(F, D, f)
  BY <1>1, <1>2, <1>3, <1>4 DEF Holds
<1>6. MapOf(F) = f
  BY <1>5, MapOfIs
<1> QED
  BY <1>6 DEF f, D, PutIn

(* Taking one away is remove.                                               *)
LEMMA MapOfWithout ==
  ASSUME NEW E, NEW F, NEW k, Apart(E), F = {e \in E : e.key # k}
  PROVE  MapOf(F) = WithoutIn(MapOf(E), k)
<1> DEFINE D == DOMAIN MapOf(E) \ {k}
           f == [x \in D |-> MapOf(E)[x]]
<1>1. Apart(F)
  BY DEF Apart
<1>2. ASSUME NEW x \in D PROVE \E e \in F : e.key = x
  BY DEF MapOf
<1>3. ASSUME NEW e \in F PROVE e.key \in D /\ f[e.key] = e.val
  BY MapOfAt
<1>4. f = [x \in D |-> f[x]]
  OBVIOUS
<1> HIDE DEF f, D
<1>5. Holds(F, D, f)
  BY <1>1, <1>2, <1>3, <1>4 DEF Holds
<1>6. MapOf(F) = f
  BY <1>5, MapOfIs
<1> QED
  BY <1>6 DEF f, D, WithoutIn

(* The next content, as ContentIs says of the present one.                  *)
ContentKnown == ~again => Content = MapOf(Held)

(* A step that keeps the live entries keeps the content.                    *)
LEMMA SameHeld ==
  ASSUME ContentKnown, ContentKnown', ~again, ~again', Held' = Held
  PROVE  UNCHANGED Content
BY DEF ContentKnown

(* A step that stores d.                                                    *)
LEMMA PutStep ==
  ASSUME IInv, ContentKnown, ContentKnown', ~again, ~again', NEW d \in Entry,
         Held' = {e \in Held : e.key # d.key} \cup {d}
  PROVE  Map!Next
<1>1. Content' = PutIn(Content, d.key, d.val)
  BY HeldApart, MapOfPut DEF ContentKnown
<1>2. Map!Put(d.key, d.val)
  BY <1>1 DEF Map!Put, PutIn
<1> QED
  BY <1>2 DEF Map!Next, Entry

(* A step that gives up the entry of a key.                                 *)
LEMMA RemoveStep ==
  ASSUME IInv, ContentKnown, ContentKnown', ~again, ~again', NEW d \in Held,
         Held' = {e \in Held : e.key # d.key}
  PROVE  Map!Next
<1>1. Apart(Held) /\ d.key \in Keys
  BY HeldApart DEF Apart, Entry
<1>2. Content' = WithoutIn(Content, d.key) /\ d.key \in DOMAIN Content
  BY <1>1, MapOfWithout, MapOfAt DEF ContentKnown
<1>3. Map!Remove(d.key)
  BY <1>2 DEF Map!Remove, Map!Without, WithoutIn
<1> QED
  BY <1>1, <1>3 DEF Map!Next

(* The loops whose stores only move entries, and what changes no array.     *)
LEMMA NarrowFindHeld == ASSUME IInv, NarrowFind PROVE Held' = Held
BY DEF NarrowFind, Held, Live

LEMMA NarrowPosHeld == ASSUME IInv, NarrowPos PROVE Held' = Held
BY DEF NarrowPos, Held, Live

LEMMA CallHeld == ASSUME IInv, NEW o, NEW e, Call(o, e) PROVE Held' = Held
<1>1. Live' = Live
  BY DEF Call, Live
<1> QED
  BY <1>1 DEF Call, Held

LEMMA OpenGapHeld == ASSUME IInv, OpenGap PROVE Held' = Held
<1>1. Live' = Live
  BY DEF OpenGap, Live, IInv, TypeOK
<1> QED
  BY <1>1 DEF OpenGap, Held

LEMMA MissingHeld == ASSUME IInv, Missing PROVE Held' = Held
<1>1. Live = 0 .. length - 1 /\ Live' = Live
  BY DEF Missing, Return, BeginInsert, Live
<1>2. CASE op = "put" /\ BeginInsert
  <2>1. \A s \in Live : arr'[s] = arr[s]
    BY <1>1, <1>2, GrowRoom DEF Missing, BeginInsert
  <2> QED
    BY <1>1, <2>1 DEF Held
<1>3. CASE UNCHANGED arr
  BY <1>1, <1>3 DEF Held
<1> QED
  BY <1>2, <1>3 DEF Missing

LEMMA InsertHeld == ASSUME IInv, NEW k \in Keys, Insert(k) PROVE Held' = Held
<1>1. Live = 0 .. length - 1 /\ Live' = Live
  BY DEF Insert, BeginInsert, Live
<1>2. \A s \in Live : arr'[s] = arr[s]
  BY <1>1, GrowRoom DEF Insert, BeginInsert
<1> QED
  BY <1>1, <1>2 DEF Held

(* The entry below the gap is moved into it.                                *)
LEMMA ShiftUpHeld == ASSUME IInv, ShiftUp PROVE Held' = Held
<1> USE DEF ShiftUp
<1>1. /\ gap \in Nat /\ left \in Nat /\ length \in Nat /\ capacity \in Nat
      /\ left < gap /\ gap <= length /\ length < capacity
  BY DEF IInv, TypeOK, Bounds
<1>2. Live = (0 .. length) \ {gap} /\ Live' = (0 .. length) \ {gap - 1}
  BY DEF Live
<1>3. \A s \in Live' : arr'[s] = IF s = gap THEN arr[gap - 1] ELSE arr[s]
  BY <1>1, <1>2 DEF IInv, TypeOK
<1>4. ASSUME NEW e \in Held PROVE e \in Held'
  <2>1. PICK s \in Live : e = arr[s]
    BY DEF Held
  <2>2. CASE s = gap - 1
    <3>1. gap \in Live' /\ arr'[gap] = e
      BY <1>1, <1>2, <1>3, <2>1, <2>2
    <3> QED
      BY <3>1 DEF Held
  <2>3. CASE s # gap - 1
    <3>1. s \in Live' /\ arr'[s] = e
      BY <1>1, <1>2, <1>3, <2>1, <2>3
    <3> QED
      BY <3>1 DEF Held
  <2> QED
    BY <2>2, <2>3
<1>5. ASSUME NEW e \in Held' PROVE e \in Held
  <2>1. PICK s \in Live' : e = arr'[s]
    BY DEF Held
  <2>2. CASE s = gap
    BY <1>1, <1>2, <1>3, <2>1, <2>2 DEF Held
  <2>3. CASE s # gap
    BY <1>1, <1>2, <1>3, <2>1, <2>3 DEF Held
  <2> QED
    BY <2>2, <2>3
<1> QED
  BY <1>4, <1>5

(* The entry above the gap is moved into it.                                *)
LEMMA ShiftDownHeld == ASSUME IInv, ShiftDown PROVE Held' = Held
<1> USE DEF ShiftDown
<1>1. /\ gap \in Nat /\ length \in Nat /\ capacity \in Nat
      /\ gap + 1 < length /\ length <= capacity
  BY DEF IInv, TypeOK, Bounds
<1>2. Live = (0 .. length - 1) \ {gap} /\ Live' = (0 .. length - 1) \ {gap + 1}
  BY DEF Live
<1>3. \A s \in Live' : arr'[s] = IF s = gap THEN arr[gap + 1] ELSE arr[s]
  BY <1>1, <1>2 DEF IInv, TypeOK
<1>4. ASSUME NEW e \in Held PROVE e \in Held'
  <2>1. PICK s \in Live : e = arr[s]
    BY DEF Held
  <2>2. CASE s = gap + 1
    <3>1. gap \in Live' /\ arr'[gap] = e
      BY <1>1, <1>2, <1>3, <2>1, <2>2
    <3> QED
      BY <3>1 DEF Held
  <2>3. CASE s # gap + 1
    <3>1. s \in Live' /\ arr'[s] = e
      BY <1>1, <1>2, <1>3, <2>1, <2>3
    <3> QED
      BY <3>1 DEF Held
  <2> QED
    BY <2>2, <2>3
<1>5. ASSUME NEW e \in Held' PROVE e \in Held
  <2>1. PICK s \in Live' : e = arr'[s]
    BY DEF Held
  <2>2. CASE s = gap
    BY <1>1, <1>2, <1>3, <2>1, <2>2 DEF Held
  <2>3. CASE s # gap
    BY <1>1, <1>2, <1>3, <2>1, <2>3 DEF Held
  <2> QED
    BY <2>2, <2>3
<1> QED
  BY <1>4, <1>5

(* The last slot is given up while it is the gap.                           *)
LEMMA CloseGapHeld == ASSUME IInv, CloseGap PROVE Held' = Held
<1>1. gap \in Nat /\ length \in Nat /\ gap = length - 1
  BY DEF CloseGap, IInv, TypeOK, Bounds
<1>2. Live' = Live
  BY <1>1 DEF CloseGap, Return, Live
<1> QED
  BY <1>2 DEF CloseGap, Held

(* The store that fills the gap adds an entry, of a key that is not there.  *)
LEMMA FillGapStep ==
  ASSUME IInv, ContentKnown, ContentKnown', ~again, ~again', FillGap
  PROVE  Map!Next
<1> USE DEF FillGap, Return
<1>1. /\ gap = left /\ left \in Nat /\ length \in Nat /\ capacity \in Nat
      /\ left <= length /\ length < capacity /\ arg \in Entry
  BY DEF IInv, TypeOK, Bounds
<1>2. Live = (0 .. length) \ {left} /\ Live' = Live \cup {left}
  BY <1>1 DEF Live
<1>3. \A s \in Live' : arr'[s] = IF s = left THEN arg ELSE arr[s]
  BY <1>1, <1>2 DEF IInv, TypeOK
<1>4. Held' = Held \cup {arg}
  BY <1>1, <1>2, <1>3 DEF Held
<1>5. \A e \in Held : e.key # arg.key
  BY DEF IInv, Absent, Held
<1>6. Held' = {e \in Held : e.key # arg.key} \cup {arg}
  BY <1>4, <1>5
<1>7. PICK d \in Entry : d = arg
  BY <1>1
<1> QED
  BY <1>6, <1>7, PutStep

(* A hit replaces the entry of the key, or gives it up to the gap.          *)
LEMMA FoundStep ==
  ASSUME IInv, ContentKnown, ContentKnown', ~again, ~again', Found
  PROVE  Map!Next \/ UNCHANGED Content
<1> USE DEF Found
<1>1. Mid \in left .. right - 1 /\ right <= length /\ length \in Nat /\ capacity \in Nat
  BY MidInside DEF IInv, TypeOK, Bounds
<1>2. Live = 0 .. length - 1 /\ Mid \in Live
  BY <1>1 DEF Live, IInv, TypeOK
<1>3. PICK m \in Live : m = Mid
  BY <1>2
<1>4. PICK d \in Entry : d = arg
  BY DEF IInv, Bounds
<1>5. arr[m].key = d.key /\ \A s \in Live : s # m => arr[s].key # d.key
  BY <1>3, <1>4 DEF IInv, KeysUnique
<1>6. CASE op = "get" /\ Return /\ UNCHANGED arr
  <2>1. Live' = Live
    BY <1>2, <1>6 DEF Live, Return
  <2> QED
    BY <1>6, <2>1, SameHeld DEF Held
<1>7. CASE op = "put" /\ Return /\ arr' = [arr EXCEPT ![Mid] = arg]
  <2>1. Live' = Live
    BY <1>2, <1>7 DEF Live, Return
  <2>2. \A s \in Live : arr'[s] = IF s = m THEN d ELSE arr[s]
    BY <1>2, <1>3, <1>4, <1>7 DEF IInv, TypeOK
  <2>3. Held' = {e \in Held : e.key # d.key} \cup {d}
    BY <1>5, <2>1, <2>2 DEF Held
  <2> QED
    BY <2>3, PutStep
<1>8. CASE op = "remove" /\ pc' = "close" /\ gap' = Mid /\ UNCHANGED <<arr, op, arg, left, right>>
  <2>1. Live' = Live \ {m}
    BY <1>2, <1>3, <1>8 DEF Live
  <2>2. PICK e \in Held : e = arr[m]
    BY DEF Held
  <2>3. Held' = {x \in Held : x.key # e.key}
    BY <1>5, <1>8, <2>1, <2>2 DEF Held
  <2> QED
    BY <2>3, RemoveStep
<1> QED
  BY <1>6, <1>7, <1>8

(* new and delete leave nothing, whatever was inserted twice before.        *)
LEMMA RenewStep == ASSUME New \/ Delete PROVE Map!Next
<1>1. Live' = {}
  BY DEF New, Delete, Live
<1>2. Content' = Nothing
  BY <1>1 DEF Content, Stored, Nothing
<1> QED
  BY <1>2 DEF Map!Next, Map!Clear, Nothing

(* Each step is one of the abstract map's or changes nothing of it, until   *)
(* the client inserts an element again.                                     *)
LEMMA NextStep ==
  ASSUME IInv, ContentKnown, ContentKnown', ~again', [Next]_vars
  PROVE  Map!Next \/ UNCHANGED Content
<1>1. CASE New \/ Delete
  BY <1>1, RenewStep
<1>2. CASE Loops
  <2>1. ~again
    BY <1>2 DEF Loops, NarrowFind, Found, Missing, NarrowPos, OpenGap, ShiftUp, FillGap,
                ShiftDown, CloseGap
  <2>2. CASE Found \/ FillGap
    BY <2>1, <2>2, FoundStep, FillGapStep
  <2>3. CASE ~(Found \/ FillGap)
    <3>1. Held' = Held
      BY <1>2, <2>3, NarrowFindHeld, MissingHeld, NarrowPosHeld, OpenGapHeld, ShiftUpHeld,
         ShiftDownHeld, CloseGapHeld DEF Loops
    <3> QED
      BY <2>1, <3>1, SameHeld
  <2> QED
    BY <2>2, <2>3
<1>3. ASSUME NEW k \in Keys, Get(k) \/ Remove(k) \/ \E v \in Values : Put(k, v)
      PROVE  UNCHANGED Content
  <2>1. PICK o, e : Call(o, e)
    BY <1>3 DEF Get, Remove, Put
  <2>2. ~again
    BY <2>1 DEF Call
  <2> QED
    BY <2>1, <2>2, CallHeld, SameHeld
<1>4. ASSUME NEW k \in Keys, Insert(k)
      PROVE  UNCHANGED Content
  <2>1. ~again
    BY <1>4 DEF Insert, IInv, TypeOK
  <2> QED
    BY <1>4, <2>1, InsertHeld, SameHeld
<1>5. CASE UNCHANGED vars
  <2>1. Held' = Held /\ again' = again
    BY <1>5 DEF vars, Held, Live
  <2> QED
    BY <2>1, SameHeld
<1> QED
  BY <1>1, <1>2, <1>3, <1>4, <1>5 DEF Next

(* The sorted array is a map for any keys, at every store of its loops: the *)
(* shifts are invisible, until its client inserts an element again.         *)
THEOREM Refinement == Spec => ImplementsMap
<1>1. Init => Map!Init
  <2> SUFFICES ASSUME Init PROVE Map!Init
    OBVIOUS
  <2>1. Live = {}
    BY DEF Init, Live
  <2> QED
    BY <2>1, NothingStored DEF Map!Init, Nothing
<1>2. IInv => ContentKnown
  BY ContentIs DEF ContentKnown
<1>3. IInv /\ ContentKnown /\ ContentKnown' /\ [Next]_vars => [again' \/ Map!Next]_Content
  BY NextStep
<1> QED
  BY <1>1, <1>2, <1>3, Invariant, PTL DEF Spec, ImplementsMap
=============================================================================

--------------------------- MODULE AdaptersProofs ---------------------------
(***************************************************************************)
(* Proofs about the array and what is built on it and on deques, for every *)
(* size of an element, width of a size_t and number of nodes: the two ways *)
(* of computing room agree, a stack or a queue never goes wrong, and what  *)
(* they hold is a sequence.                                                *)
(***************************************************************************)
EXTENDS Adapters, RingProofs

-----------------------------------------------------------------------------
(* Arithmetic *)

(* 1.3 n and 1.3 (n Size), both rounded down, and the room in elements.     *)
LEMMA GeomRoom ==
  ASSUME NEW n \in Nat, n * Size < SizeLimit
  PROVE  Geom(n) \in Nat /\ n <= Geom(n) /\ Bytes(n) \in Nat
         /\ Bytes(n) \div Size \in Nat /\ Geom(n) <= Bytes(n) \div Size
<1> DEFINE q == (13 * n) \div 10
           t == n * Size
           w == (13 * t) \div 10
<1>1. Size \in Nat /\ Size > 0 /\ SizeLimit \in Nat /\ t \in Nat
  BY ArrayAssumption
<1>2. t % SizeLimit = t
  BY <1>1
<1>3. q \in Nat /\ n <= q /\ 10 * q <= 13 * n
  OBVIOUS
<1>4. w \in Nat /\ 13 * t < 10 * w + 10 /\ 10 * w <= 13 * t
  BY <1>1
<1>5. q * Size <= w
  <2>1. q * Size \in Nat
    BY <1>1, <1>3
  <2>2. (10 * q) * Size <= (13 * n) * Size
    BY <1>1, <1>3
  <2>3. (10 * q) * Size = 10 * (q * Size) /\ (13 * n) * Size = 13 * t
    BY <1>1, <1>3
  <2> HIDE DEF q, t, w
  <2> QED
    BY <2>1, <2>2, <2>3, <1>4, <1>1
<1>6. w \div Size \in Nat /\ q <= w \div Size
  <2> DEFINE d == w \div Size
  <2> HIDE DEF w, q
  <2>1. d \in Nat /\ w < (d + 1) * Size
    BY <1>1, <1>4
  <2>2. q * Size < (d + 1) * Size
    BY <1>5, <2>1, <1>1, <1>3, <1>4
  <2>3. q < d + 1
    BY <2>2, <2>1, <1>1, <1>3
  <2> QED
    BY <2>1, <2>3, <1>3
<1> QED
  BY <1>2, <1>3, <1>4, <1>6 DEF Geom, Bytes

(* The bound, and all that is shorter. *)
LEMMA ShortFits ==
  ASSUME NEW n \in Nat, n <= MaxLength
  PROVE  ~IsHuge(n)
<1> DEFINE t == n * Size
           u == MaxLength * Size
<1>1. Size \in Nat /\ Size > 0 /\ SizeLimit \in Nat /\ HeaderSize \in Nat /\ MaxLength \in Nat
  BY ArrayAssumption
<1>2. t \in Nat /\ u \in Nat /\ t <= u
  BY <1>1
<1>3. u < SizeLimit /\ HeaderSize + Bytes(MaxLength) < SizeLimit /\ Geom(MaxLength) < SizeLimit
  BY BoundAssumption, <1>1, <1>2 DEF IsHuge, Fits, Bytes, Geom
<1>4. t % SizeLimit = t /\ u % SizeLimit = u
  BY <1>1, <1>2, <1>3
<1>5. Bytes(n) \in Nat /\ Bytes(n) <= Bytes(MaxLength)
  <2> HIDE DEF t, u
  <2>1. (13 * t) \div 10 \in Nat /\ (13 * t) \div 10 <= (13 * u) \div 10 /\ (13 * u) \div 10 \in Nat
    BY <1>2
  <2> QED
    BY <2>1, <1>4 DEF Bytes, Geom, t, u
<1>6. Geom(n) \in Nat /\ Geom(n) <= Geom(MaxLength) /\ Geom(MaxLength) \in Nat
  BY <1>1 DEF Geom
<1>7. Bytes(MaxLength) \in Nat
  <2> HIDE DEF t, u
  <2>1. (13 * u) \div 10 \in Nat
    BY <1>2
  <2> QED
    BY <2>1, <1>4 DEF Bytes, Geom, u
<1> HIDE DEF t, u
<1>8. ~(t >= SizeLimit) /\ Fits(n)
  BY <1>1, <1>2, <1>3, <1>5, <1>6, <1>7 DEF Fits
<1> QED
  BY <1>8 DEF IsHuge, t

(* SIZE_MAX elements never fit. *)
LEMMA LastDoesNotFit == ~Fits(SizeLimit - 1)
  BY ArrayAssumption DEF Fits, Geom

-----------------------------------------------------------------------------
(* Blocks *)

Memory == Values \cup {Junk}

Filled(o) ==
  /\ o = Outcome(o.array, o.slots, o.fate)
  /\ o.array \in Header \cup {NULL}
  /\ o.array = NULL => o.slots = << >>
  /\ o.array # NULL => o.slots \in [0 .. o.array.room - 1 -> Memory]
  /\ o.fate \in {"ok", "aborted", "undefined"}

Roomy(a) == a # NULL => a.length <= a.allocd /\ a.allocd <= a.room

(* Every block has a header, and what was written to the old one is in it.  *)
LEMMA BlockFilled ==
  ASSUME NEW n \in Nat, NEW strict \in BOOLEAN, NEW old,
         \A i \in DOMAIN old : old[i] \in Memory
  PROVE  /\ Filled(Block(n, strict, old))
         /\ Block(n, strict, old).array # NULL
         /\ Block(n, strict, old).array.strict = strict
         /\ Block(n, strict, old).array.length = n
         /\ Block(n, strict, old).fate = "ok"
         /\ n * Size < SizeLimit => Roomy(Block(n, strict, old).array)
<1> DEFINE room == Bytes(n) \div Size
           a == [length |-> n, allocd |-> Geom(n), strict |-> strict, room |-> room]
           s == [i \in 0 .. room - 1 |-> IF i \in DOMAIN old THEN old[i] ELSE Junk]
<1>1. room \in Nat /\ Geom(n) \in Nat
  <2>1. Size \in Nat /\ Size > 0 /\ SizeLimit \in Nat /\ SizeLimit > 0
    BY ArrayAssumption
  <2>2. n * Size \in Nat
    BY <2>1
  <2>3. (n * Size) % SizeLimit \in Nat
    BY <2>1, <2>2
  <2>4. Bytes(n) \in Nat
    BY <2>3 DEF Bytes, Geom
  <2> QED
    BY <2>1, <2>4 DEF Geom
<1>2. a \in Header
  BY <1>1 DEF Header
<1>3. s \in [0 .. room - 1 -> Memory]
  BY DEF Memory
<1>4. a # NULL
  BY <1>2, ArrayAssumption
<1>5. Block(n, strict, old) = [array |-> a, slots |-> s, fate |-> "ok"]
  BY DEF Block, Outcome
<1>6. n * Size < SizeLimit => Roomy(a)
  BY GeomRoom DEF Roomy
<1> HIDE DEF s
<1> QED
  BY <1>2, <1>3, <1>4, <1>5, <1>6 DEF Filled, Outcome

-----------------------------------------------------------------------------
(* The array *)

ArrayInv == TypeOK /\ RoomEnough

(* The array as the outcome of the last operation. *)
LEMMA NowFilled ==
  ASSUME ArrayInv
  PROVE  /\ \A f \in {"ok", "aborted", "undefined"} : Filled(Unchanged(f))
         /\ \A i \in DOMAIN slots : slots[i] \in Memory
         /\ "huge" \notin slips => Roomy(array)
<1>1. "huge" \notin slips => Roomy(array)
  BY DEF ArrayInv, RoomEnough, Roomy
<1>2. ASSUME NEW f \in {"ok", "aborted", "undefined"} PROVE Filled(Unchanged(f))
  BY DEF ArrayInv, TypeOK, Filled, Unchanged, Outcome, Memory
<1>3. ASSUME NEW i \in DOMAIN slots PROVE slots[i] \in Memory
  <2>1. array # NULL
    BY <1>3 DEF ArrayInv, TypeOK
  <2> QED
    BY <1>3, <2>1 DEF ArrayInv, TypeOK, Memory
<1> QED
  BY <1>1, <1>2, <1>3

(* A resize leaves an array with room for its length, as long as no request *)
(* was huge; and unless one is made of a strict array, or of none, it has   *)
(* the length that was asked for, or an assert ended the process.           *)
LEMMA ResizedFilled ==
  ASSUME ArrayInv, NEW n \in Nat, NEW o \in Resized(n)
  PROVE  /\ Filled(o)
         /\ "huge" \notin slips /\ (n * Size < SizeLimit \/ ~Fits(n) \/ array.allocd >= n) =>
              Roomy(o.array)
         /\ array # NULL /\ array.allocd >= n => o.fate = "ok"
         /\ o.fate = "undefined" => ~Fits(n) /\ array # NULL
         /\ o.fate # "ok" => o.array = array
         /\ o.fate = "ok" => o.array # NULL /\ array # NULL
         /\ o.fate = "ok" /\ ~(array.strict /\ array.allocd < n) =>
              o.array.length = n /\ o.array.strict = array.strict
         /\ o.fate = "ok" /\ array.strict /\ array.allocd < n => o = Unchanged("ok")
<1>1. CASE array = NULL
  <2>1. o = Unchanged("aborted")
    BY <1>1 DEF Resized
  <2> QED
    BY <1>1, <2>1, NowFilled DEF Unchanged, Outcome
<1>2. CASE array # NULL /\ array.allocd >= n
  <2> DEFINE a == [array EXCEPT !.length = n]
  <2>1. o = Outcome(a, slots, "ok")
    BY <1>2 DEF Resized
  <2>2. array \in Header
    BY <1>2 DEF ArrayInv, TypeOK
  <2>3. /\ a \in Header /\ a.length = n /\ a.allocd = array.allocd
        /\ a.room = array.room /\ a.strict = array.strict
    BY <2>2 DEF Header
  <2>4. a # NULL
    BY <2>3, ArrayAssumption
  <2>5. slots \in [0 .. array.room - 1 -> Memory]
    BY <1>2 DEF ArrayInv, TypeOK, Memory
  <2>6. array.allocd \in Nat /\ ~(array.allocd < n)
    BY <1>2, <2>2 DEF Header
  <2>7. "huge" \notin slips => Roomy(a)
    BY <1>2, <2>3, NowFilled DEF Roomy
  <2>8. o.array = a /\ o.slots = slots /\ o.fate = "ok"
    BY <2>1 DEF Outcome
  <2> HIDE DEF a
  <2>9. Filled(o)
    BY <2>1, <2>3, <2>4, <2>5, <2>8 DEF Filled
  <2> QED
    BY <1>2, <2>3, <2>4, <2>6, <2>7, <2>8, <2>9
<1>3. CASE array # NULL /\ ~(array.allocd >= n) /\ array.strict
  <2>1. o = Unchanged("ok")
    BY <1>3 DEF Resized
  <2>2. array.allocd < n
    BY <1>3 DEF ArrayInv, TypeOK, Header
  <2> QED
    BY <1>3, <2>1, <2>2, NowFilled DEF Unchanged, Outcome
<1>4. CASE array # NULL /\ ~(array.allocd >= n) /\ ~array.strict
  <2>1. array.strict = FALSE
    BY <1>4 DEF ArrayInv, TypeOK, Header
  <2>2. \/ o = Unchanged("aborted")
        \/ Fits(n) /\ o = Block(n, FALSE, slots)
        \/ ~Fits(n) /\ o = Unchanged("undefined")
    <3>1. array # NULL /\ ~(array.allocd >= n) /\ ~array.strict
      BY <1>4
    <3> QED
      BY <3>1 DEF Resized
  <2>3. CASE o = Unchanged("aborted")
    BY <1>4, <2>3, NowFilled DEF Unchanged, Outcome
  <2>4. CASE Fits(n) /\ o = Block(n, FALSE, slots)
    <3>1. \A i \in DOMAIN slots : slots[i] \in Memory
      BY NowFilled
    <3>2. /\ Filled(o) /\ o.array # NULL /\ o.array.strict = FALSE
          /\ o.array.length = n /\ o.fate = "ok"
          /\ n * Size < SizeLimit => Roomy(o.array)
      <4>1. PICK no \in BOOLEAN : no = FALSE
        OBVIOUS
      <4>2. o = Block(n, no, slots)
        BY <4>1, <2>4
      <4> QED
        BY <3>1, <4>1, <4>2, BlockFilled
    <3> QED
      BY <1>4, <2>1, <2>4, <3>2
  <2>5. CASE ~Fits(n) /\ o = Unchanged("undefined")
    BY <1>4, <2>5, NowFilled DEF Unchanged, Outcome
  <2> QED
    BY <2>2, <2>3, <2>4, <2>5
<1> QED
  BY <1>1, <1>2, <1>3, <1>4

(* Whatever an operation makes of the array. *)
LEMMA BecomeInv ==
  ASSUME ArrayInv, NEW o, Filled(o), Become(o), answer' \in Memory,
         slips \subseteq slips', slips' \subseteq Rules,
         "huge" \notin slips' => Roomy(o.array)
  PROVE  ArrayInv'
BY DEF ArrayInv, TypeOK, RoomEnough, Filled, Become, Roomy, Memory, Outcome

(* Once broken, a rule stays broken. *)
LEMMA BreaksType ==
  ASSUME ArrayInv, NEW rule \in Rules, NEW condition, Breaks(rule, condition)
  PROVE  /\ slips \subseteq slips' /\ slips' \subseteq Rules
         /\ condition => rule \in slips'
         /\ ~condition => slips' = slips
BY DEF ArrayInv, TypeOK, Breaks

(* What was not said: an array that goes wrong was misused, or never made.  *)
ArrayFails == fate = "undefined" => slips # {} \/ array = NULL

LEMMA NewInv ==
  ASSUME ArrayInv, NEW n \in Nat, NEW strict \in BOOLEAN, New(n, strict)
  PROVE  /\ ArrayInv' /\ ArrayFails'
         /\ array' # NULL => array'.strict = strict
<1> USE DEF New
<1>1. /\ slips \subseteq slips' /\ slips' \subseteq Rules
      /\ IsHuge(n) => "huge" \in slips'
  BY BreaksType DEF Rules
<1>2. answer' \in Memory
  BY DEF ArrayInv, TypeOK, Memory
<1>3. CASE Fits(n) /\ Become(Block(n, strict, << >>))
  <2>1. \A i \in DOMAIN << >> : << >>[i] \in Memory
    OBVIOUS
  <2>2. /\ Filled(Block(n, strict, << >>))
        /\ Block(n, strict, << >>).array.strict = strict
        /\ Block(n, strict, << >>).fate = "ok"
        /\ n * Size < SizeLimit => Roomy(Block(n, strict, << >>).array)
    BY <2>1, BlockFilled
  <2>3. ~IsHuge(n) => n * Size < SizeLimit
    BY ArrayAssumption DEF IsHuge
  <2>4. ArrayInv'
    BY <1>1, <1>2, <1>3, <2>2, <2>3, BecomeInv
  <2> QED
    BY <1>3, <2>2, <2>4 DEF Become, ArrayFails
<1>4. CASE Become(Unchanged("undefined"))
  <2>1. Filled(Unchanged("undefined")) /\ Unchanged("undefined").array = array
    BY NowFilled DEF Unchanged, Outcome
  <2>2. Roomy(array)
    BY DEF Roomy
  <2>3. ArrayInv'
    BY <1>1, <1>2, <1>4, <2>1, <2>2, BecomeInv
  <2> QED
    BY <1>4, <2>1, <2>3 DEF Become, ArrayFails
<1> QED
  BY <1>3, <1>4

LEMMA DeleteInv ==
  ASSUME ArrayInv, Delete
  PROVE  ArrayInv' /\ ArrayFails' /\ array' = NULL
BY DEF ArrayInv, ArrayFails, TypeOK, RoomEnough, Delete, Become, Outcome, Memory

LEMMA ResizeInv ==
  ASSUME ArrayInv, NEW n \in Nat, Resize(n)
  PROVE  ArrayInv' /\ ArrayFails'
<1>1. PICK o \in Resized(n) : Become(o)
  BY DEF Resize
<1>2. /\ slips \subseteq slips' /\ slips' \subseteq Rules
      /\ IsHuge(n) => "huge" \in slips'
  BY BreaksType DEF Rules, Resize
<1>3. answer' \in Memory
  BY DEF ArrayInv, TypeOK, Memory, Resize
<1>4. ~IsHuge(n) => n * Size < SizeLimit /\ Fits(n)
  BY ArrayAssumption DEF IsHuge
<1>5. ArrayInv'
  BY <1>1, <1>2, <1>3, <1>4, BecomeInv, ResizedFilled
<1>6. o.fate = "undefined" => ~Fits(n)
  BY ResizedFilled
<1> QED
  BY <1>1, <1>2, <1>4, <1>5, <1>6 DEF Become, ArrayFails

LEMMA LengthType ==
  ASSUME ArrayInv
  PROVE  Length \in Nat /\ (array # NULL => array.allocd \in Nat /\ Length = array.length)
BY DEF ArrayInv, TypeOK, Length, Header

LEMMA PushInv ==
  ASSUME ArrayInv, NEW v \in Values, Push(v)
  PROVE  /\ ArrayInv' /\ ArrayFails'
         /\ ~IsFull => slips' = slips
         /\ array' # NULL => array # NULL /\ (~array.strict => ~array'.strict)
<1> DEFINE n == Length + 1
<1>1. PICK o \in Resized(n) : IF o.fate = "ok" THEN Store(o, v) ELSE Become(o)
  BY DEF Push
<1>2. /\ slips \subseteq slips' /\ slips' \subseteq Rules
      /\ IsFull => "full" \in slips'
      /\ ~IsFull => slips' = slips
  BY BreaksType DEF Rules, Push
<1>3. answer' \in Memory
  BY DEF ArrayInv, TypeOK, Memory, Push
<1>4. n \in Nat /\ n * Size < SizeLimit /\ Fits(n)
  <2>1. n \in Nat /\ n <= MaxLength
    BY LengthType, ArrayAssumption DEF Push
  <2>2. ~IsHuge(n)
    BY <2>1, ShortFits
  <2> QED
    BY <2>1, <2>2, ArrayAssumption DEF IsHuge
<1>5. /\ Filled(o)
      /\ "huge" \notin slips => Roomy(o.array)
      /\ o.fate # "undefined"
      /\ o.fate # "ok" => o.array = array
      /\ o.fate = "ok" => o.array # NULL /\ array # NULL
      /\ o.fate = "ok" /\ ~(array.strict /\ array.allocd < n) =>
           o.array.length = n /\ o.array.strict = array.strict
      /\ o.fate = "ok" /\ array.strict /\ array.allocd < n => o = Unchanged("ok")
  BY <1>4, ResizedFilled
<1> HIDE DEF n
<1>6. CASE o.fate # "ok"
  <2>1. Become(o)
    BY <1>1, <1>6
  <2>2. ArrayInv'
    BY <1>2, <1>3, <1>5, <2>1, BecomeInv
  <2>3. fate' = o.fate /\ array' = o.array
    BY <2>1 DEF Become
  <2> QED
    BY <1>2, <1>5, <1>6, <2>2, <2>3 DEF ArrayFails
<1>7. CASE o.fate = "ok"
  <2> DEFINE last == o.array.length - 1
             stored == [o EXCEPT !.slots[last] = v]
             lost   == [o EXCEPT !.fate = "undefined"]
  <2>1. Store(o, v) /\ array # NULL /\ o.array # NULL
    BY <1>1, <1>5, <1>7
  <2>2. CASE last \in DOMAIN o.slots
    <3>1. Become(stored)
      BY <2>1, <2>2 DEF Store
    <3>2. o.slots \in [0 .. o.array.room - 1 -> Memory] /\ v \in Memory
      BY <1>5, <2>1 DEF Filled, Memory
    <3>3. /\ stored = Outcome(o.array, [o.slots EXCEPT ![last] = v], "ok")
          /\ stored.array = o.array /\ stored.fate = "ok"
      BY <1>5, <1>7 DEF Filled, Outcome
    <3>4. Filled(stored)
      BY <1>5, <2>1, <3>2, <3>3 DEF Filled, Outcome
    <3>5. ArrayInv'
      BY <1>2, <1>3, <1>5, <3>1, <3>3, <3>4, BecomeInv
    <3>6. fate' = "ok" /\ array' = o.array
      BY <3>1, <3>3 DEF Become
    <3>7. ~array.strict => ~o.array.strict
      BY <1>5, <1>7
    <3> QED
      BY <1>2, <2>1, <3>5, <3>6, <3>7 DEF ArrayFails
  <2>3. CASE last \notin DOMAIN o.slots
    <3>1. Become(lost)
      BY <2>1, <2>3 DEF Store
    <3>2. lost.array = o.array /\ lost.fate = "undefined" /\ Filled(lost)
      BY <1>5, <2>1 DEF Filled, Outcome
    <3>3. ArrayInv'
      BY <1>2, <1>3, <1>5, <3>1, <3>2, BecomeInv
    <3>4. fate' = "undefined" /\ array' = o.array
      BY <3>1, <3>2 DEF Become
    <3>5. ~array.strict => ~o.array.strict
      BY <1>5, <1>7
    <3>6. ASSUME slips' = {} PROVE FALSE
      <4>1. ~IsFull /\ "huge" \notin slips
        BY <1>2, <3>6
      <4>2. ~(array.strict /\ array.allocd < n)
        BY <4>1, <2>1, LengthType DEF IsFull, n
      <4>3. o.array.length = n /\ Roomy(o.array)
        BY <1>5, <1>7, <4>1, <4>2
      <4>4. o.array.length \in Nat /\ o.array.allocd \in Nat /\ o.array.room \in Nat
        BY <1>5, <2>1 DEF Filled, Header
      <4>5. n \in Nat /\ n > 0
        BY LengthType DEF n
      <4>6. last \in 0 .. o.array.room - 1
        BY <4>3, <4>4, <4>5, <2>1 DEF Roomy
      <4> QED
        BY <4>6, <1>5, <2>1, <2>3 DEF Filled
    <3> QED
      BY <1>2, <2>1, <3>3, <3>4, <3>5, <3>6 DEF ArrayFails
  <2> QED
    BY <2>2, <2>3
<1> QED
  BY <1>6, <1>7

LEMMA PopInv ==
  ASSUME ArrayInv, Pop
  PROVE  /\ ArrayInv' /\ ArrayFails'
         /\ Length > 0 => slips' = slips
         /\ array' # NULL => array # NULL /\ (~array.strict => ~array'.strict)
<1> DEFINE n == (Length - 1) % SizeLimit
<1>1. PICK o \in Resized(n) : Become(o)
  BY DEF Pop
<1>2. /\ slips \subseteq slips' /\ slips' \subseteq Rules
      /\ array # NULL /\ Length = 0 => "empty" \in slips'
      /\ Length > 0 => slips' = slips
  <2>1. /\ slips \subseteq slips' /\ slips' \subseteq Rules
        /\ array # NULL /\ Length = 0 => "empty" \in slips'
        /\ ~(array # NULL /\ Length = 0) => slips' = slips
    BY BreaksType DEF Rules, Pop
  <2> QED
    BY <2>1, LengthType
<1>3. answer' \in Memory
  <2>1. \A i \in DOMAIN slots : slots[i] \in Memory
    BY NowFilled
  <2>2. answer \in Memory /\ Junk \in Memory
    BY DEF ArrayInv, TypeOK, Memory
  <2> QED
    BY <2>1, <2>2 DEF Pop
<1>4. n \in Nat /\ (Length = 0 => ~Fits(n)) /\ (Length > 0 => n < Length)
  <2>1. SizeLimit \in Nat /\ SizeLimit >= 8
    BY ArrayAssumption
  <2>2. CASE Length = 0
    <3>1. n = SizeLimit - 1
      BY <2>1, <2>2
    <3> QED
      BY <2>1, <2>2, <3>1, LastDoesNotFit
  <2>3. CASE Length # 0
    <3> DEFINE l == Length - 1
    <3>1. l \in Nat /\ l < Length
      BY <2>3, LengthType
    <3>2. l % SizeLimit \in Nat /\ l % SizeLimit <= l
      BY <2>1, <3>1
    <3>3. n = l % SizeLimit
      OBVIOUS
    <3> HIDE DEF n, l
    <3> QED
      BY <2>3, <3>1, <3>2, <3>3, LengthType
  <2> QED
    BY <2>2, <2>3
<1> HIDE DEF n
<1>5. "huge" \notin slips /\ Length > 0 => array # NULL /\ array.allocd >= n
  BY <1>4, LengthType DEF ArrayInv, RoomEnough, Length
<1>6. /\ Filled(o)
      /\ "huge" \notin slips /\ (~Fits(n) \/ array.allocd >= n) => Roomy(o.array)
      /\ array # NULL /\ array.allocd >= n => o.fate = "ok"
      /\ o.fate = "undefined" => array # NULL
      /\ o.fate # "ok" => o.array = array
      /\ o.fate = "ok" => o.array # NULL /\ array # NULL
      /\ o.fate = "ok" /\ ~(array.strict /\ array.allocd < n) =>
           o.array.strict = array.strict
  BY <1>4, ResizedFilled
<1>7. "huge" \notin slips' => Roomy(o.array)
  BY <1>2, <1>4, <1>5, <1>6, LengthType
<1>8. ArrayInv'
  BY <1>1, <1>2, <1>3, <1>6, <1>7, BecomeInv
<1>9. fate' = o.fate /\ array' = o.array
  BY <1>1 DEF Become
<1>10. ArrayFails'
  BY <1>2, <1>5, <1>6, <1>9, LengthType DEF ArrayFails
<1> QED
  BY <1>2, <1>6, <1>8, <1>9, <1>10

-----------------------------------------------------------------------------
(* The deque of the linked containers *)

(* The nodes that are allocated are the elements of the deque, in some      *)
(* order; there are none without one.                                       *)
LinkedInv ==
  /\ live \in BOOLEAN /\ emptying \in BOOLEAN
  /\ emptying => live
  /\ ring \in Rings(Cells)
  /\ value \in [Nodes -> Values \cup {None}]
  /\ dqlength \in Nat
  /\ ~live => Allocated = {}
  /\ live => \E f \in Numbering(Cells, dqlength) :
               /\ Ordered(ring, Sentinel, f, dqlength)
               /\ Elements(f, dqlength) = Allocated

LEMMA LinkedUnchanged == LinkedInv /\ UNCHANGED linked => LinkedInv'
BY DEF LinkedInv, linked, Allocated

LEMMA LinkedNewInv ==
  ASSUME LinkedInv, ~live, live' = TRUE, ring' = LinkInit(ring, Sentinel),
         dqlength' = 0, UNCHANGED <<value, emptying>>
  PROVE  LinkedInv'
<1>1. Sentinel \in Cells
  BY DEF Cells
<1>2. /\ LinkInit(ring, Sentinel) \in Rings(Cells)
      /\ \E f \in Numbering(Cells, 0) : Ordered(LinkInit(ring, Sentinel), Sentinel, f, 0)
  BY <1>1, InitOrdered DEF LinkedInv
<1>3. PICK f \in Numbering(Cells, 0) : Ordered(LinkInit(ring, Sentinel), Sentinel, f, 0)
  BY <1>2
<1>4. Elements(f, 0) = {} /\ Allocated' = {}
  BY DEF Elements, LinkedInv, Allocated
<1> QED
  BY <1>2, <1>3, <1>4 DEF LinkedInv

(* A node that malloc returns is in no deque. *)
LEMMA LinkedPushInv ==
  ASSUME LinkedInv, live, NEW v \in Values, NEW n \in Nodes \ Allocated,
         value' = [value EXCEPT ![n] = v],
         ring' = AddBack(LinkInit(ring, n), Sentinel, n),
         dqlength' = dqlength + 1,
         UNCHANGED <<live, emptying>>
  PROVE  LinkedInv'
<1>1. PICK f \in Numbering(Cells, dqlength) :
        Ordered(ring, Sentinel, f, dqlength) /\ Elements(f, dqlength) = Allocated
  BY DEF LinkedInv
<1>2. Sentinel \in Cells /\ n \in Cells /\ n # Sentinel /\ dqlength \in Nat
  BY AdaptersAssumption DEF Cells, LinkedInv
<1>3. ring \in Rings(Cells) /\ n \notin Elements(f, dqlength)
  BY <1>1 DEF LinkedInv
<1>4. /\ ring' \in Rings(Cells)
      /\ \E g \in Numbering(Cells, dqlength + 1) :
           /\ Ordered(ring', Sentinel, g, dqlength + 1)
           /\ Elements(g, dqlength + 1) = Elements(f, dqlength) \cup {n}
  BY <1>1, <1>2, <1>3, AddBackOrdered
<1>5. Allocated' = Allocated \cup {n} /\ value' \in [Nodes -> Values \cup {None}]
  BY AdaptersAssumption DEF LinkedInv, Allocated
<1>6. dqlength' \in Nat
  BY <1>2
<1> QED
  BY <1>1, <1>4, <1>5, <1>6 DEF LinkedInv

(* What is at the ends of a deque that is not empty are nodes. *)
LEMMA EndsAllocated ==
  ASSUME LinkedInv, live, dqlength # 0
  PROVE  First \in Allocated /\ Last \in Allocated
<1>1. PICK f \in Numbering(Cells, dqlength) :
        Ordered(ring, Sentinel, f, dqlength) /\ Elements(f, dqlength) = Allocated
  BY DEF LinkedInv
<1>2. dqlength \in Nat \ {0} /\ ring \in Rings(Cells) /\ Sentinel \in Cells
  BY DEF LinkedInv, Cells
<1>3. ring.next[Sentinel] \in Elements(f, dqlength)
  BY <1>1, <1>2, DeleteFrontOrdered
<1>4. ring.prev[Sentinel] \in Elements(f, dqlength)
  BY <1>1, <1>2, DeleteBackOrdered
<1> QED
  BY <1>1, <1>3, <1>4 DEF First, Last

LEMMA TakeInv ==
  ASSUME LinkedInv, live, dqlength # 0, Take, UNCHANGED <<live, emptying>>
  PROVE  LinkedInv' /\ fate' = fate
<1>1. PICK f \in Numbering(Cells, dqlength) :
        Ordered(ring, Sentinel, f, dqlength) /\ Elements(f, dqlength) = Allocated
  BY DEF LinkedInv
<1>2. dqlength \in Nat \ {0} /\ ring \in Rings(Cells) /\ Sentinel \in Cells
  BY DEF LinkedInv, Cells
<1>3. Served \in Allocated
  BY EndsAllocated DEF Served
<1>4. /\ ring' = IF kind = "queue" THEN DeleteFront(ring, Sentinel)
                                   ELSE DeleteBack(ring, Sentinel)
      /\ dqlength' = dqlength - 1
      /\ value' = [value EXCEPT ![Served] = None]
      /\ fate' = fate
  BY <1>3 DEF Take, Dispose
<1>5. /\ ring' \in Rings(Cells)
      /\ \E g \in Numbering(Cells, dqlength - 1) :
           /\ Ordered(ring', Sentinel, g, dqlength - 1)
           /\ Elements(g, dqlength - 1) = Elements(f, dqlength) \ {Served}
  <2>1. CASE kind = "queue"
    <3>1. Served = ring.next[Sentinel] /\ ring' = DeleteFront(ring, Sentinel)
      BY <2>1, <1>4 DEF Served, First
    <3> QED
      BY <3>1, <1>1, <1>2, DeleteFrontOrdered
  <2>2. CASE kind # "queue"
    <3>1. Served = ring.prev[Sentinel] /\ ring' = DeleteBack(ring, Sentinel)
      BY <2>2, <1>4 DEF Served, Last
    <3> QED
      BY <3>1, <1>1, <1>2, DeleteBackOrdered
  <2> QED
    BY <2>1, <2>2
<1>6. Allocated' = Allocated \ {Served} /\ value' \in [Nodes -> Values \cup {None}]
  BY <1>3, <1>4 DEF LinkedInv, Allocated
<1>7. dqlength' \in Nat /\ dqlength' = dqlength - 1
  BY <1>2, <1>4
<1> QED
  BY <1>1, <1>4, <1>5, <1>6, <1>7 DEF LinkedInv

-----------------------------------------------------------------------------
(* All of them *)

Kinds == ArrayKinds \cup LinkedKinds

(* The stack never makes its array strict, and breaks none of the rules.    *)
StackInv ==
  /\ kind \in Kinds
  /\ kind # "array" => slips = {}
  /\ kind = "array_stack" /\ array # NULL => ~array.strict
  /\ kind \in LinkedKinds => fate # "undefined"
  /\ kind \in ArrayKinds => ~emptying

IInv == ArrayInv /\ LinkedInv /\ StackInv /\ ArrayFails

LEMMA InitInv == AdaptersInit => IInv
<1> SUFFICES ASSUME AdaptersInit PROVE IInv
  OBVIOUS
<1> USE DEF AdaptersInit, Init
<1>1. ArrayInv
  BY ArrayAssumption DEF ArrayInv, TypeOK, RoomEnough
<1>2. Allocated = {}
  BY DEF Allocated
<1>3. ring \in Rings(Cells)
  BY DEF Rings
<1>4. LinkedInv
  BY <1>2, <1>3 DEF LinkedInv
<1> QED
  BY <1>1, <1>4 DEF IInv, StackInv, ArrayFails, Kinds

(* The bare array: the rules are its caller's to keep. *)
LEMMA ArrayNextInv ==
  ASSUME IInv, kind = "array", Next, UNCHANGED <<linked, kind>>
  PROVE  IInv'
<1>1. LinkedInv'
  BY LinkedUnchanged DEF IInv
<1>2. ArrayInv' /\ ArrayFails'
  <2>1. CASE Delete
    BY <2>1, DeleteInv DEF IInv
  <2>2. CASE Pop
    BY <2>2, PopInv DEF IInv
  <2>3. ASSUME NEW n \in Requests, Resize(n) PROVE ArrayInv' /\ ArrayFails'
    <3>1. n \in Nat
      BY ArrayAssumption
    <3> QED
      BY <2>3, <3>1, ResizeInv DEF IInv
  <2>4. ASSUME NEW n \in Requests, NEW strict \in BOOLEAN, New(n, strict)
        PROVE  ArrayInv' /\ ArrayFails'
    <3>1. n \in Nat
      BY ArrayAssumption
    <3> QED
      BY <2>4, <3>1, NewInv DEF IInv
  <2>5. ASSUME NEW v \in Values, Push(v) PROVE ArrayInv' /\ ArrayFails'
    BY <2>5, PushInv DEF IInv
  <2> QED
    BY <2>1, <2>2, <2>3, <2>4, <2>5 DEF Next
<1>3. StackInv'
  BY DEF IInv, StackInv, LinkedKinds, linked
<1> QED
  BY <1>1, <1>2, <1>3 DEF IInv

(* The stack in an array keeps them. *)
LEMMA StackNextInv ==
  ASSUME IInv, StackNext, UNCHANGED <<linked, kind>>
  PROVE  IInv'
<1>1. kind = "array_stack" /\ slips = {} /\ (array # NULL => ~array.strict)
  BY DEF StackNext, StackNew, StackPop, StackTop, StackDelete, StackPush, IInv, StackInv
<1>2. LinkedInv'
  BY LinkedUnchanged DEF IInv
<1>3. ~IsFull
  BY <1>1 DEF IsFull
<1>4. /\ ArrayInv' /\ ArrayFails'
      /\ slips' = slips
      /\ array' # NULL => ~array'.strict
  <2>1. CASE StackNew
    <3>1. New(0, FALSE)
      BY <2>1 DEF StackNew
    <3>2. PICK no \in BOOLEAN : no = FALSE
      OBVIOUS
    <3>3. ~IsHuge(0)
      BY ShortFits, ArrayAssumption
    <3>4. slips' = slips
      BY <3>1, <3>3, BreaksType DEF New, IInv, Rules
    <3>5. New(0, no)
      BY <3>1, <3>2
    <3>6. ArrayInv' /\ ArrayFails' /\ (array' # NULL => array'.strict = no)
      BY <3>5, NewInv DEF IInv
    <3> QED
      BY <3>2, <3>4, <3>6
  <2>2. CASE StackPop
    BY <1>1, <2>2, PopInv DEF StackPop, IInv
  <2>3. CASE StackTop
    <3>1. Length \in Nat /\ Length - 1 \in 0 .. Length - 1 /\ array # NULL
      BY <2>3, LengthType DEF StackTop, IInv, Length
    <3>2. Length = array.length /\ array.length <= array.allocd /\ array.allocd <= array.room
      BY <1>1, <3>1, LengthType DEF IInv, ArrayInv, RoomEnough
    <3>3. array.allocd \in Nat /\ array.room \in Nat /\ slots \in [0 .. array.room - 1 -> Memory]
      BY <3>1 DEF IInv, ArrayInv, TypeOK, Header, Memory
    <3>4. Length - 1 \in 0 .. array.room - 1
      BY <3>1, <3>2, <3>3
    <3>5. answer' \in Memory
      BY <2>3, <3>3, <3>4 DEF StackTop
    <3> QED
      BY <1>1, <2>3, <3>5
      DEF StackTop, IInv, ArrayInv, ArrayFails, TypeOK, RoomEnough, Memory
  <2>4. CASE StackDelete
    <3>1. slips' = slips
      BY <2>4 DEF StackDelete, Delete
    <3> QED
      BY <2>4, <3>1, DeleteInv DEF StackDelete, IInv
  <2>5. ASSUME NEW v \in Values, StackPush(v)
        PROVE  /\ ArrayInv' /\ ArrayFails'
               /\ slips' = slips
               /\ array' # NULL => ~array'.strict
    BY <1>1, <1>3, <2>5, PushInv DEF StackPush, IInv
  <2> QED
    BY <2>1, <2>2, <2>3, <2>4, <2>5 DEF StackNext
<1>5. StackInv'
  BY <1>1, <1>4 DEF IInv, StackInv, Kinds, ArrayKinds, LinkedKinds, linked
<1> QED
  BY <1>2, <1>4, <1>5 DEF IInv

(* The array of a linked container stays as it is: only its answer and its  *)
(* fate, which never becomes undefined, are those of the program.           *)
LEMMA ArrayUntouched ==
  ASSUME IInv, kind \in LinkedKinds, UNCHANGED <<array, slots, slips, kind>>,
         answer' \in Memory, fate' \in {"ok", "aborted"}, LinkedInv'
  PROVE  IInv'
BY DEF IInv, ArrayInv, ArrayFails, StackInv, TypeOK, RoomEnough, Memory,
       LinkedKinds, ArrayKinds

LEMMA ValueIsMemory ==
  ASSUME LinkedInv, NEW n \in Allocated
  PROVE  value[n] \in Memory
BY DEF LinkedInv, Allocated, Memory

(* A stack or a queue in a deque. *)
LEMMA LinkedNextInv ==
  ASSUME IInv, kind \in LinkedKinds, LinkedNext, UNCHANGED kind
  PROVE  IInv'
<1>1. LinkedInv /\ answer \in Memory
  BY DEF IInv, ArrayInv, TypeOK, Memory
<1>2. Running /\ UNCHANGED <<array, slots, slips>>
  BY DEF LinkedNext, LinkedNew, LinkedPush, LinkedPop, LinkedPeek, LinkedDelete,
         LinkedDeleteNode, LinkedDeleteEnd, Idle, vars
<1>3. LinkedInv' /\ answer' \in Memory /\ fate' \in {"ok", "aborted"}
  <2>1. CASE LinkedNew
    BY <1>1, <1>2, <2>1, LinkedNewInv, LinkedUnchanged
    DEF LinkedNew, Allocate, Running, Idle
  <2>2. ASSUME NEW v \in Values, LinkedPush(v)
        PROVE  LinkedInv' /\ answer' \in Memory /\ fate' \in {"ok", "aborted"}
    <3>1. CASE fate' = "aborted" /\ UNCHANGED linked
      BY <1>1, <2>2, <3>1, LinkedUnchanged DEF LinkedPush
    <3>2. CASE ~(fate' = "aborted" /\ UNCHANGED linked)
      <4>1. live /\ UNCHANGED <<fate, answer>>
        BY <2>2, <3>2 DEF LinkedPush, Allocate
      <4>2. PICK n \in Nodes \ Allocated :
              /\ value' = [value EXCEPT ![n] = v]
              /\ ring' = AddBack(LinkInit(ring, n), Sentinel, n)
              /\ dqlength' = dqlength + 1
              /\ UNCHANGED <<live, emptying>>
        BY <2>2, <3>2, <4>1 DEF LinkedPush, Allocate
      <4> QED
        BY <1>1, <1>2, <4>1, <4>2, LinkedPushInv DEF Running
    <3> QED
      BY <3>1, <3>2
  <2>3. CASE LinkedPop
    <3>1. live /\ dqlength # 0 /\ Take /\ UNCHANGED <<live, emptying>>
      BY <1>1, <2>3 DEF LinkedPop, IsEmpty, LinkedInv
    <3>2. Served \in Allocated
      BY <1>1, <3>1, EndsAllocated DEF Served
    <3>3. answer' = value[Served]
      BY <2>3, <3>2 DEF LinkedPop
    <3> QED
      BY <1>1, <1>2, <3>1, <3>2, <3>3, TakeInv, ValueIsMemory DEF Running
  <2>4. CASE LinkedPeek
    <3>1. live /\ dqlength # 0
      BY <1>1, <2>4 DEF LinkedPeek, IsEmpty, LinkedInv
    <3>2. First \in Allocated /\ Last \in Allocated
      BY <1>1, <3>1, EndsAllocated
    <3>3. PICK n \in {First, Last} : answer' = value[n] /\ UNCHANGED fate
      BY <2>4, <3>2 DEF LinkedPeek, Served
    <3> QED
      BY <1>1, <1>2, <2>4, <3>2, <3>3, ValueIsMemory, LinkedUnchanged
      DEF LinkedPeek, Running
  <2>5. CASE LinkedDelete
    BY <1>1, <1>2, <2>5 DEF LinkedDelete, LinkedInv, vars, Running, Allocated
  <2>6. CASE LinkedDeleteNode
    <3>1. live /\ dqlength # 0 /\ Take /\ UNCHANGED <<live, emptying>>
      BY <1>1, <2>6 DEF LinkedDeleteNode, LinkedInv
    <3> QED
      BY <1>1, <1>2, <2>6, <3>1, TakeInv DEF LinkedDeleteNode, Running
  <2>7. CASE LinkedDeleteEnd
    <3>1. Allocated = {}
      BY <1>1, <2>7 DEF LinkedDeleteEnd, LinkedInv, Elements
    <3> QED
      BY <1>1, <1>2, <2>7, <3>1 DEF LinkedDeleteEnd, LinkedInv, vars, Running, Allocated
  <2> QED
    BY <2>1, <2>2, <2>3, <2>4, <2>5, <2>6, <2>7 DEF LinkedNext
<1> QED
  BY <1>2, <1>3, ArrayUntouched

LEMMA NextInv == IInv /\ [AdaptersNext]_allvars => IInv'
<1> SUFFICES ASSUME IInv, [AdaptersNext]_allvars PROVE IInv'
  OBVIOUS
<1>1. CASE kind = "array" /\ Next /\ UNCHANGED <<linked, kind>>
  BY <1>1, ArrayNextInv
<1>2. CASE StackNext /\ UNCHANGED <<linked, kind>>
  BY <1>2, StackNextInv
<1>3. CASE LinkedNext /\ UNCHANGED kind
  <2>1. kind \in LinkedKinds
    BY <1>3 DEF LinkedNext, LinkedNew, LinkedPush, LinkedPop, LinkedPeek, LinkedDelete,
                LinkedDeleteNode, LinkedDeleteEnd, Idle, IInv, StackInv, Kinds
  <2> QED
    BY <1>3, <2>1, LinkedNextInv
<1>4. CASE UNCHANGED allvars
  BY <1>4 DEF IInv, ArrayInv, ArrayFails, StackInv, LinkedInv, TypeOK, RoomEnough,
              Allocated, allvars, vars, linked
<1> QED
  BY <1>1, <1>2, <1>3, <1>4 DEF AdaptersNext, Halted, allvars

LEMMA Invariant == AdaptersSpec => []IInv
<1> QED
  BY InitInv, NextInv, PTL DEF AdaptersSpec

(* The two computations of 1.3 agree, in floating point and in integers,    *)
(* for elements of any size: what allocd promises there is room for.        *)
THEOREM RoomSuffices == AdaptersSpec => []RoomEnough
<1>1. IInv => RoomEnough
  BY DEF IInv, ArrayInv
<1> QED
  BY <1>1, Invariant, PTL

(* Stacks and queues of any size never use a node that is not theirs, read  *)
(* or write outside their block or break a rule of the array below them.    *)
THEOREM ContainersStaySound == AdaptersSpec => []FailsOnlyMisused
<1>1. IInv => FailsOnlyMisused
  BY DEF IInv, StackInv, ArrayFails, FailsOnlyMisused, Kinds
<1> QED
  BY <1>1, Invariant, PTL

-----------------------------------------------------------------------------
(* The nodes of a deque that is not NULL can be gone through both ways. *)
LEMMA NodesInOrder ==
  ASSUME LinkedInv, live
  PROVE  /\ Range(Forward) = Allocated
         /\ dqlength = Len(Forward) /\ Len(Backward) = dqlength
         /\ \A i \in 1 .. dqlength : Backward[i] = Forward[dqlength + 1 - i]
<1>1. PICK f \in Numbering(Cells, dqlength) :
        Ordered(ring, Sentinel, f, dqlength) /\ Elements(f, dqlength) = Allocated
  BY DEF LinkedInv
<1>2. dqlength \in Nat /\ ring \in Rings(Cells) /\ Sentinel \in Cells
  BY DEF LinkedInv, Cells
<1>3. Cardinality(Nodes) \in Nat /\ dqlength \in 0 .. Cardinality(Nodes)
  <2>1. Elements(f, dqlength) \subseteq Nodes /\ IsFiniteSet(Nodes)
    BY <1>1, AdaptersAssumption DEF Allocated
  <2>2. Cardinality(Elements(f, dqlength)) = dqlength
    BY <1>1, <1>2, NumbersCount DEF Ordered
  <2>3. Cardinality(Elements(f, dqlength)) <= Cardinality(Nodes)
    BY <2>1, FS_Subset
  <2>4. Cardinality(Nodes) \in Nat
    BY <2>1, FS_CardinalityType
  <2> QED
    BY <1>2, <2>2, <2>3, <2>4
<1>4. Forward = Numbered(f, dqlength) /\ Backward = [i \in 1 .. dqlength |-> f[dqlength + 1 - i]]
  BY <1>1, <1>2, <1>3, AroundInOrder DEF Forward, Backward
<1>5. \A i \in 1 .. dqlength : f[i] \in Cells /\ f[dqlength + 1 - i] \in Cells
                               /\ dqlength + 1 - i \in 1 .. dqlength
  BY <1>1, <1>2 DEF Numbering
<1>6. Len(Forward) = dqlength /\ DOMAIN Forward = 1 .. dqlength
      /\ \A i \in 1 .. dqlength : Forward[i] = f[i]
  BY <1>2, <1>4, <1>5 DEF Numbered
<1>7. Len(Backward) = dqlength /\ \A i \in 1 .. dqlength : Backward[i] = f[dqlength + 1 - i]
  BY <1>2, <1>4, <1>5
<1>8. Range(Forward) = Elements(f, dqlength)
  BY <1>6 DEF Range, Elements
<1> QED
  BY <1>1, <1>5, <1>6, <1>7, <1>8

(* No node of a stack or a queue leaks, is used after it was freed, or is   *)
(* lost on the way back: going through a container of any length, from      *)
(* either end, meets the nodes that malloc has given out, once each.        *)
THEOREM NodesStayExact == AdaptersSpec => []NodesExact
<1>1. IInv => NodesExact
  BY NodesInOrder DEF IInv, LinkedInv, NodesExact
<1> QED
  BY <1>1, Invariant, PTL

-----------------------------------------------------------------------------
(* The abstract steps *)

MapStep == Abstract!Next \/ UNCHANGED <<Items, answer>>
Counts  == fate' = "ok" /\ slips' = {}

LEMMA SameDiscipline == UNCHANGED kind => UNCHANGED Discipline
BY DEF Discipline

LEMMA StepSame == UNCHANGED <<Items, answer>> => MapStep
BY DEF MapStep

LEMMA StepClear ==
  ASSUME UNCHANGED <<kind, answer>>, Items' = << >> PROVE MapStep
BY SameDiscipline DEF MapStep, Abstract!Next, Abstract!Clear

LEMMA StepPush ==
  ASSUME UNCHANGED <<kind, answer>>, NEW v \in Values, Items' = Append(Items, v) PROVE MapStep
BY SameDiscipline DEF MapStep, Abstract!Next, Abstract!Push

LEMMA StepPopLast ==
  ASSUME UNCHANGED kind, kind # "queue", Items # << >>, answer' = Items[Len(Items)],
         Items' = SubSeq(Items, 1, Len(Items) - 1)
  PROVE  MapStep
<1>1. Discipline # "fifo"
  BY DEF Discipline
<1>2. Abstract!Pop
  BY <1>1 DEF Abstract!Pop, Abstract!Last, Abstract!Upto
<1> QED
  BY <1>2, SameDiscipline DEF MapStep, Abstract!Next

LEMMA StepPopFirst ==
  ASSUME UNCHANGED kind, kind = "queue", Items # << >>, answer' = Items[1], Items' = Tail(Items)
  PROVE  MapStep
<1>1. Discipline = "fifo"
  BY DEF Discipline
<1>2. Abstract!Pop
  BY <1>1 DEF Abstract!Pop, Abstract!First
<1> QED
  BY <1>2, SameDiscipline DEF MapStep, Abstract!Next

LEMMA StepPeek ==
  ASSUME UNCHANGED <<kind, Items>>, Items # << >>,
         answer' = Items[Len(Items)] \/ (kind = "queue" /\ answer' = Items[1])
  PROVE  MapStep
<1>1. kind = "queue" => Discipline = "fifo"
  BY DEF Discipline
<1>2. Abstract!Peek
  BY <1>1 DEF Abstract!Peek, Abstract!Last, Abstract!First
<1> QED
  BY <1>2, SameDiscipline DEF MapStep, Abstract!Next

LEMMA StepResize ==
  ASSUME UNCHANGED <<kind, answer>>, kind = "array",
         \/ Len(Items') <= Len(Items) /\ Items' = SubSeq(Items, 1, Len(Items'))
         \/ Len(Items') > Len(Items) /\ Items = SubSeq(Items', 1, Len(Items))
  PROVE  MapStep
<1>1. Discipline = "array"
  BY DEF Discipline
<1>2. Abstract!Resize
  BY <1>1 DEF Abstract!Resize, Abstract!Upto
<1> QED
  BY <1>2, SameDiscipline DEF MapStep, Abstract!Next

-----------------------------------------------------------------------------
(* The stack and the queue in a deque *)

Listed(f, n, val) == [i \in 1 .. n |-> val[f[i]]]

LEMMA RoundIs ==
  ASSUME NEW r \in Rings(Cells), NEW n \in Nat, NEW f \in Numbering(Cells, n),
         Ordered(r, Sentinel, f, n), Elements(f, n) \subseteq Nodes
  PROVE  Around(r.next, Sentinel, Cardinality(Nodes)) = Numbered(f, n)
<1>1. Cardinality(Nodes) \in Nat /\ Cardinality(Elements(f, n)) <= Cardinality(Nodes)
  BY AdaptersAssumption, FS_CardinalityType, FS_Subset
<1>2. Cardinality(Elements(f, n)) = n
  BY NumbersCount DEF Ordered
<1>3. n \in 0 .. Cardinality(Nodes) /\ Sentinel \in Cells
  BY <1>1, <1>2 DEF Cells
<1>4. PICK m \in Nat : m = Cardinality(Nodes)
  BY <1>1
<1>5. n \in 0 .. m
  BY <1>3, <1>4
<1>6. f \in Numbering(Cells, n) /\ Ordered(r, Sentinel, f, n) /\ r \in Rings(Cells)
  OBVIOUS
<1>7. /\ Around(r.next, Sentinel, m) = Numbered(f, n)
      /\ Around(r.prev, Sentinel, m) = [i \in 1 .. n |-> f[n + 1 - i]]
  BY <1>3, <1>5, <1>6, AroundInOrder
<1> QED
  BY <1>4, <1>7

LEMMA ItemsAre ==
  ASSUME kind \in LinkedKinds, live, ~emptying, ring \in Rings(Cells), NEW n \in Nat,
         NEW f \in Numbering(Cells, n), Ordered(ring, Sentinel, f, n), Elements(f, n) \subseteq Nodes
  PROVE  Items = Listed(f, n, value)
<1>1. Forward = Numbered(f, n)
  BY RoundIs DEF Forward
<1>2. Items = [i \in DOMAIN Forward |-> value[Forward[i]]]
  BY DEF Items, LinkedKinds, ArrayKinds
<1> QED
  BY <1>1, <1>2 DEF Numbered, Listed

LEMMA ItemsAreThen ==
  ASSUME kind' \in LinkedKinds, live', ~emptying', ring' \in Rings(Cells), NEW n \in Nat,
         NEW f \in Numbering(Cells, n), Ordered(ring', Sentinel, f, n), Elements(f, n) \subseteq Nodes
  PROVE  Items' = Listed(f, n, value')
<1>1. Forward' = Numbered(f, n)
  BY RoundIs DEF Forward
<1>2. Items' = [i \in DOMAIN Forward' |-> value'[Forward'[i]]]
  BY DEF Items, LinkedKinds, ArrayKinds
<1> QED
  BY <1>1, <1>2 DEF Numbered, Listed

LEMMA ListedType ==
  ASSUME NEW n \in Nat, NEW f, NEW val, \A e \in Elements(f, n) : val[e] \in Values
  PROVE  Listed(f, n, val) \in [1 .. n -> Values]
BY DEF Listed, Elements

LEMMA NoItems ==
  ASSUME kind \in LinkedKinds PROVE ~live \/ emptying => Items = << >>
BY DEF Items, LinkedKinds, ArrayKinds

LEMMA NoItemsThen ==
  ASSUME kind' \in LinkedKinds PROVE ~live' \/ emptying' => Items' = << >>
BY DEF Items, LinkedKinds, ArrayKinds

(* The order in which the nodes are, and what they hold. *)
LEMMA OrderIs ==
  ASSUME LinkedInv, live
  PROVE  /\ dqlength \in Nat /\ ring \in Rings(Cells) /\ Sentinel \in Cells
         /\ \A e \in Allocated : value[e] \in Values /\ e \in Nodes
         /\ \E f \in Numbering(Cells, dqlength) :
              Ordered(ring, Sentinel, f, dqlength) /\ Elements(f, dqlength) = Allocated
BY DEF LinkedInv, Cells, Allocated

LEMMA LinkedPushStep ==
  ASSUME LinkedInv, kind \in LinkedKinds, UNCHANGED <<kind, answer>>, live, ~emptying,
         NEW v \in Values, NEW e \in Nodes \ Allocated,
         value' = [value EXCEPT ![e] = v],
         ring' = AddBack(LinkInit(ring, e), Sentinel, e),
         UNCHANGED <<live, emptying>>
  PROVE  MapStep
<1>1. /\ dqlength \in Nat /\ ring \in Rings(Cells) /\ Sentinel \in Cells
      /\ \A x \in Allocated : value[x] \in Values /\ x \in Nodes
  BY OrderIs
<1>2. PICK f \in Numbering(Cells, dqlength) :
        Ordered(ring, Sentinel, f, dqlength) /\ Elements(f, dqlength) = Allocated
  BY OrderIs
<1>3. PICK n \in Nat : n = dqlength
  BY <1>1
<1>4. f \in Numbering(Cells, n) /\ Ordered(ring, Sentinel, f, n) /\ Elements(f, n) = Allocated
  BY <1>2, <1>3
<1>5. e \in Cells /\ e # Sentinel /\ e \notin Elements(f, n)
  BY <1>4, AdaptersAssumption DEF Cells
<1>6. /\ ring' \in Rings(Cells)
      /\ \E g \in Numbering(Cells, n + 1) :
           /\ Ordered(ring', Sentinel, g, n + 1)
           /\ Elements(g, n + 1) = Elements(f, n) \cup {e}
           /\ g[n + 1] = e /\ \A i \in 1 .. n : g[i] = f[i]
  <2> DEFINE t == AddBack(LinkInit(ring, e), Sentinel, e)
  <2>1. /\ t \in Rings(Cells)
        /\ \E g \in Numbering(Cells, n + 1) :
             /\ Ordered(t, Sentinel, g, n + 1)
             /\ Elements(g, n + 1) = Elements(f, n) \cup {e}
             /\ g[n + 1] = e /\ \A i \in 1 .. n : g[i] = f[i]
    BY <1>1, <1>4, <1>5, AddBackOrdered
  <2>2. ring' = t
    OBVIOUS
  <2> HIDE DEF t
  <2> QED
    BY <2>1, <2>2
<1>7. PICK g \in Numbering(Cells, n + 1) :
           /\ Ordered(ring', Sentinel, g, n + 1)
           /\ Elements(g, n + 1) = Elements(f, n) \cup {e}
           /\ g[n + 1] = e /\ \A i \in 1 .. n : g[i] = f[i]
  BY <1>6
<1> DEFINE s == Listed(f, n, value)
           u == Listed(g, n + 1, value')
<1>8. Items = s
  BY <1>1, <1>4, ItemsAre
<1>9. Items' = u
  <2>1. Elements(g, n + 1) \subseteq Nodes /\ n + 1 \in Nat
    BY <1>1, <1>4, <1>7
  <2>2. kind' \in LinkedKinds /\ live' /\ ~emptying'
    OBVIOUS
  <2> QED
    BY <1>6, <1>7, <2>1, <2>2, ItemsAreThen
<1>10. s \in [1 .. n -> Values]
  BY <1>1, <1>4, ListedType
<1>11. value'[e] = v /\ \A x \in Allocated : value'[x] = value[x]
  BY DEF LinkedInv
<1>12. u \in [1 .. n + 1 -> Values]
  <2>1. \A x \in Elements(g, n + 1) : value'[x] \in Values
    BY <1>1, <1>4, <1>7, <1>11
  <2>2. n + 1 \in Nat
    OBVIOUS
  <2> QED
    BY <2>1, <2>2, ListedType
<1>13. u[n + 1] = v /\ \A i \in 1 .. n : u[i] = s[i]
  <2>1. \A i \in 1 .. n : f[i] \in Allocated
    BY <1>4 DEF Elements
  <2>2. \A i \in 1 .. n + 1 : u[i] = value'[g[i]]
    BY DEF Listed
  <2>3. n + 1 \in 1 .. n + 1 /\ \A i \in 1 .. n : i \in 1 .. n + 1
    OBVIOUS
  <2>4. \A i \in 1 .. n : s[i] = value[f[i]]
    BY DEF Listed
  <2> HIDE DEF u, s
  <2> QED
    BY <1>7, <1>11, <2>1, <2>2, <2>3, <2>4
<1> HIDE DEF s, u
<1>14. Items' = Append(Items, v)
  BY <1>8, <1>9, <1>10, <1>12, <1>13, Grown
<1> QED
  BY <1>14, StepPush

(* What a node at one of the ends holds is at that end. *)
LEMMA EndsAre ==
  ASSUME LinkedInv, kind \in LinkedKinds, live, ~emptying, dqlength # 0
  PROVE  /\ First \in Allocated /\ Last \in Allocated
         /\ Items # << >> /\ Items[1] = value[First] /\ Items[Len(Items)] = value[Last]
<1>1. /\ dqlength \in Nat /\ ring \in Rings(Cells) /\ Sentinel \in Cells
      /\ \A x \in Allocated : value[x] \in Values /\ x \in Nodes
  BY OrderIs
<1>2. PICK f \in Numbering(Cells, dqlength) :
        Ordered(ring, Sentinel, f, dqlength) /\ Elements(f, dqlength) = Allocated
  BY OrderIs
<1>3. PICK n \in Nat \ {0} : n = dqlength
  BY <1>1
<1>4. f \in Numbering(Cells, n) /\ Ordered(ring, Sentinel, f, n) /\ Elements(f, n) = Allocated
  BY <1>2, <1>3
<1>5. First = f[1]
  BY <1>1, <1>4, DeleteFrontOrdered DEF First
<1>6. Last = f[n]
  BY <1>1, <1>4, DeleteBackOrdered DEF Last
<1>7. Items = Listed(f, n, value)
  BY <1>1, <1>4, ItemsAre
<1>8. Items \in [1 .. n -> Values]
  BY <1>1, <1>4, <1>7, ListedType
<1>9. Len(Items) = n /\ Items # << >>
  BY <1>8, AsSeq
<1>10. 1 \in 1 .. n /\ n \in 1 .. n
  OBVIOUS
<1>11. Items[1] = value[f[1]] /\ Items[n] = value[f[n]]
  BY <1>7, <1>10 DEF Listed
<1> QED
  BY <1>5, <1>6, <1>9, <1>11, EndsAllocated

LEMMA LinkedPopStep ==
  ASSUME LinkedInv, kind \in LinkedKinds, UNCHANGED kind, LinkedPop PROVE MapStep
<1>1. live /\ ~emptying /\ dqlength # 0 /\ Take /\ UNCHANGED <<live, emptying>>
  BY DEF LinkedPop, IsEmpty, LinkedInv, Idle
<1>2. /\ First \in Allocated /\ Last \in Allocated
      /\ Items # << >> /\ Items[1] = value[First] /\ Items[Len(Items)] = value[Last]
  BY <1>1, EndsAre
<1>3. Served \in Allocated /\ answer' = value[Served]
  BY <1>2 DEF Served, LinkedPop
<1>4. /\ ring' = IF kind = "queue" THEN DeleteFront(ring, Sentinel)
                                   ELSE DeleteBack(ring, Sentinel)
      /\ value' = [value EXCEPT ![Served] = None]
  BY <1>1, <1>3 DEF Take, Dispose
<1>5. /\ dqlength \in Nat /\ ring \in Rings(Cells) /\ Sentinel \in Cells
      /\ \A x \in Allocated : value[x] \in Values /\ x \in Nodes
  BY <1>1, OrderIs
<1>6. PICK f \in Numbering(Cells, dqlength) :
        Ordered(ring, Sentinel, f, dqlength) /\ Elements(f, dqlength) = Allocated
  BY <1>1, OrderIs
<1>7. PICK n \in Nat \ {0} : n = dqlength
  BY <1>1, <1>5
<1>8. f \in Numbering(Cells, n) /\ Ordered(ring, Sentinel, f, n) /\ Elements(f, n) = Allocated
  BY <1>6, <1>7
<1>9. \A i, j \in 1 .. n : f[i] = f[j] => i = j
  BY <1>8 DEF Ordered
<1>10. Items = Listed(f, n, value) /\ Items \in [1 .. n -> Values]
  BY <1>1, <1>5, <1>8, ItemsAre, ListedType
<1>11. Len(Items) = n
  BY <1>10, AsSeq
<1>12. \A x \in Allocated \ {Served} : value'[x] = value[x]
  BY <1>4 DEF LinkedInv, Allocated
<1>13. n - 1 \in Nat /\ n - 1 \in 0 .. n
  OBVIOUS
<1>14. CASE kind = "queue"
  <2>1. Served = ring.next[Sentinel] /\ ring' = DeleteFront(ring, Sentinel)
    BY <1>4, <1>14 DEF Served, First
  <2>2. /\ ring' \in Rings(Cells) /\ Served = f[1]
        /\ \E g \in Numbering(Cells, n - 1) :
             /\ Ordered(ring', Sentinel, g, n - 1)
             /\ Elements(g, n - 1) = Elements(f, n) \ {Served}
             /\ \A i \in 1 .. n - 1 : g[i] = f[i + 1]
    <3> DEFINE t == DeleteFront(ring, Sentinel)
               d == ring.next[Sentinel]
    <3>1. /\ t \in Rings(Cells) /\ d = f[1]
          /\ \E g \in Numbering(Cells, n - 1) :
               /\ Ordered(t, Sentinel, g, n - 1)
               /\ Elements(g, n - 1) = Elements(f, n) \ {d}
               /\ \A i \in 1 .. n - 1 : g[i] = f[i + 1]
      BY <1>5, <1>8, DeleteFrontOrdered
    <3>2. ring' = t /\ Served = d
      BY <2>1
    <3> HIDE DEF t, d
    <3> QED
      BY <3>1, <3>2
  <2>3. PICK g \in Numbering(Cells, n - 1) :
             /\ Ordered(ring', Sentinel, g, n - 1)
             /\ Elements(g, n - 1) = Elements(f, n) \ {Served}
             /\ \A i \in 1 .. n - 1 : g[i] = f[i + 1]
    BY <2>2
  <2>4. Items' = Listed(g, n - 1, value')
    BY <1>1, <1>5, <1>8, <1>13, <2>2, <2>3, ItemsAreThen
  <2>5. Items' \in [1 .. n - 1 -> Values]
    BY <1>5, <1>8, <1>12, <1>13, <2>3, <2>4, ListedType
  <2>6. ASSUME NEW i \in 1 .. n - 1 PROVE Items'[i] = Items[i + 1]
    <3>1. i + 1 \in 1 .. n /\ i + 1 # 1
      OBVIOUS
    <3>2. f[i + 1] \in Allocated \ {Served}
      BY <1>8, <1>9, <2>2, <3>1 DEF Elements
    <3>3. Items'[i] = value'[f[i + 1]] /\ Items[i + 1] = value[f[i + 1]]
      BY <1>10, <2>3, <2>4, <3>1 DEF Listed
    <3> QED
      BY <1>12, <3>2, <3>3
  <2>7. Items' = Tail(Items)
    BY <1>10, <2>5, <2>6, TailIs
  <2> QED
    BY <1>2, <1>3, <1>14, <2>7, StepPopFirst DEF Served
<1>15. CASE kind # "queue"
  <2>1. Served = ring.prev[Sentinel] /\ ring' = DeleteBack(ring, Sentinel)
    BY <1>4, <1>15 DEF Served, Last
  <2>2. /\ ring' \in Rings(Cells) /\ Served = f[n]
        /\ \E g \in Numbering(Cells, n - 1) :
             /\ Ordered(ring', Sentinel, g, n - 1)
             /\ Elements(g, n - 1) = Elements(f, n) \ {Served}
             /\ \A i \in 1 .. n - 1 : g[i] = f[i]
    <3> DEFINE t == DeleteBack(ring, Sentinel)
               d == ring.prev[Sentinel]
    <3>1. /\ t \in Rings(Cells) /\ d = f[n]
          /\ \E g \in Numbering(Cells, n - 1) :
               /\ Ordered(t, Sentinel, g, n - 1)
               /\ Elements(g, n - 1) = Elements(f, n) \ {d}
               /\ \A i \in 1 .. n - 1 : g[i] = f[i]
      BY <1>5, <1>8, DeleteBackOrdered
    <3>2. ring' = t /\ Served = d
      BY <2>1
    <3> HIDE DEF t, d
    <3> QED
      BY <3>1, <3>2
  <2>3. PICK g \in Numbering(Cells, n - 1) :
             /\ Ordered(ring', Sentinel, g, n - 1)
             /\ Elements(g, n - 1) = Elements(f, n) \ {Served}
             /\ \A i \in 1 .. n - 1 : g[i] = f[i]
    BY <2>2
  <2>4. Items' = Listed(g, n - 1, value')
    BY <1>1, <1>5, <1>8, <1>13, <2>2, <2>3, ItemsAreThen
  <2>5. Items' \in [1 .. n - 1 -> Values]
    BY <1>5, <1>8, <1>12, <1>13, <2>3, <2>4, ListedType
  <2>6. ASSUME NEW i \in 1 .. n - 1 PROVE Items'[i] = Items[i]
    <3>1. i \in 1 .. n /\ i # n /\ n \in 1 .. n
      OBVIOUS
    <3>2. f[i] \in Allocated \ {Served}
      BY <1>8, <1>9, <2>2, <3>1 DEF Elements
    <3>3. Items'[i] = value'[f[i]] /\ Items[i] = value[f[i]]
      BY <1>10, <2>3, <2>4, <3>1 DEF Listed
    <3> QED
      BY <1>12, <3>2, <3>3
  <2>7. Items' = SubSeq(Items, 1, n - 1)
    BY <1>10, <1>13, <2>5, <2>6, Prefix
  <2> QED
    BY <1>2, <1>3, <1>11, <1>15, <2>7, StepPopLast DEF Served
<1> QED
  BY <1>14, <1>15

LEMMA LinkedStep ==
  ASSUME IInv, kind \in LinkedKinds, UNCHANGED kind, LinkedNext, Counts PROVE MapStep
<1>1. LinkedInv
  BY DEF IInv
<1>2. fate' # "aborted"
  BY DEF Counts
<1>3. CASE LinkedNew
  <2>1. /\ ~live /\ ~emptying /\ UNCHANGED answer
        /\ live' = TRUE /\ ring' = LinkInit(ring, Sentinel) /\ UNCHANGED emptying
    BY <1>2, <1>3 DEF LinkedNew, Allocate, Idle
  <2>2. Items = << >>
    BY <2>1, NoItems
  <2>3. /\ ring' \in Rings(Cells)
        /\ \E f \in Numbering(Cells, 0) : Ordered(ring', Sentinel, f, 0)
    BY <1>1, <2>1, InitOrdered DEF LinkedInv, Cells
  <2>4. PICK f \in Numbering(Cells, 0) : Ordered(ring', Sentinel, f, 0)
    BY <2>3
  <2>5. Elements(f, 0) \subseteq Nodes
    BY DEF Elements
  <2>6. Items' = Listed(f, 0, value')
    BY <2>1, <2>3, <2>4, <2>5, ItemsAreThen
  <2>7. Items' = << >>
    BY <2>6 DEF Listed
  <2> QED
    BY <2>1, <2>2, <2>7, StepSame
<1>4. ASSUME NEW v \in Values, LinkedPush(v) PROVE MapStep
  <2>1. live /\ ~emptying /\ UNCHANGED answer
    BY <1>2, <1>4 DEF LinkedPush, Idle
  <2>2. PICK e \in Nodes \ Allocated :
          /\ value' = [value EXCEPT ![e] = v]
          /\ ring' = AddBack(LinkInit(ring, e), Sentinel, e)
          /\ UNCHANGED <<live, emptying>>
    BY <1>2, <1>4, <2>1 DEF LinkedPush, Allocate
  <2> QED
    BY <1>1, <2>1, <2>2, LinkedPushStep
<1>5. CASE LinkedPop
  BY <1>1, <1>5, LinkedPopStep
<1>6. CASE LinkedPeek
  <2>1. live /\ ~emptying /\ dqlength # 0 /\ UNCHANGED linked
    BY <1>1, <1>6 DEF LinkedPeek, IsEmpty, LinkedInv, Idle
  <2>2. /\ First \in Allocated /\ Last \in Allocated
        /\ Items # << >> /\ Items[1] = value[First] /\ Items[Len(Items)] = value[Last]
    BY <1>1, <2>1, EndsAre
  <2>3. answer' = value[Last] \/ (kind = "queue" /\ answer' = value[First])
    BY <1>6, <2>2 DEF LinkedPeek, Served
  <2>4. UNCHANGED Items
    <3>1. UNCHANGED <<array, slots>>
      BY <1>6 DEF LinkedPeek
    <3> QED
      BY <2>1, <3>1 DEF Items, linked, Forward, Length
  <2> QED
    BY <2>2, <2>3, <2>4, StepPeek
<1>7. CASE LinkedDelete
  <2>1. emptying' /\ UNCHANGED answer
    BY <1>7 DEF LinkedDelete, vars
  <2> QED
    BY <2>1, NoItemsThen, StepClear
<1>8. CASE LinkedDeleteNode
  <2>1. emptying /\ UNCHANGED <<answer, emptying>>
    BY <1>8 DEF LinkedDeleteNode
  <2> QED
    BY <2>1, NoItems, NoItemsThen, StepSame
<1>9. CASE LinkedDeleteEnd
  <2>1. emptying /\ ~live' /\ UNCHANGED answer
    BY <1>9 DEF LinkedDeleteEnd, vars
  <2> QED
    BY <2>1, NoItems, NoItemsThen, StepSame
<1> QED
  BY <1>3, <1>4, <1>5, <1>6, <1>7, <1>8, <1>9 DEF LinkedNext

-----------------------------------------------------------------------------
(* The array *)

At(s, k) == IF k \in DOMAIN s THEN s[k] ELSE Junk

Held(s, n) == [j \in 1 .. n |-> At(s, j - 1)]

LEMMA HeldType ==
  ASSUME NEW n \in Nat, NEW s, \A k \in DOMAIN s : s[k] \in Memory
  PROVE  Held(s, n) \in [1 .. n -> Memory]
BY DEF Held, At, Memory

LEMMA ItemsHeld == kind \in ArrayKinds => Items = Held(slots, Length)
BY DEF Items, Held, At

LEMMA ItemsHeldThen == kind' \in ArrayKinds => Items' = Held(slots', Length')
BY DEF Items, Held, At

LEMMA ItemsType ==
  ASSUME ArrayInv, kind \in ArrayKinds
  PROVE  Items \in [1 .. Length -> Memory]
BY ItemsHeld, HeldType, NowFilled, LengthType

LEMMA ItemsTypeThen ==
  ASSUME ArrayInv', kind' \in ArrayKinds
  PROVE  Items' \in [1 .. Length' -> Memory] /\ Length' \in Nat
<1>1. \A k \in DOMAIN slots' : slots'[k] \in Memory
  <2>1. CASE array' = NULL
    BY <2>1 DEF ArrayInv, TypeOK
  <2>2. CASE array' # NULL
    BY <2>2 DEF ArrayInv, TypeOK, Memory
  <2> QED
    BY <2>1, <2>2
<1>2. Length' \in Nat
  BY DEF ArrayInv, TypeOK, Length, Header
<1> QED
  BY <1>1, <1>2, ItemsHeldThen, HeldType

(* No array is as long as a size_t is wide. *)
LengthBound == array # NULL => array.length < SizeLimit

LEMMA RequestFits ==
  ASSUME NEW n \in Requests PROVE n \in Nat /\ n < SizeLimit
BY ArrayAssumption

LEMMA PushedFits ==
  ASSUME ArrayInv, Length < MaxLength
  PROVE  Length + 1 \in Nat /\ Length + 1 < SizeLimit /\ (Length + 1) * Size < SizeLimit
<1> DEFINE n == Length + 1
<1>1. n \in Nat /\ n <= MaxLength
  BY LengthType, ArrayAssumption
<1>2. ~IsHuge(n)
  BY <1>1, ShortFits
<1>3. Size \in Nat /\ Size > 0 /\ SizeLimit \in Nat
  BY ArrayAssumption
<1> HIDE DEF n
<1>4. n * Size \in Nat /\ n * Size < SizeLimit
  BY <1>1, <1>2, <1>3 DEF IsHuge
<1>5. n <= n * Size
  BY <1>1, <1>3
<1>6. n < SizeLimit
  BY <1>1, <1>3, <1>4, <1>5
<1> QED
  BY <1>1, <1>4, <1>6 DEF n

LEMMA ResizedShort ==
  ASSUME ArrayInv, LengthBound, NEW n \in Nat, n < SizeLimit, NEW o \in Resized(n), o.array # NULL
  PROVE  o.array.length < SizeLimit
<1>1. /\ o.fate # "ok" => o.array = array
      /\ o.fate = "ok" => array # NULL
      /\ o.fate = "ok" /\ ~(array.strict /\ array.allocd < n) => o.array.length = n
      /\ o.fate = "ok" /\ array.strict /\ array.allocd < n => o = Unchanged("ok")
  BY ResizedFilled
<1>2. Unchanged("ok").array = array
  BY DEF Unchanged, Outcome
<1> QED
  BY <1>1, <1>2 DEF LengthBound

LEMMA ArrayShort ==
  ASSUME ArrayInv, LengthBound,
         \/ Delete \/ Pop
         \/ \E n \in Requests : Resize(n) \/ \E strict \in BOOLEAN : New(n, strict)
         \/ New(0, FALSE)
         \/ \E v \in Values : Push(v)
  PROVE  LengthBound'
<1>1. CASE Delete
  BY <1>1 DEF Delete, Become, Outcome, LengthBound
<1>2. CASE Pop
  <2> DEFINE n == (Length - 1) % SizeLimit
  <2>1. n \in Nat /\ n < SizeLimit
    BY LengthType, ArrayAssumption
  <2>2. PICK o \in Resized(n) : Become(o)
    BY <1>2 DEF Pop
  <2> HIDE DEF n
  <2> QED
    BY <2>1, <2>2, ResizedShort DEF Become, LengthBound
<1>3. ASSUME NEW n \in Requests, Resize(n) PROVE LengthBound'
  <2>1. PICK o \in Resized(n) : Become(o)
    BY <1>3 DEF Resize
  <2> QED
    BY <2>1, RequestFits, ResizedShort DEF Become, LengthBound
<1>4. ASSUME NEW n \in Nat, n < SizeLimit, NEW strict, New(n, strict) PROVE LengthBound'
  BY <1>4 DEF New, Become, Block, Unchanged, Outcome, LengthBound
<1>5. ASSUME NEW v \in Values, Push(v) PROVE LengthBound'
  <2> DEFINE n == Length + 1
  <2>1. n \in Nat /\ n < SizeLimit
    BY <1>5, PushedFits DEF Push
  <2>2. PICK o \in Resized(n) : IF o.fate = "ok" THEN Store(o, v) ELSE Become(o)
    BY <1>5 DEF Push
  <2> HIDE DEF n
  <2>3. Filled(o)
    BY <2>1, ResizedFilled
  <2>4. array' = o.array
    BY <2>2, <2>3 DEF Store, Become, Filled, Outcome
  <2> QED
    BY <2>1, <2>4, ResizedShort DEF LengthBound
<1>6. CASE New(0, FALSE)
  <2>1. PICK no \in BOOLEAN : no = FALSE
    OBVIOUS
  <2>2. New(0, no)
    BY <1>6, <2>1
  <2>3. 0 \in Nat /\ 0 < SizeLimit
    BY ArrayAssumption
  <2> QED
    BY <1>4, <2>2, <2>3
<1>7. ASSUME NEW n \in Requests, NEW strict \in BOOLEAN, New(n, strict) PROVE LengthBound'
  BY <1>4, <1>7, RequestFits
<1> QED
  BY <1>1, <1>2, <1>3, <1>5, <1>6, <1>7

(* What is in an array is where it was after a resize. *)
LEMMA ResizedKeeps ==
  ASSUME ArrayInv, NEW n \in Nat, NEW o \in Resized(n), o.fate = "ok",
         n * Size < SizeLimit \/ array.allocd >= n
  PROVE  \A k \in 0 .. n - 1 : At(o.slots, k) = At(slots, k)
<1>1. \/ o.slots = slots
      \/ array # NULL /\ ~(array.allocd >= n) /\ o = Block(n, FALSE, slots)
  <2>1. CASE array = NULL
    <3>1. o = Unchanged("aborted")
      BY <2>1 DEF Resized
    <3> QED
      BY <3>1 DEF Unchanged, Outcome
  <2>2. CASE array # NULL /\ array.allocd >= n
    <3>1. o = Outcome([array EXCEPT !.length = n], slots, "ok")
      BY <2>2 DEF Resized
    <3> QED
      BY <3>1 DEF Outcome
  <2>3. CASE array # NULL /\ ~(array.allocd >= n) /\ array.strict
    <3>1. o = Unchanged("ok")
      BY <2>3 DEF Resized
    <3> QED
      BY <3>1 DEF Unchanged, Outcome
  <2>4. CASE array # NULL /\ ~(array.allocd >= n) /\ ~array.strict
    <3>1. o \in {Unchanged("aborted"), Block(n, FALSE, slots), Unchanged("undefined")}
      <4>1. array # NULL /\ ~(array.allocd >= n) /\ ~array.strict
        BY <2>4
      <4> QED
        BY <4>1 DEF Resized
    <3>2. Unchanged("aborted").fate # "ok" /\ Unchanged("undefined").fate # "ok"
      BY DEF Unchanged, Outcome
    <3> QED
      BY <2>4, <3>1, <3>2
  <2> QED
    BY <2>1, <2>2, <2>3, <2>4
<1>2. CASE array # NULL /\ ~(array.allocd >= n) /\ o = Block(n, FALSE, slots)
  <2> DEFINE room == Bytes(n) \div Size
  <2>1. o = Block(n, FALSE, slots)
    BY <1>2
  <2>2. o.slots = [k \in 0 .. room - 1 |-> IF k \in DOMAIN slots THEN slots[k] ELSE Junk]
    BY <2>1 DEF Block, Outcome
  <2>3. room \in Nat /\ n <= room
    <3>1. Geom(n) \in Nat /\ n <= Geom(n) /\ room \in Nat /\ Geom(n) <= room
      BY <1>2, GeomRoom
    <3> HIDE DEF room
    <3> QED
      BY <3>1
  <2> HIDE DEF room
  <2>4. \A k \in 0 .. n - 1 : k \in 0 .. room - 1
    BY <2>3
  <2> QED
    BY <2>2, <2>4 DEF At
<1> QED
  BY <1>1, <1>2 DEF At

(* Two lengths of the same contents. *)
LEMMA StepGrowOrShrink ==
  ASSUME ArrayInv, ArrayInv', kind = "array", UNCHANGED <<kind, answer>>,
         \A k \in 0 .. Length - 1 : k < Length' => At(slots', k) = At(slots, k)
  PROVE  MapStep
<1>1. kind \in ArrayKinds /\ kind' \in ArrayKinds
  BY DEF ArrayKinds
<1>2. PICK n \in Nat : n = Length
  BY LengthType
<1>3. PICK m \in Nat : m = Length'
  BY <1>1, ItemsTypeThen
<1>4. Items \in [1 .. n -> Memory] /\ Items' \in [1 .. m -> Memory]
  BY <1>1, <1>2, <1>3, ItemsType, ItemsTypeThen
<1>5. ASSUME NEW j \in 1 .. n, j <= m PROVE Items'[j] = Items[j]
  <2>1. j \in 1 .. m /\ j - 1 \in 0 .. n - 1 /\ j - 1 < m
    BY <1>5
  <2>2. Items[j] = At(slots, j - 1)
    BY <1>1, <1>2, ItemsHeld DEF Held
  <2>3. Items'[j] = At(slots', j - 1)
    BY <1>1, <1>3, <2>1, ItemsHeldThen DEF Held
  <2> QED
    BY <1>2, <1>3, <2>1, <2>2, <2>3
<1>6. CASE m <= n
  <2>1. m \in 0 .. n /\ \A j \in 1 .. m : j \in 1 .. n /\ j <= m
    BY <1>6
  <2>2. Items' = SubSeq(Items, 1, m) /\ Len(Items') = m /\ Len(Items) = n
    BY <1>4, <1>5, <2>1, Prefix
  <2> QED
    BY <1>6, <2>2, StepResize
<1>7. CASE m > n
  <2>1. n \in 0 .. m /\ \A j \in 1 .. n : j <= m
    BY <1>7
  <2>2. \A j \in 1 .. n : Items[j] = Items'[j]
    BY <1>5, <2>1
  <2>3. Items = SubSeq(Items', 1, n) /\ Len(Items) = n /\ Len(Items') = m
    BY <1>4, <2>1, <2>2, Prefix
  <2> QED
    BY <1>7, <2>3, StepResize
<1> QED
  BY <1>6, <1>7

LEMMA NewStep ==
  ASSUME ArrayInv, NEW n \in Nat, NEW strict \in BOOLEAN, New(n, strict), fate' = "ok",
         kind = "array" \/ (kind = "array_stack" /\ n = 0), UNCHANGED kind
  PROVE  MapStep
<1>1. array = NULL /\ UNCHANGED answer /\ kind \in ArrayKinds /\ kind' \in ArrayKinds
  BY DEF New, ArrayKinds
<1>2. ArrayInv'
  BY NewInv
<1>3. Length = 0
  BY <1>1 DEF Length
<1>4. CASE kind = "array"
  <2>1. \A k \in 0 .. Length - 1 : k < Length' => At(slots', k) = At(slots, k)
    BY <1>3
  <2> QED
    BY <1>1, <1>2, <1>4, <2>1, StepGrowOrShrink
<1>5. CASE kind = "array_stack" /\ n = 0
  <2>1. array' = Block(n, strict, << >>).array
    BY DEF New, Become, Unchanged, Outcome
  <2>2. Length' = 0
    <3>1. Block(n, strict, << >>).array.length = n
      BY DEF Block, Outcome
    <3> QED
      BY <1>5, <2>1, <3>1 DEF Length
  <2>3. Items \in [1 .. 0 -> Memory] /\ Items' \in [1 .. 0 -> Memory]
    BY <1>1, <1>2, <1>3, <2>2, ItemsType, ItemsTypeThen
  <2>4. Items = << >> /\ Items' = << >>
    BY <2>3
  <2> QED
    BY <1>1, <2>4, StepSame
<1> QED
  BY <1>4, <1>5

LEMMA DeleteStep ==
  ASSUME ArrayInv, Delete, kind \in ArrayKinds, UNCHANGED kind PROVE MapStep
<1>1. ArrayInv' /\ array' = NULL /\ UNCHANGED answer
  BY DeleteInv DEF Delete
<1>2. Length' = 0
  BY <1>1 DEF Length
<1>3. Items' \in [1 .. 0 -> Memory]
  BY <1>1, <1>2, ItemsTypeThen
<1>4. Items' = << >>
  BY <1>3
<1> QED
  BY <1>1, <1>4, StepClear

(* A rule that no step before broke, and this one does not. *)
LEMMA Kept ==
  ASSUME ArrayInv, NEW rule \in Rules, NEW condition, Breaks(rule, condition), slips' = {}
  PROVE  ~condition /\ slips = {}
BY BreaksType

LEMMA ResizeStep ==
  ASSUME ArrayInv, kind = "array", UNCHANGED kind, NEW n \in Nat, Resize(n), Counts
  PROVE  MapStep
<1>1. PICK o \in Resized(n) : Become(o)
  BY DEF Resize
<1>2. UNCHANGED answer /\ o.fate = "ok" /\ array' = o.array /\ slots' = o.slots
  BY <1>1 DEF Resize, Become, Counts
<1>3. ArrayInv'
  BY ResizeInv
<1>4. n * Size < SizeLimit
  <2>1. ~IsHuge(n)
    BY Kept DEF Rules, Resize, Counts
  <2>2. n * Size \in Nat /\ SizeLimit \in Nat
    BY ArrayAssumption
  <2> QED
    BY <2>1, <2>2 DEF IsHuge
<1>5. \A k \in 0 .. n - 1 : At(slots', k) = At(slots, k)
  BY <1>2, <1>4, ResizedKeeps
<1>6. /\ array # NULL /\ o.array # NULL
      /\ ~(array.strict /\ array.allocd < n) => o.array.length = n
      /\ array.strict /\ array.allocd < n => o = Unchanged("ok")
  BY <1>2, ResizedFilled
<1>7. CASE array.strict /\ array.allocd < n
  <2>1. array' = array /\ slots' = slots
    BY <1>2, <1>6, <1>7 DEF Unchanged, Outcome
  <2> QED
    BY <1>2, <1>3, <2>1, StepGrowOrShrink
<1>8. CASE ~(array.strict /\ array.allocd < n)
  <2>1. Length' = n
    BY <1>2, <1>6, <1>8 DEF Length
  <2>2. \A k \in 0 .. Length - 1 : k < Length' => At(slots', k) = At(slots, k)
    <3>1. Length \in Nat
      BY LengthType
    <3> QED
      BY <1>5, <2>1, <3>1
  <2> QED
    BY <1>2, <1>3, <2>2, StepGrowOrShrink
<1> QED
  BY <1>7, <1>8

LEMMA PushStep ==
  ASSUME ArrayInv, kind \in ArrayKinds, UNCHANGED kind, NEW v \in Values, Push(v), Counts
  PROVE  MapStep
<1>1. PICK n \in Nat : n = Length
  BY LengthType
<1>2. n + 1 \in Nat /\ (n + 1) * Size < SizeLimit
  BY <1>1, PushedFits DEF Push
<1>3. PICK o \in Resized(n + 1) : IF o.fate = "ok" THEN Store(o, v) ELSE Become(o)
  BY <1>1 DEF Push
<1>4. UNCHANGED answer /\ fate' = "ok"
  BY DEF Push, Counts
<1>5. ArrayInv' /\ kind' \in ArrayKinds
  BY PushInv
<1>6. o.fate = "ok" /\ Store(o, v)
  BY <1>3, <1>4 DEF Become
<1>7. ~IsFull
  BY Kept DEF Rules, Push, Counts
<1>8. /\ array # NULL /\ o.array # NULL /\ Filled(o)
      /\ ~(array.strict /\ array.allocd < n + 1) => o.array.length = n + 1
  BY <1>2, <1>6, ResizedFilled
<1>9. o.array.length = n + 1
  <2>1. ~(array.strict /\ array.allocd < n + 1)
    BY <1>1, <1>7, <1>8, LengthType DEF IsFull
  <2> QED
    BY <1>8, <2>1
<1>10. n \in DOMAIN o.slots /\ array' = o.array /\ slots' = [o.slots EXCEPT ![n] = v]
  <2>1. o.array.length - 1 = n
    BY <1>9
  <2>2. /\ n \in DOMAIN o.slots => Become([o EXCEPT !.slots[n] = v])
        /\ n \notin DOMAIN o.slots => Become([o EXCEPT !.fate = "undefined"])
    BY <1>6, <2>1 DEF Store
  <2>3. o = [array |-> o.array, slots |-> o.slots, fate |-> o.fate]
    BY <1>8 DEF Filled, Outcome
  <2>4. n \in DOMAIN o.slots
    BY <1>4, <2>2, <2>3 DEF Become
  <2> QED
    BY <2>2, <2>3, <2>4 DEF Become
<1>11. \A k \in 0 .. n : At(o.slots, k) = At(slots, k)
  <2>1. \A k \in 0 .. (n + 1) - 1 : At(o.slots, k) = At(slots, k)
    BY <1>2, <1>6, ResizedKeeps
  <2>2. (n + 1) - 1 = n
    OBVIOUS
  <2> QED
    BY <2>1, <2>2
<1>12. Length' = n + 1
  BY <1>8, <1>9, <1>10 DEF Length
<1>13. Items \in [1 .. n -> Memory] /\ Items' \in [1 .. n + 1 -> Memory]
  BY <1>1, <1>5, <1>12, ItemsType, ItemsTypeThen
<1>14. \A j \in 1 .. n : Items'[j] = Items[j]
  <2> TAKE j \in 1 .. n
  <2>1. j \in 1 .. n + 1 /\ j - 1 \in 0 .. n /\ j - 1 # n
    OBVIOUS
  <2>2. Items[j] = At(slots, j - 1) /\ Items'[j] = At(slots', j - 1)
    BY <1>1, <1>5, <1>12, <2>1, ItemsHeld, ItemsHeldThen DEF Held
  <2>3. At(slots', j - 1) = At(o.slots, j - 1)
    BY <1>10, <2>1 DEF At
  <2> QED
    BY <1>11, <2>1, <2>2, <2>3
<1>15. Items'[n + 1] = v
  <2>1. n + 1 \in 1 .. n + 1 /\ (n + 1) - 1 = n
    OBVIOUS
  <2>2. Items'[n + 1] = At(slots', n)
    BY <1>5, <1>12, <2>1, ItemsHeldThen DEF Held
  <2> QED
    BY <1>10, <2>2 DEF At
<1>16. Items' = Append(Items, v)
  BY <1>13, <1>14, <1>15, Grown
<1> QED
  BY <1>4, <1>16, StepPush

(* What is at the end of an array that no request made too small. *)
LEMMA LastIs ==
  ASSUME ArrayInv, kind \in ArrayKinds, slips = {}, Length > 0
  PROVE  /\ Items # << >> /\ Len(Items) = Length /\ Items[Length] = slots[Length - 1]
         /\ Length - 1 \in DOMAIN slots /\ array # NULL
<1>1. PICK n \in Nat : n = Length
  BY LengthType
<1>2. array # NULL /\ n = array.length /\ n > 0
  BY <1>1, LengthType DEF Length
<1>3. array.length <= array.allocd /\ array.allocd <= array.room
  BY <1>2 DEF ArrayInv, RoomEnough
<1>4. array.allocd \in Nat /\ array.room \in Nat /\ DOMAIN slots = 0 .. array.room - 1
  BY <1>2 DEF ArrayInv, TypeOK, Header
<1>5. n - 1 \in DOMAIN slots /\ n \in 1 .. n
  BY <1>2, <1>3, <1>4
<1>6. Items[n] = slots[n - 1]
  BY <1>1, <1>5, ItemsHeld DEF Held, At
<1>7. Items \in [1 .. n -> Memory]
  BY <1>1, ItemsType
<1>8. Len(Items) = n /\ Items # << >>
  BY <1>2, <1>7, AsSeq
<1> QED
  BY <1>1, <1>2, <1>5, <1>6, <1>8

LEMMA PopStep ==
  ASSUME ArrayInv, LengthBound, kind \in ArrayKinds, UNCHANGED kind, Pop, Counts
  PROVE  MapStep
<1>1. PICK n \in Nat : n = Length
  BY LengthType
<1>2. PICK o \in Resized((n - 1) % SizeLimit) : Become(o)
  BY <1>1 DEF Pop
<1>3. o.fate = "ok" /\ array' = o.array /\ slots' = o.slots
  BY <1>2 DEF Become, Counts
<1>4. array # NULL
  <2> SUFFICES ASSUME array = NULL PROVE FALSE
    OBVIOUS
  <2>1. o = Unchanged("aborted")
    BY <1>2 DEF Resized
  <2> QED
    BY <1>3, <2>1 DEF Unchanged, Outcome
<1>5. n > 0 /\ slips = {}
  <2>1. ~(array # NULL /\ Length = 0) /\ slips = {}
    BY Kept DEF Rules, Pop, Counts
  <2> QED
    BY <1>1, <1>4, <2>1
<1>6. PICK m \in Nat : m = n - 1
  BY <1>5
<1>7. (n - 1) % SizeLimit = m
  <2>1. n < SizeLimit /\ SizeLimit \in Nat
    BY <1>1, <1>4, ArrayAssumption DEF LengthBound, Length
  <2> QED
    BY <1>6, <2>1
<1>8. /\ Items # << >> /\ Len(Items) = n /\ Items[n] = slots[m]
      /\ m \in DOMAIN slots
  BY <1>1, <1>5, <1>6, LastIs
<1>9. answer' = Items[n]
  BY <1>1, <1>4, <1>6, <1>8 DEF Pop
<1>10. array.allocd >= m /\ ~(array.allocd < m)
  <2>1. n = array.length /\ array.allocd \in Nat
    BY <1>1, <1>4, LengthType
  <2>2. array.length <= array.allocd
    BY <1>4, <1>5 DEF ArrayInv, RoomEnough
  <2> QED
    BY <1>6, <2>1, <2>2
<1>11. o \in Resized(m)
  BY <1>2, <1>7
<1>12. Length' = m
  BY <1>3, <1>10, <1>11, ResizedFilled DEF Length
<1>13. \A k \in 0 .. m - 1 : At(slots', k) = At(slots, k)
  BY <1>3, <1>10, <1>11, ResizedKeeps
<1>14. ArrayInv' /\ kind' \in ArrayKinds
  BY PopInv
<1>15. Items \in [1 .. n -> Memory] /\ Items' \in [1 .. m -> Memory]
  BY <1>1, <1>12, <1>14, ItemsType, ItemsTypeThen
<1>16. ASSUME NEW j \in 1 .. m PROVE Items'[j] = Items[j]
  <2>1. j \in 1 .. n /\ j - 1 \in 0 .. m - 1
    BY <1>6
  <2>2. Items[j] = At(slots, j - 1)
    BY <1>1, <2>1, ItemsHeld DEF Held
  <2>3. Items'[j] = At(slots', j - 1)
    BY <1>12, <1>14, ItemsHeldThen DEF Held
  <2> QED
    BY <1>13, <2>1, <2>2, <2>3
<1>17. Items' = SubSeq(Items, 1, m)
  <2>1. m \in 0 .. n
    BY <1>6
  <2> QED
    BY <1>15, <1>16, <2>1, Prefix
<1>18. kind # "queue"
  BY DEF ArrayKinds
<1> QED
  BY <1>6, <1>8, <1>9, <1>17, <1>18, StepPopLast

LEMMA TopStep ==
  ASSUME ArrayInv, StackTop, UNCHANGED kind, slips = {}
  PROVE  MapStep
<1>1. kind \in ArrayKinds /\ Length > 0 /\ answer' = slots[Length - 1] /\ UNCHANGED <<array, slots>>
  BY DEF StackTop, ArrayKinds
<1>2. Items # << >> /\ Len(Items) = Length /\ Items[Length] = slots[Length - 1]
  BY <1>1, LastIs
<1>3. UNCHANGED Items
  BY <1>1 DEF Items, Length
<1> QED
  BY <1>1, <1>2, <1>3, StepPeek

-----------------------------------------------------------------------------
(* Every step is one of the sequence *)

SequenceInv == IInv /\ LengthBound

LEMMA ArrayKindStep ==
  ASSUME SequenceInv, kind = "array", Next, UNCHANGED <<linked, kind>>
  PROVE  LengthBound' /\ (Counts => MapStep)
<1>1. ArrayInv /\ LengthBound /\ kind \in ArrayKinds
  BY DEF SequenceInv, IInv, ArrayKinds
<1>2. LengthBound'
  BY <1>1, ArrayShort DEF Next
<1>3. ASSUME Counts PROVE MapStep
  <2>1. CASE Delete
    BY <1>1, <2>1, DeleteStep
  <2>2. CASE Pop
    BY <1>1, <1>3, <2>2, PopStep
  <2>3. ASSUME NEW n \in Requests, Resize(n) PROVE MapStep
    BY <1>1, <1>3, <2>3, RequestFits, ResizeStep
  <2>4. ASSUME NEW n \in Requests, NEW strict \in BOOLEAN, New(n, strict) PROVE MapStep
    <3>1. n \in Nat /\ fate' = "ok"
      BY <1>3, RequestFits DEF Counts
    <3> QED
      BY <1>1, <2>4, <3>1, NewStep
  <2>5. ASSUME NEW v \in Values, Push(v) PROVE MapStep
    BY <1>1, <1>3, <2>5, PushStep
  <2> QED
    BY <2>1, <2>2, <2>3, <2>4, <2>5 DEF Next
<1> QED
  BY <1>2, <1>3

LEMMA StackKindStep ==
  ASSUME SequenceInv, StackNext, UNCHANGED <<linked, kind>>
  PROVE  LengthBound' /\ (Counts => MapStep)
<1>1. kind = "array_stack"
  BY DEF StackNext, StackNew, StackPop, StackTop, StackDelete, StackPush
<1>2. ArrayInv /\ LengthBound /\ kind \in ArrayKinds /\ slips = {}
  BY <1>1 DEF SequenceInv, IInv, StackInv, ArrayKinds
<1>3. CASE StackNew
  <2>1. New(0, FALSE)
    BY <1>3 DEF StackNew
  <2>2. PICK no \in BOOLEAN : no = FALSE
    OBVIOUS
  <2>3. New(0, no)
    BY <2>1, <2>2
  <2>4. 0 \in Nat
    OBVIOUS
  <2>5. Counts => MapStep
    BY <1>1, <1>2, <2>3, <2>4, NewStep DEF Counts
  <2> QED
    BY <1>2, <2>1, <2>5, ArrayShort
<1>4. CASE StackPop
  BY <1>2, <1>4, ArrayShort, PopStep DEF StackPop
<1>5. CASE StackTop
  <2>1. LengthBound'
    BY <1>2, <1>5 DEF StackTop, LengthBound
  <2> QED
    BY <1>2, <1>5, <2>1, TopStep
<1>6. CASE StackDelete
  BY <1>2, <1>6, ArrayShort, DeleteStep DEF StackDelete
<1>7. ASSUME NEW v \in Values, StackPush(v) PROVE LengthBound' /\ (Counts => MapStep)
  BY <1>2, <1>7, ArrayShort, PushStep DEF StackPush
<1> QED
  BY <1>3, <1>4, <1>5, <1>6, <1>7 DEF StackNext

LEMMA SequenceStep ==
  ASSUME SequenceInv, [AdaptersNext]_allvars
  PROVE  LengthBound' /\ (Counts => MapStep)
<1>1. CASE kind = "array" /\ Next /\ UNCHANGED <<linked, kind>>
  BY <1>1, ArrayKindStep
<1>2. CASE StackNext /\ UNCHANGED <<linked, kind>>
  BY <1>2, StackKindStep
<1>3. CASE LinkedNext /\ UNCHANGED kind
  <2>1. kind \in LinkedKinds /\ UNCHANGED array
    BY <1>3 DEF LinkedNext, LinkedNew, LinkedPush, LinkedPop, LinkedPeek, LinkedDelete, vars,
                LinkedDeleteNode, LinkedDeleteEnd, Idle, SequenceInv, IInv, StackInv, Kinds
  <2>2. LengthBound'
    BY <2>1 DEF SequenceInv, LengthBound
  <2>3. Counts => MapStep
    BY <1>3, <2>1, LinkedStep DEF SequenceInv
  <2> QED
    BY <2>2, <2>3
<1>4. CASE UNCHANGED allvars
  <2>1. UNCHANGED <<array, slots, kind, answer, live, ring, value, emptying>>
    BY <1>4 DEF allvars, vars, linked
  <2>2. UNCHANGED <<Items, answer>>
    BY <2>1 DEF Items, Forward, Length
  <2> QED
    BY <2>1, <2>2, StepSame DEF SequenceInv, LengthBound
<1>5. CASE Halted /\ UNCHANGED <<linked, kind>>
  <2>1. fate' # "ok" /\ UNCHANGED array
    BY <1>5 DEF Halted, Running, vars
  <2> QED
    BY <2>1 DEF Counts, SequenceInv, LengthBound
<1> QED
  BY <1>1, <1>2, <1>3, <1>4, <1>5 DEF AdaptersNext

(* A stack, whichever structure carries it, a queue and an array are        *)
(* sequences, for any number of nodes, sizes of elements and of a size_t,   *)
(* and requests: pop and the like hand over what was pushed last or, of a   *)
(* queue, first, and a reallocation or a change of the links moves or loses *)
(* none of the others.                                                      *)
THEOREM SequencesKept == AdaptersSpec => ImplementsSequence
<1>1. AdaptersInit => SequenceInv
  BY InitInv DEF SequenceInv, LengthBound, AdaptersInit, Init
<1>2. SequenceInv /\ [AdaptersNext]_allvars => SequenceInv'
  BY NextInv, SequenceStep DEF SequenceInv
<1>3. SequenceInv /\ [AdaptersNext]_allvars =>
        [fate' = "ok" /\ slips' = {} => Abstract!Next]_<<Items, answer>>
  BY SequenceStep DEF Counts, MapStep
<1> QED
  BY <1>1, <1>2, <1>3, PTL DEF AdaptersSpec, ImplementsSequence
=============================================================================

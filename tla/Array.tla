------------------------------- MODULE Array -------------------------------
(***************************************************************************)
(* array.c: a C array with a hidden header.  Room is requested in bytes,   *)
(* computed in floating point, and counted in elements, computed again;    *)
(* push and pop resize first and index from the new length, whatever the   *)
(* resize did.                                                             *)
(***************************************************************************)
EXTENDS Integers

CONSTANTS
  Values,
  Junk,        \* what memory holds that nothing was written to
  NULL,
  Size,        \* the size of an element in bytes
  HeaderSize,  \* sizeof( array_header_t )
  SizeLimit,   \* SIZE_MAX + 1
  Requests,    \* the numbers of elements that a caller asks for
  MaxLength    \* bound: nothing is pushed on an array of this length

(* array_header_t; room is what malloc gave, in elements. *)
Header == [length : Nat, allocd : Nat, strict : BOOLEAN, room : Nat]

ASSUME ArrayAssumption ==
  /\ Size \in Nat \ {0} /\ HeaderSize \in Nat
  /\ SizeLimit \in Nat /\ SizeLimit >= 8
  /\ Requests \subseteq 0 .. SizeLimit - 1
  /\ MaxLength \in Nat
  /\ Junk \notin Values
  /\ NULL \notin Header

VARIABLES
  array,   \* NULL or the header
  slots,   \* the elements there is room for
  answer,  \* what pop or top has stored for the caller
  fate,    \* "ok", "aborted" by an assert, or "undefined"
  slips    \* history: the rules below that the caller has broken

vars == <<array, slots, answer, fate, slips>>

(* "huge": a request whose size in bytes is not a size_t; "empty": a pop    *)
(* from an empty array; "full": a push on a strict array that is full.      *)
Rules == {"huge", "empty", "full"}

Breaks(rule, condition) ==
  slips' = IF condition THEN slips \cup {rule} ELSE slips

-----------------------------------------------------------------------------
(* 1.3 * n, converted to size_t. *)
Geom(n) == (13 * n) \div 10

(* 1.3 * ( nmemb * size ): the product wraps before it is converted. *)
Bytes(n)   == Geom((n * Size) % SizeLimit)
Fits(n)    == HeaderSize + Bytes(n) < SizeLimit /\ Geom(n) < SizeLimit
IsHuge(n)  == n * Size >= SizeLimit \/ ~Fits(n)

(* Of the bound: what a process has pushed fits in its memory. *)
ASSUME BoundAssumption == ~IsHuge(MaxLength)

Outcome(a, s, f) == [array |-> a, slots |-> s, fate |-> f]
Unchanged(f)     == Outcome(array, slots, f)

(* Variant: the block is not made larger than what was asked for.           *)
Block_Exact(n, strict, old) ==
  [array |-> [length |-> n, allocd |-> Geom(n), strict |-> strict,
              room |-> ((n * Size) % SizeLimit) \div Size],
   slots |-> [i \in 0 .. ((n * Size) % SizeLimit) \div Size - 1 |->
                IF i \in DOMAIN old THEN old[i] ELSE Junk],
   fate  |-> "ok"]

(* A block for n elements, which keeps the contents of the old one. *)
Block(n, strict, old) ==
  LET room == Bytes(n) \div Size IN
  Outcome([length |-> n, allocd |-> Geom(n), strict |-> strict, room |-> room],
          [i \in 0 .. room - 1 |-> IF i \in DOMAIN old THEN old[i] ELSE Junk],
          "ok")

(* What array_resize__ may do.  A size that does not fit is converted to    *)
(* anything; realloc may return NULL, which an assert notices.              *)
Resized(n) ==
  IF array = NULL THEN {Unchanged("aborted")}
  ELSE IF array.allocd >= n
    THEN {Outcome([array EXCEPT !.length = n], slots, "ok")}
  ELSE IF array.strict THEN {Unchanged("ok")}
  ELSE {Unchanged("aborted"),
        IF Fits(n) THEN Block(n, FALSE, slots) ELSE Unchanged("undefined")}

Become(o) == array' = o.array /\ slots' = o.slots /\ fate' = o.fate

-----------------------------------------------------------------------------
Running == fate = "ok"

(* array_new__ uses what malloc returns without a test. *)
New(n, strict) ==
  /\ Running /\ array = NULL
  /\ \/ Fits(n) /\ Become(Block(n, strict, << >>))
     \/ Become(Unchanged("undefined"))
  /\ Breaks("huge", IsHuge(n))
  /\ UNCHANGED answer

Delete ==
  /\ Running /\ array # NULL
  /\ Become(Outcome(NULL, << >>, "ok"))
  /\ UNCHANGED <<answer, slips>>

Resize(n) ==
  /\ Running
  /\ \E o \in Resized(n) : Become(o)
  /\ Breaks("huge", IsHuge(n))
  /\ UNCHANGED answer

Length == IF array = NULL THEN 0 ELSE array.length
IsFull == array # NULL /\ array.strict /\ Length >= array.allocd

Store(o, v) ==
  LET last == o.array.length - 1 IN
  IF last \in DOMAIN o.slots
    THEN Become([o EXCEPT !.slots[last] = v])
    ELSE Become([o EXCEPT !.fate = "undefined"])

(* array_push: on a strict array that is full it stores over the last       *)
(* element, or, if there is none, before the first.                         *)
Push(v) ==
  /\ Running /\ Length < MaxLength
  /\ \E o \in Resized(Length + 1) : IF o.fate = "ok" THEN Store(o, v) ELSE Become(o)
  /\ Breaks("full", IsFull)
  /\ UNCHANGED answer

(* array_pop: on an empty array it reads from the header and asks for       *)
(* SIZE_MAX elements.                                                       *)
Pop ==
  /\ Running
  /\ answer' = IF array = NULL THEN answer
               ELSE IF Length - 1 \in DOMAIN slots THEN slots[Length - 1] ELSE Junk
  /\ \E o \in Resized((Length - 1) % SizeLimit) : Become(o)
  /\ Breaks("empty", array # NULL /\ Length = 0)

Init ==
  /\ array = NULL /\ slots = << >>
  /\ answer = Junk
  /\ fate = "ok" /\ slips = {}

Next ==
  \/ Delete \/ Pop
  \/ \E n \in Requests : Resize(n) \/ \E strict \in BOOLEAN : New(n, strict)
  \/ \E v \in Values : Push(v)

Spec == Init /\ [][Next]_vars

-----------------------------------------------------------------------------
(* Properties *)

TypeOK ==
  /\ array \in Header \cup {NULL}
  /\ array = NULL => slots = << >>
  /\ array # NULL => slots \in [0 .. array.room - 1 -> Values \cup {Junk}]
  /\ answer \in Values \cup {Junk}
  /\ fate \in {"ok", "aborted", "undefined"}
  /\ slips \subseteq Rules

(* The two computations of 1.3 agree: there is room for the elements that   *)
(* allocd promises, and for length of them, unless a request was huge.      *)
RoomEnough ==
  array # NULL /\ "huge" \notin slips =>
    array.length <= array.allocd /\ array.allocd <= array.room
=============================================================================

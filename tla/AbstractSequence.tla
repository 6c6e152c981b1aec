-------------------------- MODULE AbstractSequence --------------------------
(* What stacks, queues and arrays promise: a sequence that grows at its end *)
(* and is read and shrinks at the end that the discipline says.  answer is  *)
(* the value that was handed to the caller last.                            *)
EXTENDS Integers, Sequences

CONSTANT Values

VARIABLES items, answer, discipline

vars == <<items, answer, discipline>>

First == items[1]
Last  == items[Len(items)]
Upto(n) == SubSeq(items, 1, n)

Push(v) == items' = Append(items, v) /\ UNCHANGED answer

Pop ==
  /\ items # << >>
  /\ \/ discipline = "fifo" /\ answer' = First /\ items' = Tail(items)
     \/ discipline # "fifo" /\ answer' = Last /\ items' = Upto(Len(items) - 1)

(* top of a stack, front and back of a queue *)
Peek ==
  /\ items # << >>
  /\ \/ answer' = Last
     \/ discipline = "fifo" /\ answer' = First
  /\ UNCHANGED items

(* Only an array is resized; what it grows by is not initialised. *)
Resize ==
  /\ discipline = "array"
  /\ \/ Len(items') <= Len(items) /\ items' = Upto(Len(items'))
     \/ Len(items') > Len(items) /\ items = SubSeq(items', 1, Len(items))
  /\ UNCHANGED answer

Clear == items' = << >> /\ UNCHANGED answer

Next == /\ \/ Pop \/ Peek \/ Resize \/ Clear \/ \E v \in Values : Push(v)
        /\ UNCHANGED discipline
=============================================================================

--------------------------- MODULE AbstractDeque ---------------------------
(* What a deque promises: a sequence of distinct elements that grows and   *)
(* shrinks at its two ends, one operation at a time.  An operation that is *)
(* interrupted has taken effect or has not; the next update after it may   *)
(* break the deque, which then promises nothing until it is cleared.       *)
EXTENDS SequencesExt

CONSTANT Elements

VARIABLES items, status

PushFront(x) == x \notin Range(items) /\ items' = <<x>> \o items
PushBack(x)  == x \notin Range(items) /\ items' = Append(items, x)
PopFront     == items # <<>> /\ items' = Tail(items)
PopBack      == items # <<>> /\ items' = Front(items)

Operation ==
  /\ status = "whole" /\ status' = "whole"
  /\ \/ \E x \in Elements : PushFront(x) \/ PushBack(x)
     \/ PopFront \/ PopBack

Interrupt == status # "broken" /\ status' = "interrupted" /\ UNCHANGED items
Break     == status # "whole" /\ status' = "broken"
Clear     == items' = <<>> /\ status' \in {status, "whole"}

Init == items = <<>> /\ status = "whole"
Next == Operation \/ Interrupt \/ Break \/ Clear
Spec == Init /\ [][Next]_<<items, status>>
=============================================================================

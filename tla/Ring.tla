-------------------------------- MODULE Ring --------------------------------
(***************************************************************************)
(* What the functions of deques.c do to the links, as a whole: the stores  *)
(* that Deque takes one at a time.  A ring is a pair of functions, next    *)
(* and prev, on the cells: the link_t of the elements and the heads of one *)
(* or several deques.                                                      *)
(***************************************************************************)
LOCAL INSTANCE Integers
LOCAL INSTANCE Sequences

(* link_init *)
LinkInit(r, l) ==
  [next |-> [r.next EXCEPT ![l] = l], prev |-> [r.prev EXCEPT ![l] = l]]

(* deque_addback *)
AddBack(r, h, l) ==
  [next |-> [r.next EXCEPT ![l] = h, ![r.prev[h]] = l],
   prev |-> [r.prev EXCEPT ![l] = r.prev[h], ![h] = l]]

(* delete_front and delete_back: the removed cell keeps its own fields. *)
DeleteFront(r, h) ==
  LET second == r.next[r.next[h]]
  IN  [next |-> [r.next EXCEPT ![h] = second],
       prev |-> [r.prev EXCEPT ![second] = h]]

DeleteBack(r, h) ==
  LET second == r.prev[r.prev[h]]
  IN  [next |-> [r.next EXCEPT ![second] = h],
       prev |-> [r.prev EXCEPT ![h] = second]]

(* The removal in the middle that closed.h does by hand. *)
Unlink(r, l) ==
  [next |-> [r.next EXCEPT ![r.prev[l]] = r.next[l], ![l] = l],
   prev |-> [r.prev EXCEPT ![r.next[l]] = r.prev[l], ![l] = l]]

(* Within the cells S, the two directions are each other's inverse. *)
Closed(r, S) ==
  \A c \in S : /\ r.next[c] \in S /\ r.prev[r.next[c]] = c
               /\ r.prev[c] \in S /\ r.next[r.prev[c]] = c

(* The cells that deque_foreach comes by, along the field f from the head h *)
(* back to it; h is the last of them if it has not come back after n cells. *)
Around(f, h, n) ==
  LET from[m \in 0 .. n] ==
        [c \in DOMAIN f |->
           IF c = h THEN << >> ELSE IF m = 0 THEN <<h>> ELSE <<c>> \o from[m - 1][f[c]]]
  IN  from[n][f[h]]
=============================================================================

------------------------------- MODULE Deque -------------------------------
(***************************************************************************)
(* The intrusive deque of libellul: a circular doubly linked list around a *)
(* sentinel, one action per store of the functions that write to it.  A    *)
(* test may be interrupted between two stores (posix_signal_handler leaves *)
(* the code under test through siglongjmp), the next test goes on with     *)
(* what it finds, and a foreach may run its body, which calls the deque    *)
(* again, between two of its reads.                                        *)
(***************************************************************************)
EXTENDS Integers, SequencesExt, FiniteSetsExt

CONSTANTS
  Links,     \* the link_t fields of the objects that can be in the deque
  Sentinel,  \* &deque->head
  NULL,
  Wild,      \* what an uninitialised pointer holds
  Misuse,    \* which of the rules below the caller may break
  MaxLate    \* bound: how many late calls a deque is given (see late)

(* The rules a caller keeps: initialise first ("raw"), initialise again     *)
(* after a reset ("reset"), delete from a deque that is not empty           *)
(* ("empty"), and, in the body of a foreach, do not remove the element that *)
(* comes next ("next").  No rule says what to do with a deque in which a    *)
(* call was interrupted.                                                    *)
Rules == {"raw", "reset", "empty", "next"}

Cells    == Links \cup {Sentinel}
Pointers == Cells \cup {NULL, Wild}

ASSUME DequeAssumption ==
  /\ Misuse \subseteq Rules
  /\ IsFiniteSet(Links)
  /\ Sentinel \notin Links
  /\ {NULL, Wild} \cap Cells = {}
  /\ MaxLate \in Nat

VARIABLES
  next, prev,  \* the fields of every link_t
  length,
  offset,      \* "field", "zero" or, before deque_init, "none"
  op,          \* the function being executed, its next store, its link
  iter,        \* the foreach being executed, its link and its saved next
  freed,       \* objects that a destructor or the caller has freed
  fate,        \* "ok", "aborted" by an assert, or an access through a pointer
               \* that is "wild" or "dangling"
  left,        \* history: what an interrupt has left half done since the
               \* deque was last initialised or reset, or "whole"
  late,        \* history: how many calls since then did not mind that
  seen,        \* history: what the foreach has visited so far
  stable       \* history: in the deque since the foreach began

heap  == <<next, prev, length, offset>>
loop  == <<iter, seen, stable>>
dequevars  == <<heap, op, loop, freed, fate, left, late>>

Remains == {"whole", "update", "reset", "destroy"}

Idle   == [name |-> "idle", at |-> 0, link |-> NULL]
NoLoop == [mode |-> "off", cur |-> NULL, nxt |-> NULL]

Updates == {"addfront", "addback", "delfront", "delback"}
Resets  == {"init", "reset"}
Stores  == [addfront |-> 5, addback |-> 5, delfront |-> 3, delback |-> 3,
            init |-> 4, reset |-> 4]

Raw   == offset = "none"
Quiet == op = Idle /\ fate = "ok"

-----------------------------------------------------------------------------
(* The chain that starts at the sentinel and follows the field f back to it; *)
(* it ends in NULL if it does not come back.                                *)
Chain(f) ==
  LET from[n \in 0 .. Cardinality(Links)] ==
        [c \in Pointers |-> IF c = Sentinel THEN <<>>
                            ELSE IF n = 0 \/ c \notin Cells THEN <<NULL>>
                            ELSE <<c>> \o from[n - 1][f[c]]]
  IN  from[Cardinality(Links)][f[Sentinel]]

Forward  == IF Raw THEN <<>> ELSE Chain(next)
Backward == IF Raw THEN <<>> ELSE Reverse(Chain(prev))
Members  == Links \cap Range(Forward)

-----------------------------------------------------------------------------
(* Stores *)

Begin(name, l) == op' = [name |-> name, at |-> 1, link |-> l]

(* A call on a deque that an interrupt has left half done. *)
LateCall == late < MaxLate /\ late' = late + 1 /\ UNCHANGED left
Timely   == UNCHANGED <<left, late>>

Updated  == IF left = "whole" THEN Timely ELSE LateCall

Failure(p, dead) == IF p \in dead THEN "dangling" ELSE "wild"

(* An access through pointer p.                                             *)
Through(p, access) ==
  IF p \in Cells \ freed THEN access ELSE fate' = Failure(p, freed) /\ UNCHANGED heap

SetNext(p, v) ==
  Through(p, next' = [next EXCEPT ![p] = v] /\ UNCHANGED <<prev, length, offset, fate>>)
SetPrev(p, v) ==
  Through(p, prev' = [prev EXCEPT ![p] = v] /\ UNCHANGED <<next, length, offset, fate>>)
SetLength(n) ==
  length' = n /\ UNCHANGED <<next, prev, offset, fate>>
SetOffset(o) ==
  offset' = o /\ UNCHANGED <<next, prev, length, fate>>

(* The n-th store of a function, which returns after the last one.          *)
NthStore(name, n, store) ==
  /\ op.name = name /\ op.at = n /\ fate = "ok"
  /\ store
  /\ op' = IF fate' # "ok" THEN op
           ELSE IF n = Stores[name] THEN Idle ELSE [op EXCEPT !.at = n + 1]
  /\ UNCHANGED freed

EndLoop == iter' = NoLoop /\ seen' = {} /\ stable' = {}

-----------------------------------------------------------------------------
(* deque_init and deque_reset; also deque_destroy when there is no element.  *)
(* deque_init stores next and prev twice, of which the second time changes   *)
(* nothing.                                                                 *)
Clear(name) ==
  /\ Quiet /\ iter.mode # "destroy"
  /\ iter.mode = "foreach" => "next" \in Misuse
  /\ Begin(name, NULL)
  /\ Timely /\ UNCHANGED <<heap, loop, freed, fate>>

deque_init  == Clear("init")
deque_reset == Clear("reset")

Emptying ==
  /\ \/ NthStore("init", 1, SetNext(Sentinel, Sentinel))
     \/ NthStore("init", 2, SetPrev(Sentinel, Sentinel))
     \/ NthStore("init", 3, SetOffset("field"))
     \/ NthStore("init", 4, SetLength(0))
     \/ NthStore("reset", 1, SetNext(Sentinel, Sentinel))
     \/ NthStore("reset", 2, SetPrev(Sentinel, Sentinel))
     \/ NthStore("reset", 3, SetLength(0))
     \/ NthStore("reset", 4, SetOffset("zero"))
  /\ IF op' = Idle THEN left' = "whole" /\ late' = 0 ELSE Timely
  /\ IF op' = Idle /\ iter.mode = "destroy"
       THEN EndLoop
       ELSE stable' = stable \cap Members' /\ UNCHANGED <<iter, seen>>

-----------------------------------------------------------------------------
(* The update functions *)

(* The caller pushes an object that is alive and, as far as it can know, is *)
(* not in the deque.  (With an offset of zero the link_t that joins the     *)
(* ring is the first bytes of the object, whatever it keeps there.)         *)
Add(name, l) ==
  /\ Quiet
  /\ Raw => "raw" \in Misuse
  /\ offset = "zero" => "reset" \in Misuse
  /\ iter.mode # "destroy"
  /\ l \notin freed
  /\ left = "whole" => l \notin Members
  /\ Begin(name, l)
  /\ Updated
  /\ UNCHANGED <<heap, loop, freed, fate>>

(* Bound: a caller deletes from an empty deque once.                        *)
MayDeleteFromEmpty == "empty" \in Misuse /\ length >= 0

(* The assert passes on any non-NULL pointer, an empty ring's included.     *)
Delete(name, l) ==
  /\ Quiet
  /\ Raw => "raw" \in Misuse
  /\ left = "whole" /\ l = Sentinel => MayDeleteFromEmpty
  /\ iter.mode # "destroy"
  /\ iter.mode = "foreach" /\ l = iter.nxt /\ l # Sentinel => "next" \in Misuse
  /\ IF next[Sentinel] = NULL
       THEN fate' = "aborted" /\ UNCHANGED op
       ELSE fate' = fate /\ Begin(name, l)
  /\ Updated
  /\ UNCHANGED <<heap, loop, freed>>

deque_addfront(l) == Add("addfront", l)
deque_addback(l)  == Add("addback", l)
delete_front      == Delete("delfront", next[Sentinel])
delete_back       == Delete("delback", prev[Sentinel])

AddingFront ==
  /\ \/ NthStore("addfront", 1, SetNext(op.link, next[Sentinel]))
     \/ NthStore("addfront", 2, SetPrev(op.link, Sentinel))
     \/ NthStore("addfront", 3, SetPrev(next[Sentinel], op.link))
     \/ NthStore("addfront", 4, SetNext(Sentinel, op.link))
     \/ NthStore("addfront", 5, SetLength(length + 1))
  /\ Timely /\ UNCHANGED loop

(* A variant that moves the sentinel's prev before it has used it. *)
AddingBack_SentinelFirst ==
  /\ \/ NthStore("addback", 1, SetNext(op.link, Sentinel))
     \/ NthStore("addback", 2, SetPrev(op.link, prev[Sentinel]))
     \/ NthStore("addback", 3, SetPrev(Sentinel, op.link))
     \/ NthStore("addback", 4, SetNext(prev[Sentinel], op.link))
     \/ NthStore("addback", 5, SetLength(length + 1))
  /\ Timely /\ UNCHANGED loop

AddingBack ==
  /\ \/ NthStore("addback", 1, SetNext(op.link, Sentinel))
     \/ NthStore("addback", 2, SetPrev(op.link, prev[Sentinel]))
     \/ NthStore("addback", 3, SetNext(prev[Sentinel], op.link))
     \/ NthStore("addback", 4, SetPrev(Sentinel, op.link))
     \/ NthStore("addback", 5, SetLength(length + 1))
  /\ Timely /\ UNCHANGED loop

(* A variant that leaves the new first link pointing back at the old one. *)
DeletingFront_OneWay ==
  /\ \/ NthStore("delfront", 1, Through(op.link, UNCHANGED <<heap, fate>>))
     \/ NthStore("delfront", 2, SetNext(Sentinel, next[op.link]))
     \/ NthStore("delfront", 3, SetLength(length - 1))
  /\ stable' = stable \cap Members'
  /\ Timely /\ UNCHANGED <<iter, seen>>

(* first->next and last->prev are read through the pointer the function     *)
(* started from; the removed link keeps its own fields.                     *)
DeletingFront ==
  /\ \/ NthStore("delfront", 1,
          Through(op.link, IF next[op.link] = NULL THEN UNCHANGED <<heap, fate>>
                           ELSE SetPrev(next[op.link], Sentinel)))
     \/ NthStore("delfront", 2, SetNext(Sentinel, next[op.link]))
     \/ NthStore("delfront", 3, SetLength(length - 1))
  /\ stable' = stable \cap Members'
  /\ Timely /\ UNCHANGED <<iter, seen>>

DeletingBack ==
  /\ \/ NthStore("delback", 1,
          Through(op.link, IF prev[op.link] = NULL THEN UNCHANGED <<heap, fate>>
                           ELSE SetNext(prev[op.link], Sentinel)))
     \/ NthStore("delback", 2, SetPrev(Sentinel, prev[op.link]))
     \/ NthStore("delback", 3, SetLength(length - 1))
  /\ stable' = stable \cap Members'
  /\ Timely /\ UNCHANGED <<iter, seen>>

-----------------------------------------------------------------------------
(* deque_foreach and deque_destroy *)

(* link != &head && ( next = link->next, 1 ): the read that a freed element *)
(* must not be given to.                                                    *)
Visit(mode, l, dead) ==
  IF l \in Cells \ dead
    THEN /\ iter' = [mode |-> mode, cur |-> l, nxt |-> next[l]]
         /\ seen' = seen \cup {l}
         /\ fate' = fate
    ELSE fate' = Failure(l, dead) /\ UNCHANGED <<iter, seen>>

Foreach(mode) ==
  /\ Quiet /\ iter.mode = "off"
  /\ Raw => "raw" \in Misuse
  /\ next[Sentinel] # Sentinel
  /\ Visit(mode, next[Sentinel], freed)
  /\ stable' = IF fate' = "ok" THEN Members ELSE stable
  /\ IF left = "destroy" THEN LateCall ELSE Timely
  /\ UNCHANGED <<heap, op, freed>>

(* A variant that expects a list that ends in NULL. *)
ForeachNext_ToNull ==
  /\ Quiet /\ iter.mode = "foreach"
  /\ IF iter.nxt = NULL THEN EndLoop /\ UNCHANGED fate
                        ELSE Visit("foreach", iter.nxt, freed) /\ UNCHANGED stable
  /\ Timely /\ UNCHANGED <<heap, op, freed>>

(* A variant that reads the next link after the body. *)
ForeachNext_Rereads ==
  /\ Quiet /\ iter.mode = "foreach"
  /\ IF next[iter.cur] = Sentinel THEN EndLoop /\ UNCHANGED fate
                                  ELSE Visit("foreach", next[iter.cur], freed) /\ UNCHANGED stable
  /\ Timely /\ UNCHANGED <<heap, op, freed>>

(* The end of a body: on to the link that was saved before it. *)
ForeachNext ==
  /\ Quiet /\ iter.mode = "foreach"
  /\ IF iter.nxt = Sentinel THEN EndLoop /\ UNCHANGED fate
                            ELSE Visit("foreach", iter.nxt, freed) /\ UNCHANGED stable
  /\ Timely /\ UNCHANGED <<heap, op, freed>>

(* A variant that reads the next link after the destructor freed it. *)
DestroyNext_Rereads ==
  /\ Quiet /\ iter.mode = "destroy"
  /\ freed' = freed \cup {iter.cur}
  /\ fate' = "dangling"
  /\ Timely /\ UNCHANGED <<heap, op, loop>>

(* The destructor frees the element, then the loop goes on; after the last  *)
(* one the deque is reset.                                                  *)
DestroyNext ==
  /\ Quiet /\ iter.mode = "destroy"
  /\ freed' = freed \cup {iter.cur}
  /\ IF iter.nxt = Sentinel THEN Begin("reset", NULL) /\ UNCHANGED <<iter, seen, fate>>
                            ELSE Visit("destroy", iter.nxt, freed') /\ UNCHANGED op
  /\ Timely /\ UNCHANGED <<heap, stable>>

(* The caller frees an object that, as far as it can know, it has removed.  *)
Dispose(l) ==
  /\ Quiet /\ iter.mode # "destroy"
  /\ l \notin freed
  /\ left = "whole" => l \notin Members
  /\ iter.mode = "foreach" /\ l = iter.nxt => "next" \in Misuse
  /\ freed' = freed \cup {l}
  /\ Updated
  /\ UNCHANGED <<heap, op, loop, fate>>

(* The handler jumps out of the test: the function is left where it was.    *)
(* (A jump between the bodies of a foreach leaves nothing half done.)       *)
JumpOut ==
  /\ fate = "ok"
  /\ op # Idle \/ iter.mode = "destroy"
  /\ left' = IF left = "destroy" \/ late > 0 THEN left
             ELSE IF iter.mode = "destroy" THEN "destroy"
             ELSE IF op.name \in Resets THEN "reset"
             ELSE "update"
  /\ op' = Idle
  /\ EndLoop
  /\ UNCHANGED <<heap, freed, fate, late>>

Halted == fate # "ok" /\ UNCHANGED dequevars

-----------------------------------------------------------------------------
DequeInit ==
  /\ \E n, p \in {NULL, Wild} :
       /\ next = [c \in Cells |-> IF c = Sentinel THEN n ELSE NULL]
       /\ prev = [c \in Cells |-> IF c = Sentinel THEN p ELSE NULL]
  /\ length = 0
  /\ offset = "none"
  /\ op = Idle
  /\ iter = NoLoop
  /\ freed = {}
  /\ fate = "ok"
  /\ left = "whole" /\ late = 0
  /\ seen = {}
  /\ stable = {}

DequeNext ==
  \/ deque_init \/ deque_reset \/ delete_front \/ delete_back
  \/ \E l \in Links : deque_addfront(l) \/ deque_addback(l) \/ Dispose(l)
  \/ Emptying \/ AddingFront \/ AddingBack \/ DeletingFront \/ DeletingBack
  \/ \E mode \in {"foreach", "destroy"} : Foreach(mode)
  \/ ForeachNext \/ DestroyNext \/ JumpOut \/ Halted

DequeSpec == DequeInit /\ [][DequeNext]_dequevars

-----------------------------------------------------------------------------
(* Properties *)

(* Read forwards, the ring is a deque: each store is either the one at      *)
(* which the operation takes effect or invisible, even if the operation is  *)
(* interrupted there for good; what an update of a deque that was left half *)
(* done makes of it is not promised, until it is empty again.               *)
Abstract == INSTANCE AbstractDeque WITH
              Elements <- Links, items <- Forward,
              status <- IF late > 0 THEN "broken" ELSE IF left = "whole" THEN left ELSE "interrupted"
ImplementsDeque == Abstract!Spec

Missing == IF "empty" \in Misuse THEN 1 ELSE 0

(* The types; once initialised, the sentinel points into the ring.          *)
DequeTypeOK ==
  /\ next \in [Cells -> Pointers] /\ prev \in [Cells -> Pointers]
  /\ Raw \/ {next[Sentinel], prev[Sentinel]} \subseteq Cells
  /\ length \in Int
  /\ offset \in {"field", "zero", "none"}
  /\ op.name \in Updates \cup Resets \cup {"idle"} /\ op.at \in 0 .. 5 /\ op.link \in Pointers
  /\ iter.mode \in {"off", "foreach", "destroy"}
  /\ iter.cur \in Pointers /\ iter.nxt \in Pointers
  /\ freed \subseteq Links
  /\ seen \subseteq Links /\ stable \subseteq Links
  /\ fate \in {"ok", "aborted", "wild", "dangling"}
  /\ left \in Remains /\ late \in 0 .. MaxLate

(* The deque is being emptied, or that was interrupted.                     *)
Clearing == op.name \in Resets \/ left \in {"reset", "destroy"}

OneEndApart(s, t) ==
  \/ s = t
  \/ t # <<>> /\ (Tail(t) = s \/ Front(t) = s)
  \/ s # <<>> /\ (Tail(s) = t \/ Front(s) = t)

(* Between two operations both directions and the length agree; between two *)
(* stores of an update, and after an interrupt there, both still come back  *)
(* to the sentinel and differ by one end element at most, and so does the   *)
(* length.  While a deque is emptied, and after an interrupt there, it may  *)
(* be empty forwards alone, and have any length.  A deletion from an empty  *)
(* deque costs one of its length, and leaves the ring whole.                *)
RingSound ==
  DequeTypeOK /\ LET there   == Forward
                    back    == Backward
                    surplus == length - Len(there)
                IN
  ~Raw /\ late = 0 =>
    /\ NULL \notin Range(there) \cup Range(back)
    /\ OneEndApart(there, back) \/ (Clearing /\ there = <<>>)
    /\ ~Clearing => surplus \in (-1 - Missing) .. 1
    /\ op = Idle /\ left = "whole" => back = there /\ surplus \in -Missing .. 0

(* Once a deque is initialised, nothing aborts and no pointer leads to      *)
(* nowhere, whatever was interrupted and done to it afterwards; and a freed *)
(* object is accessed only in one that was updated after an interrupt, or   *)
(* by a foreach whose body removed the next element.  Before, a deletion    *)
(* writes nothing if the memory is zeroed.                                  *)
FailsOnlyRaw ==
  /\ fate \in {"aborted", "wild"} => Raw
  /\ fate = "dangling" => Raw \/ late > 0 \/ "next" \in Misuse
  /\ Raw /\ left = "whole" /\ op.name \in {"delfront", "delback"} => next[Sentinel] = Wild

(* A foreach gives its body only elements that are in the deque at that     *)
(* time, although it saved the link before the previous body ran, as long   *)
(* as the deque was not updated after an interrupt ...                      *)
VisitsMembers ==
  [][~Raw /\ late' = 0 /\ iter'.mode # "off" /\ iter'.cur # iter.cur
       => iter'.cur \in Members]_dequevars

(* ... and when it ends, all that stayed in the deque throughout was seen,  *)
(* under the same condition.                                                *)
VisitsAll ==
  [][~Raw /\ late = 0 /\ op = Idle /\ iter.mode = "foreach" /\ iter'.mode = "off"
       => stable \subseteq seen]_dequevars
=============================================================================

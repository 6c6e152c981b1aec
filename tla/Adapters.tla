------------------------------ MODULE Adapters ------------------------------
(***************************************************************************)
(* stack.h and queue.h over the two structures that carry them: a stack in *)
(* an array, a stack in a deque and a queue in a deque; and the bare array *)
(* of a caller who keeps none of the rules.  A container is generated by   *)
(* the preprocessor, so what it is never changes.                          *)
(***************************************************************************)
EXTENDS Array, Sequences, FiniteSets, Functions, Ring

CONSTANTS
  Nodes,  \* what malloc may return for a node
  Sentinel,   \* the head of the deque
  None    \* the value of a node that is not allocated

ArrayKinds  == {"array", "array_stack"}
LinkedKinds == {"deque_stack", "queue"}
Cells       == Nodes \cup {Sentinel}

ASSUME AdaptersAssumption ==
  /\ IsFiniteSet(Nodes) /\ Sentinel \notin Nodes
  /\ None \notin Values

VARIABLES
  kind,
  live,      \* the handle is not NULL
  ring,      \* the links of the deque and of the nodes
  value,     \* node->value, or None
  dqlength,  \* dq.length
  emptying   \* inside the loop of delete

linked == <<live, ring, value, dqlength, emptying>>
allvars == <<vars, kind, linked>>

Allocated == {n \in Nodes : value[n] # None}

-----------------------------------------------------------------------------
(* The stack in an array: the tests that array_pop does without. *)

StackNew == kind = "array_stack" /\ New(0, FALSE)

StackPush(v) == kind = "array_stack" /\ Push(v)

(* Variant: the caller is trusted not to pop an empty stack. *)
StackPop_Trusting == kind = "array_stack" /\ array # NULL /\ Pop

StackPop == kind = "array_stack" /\ Length > 0 /\ Pop

StackTop ==
  /\ kind = "array_stack" /\ Running /\ Length > 0
  /\ answer' = slots[Length - 1]
  /\ UNCHANGED <<array, slots, fate, slips>>

StackDelete == kind = "array_stack" /\ Delete

-----------------------------------------------------------------------------
(* The stack and the queue in a deque *)

IsEmpty == ~live \/ dqlength = 0

Idle == Running /\ kind \in LinkedKinds /\ ~emptying

(* allocate: an assert notices when malloc returns NULL. *)
Allocate(works) ==
  \/ works /\ UNCHANGED fate
  \/ fate' = "aborted" /\ UNCHANGED linked

LinkedNew ==
  /\ Idle /\ ~live
  /\ Allocate(/\ live' = TRUE
              /\ ring' = LinkInit(ring, Sentinel)
              /\ dqlength' = 0
              /\ UNCHANGED <<value, emptying>>)
  /\ UNCHANGED <<array, slots, answer, slips>>

(* push: an assert notices a NULL handle.  Bound: as many pushes as Nodes.  *)
LinkedPush(v) ==
  /\ Idle
  /\ IF ~live THEN fate' = "aborted" /\ UNCHANGED linked
     ELSE \E n \in Nodes \ Allocated :
            Allocate(/\ value' = [value EXCEPT ![n] = v]
                     /\ ring' = AddBack(LinkInit(ring, n), Sentinel, n)
                     /\ dqlength' = dqlength + 1
                     /\ UNCHANGED <<live, emptying>>)
  /\ UNCHANGED <<array, slots, answer, slips>>

First == ring.next[Sentinel]
Last  == ring.prev[Sentinel]

(* The node at the end that the discipline serves: of a stack, the back. *)
Served == IF kind = "queue" THEN First ELSE Last

Dispose(n) == value' = [value EXCEPT ![n] = None]

(* Variant: the node is not given back.                                     *)
Take_Leaks ==
  IF Served \notin Allocated THEN fate' = "undefined" /\ UNCHANGED <<ring, value, dqlength>>
  ELSE /\ ring' = IF kind = "queue" THEN DeleteFront(ring, Sentinel)
                                    ELSE DeleteBack(ring, Sentinel)
       /\ dqlength' = dqlength - 1
       /\ UNCHANGED <<fate, value>>

(* deque_deletefront or deque_deleteback, then dispose. *)
Take ==
  IF Served \notin Allocated
    THEN fate' = "undefined" /\ UNCHANGED <<ring, value, dqlength>>
    ELSE /\ ring' = IF kind = "queue" THEN DeleteFront(ring, Sentinel)
                                      ELSE DeleteBack(ring, Sentinel)
         /\ dqlength' = dqlength - 1
         /\ Dispose(Served)
         /\ UNCHANGED fate

(* Variant: what is served is not what is removed. *)
LinkedPop_OtherEnd ==
  /\ Idle /\ ~IsEmpty
  /\ answer' = value[Last]
  /\ Take
  /\ UNCHANGED <<live, emptying, array, slots, slips>>

(* pop; on an empty container it returns 0. *)
LinkedPop ==
  /\ Idle /\ ~IsEmpty
  /\ answer' = IF Served \in Allocated THEN value[Served] ELSE answer
  /\ Take
  /\ UNCHANGED <<live, emptying, array, slots, slips>>

(* top of a stack; front and back of a queue. *)
LinkedPeek ==
  /\ Idle /\ ~IsEmpty
  /\ \E n \in IF kind = "queue" THEN {First, Last} ELSE {Served} :
       IF n \in Allocated THEN answer' = value[n] /\ UNCHANGED fate
                          ELSE fate' = "undefined" /\ UNCHANGED answer
  /\ UNCHANGED <<linked, array, slots, slips>>

(* delete: a node at a time, then the container. *)
LinkedDelete ==
  /\ Idle /\ live
  /\ emptying' = TRUE
  /\ UNCHANGED <<live, ring, value, dqlength, vars>>

LinkedDeleteNode ==
  /\ Running /\ emptying /\ dqlength > 0
  /\ Take
  /\ UNCHANGED <<live, emptying, array, slots, answer, slips>>

LinkedDeleteEnd ==
  /\ Running /\ emptying /\ dqlength = 0
  /\ emptying' = FALSE /\ live' = FALSE
  /\ UNCHANGED <<ring, value, dqlength, vars>>

Halted == ~Running /\ UNCHANGED vars

-----------------------------------------------------------------------------
AdaptersInit ==
  /\ Init
  /\ kind \in ArrayKinds \cup LinkedKinds
  /\ live = FALSE
  /\ ring = [next |-> [c \in Cells |-> c], prev |-> [c \in Cells |-> c]]
  /\ value = [n \in Nodes |-> None]
  /\ dqlength = 0
  /\ emptying = FALSE

StackNext ==
  \/ StackNew \/ StackPop \/ StackTop \/ StackDelete
  \/ \E v \in Values : StackPush(v)

LinkedNext ==
  \/ LinkedNew \/ LinkedPop \/ LinkedPeek
  \/ LinkedDelete \/ LinkedDeleteNode \/ LinkedDeleteEnd
  \/ \E v \in Values : LinkedPush(v)

AdaptersNext ==
  /\ \/ kind = "array" /\ Next /\ UNCHANGED linked
     \/ StackNext /\ UNCHANGED linked
     \/ LinkedNext
     \/ Halted /\ UNCHANGED linked
  /\ UNCHANGED kind

AdaptersSpec == AdaptersInit /\ [][AdaptersNext]_allvars

-----------------------------------------------------------------------------
(* Properties *)

Forward  == Around(ring.next, Sentinel, Cardinality(Nodes))
Backward == Around(ring.prev, Sentinel, Cardinality(Nodes))

(* The nodes that malloc has given out are those in the ring, in the same   *)
(* order both ways, as many as length says, and of a deleted container none *)
(* is left: no node leaks, none is used or freed after it was freed.        *)
NodesExact ==
  /\ ~live => Allocated = {}
  /\ live => /\ Range(Forward) = Allocated
             /\ dqlength = Len(Forward) /\ Len(Backward) = dqlength
             /\ \A i \in 1 .. dqlength : Backward[i] = Forward[dqlength + 1 - i]

Items ==
  IF kind \in ArrayKinds
    THEN [i \in 1 .. Length |-> IF i - 1 \in DOMAIN slots THEN slots[i - 1] ELSE Junk]
  ELSE IF ~live \/ emptying THEN << >>
  ELSE [i \in DOMAIN Forward |-> value[Forward[i]]]

Discipline ==
  CASE kind = "array" -> "array" [] kind = "queue" -> "fifo" [] OTHER -> "lifo"

Abstract == INSTANCE AbstractSequence WITH items <- Items, discipline <- Discipline

(* All four are sequences: what comes out is what was pushed last, or, of a *)
(* queue, first, and nothing that was pushed is lost or moved when the      *)
(* block is reallocated; as long as no rule was broken and nothing failed.  *)
ImplementsSequence ==
  [][fate' = "ok" /\ slips' = {} => Abstract!Next]_<<Items, answer>>

(* Stacks and queues break no rule of the array below them, and a process   *)
(* goes wrong, other than by an assert, only after the caller of a bare     *)
(* array broke one, or when array_new found no memory.                      *)
FailsOnlyMisused ==
  /\ slips # {} => kind = "array"
  /\ fate = "undefined" =>
       kind \in ArrayKinds /\ (slips # {} \/ array = NULL)
=============================================================================

# libellul in TLA+

Specifications, TLC runs and TLAPS proofs for *libellul*, the C library of this repository
(`src/libellul`): a unit-test driver built on POSIX signals, an intrusive deque, and maps and sets
generated from preprocessor templates.

The library is single-threaded.  What makes it hard is elsewhere: signals that arrive between any
two statements and leave the code under test by `siglongjmp`; loop bodies and destructors that
change the structure being walked; probe sequences, evictions and shifts whose correctness depends
on the whole history of a table; and a set of templates that answers the same interface with
different guarantees.

## Inventory

| component | source | state | operations | what is hard | what must hold | modelled by |
|---|---|---|---|---|---|---|
| unit-test driver | `include/libellul/unitest.h`, `src/unitest.c` | `this`: two sets of counters, `expect_abort`, the jump buffer `restart`, installed handlers, the timer | `test_assert`, `test_abort`, `test_suite`, `posix_signal_handler`, `test_finish` | SIGINT, SIGTERM and SIGALRM at any statement, traps in the code under test, jumps into a context saved by an earlier test | a verdict, a total, the report and the exit status mean what they say; the program ends | `UnitTest` |
| oracle tests | same | `in_oracle_test`, the captured stream | `test_oracle_start`, `_check`, `_check_file` | handlers stay installed, no timer, files that fail to open | same | `UnitTest` (partly) |
| run-time options | `src/unitest.c:428-584` | `this.env` | parsing | none: runs before any test | | constants of `UnitTest` |
| deque | `include/libellul/type/deques.h`, `src/deques.c` | a ring of `link_t`, a length, an offset | init, reset, add and delete at both ends, `deque_foreach`, `deque_destroy` | an update or a reset interrupted between two stores, and calls on what it left; a loop body that updates the deque, destructors that free, calls before init | a sequence, until an update of a half-done deque; no wild pointer is followed | `Deque` |
| Robin Hood table | `structure/hashtable/robin-hood.h` | buckets, values, distances, length, capacity | new, delete, put, get, contains, remove, rehash | eviction chains, backward shifts, rebuilding in the middle of a put | a map; probe distances exact; loops end | `RobinHood` |
| linear table | `structure/hashtable/linear.h` | a fixed array of buckets and values | new, delete, put, insert, get, contains, remove | removal without tombstones, the full table | what a client may rely on | `LinearProbing` |
| binary search map | `structure/Binary_search_map.h` | a sorted array, length, capacity | new, delete, put, insert, get, contains, remove | loop bounds, growth, shifting | a map; sorted; reads only what was written | `BinarySearchMap` |
| closed map | `structure/hashtable/closed.h` | an array of deques of the caller's entries, a size | new, delete, insert, find, remove, foreach | callbacks that update the table between two steps of the walk; the removal in the middle of a ring, done by hand | a map; closed rings; walks give each entry once and end | `ClosedMap` on `Ring` |
| hash trie | `structure/hashtrie.h` | what is built is one leaf: a list of entries, two counters | new, delete, put, get, contains, remove | calls interrupted between two stores, allocations that fail | a map; a key is there once; freed memory is not reached | `HashTrie` |
| array | `src/array.c`, `type/array.h` | a hidden header: length, capacity, strict | new, delete, resize, push, pop | sizes computed twice, in floating point and in integers, that may wrap around; resize without a result | room for what is promised | `Array` |
| stack, queue | `type/stack.h`, `type/queue.h` | the array, or a deque of nodes | new, push, pop, top, front, back, delete | the rules of the structure below, emptiness, failing allocations | a sequence; no node leaks or is used after it was freed | `Adapters` on `Array` and `Ring` |
| map and set interface | `type/map.h`, `type/set.h`, `type/map/interface.h`, `src/map.c` | none | compare, union, ... | the bodies of union, intersection and differences are empty | | the promise is `AbstractMap` |
| memory wrappers | `src/memory.c` | none | allocate, dispose | an assert ends the process when malloc fails | | in `Adapters` |
| clock, logging, macros, strings, generics, `config.c` | | a time stamp | formatting | none | | not modelled |
| tests, benchmarks, course examples, report | `test`, `bench`, `course`, `report` | | clients and documents | | what they say is compared with the models | not modelled |

**Interactions.**  Every test program links the driver, which calls the code under test inside
`test_driver`; a signal there leaves whatever container function was running half done.  Queue, one
stack and the closed map are built on the deque; the other stack on the array; every map template
answers the same interface, so the same client code is given the guarantees of whichever header it
includes.

The hazards of the code, one by one and with their lines, are in `PROJECT.json` under "hazards";
the properties below were chosen from that list.

## Modules

| module | role |
|---|---|
| `UnitTest` | the driver, the handlers, the oracle tests and a script of test statements |
| `UnitTestProofs` | all its invariants for any scripts and any number of signals; and all properties of `Deque`, the structure that its handler may leave half done |
| `AbstractDeque` | what a deque promises: a sequence that changes at its ends |
| `Deque` | the ring, store by store, shown to implement `AbstractDeque` |
| `Ring` | the same functions on the links as a whole, for what is built on deques |
| `RingProofs` | what they preserve, for rings of any length and number; lemmas about functions as sequences |
| `AbstractMap` | what every map promises: a finite partial function |
| `RobinHood`, `LinearProbing`, `BinarySearchMap`, `ClosedMap`, `HashTrie` | five implementations, each compared with `AbstractMap` |
| `RobinHoodProofs` | that probe distances are exact and every key is found, and that it implements `AbstractMap` |
| `LinearProbingProofs` | the invariants of the linear table, and what it implements for a careful client |
| `BinarySearchMapProofs` | the invariants of the sorted array for any keys, capacity and history, and that it implements `AbstractMap` |
| `ClosedMapProofs` | that the chains of the closed map are rings, that walks are exact, and that it implements `AbstractMap` |
| `HashTrieProofs` | the invariants of the trie, and that it implements `AbstractMap` |
| `AbstractSequence` | what arrays, stacks and queues promise: a sequence and a discipline |
| `Array`, `Adapters` | the array; and stacks and queues on it and on deques, shown to implement `AbstractSequence` |
| `AdaptersProofs` | their invariants and the refinement, for any sizes and any number of nodes |
| `MC*` | the sets that TLC enumerates |

Definitions named `X_Something` above a definition `X` are variants: the same step with a plausible
mistake in it.  Nothing uses them; they are there to be put in X's place, to see that a property
notices.

### UnitTest

A test program is a `script`, a sequence of statements (`test_assert`, `test_abort`, the ends of an
oracle test, a new suite, plain code, a return from the function), each of which behaves in one of
five ways: it is true, false, aborts, segfaults or hangs.  `pc` is the statement of the macro
`test_driver` that comes next:

| `pc` | the main thread is about to | action |
|---|---|---|
| `next` | start the statement at `pos` | `DriverEnter`, `OracleStart`, `Suite`, ... |
| `entered` | store `expect_abort` (unitest.h:119) | `DriverExpect` |
| `expecting` | count the test (120-121) | `DriverCount` |
| `counted` | skip it (128-139), or `sigsetjmp` and `alarm` (140-141) | `DriverSkip`, `DriverArm` |
| `armed` | evaluate the expression (143) | `DriverReturns`, `Traps`, `Spins` |
| `ran` | `alarm( 0 )` and remove the handlers (149-150) | `DriverDisarm` |
| `disarmed` | count the verdict (151-188) | `DriverPass`, `DriverFail` |
| `handler` | run `posix_signal_handler` for `hsig` | `HandlerExit`, `HandlerJump` |
| `resumed` | continue after `siglongjmp` (145-148) | `DriverResume` |

`restart` is the block whose `sigsetjmp` was the last one, so a jump goes there, whatever is being
executed.  `stale` records that a jump has left the test it interrupted, after which the C standard
promises little about locals; most properties are about executions where that has not happened, and
`JumpsStayInTest` says exactly when it can: only after a Ctrl-C or SIGTERM, in a debugger, or with
oracle tests.  A jump into a function that has returned ends in `wild`.

SIGFPE and SIGILL, which no counter counts, and the texts of the report are left out; the numbers of
the report are the counters.

### Deque

One action per store of `deque_addfront`, `deque_addback`, `delete_front` and `delete_back`, and of
`deque_init`, `deque_reset` and the reset that ends `deque_destroy` (`Emptying`), so that `JumpOut`
(the handler's `siglongjmp`) may happen between any two.  `deque_init` stores `next` and `prev` twice,
first in `link_init`; the second time changes nothing and is not a step.  `iter` is a running
`deque_foreach` or `deque_destroy`, with the link and the next link that it has saved; between two
of its reads the body may run any operation on the deque.  `fate` tells an assert that failed
("aborted") from an access through a pointer that leads nowhere ("wild") and one to a freed object
("dangling").  The assert of a deletion compares with NULL only, as the code does.

The caller has four rules to keep, and `Misuse` says which of them it breaks: to initialise first
(`raw`), to initialise again after a reset (`reset`), not to delete from an empty deque (`empty`), not
to remove the next element inside a foreach (`next`).  Whatever it breaks, it does not push an object
that it has freed, and a destructor given to `deque_destroy` frees its element and calls nothing of the
deque.  That an interrupt has left the deque half done
is not among them: nothing in the code can know it, and the test that runs next may call anything.
The history variable `left` says what was left half done since the deque was last initialised or
reset (an update, a reset, a destroy), and `late` counts the calls since then that update the deque,
free an object or walk over one whose destroy was cut short.  Such a caller does not know which
elements are in the ring, so it may push one that is, and free one that is.

The refinement mapping is `items <- Forward`, the ring read forwards: one store of each operation
changes it and all others are invisible.  An interrupted call has taken effect or has not.  What the
ring promises ends with the first late update, and `AbstractDeque` says so (its `status`): if
`deque_addback` is interrupted after its third store, the ring has the new element forwards and not
backwards, and the next `deque_addback` takes it out again.  A reset, which stores to the head only,
mends everything.  `FailsOnlyRaw` holds after late calls too: an initialised deque never leads to NULL
or to nowhere, but after late calls it may lead to an object that was freed.

### AbstractMap and its implementations

`RobinHood` and `BinarySearchMap` have one action per iteration of each loop, with the loop's
locals as variables; the content of the abstract map is read from the slots, including the entry
that a put or a rebuild has in hand.  `LinearProbing` has one action per function: its loops change
nothing but the slot they end at.  Its operators `Probe` and `End` are the loop, without the
recursion.

The linear and the binary search map are also sets, if `T_SET_ELEMENT` is defined; `kind` says which
of the two a behaviour is about.  Not every client gets a map from them.  The history variables
`careless` (`LinearProbing`) and `again` (`BinarySearchMap`) record that the client has done what
their documentation does not forbid and their code does not support; the invariants say what holds
before and what holds regardless.

### ClosedMap

`ring` holds the links of the bucket heads and of the caller's entries; `Ring` has the functions of
`deques.c` on such links, each as a whole, and the removal in the middle that `closed.h` writes
out (`Unlink`).  Each function is one action, except `foreach`: `walk` keeps its bucket, the entry
it has given to the callback and the link it saved before, and `Insert` and `Remove` may come
between any two `WalkNext`.  The `break` in `remove` is inside the inner of the two loops that
`deque_foreach` expands to, so the search goes on after a hit and the last one counts; this is in
`Remove`, and `EntriesExact` says that it does not matter.  A callback that removes the entry that
comes next leaves the walk on a link to itself, or, once that entry is inserted into another bucket,
on a ring whose head it does not know; `slip` records both.

A callback does not walk over the table itself: there is one `walk`, and nested walks are left out.

### Array, stacks and queues

`Array` keeps apart what the code keeps apart: `allocd`, computed from the number of elements, and
`room`, what `malloc` was asked for in bytes, computed from a product that wraps around at
`SizeLimit`.  A resize may fail, do nothing (a strict array) or go through, and nothing tells its
caller; `Push` and `Pop` go on as they do in the code.  `slips` records which of three rules the
caller of a bare array has broken.  `Adapters` adds the two stacks and the queue, as the templates
of `stack.h` and `queue.h` generate them, and keeps all their cells and nodes; `kind` says which
container a behaviour is about.  `delete` is one step per node.  Every `malloc` may fail: the wrappers
of `memory.c` assert, `array_new__` does not look.  The abstract specification, `AbstractSequence`,
is one sequence with a discipline.

### HashTrie

All nodes are made by `ht_new_leaf` and nothing turns a leaf into an inner node, so that the trie
the code builds is one leaf with a list: the branches for inner nodes, and the hash, are dead code
and not modelled.  `put`, `remove` and `delete` take several steps, one per store that another call
could notice, and `Interrupt` may come between them; every `calloc` may fail.  `remove` unlinks the
entry, frees it, and takes one from each counter.  `dangling` says that something is freed to which
the handle still leads: during a delete, after a delete that was interrupted (`cut`), or if `remove`
freed an entry that is in the list.  Three actions crash: `NullHandle` (`contains` and `get` do not
test the handle), `NullRoot` (`put` tries again to allocate a root and does not look) and `UseAfterFree`.

## Runs

| run | configuration | bounds | result |
|---|---|---|---|
| `unittest` | `UnitTest.cfg` | every script of up to 3 statements (17 kinds), one SIGINT or SIGTERM anywhere, up to 3 traps, an exit status that counts to 2 | all invariants hold; 2 million states |
| `unittest_live` | `UnitTestLive.cfg` | scripts of 2 plain statements, two user signals | the program ends |
| `unittest_ctrl_c` | `UnitTestCtrlC.cfg` | 2 statements, one signal | violated: a Ctrl-C makes a failed assertion pass |
| `unittest_segfaults` | `UnitTestSegfaults.cfg` | 3 statements | violated: a suite reports the segfaults of another |
| `deque` | `Deque.cfg` | 3 elements, one of them in the middle; any number of interrupts, one late call until the deque is cleared (`MaxLate`); two of the four rules broken (`raw` and `empty`) | all properties hold; 5 million states |
| `robin_hood` | `RobinHood.cfg` | 4 keys, 2 values, every way to spread the keys over the homes 0, 1 and 7 that uses 0, tables of 2 to 16 slots | all properties hold |
| `linear` | `Linear.cfg` | 4 keys, 2 values, 3 slots, all hash functions, map and set | all properties hold |
| `linear_hidden` | `LinearHidden.cfg` | same | violated: a removal hides a key |
| `binary_search` | `BinarySearch.cfg` | 4 keys, 2 values, growth from 1 to 8 slots, sets of up to 5 entries | all properties hold |
| `closed` | `Closed.cfg` | 3 keys, 2 values, 3 entries, 2 buckets, the ways to spread the keys that use bucket 0 | all properties hold |
| `containers` | `Containers.cfg` | 2 values, elements of 2 bytes, a `size_t` below 64, requests for 0, 1, 3, 31 and 33 elements, up to 6 pushes, 4 nodes | all properties hold |
| `hash_trie` | `HashTrie.cfg` | 3 keys, 2 values, counters below 8, 2 interrupted calls | all properties hold |

**Why the bounds are enough.** A stale jump needs two tests, and a third statement gives it a suite,
a return or a check in between; the exit status counts to 2 (`ExitRange` is 3) so that three failures
wrap it around.  More than three traps only happen when a stray abort goes round in a circle, which
`TrapsBounded` cuts. Three links give a ring a first, a middle and a last element, and an end that
two operations meet at.  One late call is enough to break the sequence, after which only `FailsOnlyRaw`
says anything; that no further call adds a failure is what its proof shows, for any `MaxLate`.  The rule
`next` is kept in `Deque.cfg` since the properties of a foreach need it, and `reset` since a push after
a reset does to the links what any push does. Four keys in the Robin Hood table, whose homes are the first two slots and
the last, make chains of two evictions that wrap around, and three rebuilds; keys are only tested
for equality, so the hash functions that do not decrease stand for all. Three slots for four keys
fill the linear table and overflow it. Four keys in the sorted array give every shape of the binary
search over up to five slots and three doublings.  Two buckets and three entries give the closed map
a chain with a middle, one that is empty, and a walk that an entry can overtake or fall behind.  Of
the array's requests 0 and 1 make room for nothing, 3 grows by one, 31 fits before it is multiplied
by 1.3 and not after, and 33 wraps around to one element.  Four nodes are a deque with two in the
middle.  In the trie two interruptions of removals can make a counter negative, and 8 is enough to
tell -2 from 5.

**Model checking only what can happen.**  `Spec` alone is used for the safety runs.  Deadlock is
checked in every run: what has ended or crashed stutters explicitly (`Done`, `Halted`).
Keys, values, links and nodes are interchangeable where they are only compared; the runs without a
liveness property use that symmetry (`deque`, `linear*`, `containers`, `hash_trie`), or, for keys
with a hash function, one representative per spread.

**Fairness.**  `FairSpec` of `UnitTest` has `WF_vars(Main)` (the operating system schedules the only
thread) and `WF_vars(Timeout)` (an armed `alarm` fires); nothing makes a user press Ctrl-C.
`FairSpec` of `RobinHood` and of `BinarySearchMap` has `WF_vars(Loops)`: a function that is being
executed goes on; clients need not call anything.  `FairSpec` of `ClosedMap` has `WF_vars(WalkNext)`:
the callback of a walk returns in the end; it may update the table before, and a walk whose
callbacks insert for ever is what `WalkEnds` leaves out.

## What disagrees with the code

Each "violation" run checks something a document, a comment or a test says; the quotes and the lines
are in `PROJECT.json` under "findings".

1. `unittest_ctrl_c`.  A `test_assert` aborts and fails; the next statement is a `test_abort`, and
   Ctrl-C arrives after it has set `expect_abort` and before its own `sigsetjmp`.  The handler jumps
   into the finished `test_assert`, which now finds an abort expected and counted, and passes.
2. `unittest_segfaults`.  `test_suite__` forgets to reset `segfaulted`.
3. `linear_hidden`.  Emptying a slot cuts the run of slots that later keys were probed over.

What else was seen to disagree is part of the models, without a run of its own:

- An oracle test is never timed out: only `test_driver` calls `alarm`.
  `test/howto/02_test-examples-fail.c:76` says that tests are.  `Terminates` exempts them.
- `report/deques.tex:33` says "Deletion operations on an uninitialized or empty deque trigger the
  expected error handling."  They do not.  The assert of a deletion (`deques.c:54`, `72`) compares
  `head.next` with NULL, which the head's link never is once initialised: a deletion from an empty
  deque passes it and makes the length negative, and one from an uninitialised deque is stopped only
  if the memory happens to be zero, and follows a wild pointer otherwise.  In `Deque.cfg` the caller
  does both; `RingSound` says what is left of the empty deque, a whole ring with a length off by one,
  and `FailsOnlyRaw` that of the uninitialised ones those with a wild pointer get past the assert.
- `deque_reset` clears the offset with which objects are found, so that the next push writes the link
  over the beginning of the object, which only `deque_init` prevents.  The model has the offset, and
  not the contents of the objects: no property is about what is overwritten.
- `test/props/test-robinhood.c:49` and `:63` assert that putting a key again returns 1; the code
  returns 0 for a key that is there (`robin-hood.h:300`), and 1 for a new one only.  `RobinHood` models
  what a put does to the table and not what it returns.
- `report/hashtries.tex:66-72` and `:94` report a benchmark of the hash trie that always crashes at
  N = 32768, and suspect the recursion or the inner nodes.  With one leaf there is neither a recursion
  nor an inner node in the code of this commit, and without interrupts or failing allocations the
  model has no crash (`FailsOnlyInterrupted`); the benchmark and its driver are outside of it, so that
  it neither reproduces nor explains the report.
- A key that `linear.h` did not find when asked to remove it is back as soon as the hole is filled;
  and `insert` of the linear and of the binary search set stores an element twice (`SlotsSound` and
  `KeysUnique` exclude a `careless` client and one that inserts `again`).
- `array.c:41-42` documents that a strict array has room for exactly what was asked; the code
  multiplies by 1.3 for both.  A push on a full strict array overwrites its last element, or the
  header.  `ARRAY_ALLOC_MIN` is not used.
- `report/hashtries.tex:62` says that an empty leaf is freed; the code keeps it.  The inner nodes
  that the report describes are never made, and the set variant of `hashtrie.h` calls a function
  that does not exist, so that it does not compile.

## Proofs

The proof modules assume only what the `ASSUME`s of the modules state, which TLC evaluates in every
run, and hold for every value of the constants.

**`UnitTestProofs`** proves the seven invariants of the driver.  `TypeOK` (the unsigned counters
never wrap) is not inductive: that `aborted--` at unitest.h:154 is safe needs that the test is still
there (`Placed`) and that what made it pass was counted (`NoWrap`).  `VerdictSound` needs what is
known at every statement in between: which counter the copy `saved_ntests_aborted` is still equal to
or one less than, what `ret__` stands for, and what `restart` points to while `stale` is false.
`JumpsStayInTest` comes from `CalmInv`: without a user, a debugger or oracle tests the handlers are
installed only while the context they return to is that of the running test.  `FailureExplained`
uses `BlameInv`, which names, at each statement between a signal and the verdict, the counter that
explains it.  `ExitZeroMeansAllPassed` and `TallyExact` are about the members of sets: `SumsInv` says
that the counters are the sizes of the sets of tests that have been counted and that have passed,
and each step changes a set by the test at `pos`.  `TallyExact` also says that the suite's report
adds up (`aborted + timed_out` never exceeds the failures): `MarginInv` keeps the slack between the
two, with what is reserved for an oracle test that is open and owed by the test that is running.
`TalliesExact` assumes that oracle tests end in the suite they begin in, as the scripts of the
runs do.  Each action of `Main` has its lemma.

**`UnitTestProofs`** also hosts the proofs of `Deque`, whose updates the driver's handler may jump out
of.  They are `[]RingSound`, `[]FailsOnlyRaw`, `VisitsMembers`, `VisitsAll` and the refinement
`DequeSpec => ImplementsDeque`, for any number of elements and of interrupts.  The inductive
invariant, `DequeInv` (`DequeInvAlways`), has two layers.  `LinkedInv` holds however the deque was left
and whatever was done to it since.  Its core is `LinkInv`: a link to which another one leads has both
fields in the ring, and an element is led to only once the head is.  `StoreInv` adds how far the fields
of the link at hand are known at each store.  From it comes that nothing is wild once initialised;
`RawInv` covers what comes before.  `RingedInv` holds until a late call.  Some numbering of the links is the order in which `next`
goes around (`Along`); `Stage` says, before each store of each update, whether `prev` agrees with that
order (`Against`) or with one that has an end element more or less (`Before`, `Behind`, `FirstGone`,
`LastGone`), and `Lag` by how much the length is behind.  `Readable` follows from every stage, and is
what is left after an interrupt: both directions come back to the sentinel, or the deque was being
emptied and is empty forwards.  `LoopInv` says that no freed object is in the ring, and where a loop is: the saved link has some
number k, and of the elements that stayed, those with a number below k have been given to the body of
the foreach; a destroy has freed none but those behind it.  `ChainAlong` and `ChainAgainst` turn a numbering into the sequence that a reader of
the ring sees, in either direction (`Turned` compares the two); with them the refinement is one fact
per store, that this sequence stays or changes at one end.  There is a lemma per action, and in it a
step per store (`AddFrontStores` and its like); `DequeNextStep` puts them together.  `RingSound` and the
refinement hold whichever of its rules the caller breaks, within the model's bound that an empty deque
is deleted from once until it is initialised or reset (`MayDeleteFromEmpty`); they are about deques without a late call,
as `RingSound` and the refinement mapping say themselves.  `FailsOnlyRaw` needs no hypothesis: it names
the deques in which a freed object may be accessed.  The two properties of a foreach assume
`"next" \notin Misuse`: the body of a foreach does not remove the element that comes next, whose link
deques.h:45-49 has already saved; `Deque.cfg` makes this assumption too.

**`BinarySearchMapProofs`** proves `[]TypeOK`, `[]ReadsWritten`, `[]Sorted`, `[]KeysUnique` and
`[]WindowHoldsKey` from one inductive invariant.  `Bounds` relates the variables of each loop to the
length and the capacity, `Written` says that every live slot holds an entry, `Split` what a search
has established on both sides of its bounds and the shift preserves until the gap is filled, and
`Absent` that the key being inserted is in no slot.  There is one lemma per action, with one step
per conjunct that the action disturbs; `MidInside` is the arithmetic of the middle and `GrowRoom`
what `realloc` guarantees.  The refinement `Spec => ImplementsMap` is about the set of entries in
live slots: neither a search nor a shift, which copies an entry over the gap, changes it.

**`LinearProbingProofs`** proves `[]SlotsSound`, `[]KeysAreFound`, `[]PutIsRead` and the refinement.
What makes a careful client's table a map is that the slots a probe passes before it gets to a key
are used by other keys; `AtNext` and `EachSlotProbed` are the arithmetic of a probe that wraps around, and
that a probe of as many slots as there are gets to all of them.

**`RobinHoodProofs`** proves `[]TableSound`, `[]FindsExactly` and the refinement, for any hash function
and initial capacity.  Everything rests on one fact about neighbours, `Tight`: an entry that is d > 0
steps from its home comes right after a resident that is at least d - 1 from its own.  `Below` derives
from it that every slot between the home of a key and the key holds an entry that is at least as far
from its home as the probe has come, so that the early end of a probe hides nothing (`SearchEnds`).
During a backward shift `Tight` holds but for the hole, and what comes after the hole may be moved into
it (`Loose`).  `Fits` says that the entry in hand may be put where the loop is; an eviction hands it
over to the resident it takes out (`EvictFits`).  Once put has placed its own entry and carries another,
`Trail` says that all slots since are full, so that it cannot come round to its own entry and update it.
`RoomInv` counts what a rebuild has yet to move: the new table stays less than half full.  For the
refinement the map is the set of entries held, in slots, in hand or in the old table; each action
leaves it, puts one pair, or forgets one key.

**`RingProofs`** is about the functions of `deques.c`, for a deque of any length.  `Ordered(r, h, f,
n)` says that `f` numbers the n elements of the deque with head h so that both directions of the
links agree with it; each function preserves it for a numbering that the theorem gives: the new
element last, the first or the last one gone, and for the removal in the middle of `closed.h` those
behind the removed one moved up (`UnlinkOrdered`).  `AroundInOrder` says that a reader who follows
the links sees just that order.  `AddBackClosed` and `UnlinkClosed` are the weaker fact that is
needed when many rings share the cells, as in the closed map: links that are each other's inverses
stay so, whatever ring they are in.

**`ClosedMapProofs`** proves `[]RingsClosed`, `[]EntriesExact`, `WalkExact` and the refinement.  The
invariant numbers the entries of each chain (`Chained`); from it and `RingProofs` follows what each
chain holds, and that the last hit of a search is the only one.  For the walk it says which entries
are still ahead: those behind the saved link in its chain and those of the buckets that have not
been reached.  What is ahead has not been given, and what stayed in the table was given or is ahead;
an insertion adds an entry ahead or behind, a removal of any entry but the next one leaves the
others where they are.

**`AdaptersProofs`** proves `[]RoomEnough`, `[]FailsOnlyMisused`, `[]NodesExact` and the refinement
`AdaptersSpec => ImplementsSequence`.  `GeomRoom` is
the arithmetic: rounding 1.3 n down and rounding 1.3 n times the size down leaves room for as many
elements, for every size and every width of a `size_t`, as long as the product does not wrap around;
`ShortFits` carries this from the bound `MaxLength` to all that is shorter, and `LastDoesNotFit` says
that the SIZE_MAX elements that a pop from an empty array asks for never fit.  The inductive
invariant has one part per carrier.  For the deque it is `LinkedInv`: some numbering of the allocated
nodes is `Ordered`, and the length of the deque is their number, so that the node at the end that is
served is one of them; with `AroundInOrder` it also says that no node leaks.  For the refinement the
same numbering, with what `AddBackOrdered`, `DeleteFrontOrdered` and `DeleteBackOrdered` say of the
numbers after a call, turns the contents of the ring into a sequence that `Append`, `Tail` and
`SubSeq` change; for the array `ResizedKeeps` says that a new block holds what the old one held, and
`LengthBound`, that a length is always below `SizeLimit`, that only a pop from an empty array wraps
around.  A step after which a rule is broken or the process has failed promises nothing.

**`HashTrieProofs`** proves `[]KeysUnique`, `[]FailsOnlyInterrupted`, `[]OffByInterrupts` and the
refinement `Spec => ImplementsMap`, for any number of interrupted calls.  The invariant says, besides
the types, that no key is twice in the list (`Unique`), that a put in progress has not found its key
and a removal has (`Found`), that the entry which `remove` has
unlinked was the only one with its key, so that what it frees is not in the list (`Found` at the
second store, from `Unique` before the first), and that something freed is in reach only while a delete
is running or after one was interrupted (`Freeing`).  For the refinement the content of the list is described by who holds
which value (`Holds`), and each action maps to one of the abstract map's or to a stutter.  The
counters are compared with the number of entries plus what the running call has yet to add or take
off (`Counted`); `RemainderAdds` is the arithmetic modulo the width of a `size_t`.

**Model-checked only.**

- Liveness: `Terminates`, `Returns`, `WalkEnds`.

All other properties of the passing runs are theorems.

## Not modelled, and why

- Option parsing, logging, strings, the clock, `config.c`: sequential code whose state no other
  component reads, or formatting.
- The names, contents and rewinding of capture files: an oracle compares equal or does not.
- SIGFPE and SIGILL.
- Keys equal to `EMPTY_KEY`, and hash functions that return negative values, in the open tables.
- Signals inside the functions of `RobinHood`, `LinearProbing`, `BinarySearchMap`, `ClosedMap` and
  `Adapters`: an action there is a loop iteration or a function, while a signal may come between any
  two stores.  `Deque` and `HashTrie`, whose actions are stores, have them.
- Walks of the closed map inside the callback of another walk.
- The return values of `RobinHood`'s `put` and `remove`.
- The branch of `test_oracle_start` for a stream that is neither stdout nor stderr: it leaves the
  streams alone, and `OracleStartFails` does not tell it apart from a file that cannot be opened.
- `deque_first` and `deque_last`, which trust the length: with a length off by one they give the head
  as an element.
- Failing allocations in `RobinHood`, `LinearProbing`, `BinarySearchMap` and `ClosedMap`.
- The length field of a bucket of the closed map, which `insert` counts up, `remove` leaves alone
  and nothing reads; entries whose link is not their first field (`insert` initialises the first
  bytes, `remove` the field).
- The dead branches of the hash trie, and its set variant, which does not compile.
- The empty functions of `type/map.h`.

## Plan

1. *Done*: `UnitTest` with its proofs; `AbstractDeque` and `Deque`; `AbstractMap`, `RobinHood`,
   `LinearProbing`, `BinarySearchMap` with its proofs.
2. *Done*: `Ring` and `ClosedMap`; `Array` and `Adapters` against `AbstractSequence`; `HashTrie`;
   with the proofs of `Ring`, `Adapters` and `HashTrie`.
3. The driver composed with a container: what a test that was interrupted in the middle of a put of
   the Robin Hood table leaves to the next test, store by store.
4. *Done*: the proofs of `RobinHood`, `LinearProbing` and `ClosedMap`, the remaining invariants of `UnitTest`, the
   refinements of `AbstractMap` by the maps and of `AbstractSequence` by `Adapters`.
5. *Done*: the proofs of `Deque`, store by store.

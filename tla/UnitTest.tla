------------------------------ MODULE UnitTest ------------------------------
(***************************************************************************)
(* The unit-test driver of libellul: the macros test_assert, test_abort    *)
(* and test_suite, the oracle functions, the signal handler they install   *)
(* and the exit hook that turns the counters into an exit status.          *)
(*                                                                         *)
(* A test program is a script, a sequence of statements.  The main thread  *)
(* walks through it; signals come from the code under test (SIGABRT,       *)
(* SIGSEGV), from the timer (SIGALRM) and from the user (SIGINT, SIGTERM)  *)
(* between any two of its steps.  The handler never returns: it leaves     *)
(* through siglongjmp to the last sigsetjmp, whichever test made it.       *)
(***************************************************************************)
EXTENDS Integers, Sequences, FiniteSets

CONSTANTS
  Scripts,       \* the test programs considered
  MaxSignals,    \* how many SIGINT or SIGTERM the user sends (bounds the model)
  ExitRange      \* exit statuses are taken modulo this (256 on POSIX)

UserSignals == {"SIGINT", "SIGTERM"}
Signals     == UserSignals \cup {"SIGALRM", "SIGABRT", "SIGSEGV"}

(***************************************************************************)
(* Statements.  "assert" and "abort" are test_assert and test_abort,       *)
(* "ostart" and "ocheck" the two ends of an oracle test, "code" is what a  *)
(* program runs outside the macros, "return" leaves the function that the  *)
(* statements before it belong to.  "behave" is what the statement's own   *)
(* expression does: yield a value, abort, segfault or never end.  For      *)
(* "ostart", "false" means that the capture file cannot be opened; for     *)
(* "ocheck", that the output differs from the oracle or one is unreadable. *)
(***************************************************************************)
DriverKinds == {"assert", "abort"}
Kinds       == DriverKinds \cup {"ostart", "ocheck", "code", "suite", "return"}
Behaviours  == {"true", "false", "abort", "segv", "hang"}
Statement   == [kind : Kinds, behave : Behaviours]

ASSUME ScriptsAssumption == Scripts \subseteq Seq(Statement)
ASSUME BoundsAssumption  == MaxSignals \in Nat /\ ExitRange \in Nat \ {0}

VARIABLES
  script,       \* the program under test
  pos,          \* the statement the main thread is at
  pc,           \* where the main thread is within it, or how the process ended
  opts,         \* this.env.debug and this.cont_on_sigsegv
  suite,        \* this.suite
  total,        \* this.total
  expectAbort,  \* this.env.expect_abort
  inOracle,     \* this.in_oracle_test
  captured,     \* the capture file is open and stdout writes to it
  saved,        \* saved_ntests_aborted of each test_driver block
  ret,          \* ret__ of the current test_driver block
  restart,      \* the block this.env.restart was last set in, 0 if never
  handled,      \* the signals that posix_signal_handler is installed for
  alarm,        \* a SIGALRM is scheduled
  hsig,         \* the signal being handled
  nsig,         \* user signals sent so far
  status,       \* the exit status
  verdict,      \* history: what each statement was last tallied as
  stale         \* history: a jump left the test it interrupted

vars == <<script, pos, pc, opts, suite, total, expectAbort, inOracle, captured,
          saved, ret, restart, handled, alarm, hsig, nsig, status, verdict, stale>>

(* What a script never changes once unit_test() has read the command line. *)
program == <<script, opts>>
history == <<verdict, stale>>

Counters == [total : Nat, passed : Nat, interrupted : Nat, aborted : Nat,
             segfaulted : Nat, untested : Nat, timed_out : Nat]

NoTests == [total |-> 0, passed |-> 0, interrupted |-> 0, aborted |-> 0,
            segfaulted |-> 0, untested |-> 0, timed_out |-> 0]

(* exited: exit() ran test_finish; aborted: _exit() in the handler;        *)
(* killed: a signal's default action; wild: siglongjmp to a dead frame.    *)
Final == {"exited", "aborted", "killed", "wild"}
Steps == {"next", "entered", "expecting", "counted", "armed", "ran", "disarmed",
          "handler", "resumed"}

Positions == 1 .. Len(script)
AtEnd     == pos > Len(script)
Stmt      == script[pos]
IsDriver(p) == script[p].kind \in DriverKinds

At(label, kinds) == pc = label /\ ~AtEnd /\ Stmt.kind \in kinds
Advance == pos' = pos + 1 /\ pc' = "next"

-----------------------------------------------------------------------------
(* Signals *)

(* Delivery of s: SA_RESETHAND uninstalls the handler, whose first call is  *)
(* alarm(0); without the handler the default action ends the process.       *)
Raise(s) ==
  \/ /\ s \in handled
     /\ handled' = handled \ {s}
     /\ alarm' = FALSE
     /\ hsig' = s
     /\ pc' = "handler"
  \/ /\ s \notin handled
     /\ pc' = "killed"
     /\ UNCHANGED <<handled, alarm, hsig>>

(* While a handler runs its own signal is blocked, the others are not. *)
Interrupt(s) ==
  /\ pc \notin Final
  /\ ~(pc = "handler" /\ hsig = s)
  /\ Raise(s)
  /\ UNCHANGED <<program, history, pos, suite, total, expectAbort, inOracle,
                 captured, saved, ret, restart, status>>

UserSignal(s) ==
  /\ nsig < MaxSignals
  /\ nsig' = nsig + 1
  /\ Interrupt(s)

Timeout ==
  /\ alarm
  /\ Interrupt("SIGALRM")
  /\ UNCHANGED nsig

Caught(c, s) ==
  CASE s = "SIGINT"  -> [c EXCEPT !.interrupted = @ + 1]
    [] s = "SIGABRT" -> [c EXCEPT !.aborted = @ + 1]
    [] s = "SIGSEGV" -> [c EXCEPT !.segfaulted = @ + 1]
    [] s = "SIGALRM" -> [c EXCEPT !.timed_out = @ + 1]
    [] OTHER         -> c

Fatal == (hsig = "SIGSEGV" /\ ~opts.cont) \/ hsig = "SIGTERM"

(* The frame that called sigsetjmp is gone once its function has returned. *)
FrameLive(p) == \A q \in p .. pos - 1 : script[q].kind # "return"

HandlerCount ==
  /\ suite' = Caught(suite, hsig)
  /\ total' = Caught(total, hsig)

(* The rest of posix_signal_handler: count, then _exit() or siglongjmp(). *)
HandlerExit ==
  /\ pc = "handler"
  /\ Fatal
  /\ HandlerCount
  /\ pc' = "aborted"
  /\ status' = 1
  /\ UNCHANGED <<program, history, pos, expectAbort, inOracle, captured, saved,
                 ret, restart, handled, alarm, hsig, nsig>>

HandlerJump ==
  /\ pc = "handler"
  /\ ~Fatal
  /\ HandlerCount
  /\ IF restart # 0 /\ FrameLive(restart)
       THEN pos' = restart /\ pc' = "resumed"
       ELSE pos' = pos /\ pc' = "wild"
  /\ stale' = (stale \/ restart # pos)
  /\ UNCHANGED <<program, expectAbort, inOracle, captured, saved, ret, restart,
                 handled, alarm, hsig, nsig, status, verdict>>

-----------------------------------------------------------------------------
(* test_driver *)

(* FATAL() ends in abort(), which the installed handler catches. *)
DriverInOracle ==
  /\ At("next", DriverKinds)
  /\ inOracle
  /\ saved' = [saved EXCEPT ![pos] = suite.aborted]
  /\ Raise("SIGABRT")
  /\ UNCHANGED <<program, history, pos, suite, total, expectAbort, inOracle,
                 captured, ret, restart, nsig, status>>

DriverEnter ==
  /\ At("next", DriverKinds)
  /\ ~inOracle
  /\ saved' = [saved EXCEPT ![pos] = suite.aborted]
  /\ ret' = FALSE
  /\ handled' = Signals
  /\ pc' = "entered"
  /\ UNCHANGED <<program, history, pos, suite, total, expectAbort, inOracle,
                 captured, restart, alarm, hsig, nsig, status>>

DriverExpect ==
  /\ pc = "entered"
  /\ expectAbort' = (Stmt.kind = "abort")
  /\ pc' = "expecting"
  /\ UNCHANGED <<program, history, pos, suite, total, inOracle, captured, saved,
                 ret, restart, handled, alarm, hsig, nsig, status>>

DriverCount ==
  /\ pc = "expecting"
  /\ suite' = [suite EXCEPT !.total = @ + 1]
  /\ total' = [total EXCEPT !.total = @ + 1]
  /\ pc' = "counted"
  /\ UNCHANGED <<program, history, pos, expectAbort, inOracle, captured, saved,
                 ret, restart, handled, alarm, hsig, nsig, status>>

(* A variant that forgets to take a skipped test out of the totals. *)
DriverSkip_StillCounted ==
  /\ pc = "counted"
  /\ opts.debug /\ Stmt.kind = "abort"
  /\ total' = [total EXCEPT !.untested = @ + 1]
  /\ verdict' = [verdict EXCEPT ![pos] = "skip"]
  /\ Advance
  /\ UNCHANGED <<program, suite, expectAbort, inOracle, captured, saved, ret,
                 restart, handled, alarm, hsig, nsig, status, stale>>

(* In a debugger a test_abort is skipped: the break leaves the macro at     *)
(* once, with the handlers still installed.                                 *)
DriverSkip ==
  /\ pc = "counted"
  /\ opts.debug /\ Stmt.kind = "abort"
  /\ suite' = [suite EXCEPT !.total = @ - 1]
  /\ total' = [total EXCEPT !.total = @ - 1, !.untested = @ + 1]
  /\ verdict' = [verdict EXCEPT ![pos] = "skip"]
  /\ Advance
  /\ UNCHANGED <<program, expectAbort, inOracle, captured, saved, ret, restart,
                 handled, alarm, hsig, nsig, status, stale>>

(* A variant that never schedules the time-out. *)
DriverArm_NoAlarm ==
  /\ pc = "counted"
  /\ ~(opts.debug /\ Stmt.kind = "abort")
  /\ restart' = pos
  /\ pc' = "armed"
  /\ UNCHANGED <<program, history, pos, suite, total, expectAbort, inOracle,
                 captured, saved, ret, handled, alarm, hsig, nsig, status>>

DriverArm ==
  /\ pc = "counted"
  /\ ~(opts.debug /\ Stmt.kind = "abort")
  /\ restart' = pos
  /\ alarm' = TRUE
  /\ pc' = "armed"
  /\ UNCHANGED <<program, history, pos, suite, total, expectAbort, inOracle,
                 captured, saved, ret, handled, hsig, nsig, status>>

(* check_assert keeps the value of the expression, check_abort drops it. *)
DriverReturns ==
  /\ pc = "armed"
  /\ Stmt.behave \in {"true", "false"}
  /\ ret' = (Stmt.kind = "assert" /\ Stmt.behave = "true")
  /\ pc' = "ran"
  /\ UNCHANGED <<program, history, pos, suite, total, expectAbort, inOracle,
                 captured, saved, restart, handled, alarm, hsig, nsig, status>>

(* The statement's own code, in or out of a test, traps. *)
Traps ==
  /\ pc = "armed" \/ At("next", {"code"})
  /\ \/ Stmt.behave = "abort" /\ Raise("SIGABRT")
     \/ Stmt.behave = "segv"  /\ Raise("SIGSEGV")
  /\ UNCHANGED <<program, history, pos, suite, total, expectAbort, inOracle,
                 captured, saved, ret, restart, nsig, status>>

(* The statement's own code loops for ever. *)
Spins ==
  /\ pc = "armed" \/ At("next", {"code"})
  /\ Stmt.behave = "hang"
  /\ UNCHANGED vars

(* A variant that takes any jump for the abort it expects. *)
DriverResume_AnySignal ==
  /\ pc = "resumed"
  /\ ret' = expectAbort
  /\ pc' = "ran"
  /\ UNCHANGED <<program, history, pos, suite, total, expectAbort, inOracle,
                 captured, saved, restart, handled, alarm, hsig, nsig, status>>

(* A variant that compares before the handler's increment. *)
DriverResume_OffByOne ==
  /\ pc = "resumed"
  /\ ret' = (expectAbort /\ suite.aborted = saved[pos])
  /\ pc' = "ran"
  /\ UNCHANGED <<program, history, pos, suite, total, expectAbort, inOracle,
                 captured, saved, restart, handled, alarm, hsig, nsig, status>>

(* The else branch of sigsetjmp, entered through siglongjmp. *)
DriverResume ==
  /\ pc = "resumed"
  /\ ret' = (expectAbort /\ suite.aborted = 1 + saved[pos])
  /\ pc' = "ran"
  /\ UNCHANGED <<program, history, pos, suite, total, expectAbort, inOracle,
                 captured, saved, restart, handled, alarm, hsig, nsig, status>>

(* A variant without the final alarm(0). *)
DriverDisarm_KeepsAlarm ==
  /\ pc = "ran"
  /\ pc' = "disarmed"
  /\ UNCHANGED <<program, history, pos, suite, total, expectAbort, inOracle,
                 captured, saved, ret, restart, handled, alarm, hsig, nsig, status>>

DriverDisarm ==
  /\ pc = "ran"
  /\ alarm' = FALSE
  /\ pc' = "disarmed"
  /\ UNCHANGED <<program, history, pos, suite, total, expectAbort, inOracle,
                 captured, saved, ret, restart, handled, hsig, nsig, status>>

(* A variant that takes an abort back from every test that passes. *)
DriverPass_AbortedAlways ==
  /\ pc = "disarmed"
  /\ ret
  /\ handled' = {}
  /\ suite' = [suite EXCEPT !.passed = @ + 1,
                            !.aborted = @ - 1]
  /\ total' = [total EXCEPT !.passed = @ + 1]
  /\ verdict' = [verdict EXCEPT ![pos] = "pass"]
  /\ Advance
  /\ UNCHANGED <<program, expectAbort, inOracle, captured, saved, ret, restart,
                 alarm, hsig, nsig, status, stale>>

(* A variant that leaves the handlers installed. *)
DriverPass_KeepsHandlers ==
  /\ pc = "disarmed"
  /\ ret
  /\ suite' = [suite EXCEPT !.passed = @ + 1,
                            !.aborted = IF Stmt.kind = "abort" THEN @ - 1 ELSE @]
  /\ total' = [total EXCEPT !.passed = @ + 1]
  /\ verdict' = [verdict EXCEPT ![pos] = "pass"]
  /\ Advance
  /\ UNCHANGED <<program, expectAbort, inOracle, captured, saved, ret, restart,
                 handled, alarm, hsig, nsig, status, stale>>

DriverPass ==
  /\ pc = "disarmed"
  /\ ret
  /\ handled' = {}
  /\ suite' = [suite EXCEPT !.passed = @ + 1,
                            !.aborted = IF Stmt.kind = "abort" THEN @ - 1 ELSE @]
  /\ total' = [total EXCEPT !.passed = @ + 1]
  /\ verdict' = [verdict EXCEPT ![pos] = "pass"]
  /\ Advance
  /\ UNCHANGED <<program, expectAbort, inOracle, captured, saved, ret, restart,
                 alarm, hsig, nsig, status, stale>>

DriverFail ==
  /\ pc = "disarmed"
  /\ ~ret
  /\ handled' = {}
  /\ verdict' = [verdict EXCEPT ![pos] = "fail"]
  /\ Advance
  /\ UNCHANGED <<program, suite, total, expectAbort, inOracle, captured, saved,
                 ret, restart, alarm, hsig, nsig, status, stale>>

-----------------------------------------------------------------------------
(* Oracle tests, test_suite and plain code *)

OracleStart ==
  /\ At("next", {"ostart"})
  /\ ~inOracle
  /\ Stmt.behave = "true"
  /\ handled' = Signals
  /\ inOracle' = TRUE
  /\ captured' = TRUE
  /\ suite' = [suite EXCEPT !.total = @ + 1]
  /\ total' = [total EXCEPT !.total = @ + 1]
  /\ Advance
  /\ UNCHANGED <<program, history, expectAbort, saved, ret, restart, alarm,
                 hsig, nsig, status>>

(* The capture file cannot be opened: stdout is NULL, no test is counted.   *)
OracleStartFails ==
  /\ At("next", {"ostart"})
  /\ ~inOracle
  /\ Stmt.behave # "true"
  /\ handled' = Signals
  /\ inOracle' = TRUE
  /\ Advance
  /\ UNCHANGED <<program, history, suite, total, expectAbort, captured, saved,
                 ret, restart, alarm, hsig, nsig, status>>

OracleNested ==
  /\ At("next", {"ostart"})
  /\ inOracle
  /\ Raise("SIGABRT")
  /\ UNCHANGED <<program, history, pos, suite, total, expectAbort, inOracle,
                 captured, saved, ret, restart, nsig, status>>

(* Both files can be read and are the same but for the final newlines. *)
OutputMatches == Stmt.behave = "true"

(* test_oracle_check__ and test_oracle_compare; the handlers stay. *)
OracleCheck ==
  /\ At("next", {"ocheck"})
  /\ captured
  /\ inOracle' = FALSE
  /\ captured' = FALSE
  /\ \/ /\ OutputMatches
        /\ suite' = [suite EXCEPT !.passed = @ + 1]
        /\ total' = [total EXCEPT !.passed = @ + 1]
        /\ verdict' = [verdict EXCEPT ![pos] = "pass"]
     \/ /\ ~OutputMatches
        /\ verdict' = [verdict EXCEPT ![pos] = "fail"]
        /\ UNCHANGED <<suite, total>>
  /\ Advance
  /\ UNCHANGED <<program, expectAbort, saved, ret, restart, handled, alarm,
                 hsig, nsig, status, stale>>

(* fclose() of the stdout that OracleStartFails left NULL. *)
OracleCheckLost ==
  /\ At("next", {"ocheck"})
  /\ ~captured
  /\ inOracle' = FALSE
  /\ Raise("SIGSEGV")
  /\ UNCHANGED <<program, history, pos, suite, total, expectAbort, captured,
                 saved, ret, restart, nsig, status>>

(* test_suite__ resets every counter of the suite but segfaulted. *)
Suite ==
  /\ At("next", {"suite"})
  /\ suite' = [NoTests EXCEPT !.segfaulted = suite.segfaulted]
  /\ Advance
  /\ UNCHANGED <<program, history, total, expectAbort, inOracle, captured, saved,
                 ret, restart, handled, alarm, hsig, nsig, status>>

Plain ==
  /\ \/ At("next", {"code"}) /\ Stmt.behave \in {"true", "false"}
     \/ At("next", {"return"})
  /\ Advance
  /\ UNCHANGED <<program, history, suite, total, expectAbort, inOracle, captured,
                 saved, ret, restart, handled, alarm, hsig, nsig, status>>

(* A variant that reports the last suite alone. *)
Finish_LastSuite ==
  /\ pc = "next" /\ AtEnd
  /\ suite' = [NoTests EXCEPT !.segfaulted = suite.segfaulted]
  /\ status' = (suite.total - suite.passed) % ExitRange
  /\ pc' = "exited"
  /\ UNCHANGED <<program, history, pos, total, expectAbort, inOracle, captured,
                 saved, ret, restart, handled, alarm, hsig, nsig>>

(* main ends in exit(), which runs test_finish. *)
Finish ==
  /\ pc = "next" /\ AtEnd
  /\ suite' = [NoTests EXCEPT !.segfaulted = suite.segfaulted]
  /\ status' = (total.total - total.passed) % ExitRange
  /\ pc' = "exited"
  /\ UNCHANGED <<program, history, pos, total, expectAbort, inOracle, captured,
                 saved, ret, restart, handled, alarm, hsig, nsig>>

Done == pc \in Final /\ UNCHANGED vars

-----------------------------------------------------------------------------
Init ==
  /\ script \in Scripts
  /\ opts \in [debug : BOOLEAN, cont : BOOLEAN]
  /\ pos = 1
  /\ pc = "next"
  /\ suite = NoTests
  /\ total = NoTests
  /\ expectAbort = FALSE
  /\ inOracle = FALSE
  /\ captured = FALSE
  /\ saved = [p \in Positions |-> 0]
  /\ ret = FALSE
  /\ restart = 0
  /\ handled = {}
  /\ alarm = FALSE
  /\ hsig = "SIGINT"
  /\ nsig = 0
  /\ status = 0
  /\ verdict = [p \in Positions |-> "none"]
  /\ stale = FALSE

Main ==
  \/ DriverInOracle \/ DriverEnter \/ DriverExpect \/ DriverCount \/ DriverSkip
  \/ DriverArm \/ DriverReturns \/ DriverResume \/ DriverDisarm \/ DriverPass
  \/ DriverFail \/ OracleStart \/ OracleStartFails \/ OracleNested
  \/ OracleCheck \/ OracleCheckLost \/ Suite \/ Plain \/ Traps \/ Spins
  \/ HandlerExit \/ HandlerJump \/ Finish

Next == Main \/ Timeout \/ (\E s \in UserSignals : UserSignal(s)) \/ Done

Spec == Init /\ [][Next]_vars

(* The main thread is scheduled and an armed timer fires; the user need not *)
(* send anything.                                                           *)
FairSpec == Spec /\ WF_vars(Main) /\ WF_vars(Timeout)

-----------------------------------------------------------------------------
(* Properties *)

(* What the programmer asked of the driver statement p. *)
Behaves(p) ==
  \/ script[p].kind = "assert" /\ script[p].behave = "true"
  \/ script[p].kind = "abort"  /\ script[p].behave = "abort"

HasOracle == \E p \in Positions : script[p].kind \in {"ostart", "ocheck"}
Hangs     == \E p \in Positions : script[p].kind = "code" /\ script[p].behave = "hang"

(* The types.  The counters are unsigned in C: that they stay in Nat says   *)
(* that no decrement (unitest.h:135-136, 154) ever wraps around, whatever   *)
(* jump led to it.                                                          *)
TypeOK ==
  /\ script \in Scripts
  /\ opts \in [debug : BOOLEAN, cont : BOOLEAN]
  /\ pos \in 1 .. Len(script) + 1
  /\ pc \in Steps \cup Final
  /\ suite \in Counters
  /\ total \in Counters
  /\ expectAbort \in BOOLEAN
  /\ inOracle \in BOOLEAN
  /\ captured \in BOOLEAN
  /\ saved \in [Positions -> Nat]
  /\ ret \in BOOLEAN
  /\ restart \in 0 .. Len(script)
  /\ handled \subseteq Signals
  /\ alarm \in BOOLEAN
  /\ hsig \in Signals
  /\ nsig \in 0 .. MaxSignals
  /\ status \in Nat
  /\ verdict \in [Positions -> {"none", "pass", "fail", "skip"}]
  /\ stale \in BOOLEAN

(* A test passes only if its expression did what was asked of it: whatever  *)
(* signals arrive and in whatever order, no time-out, Ctrl-C or segfault is *)
(* ever taken for a success, as long as no jump left its own test.          *)
VerdictSound ==
  ~stale => \A p \in Positions :
              IsDriver(p) /\ verdict[p] = "pass" => Behaves(p)

(* A test that did what was asked of it fails only if the timer or the user *)
(* interrupted some test: the driver has no false negative of its own.      *)
FailureExplained ==
  ~stale => \A p \in Positions :
              IsDriver(p) /\ verdict[p] = "fail" /\ Behaves(p)
                => total.interrupted + total.timed_out > 0

(* The handler jumps out of the test that was interrupted, into another one *)
(* or into a dead frame, only if the user sent a signal, a test_abort was   *)
(* skipped in a debugger or an oracle test left the handlers installed.     *)
JumpsStayInTest ==
  stale \/ pc = "wild" => nsig > 0 \/ opts.debug \/ HasOracle

(* At each statement boundary the totals are those of the verdicts given so *)
(* far: over any interleaving of signals, no test is tallied twice, lost,   *)
(* or counted without being run.  The report "FAILED n tests, of which a    *)
(* aborted, t timed out" adds up: a + t never exceeds n, although a         *)
(* test_abort that passes was first counted as aborted and the reset of the *)
(* suite comes between tests only.                                          *)
TallyExact ==
  ~stale /\ pc = "next" =>
    /\ total.passed = Cardinality({p \in Positions : verdict[p] = "pass"})
    /\ total.total = Cardinality({p \in 1 .. pos - 1 :
                        \/ IsDriver(p) /\ verdict[p] # "skip"
                        \/ script[p] = [kind |-> "ostart", behave |-> "true"]})
    /\ suite.aborted + suite.timed_out <= suite.total - suite.passed

(* What make sees: a program that exits with status 0 ran every test to a   *)
(* pass, unless it skipped it in a debugger or ExitRange of them failed:    *)
(* then, and for its multiples only, the status wraps around to 0.          *)
ExitZeroMeansAllPassed ==
  pc = "exited" /\ status = 0 /\ ~stale =>
    \/ total.total - total.passed >= ExitRange
    \/ \A p \in Positions :
         /\ IsDriver(p) => verdict[p] \in {"pass", "skip"}
         /\ script[p].kind = "ocheck" => verdict[p] = "pass"

(* A time-out never outlives the test it was armed for: no statement, and   *)
(* no later test, runs under the clock of an earlier one.                   *)
AlarmScoped == alarm => pc \in {"armed", "ran"} /\ restart = pos

(* A program whose own code never hangs outside a test ends, even if every  *)
(* test of it loops for ever, unless oracle tests or skipped tests leave    *)
(* handlers behind (a stray abort then jumps back and is run again).        *)
Terminates == Hangs \/ HasOracle \/ opts.debug \/ <>(pc \in Final)

-----------------------------------------------------------------------------
(* What the tests' comments say and the code does not do. *)

(* test/howto/02_test-examples-fail.c:61, "Assertions fail on abort()'s".   *)
AbortedAssertFails ==
  \A p \in Positions :
    script[p].kind = "assert" /\ script[p].behave = "abort" => verdict[p] # "pass"

(* unitest.h:195-211, when a report is due: "FAILED %u tests (out of %u),   *)
(* of which %u segfaulted".                                                 *)
SegfaultsWithinSuite ==
  ~stale /\ pc = "next" /\ suite.passed # suite.total
    => suite.segfaulted <= suite.total - suite.passed
=============================================================================

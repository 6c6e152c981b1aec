--------------------------- MODULE UnitTestProofs ---------------------------
(***************************************************************************)
(* Proofs about the driver and about the structure that its handler may    *)
(* leave half done.                                                        *)
(*                                                                         *)
(* Of UnitTest, for every set of scripts and every number of signals: the  *)
(* counters never wrap, a time-out never outlives its test, a test passes  *)
(* only if it did what was asked of it and fails only if it did not or was *)
(* interrupted, and the totals and the exit status are those of the        *)
(* verdicts.                                                               *)
(*                                                                         *)
(* Of Deque, for every number of elements and store by store: the ring is  *)
(* sound wherever an update or a reset is left, only a deque that was never *)
(* initialised leads nowhere, a foreach gives what is there and all of it, *)
(* and the ring implements AbstractDeque.                                  *)
(***************************************************************************)
EXTENDS UnitTest, Deque, RingProofs

InDriver == {"entered", "expecting", "counted", "armed", "ran", "disarmed", "resumed"}
InTest   == {"armed", "ran", "disarmed", "resumed"}

-----------------------------------------------------------------------------
(* Types *)

(* Inside test_driver the main thread is at a driver statement, and so is   *)
(* the place that siglongjmp would return to.                               *)
Placed ==
  /\ pc \in InDriver => pos \in Positions /\ IsDriver(pos)
  /\ restart # 0 => IsDriver(restart)

(* What the two decrements of test_driver rely on. *)
NoWrap ==
  /\ pc = "counted" => suite.total > 0 /\ total.total > 0
  /\ pc \in {"ran", "disarmed"} /\ ret /\ Stmt.kind = "abort" => suite.aborted > 0

TypeInv == TypeOK /\ Placed /\ NoWrap

(* The handler adds one to a single counter. *)
LEMMA CaughtType ==
  ASSUME NEW c \in Counters, NEW s \in Signals
  PROVE  Caught(c, s) \in Counters
BY DEF Caught, Counters, Signals, UserSignals

(* A script is a sequence of statements. *)
LEMMA ScriptType ==
  ASSUME TypeOK
  PROVE  /\ Len(script) \in Nat
         /\ \A p \in Positions : script[p] \in Statement
BY ScriptsAssumption DEF TypeOK, Positions

(* Its fields are natural numbers. *)
LEMMA FieldType ==
  ASSUME NEW c \in Counters
  PROVE  /\ c.total \in Nat /\ c.passed \in Nat /\ c.interrupted \in Nat
         /\ c.aborted \in Nat /\ c.segfaulted \in Nat /\ c.timed_out \in Nat
BY DEF Counters

(* The increments and decrements of test_driver and of the oracle tests. *)
LEMMA UpdateType ==
  ASSUME NEW c \in Counters
  PROVE  /\ [c EXCEPT !.total = @ + 1] \in Counters
         /\ [c EXCEPT !.total = @ + 1].total = c.total + 1
         /\ [c EXCEPT !.passed = @ + 1] \in Counters
         /\ [NoTests EXCEPT !.segfaulted = c.segfaulted] \in Counters
<1>1. [c EXCEPT !.total = @ + 1] \in Counters
  BY DEF Counters
<1>2. [c EXCEPT !.total = @ + 1].total = c.total + 1
  BY DEF Counters
<1>3. [c EXCEPT !.passed = @ + 1] \in Counters
  BY DEF Counters
<1>4. [NoTests EXCEPT !.segfaulted = c.segfaulted] \in Counters
  BY DEF Counters, NoTests
<1>. QED
  BY <1>1, <1>2, <1>3, <1>4

(* A test_abort skipped in a debugger is taken out of the totals that it    *)
(* was counted in.                                                          *)
LEMMA SkipType ==
  ASSUME NEW c \in Counters, c.total > 0
  PROVE  /\ [c EXCEPT !.total = @ - 1] \in Counters
         /\ [c EXCEPT !.total = @ - 1, !.untested = @ + 1] \in Counters
<1>1. c.total - 1 \in Nat /\ c.untested + 1 \in Nat
  BY DEF Counters
<1>2. [c EXCEPT !.total = c.total - 1] \in Counters
  BY <1>1 DEF Counters
<1>3. [c EXCEPT !.total = c.total - 1, !.untested = c.untested + 1] \in Counters
  BY <1>1 DEF Counters
<1>. QED
  BY <1>2, <1>3

(* A test_abort that passes is no longer counted as aborted. *)
LEMMA PassType ==
  ASSUME NEW c \in Counters, NEW b \in BOOLEAN, b => c.aborted > 0
  PROVE  [c EXCEPT !.passed = @ + 1, !.aborted = IF b THEN @ - 1 ELSE @] \in Counters
<1>1. c.passed + 1 \in Nat /\ (IF b THEN c.aborted - 1 ELSE c.aborted) \in Nat
  BY DEF Counters
<1>2. DEFINE n == IF b THEN c.aborted - 1 ELSE c.aborted
<1>3. \A m \in Nat : [c EXCEPT !.passed = c.passed + 1, !.aborted = m] \in Counters
  BY <1>1 DEF Counters
<1>4. [c EXCEPT !.passed = c.passed + 1, !.aborted = n] \in Counters
  BY <1>1, <1>3
<1>. QED
  BY <1>4

(* The initial state. *)
LEMMA InitTypeInv == Init => TypeInv
<1> SUFFICES ASSUME Init PROVE TypeInv
  OBVIOUS
<1>1. script \in Seq(Statement) /\ Len(script) \in Nat
  BY ScriptsAssumption DEF Init
<1>2. NoTests \in Counters
  BY DEF NoTests, Counters
<1>3. /\ saved \in [Positions -> Nat]
      /\ verdict \in [Positions -> {"none", "pass", "fail", "skip"}]
  BY DEF Init
<1>4. pos \in 1 .. Len(script) + 1 /\ restart \in 0 .. Len(script)
  BY <1>1 DEF Init
<1>5. nsig \in 0 .. MaxSignals
  BY BoundsAssumption DEF Init
<1>6. hsig \in Signals /\ handled \subseteq Signals /\ pc \in Steps
  BY DEF Init, Steps, Signals, UserSignals
<1>7. TypeOK
  BY <1>2, <1>3, <1>4, <1>5, <1>6 DEF Init, TypeOK
<1>8. Placed /\ NoWrap
  BY DEF Init, Placed, NoWrap, InDriver
<1>. QED
  BY <1>7, <1>8 DEF TypeInv

(* Delivering a signal changes the handlers, the timer and the place only. *)
LEMMA RaiseTypeInv ==
  ASSUME TypeInv, NEW s \in Signals, Raise(s),
         UNCHANGED <<program, history, pos, suite, total, expectAbort, ret, restart, status>>,
         inOracle' \in BOOLEAN, captured' \in BOOLEAN,
         saved' \in [Positions -> Nat], nsig' \in 0 .. MaxSignals
  PROVE  TypeInv'
BY DEF TypeInv, TypeOK, Placed, NoWrap, Raise, program, history, InDriver, Steps, Final,
       Positions, IsDriver, Stmt

(* Every step, one action at a time. *)
LEMMA NextTypeInv == TypeInv /\ [Next]_vars => TypeInv'
<1> SUFFICES ASSUME TypeInv, [Next]_vars PROVE TypeInv'
  OBVIOUS
<1> USE DEF TypeInv, TypeOK, Placed, NoWrap, program, history, InDriver, Positions,
            IsDriver, Stmt, At, AtEnd, Advance
<1>s. /\ Len(script) \in Nat
      /\ \A p \in Positions : script[p] \in Statement
  BY ScriptType
<1>c. \A s \in Signals : Caught(suite, s) \in Counters /\ Caught(total, s) \in Counters
  BY CaughtType
<1>f. /\ suite.aborted \in Nat /\ suite.total \in Nat /\ total.total \in Nat
      /\ suite.passed \in Nat /\ total.passed \in Nat
  BY FieldType
<1>p. ~AtEnd => /\ pos \in Positions /\ pos + 1 \in 1 .. Len(script) + 1
                /\ \A n \in Nat : [saved EXCEPT ![pos] = n] \in [Positions -> Nat]
                /\ \A v \in {"pass", "fail", "skip"} :
                     [verdict EXCEPT ![pos] = v]
                       \in [Positions -> {"none", "pass", "fail", "skip"}]
  BY <1>s
<1>1. CASE UNCHANGED vars
  BY <1>1 DEF vars
<1>2. ASSUME NEW s \in Signals, Interrupt(s), nsig' \in 0 .. MaxSignals PROVE TypeInv'
  BY <1>2, RaiseTypeInv DEF Interrupt
<1>3. ASSUME NEW s \in UserSignals, UserSignal(s) PROVE TypeInv'
  BY <1>2, <1>3, BoundsAssumption DEF UserSignal, Signals
<1>4. CASE Timeout
  BY <1>2, <1>4, BoundsAssumption DEF Timeout, Signals
<1>5. CASE DriverInOracle
  BY <1>5, <1>s, <1>p, <1>f, RaiseTypeInv DEF DriverInOracle, Signals
<1>6. CASE OracleNested
  BY <1>6, RaiseTypeInv DEF OracleNested, Signals
<1>7. CASE OracleCheckLost
  BY <1>7, RaiseTypeInv DEF OracleCheckLost, Signals
<1>8. CASE Traps
  BY <1>8, RaiseTypeInv DEF Traps, Signals
<1>9. CASE Spins \/ Done
  BY <1>9, <1>1 DEF Spins, Done
<1>10. CASE DriverExpect
  BY <1>10, <1>s DEF DriverExpect, Steps
<1>11. CASE DriverCount
  <2>1. /\ suite' \in Counters /\ suite'.total > 0
        /\ total' \in Counters /\ total'.total > 0
    <3>1. /\ suite' = [suite EXCEPT !.total = @ + 1]
          /\ total' = [total EXCEPT !.total = @ + 1]
      BY <1>11 DEF DriverCount
    <3>2. suite.total + 1 > 0 /\ total.total + 1 > 0
      BY <1>f
    <3>. QED
      BY <3>1, <3>2, UpdateType
  <2>. QED
    BY <1>11, <2>1 DEF DriverCount, Steps
<1>12. CASE DriverSkip
  <2>1. suite' \in Counters /\ total' \in Counters
    BY <1>12, SkipType DEF DriverSkip
  <2>. QED
    BY <1>12, <1>s, <1>p, <2>1 DEF DriverSkip, Steps
<1>13. CASE DriverArm
  BY <1>13, <1>s DEF DriverArm, Steps
<1>14. CASE DriverReturns
  BY <1>14, <1>s DEF DriverReturns, Steps
<1>15. CASE DriverDisarm
  BY <1>15, <1>s DEF DriverDisarm, Steps
<1>16. CASE DriverPass
  <2>1. suite' \in Counters
    BY <1>16, PassType DEF DriverPass
  <2>2. total' \in Counters
    BY <1>16, UpdateType DEF DriverPass
  <2>. QED
    BY <1>16, <1>s, <1>p, <2>1, <2>2 DEF DriverPass, Steps
<1>17. CASE DriverFail
  BY <1>17, <1>s, <1>p DEF DriverFail, Steps
<1>18. CASE OracleStart
  BY <1>18, <1>s, <1>p, UpdateType DEF OracleStart, Steps
<1>19. CASE OracleStartFails
  BY <1>19, <1>s, <1>p DEF OracleStartFails, Steps, Signals
<1>20. CASE OracleCheck
  BY <1>20, <1>s, <1>p, UpdateType DEF OracleCheck, OutputMatches, Steps
<1>21. CASE Suite
  BY <1>21, <1>s, <1>p, UpdateType DEF Suite, Steps
<1>22. CASE Plain
  BY <1>22, <1>s, <1>p DEF Plain, Steps
<1>23. CASE Finish
  <2>1. suite' \in Counters
    BY <1>23, UpdateType DEF Finish
  <2>2. \A i \in Int : i % ExitRange \in Nat
    BY BoundsAssumption
  <2>3. status' \in Nat
    BY <1>23, <1>f, <2>2 DEF Finish
  <2>. QED
    BY <1>23, <1>s, <2>1, <2>3 DEF Finish, Final
<1>24. CASE DriverResume
  <2>1. saved[pos] \in Nat
    BY <1>24 DEF DriverResume
  <2>2. ret' \in BOOLEAN /\ (ret' => suite.aborted > 0)
    <3>1. ret' = (expectAbort /\ suite.aborted = 1 + saved[pos])
      BY <1>24 DEF DriverResume
    <3>2. ret' \in BOOLEAN
      BY <3>1, Zenon
    <3>3. ret' => suite.aborted = 1 + saved[pos]
      BY <3>1, Zenon
    <3>. QED
      BY <3>2, <3>3, <2>1, <1>f
  <2>. QED
    BY <1>24, <1>s, <2>2 DEF DriverResume, Steps
<1>25. CASE DriverEnter
  BY <1>25, <1>s, <1>p, <1>f DEF DriverEnter, Steps
<1>26. CASE HandlerExit
  <2>1. suite' \in Counters /\ total' \in Counters /\ status' \in Nat
    BY <1>26, <1>c DEF HandlerExit, HandlerCount
  <2>. QED
    BY <1>26, <1>s, <2>1 DEF HandlerExit, Final
<1>27. CASE HandlerJump
  BY <1>27, <1>s, <1>c DEF HandlerJump, HandlerCount, Steps, Final
<1>. QED
  BY <1>1, <1>3, <1>4, <1>5, <1>6, <1>7, <1>8, <1>9, <1>10, <1>11, <1>12, <1>13, <1>14, <1>15, <1>16, <1>17, <1>18, <1>19, <1>20, <1>21, <1>22, <1>23, <1>24, <1>25, <1>26, <1>27 DEF Next, Main

(* No counter of the report ever wraps around and no place is out of its    *)
(* script: the types hold in every reachable state.                         *)
THEOREM TypeCorrect == Spec => []TypeOK
<1>1. TypeInv => TypeOK
  BY DEF TypeInv
<1>. QED
  BY InitTypeInv, NextTypeInv, <1>1, PTL DEF Spec
-----------------------------------------------------------------------------
(* The timer *)

(* sigsetjmp was made by the test that runs, and while a time-out can fire  *)
(* every handler is installed: no signal but a caught one can arrive.       *)
TimerInv ==
  /\ pc \in InTest => restart = pos
  /\ pc \in {"entered", "expecting", "counted", "armed"} => handled = Signals
  /\ alarm => pc \in {"armed", "ran"} /\ handled = Signals

(* No timer is armed and no handler is installed at first. *)
LEMMA InitTimerInv == Init => TimerInv
BY DEF Init, TimerInv, InTest

(* The timer is armed with the handlers in place, and stopped before they   *)
(* are taken away; every delivery of a signal stops it too.                 *)
LEMMA NextTimerInv == TypeInv /\ TimerInv /\ [Next]_vars => TimerInv'
<1> SUFFICES ASSUME TypeInv /\ TimerInv, [Next]_vars PROVE TimerInv'
  OBVIOUS
<1> USE DEF TimerInv, InTest, program, history, At, Advance
<1>t. pos \in Nat /\ alarm \in BOOLEAN /\ handled \subseteq Signals
  BY DEF TypeInv, TypeOK
<1>1. CASE UNCHANGED vars \/ Spins \/ Done
  BY <1>1 DEF vars, Spins, Done
<1>2. ASSUME NEW s \in Signals, Interrupt(s) PROVE TimerInv'
  BY <1>2 DEF Interrupt, Raise
<1>3. ASSUME NEW s \in UserSignals, UserSignal(s) PROVE TimerInv'
  BY <1>2, <1>3 DEF UserSignal, Signals
<1>4. CASE Timeout
  BY <1>2, <1>4 DEF Timeout, Signals
<1>5. CASE DriverInOracle
  BY <1>5 DEF DriverInOracle, Raise
<1>6. CASE OracleNested
  BY <1>6 DEF OracleNested, Raise
<1>7. CASE OracleCheckLost
  BY <1>7 DEF OracleCheckLost, Raise
<1>8. CASE Traps
  BY <1>8 DEF Traps, Raise, Signals, UserSignals
<1>9. CASE DriverEnter
  BY <1>9 DEF DriverEnter
<1>10. CASE DriverExpect
  BY <1>10 DEF DriverExpect
<1>11. CASE DriverCount
  BY <1>11 DEF DriverCount
<1>12. CASE DriverSkip
  BY <1>12 DEF DriverSkip
<1>13. CASE DriverArm
  BY <1>13 DEF DriverArm
<1>14. CASE DriverReturns
  BY <1>14 DEF DriverReturns
<1>15. CASE DriverResume
  BY <1>15 DEF DriverResume
<1>16. CASE DriverDisarm
  BY <1>16 DEF DriverDisarm
<1>17. CASE DriverPass
  BY <1>17 DEF DriverPass
<1>18. CASE DriverFail
  BY <1>18 DEF DriverFail
<1>19. CASE OracleStart
  BY <1>19 DEF OracleStart
<1>20. CASE OracleStartFails
  BY <1>20 DEF OracleStartFails
<1>21. CASE OracleCheck
  BY <1>21 DEF OracleCheck, OutputMatches
<1>22. CASE Suite
  BY <1>22 DEF Suite
<1>23. CASE Plain
  BY <1>23 DEF Plain
<1>24. CASE HandlerExit
  BY <1>24 DEF HandlerExit, HandlerCount
<1>25. CASE HandlerJump
  BY <1>25 DEF HandlerJump, HandlerCount
<1>26. CASE Finish
  BY <1>26 DEF Finish
<1>. QED
  BY <1>1, <1>3, <1>4, <1>5, <1>6, <1>7, <1>8, <1>9, <1>10, <1>11, <1>12, <1>13,
     <1>14, <1>15, <1>16, <1>17, <1>18, <1>19, <1>20, <1>21, <1>22, <1>23, <1>24, <1>25, <1>26 DEF Next, Main

(* A time-out fires only while the test it was armed for runs. *)
THEOREM TimeoutsScoped == Spec => []AlarmScoped
<1>1. TimerInv => AlarmScoped
  BY DEF TimerInv, AlarmScoped, InTest
<1>. QED
  BY InitTypeInv, NextTypeInv, InitTimerInv, NextTimerInv, <1>1, PTL DEF Spec

-----------------------------------------------------------------------------
(* Verdicts *)

(* The interrupted code belongs to the test that siglongjmp will resume. *)
Resumable == pc \in InTest \/ (pc = "handler" /\ restart = pos)

(* What test_driver knows of its test, as long as no jump left one:         *)
(* restart is behind until the test sets it; the suite counts one abort     *)
(* more than was saved only if the expression aborted; ret__ is earned.     *)
TestInv ==
  /\ pc \in {"next", "entered", "expecting", "counted"} => restart < pos
  /\ pc = "handler" => restart <= pos
  /\ (Resumable \/ pc \in InDriver) /\ Stmt.behave # "abort"
       => suite.aborted = saved[pos]
  /\ Resumable \/ pc \in {"expecting", "counted"} =>
       expectAbort = (Stmt.kind = "abort")
  /\ pc = "handler" /\ restart = pos /\ hsig = "SIGABRT" => Stmt.behave = "abort"
  /\ pc \in {"ran", "disarmed"} /\ ret => Behaves(pos)
  /\ \A p \in Positions : IsDriver(p) /\ verdict[p] = "pass" => Behaves(p)

SoundInv == ~stale => TestInv

(* No test runs at first. *)
LEMMA InitSoundInv == Init => SoundInv
BY DEF Init, SoundInv, TestInv, Resumable, InTest, InDriver, Positions

(* Only SIGABRT adds to the aborted tests. *)
LEMMA CaughtAborted ==
  ASSUME NEW c \in Counters, NEW s \in Signals
  PROVE  Caught(c, s).aborted = IF s = "SIGABRT" THEN c.aborted + 1 ELSE c.aborted
BY DEF Caught, Counters, Signals, UserSignals

(* A signal that is not an abort, or that comes from an expression that     *)
(* aborts, keeps what is known of the test it interrupts.                   *)
LEMMA RaiseSoundInv ==
  ASSUME TypeOK, TimerInv, SoundInv, NEW s \in Signals, Raise(s), pc \notin Final,
         UNCHANGED <<program, history, pos, suite, expectAbort, ret, restart>>,
         pc \in InDriver \cup {"handler"} => saved' = saved,
         restart = pos => s # "SIGABRT" \/ Stmt.behave = "abort"
  PROVE  SoundInv'
<1> USE DEF SoundInv, TestInv, Resumable, InTest, InDriver, TimerInv, program, history,
            Stmt, IsDriver, Behaves, Positions
<1>t. pos \in Nat /\ restart \in Nat /\ stale \in BOOLEAN /\ pc \in Steps \cup Final
  BY ScriptType DEF TypeOK
<1>1. CASE s \in handled
  BY <1>1, <1>t DEF Raise, Steps, Final
<1>2. CASE s \notin handled
  BY <1>2, <1>t DEF Raise
<1>. QED
  BY <1>1, <1>2

(* While no jump has left its test, what the driver knows of it is true.    *)
LEMMA NextSoundInv == TypeInv /\ TimerInv /\ SoundInv /\ [Next]_vars => SoundInv'
<1> SUFFICES ASSUME TypeInv /\ TimerInv /\ SoundInv, [Next]_vars PROVE SoundInv'
  OBVIOUS
<1> USE DEF SoundInv, TestInv, Resumable, InTest, InDriver, TimerInv, program, history,
            Stmt, IsDriver, Behaves, Positions, At, AtEnd, Advance
<1>t. TypeOK /\ Placed
  BY DEF TypeInv
<1>s. /\ Len(script) \in Nat
      /\ \A p \in Positions : script[p] \in Statement
  BY ScriptType DEF TypeInv
<1>v. /\ pos \in Nat /\ restart \in Nat /\ stale \in BOOLEAN /\ pc \in Steps \cup Final
      /\ ret \in BOOLEAN /\ expectAbort \in BOOLEAN
      /\ saved \in [Positions -> Nat]
      /\ verdict \in [Positions -> {"none", "pass", "fail", "skip"}]
  BY <1>s, <1>t DEF TypeOK
<1>f. suite.aborted \in Nat
  BY <1>t, FieldType DEF TypeOK
<1>1. CASE UNCHANGED vars \/ Spins \/ Done
  BY <1>1 DEF vars, Spins, Done
<1>2. ASSUME NEW s \in Signals, s # "SIGABRT", Interrupt(s) PROVE SoundInv'
  BY <1>2, <1>t, RaiseSoundInv DEF Interrupt
<1>3. ASSUME NEW s \in UserSignals, UserSignal(s) PROVE SoundInv'
  BY <1>2, <1>3 DEF UserSignal, Signals, UserSignals
<1>4. CASE Timeout
  BY <1>2, <1>4 DEF Timeout, Signals
<1>5. CASE DriverInOracle
  BY <1>5, <1>t, <1>v, RaiseSoundInv DEF DriverInOracle, Signals, UserSignals, Final
<1>6. CASE OracleNested
  BY <1>6, <1>t, <1>v, RaiseSoundInv DEF OracleNested, Signals, UserSignals, Final
<1>7. CASE OracleCheckLost
  BY <1>7, <1>t, <1>v, RaiseSoundInv DEF OracleCheckLost, Signals, UserSignals, Final
<1>8. CASE Traps
  BY <1>8, <1>t, <1>v, RaiseSoundInv DEF Traps, Signals, UserSignals, Final
<1>9. CASE DriverEnter
  BY <1>9, <1>s, <1>t, <1>v, <1>f DEF DriverEnter
<1>10. CASE DriverExpect
  BY <1>10, <1>s, <1>t, <1>v, <1>f DEF DriverExpect
<1>11. CASE DriverCount
  BY <1>11, <1>s, <1>t, <1>v, <1>f DEF DriverCount
<1>12. CASE DriverSkip
  BY <1>12, <1>s, <1>t, <1>v, <1>f DEF DriverSkip
<1>13. CASE DriverArm
  BY <1>13, <1>s, <1>t, <1>v, <1>f DEF DriverArm
<1>14. CASE DriverReturns
  BY <1>14, <1>s, <1>t, <1>v, <1>f DEF DriverReturns
<1>15. CASE DriverResume
  BY <1>15, <1>s, <1>t, <1>v, <1>f DEF DriverResume
<1>16. CASE DriverDisarm
  BY <1>16, <1>s, <1>t, <1>v, <1>f DEF DriverDisarm
<1>17. CASE DriverPass
  BY <1>17, <1>s, <1>t, <1>v, <1>f DEF DriverPass
<1>18. CASE DriverFail
  BY <1>18, <1>s, <1>t, <1>v, <1>f DEF DriverFail
<1>19. CASE OracleStart
  BY <1>19, <1>s, <1>t, <1>v, <1>f DEF OracleStart
<1>20. CASE OracleStartFails
  BY <1>20, <1>s, <1>t, <1>v, <1>f DEF OracleStartFails
<1>21. CASE OracleCheck
  BY <1>21, <1>s, <1>t, <1>v, <1>f DEF OracleCheck, DriverKinds
<1>22. CASE Suite
  BY <1>22, <1>s, <1>t, <1>v, <1>f DEF Suite
<1>23. CASE Plain
  BY <1>23, <1>s, <1>t, <1>v, <1>f DEF Plain
<1>24. CASE HandlerExit
  BY <1>24 DEF HandlerExit, HandlerCount
<1>25. CASE HandlerJump
  <2>1. hsig \in Signals /\ suite \in Counters
    BY <1>t DEF TypeOK
  <2>2. suite'.aborted = IF hsig = "SIGABRT" THEN suite.aborted + 1 ELSE suite.aborted
    BY <1>25, <2>1, CaughtAborted DEF HandlerJump, HandlerCount
  <2>3. stale' \/ (~stale /\ restart = pos)
    BY <1>25, <1>v DEF HandlerJump
  <2>4. CASE ~stale /\ restart = pos
    BY <1>25, <1>s, <1>t, <1>v, <1>f, <2>2, <2>4 DEF HandlerJump
  <2>. QED
    BY <2>3, <2>4
<1>26. CASE Finish
  BY <1>26, <1>s, <1>t, <1>v, <1>f DEF Finish
<1>. QED
  BY <1>1, <1>3, <1>4, <1>5, <1>6, <1>7, <1>8, <1>9, <1>10, <1>11, <1>12, <1>13,
     <1>14, <1>15, <1>16, <1>17, <1>18, <1>19, <1>20, <1>21, <1>22, <1>23, <1>24, <1>25, <1>26 DEF Next, Main

(* A test passes only if its expression did what was asked of it, for all   *)
(* scripts and all signals, unless some jump left the test it interrupted.  *)
THEOREM PassesAreEarned == Spec => []VerdictSound
<1>1. SoundInv => VerdictSound
  BY DEF SoundInv, TestInv, VerdictSound
<1>. QED
  BY InitTypeInv, NextTypeInv, InitTimerInv, NextTimerInv, InitSoundInv, NextSoundInv,
     <1>1, PTL DEF Spec

-----------------------------------------------------------------------------
(* Jumps *)

(* Nobody presses Ctrl-C, no debugger has the program skip a test, and no   *)
(* oracle test leaves its handlers behind.                                  *)
Calm == nsig = 0 /\ ~opts.debug /\ ~HasOracle

(* Then handlers are installed inside test_driver only, and the handler     *)
(* runs for a test that has called sigsetjmp.                               *)
CalmFacts ==
  /\ ~stale /\ pc # "wild"
  /\ inOracle = FALSE
  /\ pc = "next" => handled = {}
  /\ pc = "handler" => restart = pos

CalmInv == Calm => CalmFacts

LEMMA InitCalmInv == Init => CalmInv
BY DEF Init, CalmInv, CalmFacts

(* A signal that is caught inside a test leads to the handler of that test, *)
(* and one at a statement boundary ends the process.                        *)
LEMMA RaiseCalm ==
  ASSUME CalmFacts, NEW s \in Signals, Raise(s), pc = "next" \/ restart = pos,
         UNCHANGED <<stale, inOracle, pos, restart>>
  PROVE  CalmFacts'
<1>1. CASE s \in handled
  BY <1>1 DEF Raise, CalmFacts
<1>2. CASE s \notin handled
  BY <1>2 DEF Raise, CalmFacts
<1> QED
  BY <1>1, <1>2

(* What makes a program calm does not change, and a user who has sent a     *)
(* signal has.                                                              *)
LEMMA CalmBefore == ASSUME TypeOK, [Next]_vars, Calm' PROVE Calm
<1>1. UNCHANGED <<script, opts>>
  BY DEF Next, Main, vars, program, UserSignal, Timeout, Interrupt, Done, Spins,
     DriverInOracle, DriverEnter, DriverExpect, DriverCount, DriverSkip, DriverArm,
     DriverReturns, DriverResume, DriverDisarm, DriverPass, DriverFail, OracleStart,
     OracleStartFails, OracleNested, OracleCheck, OracleCheckLost, Suite, Plain, Traps,
     HandlerExit, HandlerJump, Finish
<1>2. HasOracle' = HasOracle
  BY <1>1 DEF HasOracle, Positions
<1>3. nsig' = 0 => nsig = 0
  <2>1. nsig \in Nat
    BY BoundsAssumption DEF TypeOK
  <2>2. nsig' = nsig \/ nsig' = nsig + 1
    BY DEF Next, Main, vars, program, UserSignal, Timeout, Interrupt, Done, Spins,
       DriverInOracle, DriverEnter, DriverExpect, DriverCount, DriverSkip, DriverArm,
       DriverReturns, DriverResume, DriverDisarm, DriverPass, DriverFail, OracleStart,
       OracleStartFails, OracleNested, OracleCheck, OracleCheckLost, Suite, Plain, Traps,
       HandlerExit, HandlerJump, Finish
  <2> QED
    BY <2>1, <2>2
<1> QED
  BY <1>1, <1>2, <1>3 DEF Calm

(* No step of a calm program jumps out of its test.                         *)
LEMMA NextCalmInv ==
  TypeInv /\ TimerInv /\ CalmInv /\ [Next]_vars => CalmInv'
<1> SUFFICES ASSUME TypeInv, TimerInv, CalmInv, [Next]_vars, Calm'
             PROVE  CalmFacts'
  BY DEF CalmInv
<1>c. Calm /\ CalmFacts
  BY CalmBefore DEF CalmInv, TypeInv
<1>t. TypeOK /\ Placed /\ Len(script) \in Nat
  BY ScriptType DEF TypeInv
<1>v. pos \in Nat /\ pos > 0 /\ stale \in BOOLEAN /\ inOracle \in BOOLEAN
  BY <1>t DEF TypeOK
<1>o. ~AtEnd => Stmt.kind \notin {"ostart", "ocheck"}
  BY <1>c, <1>t, <1>v DEF Calm, HasOracle, AtEnd, Stmt, Positions
<1> USE DEF program, history, At, Advance
<1>1. CASE UNCHANGED vars \/ Spins \/ Done
  BY <1>1, <1>c DEF vars, Spins, Done, CalmFacts
<1>2. ASSUME NEW s \in UserSignals, UserSignal(s) PROVE CalmFacts'
  <2>1. nsig' > 0
    BY <1>2, <1>t, BoundsAssumption DEF UserSignal, TypeOK
  <2> QED
    BY <2>1 DEF Calm
<1>3. CASE Timeout
  <2>1. Raise("SIGALRM") /\ pc \in InTest
    BY <1>3 DEF Timeout, Interrupt, TimerInv, InTest
  <2> QED
    BY <1>3, <1>c, <2>1, RaiseCalm DEF Timeout, Interrupt, TimerInv, Signals
<1>4. CASE Traps
  <2>1. \E s \in Signals : Raise(s)
    BY <1>4 DEF Traps, Signals
  <2> QED
    BY <1>4, <1>c, <2>1, RaiseCalm DEF Traps, TimerInv, InTest
<1>5. CASE DriverInOracle \/ OracleStart \/ OracleStartFails \/ OracleNested
             \/ OracleCheck \/ OracleCheckLost
  BY <1>5, <1>c, <1>o DEF DriverInOracle, OracleStart, OracleStartFails, OracleNested,
     OracleCheck, OracleCheckLost, CalmFacts
<1>6. CASE DriverEnter \/ DriverExpect \/ DriverCount \/ DriverArm \/ DriverReturns
             \/ DriverResume \/ DriverDisarm
  BY <1>6, <1>c DEF DriverEnter, DriverExpect, DriverCount, DriverArm, DriverReturns,
     DriverResume, DriverDisarm, CalmFacts
<1>7. CASE DriverSkip
  BY <1>7, <1>c DEF DriverSkip, Calm
<1>8. CASE DriverPass \/ DriverFail \/ Suite \/ Plain \/ HandlerExit \/ Finish
  BY <1>8, <1>c DEF DriverPass, DriverFail, Suite, Plain, HandlerExit, HandlerCount,
     Finish, CalmFacts
<1>9. CASE HandlerJump
  <2>1. restart = pos /\ restart # 0
    BY <1>9, <1>c, <1>v DEF HandlerJump, CalmFacts
  <2>2. FrameLive(restart)
    BY <2>1, <1>v DEF FrameLive
  <2> QED
    BY <1>9, <1>c, <1>v, <2>1, <2>2 DEF HandlerJump, HandlerCount, CalmFacts
<1> QED
  BY <1>1, <1>2, <1>3, <1>4, <1>5, <1>6, <1>7, <1>8, <1>9 DEF Next, Main

(* The handler jumps into another test or a dead frame only if the user     *)
(* sent a signal, a debugger is there or the script has oracle tests.       *)
THEOREM JumpsStay == Spec => []JumpsStayInTest
<1>1. CalmInv /\ TypeInv => JumpsStayInTest
  <2> SUFFICES ASSUME CalmInv, TypeInv, ~(nsig > 0 \/ opts.debug \/ HasOracle)
               PROVE  ~(stale \/ pc = "wild")
    BY DEF JumpsStayInTest
  <2>1. nsig = 0
    BY BoundsAssumption DEF TypeInv, TypeOK
  <2> QED
    BY <2>1 DEF CalmInv, Calm, CalmFacts
<1> QED
  BY InitTypeInv, NextTypeInv, InitTimerInv, NextTimerInv, InitCalmInv, NextCalmInv,
     <1>1, PTL DEF Spec

-----------------------------------------------------------------------------
(* Failures *)

Explained == total.interrupted + total.timed_out > 0

(* What is known of a test that does what it should, as long as no jump     *)
(* left one: only its own statement traps, and the abort it makes is the    *)
(* first one since saved_ntests_aborted was set.                            *)
BlameInv ==
  /\ pc \in {"entered", "expecting", "counted", "armed"} => suite.aborted = saved[pos]
  /\ pc = "handler" /\ restart = pos =>
       /\ hsig = "SIGSEGV" => Stmt.behave = "segv"
       /\ hsig = "SIGABRT" => suite.aborted = saved[pos]
  /\ pc = "resumed" /\ Behaves(pos) =>
       \/ Explained
       \/ Stmt.kind = "abort" /\ suite.aborted = 1 + saved[pos]
  /\ pc \in {"ran", "disarmed"} /\ Behaves(pos) => ret \/ Explained
  /\ \A p \in Positions :
       IsDriver(p) /\ verdict[p] = "fail" /\ Behaves(p) => Explained

FailInv == ~stale => BlameInv

LEMMA InitFailInv == Init => FailInv
BY DEF Init, FailInv, BlameInv, Positions

(* Interruptions and time-outs are counted for good.                        *)
LEMMA StaysExplained ==
  ASSUME TypeOK, TypeOK', [Next]_vars, Explained
  PROVE  Explained'
<1>1. total \in Counters /\ hsig \in Signals
  BY DEF TypeOK
<1>2. total' = total \/ (total'.interrupted >= total.interrupted
                           /\ total'.timed_out >= total.timed_out)
  <2> USE <1>1 DEF Counters, Signals, UserSignals
  <2>1. CASE HandlerExit \/ HandlerJump
    BY <2>1 DEF HandlerExit, HandlerJump, HandlerCount, Caught
  <2>2. CASE DriverCount \/ DriverSkip \/ DriverPass \/ OracleStart \/ OracleCheck
    <3>1. \A m, n : /\ [total EXCEPT !.total = m].interrupted = total.interrupted
                    /\ [total EXCEPT !.total = m].timed_out = total.timed_out
                    /\ [total EXCEPT !.passed = m].interrupted = total.interrupted
                    /\ [total EXCEPT !.passed = m].timed_out = total.timed_out
                    /\ [total EXCEPT !.total = m, !.untested = n].interrupted = total.interrupted
                    /\ [total EXCEPT !.total = m, !.untested = n].timed_out = total.timed_out
      OBVIOUS
    <3>2. \/ total' = total
          \/ \E m, n : \/ total' = [total EXCEPT !.total = m]
                       \/ total' = [total EXCEPT !.passed = m]
                       \/ total' = [total EXCEPT !.total = m, !.untested = n]
      BY <2>2 DEF DriverCount, DriverSkip, DriverPass, OracleStart, OracleCheck
    <3>3. total'.interrupted = total.interrupted /\ total'.timed_out = total.timed_out
      <4>1. CASE total' = total
        BY <4>1
      <4>2. CASE \E m, n : \/ total' = [total EXCEPT !.total = m]
                          \/ total' = [total EXCEPT !.passed = m]
                          \/ total' = [total EXCEPT !.total = m, !.untested = n]
        <5>1. PICK m, n : \/ total' = [total EXCEPT !.total = m]
                          \/ total' = [total EXCEPT !.passed = m]
                          \/ total' = [total EXCEPT !.total = m, !.untested = n]
          BY <4>2
        <5> QED
          BY <3>1, <5>1, Zenon
      <4> QED
        BY <3>2, <4>1, <4>2
    <3> QED
      BY <3>3, FieldType
  <2>3. CASE ~(HandlerExit \/ HandlerJump \/ DriverCount \/ DriverSkip \/ DriverPass
                 \/ OracleStart \/ OracleCheck)
    BY <2>3 DEF Next, Main, vars, UserSignal, Timeout, Interrupt, Done, Spins,
       DriverInOracle, DriverEnter, DriverExpect, DriverArm, DriverReturns, DriverResume,
       DriverDisarm, DriverFail, OracleStartFails, OracleNested, OracleCheckLost, Suite,
       Plain, Traps, Finish
  <2> QED
    BY <2>1, <2>2, <2>3
<1>3. /\ total.interrupted \in Nat /\ total.timed_out \in Nat
      /\ total'.interrupted \in Nat /\ total'.timed_out \in Nat
  BY FieldType DEF TypeOK
<1> QED
  BY <1>2, <1>3 DEF Explained

(* The field that the handler adds to.                                      *)
LEMMA CaughtBlame ==
  ASSUME NEW c \in Counters, NEW s \in {"SIGINT", "SIGALRM"}
  PROVE  Caught(c, s).interrupted + Caught(c, s).timed_out > 0
BY DEF Caught, Counters

(* A signal is the user's, the timer's or what the statement does.          *)
LEMMA RaiseFailInv ==
  ASSUME TypeOK, TimerInv, FailInv, NEW s \in Signals, Raise(s), pc \notin Final,
         UNCHANGED <<program, history, pos, suite, total, ret, restart>>,
         pc \in InDriver \cup {"handler"} => saved' = saved,
         restart = pos /\ s = "SIGSEGV" => Stmt.behave = "segv",
         restart = pos /\ s = "SIGABRT" => pc = "armed"
  PROVE  FailInv'
<1> USE DEF FailInv, BlameInv, Explained, InDriver, InTest, TimerInv, program, history,
            Stmt, IsDriver, Behaves, Positions
<1>t. pos \in Nat /\ restart \in Nat /\ stale \in BOOLEAN /\ pc \in Steps \cup Final
  BY ScriptType DEF TypeOK
<1>1. CASE s \in handled
  BY <1>1, <1>t DEF Raise, Steps, Final
<1>2. CASE s \notin handled
  BY <1>2, <1>t DEF Raise
<1> QED
  BY <1>1, <1>2

(* While no jump has left its test, failures are explained.                 *)
LEMMA NextFailInv ==
  ASSUME TypeInv, TypeInv', TimerInv, SoundInv, FailInv, [Next]_vars
  PROVE  FailInv'
<1> USE DEF FailInv, BlameInv, InDriver, program, history,
            Stmt, IsDriver, Behaves, Positions, At, AtEnd, Advance
<1>t. TypeOK /\ TypeOK' /\ Placed
  BY DEF TypeInv
<1>s. /\ Len(script) \in Nat
      /\ \A p \in Positions : script[p] \in Statement
  BY ScriptType DEF TypeInv
<1>v. /\ pos \in Nat /\ restart \in Nat /\ stale \in BOOLEAN /\ pc \in Steps \cup Final
      /\ ret \in BOOLEAN /\ expectAbort \in BOOLEAN
      /\ saved \in [Positions -> Nat]
      /\ verdict \in [Positions -> {"none", "pass", "fail", "skip"}]
  BY <1>s, <1>t DEF TypeOK
<1>f. suite.aborted \in Nat
  BY <1>t, FieldType DEF TypeOK
<1>e. Explained => Explained'
  BY <1>t, StaysExplained
<1>r. /\ pc \in {"next", "entered", "expecting", "counted"} /\ ~stale => restart < pos
      /\ pc = "resumed" /\ ~stale => expectAbort = (Stmt.kind = "abort")
      /\ pc \in InTest => restart = pos
  BY DEF SoundInv, TestInv, Resumable, InTest, TimerInv
<1>1. CASE UNCHANGED vars \/ Spins \/ Done
  BY <1>1 DEF vars, Spins, Done, Explained
<1>2. ASSUME NEW s \in Signals, s \notin {"SIGABRT", "SIGSEGV"}, Interrupt(s) PROVE FailInv'
  BY <1>2, <1>t, RaiseFailInv DEF Interrupt
<1>3. ASSUME NEW s \in UserSignals, UserSignal(s) PROVE FailInv'
  BY <1>2, <1>3 DEF UserSignal, Signals, UserSignals
<1>4. CASE Timeout
  BY <1>2, <1>4 DEF Timeout, Signals
<1>5. CASE stale
  <2>1. stale'
    BY <1>5, <1>v DEF Next, Main, vars, UserSignal, Timeout, Interrupt, Done, Spins,
     DriverInOracle, DriverEnter, DriverExpect, DriverCount, DriverSkip, DriverArm,
     DriverReturns, DriverResume, DriverDisarm, DriverPass, DriverFail, OracleStart,
     OracleStartFails, OracleNested, OracleCheck, OracleCheckLost, Suite, Plain, Traps,
     HandlerExit, HandlerJump, Finish
  <2> QED
    BY <2>1
<1>6. CASE ~stale /\ (DriverInOracle \/ OracleNested \/ OracleCheckLost)
  <2>1. \E s \in Signals : Raise(s)
    BY <1>6 DEF DriverInOracle, OracleNested, OracleCheckLost, Signals
  <2>2. pc = "next" /\ restart # pos
    BY <1>6, <1>r, <1>v DEF DriverInOracle, OracleNested, OracleCheckLost
  <2>3. /\ UNCHANGED <<program, history, pos, suite, total, ret, restart>>
        /\ pc \notin Final
    BY <1>6, <2>2 DEF DriverInOracle, OracleNested, OracleCheckLost, Final
  <2> QED
    BY <1>t, <2>1, <2>2, <2>3, RaiseFailInv
<1>7. CASE ~stale /\ Traps
  <2>1. pc = "next" => restart # pos
    BY <1>7, <1>r, <1>v
  <2>2. PICK s \in {"SIGABRT", "SIGSEGV"} : Raise(s) /\ (s = "SIGSEGV" => Stmt.behave = "segv")
    BY <1>7 DEF Traps
  <2>3. /\ UNCHANGED <<program, history, pos, suite, total, ret, restart, saved>>
        /\ pc \notin Final /\ pc \in {"armed", "next"}
    BY <1>7 DEF Traps, Final
  <2> QED
    BY <1>t, <2>1, <2>2, <2>3, RaiseFailInv DEF Signals
<1>9. CASE ~stale /\ DriverEnter
  <2>1. pos \in Positions /\ saved' = [saved EXCEPT ![pos] = suite.aborted]
    BY <1>9, <1>s, <1>t DEF DriverEnter, TypeOK
  <2>2. saved'[pos] = suite.aborted
    BY <1>v, <2>1
  <2>3. pc' = "entered" /\ UNCHANGED <<script, pos, suite, total, verdict>>
    BY <1>9 DEF DriverEnter
  <2> QED
    BY <1>9, <1>e, <2>2, <2>3
<1>10. CASE ~stale /\ DriverExpect
  BY <1>10, <1>v, <1>e DEF DriverExpect
<1>11. CASE ~stale /\ DriverCount
  BY <1>11, <1>v, <1>f, <1>e DEF DriverCount
<1>12. CASE ~stale /\ DriverSkip
  BY <1>12, <1>s, <1>t, <1>v, <1>e DEF DriverSkip
<1>13. CASE ~stale /\ DriverArm
  BY <1>13, <1>v, <1>e DEF DriverArm
<1>14. CASE ~stale /\ DriverReturns
  BY <1>14, <1>v, <1>e DEF DriverReturns
<1>15. CASE ~stale /\ DriverResume
  BY <1>15, <1>v, <1>e, <1>r DEF DriverResume
<1>16. CASE ~stale /\ DriverDisarm
  BY <1>16, <1>v, <1>e DEF DriverDisarm
<1>17. CASE ~stale /\ DriverPass
  BY <1>17, <1>s, <1>t, <1>v, <1>e DEF DriverPass
<1>18. CASE ~stale /\ DriverFail
  BY <1>18, <1>s, <1>t, <1>v, <1>e DEF DriverFail
<1>19. CASE ~stale /\ (OracleStart \/ OracleStartFails \/ Suite \/ Plain)
  BY <1>19, <1>v, <1>e DEF OracleStart, OracleStartFails, Suite, Plain
<1>20. CASE ~stale /\ OracleCheck
  BY <1>20, <1>s, <1>v, <1>e DEF OracleCheck, DriverKinds
<1>21. CASE ~stale /\ (HandlerExit \/ Finish)
  BY <1>21, <1>v, <1>e DEF HandlerExit, Finish
<1>22. CASE ~stale /\ HandlerJump
  <2>1. hsig \in Signals \ {"SIGTERM"} /\ suite \in Counters /\ total \in Counters
    BY <1>22, <1>t DEF TypeOK, HandlerJump, Fatal
  <2>2. suite'.aborted = IF hsig = "SIGABRT" THEN suite.aborted + 1 ELSE suite.aborted
    BY <1>22, <2>1, CaughtAborted DEF HandlerJump, HandlerCount
  <2>3. hsig \in {"SIGINT", "SIGALRM"} => Explained'
    BY <1>22, <2>1, CaughtBlame DEF HandlerJump, HandlerCount, Explained
  <2>4. CASE restart # pos
    BY <1>22, <2>4 DEF HandlerJump
  <2>5. CASE restart = pos
    <3>1. /\ pos' = pos /\ verdict' = verdict /\ script' = script /\ saved' = saved
          /\ pc' \in {"resumed", "wild"}
      BY <1>22, <2>5 DEF HandlerJump
    <3>2. pc = "handler"
      BY <1>22 DEF HandlerJump
    <3>3. CASE hsig \in {"SIGINT", "SIGALRM"}
      BY <3>1, <3>3, <2>3
    <3>4. CASE hsig = "SIGSEGV"
      BY <1>22, <1>e, <3>1, <3>2, <3>4, <2>5
    <3>5. CASE hsig = "SIGABRT"
      <4>1. Stmt.behave = "abort"
        BY <1>22, <2>5, <3>2, <3>5 DEF SoundInv, TestInv
      <4>2. suite'.aborted = 1 + saved[pos]
        BY <1>22, <1>f, <2>2, <2>5, <3>2, <3>5
      <4> QED
        BY <1>22, <1>e, <3>1, <4>1, <4>2
    <3> QED
      BY <2>1, <3>3, <3>4, <3>5 DEF Signals, UserSignals
  <2> QED
    BY <2>4, <2>5
<1> QED
  BY <1>1, <1>3, <1>4, <1>5, <1>6, <1>7, <1>9, <1>10, <1>11, <1>12, <1>13, <1>14, <1>15,
     <1>16, <1>17, <1>18, <1>19, <1>20, <1>21, <1>22 DEF Next, Main

(* A test that did what was asked of it fails only if some test was timed   *)
(* out or interrupted: the driver has no false negative of its own.         *)
THEOREM FailuresExplained == Spec => []FailureExplained
<1>1. FailInv => FailureExplained
  BY DEF FailInv, BlameInv, FailureExplained, Explained
<1>2. TypeInv /\ TypeInv' /\ TimerInv /\ SoundInv /\ FailInv /\ [Next]_vars => FailInv'
  BY NextFailInv
<1> QED
  BY InitTypeInv, NextTypeInv, InitTimerInv, NextTimerInv, InitSoundInv, NextSoundInv,
     InitFailInv, <1>1, <1>2, PTL DEF Spec

-----------------------------------------------------------------------------
(* Sums *)

Num(b) == IF b THEN 1 ELSE 0

Passed  == {p \in Positions : verdict[p] = "pass"}
Failed  == {p \in Positions : verdict[p] = "fail"}
IsCounted(p) == \/ IsDriver(p) /\ verdict[p] # "skip"
                \/ script[p] = [kind |-> "ostart", behave |-> "true"]
Counted == {p \in 1 .. pos - 1 : IsCounted(p)}

(* A test that is counted and has no verdict yet. *)
InFlight == pc \in InTest \cup {"counted"} \/ (pc = "handler" /\ restart = pos)

(* Where, as long as no jump left its test, the sums are known: a handler   *)
(* that was not called in the test it returns to leaves it.                 *)
Known == pc \in InDriver \cup {"next", "exited"} \/ (pc = "handler" /\ restart = pos)

Verdicts ==
  \A q \in Positions :
    /\ q >= pos => verdict[q] = "none"
    /\ q < pos /\ IsDriver(q) => verdict[q] # "none"
    /\ q < pos /\ script[q].kind = "ocheck" => verdict[q] \in {"pass", "fail"}

Sums ==
  /\ total.passed = Cardinality(Passed)
  /\ total.total = Cardinality(Counted) + Num(InFlight)
  /\ total.total - total.passed = Cardinality(Failed) + Num(captured) + Num(InFlight)
  /\ captured => inOracle
  /\ pc = "exited" =>
       /\ pos = Len(script) + 1
       /\ status = (total.total - total.passed) % ExitRange

SumsInv == ~stale /\ Known => Verdicts /\ Sums

(* What is counted is finite.                                               *)
LEMMA SetsFinite ==
  ASSUME TypeOK
  PROVE  /\ IsFiniteSet(Passed) /\ IsFiniteSet(Failed) /\ IsFiniteSet(Counted)
         /\ Cardinality(Passed) \in Nat /\ Cardinality(Failed) \in Nat
         /\ Cardinality(Counted) \in Nat
<1>1. Len(script) \in Nat /\ pos - 1 \in Int
  BY ScriptType DEF TypeOK
<1>2. IsFiniteSet(Positions) /\ IsFiniteSet(1 .. pos - 1)
  BY <1>1, FS_Interval DEF Positions
<1>3. Passed \subseteq Positions /\ Failed \subseteq Positions /\ Counted \subseteq 1 .. pos - 1
  BY DEF Passed, Failed, Counted
<1> QED
  BY <1>2, <1>3, FS_Subset, FS_CardinalityType

(* One verdict more.                                                        *)
LEMMA TallyOne ==
  ASSUME TypeOK, pos \in Positions, Verdicts, NEW v \in {"pass", "fail", "skip"},
         script' = script, pos' = pos + 1, verdict' = [verdict EXCEPT ![pos] = v],
         script[pos].kind # "ostart",
         IsDriver(pos) \/ (script[pos].kind = "ocheck" /\ v # "skip")
  PROVE  /\ Verdicts'
         /\ Cardinality(Passed') = Cardinality(Passed) + Num(v = "pass")
         /\ Cardinality(Failed') = Cardinality(Failed) + Num(v = "fail")
         /\ Cardinality(Counted') = Cardinality(Counted) + Num(IsDriver(pos) /\ v # "skip")
<1>t. /\ pos \in Nat /\ pos >= 1 /\ Len(script) \in Nat
      /\ verdict \in [Positions -> {"none", "pass", "fail", "skip"}]
  BY ScriptType DEF TypeOK
<1>s. Positions' = Positions
  BY DEF Positions
<1>1. verdict[pos] = "none"
  BY <1>t DEF Verdicts
<1>2. verdict'[pos] = v /\ \A q \in Positions : q # pos => verdict'[q] = verdict[q]
  BY <1>t
<1>3. \A q \in 1 .. pos - 1 : q \in Positions /\ q # pos
  BY <1>t DEF Positions
<1>4. pos \notin Passed /\ pos \notin Failed /\ pos \notin Counted
  BY <1>1, <1>t DEF Passed, Failed, Counted
<1>5. Passed' = IF v = "pass" THEN Passed \cup {pos} ELSE Passed
  BY <1>s, <1>1, <1>2 DEF Passed
<1>6. Failed' = IF v = "fail" THEN Failed \cup {pos} ELSE Failed
  BY <1>s, <1>1, <1>2 DEF Failed
<1>7. Counted' = IF IsDriver(pos) /\ v # "skip" THEN Counted \cup {pos} ELSE Counted
  <2>1. 1 .. pos' - 1 = (1 .. pos - 1) \cup {pos}
    BY <1>t
  <2>2. \A q \in 1 .. pos - 1 : IsCounted(q)' <=> IsCounted(q)
    BY <1>2, <1>3 DEF IsCounted, IsDriver
  <2>3. \A q \in {pos} : IsCounted(q)' <=> (IsDriver(q) /\ v # "skip")
    BY <1>2 DEF IsCounted, IsDriver
  <2> QED
    BY <2>1, <2>2, <2>3 DEF Counted
<1>8. Verdicts'
  <2> SUFFICES ASSUME NEW q \in Positions
               PROVE  /\ q >= pos' => verdict'[q] = "none"
                      /\ q < pos' /\ IsDriver(q) => verdict'[q] # "none"
                      /\ q < pos' /\ script[q].kind = "ocheck" => verdict'[q] \in {"pass", "fail"}
    BY <1>s DEF Verdicts, IsDriver
  <2>1. q \in Nat
    BY <1>t DEF Positions
  <2>3. CASE q = pos
    BY <1>2, <1>t, <2>3 DEF DriverKinds, IsDriver
  <2>4. CASE q # pos
    BY <1>2, <1>t, <2>1, <2>4 DEF Verdicts
  <2> QED
    BY <2>3, <2>4
<1>9. \A S \in {Passed, Failed, Counted} : Cardinality(S \cup {pos}) = Cardinality(S) + 1
  BY <1>4, SetsFinite, FS_AddElement
<1>10. Cardinality(Passed') = Cardinality(Passed) + Num(v = "pass")
  BY <1>5, <1>9, SetsFinite DEF Num
<1>11. Cardinality(Failed') = Cardinality(Failed) + Num(v = "fail")
  BY <1>6, <1>9, SetsFinite DEF Num
<1>12. Cardinality(Counted') = Cardinality(Counted) + Num(IsDriver(pos) /\ v # "skip")
  <2> HIDE DEF IsDriver
  <2>1. CASE IsDriver(pos) /\ v # "skip"
    BY <1>7, <1>9, <2>1 DEF Num
  <2>2. CASE ~(IsDriver(pos) /\ v # "skip")
    BY <1>7, <2>2, SetsFinite DEF Num
  <2> QED
    BY <2>1, <2>2
<1> QED
  BY <1>8, <1>10, <1>11, <1>12

(* No verdict, and the next statement.                                      *)
LEMMA TallyNone ==
  ASSUME TypeOK, pos \in Positions, Verdicts, script' = script, pos' = pos + 1,
         verdict' = verdict, ~IsDriver(pos), script[pos].kind # "ocheck"
  PROVE  /\ Verdicts'
         /\ Passed' = Passed /\ Failed' = Failed
         /\ Cardinality(Counted') = Cardinality(Counted)
              + Num(script[pos] = [kind |-> "ostart", behave |-> "true"])
<1>t. pos \in Nat /\ pos >= 1 /\ Len(script) \in Nat
  BY ScriptType DEF TypeOK
<1>s. Positions' = Positions
  BY DEF Positions
<1>1. pos \notin Counted
  BY <1>t DEF Counted
<1>2. Passed' = Passed /\ Failed' = Failed
  BY <1>s DEF Passed, Failed
<1>3. Counted' = IF script[pos] = [kind |-> "ostart", behave |-> "true"]
                   THEN Counted \cup {pos} ELSE Counted
  <2>1. 1 .. pos' - 1 = (1 .. pos - 1) \cup {pos}
    BY <1>t
  <2>2. \A q \in 1 .. pos - 1 : IsCounted(q)' <=> IsCounted(q)
    BY DEF IsCounted, IsDriver
  <2>3. \A q \in {pos} :
          IsCounted(q)' <=> (script[q] = [kind |-> "ostart", behave |-> "true"])
    BY DEF IsCounted, IsDriver
  <2> QED
    BY <2>1, <2>2, <2>3 DEF Counted
<1>4. Verdicts'
  <2> SUFFICES ASSUME NEW q \in Positions
               PROVE  /\ q >= pos' => verdict'[q] = "none"
                      /\ q < pos' /\ IsDriver(q) => verdict'[q] # "none"
                      /\ q < pos' /\ script[q].kind = "ocheck" => verdict'[q] \in {"pass", "fail"}
    BY <1>s DEF Verdicts, IsDriver
  <2>1. q \in Nat
    BY <1>t DEF Positions
  <2>3. CASE q = pos
    BY <1>t, <2>3 DEF DriverKinds, IsDriver
  <2>4. CASE q # pos
    BY <1>t, <2>1, <2>4 DEF Verdicts
  <2> QED
    BY <2>3, <2>4
<1>5. Cardinality(Counted \cup {pos}) = Cardinality(Counted) + 1
  BY <1>1, SetsFinite, FS_AddElement
<1>6. Cardinality(Counted') = Cardinality(Counted)
        + Num(script[pos] = [kind |-> "ostart", behave |-> "true"])
  BY <1>3, <1>5, SetsFinite DEF Num
<1> QED
  BY <1>2, <1>4, <1>6

(* What each update of a counter leaves alone.                              *)
LEMMA TotalFields ==
  ASSUME NEW c \in Counters
  PROVE  /\ \A n : /\ [c EXCEPT !.total = n].total = n
                   /\ [c EXCEPT !.total = n].passed = c.passed
                   /\ [c EXCEPT !.passed = n].passed = n
                   /\ [c EXCEPT !.passed = n].total = c.total
         /\ \A n, m : /\ [c EXCEPT !.total = n, !.untested = m].total = n
                      /\ [c EXCEPT !.total = n, !.untested = m].passed = c.passed
         /\ \A s \in Signals : /\ Caught(c, s).total = c.total
                               /\ Caught(c, s).passed = c.passed
BY DEF Counters, Caught, Signals, UserSignals

(* Nothing is counted at first.                                             *)
LEMMA InitSumsInv == Init => SumsInv
<1> SUFFICES ASSUME Init PROVE Verdicts /\ Sums
  BY DEF SumsInv
<1>1. Len(script) \in Nat
  BY ScriptsAssumption DEF Init
<1>2. Passed = {} /\ Failed = {} /\ Counted = {}
  BY <1>1 DEF Init, Passed, Failed, Counted
<1>3. Verdicts
  BY <1>1 DEF Init, Verdicts, Positions
<1>4. ~InFlight /\ ~captured /\ pc # "exited" /\ total.passed = 0 /\ total.total = 0
  BY DEF Init, InFlight, InTest, NoTests
<1> QED
  BY <1>2, <1>3, <1>4, FS_EmptySet DEF Sums, Num

(* A signal that is caught in the test to return to keeps the sums.         *)
LEMMA RaiseSumsInv ==
  ASSUME TypeOK, SoundInv, SumsInv, NEW s \in Signals, Raise(s), pc \notin Final,
         UNCHANGED <<program, history, pos, total, restart, captured>>,
         pc # "next" => inOracle' = inOracle
  PROVE  SumsInv'
<1> SUFFICES ASSUME ~stale', Known' PROVE Verdicts' /\ Sums'
  BY DEF SumsInv
<1>1. pc' = "handler" /\ restart = pos /\ ~stale
  BY DEF Raise, Known, InDriver, history
<1>2. pos \in Nat /\ restart \in Nat /\ pc \in Steps
  BY ScriptType DEF TypeOK
<1>3. pc \in InTest \cup {"handler"}
  BY <1>1, <1>2 DEF SoundInv, TestInv, Steps, InTest
<1>4. Known /\ InFlight /\ InFlight' /\ pc' # "exited" /\ inOracle' = inOracle
  BY <1>1, <1>3 DEF Known, InFlight, InDriver, InTest
<1>5. Verdicts /\ Sums
  BY <1>1, <1>4 DEF SumsInv
<1>6. Verdicts' /\ Passed' = Passed /\ Failed' = Failed /\ Counted' = Counted
  BY <1>5 DEF Verdicts, Passed, Failed, Counted, IsCounted, IsDriver, Positions, program, history
<1> QED
  BY <1>4, <1>5, <1>6 DEF Sums

(* A step inside test_driver that gives no verdict and counts no test.      *)
LEMMA SameSumsInv ==
  ASSUME SumsInv, ~stale, Known, InFlight' <=> InFlight, pc' # "exited",
         UNCHANGED <<script, verdict, pos, inOracle, captured>>,
         total'.total = total.total, total'.passed = total.passed
  PROVE  SumsInv'
<1>1. Verdicts /\ Sums
  BY DEF SumsInv
<1>2. Verdicts' /\ Passed' = Passed /\ Failed' = Failed /\ Counted' = Counted
  BY <1>1 DEF Verdicts, Passed, Failed, Counted, IsCounted, IsDriver, Positions
<1> QED
  BY <1>1, <1>2 DEF Sums, SumsInv, Num

(* A test that gets a verdict: v is stored at its place.                    *)
LEMMA VerdictSumsInv ==
  ASSUME TypeOK, SumsInv, ~stale, pc \in {"counted", "disarmed"}, IsDriver(pos),
         pos \in Positions, NEW v \in {"pass", "fail", "skip"},
         verdict' = [verdict EXCEPT ![pos] = v], pos' = pos + 1, pc' = "next",
         UNCHANGED <<script, inOracle, captured>>,
         total'.total = total.total - Num(v = "skip"),
         total'.passed = total.passed + Num(v = "pass")
  PROVE  SumsInv'
<1>1. Verdicts /\ Sums /\ InFlight /\ ~InFlight'
  BY DEF SumsInv, Known, InFlight, InTest, InDriver
<1>2. script[pos].kind # "ostart"
  BY DEF IsDriver, DriverKinds
<1>3. /\ Verdicts'
      /\ Cardinality(Passed') = Cardinality(Passed) + Num(v = "pass")
      /\ Cardinality(Failed') = Cardinality(Failed) + Num(v = "fail")
      /\ Cardinality(Counted') = Cardinality(Counted) + Num(IsDriver(pos) /\ v # "skip")
  BY <1>1, <1>2, TallyOne
<1>4. /\ total.total \in Nat /\ total.passed \in Nat /\ Cardinality(Passed) \in Nat
      /\ Cardinality(Failed) \in Nat /\ Cardinality(Counted) \in Nat
  BY FieldType, SetsFinite DEF TypeOK
<1> HIDE DEF IsDriver
<1>5. Sums'
  <2>1. /\ total.passed = Cardinality(Passed)
        /\ total.total = Cardinality(Counted) + 1
        /\ total.total - total.passed = Cardinality(Failed) + Num(captured) + 1
        /\ (captured => inOracle) /\ Num(captured) \in Nat /\ Num(captured)' = Num(captured)
    BY <1>1 DEF Sums, Num
  <2>2. CASE v = "pass"
    BY <1>1, <1>3, <1>4, <2>1, <2>2 DEF Sums, Num
  <2>3. CASE v = "fail"
    BY <1>1, <1>3, <1>4, <2>1, <2>3 DEF Sums, Num
  <2>4. CASE v = "skip"
    BY <1>1, <1>3, <1>4, <2>1, <2>4 DEF Sums, Num
  <2> QED
    BY <2>2, <2>3, <2>4
<1> QED
  BY <1>3, <1>5 DEF SumsInv

(* A statement that is passed without a verdict.                            *)
LEMMA PlainSumsInv ==
  ASSUME TypeOK, SumsInv, ~stale, pc = "next", pos \in Positions, ~IsDriver(pos),
         script[pos].kind # "ocheck", pos' = pos + 1, pc' = "next",
         UNCHANGED <<script, verdict>>,
         captured' => inOracle',
         \/ /\ script[pos] = [kind |-> "ostart", behave |-> "true"]
            /\ ~captured /\ captured' /\ total'.total = total.total + 1
         \/ /\ script[pos] # [kind |-> "ostart", behave |-> "true"]
            /\ captured' = captured /\ total'.total = total.total,
         total'.passed = total.passed
  PROVE  SumsInv'
<1>1. Verdicts /\ Sums /\ ~InFlight /\ ~InFlight'
  BY DEF SumsInv, Known, InFlight, InTest, InDriver
<1>2. /\ Verdicts' /\ Passed' = Passed /\ Failed' = Failed
      /\ Cardinality(Counted') = Cardinality(Counted)
           + Num(script[pos] = [kind |-> "ostart", behave |-> "true"])
  BY <1>1, TallyNone
<1>3. /\ total.total \in Nat /\ total.passed \in Nat /\ Cardinality(Passed) \in Nat
      /\ Cardinality(Failed) \in Nat /\ Cardinality(Counted) \in Nat
  BY FieldType, SetsFinite DEF TypeOK
<1>4. /\ total.passed = Cardinality(Passed)
      /\ total.total = Cardinality(Counted)
      /\ total.total - total.passed = Cardinality(Failed) + Num(captured)
  BY <1>1, <1>3 DEF Sums, Num
<1>5. CASE script[pos] = [kind |-> "ostart", behave |-> "true"]
  <2>1. Num(captured) = 0 /\ Num(captured)' = 1 /\ Num(InFlight)' = 0
    BY <1>1, <1>5 DEF Num
  <2>2. Cardinality(Counted') = Cardinality(Counted) + 1 /\ total'.total = total.total + 1
    BY <1>2, <1>5 DEF Num
  <2> QED
    BY <1>1, <1>2, <1>3, <1>4, <2>1, <2>2 DEF Sums, SumsInv
<1>6. CASE script[pos] # [kind |-> "ostart", behave |-> "true"]
  <2>1. Num(captured)' = Num(captured) /\ Num(captured) \in Nat /\ Num(InFlight)' = 0
    BY <1>1, <1>6 DEF Num
  <2>2. Cardinality(Counted') = Cardinality(Counted) /\ total'.total = total.total
    BY <1>2, <1>3, <1>6 DEF Num
  <2> QED
    BY <1>1, <1>2, <1>3, <1>4, <2>1, <2>2 DEF Sums, SumsInv
<1> QED
  BY <1>5, <1>6

(* The end of an oracle test.                                               *)
LEMMA CheckSumsInv ==
  ASSUME TypeOK, SumsInv, ~stale, OracleCheck
  PROVE  SumsInv'
<1>1. /\ pc = "next" /\ script[pos].kind = "ocheck" /\ captured /\ ~captured'
      /\ pos' = pos + 1 /\ pc' = "next" /\ UNCHANGED <<script, stale>>
  BY DEF OracleCheck, At, Stmt, Advance, program
<1>2. pos \in Positions /\ pos \in Nat
  BY ScriptType DEF OracleCheck, At, AtEnd, Positions, TypeOK
<1>3. Verdicts /\ Sums /\ ~InFlight /\ ~InFlight'
  BY <1>1 DEF SumsInv, Known, InFlight, InTest, InDriver
<1>4. total \in Counters
  BY DEF TypeOK
<1>5. PICK v \in {"pass", "fail"} :
        /\ verdict' = [verdict EXCEPT ![pos] = v]
        /\ total'.total = total.total /\ total'.passed = total.passed + Num(v = "pass")
  <2>1. CASE OutputMatches /\ verdict' = [verdict EXCEPT ![pos] = "pass"]
             /\ total' = [total EXCEPT !.passed = @ + 1]
    BY <1>4, <2>1, TotalFields DEF Num
  <2>2. CASE ~OutputMatches /\ verdict' = [verdict EXCEPT ![pos] = "fail"] /\ total' = total
    BY <1>4, <2>2, FieldType DEF Num
  <2> QED
    BY <2>1, <2>2 DEF OracleCheck
<1>6. ~IsDriver(pos)
  BY <1>1 DEF IsDriver, DriverKinds
<1>7. /\ Verdicts'
      /\ Cardinality(Passed') = Cardinality(Passed) + Num(v = "pass")
      /\ Cardinality(Failed') = Cardinality(Failed) + Num(v = "fail")
      /\ Cardinality(Counted') = Cardinality(Counted) + Num(IsDriver(pos) /\ v # "skip")
  BY <1>1, <1>2, <1>3, <1>5, TallyOne
<1>8. /\ total.total \in Nat /\ total.passed \in Nat /\ Cardinality(Passed) \in Nat
      /\ Cardinality(Failed) \in Nat /\ Cardinality(Counted) \in Nat
  BY FieldType, SetsFinite DEF TypeOK
<1> HIDE DEF IsDriver
<1>9. Cardinality(Counted') = Cardinality(Counted)
  BY <1>6, <1>7, <1>8 DEF Num
<1>10. /\ total.passed = Cardinality(Passed)
       /\ total.total = Cardinality(Counted)
       /\ total.total - total.passed = Cardinality(Failed) + 1
  BY <1>1, <1>3, <1>8 DEF Sums, Num
<1>11. Num(captured)' = 0 /\ Num(InFlight)' = 0 /\ pc' # "exited"
  BY <1>1, <1>3 DEF Num
<1>12. CASE v = "pass"
  BY <1>1, <1>5, <1>7, <1>8, <1>9, <1>10, <1>11, <1>12 DEF Sums, SumsInv, Num
<1>13. CASE v = "fail"
  BY <1>1, <1>5, <1>7, <1>8, <1>9, <1>10, <1>11, <1>13 DEF Sums, SumsInv, Num
<1> QED
  BY <1>12, <1>13

(* The handler that returns to its test adds to none of the two sums.       *)
LEMMA JumpSumsInv ==
  ASSUME TypeOK, SumsInv, ~stale, HandlerJump
  PROVE  SumsInv'
<1>1. CASE restart # pos
  BY <1>1 DEF HandlerJump, SumsInv
<1>2. CASE restart = pos
  <2>1. total \in Counters /\ hsig \in Signals
    BY DEF TypeOK
  <2>2. total'.total = total.total /\ total'.passed = total.passed
    BY <2>1, TotalFields DEF HandlerJump, HandlerCount
  <2>3. /\ UNCHANGED <<script, verdict, inOracle, captured, restart>>
        /\ pos' = pos /\ pc = "handler" /\ pc' \in {"resumed", "wild"}
    BY <1>2 DEF HandlerJump, program
  <2>4. Known /\ InFlight
    BY <1>2, <2>3 DEF Known, InFlight
  <2>5. CASE pc' = "resumed"
    BY <2>2, <2>3, <2>4, <2>5, SameSumsInv DEF InFlight, InTest
  <2>6. CASE pc' = "wild"
    BY <2>6 DEF SumsInv, Known, InDriver
  <2> QED
    BY <2>3, <2>5, <2>6
<1> QED
  BY <1>1, <1>2

(* test_driver counts its test.                                             *)
LEMMA CountSumsInv ==
  ASSUME TypeOK, SumsInv, ~stale, DriverCount
  PROVE  SumsInv'
<1>1. /\ pc = "expecting" /\ pc' = "counted" /\ total' = [total EXCEPT !.total = @ + 1]
      /\ UNCHANGED <<script, verdict, pos, captured, inOracle>>
  BY DEF DriverCount, program, history
<1>2. total'.total = total.total + 1 /\ total'.passed = total.passed
  BY <1>1, TotalFields DEF TypeOK
<1>3. Verdicts /\ Sums /\ ~InFlight /\ InFlight'
  BY <1>1 DEF SumsInv, Known, InFlight, InTest, InDriver
<1>4. Verdicts' /\ Passed' = Passed /\ Failed' = Failed /\ Counted' = Counted
  BY <1>1, <1>3 DEF Verdicts, Passed, Failed, Counted, IsCounted, IsDriver, Positions
<1>5. /\ total.total \in Nat /\ total.passed \in Nat
      /\ Cardinality(Failed) \in Nat /\ Cardinality(Counted) \in Nat
  BY FieldType, SetsFinite DEF TypeOK
<1> QED
  BY <1>1, <1>2, <1>3, <1>4, <1>5 DEF Sums, SumsInv, Num

(* exit() stores the status.                                                *)
LEMMA FinishSumsInv ==
  ASSUME TypeOK, SumsInv, ~stale, Finish
  PROVE  SumsInv'
<1>1. /\ pc = "next" /\ pc' = "exited" /\ pos = Len(script) + 1
      /\ UNCHANGED <<script, verdict, pos, captured, inOracle, total>>
      /\ status' = (total.total - total.passed) % ExitRange
  BY ScriptType DEF Finish, program, history, AtEnd, TypeOK
<1>2. Verdicts /\ Sums /\ ~InFlight /\ ~InFlight'
  BY <1>1 DEF SumsInv, Known, InFlight, InTest, InDriver
<1>3. Verdicts' /\ Passed' = Passed /\ Failed' = Failed /\ Counted' = Counted
  BY <1>1, <1>2 DEF Verdicts, Passed, Failed, Counted, IsCounted, IsDriver, Positions
<1> QED
  BY <1>1, <1>2, <1>3 DEF Sums, SumsInv, Num

(* While no jump has left its test, the sums are those of the verdicts.     *)
LEMMA NextSumsInv ==
  ASSUME TypeInv, TimerInv, SoundInv, SumsInv, [Next]_vars
  PROVE  SumsInv'
<1>t. TypeOK /\ Placed
  BY DEF TypeInv
<1>v. /\ Len(script) \in Nat /\ pos \in Nat /\ pos >= 1 /\ restart \in Nat
      /\ stale \in BOOLEAN /\ total \in Counters /\ inOracle \in BOOLEAN
  BY <1>t, ScriptType DEF TypeOK
<1>n. ~AtEnd => pos \in Positions
  BY <1>v DEF AtEnd, Positions
<1>f. total.total \in Nat /\ total.passed \in Nat
  BY <1>v, FieldType
<1>d. pc \in InDriver => pos \in Positions /\ IsDriver(pos)
  BY <1>t DEF Placed
<1> USE DEF program, history, At, Advance
<1>1. CASE UNCHANGED vars \/ Spins \/ Done
  <2>1. UNCHANGED vars
    BY <1>1 DEF Spins, Done
  <2> QED
    BY <2>1 DEF vars, SumsInv, Known, InFlight, Verdicts, Sums, Passed, Failed, Counted,
       IsCounted, IsDriver, Positions
<1>2. CASE stale
  <2>1. stale'
    BY <1>2, <1>v DEF Next, Main, vars, UserSignal, Timeout, Interrupt, Done, Spins,
     DriverInOracle, DriverEnter, DriverExpect, DriverCount, DriverSkip, DriverArm,
     DriverReturns, DriverResume, DriverDisarm, DriverPass, DriverFail, OracleStart,
     OracleStartFails, OracleNested, OracleCheck, OracleCheckLost, Suite, Plain, Traps,
     HandlerExit, HandlerJump, Finish
  <2> QED
    BY <2>1 DEF SumsInv
<1>3. ASSUME NEW s \in Signals, Interrupt(s) PROVE SumsInv'
  BY <1>3, <1>t, RaiseSumsInv DEF Interrupt
<1>4. CASE Timeout \/ \E s \in UserSignals : UserSignal(s)
  BY <1>3, <1>4 DEF Timeout, UserSignal, Signals
<1>5. CASE DriverInOracle \/ OracleNested \/ OracleCheckLost \/ Traps
  <2>1. \E s \in Signals : Raise(s)
    BY <1>5 DEF DriverInOracle, OracleNested, OracleCheckLost, Traps, Signals
  <2>2. /\ UNCHANGED <<program, history, pos, total, restart, captured>>
        /\ pc \notin Final /\ (pc # "next" => inOracle' = inOracle)
    BY <1>5 DEF DriverInOracle, OracleNested, OracleCheckLost, Traps, Final
  <2> QED
    BY <1>t, <2>1, <2>2, RaiseSumsInv
<1>6. CASE ~stale /\ (DriverEnter \/ DriverExpect \/ DriverArm \/ DriverReturns
                        \/ DriverResume \/ DriverDisarm)
  <2>1. UNCHANGED <<script, verdict, pos, inOracle, captured, total>> /\ pc' # "exited"
    BY <1>6 DEF DriverEnter, DriverExpect, DriverArm, DriverReturns, DriverResume, DriverDisarm
  <2>2. Known /\ (InFlight' <=> InFlight)
    BY <1>6 DEF DriverEnter, DriverExpect, DriverArm, DriverReturns, DriverResume,
       DriverDisarm, Known, InFlight, InDriver, InTest
  <2> QED
    BY <1>6, <2>1, <2>2, SameSumsInv
<1>7. CASE ~stale /\ DriverSkip
  <2>1. /\ total' = [total EXCEPT !.total = @ - 1, !.untested = @ + 1]
        /\ verdict' = [verdict EXCEPT ![pos] = "skip"]
        /\ pc = "counted" /\ pos' = pos + 1 /\ pc' = "next"
        /\ UNCHANGED <<script, inOracle, captured>>
    BY <1>7 DEF DriverSkip
  <2>2. /\ total'.total = total.total - Num("skip" = "skip")
        /\ total'.passed = total.passed + Num("skip" = "pass")
    BY <1>v, <1>f, <2>1, TotalFields DEF Num
  <2> QED
    BY <1>7, <1>t, <1>d, <2>1, <2>2, VerdictSumsInv DEF InDriver
<1>8. CASE ~stale /\ DriverPass
  <2>1. /\ total' = [total EXCEPT !.passed = @ + 1]
        /\ verdict' = [verdict EXCEPT ![pos] = "pass"]
        /\ pc = "disarmed" /\ pos' = pos + 1 /\ pc' = "next"
        /\ UNCHANGED <<script, inOracle, captured>>
    BY <1>8 DEF DriverPass
  <2>2. /\ total'.total = total.total - Num("pass" = "skip")
        /\ total'.passed = total.passed + Num("pass" = "pass")
    BY <1>v, <1>f, <2>1, TotalFields DEF Num
  <2> QED
    BY <1>8, <1>t, <1>d, <2>1, <2>2, VerdictSumsInv DEF InDriver
<1>9. CASE ~stale /\ DriverFail
  <2>1. /\ total' = total
        /\ verdict' = [verdict EXCEPT ![pos] = "fail"]
        /\ pc = "disarmed" /\ pos' = pos + 1 /\ pc' = "next"
        /\ UNCHANGED <<script, inOracle, captured>>
    BY <1>9 DEF DriverFail
  <2>2. /\ total'.total = total.total - Num("fail" = "skip")
        /\ total'.passed = total.passed + Num("fail" = "pass")
    BY <1>f, <2>1 DEF Num
  <2> QED
    BY <1>9, <1>t, <1>d, <2>1, <2>2, VerdictSumsInv DEF InDriver
<1>10. CASE ~stale /\ OracleStart
  <2>1. script[pos] \in Statement /\ script[pos].kind = "ostart" /\ script[pos].behave = "true"
    BY <1>10, <1>t, <1>n, ScriptType DEF OracleStart, Stmt
  <2>2. script[pos] = [kind |-> "ostart", behave |-> "true"]
    BY <2>1 DEF Statement
  <2>3. ~captured
    BY <1>10 DEF OracleStart, SumsInv, Sums, Known
  <2>4. total'.total = total.total + 1 /\ total'.passed = total.passed
    BY <1>10, <1>v, TotalFields DEF OracleStart
  <2>5. /\ pos \in Positions /\ ~IsDriver(pos) /\ script[pos].kind # "ocheck"
        /\ pc = "next" /\ pos' = pos + 1 /\ pc' = "next" /\ UNCHANGED <<script, verdict>>
        /\ captured' = TRUE /\ inOracle' = TRUE
    BY <1>10, <1>n, <2>1 DEF OracleStart, IsDriver, DriverKinds
  <2> QED
    BY <1>10, <1>t, <2>2, <2>3, <2>4, <2>5, PlainSumsInv
<1>11. CASE ~stale /\ (OracleStartFails \/ Suite \/ Plain)
  <2>1. script[pos] # [kind |-> "ostart", behave |-> "true"]
    BY <1>11 DEF OracleStartFails, Suite, Plain, Stmt
  <2>2. captured => inOracle
    BY <1>11 DEF OracleStartFails, Suite, Plain, SumsInv, Sums, Known
  <2>3. /\ pos \in Positions /\ ~IsDriver(pos) /\ script[pos].kind # "ocheck"
        /\ pc = "next" /\ pos' = pos + 1 /\ pc' = "next"
        /\ UNCHANGED <<script, verdict, captured, total>> /\ (inOracle' = inOracle \/ inOracle')
    BY <1>11, <1>n DEF OracleStartFails, Suite, Plain, Stmt, IsDriver, DriverKinds
  <2> QED
    BY <1>11, <1>t, <2>1, <2>2, <2>3, PlainSumsInv
<1>12. CASE ~stale /\ HandlerExit
  BY <1>12 DEF HandlerExit, SumsInv, Known, InDriver
<1> QED
  BY <1>1, <1>2, <1>4, <1>5, <1>6, <1>7, <1>8, <1>9, <1>10, <1>11, <1>12, <1>t,
     CheckSumsInv, JumpSumsInv, CountSumsInv, FinishSumsInv DEF Next, Main

(* A number in range is no multiple of the range but 0.                     *)
LEMMA NoWrapAround ==
  ASSUME NEW n \in Nat, n < ExitRange, n % ExitRange = 0
  PROVE  n = 0
BY BoundsAssumption

(* What make sees: status 0 means that all tests passed, up to ExitRange    *)
(* failures, for any program, with its oracle tests in any order.           *)
THEOREM ZeroMeansPassed == Spec => []ExitZeroMeansAllPassed
<1>1. TypeInv /\ SumsInv => ExitZeroMeansAllPassed
  <2> SUFFICES ASSUME TypeInv, SumsInv, pc = "exited", status = 0, ~stale,
                      ~(total.total - total.passed >= ExitRange)
               PROVE  \A p \in Positions :
                        /\ IsDriver(p) => verdict[p] \in {"pass", "skip"}
                        /\ script[p].kind = "ocheck" => verdict[p] = "pass"
    BY DEF ExitZeroMeansAllPassed
  <2>1. Verdicts /\ Sums
    BY DEF SumsInv, Known
  <2>2. TypeOK /\ Len(script) \in Nat
    BY ScriptType DEF TypeInv
  <2>3. total.total \in Nat /\ total.passed \in Nat /\ Cardinality(Failed) \in Nat
    BY <2>2, FieldType, SetsFinite DEF TypeOK
  <2> DEFINE n == total.total - total.passed
  <2>4. n = Cardinality(Failed) + Num(captured) + Num(InFlight) /\ n \in Nat
    BY <2>1, <2>3 DEF Sums, Num
  <2>5. n % ExitRange = 0 /\ n < ExitRange
    BY <2>1, <2>3, BoundsAssumption DEF Sums
  <2>6. n = 0
    <3> HIDE DEF n
    <3> QED
      BY <2>4, <2>5, NoWrapAround
  <2>7. Cardinality(Failed) = 0
    BY <2>3, <2>4, <2>6 DEF Num
  <2>8. Failed = {}
    BY <2>2, <2>7, SetsFinite, FS_EmptySet
  <2> QED
    BY <2>1, <2>2, <2>8 DEF Sums, Verdicts, Failed, Positions, TypeOK
<1>2. TypeInv /\ TimerInv /\ SoundInv /\ SumsInv /\ [Next]_vars => SumsInv'
  BY NextSumsInv
<1> QED
  BY InitTypeInv, NextTypeInv, InitTimerInv, NextTimerInv, InitSoundInv, NextSoundInv,
     InitSumsInv, <1>1, <1>2, PTL DEF Spec

-----------------------------------------------------------------------------
(* The report *)

(* Every check of an oracle test is in the suite of its start.              *)
OraclesPaired ==
  \A s \in Scripts : \A q \in DOMAIN s :
    s[q].kind = "ocheck" =>
      \E p \in 1 .. q - 1 : /\ s[p].kind = "ostart"
                            /\ \A r \in p .. q - 1 : s[r].kind \notin {"ocheck", "suite"}

(* How many tests of the suite are left that failed neither way.            *)
Slack(c) == c.total - c.passed - c.aborted - c.timed_out

(* An oracle test of this suite is open, which may pass.                    *)
Reserved ==
  /\ captured
  /\ \E p \in 1 .. pos - 1 :
       /\ script[p].kind = "ostart"
       /\ \A r \in p .. pos - 1 : script[r].kind \notin {"ocheck", "suite"}

(* The driver's test may still pass, abort or be timed out.                 *)
Owed ==
  \/ pc \in {"counted", "armed"}
  \/ pc = "handler" /\ hsig \in {"SIGABRT", "SIGALRM"}
  \/ pc = "ran" /\ alarm
  \/ pc \in {"ran", "disarmed"} /\ ret /\ Stmt.kind = "assert"

Margin ==
  /\ Slack(suite) >= 0
  /\ Reserved \/ Owed => Slack(suite) >= 1
  /\ Reserved /\ Owed => Slack(suite) >= 2

MarginInv == ~stale /\ Known /\ pc # "exited" => Margin

(* Slack is a difference of counters, and what each update makes of it.     *)
LEMMA SlackFields ==
  ASSUME NEW c \in Counters
  PROVE  /\ Slack(c) \in Int
         /\ Slack([c EXCEPT !.total = @ + 1]) = Slack(c) + 1
         /\ Slack([c EXCEPT !.total = @ - 1]) = Slack(c) - 1
         /\ Slack([c EXCEPT !.passed = @ + 1]) = Slack(c) - 1
         /\ Slack([c EXCEPT !.passed = @ + 1, !.aborted = @ - 1]) = Slack(c)
         /\ Slack([NoTests EXCEPT !.segfaulted = c.segfaulted]) = 0
         /\ \A s \in Signals : Slack(Caught(c, s)) =
              IF s \in {"SIGABRT", "SIGALRM"} THEN Slack(c) - 1 ELSE Slack(c)
<1> USE DEF Counters, Slack
<1>1. Slack(c) \in Int
  OBVIOUS
<1>2. Slack([c EXCEPT !.total = @ + 1]) = Slack(c) + 1
  OBVIOUS
<1>3. Slack([c EXCEPT !.total = @ - 1]) = Slack(c) - 1
  OBVIOUS
<1>4. Slack([c EXCEPT !.passed = @ + 1]) = Slack(c) - 1
  OBVIOUS
<1>5. Slack([c EXCEPT !.passed = @ + 1, !.aborted = @ - 1]) = Slack(c)
  OBVIOUS
<1>6. Slack([NoTests EXCEPT !.segfaulted = c.segfaulted]) = 0
  BY DEF NoTests
<1>7. ASSUME NEW s \in Signals
      PROVE  Slack(Caught(c, s)) =
               IF s \in {"SIGABRT", "SIGALRM"} THEN Slack(c) - 1 ELSE Slack(c)
  BY DEF Caught, Signals, UserSignals
<1> QED
  BY <1>1, <1>2, <1>3, <1>4, <1>5, <1>6, <1>7

LEMMA InitMarginInv == Init => MarginInv
<1> SUFFICES ASSUME Init PROVE Margin
  BY DEF MarginInv
<1>1. Slack(suite) = 0
  BY DEF Init, NoTests, Slack
<1>2. ~Reserved /\ ~Owed
  BY DEF Init, Reserved, Owed
<1> QED
  BY <1>1, <1>2 DEF Margin

(* Going on opens no oracle test.                                           *)
LEMMA StillReserved ==
  ASSUME TypeOK, pos' \in {pos, pos + 1}, script' = script, captured' => captured,
         pos' = pos + 1 => script[pos].kind # "ostart"
  PROVE  Reserved' => Reserved
<1> SUFFICES ASSUME Reserved' PROVE Reserved
  OBVIOUS
<1>1. pos \in Nat
  BY ScriptType DEF TypeOK
<1>2. PICK p \in 1 .. pos' - 1 :
        /\ script[p].kind = "ostart"
        /\ \A r \in p .. pos' - 1 : script[r].kind \notin {"ocheck", "suite"}
  BY DEF Reserved
<1>3. p \in 1 .. pos - 1 /\ p .. pos - 1 \subseteq p .. pos' - 1
  <2>1. CASE pos' = pos
    BY <2>1
  <2>2. CASE pos' = pos + 1
    <3>1. p # pos
      BY <1>2, <2>2
    <3>2. p \in 1 .. pos
      BY <1>1, <2>2
    <3> QED
      BY <1>1, <2>2, <3>1, <3>2
  <2> QED
    BY <2>1, <2>2
<1>4. captured
  BY Zenon DEF Reserved
<1>5. /\ script[p].kind = "ostart"
      /\ \A r \in p .. pos - 1 : script[r].kind \notin {"ocheck", "suite"}
  BY <1>2, <1>3
<1> QED
  BY <1>3, <1>4, <1>5 DEF Reserved

(* A signal.                                                                *)
LEMMA RaiseMarginInv ==
  ASSUME TypeOK, TimerInv, SoundInv, MarginInv, NEW s \in Signals, Raise(s), pc \notin Final,
         UNCHANGED <<program, history, pos, suite, restart, captured>>,
         restart = pos /\ s \in {"SIGABRT", "SIGALRM"} => pc = "armed" \/ alarm
  PROVE  MarginInv'
<1> SUFFICES ASSUME ~stale', Known' PROVE Margin'
  BY DEF MarginInv
<1>1. pc' = "handler" /\ hsig' = s /\ restart = pos /\ ~stale
  BY DEF Raise, Known, InDriver, history
<1>2. pos \in Nat /\ restart \in Nat /\ pc \in Steps
  BY ScriptType DEF TypeOK
<1>3. pc \in InTest \cup {"handler"}
  BY <1>1, <1>2 DEF SoundInv, TestInv, Steps, InTest
<1>4. Margin
  BY <1>1, <1>3 DEF MarginInv, Known, InDriver, InTest
<1>5. Owed' => Owed
  BY <1>1 DEF Owed, TimerInv
<1>6. Reserved' = Reserved
  BY DEF Reserved, program
<1> QED
  BY <1>4, <1>5, <1>6 DEF Margin

(* While no jump has left its test, the suite has failures left to report.  *)
LEMMA NextMarginInv ==
  ASSUME OraclesPaired, TypeInv, TimerInv, SoundInv, SumsInv, MarginInv, [Next]_vars
  PROVE  MarginInv'
<1>t. TypeOK /\ Placed
  BY DEF TypeInv
<1>v. /\ Len(script) \in Nat /\ pos \in Nat /\ pos >= 1 /\ restart \in Nat
      /\ stale \in BOOLEAN /\ suite \in Counters /\ alarm \in BOOLEAN /\ ret \in BOOLEAN
      /\ Slack(suite) \in Int
  <2>1. /\ Len(script) \in Nat /\ pos \in Nat /\ pos >= 1 /\ restart \in Nat
        /\ stale \in BOOLEAN /\ suite \in Counters /\ alarm \in BOOLEAN /\ ret \in BOOLEAN
    BY <1>t, ScriptType DEF TypeOK
  <2> QED
    BY <2>1, SlackFields
<1>n. ~AtEnd => pos \in Positions
  BY <1>v DEF AtEnd, Positions
<1>d. pc \in InDriver => pos \in Positions /\ IsDriver(pos)
  BY <1>t DEF Placed
<1> USE DEF program, history, At, Advance
<1>1. CASE UNCHANGED vars \/ Spins \/ Done
  <2>1. UNCHANGED vars
    BY <1>1 DEF Spins, Done
  <2> QED
    BY <2>1 DEF vars, MarginInv, Known, Margin, Reserved, Owed, Slack, Stmt
<1>2. CASE stale
  <2>1. stale'
    BY <1>2, <1>v DEF Next, Main, vars, UserSignal, Timeout, Interrupt, Done, Spins,
     DriverInOracle, DriverEnter, DriverExpect, DriverCount, DriverSkip, DriverArm,
     DriverReturns, DriverResume, DriverDisarm, DriverPass, DriverFail, OracleStart,
     OracleStartFails, OracleNested, OracleCheck, OracleCheckLost, Suite, Plain, Traps,
     HandlerExit, HandlerJump, Finish
  <2> QED
    BY <2>1 DEF MarginInv
<1>3. ASSUME NEW s \in Signals, Interrupt(s), s = "SIGALRM" => alarm, s # "SIGABRT"
      PROVE  MarginInv'
  BY <1>3, <1>t, RaiseMarginInv DEF Interrupt
<1>4. CASE Timeout \/ \E s \in UserSignals : UserSignal(s)
  BY <1>3, <1>4 DEF Timeout, UserSignal, Signals, UserSignals
<1>5. CASE ~stale /\ (DriverInOracle \/ OracleNested \/ OracleCheckLost \/ Traps)
  <2>1. PICK s \in {"SIGABRT", "SIGSEGV"} : Raise(s)
    BY <1>5 DEF DriverInOracle, OracleNested, OracleCheckLost, Traps
  <2>2. /\ UNCHANGED <<program, history, pos, suite, restart, captured>>
        /\ pc \in {"next", "armed"}
    BY <1>5 DEF DriverInOracle, OracleNested, OracleCheckLost, Traps
  <2>3. pc = "next" => restart # pos
    BY <1>5, <1>v DEF SoundInv, TestInv
  <2> QED
    BY <1>t, <2>1, <2>2, <2>3, RaiseMarginInv DEF Signals, Final
<1>6. CASE ~stale /\ (DriverEnter \/ DriverExpect \/ DriverArm \/ DriverReturns
                        \/ DriverResume \/ DriverDisarm)
  <2>1. UNCHANGED <<script, pos, captured, suite>>
    BY <1>6 DEF DriverEnter, DriverExpect, DriverArm, DriverReturns, DriverResume, DriverDisarm
  <2>2. Known /\ pc # "exited" /\ Margin
    BY <1>6 DEF DriverEnter, DriverExpect, DriverArm, DriverReturns, DriverResume,
       DriverDisarm, Known, InDriver, MarginInv
  <2>3. Reserved' = Reserved
    BY <2>1 DEF Reserved
  <2>4. Owed' => Owed
    <3>1. CASE DriverResume
      <4>1. ret' => expectAbort
        BY <3>1 DEF DriverResume
      <4>2. expectAbort = (Stmt.kind = "abort") /\ ~alarm
        BY <1>6, <1>v, <3>1 DEF DriverResume, SoundInv, TestInv, Resumable, InTest, TimerInv
      <4>3. UNCHANGED <<alarm, script, pos>> /\ pc' = "ran"
        BY <3>1 DEF DriverResume
      <4> QED
        BY <4>1, <4>2, <4>3 DEF Owed, Stmt
    <3>2. CASE ~DriverResume
      BY <1>6, <1>v, <2>1, <3>2 DEF DriverEnter, DriverExpect, DriverArm, DriverReturns,
         DriverDisarm, Owed, Stmt
    <3> QED
      BY <3>1, <3>2
  <2> QED
    BY <2>1, <2>2, <2>3, <2>4 DEF MarginInv, Margin
<1>7. CASE ~stale /\ DriverCount
  <2>1. /\ pc = "expecting" /\ UNCHANGED <<script, pos, captured>>
        /\ suite' = [suite EXCEPT !.total = @ + 1]
    BY <1>7 DEF DriverCount
  <2>2. Margin /\ Slack(suite)' = Slack(suite) + 1 /\ Reserved' = Reserved
    BY <1>7, <1>v, <2>1, SlackFields DEF MarginInv, Known, InDriver, Reserved
  <2> QED
    BY <1>v, <2>2 DEF MarginInv, Margin
<1>8. CASE ~stale /\ DriverSkip
  <2>1. /\ pc = "counted" /\ UNCHANGED <<script, captured>> /\ pos' = pos + 1 /\ pc' = "next"
        /\ suite' = [suite EXCEPT !.total = @ - 1]
    BY <1>8 DEF DriverSkip
  <2>2. Margin /\ Slack(suite)' = Slack(suite) - 1 /\ Owed /\ ~Owed'
    BY <1>8, <1>v, <2>1, SlackFields DEF MarginInv, Known, InDriver, Owed
  <2>3. Reserved' => Reserved
    BY <1>t, <1>d, <2>1, StillReserved DEF InDriver, IsDriver, DriverKinds
  <2> QED
    BY <1>v, <2>2, <2>3 DEF MarginInv, Margin
<1>9. CASE ~stale /\ DriverPass
  <2>1. /\ pc = "disarmed" /\ UNCHANGED <<script, captured>> /\ pos' = pos + 1
        /\ pc' = "next" /\ ret
    BY <1>9 DEF DriverPass
  <2>2. Margin /\ ~Owed' /\ (Stmt.kind = "assert" => Owed)
    BY <1>9, <2>1 DEF MarginInv, Known, InDriver, Owed
  <2>3. Reserved' => Reserved
    BY <1>t, <1>d, <2>1, StillReserved DEF InDriver, IsDriver, DriverKinds
  <2>4. CASE Stmt.kind = "abort"
    <3>1. suite' = [suite EXCEPT !.passed = @ + 1, !.aborted = @ - 1]
      BY <1>9, <2>4 DEF DriverPass
    <3>2. Slack(suite)' = Slack(suite)
      BY <1>v, <3>1, SlackFields
    <3> QED
      BY <2>2, <2>3, <3>2 DEF MarginInv, Margin
  <2>5. CASE Stmt.kind = "assert"
    <3>1. suite' = [suite EXCEPT !.passed = @ + 1]
      BY <1>9, <1>v, <2>5 DEF DriverPass, Counters
    <3>2. Slack(suite)' = Slack(suite) - 1
      BY <1>v, <3>1, SlackFields
    <3> QED
      BY <1>v, <2>2, <2>3, <2>5, <3>2 DEF MarginInv, Margin
  <2> QED
    BY <1>d, <2>1, <2>4, <2>5 DEF InDriver, IsDriver, DriverKinds, Stmt
<1>10. CASE ~stale /\ (DriverFail \/ OracleStartFails \/ Plain)
  <2>1. /\ UNCHANGED <<script, captured, suite>> /\ pos' = pos + 1 /\ pc' = "next"
        /\ pc \in {"next", "disarmed"}
    BY <1>10 DEF DriverFail, OracleStartFails, Plain
  <2>2. Margin /\ ~Owed'
    BY <1>10, <2>1 DEF MarginInv, Known, InDriver, Owed
  <2>3. Reserved' => Reserved
    <3>1. CASE OracleStartFails
      <4>1. ~captured
        BY <1>10, <3>1 DEF OracleStartFails, SumsInv, Sums, Known
      <4> QED
        BY <2>1, <4>1 DEF Reserved
    <3>2. CASE DriverFail \/ Plain
      <4>1. script[pos].kind # "ostart"
        BY <1>d, <3>2 DEF DriverFail, Plain, InDriver, IsDriver, DriverKinds, Stmt
      <4> QED
        BY <1>t, <2>1, <4>1, StillReserved
    <3> QED
      BY <1>10, <3>1, <3>2
  <2> QED
    BY <2>1, <2>2, <2>3 DEF MarginInv, Margin
<1>11. CASE ~stale /\ OracleStart
  <2>1. /\ suite' = [suite EXCEPT !.total = @ + 1] /\ pc = "next" /\ pc' = "next"
    BY <1>11 DEF OracleStart
  <2>2. Margin /\ ~Owed' /\ Slack(suite)' = Slack(suite) + 1
    BY <1>11, <1>v, <2>1, SlackFields DEF MarginInv, Known, Owed
  <2> QED
    BY <1>v, <2>2 DEF MarginInv, Margin
<1>12. CASE ~stale /\ OracleCheck
  <2>1. /\ pc = "next" /\ pc' = "next" /\ captured /\ ~captured'
        /\ pos \in Positions /\ script[pos].kind = "ocheck"
    BY <1>12, <1>n DEF OracleCheck, Stmt
  <2>2. Reserved
    <3>1. script \in Scripts /\ pos \in DOMAIN script
      BY <1>t, <2>1, ScriptsAssumption DEF TypeOK, Positions
    <3> QED
      BY <2>1, <3>1 DEF OraclesPaired, Reserved
  <2>3. Margin /\ ~Owed' /\ ~Reserved'
    BY <1>12, <2>1 DEF MarginInv, Known, Owed, Reserved
  <2>4. suite' = suite \/ suite' = [suite EXCEPT !.passed = @ + 1]
    BY <1>12 DEF OracleCheck
  <2>5. Slack(suite)' \in {Slack(suite), Slack(suite) - 1}
    BY <1>v, <2>4, SlackFields
  <2> QED
    BY <1>v, <2>2, <2>3, <2>5 DEF MarginInv, Margin
<1>13. CASE ~stale /\ Suite
  <2>1. /\ suite' = [NoTests EXCEPT !.segfaulted = suite.segfaulted] /\ pc' = "next"
        /\ pos' = pos + 1 /\ script' = script /\ script[pos].kind = "suite"
    BY <1>13 DEF Suite, Stmt
  <2>2. ~Owed' /\ Slack(suite)' = 0
    BY <1>v, <2>1, SlackFields DEF Owed
  <2>3. ~Reserved'
    BY <1>v, <2>1 DEF Reserved
  <2> QED
    BY <2>2, <2>3 DEF MarginInv, Margin
<1>14. CASE ~stale /\ HandlerExit
  BY <1>14 DEF HandlerExit, MarginInv, Known, InDriver
<1>15. CASE ~stale /\ Finish
  BY <1>15 DEF Finish, MarginInv
<1>16. CASE ~stale /\ HandlerJump
  <2>1. CASE restart # pos
    BY <1>16, <2>1 DEF HandlerJump, MarginInv
  <2>2. CASE restart = pos
    <3>1. /\ UNCHANGED <<script, pos, captured>> /\ pc = "handler" /\ pc' \in {"resumed", "wild"}
          /\ suite' = Caught(suite, hsig) /\ hsig \in Signals
      BY <1>16, <1>t, <2>2 DEF HandlerJump, HandlerCount, TypeOK
    <3>2. Margin /\ ~Owed' /\ Reserved' = Reserved
      BY <1>16, <2>2, <3>1 DEF MarginInv, Known, Owed, Reserved
    <3>3. Slack(suite)' = IF hsig \in {"SIGABRT", "SIGALRM"} THEN Slack(suite) - 1
                          ELSE Slack(suite)
      BY <1>v, <3>1, SlackFields
    <3>4. Owed <=> hsig \in {"SIGABRT", "SIGALRM"}
      BY <3>1 DEF Owed
    <3> QED
      BY <1>v, <3>2, <3>3, <3>4 DEF MarginInv, Margin
  <2> QED
    BY <2>1, <2>2
<1> QED
  BY <1>1, <1>2, <1>4, <1>5, <1>6, <1>7, <1>8, <1>9, <1>10, <1>11, <1>12, <1>13, <1>14,
     <1>15, <1>16, <1>v DEF Next, Main

(* The report adds up at each statement boundary, whatever signals came, if *)
(* oracle tests end in the suite they begin in.                             *)
THEOREM TalliesExact ==
  ASSUME OraclesPaired
  PROVE  Spec => []TallyExact
<1>1. TypeInv /\ SumsInv /\ MarginInv => TallyExact
  <2> SUFFICES ASSUME TypeInv, SumsInv, MarginInv, ~stale, pc = "next"
               PROVE  /\ total.passed = Cardinality({p \in Positions : verdict[p] = "pass"})
                      /\ total.total = Cardinality({p \in 1 .. pos - 1 :
                           \/ IsDriver(p) /\ verdict[p] # "skip"
                           \/ script[p] = [kind |-> "ostart", behave |-> "true"]})
                      /\ suite.aborted + suite.timed_out <= suite.total - suite.passed
    BY DEF TallyExact
  <2>1. Sums /\ Margin /\ ~InFlight
    BY DEF SumsInv, MarginInv, Known, InFlight, InTest
  <2>2. /\ suite.total \in Nat /\ suite.passed \in Nat /\ suite.aborted \in Nat
        /\ suite.timed_out \in Nat /\ Cardinality(Counted) \in Nat
    BY FieldType, SetsFinite DEF TypeInv, TypeOK
  <2>3. suite.aborted + suite.timed_out <= suite.total - suite.passed
    BY <2>1, <2>2 DEF Margin, Slack
  <2>4. total.total = Cardinality(Counted) /\ total.passed = Cardinality(Passed)
    BY <2>1, <2>2 DEF Sums, Num
  <2> QED
    BY <2>3, <2>4 DEF Counted, IsCounted, Passed
<1>2. TypeInv /\ TimerInv /\ SoundInv /\ SumsInv /\ [Next]_vars => SumsInv'
  BY NextSumsInv
<1>3. TypeInv /\ TimerInv /\ SoundInv /\ SumsInv /\ MarginInv /\ [Next]_vars => MarginInv'
  BY NextMarginInv
<1> QED
  BY InitTypeInv, NextTypeInv, InitTimerInv, NextTimerInv, InitSoundInv, NextSoundInv,
     InitSumsInv, InitMarginInv, <1>1, <1>2, <1>3, PTL DEF Spec
-----------------------------------------------------------------------------
(* The deque: its order *)

(* f numbers the links of a ring from 1 to n, and the sentinel 0 and n + 1. *)
Order(f, n) ==
  /\ f \in Numbering(Cells, n)
  /\ f[0] = Sentinel /\ f[n + 1] = Sentinel
  /\ \A i \in 1 .. n : f[i] # Sentinel
  /\ \A i, j \in 1 .. n : f[i] = f[j] => i = j

(* The field x leads along the numbers, the field y against them. *)
Along(x, f, n)   == \A i \in 0 .. n : x[f[i]] = f[i + 1]
Against(y, f, n) == \A i \in 0 .. n : y[f[i + 1]] = f[i]

(* The numbers when l comes before or behind the others, and when the first *)
(* or the last goes.                                                        *)
Before(l, f, n) == [i \in 0 .. n + 2 |-> IF i = 0 THEN Sentinel ELSE IF i = 1 THEN l ELSE f[i - 1]]
Behind(l, f, n) == [i \in 0 .. n + 2 |-> IF i <= n THEN f[i] ELSE IF i = n + 1 THEN l ELSE Sentinel]
FirstGone(f, n) == [i \in 0 .. n |-> IF i = 0 THEN Sentinel ELSE f[i + 1]]
LastGone(f, n)  == [i \in 0 .. n |-> IF i = n THEN Sentinel ELSE f[i]]

-----------------------------------------------------------------------------
(* The deque: what holds between two stores *)

AddFrontStage(f, n) ==
  /\ op.at \in 1 .. 4 => op.link \notin Elements(f, n)
  /\ op.at \in 2 .. 4 => next[op.link] = f[1]
  /\ op.at = 3 => prev[op.link] = Sentinel
  /\ op.at = 4 => Against(prev, Before(op.link, f, n), n + 1)
  /\ op.at # 4 => Against(prev, f, n)

AddBackStage(f, n) ==
  /\ op.at \in 1 .. 3 => op.link \notin Elements(f, n)
  /\ op.at \in 2 .. 3 => next[op.link] = Sentinel
  /\ op.at = 3 => prev[op.link] = f[n]
  /\ op.at = 4 => /\ n > 0 /\ f[n] = op.link /\ prev[op.link] = f[n - 1]
                  /\ Against(prev, LastGone(f, n), n - 1)
  /\ op.at # 4 => Against(prev, f, n)

(* The deletion from an empty deque: the sentinel is what it removes.       *)
EmptyStage(f, n) ==
  n = 0 /\ length = 0 /\ "empty" \in Misuse /\ Against(prev, f, n)

DeleteFrontStage(f, n) ==
  /\ op.at \in 1 .. 2 => n > 0 /\ f[1] = op.link
  /\ op.at = 2 => Against(prev, FirstGone(f, n), n - 1)
  /\ op.at # 2 => Against(prev, f, n)

DeleteBackStage(f, n) ==
  /\ op.at = 1 => n > 0 /\ f[n] = op.link
  /\ op.at = 2 => op.link \in Links \ Elements(f, n) /\ Against(prev, Behind(op.link, f, n), n + 1)
  /\ op.at # 2 => Against(prev, f, n)

Adding   == op.name \in {"addfront", "addback"}
Removing == op.name \in {"delfront", "delback"}
Resetting  == op.name \in Resets

Stage(f, n) ==
  /\ op.name = "idle" => Against(prev, f, n)
  /\ op.name = "addfront" => AddFrontStage(f, n)
  /\ op.name = "addback" => AddBackStage(f, n)
  /\ Removing /\ op.link = Sentinel => EmptyStage(f, n)
  /\ op.name = "delfront" /\ op.link # Sentinel => DeleteFrontStage(f, n)
  /\ op.name = "delback" /\ op.link # Sentinel => DeleteBackStage(f, n)

(* What the length lags behind the ring, until the last store. *)
Lag ==
  IF \/ op.name = "addfront" /\ op.at = 5
     \/ op.name = "addback" /\ op.at \in 4 .. 5 THEN -1
  ELSE IF /\ op.link # Sentinel
          /\ \/ op.name = "delfront" /\ op.at = 3
             \/ op.name = "delback" /\ op.at \in 2 .. 3 THEN 1
  ELSE 0

RingInv(f, n) ==
  /\ Order(f, n) /\ Along(next, f, n)
  /\ left = "whole" => Stage(f, n)
  /\ left = "whole" /\ ~Resetting => length - n - Lag \in -Missing .. 0

(* A foreach is at the k-th element when its saved link is; a destroy has   *)
(* freed those before the one it is at.                                     *)
ForeachAt(f, n, k) ==
  /\ iter.nxt = f[k]
  /\ \A i \in 1 .. n : i < k /\ f[i] \in stable => f[i] \in seen

DestroyAt(f, n, k) ==
  /\ iter.cur = f[k - 1] /\ iter.nxt = f[k]
  /\ \A i \in 1 .. n : f[i] \in freed => i < k - 1

LoopInv(f, n) ==
  /\ Adding => op.link \notin freed
  /\ iter.mode # "destroy" => Elements(f, n) \cap freed = {}
  /\ iter.mode = "foreach" =>
       /\ Removing /\ op.link # Sentinel => op.link # iter.nxt
       /\ stable \subseteq Elements(f, n)
       /\ \E k \in 1 .. n + 1 : ForeachAt(f, n, k)
  /\ iter.mode = "destroy" /\ op = Idle => \E k \in 2 .. n + 1 : DestroyAt(f, n, k)

Careful == "next" \notin Misuse

(* What RingSound says of a deque that an interrupt left as it was.         *)
Readable ==
  LET there   == Forward
      back    == Backward
      surplus == length - Len(there)
  IN  /\ NULL \notin Range(there) \cup Range(back)
      /\ OneEndApart(there, back) \/ (Clearing /\ there = <<>>)
      /\ ~Clearing => surplus \in (-1 - Missing) .. 1

-----------------------------------------------------------------------------
(* The deque: what holds however it was left *)

(* A link of which both fields lead into the ring. *)
Linked(c) == {next[c], prev[c]} \subseteq Cells

(* What another link leads to is linked; until the sentinel is, nothing     *)
(* leads to an element.                                                     *)
LinkInv ==
  /\ \A c \in Cells : (next[c] \in Links => Linked(next[c])) /\ (prev[c] \in Links => Linked(prev[c]))
  /\ prev[Sentinel] \in Cells => next[Sentinel] \in Cells
  /\ prev[Sentinel] \notin Cells => /\ Raw /\ iter.mode = "off"
                                   /\ \A c \in Cells : {next[c], prev[c]} \cap Links = {}
  /\ iter.mode # "off" /\ iter.nxt \in Links => Linked(iter.nxt)

(* How far the pointers of the function under way are known.                *)
StoreInv ==
  /\ op.name = "addfront" =>
       /\ op.at \in 2 .. 3 => next[op.link] = next[Sentinel]
       /\ op.at = 3 => prev[op.link] = Sentinel
       /\ op.at = 4 => Linked(op.link) /\ prev[Sentinel] \in Cells
  /\ op.name = "addback" =>
       /\ op.at \in 2 .. 3 => next[op.link] = Sentinel
       /\ op.at = 3 => prev[op.link] = prev[Sentinel]
       /\ op.at = 4 => Linked(op.link) /\ prev[Sentinel] \in Cells
  /\ op.name = "delfront" =>
       /\ op.at = 1 => op.link = next[Sentinel]
       /\ op.at = 2 => op.link \in Cells /\ next[op.link] \in Cells /\ prev[Sentinel] \in Cells
  /\ op.name = "delback" =>
       /\ op.at = 1 => op.link = prev[Sentinel]
       /\ op.at = 2 => op.link \in Cells /\ prev[op.link] \in Cells /\ prev[Sentinel] \in Cells
  /\ Resetting =>
       /\ op.at >= 2 => next[Sentinel] = Sentinel
       /\ op.at >= 3 => prev[Sentinel] = Sentinel
       /\ op.at = 4 => IF op.name = "init" THEN offset = "field" ELSE length = 0

(* Before deque_init, and unless that was interrupted.                      *)
RawInv ==
  Raw /\ left = "whole" /\ ~Resetting =>
    /\ next[Sentinel] \notin Cells
    /\ Removing => next[Sentinel] = Wild

DequeTypeInv ==
  /\ DequeTypeOK
  /\ op \in [name : Updates \cup Resets \cup {"idle"}, at : 0 .. 5, link : Pointers]
  /\ op.name = "idle" => op = Idle
  /\ op.name # "idle" => op.at \in 1 .. Stores[op.name]
  /\ Adding => op.link \in Links
  /\ iter \in [mode : {"off", "foreach", "destroy"}, cur : Pointers, nxt : Pointers]
  /\ iter.mode = "destroy" => op = Idle \/ op.name = "reset"
  /\ iter.mode # "off" => iter.cur \in Links /\ iter.nxt \in Cells
  /\ Resetting /\ iter.mode = "foreach" => ~Careful
  /\ left = "whole" => late = 0
  /\ fate \in {"ok", "dangling"} \/ Raw

LinkedInv == DequeTypeInv /\ LinkInv /\ StoreInv /\ RawInv

-----------------------------------------------------------------------------
(* The deque: what holds unless it was updated after an interrupt *)

Ready(f, n) == LinkedInv /\ ~Raw /\ late = 0 /\ RingInv(f, n)

RingedInv ==
  /\ \E n \in Nat : \E f \in Numbering(Cells, n) :
       RingInv(f, n) /\ (Careful /\ left # "destroy" => LoopInv(f, n))
  /\ left # "whole" \/ Resetting => Readable
  /\ left # "whole" => ~Adding /\ ~Removing
  /\ Careful /\ left = "destroy" => iter.mode = "off"
  /\ Careful => fate = "ok"

DequeInv == LinkedInv /\ (~Raw /\ late = 0 => RingedInv)

-----------------------------------------------------------------------------
(* The deque: how its order changes *)

LEMMA BeforeOrder ==
  ASSUME NEW n \in Nat, NEW f, Order(f, n), NEW l \in Links, l \notin Elements(f, n)
  PROVE  /\ Order(Before(l, f, n), n + 1)
         /\ Before(l, f, n)[0] = Sentinel /\ Before(l, f, n)[1] = l
         /\ \A i \in 0 .. n : Before(l, f, n)[(i + 1) + 1] = f[i + 1]
         /\ Elements(Before(l, f, n), n + 1) = Elements(f, n) \cup {l}
<1> DEFINE g == Before(l, f, n)
<1>1. g[0] = Sentinel /\ g[1] = l /\ \A i \in 0 .. n : g[(i + 1) + 1] = f[i + 1]
  BY DEF Before
<1>2. g \in Numbering(Cells, n + 1)
  BY DEF Before, Numbering, Order, Cells
<1>3. g[(n + 1) + 1] = Sentinel
  BY <1>1 DEF Order
<1>4. \A i \in 1 .. n + 1 : i = 1 \/ (i # 1 /\ i - 1 \in 1 .. n /\ g[i] = f[i - 1])
  BY DEF Before
<1>5. l # Sentinel
  BY DequeAssumption
<1> HIDE DEF g
<1>6. \A i \in 1 .. n : f[i] # l /\ f[i] # Sentinel
  BY DEF Elements, Order
<1>7. \A i \in 1 .. n + 1 : g[i] # Sentinel
  BY <1>1, <1>4, <1>5, <1>6
<1>8. ASSUME NEW i \in 1 .. n + 1, NEW j \in 1 .. n + 1, g[i] = g[j] PROVE i = j
  <2>1. CASE i = 1 \/ j = 1
    BY <2>1, <1>1, <1>4, <1>6, <1>8
  <2>2. CASE i # 1 /\ j # 1
    <3>1. i - 1 \in 1 .. n /\ j - 1 \in 1 .. n /\ f[i - 1] = f[j - 1]
      BY <2>2, <1>4, <1>8
    <3>2. i - 1 = j - 1
      BY <3>1 DEF Order
    <3> QED
      BY <3>2
  <2> QED
    BY <2>1, <2>2
<1>9. Elements(g, n + 1) = Elements(f, n) \cup {l}
  <2>1. \A i \in 1 .. n : i + 1 \in 1 .. n + 1 /\ g[i + 1] = f[i]
    <3>1. \A i \in 1 .. n : i - 1 \in 0 .. n /\ (i - 1) + 1 = i /\ i + 1 \in 1 .. n + 1
      OBVIOUS
    <3> QED
      BY <3>1, <1>1
  <2>2. 1 \in 1 .. n + 1
    OBVIOUS
  <2> QED
    BY <2>1, <2>2, <1>1, <1>4 DEF Elements
<1> QED
  BY <1>1, <1>2, <1>3, <1>7, <1>8, <1>9 DEF Order, g

LEMMA BehindOrder ==
  ASSUME NEW n \in Nat, NEW f, Order(f, n), NEW l \in Links, l \notin Elements(f, n)
  PROVE  /\ Order(Behind(l, f, n), n + 1)
         /\ \A i \in 0 .. n : Behind(l, f, n)[i] = f[i]
         /\ Behind(l, f, n)[n + 1] = l /\ Behind(l, f, n)[(n + 1) + 1] = Sentinel
         /\ Elements(Behind(l, f, n), n + 1) = Elements(f, n) \cup {l}
<1> DEFINE g == Behind(l, f, n)
<1>1. g[n + 1] = l /\ g[(n + 1) + 1] = Sentinel /\ \A i \in 0 .. n : g[i] = f[i]
  BY DEF Behind
<1>2. g \in Numbering(Cells, n + 1)
  BY DEF Behind, Numbering, Order, Cells
<1>3. g[0] = Sentinel
  BY <1>1 DEF Order
<1>4. \A i \in 1 .. n + 1 : i = n + 1 \/ (i # n + 1 /\ i \in 1 .. n /\ g[i] = f[i])
  BY <1>1
<1>5. l # Sentinel
  BY DequeAssumption
<1> HIDE DEF g
<1>6. \A i \in 1 .. n : f[i] # l /\ f[i] # Sentinel
  BY DEF Elements, Order
<1>7. \A i \in 1 .. n + 1 : g[i] # Sentinel
  BY <1>1, <1>4, <1>5, <1>6
<1>8. ASSUME NEW i \in 1 .. n + 1, NEW j \in 1 .. n + 1, g[i] = g[j] PROVE i = j
  <2>1. CASE i = n + 1 \/ j = n + 1
    BY <2>1, <1>1, <1>4, <1>6, <1>8
  <2>2. CASE i # n + 1 /\ j # n + 1
    BY <2>2, <1>4, <1>8 DEF Order
  <2> QED
    BY <2>1, <2>2
<1>9. Elements(g, n + 1) = Elements(f, n) \cup {l}
  <2>1. \A i \in 1 .. n : i \in 1 .. n + 1 /\ g[i] = f[i]
    BY <1>1
  <2>2. n + 1 \in 1 .. n + 1
    OBVIOUS
  <2> QED
    BY <2>1, <2>2, <1>1, <1>4 DEF Elements
<1> QED
  BY <1>1, <1>2, <1>3, <1>7, <1>8, <1>9 DEF Order, g

LEMMA FirstGoneOrder ==
  ASSUME NEW n \in Nat \ {0}, NEW f, Order(f, n)
  PROVE  /\ n - 1 \in Nat /\ (n - 1) + 1 = n
         /\ Order(FirstGone(f, n), n - 1)
         /\ FirstGone(f, n)[0] = Sentinel
         /\ \A i \in 1 .. n : FirstGone(f, n)[i] = f[i + 1]
         /\ f[1] \in Elements(f, n) /\ Elements(FirstGone(f, n), n - 1) = Elements(f, n) \ {f[1]}
<1> DEFINE g == FirstGone(f, n)
<1>1. n - 1 \in Nat /\ (n - 1) + 1 = n /\ 1 \in 1 .. n
  OBVIOUS
<1>2. g[0] = Sentinel /\ \A i \in 1 .. n : g[i] = f[i + 1]
  BY DEF FirstGone
<1>3. g \in Numbering(Cells, n - 1)
  BY DEF FirstGone, Numbering, Order, Cells
<1>4. g[n] = Sentinel
  BY <1>2 DEF Order
<1> HIDE DEF g
<1>5. \A i \in 1 .. n - 1 : i + 1 \in 1 .. n /\ i + 1 # 1 /\ g[i] = f[i + 1]
  BY <1>2
<1>6. \A i \in 1 .. n - 1 : g[i] # Sentinel
  BY <1>5 DEF Order
<1>7. ASSUME NEW i \in 1 .. n - 1, NEW j \in 1 .. n - 1, g[i] = g[j] PROVE i = j
  <2>1. i + 1 = j + 1
    BY <1>5, <1>7 DEF Order
  <2> QED
    BY <2>1
<1>8. Elements(g, n - 1) = Elements(f, n) \ {f[1]}
  <2>1. \A i \in 1 .. n : f[i] # f[1] => i - 1 \in 1 .. n - 1 /\ (i - 1) + 1 = i
    OBVIOUS
  <2>2. \A i \in 1 .. n : f[i] # f[1] => i - 1 \in 1 .. n - 1 /\ g[i - 1] = f[i]
    BY <2>1, <1>5
  <2>3. \A i \in 1 .. n - 1 : f[i + 1] # f[1]
    BY <1>1, <1>5 DEF Order
  <2>4. ASSUME NEW y \in Elements(g, n - 1) PROVE y \in Elements(f, n) \ {f[1]}
    BY <2>3, <1>5 DEF Elements
  <2>5. ASSUME NEW y \in Elements(f, n) \ {f[1]} PROVE y \in Elements(g, n - 1)
    BY <2>2 DEF Elements
  <2> QED
    BY <2>4, <2>5
<1>9. f[1] \in Elements(f, n)
  BY <1>1 DEF Elements
<1> QED
  BY <1>1, <1>2, <1>3, <1>4, <1>6, <1>7, <1>8, <1>9 DEF Order, g

LEMMA LastGoneOrder ==
  ASSUME NEW n \in Nat \ {0}, NEW f, Order(f, n)
  PROVE  /\ n - 1 \in Nat /\ (n - 1) + 1 = n
         /\ Order(LastGone(f, n), n - 1)
         /\ LastGone(f, n)[n] = Sentinel
         /\ \A i \in 0 .. n - 1 : LastGone(f, n)[i] = f[i]
         /\ f[n] \in Elements(f, n) /\ Elements(LastGone(f, n), n - 1) = Elements(f, n) \ {f[n]}
<1> DEFINE g == LastGone(f, n)
<1>1. n - 1 \in Nat /\ (n - 1) + 1 = n /\ n \in 1 .. n /\ 0 \in 0 .. n - 1
  OBVIOUS
<1>2. g[n] = Sentinel /\ \A i \in 0 .. n - 1 : g[i] = f[i]
  BY DEF LastGone
<1>3. g \in Numbering(Cells, n - 1)
  BY DEF LastGone, Numbering, Order, Cells
<1>4. g[0] = Sentinel
  BY <1>1, <1>2 DEF Order
<1> HIDE DEF g
<1>5. \A i \in 1 .. n - 1 : i \in 1 .. n /\ i # n /\ g[i] = f[i]
  BY <1>2
<1>6. \A i \in 1 .. n - 1 : g[i] # Sentinel
  BY <1>5 DEF Order
<1>7. ASSUME NEW i \in 1 .. n - 1, NEW j \in 1 .. n - 1, g[i] = g[j] PROVE i = j
  BY <1>5, <1>7 DEF Order
<1>8. Elements(g, n - 1) = Elements(f, n) \ {f[n]}
  <2>1. \A i \in 1 .. n : i # n => i \in 1 .. n - 1
    OBVIOUS
  <2>2. \A i \in 1 .. n : f[i] # f[n] => i \in 1 .. n - 1 /\ g[i] = f[i]
    BY <2>1, <1>5
  <2>3. \A i \in 1 .. n - 1 : f[i] # f[n]
    BY <1>1, <1>5 DEF Order
  <2>4. ASSUME NEW y \in Elements(g, n - 1) PROVE y \in Elements(f, n) \ {f[n]}
    BY <2>3, <1>5 DEF Elements
  <2>5. ASSUME NEW y \in Elements(f, n) \ {f[n]} PROVE y \in Elements(g, n - 1)
    BY <2>2 DEF Elements
  <2> QED
    BY <2>4, <2>5
<1>9. f[n] \in Elements(f, n)
  BY <1>1 DEF Elements
<1> QED
  BY <1>1, <1>2, <1>3, <1>4, <1>6, <1>7, <1>8, <1>9 DEF Order, g

(* What is put behind the others and goes again leaves them as they were,   *)
(* and the other way round.                                                 *)
LEMMA LastGoneBehind ==
  ASSUME NEW n \in Nat, NEW f, Order(f, n), NEW l
  PROVE  LastGone(Behind(l, f, n), n + 1) = f
<1>1. f = [i \in 0 .. n + 1 |-> f[i]] /\ f[n + 1] = Sentinel
  BY DEF Order, Numbering
<1>2. \A i \in 0 .. n + 1 : LastGone(Behind(l, f, n), n + 1)[i] = f[i]
  BY <1>1 DEF LastGone, Behind
<1>3. LastGone(Behind(l, f, n), n + 1) = [i \in 0 .. n + 1 |-> LastGone(Behind(l, f, n), n + 1)[i]]
  BY DEF LastGone
<1> QED
  BY <1>1, <1>2, <1>3

LEMMA BehindLastGone ==
  ASSUME NEW n \in Nat \ {0}, NEW f, Order(f, n)
  PROVE  Behind(f[n], LastGone(f, n), n - 1) = f
<1> DEFINE g == Behind(f[n], LastGone(f, n), n - 1)
<1>1. f = [i \in 0 .. n + 1 |-> f[i]] /\ f[n + 1] = Sentinel
  BY DEF Order, Numbering
<1>2. (n - 1) + 2 = n + 1 /\ (n - 1) + 1 = n
  OBVIOUS
<1>3. ASSUME NEW i \in 0 .. n + 1 PROVE g[i] = f[i]
  <2>1. CASE i <= n - 1
    BY <2>1, <1>2 DEF LastGone, Behind
  <2>2. CASE i = n
    BY <2>2, <1>2 DEF LastGone, Behind
  <2>3. CASE i = n + 1
    BY <2>3, <1>1, <1>2 DEF LastGone, Behind
  <2> QED
    BY <2>1, <2>2, <2>3
<1>4. g = [i \in 0 .. n + 1 |-> g[i]]
  BY <1>2 DEF Behind
<1> HIDE DEF g
<1>5. g = f
  BY <1>1, <1>3, <1>4
<1> QED
  BY <1>5 DEF g

-----------------------------------------------------------------------------
(* The deque: what one store does to the order *)

(* The links between two numbers. *)
LEMMA OrderCells ==
  ASSUME NEW n \in Nat, NEW f, Order(f, n), NEW i \in 0 .. n + 1
  PROVE  f[i] \in Cells /\ f[i] \in Elements(f, n) \cup {Sentinel}
<1>1. i = 0 \/ i = n + 1 \/ i \in 1 .. n
  OBVIOUS
<1> QED
  BY <1>1 DEF Order, Numbering, Elements

LEMMA OrderApart ==
  ASSUME NEW n \in Nat, NEW f, Order(f, n), NEW i \in 0 .. n + 1, NEW j \in 1 .. n, i # j
  PROVE  f[i] # f[j]
<1>1. i = 0 \/ i = n + 1 \/ i \in 1 .. n
  OBVIOUS
<1> QED
  BY <1>1 DEF Order

LEMMA StoreElsewhere ==
  ASSUME NEW x \in [Cells -> Pointers], NEW n \in Nat, NEW f, Order(f, n),
         NEW c, c \notin Elements(f, n) \cup {Sentinel}, NEW v
  PROVE  /\ Along(x, f, n) => Along([x EXCEPT ![c] = v], f, n)
         /\ Against(x, f, n) => Against([x EXCEPT ![c] = v], f, n)
<1>1. \A i \in 0 .. n : i \in 0 .. n + 1 /\ i + 1 \in 0 .. n + 1
  OBVIOUS
<1>2. \A i \in 0 .. n : /\ f[i] \in Cells /\ f[i] # c
                        /\ f[i + 1] \in Cells /\ f[i + 1] # c
  BY <1>1, OrderCells
<1> QED
  BY <1>2 DEF Along, Against

LEMMA AlongBefore ==
  ASSUME NEW x \in [Cells -> Pointers], NEW n \in Nat, NEW f, Order(f, n), Along(x, f, n),
         NEW l \in Links, l \notin Elements(f, n), x[l] = f[1]
  PROVE  Along([x EXCEPT ![Sentinel] = l], Before(l, f, n), n + 1)
<1> DEFINE g == Before(l, f, n)
           z == [x EXCEPT ![Sentinel] = l]
<1>1. g[0] = Sentinel /\ g[1] = l /\ \A i \in 0 .. n : g[(i + 1) + 1] = f[i + 1]
  BY BeforeOrder
<1>2. Sentinel \in Cells /\ l \in Cells /\ l # Sentinel
  BY DequeAssumption DEF Cells
<1>3. z[Sentinel] = l /\ \A c \in Cells : c # Sentinel => z[c] = x[c]
  BY <1>2
<1> HIDE DEF g, z
<1>4. ASSUME NEW i \in 0 .. n + 1 PROVE z[g[i]] = g[i + 1]
  <2>1. CASE i = 0
    BY <2>1, <1>1, <1>3
  <2>2. CASE i = 1
    <3>1. 0 \in 0 .. n /\ (0 + 1) + 1 = 2 /\ 0 + 1 = 1
      OBVIOUS
    <3>2. g[2] = f[1]
      BY <3>1, <1>1
    <3> QED
      BY <2>2, <3>2, <1>1, <1>2, <1>3
  <2>3. CASE i > 1
    <3>1. i - 1 \in 1 .. n /\ i - 1 \in 0 .. n /\ i - 2 \in 0 .. n /\ ((i - 2) + 1) + 1 = i
          /\ ((i - 1) + 1) + 1 = i + 1 /\ (i - 2) + 1 = i - 1 /\ (i - 1) + 1 = i /\ i - 1 \in 0 .. n + 1
      BY <2>3
    <3>2. g[i] = f[i - 1] /\ g[i + 1] = f[i]
      BY <3>1, <1>1
    <3>3. f[i - 1] # Sentinel /\ f[i - 1] \in Cells /\ x[f[i - 1]] = f[i]
      BY <3>1, OrderCells DEF Order, Along
    <3> QED
      BY <3>2, <3>3, <1>3
  <2> QED
    BY <2>1, <2>2, <2>3
<1> QED
  BY <1>4 DEF Along, g, z

LEMMA AlongBehind ==
  ASSUME NEW x \in [Cells -> Pointers], NEW n \in Nat, NEW f, Order(f, n), Along(x, f, n),
         NEW l \in Links, l \notin Elements(f, n), x[l] = Sentinel
  PROVE  Along([x EXCEPT ![f[n]] = l], Behind(l, f, n), n + 1)
<1> DEFINE g == Behind(l, f, n)
           z == [x EXCEPT ![f[n]] = l]
<1>1. (\A i \in 0 .. n : g[i] = f[i]) /\ g[n + 1] = l /\ g[(n + 1) + 1] = Sentinel
  BY BehindOrder
<1>2. n \in 0 .. n + 1 /\ l # Sentinel
  BY DequeAssumption DEF Cells
<1>3. f[n] \in Cells /\ l \in Cells /\ l # f[n]
  BY <1>2, OrderCells DEF Cells
<1>4. z[f[n]] = l /\ \A c \in Cells : c # f[n] => z[c] = x[c]
  BY <1>3
<1> HIDE DEF g, z
<1>5. ASSUME NEW i \in 0 .. n + 1 PROVE z[g[i]] = g[i + 1]
  <2>1. CASE i < n
    <3>1. i \in 0 .. n /\ i + 1 \in 0 .. n /\ n \in 1 .. n /\ i # n
      BY <2>1
    <3>2. f[i] # f[n] /\ f[i] \in Cells /\ x[f[i]] = f[i + 1]
      BY <3>1, OrderApart, OrderCells DEF Along
    <3> QED
      BY <3>1, <3>2, <1>1, <1>4
  <2>2. CASE i = n
    BY <2>2, <1>1, <1>4
  <2>3. CASE i = n + 1
    BY <2>3, <1>1, <1>3, <1>4
  <2> QED
    BY <2>1, <2>2, <2>3
<1> QED
  BY <1>5 DEF Along, g, z

LEMMA AlongFirstGone ==
  ASSUME NEW x \in [Cells -> Pointers], NEW n \in Nat \ {0}, NEW f, Order(f, n), Along(x, f, n)
  PROVE  /\ x[f[1]] = f[2]
         /\ Along([x EXCEPT ![Sentinel] = f[2]], FirstGone(f, n), n - 1)
<1> DEFINE g == FirstGone(f, n)
           z == [x EXCEPT ![Sentinel] = f[2]]
<1>1. g[0] = Sentinel /\ \A i \in 1 .. n : g[i] = f[i + 1]
  BY FirstGoneOrder
<1>2. z[Sentinel] = f[2] /\ \A c \in Cells : c # Sentinel => z[c] = x[c]
  BY DEF Cells
<1> HIDE DEF g, z
<1>3. ASSUME NEW i \in 0 .. n - 1 PROVE z[g[i]] = g[i + 1]
  <2>1. CASE i = 0
    <3>1. 1 \in 1 .. n /\ 1 + 1 = 2 /\ 0 + 1 = 1
      OBVIOUS
    <3>2. g[1] = f[2]
      BY <3>1, <1>1
    <3> QED
      BY <2>1, <3>1, <3>2, <1>1, <1>2
  <2>2. CASE i # 0
    <3>1. i \in 1 .. n /\ i + 1 \in 1 .. n /\ i + 1 \in 0 .. n /\ i + 1 \in 0 .. n + 1
      BY <2>2
    <3>2. f[i + 1] # Sentinel /\ f[i + 1] \in Cells /\ x[f[i + 1]] = f[(i + 1) + 1]
      BY <3>1, OrderCells DEF Order, Along
    <3> QED
      BY <3>1, <3>2, <1>1, <1>2
  <2> QED
    BY <2>1, <2>2
<1>4. x[f[1]] = f[2]
  <2>1. 1 \in 0 .. n /\ 1 + 1 = 2
    OBVIOUS
  <2> QED
    BY <2>1 DEF Along
<1> QED
  BY <1>3, <1>4 DEF Along, g, z

LEMMA AlongLastGone ==
  ASSUME NEW x \in [Cells -> Pointers], NEW n \in Nat \ {0}, NEW f, Order(f, n), Along(x, f, n)
  PROVE  Along([x EXCEPT ![f[n - 1]] = Sentinel], LastGone(f, n), n - 1)
<1> DEFINE g == LastGone(f, n)
           z == [x EXCEPT ![f[n - 1]] = Sentinel]
<1>1. g[n] = Sentinel /\ \A i \in 0 .. n - 1 : g[i] = f[i]
  BY LastGoneOrder
<1>2. n - 1 \in 0 .. n + 1
  OBVIOUS
<1>3. f[n - 1] \in Cells
  BY <1>2, OrderCells
<1>4. z[f[n - 1]] = Sentinel /\ \A c \in Cells : c # f[n - 1] => z[c] = x[c]
  BY <1>3
<1> HIDE DEF g, z
<1>5. ASSUME NEW i \in 0 .. n - 1 PROVE z[g[i]] = g[i + 1]
  <2>1. CASE i = n - 1
    BY <2>1, <1>1, <1>4
  <2>2. CASE i # n - 1
    <3>1. i \in 0 .. n - 1 /\ i + 1 \in 0 .. n - 1 /\ n - 1 \in 1 .. n /\ i \in 0 .. n /\ i \in 0 .. n + 1
      BY <2>2
    <3>2. f[i] # f[n - 1] /\ f[i] \in Cells /\ x[f[i]] = f[i + 1]
      BY <2>2, <3>1, OrderApart, OrderCells DEF Along
    <3> QED
      BY <3>1, <3>2, <1>1, <1>4
  <2> QED
    BY <2>1, <2>2
<1> QED
  BY <1>5 DEF Along, g, z

LEMMA AgainstBefore ==
  ASSUME NEW y \in [Cells -> Pointers], NEW n \in Nat, NEW f, Order(f, n), Against(y, f, n),
         NEW l \in Links, l \notin Elements(f, n), y[l] = Sentinel
  PROVE  Against([y EXCEPT ![f[1]] = l], Before(l, f, n), n + 1)
<1> DEFINE g == Before(l, f, n)
           z == [y EXCEPT ![f[1]] = l]
<1>1. g[0] = Sentinel /\ g[1] = l /\ \A i \in 0 .. n : g[(i + 1) + 1] = f[i + 1]
  BY BeforeOrder
<1>2. 1 \in 0 .. n + 1 /\ l # Sentinel
  BY DequeAssumption DEF Cells
<1>3. f[1] \in Cells /\ l \in Cells /\ l # f[1]
  BY <1>2, OrderCells DEF Cells
<1>4. z[f[1]] = l /\ \A c \in Cells : c # f[1] => z[c] = y[c]
  BY <1>3
<1> HIDE DEF g, z
<1>5. ASSUME NEW i \in 0 .. n + 1 PROVE z[g[i + 1]] = g[i]
  <2>1. CASE i = 0
    BY <2>1, <1>1, <1>3, <1>4
  <2>2. CASE i = 1
    <3>1. 0 \in 0 .. n /\ (0 + 1) + 1 = 2 /\ 0 + 1 = 1 /\ 1 + 1 = 2
      OBVIOUS
    <3>2. g[2] = f[1]
      BY <3>1, <1>1
    <3> QED
      BY <2>2, <3>1, <3>2, <1>1, <1>4
  <2>3. CASE i > 1
    <3>1. i - 1 \in 1 .. n /\ i - 1 \in 0 .. n /\ i - 2 \in 0 .. n /\ ((i - 2) + 1) + 1 = i
          /\ ((i - 1) + 1) + 1 = i + 1 /\ (i - 2) + 1 = i - 1 /\ (i - 1) + 1 = i
          /\ i \in 0 .. n + 1 /\ 1 \in 1 .. n /\ i # 1
      BY <2>3
    <3>2. g[i] = f[i - 1] /\ g[i + 1] = f[i]
      BY <3>1, <1>1
    <3>3. f[i] # f[1] /\ f[i] \in Cells /\ y[f[i]] = f[i - 1]
      BY <3>1, OrderCells, OrderApart DEF Against
    <3> QED
      BY <3>2, <3>3, <1>4
  <2> QED
    BY <2>1, <2>2, <2>3
<1> QED
  BY <1>5 DEF Against, g, z

LEMMA AgainstBehind ==
  ASSUME NEW y \in [Cells -> Pointers], NEW n \in Nat, NEW f, Order(f, n), Against(y, f, n),
         NEW l \in Links, l \notin Elements(f, n), y[l] = f[n]
  PROVE  Against([y EXCEPT ![Sentinel] = l], Behind(l, f, n), n + 1)
<1> DEFINE g == Behind(l, f, n)
           z == [y EXCEPT ![Sentinel] = l]
<1>1. (\A i \in 0 .. n : g[i] = f[i]) /\ g[n + 1] = l /\ g[(n + 1) + 1] = Sentinel
  BY BehindOrder
<1>2. l \in Cells /\ l # Sentinel
  BY DequeAssumption DEF Cells
<1>3. z[Sentinel] = l /\ \A c \in Cells : c # Sentinel => z[c] = y[c]
  BY DEF Cells
<1> HIDE DEF g, z
<1>4. ASSUME NEW i \in 0 .. n + 1 PROVE z[g[i + 1]] = g[i]
  <2>1. CASE i < n
    <3>1. i \in 0 .. n /\ i + 1 \in 0 .. n /\ i + 1 \in 1 .. n /\ i + 1 \in 0 .. n + 1
      BY <2>1
    <3>2. f[i + 1] # Sentinel /\ f[i + 1] \in Cells /\ y[f[i + 1]] = f[i]
      BY <3>1, OrderCells DEF Order, Against
    <3> QED
      BY <3>1, <3>2, <1>1, <1>3
  <2>2. CASE i = n
    BY <2>2, <1>1, <1>2, <1>3
  <2>3. CASE i = n + 1
    BY <2>3, <1>1, <1>3
  <2> QED
    BY <2>1, <2>2, <2>3
<1> QED
  BY <1>4 DEF Against, g, z

LEMMA AgainstFirstGone ==
  ASSUME NEW y \in [Cells -> Pointers], NEW n \in Nat \ {0}, NEW f, Order(f, n), Against(y, f, n)
  PROVE  Against([y EXCEPT ![f[2]] = Sentinel], FirstGone(f, n), n - 1)
<1> DEFINE g == FirstGone(f, n)
           z == [y EXCEPT ![f[2]] = Sentinel]
<1>1. g[0] = Sentinel /\ \A i \in 1 .. n : g[i] = f[i + 1]
  BY FirstGoneOrder
<1>2. 2 \in 0 .. n + 1
  OBVIOUS
<1>3. f[2] \in Cells
  BY <1>2, OrderCells
<1>4. z[f[2]] = Sentinel /\ \A c \in Cells : c # f[2] => z[c] = y[c]
  BY <1>3
<1> HIDE DEF g, z
<1>5. ASSUME NEW i \in 0 .. n - 1 PROVE z[g[i + 1]] = g[i]
  <2>1. CASE i = 0
    <3>1. 1 \in 1 .. n /\ 1 + 1 = 2 /\ 0 + 1 = 1
      OBVIOUS
    <3>2. g[1] = f[2]
      BY <3>1, <1>1
    <3> QED
      BY <2>1, <3>1, <3>2, <1>1, <1>4
  <2>2. CASE i # 0
    <3>1. i \in 1 .. n /\ i + 1 \in 1 .. n /\ (i + 1) + 1 \in 0 .. n + 1 /\ i + 1 \in 0 .. n
          /\ (i + 1) + 1 # 2 /\ 2 \in 1 .. n
      BY <2>2
    <3>2. f[(i + 1) + 1] # f[2] /\ f[(i + 1) + 1] \in Cells
      BY <3>1, OrderCells, OrderApart
    <3>3. y[f[(i + 1) + 1]] = f[i + 1]
      BY <3>1 DEF Against
    <3> QED
      BY <3>1, <3>2, <3>3, <1>1, <1>4
  <2> QED
    BY <2>1, <2>2
<1> QED
  BY <1>5 DEF Against, g, z

LEMMA AgainstLastGone ==
  ASSUME NEW y \in [Cells -> Pointers], NEW n \in Nat \ {0}, NEW f, Order(f, n), Against(y, f, n)
  PROVE  /\ y[f[n]] = f[n - 1]
         /\ Against([y EXCEPT ![Sentinel] = f[n - 1]], LastGone(f, n), n - 1)
<1> DEFINE g == LastGone(f, n)
           z == [y EXCEPT ![Sentinel] = f[n - 1]]
<1>1. g[n] = Sentinel /\ \A i \in 0 .. n - 1 : g[i] = f[i]
  BY LastGoneOrder
<1>2. z[Sentinel] = f[n - 1] /\ \A c \in Cells : c # Sentinel => z[c] = y[c]
  BY DEF Cells
<1> HIDE DEF g, z
<1>3. ASSUME NEW i \in 0 .. n - 1 PROVE z[g[i + 1]] = g[i]
  <2>1. CASE i = n - 1
    BY <2>1, <1>1, <1>2
  <2>2. CASE i # n - 1
    <3>1. i + 1 \in 0 .. n - 1 /\ i + 1 \in 1 .. n /\ i \in 0 .. n /\ i + 1 \in 0 .. n + 1
      BY <2>2
    <3>2. f[i + 1] # Sentinel /\ f[i + 1] \in Cells /\ y[f[i + 1]] = f[i]
      BY <3>1, OrderCells DEF Order, Against
    <3> QED
      BY <3>1, <3>2, <1>1, <1>2
  <2> QED
    BY <2>1, <2>2
<1>4. y[f[n]] = f[n - 1]
  <2>1. n - 1 \in 0 .. n /\ (n - 1) + 1 = n
    OBVIOUS
  <2> QED
    BY <2>1 DEF Against
<1> QED
  BY <1>3, <1>4 DEF Against, g, z

-----------------------------------------------------------------------------
(* The deque: its order as a sequence *)

LEMMA NumberedIs ==
  ASSUME NEW n \in Nat, NEW f, Order(f, n)
  PROVE  /\ Numbered(f, n) \in [1 .. n -> Cells] /\ Numbered(f, n) \in Seq(Cells)
         /\ Len(Numbered(f, n)) = n /\ (Numbered(f, n) = << >> <=> n = 0)
         /\ \A i \in 1 .. n : Numbered(f, n)[i] = f[i]
         /\ Range(Numbered(f, n)) = Elements(f, n)
         /\ NULL \notin Range(Numbered(f, n))
<1>1. Numbered(f, n) \in [1 .. n -> Cells] /\ \A i \in 1 .. n : Numbered(f, n)[i] = f[i]
  BY DEF Numbered, Order, Numbering
<1>2. Elements(f, n) \subseteq Cells /\ NULL \notin Cells
  BY DequeAssumption DEF Elements, Order, Numbering
<1>3. Range(Numbered(f, n)) = Elements(f, n)
  BY DEF Range, Numbered, Elements
<1>4. Numbered(f, n) \in Seq(Cells) /\ Len(Numbered(f, n)) = n /\ (Numbered(f, n) = << >> <=> n = 0)
  BY <1>1, AsSeq
<1> QED
  BY <1>1, <1>2, <1>3, <1>4

LEMMA NumberedBefore ==
  ASSUME NEW n \in Nat, NEW f, Order(f, n), NEW l \in Links, l \notin Elements(f, n)
  PROVE  /\ Numbered(Before(l, f, n), n + 1) = <<l>> \o Numbered(f, n)
         /\ Numbered(f, n) = Tail(Numbered(Before(l, f, n), n + 1))
<1> DEFINE g == Before(l, f, n)
<1>0. Order(g, n + 1)
  BY BeforeOrder
<1>1. g[1] = l /\ \A i \in 0 .. n : g[(i + 1) + 1] = f[i + 1]
  BY BeforeOrder
<1> HIDE DEF g
<1>2. \A i \in 1 .. n : i - 1 \in 0 .. n /\ (i - 1) + 1 = i /\ ((i - 1) + 1) + 1 = i + 1
                        /\ (1 + 1) + i - 1 = i + 1 /\ i + 1 \in 1 .. n + 1
  OBVIOUS
<1>3. \A i \in 1 .. n : g[i + 1] = f[i]
  BY <1>1, <1>2
<1>4. n + 1 \in Nat /\ 1 \in 1 .. n + 1 /\ n + 1 \in Nat \ {0} /\ (n + 1) - 1 = n
      /\ (n + 1) + 1 - (1 + 1) = n /\ (n + 1) + 1 - 1 = n + 1 /\ \A i \in 1 .. n + 1 : 1 + i - 1 = i
  OBVIOUS
<1>5. Rest(g, 1 + 1, n + 1) = Numbered(f, n)
  BY <1>2, <1>3, <1>4 DEF Rest, Numbered
<1>6. Rest(g, 1, n + 1) = Numbered(g, n + 1)
  BY <1>4 DEF Rest, Numbered
<1>7. g \in [0 .. (n + 1) + 1 -> Cells]
  BY <1>0 DEF Order, Numbering
<1>8. <<g[1]>> \o Rest(g, 1 + 1, n + 1) = Rest(g, 1, n + 1)
  BY <1>4, <1>7, RestMore
<1> DEFINE s == Numbered(g, n + 1)
           u == Numbered(f, n)
           m == n + 1
<1>9. s \in [1 .. m -> Cells] /\ u \in [1 .. m - 1 -> Cells] /\ \A i \in 1 .. m - 1 : u[i] = s[i + 1]
  <2>1. s \in [1 .. n + 1 -> Cells] /\ \A i \in 1 .. n + 1 : s[i] = g[i]
    BY <1>0, <1>4, NumberedIs
  <2>2. u \in [1 .. n -> Cells] /\ \A i \in 1 .. n : u[i] = f[i]
    BY NumberedIs
  <2> HIDE DEF s, u
  <2> QED
    BY <2>1, <2>2, <1>2, <1>3, <1>4
<1>10. m \in Nat \ {0}
  OBVIOUS
<1> HIDE DEF s, u, m
<1>11. u = Tail(s)
  BY <1>9, <1>10, TailIs
<1> QED
  BY <1>1, <1>5, <1>6, <1>8, <1>11 DEF g, s, u, m

LEMMA NumberedBehind ==
  ASSUME NEW n \in Nat, NEW f, Order(f, n), NEW l \in Links, l \notin Elements(f, n)
  PROVE  Numbered(Behind(l, f, n), n + 1) = Append(Numbered(f, n), l)
<1> DEFINE g == Behind(l, f, n)
           s == Numbered(f, n)
           u == Numbered(g, n + 1)
<1>1. Order(g, n + 1) /\ g[n + 1] = l /\ \A i \in 0 .. n : g[i] = f[i]
  BY BehindOrder
<1>2. n + 1 \in Nat /\ n + 1 \in 1 .. n + 1 /\ \A i \in 1 .. n : i \in 0 .. n /\ i \in 1 .. n + 1
  OBVIOUS
<1> HIDE DEF g
<1>3. u \in [1 .. n + 1 -> Cells] /\ \A i \in 1 .. n + 1 : u[i] = g[i]
  BY <1>1, <1>2, NumberedIs
<1>4. s \in [1 .. n -> Cells] /\ \A i \in 1 .. n : s[i] = f[i]
  BY NumberedIs
<1> HIDE DEF s, u
<1>5. \A i \in 1 .. n : u[i] = s[i]
  BY <1>1, <1>2, <1>3, <1>4
<1>6. u = Append(s, u[n + 1])
  BY <1>3, <1>4, <1>5, Grown
<1>7. u[n + 1] = l
  BY <1>1, <1>2, <1>3
<1> QED
  BY <1>6, <1>7 DEF g, s, u

LEMMA NumberedFirstGone ==
  ASSUME NEW n \in Nat \ {0}, NEW f, Order(f, n)
  PROVE  Numbered(FirstGone(f, n), n - 1) = Tail(Numbered(f, n))
<1> DEFINE g == FirstGone(f, n)
           s == Numbered(f, n)
           u == Numbered(g, n - 1)
<1>1. n - 1 \in Nat /\ Order(g, n - 1) /\ \A i \in 1 .. n : g[i] = f[i + 1]
  BY FirstGoneOrder
<1> HIDE DEF g
<1>2. u \in [1 .. n - 1 -> Cells] /\ \A i \in 1 .. n - 1 : u[i] = g[i]
  BY <1>1, NumberedIs
<1>3. s \in [1 .. n -> Cells] /\ \A i \in 1 .. n : s[i] = f[i]
  BY NumberedIs
<1> HIDE DEF s, u
<1>4. \A i \in 1 .. n - 1 : i \in 1 .. n /\ i + 1 \in 1 .. n
  OBVIOUS
<1>5. \A i \in 1 .. n - 1 : u[i] = s[i + 1]
  BY <1>1, <1>2, <1>3, <1>4
<1>6. u = Tail(s)
  BY <1>2, <1>3, <1>5, TailIs
<1> QED
  BY <1>6 DEF g, s, u

LEMMA NumberedLastGone ==
  ASSUME NEW n \in Nat \ {0}, NEW f, Order(f, n)
  PROVE  Numbered(LastGone(f, n), n - 1) = Front(Numbered(f, n))
<1> DEFINE g == LastGone(f, n)
           s == Numbered(f, n)
           u == Numbered(g, n - 1)
           m == n - 1
<1>1. n - 1 \in Nat /\ Order(g, n - 1) /\ \A i \in 0 .. n - 1 : g[i] = f[i]
  BY LastGoneOrder
<1> HIDE DEF g
<1>2. u \in [1 .. n - 1 -> Cells] /\ \A i \in 1 .. n - 1 : u[i] = g[i]
  BY <1>1, NumberedIs
<1>3. s \in [1 .. n -> Cells] /\ Len(s) = n /\ \A i \in 1 .. n : s[i] = f[i]
  BY NumberedIs
<1> HIDE DEF s, u
<1>4. \A i \in 1 .. n - 1 : i \in 1 .. n /\ i \in 0 .. n - 1
  OBVIOUS
<1>5. m \in 0 .. n /\ u \in [1 .. m -> Cells] /\ \A i \in 1 .. m : u[i] = s[i]
  BY <1>1, <1>2, <1>3, <1>4
<1> HIDE DEF m
<1>6. u = SubSeq(s, 1, m)
  BY <1>3, <1>5, Prefix
<1> QED
  BY <1>3, <1>6 DEF g, s, u, m, Front

-----------------------------------------------------------------------------
(* The deque: reading the chain *)

(* The walk of Chain, for m more links at most from any pointer. *)
ChainRow(x, row, m) ==
  [c \in Pointers |-> IF c = Sentinel THEN << >>
                      ELSE IF m = 0 \/ c \notin Cells THEN <<NULL>>
                      ELSE <<c>> \o row[x[c]]]

IsChainWalk(w, x, k) == w = [m \in 0 .. k |-> ChainRow(x, w[m - 1], m)]

LEMMA ChainWalkExists ==
  ASSUME NEW x, NEW k \in Nat
  PROVE  \E w : IsChainWalk(w, x, k)
<1> DEFINE Missed == {m \in Nat : ~ \E w : IsChainWalk(w, x, m)}
<1>0. ASSUME NEW a, NEW b PROVE ChainRow(x, a, 0) = ChainRow(x, b, 0)
  BY DEF ChainRow
<1>1. 0 \notin Missed
  <2> DEFINE w == [m \in 0 .. 0 |-> ChainRow(x, x, 0)]
  <2>1. w = [m \in 0 .. 0 |-> ChainRow(x, w[m - 1], m)]
    <3> HIDE DEF w
    <3>1. ASSUME NEW m \in 0 .. 0 PROVE ChainRow(x, w[m - 1], m) = ChainRow(x, x, 0)
      <4>1. m = 0
        OBVIOUS
      <4>2. ChainRow(x, w[0 - 1], 0) = ChainRow(x, x, 0)
        BY <1>0
      <4> QED
        BY <4>1, <4>2
    <3>2. w = [m \in 0 .. 0 |-> ChainRow(x, x, 0)]
      BY DEF w
    <3> QED
      BY <3>1, <3>2
  <2> HIDE DEF w
  <2>2. IsChainWalk(w, x, 0)
    BY <2>1 DEF IsChainWalk
  <2> QED
    BY <2>2
<1>2. ASSUME NEW m \in Nat, m \notin Missed PROVE m + 1 \notin Missed
  <2>1. PICK w : IsChainWalk(w, x, m)
    BY <1>2
  <2> DEFINE e == [i \in 0 .. m + 1 |-> IF i = m + 1 THEN ChainRow(x, w[m], m + 1) ELSE w[i]]
  <2>2. e = [i \in 0 .. m + 1 |-> e[i]]
    OBVIOUS
  <2>3. ASSUME NEW i \in 0 .. m + 1 PROVE e[i] = ChainRow(x, e[i - 1], i)
    <3>1. CASE i = m + 1
      <4>1. i - 1 = m /\ e[m] = w[m]
        BY <3>1
      <4> QED
        BY <3>1, <4>1
    <3>2. CASE i # m + 1
      <4>1. i \in 0 .. m
        BY <3>2
      <4>2. w[i] = ChainRow(x, w[i - 1], i)
        BY <2>1, <4>1 DEF IsChainWalk
      <4>3. i # 0 => i - 1 \in 0 .. m /\ i - 1 # m + 1 /\ i - 1 \in 0 .. m + 1
        BY <4>1
      <4>4. i # 0 => e[i - 1] = w[i - 1]
        BY <4>3
      <4>5. e[i] = w[i]
        BY <3>2
      <4> HIDE DEF e
      <4>6. CASE i = 0
        <5>1. ChainRow(x, w[0 - 1], 0) = ChainRow(x, e[0 - 1], 0)
          BY <1>0
        <5> QED
          BY <4>2, <4>5, <4>6, <5>1
      <4> QED
        BY <4>2, <4>4, <4>5, <4>6
    <3> QED
      BY <3>1, <3>2
  <2> HIDE DEF e
  <2>4. IsChainWalk(e, x, m + 1)
    BY <2>2, <2>3 DEF IsChainWalk
  <2> QED
    BY <2>4
<1> HIDE DEF Missed
<1>3. Missed = {}
  <2> SUFFICES ASSUME Missed # {} PROVE FALSE
    OBVIOUS
  <2>1. PICK y \in Missed : y \in Nat /\ \A z \in Missed : y <= z
    BY Least DEF Missed
  <2>2. y # 0
    BY <1>1
  <2>3. y - 1 \in Nat /\ ~(y <= y - 1)
    BY <2>1, <2>2
  <2>4. y - 1 \notin Missed
    BY <2>1, <2>3
  <2>5. (y - 1) + 1 = y
    BY <2>1
  <2> QED
    BY <1>2, <2>3, <2>4, <2>5
<1> QED
  BY <1>3 DEF Missed

LEMMA ChainIs ==
  ASSUME NEW x, NEW k \in Nat, Cardinality(Links) = k
  PROVE  \E w : IsChainWalk(w, x, k) /\ Chain(x) = w[k][x[Sentinel]]
<1> DEFINE from == CHOOSE from : from = [n \in 0 .. Cardinality(Links) |->
             [c \in Pointers |-> IF c = Sentinel THEN << >>
                                 ELSE IF n = 0 \/ c \notin Cells THEN <<NULL>>
                                 ELSE <<c>> \o from[n - 1][x[c]]]]
<1>1. IsChainWalk(from, x, k)
  <2>1. \E w : w = [n \in 0 .. k |->
             [c \in Pointers |-> IF c = Sentinel THEN << >>
                                 ELSE IF n = 0 \/ c \notin Cells THEN <<NULL>>
                                 ELSE <<c>> \o w[n - 1][x[c]]]]
    <3> HIDE DEF from
    <3>1. PICK w : IsChainWalk(w, x, k)
      BY ChainWalkExists
    <3> QED
      BY <3>1 DEF IsChainWalk, ChainRow
  <2>2. from = [n \in 0 .. k |->
             [c \in Pointers |-> IF c = Sentinel THEN << >>
                                 ELSE IF n = 0 \/ c \notin Cells THEN <<NULL>>
                                 ELSE <<c>> \o from[n - 1][x[c]]]]
    BY <2>1
  <2> HIDE DEF from
  <2> QED
    BY <2>2 DEF IsChainWalk, ChainRow
<1>2. Chain(x) = from[k][x[Sentinel]]
  BY DEF Chain
<1> HIDE DEF from
<1> QED
  BY <1>1, <1>2

(* The chain gives the links in the order of their numbers. *)
LEMMA ChainAlong ==
  ASSUME NEW x \in [Cells -> Pointers], NEW n \in Nat, NEW f, Order(f, n), Along(x, f, n)
  PROVE  Chain(x) = Numbered(f, n)
<1>1. PICK k \in Nat : Cardinality(Links) = k
  BY DequeAssumption, FS_CardinalityType
<1>2. n <= k
  <2>1. IsFiniteSet(Elements(f, n)) /\ Cardinality(Elements(f, n)) = n
    BY NumbersCount DEF Order
  <2>2. Elements(f, n) \subseteq Links
    BY DEF Elements, Order, Numbering, Cells
  <2>3. Cardinality(Elements(f, n)) <= Cardinality(Links)
    BY <2>2, DequeAssumption, FS_Subset
  <2> QED
    BY <2>1, <2>3, <1>1
<1>3. PICK w : IsChainWalk(w, x, k) /\ Chain(x) = w[k][x[Sentinel]]
  BY <1>1, ChainIs
<1>4. ASSUME NEW m \in 0 .. k, NEW c \in Cells
      PROVE  w[m][c] = IF c = Sentinel THEN << >>
                       ELSE IF m = 0 THEN <<NULL>> ELSE <<c>> \o w[m - 1][x[c]]
  <2>1. w[m] = ChainRow(x, w[m - 1], m)
    BY <1>3 DEF IsChainWalk
  <2> QED
    BY <2>1 DEF ChainRow, Pointers
<1> DEFINE Wrong == {m \in 0 .. k : \E j \in 1 .. n + 1 : n + 1 - j <= m /\ w[m][f[j]] # Rest(f, j, n)}
<1>5. ASSUME NEW m \in 0 .. k PROVE w[m][f[n + 1]] = Rest(f, n + 1, n)
  <2>1. f[n + 1] = Sentinel /\ Sentinel \in Cells
    BY DEF Order, Cells
  <2>2. Rest(f, n + 1, n) = << >>
    <3>1. 1 .. n + 1 - (n + 1) = {}
      OBVIOUS
    <3> QED
      BY <3>1 DEF Rest
  <2> QED
    BY <1>4, <2>1, <2>2
<1>6. 0 \notin Wrong
  <2> SUFFICES ASSUME NEW j \in 1 .. n + 1, n + 1 - j <= 0 PROVE w[0][f[j]] = Rest(f, j, n)
    OBVIOUS
  <2>1. j = n + 1
    OBVIOUS
  <2> QED
    BY <1>5, <2>1
<1>7. ASSUME NEW m \in 1 .. k, m - 1 \notin Wrong PROVE m \notin Wrong
  <2> SUFFICES ASSUME NEW j \in 1 .. n + 1, n + 1 - j <= m PROVE w[m][f[j]] = Rest(f, j, n)
    OBVIOUS
  <2>1. CASE j = n + 1
    BY <1>5, <2>1
  <2>2. CASE j # n + 1
    <3>1. j \in 1 .. n /\ j \in 0 .. n /\ j \in 0 .. n + 1 /\ j + 1 \in 1 .. n + 1
          /\ n + 1 - (j + 1) <= m - 1 /\ m - 1 \in 0 .. k /\ m # 0 /\ m \in 0 .. k
      BY <2>2
    <3>2. w[m - 1][f[j + 1]] = Rest(f, j + 1, n)
      BY <1>7, <3>1
    <3> HIDE DEF Wrong
    <3>3. f[j] # Sentinel /\ f[j] \in Cells /\ x[f[j]] = f[j + 1]
      BY <3>1, OrderCells DEF Order, Along
    <3>4. w[m][f[j]] = <<f[j]>> \o w[m - 1][x[f[j]]]
      BY <1>4, <3>1, <3>3
    <3>5. f \in [0 .. n + 1 -> Cells]
      BY DEF Order, Numbering
    <3>6. <<f[j]>> \o Rest(f, j + 1, n) = Rest(f, j, n)
      BY <3>1, <3>5, RestMore
    <3> QED
      BY <3>2, <3>3, <3>4, <3>6
  <2> QED
    BY <2>1, <2>2
<1>8. Wrong = {}
  <2> HIDE DEF Wrong
  <2> SUFFICES ASSUME Wrong # {} PROVE FALSE
    OBVIOUS
  <2>1. PICK y \in Wrong : y \in 0 .. k /\ \A z \in Wrong : y <= z
    <3>1. Wrong \subseteq Nat /\ Wrong \subseteq 0 .. k
      BY DEF Wrong
    <3>2. PICK y \in Wrong : \A z \in Wrong : y <= z
      BY <3>1, Least
    <3> QED
      BY <3>1, <3>2
  <2>2. y \in 1 .. k
    BY <1>6, <2>1
  <2>3. ~(y <= y - 1)
    BY <2>2
  <2> QED
    BY <1>7, <2>1, <2>2, <2>3
<1>9. w[k][f[1]] = Rest(f, 1, n)
  <2>1. k \in 0 .. k /\ 1 \in 1 .. n + 1 /\ n + 1 - 1 <= k
    BY <1>2
  <2> QED
    BY <1>8, <2>1
<1> HIDE DEF Wrong
<1>10. x[Sentinel] = f[1]
  <2>1. 0 \in 0 .. n /\ 0 + 1 = 1
    OBVIOUS
  <2> QED
    BY <2>1 DEF Along, Order
<1>11. Rest(f, 1, n) = Numbered(f, n)
  <2>1. n + 1 - 1 = n /\ \A i \in 1 .. n : 1 + i - 1 = i
    OBVIOUS
  <2> QED
    BY <2>1 DEF Rest, Numbered
<1> QED
  BY <1>3, <1>9, <1>10, <1>11

(* Against the numbers, it gives them in the reverse order. *)
LEMMA ChainAgainst ==
  ASSUME NEW y \in [Cells -> Pointers], NEW n \in Nat, NEW f, Order(f, n), Against(y, f, n)
  PROVE  Reverse(Chain(y)) = Numbered(f, n)
<1> DEFINE g == [i \in 0 .. n + 1 |-> f[n + 1 - i]]
<1>1. \A i \in 0 .. n + 1 : g[i] = f[n + 1 - i]
  OBVIOUS
<1>2. g \in Numbering(Cells, n)
  BY DEF Order, Numbering
<1> HIDE DEF g
<1>3. \A i \in 1 .. n : n + 1 - i \in 1 .. n /\ i \in 0 .. n + 1 /\ n + 1 - (n + 1 - i) = i
  OBVIOUS
<1>4. g[0] = Sentinel /\ g[n + 1] = Sentinel
  <2>1. 0 \in 0 .. n + 1 /\ n + 1 \in 0 .. n + 1 /\ n + 1 - 0 = n + 1 /\ n + 1 - (n + 1) = 0
    OBVIOUS
  <2> QED
    BY <1>1, <2>1 DEF Order
<1>5. \A i \in 1 .. n : g[i] # Sentinel
  BY <1>1, <1>3 DEF Order
<1>6. ASSUME NEW i \in 1 .. n, NEW j \in 1 .. n, g[i] = g[j] PROVE i = j
  <2>1. n + 1 - i = n + 1 - j
    BY <1>1, <1>3, <1>6 DEF Order
  <2> QED
    BY <2>1
<1>7. Order(g, n)
  BY <1>2, <1>4, <1>5, <1>6 DEF Order
<1>8. ASSUME NEW i \in 0 .. n PROVE y[g[i]] = g[i + 1]
  <2>1. n - i \in 0 .. n /\ (n - i) + 1 = n + 1 - i /\ n - i = n + 1 - (i + 1)
        /\ i \in 0 .. n + 1 /\ i + 1 \in 0 .. n + 1
    OBVIOUS
  <2>2. y[f[(n - i) + 1]] = f[n - i]
    BY <2>1 DEF Against
  <2> QED
    BY <1>1, <2>1, <2>2
<1>9. Along(y, g, n)
  BY <1>8 DEF Along
<1>10. Chain(y) = Numbered(g, n)
  BY <1>7, <1>9, ChainAlong
<1>11. Len(Numbered(g, n)) = n /\ \A i \in 1 .. n : Numbered(g, n)[i] = g[i]
  BY <1>7, NumberedIs
<1>12. \A i \in 1 .. n : (n - i) + 1 = n + 1 - i /\ (n - i) + 1 \in 1 .. n
  OBVIOUS
<1>13. \A i \in 1 .. n : Numbered(g, n)[(n - i) + 1] = f[i]
  BY <1>1, <1>3, <1>11, <1>12
<1> QED
  BY <1>10, <1>11, <1>13 DEF Reverse, Numbered

-----------------------------------------------------------------------------
(* The deque: pointers lead somewhere *)

LEMMA NamesApart ==
  Sentinel \in Cells /\ Sentinel \notin Links /\ Links \subseteq Cells /\ Cells \subseteq Pointers
  /\ NULL \notin Cells /\ Wild \notin Cells /\ NULL \in Pointers
BY DequeAssumption DEF Cells, Pointers

LEMMA TypedIs ==
  ASSUME DequeTypeInv
  PROVE  /\ next \in [Cells -> Pointers] /\ prev \in [Cells -> Pointers]
         /\ length \in Int /\ freed \subseteq Links /\ seen \subseteq Links /\ stable \subseteq Links
         /\ op.name \in Updates \cup Resets \cup {"idle"} /\ op.link \in Pointers
         /\ iter.mode \in {"off", "foreach", "destroy"}
         /\ left \in Remains /\ late \in 0 .. MaxLate
         /\ offset \in {"field", "zero", "none"}
BY DEF DequeTypeInv, DequeTypeOK

(* Where the function is after its k-th store. *)
OpAfter(name, k) ==
  IF k = Stores[name] THEN Idle ELSE [name |-> name, at |-> k + 1, link |-> op.link]

(* A store of a function, and one through a pointer that leads nowhere. *)
Stored(name, k) ==
  /\ op.name = name /\ op.at = k /\ fate = "ok" /\ fate' = "ok"
  /\ op' = OpAfter(name, k) /\ UNCHANGED freed

Misled(p) ==
  /\ fate = "ok" /\ p \notin Cells \ freed /\ fate' = Failure(p, freed)
  /\ UNCHANGED <<next, prev, length, offset, op, iter, seen, freed, left, late>>
  /\ stable' \subseteq stable

(* What the stores of an update leave alone. *)
Aside == UNCHANGED <<iter, seen, freed, left, late>> /\ stable' \subseteq stable

LEMMA OpMoved ==
  ASSUME DequeTypeInv, NEW name, NEW k, op.name = name,
         op' = IF k = Stores[name] THEN Idle ELSE [op EXCEPT !.at = k + 1]
  PROVE  op' = OpAfter(name, k)
<1>1. op \in [name : Updates \cup Resets \cup {"idle"}, at : 0 .. 5, link : Pointers]
  BY DEF DequeTypeInv
<1>2. [op EXCEPT !.at = k + 1] = [name |-> name, at |-> k + 1, link |-> op.link]
  BY <1>1
<1> QED
  BY <1>2 DEF OpAfter

LEMMA NextStoreIs ==
  ASSUME DequeTypeInv, NEW name, NEW k, NEW p, NEW v, Aside,
         op.name = name, op.at = k, fate = "ok",
         IF p \in Cells \ freed
           THEN next' = [next EXCEPT ![p] = v] /\ UNCHANGED <<prev, length, offset, fate>>
           ELSE fate' = Failure(p, freed) /\ UNCHANGED heap,
         op' = IF fate' # "ok" THEN op ELSE IF k = Stores[name] THEN Idle ELSE [op EXCEPT !.at = k + 1]
  PROVE  \/ Misled(p)
         \/ /\ Stored(name, k) /\ p \in Cells \ freed
            /\ next' = [next EXCEPT ![p] = v] /\ UNCHANGED <<prev, length, offset>>
<1>1. CASE p \in Cells \ freed
  <2>1. op' = OpAfter(name, k)
    BY <1>1, OpMoved
  <2> QED
    BY <1>1, <2>1 DEF Stored, Aside
<1>2. CASE p \notin Cells \ freed
  <2>1. op' = op
    BY <1>2 DEF Failure
  <2> QED
    BY <1>2, <2>1 DEF Misled, Aside, heap
<1> QED
  BY <1>1, <1>2

LEMMA PrevStoreIs ==
  ASSUME DequeTypeInv, NEW name, NEW k, NEW p, NEW v, Aside,
         op.name = name, op.at = k, fate = "ok",
         IF p \in Cells \ freed
           THEN prev' = [prev EXCEPT ![p] = v] /\ UNCHANGED <<next, length, offset, fate>>
           ELSE fate' = Failure(p, freed) /\ UNCHANGED heap,
         op' = IF fate' # "ok" THEN op ELSE IF k = Stores[name] THEN Idle ELSE [op EXCEPT !.at = k + 1]
  PROVE  \/ Misled(p)
         \/ /\ Stored(name, k) /\ p \in Cells \ freed
            /\ prev' = [prev EXCEPT ![p] = v] /\ UNCHANGED <<next, length, offset>>
<1>1. CASE p \in Cells \ freed
  <2>1. op' = OpAfter(name, k)
    BY <1>1, OpMoved
  <2> QED
    BY <1>1, <2>1 DEF Stored, Aside
<1>2. CASE p \notin Cells \ freed
  <2>1. op' = op
    BY <1>2 DEF Failure
  <2> QED
    BY <1>2, <2>1 DEF Misled, Aside, heap
<1> QED
  BY <1>1, <1>2

LEMMA CountStoreIs ==
  ASSUME DequeTypeInv, NEW name, NEW k, NEW i, Aside, op.name = name, op.at = k, fate = "ok",
         length' = i /\ UNCHANGED <<next, prev, offset, fate>>,
         op' = IF fate' # "ok" THEN op ELSE IF k = Stores[name] THEN Idle ELSE [op EXCEPT !.at = k + 1]
  PROVE  Stored(name, k) /\ length' = i /\ UNCHANGED <<next, prev, offset>>
<1>1. op' = OpAfter(name, k)
  BY OpMoved
<1> QED
  BY <1>1 DEF Stored, Aside

LEMMA OpAfterTyped ==
  ASSUME DequeTypeInv, NEW name \in Updates \cup Resets, NEW k \in 1 .. Stores[name], Stored(name, k)
  PROVE  /\ op' \in [name : Updates \cup Resets \cup {"idle"}, at : 0 .. 5, link : Pointers]
         /\ op'.name = "idle" => op' = Idle
         /\ op'.name # "idle" => op'.at \in 1 .. Stores[op'.name]
         /\ Adding' => op'.link \in Links
         /\ op' = Idle \/ (k # Stores[name] /\ op' = [name |-> name, at |-> k + 1, link |-> op.link])
         /\ Removing' => Removing
         /\ Resetting' => Resetting
<1>1. op.link \in Pointers /\ (Adding => op.link \in Links) /\ op.name = name /\ op' = OpAfter(name, k)
  BY DEF DequeTypeInv, Stored
<1>2. Stores[name] \in {3, 4, 5}
  BY DEF Updates, Resets, Stores
<1>3. CASE k = Stores[name]
  <2>1. op' = [name |-> "idle", at |-> 0, link |-> NULL] /\ op' = Idle
    BY <1>1, <1>3 DEF OpAfter, Idle
  <2>2. NULL \in Pointers
    BY NamesApart
  <2> QED
    BY <2>1, <2>2 DEF Adding, Removing, Resetting, Resets
<1>4. CASE k # Stores[name]
  <2>1. op' = [name |-> name, at |-> k + 1, link |-> op.link]
    BY <1>1, <1>4 DEF OpAfter
  <2>2. k + 1 \in 1 .. Stores[name] /\ k + 1 \in 0 .. 5
    BY <1>2, <1>4
  <2>3. name # "idle"
    BY DEF Updates, Resets
  <2>4. (Adding' <=> Adding) /\ (Removing' <=> Removing) /\ (Resetting' <=> Resetting)
    BY <1>1, <2>1 DEF Adding, Removing, Resetting
  <2> QED
    BY <1>1, <1>4, <2>1, <2>2, <2>3, <2>4
<1> QED
  BY <1>3, <1>4

(* One field of one link changes. *)
LEMMA NextLinks ==
  ASSUME DequeTypeInv, LinkInv, NEW p \in Cells, NEW v \in Cells,
         v \in Links => Linked(v) /\ prev[Sentinel] \in Cells,
         next' = [next EXCEPT ![p] = v], UNCHANGED <<prev, offset, iter>>
  PROVE  /\ LinkInv' /\ next' \in [Cells -> Pointers]
         /\ \A c \in Cells : Linked(c) => Linked(c)'
<1>1. next \in [Cells -> Pointers] /\ \A c \in Cells : next'[c] = IF c = p THEN v ELSE next[c]
  BY TypedIs
<1>2. next' \in [Cells -> Pointers]
  BY <1>1, NamesApart
<1>3. \A c \in Cells : Linked(c) => Linked(c)'
  BY <1>1 DEF Linked
<1>4. \A c \in Cells : next'[c] \in Links => Linked(next[c])'
  <2> SUFFICES ASSUME NEW c \in Cells, next'[c] \in Links PROVE Linked(next[c])'
    OBVIOUS
  <2>1. PICK d : d = next'[c]
    OBVIOUS
  <2>2. d \in Cells /\ Linked(d)
    BY <1>1, <2>1, NamesApart DEF LinkInv
  <2>3. Linked(d)'
    BY <1>3, <2>2
  <2> QED
    BY <2>1, <2>3 DEF Linked
<1>5. \A c \in Cells : prev'[c] \in Links => Linked(prev[c])'
  <2> SUFFICES ASSUME NEW c \in Cells, prev'[c] \in Links PROVE Linked(prev[c])'
    OBVIOUS
  <2>1. PICK d : d = prev'[c]
    OBVIOUS
  <2>2. d \in Cells /\ Linked(d)
    BY <2>1, NamesApart DEF LinkInv
  <2>3. Linked(d)'
    BY <1>3, <2>2
  <2> QED
    BY <2>1, <2>3 DEF Linked
<1>6. iter'.mode # "off" /\ iter'.nxt \in Links => Linked(iter.nxt)'
  <2> SUFFICES ASSUME iter'.mode # "off", iter'.nxt \in Links PROVE Linked(iter.nxt)'
    OBVIOUS
  <2>1. PICK d : d = iter'.nxt
    OBVIOUS
  <2>2. d \in Cells /\ Linked(d)
    BY <2>1, NamesApart DEF LinkInv
  <2>3. Linked(d)'
    BY <1>3, <2>2
  <2> QED
    BY <2>1, <2>3 DEF Linked
<1>7. prev'[Sentinel] \in Cells => next'[Sentinel] \in Cells
  BY <1>1, NamesApart DEF LinkInv
<1>8. prev'[Sentinel] \notin Cells => /\ Raw' /\ iter'.mode = "off"
                                     /\ \A c \in Cells : {next'[c], prev'[c]} \cap Links = {}
  BY <1>1 DEF LinkInv, Raw
<1> QED
  BY <1>2, <1>3, <1>4, <1>5, <1>6, <1>7, <1>8 DEF LinkInv

LEMMA PrevLinks ==
  ASSUME DequeTypeInv, LinkInv, NEW p \in Cells, NEW v \in Cells,
         v \in Links => Linked(v) /\ (p = Sentinel \/ prev[Sentinel] \in Cells),
         p = Sentinel => next[Sentinel] \in Cells,
         prev' = [prev EXCEPT ![p] = v], UNCHANGED <<next, offset, iter>>
  PROVE  /\ LinkInv' /\ prev' \in [Cells -> Pointers]
         /\ \A c \in Cells : Linked(c) => Linked(c)'
<1>1. prev \in [Cells -> Pointers] /\ \A c \in Cells : prev'[c] = IF c = p THEN v ELSE prev[c]
  BY TypedIs
<1>2. prev' \in [Cells -> Pointers]
  BY <1>1, NamesApart
<1>3. \A c \in Cells : Linked(c) => Linked(c)'
  BY <1>1 DEF Linked
<1>4. \A c \in Cells : prev'[c] \in Links => Linked(prev[c])'
  <2> SUFFICES ASSUME NEW c \in Cells, prev'[c] \in Links PROVE Linked(prev[c])'
    OBVIOUS
  <2>1. PICK d : d = prev'[c]
    OBVIOUS
  <2>2. d \in Cells /\ Linked(d)
    BY <1>1, <2>1, NamesApart DEF LinkInv
  <2>3. Linked(d)'
    BY <1>3, <2>2
  <2> QED
    BY <2>1, <2>3 DEF Linked
<1>5. \A c \in Cells : next'[c] \in Links => Linked(next[c])'
  <2> SUFFICES ASSUME NEW c \in Cells, next'[c] \in Links PROVE Linked(next[c])'
    OBVIOUS
  <2>1. PICK d : d = next'[c]
    OBVIOUS
  <2>2. d \in Cells /\ Linked(d)
    BY <2>1, NamesApart DEF LinkInv
  <2>3. Linked(d)'
    BY <1>3, <2>2
  <2> QED
    BY <2>1, <2>3 DEF Linked
<1>6. iter'.mode # "off" /\ iter'.nxt \in Links => Linked(iter.nxt)'
  <2> SUFFICES ASSUME iter'.mode # "off", iter'.nxt \in Links PROVE Linked(iter.nxt)'
    OBVIOUS
  <2>1. PICK d : d = iter'.nxt
    OBVIOUS
  <2>2. d \in Cells /\ Linked(d)
    BY <2>1, NamesApart DEF LinkInv
  <2>3. Linked(d)'
    BY <1>3, <2>2
  <2> QED
    BY <2>1, <2>3 DEF Linked
<1>7. prev'[Sentinel] \in Cells => next'[Sentinel] \in Cells
  BY <1>1, NamesApart DEF LinkInv
<1>8. prev'[Sentinel] \notin Cells => /\ Raw' /\ iter'.mode = "off"
                                     /\ \A c \in Cells : {next'[c], prev'[c]} \cap Links = {}
  BY <1>1, NamesApart DEF LinkInv, Raw
<1> QED
  BY <1>2, <1>3, <1>4, <1>5, <1>6, <1>7, <1>8 DEF LinkInv

(* Before the sentinel is linked, an element is given a pointer to nowhere. *)
LEMMA BareLinks ==
  ASSUME DequeTypeInv, LinkInv, prev[Sentinel] \notin Cells, NEW p \in Links, NEW v \in Pointers \ Cells,
         \/ next' = [next EXCEPT ![p] = v] /\ prev' = prev
         \/ prev' = [prev EXCEPT ![p] = v] /\ next' = next,
         UNCHANGED <<offset, iter>>
  PROVE  LinkInv' /\ next' \in [Cells -> Pointers] /\ prev' \in [Cells -> Pointers]
<1>1. next \in [Cells -> Pointers] /\ prev \in [Cells -> Pointers]
  BY TypedIs
<1>2. /\ next' \in [Cells -> Pointers] /\ prev' \in [Cells -> Pointers]
      /\ prev'[Sentinel] = prev[Sentinel]
      /\ \A c \in Cells : next'[c] \in {next[c], v} /\ prev'[c] \in {prev[c], v}
  <2>1. CASE next' = [next EXCEPT ![p] = v] /\ prev' = prev
    BY <1>1, <2>1, NamesApart
  <2>2. CASE prev' = [prev EXCEPT ![p] = v] /\ next' = next
    BY <1>1, <2>2, NamesApart
  <2> QED
    BY <2>1, <2>2
<1>3. \A c \in Cells : next'[c] \notin Links /\ prev'[c] \notin Links
  BY <1>2, NamesApart DEF LinkInv
<1>4. Raw' /\ iter'.mode = "off"
  BY DEF LinkInv, Raw
<1> QED
  BY <1>2, <1>3, <1>4 DEF LinkInv

(* The rest of what a store keeps. *)
LEMMA LinkedStore ==
  ASSUME LinkedInv, NEW name \in Updates, NEW k \in 1 .. Stores[name], Stored(name, k), Aside,
         offset' = offset, length' \in Int,
         next' \in [Cells -> Pointers], prev' \in [Cells -> Pointers],
         next'[Sentinel] = next[Sentinel] \/ next[Sentinel] \in Cells,
         LinkInv', StoreInv'
  PROVE  LinkedInv'
<1>1. DequeTypeInv /\ RawInv
  BY DEF LinkedInv
<1>2. /\ op' \in [name : Updates \cup Resets \cup {"idle"}, at : 0 .. 5, link : Pointers]
      /\ op'.name = "idle" => op' = Idle
      /\ op'.name # "idle" => op'.at \in 1 .. Stores[op'.name]
      /\ Adding' => op'.link \in Links
      /\ Removing' => Removing
      /\ Resetting' => Resetting
  BY <1>1, OpAfterTyped
<1>3. op.name = name /\ ~Resetting /\ op # Idle /\ op.name # "reset"
  BY DEF Stored, Resetting, Updates, Resets, Idle
<1>4. RawInv'
  BY <1>1, <1>2, <1>3 DEF RawInv, Raw, Aside
<1>5. /\ iter \in [mode : {"off", "foreach", "destroy"}, cur : Pointers, nxt : Pointers]
      /\ iter.mode # "destroy"
      /\ iter.mode # "off" => iter.cur \in Links /\ iter.nxt \in Cells
      /\ left = "whole" => late = 0
  BY <1>1, <1>3 DEF DequeTypeInv
<1>6. Raw' \/ {next'[Sentinel], prev'[Sentinel]} \subseteq Cells
  BY DEF LinkInv
<1>7. /\ freed \subseteq Links /\ seen \subseteq Links /\ stable \subseteq Links
      /\ left \in Remains /\ late \in 0 .. MaxLate /\ offset \in {"field", "zero", "none"}
  BY <1>1, TypedIs
<1>8. fate' = "ok" /\ UNCHANGED <<iter, seen, freed, left, late, offset>> /\ stable' \subseteq stable
  BY DEF Stored, Aside
<1>9. DequeTypeOK'
  <2>1. op'.name \in Updates \cup Resets \cup {"idle"} /\ op'.at \in 0 .. 5 /\ op'.link \in Pointers
    BY <1>2
  <2>2. iter.mode \in {"off", "foreach", "destroy"} /\ iter.cur \in Pointers /\ iter.nxt \in Pointers
    BY <1>5
  <2> QED
    BY <1>6, <1>7, <1>8, <2>1, <2>2 DEF DequeTypeOK
<1>10. ~Resetting'
  BY <1>2, <1>3
<1>11. DequeTypeInv'
  BY <1>2, <1>5, <1>8, <1>9, <1>10 DEF DequeTypeInv
<1> QED
  BY <1>4, <1>11 DEF LinkedInv

(* A step that leaves the heap as it is. *)
LEMMA HeapLinked ==
  ASSUME LinkedInv, UNCHANGED <<next, prev, length, offset>>,
         op' \in [name : Updates \cup Resets \cup {"idle"}, at : 0 .. 5, link : Pointers],
         op'.name = "idle" => op' = Idle,
         op'.name # "idle" => op'.at \in 1 .. Stores[op'.name],
         Adding' => op'.link \in Links,
         iter' \in [mode : {"off", "foreach", "destroy"}, cur : Pointers, nxt : Pointers],
         iter'.mode = "destroy" => op' = Idle \/ op'.name = "reset",
         iter'.mode # "off" => /\ iter'.cur \in Links /\ iter'.nxt \in Cells /\ prev[Sentinel] \in Cells
                               /\ iter'.nxt \in Links => Linked(iter'.nxt),
         Resetting' /\ iter'.mode = "foreach" => ~Careful,
         left' \in Remains, late' \in 0 .. MaxLate, left' = "whole" => late' = 0,
         fate' \in {"ok", "dangling"} \/ (Raw /\ fate' \in {"wild", "aborted"}),
         freed' \subseteq Links, seen' \subseteq Links, stable' \subseteq Links,
         StoreInv', RawInv'
  PROVE  LinkedInv'
<1>1. DequeTypeInv /\ LinkInv /\ (Raw' <=> Raw)
  BY DEF LinkedInv, Raw
<1>2. LinkInv'
  <2>1. \A c \in Cells : Linked(c) => Linked(c)'
    BY DEF Linked
  <2>2. \A c \in Cells : (next'[c] \in Links => Linked(next[c])') /\ (prev'[c] \in Links => Linked(prev[c])')
    BY <1>1 DEF LinkInv, Linked
  <2>3. iter'.mode # "off" /\ iter'.nxt \in Links => Linked(iter.nxt)'
    BY DEF Linked
  <2> QED
    BY <1>1, <2>2, <2>3 DEF LinkInv
<1>3. DequeTypeOK'
  <2>1. op'.name \in Updates \cup Resets \cup {"idle"} /\ op'.at \in 0 .. 5 /\ op'.link \in Pointers
    OBVIOUS
  <2>2. iter'.mode \in {"off", "foreach", "destroy"} /\ iter'.cur \in Pointers /\ iter'.nxt \in Pointers
    OBVIOUS
  <2>3. fate' \in {"ok", "aborted", "wild", "dangling"}
    OBVIOUS
  <2> QED
    BY <1>1, <2>1, <2>2, <2>3 DEF DequeTypeInv, DequeTypeOK
<1>4. fate' \in {"ok", "dangling"} \/ Raw'
  BY <1>1
<1>5. DequeTypeInv'
  BY <1>3, <1>4 DEF DequeTypeInv, Careful
<1> QED
  BY <1>2, <1>5 DEF LinkedInv

(* It may end a function, and leave a loop where it is or end it. *)
LEMMA StayLinked ==
  ASSUME LinkedInv, UNCHANGED <<next, prev, length, offset>>, op' \in {op, Idle},
         iter' \in {iter, NoLoop},
         left' \in Remains, late' \in 0 .. MaxLate, left' = "whole" => late' = 0 /\ left = "whole" /\ op' = op,
         fate' \in {fate, "ok", "dangling"} \/ (Raw /\ fate' \in {"wild", "aborted"}),
         freed' \subseteq Links, seen' \subseteq Links, stable' \subseteq Links
  PROVE  LinkedInv'
<1>1. DequeTypeInv /\ LinkInv /\ StoreInv /\ RawInv
  BY DEF LinkedInv
<1>2. /\ op \in [name : Updates \cup Resets \cup {"idle"}, at : 0 .. 5, link : Pointers]
      /\ op.name = "idle" => op = Idle
      /\ op.name # "idle" => op.at \in 1 .. Stores[op.name]
      /\ Adding => op.link \in Links
      /\ iter \in [mode : {"off", "foreach", "destroy"}, cur : Pointers, nxt : Pointers]
      /\ iter.mode = "destroy" => op = Idle \/ op.name = "reset"
      /\ iter.mode # "off" => iter.cur \in Links /\ iter.nxt \in Cells
      /\ Resetting /\ iter.mode = "foreach" => ~Careful
      /\ fate \in {"ok", "dangling"} \/ (Raw /\ fate \in {"wild", "aborted"})
  BY <1>1 DEF DequeTypeInv, DequeTypeOK
<1>3. iter.mode # "off" => prev[Sentinel] \in Cells /\ (iter.nxt \in Links => Linked(iter.nxt))
  BY <1>1 DEF LinkInv
<1>4. /\ Idle \in [name : Updates \cup Resets \cup {"idle"}, at : 0 .. 5, link : Pointers]
      /\ Idle.name = "idle" /\ Idle.at = 0
      /\ NoLoop \in [mode : {"off", "foreach", "destroy"}, cur : Pointers, nxt : Pointers]
      /\ NoLoop.mode = "off"
  BY NamesApart DEF Idle, NoLoop
<1>5. /\ op'.name = "idle" \/ op' = op
      /\ iter'.mode = "off" \/ iter' = iter
  BY <1>4
<1>6. StoreInv'
  <2>1. CASE op'.name = "idle"
    BY <2>1 DEF StoreInv, Resetting, Resets
  <2>2. CASE op' = op
    BY <1>1, <2>2 DEF StoreInv, Resetting, Linked
  <2> QED
    BY <1>5, <2>1, <2>2
<1>7. RawInv'
  BY <1>1 DEF RawInv, Raw, Resetting, Removing
<1>8. /\ op' \in [name : Updates \cup Resets \cup {"idle"}, at : 0 .. 5, link : Pointers]
      /\ op'.name = "idle" => op' = Idle
      /\ op'.name # "idle" => op'.at \in 1 .. Stores[op'.name]
      /\ Adding' => op'.link \in Links
  BY <1>2, <1>4, <1>5 DEF Adding
<1>9. /\ iter' \in [mode : {"off", "foreach", "destroy"}, cur : Pointers, nxt : Pointers]
      /\ iter'.mode # "off" => /\ iter'.cur \in Links /\ iter'.nxt \in Cells /\ prev[Sentinel] \in Cells
                               /\ iter'.nxt \in Links => Linked(iter'.nxt)
  <2>1. CASE iter' = NoLoop
    BY <1>4, <2>1
  <2>2. CASE iter' = iter
    BY <1>2, <1>3, <2>2
  <2> QED
    BY <2>1, <2>2
<1>10. iter'.mode = "destroy" => op' = Idle \/ op'.name = "reset"
  BY <1>2, <1>5
<1>11. Resetting' /\ iter'.mode = "foreach" => ~Careful
  BY <1>2, <1>4, <1>5 DEF Resetting, Resets
<1>12. fate' \in {"ok", "dangling"} \/ (Raw /\ fate' \in {"wild", "aborted"})
  BY <1>2
<1> QED
  BY <1>6, <1>7, <1>8, <1>9, <1>10, <1>11, <1>12, HeapLinked

LEMMA FailedLinked ==
  ASSUME LinkedInv, NEW p, Misled(p), p \in Cells \/ Raw
  PROVE  LinkedInv'
<1>1. DequeTypeInv
  BY DEF LinkedInv
<1>2. fate' = "dangling" \/ (Raw /\ fate' = "wild")
  BY DEF Misled, Failure
<1>3. /\ freed \subseteq Links /\ seen \subseteq Links /\ stable \subseteq Links
      /\ left \in Remains /\ late \in 0 .. MaxLate /\ (left = "whole" => late = 0)
  BY <1>1, TypedIs DEF DequeTypeInv
<1> QED
  BY <1>2, <1>3, StayLinked DEF Misled

LEMMA AddFrontLinked ==
  ASSUME LinkedInv, AddingFront
  PROVE  LinkedInv'
<1>0. PICK l, h : l = op.link /\ h = next[Sentinel]
  OBVIOUS
<1>1. DequeTypeInv /\ LinkInv /\ StoreInv
  BY DEF LinkedInv
<1>2. op.name = "addfront" /\ fate = "ok" /\ op.at \in 1 .. 5
  BY DEF AddingFront, NthStore
<1>3. /\ next \in [Cells -> Pointers] /\ prev \in [Cells -> Pointers] /\ length \in Int
      /\ l \in Links /\ l \in Cells /\ l # Sentinel /\ h \in Pointers /\ prev[Sentinel] \in Pointers
  BY <1>0, <1>1, <1>2, TypedIs, NamesApart DEF DequeTypeInv, Adding
<1>4. "addfront" \in Updates /\ Stores["addfront"] = 5
  BY DEF Updates, Stores
<1>5. /\ h \in Links => Linked(h) /\ prev[Sentinel] \in Cells
      /\ h \notin Cells => Raw /\ prev[Sentinel] \notin Cells
      /\ prev[Sentinel] \in Cells => h \in Cells
  BY <1>0, <1>1, NamesApart DEF LinkInv
<1>6. Aside
  <2>1. UNCHANGED <<iter, seen, stable, left, late>> /\ freed' = freed
    BY DEF AddingFront, loop, Timely, NthStore
  <2> QED
    BY <2>1 DEF Aside
<1>7. ASSUME NEW k \in 1 .. 4, Stored("addfront", k)
      PROVE  op' = [name |-> "addfront", at |-> k + 1, link |-> l] /\ op.at = k
  BY <1>0, <1>1, <1>4, <1>7 DEF Stored, OpAfter
<1>8. CASE NthStore("addfront", 1, SetNext(op.link, next[Sentinel]))
  <2>1. \/ Misled(l)
        \/ /\ Stored("addfront", 1) /\ l \in Cells \ freed
           /\ next' = [next EXCEPT ![l] = h] /\ UNCHANGED <<prev, length, offset>>
    BY <1>0, <1>1, <1>6, <1>8, NextStoreIs DEF NthStore, SetNext, Through
  <2>2. ASSUME Stored("addfront", 1), next' = [next EXCEPT ![l] = h], UNCHANGED <<prev, length, offset>>
        PROVE  LinkedInv'
    <3>1. LinkInv' /\ next' \in [Cells -> Pointers]
      <4>1. CASE h \in Cells
        BY <1>1, <1>3, <1>5, <1>6, <2>2, <4>1, NextLinks DEF Aside
      <4>2. CASE h \notin Cells
        BY <1>1, <1>3, <1>5, <1>6, <2>2, <4>2, BareLinks DEF Aside
      <4> QED
        BY <4>1, <4>2
    <3>2. next'[l] = h /\ next'[Sentinel] = h /\ next'[Sentinel] = next[Sentinel]
      BY <1>0, <1>3, <2>2, NamesApart
    <3>3. op' = [name |-> "addfront", at |-> 2, link |-> l]
      BY <1>7, <2>2
    <3>4. StoreInv'
      BY <3>2, <3>3 DEF StoreInv, Resetting, Resets
    <3> QED
      BY <1>3, <1>4, <1>6, <2>2, <3>1, <3>2, <3>4, LinkedStore
  <2> QED
    BY <1>3, <2>1, <2>2, FailedLinked
<1>9. CASE NthStore("addfront", 2, SetPrev(op.link, Sentinel))
  <2>1. \/ Misled(l)
        \/ /\ Stored("addfront", 2) /\ l \in Cells \ freed
           /\ prev' = [prev EXCEPT ![l] = Sentinel] /\ UNCHANGED <<next, length, offset>>
    BY <1>0, <1>1, <1>6, <1>9, PrevStoreIs DEF NthStore, SetPrev, Through
  <2>2. ASSUME Stored("addfront", 2), prev' = [prev EXCEPT ![l] = Sentinel], UNCHANGED <<next, length, offset>>
        PROVE  LinkedInv'
    <3>1. LinkInv' /\ prev' \in [Cells -> Pointers]
      BY <1>1, <1>3, <1>6, <2>2, NamesApart, PrevLinks DEF Aside
    <3>2. prev'[l] = Sentinel /\ next[l] = next[Sentinel]
      BY <1>0, <1>1, <1>2, <1>3, <1>7, <2>2 DEF StoreInv
    <3>3. op' = [name |-> "addfront", at |-> 3, link |-> l]
      BY <1>7, <2>2
    <3>4. StoreInv'
      BY <2>2, <3>2, <3>3 DEF StoreInv, Resetting, Resets
    <3> QED
      BY <1>3, <1>4, <1>6, <2>2, <3>1, <3>4, LinkedStore
  <2> QED
    BY <1>3, <2>1, <2>2, FailedLinked
<1>10. CASE NthStore("addfront", 3, SetPrev(next[Sentinel], op.link))
  <2>1. \/ Misled(h)
        \/ /\ Stored("addfront", 3) /\ h \in Cells \ freed
           /\ prev' = [prev EXCEPT ![h] = l] /\ UNCHANGED <<next, length, offset>>
    BY <1>0, <1>1, <1>6, <1>10, PrevStoreIs DEF NthStore, SetPrev, Through
  <2>2. ASSUME Stored("addfront", 3), h \in Cells, prev' = [prev EXCEPT ![h] = l],
               UNCHANGED <<next, length, offset>>
        PROVE  LinkedInv'
    <3>0. next[l] = h /\ prev[l] = Sentinel
      BY <1>0, <1>1, <1>2, <1>7, <2>2 DEF StoreInv
    <3>1. Linked(l)
      BY <2>2, <3>0, NamesApart DEF Linked
    <3>2. h = Sentinel \/ prev[Sentinel] \in Cells
      BY <1>5, <2>2 DEF Cells
    <3>3. LinkInv' /\ prev' \in [Cells -> Pointers] /\ Linked(l)'
      BY <1>0, <1>1, <1>3, <1>6, <2>2, <3>1, <3>2, PrevLinks DEF Aside
    <3>4. prev'[Sentinel] \in Cells
      BY <1>3, <2>2, <3>2, NamesApart
    <3>5. op' = [name |-> "addfront", at |-> 4, link |-> l]
      BY <1>7, <2>2
    <3>6. op'.link = l /\ op'.at = 4 /\ op'.name = "addfront"
      BY <3>5
    <3>7. StoreInv'
      BY <3>3, <3>4, <3>6 DEF StoreInv, Resetting, Resets, Linked
    <3> QED
      BY <1>3, <1>4, <1>6, <2>2, <3>3, <3>7, LinkedStore
  <2> QED
    BY <1>5, <2>1, <2>2, FailedLinked
<1>11. CASE NthStore("addfront", 4, SetNext(Sentinel, op.link))
  <2>1. \/ Misled(Sentinel)
        \/ /\ Stored("addfront", 4) /\ Sentinel \in Cells \ freed
           /\ next' = [next EXCEPT ![Sentinel] = l] /\ UNCHANGED <<prev, length, offset>>
    BY <1>0, <1>1, <1>6, <1>11, NextStoreIs DEF NthStore, SetNext, Through
  <2>2. ASSUME Stored("addfront", 4), next' = [next EXCEPT ![Sentinel] = l], UNCHANGED <<prev, length, offset>>
        PROVE  LinkedInv'
    <3>1. Linked(l) /\ prev[Sentinel] \in Cells
      BY <1>0, <1>1, <1>2, <1>7, <2>2 DEF StoreInv, Linked
    <3>2. LinkInv' /\ next' \in [Cells -> Pointers]
      BY <1>1, <1>3, <1>6, <2>2, <3>1, NamesApart, NextLinks DEF Aside
    <3>3. op' = [name |-> "addfront", at |-> 5, link |-> l]
      BY <1>7, <2>2
    <3>4. StoreInv'
      BY <3>3 DEF StoreInv, Resetting, Resets
    <3> QED
      BY <1>0, <1>3, <1>4, <1>5, <1>6, <2>2, <3>1, <3>2, <3>4, LinkedStore
  <2> QED
    BY <2>1, <2>2, NamesApart, FailedLinked
<1>12. CASE NthStore("addfront", 5, SetLength(length + 1))
  <2>1. Stored("addfront", 5) /\ length' = length + 1 /\ UNCHANGED <<next, prev, offset>>
    BY <1>1, <1>6, <1>12, CountStoreIs DEF NthStore, SetLength
  <2>2. LinkInv'
    <3>1. UNCHANGED <<next, prev, offset, iter>>
      BY <1>6, <2>1 DEF Aside
    <3> QED
      BY <1>1, <3>1 DEF LinkInv, Linked, Raw
  <2>3. op' = Idle
    BY <1>4, <2>1 DEF Stored, OpAfter
  <2>4. StoreInv'
    BY <2>3 DEF StoreInv, Idle, Resetting, Resets
  <2> QED
    BY <1>3, <1>4, <1>6, <2>1, <2>2, <2>4, LinkedStore
<1> QED
  BY <1>8, <1>9, <1>10, <1>11, <1>12 DEF AddingFront

LEMMA AddBackLinked ==
  ASSUME LinkedInv, AddingBack
  PROVE  LinkedInv'
<1>0. PICK l, h : l = op.link /\ h = prev[Sentinel]
  OBVIOUS
<1>1. DequeTypeInv /\ LinkInv /\ StoreInv
  BY DEF LinkedInv
<1>2. op.name = "addback" /\ fate = "ok" /\ op.at \in 1 .. 5
  BY DEF AddingBack, NthStore
<1>3. /\ next \in [Cells -> Pointers] /\ prev \in [Cells -> Pointers] /\ length \in Int
      /\ l \in Links /\ l \in Cells /\ l # Sentinel /\ h \in Pointers /\ next[Sentinel] \in Pointers
  BY <1>0, <1>1, <1>2, TypedIs, NamesApart DEF DequeTypeInv, Adding
<1>4. "addback" \in Updates /\ Stores["addback"] = 5
  BY DEF Updates, Stores
<1>5. /\ h \in Links => Linked(h)
      /\ h \notin Cells => Raw
      /\ h \in Cells => next[Sentinel] \in Cells
  BY <1>0, <1>1, NamesApart DEF LinkInv
<1>6. Aside
  <2>1. UNCHANGED <<iter, seen, stable, left, late>> /\ freed' = freed
    BY DEF AddingBack, loop, Timely, NthStore
  <2> QED
    BY <2>1 DEF Aside
<1>7. ASSUME NEW k \in 1 .. 4, Stored("addback", k)
      PROVE  op' = [name |-> "addback", at |-> k + 1, link |-> l] /\ op.at = k
  BY <1>0, <1>1, <1>4, <1>7 DEF Stored, OpAfter
<1>8. CASE NthStore("addback", 1, SetNext(op.link, Sentinel))
  <2>1. \/ Misled(l)
        \/ /\ Stored("addback", 1) /\ l \in Cells \ freed
           /\ next' = [next EXCEPT ![l] = Sentinel] /\ UNCHANGED <<prev, length, offset>>
    BY <1>0, <1>1, <1>6, <1>8, NextStoreIs DEF NthStore, SetNext, Through
  <2>2. ASSUME Stored("addback", 1), next' = [next EXCEPT ![l] = Sentinel], UNCHANGED <<prev, length, offset>>
        PROVE  LinkedInv'
    <3>1. LinkInv' /\ next' \in [Cells -> Pointers]
      BY <1>1, <1>3, <1>6, <2>2, NamesApart, NextLinks DEF Aside
    <3>2. next'[l] = Sentinel /\ next'[Sentinel] = next[Sentinel]
      BY <1>3, <2>2, NamesApart
    <3>3. op' = [name |-> "addback", at |-> 2, link |-> l]
      BY <1>7, <2>2
    <3>4. StoreInv'
      BY <3>2, <3>3 DEF StoreInv, Resetting, Resets
    <3> QED
      BY <1>3, <1>4, <1>6, <2>2, <3>1, <3>2, <3>4, LinkedStore
  <2> QED
    BY <1>3, <2>1, <2>2, FailedLinked
<1>9. CASE NthStore("addback", 2, SetPrev(op.link, prev[Sentinel]))
  <2>1. \/ Misled(l)
        \/ /\ Stored("addback", 2) /\ l \in Cells \ freed
           /\ prev' = [prev EXCEPT ![l] = h] /\ UNCHANGED <<next, length, offset>>
    BY <1>0, <1>1, <1>6, <1>9, PrevStoreIs DEF NthStore, SetPrev, Through
  <2>2. ASSUME Stored("addback", 2), prev' = [prev EXCEPT ![l] = h], UNCHANGED <<next, length, offset>>
        PROVE  LinkedInv'
    <3>1. LinkInv' /\ prev' \in [Cells -> Pointers]
      <4>1. CASE h \in Cells
        BY <1>0, <1>1, <1>3, <1>5, <1>6, <2>2, <4>1, PrevLinks DEF Aside
      <4>2. CASE h \notin Cells
        BY <1>0, <1>1, <1>3, <1>6, <2>2, <4>2, BareLinks DEF Aside
      <4> QED
        BY <4>1, <4>2
    <3>2. prev'[l] = h /\ prev'[Sentinel] = h /\ next[l] = Sentinel
      BY <1>0, <1>1, <1>2, <1>3, <1>7, <2>2, NamesApart DEF StoreInv
    <3>3. op' = [name |-> "addback", at |-> 3, link |-> l]
      BY <1>7, <2>2
    <3>4. StoreInv'
      BY <2>2, <3>2, <3>3 DEF StoreInv, Resetting, Resets
    <3> QED
      BY <1>3, <1>4, <1>6, <2>2, <3>1, <3>4, LinkedStore
  <2> QED
    BY <1>3, <2>1, <2>2, FailedLinked
<1>10. CASE NthStore("addback", 3, SetNext(prev[Sentinel], op.link))
  <2>1. \/ Misled(h)
        \/ /\ Stored("addback", 3) /\ h \in Cells \ freed
           /\ next' = [next EXCEPT ![h] = l] /\ UNCHANGED <<prev, length, offset>>
    BY <1>0, <1>1, <1>6, <1>10, NextStoreIs DEF NthStore, SetNext, Through
  <2>2. ASSUME Stored("addback", 3), h \in Cells, next' = [next EXCEPT ![h] = l],
               UNCHANGED <<prev, length, offset>>
        PROVE  LinkedInv'
    <3>0. next[l] = Sentinel /\ prev[l] = h
      BY <1>0, <1>1, <1>2, <1>7, <2>2 DEF StoreInv
    <3>1. Linked(l)
      BY <2>2, <3>0, NamesApart DEF Linked
    <3>3. LinkInv' /\ next' \in [Cells -> Pointers] /\ Linked(l)'
      BY <1>0, <1>1, <1>3, <1>6, <2>2, <3>1, NextLinks DEF Aside
    <3>4. prev'[Sentinel] \in Cells
      BY <1>0, <2>2
    <3>5. op' = [name |-> "addback", at |-> 4, link |-> l]
      BY <1>7, <2>2
    <3>6. op'.link = l /\ op'.at = 4 /\ op'.name = "addback"
      BY <3>5
    <3>7. StoreInv'
      BY <3>3, <3>4, <3>6 DEF StoreInv, Resetting, Resets, Linked
    <3> QED
      BY <1>3, <1>4, <1>5, <1>6, <2>2, <3>3, <3>7, LinkedStore
  <2> QED
    BY <1>5, <2>1, <2>2, FailedLinked
<1>11. CASE NthStore("addback", 4, SetPrev(Sentinel, op.link))
  <2>1. \/ Misled(Sentinel)
        \/ /\ Stored("addback", 4) /\ Sentinel \in Cells \ freed
           /\ prev' = [prev EXCEPT ![Sentinel] = l] /\ UNCHANGED <<next, length, offset>>
    BY <1>0, <1>1, <1>6, <1>11, PrevStoreIs DEF NthStore, SetPrev, Through
  <2>2. ASSUME Stored("addback", 4), prev' = [prev EXCEPT ![Sentinel] = l], UNCHANGED <<next, length, offset>>
        PROVE  LinkedInv'
    <3>1. Linked(l) /\ h \in Cells
      BY <1>0, <1>1, <1>2, <1>7, <2>2 DEF StoreInv, Linked
    <3>2. LinkInv' /\ prev' \in [Cells -> Pointers]
      BY <1>1, <1>3, <1>5, <1>6, <2>2, <3>1, NamesApart, PrevLinks DEF Aside
    <3>3. op' = [name |-> "addback", at |-> 5, link |-> l]
      BY <1>7, <2>2
    <3>4. StoreInv'
      BY <3>3 DEF StoreInv, Resetting, Resets
    <3> QED
      BY <1>3, <1>4, <1>6, <2>2, <3>2, <3>4, LinkedStore
  <2> QED
    BY <2>1, <2>2, NamesApart, FailedLinked
<1>12. CASE NthStore("addback", 5, SetLength(length + 1))
  <2>1. Stored("addback", 5) /\ length' = length + 1 /\ UNCHANGED <<next, prev, offset>>
    BY <1>1, <1>6, <1>12, CountStoreIs DEF NthStore, SetLength
  <2>2. LinkInv'
    <3>1. UNCHANGED <<next, prev, offset, iter>>
      BY <1>6, <2>1 DEF Aside
    <3> QED
      BY <1>1, <3>1 DEF LinkInv, Linked, Raw
  <2>3. op' = Idle
    BY <1>4, <2>1 DEF Stored, OpAfter
  <2>4. StoreInv'
    BY <2>3 DEF StoreInv, Idle, Resetting, Resets
  <2> QED
    BY <1>3, <1>4, <1>6, <2>1, <2>2, <2>4, LinkedStore
<1> QED
  BY <1>8, <1>9, <1>10, <1>11, <1>12 DEF AddingBack

LEMMA DeleteFrontLinked ==
  ASSUME LinkedInv, DeletingFront
  PROVE  LinkedInv'
<1>0. PICK l, h : l = op.link /\ h = next[op.link]
  OBVIOUS
<1>1. DequeTypeInv /\ LinkInv /\ StoreInv
  BY DEF LinkedInv
<1>2. op.name = "delfront" /\ fate = "ok" /\ op.at \in 1 .. 3
  BY DEF DeletingFront, NthStore, Through
<1>3. next \in [Cells -> Pointers] /\ prev \in [Cells -> Pointers] /\ length \in Int
  BY <1>1, TypedIs
<1>4. "delfront" \in Updates /\ Stores["delfront"] = 3
  BY DEF Updates, Stores
<1>5. Aside
  <2>1. UNCHANGED <<iter, seen, left, late>> /\ freed' = freed /\ stable' \subseteq stable
    BY DEF DeletingFront, Timely, NthStore
  <2> QED
    BY <2>1 DEF Aside
<1>6. ASSUME NEW k \in 1 .. 2, Stored("delfront", k)
      PROVE  op' = [name |-> "delfront", at |-> k + 1, link |-> l] /\ op.at = k
  BY <1>0, <1>1, <1>4, <1>6 DEF Stored, OpAfter
<1>7. CASE NthStore("delfront", 1,
             Through(op.link, IF next[op.link] = NULL THEN UNCHANGED <<heap, fate>>
                              ELSE SetPrev(next[op.link], Sentinel)))
  <2>0. op.name = "delfront" /\ op.at = 1 /\ l = next[Sentinel]
    BY <1>0, <1>1, <1>7 DEF NthStore, StoreInv
  <2>1. CASE l \notin Cells \ freed
    <3>1. fate' = Failure(l, freed) /\ UNCHANGED heap
      BY <1>0, <1>7, <2>1 DEF NthStore, Through
    <3>2. op' = op
      BY <1>7, <3>1 DEF NthStore, Failure
    <3>3. Misled(l)
      BY <1>2, <1>5, <2>1, <3>1, <3>2 DEF Misled, Aside, heap
    <3>4. l \in Cells \/ Raw
      BY <1>1, <2>0 DEF LinkInv
    <3> QED
      BY <3>3, <3>4, FailedLinked
  <2>2. CASE l \in Cells \ freed
    <3>1. /\ h \in Cells /\ h # NULL
          /\ prev[Sentinel] \in Cells \/ h = Sentinel
          /\ h \in Links => Linked(h)
      <4>1. CASE l = Sentinel
        BY <1>0, <1>1, <2>0, <4>1, NamesApart
      <4>2. CASE l \in Links
        BY <1>0, <1>1, <2>0, <4>2, NamesApart DEF LinkInv, Linked
      <4> QED
        BY <2>2, <4>1, <4>2 DEF Cells
    <3>2. \/ Misled(h)
          \/ /\ Stored("delfront", 1) /\ h \in Cells \ freed
             /\ prev' = [prev EXCEPT ![h] = Sentinel] /\ UNCHANGED <<next, length, offset>>
      BY <1>0, <1>1, <1>5, <1>7, <2>2, <3>1, PrevStoreIs DEF NthStore, Through, SetPrev
    <3>3. ASSUME Stored("delfront", 1), prev' = [prev EXCEPT ![h] = Sentinel], UNCHANGED <<next, length, offset>>
          PROVE  LinkedInv'
      <4>1. next[Sentinel] \in Cells
        BY <2>0, <2>2
      <4>2. LinkInv' /\ prev' \in [Cells -> Pointers]
        BY <1>1, <1>5, <3>1, <3>3, <4>1, NamesApart, PrevLinks DEF Aside
      <4>3. prev'[Sentinel] \in Cells
        BY <1>3, <3>1, <3>3, NamesApart
      <4>4. next'[l] \in Cells /\ l \in Cells
        BY <1>0, <2>2, <3>1, <3>3
      <4>5. op' = [name |-> "delfront", at |-> 2, link |-> l]
        BY <1>6, <3>3
      <4>6. StoreInv'
        BY <4>3, <4>4, <4>5 DEF StoreInv, Resetting, Resets
      <4> QED
        BY <1>3, <1>4, <1>5, <3>3, <4>2, <4>6, LinkedStore
    <3> QED
      BY <3>1, <3>2, <3>3, FailedLinked
  <2> QED
    BY <2>1, <2>2
<1>8. CASE NthStore("delfront", 2, SetNext(Sentinel, next[op.link]))
  <2>1. \/ Misled(Sentinel)
        \/ /\ Stored("delfront", 2) /\ Sentinel \in Cells \ freed
           /\ next' = [next EXCEPT ![Sentinel] = h] /\ UNCHANGED <<prev, length, offset>>
    BY <1>0, <1>1, <1>5, <1>8, NextStoreIs DEF NthStore, SetNext, Through
  <2>2. ASSUME Stored("delfront", 2), next' = [next EXCEPT ![Sentinel] = h], UNCHANGED <<prev, length, offset>>
        PROVE  LinkedInv'
    <3>1. l \in Cells /\ h \in Cells /\ prev[Sentinel] \in Cells
      BY <1>0, <1>1, <1>2, <1>6, <2>2 DEF StoreInv
    <3>2. h \in Links => Linked(h)
      BY <1>0, <1>1, <3>1 DEF LinkInv
    <3>3. next[Sentinel] \in Cells
      BY <1>1, <3>1 DEF LinkInv
    <3>4. LinkInv' /\ next' \in [Cells -> Pointers]
      BY <1>1, <1>5, <2>2, <3>1, <3>2, NamesApart, NextLinks DEF Aside
    <3>5. op' = [name |-> "delfront", at |-> 3, link |-> l]
      BY <1>6, <2>2
    <3>6. StoreInv'
      BY <3>5 DEF StoreInv, Resetting, Resets
    <3> QED
      BY <1>3, <1>4, <1>5, <2>2, <3>3, <3>4, <3>6, LinkedStore
  <2> QED
    BY <2>1, <2>2, NamesApart, FailedLinked
<1>9. CASE NthStore("delfront", 3, SetLength(length - 1))
  <2>1. Stored("delfront", 3) /\ length' = length - 1 /\ UNCHANGED <<next, prev, offset>>
    BY <1>1, <1>5, <1>9, CountStoreIs DEF NthStore, SetLength
  <2>2. LinkInv'
    <3>1. UNCHANGED <<next, prev, offset, iter>>
      BY <1>5, <2>1 DEF Aside
    <3> QED
      BY <1>1, <3>1 DEF LinkInv, Linked, Raw
  <2>3. op' = Idle
    BY <1>4, <2>1 DEF Stored, OpAfter
  <2>4. StoreInv'
    BY <2>3 DEF StoreInv, Idle, Resetting, Resets
  <2> QED
    BY <1>3, <1>4, <1>5, <2>1, <2>2, <2>4, LinkedStore
<1> QED
  BY <1>7, <1>8, <1>9 DEF DeletingFront

LEMMA DeleteBackLinked ==
  ASSUME LinkedInv, DeletingBack
  PROVE  LinkedInv'
<1>0. PICK l, h : l = op.link /\ h = prev[op.link]
  OBVIOUS
<1>1. DequeTypeInv /\ LinkInv /\ StoreInv
  BY DEF LinkedInv
<1>2. op.name = "delback" /\ fate = "ok" /\ op.at \in 1 .. 3
  BY DEF DeletingBack, NthStore, Through
<1>3. next \in [Cells -> Pointers] /\ prev \in [Cells -> Pointers] /\ length \in Int
  BY <1>1, TypedIs
<1>4. "delback" \in Updates /\ Stores["delback"] = 3
  BY DEF Updates, Stores
<1>5. Aside
  <2>1. UNCHANGED <<iter, seen, left, late>> /\ freed' = freed /\ stable' \subseteq stable
    BY DEF DeletingBack, Timely, NthStore
  <2> QED
    BY <2>1 DEF Aside
<1>6. ASSUME NEW k \in 1 .. 2, Stored("delback", k)
      PROVE  op' = [name |-> "delback", at |-> k + 1, link |-> l] /\ op.at = k
  BY <1>0, <1>1, <1>4, <1>6 DEF Stored, OpAfter
<1>7. CASE NthStore("delback", 1,
             Through(op.link, IF prev[op.link] = NULL THEN UNCHANGED <<heap, fate>>
                              ELSE SetNext(prev[op.link], Sentinel)))
  <2>0. op.name = "delback" /\ op.at = 1 /\ l = prev[Sentinel]
    BY <1>0, <1>1, <1>7 DEF NthStore, StoreInv
  <2>1. CASE l \notin Cells \ freed
    <3>1. fate' = Failure(l, freed) /\ UNCHANGED heap
      BY <1>0, <1>7, <2>1 DEF NthStore, Through
    <3>2. op' = op
      BY <1>7, <3>1 DEF NthStore, Failure
    <3>3. Misled(l)
      BY <1>2, <1>5, <2>1, <3>1, <3>2 DEF Misled, Aside, heap
    <3>4. l \in Cells \/ Raw
      BY <1>1, <2>0 DEF LinkInv
    <3> QED
      BY <3>3, <3>4, FailedLinked
  <2>2. CASE l \in Cells \ freed
    <3>1. h \in Cells /\ h # NULL
      <4>1. CASE l = Sentinel
        BY <1>0, <1>1, <2>0, <4>1, NamesApart
      <4>2. CASE l \in Links
        BY <1>0, <1>1, <2>0, <4>2, NamesApart DEF LinkInv, Linked
      <4> QED
        BY <2>2, <4>1, <4>2 DEF Cells
    <3>2. \/ Misled(h)
          \/ /\ Stored("delback", 1) /\ h \in Cells \ freed
             /\ next' = [next EXCEPT ![h] = Sentinel] /\ UNCHANGED <<prev, length, offset>>
      BY <1>0, <1>1, <1>5, <1>7, <2>2, <3>1, NextStoreIs DEF NthStore, Through, SetNext
    <3>3. ASSUME Stored("delback", 1), next' = [next EXCEPT ![h] = Sentinel], UNCHANGED <<prev, length, offset>>
          PROVE  LinkedInv'
      <4>1. prev[Sentinel] \in Cells /\ next[Sentinel] \in Cells
        BY <1>1, <2>0, <2>2 DEF LinkInv
      <4>2. LinkInv' /\ next' \in [Cells -> Pointers]
        BY <1>1, <1>5, <3>1, <3>3, NamesApart, NextLinks DEF Aside
      <4>4. prev'[l] \in Cells /\ l \in Cells /\ prev'[Sentinel] \in Cells
        BY <1>0, <2>2, <3>1, <3>3, <4>1
      <4>5. op' = [name |-> "delback", at |-> 2, link |-> l]
        BY <1>6, <3>3
      <4>6. StoreInv'
        BY <4>4, <4>5 DEF StoreInv, Resetting, Resets
      <4> QED
        BY <1>3, <1>4, <1>5, <3>3, <4>1, <4>2, <4>6, LinkedStore
    <3> QED
      BY <3>1, <3>2, <3>3, FailedLinked
  <2> QED
    BY <2>1, <2>2
<1>8. CASE NthStore("delback", 2, SetPrev(Sentinel, prev[op.link]))
  <2>1. \/ Misled(Sentinel)
        \/ /\ Stored("delback", 2) /\ Sentinel \in Cells \ freed
           /\ prev' = [prev EXCEPT ![Sentinel] = h] /\ UNCHANGED <<next, length, offset>>
    BY <1>0, <1>1, <1>5, <1>8, PrevStoreIs DEF NthStore, SetPrev, Through
  <2>2. ASSUME Stored("delback", 2), prev' = [prev EXCEPT ![Sentinel] = h], UNCHANGED <<next, length, offset>>
        PROVE  LinkedInv'
    <3>1. l \in Cells /\ h \in Cells /\ prev[Sentinel] \in Cells
      BY <1>0, <1>1, <1>2, <1>6, <2>2 DEF StoreInv
    <3>2. h \in Links => Linked(h)
      BY <1>0, <1>1, <3>1 DEF LinkInv
    <3>3. next[Sentinel] \in Cells
      BY <1>1, <3>1 DEF LinkInv
    <3>4. LinkInv' /\ prev' \in [Cells -> Pointers]
      BY <1>1, <1>5, <2>2, <3>1, <3>2, <3>3, NamesApart, PrevLinks DEF Aside
    <3>5. op' = [name |-> "delback", at |-> 3, link |-> l]
      BY <1>6, <2>2
    <3>6. StoreInv'
      BY <3>5 DEF StoreInv, Resetting, Resets
    <3> QED
      BY <1>3, <1>4, <1>5, <2>2, <3>4, <3>6, LinkedStore
  <2> QED
    BY <2>1, <2>2, NamesApart, FailedLinked
<1>9. CASE NthStore("delback", 3, SetLength(length - 1))
  <2>1. Stored("delback", 3) /\ length' = length - 1 /\ UNCHANGED <<next, prev, offset>>
    BY <1>1, <1>5, <1>9, CountStoreIs DEF NthStore, SetLength
  <2>2. LinkInv'
    <3>1. UNCHANGED <<next, prev, offset, iter>>
      BY <1>5, <2>1 DEF Aside
    <3> QED
      BY <1>1, <3>1 DEF LinkInv, Linked, Raw
  <2>3. op' = Idle
    BY <1>4, <2>1 DEF Stored, OpAfter
  <2>4. StoreInv'
    BY <2>3 DEF StoreInv, Idle, Resetting, Resets
  <2> QED
    BY <1>3, <1>4, <1>5, <2>1, <2>2, <2>4, LinkedStore
<1> QED
  BY <1>7, <1>8, <1>9 DEF DeletingBack

(* The k-th store of deque_init or deque_reset. *)
EmptyStore(name, k) ==
  /\ Stored(name, k)
  /\ next' = IF k = 1 THEN [next EXCEPT ![Sentinel] = Sentinel] ELSE next
  /\ prev' = IF k = 2 THEN [prev EXCEPT ![Sentinel] = Sentinel] ELSE prev
  /\ offset' = IF name = "init" /\ k = 3 THEN "field"
               ELSE IF name = "reset" /\ k = 4 THEN "zero" ELSE offset
  /\ length' = IF (name = "init" /\ k = 4) \/ (name = "reset" /\ k = 3) THEN 0 ELSE length
  /\ IF k = 4 THEN left' = "whole" /\ late' = 0 ELSE UNCHANGED <<left, late>>
  /\ IF k = 4 /\ iter.mode = "destroy" THEN EndLoop
     ELSE UNCHANGED <<iter, seen>> /\ stable' = stable \cap Members'

LEMMA EmptyingIs ==
  ASSUME DequeTypeInv, Emptying
  PROVE  \E name \in Resets : \E k \in 1 .. 4 : EmptyStore(name, k)
<1>1. freed \subseteq Links /\ Sentinel \in Cells \ freed
  BY TypedIs, NamesApart
<1>2. ASSUME NEW name \in Resets, NEW k \in 1 .. 4, op.name = name, op.at = k, fate = "ok", fate' = "ok",
             op' = IF fate' # "ok" THEN op ELSE IF k = Stores[name] THEN Idle ELSE [op EXCEPT !.at = k + 1],
             UNCHANGED freed
      PROVE  /\ Stored(name, k) /\ (op' = Idle <=> k = 4)
  <2>1. Stores[name] = 4 /\ name # "idle"
    BY DEF Resets, Stores
  <2>2. op' = OpAfter(name, k)
    BY <1>2, OpMoved
  <2>3. op' = Idle <=> k = 4
    BY <2>1, <2>2 DEF OpAfter, Idle
  <2> QED
    BY <1>2, <2>2, <2>3 DEF Stored
<1>3. /\ IF op' = Idle THEN left' = "whole" /\ late' = 0 ELSE UNCHANGED <<left, late>>
      /\ IF op' = Idle /\ iter.mode = "destroy" THEN EndLoop
         ELSE UNCHANGED <<iter, seen>> /\ stable' = stable \cap Members'
  BY DEF Emptying, Timely
<1>4. {"init", "reset"} = Resets /\ "init" # "reset"
  BY DEF Resets
<1>5. CASE NthStore("init", 1, SetNext(Sentinel, Sentinel))
  <2>1. 1 \in 1 .. 4 /\ "init" \in Resets
    BY <1>4
  <2>2. /\ next' = [next EXCEPT ![Sentinel] = Sentinel] /\ UNCHANGED <<prev, length, offset>>
        /\ Stored("init", 1) /\ op' # Idle
    BY <1>1, <1>2, <1>5, <2>1 DEF NthStore, SetNext, Through
  <2>3. EmptyStore("init", 1)
    BY <1>3, <1>4, <2>2 DEF EmptyStore
  <2> QED
    BY <2>1, <2>3
<1>6. CASE NthStore("init", 2, SetPrev(Sentinel, Sentinel))
  <2>1. 2 \in 1 .. 4 /\ "init" \in Resets
    BY <1>4
  <2>2. /\ prev' = [prev EXCEPT ![Sentinel] = Sentinel] /\ UNCHANGED <<next, length, offset>>
        /\ Stored("init", 2) /\ op' # Idle
    BY <1>1, <1>2, <1>6, <2>1 DEF NthStore, SetPrev, Through
  <2>3. EmptyStore("init", 2)
    BY <1>3, <1>4, <2>2 DEF EmptyStore
  <2> QED
    BY <2>1, <2>3
<1>7. CASE NthStore("init", 3, SetOffset("field"))
  <2>1. 3 \in 1 .. 4 /\ "init" \in Resets
    BY <1>4
  <2>2. offset' = "field" /\ UNCHANGED <<next, prev, length>> /\ Stored("init", 3) /\ op' # Idle
    BY <1>2, <1>7, <2>1 DEF NthStore, SetOffset
  <2>3. EmptyStore("init", 3)
    BY <1>3, <1>4, <2>2 DEF EmptyStore
  <2> QED
    BY <2>1, <2>3
<1>8. CASE NthStore("init", 4, SetLength(0))
  <2>1. 4 \in 1 .. 4 /\ "init" \in Resets
    BY <1>4
  <2>2. length' = 0 /\ UNCHANGED <<next, prev, offset>> /\ Stored("init", 4) /\ op' = Idle
    BY <1>2, <1>8, <2>1 DEF NthStore, SetLength
  <2>3. EmptyStore("init", 4)
    BY <1>3, <1>4, <2>2 DEF EmptyStore
  <2> QED
    BY <2>1, <2>3
<1>9. CASE NthStore("reset", 1, SetNext(Sentinel, Sentinel))
  <2>1. 1 \in 1 .. 4 /\ "reset" \in Resets
    BY <1>4
  <2>2. /\ next' = [next EXCEPT ![Sentinel] = Sentinel] /\ UNCHANGED <<prev, length, offset>>
        /\ Stored("reset", 1) /\ op' # Idle
    BY <1>1, <1>2, <1>9, <2>1 DEF NthStore, SetNext, Through
  <2>3. EmptyStore("reset", 1)
    BY <1>3, <1>4, <2>2 DEF EmptyStore
  <2> QED
    BY <2>1, <2>3
<1>10. CASE NthStore("reset", 2, SetPrev(Sentinel, Sentinel))
  <2>1. 2 \in 1 .. 4 /\ "reset" \in Resets
    BY <1>4
  <2>2. /\ prev' = [prev EXCEPT ![Sentinel] = Sentinel] /\ UNCHANGED <<next, length, offset>>
        /\ Stored("reset", 2) /\ op' # Idle
    BY <1>1, <1>2, <1>10, <2>1 DEF NthStore, SetPrev, Through
  <2>3. EmptyStore("reset", 2)
    BY <1>3, <1>4, <2>2 DEF EmptyStore
  <2> QED
    BY <2>1, <2>3
<1>11. CASE NthStore("reset", 3, SetLength(0))
  <2>1. 3 \in 1 .. 4 /\ "reset" \in Resets
    BY <1>4
  <2>2. length' = 0 /\ UNCHANGED <<next, prev, offset>> /\ Stored("reset", 3) /\ op' # Idle
    BY <1>2, <1>11, <2>1 DEF NthStore, SetLength
  <2>3. EmptyStore("reset", 3)
    BY <1>3, <1>4, <2>2 DEF EmptyStore
  <2> QED
    BY <2>1, <2>3
<1>12. CASE NthStore("reset", 4, SetOffset("zero"))
  <2>1. 4 \in 1 .. 4 /\ "reset" \in Resets
    BY <1>4
  <2>2. offset' = "zero" /\ UNCHANGED <<next, prev, length>> /\ Stored("reset", 4) /\ op' = Idle
    BY <1>2, <1>12, <2>1 DEF NthStore, SetOffset
  <2>3. EmptyStore("reset", 4)
    BY <1>3, <1>4, <2>2 DEF EmptyStore
  <2> QED
    BY <2>1, <2>3
<1> QED
  BY <1>5, <1>6, <1>7, <1>8, <1>9, <1>10, <1>11, <1>12 DEF Emptying

LEMMA EmptyStoreLinked ==
  ASSUME LinkedInv, NEW name \in Resets, NEW k \in 1 .. 4, EmptyStore(name, k)
  PROVE  /\ LinkedInv' /\ next'[Sentinel] = Sentinel
         /\ k # 1 => prev'[Sentinel] = Sentinel
         /\ k = 4 => length' = 0 /\ ~Raw' /\ op' = Idle /\ iter'.mode # "destroy"
         /\ k # 4 => op' = [name |-> name, at |-> k + 1, link |-> op.link] /\ iter' = iter
         /\ fate' = "ok"
<1>1. DequeTypeInv /\ LinkInv /\ StoreInv
  BY DEF LinkedInv
<1>2. /\ next \in [Cells -> Pointers] /\ prev \in [Cells -> Pointers] /\ length \in Int
      /\ freed \subseteq Links /\ seen \subseteq Links /\ stable \subseteq Links
      /\ left \in Remains /\ late \in 0 .. MaxLate /\ offset \in {"field", "zero", "none"}
  BY <1>1, TypedIs
<1>3. Stored(name, k) /\ Stores[name] = 4 /\ name \in {"init", "reset"} /\ name \in Updates \cup Resets
  BY DEF EmptyStore, Resets, Stores
<1>4. op.name = name /\ op.at = k /\ fate' = "ok" /\ freed' = freed /\ op' = OpAfter(name, k)
  BY <1>3 DEF Stored
<1>5. /\ op' \in [name : Updates \cup Resets \cup {"idle"}, at : 0 .. 5, link : Pointers]
      /\ op'.name = "idle" => op' = Idle
      /\ op'.name # "idle" => op'.at \in 1 .. Stores[op'.name]
      /\ Adding' => op'.link \in Links
      /\ Removing' => Removing
      /\ ~Removing
  BY <1>1, <1>3, <1>4, OpAfterTyped DEF Removing
<1>6. Resetting
  BY <1>4 DEF Resetting
<1>7. /\ k >= 2 => next[Sentinel] = Sentinel
      /\ k >= 3 => prev[Sentinel] = Sentinel
      /\ k = 4 => IF name = "init" THEN offset = "field" ELSE length = 0
  BY <1>1, <1>4, <1>6 DEF StoreInv
<1>8. /\ k # 4 => op' = [name |-> name, at |-> k + 1, link |-> op.link]
      /\ k = 4 => op' = Idle
  BY <1>3, <1>4 DEF OpAfter
<1>9. /\ next'[Sentinel] = Sentinel
      /\ k # 1 => prev'[Sentinel] = Sentinel
  BY <1>2, <1>7, NamesApart DEF EmptyStore
<1>10. /\ k = 4 => length' = 0 /\ offset' \in {"field", "zero"}
       /\ name = "init" /\ k = 3 => offset' = "field"
       /\ name = "reset" /\ k = 3 => length' = 0
       /\ length' \in Int /\ offset' \in {"field", "zero", "none"}
       /\ k \in 1 .. 2 => offset' = offset
  BY <1>2, <1>3, <1>7 DEF EmptyStore
<1>11. StoreInv'
  <2>1. CASE k = 4
    BY <1>8, <2>1 DEF StoreInv, Idle, Resetting, Resets
  <2>2. CASE k # 4
    <3>1. op'.name = name /\ op'.at = k + 1
      BY <1>8, <2>2
    <3>2. /\ k + 1 >= 3 => k # 1
          /\ k + 1 = 4 => k = 3
      OBVIOUS
    <3>3. op'.name # "addfront" /\ op'.name # "addback" /\ op'.name # "delfront" /\ op'.name # "delback"
      BY <1>3, <3>1
    <3>4. op'.at = 4 => IF op'.name = "init" THEN offset' = "field" ELSE length' = 0
      BY <1>3, <1>10, <3>1, <3>2
    <3> QED
      BY <1>9, <3>1, <3>2, <3>3, <3>4 DEF StoreInv
  <2> QED
    BY <2>1, <2>2
<1>12. RawInv'
  <2>1. CASE k = 4
    BY <1>10, <2>1 DEF RawInv, Raw
  <2>2. CASE k # 4
    <3>1. Resetting'
      BY <1>8, <2>2 DEF Resetting
    <3> QED
      BY <3>1 DEF RawInv
  <2> QED
    BY <2>1, <2>2
<1>13. /\ iter' = iter \/ (k = 4 /\ iter' = NoLoop)
       /\ k = 4 => iter'.mode # "destroy"
       /\ iter'.mode # "off" => iter' = iter
       /\ seen' \subseteq Links /\ stable' \subseteq Links
  <2>1. NoLoop.mode = "off"
    BY DEF NoLoop
  <2> QED
    BY <1>2, <2>1 DEF EmptyStore, EndLoop
<1>14. LinkInv' /\ next' \in [Cells -> Pointers] /\ prev' \in [Cells -> Pointers]
  <2>1. CASE k = 1
    <3>1. /\ next' = [next EXCEPT ![Sentinel] = Sentinel] /\ UNCHANGED <<prev, offset, iter>>
      BY <1>13, <2>1 DEF EmptyStore
    <3> QED
      BY <1>1, <1>2, <3>1, NamesApart, NextLinks
  <2>2. CASE k = 2
    <3>1. /\ prev' = [prev EXCEPT ![Sentinel] = Sentinel] /\ UNCHANGED <<next, offset, iter>>
      BY <1>13, <2>2 DEF EmptyStore
    <3>2. next[Sentinel] \in Cells
      BY <1>7, <2>2, NamesApart
    <3> QED
      BY <1>1, <1>2, <3>1, <3>2, NamesApart, PrevLinks
  <2>3. CASE k \in 3 .. 4
    <3>1. UNCHANGED <<next, prev>> /\ prev[Sentinel] \in Cells
      BY <1>7, <2>3, NamesApart DEF EmptyStore
    <3> QED
      BY <1>1, <1>2, <1>13, <3>1 DEF LinkInv, Linked
  <2> QED
    BY <2>1, <2>2, <2>3
<1>15. /\ iter' \in [mode : {"off", "foreach", "destroy"}, cur : Pointers, nxt : Pointers]
       /\ iter'.mode # "off" => iter'.cur \in Links /\ iter'.nxt \in Cells
  <2>1. /\ iter \in [mode : {"off", "foreach", "destroy"}, cur : Pointers, nxt : Pointers]
        /\ iter.mode # "off" => iter.cur \in Links /\ iter.nxt \in Cells
    BY <1>1 DEF DequeTypeInv
  <2>2. NoLoop \in [mode : {"off", "foreach", "destroy"}, cur : Pointers, nxt : Pointers]
    BY NamesApart DEF NoLoop
  <2> QED
    BY <1>13, <2>1, <2>2
<1>16. /\ iter'.mode = "destroy" => op' = Idle \/ op'.name = "reset"
       /\ Resetting' /\ iter'.mode = "foreach" => ~Careful
  <2>1. iter.mode = "destroy" => name = "reset"
    BY <1>1, <1>3, <1>4 DEF DequeTypeInv, Idle
  <2>2. iter.mode = "foreach" => ~Careful
    BY <1>1, <1>6 DEF DequeTypeInv
  <2> QED
    BY <1>8, <1>13, <2>1, <2>2
<1>17. left' \in Remains /\ late' \in 0 .. MaxLate /\ (left' = "whole" => late' = 0)
  <2>1. MaxLate \in Nat /\ "whole" \in Remains /\ (left = "whole" => late = 0)
    BY <1>1, DequeAssumption DEF Remains, DequeTypeInv
  <2> QED
    BY <1>2, <2>1 DEF EmptyStore
<1>18. DequeTypeOK'
  <2>1. op'.name \in Updates \cup Resets \cup {"idle"} /\ op'.at \in 0 .. 5 /\ op'.link \in Pointers
    BY <1>5
  <2>2. iter'.mode \in {"off", "foreach", "destroy"} /\ iter'.cur \in Pointers /\ iter'.nxt \in Pointers
    BY <1>15
  <2>3. Raw' \/ {next'[Sentinel], prev'[Sentinel]} \subseteq Cells
    BY <1>14 DEF LinkInv
  <2> QED
    BY <1>2, <1>4, <1>10, <1>13, <1>14, <1>17, <2>1, <2>2, <2>3 DEF DequeTypeOK
<1>19. DequeTypeInv'
  BY <1>4, <1>5, <1>15, <1>16, <1>17, <1>18 DEF DequeTypeInv, Careful
<1> QED
  BY <1>4, <1>8, <1>9, <1>10, <1>11, <1>12, <1>13, <1>14, <1>19 DEF LinkedInv, Raw, EmptyStore

(* A call begins. *)
LEMMA BegunLinked ==
  ASSUME LinkedInv, Quiet, UNCHANGED <<next, prev, length, offset, iter, seen, freed, fate, stable>>,
         NEW name \in Updates \cup Resets, NEW l \in Pointers, Begin(name, l),
         name \in {"addfront", "addback"} => l \in Links,
         name = "delfront" => l = next[Sentinel],
         name = "delback" => l = prev[Sentinel],
         name \in {"delfront", "delback"} => next[Sentinel] # NULL,
         iter.mode = "destroy" => name = "reset",
         name \in Resets /\ iter.mode = "foreach" => ~Careful,
         left' = left, late' \in 0 .. MaxLate, left = "whole" => late' = 0
  PROVE  LinkedInv'
<1>1. DequeTypeInv /\ LinkInv /\ RawInv
  BY DEF LinkedInv
<1>2. op' = [name |-> name, at |-> 1, link |-> l] /\ op = Idle
  BY DEF Begin, Quiet
<1>3. name # "idle" /\ 1 \in 1 .. Stores[name]
  BY DEF Updates, Resets, Stores
<1>4. StoreInv'
  <2>1. op'.name = name /\ op'.at = 1 /\ op'.link = l
    BY <1>2
  <2> QED
    BY <2>1 DEF StoreInv
<1>5. RawInv'
  <2> SUFFICES ASSUME Raw, left = "whole", ~Resetting'
               PROVE  next[Sentinel] \notin Cells /\ (Removing' => next[Sentinel] = Wild)
    BY DEF RawInv, Raw
  <2>1. ~Resetting
    BY <1>2 DEF Idle, Resetting, Resets
  <2>2. next[Sentinel] \notin Cells /\ next[Sentinel] \in Pointers
    BY <1>1, <2>1, TypedIs, NamesApart DEF RawInv
  <2>3. Removing' => next[Sentinel] # NULL
    BY <1>2 DEF Removing
  <2> QED
    BY <2>2, <2>3 DEF Pointers
<1>6. /\ iter' \in [mode : {"off", "foreach", "destroy"}, cur : Pointers, nxt : Pointers]
      /\ iter'.mode # "off" => /\ iter'.cur \in Links /\ iter'.nxt \in Cells /\ prev[Sentinel] \in Cells
                               /\ iter'.nxt \in Links => Linked(iter'.nxt)
  BY <1>1 DEF DequeTypeInv, LinkInv
<1>7. /\ fate' \in {"ok", "dangling"} \/ (Raw /\ fate' \in {"wild", "aborted"})
      /\ freed' \subseteq Links /\ seen' \subseteq Links /\ stable' \subseteq Links /\ left' \in Remains
  BY <1>1, TypedIs DEF Quiet
<1>8. /\ op' \in [name : Updates \cup Resets \cup {"idle"}, at : 0 .. 5, link : Pointers]
      /\ op'.name # "idle" /\ op'.at \in 1 .. Stores[op'.name]
      /\ Adding' => op'.link \in Links
      /\ iter'.mode = "destroy" => op'.name = "reset"
      /\ Resetting' /\ iter'.mode = "foreach" => ~Careful
  BY <1>2, <1>3 DEF Adding, Resetting
<1> QED
  BY <1>4, <1>5, <1>6, <1>7, <1>8, HeapLinked

(* A body or a destructor begins. *)
LEMMA VisitLinked ==
  ASSUME LinkedInv, Quiet, UNCHANGED <<next, prev, length, offset, op>>,
         NEW mode \in {"foreach", "destroy"}, NEW l, NEW dead, l # Sentinel,
         l \notin Cells => Raw,
         l \in Links => Linked(l) /\ prev[Sentinel] \in Cells,
         Visit(mode, l, dead), freed' \subseteq Links, stable' \subseteq Links,
         left' = left, late' \in 0 .. MaxLate, left = "whole" => late' = 0
  PROVE  LinkedInv'
<1>1. DequeTypeInv /\ LinkInv /\ RawInv /\ StoreInv
  BY DEF LinkedInv
<1>2. op = Idle /\ fate = "ok" /\ seen \subseteq Links /\ left \in Remains
  BY <1>1, TypedIs DEF Quiet
<1>3. CASE l \in Cells \ dead
  <2>1. l \in Links
    BY <1>3 DEF Cells
  <2>2. PICK n : n = next[l]
    OBVIOUS
  <2>3. n \in Cells /\ (n \in Links => Linked(n))
    BY <1>1, <1>3, <2>1, <2>2 DEF Linked, LinkInv
  <2>4. iter' = [mode |-> mode, cur |-> l, nxt |-> n] /\ seen' = seen \cup {l} /\ fate' = "ok"
    BY <1>2, <1>3, <2>2 DEF Visit
  <2>5. iter' \in [mode : {"off", "foreach", "destroy"}, cur : Pointers, nxt : Pointers]
    BY <1>3, <2>3, <2>4, NamesApart
  <2>6. /\ op' \in [name : Updates \cup Resets \cup {"idle"}, at : 0 .. 5, link : Pointers]
        /\ op' = Idle /\ op'.name = "idle"
    BY <1>2, NamesApart DEF Idle
  <2>7. StoreInv' /\ ~Adding' /\ ~Resetting'
    BY <2>6 DEF StoreInv, Adding, Resetting, Resets
  <2>8. RawInv'
    BY <1>1, <2>7 DEF RawInv, Raw, Resetting, Removing
  <2> QED
    BY <1>2, <2>1, <2>3, <2>4, <2>5, <2>6, <2>7, <2>8, HeapLinked
<1>4. CASE l \notin Cells \ dead
  <2>1. fate' = Failure(l, dead) /\ UNCHANGED <<iter, seen>>
    BY <1>4 DEF Visit
  <2>2. fate' = "dangling" \/ (Raw /\ fate' = "wild")
    BY <1>4, <2>1 DEF Failure
  <2> QED
    BY <1>2, <2>1, <2>2, StayLinked
<1> QED
  BY <1>3, <1>4

LEMMA UpdatedIs ==
  ASSUME DequeTypeInv, Updated
  PROVE  left' = left /\ late' \in 0 .. MaxLate /\ (left = "whole" => late' = 0)
<1>1. MaxLate \in Nat /\ late \in 0 .. MaxLate /\ (left = "whole" => late = 0)
  BY TypedIs, DequeAssumption DEF DequeTypeInv
<1> QED
  BY <1>1 DEF Updated, Timely, LateCall

LEMMA ClearLinked ==
  ASSUME LinkedInv, NEW name \in Resets, Clear(name)
  PROVE  LinkedInv'
<1>1. DequeTypeInv
  BY DEF LinkedInv
<1>2. /\ UNCHANGED <<next, prev, length, offset, iter, seen, freed, fate, stable>>
      /\ Quiet /\ iter.mode # "destroy" /\ Begin(name, NULL) /\ UNCHANGED <<left, late>>
      /\ iter.mode = "foreach" => ~Careful
  BY DEF Clear, heap, loop, Timely, Careful
<1>3. late \in 0 .. MaxLate /\ (left = "whole" => late = 0)
  BY <1>1, TypedIs DEF DequeTypeInv
<1>4. name \notin {"addfront", "addback", "delfront", "delback"}
  BY DEF Resets
<1> QED
  BY <1>2, <1>3, <1>4, NamesApart, BegunLinked

LEMMA AddLinked ==
  ASSUME LinkedInv, NEW name \in {"addfront", "addback"}, NEW l \in Links, Add(name, l)
  PROVE  LinkedInv'
<1>1. DequeTypeInv
  BY DEF LinkedInv
<1>2. /\ UNCHANGED <<next, prev, length, offset, iter, seen, freed, fate, stable>>
      /\ Quiet /\ iter.mode # "destroy" /\ Begin(name, l)
  BY DEF Add, heap, loop
<1>3. left' = left /\ late' \in 0 .. MaxLate /\ (left = "whole" => late' = 0)
  BY <1>1, UpdatedIs DEF Add
<1>4. name \notin Resets /\ name \in Updates \cup Resets /\ l \in Pointers
  BY NamesApart DEF Resets, Updates
<1> QED
  BY <1>2, <1>3, <1>4, BegunLinked

LEMMA DeleteLinked ==
  ASSUME LinkedInv, NEW name, NEW l, Delete(name, l),
         (name = "delfront" /\ l = next[Sentinel]) \/ (name = "delback" /\ l = prev[Sentinel])
  PROVE  LinkedInv'
<1>1. DequeTypeInv
  BY DEF LinkedInv
<1>2. /\ UNCHANGED <<next, prev, length, offset, iter, seen, freed, stable>>
      /\ Quiet /\ iter.mode # "destroy"
  BY DEF Delete, heap, loop
<1>3. left' = left /\ late' \in 0 .. MaxLate /\ (left = "whole" => late' = 0)
  BY <1>1, UpdatedIs DEF Delete
<1>4. CASE next[Sentinel] = NULL
  <2>1. fate' = "aborted" /\ op' = op
    BY <1>4 DEF Delete
  <2>2. Raw
    BY <1>1, <1>4, NamesApart DEF DequeTypeInv, DequeTypeOK
  <2>3. /\ freed' \subseteq Links /\ seen' \subseteq Links /\ stable' \subseteq Links
        /\ left' \in Remains
    BY <1>1, <1>2, <1>3, TypedIs
  <2> QED
    BY <1>2, <1>3, <2>1, <2>2, <2>3, StayLinked
<1>5. CASE next[Sentinel] # NULL
  <2>1. fate' = fate /\ Begin(name, l)
    BY <1>5 DEF Delete
  <2>2. /\ name \notin Resets /\ name \in Updates \cup Resets /\ l \in Pointers
        /\ name \notin {"addfront", "addback"}
    BY <1>1, TypedIs, NamesApart DEF Resets, Updates
  <2> QED
    BY <1>2, <1>3, <1>5, <2>1, <2>2, BegunLinked
<1> QED
  BY <1>4, <1>5

LEMMA ForeachLinked ==
  ASSUME LinkedInv, NEW mode \in {"foreach", "destroy"}, Foreach(mode)
  PROVE  LinkedInv'
<1>0. PICK l : l = next[Sentinel]
  OBVIOUS
<1>1. DequeTypeInv /\ LinkInv
  BY DEF LinkedInv
<1>2. /\ Quiet /\ l # Sentinel /\ Visit(mode, l, freed)
      /\ UNCHANGED <<next, prev, length, offset, op>> /\ freed' \subseteq Links
  BY <1>0, <1>1, TypedIs DEF Foreach, heap
<1>3. stable' \subseteq Links
  BY <1>1, TypedIs DEF Foreach, Members
<1>4. left' = left /\ late' \in 0 .. MaxLate /\ (left = "whole" => late' = 0)
  <2>1. MaxLate \in Nat /\ late \in 0 .. MaxLate /\ (left = "whole" => late = 0)
    BY <1>1, TypedIs, DequeAssumption DEF DequeTypeInv
  <2> QED
    BY <2>1 DEF Foreach, LateCall, Timely
<1>5. l \notin Cells => Raw
  BY <1>0, <1>1 DEF DequeTypeInv, DequeTypeOK
<1>6. l \in Links => Linked(l) /\ prev[Sentinel] \in Cells
  BY <1>0, <1>1, NamesApart DEF LinkInv
<1> QED
  BY <1>2, <1>3, <1>4, <1>5, <1>6, VisitLinked

LEMMA ForeachNextLinked ==
  ASSUME LinkedInv, ForeachNext
  PROVE  LinkedInv'
<1>0. PICK l : l = iter.nxt
  OBVIOUS
<1>1. DequeTypeInv /\ LinkInv
  BY DEF LinkedInv
<1>2. Quiet /\ iter.mode = "foreach" /\ UNCHANGED <<next, prev, length, offset, op, left, late, freed>>
  BY DEF ForeachNext, heap, Timely
<1>3. /\ late \in 0 .. MaxLate /\ (left = "whole" => late = 0) /\ left \in Remains
      /\ freed \subseteq Links /\ stable \subseteq Links
  BY <1>1, TypedIs DEF DequeTypeInv
<1>4. CASE l = Sentinel
  <2>1. iter' = NoLoop /\ seen' = {} /\ stable' = {} /\ fate' = fate
    BY <1>0, <1>4 DEF ForeachNext, EndLoop
  <2> QED
    BY <1>2, <1>3, <2>1, StayLinked
<1>5. CASE l # Sentinel
  <2>1. Visit("foreach", l, freed) /\ stable' = stable
    BY <1>0, <1>5 DEF ForeachNext
  <2>2. l \in Cells /\ prev[Sentinel] \in Cells /\ (l \in Links => Linked(l))
    BY <1>0, <1>1, <1>2 DEF DequeTypeInv, LinkInv
  <2> QED
    BY <1>2, <1>3, <1>5, <2>1, <2>2, VisitLinked
<1> QED
  BY <1>4, <1>5

LEMMA DestroyNextLinked ==
  ASSUME LinkedInv, DestroyNext
  PROVE  LinkedInv'
<1>0. PICK l : l = iter.nxt
  OBVIOUS
<1>1. DequeTypeInv /\ LinkInv
  BY DEF LinkedInv
<1>2. Quiet /\ iter.mode = "destroy" /\ UNCHANGED <<next, prev, length, offset, left, late, stable>>
  BY DEF DestroyNext, heap, Timely
<1>3. /\ late \in 0 .. MaxLate /\ (left = "whole" => late = 0) /\ left \in Remains
      /\ freed \subseteq Links /\ stable \subseteq Links /\ seen \subseteq Links /\ iter.cur \in Links
  BY <1>1, <1>2, TypedIs DEF DequeTypeInv
<1>4. freed' \subseteq Links
  BY <1>3 DEF DestroyNext
<1>5. l \in Cells /\ prev[Sentinel] \in Cells /\ (l \in Links => Linked(l))
  BY <1>0, <1>1, <1>2 DEF DequeTypeInv, LinkInv
<1>6. CASE l = Sentinel
  <2>1. op' = [name |-> "reset", at |-> 1, link |-> NULL] /\ iter' = iter /\ seen' = seen /\ fate' = "ok"
    BY <1>0, <1>6 DEF DestroyNext, Begin, Quiet
  <2>2. /\ op' \in [name : Updates \cup Resets \cup {"idle"}, at : 0 .. 5, link : Pointers]
        /\ op'.name = "reset" /\ op'.at \in 1 .. Stores[op'.name] /\ op'.at = 1
    BY <2>1, NamesApart DEF Resets, Stores
  <2>3. StoreInv' /\ ~Adding' /\ Resetting'
    BY <2>2 DEF StoreInv, Adding, Resetting, Resets
  <2>4. RawInv'
    BY <2>3 DEF RawInv
  <2>5. iter \in [mode : {"off", "foreach", "destroy"}, cur : Pointers, nxt : Pointers]
    BY <1>1 DEF DequeTypeInv
  <2> QED
    BY <1>0, <1>2, <1>3, <1>4, <1>5, <2>1, <2>2, <2>3, <2>4, <2>5, HeapLinked
<1>7. CASE l # Sentinel
  <2>1. Visit("destroy", l, freed') /\ op' = op
    BY <1>0, <1>7 DEF DestroyNext
  <2> QED
    BY <1>2, <1>3, <1>4, <1>5, <1>7, <2>1, VisitLinked
<1> QED
  BY <1>6, <1>7

LEMMA DisposeLinked ==
  ASSUME LinkedInv, NEW l \in Links, Dispose(l)
  PROVE  LinkedInv'
<1>1. DequeTypeInv
  BY DEF LinkedInv
<1>2. /\ UNCHANGED <<next, prev, length, offset, op, iter, seen, stable, fate>>
      /\ freed' = freed \cup {l}
  BY DEF Dispose, heap, loop
<1>3. left' = left /\ late' \in 0 .. MaxLate /\ (left = "whole" => late' = 0)
  BY <1>1, UpdatedIs DEF Dispose
<1>4. freed \subseteq Links /\ seen \subseteq Links /\ stable \subseteq Links /\ left \in Remains
  BY <1>1, TypedIs
<1> QED
  BY <1>2, <1>3, <1>4, StayLinked

LEMMA JumpOutLinked ==
  ASSUME LinkedInv, JumpOut
  PROVE  LinkedInv'
<1>1. DequeTypeInv
  BY DEF LinkedInv
<1>2. /\ UNCHANGED <<next, prev, length, offset, freed, fate, late>>
      /\ op' = Idle /\ iter' = NoLoop /\ seen' = {} /\ stable' = {}
  BY DEF JumpOut, heap, EndLoop
<1>3. /\ late \in 0 .. MaxLate /\ (left = "whole" => late = 0) /\ left \in Remains /\ freed \subseteq Links
  BY <1>1, TypedIs DEF DequeTypeInv
<1>4. left' \in Remains \ {"whole"}
  BY <1>3 DEF JumpOut, Remains
<1> QED
  BY <1>2, <1>3, <1>4, StayLinked

LEMMA LinkedInit ==
  ASSUME DequeInit
  PROVE  LinkedInv
<1>1. PICK n, p \in {NULL, Wild} :
        /\ next = [c \in Cells |-> IF c = Sentinel THEN n ELSE NULL]
        /\ prev = [c \in Cells |-> IF c = Sentinel THEN p ELSE NULL]
  BY DEF DequeInit
<1>2. /\ length = 0 /\ offset = "none" /\ op = Idle /\ iter = NoLoop /\ freed = {} /\ fate = "ok"
      /\ left = "whole" /\ late = 0 /\ seen = {} /\ stable = {} /\ Raw
  BY DEF DequeInit, Raw
<1>3. /\ next \in [Cells -> Pointers] /\ prev \in [Cells -> Pointers]
      /\ \A c \in Cells : next[c] \in {NULL, Wild} /\ prev[c] \in {NULL, Wild}
  BY <1>1 DEF Pointers
<1>4. /\ op \in [name : Updates \cup Resets \cup {"idle"}, at : 0 .. 5, link : Pointers]
      /\ op.name = "idle" /\ op.at = 0
      /\ iter \in [mode : {"off", "foreach", "destroy"}, cur : Pointers, nxt : Pointers]
      /\ iter.mode = "off"
  BY <1>2, NamesApart DEF Idle, NoLoop
<1>5. ~Adding /\ ~Resetting /\ ~Removing
  BY <1>4 DEF Adding, Removing, Resetting, Resets
<1>6. DequeTypeOK
  <2>1. MaxLate \in Nat
    BY DequeAssumption
  <2>2. op.name \in Updates \cup Resets \cup {"idle"} /\ op.at \in 0 .. 5 /\ op.link \in Pointers
    BY <1>4
  <2>3. iter.mode \in {"off", "foreach", "destroy"} /\ iter.cur \in Pointers /\ iter.nxt \in Pointers
    BY <1>4
  <2> QED
    BY <1>2, <1>3, <2>1, <2>2, <2>3 DEF DequeTypeOK, Remains
<1>7. DequeTypeInv
  BY <1>2, <1>4, <1>5, <1>6 DEF DequeTypeInv
<1>8. LinkInv
  BY <1>2, <1>3, <1>4, NamesApart DEF LinkInv
<1>9. StoreInv
  BY <1>4, <1>5 DEF StoreInv
<1>10. RawInv
  BY <1>3, <1>5, NamesApart DEF RawInv
<1> QED
  BY <1>7, <1>8, <1>9, <1>10 DEF LinkedInv

LEMMA LinkedNext ==
  ASSUME LinkedInv, [DequeNext]_dequevars
  PROVE  LinkedInv'
<1>1. CASE deque_init \/ deque_reset
  BY <1>1, ClearLinked DEF deque_init, deque_reset, Resets
<1>2. CASE delete_front \/ delete_back
  BY <1>2, DeleteLinked DEF delete_front, delete_back
<1>3. ASSUME NEW l \in Links, deque_addfront(l) \/ deque_addback(l) PROVE LinkedInv'
  BY <1>3, AddLinked DEF deque_addfront, deque_addback
<1>4. ASSUME NEW l \in Links, Dispose(l) PROVE LinkedInv'
  BY <1>4, DisposeLinked
<1>5. CASE Emptying
  <2>1. DequeTypeInv
    BY DEF LinkedInv
  <2>2. PICK name \in Resets, k \in 1 .. 4 : EmptyStore(name, k)
    BY <1>5, <2>1, EmptyingIs
  <2> QED
    BY <2>2, EmptyStoreLinked
<1>6. CASE AddingFront
  BY <1>6, AddFrontLinked
<1>7. CASE AddingBack
  BY <1>7, AddBackLinked
<1>8. CASE DeletingFront
  BY <1>8, DeleteFrontLinked
<1>9. CASE DeletingBack
  BY <1>9, DeleteBackLinked
<1>10. ASSUME NEW mode \in {"foreach", "destroy"}, Foreach(mode) PROVE LinkedInv'
  BY <1>10, ForeachLinked
<1>11. CASE ForeachNext
  BY <1>11, ForeachNextLinked
<1>12. CASE DestroyNext
  BY <1>12, DestroyNextLinked
<1>13. CASE JumpOut
  BY <1>13, JumpOutLinked
<1>14. CASE UNCHANGED dequevars
  <2>1. UNCHANGED <<next, prev, length, offset, op, iter, seen, stable, freed, fate, left, late>>
    BY <1>14 DEF dequevars, heap, loop
  <2>2. DequeTypeInv
    BY DEF LinkedInv
  <2>3. /\ freed \subseteq Links /\ seen \subseteq Links /\ stable \subseteq Links
        /\ left \in Remains /\ late \in 0 .. MaxLate /\ (left = "whole" => late = 0)
    BY <2>2, TypedIs DEF DequeTypeInv
  <2> QED
    BY <2>1, <2>3, StayLinked
<1>15. CASE Halted
  BY <1>14, <1>15 DEF Halted
<1> QED
  BY <1>1, <1>2, <1>3, <1>4, <1>5, <1>6, <1>7, <1>8, <1>9, <1>10, <1>11, <1>12, <1>13, <1>14, <1>15 DEF DequeNext

-----------------------------------------------------------------------------
(* The deque: what is known of a ring *)

LEMMA MissingIs == Missing \in {0, 1} /\ ("empty" \in Misuse => Missing = 1)
BY DEF Missing

LEMMA LagIs ==
  /\ op.name = "idle" => Lag = 0
  /\ op.name = "addfront" => Lag = IF op.at = 5 THEN -1 ELSE 0
  /\ op.name = "addback" => Lag = IF op.at \in 4 .. 5 THEN -1 ELSE 0
  /\ op.name = "delfront" => Lag = IF op.link # Sentinel /\ op.at = 3 THEN 1 ELSE 0
  /\ op.name = "delback" => Lag = IF op.link # Sentinel /\ op.at \in 2 .. 3 THEN 1 ELSE 0
BY DEF Lag

LEMMA LagIsThen ==
  /\ op'.name = "idle" => Lag' = 0
  /\ op'.name = "addfront" => Lag' = IF op'.at = 5 THEN -1 ELSE 0
  /\ op'.name = "addback" => Lag' = IF op'.at \in 4 .. 5 THEN -1 ELSE 0
  /\ op'.name = "delfront" => Lag' = IF op'.link # Sentinel /\ op'.at = 3 THEN 1 ELSE 0
  /\ op'.name = "delback" => Lag' = IF op'.link # Sentinel /\ op'.at \in 2 .. 3 THEN 1 ELSE 0
BY DEF Lag

(* The links in the ring, and those they lead to. *)
LEMMA AlongCells ==
  ASSUME NEW x, NEW n \in Nat, NEW f, Order(f, n), Along(x, f, n), NEW i \in 0 .. n + 1
  PROVE  f[i] \in Cells /\ x[f[i]] \in Cells
<1>1. CASE i <= n
  <2>1. i \in 0 .. n /\ i + 1 \in 0 .. n + 1
    BY <1>1
  <2> QED
    BY <2>1, OrderCells DEF Along
<1>2. CASE i = n + 1
  <2>1. 0 \in 0 .. n /\ 0 + 1 \in 0 .. n + 1 /\ f[i] = f[0] /\ 0 \in 0 .. n + 1
    BY <1>2 DEF Order
  <2> QED
    BY <2>1, OrderCells DEF Along
<1> QED
  BY <1>1, <1>2

LEMMA AgainstCells ==
  ASSUME NEW y, NEW n \in Nat, NEW f, Order(f, n), Against(y, f, n), NEW i \in 0 .. n + 1
  PROVE  y[f[i]] \in Cells
<1>1. CASE i # 0
  <2>1. i - 1 \in 0 .. n /\ (i - 1) + 1 = i /\ i - 1 \in 0 .. n + 1
    BY <1>1
  <2> QED
    BY <2>1, OrderCells DEF Against
<1>2. CASE i = 0
  <2>1. n \in 0 .. n /\ n \in 0 .. n + 1 /\ f[i] = f[n + 1]
    BY <1>2 DEF Order
  <2> QED
    BY <2>1, OrderCells DEF Against
<1> QED
  BY <1>1, <1>2

(* What the sentinel's next is, and what a reader of the chain sees. *)
LEMMA ReadyReads ==
  ASSUME NEW n \in Nat, NEW f, Ready(f, n)
  PROVE  /\ next[Sentinel] = f[1] /\ f[1] \in Cells /\ next[f[1]] \in Cells
         /\ Forward = Numbered(f, n) /\ Members = Elements(f, n) /\ Len(Forward) = n
         /\ Elements(f, n) \subseteq Links
<1>1. Order(f, n) /\ Along(next, f, n) /\ next \in [Cells -> Pointers] /\ ~Raw
  BY DEF Ready, RingInv, LinkedInv, DequeTypeInv, DequeTypeOK
<1>2. 0 \in 0 .. n /\ 0 + 1 = 1 /\ 1 \in 0 .. n + 1
  OBVIOUS
<1>3. next[Sentinel] = f[1]
  BY <1>1, <1>2 DEF Along, Order
<1>4. Chain(next) = Numbered(f, n)
  BY <1>1, ChainAlong
<1>5. Forward = Numbered(f, n)
  BY <1>1, <1>4 DEF Forward
<1>6. Len(Numbered(f, n)) = n /\ Range(Numbered(f, n)) = Elements(f, n)
  BY <1>1, NumberedIs
<1>7. f[1] \in Cells /\ next[f[1]] \in Cells
  BY <1>1, <1>2, AlongCells
<1>8. Elements(f, n) \subseteq Links
  BY <1>1 DEF Elements, Order, Numbering, Cells
<1> QED
  BY <1>3, <1>5, <1>6, <1>7, <1>8 DEF Members

(* The same of the next state. *)
LEMMA ReadyReadsThen ==
  ASSUME NEW n \in Nat, NEW f, Ready(f, n)'
  PROVE  Forward' = Numbered(f, n) /\ Members' = Elements(f, n)
<1>1. Order(f, n) /\ Along(next', f, n) /\ next' \in [Cells -> Pointers] /\ ~Raw'
  BY DEF Ready, RingInv, LinkedInv, DequeTypeInv, DequeTypeOK
<1>2. Chain(next') = Numbered(f, n)
  BY <1>1, ChainAlong
<1>3. Forward' = Numbered(f, n)
  BY <1>1, <1>2 DEF Forward
<1>4. Range(Numbered(f, n)) = Elements(f, n)
  BY <1>1, NumberedIs
<1>5. Elements(f, n) \subseteq Links
  BY <1>1 DEF Elements, Order, Numbering, Cells
<1> QED
  BY <1>3, <1>4, <1>5 DEF Members

LEMMA SameForward == UNCHANGED <<next, offset>> => UNCHANGED <<Forward, Members>>
<1> SUFFICES ASSUME UNCHANGED <<next, offset>> PROVE UNCHANGED <<Forward, Members>>
  OBVIOUS
<1>1. Chain(next') = Chain(next) /\ (Raw' <=> Raw)
  BY DEF Raw
<1>2. Forward' = Forward
  BY <1>1 DEF Forward
<1> QED
  BY <1>2 DEF Members

-----------------------------------------------------------------------------
(* The deque: the stores of the update functions *)

(* What every store of an update leaves alone. *)
UpdateStep ==
  /\ op # Idle /\ iter.mode # "destroy" /\ fate = "ok" /\ fate' = "ok"
  /\ UNCHANGED <<iter, seen, freed, offset, left, late>>
  /\ op' = Idle \/ (op'.name = op.name /\ op'.link = op.link)

LEMMA UpdateStepIs ==
  ASSUME DequeTypeInv, NEW name \in Updates, NEW k, Stored(name, k), Aside, UNCHANGED offset
  PROVE  UpdateStep
<1>1. /\ op.name = name /\ fate = "ok" /\ fate' = "ok" /\ op' = OpAfter(name, k)
      /\ UNCHANGED <<iter, seen, freed, left, late>>
  BY DEF Stored, Aside
<1>2. op # Idle /\ op.name # "reset"
  BY <1>1 DEF Idle, Updates
<1>3. iter.mode # "destroy"
  BY <1>2 DEF DequeTypeInv
<1>4. op' = Idle \/ (op'.name = op.name /\ op'.link = op.link)
  BY <1>1 DEF OpAfter
<1> QED
  BY <1>1, <1>2, <1>3, <1>4 DEF UpdateStep

(* The stores that each function does when no pointer leads it astray. *)
AddFrontStore ==
  \/ Stored("addfront", 1) /\ next' = [next EXCEPT ![op.link] = next[Sentinel]] /\ UNCHANGED <<prev, length>>
  \/ Stored("addfront", 2) /\ prev' = [prev EXCEPT ![op.link] = Sentinel] /\ UNCHANGED <<next, length>>
  \/ Stored("addfront", 3) /\ prev' = [prev EXCEPT ![next[Sentinel]] = op.link] /\ UNCHANGED <<next, length>>
  \/ Stored("addfront", 4) /\ next' = [next EXCEPT ![Sentinel] = op.link] /\ UNCHANGED <<prev, length>>
  \/ Stored("addfront", 5) /\ length' = length + 1 /\ UNCHANGED <<next, prev>>

AddBackStore ==
  \/ Stored("addback", 1) /\ next' = [next EXCEPT ![op.link] = Sentinel] /\ UNCHANGED <<prev, length>>
  \/ Stored("addback", 2) /\ prev' = [prev EXCEPT ![op.link] = prev[Sentinel]] /\ UNCHANGED <<next, length>>
  \/ Stored("addback", 3) /\ next' = [next EXCEPT ![prev[Sentinel]] = op.link] /\ UNCHANGED <<prev, length>>
  \/ Stored("addback", 4) /\ prev' = [prev EXCEPT ![Sentinel] = op.link] /\ UNCHANGED <<next, length>>
  \/ Stored("addback", 5) /\ length' = length + 1 /\ UNCHANGED <<next, prev>>

DeleteFrontStore ==
  \/ Stored("delfront", 1) /\ prev' = [prev EXCEPT ![next[op.link]] = Sentinel] /\ UNCHANGED <<next, length>>
  \/ Stored("delfront", 2) /\ next' = [next EXCEPT ![Sentinel] = next[op.link]] /\ UNCHANGED <<prev, length>>
  \/ Stored("delfront", 3) /\ length' = length - 1 /\ UNCHANGED <<next, prev>>

DeleteBackStore ==
  \/ Stored("delback", 1) /\ next' = [next EXCEPT ![prev[op.link]] = Sentinel] /\ UNCHANGED <<prev, length>>
  \/ Stored("delback", 2) /\ prev' = [prev EXCEPT ![Sentinel] = prev[op.link]] /\ UNCHANGED <<next, length>>
  \/ Stored("delback", 3) /\ length' = length - 1 /\ UNCHANGED <<next, prev>>

LEMMA AddFrontIs ==
  ASSUME DequeTypeInv, AddingFront
  PROVE  /\ Adding /\ UNCHANGED stable
         /\ \/ \E p \in {op.link, next[Sentinel], Sentinel} : Misled(p)
            \/ UpdateStep /\ AddFrontStore
<1>0. PICK l, h : l = op.link /\ h = next[Sentinel]
  OBVIOUS
<1>1. /\ op.name = "addfront" /\ Adding /\ fate = "ok" /\ stable' = stable /\ "addfront" \in Updates
      /\ Aside
  <2>1. UNCHANGED <<iter, seen, stable, left, late>> /\ op.name = "addfront" /\ fate = "ok" /\ freed' = freed
    BY DEF AddingFront, NthStore, Timely, loop
  <2> QED
    BY <2>1 DEF Aside, Adding, Updates
<1> SUFFICES \/ Misled(l) \/ Misled(h) \/ Misled(Sentinel)
             \/ UpdateStep /\ AddFrontStore
  BY <1>0, <1>1
<1>2. CASE NthStore("addfront", 1, SetNext(op.link, next[Sentinel]))
  <2>1. \/ Misled(l)
        \/ Stored("addfront", 1) /\ next' = [next EXCEPT ![l] = h] /\ UNCHANGED <<prev, length, offset>>
    BY <1>0, <1>1, <1>2, NextStoreIs DEF NthStore, SetNext, Through
  <2> QED
    BY <1>0, <1>1, <2>1, UpdateStepIs DEF AddFrontStore
<1>3. CASE NthStore("addfront", 2, SetPrev(op.link, Sentinel))
  <2>1. \/ Misled(l)
        \/ Stored("addfront", 2) /\ prev' = [prev EXCEPT ![l] = Sentinel] /\ UNCHANGED <<next, length, offset>>
    BY <1>0, <1>1, <1>3, PrevStoreIs DEF NthStore, SetPrev, Through
  <2> QED
    BY <1>0, <1>1, <2>1, UpdateStepIs DEF AddFrontStore
<1>4. CASE NthStore("addfront", 3, SetPrev(next[Sentinel], op.link))
  <2>1. \/ Misled(h)
        \/ Stored("addfront", 3) /\ prev' = [prev EXCEPT ![h] = l] /\ UNCHANGED <<next, length, offset>>
    BY <1>0, <1>1, <1>4, PrevStoreIs DEF NthStore, SetPrev, Through
  <2> QED
    BY <1>0, <1>1, <2>1, UpdateStepIs DEF AddFrontStore
<1>5. CASE NthStore("addfront", 4, SetNext(Sentinel, op.link))
  <2>1. \/ Misled(Sentinel)
        \/ Stored("addfront", 4) /\ next' = [next EXCEPT ![Sentinel] = l] /\ UNCHANGED <<prev, length, offset>>
    BY <1>0, <1>1, <1>5, NextStoreIs DEF NthStore, SetNext, Through
  <2> QED
    BY <1>0, <1>1, <2>1, UpdateStepIs DEF AddFrontStore
<1>6. CASE NthStore("addfront", 5, SetLength(length + 1))
  <2>1. Stored("addfront", 5) /\ length' = length + 1 /\ UNCHANGED <<next, prev, offset>>
    BY <1>1, <1>6, CountStoreIs DEF NthStore, SetLength
  <2> QED
    BY <1>1, <2>1, UpdateStepIs DEF AddFrontStore
<1> QED
  BY <1>2, <1>3, <1>4, <1>5, <1>6 DEF AddingFront

LEMMA AddBackIs ==
  ASSUME DequeTypeInv, AddingBack
  PROVE  /\ Adding /\ UNCHANGED stable
         /\ \/ \E p \in {op.link, Sentinel} : Misled(p)
            \/ op.at = 3 /\ Misled(prev[Sentinel])
            \/ UpdateStep /\ AddBackStore
<1>0. PICK l, h : l = op.link /\ h = prev[Sentinel]
  OBVIOUS
<1>1. /\ op.name = "addback" /\ Adding /\ fate = "ok" /\ stable' = stable /\ "addback" \in Updates
      /\ Aside
  <2>1. UNCHANGED <<iter, seen, stable, left, late>> /\ op.name = "addback" /\ fate = "ok" /\ freed' = freed
    BY DEF AddingBack, NthStore, Timely, loop
  <2> QED
    BY <2>1 DEF Aside, Adding, Updates
<1> SUFFICES \/ Misled(l) \/ Misled(Sentinel)
             \/ op.at = 3 /\ Misled(h)
             \/ UpdateStep /\ AddBackStore
  BY <1>0, <1>1
<1>2. CASE NthStore("addback", 1, SetNext(op.link, Sentinel))
  <2>1. \/ Misled(l)
        \/ Stored("addback", 1) /\ next' = [next EXCEPT ![l] = Sentinel] /\ UNCHANGED <<prev, length, offset>>
    BY <1>0, <1>1, <1>2, NextStoreIs DEF NthStore, SetNext, Through
  <2> QED
    BY <1>0, <1>1, <2>1, UpdateStepIs DEF AddBackStore
<1>3. CASE NthStore("addback", 2, SetPrev(op.link, prev[Sentinel]))
  <2>1. \/ Misled(l)
        \/ Stored("addback", 2) /\ prev' = [prev EXCEPT ![l] = h] /\ UNCHANGED <<next, length, offset>>
    BY <1>0, <1>1, <1>3, PrevStoreIs DEF NthStore, SetPrev, Through
  <2> QED
    BY <1>0, <1>1, <2>1, UpdateStepIs DEF AddBackStore
<1>4. CASE NthStore("addback", 3, SetNext(prev[Sentinel], op.link))
  <2>1. \/ Misled(h)
        \/ Stored("addback", 3) /\ next' = [next EXCEPT ![h] = l] /\ UNCHANGED <<prev, length, offset>>
    BY <1>0, <1>1, <1>4, NextStoreIs DEF NthStore, SetNext, Through
  <2>2. op.at = 3
    BY <1>4 DEF NthStore
  <2> QED
    BY <1>0, <1>1, <2>1, <2>2, UpdateStepIs DEF AddBackStore
<1>5. CASE NthStore("addback", 4, SetPrev(Sentinel, op.link))
  <2>1. \/ Misled(Sentinel)
        \/ Stored("addback", 4) /\ prev' = [prev EXCEPT ![Sentinel] = l] /\ UNCHANGED <<next, length, offset>>
    BY <1>0, <1>1, <1>5, PrevStoreIs DEF NthStore, SetPrev, Through
  <2> QED
    BY <1>0, <1>1, <2>1, UpdateStepIs DEF AddBackStore
<1>6. CASE NthStore("addback", 5, SetLength(length + 1))
  <2>1. Stored("addback", 5) /\ length' = length + 1 /\ UNCHANGED <<next, prev, offset>>
    BY <1>1, <1>6, CountStoreIs DEF NthStore, SetLength
  <2> QED
    BY <1>1, <2>1, UpdateStepIs DEF AddBackStore
<1> QED
  BY <1>2, <1>3, <1>4, <1>5, <1>6 DEF AddingBack

LEMMA DeleteFrontIs ==
  ASSUME DequeTypeInv, DeletingFront, op.at = 1 => next[op.link] \in Cells
  PROVE  /\ Removing /\ stable' = stable \cap Members' /\ op.name = "delfront"
         /\ \/ op.at = 1 /\ \E p \in {op.link, next[op.link]} : Misled(p)
            \/ Misled(Sentinel)
            \/ UpdateStep /\ DeleteFrontStore
<1>0. PICK l, h : l = op.link /\ h = next[op.link]
  OBVIOUS
<1>1. /\ op.name = "delfront" /\ Removing /\ fate = "ok" /\ stable' = stable \cap Members'
      /\ "delfront" \in Updates /\ Aside
  <2>1. UNCHANGED <<iter, seen, left, late>> /\ op.name = "delfront" /\ fate = "ok" /\ freed' = freed
        /\ stable' = stable \cap Members'
    BY DEF DeletingFront, NthStore, Timely
  <2> QED
    BY <2>1 DEF Aside, Removing, Updates
<1> SUFFICES \/ op.at = 1 /\ (Misled(l) \/ Misled(h))
             \/ Misled(Sentinel)
             \/ UpdateStep /\ DeleteFrontStore
  BY <1>0, <1>1
<1>2. CASE NthStore("delfront", 1,
             Through(op.link, IF next[op.link] = NULL THEN UNCHANGED <<heap, fate>>
                              ELSE SetPrev(next[op.link], Sentinel)))
  <2>0. op.at = 1 /\ h \in Cells /\ h # NULL
    BY <1>0, <1>2, NamesApart DEF NthStore
  <2>1. CASE l \notin Cells \ freed
    <3>1. fate' = Failure(l, freed) /\ UNCHANGED heap
      BY <1>0, <1>2, <2>1 DEF NthStore, Through
    <3>2. op' = op
      BY <1>2, <3>1 DEF NthStore, Failure
    <3>3. Misled(l)
      BY <1>1, <2>1, <3>1, <3>2 DEF Misled, Aside, heap
    <3> QED
      BY <2>0, <3>3
  <2>2. CASE l \in Cells \ freed
    <3>1. \/ Misled(h)
          \/ Stored("delfront", 1) /\ prev' = [prev EXCEPT ![h] = Sentinel] /\ UNCHANGED <<next, length, offset>>
      BY <1>0, <1>1, <1>2, <2>0, <2>2, PrevStoreIs DEF NthStore, Through, SetPrev
    <3> QED
      BY <1>0, <1>1, <2>0, <3>1, UpdateStepIs DEF DeleteFrontStore
  <2> QED
    BY <2>1, <2>2
<1>3. CASE NthStore("delfront", 2, SetNext(Sentinel, next[op.link]))
  <2>1. \/ Misled(Sentinel)
        \/ Stored("delfront", 2) /\ next' = [next EXCEPT ![Sentinel] = h] /\ UNCHANGED <<prev, length, offset>>
    BY <1>0, <1>1, <1>3, NextStoreIs DEF NthStore, SetNext, Through
  <2> QED
    BY <1>0, <1>1, <2>1, UpdateStepIs DEF DeleteFrontStore
<1>4. CASE NthStore("delfront", 3, SetLength(length - 1))
  <2>1. Stored("delfront", 3) /\ length' = length - 1 /\ UNCHANGED <<next, prev, offset>>
    BY <1>1, <1>4, CountStoreIs DEF NthStore, SetLength
  <2> QED
    BY <1>1, <2>1, UpdateStepIs DEF DeleteFrontStore
<1> QED
  BY <1>2, <1>3, <1>4 DEF DeletingFront

LEMMA DeleteBackIs ==
  ASSUME DequeTypeInv, DeletingBack, op.at = 1 => prev[op.link] \in Cells
  PROVE  /\ Removing /\ stable' = stable \cap Members' /\ op.name = "delback"
         /\ \/ op.at = 1 /\ \E p \in {op.link, prev[op.link]} : Misled(p)
            \/ Misled(Sentinel)
            \/ UpdateStep /\ DeleteBackStore
<1>0. PICK l, h : l = op.link /\ h = prev[op.link]
  OBVIOUS
<1>1. /\ op.name = "delback" /\ Removing /\ fate = "ok" /\ stable' = stable \cap Members'
      /\ "delback" \in Updates /\ Aside
  <2>1. UNCHANGED <<iter, seen, left, late>> /\ op.name = "delback" /\ fate = "ok" /\ freed' = freed
        /\ stable' = stable \cap Members'
    BY DEF DeletingBack, NthStore, Timely
  <2> QED
    BY <2>1 DEF Aside, Removing, Updates
<1> SUFFICES \/ op.at = 1 /\ (Misled(l) \/ Misled(h))
             \/ Misled(Sentinel)
             \/ UpdateStep /\ DeleteBackStore
  BY <1>0, <1>1
<1>2. CASE NthStore("delback", 1,
             Through(op.link, IF prev[op.link] = NULL THEN UNCHANGED <<heap, fate>>
                              ELSE SetNext(prev[op.link], Sentinel)))
  <2>0. op.at = 1 /\ h \in Cells /\ h # NULL
    BY <1>0, <1>2, NamesApart DEF NthStore
  <2>1. CASE l \notin Cells \ freed
    <3>1. fate' = Failure(l, freed) /\ UNCHANGED heap
      BY <1>0, <1>2, <2>1 DEF NthStore, Through
    <3>2. op' = op
      BY <1>2, <3>1 DEF NthStore, Failure
    <3>3. Misled(l)
      BY <1>1, <2>1, <3>1, <3>2 DEF Misled, Aside, heap
    <3> QED
      BY <2>0, <3>3
  <2>2. CASE l \in Cells \ freed
    <3>1. \/ Misled(h)
          \/ Stored("delback", 1) /\ next' = [next EXCEPT ![h] = Sentinel] /\ UNCHANGED <<prev, length, offset>>
      BY <1>0, <1>1, <1>2, <2>0, <2>2, NextStoreIs DEF NthStore, Through, SetNext
    <3> QED
      BY <1>0, <1>1, <2>0, <3>1, UpdateStepIs DEF DeleteBackStore
  <2> QED
    BY <2>1, <2>2
<1>3. CASE NthStore("delback", 2, SetPrev(Sentinel, prev[op.link]))
  <2>1. \/ Misled(Sentinel)
        \/ Stored("delback", 2) /\ prev' = [prev EXCEPT ![Sentinel] = h] /\ UNCHANGED <<next, length, offset>>
    BY <1>0, <1>1, <1>3, PrevStoreIs DEF NthStore, SetPrev, Through
  <2> QED
    BY <1>0, <1>1, <2>1, UpdateStepIs DEF DeleteBackStore
<1>4. CASE NthStore("delback", 3, SetLength(length - 1))
  <2>1. Stored("delback", 3) /\ length' = length - 1 /\ UNCHANGED <<next, prev, offset>>
    BY <1>1, <1>4, CountStoreIs DEF NthStore, SetLength
  <2> QED
    BY <1>1, <2>1, UpdateStepIs DEF DeleteBackStore
<1> QED
  BY <1>2, <1>3, <1>4 DEF DeletingBack

LEMMA ReadyIs ==
  ASSUME NEW n \in Nat, NEW f, Ready(f, n)
  PROVE  /\ DequeTypeInv /\ LinkInv /\ ~Raw /\ late = 0
         /\ Order(f, n) /\ Along(next, f, n)
         /\ left = "whole" => Stage(f, n)
         /\ left = "whole" /\ ~Resetting => length - n - Lag \in -Missing .. 0
         /\ length \in Int /\ next \in [Cells -> Pointers] /\ prev \in [Cells -> Pointers]
         /\ next[Sentinel] \in Cells /\ prev[Sentinel] \in Cells
         /\ stable \subseteq Links
BY DEF Ready, RingInv, LinkedInv, DequeTypeInv, DequeTypeOK

LEMMA ReadyFrom ==
  ASSUME NEW n \in Nat, NEW f, LinkedInv', ~Raw, late = 0, left = "whole", UpdateStep, ~Resetting,
         Order(f, n), Along(next', f, n), Stage(f, n)', length' - n - Lag' \in -Missing .. 0
  PROVE  Ready(f, n)'
<1>1. ~Raw' /\ late' = 0 /\ left' = "whole" /\ ~Resetting'
  BY DEF UpdateStep, Raw, Resetting, Idle, Resets
<1> QED
  BY <1>1 DEF Ready, RingInv, Missing

LEMMA AddFrontStores ==
  ASSUME NEW n \in Nat, NEW f, Ready(f, n), left = "whole", LinkedInv', UpdateStep, AddFrontStore
  PROVE  \/ Ready(f, n)'
         \/ \E l \in Links \ Elements(f, n) :
                 l = op.link /\ Ready(Before(l, f, n), n + 1)'
<1>0. PICK l : l = op.link
  OBVIOUS
<1>1. /\ DequeTypeInv /\ LinkInv /\ ~Raw /\ late = 0 /\ left = "whole" /\ ~Resetting
      /\ Order(f, n) /\ Along(next, f, n) /\ Stage(f, n)
      /\ length \in Int /\ length - n - Lag \in -Missing .. 0
      /\ next \in [Cells -> Pointers] /\ prev \in [Cells -> Pointers]
  <2>1. op.name = "addfront"
    BY DEF AddFrontStore, Stored
  <2>2. ~Resetting
    BY <2>1 DEF Resetting, Resets
  <2> QED
    BY <2>2, ReadyIs
<1>2. next[Sentinel] = f[1] /\ f[1] \in Cells /\ next[f[1]] \in Cells /\ Elements(f, n) \subseteq Links
  BY ReadyReads
<1>4. op.name = "addfront"
  BY DEF AddFrontStore, Stored
<1>5. /\ AddFrontStage(f, n) /\ Adding /\ l \in Links /\ l \in Cells /\ l # Sentinel
      /\ Lag = IF op.at = 5 THEN -1 ELSE 0
  BY <1>0, <1>1, <1>4, LagIs, NamesApart DEF Stage, Adding, DequeTypeInv
<1>6. "addfront" \in Updates /\ Stores["addfront"] = 5
  BY DEF Updates, Stores
<1>7. ASSUME op' = [name |-> "addfront", at |-> op.at + 1, link |-> l], NEW g, NEW k
      PROVE  /\ AddFrontStage(g, k)' => Stage(g, k)'
             /\ Lag' = IF op.at + 1 = 5 THEN -1 ELSE 0
             /\ op'.at = op.at + 1 /\ op'.link = l
  BY <1>0, <1>7, LagIsThen DEF Stage, Removing
<1>8. CASE Stored("addfront", 1) /\ next' = [next EXCEPT ![op.link] = next[Sentinel]] /\ UNCHANGED <<prev, length>>
  <2>1. 1 \in 1 .. Stores["addfront"] /\ 1 # 5
    BY <1>0, <1>6
  <2>2. op.at = 1 /\ op' = [name |-> "addfront", at |-> op.at + 1, link |-> l]
    BY <1>0, <1>1, <1>6, <1>8, <2>1 DEF Stored, OpAfter
  <2>3. next' = [next EXCEPT ![l] = f[1]] /\ UNCHANGED <<prev, length, offset>>
    BY <1>0, <1>1, <1>2, <1>5, <1>6, <1>8, <2>1 DEF UpdateStep
  <2>5. l \notin Elements(f, n) /\ Against(prev, f, n)
    BY <1>0, <1>5, <2>2 DEF AddFrontStage
  <2>6. Along(next', f, n)
    BY <1>0, <1>1, <1>5, <2>3, <2>5, StoreElsewhere
  <2>7. next'[l] = f[1]
    BY <1>0, <1>1, <1>5, <2>3
  <2>8. AddFrontStage(f, n)'
    BY <1>0, <1>7, <2>2, <2>3, <2>5, <2>7 DEF AddFrontStage
  <2>9. Stage(f, n)' /\ Lag' = 0 /\ Lag = 0
    BY <1>0, <1>5, <1>7, <2>2, <2>8
  <2>10. Ready(f, n)'
    BY <1>0, <1>1, <2>3, <2>6, <2>9, ReadyFrom
  <2> QED
    BY <1>0, <1>5, <2>10
<1>9. CASE Stored("addfront", 2) /\ prev' = [prev EXCEPT ![op.link] = Sentinel] /\ UNCHANGED <<next, length>>
  <2>1. 2 \in 1 .. Stores["addfront"] /\ 2 # 5
    BY <1>0, <1>6
  <2>2. op.at = 2 /\ op' = [name |-> "addfront", at |-> op.at + 1, link |-> l]
    BY <1>0, <1>1, <1>6, <1>9, <2>1 DEF Stored, OpAfter
  <2>3. prev' = [prev EXCEPT ![l] = Sentinel] /\ UNCHANGED <<next, length, offset>>
    BY <1>0, <1>1, <1>5, <1>6, <1>9, <2>1, NamesApart DEF UpdateStep
  <2>5. l \notin Elements(f, n) /\ next[l] = f[1] /\ Against(prev, f, n)
    BY <1>0, <1>5, <2>2 DEF AddFrontStage
  <2>6. Against(prev', f, n)
    BY <1>0, <1>1, <1>5, <2>3, <2>5, StoreElsewhere
  <2>7. prev'[l] = Sentinel
    BY <1>0, <1>1, <1>5, <2>3
  <2>8. AddFrontStage(f, n)'
    BY <1>0, <1>7, <2>2, <2>3, <2>5, <2>6, <2>7 DEF AddFrontStage
  <2>9. Stage(f, n)' /\ Lag' = 0 /\ Lag = 0
    BY <1>0, <1>5, <1>7, <2>2, <2>8
  <2>10. Ready(f, n)'
    BY <1>0, <1>1, <2>3, <2>9, ReadyFrom
  <2> QED
    BY <1>0, <1>5, <2>10
<1>10. CASE Stored("addfront", 3) /\ prev' = [prev EXCEPT ![next[Sentinel]] = op.link] /\ UNCHANGED <<next, length>>
  <2>1. 3 \in 1 .. Stores["addfront"] /\ 3 # 5
    BY <1>0, <1>6
  <2>2. op.at = 3 /\ op' = [name |-> "addfront", at |-> op.at + 1, link |-> l]
    BY <1>0, <1>1, <1>6, <1>10, <2>1 DEF Stored, OpAfter
  <2>3. prev' = [prev EXCEPT ![f[1]] = l] /\ UNCHANGED <<next, length, offset>>
    BY <1>0, <1>1, <1>2, <1>5, <1>6, <1>10, <2>1 DEF UpdateStep
  <2>5. l \notin Elements(f, n) /\ next[l] = f[1] /\ prev[l] = Sentinel /\ Against(prev, f, n)
    BY <1>0, <1>5, <2>2 DEF AddFrontStage
  <2>6. Against(prev', Before(l, f, n), n + 1)
    BY <1>0, <1>1, <1>5, <2>3, <2>5, AgainstBefore
  <2>8. AddFrontStage(f, n)'
    BY <1>0, <1>7, <2>2, <2>3, <2>5, <2>6 DEF AddFrontStage
  <2>9. Stage(f, n)' /\ Lag' = 0 /\ Lag = 0
    BY <1>0, <1>5, <1>7, <2>2, <2>8
  <2>10. Ready(f, n)'
    BY <1>0, <1>1, <2>3, <2>9, ReadyFrom
  <2> QED
    BY <1>0, <1>5, <2>10
<1>11. CASE Stored("addfront", 4) /\ next' = [next EXCEPT ![Sentinel] = op.link] /\ UNCHANGED <<prev, length>>
  <2> DEFINE g == Before(l, f, n)
             k == n + 1
  <2>1. 4 \in 1 .. Stores["addfront"] /\ 4 # 5 /\ k \in Nat
    BY <1>0, <1>6
  <2>2. op.at = 4 /\ op' = [name |-> "addfront", at |-> op.at + 1, link |-> l]
    BY <1>0, <1>1, <1>6, <1>11, <2>1 DEF Stored, OpAfter
  <2>5. l \notin Elements(f, n) /\ next[l] = f[1] /\ Against(prev, g, k)
    BY <1>0, <1>5, <2>2 DEF AddFrontStage
  <2>3. next' = [next EXCEPT ![Sentinel] = l] /\ UNCHANGED <<prev, length, offset>>
    BY <1>0, <1>1, <1>2, <1>5, <1>6, <1>11, <2>1, <2>5, NamesApart DEF UpdateStep
  <2>6. Along(next', g, k) /\ Order(g, k)
    BY <1>0, <1>1, <1>5, <2>3, <2>5, AlongBefore, BeforeOrder
  <2> HIDE DEF g, k
  <2>8. AddFrontStage(g, k)'
    BY <1>0, <1>7, <2>2, <2>3, <2>5 DEF AddFrontStage
  <2>9. Stage(g, k)' /\ Lag' = -1 /\ Lag = 0
    BY <1>0, <1>5, <1>7, <2>2, <2>8
  <2>10. length' - k - Lag' = length - n - Lag
    BY <1>0, <1>1, <2>3, <2>9 DEF k
  <2>11. Ready(g, k)'
    BY <1>0, <1>1, <2>1, <2>3, <2>6, <2>9, <2>10, ReadyFrom
  <2> QED
    BY <1>0, <1>5, <2>5, <2>11 DEF g, k
<1>12. CASE Stored("addfront", 5) /\ length' = length + 1 /\ UNCHANGED <<next, prev>>
  <2>1. 5 \in 1 .. Stores["addfront"]
    BY <1>0, <1>6
  <2>2. op.at = 5 /\ op' = Idle
    BY <1>0, <1>1, <1>6, <1>12, <2>1 DEF Stored, OpAfter
  <2>3. length' = length + 1 /\ UNCHANGED <<next, prev, offset>>
    BY <1>0, <1>1, <1>6, <1>12, <2>1 DEF UpdateStep
  <2>5. Against(prev, f, n)
    BY <1>0, <1>5, <2>2 DEF AddFrontStage
  <2>6. op'.name = "idle"
    BY <2>2 DEF Idle
  <2>9. Stage(f, n)' /\ Lag' = 0 /\ Lag = -1
    BY <1>0, <1>5, <2>2, <2>3, <2>5, <2>6, LagIsThen DEF Stage, Removing
  <2>10. length' - n - Lag' = length - n - Lag
    BY <1>0, <1>1, <2>3, <2>9
  <2>11. Ready(f, n)'
    BY <1>0, <1>1, <2>3, <2>9, <2>10, ReadyFrom
  <2> QED
    BY <1>0, <1>5, <2>11
<1> QED
  BY <1>0, <1>8, <1>9, <1>10, <1>11, <1>12 DEF AddFrontStore

LEMMA PrevReads ==
  ASSUME NEW n \in Nat, NEW f, Order(f, n), Against(prev, f, n)
  PROVE  prev[Sentinel] = f[n] /\ f[n] \in Cells
<1>1. n \in 0 .. n /\ n \in 0 .. n + 1
  OBVIOUS
<1> QED
  BY <1>1, OrderCells DEF Against, Order

LEMMA AddBackStores ==
  ASSUME NEW n \in Nat, NEW f, Ready(f, n), left = "whole", LinkedInv', UpdateStep, AddBackStore
  PROVE  \/ Ready(f, n)'
         \/ \E l \in Links \ Elements(f, n) :
                 l = op.link /\ Ready(Behind(l, f, n), n + 1)'
<1>0. PICK l : l = op.link
  OBVIOUS
<1>1. /\ DequeTypeInv /\ LinkInv /\ ~Raw /\ late = 0 /\ left = "whole" /\ ~Resetting
      /\ Order(f, n) /\ Along(next, f, n) /\ Stage(f, n)
      /\ length \in Int /\ length - n - Lag \in -Missing .. 0
      /\ next \in [Cells -> Pointers] /\ prev \in [Cells -> Pointers]
  <2>1. op.name = "addback"
    BY DEF AddBackStore, Stored
  <2>2. ~Resetting
    BY <2>1 DEF Resetting, Resets
  <2> QED
    BY <2>2, ReadyIs
<1>4. op.name = "addback"
  BY DEF AddBackStore, Stored
<1>5. /\ AddBackStage(f, n) /\ Adding /\ l \in Links /\ l \in Cells /\ l # Sentinel
      /\ Lag = IF op.at \in 4 .. 5 THEN -1 ELSE 0
  BY <1>0, <1>1, <1>4, LagIs, NamesApart DEF Stage, Adding, DequeTypeInv
<1>6. "addback" \in Updates /\ Stores["addback"] = 5
  BY DEF Updates, Stores
<1>7. ASSUME op' = [name |-> "addback", at |-> op.at + 1, link |-> l], NEW g, NEW k
      PROVE  /\ AddBackStage(g, k)' => Stage(g, k)'
             /\ Lag' = IF op.at + 1 \in 4 .. 5 THEN -1 ELSE 0
             /\ op'.at = op.at + 1 /\ op'.link = l
  BY <1>0, <1>7, LagIsThen DEF Stage, Removing
<1>8. CASE Stored("addback", 1) /\ next' = [next EXCEPT ![op.link] = Sentinel] /\ UNCHANGED <<prev, length>>
  <2>1. 1 \in 1 .. Stores["addback"] /\ 1 # 5
    BY <1>0, <1>6
  <2>2. op.at = 1 /\ op' = [name |-> "addback", at |-> op.at + 1, link |-> l]
    BY <1>0, <1>1, <1>6, <1>8, <2>1 DEF Stored, OpAfter
  <2>3. next' = [next EXCEPT ![l] = Sentinel] /\ UNCHANGED <<prev, length, offset>>
    BY <1>0, <1>1, <1>5, <1>6, <1>8, <2>1, NamesApart DEF UpdateStep
  <2>5. l \notin Elements(f, n) /\ Against(prev, f, n)
    BY <1>0, <1>5, <2>2 DEF AddBackStage
  <2>6. Along(next', f, n)
    BY <1>0, <1>1, <1>5, <2>3, <2>5, StoreElsewhere
  <2>7. next'[l] = Sentinel
    BY <1>0, <1>1, <1>5, <2>3
  <2>8. AddBackStage(f, n)'
    BY <1>0, <1>7, <2>2, <2>3, <2>5, <2>7 DEF AddBackStage
  <2>9. Stage(f, n)' /\ Lag' = 0 /\ Lag = 0
    BY <1>0, <1>5, <1>7, <2>2, <2>8
  <2>10. Ready(f, n)'
    BY <1>0, <1>1, <2>3, <2>6, <2>9, ReadyFrom
  <2> QED
    BY <1>0, <1>5, <2>10
<1>9. CASE Stored("addback", 2) /\ prev' = [prev EXCEPT ![op.link] = prev[Sentinel]] /\ UNCHANGED <<next, length>>
  <2>1. 2 \in 1 .. Stores["addback"] /\ 2 # 5
    BY <1>0, <1>6
  <2>2. op.at = 2 /\ op' = [name |-> "addback", at |-> op.at + 1, link |-> l]
    BY <1>0, <1>1, <1>6, <1>9, <2>1 DEF Stored, OpAfter
  <2>5. l \notin Elements(f, n) /\ next[l] = Sentinel /\ Against(prev, f, n)
    BY <1>0, <1>5, <2>2 DEF AddBackStage
  <2>11. prev[Sentinel] = f[n] /\ f[n] \in Cells
    BY <1>1, <2>5, PrevReads
  <2>3. prev' = [prev EXCEPT ![l] = f[n]] /\ UNCHANGED <<next, length, offset>>
    BY <1>0, <1>1, <1>5, <1>6, <1>9, <2>1, <2>11 DEF UpdateStep
  <2>6. Against(prev', f, n)
    BY <1>0, <1>1, <1>5, <2>3, <2>5, StoreElsewhere
  <2>7. prev'[l] = f[n]
    BY <1>0, <1>1, <1>5, <2>3
  <2>8. AddBackStage(f, n)'
    BY <1>0, <1>7, <2>2, <2>3, <2>5, <2>6, <2>7 DEF AddBackStage
  <2>9. Stage(f, n)' /\ Lag' = 0 /\ Lag = 0
    BY <1>0, <1>5, <1>7, <2>2, <2>8
  <2>10. Ready(f, n)'
    BY <1>0, <1>1, <2>3, <2>9, ReadyFrom
  <2> QED
    BY <1>0, <1>5, <2>10
<1>10. CASE Stored("addback", 3) /\ next' = [next EXCEPT ![prev[Sentinel]] = op.link] /\ UNCHANGED <<prev, length>>
  <2> DEFINE g == Behind(l, f, n)
             k == n + 1
  <2>1. 3 \in 1 .. Stores["addback"] /\ 3 # 5 /\ k \in Nat /\ k > 0 /\ k - 1 = n
    BY <1>0, <1>6
  <2>2. op.at = 3 /\ op' = [name |-> "addback", at |-> op.at + 1, link |-> l]
    BY <1>0, <1>1, <1>6, <1>10, <2>1 DEF Stored, OpAfter
  <2>5. l \notin Elements(f, n) /\ next[l] = Sentinel /\ prev[l] = f[n] /\ Against(prev, f, n)
    BY <1>0, <1>5, <2>2 DEF AddBackStage
  <2>11. prev[Sentinel] = f[n] /\ f[n] \in Cells
    BY <1>1, <2>5, PrevReads
  <2>3. next' = [next EXCEPT ![f[n]] = l] /\ UNCHANGED <<prev, length, offset>>
    BY <1>0, <1>1, <1>5, <1>6, <1>10, <2>1, <2>5, <2>11, NamesApart DEF UpdateStep
  <2>6. Along(next', g, k) /\ Order(g, k)
    BY <1>0, <1>1, <1>5, <2>3, <2>5, AlongBehind, BehindOrder
  <2>7. g[k] = l /\ \A i \in 0 .. n : g[i] = f[i]
    BY <1>1, <1>5, <2>5, BehindOrder
  <2>12. g[n] = f[n]
    BY <2>7
  <2>13. LastGone(g, k) = f
    BY <1>1, LastGoneBehind
  <2> HIDE DEF g, k
  <2>8. AddBackStage(g, k)'
    BY <1>0, <1>7, <2>1, <2>2, <2>3, <2>5, <2>7, <2>12, <2>13 DEF AddBackStage
  <2>9. Stage(g, k)' /\ Lag' = -1 /\ Lag = 0
    BY <1>0, <1>5, <1>7, <2>2, <2>8
  <2>10. length' - k - Lag' = length - n - Lag
    BY <1>0, <1>1, <2>3, <2>9 DEF k
  <2>14. Ready(g, k)'
    BY <1>0, <1>1, <2>1, <2>3, <2>6, <2>9, <2>10, ReadyFrom
  <2> QED
    BY <1>0, <1>5, <2>5, <2>14 DEF g, k
<1>11. CASE Stored("addback", 4) /\ prev' = [prev EXCEPT ![Sentinel] = op.link] /\ UNCHANGED <<next, length>>
  <2>1. 4 \in 1 .. Stores["addback"] /\ 4 # 5
    BY <1>0, <1>6
  <2>2. op.at = 4 /\ op' = [name |-> "addback", at |-> op.at + 1, link |-> l]
    BY <1>0, <1>1, <1>6, <1>11, <2>1 DEF Stored, OpAfter
  <2>3. prev' = [prev EXCEPT ![Sentinel] = l] /\ UNCHANGED <<next, length, offset>>
    BY <1>0, <1>1, <1>5, <1>6, <1>11, <2>1, NamesApart DEF UpdateStep
  <2> DEFINE g == LastGone(f, n)
             k == n - 1
  <2>5. n > 0 /\ f[n] = l /\ prev[l] = f[k] /\ Against(prev, g, k)
    BY <1>0, <1>5, <2>2 DEF AddBackStage
  <2>6. /\ n \in Nat \ {0} /\ k \in Nat /\ k + 1 = n /\ k \in 0 .. n - 1
    BY <2>5
  <2>7. /\ Order(g, k) /\ (\A i \in 0 .. n - 1 : g[i] = f[i])
        /\ Elements(g, k) = Elements(f, n) \ {f[n]}
    BY <1>1, <2>6, LastGoneOrder
  <2>11. l \notin Elements(g, k) /\ prev[l] = g[k]
    BY <2>5, <2>6, <2>7
  <2>12. Behind(l, g, k) = f
    BY <1>1, <2>5, <2>6, BehindLastGone
  <2> HIDE DEF g, k
  <2>13. Against([prev EXCEPT ![Sentinel] = l], Behind(l, g, k), k + 1)
    BY <1>1, <1>5, <2>5, <2>6, <2>7, <2>11, AgainstBehind
  <2>14. Against(prev', f, n)
    BY <2>3, <2>6, <2>12, <2>13
  <2>8. AddBackStage(f, n)'
    BY <1>0, <1>7, <2>2, <2>14 DEF AddBackStage
  <2>9. Stage(f, n)' /\ Lag' = -1 /\ Lag = -1
    BY <1>0, <1>5, <1>7, <2>2, <2>8
  <2>10. Ready(f, n)'
    BY <1>0, <1>1, <2>3, <2>9, ReadyFrom
  <2> QED
    BY <1>0, <1>5, <2>10
<1>12. CASE Stored("addback", 5) /\ length' = length + 1 /\ UNCHANGED <<next, prev>>
  <2>1. 5 \in 1 .. Stores["addback"]
    BY <1>0, <1>6
  <2>2. op.at = 5 /\ op' = Idle
    BY <1>0, <1>1, <1>6, <1>12, <2>1 DEF Stored, OpAfter
  <2>3. length' = length + 1 /\ UNCHANGED <<next, prev, offset>>
    BY <1>0, <1>1, <1>6, <1>12, <2>1 DEF UpdateStep
  <2>5. Against(prev, f, n)
    BY <1>0, <1>5, <2>2 DEF AddBackStage
  <2>6. op'.name = "idle"
    BY <2>2 DEF Idle
  <2>9. Stage(f, n)' /\ Lag' = 0 /\ Lag = -1
    BY <1>0, <1>5, <2>2, <2>3, <2>5, <2>6, LagIsThen DEF Stage, Removing
  <2>10. length' - n - Lag' = length - n - Lag
    BY <1>0, <1>1, <2>3, <2>9
  <2>11. Ready(f, n)'
    BY <1>0, <1>1, <2>3, <2>9, <2>10, ReadyFrom
  <2> QED
    BY <1>0, <1>5, <2>11
<1> QED
  BY <1>0, <1>8, <1>9, <1>10, <1>11, <1>12 DEF AddBackStore

LEMMA DeleteFrontStores ==
  ASSUME NEW n \in Nat, NEW f, Ready(f, n), left = "whole", LinkedInv', UpdateStep, DeleteFrontStore
  PROVE  \/ Ready(f, n)'
         \/ n # 0 /\ op.link = f[1] /\ Ready(FirstGone(f, n), n - 1)'
<1>0. PICK l : l = op.link
  OBVIOUS
<1>1. /\ DequeTypeInv /\ LinkInv /\ ~Raw /\ late = 0 /\ left = "whole" /\ ~Resetting
      /\ Order(f, n) /\ Along(next, f, n) /\ Stage(f, n)
      /\ length \in Int /\ length - n - Lag \in -Missing .. 0
      /\ next \in [Cells -> Pointers] /\ prev \in [Cells -> Pointers]
  <2>1. op.name = "delfront"
    BY DEF DeleteFrontStore, Stored
  <2>2. ~Resetting
    BY <2>1 DEF Resetting, Resets
  <2> QED
    BY <2>2, ReadyIs
<1>2. next[Sentinel] = f[1] /\ f[1] \in Cells /\ next[f[1]] \in Cells /\ Elements(f, n) \subseteq Links
  BY ReadyReads
<1>4. op.name = "delfront"
  BY DEF DeleteFrontStore, Stored
<1>5. Removing
  BY <1>4 DEF Removing
<1>6. "delfront" \in Updates /\ Stores["delfront"] = 3
  BY DEF Updates, Stores
<1>7. ASSUME op' = [name |-> "delfront", at |-> op.at + 1, link |-> l], NEW g, NEW k
      PROVE  /\ l = Sentinel /\ EmptyStage(g, k)' => Stage(g, k)'
             /\ l # Sentinel /\ DeleteFrontStage(g, k)' => Stage(g, k)'
             /\ Lag' = IF l # Sentinel /\ op.at + 1 = 3 THEN 1 ELSE 0
             /\ op'.at = op.at + 1 /\ op'.link = l
  BY <1>0, <1>7, LagIsThen DEF Stage, Removing
<1>8. /\ l = Sentinel => EmptyStage(f, n) /\ Lag = 0
      /\ l # Sentinel => DeleteFrontStage(f, n) /\ Lag = IF op.at = 3 THEN 1 ELSE 0
  BY <1>0, <1>1, <1>4, <1>5, LagIs DEF Stage
<1>9. ASSUME l = Sentinel
      PROVE  /\ n = 0 /\ length = 0 /\ Missing = 1 /\ Against(prev, f, n) /\ "empty" \in Misuse
             /\ f[1] = Sentinel /\ next[Sentinel] = Sentinel
             /\ prev[Sentinel] = Sentinel
  <2>1. n = 0 /\ length = 0 /\ Missing = 1 /\ Against(prev, f, n) /\ "empty" \in Misuse
    BY <1>8, <1>9, MissingIs DEF EmptyStage
  <2>2. f[0] = Sentinel /\ f[1] = Sentinel
    BY <1>1, <2>1 DEF Order
  <2>3. prev[Sentinel] = f[n]
    BY <1>1, <2>1, PrevReads
  <2> QED
    BY <1>2, <2>1, <2>2, <2>3
<1>10. ASSUME l # Sentinel, op.at \in 1 .. 2
       PROVE  /\ n \in Nat \ {0} /\ f[1] = l /\ next[l] = f[2] /\ f[2] \in Cells /\ next[f[2]] \in Cells
  <2>1. n \in Nat \ {0} /\ f[1] = l
    BY <1>0, <1>8, <1>10 DEF DeleteFrontStage
  <2>2. next[f[1]] = f[2]
    BY <1>1, <2>1, AlongFirstGone
  <2>4. 2 \in 0 .. n + 1
    BY <2>1
  <2>3. f[2] \in Cells /\ next[f[2]] \in Cells
    BY <1>1, <2>4, AlongCells
  <2> QED
    BY <2>1, <2>2, <2>3
<1>11. CASE Stored("delfront", 1) /\ prev' = [prev EXCEPT ![next[op.link]] = Sentinel] /\ UNCHANGED <<next, length>>
  <2>1. 1 \in 1 .. Stores["delfront"] /\ 1 # 3
    BY <1>6
  <2>2. op.at = 1 /\ op' = [name |-> "delfront", at |-> op.at + 1, link |-> l]
    BY <1>0, <1>1, <1>6, <1>11, <2>1 DEF Stored, OpAfter
  <2>3. ASSUME NEW p \in Cells, next[l] = p
        PROVE  prev' = [prev EXCEPT ![p] = Sentinel] /\ UNCHANGED <<next, length, offset>>
    <3>1. prev' = [prev EXCEPT ![p] = Sentinel] /\ UNCHANGED <<next, length, offset>>
      BY <1>0, <1>1, <1>6, <1>11, <2>1, <2>3, NamesApart DEF UpdateStep
    <3> QED
      BY <1>1, <1>6, <1>11, <2>1, <3>1
  <2>4. CASE l = Sentinel
    <3>1. prev' = [prev EXCEPT ![Sentinel] = Sentinel] /\ UNCHANGED <<next, length, offset>>
      BY <1>9, <2>3, <2>4, NamesApart
    <3>2. prev' = prev
      BY <1>1, <1>9, <2>4, <3>1
    <3>3. Stage(f, n)' /\ Lag' = Lag
      BY <1>7, <1>8, <1>9, <2>2, <2>4, <3>1, <3>2 DEF EmptyStage
    <3>4. Ready(f, n)'
      BY <1>1, <3>1, <3>3, ReadyFrom
    <3> QED
      BY <1>5, <3>1, <3>4
  <2>5. CASE l # Sentinel
    <3>1. /\ n \in Nat \ {0} /\ f[1] = l /\ next[l] = f[2] /\ f[2] \in Cells
          /\ Against(prev, f, n)
      BY <1>0, <1>8, <1>10, <2>2, <2>5 DEF DeleteFrontStage
    <3>2. prev' = [prev EXCEPT ![f[2]] = Sentinel] /\ UNCHANGED <<next, length, offset>>
      BY <2>3, <3>1
    <3>3. Against(prev', FirstGone(f, n), n - 1)
      BY <1>1, <3>1, <3>2, AgainstFirstGone
    <3>4. DeleteFrontStage(f, n)'
      BY <1>7, <2>2, <3>1, <3>3 DEF DeleteFrontStage
    <3>5. Stage(f, n)' /\ Lag' = 0 /\ Lag = 0
      BY <1>7, <1>8, <2>2, <2>5, <3>4
    <3>6. Ready(f, n)'
      BY <1>1, <3>2, <3>5, ReadyFrom
    <3> QED
      BY <1>5, <3>2, <3>6
  <2> QED
    BY <2>4, <2>5
<1>12. CASE Stored("delfront", 2) /\ next' = [next EXCEPT ![Sentinel] = next[op.link]] /\ UNCHANGED <<prev, length>>
  <2>1. 2 \in 1 .. Stores["delfront"] /\ 2 # 3
    BY <1>6
  <2>2. op.at = 2 /\ op' = [name |-> "delfront", at |-> op.at + 1, link |-> l]
    BY <1>0, <1>1, <1>6, <1>12, <2>1 DEF Stored, OpAfter
  <2>3. ASSUME NEW v \in Cells, next[l] = v, v \in Links => next[v] \in Cells
        PROVE  next' = [next EXCEPT ![Sentinel] = v] /\ UNCHANGED <<prev, length, offset>>
    <3>1. next' = [next EXCEPT ![Sentinel] = v] /\ UNCHANGED <<prev, length, offset>>
      BY <1>0, <1>1, <1>6, <1>12, <2>1, <2>3, NamesApart DEF UpdateStep
    <3> QED
      BY <1>1, <1>6, <1>12, <2>1, <3>1
  <2>4. CASE l = Sentinel
    <3>1. next' = [next EXCEPT ![Sentinel] = Sentinel] /\ UNCHANGED <<prev, length, offset>>
      BY <1>9, <2>3, <2>4, NamesApart
    <3>2. next' = next
      BY <1>1, <1>9, <2>4, <3>1
    <3>3. Stage(f, n)' /\ Lag' = Lag
      BY <1>7, <1>8, <1>9, <2>2, <2>4, <3>1, <3>2 DEF EmptyStage
    <3>4. Ready(f, n)'
      BY <1>1, <3>1, <3>2, <3>3, ReadyFrom
    <3> QED
      BY <1>5, <3>1, <3>4
  <2>5. CASE l # Sentinel
    <3> DEFINE g == FirstGone(f, n)
               k == n - 1
    <3>1. /\ n \in Nat \ {0} /\ f[1] = l /\ next[l] = f[2] /\ f[2] \in Cells /\ next[f[2]] \in Cells
          /\ Against(prev, g, k)
      BY <1>0, <1>8, <1>10, <2>2, <2>5 DEF DeleteFrontStage
    <3>2. next' = [next EXCEPT ![Sentinel] = f[2]] /\ UNCHANGED <<prev, length, offset>>
      BY <2>3, <3>1
    <3>3. Along(next', g, k) /\ Order(g, k) /\ k \in Nat
      BY <1>1, <3>1, <3>2, AlongFirstGone, FirstGoneOrder
    <3> HIDE DEF g
    <3>4. DeleteFrontStage(g, k)'
      BY <1>7, <2>2, <3>1, <3>2 DEF DeleteFrontStage
    <3>5. Stage(g, k)' /\ Lag' = 1 /\ Lag = 0
      BY <1>7, <1>8, <2>2, <2>5, <3>4
    <3>6. length' - k - Lag' = length - n - Lag
      BY <1>1, <3>2, <3>5
    <3> HIDE DEF k
    <3>7. Ready(g, k)'
      BY <1>1, <3>2, <3>3, <3>5, <3>6, ReadyFrom
    <3> QED
      BY <1>0, <1>5, <3>1, <3>2, <3>7 DEF g, k
  <2> QED
    BY <2>4, <2>5
<1>13. CASE Stored("delfront", 3) /\ length' = length - 1 /\ UNCHANGED <<next, prev>>
  <2>1. 3 \in 1 .. Stores["delfront"]
    BY <1>6
  <2>2. op.at = 3 /\ op' = Idle
    BY <1>0, <1>1, <1>6, <1>13, <2>1 DEF Stored, OpAfter
  <2>3. length' = length - 1 /\ UNCHANGED <<next, prev, offset>>
    BY <1>0, <1>1, <1>6, <1>13, <2>1 DEF UpdateStep
  <2>5. Against(prev, f, n)
    BY <1>0, <1>8, <1>9, <2>2 DEF DeleteFrontStage
  <2>6. op'.name = "idle"
    BY <2>2 DEF Idle
  <2>9. Stage(f, n)' /\ Lag' = 0
    BY <2>3, <2>5, <2>6, LagIsThen DEF Stage, Removing
  <2>10. length' - n - Lag' \in -Missing .. 0
    <3>1. CASE l = Sentinel
      BY <1>9, <2>3, <2>9, <3>1
    <3>2. CASE l # Sentinel
      <4>1. Lag = 1
        BY <1>8, <2>2, <3>2
      <4>2. length' - n - Lag' = length - n - Lag
        BY <1>1, <2>3, <2>9, <4>1
      <4> QED
        BY <1>1, <4>2
    <3> QED
      BY <3>1, <3>2
  <2>11. Ready(f, n)'
    BY <1>1, <2>3, <2>9, <2>10, ReadyFrom
  <2> QED
    BY <1>5, <2>11
<1> QED
  BY <1>0, <1>5, <1>11, <1>12, <1>13 DEF DeleteFrontStore

LEMMA DeleteBackStores ==
  ASSUME NEW n \in Nat, NEW f, Ready(f, n), left = "whole", LinkedInv', UpdateStep, DeleteBackStore
  PROVE  \/ Ready(f, n)'
         \/ n # 0 /\ op.link = f[n] /\ Ready(LastGone(f, n), n - 1)'
<1>0. PICK l : l = op.link
  OBVIOUS
<1>1. /\ DequeTypeInv /\ LinkInv /\ ~Raw /\ late = 0 /\ left = "whole" /\ ~Resetting
      /\ Order(f, n) /\ Along(next, f, n) /\ Stage(f, n)
      /\ length \in Int /\ length - n - Lag \in -Missing .. 0
      /\ next \in [Cells -> Pointers] /\ prev \in [Cells -> Pointers]
  <2>1. op.name = "delback"
    BY DEF DeleteBackStore, Stored
  <2>2. ~Resetting
    BY <2>1 DEF Resetting, Resets
  <2> QED
    BY <2>2, ReadyIs
<1>2. next[Sentinel] = f[1]
  BY ReadyReads
<1>4. op.name = "delback"
  BY DEF DeleteBackStore, Stored
<1>5. Removing
  BY <1>4 DEF Removing
<1>6. "delback" \in Updates /\ Stores["delback"] = 3
  BY DEF Updates, Stores
<1>7. ASSUME op' = [name |-> "delback", at |-> op.at + 1, link |-> l], NEW g, NEW k
      PROVE  /\ l = Sentinel /\ EmptyStage(g, k)' => Stage(g, k)'
             /\ l # Sentinel /\ DeleteBackStage(g, k)' => Stage(g, k)'
             /\ Lag' = IF l # Sentinel /\ op.at + 1 \in 2 .. 3 THEN 1 ELSE 0
             /\ op'.at = op.at + 1 /\ op'.link = l
  BY <1>0, <1>7, LagIsThen DEF Stage, Removing
<1>8. /\ l = Sentinel => EmptyStage(f, n) /\ Lag = 0
      /\ l # Sentinel => DeleteBackStage(f, n) /\ Lag = IF op.at \in 2 .. 3 THEN 1 ELSE 0
  BY <1>0, <1>1, <1>4, <1>5, LagIs DEF Stage
<1>9. ASSUME l = Sentinel
      PROVE  /\ n = 0 /\ length = 0 /\ Missing = 1 /\ Against(prev, f, n) /\ "empty" \in Misuse
             /\ next[Sentinel] = Sentinel /\ prev[Sentinel] = Sentinel
  <2>1. n = 0 /\ length = 0 /\ Missing = 1 /\ Against(prev, f, n) /\ "empty" \in Misuse
    BY <1>8, <1>9, MissingIs DEF EmptyStage
  <2>2. f[0] = Sentinel /\ f[1] = Sentinel
    BY <1>1, <2>1 DEF Order
  <2>3. prev[Sentinel] = f[n]
    BY <1>1, <2>1, PrevReads
  <2> QED
    BY <1>2, <2>1, <2>2, <2>3
<1>11. CASE Stored("delback", 1) /\ next' = [next EXCEPT ![prev[op.link]] = Sentinel] /\ UNCHANGED <<prev, length>>
  <2>1. 1 \in 1 .. Stores["delback"] /\ 1 # 3
    BY <1>6
  <2>2. op.at = 1 /\ op' = [name |-> "delback", at |-> op.at + 1, link |-> l]
    BY <1>0, <1>1, <1>6, <1>11, <2>1 DEF Stored, OpAfter
  <2>3. ASSUME NEW p \in Cells, prev[l] = p
        PROVE  next' = [next EXCEPT ![p] = Sentinel] /\ UNCHANGED <<prev, length, offset>>
    <3>1. next' = [next EXCEPT ![p] = Sentinel] /\ UNCHANGED <<prev, length, offset>>
      BY <1>0, <1>1, <1>6, <1>11, <2>1, <2>3, NamesApart DEF UpdateStep
    <3> QED
      BY <1>1, <1>6, <1>11, <2>1, <3>1
  <2>4. CASE l = Sentinel
    <3>1. next' = [next EXCEPT ![Sentinel] = Sentinel] /\ UNCHANGED <<prev, length, offset>>
      BY <1>9, <2>3, <2>4, NamesApart
    <3>2. next' = next
      BY <1>1, <1>9, <2>4, <3>1
    <3>3. Stage(f, n)' /\ Lag' = Lag
      BY <1>7, <1>8, <1>9, <2>2, <2>4, <3>1, <3>2 DEF EmptyStage
    <3>4. Ready(f, n)'
      BY <1>1, <3>1, <3>2, <3>3, ReadyFrom
    <3> QED
      BY <1>5, <3>1, <3>4
  <2>5. CASE l # Sentinel
    <3> DEFINE g == LastGone(f, n)
               k == n - 1
    <3>1. n \in Nat \ {0} /\ f[n] = l /\ Against(prev, f, n)
      BY <1>0, <1>8, <2>2, <2>5 DEF DeleteBackStage
    <3>2. k \in 0 .. n + 1 /\ k + 1 = n /\ k \in Nat
      BY <3>1
    <3>3. prev[f[n]] = f[k] /\ f[k] \in Cells
      BY <1>1, <3>1, <3>2, AgainstLastGone, OrderCells
    <3>4. next' = [next EXCEPT ![f[k]] = Sentinel] /\ UNCHANGED <<prev, length, offset>>
      BY <2>3, <3>1, <3>3
    <3>5. Along(next', g, k)
      BY <1>1, <3>1, <3>4, AlongLastGone
    <3>6. Order(g, k) /\ l \notin Elements(g, k)
      BY <1>1, <3>1, LastGoneOrder
    <3>7. Behind(l, g, k) = f
      BY <1>1, <3>1, BehindLastGone
    <3>8. l \in Links
      <4>1. n \in 0 .. n + 1
        BY <3>1
      <4> QED
        BY <1>1, <2>5, <3>1, <4>1, OrderCells DEF Cells
    <3> HIDE DEF g
    <3>9. DeleteBackStage(g, k)'
      BY <1>7, <2>2, <3>1, <3>2, <3>4, <3>6, <3>7, <3>8 DEF DeleteBackStage
    <3>10. Stage(g, k)' /\ Lag' = 1 /\ Lag = 0
      BY <1>7, <1>8, <2>2, <2>5, <3>9
    <3>11. length' - k - Lag' = length - n - Lag
      BY <1>1, <3>1, <3>4, <3>10
    <3> HIDE DEF k
    <3>12. Ready(g, k)'
      BY <1>1, <3>2, <3>4, <3>5, <3>6, <3>10, <3>11, ReadyFrom
    <3> QED
      BY <1>0, <1>5, <3>1, <3>4, <3>12 DEF g, k
  <2> QED
    BY <2>4, <2>5
<1>12. CASE Stored("delback", 2) /\ prev' = [prev EXCEPT ![Sentinel] = prev[op.link]] /\ UNCHANGED <<next, length>>
  <2>1. 2 \in 1 .. Stores["delback"] /\ 2 # 3
    BY <1>6
  <2>2. op.at = 2 /\ op' = [name |-> "delback", at |-> op.at + 1, link |-> l]
    BY <1>0, <1>1, <1>6, <1>12, <2>1 DEF Stored, OpAfter
  <2>3. ASSUME NEW v \in Cells, prev[l] = v
        PROVE  prev' = [prev EXCEPT ![Sentinel] = v] /\ UNCHANGED <<next, length, offset>>
    <3>1. prev' = [prev EXCEPT ![Sentinel] = v] /\ UNCHANGED <<next, length, offset>>
      BY <1>0, <1>1, <1>6, <1>12, <2>1, <2>3, NamesApart DEF UpdateStep
    <3> QED
      BY <1>1, <1>6, <1>12, <2>1, <3>1
  <2>4. CASE l = Sentinel
    <3>1. prev' = [prev EXCEPT ![Sentinel] = Sentinel] /\ UNCHANGED <<next, length, offset>>
      BY <1>9, <2>3, <2>4, NamesApart
    <3>2. prev' = prev
      BY <1>1, <1>9, <2>4, <3>1
    <3>3. Stage(f, n)' /\ Lag' = Lag
      BY <1>7, <1>8, <1>9, <2>2, <2>4, <3>1, <3>2 DEF EmptyStage
    <3>4. Ready(f, n)'
      BY <1>1, <3>1, <3>3, ReadyFrom
    <3> QED
      BY <1>5, <3>1, <3>4
  <2>5. CASE l # Sentinel
    <3> DEFINE h == Behind(l, f, n)
               m == n + 1
    <3>1. l \in Links /\ l \notin Elements(f, n) /\ Against(prev, h, m)
      BY <1>0, <1>8, <2>2, <2>5 DEF DeleteBackStage
    <3>2. m \in Nat \ {0} /\ m - 1 = n /\ n \in 0 .. n + 1 /\ n \in 0 .. n
      OBVIOUS
    <3>3. Order(h, m) /\ h[m] = l /\ \A i \in 0 .. n : h[i] = f[i]
      BY <1>1, <3>1, BehindOrder
    <3>4. LastGone(h, m) = f
      BY <1>1, LastGoneBehind
    <3>5. f[n] \in Cells /\ h[n] = f[n]
      BY <1>1, <3>2, <3>3, OrderCells
    <3> HIDE DEF h, m
    <3>6. /\ prev[h[m]] = h[m - 1]
          /\ Against([prev EXCEPT ![Sentinel] = h[m - 1]], LastGone(h, m), m - 1)
      BY <1>1, <3>1, <3>2, <3>3, AgainstLastGone
    <3>7. prev[l] = f[n] /\ Against([prev EXCEPT ![Sentinel] = f[n]], f, n)
      BY <3>2, <3>3, <3>4, <3>5, <3>6
    <3>8. prev' = [prev EXCEPT ![Sentinel] = f[n]] /\ UNCHANGED <<next, length, offset>>
      BY <2>3, <3>5, <3>7
    <3>9. DeleteBackStage(f, n)'
      BY <1>7, <2>2, <3>7, <3>8 DEF DeleteBackStage
    <3>10. Stage(f, n)' /\ Lag' = 1 /\ Lag = 1
      BY <1>7, <1>8, <2>2, <2>5, <3>9
    <3>11. Ready(f, n)'
      BY <1>1, <3>8, <3>10, ReadyFrom
    <3> QED
      BY <1>5, <3>8, <3>11
  <2> QED
    BY <2>4, <2>5
<1>13. CASE Stored("delback", 3) /\ length' = length - 1 /\ UNCHANGED <<next, prev>>
  <2>1. 3 \in 1 .. Stores["delback"]
    BY <1>6
  <2>2. op.at = 3 /\ op' = Idle
    BY <1>0, <1>1, <1>6, <1>13, <2>1 DEF Stored, OpAfter
  <2>3. length' = length - 1 /\ UNCHANGED <<next, prev, offset>>
    BY <1>0, <1>1, <1>6, <1>13, <2>1 DEF UpdateStep
  <2>5. Against(prev, f, n)
    BY <1>0, <1>8, <1>9, <2>2 DEF DeleteBackStage
  <2>6. op'.name = "idle"
    BY <2>2 DEF Idle
  <2>9. Stage(f, n)' /\ Lag' = 0
    BY <2>3, <2>5, <2>6, LagIsThen DEF Stage, Removing
  <2>10. length' - n - Lag' \in -Missing .. 0
    <3>1. CASE l = Sentinel
      BY <1>9, <2>3, <2>9, <3>1
    <3>2. CASE l # Sentinel
      <4>1. Lag = 1
        BY <1>8, <2>2, <3>2
      <4>2. length' - n - Lag' = length - n - Lag
        BY <1>1, <2>3, <2>9, <4>1
      <4> QED
        BY <1>1, <4>2
    <3> QED
      BY <3>1, <3>2
  <2>11. Ready(f, n)'
    BY <1>1, <2>3, <2>9, <2>10, ReadyFrom
  <2> QED
    BY <1>5, <2>11
<1> QED
  BY <1>0, <1>5, <1>11, <1>12, <1>13 DEF DeleteBackStore

-----------------------------------------------------------------------------
(* The deque: what a reader of either direction sees *)

(* Against the numbers, or against those of a ring that has an end element  *)
(* more or less: no other stage has left the two fields apart.              *)
LEMMA Turned ==
  ASSUME NEW n \in Nat, NEW f, Ready(f, n), left = "whole", ~Resetting
  PROVE  \/ Against(prev, f, n)
         \/ /\ op # Idle
            /\ \E l \in Links \ Elements(f, n) :
                 \/ Against(prev, Before(l, f, n), n + 1)
                 \/ Against(prev, Behind(l, f, n), n + 1)
         \/ op # Idle /\ n # 0 /\ Against(prev, FirstGone(f, n), n - 1)
         \/ op # Idle /\ n # 0 /\ Against(prev, LastGone(f, n), n - 1)
<1>1. DequeTypeInv /\ Stage(f, n) /\ ~Raw
  BY ReadyIs
<1>2. op.name \in Updates \cup {"idle"} /\ (op = Idle => op.name = "idle")
  BY <1>1, TypedIs DEF Resetting, Idle
<1>3. CASE op.name = "idle"
  BY <1>1, <1>3 DEF Stage
<1>4. CASE op.name = "addfront"
  <2>1. AddFrontStage(f, n) /\ op.link \in Links
    BY <1>1, <1>4 DEF Stage, DequeTypeInv, Adding
  <2>2. op # Idle
    BY <1>2, <1>4
  <2> QED
    BY <2>1, <2>2 DEF AddFrontStage
<1>5. CASE op.name = "addback"
  <2>1. AddBackStage(f, n)
    BY <1>1, <1>5 DEF Stage
  <2>2. op # Idle
    BY <1>2, <1>5
  <2> QED
    BY <2>1, <2>2 DEF AddBackStage
<1>6. CASE op.name = "delfront"
  <2>1. IF op.link = Sentinel THEN EmptyStage(f, n) ELSE DeleteFrontStage(f, n)
    BY <1>1, <1>6 DEF Stage, Removing
  <2>2. op # Idle
    BY <1>2, <1>6
  <2> QED
    BY <2>1, <2>2 DEF EmptyStage, DeleteFrontStage
<1>7. CASE op.name = "delback"
  <2>1. IF op.link = Sentinel THEN EmptyStage(f, n) ELSE DeleteBackStage(f, n)
    BY <1>1, <1>7 DEF Stage, Removing
  <2>2. op # Idle
    BY <1>2, <1>7
  <2> QED
    BY <2>1, <2>2 DEF EmptyStage, DeleteBackStage
<1> QED
  BY <1>2, <1>3, <1>4, <1>5, <1>6, <1>7 DEF Updates

LEMMA BackwardIs ==
  ASSUME NEW n \in Nat, NEW f, Order(f, n), Against(prev, f, n), prev \in [Cells -> Pointers], ~Raw
  PROVE  Backward = Numbered(f, n) /\ NULL \notin Range(Backward)
<1>1. Reverse(Chain(prev)) = Numbered(f, n)
  BY ChainAgainst
<1>2. Backward = Numbered(f, n)
  BY <1>1 DEF Backward
<1> QED
  BY <1>2, NumberedIs

LEMMA ReadyReadable ==
  ASSUME NEW n \in Nat, NEW f, Ready(f, n), left = "whole", ~Resetting
  PROVE  /\ Readable
         /\ op = Idle => Backward = Forward /\ length - Len(Forward) \in -Missing .. 0
<1>1. /\ DequeTypeInv /\ ~Raw /\ Order(f, n) /\ length \in Int /\ prev \in [Cells -> Pointers]
      /\ length - n - Lag \in -Missing .. 0
  BY ReadyIs
<1>2. Forward = Numbered(f, n) /\ Len(Forward) = n
  BY ReadyReads
<1>3. NULL \notin Range(Forward) /\ (Forward = << >> <=> n = 0)
  BY <1>1, <1>2, NumberedIs
<1>4. Lag \in -1 .. 1 /\ (op = Idle => Lag = 0)
  BY DEF Lag, Idle
<1>5. /\ length - Len(Forward) \in (-1 - Missing) .. 1
      /\ op = Idle => length - Len(Forward) \in -Missing .. 0
  BY <1>1, <1>2, <1>4, MissingIs
<1> DEFINE Agree == /\ NULL \notin Range(Backward)
                    /\ \/ Backward = Forward
                       \/ op # Idle /\ Backward # << >> /\ (Tail(Backward) = Forward \/ Front(Backward) = Forward)
                       \/ op # Idle /\ Forward # << >> /\ (Tail(Forward) = Backward \/ Front(Forward) = Backward)
<1>6. ASSUME Against(prev, f, n) PROVE Agree
  BY <1>1, <1>2, <1>6, BackwardIs
<1>7. ASSUME op # Idle, NEW l \in Links \ Elements(f, n), Against(prev, Before(l, f, n), n + 1) PROVE Agree
  <2> DEFINE g == Before(l, f, n)
             k == n + 1
  <2>1. Order(g, k) /\ k \in Nat /\ k # 0
    BY <1>1, BeforeOrder
  <2>2. Numbered(f, n) = Tail(Numbered(g, k))
    BY <1>1, NumberedBefore
  <2>3. Against(prev, g, k)
    BY <1>7
  <2> HIDE DEF g, k
  <2>4. Backward = Numbered(g, k) /\ NULL \notin Range(Backward)
    BY <1>1, <2>1, <2>3, BackwardIs
  <2>5. Backward # << >>
    BY <2>1, <2>4, NumberedIs
  <2> QED
    BY <1>2, <1>7, <2>2, <2>4, <2>5
<1>8. ASSUME op # Idle, NEW l \in Links \ Elements(f, n), Against(prev, Behind(l, f, n), n + 1) PROVE Agree
  <2> DEFINE g == Behind(l, f, n)
             k == n + 1
  <2>1. Order(g, k) /\ k \in Nat \ {0} /\ k - 1 = n
    BY <1>1, BehindOrder
  <2>2. LastGone(g, k) = f
    BY <1>1, LastGoneBehind
  <2>3. Against(prev, g, k)
    BY <1>8
  <2> HIDE DEF g, k
  <2>4. Backward = Numbered(g, k) /\ NULL \notin Range(Backward)
    BY <1>1, <2>1, <2>3, BackwardIs
  <2>5. Backward # << >>
    BY <2>1, <2>4, NumberedIs
  <2>6. Numbered(LastGone(g, k), k - 1) = Front(Numbered(g, k))
    BY <2>1, NumberedLastGone
  <2> QED
    BY <1>2, <1>8, <2>1, <2>2, <2>4, <2>5, <2>6
<1>9. ASSUME op # Idle, n # 0, Against(prev, FirstGone(f, n), n - 1) PROVE Agree
  <2> DEFINE g == FirstGone(f, n)
             k == n - 1
  <2>0. n \in Nat \ {0}
    BY <1>9
  <2>1. Order(g, k) /\ k \in Nat
    BY <1>1, <2>0, FirstGoneOrder
  <2>2. Numbered(g, k) = Tail(Numbered(f, n))
    BY <1>1, <2>0, NumberedFirstGone
  <2>3. Against(prev, g, k)
    BY <1>9
  <2> HIDE DEF g, k
  <2>4. Backward = Numbered(g, k) /\ NULL \notin Range(Backward)
    BY <1>1, <2>1, <2>3, BackwardIs
  <2> QED
    BY <1>2, <1>3, <1>9, <2>2, <2>4
<1>10. ASSUME op # Idle, n # 0, Against(prev, LastGone(f, n), n - 1) PROVE Agree
  <2> DEFINE g == LastGone(f, n)
             k == n - 1
  <2>0. n \in Nat \ {0}
    BY <1>10
  <2>1. Order(g, k) /\ k \in Nat
    BY <1>1, <2>0, LastGoneOrder
  <2>2. Numbered(g, k) = Front(Numbered(f, n))
    BY <1>1, <2>0, NumberedLastGone
  <2>3. Against(prev, g, k)
    BY <1>10
  <2> HIDE DEF g, k
  <2>4. Backward = Numbered(g, k) /\ NULL \notin Range(Backward)
    BY <1>1, <2>1, <2>3, BackwardIs
  <2> QED
    BY <1>2, <1>3, <1>10, <2>2, <2>4
<1> HIDE DEF Agree
<1>11. Agree
  BY <1>6, <1>7, <1>8, <1>9, <1>10, Turned
<1>12. Readable
  BY <1>3, <1>5, <1>11 DEF Agree, Readable, OneEndApart
<1> QED
  BY <1>5, <1>11, <1>12 DEF Agree

(* Whole or not, unless it was updated after an interrupt. *)
LEMMA RingedIs ==
  ASSUME DequeInv, ~Raw, late = 0
  PROVE  /\ \E n \in Nat : \E f : /\ Ready(f, n)
                                  /\ Careful /\ left # "destroy" => LoopInv(f, n)
         /\ RingedInv
<1>1. RingedInv /\ LinkedInv
  BY DEF DequeInv
<1>2. PICK n \in Nat : \E f \in Numbering(Cells, n) : RingInv(f, n) /\ (Careful /\ left # "destroy" => LoopInv(f, n))
  BY <1>1 DEF RingedInv
<1>3. PICK f : RingInv(f, n) /\ (Careful /\ left # "destroy" => LoopInv(f, n))
  BY <1>2
<1> QED
  BY <1>1, <1>3 DEF Ready

LEMMA ReadableNow ==
  ASSUME DequeInv, ~Raw, late = 0
  PROVE  /\ Readable
         /\ op = Idle /\ left = "whole" => Backward = Forward /\ length - Len(Forward) \in -Missing .. 0
<1>1. PICK n \in Nat : \E f : Ready(f, n)
  BY RingedIs
<1>2. PICK f : Ready(f, n)
  BY <1>1
<1>3. op = Idle => ~Resetting
  BY DEF Idle, Resetting, Resets
<1>4. CASE left = "whole" /\ ~Resetting
  BY <1>2, <1>4, ReadyReadable
<1>5. CASE left # "whole" \/ Resetting
  BY <1>3, <1>5, RingedIs DEF RingedInv
<1> QED
  BY <1>4, <1>5

LEMMA SoundOf == ASSUME DequeInv PROVE RingSound
<1>1. DequeTypeOK
  BY DEF DequeInv, LinkedInv, DequeTypeInv
<1> QED
  BY <1>1, ReadableNow DEF RingSound, Readable

-----------------------------------------------------------------------------
(* The deque: the stores of an update and a foreach that is under way *)

LEMMA LoopFrom ==
  ASSUME UpdateStep, NEW n \in Nat, NEW f, LoopInv(f, n), NEW m \in Nat, NEW g,
         Elements(g, m) \cap freed = {},
         iter.mode = "foreach" =>
           /\ stable' \subseteq Elements(g, m)
           /\ \E j \in 1 .. m + 1 :
                /\ iter.nxt = g[j]
                /\ \A i \in 1 .. m : i < j /\ g[i] \in stable' => g[i] \in seen
  PROVE  LoopInv(g, m)'
<1>1. iter' = iter /\ seen' = seen /\ freed' = freed /\ iter.mode # "destroy"
      /\ (op' = Idle \/ (op'.name = op.name /\ op'.link = op.link))
  BY DEF UpdateStep
<1>2. /\ Adding' => Adding /\ op'.link = op.link
      /\ Removing' => Removing /\ op'.link = op.link
  BY <1>1 DEF Adding, Removing, Idle
<1>3. /\ Adding => op.link \notin freed
      /\ iter.mode = "foreach" /\ Removing /\ op.link # Sentinel => op.link # iter.nxt
  BY DEF LoopInv
<1> QED
  BY <1>1, <1>2, <1>3 DEF LoopInv, ForeachAt

LEMMA LoopKept ==
  ASSUME UpdateStep, NEW n \in Nat, NEW f, LoopInv(f, n), stable' \subseteq stable
  PROVE  LoopInv(f, n)'
<1>1. Elements(f, n) \cap freed = {}
  BY DEF LoopInv, UpdateStep
<1>2. ASSUME iter.mode = "foreach"
      PROVE  /\ stable' \subseteq Elements(f, n)
             /\ \E j \in 1 .. n + 1 :
                  /\ iter.nxt = f[j]
                  /\ \A i \in 1 .. n : i < j /\ f[i] \in stable' => f[i] \in seen
  BY <1>2 DEF LoopInv, ForeachAt
<1> QED
  BY <1>1, <1>2, LoopFrom

LEMMA LoopBefore ==
  ASSUME UpdateStep, Adding, UNCHANGED stable,
         NEW n \in Nat, NEW f, LoopInv(f, n), Order(f, n),
         NEW l \in Links \ Elements(f, n), l = op.link
  PROVE  LoopInv(Before(l, f, n), n + 1)'
<1> DEFINE g == Before(l, f, n)
           m == n + 1
<1>1. /\ g[1] = l /\ (\A i \in 0 .. n : g[(i + 1) + 1] = f[i + 1])
      /\ Elements(g, m) = Elements(f, n) \cup {l}
  BY BeforeOrder
<1>2. \A i \in 1 .. n + 1 : i - 1 \in 0 .. n /\ (i - 1) + 1 = i /\ ((i - 1) + 1) + 1 = i + 1
                            /\ i + 1 \in 1 .. m + 1
  OBVIOUS
<1>3. m \in Nat /\ \A i \in 1 .. n + 1 : g[i + 1] = f[i]
  BY <1>1, <1>2
<1> HIDE DEF g
<1>4. Elements(g, m) \cap freed = {}
  BY <1>1 DEF LoopInv, UpdateStep
<1>5. ASSUME iter.mode = "foreach"
      PROVE  /\ stable' \subseteq Elements(g, m)
             /\ \E j \in 1 .. m + 1 :
                  /\ iter.nxt = g[j]
                  /\ \A i \in 1 .. m : i < j /\ g[i] \in stable' => g[i] \in seen
  <2>1. stable' = stable /\ stable \subseteq Elements(f, n)
    BY <1>5 DEF LoopInv
  <2>2. PICK k \in 1 .. n + 1 : ForeachAt(f, n, k)
    BY <1>5 DEF LoopInv
  <2>3. k + 1 \in 1 .. m + 1 /\ iter.nxt = g[k + 1]
    BY <1>2, <1>3, <2>2 DEF ForeachAt
  <2>4. ASSUME NEW i \in 1 .. m, i < k + 1, g[i] \in stable' PROVE g[i] \in seen
    <3>1. i # 1
      BY <1>1, <2>1, <2>4
    <3>2. i - 1 \in 1 .. n /\ i - 1 < k /\ (i - 1) + 1 = i /\ i - 1 \in 1 .. n + 1
      BY <2>4, <3>1
    <3>3. g[i] = f[i - 1]
      BY <1>3, <3>2
    <3> QED
      BY <2>1, <2>2, <2>4, <3>2, <3>3 DEF ForeachAt
  <2> QED
    BY <1>1, <2>1, <2>3, <2>4
<1> HIDE DEF m
<1>6. LoopInv(g, m)'
  BY <1>3, <1>4, <1>5, LoopFrom
<1> QED
  BY <1>6 DEF g, m

LEMMA LoopBehind ==
  ASSUME UpdateStep, Adding, UNCHANGED stable,
         NEW n \in Nat, NEW f, LoopInv(f, n), Order(f, n),
         NEW l \in Links \ Elements(f, n), l = op.link
  PROVE  LoopInv(Behind(l, f, n), n + 1)'
<1> DEFINE g == Behind(l, f, n)
           m == n + 1
<1>1. /\ (\A i \in 0 .. n : g[i] = f[i]) /\ g[n + 1] = l /\ g[(n + 1) + 1] = Sentinel
      /\ Elements(g, m) = Elements(f, n) \cup {l}
  BY BehindOrder
<1>2. m \in Nat /\ f[n + 1] = Sentinel
  BY DEF Order
<1> HIDE DEF g
<1>4. Elements(g, m) \cap freed = {}
  BY <1>1 DEF LoopInv, UpdateStep
<1>5. ASSUME iter.mode = "foreach"
      PROVE  /\ stable' \subseteq Elements(g, m)
             /\ \E j \in 1 .. m + 1 :
                  /\ iter.nxt = g[j]
                  /\ \A i \in 1 .. m : i < j /\ g[i] \in stable' => g[i] \in seen
  <2>1. stable' = stable /\ stable \subseteq Elements(f, n)
    BY <1>5 DEF LoopInv
  <2>2. PICK k \in 1 .. n + 1 : ForeachAt(f, n, k)
    BY <1>5 DEF LoopInv
  <2>3. ASSUME NEW j \in 1 .. m + 1, j <= k + 1, NEW i \in 1 .. m, i < j, g[i] \in stable',
               i < k \/ i = n + 1
        PROVE  g[i] \in seen
    <3>1. i # n + 1
      BY <1>1, <2>1, <2>3
    <3>2. i \in 1 .. n /\ i \in 0 .. n /\ i < k
      BY <2>3, <3>1
    <3>3. g[i] = f[i]
      BY <1>1, <3>2
    <3> QED
      BY <2>1, <2>2, <2>3, <3>2, <3>3 DEF ForeachAt
  <2>4. CASE k <= n
    <3>1. k \in 1 .. m + 1 /\ k \in 0 .. n /\ k <= k + 1
      BY <2>4
    <3>2. iter.nxt = g[k]
      BY <1>1, <2>2, <3>1 DEF ForeachAt
    <3>3. \A i \in 1 .. m : i < k /\ g[i] \in stable' => g[i] \in seen
      BY <2>3, <3>1
    <3> QED
      BY <1>1, <2>1, <3>1, <3>2, <3>3
  <2>5. CASE k = n + 1
    <3>1. m + 1 \in 1 .. m + 1 /\ m + 1 <= k + 1
      BY <2>5
    <3>2. iter.nxt = g[m + 1]
      BY <1>1, <1>2, <2>2, <2>5 DEF ForeachAt
    <3>3. \A i \in 1 .. m : i < k \/ i = n + 1
      BY <2>5
    <3>4. \A i \in 1 .. m : i < m + 1 /\ g[i] \in stable' => g[i] \in seen
      BY <2>3, <3>1, <3>3
    <3> QED
      BY <1>1, <2>1, <3>1, <3>2, <3>4
  <2> QED
    BY <2>4, <2>5
<1> HIDE DEF m
<1>6. LoopInv(g, m)'
  BY <1>2, <1>4, <1>5, LoopFrom
<1> QED
  BY <1>6 DEF g, m

LEMMA LoopFirstGone ==
  ASSUME UpdateStep, Removing, NEW n \in Nat \ {0}, NEW f, LoopInv(f, n), Order(f, n),
         op.link = f[1], stable' = stable \cap Elements(FirstGone(f, n), n - 1)
  PROVE  LoopInv(FirstGone(f, n), n - 1)'
<1> DEFINE g == FirstGone(f, n)
           m == n - 1
<1>1. /\ (\A i \in 1 .. n : g[i] = f[i + 1]) /\ m \in Nat
      /\ Elements(g, m) = Elements(f, n) \ {f[1]}
  BY FirstGoneOrder
<1>2. stable' = stable \cap Elements(g, m)
  OBVIOUS
<1> HIDE DEF g
<1>4. Elements(g, m) \cap freed = {}
  BY <1>1 DEF LoopInv, UpdateStep
<1>5. ASSUME iter.mode = "foreach"
      PROVE  /\ stable' \subseteq Elements(g, m)
             /\ \E j \in 1 .. m + 1 :
                  /\ iter.nxt = g[j]
                  /\ \A i \in 1 .. m : i < j /\ g[i] \in stable' => g[i] \in seen
  <2>0. 1 \in 1 .. n
    OBVIOUS
  <2>1. op.link # iter.nxt
    BY <1>5, <2>0 DEF LoopInv, Order
  <2>2. PICK k \in 1 .. n + 1 : ForeachAt(f, n, k)
    BY <1>5 DEF LoopInv
  <2>3. k # 1
    BY <2>1, <2>2 DEF ForeachAt
  <2>4. k - 1 \in 1 .. m + 1 /\ k - 1 \in 1 .. n /\ (k - 1) + 1 = k
    BY <2>3
  <2>5. iter.nxt = g[k - 1]
    BY <1>1, <2>2, <2>4 DEF ForeachAt
  <2>6. ASSUME NEW i \in 1 .. m, i < k - 1, g[i] \in stable' PROVE g[i] \in seen
    <3>1. i \in 1 .. n /\ i + 1 \in 1 .. n /\ i + 1 < k
      BY <2>6
    <3>2. g[i] = f[i + 1]
      BY <1>1, <3>1
    <3> QED
      BY <1>2, <2>2, <2>6, <3>1, <3>2 DEF ForeachAt
  <2> QED
    BY <1>2, <2>4, <2>5, <2>6
<1> HIDE DEF m
<1>6. LoopInv(g, m)'
  BY <1>1, <1>4, <1>5, LoopFrom
<1> QED
  BY <1>6 DEF g, m

LEMMA LoopLastGone ==
  ASSUME UpdateStep, Removing, NEW n \in Nat \ {0}, NEW f, LoopInv(f, n), Order(f, n),
         op.link = f[n], stable' = stable \cap Elements(LastGone(f, n), n - 1)
  PROVE  LoopInv(LastGone(f, n), n - 1)'
<1> DEFINE g == LastGone(f, n)
           m == n - 1
<1>1. /\ g[n] = Sentinel /\ (\A i \in 0 .. n - 1 : g[i] = f[i]) /\ m \in Nat
      /\ Elements(g, m) = Elements(f, n) \ {f[n]}
  BY LastGoneOrder
<1>2. stable' = stable \cap Elements(g, m) /\ f[n + 1] = Sentinel
  BY DEF Order
<1> HIDE DEF g
<1>4. Elements(g, m) \cap freed = {}
  BY <1>1 DEF LoopInv, UpdateStep
<1>5. ASSUME iter.mode = "foreach"
      PROVE  /\ stable' \subseteq Elements(g, m)
             /\ \E j \in 1 .. m + 1 :
                  /\ iter.nxt = g[j]
                  /\ \A i \in 1 .. m : i < j /\ g[i] \in stable' => g[i] \in seen
  <2>0. n \in 1 .. n
    OBVIOUS
  <2>1. op.link # iter.nxt
    BY <1>5, <2>0 DEF LoopInv, Order
  <2>2. PICK k \in 1 .. n + 1 : ForeachAt(f, n, k)
    BY <1>5 DEF LoopInv
  <2>3. k # n
    BY <2>1, <2>2 DEF ForeachAt
  <2>4. ASSUME NEW i \in 1 .. m, i < k, g[i] \in stable' PROVE g[i] \in seen
    <3>1. i \in 1 .. n /\ i \in 0 .. n - 1
      OBVIOUS
    <3>2. g[i] = f[i]
      BY <1>1, <3>1
    <3> QED
      BY <1>2, <2>2, <2>4, <3>1, <3>2 DEF ForeachAt
  <2>5. CASE k = n + 1
    <3>1. n \in 1 .. m + 1 /\ iter.nxt = g[n]
      BY <1>1, <1>2, <2>2, <2>5 DEF ForeachAt
    <3>2. \A i \in 1 .. m : i < n => i < k
      BY <2>5
    <3> QED
      BY <1>2, <2>4, <3>1, <3>2
  <2>6. CASE k # n + 1
    <3>1. k \in 1 .. m + 1 /\ k \in 0 .. n - 1
      BY <2>3, <2>6
    <3>2. iter.nxt = g[k]
      BY <1>1, <2>2, <3>1 DEF ForeachAt
    <3> QED
      BY <1>2, <2>4, <3>1, <3>2
  <2> QED
    BY <2>5, <2>6
<1> HIDE DEF m
<1>6. LoopInv(g, m)'
  BY <1>1, <1>4, <1>5, LoopFrom
<1> QED
  BY <1>6 DEF g, m

-----------------------------------------------------------------------------
(* The deque: what every step keeps *)

Status == IF late > 0 THEN "broken" ELSE IF left = "whole" THEN left ELSE "interrupted"

DequeMove == [Abstract!Next]_<<Forward, Status>>
VisitStep ==
  ~Raw /\ late' = 0 /\ iter'.mode # "off" /\ iter'.cur # iter.cur => iter'.cur \in Members
EndStep ==
  ~Raw /\ late = 0 /\ op = Idle /\ iter.mode = "foreach" /\ iter'.mode = "off" => stable \subseteq seen

DequeStep ==
  /\ ~Raw' /\ late' = 0 => RingedInv'
  /\ DequeMove
  /\ Careful => VisitStep /\ EndStep

(* What a step makes of the history of interrupts: nothing, an interrupt,   *)
(* or an update of a deque that was left half done.                         *)
StatusMove ==
  \/ Status' = Status
  \/ Status # "broken" /\ Status' = "interrupted"
  \/ Status # "whole" /\ Status' = "broken"

LEMMA SameIter == UNCHANGED iter => VisitStep /\ EndStep
BY DEF VisitStep, EndStep

LEMMA TimelyMove ==
  ASSUME Timely
  PROVE  StatusMove /\ left' = left /\ (late' = 0 <=> late = 0)
BY DEF Timely, StatusMove, Status

LEMMA LateMove ==
  ASSUME DequeTypeInv, LateCall, left # "whole"
  PROVE  StatusMove /\ left' = left /\ late' # 0
<1>1. late \in Nat /\ late' = late + 1 /\ left' = left
  BY DEF LateCall, DequeTypeInv, DequeTypeOK
<1>2. late' > 0 /\ late' # 0
  BY <1>1
<1>3. Status' = "broken" /\ Status # "whole"
  BY <1>2 DEF Status
<1> QED
  BY <1>1, <1>2, <1>3 DEF StatusMove

LEMMA UpdatedMove ==
  ASSUME DequeTypeInv, Updated
  PROVE  /\ StatusMove /\ left' = left /\ (late' = 0 => late = 0 /\ left = "whole")
         /\ late' # 0 => late # 0 \/ left # "whole"
<1>1. CASE left = "whole"
  <2>1. Timely /\ late = 0
    BY <1>1 DEF Updated, DequeTypeInv
  <2>2. late' = 0
    BY <2>1 DEF Timely
  <2> QED
    BY <1>1, <2>1, <2>2, TimelyMove
<1>2. CASE left # "whole"
  <2>1. LateCall
    BY <1>2 DEF Updated
  <2> QED
    BY <1>2, <2>1, LateMove
<1> QED
  BY <1>1, <1>2

(* The stores of the update functions. *)
LEMMA StoreMove ==
  ASSUME DequeTypeInv, AddingFront \/ AddingBack \/ DeletingFront \/ DeletingBack
  PROVE  /\ StatusMove /\ left' = left /\ (late' = 0 <=> late = 0)
         /\ offset' = offset /\ UNCHANGED iter
<1>1. Timely /\ UNCHANGED iter
  BY DEF AddingFront, AddingBack, DeletingFront, DeletingBack, loop
<1>2. offset' = offset
  BY DEF AddingFront, AddingBack, DeletingFront, DeletingBack, NthStore, SetNext, SetPrev, SetLength, Through, heap
<1> QED
  BY <1>1, <1>2, TimelyMove

(* The other steps leave the memory of the deque alone. *)
CallStep ==
  \/ deque_init \/ deque_reset \/ delete_front \/ delete_back
  \/ \E l \in Links : deque_addfront(l) \/ deque_addback(l) \/ Dispose(l)
  \/ \E mode \in {"foreach", "destroy"} : Foreach(mode)
  \/ ForeachNext \/ DestroyNext

LEMMA CallMove ==
  ASSUME DequeTypeInv, CallStep
  PROVE  /\ StatusMove /\ left' = left /\ (late' = 0 => late = 0)
         /\ late' # 0 => late # 0 \/ (left # "whole" /\ (iter.mode = "off" \/ UNCHANGED iter))
         /\ UNCHANGED <<next, prev, length, offset>>
<1>1. CASE deque_init \/ deque_reset
  <2>1. Timely /\ UNCHANGED <<next, prev, length, offset>>
    BY <1>1 DEF deque_init, deque_reset, Clear, heap
  <2> QED
    BY <2>1, TimelyMove
<1>2. CASE delete_front \/ delete_back
  <2>1. Updated /\ UNCHANGED <<next, prev, length, offset, iter>>
    BY <1>2 DEF delete_front, delete_back, Delete, heap, loop
  <2> QED
    BY <2>1, UpdatedMove
<1>3. CASE \E l \in Links : deque_addfront(l) \/ deque_addback(l) \/ Dispose(l)
  <2>1. Updated /\ UNCHANGED <<next, prev, length, offset, iter>>
    BY <1>3 DEF deque_addfront, deque_addback, Add, Dispose, heap, loop
  <2> QED
    BY <2>1, UpdatedMove
<1>4. CASE \E mode \in {"foreach", "destroy"} : Foreach(mode)
  <2>1. /\ IF left = "destroy" THEN LateCall ELSE Timely
        /\ UNCHANGED <<next, prev, length, offset>> /\ iter.mode = "off"
    BY <1>4 DEF Foreach, heap
  <2>2. CASE left = "destroy"
    BY <2>1, <2>2, LateMove
  <2>3. CASE left # "destroy"
    BY <2>1, <2>3, TimelyMove
  <2> QED
    BY <2>2, <2>3
<1>5. CASE ForeachNext \/ DestroyNext
  <2>1. Timely /\ UNCHANGED <<next, prev, length, offset>>
    BY <1>5 DEF ForeachNext, DestroyNext, heap
  <2> QED
    BY <2>1, TimelyMove
<1> QED
  BY <1>1, <1>2, <1>3, <1>4, <1>5 DEF CallStep

LEMMA JumpMove ==
  ASSUME DequeTypeInv, JumpOut
  PROVE  StatusMove /\ left' # "whole" /\ late' = late /\ UNCHANGED <<next, prev, length, offset>>
<1>1. /\ late' = late /\ late \in Nat /\ UNCHANGED <<next, prev, length, offset>>
      /\ left' = IF left = "destroy" \/ late > 0 THEN left
                 ELSE IF iter.mode = "destroy" THEN "destroy"
                 ELSE IF op.name \in Resets THEN "reset"
                 ELSE "update"
      /\ left = "whole" => late = 0
  BY DEF JumpOut, heap, DequeTypeInv, DequeTypeOK
<1>2. CASE left = "destroy" \/ late > 0
  BY <1>1, <1>2 DEF StatusMove, Status
<1>3. CASE ~(left = "destroy" \/ late > 0)
  BY <1>1, <1>3 DEF StatusMove, Status
<1> QED
  BY <1>2, <1>3

(* Before the deque is initialised a reader sees nothing of it. *)
LEMMA RawStep ==
  ASSUME Raw, Raw', StatusMove
  PROVE  DequeStep
<1>1. Forward' = << >> /\ Forward = << >>
  BY DEF Forward
<1>2. DequeMove
  BY <1>1 DEF DequeMove, StatusMove, Status, Abstract!Next, Abstract!Interrupt, Abstract!Break
<1> QED
  BY <1>2 DEF DequeStep, VisitStep, EndStep

(* A deque that was updated after an interrupt promises nothing. *)
LEMMA LateStep ==
  ASSUME DequeTypeInv, DequeTypeInv', late' # 0, late # 0 \/ (left # "whole" /\ (iter.mode = "off" \/ UNCHANGED iter))
  PROVE  DequeStep
<1>1. late \in Nat /\ late' \in Nat
  BY DEF DequeTypeInv, DequeTypeOK
<1>2. Status' = "broken" /\ Status # "whole"
  BY <1>1 DEF Status
<1>3. DequeMove
  BY <1>2 DEF DequeMove, Status, Abstract!Next, Abstract!Break
<1>4. VisitStep /\ EndStep
  BY DEF VisitStep, EndStep
<1> QED
  BY <1>3, <1>4 DEF DequeStep

(* The move of the abstract deque when a reader sees no difference. *)
LEMMA ReadMove ==
  ASSUME UNCHANGED Forward, StatusMove
  PROVE  DequeMove
BY DEF DequeMove, StatusMove, Status, Abstract!Next, Abstract!Interrupt, Abstract!Break

(* What a reader sees does not change with the rest. *)
LEMMA SameReader ==
  ASSUME UNCHANGED <<next, prev, length, offset>>
  PROVE  UNCHANGED <<Forward, Backward>> /\ (Readable /\ (Clearing => Clearing') => Readable')
<1>1. Chain(next') = Chain(next) /\ Chain(prev') = Chain(prev) /\ (Raw' <=> Raw)
  BY DEF Raw
<1>2. Forward' = Forward
  BY <1>1 DEF Forward
<1>3. Backward' = Backward
  BY <1>1 DEF Backward
<1>4. Readable /\ (Clearing => Clearing') => Readable'
  BY <1>2, <1>3 DEF Readable, Missing
<1> QED
  BY <1>2, <1>3, <1>4

-----------------------------------------------------------------------------
(* The deque: its resets *)

(* A sentinel that leads to itself. *)
LEMMA BareRing ==
  ASSUME NEW x \in [Cells -> Pointers], x[Sentinel] = Sentinel
  PROVE  /\ Chain(x) = << >> /\ NULL \notin Range(<< >>) /\ Reverse(<< >>) = << >>
         /\ \E f \in Numbering(Cells, 0) : Order(f, 0) /\ Along(x, f, 0) /\ f[0] = Sentinel /\ f[0 + 1] = Sentinel
<1> DEFINE f == [i \in 0 .. 1 |-> Sentinel]
<1>1. f \in [0 .. 0 + 1 -> Cells] /\ f[0] = Sentinel /\ f[0 + 1] = Sentinel
  BY NamesApart
<1> HIDE DEF f
<1>2. Order(f, 0) /\ f \in Numbering(Cells, 0)
  BY <1>1 DEF Order, Numbering
<1>3. Along(x, f, 0)
  BY <1>1 DEF Along
<1>4. Chain(x) = Numbered(f, 0)
  BY <1>2, <1>3, ChainAlong
<1>5. Numbered(f, 0) = << >> /\ NULL \notin Range(<< >>)
  BY <1>2, NumberedIs
<1>6. Reverse(<< >>) = << >>
  BY DEF Reverse
<1> QED
  BY <1>1, <1>2, <1>3, <1>4, <1>5, <1>6

LEMMA EmptyingStep ==
  ASSUME DequeInv, LinkedInv', Emptying
  PROVE  DequeStep
<1>1. DequeTypeInv /\ LinkedInv
  BY DEF DequeInv, LinkedInv
<1>2. PICK name \in Resets, k \in 1 .. 4 : EmptyStore(name, k)
  BY <1>1, EmptyingIs
<1>3. /\ next'[Sentinel] = Sentinel /\ (k # 1 => prev'[Sentinel] = Sentinel)
      /\ k = 4 => length' = 0 /\ ~Raw' /\ op' = Idle /\ iter'.mode # "destroy"
      /\ k # 4 => op' = [name |-> name, at |-> k + 1, link |-> op.link] /\ iter' = iter
      /\ fate' = "ok"
  BY <1>1, <1>2, EmptyStoreLinked
<1>4. /\ next' \in [Cells -> Pointers] /\ prev' \in [Cells -> Pointers]
  BY DEF LinkedInv, DequeTypeInv, DequeTypeOK
<1>5. /\ op.name = name /\ Resetting /\ op # Idle
      /\ k = 4 => left' = "whole" /\ late' = 0
      /\ k # 4 => left' = left /\ late' = late
      /\ iter' = iter \/ iter' = NoLoop
      /\ k = 1 => prev' = prev /\ offset' = offset
      /\ name = "reset" /\ k # 4 => offset' = offset
  BY <1>2 DEF EmptyStore, Stored, Resetting, EndLoop, Idle, Resets
<1>6. /\ k # 4 => op'.name = name /\ Resetting' /\ op' # Idle /\ ~Adding' /\ ~Removing'
      /\ k = 4 => op'.name = "idle" /\ op'.link = NULL /\ ~Resetting' /\ ~Adding' /\ ~Removing'
  BY <1>3 DEF Resetting, Adding, Removing, Resets, Idle
<1>7. Forward' = << >>
  <2>1. CASE Raw'
    BY <2>1 DEF Forward
  <2>2. CASE ~Raw'
    BY <1>3, <1>4, <2>2, BareRing DEF Forward
  <2> QED
    BY <2>1, <2>2
<1>8. DequeMove
  <2>1. Status' = Status \/ Status' = "whole"
    BY <1>5 DEF Status
  <2>2. Abstract!Clear
    BY <1>7, <2>1 DEF Abstract!Clear, Status
  <2> QED
    BY <2>2 DEF DequeMove, Abstract!Next, Status
<1>9. VisitStep /\ EndStep
  BY <1>5 DEF VisitStep, EndStep, NoLoop
<1>10. iter'.mode = "foreach" => ~Careful
  BY <1>1, <1>5 DEF DequeTypeInv, NoLoop
<1>11. ASSUME ~Raw', late' = 0 PROVE RingedInv'
  <2>1. PICK f \in Numbering(Cells, 0) : Order(f, 0) /\ Along(next', f, 0) /\ f[0] = Sentinel /\ f[0 + 1] = Sentinel
    BY <1>3, <1>4, BareRing
  <2>2. left' = "whole" => Stage(f, 0)'
    <3>1. CASE k = 4
      <4>1. Against(prev', f, 0)
        BY <1>3, <2>1, <3>1 DEF Against
      <4> QED
        BY <1>6, <3>1, <4>1 DEF Stage, Removing
    <3>2. CASE k # 4
      BY <1>6, <3>2 DEF Stage, Removing, Resets
    <3> QED
      BY <3>1, <3>2
  <2>3. ASSUME NEW n \in Nat, n = 0 PROVE RingInv(f, n)' /\ (Careful => LoopInv(f, n)')
    <3>1. ~Resetting' => length' - n - Lag' \in -Missing .. 0
      <4>1. ASSUME ~Resetting' PROVE length' = 0 /\ Lag' = 0
        BY <1>3, <1>6, <4>1, LagIsThen
      <4> QED
        BY <2>3, <4>1, MissingIs
    <3>2. RingInv(f, n)'
      BY <2>1, <2>2, <2>3, <3>1 DEF RingInv, Missing
    <3>3. Elements(f, n) = {}
      BY <2>3 DEF Elements
    <3>4. Careful => LoopInv(f, n)'
      BY <1>3, <1>6, <1>10, <3>3 DEF LoopInv
    <3> QED
      BY <3>2, <3>4
  <2>4. RingInv(f, 0)' /\ (Careful => LoopInv(f, 0)')
    BY <2>3
  <2>5. ASSUME k # 4 PROVE Readable'
    <3>1. Clearing'
      BY <1>6, <2>5 DEF Clearing, Resetting
    <3>2. NULL \notin Range(Backward')
      <4>1. CASE k = 1
        <5>1. ~Raw /\ late = 0
          BY <1>5, <1>11, <4>1 DEF Raw
        <5>2. Chain(prev') = Chain(prev)
          BY <1>5, <4>1
        <5>3. Backward' = Backward
          BY <1>11, <5>1, <5>2 DEF Backward
        <5>4. NULL \notin Range(Backward)
          BY <5>1, ReadableNow DEF Readable
        <5> QED
          BY <5>3, <5>4
      <4>2. CASE k # 1
        <5>1. Backward' = << >>
          BY <1>3, <1>4, <1>11, <4>2, BareRing DEF Backward
        <5> QED
          BY <5>1, <1>3, <1>4, BareRing
      <4> QED
        BY <4>1, <4>2
    <3>3. NULL \notin Range(Forward')
      BY <1>3, <1>4, <1>7, BareRing
    <3> QED
      BY <1>7, <3>1, <3>2, <3>3 DEF Readable
  <2>6. ASSUME Careful, left' = "destroy" PROVE iter'.mode = "off"
    <3>1. k # 4 /\ left = "destroy" /\ late = 0 /\ iter' = iter
      BY <1>3, <1>5, <1>11, <2>6
    <3>2. CASE name = "init"
      <4>1. iter.mode \in {"off", "foreach"}
        BY <1>1, <1>5, <3>2 DEF DequeTypeInv, DequeTypeOK
      <4> QED
        BY <1>10, <2>6, <3>1, <4>1
    <3>3. CASE name = "reset"
      <4>1. ~Raw
        BY <1>5, <1>11, <3>1, <3>3 DEF Raw
      <4>2. RingedInv
        BY <3>1, <4>1, RingedIs
      <4> QED
        BY <2>6, <3>1, <4>2 DEF RingedInv
    <3> QED
      BY <3>2, <3>3 DEF Resets
  <2>7. left' # "whole" \/ Resetting' => k # 4
    BY <1>5, <1>6
  <2>8. \E n \in Nat : \E g \in Numbering(Cells, n) :
           RingInv(g, n)' /\ (Careful /\ left' # "destroy" => LoopInv(g, n)')
    BY <2>1, <2>4
  <2> QED
    BY <1>3, <1>6, <2>5, <2>6, <2>7, <2>8 DEF RingedInv, Careful
<1> QED
  BY <1>8, <1>9, <1>11 DEF DequeStep

-----------------------------------------------------------------------------
(* The deque: the stores of an update *)

(* A ring that is not half done, and the foreach that walks it. *)
LEMMA RingedFrom ==
  ASSUME NEW n \in Nat, NEW f, Ready(f, n)', left' = "whole", ~Resetting',
         Careful => LoopInv(f, n)' /\ fate' = "ok"
  PROVE  RingedInv'
<1>1. RingInv(f, n)' /\ f \in Numbering(Cells, n)
  BY DEF Ready, RingInv, Order
<1> QED
  BY <1>1 DEF RingedInv, Careful

LEMMA KeptMove ==
  ASSUME NEW n \in Nat, NEW f, Ready(f, n), Ready(f, n)', StatusMove
  PROVE  DequeMove
<1>1. Forward = Numbered(f, n) /\ Forward' = Numbered(f, n)
  BY ReadyReads, ReadyReadsThen
<1> QED
  BY <1>1, ReadMove

LEMMA PushMove ==
  ASSUME NEW n \in Nat, NEW f, Ready(f, n), NEW l \in Links \ Elements(f, n), UpdateStep, left = "whole",
         NEW g, Ready(g, n + 1)', g = Before(l, f, n) \/ g = Behind(l, f, n)
  PROVE  DequeMove
<1> DEFINE m == n + 1
<1>1. m \in Nat /\ Ready(g, m)'
  OBVIOUS
<1> HIDE DEF m
<1>2. Forward = Numbered(f, n) /\ Members = Elements(f, n) /\ Forward' = Numbered(g, m)
  BY <1>1, ReadyReads, ReadyReadsThen
<1>3. l \notin Range(Forward) /\ Order(f, n)
  BY <1>2, ReadyIs DEF Members
<1>0. Status = "whole" /\ Status' = "whole"
  BY ReadyIs DEF UpdateStep, Status
<1>4. CASE g = Before(l, f, n)
  <2>1. Numbered(Before(l, f, n), n + 1) = <<l>> \o Numbered(f, n)
    BY <1>3, NumberedBefore
  <2>2. Forward' = <<l>> \o Forward
    BY <1>2, <1>4, <2>1 DEF m
  <2>3. Abstract!PushFront(l)
    BY <1>3, <2>2 DEF Abstract!PushFront, Abstract!Range, Range
  <2>4. Abstract!Operation
    BY <1>0, <2>3 DEF Abstract!Operation, Status
  <2> QED
    BY <2>4 DEF DequeMove, Abstract!Next, Status
<1>5. CASE g = Behind(l, f, n)
  <2>1. Numbered(Behind(l, f, n), n + 1) = Append(Numbered(f, n), l)
    BY <1>3, NumberedBehind
  <2>2. Forward' = Append(Forward, l)
    BY <1>2, <1>5, <2>1 DEF m
  <2>3. Abstract!PushBack(l)
    BY <1>3, <2>2 DEF Abstract!PushBack, Abstract!Range, Range
  <2>4. Abstract!Operation
    BY <1>0, <2>3 DEF Abstract!Operation, Status
  <2> QED
    BY <2>4 DEF DequeMove, Abstract!Next, Status
<1> QED
  BY <1>4, <1>5

LEMMA PopMove ==
  ASSUME NEW n \in Nat \ {0}, NEW f, Ready(f, n), UpdateStep, left = "whole",
         NEW g, Ready(g, n - 1)', g = FirstGone(f, n) \/ g = LastGone(f, n)
  PROVE  DequeMove
<1> DEFINE m == n - 1
<1>1. m \in Nat /\ Ready(g, m)' /\ n \in Nat
  OBVIOUS
<1> HIDE DEF m
<1>2. Forward = Numbered(f, n) /\ Forward' = Numbered(g, m) /\ Order(f, n)
  BY <1>1, ReadyReads, ReadyReadsThen, ReadyIs
<1>3. Forward # << >>
  BY <1>2, NumberedIs
<1>0. Status = "whole" /\ Status' = "whole"
  BY ReadyIs DEF UpdateStep, Status
<1>4. CASE g = FirstGone(f, n)
  <2>1. Numbered(FirstGone(f, n), n - 1) = Tail(Numbered(f, n))
    BY <1>2, NumberedFirstGone
  <2>2. Forward' = Tail(Forward)
    BY <1>2, <1>4, <2>1 DEF m
  <2>3. Abstract!PopFront
    BY <1>3, <2>2 DEF Abstract!PopFront
  <2>4. Abstract!Operation
    BY <1>0, <2>3 DEF Abstract!Operation, Status
  <2> QED
    BY <2>4 DEF DequeMove, Abstract!Next, Status
<1>5. CASE g = LastGone(f, n)
  <2>1. Numbered(LastGone(f, n), n - 1) = Front(Numbered(f, n))
    BY <1>2, NumberedLastGone
  <2>2. Forward' = Front(Forward)
    BY <1>2, <1>5, <2>1 DEF m
  <2>3. Abstract!PopBack
    BY <1>3, <2>2 DEF Abstract!PopBack, Abstract!Front, Front
  <2>4. Abstract!Operation
    BY <1>0, <2>3 DEF Abstract!Operation, Status
  <2> QED
    BY <2>4 DEF DequeMove, Abstract!Next, Status
<1> QED
  BY <1>4, <1>5

(* An element that is there, the sentinel and an object that is pushed are  *)
(* alive if the caller keeps to the rules of a foreach.                     *)
LEMMA Alive ==
  ASSUME DequeTypeInv, Adding \/ Removing, NEW n \in Nat, NEW f, LoopInv(f, n),
         NEW p, p \in Elements(f, n) \cup {Sentinel} \/ (Adding /\ p = op.link), Misled(p),
         Elements(f, n) \subseteq Links
  PROVE  FALSE
<1>1. iter.mode # "destroy"
  BY DEF DequeTypeInv, Adding, Removing, Idle
<1>2. freed \subseteq Links /\ (Adding => op.link \in Links)
  BY TypedIs DEF DequeTypeInv
<1>3. p \in Cells \ freed
  BY <1>1, <1>2, NamesApart DEF LoopInv
<1> QED
  BY <1>3 DEF Misled

(* A store through a pointer to a freed object. *)
LEMMA FailedStep ==
  ASSUME DequeInv, ~Raw, late = 0, left = "whole", Adding \/ Removing,
         NEW n \in Nat, NEW f, Ready(f, n), Careful => LoopInv(f, n),
         NEW p, p \in Elements(f, n) \cup {Sentinel} \/ (Adding /\ p = op.link), Misled(p)
  PROVE  DequeStep
<1>1. ~Careful
  <2>1. DequeTypeInv /\ Elements(f, n) \subseteq Links
    BY ReadyIs, ReadyReads
  <2> QED
    BY <2>1, Alive
<1>2. UNCHANGED <<next, prev, length, offset, op, iter, seen, freed, left, late>>
  BY DEF Misled
<1>3. StatusMove /\ UNCHANGED Forward
  BY <1>2, TimelyMove, SameReader DEF Timely
<1>4. RingInv(f, n) /\ f \in Numbering(Cells, n)
  BY DEF Ready, RingInv, Order
<1>5. RingInv(f, n)'
  BY <1>2, <1>4 DEF RingInv, Stage, AddFrontStage, AddBackStage, EmptyStage, DeleteFrontStage, DeleteBackStage,
       Removing, Resetting, Lag, Missing
<1>6. ~Resetting' /\ left' = "whole"
  BY <1>2 DEF Adding, Removing, Resetting, Resets
<1>7. RingedInv'
  BY <1>1, <1>4, <1>5, <1>6 DEF RingedInv, Careful
<1>8. DequeMove
  BY <1>3, ReadMove
<1> QED
  BY <1>1, <1>7, <1>8 DEF DequeStep

LEMMA UpdateReady ==
  ASSUME DequeInv, ~Raw, late = 0, Adding \/ Removing
  PROVE  /\ left = "whole" /\ (Careful => fate = "ok") /\ DequeTypeInv /\ ~Resetting
         /\ \E n \in Nat : \E f : Ready(f, n) /\ (Careful => LoopInv(f, n))
<1>1. RingedInv /\ \E n \in Nat : \E f : Ready(f, n) /\ (Careful /\ left # "destroy" => LoopInv(f, n))
  BY RingedIs
<1>2. left = "whole" /\ (Careful => fate = "ok")
  BY <1>1 DEF RingedInv
<1> QED
  BY <1>1, <1>2 DEF DequeInv, LinkedInv, Adding, Removing, Resetting, Resets

LEMMA AddingStep ==
  ASSUME DequeInv, ~Raw, late = 0, LinkedInv', AddingFront \/ AddingBack
  PROVE  DequeStep
<1>0. Adding
  BY DEF AddingFront, AddingBack, NthStore, Adding
<1>1. PICK n \in Nat : \E f : Ready(f, n) /\ (Careful => LoopInv(f, n))
  BY <1>0, UpdateReady
<1>2. PICK f : Ready(f, n) /\ (Careful => LoopInv(f, n))
  BY <1>1
<1>3. /\ DequeTypeInv /\ Order(f, n) /\ left = "whole" /\ ~Resetting /\ next[Sentinel] = f[1]
      /\ Stage(f, n) /\ StatusMove
  BY <1>0, <1>2, ReadyIs, ReadyReads, UpdateReady, StoreMove
<1>4. /\ UNCHANGED stable
      /\ \/ \E p : Misled(p) /\ (p \in Elements(f, n) \cup {Sentinel} \/ p = op.link)
         \/ UpdateStep /\ (AddFrontStore \/ AddBackStore)
  <2>1. CASE AddingFront
    <3>1. 1 \in 0 .. n + 1
      OBVIOUS
    <3>2. next[Sentinel] \in Elements(f, n) \cup {Sentinel}
      BY <1>3, <3>1, OrderCells
    <3> QED
      BY <1>3, <2>1, <3>2, AddFrontIs
  <2>2. CASE AddingBack
    <3>1. n \in 0 .. n + 1
      OBVIOUS
    <3>2. ASSUME op.at = 3 PROVE prev[Sentinel] \in Elements(f, n) \cup {Sentinel}
      <4>1. op.name = "addback"
        BY <2>2 DEF AddingBack, NthStore
      <4>2. Against(prev, f, n)
        BY <1>3, <3>2, <4>1 DEF Stage, AddBackStage
      <4>3. prev[Sentinel] = f[n]
        BY <1>3, <4>2, PrevReads
      <4> QED
        BY <1>3, <3>1, <4>3, OrderCells
    <3> QED
      BY <1>3, <2>2, <3>2, AddBackIs
  <2> QED
    BY <2>1, <2>2
<1>5. ASSUME NEW p, Misled(p), p \in Elements(f, n) \cup {Sentinel} \/ p = op.link
      PROVE  DequeStep
  BY <1>0, <1>2, <1>3, <1>5, FailedStep
<1>6. CASE UpdateStep /\ (AddFrontStore \/ AddBackStore)
  <2>1. /\ iter' = iter /\ fate' = "ok" /\ left' = "whole" /\ ~Resetting'
    BY <1>3, <1>6 DEF UpdateStep, Resetting, Idle, Resets
  <2>2. \/ Ready(f, n)'
        \/ \E l \in Links \ Elements(f, n) : l = op.link /\ Ready(Before(l, f, n), n + 1)'
        \/ \E l \in Links \ Elements(f, n) : l = op.link /\ Ready(Behind(l, f, n), n + 1)'
    BY <1>2, <1>3, <1>6, AddFrontStores, AddBackStores
  <2>3. CASE Ready(f, n)'
    <3>1. Careful => LoopInv(f, n)'
      BY <1>2, <1>4, <1>6, LoopKept
    <3>2. RingedInv'
      BY <2>1, <2>3, <3>1, RingedFrom
    <3> QED
      BY <1>2, <1>3, <2>1, <2>3, <3>2, KeptMove, SameIter DEF DequeStep
  <2>4. ASSUME NEW l \in Links \ Elements(f, n), l = op.link, NEW g, Ready(g, n + 1)',
               g = Before(l, f, n) \/ g = Behind(l, f, n)
        PROVE  DequeStep
    <3> DEFINE m == n + 1
    <3>0. UNCHANGED stable
      BY <1>0, <1>3, AddFrontIs, AddBackIs
    <3>1. Careful => LoopInv(g, n + 1)'
      BY <1>0, <1>2, <1>3, <1>6, <2>4, <3>0, LoopBefore, LoopBehind
    <3>2. DequeMove
      BY <1>2, <1>3, <1>6, <2>4, PushMove
    <3>3. m \in Nat /\ Ready(g, m)' /\ (Careful => LoopInv(g, m)')
      BY <2>4, <3>1
    <3> HIDE DEF m
    <3>4. RingedInv'
      BY <2>1, <3>3, RingedFrom
    <3> QED
      BY <2>1, <3>2, <3>4, SameIter DEF DequeStep
  <2> QED
    BY <2>2, <2>3, <2>4
<1> QED
  BY <1>4, <1>5, <1>6

LEMMA RemovingStep ==
  ASSUME DequeInv, ~Raw, late = 0, LinkedInv', DeletingFront \/ DeletingBack
  PROVE  DequeStep
<1>0. Removing
  BY DEF DeletingFront, DeletingBack, NthStore, Removing
<1>1. PICK n \in Nat : \E f : Ready(f, n) /\ (Careful => LoopInv(f, n))
  BY <1>0, UpdateReady
<1>2. PICK f : Ready(f, n) /\ (Careful => LoopInv(f, n))
  BY <1>1
<1>3. /\ DequeTypeInv /\ Order(f, n) /\ Along(next, f, n) /\ left = "whole" /\ ~Resetting /\ next[Sentinel] = f[1]
      /\ Stage(f, n) /\ StatusMove
  BY <1>0, <1>2, ReadyIs, ReadyReads, UpdateReady, StoreMove
<1>4. /\ stable' = stable \cap Members'
      /\ \/ \E p \in Elements(f, n) \cup {Sentinel} : Misled(p)
         \/ UpdateStep /\ (DeleteFrontStore \/ DeleteBackStore)
  <2>1. CASE DeletingFront
    <3>1. op.name = "delfront"
      BY <2>1 DEF DeletingFront, NthStore
    <3>2. ASSUME op.at = 1
          PROVE  /\ op.link \in Elements(f, n) \cup {Sentinel} /\ next[op.link] \in Elements(f, n) \cup {Sentinel}
                 /\ next[op.link] \in Cells
      <4>1. op.link = f[1]
        <5>1. CASE op.link = Sentinel
          <6>1. n = 0 /\ f[n + 1] = Sentinel
            BY <1>3, <3>1, <5>1 DEF Stage, Removing, EmptyStage, Order
          <6> QED
            BY <5>1, <6>1
        <5>2. CASE op.link # Sentinel
          BY <1>3, <3>1, <3>2, <5>2 DEF Stage, DeleteFrontStage
        <5> QED
          BY <5>1, <5>2
      <4>2. PICK i \in 0 .. n : op.link = f[i]
        <5>1. CASE n = 0
          BY <1>3, <4>1, <5>1 DEF Order
        <5>2. CASE n # 0
          BY <4>1, <5>2
        <5> QED
          BY <5>1, <5>2
      <4>3. i \in 0 .. n + 1 /\ i + 1 \in 0 .. n + 1 /\ next[f[i]] = f[i + 1]
        BY <1>3 DEF Along
      <4> QED
        BY <1>3, <4>2, <4>3, OrderCells
    <3> QED
      BY <1>3, <2>1, <3>2, DeleteFrontIs
  <2>2. CASE DeletingBack
    <3>1. op.name = "delback"
      BY <2>2 DEF DeletingBack, NthStore
    <3>2. ASSUME op.at = 1
          PROVE  /\ op.link \in Elements(f, n) \cup {Sentinel} /\ prev[op.link] \in Elements(f, n) \cup {Sentinel}
                 /\ prev[op.link] \in Cells
      <4>1. op.link = f[n] /\ Against(prev, f, n)
        <5>1. CASE op.link = Sentinel
          <6>1. n = 0 /\ f[0] = Sentinel /\ Against(prev, f, n)
            BY <1>3, <3>1, <5>1 DEF Stage, Removing, EmptyStage, Order
          <6> QED
            BY <5>1, <6>1
        <5>2. CASE op.link # Sentinel
          BY <1>3, <3>1, <3>2, <5>2 DEF Stage, DeleteBackStage
        <5> QED
          BY <5>1, <5>2
      <4>2. PICK i \in 0 .. n : op.link = f[i + 1]
        <5>1. CASE n = 0
          <6>1. f[0] = f[0 + 1] /\ 0 \in 0 .. n
            BY <1>3, <5>1 DEF Order
          <6> QED
            BY <4>1, <5>1, <6>1
        <5>2. CASE n # 0
          <6>1. n - 1 \in 0 .. n /\ (n - 1) + 1 = n
            BY <5>2
          <6> QED
            BY <4>1, <6>1
        <5> QED
          BY <5>1, <5>2
      <4>3. i \in 0 .. n + 1 /\ i + 1 \in 0 .. n + 1 /\ prev[f[i + 1]] = f[i]
        BY <4>1 DEF Against
      <4> QED
        BY <1>3, <4>2, <4>3, OrderCells
    <3> QED
      BY <1>3, <2>2, <3>2, DeleteBackIs
  <2> QED
    BY <2>1, <2>2
<1>5. ASSUME NEW p \in Elements(f, n) \cup {Sentinel}, Misled(p)
      PROVE  DequeStep
  BY <1>0, <1>2, <1>3, <1>5, FailedStep
<1>6. CASE UpdateStep /\ (DeleteFrontStore \/ DeleteBackStore)
  <2>1. /\ iter' = iter /\ fate' = "ok" /\ left' = "whole" /\ ~Resetting'
    BY <1>3, <1>6 DEF UpdateStep, Resetting, Idle, Resets
  <2>2. \/ Ready(f, n)'
        \/ n # 0 /\ op.link = f[1] /\ Ready(FirstGone(f, n), n - 1)'
        \/ n # 0 /\ op.link = f[n] /\ Ready(LastGone(f, n), n - 1)'
    BY <1>2, <1>3, <1>6, DeleteFrontStores, DeleteBackStores
  <2>3. CASE Ready(f, n)'
    <3>1. Careful => LoopInv(f, n)'
      BY <1>2, <1>4, <1>6, LoopKept
    <3>2. RingedInv'
      BY <2>1, <2>3, <3>1, RingedFrom
    <3> QED
      BY <1>2, <1>3, <2>1, <2>3, <3>2, KeptMove, SameIter DEF DequeStep
  <2>4. ASSUME n # 0, NEW g, Ready(g, n - 1)',
               \/ op.link = f[1] /\ g = FirstGone(f, n)
               \/ op.link = f[n] /\ g = LastGone(f, n)
        PROVE  DequeStep
    <3> DEFINE m == n - 1
    <3>1. n \in Nat \ {0} /\ m \in Nat /\ Ready(g, m)'
      BY <2>4
    <3>2. DequeMove
      BY <1>2, <1>3, <1>6, <2>4, <3>1, PopMove
    <3> HIDE DEF m
    <3>3. Members' = Elements(g, m)
      BY <3>1, ReadyReadsThen
    <3>4. stable' = stable \cap Elements(g, n - 1)
      BY <1>4, <3>3 DEF m
    <3>5. Careful => LoopInv(g, n - 1)'
      BY <1>0, <1>2, <1>3, <1>6, <2>4, <3>1, <3>4, LoopFirstGone, LoopLastGone
    <3>6. Careful => LoopInv(g, m)'
      BY <3>5 DEF m
    <3>7. RingedInv'
      BY <2>1, <3>1, <3>6, RingedFrom
    <3> QED
      BY <2>1, <3>2, <3>7, SameIter DEF DequeStep
  <2> QED
    BY <2>2, <2>3, <2>4
<1> QED
  BY <1>4, <1>5, <1>6

-----------------------------------------------------------------------------
(* The deque: the steps that leave its memory alone *)

LEMMA RingedKept ==
  ASSUME DequeInv, ~Raw, late = 0, UNCHANGED <<next, prev, length, offset>>,
         NEW n \in Nat, NEW f, Ready(f, n),
         left' = "whole" => left = "whole" /\ Stage(f, n)' /\ (~Resetting' => ~Resetting /\ Lag' = Lag),
         left' # "whole" => ~Adding' /\ ~Removing',
         Clearing => Clearing',
         Careful /\ left' # "destroy" => LoopInv(f, n)',
         Careful /\ left' = "destroy" => iter'.mode = "off",
         Careful => fate' = "ok"
  PROVE  RingedInv' /\ UNCHANGED Forward
<1>1. /\ Order(f, n) /\ Along(next, f, n) /\ f \in Numbering(Cells, n)
      /\ left = "whole" /\ ~Resetting => length - n - Lag \in -Missing .. 0
  BY DEF Ready, RingInv, Order
<1>2. RingInv(f, n)'
  BY <1>1 DEF RingInv, Missing
<1>3. Readable' /\ UNCHANGED Forward
  BY ReadableNow, SameReader
<1> QED
  BY <1>1, <1>2, <1>3 DEF RingedInv, Careful

(* Between two operations. *)
LEMMA IdleReady ==
  ASSUME NEW n \in Nat, NEW f, Ready(f, n), op = Idle, left = "whole"
  PROVE  /\ Against(prev, f, n) /\ Lag = 0 /\ length - n \in -Missing .. 0 /\ length \in Int
         /\ prev[Sentinel] = f[n] /\ f[n] \in Cells /\ Stage(f, n)
<1>1. op.name = "idle" /\ ~Resetting
  BY DEF Idle, Resetting, Resets
<1>2. /\ Stage(f, n) /\ Order(f, n) /\ length - n - Lag \in -Missing .. 0 /\ length \in Int
  BY <1>1, ReadyIs
<1>3. Against(prev, f, n) /\ Lag = 0
  BY <1>1, <1>2, LagIs DEF Stage
<1> QED
  BY <1>2, <1>3, PrevReads, MissingIs

LEMMA IdleStage ==
  ASSUME NEW n \in Nat, NEW f, Ready(f, n), op = Idle, op' = Idle, prev' = prev
  PROVE  /\ left = "whole" => Stage(f, n)' /\ ~Resetting /\ ~Resetting' /\ Lag' = Lag
         /\ ~Adding' /\ ~Removing' /\ ~Resetting' /\ (Clearing => Clearing' \/ left' # left)
<1>1. op.name = "idle" /\ op'.name = "idle" /\ ~Adding' /\ ~Removing' /\ ~Resetting' /\ ~Resetting
  BY DEF Idle, Resetting, Resets, Adding, Removing
<1>2. ASSUME left = "whole" PROVE Stage(f, n)' /\ Lag' = Lag
  <2>1. Against(prev', f, n) /\ Lag = 0
    BY <1>2, IdleReady
  <2> QED
    BY <1>1, <2>1, LagIsThen DEF Stage, Removing
<1> QED
  BY <1>1, <1>2 DEF Clearing, Resetting

(* The element a foreach begins with or goes on to, and those it has seen,  *)
(* are of the ring unless the deque was left in the middle of a destroy.    *)
LEMMA IdleRing ==
  ASSUME DequeInv, ~Raw, late = 0, op = Idle
  PROVE  /\ DequeTypeInv /\ LinkedInv /\ (Careful => fate = "ok")
         /\ Careful /\ left = "destroy" => iter.mode = "off"
         /\ \E n \in Nat : \E f : /\ Ready(f, n) /\ Order(f, n) /\ Along(next, f, n)
                                  /\ next[Sentinel] = f[1] /\ Members = Elements(f, n) /\ Elements(f, n) \subseteq Links
                                  /\ Careful /\ left # "destroy" => LoopInv(f, n)
<1>1. RingedInv /\ \E n \in Nat : \E f : Ready(f, n) /\ (Careful /\ left # "destroy" => LoopInv(f, n))
  BY RingedIs
<1>2. PICK n \in Nat : \E f : Ready(f, n) /\ (Careful /\ left # "destroy" => LoopInv(f, n))
  BY <1>1
<1>3. PICK f : Ready(f, n) /\ (Careful /\ left # "destroy" => LoopInv(f, n))
  BY <1>2
<1>4. /\ Order(f, n) /\ Along(next, f, n)
      /\ next[Sentinel] = f[1] /\ Members = Elements(f, n) /\ Elements(f, n) \subseteq Links
  BY <1>3, ReadyIs, ReadyReads
<1> QED
  BY <1>1, <1>3, <1>4 DEF DequeInv, LinkedInv, RingedInv

(* A function begins. *)
LEMMA BeginStep ==
  ASSUME DequeInv, ~Raw, late = 0, op = Idle, UNCHANGED <<next, prev, length, offset, iter, freed, fate, left, late>>,
         stable' = stable, seen' = seen,
         NEW n \in Nat, NEW f, Ready(f, n), Careful /\ left # "destroy" => LoopInv(f, n),
         NEW name \in Updates \cup Resets, NEW l, Begin(name, l),
         left = "whole" \/ name \in Resets,
         iter.mode = "destroy" => name = "reset",
         name \notin Resets => Stage(f, n)',
         name \in Resets /\ iter.mode = "foreach" => ~Careful,
         name \in {"addfront", "addback"} => l \notin freed,
         Careful /\ name \in {"delfront", "delback"} /\ iter.mode = "foreach" /\ l # Sentinel => l # iter.nxt
  PROVE  DequeStep
<1>1. op'.name = name /\ op'.at = 1 /\ op'.link = l /\ name # "idle" /\ op.name = "idle" /\ op' # Idle
  BY DEF Begin, Updates, Resets, Idle
<1>2. name \in Resets => Resetting' /\ ~Adding' /\ ~Removing' /\ Stage(f, n)'
  BY <1>1 DEF Resetting, Adding, Removing, Resets, Stage
<1>3. RingedInv /\ (left = "destroy" /\ Careful => iter.mode = "off") /\ (Careful => fate = "ok")
  BY RingedIs DEF RingedInv
<1>4. ~Resetting
  BY <1>1 DEF Resetting, Resets
<1>5. left' = "whole" => left = "whole" /\ Stage(f, n)' /\ (~Resetting' => ~Resetting /\ Lag' = Lag)
  <2>1. ASSUME left = "whole", ~Resetting' PROVE Lag' = Lag
    <3>1. name \in Updates
      BY <1>2, <2>1
    <3>2. Lag' = 0 /\ Lag = 0
      BY <1>1, <2>1, <3>1, IdleReady, LagIsThen DEF Updates
    <3> QED
      BY <3>2
  <2> QED
    BY <1>2, <1>4, <2>1
<1>6. left' # "whole" => ~Adding' /\ ~Removing'
  BY <1>2
<1>7. Clearing => Clearing'
  BY <1>4 DEF Clearing, Resetting
<1>8. ASSUME Careful, left' # "destroy" PROVE LoopInv(f, n)'
  <2>1. LoopInv(f, n)
    BY <1>8
  <2>2. iter.mode = "foreach" => name \notin Resets
    BY <1>8
  <2>3. /\ Adding' => op'.link \notin freed'
        /\ Removing' /\ iter.mode = "foreach" /\ op'.link # Sentinel => op'.link # iter.nxt
    BY <1>1, <1>8 DEF Adding, Removing
  <2> QED
    BY <1>1, <2>1, <2>3 DEF LoopInv, ForeachAt
<1>9. RingedInv' /\ UNCHANGED Forward
  BY <1>3, <1>5, <1>6, <1>7, <1>8, RingedKept
<1>10. DequeMove
  BY <1>9, TimelyMove, ReadMove DEF Timely
<1> QED
  BY <1>9, <1>10, SameIter DEF DequeStep

LEMMA ClearStep ==
  ASSUME DequeInv, ~Raw, late = 0, deque_init \/ deque_reset
  PROVE  DequeStep
<1>1. PICK name \in Resets : Clear(name)
  BY DEF deque_init, deque_reset, Resets
<1>2. /\ op = Idle /\ iter.mode # "destroy" /\ Begin(name, NULL)
      /\ iter.mode = "foreach" => ~Careful
      /\ UNCHANGED <<next, prev, length, offset, iter, seen, stable, freed, fate, left, late>>
  BY <1>1 DEF Clear, Quiet, Timely, heap, loop, Careful
<1>3. PICK n \in Nat : \E f : Ready(f, n) /\ (Careful /\ left # "destroy" => LoopInv(f, n))
  BY <1>2, IdleRing
<1>4. PICK f : Ready(f, n) /\ (Careful /\ left # "destroy" => LoopInv(f, n))
  BY <1>3
<1>5. name \notin {"addfront", "addback", "delfront", "delback"} /\ name \in Updates \cup Resets
  BY DEF Resets
<1> QED
  BY <1>2, <1>4, <1>5, BeginStep

(* An update that is not late is one of a deque that is whole. *)
LEMMA AddStep ==
  ASSUME DequeInv, ~Raw, late = 0, late' = 0, NEW name \in {"addfront", "addback"}, NEW l \in Links, Add(name, l)
  PROVE  DequeStep
<1>0. DequeTypeInv /\ Updated
  BY DEF DequeInv, LinkedInv, Add
<1>1. left = "whole" /\ left' = left
  BY <1>0, UpdatedMove
<1>2. /\ op = Idle /\ iter.mode # "destroy" /\ l \notin Members /\ l \notin freed /\ Begin(name, l)
      /\ UNCHANGED <<next, prev, length, offset, iter, seen, stable, freed, fate, left, late>>
  BY <1>1 DEF Add, Quiet, heap, loop
<1>3. PICK n \in Nat : \E f : Ready(f, n) /\ Members = Elements(f, n) /\ (Careful /\ left # "destroy" => LoopInv(f, n))
  BY <1>2, IdleRing
<1>4. PICK f : Ready(f, n) /\ Members = Elements(f, n) /\ (Careful /\ left # "destroy" => LoopInv(f, n))
  BY <1>3
<1>6. l \notin Elements(f, n) /\ Against(prev, f, n)
  BY <1>1, <1>2, <1>4, IdleReady
<1>7. op'.name = name /\ op'.at = 1 /\ op'.link = l /\ prev' = prev /\ next' = next
  BY <1>2 DEF Begin
<1>8. AddFrontStage(f, n)' /\ AddBackStage(f, n)'
  BY <1>6, <1>7 DEF AddFrontStage, AddBackStage
<1>9. Stage(f, n)'
  BY <1>7, <1>8 DEF Stage, Removing
<1>10. name \in Updates \cup Resets /\ name \notin {"delfront", "delback"} /\ name \notin Resets
  BY DEF Updates, Resets
<1> QED
  BY <1>1, <1>2, <1>4, <1>9, <1>10, BeginStep

LEMMA DeleteStep ==
  ASSUME DequeInv, ~Raw, late = 0, late' = 0, delete_front \/ delete_back
  PROVE  DequeStep
<1>0. PICK name, l : /\ Delete(name, l)
                     /\ \/ name = "delfront" /\ l = next[Sentinel]
                        \/ name = "delback" /\ l = prev[Sentinel]
  BY DEF delete_front, delete_back
<1>1. left = "whole" /\ left' = left /\ DequeTypeInv
  <2>1. DequeTypeInv /\ Updated
    BY <1>0 DEF DequeInv, LinkedInv, Delete
  <2> QED
    BY <2>1, UpdatedMove
<1>2. /\ op = Idle /\ iter.mode # "destroy"
      /\ l = Sentinel => "empty" \in Misuse /\ length >= 0
      /\ iter.mode = "foreach" /\ l = iter.nxt /\ l # Sentinel => ~Careful
      /\ UNCHANGED <<next, prev, length, offset, iter, seen, stable, freed, left, late>>
  BY <1>0, <1>1 DEF Delete, Quiet, MayDeleteFromEmpty, heap, loop, Careful
<1>3. PICK n \in Nat : \E f : Ready(f, n) /\ Order(f, n) /\ next[Sentinel] = f[1]
                              /\ (Careful /\ left # "destroy" => LoopInv(f, n))
  BY <1>2, IdleRing
<1>4. PICK f : Ready(f, n) /\ Order(f, n) /\ next[Sentinel] = f[1] /\ (Careful /\ left # "destroy" => LoopInv(f, n))
  BY <1>3
<1>6. /\ Against(prev, f, n) /\ length - n \in -Missing .. 0 /\ length \in Int
      /\ prev[Sentinel] = f[n] /\ next[Sentinel] \in Cells
  BY <1>1, <1>2, <1>4, IdleReady, ReadyReads
<1>7. next[Sentinel] # NULL
  BY <1>6, NamesApart
<1>8. Begin(name, l) /\ UNCHANGED fate
  BY <1>0, <1>7 DEF Delete
<1>9. name \in Updates \cup Resets /\ name \notin {"addfront", "addback"} /\ name \notin Resets
  BY <1>0 DEF Updates, Resets
<1>11. op'.name = name /\ op'.at = 1 /\ op'.link = l /\ prev' = prev /\ next' = next /\ length' = length
  BY <1>2, <1>8 DEF Begin
<1>12. Stage(f, n)'
  <2>1. CASE n = 0
    <3>1. f[0] = Sentinel /\ f[1] = Sentinel
      BY <1>4, <2>1 DEF Order
    <3>2. l = Sentinel
      BY <1>0, <1>4, <1>6, <2>1, <3>1
    <3>3. length = 0 /\ "empty" \in Misuse
      BY <1>2, <1>6, <2>1, <3>2, MissingIs
    <3>4. EmptyStage(f, n)'
      BY <1>6, <1>11, <2>1, <3>3 DEF EmptyStage
    <3> QED
      BY <1>0, <1>11, <3>2, <3>4 DEF Stage, Removing
  <2>2. CASE n # 0
    <3>1. 1 \in 1 .. n /\ n \in 1 .. n
      BY <2>2
    <3>2. f[1] # Sentinel /\ f[n] # Sentinel
      BY <1>4, <3>1 DEF Order
    <3>3. /\ name = "delfront" => DeleteFrontStage(f, n)'
          /\ name = "delback" => DeleteBackStage(f, n)'
      BY <1>0, <1>4, <1>6, <1>11, <2>2 DEF DeleteFrontStage, DeleteBackStage
    <3>4. l # Sentinel
      BY <1>0, <1>4, <1>6, <3>2
    <3> QED
      BY <1>0, <1>11, <3>3, <3>4 DEF Stage, Removing
  <2> QED
    BY <2>1, <2>2
<1> QED
  BY <1>1, <1>2, <1>4, <1>8, <1>9, <1>12, BeginStep

LEMMA DisposeStep ==
  ASSUME DequeInv, ~Raw, late = 0, late' = 0, NEW l \in Links, Dispose(l)
  PROVE  DequeStep
<1>1. left = "whole" /\ left' = left /\ DequeTypeInv /\ StatusMove
  <2>1. DequeTypeInv /\ Updated
    BY DEF DequeInv, LinkedInv, Dispose
  <2> QED
    BY <2>1, UpdatedMove
<1>2. /\ op = Idle /\ op' = Idle /\ iter.mode # "destroy" /\ l \notin Members /\ freed' = freed \cup {l}
      /\ UNCHANGED <<next, prev, length, offset, iter, seen, stable, fate, left>>
  BY <1>1 DEF Dispose, Quiet, heap, loop
<1>3. PICK n \in Nat : \E f : Ready(f, n) /\ Members = Elements(f, n) /\ (Careful /\ left # "destroy" => LoopInv(f, n))
  BY <1>2, IdleRing
<1>4. PICK f : Ready(f, n) /\ Members = Elements(f, n) /\ (Careful /\ left # "destroy" => LoopInv(f, n))
  BY <1>3
<1>5. /\ Stage(f, n)' /\ ~Resetting /\ ~Resetting' /\ Lag' = Lag
      /\ ~Adding' /\ ~Removing' /\ (Clearing => Clearing')
  BY <1>1, <1>2, <1>4, IdleStage
<1>6. ASSUME Careful PROVE LoopInv(f, n)'
  <2>1. LoopInv(f, n)
    BY <1>1, <1>4, <1>6
  <2> QED
    BY <1>2, <1>4, <1>5, <2>1 DEF LoopInv, ForeachAt
<1>7. Careful => fate' = "ok"
  BY <1>2, IdleRing
<1>8. RingedInv' /\ UNCHANGED Forward
  BY <1>1, <1>2, <1>4, <1>5, <1>6, <1>7, RingedKept
<1> QED
  BY <1>1, <1>2, <1>8, ReadMove, SameIter DEF DequeStep

-----------------------------------------------------------------------------
(* The deque: the steps of a foreach, and an interrupt *)

LEMMA LoopStep ==
  ASSUME DequeInv, ~Raw, late = 0, op = Idle, op' = Idle, Timely, UNCHANGED <<next, prev, length, offset>>,
         NEW n \in Nat, NEW f, Ready(f, n),
         Careful /\ left # "destroy" => LoopInv(f, n)',
         Careful /\ left = "destroy" => iter'.mode = "off",
         Careful => fate' = "ok"
  PROVE  RingedInv' /\ DequeMove
<1>1. left' = left /\ StatusMove
  BY TimelyMove
<1>2. /\ left = "whole" => Stage(f, n)' /\ ~Resetting /\ ~Resetting' /\ Lag' = Lag
      /\ ~Adding' /\ ~Removing' /\ (Clearing => Clearing')
  BY <1>1, IdleStage
<1>3. RingedInv' /\ UNCHANGED Forward
  BY <1>1, <1>2, RingedKept
<1> QED
  BY <1>1, <1>3, ReadMove

LEMMA ForeachStep ==
  ASSUME DequeInv, ~Raw, late = 0, late' = 0, NEW mode \in {"foreach", "destroy"}, Foreach(mode)
  PROVE  DequeStep
<1>0. DequeTypeInv
  BY DEF DequeInv, LinkedInv
<1>1. /\ op = Idle /\ op' = Idle /\ iter.mode = "off" /\ next[Sentinel] # Sentinel
      /\ Visit(mode, next[Sentinel], freed) /\ fate = "ok"
      /\ stable' = IF fate' = "ok" THEN Members ELSE stable
      /\ UNCHANGED <<next, prev, length, offset, freed>>
  BY DEF Foreach, Quiet, heap
<1>2. Timely /\ left # "destroy"
  BY <1>0, LateMove DEF Foreach
<1>3. PICK n \in Nat : \E f : /\ Ready(f, n) /\ Order(f, n) /\ Along(next, f, n) /\ next[Sentinel] = f[1]
                              /\ Members = Elements(f, n) /\ (Careful /\ left # "destroy" => LoopInv(f, n))
  BY <1>1, IdleRing
<1>4. PICK f : /\ Ready(f, n) /\ Order(f, n) /\ Along(next, f, n) /\ next[Sentinel] = f[1]
               /\ Members = Elements(f, n) /\ (Careful /\ left # "destroy" => LoopInv(f, n))
  BY <1>3
<1>5. n \in Nat \ {0}
  BY <1>1, <1>4 DEF Order
<1>6. 1 \in 1 .. n /\ 1 \in 0 .. n /\ 1 \in 0 .. n + 1 /\ 1 + 1 = 2 /\ 2 \in 1 .. n + 1 /\ 2 \in 2 .. n + 1 /\ 2 - 1 = 1
      /\ \A i \in 1 .. n : i < 2 => i = 1
  BY <1>5
<1>7. f[1] \in Elements(f, n) /\ next[f[1]] = f[2] /\ f[1] \in Cells
  BY <1>4, <1>6, OrderCells DEF Along, Elements
<1>8. ASSUME Careful PROVE LoopInv(f, n)' /\ fate' = "ok" /\ VisitStep
  <2>1. Elements(f, n) \cap freed = {}
    BY <1>1, <1>2, <1>4, <1>8 DEF LoopInv
  <2>2. /\ iter' = [mode |-> mode, cur |-> f[1], nxt |-> f[2]] /\ seen' = seen \cup {f[1]}
        /\ stable' = Elements(f, n) /\ fate' = "ok"
    BY <1>1, <1>4, <1>7, <2>1 DEF Visit
  <2>3. iter'.mode = mode /\ iter'.cur = f[1] /\ iter'.nxt = f[2]
    BY <2>2
  <2>4. ~Adding' /\ ~Removing'
    BY <1>1 DEF Adding, Removing, Idle
  <2>5. ForeachAt(f, n, 2)'
    BY <1>6, <2>2, <2>3 DEF ForeachAt
  <2>6. \A i \in 1 .. n : f[i] \notin freed'
    BY <1>1, <2>1 DEF Elements
  <2>7. DestroyAt(f, n, 2)'
    BY <1>6, <2>3, <2>6 DEF DestroyAt
  <2>8. LoopInv(f, n)'
    BY <1>1, <1>6, <2>1, <2>2, <2>3, <2>4, <2>5, <2>7 DEF LoopInv
  <2> QED
    BY <1>4, <1>7, <2>2, <2>3, <2>8 DEF VisitStep
<1>9. RingedInv' /\ DequeMove
  BY <1>1, <1>2, <1>4, <1>8, LoopStep
<1>10. EndStep
  BY <1>1 DEF EndStep
<1> QED
  BY <1>8, <1>9, <1>10 DEF DequeStep

LEMMA ForeachNextStep ==
  ASSUME DequeInv, ~Raw, late = 0, ForeachNext
  PROVE  DequeStep
<1>1. /\ op = Idle /\ op' = Idle /\ fate = "ok" /\ iter.mode = "foreach" /\ Timely
      /\ UNCHANGED <<next, prev, length, offset, freed>>
  BY DEF ForeachNext, Quiet, heap
<1>2. PICK n \in Nat : \E f : /\ Ready(f, n) /\ Order(f, n) /\ Along(next, f, n)
                              /\ Members = Elements(f, n) /\ (Careful /\ left # "destroy" => LoopInv(f, n))
  BY <1>1, IdleRing
<1>3. PICK f : /\ Ready(f, n) /\ Order(f, n) /\ Along(next, f, n)
               /\ Members = Elements(f, n) /\ (Careful /\ left # "destroy" => LoopInv(f, n))
  BY <1>2
<1>4. Careful => left # "destroy"
  BY <1>1, IdleRing
<1>5. ASSUME Careful
      PROVE  /\ Elements(f, n) \cap freed = {} /\ stable \subseteq Elements(f, n)
             /\ \E k \in 1 .. n + 1 : ForeachAt(f, n, k)
  BY <1>1, <1>3, <1>4, <1>5 DEF LoopInv
<1>6. ~Adding' /\ ~Removing'
  BY <1>1 DEF Adding, Removing, Idle
<1>7. CASE iter.nxt = Sentinel
  <2>1. iter' = NoLoop /\ seen' = {} /\ stable' = {} /\ fate' = "ok"
    BY <1>1, <1>7 DEF ForeachNext, EndLoop
  <2>2. ASSUME Careful PROVE stable \subseteq seen
    <3>1. PICK k \in 1 .. n + 1 : ForeachAt(f, n, k)
      BY <1>5, <2>2
    <3>2. k = n + 1
      BY <1>3, <1>7, <3>1 DEF ForeachAt, Order
    <3>3. \A i \in 1 .. n : i < n + 1
      OBVIOUS
    <3> QED
      BY <1>5, <2>2, <3>1, <3>2, <3>3 DEF ForeachAt, Elements
  <2>3. iter'.mode = "off"
    BY <2>1 DEF NoLoop
  <2>4. Careful => LoopInv(f, n)'
    BY <1>1, <1>5, <1>6, <2>3 DEF LoopInv
  <2>5. RingedInv' /\ DequeMove
    BY <1>1, <1>3, <1>4, <2>1, <2>4, LoopStep
  <2> QED
    BY <2>2, <2>3, <2>5 DEF DequeStep, VisitStep, EndStep
<1>8. CASE iter.nxt # Sentinel
  <2>1. Visit("foreach", iter.nxt, freed) /\ stable' = stable
    BY <1>8 DEF ForeachNext
  <2>2. ASSUME Careful PROVE LoopInv(f, n)' /\ fate' = "ok" /\ VisitStep /\ EndStep
    <3>1. PICK k \in 1 .. n + 1 : ForeachAt(f, n, k)
      BY <1>5, <2>2
    <3>2. k # n + 1
      BY <1>3, <1>8, <3>1 DEF ForeachAt, Order
    <3>3. /\ k \in 1 .. n /\ k \in 0 .. n /\ k \in 0 .. n + 1 /\ k + 1 \in 1 .. n + 1
          /\ \A i \in 1 .. n : i < k + 1 => i < k \/ i = k
      BY <3>2
    <3>4. iter.nxt = f[k] /\ next[f[k]] = f[k + 1] /\ f[k] \in Elements(f, n) /\ f[k] \in Cells
      BY <1>3, <3>1, <3>3, OrderCells DEF ForeachAt, Along, Elements
    <3>6. /\ iter' = [mode |-> "foreach", cur |-> f[k], nxt |-> f[k + 1]]
          /\ seen' = seen \cup {f[k]} /\ stable' = stable /\ fate' = "ok"
      BY <1>1, <1>5, <2>1, <2>2, <3>4 DEF Visit
    <3>7. iter'.mode = "foreach" /\ iter'.nxt = f[k + 1] /\ iter'.cur = f[k]
      BY <3>6
    <3>8. ForeachAt(f, n, k + 1)'
      BY <3>1, <3>3, <3>6, <3>7 DEF ForeachAt
    <3>9. LoopInv(f, n)'
      BY <1>1, <1>5, <1>6, <2>2, <3>3, <3>6, <3>7, <3>8 DEF LoopInv
    <3>10. VisitStep /\ EndStep
      BY <1>3, <3>4, <3>7 DEF VisitStep, EndStep
    <3> QED
      BY <3>6, <3>9, <3>10
  <2>3. RingedInv' /\ DequeMove
    BY <1>1, <1>3, <1>4, <2>2, LoopStep
  <2> QED
    BY <2>2, <2>3 DEF DequeStep
<1> QED
  BY <1>7, <1>8

LEMMA DestroyNextStep ==
  ASSUME DequeInv, ~Raw, late = 0, DestroyNext
  PROVE  DequeStep
<1>1. /\ op = Idle /\ fate = "ok" /\ iter.mode = "destroy" /\ Timely /\ freed' = freed \cup {iter.cur}
      /\ UNCHANGED <<next, prev, length, offset, stable>>
  BY DEF DestroyNext, Quiet, heap
<1>2. PICK n \in Nat : \E f : /\ Ready(f, n) /\ Order(f, n) /\ Along(next, f, n)
                              /\ Members = Elements(f, n) /\ (Careful /\ left # "destroy" => LoopInv(f, n))
  BY <1>1, IdleRing
<1>3. PICK f : /\ Ready(f, n) /\ Order(f, n) /\ Along(next, f, n)
               /\ Members = Elements(f, n) /\ (Careful /\ left # "destroy" => LoopInv(f, n))
  BY <1>2
<1>4. (Careful => left # "destroy") /\ left' = left /\ StatusMove
  BY <1>1, IdleRing, TimelyMove
<1>5. CASE iter.nxt = Sentinel
  <2>1. Begin("reset", NULL) /\ UNCHANGED <<iter, seen, fate>>
    BY <1>5 DEF DestroyNext
  <2>2. op'.name = "reset" /\ op' # Idle
    BY <2>1 DEF Begin, Idle
  <2>3. Resetting' /\ ~Adding' /\ ~Removing' /\ Stage(f, n)' /\ Clearing'
    BY <2>2 DEF Resetting, Adding, Removing, Resets, Stage, Clearing
  <2>4. LoopInv(f, n)'
    BY <1>1, <2>1, <2>2, <2>3 DEF LoopInv
  <2>5. RingedInv' /\ UNCHANGED Forward
    BY <1>1, <1>3, <1>4, <2>1, <2>3, <2>4, RingedKept
  <2> QED
    BY <1>4, <2>1, <2>5, ReadMove, SameIter DEF DequeStep
<1>6. CASE iter.nxt # Sentinel
  <2>1. Visit("destroy", iter.nxt, freed') /\ op' = Idle
    BY <1>1, <1>6 DEF DestroyNext
  <2>2. ~Adding' /\ ~Removing'
    BY <2>1 DEF Adding, Removing, Idle
  <2>3. ASSUME Careful PROVE LoopInv(f, n)' /\ fate' = "ok" /\ VisitStep /\ EndStep
    <3>1. PICK k \in 2 .. n + 1 : DestroyAt(f, n, k)
      BY <1>1, <1>3, <1>4, <2>3 DEF LoopInv
    <3>2. k # n + 1
      BY <1>3, <1>6, <3>1 DEF DestroyAt, Order
    <3>3. /\ k \in 1 .. n /\ k \in 0 .. n /\ k \in 0 .. n + 1 /\ k - 1 \in 1 .. n /\ k - 1 # k /\ k + 1 \in 2 .. n + 1
          /\ (k + 1) - 1 = k
      BY <3>2
    <3>4. /\ iter.nxt = f[k] /\ next[f[k]] = f[k + 1] /\ f[k] \in Elements(f, n) /\ f[k] \in Cells
          /\ iter.cur = f[k - 1] /\ f[k - 1] # f[k]
      BY <1>3, <3>1, <3>3, OrderCells DEF DestroyAt, Along, Elements, Order
    <3>5. \A i \in 1 .. n : f[i] \in freed => i < k - 1
      BY <3>1 DEF DestroyAt
    <3>6. f[k] \notin freed
      <4>1. ~ (k < k - 1)
        BY <3>3
      <4> QED
        BY <3>3, <3>5, <4>1
    <3>7. iter.nxt \notin freed'
      BY <1>1, <3>4, <3>6
    <3>8. iter' = [mode |-> "destroy", cur |-> f[k], nxt |-> f[k + 1]] /\ fate' = "ok"
      BY <1>1, <2>1, <3>4, <3>7 DEF Visit
    <3>9. iter'.mode = "destroy" /\ iter'.nxt = f[k + 1] /\ iter'.cur = f[k]
      BY <3>8
    <3>10. ASSUME NEW i \in 1 .. n, f[i] \in freed' PROVE i < k
      <4>1. CASE f[i] \in freed
        <5>1. i < k - 1
          BY <3>5, <4>1
        <5> QED
          BY <3>3, <5>1
      <4>2. CASE f[i] = f[k - 1]
        <5>1. i = k - 1
          BY <1>3, <3>3, <4>2 DEF Order
        <5> QED
          BY <3>3, <5>1
      <4> QED
        BY <1>1, <3>4, <3>10, <4>1, <4>2
    <3>11. DestroyAt(f, n, k + 1)'
      BY <3>3, <3>9, <3>10 DEF DestroyAt
    <3>12. LoopInv(f, n)'
      BY <2>2, <3>3, <3>9, <3>11 DEF LoopInv
    <3>13. VisitStep /\ EndStep
      BY <1>1, <1>3, <3>4, <3>9 DEF VisitStep, EndStep
    <3> QED
      BY <3>8, <3>12, <3>13
  <2>4. RingedInv' /\ DequeMove
    BY <1>1, <1>3, <1>4, <2>1, <2>3, LoopStep
  <2> QED
    BY <2>3, <2>4 DEF DequeStep
<1> QED
  BY <1>5, <1>6

(* The deque is left as it is, of which a reader sees nothing. *)
LEMMA JumpOutStep ==
  ASSUME DequeInv, ~Raw, late = 0, JumpOut
  PROVE  DequeStep
<1>0. DequeTypeInv
  BY DEF DequeInv, LinkedInv
<1>1. StatusMove /\ left' # "whole" /\ UNCHANGED <<next, prev, length, offset>>
  BY <1>0, JumpMove
<1>2. /\ fate' = "ok" /\ (op # Idle \/ iter.mode = "destroy") /\ op' = Idle /\ iter' = NoLoop /\ stable' = {} /\ seen' = {}
      /\ freed' = freed
      /\ left' = IF left = "destroy" THEN left
                 ELSE IF iter.mode = "destroy" THEN "destroy"
                 ELSE IF op.name \in Resets THEN "reset"
                 ELSE "update"
  BY DEF JumpOut, EndLoop
<1>3. PICK n \in Nat : \E f : Ready(f, n) /\ (Careful /\ left # "destroy" => LoopInv(f, n))
  BY RingedIs
<1>4. PICK f : Ready(f, n) /\ (Careful /\ left # "destroy" => LoopInv(f, n))
  BY <1>3
<1>5. iter'.mode = "off" /\ ~Adding' /\ ~Removing'
  BY <1>2 DEF NoLoop, Adding, Removing, Idle
<1>6. ASSUME Careful, left' # "destroy" PROVE LoopInv(f, n)'
  <2>1. LoopInv(f, n) /\ iter.mode # "destroy"
    BY <1>2, <1>4, <1>6
  <2> QED
    BY <1>2, <1>5, <2>1 DEF LoopInv
<1>7. Clearing => Clearing'
  <2>1. op # Idle => op.name \in Updates \cup Resets
    BY <1>0, TypedIs DEF DequeTypeInv
  <2>2. left # "whole" => ~Adding /\ ~Removing
    BY RingedIs DEF RingedInv
  <2>3. left # "whole" /\ op # Idle => op.name \in Resets
    BY <2>1, <2>2 DEF Adding, Removing, Updates
  <2> QED
    BY <1>2, <2>3 DEF Clearing
<1>8. RingedInv' /\ UNCHANGED Forward
  BY <1>1, <1>2, <1>4, <1>5, <1>6, <1>7, RingedKept
<1>9. VisitStep /\ EndStep
  BY <1>2, <1>5 DEF VisitStep, EndStep
<1> QED
  BY <1>1, <1>8, <1>9, ReadMove DEF DequeStep

LEMMA StutterStep ==
  ASSUME DequeInv, UNCHANGED dequevars
  PROVE  DequeStep
<1>1. UNCHANGED <<next, prev, length, offset, op, iter, seen, stable, freed, fate, left, late>>
  BY DEF dequevars, heap, loop
<1>2. UNCHANGED Forward /\ StatusMove
  BY <1>1, SameReader, TimelyMove DEF Timely
<1>3. ASSUME ~Raw', late' = 0 PROVE RingedInv'
  <2>1. ~Raw /\ late = 0
    BY <1>1, <1>3 DEF Raw
  <2>2. RingedInv
    BY <2>1, RingedIs
  <2>3. Readable => Readable'
    BY <1>1, SameReader DEF Clearing
  <2>4. ASSUME NEW n \in Nat, NEW f PROVE RingInv(f, n)' = RingInv(f, n) /\ LoopInv(f, n)' = LoopInv(f, n)
    BY <1>1 DEF RingInv, Stage, AddFrontStage, AddBackStage, EmptyStage, DeleteFrontStage, DeleteBackStage,
       Removing, Resetting, Adding, Lag, Missing, LoopInv, ForeachAt, DestroyAt
  <2> QED
    BY <1>1, <2>2, <2>3, <2>4 DEF RingedInv, Careful, Adding, Removing, Resetting
<1> QED
  BY <1>1, <1>2, <1>3, ReadMove, SameIter DEF DequeStep

-----------------------------------------------------------------------------
(* The deque: every step *)

LEMMA StoresStep ==
  ASSUME DequeInv, LinkedInv', AddingFront \/ AddingBack \/ DeletingFront \/ DeletingBack
  PROVE  DequeStep
<1>1. DequeTypeInv /\ DequeTypeInv'
  BY DEF DequeInv, LinkedInv
<1>2. StatusMove /\ (late' = 0 <=> late = 0) /\ offset' = offset
  BY <1>1, StoreMove
<1>3. CASE Raw
  BY <1>2, <1>3, RawStep DEF Raw
<1>4. CASE late # 0
  BY <1>1, <1>2, <1>4, LateStep
<1>5. CASE ~Raw /\ late = 0
  BY <1>5, AddingStep, RemovingStep
<1> QED
  BY <1>3, <1>4, <1>5

LEMMA CallsStep ==
  ASSUME DequeInv, LinkedInv', CallStep
  PROVE  DequeStep
<1>1. DequeTypeInv /\ DequeTypeInv'
  BY DEF DequeInv, LinkedInv
<1>2. /\ StatusMove /\ (late' = 0 => late = 0) /\ offset' = offset
      /\ late' # 0 => late # 0 \/ (left # "whole" /\ (iter.mode = "off" \/ UNCHANGED iter))
  BY <1>1, CallMove
<1>3. CASE Raw
  BY <1>2, <1>3, RawStep DEF Raw
<1>4. CASE late' # 0
  BY <1>1, <1>2, <1>4, LateStep
<1>5. CASE ~Raw /\ late' = 0
  <2>1. ~Raw /\ late = 0 /\ late' = 0
    BY <1>2, <1>5
  <2>2. CASE deque_init \/ deque_reset
    BY <2>1, <2>2, ClearStep
  <2>3. CASE delete_front \/ delete_back
    BY <2>1, <2>3, DeleteStep
  <2>4. ASSUME NEW l \in Links, deque_addfront(l) \/ deque_addback(l) PROVE DequeStep
    <3>1. PICK name \in {"addfront", "addback"} : Add(name, l)
      BY <2>4 DEF deque_addfront, deque_addback
    <3> QED
      BY <2>1, <3>1, AddStep
  <2>5. ASSUME NEW l \in Links, Dispose(l) PROVE DequeStep
    BY <2>1, <2>5, DisposeStep
  <2>6. ASSUME NEW mode \in {"foreach", "destroy"}, Foreach(mode) PROVE DequeStep
    BY <2>1, <2>6, ForeachStep
  <2>7. CASE ForeachNext
    BY <2>1, <2>7, ForeachNextStep
  <2>8. CASE DestroyNext
    BY <2>1, <2>8, DestroyNextStep
  <2> QED
    BY <2>2, <2>3, <2>4, <2>5, <2>6, <2>7, <2>8 DEF CallStep
<1> QED
  BY <1>3, <1>4, <1>5

LEMMA InterruptStep ==
  ASSUME DequeInv, LinkedInv', JumpOut
  PROVE  DequeStep
<1>1. DequeTypeInv /\ DequeTypeInv'
  BY DEF DequeInv, LinkedInv
<1>2. StatusMove /\ late' = late /\ offset' = offset
  BY <1>1, JumpMove
<1>3. CASE Raw
  BY <1>2, <1>3, RawStep DEF Raw
<1>4. CASE late # 0
  BY <1>1, <1>2, <1>4, LateStep
<1>5. CASE ~Raw /\ late = 0
  BY <1>5, JumpOutStep
<1> QED
  BY <1>3, <1>4, <1>5

LEMMA DequeNextStep ==
  ASSUME DequeInv, [DequeNext]_dequevars
  PROVE  DequeStep /\ DequeInv'
<1>1. LinkedInv'
  BY LinkedNext DEF DequeInv
<1>2. ASSUME CallStep PROVE DequeStep
  BY <1>1, <1>2, CallsStep
<1>3. ASSUME Emptying PROVE DequeStep
  BY <1>1, <1>3, EmptyingStep
<1>4. ASSUME AddingFront \/ AddingBack \/ DeletingFront \/ DeletingBack PROVE DequeStep
  BY <1>1, <1>4, StoresStep
<1>5. ASSUME JumpOut PROVE DequeStep
  BY <1>1, <1>5, InterruptStep
<1>6. ASSUME Halted \/ UNCHANGED dequevars PROVE DequeStep
  BY <1>6, StutterStep DEF Halted
<1>7. DequeStep
  BY <1>2, <1>3, <1>4, <1>5, <1>6 DEF DequeNext, CallStep
<1> QED
  BY <1>1, <1>7 DEF DequeStep, DequeInv

(* The inductive invariant. *)
LEMMA DequeInvInit == ASSUME DequeInit PROVE DequeInv /\ Forward = << >> /\ Status = "whole"
<1>1. LinkedInv /\ Raw /\ late = 0 /\ left = "whole"
  BY LinkedInit DEF DequeInit, Raw
<1> QED
  BY <1>1 DEF DequeInv, Forward, Status

LEMMA DequeInvAlways == DequeSpec => []DequeInv
<1>1. DequeInit => DequeInv
  BY DequeInvInit
<1>2. DequeInv /\ [DequeNext]_dequevars => DequeInv'
  BY DequeNextStep
<1> QED
  BY <1>1, <1>2, PTL DEF DequeSpec

-----------------------------------------------------------------------------
(* The deque: its theorems *)

(* Whatever rule its callers break, and for any number of elements, a ring  *)
(* that was not updated after an interrupt reads the same in both           *)
(* directions and agrees with the length between two operations, but for a  *)
(* deletion from an empty deque.  Between two stores of an update, or after *)
(* the handler jumped out of it, the directions differ at one end at most;  *)
(* in a reset, or after a jump out of it, it may also be empty forwards     *)
(* alone.                                                                   *)
THEOREM RingAlwaysSound == DequeSpec => []RingSound
BY DequeInvAlways, SoundOf, PTL

(* With any number of elements, whatever rule its callers break, wherever   *)
(* calls were interrupted and whatever was done to the deque after that:    *)
(* only a deque that was never initialised makes an assert fail or a        *)
(* pointer lead to nowhere, and a freed object is accessed only there, in a *)
(* deque that was updated after an interrupt, or where the body of a        *)
(* foreach removes the next element, which deques.h:45-49 does not provide  *)
(* for.                                                                     *)
THEOREM FailsOnlyUninitialised == DequeSpec => []FailsOnlyRaw
<1>1. DequeInv => FailsOnlyRaw
  <2> SUFFICES ASSUME DequeInv PROVE FailsOnlyRaw
    OBVIOUS
  <2>1. fate \in {"ok", "dangling"} \/ Raw
    BY DEF DequeInv, LinkedInv, DequeTypeInv
  <2>2. late \in Nat
    BY DEF DequeInv, LinkedInv, DequeTypeInv, DequeTypeOK
  <2>3. ~Raw /\ ~(late > 0) /\ "next" \notin Misuse => fate = "ok"
    BY <2>2 DEF DequeInv, RingedInv, Careful
  <2>4. Raw /\ left = "whole" /\ op.name \in {"delfront", "delback"} => next[Sentinel] = Wild
    BY DEF DequeInv, LinkedInv, RawInv, Removing, Resetting, Resets
  <2> QED
    BY <2>1, <2>3, <2>4 DEF FailsOnlyRaw
<1> QED
  BY <1>1, DequeInvAlways, PTL

(* As long as no body removes the element that comes next, a foreach gives  *)
(* it only elements that are in the deque when it gets there, though the    *)
(* saved link is older than the last body and whatever that added or        *)
(* removed; but for a deque that was updated after an interrupt.            *)
THEOREM ForeachVisitsMembers ==
  ASSUME "next" \notin Misuse
  PROVE  DequeSpec => VisitsMembers
<1>1. DequeInv /\ [DequeNext]_dequevars =>
        [~Raw /\ late' = 0 /\ iter'.mode # "off" /\ iter'.cur # iter.cur => iter'.cur \in Members]_dequevars
  BY DequeNextStep DEF DequeStep, Careful, VisitStep
<1> QED
  BY <1>1, DequeInvAlways, PTL DEF DequeSpec, VisitsMembers

(* And under the same rule it misses none that was in the deque from its    *)
(* beginning to its end.                                                    *)
THEOREM ForeachVisitsAll ==
  ASSUME "next" \notin Misuse
  PROVE  DequeSpec => VisitsAll
<1>1. DequeInv /\ [DequeNext]_dequevars =>
        [~Raw /\ late = 0 /\ op = Idle /\ iter.mode = "foreach" /\ iter'.mode = "off"
           => stable \subseteq seen]_dequevars
  BY DequeNextStep DEF DequeStep, Careful, EndStep
<1> QED
  BY <1>1, DequeInvAlways, PTL DEF DequeSpec, VisitsAll

(* Read along next, the deque is the abstract one, whatever its callers do: *)
(* of the stores of an update one adds or removes the end element, of those *)
(* of a reset one takes out all of them, and the others are invisible,      *)
(* wherever the function is interrupted; only an update after an interrupt  *)
(* may break the deque, until it is cleared again.                          *)
THEOREM DequeImplemented == DequeSpec => ImplementsDeque
<1>1. DequeInit => Abstract!Init
  BY DequeInvInit DEF Abstract!Init, Status
<1>2. DequeInv /\ [DequeNext]_dequevars =>
        [Abstract!Next]_<<Forward, IF late > 0 THEN "broken" ELSE IF left = "whole" THEN left ELSE "interrupted">>
  BY DequeNextStep DEF DequeStep, DequeMove, Status
<1> QED
  BY <1>1, <1>2, DequeInvAlways, PTL DEF DequeSpec, ImplementsDeque, Abstract!Spec
=============================================================================

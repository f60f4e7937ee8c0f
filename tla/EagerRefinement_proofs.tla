----------------------- MODULE EagerRefinement_proofs -----------------------
(***************************************************************************)
(* StateMachine implements EagerBreaker, for every configuration: initial   *)
(* states map to initial states, and every step to a step or a stutter.     *)
(***************************************************************************)
EXTENDS StateMachine_proofs

\* What the eager breaker remembers is what the window holds.
LEMMA RememberIsRecord ==
    ASSUME MachineInv, current = "Closed", NEW outcome \in Outcome
    PROVE  /\ Eager!Remember(outcome) = Record(window, outcome).outcomes
           /\ Eager!TooManyFailures(Eager!Remember(outcome)) <=> RateReached(Record(window, outcome))
<1>1. window \in WindowType /\ WindowConsistent(window)
  BY DEF MachineInv, TypeOK, WindowExact
<1>2. Eager!Remember(outcome) = Record(window, outcome).outcomes
  BY DEF Eager!Remember, Record, Push, Evict, Filled
<1>3. WindowConsistent(Record(window, outcome))
  BY <1>1, RecordConsistent
<1>4. Record(window, outcome).failures = Eager!Failures(Eager!Remember(outcome))
  BY <1>2, <1>3 DEF WindowConsistent, Eager!Failures, FailurePositions, Cardinality, Eager!Cardinality
<1>5. QED
  BY <1>2, <1>4 DEF Eager!TooManyFailures, RateReached, Filled

\* The wait a trip leaves in force is one the eager breaker may choose.
LEMMA WaitIsLatest ==
    ASSUME NEW n \in 1..MaxAttempts, NEW wait, NEW a \in 1..n,
           wait \in WaitFor(a), wait \in Nat, \A b \in (a + 1)..n : Panics(b)
    PROVE  wait \in LatestWaits(n)
<1>1. ~Panics(a)
  BY DEF Panics, Panic
<1>2. QED
  BY <1>1 DEF LatestWaits

\* Entering Open is the eager breaker's Open; it reads HalfOpen at once only if
\* the backoff returned a wait of 0.
LEMMA EnterOpenRefines ==
    ASSUME MachineInv, NEW count, EnterOpen(count)
    PROVE  Eager!Open
<1>1. /\ open_attempts' \in 1..MaxAttempts
      /\ wait_duration' \in Nat
      /\ \E a \in 1..open_attempts' : /\ wait_duration' \in WaitFor(a)
                                     /\ \A b \in (a + 1)..open_attempts' : Panics(b)
  BY WaitAfterTrip DEF MachineInv
<1>2. wait_duration' \in LatestWaits(open_attempts')
  BY <1>1, WaitIsLatest
<1>3. /\ current' = "Open" /\ open_age' = 0 /\ success_count' = 0
      /\ open_attempts' = IF open_attempts < MaxAttempts THEN open_attempts + 1 ELSE MaxAttempts
  BY DEF EnterOpen, SaturatingInc
<1>4. CurrentState' = IF wait_duration' = 0 THEN "HalfOpen" ELSE "Open"
  BY <1>1, <1>3 DEF CurrentState, UpgradeDue, WaitElapsed, NotOpen
<1>5. (IF CurrentState' = "Open" THEN wait_duration' - open_age' ELSE 0) = wait_duration'
  <2>1. CASE wait_duration' = 0
    BY <1>4, <2>1
  <2>2. CASE wait_duration' # 0
    <3>1. CurrentState' = "Open"
      BY <1>4, <2>2
    <3>2. wait_duration' \in Nat /\ open_age' = 0
      BY <1>1, <1>3
    <3>3. wait_duration' - open_age' = wait_duration'
      <4>1. \A wait \in Nat : wait - 0 = wait
        OBVIOUS
      <4>2. QED
        BY <3>2, <4>1
    <3>4. QED
      BY <3>1, <3>3
  <2>3. QED
    BY <2>1, <2>2
<1>6. [n \in 1..MaxAttempts |-> LatestWaits(n)][open_attempts'] = LatestWaits(open_attempts')
  BY <1>1
<1>7. ProbeSuccesses' = 0
  BY <1>3 DEF ProbeSuccesses
<1>8. Eager!Clear
  BY <1>3, <1>7 DEF Eager!Clear
<1>9. QED
  BY <1>2, <1>3, <1>4, <1>5, <1>6, <1>8 DEF Eager!Open

LEMMA EnterClosedRefines ==
    ASSUME NEW count, EnterClosed(count)
    PROVE  Eager!Close
BY DEF EnterClosed, EmptyWindow, CurrentState, UpgradeDue, Eager!Close, Eager!Clear

\* What comes while the circuit is Open counts, and changes nothing else.
LEMMA IgnoreRefines ==
    ASSUME Ignore
    PROVE  Eager!Late
BY DEF Ignore, counters, timing, Eager!Late, Eager!circuit, CurrentState, UpgradeDue,
       WaitElapsed, ProbeSuccesses

\* Every recorded success is a success of the eager breaker.
LEMMA RecordSuccessRefines ==
    ASSUME MachineInv, RecordSuccess
    PROVE  Eager!Success
<1>0. /\ total_successes' = Eager!Counted(total_successes)
      /\ total_failures' = total_failures
  BY DEF RecordSuccess, Inc64, Eager!Counted
<1>1. CASE SuccessInClosed
  <2>1. /\ current = "Closed" /\ current' = "Closed" /\ failure_count' = 0
        /\ CurrentState = "Closed" /\ CurrentState' = "Closed"
        /\ open_attempts' = open_attempts
        /\ window'.outcomes = Eager!Remember(0)
    BY <1>1, RememberIsRecord DEF SuccessInClosed, timing, CurrentState, UpgradeDue, Outcome
  <2>2. QED
    BY <1>0, <2>1 DEF Eager!Success
<1>2. CASE ProbeSucceeds
  <2>1. /\ current # "Closed" /\ current' = "HalfOpen"
        /\ CurrentState = "HalfOpen" /\ CurrentState' = "HalfOpen"
        /\ open_attempts' = open_attempts
        /\ ProbeSuccesses' = ProbeSuccesses + 1
        /\ ProbeSuccesses + 1 < SuccessThreshold
    BY <1>2 DEF ProbeSucceeds, CurrentState, UpgradeDue, ProbeSuccesses
  <2>2. QED
    BY <1>0, <2>1 DEF Eager!Success
<1>3. CASE Recover
  <2>1. CurrentState = "HalfOpen" /\ ProbeSuccesses + 1 >= SuccessThreshold /\ Eager!Close
    BY <1>3, EnterClosedRefines DEF Recover
  <2>2. QED
    BY <1>0, <2>1 DEF Eager!Success
<1>4. CASE Ignore
  BY <1>0, <1>4, IgnoreRefines DEF Eager!Success
<1>5. QED
  BY <1>1, <1>2, <1>3, <1>4 DEF RecordSuccess

LEMMA RecordFailureRefines ==
    ASSUME MachineInv, RecordFailure
    PROVE  Eager!Failure
<1>0. /\ total_failures' = Eager!Counted(total_failures)
      /\ total_successes' = total_successes
  BY DEF RecordFailure, Inc64, Eager!Counted
<1>1. ASSUME current = "Closed"
      PROVE  Eager!MustTrip <=> ShouldTrip(failure_count + 1, Record(window, 1))
  BY <1>1, RememberIsRecord DEF Eager!MustTrip, ShouldTrip, Outcome
<1>2. CASE Tolerate
  <2>1. /\ current = "Closed" /\ current' = "Closed" /\ failure_count' = failure_count + 1
        /\ CurrentState = "Closed" /\ CurrentState' = "Closed"
        /\ open_attempts' = open_attempts
        /\ window'.outcomes = Eager!Remember(1) /\ ~Eager!MustTrip
    BY <1>1, <1>2, RememberIsRecord DEF Tolerate, timing, CurrentState, UpgradeDue, Outcome
  <2>2. QED
    BY <1>0, <2>1 DEF Eager!Failure
<1>3. CASE Trip
  <2>1. CurrentState = "Closed" /\ Eager!MustTrip /\ Eager!Open
    BY <1>1, <1>3, EnterOpenRefines DEF Trip, CurrentState, UpgradeDue
  <2>2. QED
    BY <1>0, <2>1 DEF Eager!Failure
<1>4. CASE Retrip
  <2>1. CurrentState = "HalfOpen" /\ Eager!Open
    BY <1>4, EnterOpenRefines DEF Retrip
  <2>2. QED
    BY <1>0, <2>1 DEF Eager!Failure
<1>5. CASE Ignore
  BY <1>0, <1>5, IgnoreRefines DEF Eager!Failure
<1>6. QED
  BY <1>2, <1>3, <1>4, <1>5 DEF RecordFailure

\* trip() and reset() count nothing.
LEMMA ForceRefines ==
    ASSUME MachineInv, ForceOpen \/ ForceClosed
    PROVE  Eager!Force
BY EnterOpenRefines, EnterClosedRefines DEF ForceOpen, ForceClosed, totals, Eager!Force

\* The clock is the eager breaker's timer.
LEMMA ClockTickRefines ==
    ASSUME MachineInv, ClockTick
    PROVE  Eager!Tick
<1>1. /\ current = "Open" /\ current' = "Open"
      /\ open_age \in Nat /\ wait_duration \in Nat
      /\ open_age' = open_age + 1 /\ wait_duration' = wait_duration /\ open_age < wait_duration
      /\ UNCHANGED <<open_attempts, total_successes, total_failures>>
  BY DEF MachineInv, TypeOK, OpenHasTimer, ClockTick, NotOpen, totals
<1>2. CurrentState = "Open"
  BY <1>1 DEF CurrentState, UpgradeDue, WaitElapsed
<1>3. CurrentState' = IF wait_duration - open_age - 1 = 0 THEN "HalfOpen" ELSE "Open"
  BY <1>1 DEF CurrentState, UpgradeDue, WaitElapsed, NotOpen
<1>4. ProbeSuccesses' = 0 \/ CurrentState' = "Open"
  BY <1>1 DEF CurrentState, UpgradeDue, ProbeSuccesses
<1>5. (IF CurrentState' = "Open" THEN wait_duration' - open_age' ELSE 0)
        = wait_duration - open_age - 1
  BY <1>1, <1>3
<1>6. QED
  BY <1>1, <1>2, <1>3, <1>4, <1>5 DEF Eager!Tick

LEMMA StepRefines == MachineInv /\ [Next]_smVars => [Eager!Next]_(Eager!vars)
<1> SUFFICES ASSUME MachineInv, [Next]_smVars PROVE [Eager!Next]_(Eager!vars)
  OBVIOUS
<1>1. CASE RecordSuccess
  BY <1>1, RecordSuccessRefines DEF Eager!Next
<1>2. CASE RecordFailure
  BY <1>2, RecordFailureRefines DEF Eager!Next
<1>3. CASE ForceOpen
  BY <1>3, ForceRefines DEF Eager!Next
<1>4. CASE ForceClosed
  BY <1>4, ForceRefines DEF Eager!Next
<1>5. CASE ClockTick
  BY <1>5, ClockTickRefines DEF Eager!Next
<1>6. CASE UNCHANGED smVars
  BY <1>6 DEF smVars, counters, timing, totals, Eager!vars, Eager!circuit, CurrentState, UpgradeDue, WaitElapsed, ProbeSuccesses
<1>7. QED
  BY <1>1, <1>2, <1>3, <1>4, <1>5, <1>6 DEF Next

\* The lazy machine is an eager breaker, whatever its configuration.
THEOREM LazyImplementsEager == Spec => ImplementsEagerBreaker
<1>1. Init => Eager!Init
  BY DEF Init, EmptyWindow, CurrentState, UpgradeDue, Eager!Init
<1>2. QED
  BY <1>1, StepRefines, MachineInvariant, PTL DEF Spec, ImplementsEagerBreaker, Eager!Spec

=============================================================================

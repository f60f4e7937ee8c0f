------------------------- MODULE StateMachine_proofs -------------------------
(***************************************************************************)
(* MachineInv is an inductive invariant of the state machine, for every     *)
(* configuration; the properties of StateMachine follow from it.            *)
(***************************************************************************)
EXTENDS StateMachine, SlidingWindow_proofs

-----------------------------------------------------------------------------
(* The counters and the backoff.                                           *)

LEMMA IncType ==
    /\ \A n \in 0..(CounterModulus - 1) : Inc64(n) \in 0..(CounterModulus - 1)
    /\ \A n \in 0..MaxAttempts : SaturatingInc(n) \in 1..MaxAttempts
BY WidthAssumption DEF Inc64, SaturatingInc

LEMMA WaitIsNat ==
    ASSUME NEW attempt \in 1..MaxAttempts, ~Panics(attempt), NEW wait \in WaitFor(attempt)
    PROVE  wait \in Nat
BY WaitForAssumption

\* The wait in force after a trip, whether the backoff returned one or panicked.
LEMMA WaitAfterTrip ==
    ASSUME TypeOK, BackoffConsistent, NEW count, EnterOpen(count)
    PROVE  /\ open_attempts' \in 1..MaxAttempts
           /\ wait_duration' \in Nat
           /\ \E a \in 1..open_attempts' :
                /\ wait_duration' \in WaitFor(a)
                /\ \A b \in (a + 1)..open_attempts' : Panics(b)
<1>1. /\ open_attempts \in 0..MaxAttempts /\ wait_duration \in Nat
      /\ open_attempts' = SaturatingInc(open_attempts)
      /\ MaxAttempts \in Nat \ {0}
  BY WidthAssumption DEF TypeOK, EnterOpen
<1>2. /\ open_attempts' \in 1..MaxAttempts
      /\ open_attempts' = open_attempts \/ open_attempts' = open_attempts + 1
  BY <1>1 DEF SaturatingInc
<1>3. CASE ~Panics(open_attempts')
  <2>1. wait_duration' \in WaitFor(open_attempts')
    BY <1>3 DEF EnterOpen, NewWait
  <2>2. wait_duration' \in Nat
    BY <1>2, <1>3, <2>1, WaitIsNat
  <2>3. \A b \in (open_attempts' + 1)..open_attempts' : FALSE
    BY <1>1, <1>2
  <2>4. QED
    BY <1>1, <1>2, <2>1, <2>2, <2>3
<1>4. CASE Panics(open_attempts')
  <2>1. wait_duration' = wait_duration
    BY <1>4 DEF EnterOpen, NewWait
  <2>2. open_attempts # 0
    BY <1>1, <1>4, WaitForAssumption DEF SaturatingInc
  <2>3. PICK a \in 1..open_attempts : /\ wait_duration \in WaitFor(a)
                                     /\ \A b \in (a + 1)..open_attempts : Panics(b)
    BY <2>2 DEF BackoffConsistent
  <2>4. a \in 1..open_attempts' /\ \A b \in (a + 1)..open_attempts' : Panics(b)
    BY <1>1, <1>2, <1>4, <2>3
  <2>5. QED
    BY <1>1, <1>2, <2>1, <2>3, <2>4
<1>5. QED
  BY <1>3, <1>4

-----------------------------------------------------------------------------
(* Entering Open or Closed establishes the invariant.                      *)

LEMMA EnterOpenInv ==
    ASSUME MachineInv,
           NEW count \in 0..(CounterModulus - 1),
           EnterOpen(count),
           total_successes' \in 0..(CounterModulus - 1),
           total_failures' \in 0..(CounterModulus - 1),
           window' \in WindowType,
           WindowConsistent(window')
    PROVE  MachineInv'
<1>1. /\ open_attempts' \in 1..MaxAttempts
      /\ wait_duration' \in Nat
      /\ \E a \in 1..open_attempts' :
           /\ wait_duration' \in WaitFor(a)
           /\ \A b \in (a + 1)..open_attempts' : Panics(b)
  BY WaitAfterTrip DEF MachineInv
<1>2. TypeOK'
  BY <1>1, IncType DEF TypeOK, EnterOpen, State
<1>3. OpenHasTimer' /\ CountersInPhase'
  BY DEF OpenHasTimer, CountersInPhase, EnterOpen, NotOpen
<1>4. WindowExact' /\ StreakMatchesWindow' /\ OverdueTripOnlyFromWarmup'
  BY DEF WindowExact, StreakMatchesWindow, OverdueTripOnlyFromWarmup, EnterOpen
<1>5. BackoffConsistent'
  <2>1. current' = "Open" /\ open_attempts' # 0
    BY <1>1 DEF EnterOpen
  <2>2. QED
    BY <1>1, <2>1 DEF BackoffConsistent
<1>6. QED
  BY <1>2, <1>3, <1>4, <1>5 DEF MachineInv

LEMMA EnterClosedInv ==
    ASSUME MachineInv,
           NEW count \in 0..(CounterModulus - 1),
           EnterClosed(count),
           total_successes' \in 0..(CounterModulus - 1),
           total_failures' \in 0..(CounterModulus - 1)
    PROVE  MachineInv'
<1>1. window' \in WindowType /\ WindowConsistent(window') /\ Filled(window') = 0
  BY EmptyWindowConsistent DEF EnterClosed, EmptyWindow, Filled
<1>2. TypeOK'
  BY <1>1, IncType, WidthAssumption DEF MachineInv, TypeOK, EnterClosed, State
<1>3. OpenHasTimer' /\ CountersInPhase'
  BY DEF OpenHasTimer, CountersInPhase, EnterClosed, NotOpen
<1>4. WindowExact'
  BY <1>1 DEF WindowExact
<1>5. StreakMatchesWindow' /\ OverdueTripOnlyFromWarmup'
  BY <1>1 DEF StreakMatchesWindow, OverdueTripOnlyFromWarmup, RateReached, EnterClosed
<1>6. BackoffConsistent'
  BY DEF BackoffConsistent, EnterClosed
<1>7. QED
  BY <1>2, <1>3, <1>4, <1>5, <1>6 DEF MachineInv

-----------------------------------------------------------------------------
(* The window while Closed.                                                *)

\* A success that leaves the window at the trip rate found it there, or just
\* filled it up to minimum_calls.
LEMMA SuccessNeverRaisesRate ==
    ASSUME NEW w \in WindowType, WindowConsistent(w),
           RateReached(Record(w, 0)),
           Filled(w) >= MinimumCalls, Filled(w) > 0
    PROVE  RateReached(w)
<1> DEFINE r == Record(w, 0)
<1>1. /\ w.failures \in Nat /\ r.failures \in Nat
      /\ Filled(w) \in Nat /\ Filled(r) \in Nat
      /\ r.failures <= w.failures /\ Filled(r) >= Filled(w)
  <2>1. w.failures \in Nat
    BY FailurePositionsFinite DEF WindowConsistent, WindowType
  <2>2. r.failures \in Nat
    BY RecordConsistent DEF Outcome
  <2>3. Capacity \in Nat
    BY SlidingWindowAssumption DEF Capacity
  <2>4. QED
    BY <2>1, <2>2, <2>3, RecordOutcomes DEF Outcome
<1>2. r.failures * RateDen >= RateNum * Filled(r)
  BY DEF RateReached
<1>3. w.failures * RateDen >= r.failures * RateDen
  BY <1>1, ThresholdAssumption
<1>4. RateNum * Filled(r) >= RateNum * Filled(w)
  BY <1>1, ThresholdAssumption
<1>5. w.failures * RateDen >= RateNum * Filled(w)
  <2>1. /\ w.failures * RateDen \in Int /\ r.failures * RateDen \in Int
        /\ RateNum * Filled(r) \in Int /\ RateNum * Filled(w) \in Int
    BY <1>1, ThresholdAssumption
  <2>2. QED
    BY <2>1, <1>2, <1>3, <1>4
<1>6. QED
  BY <1>5 DEF RateReached

LEMMA SuccessInClosedInv ==
    ASSUME MachineInv, SuccessInClosed,
           total_successes' \in 0..(CounterModulus - 1),
           total_failures' \in 0..(CounterModulus - 1)
    PROVE  MachineInv'
<1>1. current = "Closed" /\ current' = "Closed"
  BY DEF SuccessInClosed, CurrentState, UpgradeDue
<1>2. /\ window \in WindowType /\ WindowConsistent(window)
      /\ window' = Record(window, 0) /\ 0 \in Outcome
  BY DEF MachineInv, TypeOK, WindowExact, SuccessInClosed, Outcome
<1>3. window' \in WindowType /\ WindowConsistent(window') /\ Filled(window') > 0
  BY <1>2, RecordConsistent
<1>4. Capacity \in Nat \ {0}
  BY SlidingWindowAssumption DEF Capacity
<1>5. TypeOK'
  BY <1>1, <1>3 DEF MachineInv, TypeOK, SuccessInClosed, timing
<1>6. OpenHasTimer' /\ CountersInPhase' /\ BackoffConsistent'
  BY <1>1 DEF MachineInv, OpenHasTimer, CountersInPhase, BackoffConsistent, SuccessInClosed, timing
<1>7. WindowExact'
  BY <1>3 DEF WindowExact
<1>8. StreakMatchesWindow'
  BY <1>2, <1>3, <1>4, RecordOutcomes DEF StreakMatchesWindow, SuccessInClosed
<1>9. OverdueTripOnlyFromWarmup'
  <2> SUFFICES ASSUME RateReached(window'),
                      NEW i \in 1..Filled(window'), i >= MinimumCalls
               PROVE  window'.outcomes[i] = 0
    BY DEF OverdueTripOnlyFromWarmup
  <2>1. CASE i = Filled(window')
    BY <1>2, <2>1, RecordOutcomes
  <2>2. CASE i # Filled(window')
    <3>1. Filled(window) \in Nat /\ Filled(window') \in Nat /\ MinimumCalls \in Nat
      BY <1>2, <1>4, RecordOutcomes, ThresholdAssumption
    <3>2. Filled(window) >= MinimumCalls /\ Filled(window) > 0
      BY <1>2, <1>4, <2>2, <3>1, RecordOutcomes
    <3>3. RateReached(window)
      BY <1>2, <3>2, SuccessNeverRaisesRate
    <3>4. \A j \in 1..Filled(window) : j >= MinimumCalls => window.outcomes[j] = 0
      BY <1>1, <3>3 DEF MachineInv, OverdueTripOnlyFromWarmup
    <3>5. \/ /\ Filled(window) = Filled(window')
             /\ \A j \in 1..(Filled(window') - 1) : window'.outcomes[j] = window.outcomes[j + 1]
          \/ /\ Filled(window) = Filled(window') - 1
             /\ \A j \in 1..(Filled(window') - 1) : window'.outcomes[j] = window.outcomes[j]
      BY <1>2, <1>4, <3>1, RecordOutcomes
    <3>6. i \in 1..(Filled(window') - 1)
      BY <2>2, <3>1
    <3>7. QED
      BY <3>1, <3>4, <3>5, <3>6, ThresholdAssumption
  <2>3. QED
    BY <2>1, <2>2
<1>10. QED
  BY <1>5, <1>6, <1>7, <1>8, <1>9 DEF MachineInv

LEMMA TolerateInv ==
    ASSUME MachineInv, Tolerate,
           total_successes' \in 0..(CounterModulus - 1),
           total_failures' \in 0..(CounterModulus - 1)
    PROVE  MachineInv'
<1>1. current = "Closed" /\ current' = "Closed"
  BY DEF Tolerate, CurrentState, UpgradeDue
<1>2. /\ window \in WindowType /\ WindowConsistent(window)
      /\ window' = Record(window, 1) /\ 1 \in Outcome
      /\ failure_count \in Nat /\ failure_count' = failure_count + 1
  BY DEF MachineInv, TypeOK, WindowExact, Tolerate, Outcome
<1>3. window' \in WindowType /\ WindowConsistent(window') /\ Filled(window') > 0
  BY <1>2, RecordConsistent
<1>4. Capacity \in Nat \ {0}
  BY SlidingWindowAssumption DEF Capacity
<1>5. TypeOK'
  BY <1>1, <1>2, <1>3 DEF MachineInv, TypeOK, Tolerate, timing
<1>6. OpenHasTimer' /\ CountersInPhase' /\ BackoffConsistent'
  BY <1>1, <1>2, ThresholdAssumption
     DEF MachineInv, OpenHasTimer, CountersInPhase, BackoffConsistent, Tolerate, ShouldTrip, timing
<1>7. WindowExact'
  BY <1>3 DEF WindowExact
<1>8. StreakMatchesWindow'
  <2>1. /\ \A i \in 1..Filled(window) : i > Filled(window) - failure_count => window.outcomes[i] = 1
        /\ failure_count < Filled(window) => window.outcomes[Filled(window) - failure_count] = 0
        /\ failure_count > Filled(window) => Filled(window) = Capacity
    BY <1>1 DEF MachineInv, StreakMatchesWindow
  <2> DEFINE m == Filled(window)
             n == Filled(window')
             old == window.outcomes
             new == window'.outcomes
  <2>2. /\ m \in 0..Capacity /\ new[n] = 1
        /\ \/ m = Capacity /\ n = Capacity /\ \A i \in 1..(n - 1) : new[i] = old[i + 1]
           \/ m < Capacity /\ n = m + 1 /\ \A i \in 1..(n - 1) : new[i] = old[i]
    BY <1>2, RecordOutcomes
  <2> HIDE DEF m, n, old, new
  <2>3. ASSUME NEW i \in 1..n, i > n - (failure_count + 1) PROVE new[i] = 1
    BY <1>2, <1>4, <2>1, <2>2, <2>3 DEF m, old
  <2>4. ASSUME failure_count + 1 < n PROVE new[n - (failure_count + 1)] = 0
    BY <1>2, <1>4, <2>1, <2>2, <2>4 DEF m, old
  <2>5. ASSUME failure_count + 1 > n PROVE n = Capacity
    BY <1>2, <1>4, <2>1, <2>2, <2>5 DEF m
  <2>6. QED
    BY <1>2, <2>3, <2>4, <2>5 DEF StreakMatchesWindow, n, new
<1>9. OverdueTripOnlyFromWarmup'
  BY <1>2 DEF OverdueTripOnlyFromWarmup, Tolerate, ShouldTrip
<1>10. QED
  BY <1>5, <1>6, <1>7, <1>8, <1>9 DEF MachineInv

-----------------------------------------------------------------------------
(* Every step of the machine.                                              *)

\* The transition count, and the lifetime counters, as a record_* call has them.
LEMMA RecordCounters ==
    ASSUME MachineInv
    PROVE  /\ transitions \in 0..(CounterModulus - 1)
           /\ UpgradedTransitions \in 0..(CounterModulus - 1)
           /\ RecordSuccess \/ RecordFailure =>
                /\ total_successes' \in 0..(CounterModulus - 1)
                /\ total_failures' \in 0..(CounterModulus - 1)
BY IncType DEF MachineInv, TypeOK, UpgradedTransitions, RecordSuccess, RecordFailure

LEMMA IgnoreInv ==
    ASSUME MachineInv, Ignore,
           total_successes' \in 0..(CounterModulus - 1),
           total_failures' \in 0..(CounterModulus - 1)
    PROVE  MachineInv'
<1>1. TypeOK'
  BY DEF MachineInv, TypeOK, Ignore, counters, timing
<1>2. OpenHasTimer' /\ CountersInPhase' /\ BackoffConsistent'
  BY DEF MachineInv, OpenHasTimer, CountersInPhase, BackoffConsistent, Ignore, counters, timing
<1>3. WindowExact' /\ StreakMatchesWindow' /\ OverdueTripOnlyFromWarmup'
  BY DEF MachineInv, WindowExact, StreakMatchesWindow, OverdueTripOnlyFromWarmup,
         Ignore, counters, timing
<1>4. QED
  BY <1>1, <1>2, <1>3 DEF MachineInv

LEMMA ProbeSucceedsInv ==
    ASSUME MachineInv, ProbeSucceeds,
           total_successes' \in 0..(CounterModulus - 1),
           total_failures' \in 0..(CounterModulus - 1)
    PROVE  MachineInv'
<1>1. current \in {"Open", "HalfOpen"} /\ current' = "HalfOpen"
  BY DEF MachineInv, TypeOK, State, ProbeSucceeds, CurrentState, UpgradeDue
<1>2. ProbeSuccesses \in Nat
  BY DEF MachineInv, TypeOK, ProbeSuccesses
<1>3. TypeOK'
  BY <1>1, <1>2, RecordCounters DEF MachineInv, TypeOK, State, ProbeSucceeds
<1>4. OpenHasTimer' /\ CountersInPhase'
  BY <1>1, <1>2, ThresholdAssumption
     DEF MachineInv, TypeOK, OpenHasTimer, CountersInPhase, ProbeSucceeds, UpgradeDue
<1>5. WindowExact' /\ StreakMatchesWindow' /\ OverdueTripOnlyFromWarmup'
  BY <1>1 DEF MachineInv, WindowExact, StreakMatchesWindow, OverdueTripOnlyFromWarmup, ProbeSucceeds
<1>6. BackoffConsistent'
  BY <1>1 DEF MachineInv, BackoffConsistent, ProbeSucceeds
<1>7. QED
  BY <1>3, <1>4, <1>5, <1>6 DEF MachineInv

LEMMA ClockTickInv ==
    ASSUME MachineInv, ClockTick
    PROVE  MachineInv'
<1>1. TypeOK'
  BY DEF MachineInv, TypeOK, ClockTick, counters, totals
<1>2. OpenHasTimer' /\ CountersInPhase' /\ BackoffConsistent'
  BY DEF MachineInv, TypeOK, OpenHasTimer, CountersInPhase, BackoffConsistent, ClockTick,
         counters, NotOpen
<1>3. WindowExact' /\ StreakMatchesWindow' /\ OverdueTripOnlyFromWarmup'
  BY DEF MachineInv, WindowExact, StreakMatchesWindow, OverdueTripOnlyFromWarmup, ClockTick, counters
<1>4. QED
  BY <1>1, <1>2, <1>3 DEF MachineInv

LEMMA RecordSuccessInv ==
    ASSUME MachineInv, RecordSuccess
    PROVE  MachineInv'
<1>1. CASE SuccessInClosed
  BY <1>1, RecordCounters, SuccessInClosedInv
<1>2. CASE ProbeSucceeds
  BY <1>2, RecordCounters, ProbeSucceedsInv
<1>3. CASE Recover
  BY <1>3, RecordCounters, EnterClosedInv DEF Recover
<1>4. CASE Ignore
  BY <1>4, RecordCounters, IgnoreInv
<1>5. QED
  BY <1>1, <1>2, <1>3, <1>4 DEF RecordSuccess

LEMMA RecordFailureInv ==
    ASSUME MachineInv, RecordFailure
    PROVE  MachineInv'
<1>1. CASE Tolerate
  BY <1>1, RecordCounters, TolerateInv
<1>2. CASE Trip
  <2>1. window' \in WindowType /\ WindowConsistent(window')
    BY <1>2, RecordConsistent DEF MachineInv, TypeOK, WindowExact, Trip, Outcome
  <2>2. QED
    BY <1>2, <2>1, RecordCounters, EnterOpenInv DEF Trip
<1>3. CASE Retrip
  <2>1. window' \in WindowType /\ WindowConsistent(window')
    BY <1>3 DEF MachineInv, TypeOK, WindowExact, Retrip
  <2>2. QED
    BY <1>3, <2>1, RecordCounters, EnterOpenInv DEF Retrip
<1>4. CASE Ignore
  BY <1>4, RecordCounters, IgnoreInv
<1>5. QED
  BY <1>1, <1>2, <1>3, <1>4 DEF RecordFailure

LEMMA ForcedInv ==
    ASSUME MachineInv, ForceOpen \/ ForceClosed
    PROVE  MachineInv'
<1>1. CASE ForceOpen
  <2>1. /\ window' \in WindowType /\ WindowConsistent(window')
        /\ total_successes' \in 0..(CounterModulus - 1)
        /\ total_failures' \in 0..(CounterModulus - 1)
    BY <1>1 DEF MachineInv, TypeOK, WindowExact, ForceOpen, totals
  <2>2. QED
    BY <1>1, <2>1, RecordCounters, EnterOpenInv DEF ForceOpen
<1>2. CASE ForceClosed
  <2>1. /\ total_successes' \in 0..(CounterModulus - 1)
        /\ total_failures' \in 0..(CounterModulus - 1)
    BY <1>2 DEF MachineInv, TypeOK, ForceClosed, totals
  <2>2. QED
    BY <1>2, <2>1, RecordCounters, EnterClosedInv DEF ForceClosed
<1>3. QED
  BY <1>1, <1>2

LEMMA InitInv == Init => MachineInv
<1> SUFFICES ASSUME Init PROVE MachineInv
  OBVIOUS
<1>1. wait_duration \in Nat
  BY WaitForAssumption, WaitIsNat, WidthAssumption DEF Init
<1>2. TypeOK
  BY <1>1, EmptyWindowConsistent, WidthAssumption DEF Init, TypeOK, State
<1>3. OpenHasTimer /\ CountersInPhase /\ BackoffConsistent
  BY DEF Init, OpenHasTimer, CountersInPhase, BackoffConsistent, NotOpen
<1>4. Filled(window) = 0
  BY DEF Init, EmptyWindow, Filled
<1>5. WindowExact /\ StreakMatchesWindow /\ OverdueTripOnlyFromWarmup
  BY <1>4, EmptyWindowConsistent
     DEF Init, WindowExact, StreakMatchesWindow, OverdueTripOnlyFromWarmup, RateReached
<1>6. QED
  BY <1>2, <1>3, <1>5 DEF MachineInv

LEMMA StutterInv == MachineInv /\ UNCHANGED smVars => MachineInv'
BY DEF MachineInv, TypeOK, OpenHasTimer, CountersInPhase, WindowExact, StreakMatchesWindow,
       OverdueTripOnlyFromWarmup, BackoffConsistent, smVars, counters, totals, timing

LEMMA StepInv == MachineInv /\ [Next]_smVars => MachineInv'
<1> SUFFICES ASSUME MachineInv, [Next]_smVars PROVE MachineInv'
  OBVIOUS
<1>1. CASE RecordSuccess
  BY <1>1, RecordSuccessInv
<1>2. CASE RecordFailure
  BY <1>2, RecordFailureInv
<1>3. CASE ForceOpen \/ ForceClosed
  BY <1>3, ForcedInv
<1>4. CASE ClockTick
  BY <1>4, ClockTickInv
<1>5. CASE UNCHANGED smVars
  BY <1>5, StutterInv
<1>6. QED
  BY <1>1, <1>2, <1>3, <1>4, <1>5 DEF Next

\* Every reachable state satisfies all the parts of MachineInv.
THEOREM MachineInvariant == Spec => []MachineInv
<1>1. QED
  BY InitInv, StepInv, PTL DEF Spec

\* Type correctness of the state machine.
THEOREM TypeCorrect == Spec => []TypeOK
<1>1. MachineInv => TypeOK
  BY DEF MachineInv
<1>2. QED
  BY <1>1, MachineInvariant, PTL

\* An Open circuit always has the timer that ends it (threat T4).
THEOREM NeverOpenWithoutTimer == Spec => []OpenHasTimer
<1>1. MachineInv => OpenHasTimer
  BY DEF MachineInv
<1>2. QED
  BY <1>1, MachineInvariant, PTL

\* The window's failure count is exact and bounded (REQ-BRK-022).
THEOREM WindowAlwaysExact == Spec => []WindowExact
<1>1. MachineInv => WindowExact
  BY DEF MachineInv
<1>2. QED
  BY <1>1, MachineInvariant, PTL

\* The streak and the window always agree.
THEOREM StreakAlwaysMatchesWindow == Spec => []StreakMatchesWindow
<1>1. MachineInv => StreakMatchesWindow
  BY DEF MachineInv
<1>2. QED
  BY <1>1, MachineInvariant, PTL

\* The omitted trip check of record_success only matters during warm-up.
THEOREM OverdueOnlyFromWarmup == Spec => []OverdueTripOnlyFromWarmup
<1>1. MachineInv => OverdueTripOnlyFromWarmup
  BY DEF MachineInv
<1>2. QED
  BY <1>1, MachineInvariant, PTL

\* No counter survives its episode, and none reaches its threshold.
THEOREM CountersStayInPhase == Spec => []CountersInPhase
<1>1. MachineInv => CountersInPhase
  BY DEF MachineInv
<1>2. QED
  BY <1>1, MachineInvariant, PTL

\* The wait in force is the backoff's for the trips since the last recovery.
THEOREM BackoffAlwaysConsistent == Spec => []BackoffConsistent
<1>1. MachineInv => BackoffConsistent
  BY DEF MachineInv
<1>2. QED
  BY <1>1, MachineInvariant, PTL

\* With a strategy that never shortens its waits, neither does the circuit
\* between two recoveries (REQ-BRK-023).
THEOREM BackoffGrows ==
    ASSUME \A a, b \in 1..MaxAttempts : a <= b /\ ~Panics(a) /\ ~Panics(b) =>
               \A x \in WaitFor(a), y \in WaitFor(b) : x <= y
    PROVE  Spec => BackoffNeverShrinks
<1>1. ASSUME MachineInv, NEW count, EnterOpen(count), current # "Closed"
      PROVE  wait_duration' >= wait_duration
  <2>1. /\ open_attempts \in 0..MaxAttempts /\ open_attempts # 0 /\ wait_duration \in Nat
        /\ open_attempts' = SaturatingInc(open_attempts)
        /\ MaxAttempts \in Nat \ {0}
    BY <1>1, WidthAssumption DEF MachineInv, TypeOK, BackoffConsistent, EnterOpen
  <2>2. open_attempts' \in 1..MaxAttempts /\ open_attempts <= open_attempts'
    BY <2>1 DEF SaturatingInc
  <2>3. PICK a \in 1..open_attempts : wait_duration \in WaitFor(a)
    BY <1>1, <2>1 DEF MachineInv, BackoffConsistent
  <2>4. CASE Panics(open_attempts')
    <3>1. wait_duration' = wait_duration
      BY <1>1, <2>4 DEF EnterOpen, NewWait
    <3>2. QED
      BY <2>1, <3>1
  <2>5. CASE ~Panics(open_attempts')
    <3>1. wait_duration' \in WaitFor(open_attempts')
      BY <1>1, <2>5 DEF EnterOpen, NewWait
    <3>2. ~Panics(a)
      BY <2>1, <2>3 DEF Panics, Panic
    <3>3. wait_duration' \in Nat
      BY <2>2, <2>5, <3>1, WaitIsNat
    <3>4. a \in 1..MaxAttempts /\ a <= open_attempts'
      BY <2>1, <2>2, <2>3
    <3>5. wait_duration <= wait_duration'
      BY <2>2, <2>3, <2>5, <3>1, <3>2, <3>4
    <3>6. QED
      BY <2>1, <3>3, <3>5
  <2>6. QED
    BY <2>4, <2>5
<1>2. ASSUME MachineInv, [Next]_smVars, current # "Closed", current' # "Closed"
      PROVE  wait_duration' >= wait_duration
  <2> USE <1>2
  <2>1. wait_duration \in Nat
    BY DEF MachineInv, TypeOK
  <2>2. CASE Retrip \/ ForceOpen
    BY <2>2, <1>1 DEF Retrip, ForceOpen
  <2>3. CASE Recover \/ ForceClosed
    BY <2>3 DEF Recover, ForceClosed, EnterClosed
  <2>4. CASE SuccessInClosed \/ Tolerate \/ Trip
    BY <2>4 DEF SuccessInClosed, Tolerate, Trip, CurrentState, UpgradeDue
  <2>5. CASE ProbeSucceeds \/ Ignore \/ ClockTick \/ UNCHANGED smVars
    <3>1. wait_duration' = wait_duration
      BY <2>5 DEF ProbeSucceeds, Ignore, ClockTick, smVars, timing
    <3>2. QED
      BY <2>1, <3>1
  <2>6. QED
    BY <2>2, <2>3, <2>4, <2>5 DEF Next, RecordSuccess, RecordFailure
<1>3. MachineInv /\ [Next]_smVars =>
        [current # "Closed" /\ current' # "Closed" => wait_duration' >= wait_duration]_smVars
  BY <1>2
<1>4. QED
  BY <1>3, MachineInvariant, PTL DEF Spec, BackoffNeverShrinks

\* An open circuit is held open by trip() alone: what is left of its wait shrinks or
\* stays (REQ-BRK-004).
THEOREM TimerAlwaysRunsDown == Spec => TimerRunsDown
<1> DEFINE Held == CurrentState = "Open" /\ CurrentState' = "Open"
           Down == ForceOpen \/ wait_duration' - open_age' <= wait_duration - open_age
<1>1. ASSUME MachineInv, [Next]_smVars, Held PROVE Down
  <2> USE <1>1
  <2>1. /\ current = "Open" /\ open_age \in Nat /\ wait_duration \in Nat
        /\ current' = "Open"
    BY DEF MachineInv, TypeOK, OpenHasTimer, CurrentState
  <2>2. CASE ClockTick
    BY <2>1, <2>2 DEF ClockTick
  <2>3. CASE Ignore \/ UNCHANGED smVars
    BY <2>1, <2>3 DEF Ignore, smVars, timing
  <2>4. ~SuccessInClosed /\ ~ProbeSucceeds /\ ~Recover /\ ~Tolerate /\ ~Trip /\ ~Retrip
    BY DEF SuccessInClosed, ProbeSucceeds, Recover, Tolerate, Trip, Retrip
  <2>5. ~ForceClosed
    BY <2>1 DEF ForceClosed, EnterClosed
  <2>6. QED
    BY <2>2, <2>3, <2>4, <2>5 DEF Next, RecordSuccess, RecordFailure
<1> HIDE DEF Held, Down
<1>2. MachineInv /\ [Next]_smVars => [Held => Down]_smVars
  BY <1>1
<1>3. QED
  BY <1>2, MachineInvariant, PTL DEF Spec, TimerRunsDown, Held, Down

\* Snapshots with the same counters differ by the clock at most, once the counters
\* can count at all (REQ-BRK-012 and 204).
THEOREM SnapshotsAreVersioned ==
    ASSUME CounterModulus > 1
    PROVE  Spec => SnapshotsVersioned
<1> DEFINE Same == UNCHANGED <<Metrics.transitions, Metrics.total_successes, Metrics.total_failures>>
           Fits == \/ UNCHANGED Metrics
                   \/ Metrics.state = "Open" /\ Metrics' = [Metrics EXCEPT !.state = "HalfOpen"]
<1>1. \A n \in 0..(CounterModulus - 1) : Inc64(n) # n
  BY WidthAssumption DEF Inc64
<1>2. ASSUME MachineInv, Next, Same PROVE ClockTick
  <2>1. /\ transitions' = transitions
        /\ total_successes' = total_successes /\ total_failures' = total_failures
    BY <1>2 DEF Metrics
  <2>2. /\ transitions \in 0..(CounterModulus - 1)
        /\ total_successes \in 0..(CounterModulus - 1)
        /\ total_failures \in 0..(CounterModulus - 1)
    BY <1>2 DEF MachineInv, TypeOK
  <2>3. ~RecordSuccess /\ ~RecordFailure /\ ~ForceOpen /\ ~ForceClosed
    BY <1>1, <2>1, <2>2 DEF RecordSuccess, RecordFailure, ForceOpen, ForceClosed,
                           EnterOpen, EnterClosed
  <2>4. QED
    BY <1>2, <2>3 DEF Next
<1>3. ASSUME MachineInv, ClockTick PROVE Fits
  <2>1. UNCHANGED <<LifetimeRate, WindowRate, totals, transitions>>
    BY <1>3 DEF ClockTick, totals, LifetimeRate, WindowRate, Filled
  <2>2. current = "Open" /\ current' = "Open"
    BY <1>3 DEF MachineInv, OpenHasTimer, ClockTick
  <2>3. CurrentState' = CurrentState \/ (CurrentState = "Open" /\ CurrentState' = "HalfOpen")
    <3>1. CurrentState # "HalfOpen"
      BY <1>3 DEF MachineInv, TypeOK, OpenHasTimer, ClockTick, CurrentState, UpgradeDue,
                  WaitElapsed, NotOpen
    <3>2. QED
      BY <2>2, <3>1 DEF CurrentState
  <2>4. QED
    BY <2>1, <2>3 DEF Metrics, totals
<1> HIDE DEF Same, Fits
<1>4. MachineInv /\ [Next]_smVars => [Same => Fits]_smVars
  BY <1>2, <1>3
<1>5. QED
  BY <1>4, MachineInvariant, PTL DEF Spec, SnapshotsVersioned, Same, Fits

=============================================================================

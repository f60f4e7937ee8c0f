---------------------------- MODULE StateMachine ----------------------------
(***************************************************************************)
(* The Closed / Open / HalfOpen machine of state.rs, one action per        *)
(* mutating method.  Every method runs under the breaker's write lock, so  *)
(* each is one step; module CircuitBreaker puts the callers around it.     *)
(*                                                                         *)
(* Time is a count of ticks since the circuit opened.  The Open -> HalfOpen*)
(* upgrade is lazy: once the wait has elapsed the circuit READS as HalfOpen*)
(* (CurrentState), and the next record_* call writes it down.              *)
(***************************************************************************)
EXTENDS SlidingWindow

CONSTANTS
    ConsecutiveFailures,  \* failures in a row that trip the circuit
    RateNum, RateDen,     \* failure_rate_threshold = RateNum / RateDen; 0 disables it
    MinimumCalls,         \* outcomes the window must hold before its rate counts
    SuccessThreshold,     \* successful probes that close the circuit
    MaxAttempts,          \* u32::MAX for open_attempts, small in a run
    CounterModulus,       \* 2^64 for the lifetime counters, small in a run
    WaitFor(_)            \* the waits backoff.wait_for(attempt) may return, in ticks,
                          \* or {Panic}

ASSUME ThresholdAssumption ==
    /\ ConsecutiveFailures \in Nat
    /\ RateNum \in Nat
    /\ RateDen \in Nat \ {0}
    /\ MinimumCalls \in Nat
    /\ SuccessThreshold \in Nat

ASSUME WidthAssumption == MaxAttempts \in Nat \ {0} /\ CounterModulus \in Nat \ {0}

\* A strategy whose wait no Duration holds panics, whatever the random draw.
Panic == -1
Panics(attempt) == WaitFor(attempt) = {Panic}

\* The constructor asks for the first wait, so a breaker exists only if that one
\* does not panic.
ASSUME WaitForAssumption ==
    /\ \A attempt \in 1..MaxAttempts :
         Panics(attempt) \/ (WaitFor(attempt) # {} /\ WaitFor(attempt) \subseteq Nat)
    /\ ~Panics(1)

VARIABLES
    current,          \* the stored state
    failure_count,    \* consecutive failures of this Closed episode
    success_count,    \* successful probes of this HalfOpen episode
    total_successes, total_failures, transitions,   \* lifetime counters
    open_age,         \* ticks since open_since, NotOpen when open_since is None
    wait_duration,    \* wait of the current Open episode
    open_attempts,    \* trips since the last recovery
    window

counters == <<failure_count, success_count>>
timing   == <<open_age, wait_duration, open_attempts>>
totals   == <<total_successes, total_failures>>
smVars   == <<current, counters, totals, transitions, timing, window>>

State   == {"Closed", "Open", "HalfOpen"}
NotOpen == -1

Inc64(n) == IF n + 1 = CounterModulus THEN 0 ELSE n + 1

\* Slip: += 1 where the code saturates.
PlainInc(n) == n + 1

SaturatingInc(n) == IF n < MaxAttempts THEN n + 1 ELSE MaxAttempts

-----------------------------------------------------------------------------
(* What the machine reads.                                                 *)

WaitElapsed == open_age # NotOpen /\ open_age >= wait_duration

\* The Open state whose wait is over, which the next record_* call upgrades.
UpgradeDue == current = "Open" /\ WaitElapsed

CurrentState == IF UpgradeDue THEN "HalfOpen" ELSE current

\* The fields the lazy upgrade resets, as record_* sees them after it.
ProbeSuccesses      == IF UpgradeDue THEN 0 ELSE success_count
UpgradedTransitions == IF UpgradeDue THEN Inc64(transitions) ELSE transitions

\* An empty window has rate 0, whatever the division would say.
RateReached(w) ==
    /\ RateNum > 0
    /\ Filled(w) > 0 /\ Filled(w) >= MinimumCalls
    /\ w.failures * RateDen >= RateNum * Filled(w)

\* Slip: the early return for the streak is all there is.
ShouldTripOnStreak(streak, w) == streak >= ConsecutiveFailures

\* failure_count and the window, as they are once the failure is in.
ShouldTrip(streak, w) == streak >= ConsecutiveFailures \/ RateReached(w)

\* The two rates, as fractions: of all calls ever recorded, and of the window.
Ratio(num, den) == IF den = 0 THEN <<0, 1>> ELSE <<num, den>>

LifetimeRate == Ratio(total_failures, total_successes + total_failures)
WindowRate   == Ratio(window.failures, Filled(window))

\* CircuitBreaker::metrics(): all of it read under one read guard.
Metrics == [failure_rate        |-> LifetimeRate,
            window_failure_rate |-> WindowRate,
            state               |-> CurrentState,
            total_successes     |-> total_successes,
            total_failures      |-> total_failures,
            transitions         |-> transitions]

\* The wait of this Open episode.  A backoff that panics unwinds out of transition()
\* here, after everything else is written: the lock is released, not poisoned,
\* and the circuit is Open with the wait of an earlier trip.
NewWait ==
    IF Panics(open_attempts') THEN UNCHANGED wait_duration
                              ELSE wait_duration' \in WaitFor(open_attempts')

\* The waits the n-th trip since a recovery may leave in force.
LatestWaits(n) ==
    UNION {WaitFor(a) : a \in {b \in 1..n : ~Panics(b) /\ \A c \in (b + 1)..n : Panics(c)}}

-----------------------------------------------------------------------------
(* Slips: single mistakes in the steps below, each of which a property must *)
(* tell from the code.  No specification uses them.                         *)

\* The wait is computed before the timer is set: a panic leaves Open without one.
EnterOpenTimerLast(count) ==
    /\ current' = "Open"
    /\ transitions' = Inc64(count)
    /\ failure_count' = 0 /\ success_count' = 0
    /\ open_attempts' = SaturatingInc(open_attempts)
    /\ IF Panics(open_attempts')
       THEN open_age' = NotOpen /\ UNCHANGED wait_duration
       ELSE open_age' = 0 /\ wait_duration' \in WaitFor(open_attempts')

\* transition() keeps the counts of the episode it ends.
EnterOpenKeepingCounts(count) ==
    /\ current' = "Open"
    /\ transitions' = Inc64(count)
    /\ UNCHANGED counters
    /\ open_attempts' = SaturatingInc(open_attempts)
    /\ open_age' = 0
    /\ NewWait

\* Recovery leaves the attempt counter standing; or a reset() of a Closed circuit
\* counts no transition.
EnterClosedWith(total, attempts, kept) ==
    /\ current' = "Closed"
    /\ transitions' = total
    /\ failure_count' = 0 /\ success_count' = 0
    /\ open_attempts' = attempts
    /\ open_age' = NotOpen
    /\ window' = kept
    /\ UNCHANGED wait_duration

EnterClosedKeepingAttempts(count) == EnterClosedWith(Inc64(count), open_attempts, EmptyWindow)
EnterClosedIfChanged(count) ==
    EnterClosedWith(IF current = "Closed" THEN count ELSE Inc64(count), 0, EmptyWindow)

\* A failure recorded in Open starts the wait over.
IgnoreRestartingTimer ==
    /\ CurrentState = "Open"
    /\ open_age' = 0
    /\ UNCHANGED <<current, counters, transitions, wait_duration, open_attempts, window>>

\* A result recorded when the upgrade is due is taken for one in Open.
IgnoreStored ==
    /\ current = "Open"
    /\ UNCHANGED <<current, counters, transitions, timing, window>>

\* A success in Closed leaves the streak standing.
SuccessKeepingStreak ==
    /\ CurrentState = "Closed"
    /\ window' = Record(window, 0)
    /\ UNCHANGED <<current, counters, transitions, timing>>

\* The upgrade starts the backoff over.
ProbeRestartingBackoff ==
    /\ CurrentState = "HalfOpen"
    /\ ProbeSuccesses + 1 < SuccessThreshold
    /\ current' = "HalfOpen"
    /\ success_count' = ProbeSuccesses + 1
    /\ failure_count' = IF UpgradeDue THEN 0 ELSE failure_count
    /\ transitions' = UpgradedTransitions
    /\ open_age' = NotOpen /\ open_attempts' = 0
    /\ UNCHANGED <<wait_duration, window>>

-----------------------------------------------------------------------------
(* transition(next): the two arms that are ever taken.  EnterOpen leaves   *)
(* the window to its caller, which may just have recorded into it.         *)

EnterOpen(count) ==
    /\ current' = "Open"
    /\ transitions' = Inc64(count)
    /\ failure_count' = 0 /\ success_count' = 0
    /\ open_attempts' = SaturatingInc(open_attempts)
    /\ open_age' = 0
    /\ NewWait

EnterClosed(count) ==
    /\ current' = "Closed"
    /\ transitions' = Inc64(count)
    /\ failure_count' = 0 /\ success_count' = 0
    /\ open_attempts' = 0
    /\ open_age' = NotOpen
    /\ window' = EmptyWindow
    /\ UNCHANGED wait_duration

\* Recorded while the circuit is open: only the lifetime counters move.
Ignore ==
    /\ CurrentState = "Open"
    /\ UNCHANGED <<current, counters, transitions, timing, window>>

-----------------------------------------------------------------------------
Init ==
    /\ current = "Closed"
    /\ failure_count = 0 /\ success_count = 0
    /\ total_successes = 0 /\ total_failures = 0 /\ transitions = 0
    /\ open_age = NotOpen
    /\ wait_duration \in WaitFor(1)
    /\ open_attempts = 0
    /\ window = EmptyWindow

\* record_success in Closed: the streak ends, and no trip check is made.
SuccessInClosed ==
    /\ CurrentState = "Closed"
    /\ failure_count' = 0
    /\ window' = Record(window, 0)
    /\ UNCHANGED <<current, success_count, transitions, timing>>

\* record_success in HalfOpen, short of the threshold.
ProbeSucceeds ==
    /\ CurrentState = "HalfOpen"
    /\ ProbeSuccesses + 1 < SuccessThreshold
    /\ current' = "HalfOpen"
    /\ success_count' = ProbeSuccesses + 1
    /\ failure_count' = IF UpgradeDue THEN 0 ELSE failure_count
    /\ transitions' = UpgradedTransitions
    /\ open_age' = NotOpen
    /\ UNCHANGED <<wait_duration, open_attempts, window>>

Recover ==
    /\ CurrentState = "HalfOpen"
    /\ ProbeSuccesses + 1 >= SuccessThreshold
    /\ EnterClosed(UpgradedTransitions)

RecordSuccess ==
    /\ total_successes' = Inc64(total_successes)
    /\ UNCHANGED total_failures
    /\ SuccessInClosed \/ ProbeSucceeds \/ Recover \/ Ignore

\* record_failure in Closed, below both thresholds.
Tolerate ==
    /\ CurrentState = "Closed"
    /\ ~ShouldTrip(failure_count + 1, Record(window, 1))
    /\ failure_count' = failure_count + 1
    /\ window' = Record(window, 1)
    /\ UNCHANGED <<current, success_count, transitions, timing>>

\* record_failure in Closed, at a threshold.  The window keeps the failure.
Trip ==
    /\ CurrentState = "Closed"
    /\ ShouldTrip(failure_count + 1, Record(window, 1))
    /\ EnterOpen(transitions)
    /\ window' = Record(window, 1)

\* record_failure in HalfOpen: one failed probe opens the circuit again.
Retrip ==
    /\ CurrentState = "HalfOpen"
    /\ EnterOpen(UpgradedTransitions)
    /\ UNCHANGED window

RecordFailure ==
    /\ total_failures' = Inc64(total_failures)
    /\ UNCHANGED total_successes
    /\ Tolerate \/ Trip \/ Retrip \/ Ignore

\* trip() and reset(): no upgrade first, whatever the stored state is.
ForceOpen   == EnterOpen(transitions) /\ UNCHANGED <<totals, window>>
ForceClosed == EnterClosed(transitions) /\ UNCHANGED totals

\* Time passes.  Ages past the wait all read alike, so the clock stops there.
ClockTick ==
    /\ open_age # NotOpen
    /\ open_age < wait_duration
    /\ open_age' = open_age + 1
    /\ UNCHANGED <<current, counters, totals, transitions, wait_duration, open_attempts, window>>

Next == RecordSuccess \/ RecordFailure \/ ForceOpen \/ ForceClosed \/ ClockTick

\* Time is the only thing that is sure to happen: callers may stop calling.
Fairness == WF_smVars(ClockTick)

Spec     == Init /\ [][Next]_smVars
FairSpec == Spec /\ Fairness

-----------------------------------------------------------------------------
(* Properties.                                                             *)

TypeOK ==
    /\ current \in State
    /\ failure_count \in Nat /\ success_count \in Nat
    /\ total_successes \in 0..(CounterModulus - 1)
    /\ total_failures \in 0..(CounterModulus - 1)
    /\ transitions \in 0..(CounterModulus - 1)
    /\ open_age \in Nat \cup {NotOpen}
    /\ wait_duration \in Nat
    /\ open_attempts \in 0..MaxAttempts
    /\ window \in WindowType

\* An Open circuit always carries the timer that ends it, and no other state
\* does, even after a backoff that panicked in the middle of transition():
\* current() and the lazy upgrade both skip an Open without open_since, which
\* would then be open for good.
OpenHasTimer == current = "Open" <=> open_age # NotOpen

\* Each counter lives in its own state only, and stays below its threshold:
\* no path leaves a count behind for the next episode, so the u32 increments
\* cannot overflow and a recovery never starts half done.
CountersInPhase ==
    /\ failure_count > 0 => current = "Closed" /\ failure_count < ConsecutiveFailures
    /\ success_count > 0 => current = "HalfOpen" /\ success_count < SuccessThreshold

\* The failure count the window maintains across evictions is the number of
\* failures it holds (so the u32 subtraction never underflows and the rate stays
\* in [0, 1]), and it never holds more than its capacity.
WindowExact == WindowConsistent(window)

\* The two trip criteria see the same history: while Closed, failure_count is
\* the length of the run of failures that ends the window (or covers it, when
\* the streak is longer than the window).
StreakMatchesWindow ==
    current = "Closed" =>
        LET outcomes == window.outcomes
            held     == Filled(window)
        IN  /\ \A i \in 1..held : i > held - failure_count => outcomes[i] = 1
            /\ failure_count < held => outcomes[held - failure_count] = 0
            /\ failure_count > held => held = Capacity

\* record_success makes no trip check.  The price is bounded: a Closed circuit
\* whose window is at the trip rate got there as the window filled up to
\* minimum_calls, and every outcome since is a success; a failure would have
\* tripped it.
OverdueTripOnlyFromWarmup ==
    current = "Closed" /\ RateReached(window) =>
        \A i \in 1..Filled(window) : i >= MinimumCalls => window.outcomes[i] = 0

\* The attempt counter is 0 exactly while Closed, and until the circuit
\* recovers the wait in force is the one the backoff gave for the latest attempt
\* it did not panic on: the upgrade to HalfOpen resets neither, and a wait of
\* before the recovery is never used.
BackoffConsistent ==
    /\ open_attempts = 0 <=> current = "Closed"
    /\ current # "Closed" =>
         \E a \in 1..open_attempts :
            /\ wait_duration \in WaitFor(a)
            /\ \A b \in (a + 1)..open_attempts : Panics(b)

\* The inductive invariant: most parts need another to survive a step.
MachineInv ==
    /\ TypeOK
    /\ OpenHasTimer
    /\ CountersInPhase
    /\ WindowExact
    /\ StreakMatchesWindow
    /\ OverdueTripOnlyFromWarmup
    /\ BackoffConsistent

\* Trips without a recovery between them never shorten the wait, as long as the
\* strategy itself does not (no jitter, factor >= 1): nothing a caller records
\* in Open or HalfOpen starts the backoff over.
BackoffNeverShrinks ==
    [][current # "Closed" /\ current' # "Closed" => wait_duration' >= wait_duration]_smVars

\* The counters of a snapshot are a version number: between two snapshots with the
\* same counters only the clock was at work.  Nothing recorded, forced, upgraded
\* or cleared escapes them.
SnapshotsVersioned ==
    [][UNCHANGED <<Metrics.transitions, Metrics.total_successes, Metrics.total_failures>> =>
         \/ UNCHANGED Metrics
         \/ Metrics.state = "Open" /\ Metrics' = [Metrics EXCEPT !.state = "HalfOpen"]]_smVars

\* What is left of the wait of an open circuit never grows again, unless trip() is
\* called: no result recorded meanwhile puts the half-open probe off.
TimerRunsDown ==
    [][CurrentState = "Open" /\ CurrentState' = "Open" =>
         \/ ForceOpen
         \/ wait_duration' - open_age' <= wait_duration - open_age]_smVars

\* Only trip() can hold an open circuit open: whatever is recorded meanwhile,
\* the circuit reads as something other than Open again and again, unless it is
\* forced open again and again.  record_* in Open must not restart the timer.
ProbesEventually == []<>(CurrentState # "Open") \/ []<><<ForceOpen>>_smVars

\* The eager breaker this machine stands for: the upgrade already made, and the
\* window and the streak only of the Closed episode they judge.
Eager == INSTANCE EagerBreaker WITH
    Size      <- Capacity,
    Waits     <- [n \in 1..MaxAttempts |-> LatestWaits(n)],
    mode      <- CurrentState,
    streak    <- IF current = "Closed" THEN failure_count ELSE 0,
    recent    <- IF current = "Closed" THEN window.outcomes ELSE <<>>,
    probes    <- IF CurrentState = "HalfOpen" THEN ProbeSuccesses ELSE 0,
    remaining <- IF CurrentState = "Open" THEN wait_duration - open_age ELSE 0,
    attempts  <- open_attempts,
    successes <- total_successes,
    failures  <- total_failures

\* Every behaviour of the machine is one of the eager breaker: REQ-BRK-004 and
\* 006 to 009 hold of what callers read, although the upgrade is written late,
\* the failures are counted incrementally and the window is cleared only when
\* the circuit recovers.  The lifetime counters tell a recorded result from a
\* trip() or a reset() (they wrap at 2^64; a modulus of 1 would not tell): so no
\* result trips or closes the circuit before its thresholds are met (REQ-BRK-202),
\* none that meets them, or comes when the upgrade is due, is ignored, and only
\* ticks of the clock, as many as the backoff asked for, half-open it.
ImplementsEagerBreaker == Eager!Spec

=============================================================================

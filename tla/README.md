# breaker: specifications, model checking and proofs

TLA+ specifications of the `breaker` crate, an async circuit breaker for Rust:
what each part of it does, translated from `src/src/*.rs`; the TLC runs that
check them on small instances; and theorems checked by TLAPS for every value of
the constants. `PROJECT.json` lists the components, runs, findings, hazards and
theorems, and maps each definition to the lines it stands for.

## 1. The system

A `CircuitBreaker` wraps fallible async operations. Clones share one `Inner`
(`lib.rs:124`): a configuration, a `StateMachine` behind an `RwLock`, an atomic
counter of probe permits *outside* that lock, and an optional callback.

| Component | Source | State it keeps | Operations | Correct when |
|---|---|---|---|---|
| Sliding window | `state.rs:20-76` | ring of recent outcomes, incremental failure count | `record`, `filled`, `failure_rate`, `clear` | count exact across evictions; never above capacity |
| State machine | `state.rs:78-308` | stored state, streak, probe successes, `open_since`, wait, attempts, window, lifetime counters | `record_success`, `record_failure`, `force_open`, `force_closed`, `current` | fields consistent with each other; lazy half-opening invisible to callers; Open always ends |
| Breaker: calls | `lib.rs:146-175, 282-355` | permit counter, the guards of calls in flight | `call` | at most `half_open_max_calls` probes, admitted in HalfOpen only; no slot leaked; the circuit heals |
| Breaker: manual | `lib.rs:217-248, 383-399` | none of its own | `record_success`, `record_failure`, `trip`, `reset` | as for the state machine, under concurrency |
| Callback and gauge | `lib.rs:250-280` | none | `fire_callback` | every change of state announced; the last one told is the state |
| Backoff | `config.rs:5-136` | thread-local random state | `wait_for(attempt)` | documented growth, cap and jitter bounds; the generator never sticks; no panic |
| Config builder | `config.rs:181-417` | one optional value per field | setters, `build`, presets | a usable configuration from any calls in any order |
| Failure predicate | `config.rs:138-179, 290-297` | none | `is_breaker_failure` | only a predicate of the error's own type may excuse it |
| Lock shim | `lock.rs` | none | `RwLock`, `AtomicUsize` per build flavour | (test harness but for the re-export) |
| Tower layer | `tower.rs` | a breaker and a service | `poll_ready`, `call` | an Open circuit does not run the service; every request is answered or dropped |
| Metrics | `metrics.rs`, `lib.rs:253-276, 358-381` | none (read-only snapshots, emission) | `metrics`, `emit_failure_metrics` | values taken from one moment |
| Errors, names | `error.rs`, `lib.rs:402-416` | none | | |

How they interact. `call` takes the read lock, reads `current()`, and in HalfOpen
acquires a permit by a CAS loop *while still holding the read lock*; it then
awaits the operation with no lock held, possibly under a timeout, takes the write
lock to record the result, releases it, announces the transition if there was one,
and drops the permit last. The manual entry points do the second half only. `trip`
and `reset` read the state they will announce as left in a critical section of
its own. The state machine asks the backoff for a wait at each trip. A recorded
failure is followed by a critical section of its own that samples the streak and the
rate for the metrics. `BreakerService::call` runs the wrapped service's `call` at once
and gives its future to `CircuitBreaker::call`, inside a future it returns.

What is hard. The await separates admission from recording, so results arrive
in states they were not admitted in. A future may be dropped at the await. The
counter of permits is not protected by the lock and outlives the HalfOpen episode
it belongs to. Half-opening is lazy: read by `current()`, written by the next
recording. Two histories of the same calls (streak and window) and two durations
of backoff (attempt and wait) are kept by separate lines. Callbacks run after the
lock is released. Waits are computed in `f64`; one that no `Duration` holds panics in
the middle of `transition()`, and the lock is not poisoned. A Tower request has a
future before the breaker is asked, which may be dropped before its first poll.

## 2. The modules

| Module | Stands for | Built on |
|---|---|---|
| `SlidingWindow` | `struct Window`, as functions on a window value | |
| `StateMachine` | `struct StateMachine`, one action per method and outcome | `SlidingWindow` |
| `EagerBreaker` | abstract: what the machine promises to its callers | |
| `AtomicBreaker` | abstract: what the breaker promises to concurrent callers | `EagerBreaker` |
| `FailurePredicate` | `FailurePredicate`, `is_breaker_failure` | |
| `CircuitBreaker` | `call`, manual recordings, `trip`, `reset`, metrics sampling, callback, run by concurrent tasks | `StateMachine`, `FailurePredicate` |
| `Announcements` | what the callback and the gauge tell of the circuit | `CircuitBreaker` |
| `Tower` | `BreakerLayer`, `BreakerService` | `CircuitBreaker` |
| `Backoff` | the formula of `BackoffStrategy::wait_for` | |
| `BackoffDraws` | `wait_for` trip after trip, with `jitter_rand` and `seed` | `Backoff` |
| `ConfigBuilder` | `CircuitBreakerConfigBuilder`, presets | |
| `MCWaits`, `MCCallers` | values the models share: waits (from `Backoff`), tasks, errors, a predicate | |
| `MC*` | one per module checked: its constants for TLC | |
| `*_proofs` | theorems and proofs | |

Definitions under the heading *Slips*, or with a comment that starts with
*Slip*, are single mistakes (a dropped guard, a missing reset). No specification
uses them: each shows that some property fails when the code has that mistake,
and `PROJECT.json` pairs them under `mutants`.

### StateMachine

The variables are the fields of the struct, with these abstractions.

* *Time.* `open_since` and the clock become `open_age`, the number of ticks since
  the circuit opened (`NotOpen` for `None`). The code only compares the elapsed
  time with `wait_duration`, so the clock stops once they are equal. `Instant` is
  monotonic.
* *Half-opening.* `CurrentState` is `current()`. `record_*` first apply the
  upgrade (`maybe_transition_to_half_open`) and then match on the state. Both
  happen in one critical section, so they are one action here: `ProbeSuccesses`
  and `UpgradedTransitions` are the fields as the match sees them.
  `force_open`/`force_closed` skip the upgrade, as in the code.
* *Numbers.* A rate threshold is the fraction `RateNum / RateDen`, compared
  exactly. The code divides in `f32`; the two agree on windows of realistic size
  unless the threshold lies within a rounding error of a rate. `open_attempts`
  saturates at `MaxAttempts` (for `u32::MAX`) and lifetime counters wrap at
  `CounterModulus` (for 2^64, release build).
* *Backoff.* `WaitFor(attempt)` is the set of waits the strategy may return, so a
  jittered strategy is a set of several, and a strategy that panics at that attempt is
  `{Panic}`. A wait of 0 is allowed. `NewWait` is the assignment at `state.rs:248`: a
  panic there unwinds with everything else written and the previous wait in force.
* `WaitFor(1)` at `Init` is `initial_wait()`; the value is never read before a trip.

Each method is a disjunction of named outcomes: `RecordSuccess` is
`SuccessInClosed`, `ProbeSucceeds`, `Recover` or `Ignore`; `RecordFailure` is
`Tolerate`, `Trip`, `Retrip` or `Ignore`. `transition()` is `EnterOpen` and
`EnterClosed`; its HalfOpen arm is never taken.

`Metrics` is what `metrics()` returns, read under one guard. The assumptions allow
zeros everywhere: `CircuitBreakerConfig` has public fields, and one changed after
`build()` is not clamped. The first wait must not panic, because the constructor asks
for it.

### EagerBreaker

The machine's promise: the outcomes of the current Closed episode are judged by counting
them; tripping forgets them at once; an Open circuit has a timer, and the tick that ends
the wait turns it HalfOpen by itself. The steps are told apart by what they count:
`Success` and `Failure` move their lifetime counter and open or close the circuit exactly
when the thresholds say so; `Force` (`trip()` and `reset()`) may at any time, and counts
nothing; `Tick` takes one tick off `remaining` and touches nothing else. How long a trip
may wait depends on how many came before it since the last recovery (`Waits`, `attempts`).
So a trip, a recovery or a half-opening that comes too early is no step of it, and neither
is a result that meets a threshold and does nothing.

`StateMachine!Eager` is the refinement mapping: `mode` is what callers read, `streak` and
`recent` are the streak and the window while Closed, `probes` is what the lazy upgrade will
have left of `success_count`, `remaining` is what is left of the wait while the circuit
reads Open; the counters are the machine's. That `StateMachine` implements it says that the
lazy upgrade, the incremental count, the window kept through Open and HalfOpen and the
comparison of an age with a wait cannot be told from the simple design (REQ-BRK-004, 006 to
009, 011, 022, 202). The wait of a backoff that panics is that of the latest attempt it did
not panic on (`LatestWaits`).

The lifetime counters label the steps only if they can count to 1: with a modulus of 1 a
result could pass for a `trip()`. They wrap at 2^64 in the code, at 3 in the run.

### CircuitBreaker

A task is a caller: `pc` says where it is.

| `pc` | In the code | Left by |
|---|---|---|
| `idle` | not in the breaker | `RefuseOpen`, `AdmitClosed`, `BeginAcquire`, `Manual*`, `TripReads`, `ResetReads` |
| `acquire` | in the CAS loop, holding the read lock | `Reject`, `CasSucceeds`, `CasFails` |
| `running` | the operation is awaited, no lock held | `OperationSucceeds`, `OperationFails`, `OperationTimesOut`, `OperationErrsUncounted`, `Cancel` |
| `trip`, `reset` | between the two critical sections of `trip()` / `reset()` | `TripWrites`, `ResetWrites` |
| `emit` | failure recorded, the histograms not yet sampled | `EmitFailure` |
| `announce` | write lock released, callback not yet run | `Announce` |
| `release` | about to return and drop its permit | `Return` |

A critical section with one access is one step. The admission of a probe makes
several, so it holds the lock shared through `pc = "acquire"`; `WriteLockFree`
makes writers wait for it. `seen` is the CAS loop's local variable, `held` the
`HalfOpenPermit` guard, `pending` the pair `record_*` returned (or `trip`/`reset`
composed). An operation that errs returns some error of `Errors`; `IsBreakerFailure`
decides between `OperationFails` and `OperationErrsUncounted`. `Cancel` is a future
dropped at its await or an operation that panics. When the trip a failure makes, or
`trip()`, panics in the backoff (`BackoffPanics`), the task skips the metrics and the
callback and goes to `release`, where its guard drops the permit. `callbacks` and
`announced` record what the callback was given; the manual entry points pass through
`release` with no permit to drop. A callback that panics ends the call as `Announce` and
`Return` do; one that calls the breaker again does what another task's call does, no
lock being held. The wait between the clock read in `current()` and the end of the
critical section is not modelled: time passes between steps.

### AtomicBreaker

The breaker's promise: an `EagerBreaker` in front of which a call is let in at one moment,
and then owns a probe slot, if the circuit was HalfOpen, until it is over. `stage` is all
there is of a call: `called`, or `probing` and then `concluded`. `Conclude` is an
operation that ends, `Abandon` one that is dropped, `FreeSlot` the return of a probe,
`ByHand` the manual entry points; a refused call is not seen at all. Where some error does
not count (`MayNotCount`), a call may end and record nothing; that a counted error is not
lost on the way is then not part of this promise.

`CircuitBreaker!Atomic` is the refinement mapping: the circuit as `StateMachine!Eager` has
it, and `StageOf(t)` from `pc` and `held`. That `CircuitBreaker` implements it says that
the admission, which takes several steps, takes effect at one (the CAS that succeeds);
that the counter outside the lock counts what the guards own; and that every path out of
`call` records once or never and gives back what it took (REQ-BRK-010, 021, 200, 201, 203).

### Announcements

`Announcements` adds a history variable, `overlapped`: was another transition still
unannounced when the latest was made? Nothing in `CircuitBreaker` depends on it.

### Tower

The services are the tasks of `CircuitBreaker`: a clone of the layer or of a service
shares the breaker. `request` says how far the request each carries has come.

| `request` | In the code | Left by |
|---|---|---|
| `none` | no request | `PollReady`; `ReadinessFails` stays; `Direct` uses the breaker without the layer |
| `ready` | `poll_ready` returned `Ok` | `ServiceCall`: `inner.call(req)` runs here |
| `built` | the boxed future exists, the breaker has not let it in | `Refused`, `Admitted`, `DropUnpolled`; `Acquiring` stays |
| `admitted` | the read lock is released, the service's future not polled yet | `FirstPolled` |
| `polled` | the operation awaited is the service's future | `Answered`, whatever ends the operation |

Every action of `Tower` that moves the breaker is an action of `CircuitBreaker` with a
condition on `request`, so the layer adds requests and takes nothing away. Between an
admission and the first poll (`lib.rs:322` to 340) there is no await, so the call cannot
be dropped there, and a timeout polls the operation before it looks at the clock; but no
lock is held, so another task may open the circuit in between. An open circuit may hence
poll a future, also for the first time, but lets none in: `OpenDrainsService`.

### Backoff, BackoffDraws, ConfigBuilder, FailurePredicate

`Backoff` keeps of `f64` what can go wrong with it: powers that overflow to
infinity, `Duration::MAX` rounding up when it becomes an `f64`, and
`from_secs_f64` panicking on what no `Duration` holds. Durations are whole ticks,
factors fractions, negative ones and 0 among them; `BackoffStrategy` is the set of all
strategies. `Grown` is the product, clamped to the maximum: an infinite power makes it
infinite, or not a number when the initial wait is 0, and `f64::min` returns the maximum
for both. `FloatAssumption` keeps for smaller constants what holds of the code's: 2 to the
capped exponent (1024) overflows, and an `f64` goes further than a `Duration`. `Waits`
is the set of waits a strategy allows, which is what `StateMachine` takes its waits from.

`BackoffDraws` is the code that picks one of them: a circuit that trips again and again
on one thread. A word of the generator is the set of its bits that are 1; a seed is
any word (the clock) with its lowest bit set. In the code the words have 64 bits and the
shifts are 13, 7 and 17; the module takes any, and the run 4 bits with shifts scaled to
them. (The comment at `config.rs:108` calls the generator xorshift64\*; the code has no
final multiplication.) `DrawnWaitBounded` ties the two modules: what is drawn is in `Waits`.

`ConfigBuilder` has one action per setter (the five `u32` setters, which are alike,
are one). Beside the builder's fields it keeps what each setter was
last asked for, so that properties can compare the configuration with the requests.
`Build` changes no state and is an operator, as the presets are.

`FailurePredicate` types an error and a predicate: an error of another type than the
predicate was built for counts as a failure.

## 3. The runs

| Run | Question | Bounds | States |
|---|---|---|---|
| `state_machine` | are the machine's fields always consistent, does the lazy machine implement the eager one, does Open end? | window 5, streak 3, rate 2/5 from 4 calls, 2 probes, waits of 0, 1 and 2 ticks and then a panic, attempts saturate at 4, counters wrap at 3 | 18 306 |
| `breaker_safety` | do permits, admission and announcements survive every interleaving, and is the breaker an atomic one? | 3 tasks (symmetric), 2 slots, waits of 0 and then of 0 or 1, the third trip and later ones panic | 600 593 |
| `tower` | are requests answered, is the service never locked out, does it heal? | 2 services, 1 slot, waits of 1, call timeout | 33 124 |
| `backoff` | is each wait the documented one, and each drawn wait within it? | 5 or 6 values of each duration, 7 factors, 5 jitters, exponent cap 7, overflow at 128, words of 4 bits, 10 trips | 94 380 |
| `config_builder` | does any order of setters build a usable configuration? | counts 0, 1, 4; rates below, in, above the range, at its ends and NaN; timeouts 0, 2 | 129 024 |

The bounds are small and still reach what matters: the window wraps, evicts
failures and successes, and is longer than the streak (a streak that outgrows the
window, the third part of `StreakMatchesWindow`, is left to the theorem); rate and streak
each trip alone (three failures before a fourth outcome, two in five with a success in
between); the attempt counter saturates; the lifetime counters wrap; three
tasks on two slots make a CAS fail, a caller be rejected and permits of an earlier
episode be held in the next; a backoff panics at a re-trip and in `trip()`;
powers pass both the exponent cap and the overflow; the generator reaches every word
but 0. Errors are three: one the predicate counts, one it does not, one of another type.

In the breaker's runs the lifetime counters have modulus 1 (they are constant):
only `callback_count` needs them, and counts to 8. Rate tripping is off in
them: with it, a trip needs fewer steps but reaches no other state of the permits.
With constant counters a success that changes nothing (recorded in Open, or in a
Closed circuit whose window holds it already) looks like an uncounted error, which
`Heals` takes for a setback. It excuses nothing: endlessly many of them need a
circuit that stays Closed. `state_machine` counts modulo 3, so that a
result ignored in Open is told from a `trip()`, and `SnapshotsVersioned` has counters to
compare. In `breaker_safety` the stages of the calls tell them apart instead: a call whose
result trips the circuit too early is no step of `AtomicBreaker`, though one recorded by
hand could pass for a `trip()`; the theorem holds with counters that count.

Runs with liveness properties use no symmetry. Deadlock is checked in every passing run.

Seven runs expect a violation: each checks what a document or a comment says of the
crate and the code does not do.

| Run | Claim | What the counterexample shows |
|---|---|---|
| `callback_count` | REQ-BRK-018: the callback fires exactly once per transition | Open to HalfOpen is counted and never announced |
| `callback_pair` | REQ-BRK-018: with the correct (prev, next) pair | `trip()` announces a state that another task left in between |
| `late_success` | `config.rs:232`: successful *probe* calls close the circuit | a call admitted while Closed returns in HalfOpen and counts |
| `hung_probe` | threat model A3: never locked out forever | with no `call_timeout`, a probe that never answers keeps its slot for ever |
| `tower_eager_call` | REQ-BRK-102: an open circuit must not invoke the user operation | `inner.call(req)` runs before the breaker is asked; only the future it returns is not polled |
| `histogram_streak` | REQ-BRK-205: the histogram records the real consecutive-failure count | the failure that trips is sampled after the trip reset the streak to 0 |
| `backoff_uncapped` | `config.rs:101`: `from_secs_f64` cannot panic | `max = Duration::MAX` rounds up past the limit |

## 4. Fairness

`StateMachine`: weak fairness of the clock, and nothing else; callers may stop.

`CircuitBreaker`: weak fairness of the clock, and of every step a thread takes inside
the breaker's own code (the CAS loop, `EmitFailure`, `Announce`, `Return`). The second
half of `trip()` and `reset()`, and the recording of an ended operation, wait for
the write lock, which admissions may hold again and again: `parking_lot`'s lock is
task-fair (a waiting writer blocks new readers), which is strong fairness of those
steps. An operation is only sure to end when `CallTimeout` is set. Nothing makes a
manual call happen. The CAS loop needs no more than weak fairness of its steps: with the
one slot of the run a CAS fails only because another succeeded or gave back, and the loop then ends.

`Tower`: the fairness of the breaker, and `PollFairness`, the contract of a Rust future:
it is polled sooner or later or dropped; a call let in goes on to the first poll of its
operation. `Demand` adds that requests keep coming and that
not all of them are dropped unpolled; without demand a circuit need not heal.

The liveness properties name what may rightly prevent them: `NeverLockedOut` allows
`trip()` being called for ever, `Heals` allows failures, cancellations,
uncounted errors and trips that never cease. `RequestsAnswered` allows nothing.

## 5. What is proved

All theorems hold for every value of the constants that the named assumptions
admit: any natural thresholds and sizes (0 included), any positive width of the
counters, any nonempty set of waits or a panic per attempt (but the first), any finite
set of tasks, any errors and predicate, any word size and shifts of the generator.

* **The window** (`SlidingWindow_proofs`). `RecordConsistent`: the incremental count
  is the number of failures held, whatever is pushed and evicted. It rests on two
  lemmas on cardinalities, one for `Append` (`AppendCount`) and one for `Tail`
  (`TailCount`, by a bijection that shifts positions by one).
* **The machine** (`StateMachine_proofs`). `MachineInvariant`: `Spec => []MachineInv`.
  `MachineInv` is the conjunction of the seven invariants of the run, proved together
  because most need another to survive a step: `WindowExact` needs the types;
  `StreakMatchesWindow` needs `WindowExact` (a streak grows past the window only when
  the window is full); `OverdueTripOnlyFromWarmup` needs `WindowExact` too, with the
  lemma `SuccessNeverRaisesRate`, which is the comment at `state.rs:164` made precise;
  `BackoffConsistent` needs the range of the attempt counter. The
  step is proved action by action. `BackoffGrows` derives the action property from
  the invariant, for strategies whose waits do not decrease. `SnapshotsAreVersioned`
  shows that every step but the clock's moves a counter, when the counters can count to
  1 at least, so equal counters mean an equal snapshot but for the clock.
  `TimerAlwaysRunsDown` is the safety half of `ProbesEventually`: in an open circuit only
  `trip()` puts the half-open probe off.
* **Refinement** (`EagerRefinement_proofs`). `LazyImplementsEager`:
  `Spec => ImplementsEagerBreaker`. A record in a state the upgrade is due in maps to
  the eager step from HalfOpen, each tick of the clock maps to `Tick`, the wait a trip
  leaves in force is one `Waits` allows (`WaitAfterTrip`, `WaitIsLatest`), and
  `WindowExact` turns the incremental count into the eager one's counting. No recorded
  result and no tick maps to a stutter.
* **The breaker** (`CircuitBreaker_proofs`). `BreakerRunsMachine`:
  `BreakerSpec => Spec`, so all of the above holds inside the breaker under
  concurrency. `BreakerInvariant`: `BreakerInv` adds that the permit counter is the
  number of tasks owning a guard (`PermitsAccounted`, with `OwnerCount` on the
  cardinality of the owners), that admission is stable under the read lock
  (`AdmissionStable`, which needs the machine's invariant so that the clock cannot
  end a HalfOpen), and the types. `ProbesOnlyInHalfOpen` follows. `EveryChangeIsAnnounced`
  needs one more invariant, `PairsHeld`: what a pair carried from one critical section
  to the next, by `trip()`, `reset()` or a recorded failure, ends in.
  `OnlyFailuresTakeItBack` is the safety half of `Heals`: nothing but a counted failure, a
  timeout or a trip takes the circuit a step back on its way to Closed, so what `Heals`
  leaves to fairness is that the way is walked.
* **The atomic breaker** (`CircuitBreaker_proofs`). `BreakerImplementsAtomic`:
  `BreakerSpec => ImplementsAtomicBreaker`. Each step of a task maps to a step of the atomic
  breaker or to a stutter. The CAS that succeeds is the admission: `AdmissionStable` says
  that the circuit still reads HalfOpen then, and `PermitsAccounted` that the counter it
  compares is the number of slots owned (`OwnersHold`). What is recorded is a step of the
  eager breaker by the lemmas of `EagerRefinement_proofs`, under the lock or by hand; a
  slot goes back when a probe returns or is dropped; everything else is hidden
  (`HiddenSteps`). `AtomicBreaker` extends `EagerBreaker`, so `SameCircuit` carries the
  lemmas from one instance to the other.
* **Announcements** (`Announcements_proofs`). `AnnouncementsHold`:
  `ObservedSpec => []LastAnnouncementHolds`. The property speaks of moments when nothing is
  left to announce, so it is not inductive. `Told` is: without an overlap at most one
  task has something to announce, and its pair, or else the last announcement, shows
  the state. A transition that overlaps none starts from the second case and ends in
  the first; the clock and the lazy upgrade change neither (`StillShown`); a panicking trip
  announces nothing, and nothing has to be: it is a re-trip, or a `trip()`, of a circuit whose
  last announcement was Open already, because the attempts that make a backoff panic
  are not the first (`PanicStaysShown`).
* **Tower** (`Tower_proofs`). `TowerRunsBreaker`: `TowerSpec => BreakerSpec`, so all of the
  above holds behind the layer. `TowerTypeCorrect` ties `request` to the breaker's program
  counter, and `OpenAlwaysDrains` follows from it and `AdmissionStable`.
* **The backoff** (`BackoffDraws_proofs`), for every strategy, attempt and size of the
  numbers. `WaitWithinMax`: an exponential wait is in `0..max`, or it panics and `max` is
  `Duration::MAX`; so `WaitsUsable`, which (but for the first wait) is `StateMachine`'s assumption on its
  backoff, and `DrawnWaitsBounded`. `ExponentialNeverShrinks`: with a factor of at least 1 a
  later attempt waits no less, step by step (`GrownStep`): a finite product times the
  factor is no smaller, a power once infinite stays infinite, and past the cap
  nothing changes. `WaitsNeverShrink` is then the hypothesis of `BackoffGrows`, and
  `WaitsAlwaysGrow` follows. `WaitIsDocumented`: multiplying and capping once per trip is
  capping once at the end (`ReferenceClosed`); where the exponent is cut (`CapHarmless`)
  or the power infinite (`OverflowHarmless`) the wait is the maximum already, unless the
  factor is 0 or 1. `AlwaysMatchesReference` is the same along a behaviour.
  Powers, the reference and the bits of a word are recursive functions. Two lemmas stand in
  for the induction theorems, which take operators: `InductionOnSets` is induction for a
  subset of the naturals, and `RecursionOnNat` gives a function defined by recursion its
  two equations.
* **The generator** (`BackoffDraws_proofs`). `XorShiftInjective`: a shift by at least one
  bit followed by the exclusive or with the original loses nothing. If two words differ,
  take the lowest bit they differ in (the highest for the shift down): no shifted bit
  reaches it, so the results differ there. Hence a word other than 0 never leads to 0,
  and `GeneratorAlwaysSeeded` follows. `DrawBelowOne`: the high bits of a word make a number
  below the range it is divided by.
* **The builder** (`ConfigBuilder_proofs`). `FieldsAgree`, that each field is the clamped form
  of what its setter was last asked for, is inductive; `BuiltAlwaysUsable` and
  `LastRequestAlwaysWins` follow from it by cases on what was set.

Every invariant and action property of the passing runs is proved, and both refinements.
Only model-checked: liveness under fairness (`ProbesEventually`, `NeverLockedOut`, `Heals`,
`RequestsAnswered`), which the prover cannot do. That the wait is the documented one is
stated for whole factors; for others the model rounds products to ticks where the code
rounds to an `f64`, and the theorems say that the wait is bounded and does not shrink.

## 6. What is not modelled

* `error.rs`, names and formatting (`Debug`, `Display`): they have no behaviour. Which
  variant a call returns follows from the action that ends it.
* The counters of the `metrics` crate, which are incremented and never read. The snapshot,
  the histograms' second critical section and the gauge are modelled.
* The loom and kani lock shims, tests, benches and examples: harness.
* `f32` rounding of rates and `f64` rounding of waits between whole ticks: rates are exact
  fractions, waits are rounded to a tick.
* The shifts 13, 7 and 17 on words of 64 bits are not run by TLC; the theorems on the
  generator and its draws hold for them; TLC checks words of 4 bits.
* A factor near 1. The comment at `config.rs:96` takes `factor^1024` to be infinite for every
  factor above 1; 1.01^1024 is below 27000, so such a wait stops growing at attempt 1025,
  short of `max`. `FloatAssumption` asks for the overflow of 2 alone.
* A jitter that is not a number: it passes both clamps, and `mul_f64` panics in the
  constructor, which asks for the first wait. No breaker exists then.
* Threads that seed their generators at the same reading of the clock draw alike. Nothing in
  the documentation promises otherwise.
* A configuration changed on its public fields after `build()`: the safety theorems cover it,
  the liveness runs do not (a breaker without probes never heals by itself).

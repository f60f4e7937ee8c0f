--------------------------- MODULE CircuitBreaker ---------------------------
(***************************************************************************)
(* CircuitBreaker::call, the manual recordings, trip() and reset() of      *)
(* lib.rs, run by concurrent tasks over one StateMachine.                  *)
(*                                                                         *)
(* The machine sits behind an RwLock.  A critical section that makes one    *)
(* access is one step here; the one that makes several, the admission of a  *)
(* probe, keeps the lock shared while its CAS loop runs (pc = "acquire").   *)
(* Probe permits are an atomic counter outside the lock.  Metrics are       *)
(* emitted and transitions announced to the state-change callback after the *)
(* lock is released.                                                        *)
(***************************************************************************)
EXTENDS StateMachine, FailurePredicate

CONSTANTS
    Tasks,             \* the callers; clones of a breaker share everything
    HalfOpenMaxCalls,  \* half_open_max_calls
    CallTimeout        \* TRUE if call_timeout is Some (feature "timeout")

ASSUME CallerAssumption ==
    /\ IsFiniteSet(Tasks)
    /\ HalfOpenMaxCalls \in Nat
    /\ CallTimeout \in BOOLEAN

VARIABLES
    pc,         \* where each task is, see Control
    permits,    \* Inner::half_open_permits
    seen,       \* the value of permits each CAS loop last observed, 0 outside it
    held,       \* does the task own a HalfOpenPermit?
    pending,    \* the (prev, next) pair a task has still to announce
    callbacks,  \* how many times fire_callback ran
    announced   \* the last pair it was given

taskVars == <<pc, permits, seen, held, pending>>
cbVars   == <<callbacks, announced>>
vars     == <<smVars, taskVars, cbVars>>

Control == {"idle", "acquire", "running", "emit", "announce", "release", "trip", "reset"}

NoPair == <<>>
Pairs  == State \X State

Goto(t, from, to) == pc[t] = from /\ pc' = [pc EXCEPT ![t] = to]

-----------------------------------------------------------------------------
(* Slips: single mistakes in the steps below, each of which a property must *)
(* tell from the code.  No specification uses them.                         *)

\* record_failure returns None for a re-trip.
FailurePairIfClosed ==
    IF CurrentState = "Closed" /\ ShouldTrip(failure_count + 1, Record(window, 1))
    THEN <<CurrentState, "Open">>
    ELSE NoPair

\* record_success reports the recovery one success late.
SuccessPairLate ==
    IF CurrentState = "HalfOpen" /\ ProbeSuccesses + 1 > SuccessThreshold
    THEN <<CurrentState, "Closed">>
    ELSE NoPair

\* The read guard is dropped before the permit is acquired.
NoReaderHoldsLock == TRUE

\* Every call gives a permit back, whether it took one or not.
DropUnheld(t) == permits' = permits - 1 /\ held' = [held EXCEPT ![t] = FALSE]

\* The guard checks, then adds: no compare.
AddWithoutCompare(t) ==
    /\ Goto(t, "acquire", "running")
    /\ seen[t] < HalfOpenMaxCalls
    /\ permits' = permits + 1
    /\ held' = [held EXCEPT ![t] = TRUE]
    /\ seen' = [seen EXCEPT ![t] = 0]
    /\ UNCHANGED <<smVars, pending, cbVars>>

\* The guard is dropped where it is made: the probe runs without its permit.
CasPermitDroppedAtOnce(t) ==
    /\ Goto(t, "acquire", "running")
    /\ seen[t] < HalfOpenMaxCalls
    /\ permits = seen[t]
    /\ seen' = [seen EXCEPT ![t] = 0]
    /\ UNCHANGED <<smVars, permits, held, pending, cbVars>>

\* A dropped future counts against the circuit.
CancelRecordingFailure(t) ==
    /\ Goto(t, "running", "idle")
    /\ \A u \in Tasks : pc[u] # "acquire"
    /\ RecordFailure
    /\ permits' = IF held[t] THEN permits - 1 ELSE permits
    /\ held' = [held EXCEPT ![t] = FALSE]
    /\ UNCHANGED <<seen, pending, cbVars>>

\* The permit is released by hand, not by a guard: a dropped future leaks it, or
\* a call that returns does.
CancelLeaking(t) ==
    /\ Goto(t, "running", "idle")
    /\ UNCHANGED <<smVars, permits, seen, held, pending, cbVars>>

ReturnLeaking(t) ==
    /\ Goto(t, "release", "idle")
    /\ UNCHANGED <<smVars, permits, seen, held, pending, cbVars>>

-----------------------------------------------------------------------------
\* What record_success and record_failure return: the transition they made.
SuccessPair ==
    IF CurrentState = "HalfOpen" /\ ProbeSuccesses + 1 >= SuccessThreshold
    THEN <<CurrentState, "Closed">>
    ELSE NoPair

FailurePair ==
    IF \/ CurrentState = "HalfOpen"
       \/ CurrentState = "Closed" /\ ShouldTrip(failure_count + 1, Record(window, 1))
    THEN <<CurrentState, "Open">>
    ELSE NoPair

\* A writer waits for the admissions that hold the lock shared.
WriteLockFree == \A t \in Tasks : pc[t] # "acquire"

\* The backoff panics at the next trip, and unwinds through the write guard.
BackoffPanics == Panics(SaturatingInc(open_attempts))

\* Leave a critical section for the next place, with the pair still to announce.
Leave(t, next, pair) ==
    /\ pc' = [pc EXCEPT ![t] = next]
    /\ pending' = [pending EXCEPT ![t] = pair]

\* The success path of record_success.
RecordSuccessFor(t) ==
    /\ WriteLockFree
    /\ RecordSuccess
    /\ Leave(t, IF SuccessPair = NoPair THEN "release" ELSE "announce", SuccessPair)
    /\ UNCHANGED <<permits, seen, held, cbVars>>

\* record_failure, up to the metrics.  If its trip panics, nothing is emitted or
\* announced: only the permit's guard is left to run.
RecordFailureFor(t) ==
    /\ WriteLockFree
    /\ RecordFailure
    /\ IF FailurePair # NoPair /\ BackoffPanics
       THEN Leave(t, "release", NoPair)
       ELSE Leave(t, "emit", FailurePair)
    /\ UNCHANGED <<permits, seen, held, cbVars>>

DropPermit(t) ==
    /\ permits' = IF held[t] THEN permits - 1 ELSE permits
    /\ held' = [held EXCEPT ![t] = FALSE]

-----------------------------------------------------------------------------
(* call(): admission, under the read lock.                                 *)

\* CircuitOpen: returned at once, nothing touched.
RefuseOpen(t) == pc[t] = "idle" /\ CurrentState = "Open" /\ UNCHANGED vars

AdmitClosed(t) ==
    /\ CurrentState = "Closed"
    /\ Goto(t, "idle", "running")
    /\ UNCHANGED <<smVars, permits, seen, held, pending, cbVars>>

\* The circuit reads HalfOpen: HalfOpenPermit::acquire starts with a load.
BeginAcquire(t) ==
    /\ CurrentState = "HalfOpen"
    /\ Goto(t, "idle", "acquire")
    /\ seen' = [seen EXCEPT ![t] = permits]
    /\ UNCHANGED <<smVars, permits, held, pending, cbVars>>

\* Rejected: all slots taken when last looked at.
Reject(t) ==
    /\ Goto(t, "acquire", "idle")
    /\ seen[t] >= HalfOpenMaxCalls
    /\ seen' = [seen EXCEPT ![t] = 0]
    /\ UNCHANGED <<smVars, permits, held, pending, cbVars>>

CasSucceeds(t) ==
    /\ Goto(t, "acquire", "running")
    /\ seen[t] < HalfOpenMaxCalls
    /\ permits = seen[t]
    /\ permits' = seen[t] + 1
    /\ held' = [held EXCEPT ![t] = TRUE]
    /\ seen' = [seen EXCEPT ![t] = 0]
    /\ UNCHANGED <<smVars, pending, cbVars>>

\* Another task moved the counter.  (A spurious failure of the weak CAS reads
\* the same value again and changes nothing.)
CasFails(t) ==
    /\ pc[t] = "acquire"
    /\ seen[t] < HalfOpenMaxCalls
    /\ permits # seen[t]
    /\ seen' = [seen EXCEPT ![t] = permits]
    /\ UNCHANGED <<smVars, pc, permits, held, pending, cbVars>>

-----------------------------------------------------------------------------
(* call(): the operation, awaited without any lock, and what follows it.   *)

OperationSucceeds(t) == pc[t] = "running" /\ RecordSuccessFor(t)

OperationFails(t) ==
    /\ pc[t] = "running"
    /\ \E err \in Errors : IsBreakerFailure(err)
    /\ RecordFailureFor(t)

\* The timeout fires first: the answer is dropped and a failure recorded, whatever
\* the predicate would have said.
OperationTimesOut(t) == CallTimeout /\ pc[t] = "running" /\ RecordFailureFor(t)

\* An error failure_predicate does not count: nothing is recorded.
OperationErrsUncounted(t) ==
    /\ \E err \in Errors : ~IsBreakerFailure(err)
    /\ Goto(t, "running", "release")
    /\ UNCHANGED <<smVars, permits, seen, held, pending, cbVars>>

\* The future is dropped at its await (or the operation panics): the guard's
\* Drop is all that runs.
Cancel(t) ==
    /\ Goto(t, "running", "idle")
    /\ DropPermit(t)
    /\ UNCHANGED <<smVars, seen, pending, cbVars>>

\* emit_failure_metrics: a read guard of its own, under which the histograms
\* sample failure_rate() and failure_count() as they are by now.
EmitFailure(t) ==
    /\ pc[t] = "emit"
    /\ Leave(t, IF pending[t] = NoPair THEN "release" ELSE "announce", pending[t])
    /\ UNCHANGED <<smVars, permits, seen, held, cbVars>>

\* fire_callback, after the write lock is released.  (A callback that panics is
\* this step and Return; one that calls the breaker is another task's call.)
Announce(t) ==
    /\ Goto(t, "announce", "release")
    /\ callbacks' = Inc64(callbacks)
    /\ announced' = pending[t]
    /\ pending' = [pending EXCEPT ![t] = NoPair]
    /\ UNCHANGED <<smVars, permits, seen, held>>

\* The call returns and drops its permit, if it has one.
Return(t) ==
    /\ Goto(t, "release", "idle")
    /\ DropPermit(t)
    /\ UNCHANGED <<smVars, seen, pending, cbVars>>

-----------------------------------------------------------------------------
(* The manual entry points.                                                *)

ManualSuccess(t) == pc[t] = "idle" /\ RecordSuccessFor(t)
ManualFailure(t) == pc[t] = "idle" /\ RecordFailureFor(t)

\* trip() and reset() read the state they announce as left in one critical
\* section, and write in another.
TripReads(t) ==
    /\ Goto(t, "idle", "trip")
    /\ pending' = [pending EXCEPT ![t] = <<CurrentState, "Open">>]
    /\ UNCHANGED <<smVars, permits, seen, held, cbVars>>

TripWrites(t) ==
    /\ pc[t] = "trip" /\ WriteLockFree
    /\ ForceOpen
    /\ IF BackoffPanics THEN Leave(t, "release", NoPair) ELSE Leave(t, "announce", pending[t])
    /\ UNCHANGED <<permits, seen, held, cbVars>>

ResetReads(t) ==
    /\ Goto(t, "idle", "reset")
    /\ pending' = [pending EXCEPT ![t] = <<CurrentState, "Closed">>]
    /\ UNCHANGED <<smVars, permits, seen, held, cbVars>>

ResetWrites(t) ==
    /\ Goto(t, "reset", "announce") /\ WriteLockFree
    /\ ForceClosed
    /\ UNCHANGED <<permits, seen, held, pending, cbVars>>

Tick == ClockTick /\ UNCHANGED <<taskVars, cbVars>>

-----------------------------------------------------------------------------
BreakerInit ==
    /\ Init
    /\ pc = [t \in Tasks |-> "idle"]
    /\ permits = 0
    /\ seen = [t \in Tasks |-> 0]
    /\ held = [t \in Tasks |-> FALSE]
    /\ pending = [t \in Tasks |-> NoPair]
    /\ callbacks = 0
    /\ announced = NoPair

Admission(t) ==
    RefuseOpen(t) \/ AdmitClosed(t) \/ BeginAcquire(t) \/ Reject(t) \/ CasSucceeds(t) \/ CasFails(t)

OperationEnds(t) ==
    \/ OperationSucceeds(t) \/ OperationFails(t) \/ OperationTimesOut(t)
    \/ OperationErrsUncounted(t) \/ Cancel(t)

Manual(t) ==
    \/ ManualSuccess(t) \/ ManualFailure(t)
    \/ TripReads(t) \/ TripWrites(t) \/ ResetReads(t) \/ ResetWrites(t)

TaskStep(t) ==
    Admission(t) \/ OperationEnds(t) \/ EmitFailure(t) \/ Announce(t) \/ Return(t) \/ Manual(t)

BreakerNext == Tick \/ \E t \in Tasks : TaskStep(t)

BreakerSpec == BreakerInit /\ [][BreakerNext]_vars

\* Time passes, and a thread inside the breaker's own code keeps running.
\* parking_lot's lock is task-fair, so a waiting writer is not overtaken by new
\* readers for ever: strong fairness.  An operation ends only if a call_timeout
\* makes it.
BreakerFairness ==
    /\ WF_vars(Tick)
    /\ \A t \in Tasks :
        /\ WF_vars(Reject(t) \/ CasSucceeds(t) \/ CasFails(t))
        /\ WF_vars(EmitFailure(t))
        /\ WF_vars(Announce(t))
        /\ WF_vars(Return(t))
        /\ SF_vars(TripWrites(t))
        /\ SF_vars(ResetWrites(t))
        /\ CallTimeout => SF_vars(OperationEnds(t))

FairBreakerSpec == BreakerSpec /\ BreakerFairness

-----------------------------------------------------------------------------
(* Properties.                                                             *)

BreakerTypeOK ==
    /\ TypeOK
    /\ pc \in [Tasks -> Control]
    /\ permits \in Nat
    /\ seen \in [Tasks -> Nat]
    /\ held \in [Tasks -> BOOLEAN]
    /\ pending \in [Tasks -> Pairs \cup {NoPair}]
    /\ callbacks \in 0..(CounterModulus - 1)
    /\ announced \in Pairs \cup {NoPair}

\* Every permit counted is owned by exactly one call still in flight, and there
\* are never more than half_open_max_calls: no interleaving of CAS loops,
\* returns and cancellations leaks a slot, frees one twice or overshoots, and
\* permits left over from an earlier HalfOpen episode only reduce the next one's
\* (the comment on half_open_permits).
PermitsAccounted ==
    /\ permits = Cardinality({t \in Tasks : held[t]})
    /\ permits <= HalfOpenMaxCalls
    /\ \A t \in Tasks : held[t] => pc[t] \in {"running", "emit", "announce", "release"}

\* A permit is granted only while the circuit reads HalfOpen: no trip, reset or
\* recorded result comes between the state check and the CAS that follows it,
\* however many times the CAS is retried.
ProbeAdmittedInHalfOpen ==
    [][\A t \in Tasks : ~held[t] /\ held'[t] => CurrentState = "HalfOpen"]_vars

\* Why: while a task is in its CAS loop, the circuit keeps reading HalfOpen.
AdmissionStable == \A t \in Tasks : pc[t] = "acquire" => CurrentState = "HalfOpen"

\* The inductive invariant of the breaker.
BreakerInv == MachineInv /\ BreakerTypeOK /\ PermitsAccounted /\ AdmissionStable

\* The step after which t has the state just written to announce.
SetsOutToAnnounce(t) ==
    /\ pc[t] \notin {"emit", "announce"} /\ pc'[t] \in {"emit", "announce"}
    /\ pending'[t] # NoPair /\ pending'[t][2] = current'

\* Whatever changes the state callers read is the clock, or a write whose task is
\* on its way to announce the state written, unless its backoff panicked.
EveryChangeAnnounced ==
    [][CurrentState' # CurrentState =>
         \/ Tick
         \/ \E t \in Tasks : SetsOutToAnnounce(t)
         \/ BackoffPanics /\ current' = "Open"]_vars

\* A step back on the way from Open over the probes to Closed.
Regresses ==
    \/ CurrentState = "Closed" /\ CurrentState' # "Closed"
    \/ CurrentState = "HalfOpen" /\ CurrentState' = "Open"
    \/ CurrentState = "HalfOpen" /\ CurrentState' = "HalfOpen" /\ ProbeSuccesses' < ProbeSuccesses

\* Only a counted failure, a timeout or a trip() takes the circuit a step back.  A
\* call that is dropped, refused or fails with an error the predicate does not
\* count does not, and neither does a success that comes back late.  (A late failure
\* that is counted may: it re-trips a circuit it was never a probe of.)
OnlyFailuresRegress ==
    [][Regresses => \E t \in Tasks :
         \/ OperationFails(t) \/ OperationTimesOut(t) \/ ManualFailure(t) \/ TripWrites(t)]_vars

\* A call that came now would not be refused.
Admits == CurrentState = "Closed" \/ (CurrentState = "HalfOpen" /\ permits < HalfOpenMaxCalls)

\* Threat T4 and asset A3: the service is never locked out for good.  Again and
\* again a call that came would be let in, unless trip() keeps being called.
NeverLockedOut == []<>Admits \/ []<><<\E t \in Tasks : TripWrites(t)>>_vars

\* What can keep a circuit from closing.
Setback(t) ==
    \/ OperationFails(t) \/ OperationTimesOut(t) \/ OperationErrsUncounted(t) \/ Cancel(t)
    \/ ManualFailure(t) \/ TripWrites(t)

\* The breaker heals: once operations only succeed, a service in demand ends up
\* with its circuit Closed for good, whatever was in flight, half-recorded or
\* holding a permit at that time.
Heals == <>[](CurrentState = "Closed") \/ []<><<\E t \in Tasks : Setback(t)>>_vars

-----------------------------------------------------------------------------
(* What its callers see of it.                                             *)

StageOf(t) ==
    IF pc[t] = "running" THEN (IF held[t] THEN "probing" ELSE "called")
    ELSE IF held[t] THEN "concluded" ELSE "none"

Atomic == INSTANCE AtomicBreaker WITH
    Size        <- Capacity,
    Waits       <- [n \in 1..MaxAttempts |-> LatestWaits(n)],
    mode        <- CurrentState,
    streak      <- IF current = "Closed" THEN failure_count ELSE 0,
    recent      <- IF current = "Closed" THEN window.outcomes ELSE <<>>,
    probes      <- IF CurrentState = "HalfOpen" THEN ProbeSuccesses ELSE 0,
    remaining   <- IF CurrentState = "Open" THEN wait_duration - open_age ELSE 0,
    attempts    <- open_attempts,
    successes   <- total_successes,
    failures    <- total_failures,
    Callers     <- Tasks,
    ProbeSlots  <- HalfOpenMaxCalls,
    MayNotCount <- \E err \in Errors : ~IsBreakerFailure(err),
    stage       <- [t \in Tasks |-> StageOf(t)]

\* Every behaviour of the breaker is one of the atomic breaker: calls take effect as
\* if the state were read and the slot taken at one moment, a slot is owned from then
\* until its call is over, and what a call records is recorded once.
ImplementsAtomicBreaker == Atomic!AtomicSpec

-----------------------------------------------------------------------------
(* What the documentation says of the breaker, and the code does not do.   *)

\* REQ-BRK-018: the callback fires exactly once per transition.  The upgrade to
\* HalfOpen is counted as a transition and never announced.
AnnouncedOncePerTransition == (\A t \in Tasks : pc[t] = "idle") => callbacks = transitions

\* REQ-BRK-018: ... with the correct (prev, next) pair.  trip() and reset() read
\* prev before they take the write lock.
AnnouncedPairCorrect ==
    [][\A t \in Tasks : TripWrites(t) \/ ResetWrites(t) => pending[t][1] = CurrentState]_vars

\* REQ-BRK-205: the failure-count histogram records the real consecutive-failure
\* count.  It is sampled after the trip that reset it.
TripSamplesStreak ==
    [][\A t \in Tasks : EmitFailure(t) /\ pending[t] = <<"Closed", "Open">>
                          => failure_count > 0]_vars

\* config.rs, success_threshold: only successful probes close the circuit.  A call
\* admitted while Closed may come back in HalfOpen, and counts as one.
OnlyProbesCount ==
    [][\A t \in Tasks : OperationSucceeds(t) /\ CurrentState = "HalfOpen" => held[t]]_vars

\* Asset A3 of the threat model, at its weakest: a circuit nothing fails in any
\* more is not locked out for good.  Without a call_timeout a probe that never
\* answers keeps its slot, and the circuit stays HalfOpen and full.
LockedOutOnlyBySetbacks == []<>Admits \/ []<><<\E t \in Tasks : Setback(t)>>_vars

=============================================================================

------------------------ MODULE CircuitBreaker_proofs ------------------------
(***************************************************************************)
(* The breaker under any number of tasks: every step is a step of the state *)
(* machine, permits are never leaked nor exceeded, and a probe is admitted  *)
(* only while the circuit reads HalfOpen.                                   *)
(***************************************************************************)
EXTENDS CircuitBreaker, EagerRefinement_proofs

\* Each task step makes at most one state machine step.
LEMMA BreakerStepIsMachineStep == [BreakerNext]_vars => [Next]_smVars
BY DEF BreakerNext, TaskStep, Admission, OperationEnds, Manual, Tick,
       RefuseOpen, AdmitClosed, BeginAcquire, Reject, CasSucceeds, CasFails,
       OperationSucceeds, OperationFails, OperationTimesOut, OperationErrsUncounted,
       Cancel, EmitFailure, Announce, Return, ManualSuccess, ManualFailure,
       RecordSuccessFor, RecordFailureFor, TripReads, TripWrites, ResetReads, ResetWrites, Next, vars

\* The breaker's state machine is a StateMachine: all that is proved of the
\* machine holds of the breaker, whatever its callers do.
THEOREM BreakerRunsMachine == BreakerSpec => Spec
<1>1. BreakerInit => Init
  BY DEF BreakerInit
<1>2. QED
  BY <1>1, BreakerStepIsMachineStep, PTL DEF BreakerSpec, Spec

\* An operation's result and a manual recording are recorded alike.
LEMMA RecordingSteps ==
    \A t \in Tasks :
        /\ OperationSucceeds(t) \/ ManualSuccess(t) => RecordSuccessFor(t)
        /\ OperationFails(t) \/ OperationTimesOut(t) \/ ManualFailure(t) => RecordFailureFor(t)
BY DEF OperationSucceeds, OperationFails, OperationTimesOut, ManualSuccess, ManualFailure

-----------------------------------------------------------------------------
(* The permit counter.                                                     *)

\* A task that acquires, or drops, its permit adds one owner, or takes it away.
LEMMA OwnerCount ==
    ASSUME NEW h \in [Tasks -> BOOLEAN], NEW t \in Tasks
    PROVE  LET owners == {u \in Tasks : h[u]}
               with   == {u \in Tasks : [h EXCEPT ![t] = TRUE][u]}
               without == {u \in Tasks : [h EXCEPT ![t] = FALSE][u]}
           IN  /\ Cardinality(owners) \in Nat
               /\ ~h[t] => Cardinality(with) = Cardinality(owners) + 1
               /\ Cardinality(without) =
                    IF h[t] THEN Cardinality(owners) - 1 ELSE Cardinality(owners)
               /\ h[t] => Cardinality(owners) > 0
<1> DEFINE owners == {u \in Tasks : h[u]}
           with   == {u \in Tasks : [h EXCEPT ![t] = TRUE][u]}
           without == {u \in Tasks : [h EXCEPT ![t] = FALSE][u]}
<1>1. IsFiniteSet(owners) /\ Cardinality(owners) \in Nat
  BY CallerAssumption, FS_Subset, FS_CardinalityType
<1>2. with = owners \cup {t}
  OBVIOUS
<1>3. without = owners \ {t}
  OBVIOUS
<1>4. t \in owners <=> h[t]
  OBVIOUS
<1>5. ~h[t] => Cardinality(with) = Cardinality(owners) + 1
  BY <1>1, <1>2, <1>4, FS_AddElement
<1>6. Cardinality(without) = IF h[t] THEN Cardinality(owners) - 1 ELSE Cardinality(owners)
  BY <1>1, <1>3, <1>4, FS_RemoveElement
<1>7. h[t] => Cardinality(owners) > 0
  BY <1>1, <1>4, FS_EmptySet
<1>8. QED
  BY <1>1, <1>5, <1>6, <1>7

\* Only a CAS adds a permit, and only where it saw room.
LEMMA CasAccounted ==
    ASSUME BreakerInv, NEW t \in Tasks, CasSucceeds(t)
    PROVE  PermitsAccounted' /\ permits' \in Nat
<1>1. /\ held \in [Tasks -> BOOLEAN] /\ pc \in [Tasks -> Control]
      /\ permits \in Nat /\ HalfOpenMaxCalls \in Nat
  BY CallerAssumption DEF BreakerInv, BreakerTypeOK
<1>2. ~held[t] /\ permits' = permits + 1 /\ permits < HalfOpenMaxCalls
  BY DEF BreakerInv, PermitsAccounted, CasSucceeds, Goto
<1>3. Cardinality({u \in Tasks : held'[u]}) = Cardinality({u \in Tasks : held[u]}) + 1
  BY <1>1, <1>2, OwnerCount DEF CasSucceeds
<1>4. permits' = Cardinality({u \in Tasks : held'[u]})
  BY <1>2, <1>3 DEF BreakerInv, PermitsAccounted
<1>5. \A u \in Tasks : held'[u] => pc'[u] \in {"running", "emit", "announce", "release"}
  BY <1>1 DEF BreakerInv, PermitsAccounted, CasSucceeds, Goto
<1>6. QED
  BY <1>1, <1>2, <1>4, <1>5 DEF PermitsAccounted

\* A call that returns or is cancelled gives its permit back.
LEMMA DropAccounted ==
    ASSUME BreakerInv, NEW t \in Tasks, Return(t) \/ Cancel(t)
    PROVE  PermitsAccounted' /\ permits' \in Nat
<1>1. /\ held \in [Tasks -> BOOLEAN] /\ pc \in [Tasks -> Control]
      /\ permits \in Nat /\ HalfOpenMaxCalls \in Nat
  BY CallerAssumption DEF BreakerInv, BreakerTypeOK
<1>2. DropPermit(t) /\ pc' = [pc EXCEPT ![t] = "idle"]
  BY DEF Return, Cancel, Goto
<1>3. /\ permits = Cardinality({u \in Tasks : held[u]}) /\ permits <= HalfOpenMaxCalls
      /\ \A u \in Tasks : held[u] => pc[u] \in {"running", "emit", "announce", "release"}
  BY DEF BreakerInv, PermitsAccounted
<1>4. /\ permits' = Cardinality({u \in Tasks : held'[u]})
      /\ permits' <= HalfOpenMaxCalls /\ permits' \in Nat
  <2>1. /\ held' = [held EXCEPT ![t] = FALSE]
        /\ permits' = IF held[t] THEN permits - 1 ELSE permits
    BY <1>2 DEF DropPermit
  <2>2. /\ Cardinality({u \in Tasks : held'[u]}) = IF held[t] THEN permits - 1 ELSE permits
        /\ held[t] => permits > 0
    BY <1>1, <1>3, <2>1, OwnerCount
  <2>3. QED
    BY <1>1, <1>3, <2>1, <2>2
<1>5. \A u \in Tasks : held'[u] => pc'[u] \in {"running", "emit", "announce", "release"}
  BY <1>1, <1>2, <1>3 DEF DropPermit
<1>6. QED
  BY <1>4, <1>5 DEF PermitsAccounted

\* Every other step leaves permits and their owners alone, and takes no owner
\* out of its call.
LEMMA OthersAccounted ==
    ASSUME BreakerInv, UNCHANGED <<permits, held>>,
           \A u \in Tasks : held[u] => pc'[u] \in {"running", "emit", "announce", "release"}
    PROVE  PermitsAccounted' /\ permits' \in Nat
BY DEF BreakerInv, BreakerTypeOK, PermitsAccounted

LEMMA AccountingStep == BreakerInv /\ [BreakerNext]_vars => PermitsAccounted' /\ permits' \in Nat
<1> SUFFICES ASSUME BreakerInv, [BreakerNext]_vars PROVE PermitsAccounted' /\ permits' \in Nat
  OBVIOUS
<1>1. /\ pc \in [Tasks -> Control]
      /\ \A u \in Tasks : held[u] => pc[u] \in {"running", "emit", "announce", "release"}
  BY DEF BreakerInv, BreakerTypeOK, PermitsAccounted
<1>2. CASE Tick \/ UNCHANGED vars
  BY <1>1, <1>2, OthersAccounted DEF Tick, taskVars, vars
<1>3. ASSUME NEW t \in Tasks, TaskStep(t) PROVE PermitsAccounted' /\ permits' \in Nat
  <2>1. CASE RefuseOpen(t) \/ AdmitClosed(t) \/ BeginAcquire(t) \/ Reject(t) \/ CasFails(t)
    BY <1>1, <2>1, OthersAccounted
       DEF RefuseOpen, AdmitClosed, BeginAcquire, Reject, CasFails, Goto, vars, taskVars
  <2>2. CASE CasSucceeds(t)
    BY <2>2, CasAccounted
  <2>3. CASE RecordSuccessFor(t) \/ RecordFailureFor(t)
    <3>1. UNCHANGED <<permits, held>>
      BY <2>3 DEF RecordSuccessFor, RecordFailureFor
    <3>2. pc'[t] \in {"emit", "announce", "release"} /\ \A u \in Tasks \ {t} : pc'[u] = pc[u]
      BY <1>1, <2>3 DEF RecordSuccessFor, RecordFailureFor, Leave
    <3>3. QED
      BY <1>1, <3>1, <3>2, OthersAccounted
  <2>4. CASE OperationErrsUncounted(t) \/ EmitFailure(t) \/ Announce(t)
    BY <1>1, <2>4, OthersAccounted DEF OperationErrsUncounted, EmitFailure, Announce, Goto, Leave
  <2>5. CASE Return(t) \/ Cancel(t)
    BY <2>5, DropAccounted
  <2>6. CASE TripReads(t) \/ ResetReads(t) \/ ResetWrites(t)
    BY <1>1, <2>6, OthersAccounted DEF TripReads, ResetReads, ResetWrites, Goto
  <2>7. CASE TripWrites(t)
    BY <1>1, <2>7, OthersAccounted DEF TripWrites, Leave
  <2>8. QED
    BY <1>3, <2>1, <2>2, <2>3, <2>4, <2>5, <2>6, <2>7, RecordingSteps
       DEF TaskStep, Admission, OperationEnds, Manual
<1>4. QED
  BY <1>2, <1>3 DEF BreakerNext

-----------------------------------------------------------------------------
(* The admission of a probe.                                               *)

\* The clock never ends a HalfOpen reading; it only makes Open read HalfOpen.
LEMMA TickKeepsHalfOpen ==
    ASSUME MachineInv, ClockTick
    PROVE  CurrentState # "HalfOpen"
BY DEF MachineInv, TypeOK, OpenHasTimer, ClockTick, CurrentState, UpgradeDue, WaitElapsed, NotOpen

LEMMA AdmissionStep == BreakerInv /\ [BreakerNext]_vars => AdmissionStable'
<1> SUFFICES ASSUME BreakerInv, [BreakerNext]_vars PROVE AdmissionStable'
  OBVIOUS
<1>1. pc \in [Tasks -> Control] /\ AdmissionStable
  BY DEF BreakerInv, BreakerTypeOK
<1>2. ASSUME UNCHANGED smVars PROVE CurrentState' = CurrentState
  BY <1>2 DEF smVars, timing, CurrentState, UpgradeDue, WaitElapsed
<1>3. CASE Tick
  <2>1. CurrentState # "HalfOpen"
    BY <1>3, TickKeepsHalfOpen DEF Tick, BreakerInv
  <2>2. QED
    BY <1>1, <1>3, <2>1 DEF Tick, taskVars, AdmissionStable
<1>4. CASE UNCHANGED vars
  BY <1>1, <1>2, <1>4 DEF vars, taskVars, AdmissionStable
<1>5. ASSUME NEW t \in Tasks, TaskStep(t) PROVE AdmissionStable'
  <2>1. ASSUME WriteLockFree, NEW to \in Control \ {"acquire"}, pc' = [pc EXCEPT ![t] = to]
        PROVE  AdmissionStable'
    BY <1>1, <2>1 DEF WriteLockFree, AdmissionStable
  <2>2. ASSUME UNCHANGED smVars, NEW to \in Control \ {"acquire"}, pc' = [pc EXCEPT ![t] = to]
        PROVE  AdmissionStable'
    BY <1>1, <1>2, <2>2 DEF AdmissionStable
  <2>3. CASE RefuseOpen(t) \/ CasFails(t)
    BY <1>1, <1>2, <2>3 DEF RefuseOpen, CasFails, vars, taskVars, AdmissionStable
  <2>4. CASE BeginAcquire(t)
    BY <1>1, <1>2, <2>4 DEF BeginAcquire, Goto, AdmissionStable
  <2>5. CASE AdmitClosed(t) \/ Reject(t) \/ CasSucceeds(t)
    BY <2>2, <2>5 DEF AdmitClosed, Reject, CasSucceeds, Goto, Control
  <2>6. CASE RecordSuccessFor(t) \/ RecordFailureFor(t)
    BY <2>1, <2>6 DEF RecordSuccessFor, RecordFailureFor, Leave, Control
  <2>7. CASE OperationErrsUncounted(t) \/ Cancel(t) \/ EmitFailure(t) \/ Announce(t) \/ Return(t)
    BY <2>2, <2>7 DEF OperationErrsUncounted, Cancel, EmitFailure, Announce, Return,
                      Goto, Leave, Control
  <2>8. CASE TripWrites(t) \/ ResetWrites(t)
    BY <2>1, <2>8 DEF TripWrites, ResetWrites, Goto, Leave, Control
  <2>9. CASE TripReads(t) \/ ResetReads(t)
    BY <2>2, <2>9 DEF TripReads, ResetReads, Goto, Control
  <2>10. QED
    BY <1>5, <2>3, <2>4, <2>5, <2>6, <2>7, <2>8, <2>9, RecordingSteps
       DEF TaskStep, Admission, OperationEnds, Manual
<1>6. QED
  BY <1>3, <1>4, <1>5 DEF BreakerNext

-----------------------------------------------------------------------------
(* Types.                                                                  *)

\* The pair a recorded result reports, or none, is of the type of pending.
LEMMA PairType ==
    ASSUME TypeOK
    PROVE  /\ CurrentState \in State
           /\ SuccessPair \in Pairs \cup {NoPair}
           /\ FailurePair \in Pairs \cup {NoPair}
BY DEF TypeOK, State, CurrentState, SuccessPair, FailurePair, Pairs

LEMMA TypeStep ==
    ASSUME BreakerInv, [BreakerNext]_vars, TypeOK', permits' \in Nat
    PROVE  BreakerTypeOK'
<1>1. BreakerTypeOK /\ TypeOK
  BY DEF BreakerInv, BreakerTypeOK
<1>2. CASE Tick \/ UNCHANGED vars
  BY <1>1, <1>2 DEF Tick, vars, taskVars, cbVars, BreakerTypeOK
<1>3. ASSUME NEW t \in Tasks, TaskStep(t) PROVE BreakerTypeOK'
  <2>1. CASE RefuseOpen(t) \/ AdmitClosed(t) \/ OperationErrsUncounted(t)
    BY <1>1, <2>1 DEF RefuseOpen, AdmitClosed, OperationErrsUncounted, Goto, Control,
                      vars, taskVars, cbVars, BreakerTypeOK
  <2>2. CASE BeginAcquire(t) \/ Reject(t) \/ CasSucceeds(t) \/ CasFails(t)
    <3>1. pc' \in [Tasks -> Control] /\ held' \in [Tasks -> BOOLEAN]
      BY <1>1, <2>2 DEF BeginAcquire, Reject, CasSucceeds, CasFails, Goto, Control, BreakerTypeOK
    <3>2. seen' \in [Tasks -> Nat] /\ UNCHANGED <<pending, cbVars>>
      BY <1>1, <2>2 DEF BeginAcquire, Reject, CasSucceeds, CasFails, BreakerTypeOK
    <3>3. QED
      BY <1>1, <3>1, <3>2 DEF cbVars, BreakerTypeOK
  <2>3. CASE RecordSuccessFor(t)
    <3>1. /\ pending' = [pending EXCEPT ![t] = SuccessPair]
          /\ pc' \in [Tasks -> Control]
          /\ UNCHANGED <<seen, held, cbVars>>
      BY <1>1, <2>3 DEF RecordSuccessFor, Leave, Control, BreakerTypeOK
    <3>2. QED
      BY <1>1, <3>1, PairType DEF cbVars, BreakerTypeOK
  <2>4. CASE RecordFailureFor(t)
    <3>1. PICK pair \in {FailurePair, NoPair} : pending' = [pending EXCEPT ![t] = pair]
      BY <2>4 DEF RecordFailureFor, Leave
    <3>2. pc' \in [Tasks -> Control] /\ UNCHANGED <<seen, held, cbVars>>
      BY <1>1, <2>4 DEF RecordFailureFor, Leave, Control, BreakerTypeOK
    <3>3. QED
      BY <1>1, <3>1, <3>2, PairType DEF cbVars, BreakerTypeOK
  <2>5. CASE Return(t) \/ Cancel(t)
    BY <1>1, <2>5 DEF Return, Cancel, DropPermit, Goto, Control, cbVars, BreakerTypeOK
  <2>6. CASE Announce(t)
    BY <1>1, <2>6, IncType DEF Announce, Goto, Control, BreakerTypeOK
  <2>7. CASE EmitFailure(t)
    BY <1>1, <2>7 DEF EmitFailure, Leave, Control, cbVars, BreakerTypeOK
  <2>8. CASE TripReads(t) \/ ResetReads(t)
    <3>1. <<CurrentState, "Open">> \in Pairs /\ <<CurrentState, "Closed">> \in Pairs
      BY <1>1, PairType DEF Pairs, State
    <3>2. QED
      BY <1>1, <2>8, <3>1 DEF TripReads, ResetReads, Goto, Control, cbVars, BreakerTypeOK
  <2>9. CASE TripWrites(t) \/ ResetWrites(t)
    BY <1>1, <2>9 DEF TripWrites, ResetWrites, Goto, Leave, Control, cbVars, BreakerTypeOK
  <2>10. QED
    BY <1>3, <2>1, <2>2, <2>3, <2>4, <2>5, <2>6, <2>7, <2>8, <2>9, RecordingSteps
       DEF TaskStep, Admission, OperationEnds, Manual
<1>4. QED
  BY <1>2, <1>3 DEF BreakerNext

-----------------------------------------------------------------------------
LEMMA BreakerInitInv == BreakerInit => BreakerInv
<1> SUFFICES ASSUME BreakerInit PROVE BreakerInv
  OBVIOUS
<1>1. MachineInv
  BY InitInv DEF BreakerInit
<1>2. BreakerTypeOK
  BY <1>1, WidthAssumption DEF MachineInv, BreakerInit, BreakerTypeOK, Control
<1>3. PermitsAccounted
  <2>1. {t \in Tasks : held[t]} = {}
    BY DEF BreakerInit
  <2>2. QED
    BY <2>1, FS_EmptySet, CallerAssumption DEF BreakerInit, PermitsAccounted
<1>4. AdmissionStable
  BY DEF BreakerInit, AdmissionStable
<1>5. QED
  BY <1>1, <1>2, <1>3, <1>4 DEF BreakerInv

LEMMA BreakerStepInv == BreakerInv /\ [BreakerNext]_vars => BreakerInv'
<1> SUFFICES ASSUME BreakerInv, [BreakerNext]_vars PROVE BreakerInv'
  OBVIOUS
<1>1. MachineInv'
  BY BreakerStepIsMachineStep, StepInv DEF BreakerInv
<1>2. BreakerTypeOK'
  BY <1>1, AccountingStep, TypeStep DEF MachineInv
<1>3. QED
  BY <1>1, <1>2, AccountingStep, AdmissionStep DEF BreakerInv

\* Every reachable state of the breaker satisfies the inductive invariant.
THEOREM BreakerInvariant == BreakerSpec => []BreakerInv
<1>1. QED
  BY BreakerInitInv, BreakerStepInv, PTL DEF BreakerSpec

\* Type correctness of the breaker.
THEOREM BreakerTypeCorrect == BreakerSpec => []BreakerTypeOK
<1>1. BreakerInv => BreakerTypeOK
  BY DEF BreakerInv
<1>2. QED
  BY <1>1, BreakerInvariant, PTL

\* REQ-BRK-021 and threat T3: no permit is leaked, freed twice or granted beyond
\* half_open_max_calls, for any number of tasks.
THEOREM PermitsNeverExceeded == BreakerSpec => []PermitsAccounted
<1>1. BreakerInv => PermitsAccounted
  BY DEF BreakerInv
<1>2. QED
  BY <1>1, BreakerInvariant, PTL

\* The state an admission was granted for cannot change under its CAS loop.
THEOREM AdmissionAlwaysStable == BreakerSpec => []AdmissionStable
<1>1. BreakerInv => AdmissionStable
  BY DEF BreakerInv
<1>2. QED
  BY <1>1, BreakerInvariant, PTL

\* A permit is granted only while the circuit reads HalfOpen.
THEOREM ProbesOnlyInHalfOpen == BreakerSpec => ProbeAdmittedInHalfOpen
<1>1. ASSUME BreakerInv, [BreakerNext]_vars, NEW t \in Tasks, ~held[t], held'[t]
      PROVE  CurrentState = "HalfOpen"
  <2> USE <1>1
  <2>1. held \in [Tasks -> BOOLEAN] /\ AdmissionStable
    BY DEF BreakerInv, BreakerTypeOK
  <2>2. held' # held
    OBVIOUS
  <2>3. PICK u \in Tasks : TaskStep(u)
    BY <2>2 DEF BreakerNext, Tick, vars, taskVars
  <2>4. CASE CasSucceeds(u)
    <3>1. pc[u] = "acquire"
      BY <2>4 DEF CasSucceeds, Goto
    <3>2. QED
      BY <2>1, <3>1 DEF AdmissionStable
  <2>5. CASE Return(u) \/ Cancel(u)
    BY <2>1, <2>5 DEF Return, Cancel, DropPermit
  <2>6. CASE ~(CasSucceeds(u) \/ Return(u) \/ Cancel(u))
    BY <2>2, <2>3, <2>6
       DEF TaskStep, Admission, OperationEnds, Manual, vars, taskVars,
           RefuseOpen, AdmitClosed, BeginAcquire, Reject, CasFails,
           OperationSucceeds, OperationFails, OperationTimesOut, OperationErrsUncounted,
           EmitFailure, Announce, ManualSuccess, ManualFailure, RecordSuccessFor,
           RecordFailureFor, TripReads, TripWrites, ResetReads, ResetWrites
  <2>7. QED
    BY <2>4, <2>5, <2>6
<1>2. BreakerInv /\ [BreakerNext]_vars =>
        [\A t \in Tasks : ~held[t] /\ held'[t] => CurrentState = "HalfOpen"]_vars
  BY <1>1
<1>3. QED
  BY <1>2, BreakerInvariant, PTL DEF BreakerSpec, ProbeAdmittedInHalfOpen

-----------------------------------------------------------------------------
(* Announcements.                                                          *)

\* A recorded result that changes what callers read reports the state it wrote.
LEMMA SuccessReported ==
    ASSUME RecordSuccess, CurrentState' # CurrentState
    PROVE  SuccessPair # NoPair /\ SuccessPair[2] = current'
<1>1. CASE SuccessInClosed
  BY <1>1 DEF SuccessInClosed, timing, CurrentState, UpgradeDue, WaitElapsed
<1>2. CASE ProbeSucceeds
  BY <1>2 DEF ProbeSucceeds, CurrentState, UpgradeDue
<1>3. CASE Recover
  BY <1>3 DEF Recover, EnterClosed, SuccessPair, NoPair
<1>4. CASE Ignore
  BY <1>4 DEF Ignore, timing, CurrentState, UpgradeDue, WaitElapsed
<1>5. QED
  BY <1>1, <1>2, <1>3, <1>4 DEF RecordSuccess

LEMMA FailureReported ==
    ASSUME RecordFailure, CurrentState' # CurrentState
    PROVE  FailurePair # NoPair /\ FailurePair[2] = current'
<1>1. CASE Tolerate
  BY <1>1 DEF Tolerate, timing, CurrentState, UpgradeDue, WaitElapsed
<1>2. CASE Trip \/ Retrip
  BY <1>2 DEF Trip, Retrip, EnterOpen, FailurePair, NoPair
<1>3. CASE Ignore
  BY <1>3 DEF Ignore, timing, CurrentState, UpgradeDue, WaitElapsed
<1>4. QED
  BY <1>1, <1>2, <1>3 DEF RecordFailure

\* The pair a task holds: one that ends in Open or Closed, which is the state it
\* will write if it is between the two critical sections of trip() or reset().
PairsHeld ==
    \A t \in Tasks :
        /\ pc[t] \in {"announce", "trip", "reset"} => pending[t] # NoPair
        /\ pending[t] # NoPair => pending[t][2] \in {"Open", "Closed"}
        /\ pc[t] = "trip" => pending[t][2] = "Open"
        /\ pc[t] = "reset" => pending[t][2] = "Closed"

LEMMA PairsHeldStep == BreakerTypeOK /\ PairsHeld /\ [BreakerNext]_vars => PairsHeld'
<1> SUFFICES ASSUME BreakerTypeOK, PairsHeld, [BreakerNext]_vars PROVE PairsHeld'
  OBVIOUS
<1>1. pc \in [Tasks -> Control] /\ pending \in [Tasks -> Pairs \cup {NoPair}]
  BY DEF BreakerTypeOK
<1>2. CASE Tick \/ UNCHANGED vars
  BY <1>2 DEF Tick, vars, taskVars, PairsHeld
<1>3. ASSUME NEW t \in Tasks, TaskStep(t) PROVE PairsHeld'
  <2>1. CASE TripReads(t) \/ ResetReads(t)
    BY <1>1, <2>1 DEF TripReads, ResetReads, Goto, NoPair, PairsHeld
  <2>2. CASE RecordSuccessFor(t)
    BY <1>1, <2>2 DEF RecordSuccessFor, SuccessPair, NoPair, Leave, PairsHeld
  <2>3. CASE RecordFailureFor(t)
    BY <1>1, <2>3 DEF RecordFailureFor, FailurePair, NoPair, Leave, PairsHeld
  <2>4. CASE RefuseOpen(t) \/ CasFails(t)
    BY <2>4 DEF RefuseOpen, CasFails, vars, taskVars, PairsHeld
  <2>5. CASE AdmitClosed(t) \/ BeginAcquire(t) \/ Reject(t) \/ CasSucceeds(t)
    BY <1>1, <2>5 DEF AdmitClosed, BeginAcquire, Reject, CasSucceeds, Goto, PairsHeld
  <2>6. CASE OperationErrsUncounted(t) \/ Cancel(t) \/ Announce(t) \/ Return(t)
    BY <1>1, <2>6 DEF OperationErrsUncounted, Cancel, Announce, Return, Goto, PairsHeld
  <2>7. CASE EmitFailure(t) \/ TripWrites(t)
    BY <1>1, <2>7 DEF EmitFailure, TripWrites, Leave, PairsHeld
  <2>8. CASE ResetWrites(t)
    BY <1>1, <2>8 DEF ResetWrites, Goto, PairsHeld
  <2>9. QED
    BY <1>3, <2>1, <2>2, <2>3, <2>4, <2>5, <2>6, <2>7, <2>8, RecordingSteps
       DEF TaskStep, Admission, OperationEnds, Manual
<1>4. QED
  BY <1>2, <1>3 DEF BreakerNext

LEMMA PairsAlwaysHeld == BreakerSpec => []PairsHeld
<1>1. BreakerInit => PairsHeld
  BY DEF BreakerInit, PairsHeld
<1>2. QED
  BY <1>1, PairsHeldStep, BreakerTypeCorrect, PTL DEF BreakerSpec

\* Every change callers can read is the clock's, or a panicking trip's, or is on
\* its way to the callback with the state it wrote: no other branch changes the
\* state in silence.
THEOREM EveryChangeIsAnnounced == BreakerSpec => EveryChangeAnnounced
<1> DEFINE Silent == BackoffPanics /\ current' = "Open"
<1>1. ASSUME BreakerTypeOK, PairsHeld, [BreakerNext]_vars, CurrentState' # CurrentState
      PROVE  Tick \/ (\E t \in Tasks : SetsOutToAnnounce(t)) \/ Silent
  <2> USE <1>1
  <2>1. pc \in [Tasks -> Control] /\ pending \in [Tasks -> Pairs \cup {NoPair}]
    BY DEF BreakerTypeOK
  <2>2. ~UNCHANGED smVars
    BY DEF smVars, timing, CurrentState, UpgradeDue, WaitElapsed
  <2>3. ASSUME NEW t \in Tasks, TaskStep(t) PROVE SetsOutToAnnounce(t) \/ Silent
    <3>1. CASE OperationSucceeds(t) \/ ManualSuccess(t)
      <4>1. pc[t] \in {"running", "idle"} /\ RecordSuccessFor(t)
        BY <3>1 DEF OperationSucceeds, ManualSuccess
      <4>2. SuccessPair # NoPair /\ SuccessPair[2] = current'
        BY <4>1, SuccessReported DEF RecordSuccessFor
      <4>3. QED
        BY <2>1, <4>1, <4>2 DEF RecordSuccessFor, Leave, SetsOutToAnnounce
    <3>2. CASE OperationFails(t) \/ OperationTimesOut(t) \/ ManualFailure(t)
      <4>1. pc[t] \in {"running", "idle"} /\ RecordFailureFor(t)
        BY <3>2 DEF OperationFails, OperationTimesOut, ManualFailure
      <4>2. FailurePair # NoPair /\ FailurePair[2] = current'
        BY <4>1, FailureReported DEF RecordFailureFor
      <4>3. current' = "Open"
        BY <4>2 DEF FailurePair, NoPair
      <4>4. QED
        BY <2>1, <4>1, <4>2, <4>3 DEF RecordFailureFor, Leave, SetsOutToAnnounce
    <3>3. CASE TripWrites(t)
      BY <2>1, <3>3 DEF TripWrites, ForceOpen, EnterOpen, Leave, PairsHeld, SetsOutToAnnounce
    <3>4. CASE ResetWrites(t)
      BY <2>1, <3>4 DEF ResetWrites, ForceClosed, EnterClosed, Goto, PairsHeld,
                        SetsOutToAnnounce
    <3>5. QED
      BY <2>2, <2>3, <3>1, <3>2, <3>3, <3>4
         DEF TaskStep, Admission, OperationEnds, Manual, vars,
             RefuseOpen, AdmitClosed, BeginAcquire, Reject, CasSucceeds, CasFails,
             OperationErrsUncounted, Cancel, EmitFailure, Announce, Return, TripReads, ResetReads
  <2>4. QED
    BY <2>2, <2>3 DEF BreakerNext, vars
<1>2. BreakerTypeOK /\ PairsHeld /\ [BreakerNext]_vars =>
        [CurrentState' # CurrentState =>
           \/ Tick
           \/ \E t \in Tasks : SetsOutToAnnounce(t)
           \/ BackoffPanics /\ current' = "Open"]_vars
  BY <1>1
<1>3. QED
  BY <1>2, BreakerTypeCorrect, PairsAlwaysHeld, PTL DEF BreakerSpec, EveryChangeAnnounced

-----------------------------------------------------------------------------
(* The circuit never goes back without a failure.                          *)

\* A recorded success, a reset and the clock only move it towards Closed.
LEMMA SuccessNeverRegresses ==
    ASSUME MachineInv, RecordSuccess \/ ForceClosed \/ ClockTick
    PROVE  ~Regresses
<1>1. /\ current \in State /\ success_count \in Nat
      /\ current = "Open" <=> open_age # NotOpen
      /\ current # "Closed" <=> CurrentState # "Closed"
  BY DEF MachineInv, TypeOK, OpenHasTimer, CurrentState, UpgradeDue
<1>2. CASE SuccessInClosed
  BY <1>2 DEF SuccessInClosed, timing, CurrentState, UpgradeDue, Regresses
<1>3. CASE ProbeSucceeds
  <2>1. /\ CurrentState = "HalfOpen" /\ CurrentState' = "HalfOpen"
        /\ ProbeSuccesses' = ProbeSuccesses + 1 /\ ProbeSuccesses \in Nat
    BY <1>1, <1>3 DEF ProbeSucceeds, CurrentState, UpgradeDue, ProbeSuccesses
  <2>2. QED
    BY <2>1 DEF Regresses
<1>4. CASE Recover \/ ForceClosed
  BY <1>4 DEF Recover, ForceClosed, EnterClosed, CurrentState, UpgradeDue, Regresses
<1>5. CASE Ignore
  BY <1>5 DEF Ignore, Regresses
<1>6. CASE ClockTick
  <2>1. CurrentState = "Open"
    <3>1. open_age \in Nat \cup {NotOpen} /\ wait_duration \in Nat
      BY DEF MachineInv, TypeOK
    <3>2. ~WaitElapsed
      BY <1>6, <3>1 DEF ClockTick, WaitElapsed, NotOpen
    <3>3. QED
      BY <1>1, <1>6, <3>2 DEF ClockTick, CurrentState, UpgradeDue
  <2>2. QED
    BY <2>1 DEF Regresses
<1>7. QED
  BY <1>2, <1>3, <1>4, <1>5, <1>6 DEF RecordSuccess

\* Only a counted failure, a timeout or a trip() takes the circuit a step back.
THEOREM OnlyFailuresTakeItBack == BreakerSpec => OnlyFailuresRegress
<1> DEFINE Fails(t) == \/ OperationFails(t) \/ OperationTimesOut(t)
                       \/ ManualFailure(t) \/ TripWrites(t)
           Failed   == \E t \in Tasks : Fails(t)
<1>1. ASSUME MachineInv, [BreakerNext]_vars, Regresses PROVE Failed
  <2> USE <1>1
  <2>1. ProbeSuccesses \in Nat
    BY DEF MachineInv, TypeOK, ProbeSuccesses
  <2>2. ~UNCHANGED smVars
    <3>1. UNCHANGED smVars => CurrentState' = CurrentState /\ ProbeSuccesses' = ProbeSuccesses
      BY DEF smVars, counters, timing, CurrentState, UpgradeDue, WaitElapsed, ProbeSuccesses
    <3>2. QED
      BY <2>1, <3>1 DEF Regresses
  <2>3. ~RecordSuccess /\ ~ForceClosed /\ ~ClockTick
    BY SuccessNeverRegresses
  <2>4. ASSUME NEW t \in Tasks, TaskStep(t) PROVE Fails(t)
    BY <2>2, <2>3, <2>4
       DEF TaskStep, Admission, OperationEnds, Manual, vars,
           RefuseOpen, AdmitClosed, BeginAcquire, Reject, CasSucceeds, CasFails,
           OperationSucceeds, OperationErrsUncounted, Cancel, EmitFailure, Announce, Return,
           ManualSuccess, TripReads, ResetReads, ResetWrites, RecordSuccessFor
  <2>5. QED
    BY <2>2, <2>3, <2>4 DEF BreakerNext, Tick, vars
<1>2. MachineInv /\ [BreakerNext]_vars =>
        [Regresses => \E t \in Tasks :
           \/ OperationFails(t) \/ OperationTimesOut(t) \/ ManualFailure(t) \/ TripWrites(t)]_vars
  BY <1>1
<1>3. BreakerInv => MachineInv
  BY DEF BreakerInv
<1>4. QED
  BY <1>2, <1>3, BreakerInvariant, PTL DEF BreakerSpec, OnlyFailuresRegress

-----------------------------------------------------------------------------
(* The breaker implements the atomic one.                                  *)

\* The circuit of the atomic breaker is the eager one.
LEMMA SameCircuit ==
    /\ UNCHANGED Eager!vars <=> UNCHANGED Atomic!vars
    /\ Eager!Init <=> Atomic!Init
    /\ Eager!Success <=> Atomic!Success
    /\ Eager!Failure <=> Atomic!Failure
    /\ Eager!Tick <=> Atomic!Tick
    /\ Eager!Force <=> Atomic!Force
BY DEF Eager!vars, Eager!circuit, Eager!Init, Eager!Success, Eager!Failure, Eager!Late,
       Eager!Counted, Eager!Tick, Eager!Force, Eager!Open, Eager!Close, Eager!Clear,
       Eager!MustTrip, Eager!TooManyFailures, Eager!Failures, Eager!Remember,
       Eager!Cardinality,
       Atomic!vars, Atomic!circuit, Atomic!Init, Atomic!Success, Atomic!Failure, Atomic!Late,
       Atomic!Counted, Atomic!Tick, Atomic!Force, Atomic!Open, Atomic!Close, Atomic!Clear,
       Atomic!MustTrip, Atomic!TooManyFailures, Atomic!Failures, Atomic!Remember,
       Atomic!Cardinality

Stages == [t \in Tasks |-> StageOf(t)]

\* A step of one task moves its own stage alone.
LEMMA StageStep ==
    ASSUME NEW t \in Tasks, NEW next, StageOf(t)' = next,
           \A u \in Tasks \ {t} : pc'[u] = pc[u] /\ held'[u] = held[u]
    PROVE  Atomic!To(t, next)
<1>1. \A u \in Tasks \ {t} : StageOf(u)' = StageOf(u)
  BY DEF StageOf
<1>2. Stages' = [Stages EXCEPT ![t] = next]
  BY <1>1 DEF Stages
<1>3. QED
  BY <1>2 DEF Stages, Atomic!To

LEMMA StageKept ==
    ASSUME \A u \in Tasks : StageOf(u)' = StageOf(u)
    PROVE  UNCHANGED Stages
BY DEF Stages

LEMMA CircuitKept == UNCHANGED smVars => UNCHANGED Atomic!vars
BY DEF Atomic!vars, Atomic!circuit, smVars, counters, timing, totals, CurrentState, UpgradeDue, WaitElapsed, ProbeSuccesses

\* A slot is owned by the tasks that hold a permit.
LEMMA OwnersHold ==
    ASSUME BreakerInv
    PROVE  Atomic!Cardinality(Atomic!SlotOwners) = permits
<1>1. Atomic!SlotOwners = {t \in Tasks : held[t]}
  BY DEF Atomic!SlotOwners, StageOf, BreakerInv, BreakerTypeOK
<1>2. permits = Cardinality({t \in Tasks : held[t]})
  BY DEF BreakerInv, PermitsAccounted
<1>3. QED
  BY <1>1, <1>2 DEF Cardinality, Atomic!Cardinality

LEMMA AdmissionRefines ==
    ASSUME BreakerInv, NEW t \in Tasks, AdmitClosed(t) \/ CasSucceeds(t)
    PROVE  Atomic!Admit(t)
<1>1. /\ pc \in [Tasks -> Control] /\ held \in [Tasks -> BOOLEAN]
      /\ \A u \in Tasks : held[u] => pc[u] \in {"running", "emit", "announce", "release"}
  BY DEF BreakerInv, BreakerTypeOK, PermitsAccounted
<1>2. pc[t] \in {"idle", "acquire"} /\ ~held[t] /\ UNCHANGED smVars
  BY <1>1 DEF AdmitClosed, CasSucceeds, Goto
<1>3. Stages[t] = "none" /\ UNCHANGED Atomic!vars
  BY <1>2, CircuitKept DEF Stages, StageOf
<1>4. CASE AdmitClosed(t)
  <2>1. Atomic!To(t, "called")
    BY <1>1, <1>2, <1>4, StageStep DEF AdmitClosed, Goto, StageOf
  <2>2. QED
    BY <1>3, <1>4, <2>1 DEF Atomic!Admit, AdmitClosed, Stages
<1>5. CASE CasSucceeds(t)
  <2>1. Atomic!To(t, "probing")
    BY <1>1, <1>2, <1>5, StageStep DEF CasSucceeds, Goto, StageOf
  <2>2. CurrentState = "HalfOpen"
    BY <1>5 DEF CasSucceeds, Goto, BreakerInv, AdmissionStable
  <2>3. Atomic!Cardinality(Atomic!SlotOwners) < HalfOpenMaxCalls
    BY <1>5, OwnersHold DEF CasSucceeds
  <2>4. QED
    BY <1>3, <2>1, <2>2, <2>3 DEF Atomic!Admit, Stages
<1>6. QED
  BY <1>4, <1>5

\* What is recorded, by a call or by hand, is what the atomic breaker records.
LEMMA RecordingRefines ==
    ASSUME BreakerInv, NEW t \in Tasks, RecordSuccessFor(t) \/ RecordFailureFor(t)
    PROVE  /\ Atomic!Record
           /\ pc'[t] \in {"emit", "announce", "release"} /\ UNCHANGED held
           /\ \A u \in Tasks \ {t} : pc'[u] = pc[u]
<1>1. MachineInv /\ pc \in [Tasks -> Control]
  BY DEF BreakerInv, BreakerTypeOK
<1>2. Atomic!Record
  BY <1>1, RecordSuccessRefines, RecordFailureRefines, SameCircuit
     DEF RecordSuccessFor, RecordFailureFor, Atomic!Record
<1>3. QED
  BY <1>1, <1>2 DEF RecordSuccessFor, RecordFailureFor, Leave

LEMMA OperationRefines ==
    ASSUME BreakerInv, NEW t \in Tasks, OperationEnds(t)
    PROVE  Atomic!Conclude(t) \/ Atomic!Abandon(t)
<1>1. pc \in [Tasks -> Control] /\ held \in [Tasks -> BOOLEAN]
  BY DEF BreakerInv, BreakerTypeOK
<1>2. pc[t] = "running" /\ Stages[t] = IF held[t] THEN "probing" ELSE "called"
  BY DEF OperationEnds, OperationSucceeds, OperationFails, OperationTimesOut,
         OperationErrsUncounted, Cancel, Goto, Stages, StageOf
<1>3. CASE Cancel(t)
  <2>1. pc'[t] = "idle" /\ ~held'[t] /\ \A u \in Tasks \ {t} : pc'[u] = pc[u] /\ held'[u] = held[u]
    BY <1>1, <1>3 DEF Cancel, Goto, DropPermit
  <2>2. Atomic!To(t, "none")
    BY <2>1, StageStep DEF StageOf
  <2>3. UNCHANGED Atomic!vars
    BY <1>3, CircuitKept DEF Cancel
  <2>4. QED
    BY <1>2, <2>2, <2>3 DEF Atomic!Abandon, Stages
<1>4. ASSUME pc'[t] \in {"emit", "announce", "release"}, UNCHANGED held,
             \A u \in Tasks \ {t} : pc'[u] = pc[u],
             \/ Atomic!Record
             \/ (\E err \in Errors : ~IsBreakerFailure(err)) /\ UNCHANGED Atomic!vars
      PROVE  Atomic!Conclude(t)
  <2>1. StageOf(t)' = IF held[t] THEN "concluded" ELSE "none"
    BY <1>4 DEF StageOf
  <2>2. \/ held[t] /\ Atomic!To(t, "concluded")
        \/ ~held[t] /\ Atomic!To(t, "none")
    BY <1>4, <2>1, StageStep
  <2>3. QED
    BY <1>2, <1>4, <2>2 DEF Atomic!Conclude, Stages
<1>5. CASE RecordSuccessFor(t) \/ RecordFailureFor(t)
  BY <1>4, <1>5, RecordingRefines
<1>6. CASE OperationErrsUncounted(t)
  BY <1>1, <1>4, <1>6, CircuitKept DEF OperationErrsUncounted, Goto
<1>7. QED
  BY <1>3, <1>5, <1>6, RecordingSteps DEF OperationEnds

LEMMA ManualRefines ==
    ASSUME BreakerInv, NEW t \in Tasks,
           ManualSuccess(t) \/ ManualFailure(t) \/ TripWrites(t) \/ ResetWrites(t)
    PROVE  Atomic!ByHand(t)
<1>1. /\ MachineInv
      /\ pc \in [Tasks -> Control] /\ held \in [Tasks -> BOOLEAN]
      /\ \A u \in Tasks : held[u] => pc[u] \in {"running", "emit", "announce", "release"}
  BY DEF BreakerInv, BreakerTypeOK, PermitsAccounted
<1>2. pc[t] \in {"idle", "trip", "reset"} /\ ~held[t] /\ UNCHANGED held
  BY <1>1 DEF ManualSuccess, ManualFailure, TripWrites, ResetWrites, Goto,
              RecordSuccessFor, RecordFailureFor
<1>3. Atomic!Record \/ Atomic!Force
  <2>1. CASE ManualSuccess(t) \/ ManualFailure(t)
    BY <2>1, RecordingSteps, RecordingRefines
  <2>2. CASE TripWrites(t)
    BY <1>1, <2>2, ForceRefines, SameCircuit DEF TripWrites
  <2>3. CASE ResetWrites(t)
    BY <1>1, <2>3, ForceRefines, SameCircuit DEF ResetWrites
  <2>4. QED
    BY <2>1, <2>2, <2>3
<1>4. pc'[t] # "running" /\ \A u \in Tasks \ {t} : pc'[u] = pc[u]
  BY <1>1 DEF ManualSuccess, ManualFailure, TripWrites, ResetWrites, Goto, Leave,
              RecordSuccessFor, RecordFailureFor
<1>5. UNCHANGED Stages /\ Stages[t] = "none"
  <2>1. \A u \in Tasks : StageOf(u)' = StageOf(u)
    BY <1>2, <1>4 DEF StageOf
  <2>2. QED
    BY <1>2, <2>1, StageKept DEF Stages, StageOf
<1>6. QED
  BY <1>3, <1>5 DEF Atomic!ByHand, Stages

\* Nothing else a task does can be seen in the atomic breaker, but the return of its
\* slot.
LEMMA HiddenSteps ==
    ASSUME BreakerInv, NEW t \in Tasks,
           \/ RefuseOpen(t) \/ BeginAcquire(t) \/ Reject(t) \/ CasFails(t) \/ EmitFailure(t)
           \/ Announce(t) \/ Return(t) \/ TripReads(t) \/ ResetReads(t)
    PROVE  Atomic!FreeSlot(t) \/ UNCHANGED Atomic!atomicVars
<1>1. /\ pc \in [Tasks -> Control] /\ held \in [Tasks -> BOOLEAN]
      /\ \A u \in Tasks : held[u] => pc[u] \in {"running", "emit", "announce", "release"}
  BY DEF BreakerInv, BreakerTypeOK, PermitsAccounted
<1>2. UNCHANGED Atomic!vars
  BY CircuitKept DEF RefuseOpen, BeginAcquire, Reject, CasFails, EmitFailure, Announce,
                     Return, TripReads, ResetReads, vars
<1>3. CASE Return(t) /\ held[t]
  <2>1. pc[t] = "release" /\ pc'[t] = "idle" /\ ~held'[t]
        /\ \A u \in Tasks \ {t} : pc'[u] = pc[u] /\ held'[u] = held[u]
    BY <1>1, <1>3 DEF Return, Goto, DropPermit
  <2>2. Stages[t] = "concluded" /\ Atomic!To(t, "none")
    BY <1>3, <2>1, StageStep DEF Stages, StageOf
  <2>3. QED
    BY <1>2, <2>2 DEF Atomic!FreeSlot, Stages
<1>4. CASE ~(Return(t) /\ held[t])
  <2>1. \A u \in Tasks : held'[u] = held[u] /\ (pc'[u] = "running" <=> pc[u] = "running")
    BY <1>1, <1>4 DEF RefuseOpen, BeginAcquire, Reject, CasFails, EmitFailure, Announce,
                      Return, TripReads, ResetReads, Goto, Leave, DropPermit, vars, taskVars
  <2>2. UNCHANGED Stages
    BY <2>1, StageKept DEF StageOf
  <2>3. QED
    BY <1>2, <2>2 DEF Atomic!atomicVars, Stages
<1>5. QED
  BY <1>3, <1>4

LEMMA BreakerStepRefines ==
    BreakerInv /\ [BreakerNext]_vars => [Atomic!AtomicNext]_(Atomic!atomicVars)
<1> SUFFICES ASSUME BreakerInv, [BreakerNext]_vars
             PROVE  [Atomic!AtomicNext]_(Atomic!atomicVars)
  OBVIOUS
<1>1. CASE UNCHANGED vars
  <2>1. UNCHANGED Stages /\ UNCHANGED Atomic!vars
    BY <1>1, CircuitKept, StageKept DEF vars, taskVars, StageOf
  <2>2. QED
    BY <2>1 DEF Atomic!atomicVars, Stages
<1>2. CASE Tick
  <2>1. UNCHANGED Stages
    BY <1>2, StageKept DEF Tick, taskVars, StageOf
  <2>2. Atomic!Tick
    BY <1>2, ClockTickRefines, SameCircuit DEF Tick, BreakerInv
  <2>3. QED
    BY <2>1, <2>2 DEF Atomic!atomicVars, Atomic!AtomicNext, Stages
<1>3. ASSUME NEW t \in Tasks, TaskStep(t) PROVE [Atomic!AtomicNext]_(Atomic!atomicVars)
  <2>1. \/ Atomic!Admit(t) \/ Atomic!Conclude(t) \/ Atomic!Abandon(t) \/ Atomic!FreeSlot(t)
        \/ Atomic!ByHand(t) \/ UNCHANGED Atomic!atomicVars
    BY <1>3, AdmissionRefines, OperationRefines, ManualRefines, HiddenSteps
       DEF TaskStep, Admission, Manual
  <2>2. QED
    BY <2>1 DEF Atomic!AtomicNext
<1>4. QED
  BY <1>1, <1>2, <1>3 DEF BreakerNext

\* The breaker, under any number of tasks and with any configuration, cannot be told
\* from one whose admissions are atomic.
THEOREM BreakerImplementsAtomic == BreakerSpec => ImplementsAtomicBreaker
<1>1. BreakerInit => Atomic!AtomicInit
  <2> SUFFICES ASSUME BreakerInit PROVE Atomic!AtomicInit
    OBVIOUS
  <2>1. Atomic!Init
    BY SameCircuit DEF BreakerInit, Init, EmptyWindow, CurrentState, UpgradeDue, Eager!Init
  <2>2. QED
    BY <2>1 DEF BreakerInit, StageOf, Atomic!AtomicInit
<1>2. QED
  BY <1>1, BreakerStepRefines, BreakerInvariant, PTL
     DEF BreakerSpec, ImplementsAtomicBreaker, Atomic!AtomicSpec

=============================================================================

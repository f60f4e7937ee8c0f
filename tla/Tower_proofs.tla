----------------------------- MODULE Tower_proofs -----------------------------
(***************************************************************************)
(* The Tower layer, for any number of services: it drives the breaker only  *)
(* as callers of it do, and an open circuit lets no request get to the       *)
(* wrapped service.                                                         *)
(***************************************************************************)
EXTENDS Tower, CircuitBreaker_proofs

\* Each step of a service is a step of a caller, or none.
LEMMA TowerStepIsBreakerStep == [TowerNext]_towerVars => [BreakerNext]_vars
<1> SUFFICES ASSUME [TowerNext]_towerVars PROVE [BreakerNext]_vars
  OBVIOUS
<1>1. CASE UNCHANGED towerVars
  BY <1>1 DEF towerVars
<1>2. CASE Tick /\ UNCHANGED request
  BY <1>2 DEF BreakerNext
<1>3. ASSUME NEW t \in Tasks, ServiceStep(t) PROVE [BreakerNext]_vars
  <2>1. CASE PollReady(t) \/ ReadinessFails(t) \/ ServiceCall(t) \/ DropUnpolled(t)
    BY <2>1 DEF PollReady, ReadinessFails, ServiceCall, DropUnpolled, towerVars
  <2>2. CASE Refused(t) \/ Admitted(t) \/ Acquiring(t)
    BY <2>2 DEF Refused, Admitted, Acquiring, BreakerNext, TaskStep, Admission
  <2>3. CASE FirstPolled(t)
    BY <2>3 DEF FirstPolled
  <2>4. CASE Answered(t) \/ Conclude(t) \/ Direct(t)
    BY <2>4 DEF Answered, Conclude, Direct, BreakerNext, TaskStep
  <2>5. QED
    BY <1>3, <2>1, <2>2, <2>3, <2>4 DEF ServiceStep
<1>4. QED
  BY <1>1, <1>2, <1>3 DEF TowerNext

\* A breaker behind the layer is a CircuitBreaker: all that is proved of the breaker
\* holds of it, whatever the services do.
THEOREM TowerRunsBreaker == TowerSpec => BreakerSpec
<1>1. TowerInit => BreakerInit
  BY DEF TowerInit
<1>2. QED
  BY <1>1, TowerStepIsBreakerStep, PTL DEF TowerSpec, BreakerSpec

\* The requests follow the breaker's calls.
LEMMA TowerTypeStep ==
    ASSUME TowerTypeOK, [TowerNext]_towerVars, BreakerTypeOK'
    PROVE  TowerTypeOK'
<1>1. pc \in [Tasks -> Control] /\ request \in [Tasks -> Progress]
  BY DEF TowerTypeOK, BreakerTypeOK
<1>2. CASE UNCHANGED towerVars
  BY <1>2 DEF towerVars, vars, taskVars, TowerTypeOK
<1>3. CASE Tick /\ UNCHANGED request
  BY <1>3 DEF Tick, taskVars, TowerTypeOK
<1>4. ASSUME NEW t \in Tasks, ServiceStep(t) PROVE TowerTypeOK'
  <2>1. ASSUME NEW here \in Control, NEW so_far \in Progress,
               pc' = [pc EXCEPT ![t] = here], request' = [request EXCEPT ![t] = so_far],
               here = "running" <=> so_far \in {"admitted", "polled"},
               here = "acquire" => so_far = "built"
        PROVE  TowerTypeOK'
    BY <1>1, <2>1 DEF TowerTypeOK
  <2>2. CASE PollReady(t) \/ ServiceCall(t) \/ DropUnpolled(t)
    <3>1. pc' = [pc EXCEPT ![t] = "idle"]
      BY <1>1, <2>2 DEF PollReady, ServiceCall, DropUnpolled, vars, taskVars
    <3>2. PICK so_far \in {"none", "ready", "built"} : request' = [request EXCEPT ![t] = so_far]
      BY <2>2 DEF PollReady, ServiceCall, DropUnpolled, Advance
    <3>3. QED
      BY <2>1, <3>1, <3>2 DEF Control, Progress
  <2>3. CASE ReadinessFails(t)
    BY <2>3 DEF ReadinessFails, towerVars, vars, taskVars, TowerTypeOK
  <2>4. CASE Refused(t)
    <3>1. pc' = [pc EXCEPT ![t] = "idle"]
      BY <1>1, <2>4 DEF Refused, RefuseOpen, Reject, Goto, vars, taskVars
    <3>2. QED
      BY <2>1, <2>4, <3>1 DEF Refused, Advance, Control, Progress
  <2>5. CASE Admitted(t)
    BY <2>1, <2>5 DEF Admitted, AdmitClosed, CasSucceeds, Goto, Advance, Control, Progress
  <2>6. CASE FirstPolled(t)
    <3>1. pc' = [pc EXCEPT ![t] = "running"] /\ request' = [request EXCEPT ![t] = "polled"]
      BY <1>1, <2>6 DEF FirstPolled, Advance, vars, taskVars
    <3>2. QED
      BY <2>1, <3>1 DEF Control, Progress
  <2>7. CASE Acquiring(t)
    <3>1. pc' = [pc EXCEPT ![t] = "acquire"] /\ request' = [request EXCEPT ![t] = "built"]
      BY <1>1, <2>7 DEF Acquiring, BeginAcquire, CasFails, Goto
    <3>2. QED
      BY <2>1, <3>1 DEF Control, Progress
  <2>8. CASE Answered(t)
    <3>1. \E here \in {"idle", "release", "emit", "announce"} : pc' = [pc EXCEPT ![t] = here]
      BY <2>8 DEF Answered, OperationEnds, OperationSucceeds, OperationFails, OperationTimesOut,
                  OperationErrsUncounted, Cancel, RecordSuccessFor, RecordFailureFor, Leave, Goto
    <3>2. QED
      BY <2>1, <2>8, <3>1 DEF Answered, Advance, Control, Progress
  <2>9. CASE Conclude(t)
    <3>1. /\ pc[t] \in {"emit", "announce", "release"}
          /\ \E here \in {"idle", "release", "announce"} : pc' = [pc EXCEPT ![t] = here]
      BY <2>9 DEF Conclude, EmitFailure, Announce, Return, Leave, Goto
    <3>2. /\ request[t] \notin {"admitted", "polled"}
          /\ request' = [request EXCEPT ![t] = request[t]]
      BY <1>1, <2>9, <3>1 DEF Conclude, TowerTypeOK
    <3>3. request[t] \in Progress
      BY <1>1
    <3>4. QED
      BY <2>1, <3>1, <3>2, <3>3 DEF Control
  <2>10. CASE Direct(t)
    <3>1. \E here \in Control \ {"running", "acquire"} : pc' = [pc EXCEPT ![t] = here]
      BY <2>10 DEF Direct, Manual, ManualSuccess, ManualFailure, RecordSuccessFor,
                  RecordFailureFor, TripReads, TripWrites, ResetReads, ResetWrites,
                  Leave, Goto, Control
    <3>2. request' = [request EXCEPT ![t] = "none"]
      BY <1>1, <2>10 DEF Direct
    <3>3. QED
      BY <2>1, <3>1, <3>2 DEF Progress
  <2>11. QED
    BY <1>4, <2>2, <2>3, <2>4, <2>5, <2>6, <2>7, <2>8, <2>9, <2>10 DEF ServiceStep
<1>5. QED
  BY <1>2, <1>3, <1>4 DEF TowerNext

\* Type correctness of the layer: the wrapped service's future is let in or polled
\* exactly while the breaker has its call running.
THEOREM TowerTypeCorrect == TowerSpec => []TowerTypeOK
<1>1. TowerInit /\ BreakerTypeOK => TowerTypeOK
  BY DEF TowerInit, BreakerInit, TowerTypeOK, Progress
<1>2. TowerSpec => []BreakerTypeOK
  BY TowerRunsBreaker, BreakerTypeCorrect, PTL
<1>3. TowerTypeOK /\ BreakerTypeOK' /\ [TowerNext]_towerVars => TowerTypeOK'
  BY TowerTypeStep
<1>4. QED
  BY <1>1, <1>2, <1>3, PTL DEF TowerSpec

\* However the other services move the circuit, a request gets to the wrapped service
\* only by a step at which the circuit does not read Open.
THEOREM OpenAlwaysDrains == TowerSpec => OpenDrainsService
<1>1. ASSUME TowerTypeOK, AdmissionStable, [TowerNext]_towerVars, CurrentState = "Open"
      PROVE  AtService' \subseteq AtService
  <2> SUFFICES ASSUME NEW t \in Tasks, request'[t] \in {"admitted", "polled"}
               PROVE  request[t] \in {"admitted", "polled"}
    BY DEF AtService
  <2> USE <1>1
  <2>1. request \in [Tasks -> Progress]
    BY DEF TowerTypeOK
  <2>2. CASE UNCHANGED request
    BY <2>2
  <2>3. CASE \E u \in Tasks : ServiceStep(u)
    <3>1. PICK u \in Tasks : ServiceStep(u)
      BY <2>3
    <3>2. ~Admitted(u)
      BY DEF Admitted, AdmitClosed, CasSucceeds, Goto, AdmissionStable
    <3>3. QED
      BY <2>1, <3>1, <3>2
         DEF ServiceStep, PollReady, ReadinessFails, ServiceCall, DropUnpolled, Refused,
             Acquiring, FirstPolled, Answered, Conclude, Direct, Advance, towerVars
  <2>4. QED
    BY <2>2, <2>3 DEF TowerNext, towerVars
<1>2. TowerTypeOK /\ AdmissionStable /\ [TowerNext]_towerVars =>
        [CurrentState = "Open" => AtService' \subseteq AtService]_towerVars
  BY <1>1
<1>3. TowerSpec => []AdmissionStable
  BY TowerRunsBreaker, AdmissionAlwaysStable, PTL
<1>4. QED
  BY <1>2, <1>3, TowerTypeCorrect, PTL DEF TowerSpec, OpenDrainsService

=============================================================================

------------------------ MODULE Announcements_proofs ------------------------
(***************************************************************************)
(* The announcements of the breaker, under any number of tasks: while no    *)
(* two transitions overlap, what was announced last, or is being announced, *)
(* is the state of the circuit.                                             *)
(***************************************************************************)
EXTENDS Announcements, CircuitBreaker_proofs

\* The inductive invariant: without an overlap one task at most has an announcement
\* to make, and it, or else the last one made, shows the state of the circuit.
Told ==
    /\ LastAnnounced \in {"Open", "Closed"}
    /\ ~overlapped =>
         /\ \A t, u \in Tasks : Unannounced(t) /\ Unannounced(u) => t = u
         /\ \A t \in Tasks : Unannounced(t) => Shows(pending[t][2])
         /\ (\A t \in Tasks : ~Unannounced(t)) => Shows(LastAnnounced)

\* Neither the clock nor the upgrade makes an announcement wrong.
LEMMA StillShown ==
    ASSUME NEW a \in {"Open", "Closed"}, Shows(a),
           \/ current' = current
           \/ current' = "HalfOpen" /\ CurrentState = "HalfOpen"
    PROVE  Shows(a)'
BY DEF Shows, CurrentState, UpgradeDue

\* A backoff that panics does so in a trip from a circuit announced Open already:
\* the first wait after a recovery is one the constructor has asked for.
LEMMA PanicStaysShown ==
    ASSUME MachineInv, BackoffPanics, NEW a \in {"Open", "Closed"}, Shows(a), current' = "Open"
    PROVE  Shows(a)'
<1>1. open_attempts # 0
  BY WaitForAssumption, WidthAssumption DEF BackoffPanics, SaturatingInc
<1>2. current # "Closed"
  BY <1>1 DEF MachineInv, BackoffConsistent
<1>3. current \in {"Open", "HalfOpen"}
  BY <1>2 DEF MachineInv, TypeOK, State
<1>4. QED
  BY <1>3 DEF Shows

\* A step that leaves every announcement where it was, and the state shown.
LEMMA NothingToTell ==
    ASSUME PairsHeld, Told, Observe, UNCHANGED announced,
           \A t \in Tasks : /\ Unannounced(t)' <=> Unannounced(t)
                            /\ Unannounced(t) => pending'[t] = pending[t],
           \A a \in {"Open", "Closed"} : Shows(a) => Shows(a)'
    PROVE  Told'
<1>1. overlapped' = overlapped
  BY DEF Observe, MakesTransition
<1>2. LastAnnounced' = LastAnnounced
  BY DEF LastAnnounced
<1>3. \A t \in Tasks : Unannounced(t) => pending[t][2] \in {"Open", "Closed"}
  BY DEF PairsHeld, Unannounced
<1>4. QED
  BY <1>1, <1>2, <1>3 DEF Told

\* The step of a task that makes a transition, and has it to announce from now on.
LEMMA TransitionTold ==
    ASSUME Told, Observe, UNCHANGED announced, NEW t \in Tasks,
           ~Unannounced(t), Unannounced(t)',
           \A u \in Tasks \ {t} : Unannounced(u)' <=> Unannounced(u),
           current' = pending'[t][2]
    PROVE  Told'
<1>1. overlapped' <=> \E u \in Tasks : Unannounced(u)
  BY DEF Observe, MakesTransition
<1>2. LastAnnounced' = LastAnnounced
  BY DEF LastAnnounced
<1>3. Shows(pending[t][2])'
  BY DEF Shows
<1>4. QED
  BY <1>1, <1>2, <1>3 DEF Told

LEMMA ToldStep ==
    BreakerInv /\ PairsHeld /\ Told /\ [ObservedNext]_obsVars => Told'
<1> SUFFICES ASSUME BreakerInv, PairsHeld, Told, [ObservedNext]_obsVars PROVE Told'
  OBVIOUS
<1>1. /\ pc \in [Tasks -> Control] /\ pending \in [Tasks -> Pairs \cup {NoPair}]
      /\ MachineInv
  BY DEF BreakerInv, BreakerTypeOK
<1>2. CASE UNCHANGED obsVars
  BY <1>2 DEF obsVars, vars, smVars, taskVars, cbVars, Told, LastAnnounced, Unannounced, Shows
<1>3. CASE Tick /\ Observe
  <2>1. UNCHANGED <<current, pc, pending, announced>>
    BY <1>3 DEF Tick, ClockTick, taskVars, cbVars
  <2>2. QED
    BY <1>3, <2>1, NothingToTell DEF Unannounced, Shows
<1>4. ASSUME NEW t \in Tasks, TaskStep(t), Observe PROVE Told'
  <2> USE <1>4
  <2>1. CASE RefuseOpen(t) \/ CasFails(t)
    <3>1. UNCHANGED <<current, pc, pending, announced>>
      BY <2>1 DEF RefuseOpen, CasFails, vars, smVars, taskVars, cbVars
    <3>2. QED
      BY <3>1, NothingToTell DEF Unannounced, Shows
  <2>2. ASSUME UNCHANGED <<current, announced>>, \A u \in Tasks \ {t} : pending'[u] = pending[u],
               \A u \in Tasks \ {t} : pc'[u] = pc[u],
               pc[t] \notin {"emit", "announce"} /\ pc'[t] \notin {"emit", "announce"}
        PROVE  Told'
    BY <2>2, NothingToTell DEF Unannounced, Shows
  <2>3. CASE AdmitClosed(t) \/ BeginAcquire(t) \/ Reject(t) \/ CasSucceeds(t)
    BY <1>1, <2>2, <2>3 DEF AdmitClosed, BeginAcquire, Reject, CasSucceeds, Goto, smVars, cbVars
  <2>4. CASE OperationErrsUncounted(t) \/ Cancel(t) \/ Return(t) \/ TripReads(t) \/ ResetReads(t)
    BY <1>1, <2>2, <2>4
       DEF OperationErrsUncounted, Cancel, Return, TripReads, ResetReads, Goto, smVars, cbVars
  <2>5. CASE EmitFailure(t)
    <3>1. UNCHANGED <<current, announced, pending>> /\ pc[t] = "emit"
      BY <1>1, <2>5 DEF EmitFailure, Leave, smVars, cbVars
    <3>2. pc' = [pc EXCEPT ![t] = IF pending[t] = NoPair THEN "release" ELSE "announce"]
      BY <2>5 DEF EmitFailure, Leave
    <3>3. \A u \in Tasks : Unannounced(u)' <=> Unannounced(u)
      BY <1>1, <3>1, <3>2 DEF Unannounced
    <3>4. QED
      BY <3>1, <3>3, NothingToTell DEF Shows
  <2>6. CASE Announce(t)
    <3>1. /\ UNCHANGED current /\ announced' = pending[t]
          /\ pending' = [pending EXCEPT ![t] = NoPair]
          /\ pc[t] = "announce" /\ pc' = [pc EXCEPT ![t] = "release"]
      BY <2>6 DEF Announce, Goto, smVars
    <3>2. Unannounced(t) /\ pending[t][2] \in {"Open", "Closed"}
      BY <3>1 DEF PairsHeld, Unannounced
    <3>3. \A u \in Tasks : Unannounced(u)' <=> Unannounced(u) /\ u # t
      BY <1>1, <3>1 DEF Unannounced
    <3>4. overlapped' = overlapped
      BY <3>3 DEF Observe, MakesTransition
    <3>5. LastAnnounced' = pending[t][2]
      BY <3>1, <3>2 DEF LastAnnounced, Unannounced
    <3>6. Shows(pending[t][2]) => Shows(LastAnnounced)'
      BY <3>1, <3>5 DEF Shows
    <3>7. ASSUME ~overlapped PROVE \A u \in Tasks : ~Unannounced(u)'
      BY <3>2, <3>3, <3>7 DEF Told
    <3>8. QED
      BY <3>2, <3>4, <3>5, <3>6, <3>7 DEF Told
  <2>7. CASE OperationSucceeds(t) \/ ManualSuccess(t)
    <3>1. /\ RecordSuccessFor(t) /\ RecordSuccess /\ UNCHANGED announced
          /\ pc[t] \notin {"emit", "announce"}
      BY <2>7 DEF OperationSucceeds, ManualSuccess, RecordSuccessFor, cbVars
    <3>2. /\ \A u \in Tasks \ {t} : pc'[u] = pc[u] /\ pending'[u] = pending[u]
          /\ pc'[t] = IF SuccessPair = NoPair THEN "release" ELSE "announce"
          /\ pending'[t] = SuccessPair
      BY <1>1, <3>1 DEF RecordSuccessFor, Leave
    <3>3. CASE SuccessPair = NoPair
      <4>1. current' = current \/ (current' = "HalfOpen" /\ CurrentState = "HalfOpen")
        BY <3>1, <3>3 DEF RecordSuccess, SuccessInClosed, ProbeSucceeds, Recover, Ignore,
                          SuccessPair, NoPair
      <4>2. QED
        BY <3>1, <3>2, <3>3, <4>1, StillShown, NothingToTell DEF Unannounced
    <3>4. CASE SuccessPair # NoPair
      <4>1. /\ SuccessPair[2] = "Closed" /\ CurrentState = "HalfOpen"
            /\ ~(ProbeSuccesses + 1 < SuccessThreshold)
        BY <1>1, <3>4, ThresholdAssumption
           DEF SuccessPair, NoPair, ProbeSuccesses, MachineInv, TypeOK
      <4>2. current' = "Closed"
        BY <3>1, <4>1 DEF RecordSuccess, SuccessInClosed, ProbeSucceeds, Recover, EnterClosed, Ignore
      <4>3. QED
        BY <3>1, <3>2, <3>4, <4>1, <4>2, TransitionTold DEF Unannounced
    <3>5. QED
      BY <3>3, <3>4
  <2>8. CASE OperationFails(t) \/ OperationTimesOut(t) \/ ManualFailure(t)
    <3>1. /\ RecordFailureFor(t) /\ RecordFailure /\ UNCHANGED announced
          /\ pc[t] \notin {"emit", "announce"}
      BY <2>8 DEF OperationFails, OperationTimesOut, ManualFailure, RecordFailureFor, cbVars
    <3>2. \A u \in Tasks \ {t} : pc'[u] = pc[u] /\ pending'[u] = pending[u]
      BY <1>1, <3>1 DEF RecordFailureFor, Leave
    <3>3. /\ FailurePair = NoPair => current' = current
          /\ FailurePair # NoPair => FailurePair[2] = "Open" /\ current' = "Open"
      BY <3>1 DEF RecordFailure, Tolerate, Trip, Retrip, EnterOpen, Ignore, FailurePair, NoPair
    <3>4. CASE FailurePair # NoPair /\ BackoffPanics
      <4>1. pc'[t] = "release"
        BY <1>1, <3>1, <3>4 DEF RecordFailureFor, Leave
      <4>2. \A a \in {"Open", "Closed"} : Shows(a) => Shows(a)'
        BY <1>1, <3>3, <3>4, PanicStaysShown
      <4>3. QED
        BY <3>1, <3>2, <4>1, <4>2, NothingToTell DEF Unannounced
    <3>5. CASE ~(FailurePair # NoPair /\ BackoffPanics)
      <4>1. pc'[t] = "emit" /\ pending'[t] = FailurePair
        BY <1>1, <3>1, <3>5 DEF RecordFailureFor, Leave
      <4>2. CASE FailurePair = NoPair
        BY <3>1, <3>2, <3>3, <4>1, <4>2, StillShown, NothingToTell DEF Unannounced
      <4>3. CASE FailurePair # NoPair
        BY <3>1, <3>2, <3>3, <4>1, <4>3, TransitionTold DEF Unannounced
      <4>4. QED
        BY <4>2, <4>3
    <3>6. QED
      BY <3>4, <3>5
  <2>9. CASE TripWrites(t)
    <3>1. current' = "Open" /\ UNCHANGED announced /\ pc[t] = "trip"
      BY <2>9 DEF TripWrites, ForceOpen, EnterOpen, cbVars
    <3>2. \A u \in Tasks \ {t} : pc'[u] = pc[u] /\ pending'[u] = pending[u]
      BY <1>1, <2>9 DEF TripWrites, Leave
    <3>3. CASE BackoffPanics
      <4>1. pc'[t] = "release"
        BY <1>1, <2>9, <3>3 DEF TripWrites, Leave
      <4>2. \A a \in {"Open", "Closed"} : Shows(a) => Shows(a)'
        BY <1>1, <3>1, <3>3, PanicStaysShown
      <4>3. QED
        BY <3>1, <3>2, <4>1, <4>2, NothingToTell DEF Unannounced
    <3>4. CASE ~BackoffPanics
      <4>1. pc'[t] = "announce" /\ pending'[t] = pending[t]
        BY <1>1, <2>9, <3>4 DEF TripWrites, Leave
      <4>2. pending[t] # NoPair /\ pending[t][2] = "Open"
        BY <3>1 DEF PairsHeld
      <4>3. QED
        BY <3>1, <3>2, <4>1, <4>2, TransitionTold DEF Unannounced
    <3>5. QED
      BY <3>3, <3>4
  <2>10. CASE ResetWrites(t)
    <3>1. /\ current' = "Closed" /\ UNCHANGED <<announced, pending>>
          /\ pc[t] = "reset" /\ pc' = [pc EXCEPT ![t] = "announce"]
      BY <2>10 DEF ResetWrites, ForceClosed, EnterClosed, Goto, cbVars
    <3>2. pending[t] # NoPair /\ pending[t][2] = "Closed"
      BY <3>1 DEF PairsHeld
    <3>3. QED
      BY <1>1, <3>1, <3>2, TransitionTold DEF Unannounced
  <2>11. QED
    BY <2>1, <2>3, <2>4, <2>5, <2>6, <2>7, <2>8, <2>9, <2>10
       DEF TaskStep, Admission, OperationEnds, Manual
<1>5. QED
  BY <1>2, <1>3, <1>4 DEF ObservedNext, BreakerNext

\* Watching the announcements changes nothing of the breaker.
LEMMA ObservedIsBreaker == ObservedSpec => BreakerSpec
<1>1. ObservedInit => BreakerInit
  BY DEF ObservedInit
<1>2. [ObservedNext]_obsVars => [BreakerNext]_vars
  BY DEF ObservedNext, obsVars
<1>3. QED
  BY <1>1, <1>2, PTL DEF ObservedSpec, BreakerSpec

\* What the callback was told last is the state of the circuit, whenever nothing is
\* left to announce and the latest transition met no other one unannounced.
THEOREM AnnouncementsHold == ObservedSpec => []LastAnnouncementHolds
<1>1. ObservedInit => Told
  BY DEF ObservedInit, BreakerInit, Init, Told, LastAnnounced, Unannounced, Shows, NoPair
<1>2. ObservedSpec => []Told
  BY <1>1, ToldStep, ObservedIsBreaker, BreakerInvariant, PairsAlwaysHeld, PTL DEF ObservedSpec
<1>3. Told => LastAnnouncementHolds
  BY DEF Told, LastAnnouncementHolds
<1>4. QED
  BY <1>2, <1>3, PTL

=============================================================================

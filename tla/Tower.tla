-------------------------------- MODULE Tower --------------------------------
(***************************************************************************)
(* BreakerLayer and BreakerService of tower.rs: a Tower service behind the  *)
(* breaker.  Clones of the layer share the breaker, so the services are the *)
(* tasks of CircuitBreaker; this module adds the request each one carries.  *)
(*                                                                         *)
(* BreakerService::call runs the wrapped service's call at once, and asks   *)
(* the breaker only when the future it returned is first polled.            *)
(***************************************************************************)
EXTENDS CircuitBreaker

VARIABLE request  \* how far each task's request has come, see Progress

towerVars == <<vars, request>>

\* none; the service was ready for one; its response future is built; the breaker let
\* it in; it is polled.
Progress == {"none", "ready", "built", "admitted", "polled"}

Advance(t, from, to) == request[t] = from /\ request' = [request EXCEPT ![t] = to]

-----------------------------------------------------------------------------
(* Slips: single mistakes in the steps below, each of which a property must *)
(* tell from the code.  No specification uses them.                         *)

\* A refused request is asked for again until the breaker lets it in.
RefusedRetrying(t) ==
    request[t] = "built" /\ (RefuseOpen(t) \/ Reject(t)) /\ UNCHANGED request

\* The wrapped future is spawned, not awaited: it outlives a call that ends early.
AnsweredDetached(t) == OperationEnds(t) /\ UNCHANGED request

-----------------------------------------------------------------------------
(* poll_ready and call of BreakerService.                                  *)

\* The wrapped service is ready.
PollReady(t) == pc[t] = "idle" /\ Advance(t, "none", "ready") /\ UNCHANGED vars

\* Its error surfaces as Failure, and the breaker never hears of it.
ReadinessFails(t) == pc[t] = "idle" /\ request[t] = "none" /\ UNCHANGED towerVars

\* inner.call(req), whatever the circuit reads; the breaker's future is boxed
\* around the one it returns.
ServiceCall(t) == pc[t] = "idle" /\ Advance(t, "ready", "built") /\ UNCHANGED vars

-----------------------------------------------------------------------------
(* The boxed future: breaker.call(move || fut).                            *)

\* Dropped before its first poll: the breaker was never asked.
DropUnpolled(t) == pc[t] = "idle" /\ Advance(t, "built", "none") /\ UNCHANGED vars

\* CircuitOpen or Rejected: fut is dropped with the closure that owns it.
Refused(t) == Advance(t, "built", "none") /\ (RefuseOpen(t) \/ Reject(t))

\* Let in, and the read lock released: fut is not polled yet.
Admitted(t) == Advance(t, "built", "admitted") /\ (AdmitClosed(t) \/ CasSucceeds(t))

Acquiring(t) ==
    /\ request[t] = "built"
    /\ BeginAcquire(t) \/ CasFails(t)
    /\ UNCHANGED request

\* operation() returns fut, and fut is polled for the first time.  There is no await
\* between the admission and this, so the call cannot be dropped or time out here; but
\* no lock is held either, and other tasks go on.
FirstPolled(t) == pc[t] = "running" /\ Advance(t, "admitted", "polled") /\ UNCHANGED vars

\* fut is ready, or dropped: at a timeout, or with the future around it.
Answered(t) == Advance(t, "polled", "none") /\ OperationEnds(t)

Conclude(t) == (EmitFailure(t) \/ Announce(t) \/ Return(t)) /\ UNCHANGED request

\* The breaker is shared with code that uses it directly.
Direct(t) == request[t] = "none" /\ Manual(t) /\ UNCHANGED request

-----------------------------------------------------------------------------
TowerInit == BreakerInit /\ request = [t \in Tasks |-> "none"]

ServiceStep(t) ==
    \/ PollReady(t) \/ ReadinessFails(t) \/ ServiceCall(t)
    \/ DropUnpolled(t) \/ Refused(t) \/ Admitted(t) \/ Acquiring(t)
    \/ FirstPolled(t) \/ Answered(t) \/ Conclude(t) \/ Direct(t)

TowerNext == (Tick /\ UNCHANGED request) \/ \E t \in Tasks : ServiceStep(t)

TowerSpec == TowerInit /\ [][TowerNext]_towerVars

\* The first poll of the boxed future asks the breaker.
AsksBreaker(t) == pc[t] = "idle" /\ (Refused(t) \/ Admitted(t) \/ Acquiring(t))

\* A boxed future is polled, sooner or later, or dropped; and a call let in goes on.
PollFairness ==
    \A t \in Tasks : /\ WF_towerVars(AsksBreaker(t) \/ DropUnpolled(t))
                     /\ WF_towerVars(FirstPolled(t))

\* The service is in demand: requests keep coming, and are not all dropped unpolled.
Demand ==
    \A t \in Tasks :
        /\ WF_towerVars(PollReady(t))
        /\ WF_towerVars(ServiceCall(t))
        /\ SF_towerVars(AsksBreaker(t))

FairTowerSpec == TowerSpec /\ BreakerFairness /\ PollFairness /\ Demand

-----------------------------------------------------------------------------
(* Properties.                                                             *)

\* The wrapped service's future is let in or polled exactly while the breaker has its
\* call running, and a call in the middle of its admission has one to poll: refusals,
\* timeouts and cancellations drop it, whoever else moved the circuit meanwhile.
TowerTypeOK ==
    /\ BreakerTypeOK
    /\ request \in [Tasks -> Progress]
    /\ \A t \in Tasks : /\ pc[t] = "running" <=> request[t] \in {"admitted", "polled"}
                        /\ pc[t] = "acquire" => request[t] = "built"

\* Requests whose future the service is running, or is about to.
AtService == {t \in Tasks : request[t] \in {"admitted", "polled"}}

\* The half of REQ-BRK-102 that holds: an open circuit lets the service drain.  Whatever
\* other tasks do, also while an admission loops, no request gets to the service in a
\* circuit that reads Open.  (One let in before it opened is not called back: its future
\* goes on being polled, or is polled for the first time, in a circuit Open by then.)
OpenDrainsService == [][CurrentState = "Open" => AtService' \subseteq AtService]_towerVars

\* A request the service has built a future for is answered, refused or dropped in
\* the end, however the circuit moves while its admission loops and it runs.
RequestsAnswered == \A t \in Tasks : request[t] = "built" ~> request[t] = "none"

\* The other half, which the code does not do.  REQ-BRK-102: an open circuit must
\* not invoke the user operation.  The service's call has run by then.
OpenNeverCallsService ==
    [][\A t \in Tasks : ServiceCall(t) => CurrentState # "Open"]_towerVars

=============================================================================

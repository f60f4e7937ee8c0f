---------------------------- MODULE Announcements ----------------------------
(***************************************************************************)
(* What the state-change callback, and the gauge circuit_breaker_state set  *)
(* with it, tell of the breaker.  A transition is announced after its lock  *)
(* is released, so two of them may be announced in the other order.  The    *)
(* history variable overlapped tells when that may have happened to the     *)
(* latest transition; CircuitBreaker is left as it is.                      *)
(***************************************************************************)
EXTENDS CircuitBreaker

VARIABLE overlapped  \* was another transition unannounced when the latest was made?

obsVars == <<vars, overlapped>>

Unannounced(t) == pc[t] \in {"emit", "announce"} /\ pending[t] # NoPair

\* A step that makes a transition leaves its task with a pair to announce.
MakesTransition(t) == ~Unannounced(t) /\ Unannounced(t)'

Observe ==
    overlapped' = IF \E t \in Tasks : MakesTransition(t)
                  THEN \E t \in Tasks : Unannounced(t)
                  ELSE overlapped

ObservedInit == BreakerInit /\ overlapped = FALSE
ObservedNext == BreakerNext /\ Observe
ObservedSpec == ObservedInit /\ [][ObservedNext]_obsVars

\* Lazy half-opening is never announced: Open may stand for it.
Shows(announcement) == current = announcement \/ (current = "HalfOpen" /\ announcement = "Open")

LastAnnounced == IF announced = NoPair THEN "Closed" ELSE announced[2]

-----------------------------------------------------------------------------
\* Once every announcement is made, what the callback was told last, and the gauge
\* shows, is the state of the circuit, unless the latest transition was made while
\* another was still unannounced: neither the interleaving of everything else, nor
\* transitions from a state to itself, nor a backoff that panics in the middle of
\* one leaves it wrong.
LastAnnouncementHolds ==
    ~overlapped /\ (\A t \in Tasks : ~Unannounced(t)) => Shows(LastAnnounced)

=============================================================================

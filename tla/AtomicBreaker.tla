---------------------------- MODULE AtomicBreaker ----------------------------
(***************************************************************************)
(* What the breaker promises its callers: an EagerBreaker in front of which *)
(* each call is let in, or not, at one moment.  A call let in while the     *)
(* circuit is HalfOpen owns a probe slot until it is over, and of every     *)
(* call at most one outcome counts.                                        *)
(*                                                                         *)
(* CircuitBreaker.tla is shown to implement it: the lock held shared from   *)
(* the reading of the state to the end of the CAS loop, the counter outside *)
(* the lock and the permits given back on every path cannot be told from    *)
(* this.                                                                   *)
(***************************************************************************)
EXTENDS EagerBreaker

CONSTANTS
    Callers,
    ProbeSlots,    \* probes at a time
    MayNotCount    \* TRUE if an operation may return an error that does not count

VARIABLE stage  \* of each caller's call: "none", "called", or with a slot "probing"
                \* and then, its outcome recorded, "concluded"

atomicVars == <<vars, stage>>

SlotOwners == {t \in Callers : stage[t] \in {"probing", "concluded"}}

To(t, next) == stage' = [stage EXCEPT ![t] = next]

\* A call comes, and is let in.
Admit(t) ==
    /\ stage[t] = "none"
    /\ \/ mode = "Closed" /\ To(t, "called")
       \/ mode = "HalfOpen" /\ Cardinality(SlotOwners) < ProbeSlots /\ To(t, "probing")
    /\ UNCHANGED vars

Record == Success \/ Failure

Conclude(t) ==
    /\ \/ stage[t] = "called" /\ To(t, "none")
       \/ stage[t] = "probing" /\ To(t, "concluded")
    /\ Record \/ (MayNotCount /\ UNCHANGED vars)

\* The call is dropped: nothing is recorded, and the slot is free.
Abandon(t) == stage[t] \in {"called", "probing"} /\ To(t, "none") /\ UNCHANGED vars

FreeSlot(t) == stage[t] = "concluded" /\ To(t, "none") /\ UNCHANGED vars

\* A caller with no call under way records an outcome by hand, or forces the circuit.
ByHand(t) == stage[t] = "none" /\ (Record \/ Force) /\ UNCHANGED stage

AtomicInit == Init /\ stage = [t \in Callers |-> "none"]

AtomicNext ==
    \/ Tick /\ UNCHANGED stage
    \/ \E t \in Callers : Admit(t) \/ Conclude(t) \/ Abandon(t) \/ FreeSlot(t) \/ ByHand(t)

AtomicSpec == AtomicInit /\ [][AtomicNext]_atomicVars

=============================================================================

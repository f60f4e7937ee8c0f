--------------------------- MODULE SlidingWindow ---------------------------
(***************************************************************************)
(* The ring buffer of recent call outcomes behind rate-based tripping      *)
(* (struct Window of state.rs).  An outcome is 1 for a failure and 0 for a *)
(* success, oldest first; failures is the running count the code maintains *)
(* incrementally, so that it can be compared with what the outcomes say.   *)
(***************************************************************************)
EXTENDS Integers, Sequences, FiniteSets

CONSTANT SlidingWindowSize  \* CircuitBreakerConfig::sliding_window_size

ASSUME SlidingWindowAssumption == SlidingWindowSize \in Nat

Outcome == {0, 1}

\* A window of size 0 (set after build(), on a public field) still keeps one outcome.
Capacity == IF SlidingWindowSize = 0 THEN 1 ELSE SlidingWindowSize

EmptyWindow == [outcomes |-> <<>>, failures |-> 0]

Filled(w) == Len(w.outcomes)

\* Slip: the outgoing failure is not taken off the count.
EvictUncounted(w) == [outcomes |-> Tail(w.outcomes), failures |-> w.failures]

\* The window without its oldest outcome.  The code subtracts in u32: a result
\* below 0 is the wrap-around (or the panic of a debug build).
Evict(w) == [outcomes |-> Tail(w.outcomes), failures |-> w.failures - Head(w.outcomes)]

Push(w, outcome) == [outcomes |-> Append(w.outcomes, outcome),
                     failures |-> w.failures + outcome]

Record(w, outcome) ==
    IF Filled(w) >= Capacity THEN Push(Evict(w), outcome) ELSE Push(w, outcome)

-----------------------------------------------------------------------------

\* What the count is meant to be, said of the outcomes alone.
FailurePositions(s) == {i \in DOMAIN s : s[i] = 1}

WindowType == [outcomes : Seq(Outcome), failures : Int]

\* The incremental count is exact and the buffer never exceeds its capacity.
WindowConsistent(w) ==
    /\ w.failures = Cardinality(FailurePositions(w.outcomes))
    /\ Filled(w) <= Capacity

=============================================================================

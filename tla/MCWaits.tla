------------------------------- MODULE MCWaits -------------------------------
(***************************************************************************)
(* The waits of the models, all of them computed by Backoff.  A Duration    *)
(* stays below 5 units of half a tick, so that a strategy capped at         *)
(* Duration::MAX panics at its fourth trip.                                 *)
(***************************************************************************)
EXTENDS Integers

LOCAL Strategy == INSTANCE Backoff WITH MaxDuration <- 5, MaxExponent <- 6, Overflow <- 64

LOCAL Fraction(n, d) == [num |-> n, den |-> d]

LOCAL Ticks(waits) == {IF w = Strategy!Panic THEN w ELSE w \div 2 : w \in waits}

\* 0, 1, 2 ticks, then a panic.
GrowingWait(attempt) ==
    Ticks(Strategy!Waits(Strategy!Exponential(1, 5, Fraction(2, 1)), attempt))

OneTick(attempt) == Ticks(Strategy!Waits(Strategy!Fixed(2), attempt))

\* Over as it starts: what reads HalfOpen never depends on the clock.
NoWait(attempt) == Ticks(Strategy!Waits(Strategy!Fixed(0), attempt))

\* No wait at the first trip, one tick or none at the second, then a panic.
PanickingWait(attempt) ==
    Ticks(Strategy!Waits(Strategy!ExponentialJitter(1, 5, Fraction(3, 1), Fraction(1, 1)), attempt))

=============================================================================

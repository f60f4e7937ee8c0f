---------------------------- MODULE BackoffDraws ----------------------------
(***************************************************************************)
(* wait_for of config.rs, trip after trip on one thread: the strategies of  *)
(* Backoff with the random draws of ExponentialJitter, which come from a    *)
(* thread-local xorshift generator seeded at its first use.                 *)
(*                                                                         *)
(* A machine word is the set of its bits that are 1.                        *)
(***************************************************************************)
EXTENDS Backoff

CONSTANTS
    Width,                             \* 64
    FirstUp, ThenDown, ThenUp,         \* the shifts, 13, 7 and 17
    Dropped,                           \* the low bits a draw drops, 11
    Strategies,                        \* the strategies tried
    LastAttempt                        \* u32::MAX for attempt, small in a run

ASSUME GeneratorAssumption ==
    /\ Width \in Nat \ {0}
    /\ FirstUp \in Nat \ {0} /\ ThenDown \in Nat \ {0} /\ ThenUp \in Nat \ {0}
    /\ Dropped \in 0..(Width - 1)
    /\ LastAttempt \in Nat \ {0}

ASSUME StrategyAssumption == Strategies \subseteq BackoffStrategy

VARIABLES
    strategy,  \* the circuit's
    attempt,   \* the number of the latest trip, 0 before the first
    rng,       \* STATE of the thread, 0 before its first draw
    wait       \* what wait_for returned last

vars == <<strategy, attempt, rng, wait>>

-----------------------------------------------------------------------------
(* jitter_rand.                                                            *)

Bits  == 0..(Width - 1)
Words == SUBSET Bits

Xor(x, y)   == (x \ y) \cup (y \ x)
Left(x, n)  == {b \in Bits : b - n \in x}
Right(x, n) == {b \in Bits : b + n \in x}

XorShift(x) ==
    LET y == Xor(x, Left(x, FirstUp))
        z == Xor(y, Right(y, ThenDown))
    IN  Xor(z, Left(z, ThenUp))

\* Slip: the clock as it is.
SeedAsIs(now) == now

\* now | 1, for what the clock reads: xorshift never leaves 0.
Seed(now) == now \cup {0}

\* The number that the n highest bits of a word make.
HighBits(x, n) ==
    LET value[k \in Nat] ==
          IF k = 0 THEN 0 ELSE 2 * value[k - 1] + (IF Width - k \in x THEN 1 ELSE 0)
    IN  value[n]

\* Slip: one bit too many is kept, and the draw may pass 1.
DrawnTooWide(x) == HighBits(x, Width - Dropped + 1)

\* The draw is Drawn(x) / DrawRange: the high bits of the state, over 2^53.
DrawRange == Power(2, Width - Dropped)
Drawn(x)  == HighBits(x, Width - Dropped)

\* base * (1 - jitter * draw), to the nearest unit.
Scaled(base, jitter, draw) ==
    LET den   == jitter.den * DrawRange
        scale == den - Part(jitter) * draw
    IN  (2 * base * (IF scale < 0 THEN 0 ELSE scale) + den) \div (2 * den)

-----------------------------------------------------------------------------
Base(n) == ExponentialWait(strategy.initial, strategy.max, strategy.factor, n)

Draws(n) == strategy.kind = "ExponentialJitter" /\ Base(n) # Panic

\* wait_for(n): the base first, and a draw only if that did not panic.
WaitFor(n) ==
    IF Draws(n)
    THEN /\ \E now \in Words : rng' = XorShift(IF rng = {} THEN Seed(now) ELSE rng)
         /\ wait' = Scaled(Base(n), strategy.jitter, Drawn(rng'))
    ELSE wait' \in Waits(strategy, n) /\ UNCHANGED rng

Init ==
    /\ strategy \in Strategies
    /\ attempt = 0
    /\ rng = {}
    /\ wait = 0

\* The circuit trips once more.
Next ==
    /\ attempt' = Smaller(attempt + 1, LastAttempt)
    /\ WaitFor(attempt')
    /\ UNCHANGED strategy

Spec == Init /\ [][Next]_vars

-----------------------------------------------------------------------------
(* Properties.                                                             *)

\* Once a thread has drawn, its generator is at a word other than 0 for good: it
\* never starts over from the clock, and never gets stuck.
GeneratorSeeded == rng \in Words /\ (attempt > 0 /\ Draws(attempt) => rng # {})

\* REQ-BRK-023: the wait drawn is one Waits allows, so a circuit that takes any of
\* those, as StateMachine does, misses no wait of the code; it is within max, never
\* above the wait without jitter, and that wait itself where there is no jitter.
DrawnWaitBounded ==
    attempt > 0 /\ strategy.kind # "Fixed" =>
        /\ wait \in Waits(strategy, attempt)
        /\ wait <= Base(attempt) /\ Base(attempt) <= strategy.max
        /\ strategy.kind = "ExponentialJitter" /\ strategy.jitter.num <= 0 => wait = Base(attempt)

\* With a factor of at least 1 no trip waits less than the one before it, but for
\* the jitter, across the exponent cap and the overflow; and a circuit that cannot
\* wait for one trip cannot wait for the next.
WaitsGrow ==
    [][strategy.kind # "Fixed" /\ strategy.factor.num >= strategy.factor.den
         => Base(attempt') = Panic \/ Base(attempt) \in 0..Base(attempt')]_vars

\* The documented formula, initial * factor^(attempt - 1) capped at max, by
\* multiplying and capping once per trip, for whole factors.
Reference(initial, max, num, n) ==
    LET grown[k \in Nat] ==
          IF k = 0 THEN Smaller(initial, max) ELSE Smaller(grown[k - 1] * num, max)
    IN  grown[n - 1]

\* The closed formula, its capped exponent and its overflow give the wait the
\* documented growth gives, trip by trip.  (Only an initial wait of 0 differs,
\* once the power overflows: 0 times infinity is capped at max, not 0.)
MatchesReference ==
    /\ attempt > 0 /\ strategy.kind # "Fixed"
    /\ strategy.factor.den = 1 /\ strategy.factor.num >= 0
    /\ strategy.initial > 0 /\ strategy.max < MaxDuration
    => Base(attempt) =
         Reference(strategy.initial, strategy.max, strategy.factor.num, attempt)

\* config.rs:101-103: max is validated by the builder, so from_secs_f64 cannot
\* panic.  No builder validates it, and Duration::MAX rounds past the limit.
NeverPanics == wait # Panic

=============================================================================

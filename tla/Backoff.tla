------------------------------ MODULE Backoff ------------------------------
(***************************************************************************)
(* BackoffStrategy of config.rs: how long the circuit stays Open after the  *)
(* trip of a given number.  Durations are whole ticks and factors are       *)
(* fractions; what is kept of f64 is what can go wrong with it: powers that *)
(* overflow, Durations whose conversion rounds up, and conversions back     *)
(* that panic.                                                              *)
(***************************************************************************)
EXTENDS Integers

CONSTANTS
    MaxDuration,   \* Duration::MAX
    MaxExponent,   \* 1024, the cap on the exponent
    Overflow       \* powers from here on are infinite: 2^1024 for an f64

ASSUME BackoffAssumption ==
    /\ MaxDuration \in Nat \ {0}
    /\ MaxExponent \in Nat
    /\ Overflow \in Nat \ {0}

\* powf, for the whole exponents it is called with.
Power(b, n) ==
    LET power[k \in Nat] == IF k = 0 THEN 1 ELSE b * power[k - 1]
    IN  power[n]

\* The cap is past the overflow of every factor from 2 on, and an f64 holds what a
\* Duration does.
ASSUME FloatAssumption == Power(2, MaxExponent) >= Overflow /\ Overflow > MaxDuration

\* The three strategies.  A factor or a jitter is a fraction [num, den]; a factor
\* that is infinite or no number behaves as one past the overflow does.
Durations == 0..MaxDuration
Fractions == [num : Int, den : Nat \ {0}]

BackoffStrategy ==
    [kind : {"Fixed"}, wait : Durations]
      \cup [kind : {"Exponential"}, initial : Durations, max : Durations, factor : Fractions]
      \cup [kind : {"ExponentialJitter"}, initial : Durations, max : Durations,
            factor : Fractions, jitter : Fractions]

Fixed(wait) == [kind |-> "Fixed", wait |-> wait]

Exponential(initial, max, factor) ==
    [kind |-> "Exponential", initial |-> initial, max |-> max, factor |-> factor]

ExponentialJitter(initial, max, factor, jitter) ==
    [kind |-> "ExponentialJitter", initial |-> initial, max |-> max, factor |-> factor,
     jitter |-> jitter]

Smaller(a, b) == IF a < b THEN a ELSE b
Larger(a, b)  == IF a < b THEN b ELSE a

Panic == -1

\* as_secs_f64: Duration::MAX is not an f64, and rounds up to 2^64 seconds.
AsF64(d) == IF d = MaxDuration THEN MaxDuration + 1 ELSE d

\* from_secs_f64 panics on what no Duration holds.  A value that reaches Duration::MAX
\* has rounded past it.
FromF64(x) == IF x >= MaxDuration THEN Panic ELSE x

\* Slip: the exponent is the attempt, not the attempt before it.
ExponentOneTripAhead(attempt) == Smaller(attempt, MaxExponent)

\* Slip: a cast that wraps where the code caps the exponent.
WrappingExponent(attempt) == (attempt - 1) % (MaxExponent + 1)

Exponent(attempt) == Smaller(IF attempt = 0 THEN 0 ELSE attempt - 1, MaxExponent)

\* initial * factor^exp, at most max.  An infinite power makes the product infinite,
\* or NaN if initial is 0, and f64::min returns max for both; a product of minus
\* infinity is negative like any other below 0.
Grown(initial, max, factor, exp) ==
    LET num      == Power(factor.num, exp)
        den      == Power(factor.den, exp)
        infinite == num >= Overflow * den \/ (initial = 0 /\ -num >= Overflow * den)
    IN  IF infinite THEN AsF64(max)
        ELSE Smaller((AsF64(initial) * num) \div den, AsF64(max))

ExponentialWait(initial, max, factor, attempt) ==
    FromF64(Larger(Grown(initial, max, factor, Exponent(attempt)), 0))

\* jitter.clamp(0.0, 1.0), in units of 1/den.
Part(jitter) == IF jitter.num < 0 THEN 0 ELSE Smaller(jitter.num, jitter.den)

\* base * (1 - jitter * r), rounded, for any r in [0, 1).
Jittered(base, jitter) ==
    ((base * (jitter.den - Part(jitter))) \div jitter.den)..base

\* Every wait wait_for(attempt) may return; Panic is among them if it may panic.
Waits(strategy, attempt) ==
    IF strategy.kind = "Fixed" THEN {strategy.wait}
    ELSE LET base == ExponentialWait(strategy.initial, strategy.max, strategy.factor, attempt)
         IN  IF strategy.kind = "Exponential" \/ base = Panic
             THEN {base}
             ELSE Jittered(base, strategy.jitter)

=============================================================================

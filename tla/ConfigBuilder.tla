--------------------------- MODULE ConfigBuilder ---------------------------
(***************************************************************************)
(* CircuitBreakerConfigBuilder of config.rs: setters in any order, any      *)
(* number of times, each clamping what it is given, and build(), which      *)
(* fills in defaults and clamps across fields.                              *)
(***************************************************************************)
EXTENDS Integers

CONSTANTS
    Counts,     \* the u32 values callers pass
    Rates,      \* numerators of the rates callers pass, over RateDen
    RateDen,
    Strategies, \* the BackoffStrategy values callers pass to backoff()
    Waits,      \* the durations callers pass to wait_duration()
    Timeouts,   \* the durations callers pass to call_timeout()
    Predicates, \* the closures callers pass to failure_predicate()
    FixedWait(_), \* BackoffStrategy::Fixed
    NaN, None   \* neither a number

ASSUME BuilderAssumption ==
    /\ Counts \subseteq Nat /\ Rates \subseteq Int \cup {NaN} /\ RateDen \in Nat \ {0}
    /\ Timeouts \subseteq Nat
    /\ NaN \notin Int /\ None \notin Int \cup {NaN}
    /\ \A d \in Waits \cup {10, 30, 60} : FixedWait(d) # None
    /\ None \notin Strategies \cup Predicates

VARIABLES
    builder,  \* the builder's fields, None where no setter ran
    asked     \* the value each setter was last called with, as the caller gave it

vars == <<builder, asked>>

CountFields == {"consecutive_failures", "sliding_window_size", "minimum_calls",
                "half_open_max_calls", "success_threshold"}

Fields == CountFields \cup {"failure_rate_threshold", "backoff", "call_timeout",
                         "failure_predicate"}

Defaults == [consecutive_failures |-> 5, sliding_window_size |-> 10,
             half_open_max_calls |-> 3, failure_rate_threshold |-> RateDen \div 2,
             backoff |-> FixedWait(30)]

\* Slip: no clamp.
Unclamped(n) == n

AtLeastOne(n) == IF n < 1 THEN 1 ELSE n

Smaller(a, b) == IF a < b THEN a ELSE b

\* f32::clamp(0.0, 1.0) keeps a NaN.
ClampRate(r) == IF r = NaN THEN NaN ELSE IF r < 0 THEN 0 ELSE Smaller(r, RateDen)

Or(value, default) == IF value = None THEN default ELSE value

-----------------------------------------------------------------------------
Unset == [f \in Fields |-> None]

Init == builder = Unset /\ asked = Unset

Set(field, value, stored) ==
    /\ asked' = [asked EXCEPT ![field] = value]
    /\ builder' = [builder EXCEPT ![field] = stored]

SetCount == \E field \in CountFields, n \in Counts : Set(field, n, AtLeastOne(n))

SetRate == \E r \in Rates : Set("failure_rate_threshold", r, ClampRate(r))

SetBackoff == \E strategy \in Strategies : Set("backoff", strategy, strategy)

\* Slip: a wait_duration of its own, which build() reads only if backoff is unset.
SetWaitIfNoBackoff ==
    \E d \in Waits : Set("backoff", FixedWait(d), Or(builder.backoff, FixedWait(d)))

\* A backoff in disguise: the builder's own wait_duration field stays None.
SetWaitDuration == \E d \in Waits : Set("backoff", FixedWait(d), FixedWait(d))

\* Some(0) is filtered out.
SetCallTimeout ==
    \E d \in Timeouts \cup {None} : Set("call_timeout", d, IF d = 0 THEN None ELSE d)

SetPredicate == \E p \in Predicates : Set("failure_predicate", p, p)

Next ==
    \/ SetCount \/ SetRate \/ SetBackoff \/ SetWaitDuration
    \/ SetCallTimeout \/ SetPredicate

Spec == Init /\ [][Next]_vars

\* build(), of a builder with the fields b.
BuildFrom(b) ==
    LET window == AtLeastOne(Or(b.sliding_window_size, Defaults.sliding_window_size))
        probes == AtLeastOne(Or(b.half_open_max_calls, Defaults.half_open_max_calls))
    IN  [failure_rate_threshold |->
            ClampRate(Or(b.failure_rate_threshold, Defaults.failure_rate_threshold)),
         consecutive_failures |->
            AtLeastOne(Or(b.consecutive_failures, Defaults.consecutive_failures)),
         sliding_window_size |-> window,
         minimum_calls |-> Smaller(AtLeastOne(Or(b.minimum_calls, window)), window),
         half_open_max_calls |-> probes,
         success_threshold |-> AtLeastOne(Or(b.success_threshold, probes)),
         backoff |-> Or(b.backoff, Defaults.backoff),
         call_timeout |-> b.call_timeout,
         failure_predicate |-> b.failure_predicate]

Build == BuildFrom(builder)

\* The presets: a rate, a streak, a window, a fixed wait and the probes, each set
\* on a new builder.
Preset(rate, streak, size, seconds, probes) ==
    BuildFrom([Unset EXCEPT !.failure_rate_threshold = ClampRate(rate),
                            !.consecutive_failures = AtLeastOne(streak),
                            !.sliding_window_size = AtLeastOne(size),
                            !.backoff = FixedWait(seconds),
                            !.half_open_max_calls = AtLeastOne(probes)])

standard  == Preset(RateDen \div 2, 5, 10, 30, 3)
fast_fail == Preset(RateDen, 1, 5, 10, 1)
lenient   == Preset(RateDen \div 2, 10, 20, 60, 5)

-----------------------------------------------------------------------------
(* Properties.                                                             *)

\* A breaker built with this configuration can trip on either criterion, admit a
\* probe and close again: the rate is judged before the window overflows, and no
\* count is 0.
Usable(config) ==
    /\ \A field \in CountFields : config[field] >= 1
    /\ config.minimum_calls <= config.sliding_window_size
    /\ config.failure_rate_threshold \in 0..RateDen
    /\ config.call_timeout # 0

\* Whatever the setters were called with and in which order, what is built is
\* usable, as the presets are.  A rate that is not a number is the exception the
\* clamps let through; it disables the rate.
AlwaysUsable ==
    /\ \A config \in {standard, fast_fail, lenient} : Usable(config)
    /\ asked.failure_rate_threshold # NaN => Usable(Build)
    /\ asked.failure_rate_threshold = NaN =>
         Build.failure_rate_threshold = NaN /\ Usable([Build EXCEPT !.failure_rate_threshold = 0])

\* A legal request is honoured exactly, and the last one wins: clamping changes
\* nothing that is in range, twice for the rate (by its setter and by build()), and
\* takes a rate that is out of it to the nearer end; an earlier call of backoff() or
\* wait_duration() leaves no trace, and an unset success_threshold follows the probes
\* finally asked for (REQ-BRK-015 and 016), not those known when a setter ran.
LastRequestWins ==
    /\ \A field \in CountFields \ {"minimum_calls"} :
         asked[field] # None /\ asked[field] >= 1 => Build[field] = asked[field]
    /\ asked.success_threshold = None => Build.success_threshold = Build.half_open_max_calls
    /\ LET size == Build.sliding_window_size
           asks == asked.minimum_calls
       IN  /\ asks = None \/ asks > size => Build.minimum_calls = size
           /\ asks # None /\ asks \in 1..size => Build.minimum_calls = asks
    /\ LET built == Build.failure_rate_threshold
           asks  == asked.failure_rate_threshold
       IN  /\ asks \in 0..RateDen => built = asks
           /\ asks \notin {None, NaN} /\ asks < 0 => built = 0
           /\ asks \notin {None, NaN} /\ asks > RateDen => built = RateDen
    /\ asked.backoff # None => Build.backoff = asked.backoff
    /\ Build.failure_predicate = asked.failure_predicate
    /\ asked.call_timeout \notin {None, 0} => Build.call_timeout = asked.call_timeout
    /\ asked.call_timeout \in {None, 0} => Build.call_timeout = None

=============================================================================

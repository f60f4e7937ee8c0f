---------------------------- MODULE EagerBreaker ----------------------------
(***************************************************************************)
(* What the state machine promises, without its implementation choices: a  *)
(* circuit with a timer that turns it HalfOpen at the tick the wait is over,*)
(* that judges the outcomes of the present Closed episode by counting them, *)
(* and that forgets them the moment it trips.                              *)
(*                                                                         *)
(* Each outcome is counted where anybody can see it, and nothing else is:  *)
(* that tells the steps apart.  An outcome may open or close the circuit   *)
(* when its thresholds say so, and must then; trip() and reset() may at any *)
(* time, but count nothing; time does nothing but run the timer down.      *)
(***************************************************************************)
EXTENDS Integers, Sequences, FiniteSets

CONSTANTS
    Size,                 \* outcomes the window keeps
    ConsecutiveFailures,  \* failures in a row that trip the circuit
    RateNum, RateDen,     \* the failure rate that trips it
    MinimumCalls,         \* outcomes needed before the rate counts
    SuccessThreshold,     \* successful probes that close the circuit
    MaxAttempts,          \* trips since a recovery are counted up to here
    CounterModulus,       \* outcomes are counted up to here, and then from 0
    Waits                 \* Waits[n]: how long the n-th trip since a recovery may wait

VARIABLES
    mode,
    streak, recent,       \* of the Closed episode
    probes,               \* of the HalfOpen episode
    remaining,            \* of the Open episode: ticks to go
    attempts,             \* trips since the last recovery
    successes, failures   \* outcomes, whatever the circuit made of them

circuit == <<mode, streak, recent, probes, remaining, attempts>>
vars    == <<circuit, successes, failures>>

Remember(outcome) ==
    Append(IF Len(recent) >= Size THEN Tail(recent) ELSE recent, outcome)

Failures(s) == Cardinality({i \in DOMAIN s : s[i] = 1})

\* The rate is judged over the outcomes held, at least MinimumCalls of them.
TooManyFailures(s) ==
    /\ RateNum > 0
    /\ Len(s) > 0 /\ Len(s) >= MinimumCalls
    /\ Failures(s) * RateDen >= RateNum * Len(s)

MustTrip == streak + 1 >= ConsecutiveFailures \/ TooManyFailures(Remember(1))

Init ==
    /\ mode = "Closed" /\ streak = 0 /\ recent = <<>> /\ probes = 0
    /\ remaining = 0 /\ attempts = 0
    /\ successes = 0 /\ failures = 0

Clear == streak' = 0 /\ recent' = <<>> /\ probes' = 0

\* Open until the timer has run down, or not at all when the wait is 0.
Open ==
    /\ attempts' = IF attempts < MaxAttempts THEN attempts + 1 ELSE MaxAttempts
    /\ remaining' \in Waits[attempts']
    /\ mode' = IF remaining' = 0 THEN "HalfOpen" ELSE "Open"
    /\ Clear

Close == mode' = "Closed" /\ remaining' = 0 /\ attempts' = 0 /\ Clear

Counted(n) == IF n + 1 = CounterModulus THEN 0 ELSE n + 1

\* An outcome that comes while the circuit is Open only counts.
Late == mode = "Open" /\ UNCHANGED circuit

Success ==
    /\ successes' = Counted(successes) /\ UNCHANGED failures
    /\ \/ /\ mode = "Closed"
          /\ streak' = 0
          /\ recent' = Remember(0)
          /\ UNCHANGED <<mode, probes, remaining, attempts>>
       \/ /\ mode = "HalfOpen"
          /\ probes + 1 < SuccessThreshold
          /\ probes' = probes + 1
          /\ UNCHANGED <<mode, streak, recent, remaining, attempts>>
       \/ mode = "HalfOpen" /\ probes + 1 >= SuccessThreshold /\ Close
       \/ Late

Failure ==
    /\ failures' = Counted(failures) /\ UNCHANGED successes
    /\ \/ /\ mode = "Closed" /\ ~MustTrip
          /\ streak' = streak + 1
          /\ recent' = Remember(1)
          /\ UNCHANGED <<mode, probes, remaining, attempts>>
       \/ mode = "Closed" /\ MustTrip /\ Open
       \/ mode = "HalfOpen" /\ Open
       \/ Late

\* The last tick of the wait half-opens the circuit.
Tick ==
    /\ mode = "Open"
    /\ remaining' = remaining - 1
    /\ mode' = IF remaining' = 0 THEN "HalfOpen" ELSE "Open"
    /\ UNCHANGED <<streak, recent, probes, attempts, successes, failures>>

\* trip() and reset(), at any time.
Force == (Open \/ Close) /\ UNCHANGED <<successes, failures>>

Next == Success \/ Failure \/ Tick \/ Force

Spec == Init /\ [][Next]_vars

=============================================================================

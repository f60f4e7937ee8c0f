------------------------- MODULE ConfigBuilder_proofs -------------------------
(***************************************************************************)
(* The builder, for whatever values its setters are called with: what the   *)
(* fields hold is always the clamped form of what was last asked for.       *)
(***************************************************************************)
EXTENDS ConfigBuilder, TLAPS

\* The inductive invariant: each field holds what its setter was last asked for,
\* clamped, and no other setter's call has touched it.
FieldsAgree ==
    /\ builder = [f \in Fields |-> builder[f]] /\ asked = [f \in Fields |-> asked[f]]
    /\ \A f \in CountFields :
         /\ asked[f] \in Nat \cup {None}
         /\ builder[f] = IF asked[f] = None THEN None ELSE AtLeastOne(asked[f])
    /\ asked.failure_rate_threshold \in Int \cup {NaN, None}
    /\ builder.failure_rate_threshold =
         IF asked.failure_rate_threshold = None THEN None ELSE ClampRate(asked.failure_rate_threshold)
    /\ builder.backoff = asked.backoff
    /\ builder.failure_predicate = asked.failure_predicate
    /\ asked.call_timeout \in Nat \cup {None}
    /\ builder.call_timeout = IF asked.call_timeout = 0 THEN None ELSE asked.call_timeout

LEMMA FieldsAgreeAtFirst == Init => FieldsAgree
<1> SUFFICES ASSUME Init PROVE FieldsAgree
  OBVIOUS
<1>1. \A f \in Fields : builder[f] = None /\ asked[f] = None
  BY DEF Init, Unset
<1>2. CountFields \subseteq Fields
  BY DEF Fields
<1>3. /\ "failure_rate_threshold" \in Fields /\ "backoff" \in Fields
      /\ "call_timeout" \in Fields /\ "failure_predicate" \in Fields
  BY DEF Fields
<1>4. None # 0
  BY BuilderAssumption
<1>5. builder = [f \in Fields |-> builder[f]] /\ asked = [f \in Fields |-> asked[f]]
  BY DEF Init, Unset
<1>6. QED
  BY <1>1, <1>2, <1>3, <1>4, <1>5 DEF FieldsAgree

LEMMA FieldsStayAgreed == FieldsAgree /\ [Next]_vars => FieldsAgree'
<1> SUFFICES ASSUME FieldsAgree, [Next]_vars PROVE FieldsAgree'
  OBVIOUS
<1>1. CASE UNCHANGED vars
  BY <1>1 DEF vars, FieldsAgree
<1>2. CASE SetCount
  <2>1. PICK field \in CountFields, n \in Counts : Set(field, n, AtLeastOne(n))
    BY <1>2 DEF SetCount
  <2>2. n \in Nat /\ n # None
    BY <2>1, BuilderAssumption
  <2>3. field \in Fields /\ field \notin {"failure_rate_threshold", "backoff", "call_timeout",
                                          "failure_predicate"}
    BY <2>1 DEF Fields, CountFields
  <2>4. /\ builder' = [builder EXCEPT ![field] = AtLeastOne(n)]
        /\ asked' = [asked EXCEPT ![field] = n]
    BY <2>1 DEF Set
  <2>5. /\ builder' = [f \in Fields |-> builder'[f]] /\ asked' = [f \in Fields |-> asked'[f]]
        /\ builder'[field] = AtLeastOne(n) /\ asked'[field] = n
        /\ \A f \in Fields \ {field} : builder'[f] = builder[f] /\ asked'[f] = asked[f]
    BY <2>3, <2>4 DEF FieldsAgree
  <2>6. \A f \in CountFields :
          /\ asked'[f] \in Nat \cup {None}
          /\ builder'[f] = IF asked'[f] = None THEN None ELSE AtLeastOne(asked'[f])
    BY <2>2, <2>5 DEF FieldsAgree, Fields
  <2>7. QED
    BY <2>3, <2>5, <2>6 DEF FieldsAgree, Fields
<1>3. CASE SetRate
  <2>1. PICK r \in Rates : Set("failure_rate_threshold", r, ClampRate(r))
    BY <1>3 DEF SetRate
  <2>2. r \in Int \cup {NaN} /\ r # None
    BY <2>1, BuilderAssumption
  <2>3. QED
    BY <2>1, <2>2 DEF Set, FieldsAgree, Fields, CountFields
<1>4. CASE SetBackoff \/ SetWaitDuration
  <2>1. PICK strategy : Set("backoff", strategy, strategy)
    BY <1>4 DEF SetBackoff, SetWaitDuration
  <2>2. QED
    BY <2>1 DEF Set, FieldsAgree, Fields, CountFields
<1>5. CASE SetCallTimeout
  <2>1. PICK d \in Timeouts \cup {None} :
          Set("call_timeout", d, IF d = 0 THEN None ELSE d)
    BY <1>5 DEF SetCallTimeout
  <2>2. d \in Nat \cup {None}
    BY <2>1, BuilderAssumption
  <2>3. QED
    BY <2>1, <2>2 DEF Set, FieldsAgree, Fields, CountFields
<1>6. CASE SetPredicate
  <2>1. PICK p \in Predicates : Set("failure_predicate", p, p)
    BY <1>6 DEF SetPredicate
  <2>2. QED
    BY <2>1 DEF Set, FieldsAgree, Fields, CountFields
<1>7. QED
  BY <1>1, <1>2, <1>3, <1>4, <1>5, <1>6 DEF Next

LEMMA FieldsAlwaysAgree == Spec => []FieldsAgree
<1>1. QED
  BY FieldsAgreeAtFirst, FieldsStayAgreed, PTL DEF Spec

-----------------------------------------------------------------------------
\* build(), of any fields whose counts and timeout are unset or at least 1.
LEMMA BuildUsable ==
    ASSUME NEW b, \A f \in CountFields : b[f] = None \/ (b[f] \in Nat /\ b[f] >= 1),
           b.failure_rate_threshold = None \/ b.failure_rate_threshold \in 0..RateDen,
           b.call_timeout # 0
    PROVE  Usable(BuildFrom(b))
<1>1. RateDen \in Nat /\ None \notin Int /\ NaN \notin Int
  BY BuilderAssumption
<1> DEFINE window == AtLeastOne(Or(b.sliding_window_size, Defaults.sliding_window_size))
           probes == AtLeastOne(Or(b.half_open_max_calls, Defaults.half_open_max_calls))
<1>2. window \in Nat /\ window >= 1 /\ probes \in Nat /\ probes >= 1
  BY <1>1 DEF AtLeastOne, Or, Defaults, CountFields
<1>3. /\ BuildFrom(b).sliding_window_size = window
      /\ BuildFrom(b).half_open_max_calls = probes
      /\ BuildFrom(b).minimum_calls = Smaller(AtLeastOne(Or(b.minimum_calls, window)), window)
      /\ BuildFrom(b).success_threshold = AtLeastOne(Or(b.success_threshold, probes))
      /\ BuildFrom(b).consecutive_failures =
           AtLeastOne(Or(b.consecutive_failures, Defaults.consecutive_failures))
      /\ BuildFrom(b).failure_rate_threshold =
           ClampRate(Or(b.failure_rate_threshold, Defaults.failure_rate_threshold))
      /\ BuildFrom(b).call_timeout = b.call_timeout
  BY DEF BuildFrom
<1> HIDE DEF window, probes
<1>4. BuildFrom(b).minimum_calls >= 1 /\ BuildFrom(b).minimum_calls <= window
  BY <1>1, <1>2, <1>3 DEF AtLeastOne, Or, Smaller, CountFields
<1>5. BuildFrom(b).success_threshold >= 1 /\ BuildFrom(b).consecutive_failures >= 1
  BY <1>1, <1>2, <1>3 DEF AtLeastOne, Or, Defaults, CountFields
<1>6. BuildFrom(b).failure_rate_threshold \in 0..RateDen
  BY <1>1, <1>3 DEF ClampRate, Or, Defaults, Smaller
<1>7. QED
  BY <1>2, <1>3, <1>4, <1>5, <1>6 DEF Usable, CountFields

LEMMA PresetUsable ==
    ASSUME NEW rate \in 0..RateDen, NEW streak \in Nat, NEW size \in Nat,
           NEW seconds \in Nat, NEW probes \in Nat
    PROVE  Usable(Preset(rate, streak, size, seconds, probes))
<1> DEFINE b == [Unset EXCEPT !.failure_rate_threshold = ClampRate(rate),
                              !.consecutive_failures = AtLeastOne(streak),
                              !.sliding_window_size = AtLeastOne(size),
                              !.backoff = FixedWait(seconds),
                              !.half_open_max_calls = AtLeastOne(probes)]
<1>1. RateDen \in Nat /\ NaN \notin Int /\ None \notin Int
  BY BuilderAssumption
<1>2. /\ b.failure_rate_threshold = ClampRate(rate) /\ b.call_timeout = None
      /\ b.consecutive_failures = AtLeastOne(streak) /\ b.sliding_window_size = AtLeastOne(size)
      /\ b.half_open_max_calls = AtLeastOne(probes)
      /\ b.minimum_calls = None /\ b.success_threshold = None
  BY DEF Unset, Fields, CountFields
<1> HIDE DEF b
<1>3. \A f \in CountFields : b[f] = None \/ (b[f] \in Nat /\ b[f] >= 1)
  BY <1>2 DEF CountFields, AtLeastOne
<1>4. b.failure_rate_threshold \in 0..RateDen
  BY <1>1, <1>2 DEF ClampRate, Smaller
<1>5. Usable(BuildFrom(b))
  BY <1>1, <1>2, <1>3, <1>4, BuildUsable
<1>6. QED
  BY <1>5 DEF Preset, b

\* Whatever the setters are called with, in whatever order and however often, what
\* build() returns can trip, probe and close again; so can the presets.
THEOREM BuiltAlwaysUsable == Spec => []AlwaysUsable
<1>1. Usable(standard) /\ Usable(fast_fail) /\ Usable(lenient)
  <2>1. RateDen \in 0..RateDen /\ RateDen \div 2 \in 0..RateDen
    BY BuilderAssumption
  <2>2. QED
    BY <2>1, PresetUsable DEF standard, fast_fail, lenient
<1>2. ASSUME FieldsAgree PROVE AlwaysUsable
  <2>1. /\ NaN \notin Int /\ None \notin Int \cup {NaN} /\ RateDen \in Nat
    BY BuilderAssumption
  <2>2. /\ \A f \in CountFields : builder[f] = None \/ (builder[f] \in Nat /\ builder[f] >= 1)
        /\ builder.call_timeout # 0
    BY <1>2, <2>1 DEF FieldsAgree, AtLeastOne
  <2>3. CASE asked.failure_rate_threshold # NaN
    <3>1. builder.failure_rate_threshold = None \/ builder.failure_rate_threshold \in 0..RateDen
      BY <1>2, <2>1, <2>3 DEF FieldsAgree, ClampRate, Smaller
    <3>2. Usable(Build)
      BY <2>2, <3>1, BuildUsable DEF Build
    <3>3. QED
      BY <1>1, <2>3, <3>2 DEF AlwaysUsable
  <2>4. CASE asked.failure_rate_threshold = NaN
    <3> DEFINE b == [builder EXCEPT !.failure_rate_threshold = 0]
    <3>1. builder.failure_rate_threshold = NaN
      BY <1>2, <2>1, <2>4 DEF FieldsAgree, ClampRate
    <3>2. Build.failure_rate_threshold = NaN
      BY <2>1, <3>1 DEF Build, BuildFrom, Or, ClampRate
    <3>3. /\ \A f \in CountFields : b[f] = builder[f]
          /\ b.call_timeout = builder.call_timeout /\ b.failure_rate_threshold = 0
          /\ b.backoff = builder.backoff /\ b.failure_predicate = builder.failure_predicate
      BY <1>2 DEF FieldsAgree, Fields, CountFields
    <3> HIDE DEF b
    <3>4. Usable(BuildFrom(b))
      BY <2>1, <2>2, <3>3, BuildUsable
    <3>5. BuildFrom(b) = [Build EXCEPT !.failure_rate_threshold = 0]
      <4>1. ClampRate(Or(b.failure_rate_threshold, Defaults.failure_rate_threshold)) = 0
        BY <2>1, <3>3 DEF ClampRate, Or, Smaller
      <4>2. QED
        BY <3>3, <4>1 DEF Build, BuildFrom, CountFields
    <3>6. QED
      BY <1>1, <2>4, <3>2, <3>4, <3>5 DEF AlwaysUsable
  <2>5. QED
    BY <2>3, <2>4
<1>3. QED
  BY <1>2, FieldsAlwaysAgree, PTL

\* No order of the calls makes a legal request come out differently, or a setter
\* undo another's: backoff() and wait_duration() alone share a field.
THEOREM LastRequestAlwaysWins == Spec => []LastRequestWins
<1>1. ASSUME FieldsAgree PROVE LastRequestWins
  <2>1. None \notin Int /\ NaN \notin Int
    BY BuilderAssumption
  <2>2. \A f \in CountFields : /\ asked[f] \in Nat \cup {None}
                               /\ asked[f] = None => builder[f] = None
                               /\ asked[f] # None => builder[f] = AtLeastOne(asked[f])
    BY <1>1 DEF FieldsAgree
  <2> DEFINE window == AtLeastOne(Or(builder.sliding_window_size, Defaults.sliding_window_size))
             probes == AtLeastOne(Or(builder.half_open_max_calls, Defaults.half_open_max_calls))
  <2>3. /\ Build.sliding_window_size = window
        /\ Build.half_open_max_calls = probes
        /\ Build.minimum_calls = Smaller(AtLeastOne(Or(builder.minimum_calls, window)), window)
        /\ Build.success_threshold = AtLeastOne(Or(builder.success_threshold, probes))
        /\ Build.consecutive_failures =
             AtLeastOne(Or(builder.consecutive_failures, Defaults.consecutive_failures))
        /\ Build.backoff = Or(builder.backoff, Defaults.backoff)
        /\ Build.call_timeout = builder.call_timeout
        /\ Build.failure_predicate = builder.failure_predicate
    BY DEF Build, BuildFrom
  <2>4. window \in Nat /\ window >= 1 /\ probes \in Nat /\ probes >= 1
    BY <2>1, <2>2 DEF AtLeastOne, Or, Defaults, CountFields
  <2>5. /\ asked.sliding_window_size # None /\ asked.sliding_window_size >= 1
             => window = asked.sliding_window_size
        /\ asked.half_open_max_calls # None /\ asked.half_open_max_calls >= 1
             => probes = asked.half_open_max_calls
    BY <2>1, <2>2 DEF AtLeastOne, Or, CountFields
  <2> HIDE DEF window, probes
  <2>6. \A f \in CountFields \ {"minimum_calls"} :
          asked[f] # None /\ asked[f] >= 1 => Build[f] = asked[f]
    <3>1. asked.consecutive_failures # None /\ asked.consecutive_failures >= 1
            => Build.consecutive_failures = asked.consecutive_failures
      BY <2>1, <2>2, <2>3 DEF AtLeastOne, Or, CountFields
    <3>2. asked.success_threshold # None /\ asked.success_threshold >= 1
            => Build.success_threshold = asked.success_threshold
      BY <2>1, <2>2, <2>3 DEF AtLeastOne, Or, CountFields
    <3>3. QED
      BY <2>3, <2>5, <3>1, <3>2 DEF CountFields
  <2>7. asked.success_threshold = None => Build.success_threshold = Build.half_open_max_calls
    BY <2>2, <2>3, <2>4 DEF AtLeastOne, Or, CountFields
  <2>8. /\ asked.minimum_calls = None \/ asked.minimum_calls > window
             => Build.minimum_calls = window
        /\ asked.minimum_calls # None /\ asked.minimum_calls \in 1..window
             => Build.minimum_calls = asked.minimum_calls
    BY <2>1, <2>2, <2>3, <2>4 DEF AtLeastOne, Or, Smaller, CountFields
  <2>9. /\ asked.backoff # None => Build.backoff = asked.backoff
        /\ Build.failure_predicate = asked.failure_predicate
        /\ asked.call_timeout \notin {None, 0} => Build.call_timeout = asked.call_timeout
        /\ asked.call_timeout \in {None, 0} => Build.call_timeout = None
    BY <1>1, <2>1, <2>3 DEF FieldsAgree, Or
  <2>10. ASSUME asked.failure_rate_threshold \in Int
         PROVE  /\ asked.failure_rate_threshold \in 0..RateDen
                     => Build.failure_rate_threshold = asked.failure_rate_threshold
                /\ asked.failure_rate_threshold < 0 => Build.failure_rate_threshold = 0
                /\ asked.failure_rate_threshold > RateDen => Build.failure_rate_threshold = RateDen
    <3> DEFINE rate == asked.failure_rate_threshold
    <3>1. rate \in Int /\ rate # None /\ rate # NaN /\ RateDen \in Nat
      BY <2>1, <2>10, BuilderAssumption
    <3>2. builder.failure_rate_threshold = ClampRate(rate)
      BY <1>1, <3>1 DEF FieldsAgree
    <3> HIDE DEF rate
    <3>3. /\ ClampRate(rate) \in 0..RateDen
          /\ rate \in 0..RateDen => ClampRate(rate) = rate
          /\ rate < 0 => ClampRate(rate) = 0
          /\ rate > RateDen => ClampRate(rate) = RateDen
      BY <3>1 DEF ClampRate, Smaller
    <3>4. \A r \in 0..RateDen : r # None /\ ClampRate(r) = r
      BY <2>1, <3>1 DEF ClampRate, Smaller
    <3>5. Build.failure_rate_threshold = ClampRate(rate)
      BY <3>2, <3>3, <3>4 DEF Build, BuildFrom, Or
    <3>6. QED
      BY <3>3, <3>5 DEF rate
  <2>11. asked.failure_rate_threshold \in Int \cup {NaN, None}
    BY <1>1 DEF FieldsAgree
  <2>12. QED
    BY <2>1, <2>3, <2>6, <2>7, <2>8, <2>9, <2>10, <2>11 DEF LastRequestWins
<1>2. QED
  BY <1>1, FieldsAlwaysAgree, PTL

=============================================================================

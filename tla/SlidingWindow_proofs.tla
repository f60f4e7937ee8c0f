------------------------ MODULE SlidingWindow_proofs ------------------------
(***************************************************************************)
(* The window's incremental failure count is exact: recording an outcome    *)
(* keeps it equal to the number of failures held, whatever is evicted.      *)
(***************************************************************************)
EXTENDS SlidingWindow, FiniteSetTheorems, TLAPS

\* A sequence of outcomes holds finitely many failures.
LEMMA FailurePositionsFinite ==
    ASSUME NEW s \in Seq(Outcome)
    PROVE  /\ IsFiniteSet(FailurePositions(s))
           /\ Cardinality(FailurePositions(s)) \in Nat
           /\ Cardinality(FailurePositions(s)) <= Len(s)
<1>1. FailurePositions(s) \subseteq 1..Len(s)
  BY DEF FailurePositions
<1>2. Len(s) \in Nat
  OBVIOUS
<1>3. /\ IsFiniteSet(1..Len(s))
      /\ Cardinality(1..Len(s)) = IF 1 > Len(s) THEN 0 ELSE Len(s) - 1 + 1
  BY <1>2, FS_Interval
<1>4. Cardinality(1..Len(s)) = Len(s)
  BY <1>2, <1>3
<1>5. QED
  BY <1>1, <1>3, <1>4, FS_Subset, FS_CardinalityType

\* Appending an outcome adds it to the count.
LEMMA AppendCount ==
    ASSUME NEW s \in Seq(Outcome), NEW outcome \in Outcome
    PROVE  Cardinality(FailurePositions(Append(s, outcome)))
             = Cardinality(FailurePositions(s)) + outcome
<1> DEFINE P == FailurePositions(s)
           Q == FailurePositions(Append(s, outcome))
<1>1. IsFiniteSet(P) /\ Cardinality(P) \in Nat
  BY FailurePositionsFinite
<1>2. CASE outcome = 1
  <2>1. Q = P \cup {Len(s) + 1}
    BY <1>2 DEF FailurePositions
  <2>2. Len(s) + 1 \notin P
    BY DEF FailurePositions
  <2>3. QED
    BY <1>1, <1>2, <2>1, <2>2, FS_AddElement
<1>3. CASE outcome = 0
  <2>1. Q = P
    BY <1>3 DEF FailurePositions
  <2>2. QED
    BY <1>1, <1>3, <2>1
<1>4. QED
  BY <1>2, <1>3 DEF Outcome

\* Dropping the oldest outcome takes it off the count.
LEMMA TailCount ==
    ASSUME NEW s \in Seq(Outcome), s # <<>>
    PROVE  Cardinality(FailurePositions(Tail(s)))
             = Cardinality(FailurePositions(s)) - Head(s)
<1> DEFINE P == FailurePositions(s)
           T == FailurePositions(Tail(s))
           R == P \ {1}
           shift == [i \in T |-> i + 1]
<1>1. IsFiniteSet(P) /\ Cardinality(P) \in Nat
  BY FailurePositionsFinite
<1>2. /\ Tail(s) \in Seq(Outcome)
      /\ Len(Tail(s)) = Len(s) - 1 /\ Len(s) \in Nat \ {0}
      /\ \A i \in 1..Len(Tail(s)) : Tail(s)[i] = s[i + 1]
  OBVIOUS
<1>3. IsFiniteSet(T)
  BY <1>2, FailurePositionsFinite
<1>4. shift \in Bijection(T, R)
  <2>1. ASSUME NEW i \in T PROVE i + 1 \in R
    BY <1>2 DEF FailurePositions
  <2>2. ASSUME NEW j \in R PROVE j - 1 \in T /\ (j - 1) + 1 = j
    BY <1>2 DEF FailurePositions
  <2>3. T \subseteq Int
    BY <1>2 DEF FailurePositions
  <2>4. shift \in [T -> R]
    BY <2>1
  <2>5. shift \in Injection(T, R)
    BY <2>3, <2>4 DEF Injection, IsInjective
  <2>6. shift \in Surjection(T, R)
    BY <2>2, <2>4 DEF Surjection
  <2>7. QED
    BY <2>5, <2>6 DEF Bijection
<1>5. IsFiniteSet(R) /\ Cardinality(T) = Cardinality(R)
  BY <1>3, <1>4, FS_Bijection DEF ExistsBijection
<1>6. Cardinality(R) = IF 1 \in P THEN Cardinality(P) - 1 ELSE Cardinality(P)
  BY <1>1, FS_RemoveElement
<1>7. 1 \in P <=> Head(s) = 1
  BY <1>2 DEF FailurePositions
<1>8. Head(s) \in {0, 1}
  BY DEF Outcome
<1>9. QED
  BY <1>1, <1>5, <1>6, <1>7, <1>8

\* An empty window counts no failures.
LEMMA EmptyWindowConsistent == EmptyWindow \in WindowType /\ WindowConsistent(EmptyWindow)
<1>1. FailurePositions(<<>>) = {}
  BY DEF FailurePositions
<1>2. Capacity \in Nat \ {0}
  BY SlidingWindowAssumption DEF Capacity
<1>3. QED
  BY <1>1, <1>2, FS_EmptySet DEF EmptyWindow, WindowType, WindowConsistent, Filled

\* REQ-BRK-022: recording an outcome keeps the count exact and the window within
\* its capacity, so the subtraction of Window::record never underflows.
THEOREM RecordConsistent ==
    ASSUME NEW w \in WindowType, WindowConsistent(w), NEW outcome \in Outcome
    PROVE  /\ Record(w, outcome) \in WindowType
           /\ WindowConsistent(Record(w, outcome))
           /\ Filled(Record(w, outcome)) > 0
           /\ Record(w, outcome).failures \in 0..Filled(Record(w, outcome))
<1> DEFINE s == w.outcomes
           r == Record(w, outcome)
<1>1. s \in Seq(Outcome) /\ w.failures \in Int /\ outcome \in {0, 1}
  BY DEF WindowType, Outcome
<1>2. Capacity \in Nat \ {0}
  BY SlidingWindowAssumption DEF Capacity
<1>3. CASE Filled(w) >= Capacity
  <2>1. s # <<>> /\ Len(s) = Capacity
    BY <1>1, <1>2, <1>3 DEF WindowConsistent, Filled
  <2>2. Tail(s) \in Seq(Outcome) /\ Len(Tail(s)) = Capacity - 1 /\ Head(s) \in {0, 1}
    BY <1>1, <2>1 DEF Outcome
  <2>3. /\ r.outcomes = Append(Tail(s), outcome)
        /\ r.failures = (w.failures - Head(s)) + outcome
        /\ r = [outcomes |-> r.outcomes, failures |-> r.failures]
    BY <1>3 DEF Record, Push, Evict
  <2>4. r.failures = Cardinality(FailurePositions(r.outcomes))
    BY <1>1, <2>1, <2>2, <2>3, TailCount, AppendCount DEF WindowConsistent
  <2>5. r.outcomes \in Seq(Outcome) /\ Len(r.outcomes) = Capacity
    BY <1>2, <2>2, <2>3
  <2>6. r \in WindowType
    <3>1. (w.failures - Head(s)) + outcome \in Int
      BY <1>1, <2>2
    <3>2. QED
      BY <2>3, <2>5, <3>1 DEF WindowType
  <2>7. QED
    BY <1>2, <2>4, <2>5, <2>6, FailurePositionsFinite DEF WindowConsistent, Filled
<1>4. CASE ~(Filled(w) >= Capacity)
  <2>1. /\ r.outcomes = Append(s, outcome)
        /\ r.failures = w.failures + outcome
        /\ r = [outcomes |-> r.outcomes, failures |-> r.failures]
    BY <1>4 DEF Record, Push
  <2>2. r.outcomes \in Seq(Outcome) /\ Len(r.outcomes) = Len(s) + 1 /\ Len(s) < Capacity
    BY <1>1, <1>2, <1>4, <2>1 DEF Filled
  <2>3. r.failures = Cardinality(FailurePositions(r.outcomes))
    BY <1>1, <2>1, AppendCount DEF WindowConsistent
  <2>4. r \in WindowType
    <3>1. w.failures + outcome \in Int
      BY <1>1
    <3>2. QED
      BY <2>1, <2>2, <3>1 DEF WindowType
  <2>5. QED
    BY <1>1, <1>2, <2>2, <2>3, <2>4, FailurePositionsFinite DEF WindowConsistent, Filled
<1>5. QED
  BY <1>3, <1>4

\* What recording does to the outcomes: the newest is last, and the others keep
\* their order, one place earlier if the oldest was evicted.
LEMMA RecordOutcomes ==
    ASSUME NEW w \in WindowType, WindowConsistent(w), NEW outcome \in Outcome
    PROVE  LET s == w.outcomes
               r == Record(w, outcome).outcomes
               n == Filled(Record(w, outcome))
           IN  /\ Filled(w) \in 0..Capacity /\ n = Len(r)
               /\ r[n] = outcome
               /\ \/ /\ Filled(w) = Capacity /\ n = Capacity
                     /\ \A i \in 1..(n - 1) : r[i] = s[i + 1]
                     /\ Record(w, outcome).failures = w.failures - s[1] + outcome
                     /\ s[1] \in Outcome
                  \/ /\ Filled(w) < Capacity /\ n = Filled(w) + 1
                     /\ \A i \in 1..(n - 1) : r[i] = s[i]
                     /\ Record(w, outcome).failures = w.failures + outcome
<1>1. w.outcomes \in Seq(Outcome) /\ w.failures \in Int /\ Len(w.outcomes) <= Capacity
  BY DEF WindowType, WindowConsistent, Filled
<1>2. Capacity \in Nat \ {0}
  BY SlidingWindowAssumption DEF Capacity
<1>3. CASE Len(w.outcomes) = Capacity
  <2>1. w.outcomes # <<>>
    BY <1>1, <1>2, <1>3
  <2>2. /\ Record(w, outcome).outcomes = Append(Tail(w.outcomes), outcome)
        /\ Record(w, outcome).failures = (w.failures - Head(w.outcomes)) + outcome
    BY <1>1, <1>2, <1>3 DEF Record, Push, Evict, Filled
  <2>3. /\ Tail(w.outcomes) \in Seq(Outcome)
        /\ Len(Tail(w.outcomes)) = Capacity - 1
        /\ \A i \in 1..(Capacity - 1) : Tail(w.outcomes)[i] = w.outcomes[i + 1]
        /\ Head(w.outcomes) = w.outcomes[1] /\ w.outcomes[1] \in Outcome
    BY <1>1, <1>2, <1>3, <2>1
  <2>4. QED
    BY <1>1, <1>2, <1>3, <2>2, <2>3 DEF Filled
<1>4. CASE Len(w.outcomes) < Capacity
  <2>1. /\ Record(w, outcome).outcomes = Append(w.outcomes, outcome)
        /\ Record(w, outcome).failures = w.failures + outcome
    BY <1>1, <1>2, <1>4 DEF Record, Push, Filled
  <2>2. QED
    BY <1>1, <1>2, <1>4, <2>1 DEF Filled
<1>5. QED
  BY <1>1, <1>2, <1>3, <1>4

=============================================================================

------------------------- MODULE BackoffDraws_proofs -------------------------
(***************************************************************************)
(* The waits, for every strategy, every float format whose largest power of *)
(* two passes a Duration, and any number of trips: within max, never        *)
(* shrinking, and the ones documented.  And the generator of the jitter, for *)
(* words of any width and any shifts: its step loses no state, so two        *)
(* threads seeded differently never fall into step, and a thread that has    *)
(* drawn never sees the word 0 again.                                       *)
(*                                                                         *)
(* Power, HighBits and Reference are functions defined by recursion.  What   *)
(* they compute is proved from RecursionOnNat, which gives the function, and *)
(* InductionOnSets, both proved here from the well-foundedness of Nat.       *)
(***************************************************************************)
EXTENDS BackoffDraws, WellFoundedInduction, TLAPS

-----------------------------------------------------------------------------
(* Induction and recursion over Nat, for the provers here: a fact to prove   *)
(* by induction is given as the set of the numbers it holds of.              *)

LEMMA InductionOnSets ==
    ASSUME NEW P \in SUBSET Nat, 0 \in P, \A n \in P : n + 1 \in P
    PROVE  P = Nat
<1> SUFFICES ASSUME Nat \ P # {} PROVE FALSE
  OBVIOUS
<1>1. PICK n \in Nat \ P : \A m \in Nat \ P : ~(<<m, n>> \in OpToRel(<, Nat))
  BY NatLessThanWellFounded, WFMin
<1>2. n # 0 /\ n - 1 \in Nat
  OBVIOUS
<1>3. n - 1 \in P
  <2>1. <<n - 1, n>> \in OpToRel(<, Nat)
    BY <1>2 DEF OpToRel
  <2>2. QED
    BY <1>1, <1>2, <2>1
<1>4. (n - 1) + 1 = n
  BY <1>2
<1>5. QED
  BY <1>3, <1>4

\* Definition by recursion: there is a function whose values come each from the one
\* before it.
LEMMA RecursionOnNat ==
    ASSUME NEW first \in Int, NEW step \in [Nat \X Int -> Int]
    PROVE  \E f \in [Nat -> Int] :
             \A n \in Nat : f[n] = IF n = 0 THEN first ELSE step[<<n, f[n - 1]>>]
<1> DEFINE Starts(g, n) ==
             /\ g \in [0..n -> Int] /\ g[0] = first
             /\ \A k \in 1..n : g[k] = step[<<k, g[k - 1]>>]
<1>1. \A n \in Nat : \E g : Starts(g, n)
  <2> DEFINE P == {n \in Nat : \E g : Starts(g, n)}
  <2>1. 0 \in P
    <3>1. Starts([k \in 0..0 |-> first], 0)
      OBVIOUS
    <3>2. QED
      BY <3>1
  <2>2. ASSUME NEW n \in P PROVE n + 1 \in P
    <3>1. PICK g : Starts(g, n)
      OBVIOUS
    <3> DEFINE h == [k \in 0..(n + 1) |-> IF k = n + 1 THEN step[<<n + 1, g[n]>>] ELSE g[k]]
    <3>2. n \in Nat /\ g[n] \in Int
      BY <3>1
    <3>3. step[<<n + 1, g[n]>>] \in Int
      BY <3>2
    <3>4. h \in [0..(n + 1) -> Int]
      BY <3>1, <3>2, <3>3
    <3>5. h[0] = first
      BY <3>1, <3>2
    <3>6. ASSUME NEW k \in 1..(n + 1) PROVE h[k] = step[<<k, h[k - 1]>>]
      <4>1. k - 1 \in 0..(n + 1) /\ k - 1 # n + 1 /\ h[k - 1] = g[k - 1]
        BY <3>2
      <4>2. CASE k = n + 1
        BY <3>2, <4>1, <4>2
      <4>3. CASE k # n + 1
        BY <3>1, <3>2, <4>1, <4>3
      <4>4. QED
        BY <4>2, <4>3
    <3> HIDE DEF h
    <3>7. Starts(h, n + 1)
      BY <3>4, <3>5, <3>6
    <3> HIDE DEF Starts
    <3>8. QED
      BY <3>2, <3>7
  <2>3. P = Nat
    <3> HIDE DEF Starts
    <3> QED BY <2>1, <2>2, InductionOnSets
  <2>4. QED
    BY <2>3
<1>2. ASSUME NEW n \in Nat, NEW m \in Nat, NEW g, NEW h, Starts(g, n), Starts(h, m), NEW j \in 0..n, j <= m
      PROVE  g[j] = h[j]
  <2> DEFINE P == {k \in Nat : k <= n /\ k <= m => g[k] = h[k]}
  <2>1. 0 \in P
    BY <1>2
  <2>2. ASSUME NEW k \in P PROVE k + 1 \in P
    <3>1. SUFFICES ASSUME k + 1 <= n, k + 1 <= m PROVE g[k + 1] = h[k + 1]
      OBVIOUS
    <3>2. g[k] = h[k] /\ k + 1 \in 1..n /\ k + 1 \in 1..m /\ (k + 1) - 1 = k
      BY <3>1
    <3>3. QED
      BY <1>2, <3>2
  <2>3. P = Nat
    BY <2>1, <2>2, InductionOnSets
  <2>4. j \in Nat /\ j <= n /\ j <= m
    BY <1>2
  <2>5. j \in P
    BY <2>3, <2>4
  <2>6. QED
    BY <2>4, <2>5
<1> DEFINE upTo == [n \in Nat |-> CHOOSE g : Starts(g, n)]
           f    == [n \in Nat |-> upTo[n][n]]
<1>3. \A n \in Nat : Starts(upTo[n], n)
  <2> HIDE DEF Starts
  <2> QED BY <1>1
<1> HIDE DEF upTo
<1>4. f \in [Nat -> Int]
  BY <1>3
<1>5. f[0] = first
  BY <1>3
<1>6. ASSUME NEW n \in Nat, n # 0 PROVE f[n] = step[<<n, f[n - 1]>>]
  <2>1. n - 1 \in Nat /\ n - 1 \in 0..n /\ n \in 1..n /\ n - 1 \in 0..(n - 1)
    BY <1>6
  <2>2. Starts(upTo[n], n) /\ Starts(upTo[n - 1], n - 1)
    BY <1>3, <2>1
  <2>3. upTo[n - 1][n - 1] = upTo[n][n - 1]
    <3> HIDE DEF Starts
    <3> QED BY <1>2, <2>1, <2>2
  <2>4. upTo[n][n] = step[<<n, upTo[n][n - 1]>>]
    BY <2>1, <2>2
  <2>5. QED
    BY <2>1, <2>3, <2>4
<1>7. QED
  BY <1>4, <1>5, <1>6

LEMMA MonotoneFromSteps ==
    ASSUME NEW f \in [Nat -> Int], \A n \in Nat : f[n] <= f[n + 1],
           NEW m \in Nat, NEW n \in Nat, m <= n
    PROVE  f[m] <= f[n]
<1> DEFINE P == {k \in Nat : f[m] <= f[m + k]}
<1>1. 0 \in P
  OBVIOUS
<1>2. ASSUME NEW k \in P PROVE k + 1 \in P
  <2>1. f[m + k] <= f[(m + k) + 1] /\ (m + k) + 1 = m + (k + 1)
    OBVIOUS
  <2>2. f[m] \in Int /\ f[m + k] \in Int /\ f[m + (k + 1)] \in Int /\ f[m] <= f[m + k]
    OBVIOUS
  <2>3. QED
    BY <2>1, <2>2
<1>3. P = Nat
  <2> HIDE DEF P
  <2> QED BY <1>1, <1>2, InductionOnSets DEF P
<1>4. n - m \in Nat /\ m + (n - m) = n
  OBVIOUS
<1>5. f[m] <= f[m + (n - m)]
  BY <1>3, <1>4
<1>6. QED
  BY <1>4, <1>5

-----------------------------------------------------------------------------
(* Products and quotients.                                                   *)

LEMMA ProductMonotone ==
    ASSUME NEW a \in Int, NEW b \in Int, NEW c \in Nat, a <= b
    PROVE  a * c <= b * c
OBVIOUS

LEMMA ProductPositive ==
    ASSUME NEW a \in Nat \ {0}, NEW b \in Nat \ {0}
    PROVE  a * b \in Nat \ {0} /\ a <= a * b
OBVIOUS

\* The quotient is the largest number that fits.
LEMMA Quotient ==
    ASSUME NEW x \in Int, NEW d \in Nat \ {0}
    PROVE  /\ x \div d \in Int
           /\ (x \div d) * d <= x
           /\ x < (x \div d) * d + d
OBVIOUS

LEMMA QuotientFits ==
    ASSUME NEW x \in Int, NEW d \in Nat \ {0}, NEW y \in Int
    PROVE  /\ y * d <= x => y <= x \div d
           /\ x < y * d + d => x \div d <= y
OBVIOUS

-----------------------------------------------------------------------------
(* Powers.                                                                   *)

LEMMA PowerStep ==
    ASSUME NEW b \in Int
    PROVE  /\ Power(b, 0) = 1
           /\ \A n \in Nat : Power(b, n) \in Int /\ Power(b, n + 1) = b * Power(b, n)
<1> DEFINE step == [q \in Nat \X Int |-> b * q[2]]
           power == CHOOSE g : g = [k \in Nat |-> IF k = 0 THEN 1 ELSE b * g[k - 1]]
<1>1. PICK f \in [Nat -> Int] :
        \A n \in Nat : f[n] = IF n = 0 THEN 1 ELSE step[<<n, f[n - 1]>>]
  <2>1. step \in [Nat \X Int -> Int] /\ 1 \in Int
    OBVIOUS
  <2> HIDE DEF step
  <2> QED BY <2>1, RecursionOnNat
<1>2. f = [k \in Nat |-> IF k = 0 THEN 1 ELSE b * f[k - 1]]
  <2>1. ASSUME NEW n \in Nat PROVE f[n] = IF n = 0 THEN 1 ELSE b * f[n - 1]
    <3>1. n # 0 => <<n, f[n - 1]>> \in Nat \X Int
      OBVIOUS
    <3>2. QED
      BY <1>1, <3>1
  <2>2. f = [n \in Nat |-> f[n]]
    OBVIOUS
  <2>3. QED
    BY <2>1, <2>2
<1>3. power = [k \in Nat |-> IF k = 0 THEN 1 ELSE b * power[k - 1]]
  BY <1>2
<1>4. \A n \in Nat : Power(b, n) = power[n]
  BY DEF Power
<1> HIDE DEF power
<1>5. power[0] = 1 /\ \A n \in Nat : power[n + 1] = b * power[n]
  BY <1>3
<1> DEFINE P == {n \in Nat : power[n] \in Int}
<1>6. P = Nat
  <2>1. 0 \in P /\ \A n \in P : n + 1 \in P
    BY <1>5
  <2> HIDE DEF P
  <2> QED BY <2>1, InductionOnSets DEF P
<1>7. QED
  BY <1>4, <1>5, <1>6

LEMMA PowerPositive ==
    ASSUME NEW b \in Nat \ {0}, NEW n \in Nat
    PROVE  Power(b, n) \in Nat \ {0}
<1> DEFINE P == {k \in Nat : Power(b, k) \in Nat \ {0}}
<1>1. 0 \in P
  <2>1. b \in Int /\ Power(b, 0) = 1
    BY PowerStep
  <2>2. QED
    BY <2>1
<1>2. ASSUME NEW k \in P PROVE k + 1 \in P
  <2>1. b \in Int /\ k \in Nat /\ Power(b, k) \in Nat \ {0}
    OBVIOUS
  <2>2. Power(b, k + 1) = b * Power(b, k)
    BY <2>1, PowerStep
  <2>3. QED
    BY <2>1, <2>2, ProductPositive
<1>3. P = Nat
  <2> HIDE DEF P
  <2> QED BY <1>1, <1>2, InductionOnSets DEF P
<1>4. QED
  BY <1>3

LEMMA PowerGrows ==
    ASSUME NEW b \in Nat \ {0}, NEW m \in Nat, NEW n \in Nat, m <= n
    PROVE  Power(b, m) <= Power(b, n)
<1> DEFINE f == [k \in Nat |-> Power(b, k)]
<1>1. \A k \in Nat : Power(b, k) \in Nat \ {0}
  BY PowerPositive
<1>2. ASSUME NEW k \in Nat PROVE Power(b, k) <= Power(b, k + 1)
  <2>1. Power(b, k) \in Nat \ {0} /\ Power(b, k + 1) = b * Power(b, k)
    BY <1>1, PowerStep
  <2>2. Power(b, k) <= Power(b, k) * b
    BY <2>1, ProductPositive
  <2>3. QED
    BY <2>1, <2>2
<1>3. f \in [Nat -> Int] /\ \A k \in Nat : f[k] <= f[k + 1]
  BY <1>1, <1>2
<1> HIDE DEF f
<1>4. f[m] <= f[n]
  BY <1>3, MonotoneFromSteps
<1>5. QED
  BY <1>4 DEF f

LEMMA PowerOfTwoLeast ==
    ASSUME NEW b \in Nat, b >= 2, NEW n \in Nat
    PROVE  Power(2, n) <= Power(b, n)
<1> DEFINE P == {k \in Nat : Power(2, k) <= Power(b, k)}
<1>1. 0 \in P
  BY PowerStep
<1>2. ASSUME NEW k \in P PROVE k + 1 \in P
  <2>1. Power(2, k) \in Nat /\ Power(b, k) \in Nat /\ Power(2, k) <= Power(b, k)
    BY PowerPositive
  <2>2. Power(2, k + 1) = 2 * Power(2, k) /\ Power(b, k + 1) = b * Power(b, k)
    BY PowerStep
  <2>3. 2 * Power(2, k) <= 2 * Power(b, k) /\ 2 * Power(b, k) <= b * Power(b, k)
    BY <2>1, ProductMonotone
  <2>4. QED
    BY <2>1, <2>2, <2>3
<1>3. P = Nat
  <2> HIDE DEF P
  <2> QED BY <1>1, <1>2, InductionOnSets DEF P
<1>4. QED
  BY <1>3

LEMMA PowerOfOne ==
    ASSUME NEW n \in Nat
    PROVE  Power(1, n) = 1
<1> DEFINE P == {k \in Nat : Power(1, k) = 1}
<1>1. 0 \in P /\ \A k \in P : k + 1 \in P
  BY PowerStep
<1>2. P = Nat
  <2> HIDE DEF P
  <2> QED BY <1>1, InductionOnSets DEF P
<1>3. QED
  BY <1>2

LEMMA PowerOfZero ==
    ASSUME NEW n \in Nat \ {0}
    PROVE  Power(0, n) = 0
<1>1. n - 1 \in Nat /\ (n - 1) + 1 = n /\ 0 \in Int
  OBVIOUS
<1>2. Power(0, n - 1) \in Int /\ Power(0, (n - 1) + 1) = 0 * Power(0, n - 1)
  BY <1>1, PowerStep
<1>3. QED
  BY <1>1, <1>2

-----------------------------------------------------------------------------
(* The wait of an exponential strategy.                                      *)

LEMMA AsF64Type ==
    ASSUME NEW d \in Durations
    PROVE  /\ d \in Nat /\ AsF64(d) \in Nat
           /\ d <= MaxDuration /\ d <= AsF64(d)
           /\ d < MaxDuration => AsF64(d) = d
BY BackoffAssumption DEF Durations, AsF64

LEMMA ExponentType ==
    ASSUME NEW a \in Nat, NEW b \in Nat, a <= b
    PROVE  /\ Exponent(a) \in Nat /\ Exponent(b) \in Nat
           /\ Exponent(a) <= Exponent(b)
           /\ a > 0 /\ a - 1 <= MaxExponent => Exponent(a) = a - 1
           /\ a > 0 /\ MaxExponent <= a - 1 => Exponent(a) = MaxExponent
BY BackoffAssumption DEF Exponent, Smaller

LEMMA PowersOfFactor ==
    ASSUME NEW f \in Fractions, NEW e \in Nat
    PROVE  /\ f.num \in Int /\ f.den \in Nat \ {0}
           /\ Power(f.num, e) \in Int /\ Power(f.num, e + 1) = f.num * Power(f.num, e)
           /\ Power(f.den, e) \in Nat \ {0} /\ Power(f.den, e + 1) = f.den * Power(f.den, e)
           /\ Overflow * Power(f.den, e) \in Nat \ {0}
<1>1. f.num \in Int /\ f.den \in Nat \ {0} /\ f.den \in Int
  BY DEF Fractions
<1>2. /\ Power(f.num, e) \in Int /\ Power(f.num, e + 1) = f.num * Power(f.num, e)
      /\ Power(f.den, e + 1) = f.den * Power(f.den, e)
  BY <1>1, PowerStep
<1>3. Power(f.den, e) \in Nat \ {0}
  BY <1>1, PowerPositive
<1>4. Overflow * Power(f.den, e) \in Nat \ {0}
  BY <1>3, BackoffAssumption, ProductPositive
<1>5. QED
  BY <1>1, <1>2, <1>3, <1>4

LEMMA GrownType ==
    ASSUME NEW i \in Durations, NEW m \in Durations, NEW f \in Fractions, NEW e \in Nat
    PROVE  Grown(i, m, f, e) \in Int /\ Grown(i, m, f, e) <= AsF64(m)
<1> DEFINE x == AsF64(i) * Power(f.num, e)
           d == Power(f.den, e)
<1>1. x \in Int /\ d \in Nat \ {0} /\ AsF64(m) \in Nat
  BY AsF64Type, PowersOfFactor
<1> HIDE DEF x, d
<1>2. x \div d \in Int
  BY <1>1, Quotient
<1>3. \/ Grown(i, m, f, e) = AsF64(m)
      \/ Grown(i, m, f, e) = Smaller(x \div d, AsF64(m))
  BY DEF Grown, x, d
<1>4. QED
  BY <1>1, <1>2, <1>3 DEF Smaller

\* The circuit waits no longer than max, and cannot wait at all only if max is
\* Duration::MAX.
THEOREM WaitWithinMax ==
    ASSUME NEW i \in Durations, NEW m \in Durations, NEW f \in Fractions, NEW n \in Nat
    PROVE  \/ ExponentialWait(i, m, f, n) \in 0..m
           \/ ExponentialWait(i, m, f, n) = Panic /\ m = MaxDuration
<1>1. Exponent(n) \in Nat
  BY ExponentType
<1> DEFINE g == Grown(i, m, f, Exponent(n))
<1>2. g \in Int /\ g <= AsF64(m)
  BY <1>1, GrownType
<1>3. ExponentialWait(i, m, f, n) = FromF64(Larger(g, 0))
  BY DEF ExponentialWait
<1> HIDE DEF g
<1>4. QED
  BY <1>2, <1>3, AsF64Type, BackoffAssumption DEF FromF64, Larger, Panic

\* One more factor of at least 1 makes the product no smaller, before the overflow,
\* at it and past it.
LEMMA GrownStep ==
    ASSUME NEW i \in Durations, NEW m \in Durations, NEW f \in Fractions, f.num >= f.den,
           NEW e \in Nat
    PROVE  Grown(i, m, f, e) <= Grown(i, m, f, e + 1)
<1> DEFINE n1 == Power(f.num, e)
           d1 == Power(f.den, e)
           n2 == Power(f.num, e + 1)
           d2 == Power(f.den, e + 1)
           c  == AsF64(i)
           q  == (c * n1) \div d1
<1>1. /\ f.num \in Nat \ {0} /\ f.den \in Nat \ {0}
      /\ n1 \in Nat \ {0} /\ n2 \in Nat \ {0} /\ d1 \in Nat \ {0} /\ d2 \in Nat \ {0}
      /\ n2 = f.num * n1 /\ d2 = f.den * d1
  <2>1. /\ f.num \in Int /\ f.den \in Nat \ {0} /\ d1 \in Nat \ {0}
        /\ n2 = f.num * n1 /\ d2 = f.den * d1
    BY PowersOfFactor
  <2>2. f.num \in Nat \ {0} /\ e + 1 \in Nat
    BY <2>1
  <2>3. n1 \in Nat \ {0} /\ n2 \in Nat \ {0} /\ d2 \in Nat \ {0}
    BY <2>1, <2>2, PowerPositive
  <2>4. QED
    BY <2>1, <2>2, <2>3
<1>2. c \in Nat /\ AsF64(m) \in Nat /\ Overflow \in Nat \ {0}
  BY AsF64Type, BackoffAssumption
<1>3. c * n1 \in Int /\ c * n2 \in Int
  BY <1>1, <1>2
<1> HIDE DEF n1, d1, n2, d2, c
<1>4. n1 >= Overflow * d1 => n2 >= Overflow * d2
  <2>1. SUFFICES ASSUME Overflow * d1 <= n1 PROVE Overflow * d2 <= n2
    BY <1>1, <1>2
  <2>2. (Overflow * d1) * f.den <= n1 * f.den
    BY <1>1, <1>2, <2>1, ProductMonotone
  <2>3. f.den * n1 <= f.num * n1
    BY <1>1, ProductMonotone
  <2>4. QED
    BY <1>1, <1>2, <2>2, <2>3
<1>5. q \in Int /\ q * d1 <= c * n1
  BY <1>1, <1>3, Quotient
<1> HIDE DEF q
<1>6. q <= (c * n2) \div d2
  <2>1. (q * d1) * f.den <= (c * n1) * f.den
    BY <1>1, <1>3, <1>5, ProductMonotone
  <2>2. f.den * (c * n1) <= f.num * (c * n1)
    BY <1>1, <1>2, ProductMonotone
  <2>3. q * d2 <= c * n2
    BY <1>1, <1>2, <1>5, <2>1, <2>2
  <2>4. QED
    BY <1>1, <1>3, <1>5, <2>3, QuotientFits
<1>7. (c * n2) \div d2 \in Int
  BY <1>1, <1>3, Quotient
<1>8. /\ Grown(i, m, f, e) =
           IF n1 >= Overflow * d1 \/ (i = 0 /\ -n1 >= Overflow * d1) THEN AsF64(m)
           ELSE Smaller(q, AsF64(m))
      /\ Grown(i, m, f, e + 1) =
           IF n2 >= Overflow * d2 \/ (i = 0 /\ -n2 >= Overflow * d2) THEN AsF64(m)
           ELSE Smaller((c * n2) \div d2, AsF64(m))
  BY DEF Grown, n1, d1, n2, d2, c, q
<1>9. Overflow * d1 \in Nat /\ Overflow * d2 \in Nat
  BY <1>1, <1>2
<1>10. QED
  BY <1>1, <1>2, <1>4, <1>5, <1>6, <1>7, <1>8, <1>9 DEF Smaller

\* REQ-BRK-023: with a factor of at least 1 no later trip waits less, however many
\* trips apart, and once the circuit cannot wait it never can again.
THEOREM ExponentialNeverShrinks ==
    ASSUME NEW i \in Durations, NEW m \in Durations, NEW f \in Fractions, f.num >= f.den,
           NEW a \in Nat, NEW b \in Nat, a <= b
    PROVE  \/ ExponentialWait(i, m, f, b) = Panic
           \/ ExponentialWait(i, m, f, a) \in 0..ExponentialWait(i, m, f, b)
<1> DEFINE g == [e \in Nat |-> Grown(i, m, f, e)]
<1>1. g \in [Nat -> Int] /\ \A e \in Nat : g[e] <= g[e + 1]
  BY GrownType, GrownStep
<1>2. Exponent(a) \in Nat /\ Exponent(b) \in Nat /\ Exponent(a) <= Exponent(b)
  BY ExponentType
<1>3. /\ ExponentialWait(i, m, f, a) = FromF64(Larger(g[Exponent(a)], 0))
      /\ ExponentialWait(i, m, f, b) = FromF64(Larger(g[Exponent(b)], 0))
  BY <1>2 DEF ExponentialWait
<1> HIDE DEF g
<1>4. g[Exponent(a)] <= g[Exponent(b)] /\ g[Exponent(a)] \in Int /\ g[Exponent(b)] \in Int
  BY <1>1, <1>2, MonotoneFromSteps
<1>5. QED
  BY <1>3, <1>4, BackoffAssumption DEF FromF64, Larger, Panic

-----------------------------------------------------------------------------
(* The documented growth.                                                    *)

LEMMA ReferenceStep ==
    ASSUME NEW i \in Int, NEW m \in Int, NEW c \in Int
    PROVE  /\ Reference(i, m, c, 1) = Smaller(i, m)
           /\ \A k \in Nat :
                /\ Reference(i, m, c, k + 1) \in Int
                /\ Reference(i, m, c, k + 2) = Smaller(Reference(i, m, c, k + 1) * c, m)
<1> DEFINE step  == [q \in Nat \X Int |-> Smaller(q[2] * c, m)]
           grown == CHOOSE g : g = [k \in Nat |-> IF k = 0 THEN Smaller(i, m)
                                                  ELSE Smaller(g[k - 1] * c, m)]
<1>1. PICK f \in [Nat -> Int] :
        \A n \in Nat : f[n] = IF n = 0 THEN Smaller(i, m) ELSE step[<<n, f[n - 1]>>]
  <2>1. step \in [Nat \X Int -> Int] /\ Smaller(i, m) \in Int
    BY DEF Smaller
  <2> HIDE DEF step
  <2> QED BY <2>1, RecursionOnNat
<1>2. f = [k \in Nat |-> IF k = 0 THEN Smaller(i, m) ELSE Smaller(f[k - 1] * c, m)]
  <2>1. ASSUME NEW n \in Nat
        PROVE  f[n] = IF n = 0 THEN Smaller(i, m) ELSE Smaller(f[n - 1] * c, m)
    <3>1. n # 0 => <<n, f[n - 1]>> \in Nat \X Int
      OBVIOUS
    <3>2. QED
      BY <1>1, <3>1
  <2>2. f = [n \in Nat |-> f[n]]
    OBVIOUS
  <2>3. QED
    BY <2>1, <2>2
<1>3. grown = [k \in Nat |-> IF k = 0 THEN Smaller(i, m) ELSE Smaller(grown[k - 1] * c, m)]
  BY <1>2
<1>4. \A n \in Int : Reference(i, m, c, n) = grown[n - 1]
  BY DEF Reference
<1> HIDE DEF grown
<1>5. grown[0] = Smaller(i, m) /\ \A k \in Nat : grown[k + 1] = Smaller(grown[k] * c, m)
  BY <1>3
<1> DEFINE P == {k \in Nat : grown[k] \in Int}
<1>6. P = Nat
  <2>1. 0 \in P /\ \A k \in P : k + 1 \in P
    BY <1>5 DEF Smaller
  <2> HIDE DEF P
  <2> QED BY <2>1, InductionOnSets DEF P
<1>7. ASSUME NEW k \in Nat
      PROVE  Reference(i, m, c, k + 1) = grown[k] /\ Reference(i, m, c, k + 2) = grown[k + 1]
  <2>1. k + 1 \in Int /\ (k + 1) - 1 = k /\ k + 2 \in Int /\ (k + 2) - 1 = k + 1
    OBVIOUS
  <2>2. QED
    BY <1>4, <2>1
<1>8. Reference(i, m, c, 1) = grown[0]
  BY <1>4
<1>9. QED
  BY <1>5, <1>6, <1>7, <1>8

\* Capping once per trip or once at the end is the same.
LEMMA ReferenceClosed ==
    ASSUME NEW i \in Nat, NEW m \in Nat, NEW c \in Nat, NEW n \in Nat
    PROVE  Reference(i, m, c, n + 1) = Smaller(i * Power(c, n), m)
<1> DEFINE P == {k \in Nat : Reference(i, m, c, k + 1) = Smaller(i * Power(c, k), m)}
<1>1. 0 \in P
  <2>1. Reference(i, m, c, 0 + 1) = Smaller(i, m) /\ i * Power(c, 0) = i
    BY ReferenceStep, PowerStep
  <2>2. QED
    BY <2>1
<1>2. ASSUME NEW k \in P PROVE k + 1 \in P
  <2> DEFINE r == Reference(i, m, c, k + 1)
             x == i * Power(c, k)
  <2>1. k \in Nat /\ c \in Int /\ r = Smaller(x, m)
    OBVIOUS
  <2>2. Power(c, k) \in Nat
    <3>1. CASE c = 0
      <4>1. k # 0 => Power(0, k) = 0
        BY <2>1, PowerOfZero
      <4>2. Power(0, 0) = 1
        BY PowerStep
      <4>3. QED
        BY <3>1, <4>1, <4>2
    <3>2. CASE c # 0
      BY <2>1, <3>2, PowerPositive
    <3>3. QED
      BY <3>1, <3>2
  <2>3. x \in Nat
    BY <2>2
  <2>4. Reference(i, m, c, k + 2) = Smaller(r * c, m)
    BY <2>1, ReferenceStep
  <2>5. i * Power(c, k + 1) = x * c
    <3>1. Power(c, k + 1) = c * Power(c, k)
      BY <2>1, PowerStep
    <3>2. QED
      BY <2>1, <2>2, <3>1
  <2> HIDE DEF r, x
  <2>6. Smaller(r * c, m) = Smaller(x * c, m)
    <3>1. CASE x <= m
      BY <2>1, <2>3, <3>1 DEF Smaller
    <3>2. CASE m < x
      <4>1. r = m
        BY <2>1, <2>3, <3>2 DEF Smaller
      <4>2. m * c <= x * c /\ (c # 0 => m <= m * c)
        BY <2>3, <3>2, ProductMonotone
      <4>3. m * c \in Nat /\ x * c \in Nat /\ (c = 0 => m * c = x * c)
        BY <2>3
      <4>4. QED
        BY <4>1, <4>2, <4>3 DEF Smaller
    <3>3. QED
      BY <2>3, <3>1, <3>2
  <2>7. (k + 1) + 1 = k + 2
    OBVIOUS
  <2>8. QED
    BY <2>1, <2>4, <2>5, <2>6, <2>7
<1>3. P = Nat
  <2> HIDE DEF P
  <2> QED BY <1>1, <1>2, InductionOnSets DEF P
<1>4. QED
  BY <1>3

\* The cap on the exponent changes nothing: a whole factor is 0, 1, or overflows
\* before it.
LEMMA CapHarmless ==
    ASSUME NEW i \in Nat \ {0}, NEW m \in Nat, m < MaxDuration, NEW c \in Nat,
           NEW n \in Nat \ {0}
    PROVE  /\ Power(c, Exponent(n)) \in Nat
           /\ Smaller(i * Power(c, Exponent(n)), m) = Smaller(i * Power(c, n - 1), m)
<1> DEFINE e == Exponent(n)
           k == n - 1
<1>1. /\ e \in Nat /\ k \in Nat /\ c \in Int
      /\ k <= MaxExponent => e = k
      /\ MaxExponent <= k => e = MaxExponent
      /\ MaxExponent \in Nat /\ MaxDuration \in Nat /\ Overflow \in Nat /\ MaxDuration < Overflow
  BY ExponentType, BackoffAssumption, FloatAssumption
<1>2. Power(2, MaxExponent) \in Nat /\ Overflow <= Power(2, MaxExponent)
  BY <1>1, PowerPositive, FloatAssumption
<1>3. MaxExponent # 0
  <2>1. Power(2, 0) = 1
    BY PowerStep
  <2>2. QED
    BY <1>1, <1>2, <2>1
<1> HIDE DEF e, k
<1>4. CASE c = 0
  <2>1. Power(0, 0) = 1 /\ (e # 0 => Power(0, e) = 0) /\ (k # 0 => Power(0, k) = 0)
    BY <1>1, PowerStep, PowerOfZero
  <2>2. Power(c, e) = Power(c, k) /\ Power(c, e) \in Nat
    BY <1>1, <1>3, <1>4, <2>1
  <2>3. QED
    BY <2>2 DEF e, k
<1>5. CASE c = 1
  <2>1. Power(1, e) = 1 /\ Power(1, k) = 1
    BY <1>1, PowerOfOne
  <2>2. QED
    BY <1>5, <2>1 DEF e, k
<1>6. CASE c >= 2
  <2>1. c \in Nat \ {0}
    BY <1>6
  <2>2. Power(c, e) \in Nat \ {0} /\ Power(c, k) \in Nat \ {0}
    BY <1>1, <2>1, PowerPositive
  <2>3. CASE k <= MaxExponent
    BY <1>1, <2>2, <2>3 DEF e, k
  <2>4. CASE MaxExponent < k
    <3>1. e = MaxExponent /\ e <= k
      BY <1>1, <2>4
    <3>2. Power(2, e) <= Power(c, e) /\ Power(c, e) <= Power(c, k)
      BY <1>1, <1>6, <2>1, <3>1, PowerOfTwoLeast, PowerGrows
    <3>3. m < Power(c, e) /\ m < Power(c, k)
      BY <1>1, <1>2, <2>2, <3>1, <3>2
    <3>4. Power(c, e) <= Power(c, e) * i /\ Power(c, k) <= Power(c, k) * i
      BY <2>2, ProductPositive
    <3>5. m < i * Power(c, e) /\ m < i * Power(c, k)
      BY <2>2, <3>3, <3>4
    <3>6. QED
      BY <2>2, <3>5 DEF Smaller, e, k
  <2>5. QED
    BY <1>1, <2>3, <2>4
<1>7. QED
  BY <1>4, <1>5, <1>6

\* Nor does the overflow.
LEMMA OverflowHarmless ==
    ASSUME NEW i \in Durations \ {0}, NEW m \in Durations, m < MaxDuration,
           NEW f \in Fractions, f.den = 1, NEW e \in Nat, Power(f.num, e) \in Nat
    PROVE  Grown(i, m, f, e) = Smaller(i * Power(f.num, e), m)
<1> DEFINE p == Power(f.num, e)
           c == AsF64(i)
<1>1. /\ i \in Nat \ {0} /\ c \in Nat /\ i <= MaxDuration /\ i <= c
      /\ i < MaxDuration => c = i
      /\ m \in Nat /\ AsF64(m) = m
      /\ Overflow \in Nat /\ MaxDuration \in Nat /\ MaxDuration < Overflow
  BY AsF64Type, BackoffAssumption, FloatAssumption
<1>2. Power(f.den, e) = 1
  BY PowerOfOne
<1>3. p \in Nat
  OBVIOUS
<1>4. Grown(i, m, f, e) = IF p >= Overflow * 1 \/ (i = 0 /\ -p >= Overflow * 1) THEN m
                          ELSE Smaller((c * p) \div 1, m)
  BY <1>1, <1>2 DEF Grown
<1> HIDE DEF p, c
<1>5. c * p \in Nat /\ (c * p) \div 1 = c * p /\ i * p \in Nat
  BY <1>1, <1>3
<1>6. Grown(i, m, f, e) = IF p >= Overflow THEN m ELSE Smaller(c * p, m)
  BY <1>1, <1>3, <1>4, <1>5
<1>7. CASE p >= Overflow
  <2>1. p <= p * i
    BY <1>1, <1>3, <1>7, ProductPositive
  <2>2. m < i * p
    BY <1>1, <1>3, <1>5, <1>7, <2>1
  <2>3. QED
    BY <1>1, <1>5, <1>6, <1>7, <2>2 DEF Smaller, p
<1>8. CASE p < Overflow /\ i < MaxDuration
  BY <1>1, <1>3, <1>6, <1>8 DEF p
<1>9. CASE p < Overflow /\ i = MaxDuration
  <2>1. CASE p = 0
    BY <1>1, <1>3, <1>6, <1>9, <2>1 DEF p
  <2>2. CASE p # 0
    <3>1. i <= i * p /\ i * p <= c * p
      BY <1>1, <1>3, <2>2, ProductPositive, ProductMonotone
    <3>2. m < i * p /\ m < c * p
      BY <1>1, <1>5, <1>9, <3>1
    <3>3. QED
      BY <1>1, <1>3, <1>5, <1>6, <1>9, <3>2 DEF Smaller, p
  <2>3. QED
    BY <2>1, <2>2
<1>10. QED
  BY <1>1, <1>3, <1>7, <1>8, <1>9

\* The wait of a whole factor is the documented one at every trip, for any number of
\* trips and any f64 that passes every Duration.
THEOREM WaitIsDocumented ==
    ASSUME NEW i \in Durations \ {0}, NEW m \in Durations, m < MaxDuration,
           NEW f \in Fractions, f.den = 1, f.num >= 0, NEW n \in Nat \ {0}
    PROVE  ExponentialWait(i, m, f, n) = Reference(i, m, f.num, n)
<1> DEFINE c == f.num
           e == Exponent(n)
           k == n - 1
           g == Grown(i, m, f, e)
<1>1. /\ c \in Nat /\ i \in Nat \ {0} /\ m \in Nat /\ MaxDuration \in Nat
      /\ k \in Nat /\ k + 1 = n /\ e \in Nat
  BY ExponentType, BackoffAssumption DEF Fractions, Durations
<1> HIDE DEF c
<1>2. Power(c, e) \in Nat /\ Smaller(i * Power(c, e), m) = Smaller(i * Power(c, k), m)
  BY <1>1, CapHarmless, SMTT(60)
<1> HIDE DEF e, k
<1>3. Reference(i, m, c, k + 1) = Smaller(i * Power(c, k), m)
  BY <1>1, ReferenceClosed
<1>4. g = Smaller(i * Power(c, e), m)
  BY <1>1, <1>2, OverflowHarmless DEF c
<1>5. g \in Nat /\ g <= m /\ g = Reference(i, m, c, n)
  <2>1. i * Power(c, e) \in Nat
    BY <1>1, <1>2
  <2>2. QED
    BY <1>1, <1>2, <1>3, <1>4, <2>1 DEF Smaller
<1>6. ExponentialWait(i, m, f, n) = FromF64(Larger(g, 0))
  BY DEF ExponentialWait, e
<1> HIDE DEF g
<1>7. QED
  BY <1>1, <1>5, <1>6 DEF FromF64, Larger, c

-----------------------------------------------------------------------------
(* The generator.                                                            *)

\* A word other than 0 has a lowest bit and a highest bit.
LEMMA LowestBit ==
    ASSUME NEW x \in Words, x # {}
    PROVE  \E b \in x : \A c \in x : b <= c
<1>1. x \subseteq Nat
  BY GeneratorAssumption DEF Words, Bits
<1>2. PICK b \in x : \A c \in x : ~(<<c, b>> \in OpToRel(<, Nat))
  BY <1>1, NatLessThanWellFounded, WFMin
<1>3. \A c \in x : ~(c < b)
  BY <1>1, <1>2 DEF OpToRel
<1>4. QED
  BY <1>1, <1>3

LEMMA HighestBit ==
    ASSUME NEW x \in Words, x # {}
    PROVE  \E b \in x : \A c \in x : c <= b
<1> DEFINE mirrored == {b \in Bits : Width - 1 - b \in x}
<1>1. mirrored \in Words
  BY DEF Words
<1>2. \A b \in x : Width - 1 - b \in mirrored
  BY GeneratorAssumption DEF Words, Bits
<1>3. PICK b \in mirrored : \A c \in mirrored : b <= c
  BY <1>1, <1>2, LowestBit
<1>4. Width - 1 - b \in x /\ \A c \in x : c <= Width - 1 - b
  BY <1>2, <1>3, GeneratorAssumption DEF Words, Bits
<1>5. QED
  BY <1>4

\* Where two words differ, so do the words they are shifted onto.
LEMMA ShiftUpLosesNothing ==
    ASSUME NEW x \in Words, NEW y \in Words, NEW n \in Nat \ {0},
           Xor(x, Left(x, n)) = Xor(y, Left(y, n))
    PROVE  x = y
<1> SUFFICES ASSUME Xor(x, y) # {} PROVE FALSE
  BY DEF Xor
<1>1. Xor(x, y) \in Words
  BY DEF Xor, Words
<1>2. PICK b \in Xor(x, y) : \A c \in Xor(x, y) : b <= c
  BY <1>1, LowestBit
<1>3. b \in Bits /\ b \in Int
  BY <1>1 DEF Words, Bits
<1>4. b - n \notin Xor(x, y)
  BY <1>2, <1>3
<1>5. b \in Left(x, n) <=> b \in Left(y, n)
  BY <1>3, <1>4 DEF Left, Xor
<1>6. QED
  BY <1>2, <1>5 DEF Xor

LEMMA ShiftDownLosesNothing ==
    ASSUME NEW x \in Words, NEW y \in Words, NEW n \in Nat \ {0},
           Xor(x, Right(x, n)) = Xor(y, Right(y, n))
    PROVE  x = y
<1> SUFFICES ASSUME Xor(x, y) # {} PROVE FALSE
  BY DEF Xor
<1>1. Xor(x, y) \in Words
  BY DEF Xor, Words
<1>2. PICK b \in Xor(x, y) : \A c \in Xor(x, y) : c <= b
  BY <1>1, HighestBit
<1>3. b \in Bits /\ b \in Int
  BY <1>1 DEF Words, Bits
<1>4. b + n \notin Xor(x, y)
  BY <1>2, <1>3
<1>5. b \in Right(x, n) <=> b \in Right(y, n)
  BY <1>3, <1>4 DEF Right, Xor
<1>6. QED
  BY <1>2, <1>5 DEF Xor

\* The words stay words.
LEMMA ShiftType ==
    ASSUME NEW x \in Words, NEW n \in Nat
    PROVE  Xor(x, Left(x, n)) \in Words /\ Xor(x, Right(x, n)) \in Words
BY DEF Words, Xor, Left, Right

LEMMA XorShiftType ==
    ASSUME NEW x \in Words
    PROVE  XorShift(x) \in Words
<1> DEFINE y == Xor(x, Left(x, FirstUp))
           z == Xor(y, Right(y, ThenDown))
<1>1. y \in Words
  BY ShiftType, GeneratorAssumption
<1>2. z \in Words
  BY <1>1, ShiftType, GeneratorAssumption
<1>3. Xor(z, Left(z, ThenUp)) \in Words
  BY <1>2, ShiftType, GeneratorAssumption
<1>4. QED
  BY <1>3 DEF XorShift

\* A step of the generator loses no state: threads whose generators are at different
\* words, as those seeded from readings of the clock that differ above the lowest
\* bit are, never fall into step, which is what the jitter is for.
THEOREM XorShiftInjective ==
    ASSUME NEW x \in Words, NEW y \in Words, XorShift(x) = XorShift(y)
    PROVE  x = y
<1> DEFINE x1 == Xor(x, Left(x, FirstUp))
           x2 == Xor(x1, Right(x1, ThenDown))
           y1 == Xor(y, Left(y, FirstUp))
           y2 == Xor(y1, Right(y1, ThenDown))
<1>1. x1 \in Words /\ y1 \in Words
  BY ShiftType, GeneratorAssumption
<1>2. x2 \in Words /\ y2 \in Words
  BY <1>1, ShiftType, GeneratorAssumption
<1>3. Xor(x2, Left(x2, ThenUp)) = Xor(y2, Left(y2, ThenUp))
  BY DEF XorShift
<1> HIDE DEF x2, y2
<1>4. x2 = y2
  BY <1>2, <1>3, ShiftUpLosesNothing, GeneratorAssumption
<1> HIDE DEF x1, y1
<1>5. x1 = y1
  BY <1>1, <1>4, ShiftDownLosesNothing, GeneratorAssumption DEF x2, y2
<1>6. QED
  BY <1>5, ShiftUpLosesNothing, GeneratorAssumption DEF x1, y1

\* In particular no word but 0 leads to 0.
LEMMA XorShiftNonzero ==
    ASSUME NEW x \in Words, x # {}
    PROVE  XorShift(x) # {}
<1>1. XorShift({}) = {}
  BY DEF XorShift, Xor, Left, Right
<1>2. {} \in Words
  BY DEF Words
<1>3. QED
  BY <1>1, <1>2, XorShiftInjective

-----------------------------------------------------------------------------
(* The draw.                                                                 *)

LEMMA HighBitsStep ==
    ASSUME NEW x
    PROVE  /\ HighBits(x, 0) = 0
           /\ \A n \in Nat : /\ HighBits(x, n) \in Int
                             /\ HighBits(x, n + 1) =
                                  2 * HighBits(x, n) + (IF Width - (n + 1) \in x THEN 1 ELSE 0)
<1> DEFINE bit(k) == IF Width - k \in x THEN 1 ELSE 0
           step  == [q \in Nat \X Int |-> 2 * q[2] + bit(q[1])]
           value == CHOOSE g : g = [k \in Nat |-> IF k = 0 THEN 0 ELSE 2 * g[k - 1] + bit(k)]
<1>1. \A k : bit(k) \in Int
  OBVIOUS
<1>2. \A n \in Nat : HighBits(x, n) = value[n]
  BY DEF HighBits
<1> HIDE DEF bit
<1>3. PICK f \in [Nat -> Int] :
        \A n \in Nat : f[n] = IF n = 0 THEN 0 ELSE step[<<n, f[n - 1]>>]
  <2>1. step \in [Nat \X Int -> Int] /\ 0 \in Int
    BY <1>1
  <2> HIDE DEF step
  <2> QED BY <2>1, RecursionOnNat
<1>4. f = [k \in Nat |-> IF k = 0 THEN 0 ELSE 2 * f[k - 1] + bit(k)]
  <2>1. ASSUME NEW n \in Nat PROVE f[n] = IF n = 0 THEN 0 ELSE 2 * f[n - 1] + bit(n)
    <3>1. n # 0 => <<n, f[n - 1]>> \in Nat \X Int
      OBVIOUS
    <3>2. QED
      BY <1>3, <3>1
  <2>2. f = [n \in Nat |-> f[n]]
    OBVIOUS
  <2>3. QED
    BY <2>1, <2>2
<1>5. value = [k \in Nat |-> IF k = 0 THEN 0 ELSE 2 * value[k - 1] + bit(k)]
  BY <1>4
<1> HIDE DEF value
<1>6. value[0] = 0 /\ \A n \in Nat : value[n + 1] = 2 * value[n] + bit(n + 1)
  BY <1>5
<1> DEFINE P == {n \in Nat : value[n] \in Int}
<1>7. P = Nat
  <2>1. 0 \in P /\ \A n \in P : n + 1 \in P
    BY <1>1, <1>6
  <2> HIDE DEF P
  <2> QED BY <2>1, InductionOnSets DEF P
<1>8. QED
  <2>1. ASSUME NEW n \in Nat
        PROVE  /\ HighBits(x, n) \in Int
               /\ HighBits(x, n + 1) = 2 * HighBits(x, n) + bit(n + 1)
    <3>1. value[n] \in Int
      BY <1>7
    <3>2. HighBits(x, n) = value[n] /\ HighBits(x, n + 1) = value[n + 1]
      BY <1>2
    <3>3. QED
      BY <1>6, <3>1, <3>2
  <2>2. HighBits(x, 0) = 0
    BY <1>2, <1>6
  <2>3. QED
    BY <2>1, <2>2 DEF bit

LEMMA HighBitsBelow ==
    ASSUME NEW x, NEW n \in Nat
    PROVE  HighBits(x, n) \in 0..(Power(2, n) - 1)
<1> DEFINE P == {k \in Nat : HighBits(x, k) \in 0..(Power(2, k) - 1)}
<1>1. 0 \in P
  BY HighBitsStep, PowerStep
<1>2. ASSUME NEW k \in P PROVE k + 1 \in P
  <2>1. Power(2, k) \in Int /\ Power(2, k + 1) = 2 * Power(2, k)
    BY PowerStep
  <2>2. HighBits(x, k + 1) \in {2 * HighBits(x, k), 2 * HighBits(x, k) + 1}
    <3>1. k \in Nat
      OBVIOUS
    <3>2. HighBits(x, k + 1) = 2 * HighBits(x, k) + (IF Width - (k + 1) \in x THEN 1 ELSE 0)
      BY <3>1, HighBitsStep
    <3>3. QED
      BY <3>2
  <2>3. QED
    BY <2>1, <2>2
<1>3. P = Nat
  <2> HIDE DEF P
  <2> QED BY <1>1, <1>2, InductionOnSets DEF P
<1>4. QED
  BY <1>3

\* jitter_rand is at least 0 and below 1.
THEOREM DrawBelowOne ==
    ASSUME NEW x \in Words
    PROVE  Drawn(x) \in 0..(DrawRange - 1) /\ DrawRange \in Nat \ {0}
<1>1. Width - Dropped \in Nat
  BY GeneratorAssumption
<1>2. QED
  BY <1>1, HighBitsBelow, PowerPositive DEF Drawn, DrawRange

LEMMA PartType ==
    ASSUME NEW j \in Fractions
    PROVE  /\ j.den \in Nat \ {0} /\ j.num \in Int
           /\ Part(j) \in 0..j.den
           /\ j.num <= 0 => Part(j) = 0
BY DEF Fractions, Part, Smaller

\* What a draw leaves of the wait is within the range Waits gives, and all of it
\* where there is no jitter.
LEMMA ScaledWithin ==
    ASSUME NEW base \in Nat, NEW j \in Fractions, NEW draw \in 0..(DrawRange - 1),
           DrawRange \in Nat \ {0}
    PROVE  /\ Scaled(base, j, draw) \in Jittered(base, j)
           /\ j.num <= 0 => Scaled(base, j, draw) = base
<1> DEFINE den   == j.den * DrawRange
           scale == den - Part(j) * draw
           x     == 2 * base * scale + den
<1>1. /\ j.den \in Nat \ {0} /\ Part(j) \in Nat /\ Part(j) <= j.den
      /\ DrawRange \in Nat \ {0} /\ draw \in Nat /\ draw <= DrawRange
      /\ j.num <= 0 => Part(j) = 0
  BY PartType
<1>2. den \in Nat \ {0}
  BY <1>1, ProductPositive
<1>3. /\ Part(j) * draw \in Nat /\ Part(j) * DrawRange \in Nat
      /\ Part(j) * draw <= Part(j) * DrawRange
      /\ Part(j) * DrawRange <= den
  <2>1. draw * Part(j) <= DrawRange * Part(j) /\ Part(j) * DrawRange <= j.den * DrawRange
    BY <1>1, ProductMonotone
  <2>2. QED
    BY <1>1, <2>1
<1>4. scale \in Nat /\ scale <= den /\ den - Part(j) * DrawRange <= scale
  BY <1>2, <1>3
<1>5. Scaled(base, j, draw) = x \div (2 * den)
  BY <1>4 DEF Scaled
<1> DEFINE kept == base * (j.den - Part(j))
<1>6. kept \in Nat /\ kept * DrawRange = base * (den - Part(j) * DrawRange)
  BY <1>1
<1> HIDE DEF den, scale
<1>7. base * scale \in Nat /\ base * scale <= base * den /\ kept * DrawRange <= base * scale
  <2>1. scale * base <= den * base /\ (den - Part(j) * DrawRange) * base <= scale * base
    BY <1>2, <1>3, <1>4, ProductMonotone
  <2>2. QED
    BY <1>2, <1>3, <1>4, <1>6, <2>1
<1>8. x \in Int /\ 2 * den \in Nat \ {0} /\ x = 2 * (base * scale) + den
  BY <1>2, <1>4, <1>7
<1>9. x \div (2 * den) <= base
  <2>1. x < base * (2 * den) + 2 * den
    BY <1>2, <1>7, <1>8
  <2> HIDE DEF x
  <2> QED BY <1>8, <2>1, QuotientFits
<1>10. kept \div j.den <= x \div (2 * den)
  <2> HIDE DEF kept
  <2> DEFINE q == kept \div j.den
  <2>1. q \in Int /\ q * j.den <= kept
    <3>1. kept \in Int /\ j.den \in Nat \ {0}
      BY <1>1, <1>6
    <3>2. QED
      BY <3>1, Quotient
  <2> HIDE DEF q
  <2>2. (q * j.den) * DrawRange <= kept * DrawRange
    BY <1>1, <1>6, <2>1, ProductMonotone
  <2>3. (q * j.den) * DrawRange = q * den
    BY <1>1, <2>1 DEF den
  <2>4. q * (2 * den) <= x
    BY <1>2, <1>6, <1>7, <1>8, <2>1, <2>2, <2>3
  <2> HIDE DEF x
  <2>5. q <= x \div (2 * den)
    BY <1>8, <2>1, <2>4, QuotientFits
  <2>6. QED
    BY <2>5 DEF q
<1>11. j.num <= 0 => x \div (2 * den) = base
  <2>1. SUFFICES ASSUME j.num <= 0 PROVE base <= x \div (2 * den)
    BY <1>8, <1>9, Quotient
  <2>2. scale = den
    BY <1>1, <1>2, <2>1 DEF scale
  <2>3. base * (2 * den) <= x
    BY <1>2, <1>8, <2>2
  <2> HIDE DEF x
  <2>4. QED
    BY <1>8, <2>3, QuotientFits
<1>12. x \div (2 * den) \in Int /\ kept \div j.den \in Int
  <2> HIDE DEF x, kept
  <2>1. x \div (2 * den) \in Int
    BY <1>8, Quotient
  <2>2. kept \in Int /\ j.den \in Nat \ {0}
    BY <1>1, <1>6
  <2>3. QED
    BY <2>1, <2>2, Quotient
<1>13. QED
  BY <1>5, <1>9, <1>10, <1>11, <1>12 DEF Jittered

-----------------------------------------------------------------------------
(* The trips of a circuit.                                                   *)

\* Whatever the clock reads when a thread first draws, and however often the circuit
\* trips, its generator never returns to 0.
THEOREM GeneratorAlwaysSeeded == Spec => []GeneratorSeeded
<1>1. Init => GeneratorSeeded
  BY DEF Init, GeneratorSeeded, Words
<1>2. GeneratorSeeded /\ [Next]_vars => GeneratorSeeded'
  <2> SUFFICES ASSUME GeneratorSeeded, [Next]_vars PROVE GeneratorSeeded'
    OBVIOUS
  <2>1. rng \in Words
    BY DEF GeneratorSeeded
  <2>2. CASE UNCHANGED vars
    BY <2>2 DEF vars, GeneratorSeeded, Draws, Base
  <2>3. CASE Next
    <3>1. UNCHANGED strategy /\ WaitFor(attempt')
      BY <2>3 DEF Next
    <3>2. Draws(attempt)' <=> Draws(attempt')
      BY <3>1 DEF Draws, Base
    <3>3. CASE Draws(attempt')
      <4>1. PICK now \in Words : rng' = XorShift(IF rng = {} THEN Seed(now) ELSE rng)
        BY <3>1, <3>3 DEF WaitFor
      <4>2. Seed(now) \in Words /\ Seed(now) # {}
        BY <4>1, GeneratorAssumption DEF Seed, Words, Bits
      <4>3. QED
        BY <2>1, <4>1, <4>2, XorShiftType, XorShiftNonzero DEF GeneratorSeeded
    <3>4. CASE ~Draws(attempt')
      BY <2>1, <3>1, <3>2, <3>4 DEF WaitFor, GeneratorSeeded
    <3>5. QED
      BY <3>3, <3>4
  <2>4. QED
    BY <2>2, <2>3
<1>3. QED
  BY <1>1, <1>2, PTL DEF Spec

\* The strategy is one the builder accepts, and stays the circuit's.
LEMMA StrategyLegal == Spec => [](strategy \in BackoffStrategy /\ attempt \in 0..LastAttempt)
<1>1. Init => strategy \in BackoffStrategy /\ attempt \in 0..LastAttempt
  BY StrategyAssumption, GeneratorAssumption DEF Init
<1>2. strategy \in BackoffStrategy /\ attempt \in 0..LastAttempt /\ [Next]_vars
        => (strategy \in BackoffStrategy /\ attempt \in 0..LastAttempt)'
  BY GeneratorAssumption DEF Next, vars, Smaller
<1>3. QED
  BY <1>1, <1>2, PTL DEF Spec

LEMMA StrategyFields ==
    ASSUME NEW s \in BackoffStrategy
    PROVE  /\ s.kind \in {"Fixed", "Exponential", "ExponentialJitter"}
           /\ s.kind = "Fixed" => s.wait \in Durations
           /\ s.kind # "Fixed" =>
                s.initial \in Durations /\ s.max \in Durations /\ s.factor \in Fractions
           /\ s.kind = "ExponentialJitter" => s.jitter \in Fractions
BY DEF BackoffStrategy

LEMMA BaseWithinMax ==
    ASSUME strategy \in BackoffStrategy, strategy.kind # "Fixed", NEW n \in Nat
    PROVE  \/ Base(n) \in 0..strategy.max
           \/ Base(n) = Panic /\ strategy.max = MaxDuration
BY StrategyFields, WaitWithinMax DEF Base

\* What StateMachine assumes of its waits (WaitForAssumption) holds of every strategy:
\* at each trip there is a wait, or a panic whatever is drawn; and no panic unless max
\* is Duration::MAX.
THEOREM WaitsUsable ==
    ASSUME NEW s \in BackoffStrategy, NEW n \in Nat
    PROVE  \/ Waits(s, n) = {Panic} /\ s.kind # "Fixed" /\ s.max = MaxDuration
           \/ Waits(s, n) # {} /\ Waits(s, n) \subseteq Nat
<1>1. CASE s.kind = "Fixed"
  BY <1>1, StrategyFields DEF Waits, Durations
<1>2. CASE s.kind # "Fixed"
  <2> DEFINE base == ExponentialWait(s.initial, s.max, s.factor, n)
  <2>1. /\ s.initial \in Durations /\ s.max \in Durations /\ s.factor \in Fractions
        /\ s.kind = "ExponentialJitter" => s.jitter \in Fractions
        /\ s.kind \in {"Exponential", "ExponentialJitter"}
    BY <1>2, StrategyFields
  <2>2. base \in Nat \/ (base = Panic /\ s.max = MaxDuration)
    BY <2>1, WaitWithinMax, AsF64Type
  <2>3. Waits(s, n) = IF s.kind = "Exponential" \/ base = Panic THEN {base}
                      ELSE Jittered(base, s.jitter)
    BY <1>2 DEF Waits
  <2> HIDE DEF base
  <2>4. ASSUME base \in Nat, s.kind = "ExponentialJitter"
        PROVE  Jittered(base, s.jitter) # {} /\ Jittered(base, s.jitter) \subseteq Nat
    <3> DEFINE kept == base * (s.jitter.den - Part(s.jitter))
    <3>1. s.jitter.den \in Nat \ {0} /\ Part(s.jitter) \in 0..s.jitter.den
      BY <2>1, <2>4, PartType
    <3>2. kept \in Nat /\ kept <= base * s.jitter.den
      <4>1. (s.jitter.den - Part(s.jitter)) * base <= s.jitter.den * base
        BY <2>4, <3>1, ProductMonotone
      <4>2. QED
        BY <2>4, <3>1, <4>1
    <3> HIDE DEF kept
    <3>3. kept \div s.jitter.den \in Int /\ 0 <= kept \div s.jitter.den
      BY <3>1, <3>2, Quotient, QuotientFits
    <3>4. kept \div s.jitter.den <= base
      <4>1. kept < base * s.jitter.den + s.jitter.den
        BY <2>4, <3>1, <3>2
      <4>2. QED
        BY <2>4, <3>1, <3>2, <4>1, QuotientFits
    <3>5. base \in Jittered(base, s.jitter)
      BY <2>4, <3>3, <3>4 DEF Jittered, kept
    <3>6. QED
      BY <2>4, <3>3, <3>5 DEF Jittered, kept
  <2>5. QED
    BY <1>2, <2>1, <2>2, <2>3, <2>4 DEF Panic
<1>3. QED
  BY <1>1, <1>2

\* What StateMachine's BackoffGrows asks of the strategy holds of Fixed, and of
\* Exponential with a factor of at least 1.
THEOREM WaitsNeverShrink ==
    ASSUME NEW s \in BackoffStrategy,
           s.kind = "Fixed" \/ (s.kind = "Exponential" /\ s.factor.num >= s.factor.den),
           NEW a \in Nat, NEW b \in Nat, a <= b,
           Waits(s, b) # {Panic},
           NEW x \in Waits(s, a), NEW y \in Waits(s, b)
    PROVE  x <= y
<1>1. CASE s.kind = "Fixed"
  BY <1>1, StrategyFields, BackoffAssumption DEF Waits, Durations
<1>2. CASE s.kind = "Exponential"
  <2>1. /\ x = ExponentialWait(s.initial, s.max, s.factor, a)
        /\ y = ExponentialWait(s.initial, s.max, s.factor, b) /\ y # Panic
    BY <1>2 DEF Waits
  <2>2. s.initial \in Durations /\ s.max \in Durations /\ s.factor \in Fractions
    BY <1>2, StrategyFields
  <2>3. y \in Int
    BY <2>1, <2>2, WaitWithinMax, AsF64Type
  <2>4. x \in 0..y
    BY <1>2, <2>1, <2>2, ExponentialNeverShrinks
  <2>5. QED
    BY <2>3, <2>4
<1>3. QED
  BY <1>1, <1>2

\* Whatever the generator draws, the wait is one that Waits allows, and as long as
\* DrawnWaitBounded says.
THEOREM DrawnWaitsBounded == Spec => []DrawnWaitBounded
<1>1. Init => DrawnWaitBounded
  BY DEF Init, DrawnWaitBounded
<1>2. ASSUME strategy \in BackoffStrategy, attempt \in 0..LastAttempt, rng \in Words,
             DrawnWaitBounded, [Next]_vars
      PROVE  DrawnWaitBounded'
  <2>1. CASE UNCHANGED vars
    BY <1>2, <2>1 DEF vars, DrawnWaitBounded, Base
  <2>2. CASE Next
    <3>1. strategy' = strategy /\ WaitFor(attempt') /\ attempt' \in Nat
      BY <1>2, <2>2, GeneratorAssumption DEF Next, Smaller
    <3>2. Base(attempt)' = Base(attempt')
      BY <3>1 DEF Base
    <3>3. SUFFICES ASSUME strategy.kind # "Fixed"
                   PROVE  /\ wait' \in Waits(strategy, attempt')
                          /\ wait' <= Base(attempt') /\ Base(attempt') <= strategy.max
                          /\ strategy.kind = "ExponentialJitter" /\ strategy.jitter.num <= 0
                               => wait' = Base(attempt')
      BY <3>1, <3>2 DEF DrawnWaitBounded
    <3>4. strategy.max \in Nat /\ Base(attempt') \in Int /\ Base(attempt') <= strategy.max
      BY <1>2, <3>1, <3>3, BaseWithinMax, StrategyFields, BackoffAssumption
         DEF Durations, Panic
    <3>5. CASE Draws(attempt')
      <4>1. PICK now \in Words : rng' = XorShift(IF rng = {} THEN Seed(now) ELSE rng)
        BY <3>1, <3>5 DEF WaitFor
      <4>2. rng' \in Words
        BY <1>2, <4>1, XorShiftType, GeneratorAssumption DEF Seed, Words, Bits
      <4>3. wait' = Scaled(Base(attempt'), strategy.jitter, Drawn(rng'))
        BY <3>1, <3>5 DEF WaitFor
      <4>4. Base(attempt') \in Nat /\ strategy.jitter \in Fractions
        BY <1>2, <3>1, <3>3, <3>5, BaseWithinMax, StrategyFields DEF Draws, Durations
      <4>5. /\ wait' \in Jittered(Base(attempt'), strategy.jitter)
            /\ strategy.jitter.num <= 0 => wait' = Base(attempt')
        BY <4>2, <4>3, <4>4, DrawBelowOne, ScaledWithin
      <4>6. Waits(strategy, attempt') = Jittered(Base(attempt'), strategy.jitter)
        BY <3>3, <3>5 DEF Waits, Base, Draws
      <4>7. wait' <= Base(attempt')
        BY <4>5 DEF Jittered
      <4>8. QED
        BY <3>4, <4>5, <4>6, <4>7
    <3>6. CASE ~Draws(attempt')
      <4>1. wait' \in Waits(strategy, attempt')
        BY <3>1, <3>6 DEF WaitFor
      <4>2. strategy.kind = "Exponential" \/ Base(attempt') = Panic
        BY <1>2, <3>3, <3>6, StrategyFields DEF Draws
      <4>3. Waits(strategy, attempt') = {Base(attempt')}
        BY <3>3, <4>2 DEF Waits, Base
      <4>4. QED
        BY <3>4, <4>1, <4>3
    <3>7. QED
      BY <3>5, <3>6
  <2>3. QED
    BY <1>2, <2>1, <2>2
<1>3. GeneratorSeeded => rng \in Words
  BY DEF GeneratorSeeded
<1>4. QED
  BY <1>1, <1>2, <1>3, StrategyLegal, GeneratorAlwaysSeeded, PTL DEF Spec

\* From trip to trip the wait without jitter never shrinks, for any factor of at
\* least 1.
THEOREM WaitsAlwaysGrow == Spec => WaitsGrow
<1>1. ASSUME strategy \in BackoffStrategy, attempt \in 0..LastAttempt, [Next]_vars,
             strategy.kind # "Fixed", strategy.factor.num >= strategy.factor.den
      PROVE  Base(attempt') = Panic \/ Base(attempt) \in 0..Base(attempt')
  <2>1. attempt \in Nat /\ attempt' \in Nat /\ attempt <= attempt'
    BY <1>1, GeneratorAssumption DEF Next, vars, Smaller
  <2>2. QED
    BY <1>1, <2>1, StrategyFields, ExponentialNeverShrinks DEF Base
<1>2. QED
  BY <1>1, StrategyLegal, PTL DEF Spec, WaitsGrow

\* Every circuit's exponential wait is the documented one, trip by trip.
THEOREM AlwaysMatchesReference == Spec => []MatchesReference
<1>1. strategy \in BackoffStrategy /\ attempt \in 0..LastAttempt => MatchesReference
  BY StrategyFields, WaitIsDocumented DEF MatchesReference, Base
<1>2. QED
  BY <1>1, StrategyLegal, PTL

=============================================================================

----------------------------- MODULE MCBackoff -----------------------------
(***************************************************************************)
(* A small family of strategies for BackoffDraws.                           *)
(***************************************************************************)
EXTENDS BackoffDraws

CONSTANTS Initials, Maxima

LOCAL Fraction(n, d) == [num |-> n, den |-> d]

LOCAL Factors ==
    {Fraction(-2, 1), Fraction(0, 1), Fraction(1, 2), Fraction(1, 1), Fraction(3, 2),
     Fraction(2, 1), Fraction(3, 1)}
LOCAL Jitters == {Fraction(-1, 2), Fraction(0, 1), Fraction(1, 3), Fraction(1, 1), Fraction(2, 1)}

Family ==
    {Fixed(w) : w \in Initials}
      \cup {Exponential(i, m, f) : i \in Initials, m \in Maxima, f \in Factors}
      \cup {ExponentialJitter(i, m, f, j) :
               i \in Initials, m \in Maxima, f \in Factors, j \in Jitters}

=============================================================================

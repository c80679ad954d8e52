------------------------------- MODULE Money --------------------------------
(* Amounts are counted in cents, as the engines do once _money has rounded *)
(* them to two places.                                                     *)
EXTENDS Integers, Sequences, FiniteSets, Functions

Smaller(a, b) == IF a < b THEN a ELSE b
Positive(a)   == IF a > 0 THEN a ELSE 0

SumOf(amounts) == SumFunction(amounts)

\* The members of S one after the other; upto[i] is the set of those that do
\* not come after i.
Sorted(S, upto) ==
  [n \in 1 .. Cardinality(S) |-> CHOOSE i \in S : Cardinality(upto[i]) = n]

\* Rows of one day keep the order they have.
DayOrder(rows, kept) ==
  [i \in kept |-> {j \in kept : \/ rows[j].day < rows[i].day
                                \/ rows[j].day = rows[i].day /\ j <= i}]

\* The rows of the given numbers, by day.
ByDay(rows, kept) ==
  LET places == Sorted(kept, DayOrder(rows, kept))
  IN  [n \in 1 .. Cardinality(kept) |-> rows[places[n]]]

\* n / d in cents, ties away from zero (ROUND_HALF_UP), for d > 0.
HalfUp(n, d) ==
  IF n >= 0 THEN (2 * n + d) \div (2 * d) ELSE -((d - 2 * n) \div (2 * d))
=============================================================================

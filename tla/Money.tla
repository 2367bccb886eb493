------------------------------- MODULE Money -------------------------------
(***************************************************************************)
(* Integer money arithmetic: internal/money/money.go and the copy of       *)
(* addInt64 in internal/ledger/spec.go.                                    *)
(*                                                                         *)
(* Amounts are signed integers of one machine width.  The width is a       *)
(* parameter: MaxInt64 stands for 2^63 - 1, and a model may set it to a     *)
(* small number so that overflow is reached by small amounts.              *)
(***************************************************************************)
EXTENDS Integers, Sequences, FiniteSets, FiniteSetsExt

CONSTANT MaxInt64   \* the largest int64

ASSUME MaxInt64Assumption == MaxInt64 \in Nat \ {0}

MinInt64 == -(MaxInt64 + 1)

Int64 == MinInt64 .. MaxInt64

\* Two's complement wrap-around of the sum or difference of two int64 values,
\* which leaves the range at most once.
Wrap(x) ==
  IF x > MaxInt64 THEN x - 2 * (MaxInt64 + 1)
  ELSE IF x < MinInt64 THEN x + 2 * (MaxInt64 + 1)
  ELSE x

\* Mutant: the sum is taken as if the machine had unbounded integers.
addUnbounded(a, b) == [val |-> a + b, ok |-> TRUE]

\* addInt64 adds with overflow detection, from the signs of the operands and
\* of the wrapped sum.
addInt64(a, b) ==
  LET s == Wrap(a + b) IN
  IF (a > 0 /\ b > 0 /\ s < 0) \/ (a < 0 /\ b < 0 /\ s >= 0)
  THEN [val |-> 0, ok |-> FALSE]
  ELSE [val |-> s, ok |-> TRUE]

abs64(v) == IF v < 0 THEN -v ELSE v

\* The sum of a sequence of integers.
Total(seq) == MapThenSumSet(LAMBDA i : seq[i], DOMAIN seq)

ValidRatios(ratios) ==
  /\ ratios # << >>
  /\ \A i \in DOMAIN ratios : ratios[i] >= 0
  /\ Total(ratios) \in 1 .. MaxInt64

\* a * ratio / div, truncated toward zero, and the magnitude of the remainder.
\* The product is a 128-bit intermediate in the code, so it does not wrap.
mulDivTrunc(a, ratio, div) ==
  LET magnitude == (abs64(a) * ratio) \div div IN
  [q   |-> IF a < 0 THEN -magnitude ELSE magnitude,
   rem |-> (abs64(a) * ratio) % div]

\* Mutant: ties go to the first part whatever the sign of the leftover.
TieForward(leftover, i, j) == i < j

\* Which of two parts with equal remainders comes first.
TieBreak(leftover, i, j) == IF leftover > 0 THEN i < j ELSE i > j

\* Allocate splits amount in proportion to ratios by the largest-remainder
\* method: part i gets the truncated share, and one more unit if fewer than
\* |leftover| parts come before it in the order "largest remainder first,
\* ties by position, forward for a positive leftover and backward otherwise".
Allocate(amount, ratios) ==
  LET share    == [i \in DOMAIN ratios |->
                     mulDivTrunc(amount, ratios[i], Total(ratios))]
      leftover == amount - Total([i \in DOMAIN ratios |-> share[i].q])
      Before(i, j) ==
        \/ share[i].rem > share[j].rem
        \/ /\ share[i].rem = share[j].rem
           /\ TieBreak(leftover, i, j)
      Rank(i)  == Cardinality({j \in DOMAIN ratios : Before(j, i)})
      step     == IF leftover < 0 THEN -1 ELSE 1
  IN [i \in DOMAIN ratios |->
        share[i].q + (IF Rank(i) < abs64(leftover) THEN step ELSE 0)]
=============================================================================

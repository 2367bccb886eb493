-------------------------------- MODULE Fees --------------------------------
(***************************************************************************)
(* The platform's fee: MulBps of internal/money/money.go and the fee       *)
(* schedule of internal/payments/fees.go.                                  *)
(*                                                                         *)
(* An operation that may fail yields a record with a field ok.  In MulBps  *)
(* ok = FALSE is a panic, elsewhere it is an error; both undo the request. *)
(***************************************************************************)
EXTENDS Money

CONSTANT BpsScale   \* basis points in one: 10000 in the code

ASSUME BpsScaleAssumption == BpsScale \in Nat \ {0}

halfScale == BpsScale \div 2

\* FeeSchedule.Validate bounds the rate and the fixed part.
FeeSchedule == [bps : 0 .. BpsScale, fixed : 0 .. MaxInt64]

\* Go's division of integers truncates toward zero.
TruncDiv(a, b) ==
  LET magnitude == abs64(a) \div abs64(b)
  IN IF (a < 0) # (b < 0) THEN -magnitude ELSE magnitude

\* Mutant: the division truncates.
truncDivOnly(a, b) == TruncDiv(a, b)

\* floorDiv divides rounding toward negative infinity.
floorDiv(a, b) ==
  LET q == TruncDiv(a, b)
  IN IF a # q * b /\ (a < 0) # (b < 0) THEN q - 1 ELSE q

\* The low half of a product, as the machine computes it.
WrapProduct(x) == ((x - MinInt64) % (2 * (MaxInt64 + 1))) + MinInt64

\* mulInt64 multiplies with overflow detection: the division of the wrapped
\* product recovers the operand.
mulInt64(a, b) ==
  LET p == WrapProduct(a * b) IN
  IF a = 0 \/ b = 0 THEN [val |-> 0, ok |-> TRUE]
  ELSE IF (a = -1 /\ b = MinInt64) \/ (b = -1 /\ a = MinInt64)
  THEN [val |-> 0, ok |-> FALSE]
  ELSE IF TruncDiv(p, b) # a THEN [val |-> 0, ok |-> FALSE]
  ELSE [val |-> p, ok |-> TRUE]

\* MulBps splits the amount into q * BpsScale + r before it multiplies, so that
\* no intermediate product leaves the range.
MulBps(amount, bps) ==
  LET q     == floorDiv(amount, BpsScale)
      r     == amount - q * BpsScale
      inner == mulInt64(r, bps)
      round == addInt64(inner.val, halfScale)
      outer == mulInt64(q, bps)
      total == addInt64(outer.val, floorDiv(round.val, BpsScale))
  IN [val |-> total.val, ok |-> inner.ok /\ round.ok /\ outer.ok /\ total.ok]

\* FeeSchedule.Compute: the fee on an amount and the net owed to the merchant.
\* A fee that would consume the amount is refused.
Compute(f, amount) ==
  LET rate == MulBps(amount, f.bps)
      fee  == addInt64(rate.val, f.fixed)
  IN [fee |-> fee.val, net |-> amount - fee.val,
      ok |-> amount > 0 /\ rate.ok /\ fee.ok /\ fee.val < amount]

\* feeForRefunded: the part of the percentage fee that goes with having
\* refunded this much of the charge.
feeForRefunded(percentageFee, charged, refunded) ==
  IF refunded <= 0 THEN 0
  ELSE IF refunded >= charged THEN percentageFee
  ELSE Allocate(percentageFee, << refunded, charged - refunded >>)[1]

\* Mutant: each refund is rounded on its own.
refundFeeAlone(f, charged, already, refund, refundPercentage) ==
  LET rate == MulBps(charged, f.bps)
  IN [val |-> IF refundPercentage
              THEN feeForRefunded(rate.val, charged, refund) ELSE 0,
      ok  |-> Wrap(already + refund) <= charged /\ rate.ok]

\* FeeSchedule.RefundFee: how much of the fee comes back with this refund.  It
\* is a difference of what is owed for everything refunded so far.
RefundFee(f, charged, already, refund, refundPercentage) ==
  LET total == Wrap(already + refund)
      rate  == MulBps(charged, f.bps)
      owed(n) == feeForRefunded(rate.val, charged, n)
  IN IF ~ refundPercentage THEN [val |-> 0, ok |-> TRUE]
     ELSE [val |-> IF rate.val = 0 THEN 0 ELSE owed(total) - owed(already),
           ok  |-> charged > 0 /\ total <= charged /\ rate.ok]
=============================================================================

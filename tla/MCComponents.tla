---------------------------- MODULE MCComponents -----------------------------
(***************************************************************************)
(* Small instances of the components that stand by themselves.  Every      *)
(* behaviour exercises one of them, chosen in the initial state:           *)
(*   arithmetic  Money: the first operand takes every value of a machine   *)
(*               with few bits, beside a second operand or a split         *)
(*   refunds     Fees: one payment is refunded in pieces                   *)
(*   statement   Statement: a client pages while transactions commit       *)
(*   reconciler  Reconciler: a pass while transactions commit              *)
(*   ids         Identifiers: one process, a clock that may step back      *)
(*   limiter     RateLimiter: two callers and an observed window           *)
(*   signing     Signing: a delivery while secrets are rotated             *)
(*   gateway     Gateway: two requests while keys come and go              *)
(***************************************************************************)
EXTENDS Fees, Statement, Reconciler, Identifiers, RateLimiter, Signing, Gateway

CONSTANTS
  MaxRatio,    \* bound: the largest ratio of a split
  MaxAmount,   \* bound: the largest charge
  MaxFixed,    \* bound: the largest fixed component of a fee
  MaxEntries   \* bound: entries committed while somebody reads

VARIABLES
  part,       \* the component that is exercised
  amount,     \* the first operand
  other,      \* the second operand
  ratios,     \* the split of an allocation
  schedule,   \* the configured fee schedule
  charged,    \* the amount of the payment; 0 if there is none
  refunded,   \* the sum of the refunds so far
  returned,   \* the fee given back with them
  last        \* the last refund and the fee given back with it

operands == << amount, other, ratios >>
payment  == << schedule, charged, refunded, returned, last >>
audit    == << pass, drifted >>
vars == << part, operands, payment, journalVars, walk, audit, idVars, limiterVars,
           signingVars, gatewayVars >>

\* Account 1 is the bank, which may go negative, and account 2 a wallet.
MCDebitNormal   == {1}
MCAllowNegative == {1}
MCCurrencyOf    == [a \in Account |-> "usd"]
MCLookupOf      == [t \in Token |-> t \div 2]
MCRoleOf        == [t \in Token |-> IF t = 2 THEN "write" ELSE "read"]

Leg(a, d, n) == [account |-> a, direction |-> d, amount |-> n]

\* A deposit in two legs on one account, a withdrawal, a hold on the wallet.
Deposit  == << Leg(1, Debit, 2), Leg(2, Credit, 1), Leg(2, Credit, 1) >>
Withdraw == << Leg(2, Debit, 1), Leg(1, Credit, 1) >>

Transact ==
  \E t \in {<< Deposit, FALSE >>, << Withdraw, FALSE >>, << Withdraw, TRUE >>} :
    /\ Cardinality(journal) + Len(t[1]) <= MaxEntries
    /\ Record(t[1], t[2])

Init ==
  /\ part \in {"arithmetic", "refunds", "statement", "reconciler", "ids", "limiter",
               "signing", "gateway"}
  /\ StatementInit /\ (part # "statement" => walk.account = 1)
  /\ ReconcilerInit
  /\ IdInit
  /\ LimiterInit
  /\ SigningInit /\ (part # "signing" => skew = 0)
  /\ GatewayInit
  /\ amount = MinInt64 /\ refunded = 0 /\ returned = 0
  /\ last = [amount |-> 0, fee |-> 0]
  /\ IF part = "arithmetic"
     THEN \/ other \in Int64 /\ ratios = << 1 >>
          \/ other = 0 /\ ratios \in [1 .. 3 -> 0 .. MaxRatio]
     ELSE other = 0 /\ ratios = << 1 >>
  /\ IF part = "refunds"
     THEN /\ schedule \in [bps : 0 .. BpsScale, fixed : 0 .. MaxFixed]
          /\ charged \in 1 .. MaxAmount
          /\ Compute(schedule, charged).ok
     ELSE schedule = [bps |-> 0, fixed |-> 0] /\ charged = 0

NextOperand ==
  /\ part = "arithmetic"
  /\ amount < MaxInt64
  /\ amount' = amount + 1
  /\ UNCHANGED << part, other, ratios, payment, journalVars, walk, audit, idVars,
                  limiterVars, signingVars, gatewayVars >>

Refund ==
  \E refund \in 1 .. MaxAmount :
    LET fee == RefundFee(schedule, charged, refunded, refund, TRUE) IN
    /\ part = "refunds"
    /\ fee.ok
    /\ refunded' = refunded + refund
    /\ returned' = returned + fee.val
    /\ last' = [amount |-> refund, fee |-> fee.val]
    /\ UNCHANGED << part, operands, schedule, charged, journalVars, walk, audit, idVars,
                    limiterVars, signingVars, gatewayVars >>

StatementStep ==
  /\ part = "statement"
  /\ (Transact /\ UNCHANGED walk) \/ ReaderStep
  /\ UNCHANGED << part, operands, payment, audit, idVars, limiterVars, signingVars,
                  gatewayVars >>

ReconcilerStep ==
  /\ part = "reconciler"
  /\ \/ Transact /\ Settle
     \/ \E a \in Account : Drift(a)
     \/ PassStep
  /\ UNCHANGED << part, operands, payment, walk, idVars, limiterVars, signingVars,
                  gatewayVars >>

IdStep ==
  /\ part = "ids" /\ IdNext
  /\ UNCHANGED << part, operands, payment, journalVars, walk, audit, limiterVars,
                  signingVars, gatewayVars >>

LimiterStep ==
  /\ part = "limiter" /\ LimiterNext
  /\ UNCHANGED << part, operands, payment, journalVars, walk, audit, idVars,
                  signingVars, gatewayVars >>

SigningRest == << part, operands, payment, journalVars, walk, audit, idVars, limiterVars,
                  gatewayVars >>

SigningStep == part = "signing" /\ SigningNext /\ UNCHANGED SigningRest

GatewayStep ==
  /\ part = "gateway" /\ GatewayNext
  /\ UNCHANGED << part, operands, payment, journalVars, walk, audit, idVars, limiterVars,
                  signingVars >>

Next == \/ NextOperand \/ Refund \/ StatementStep \/ ReconcilerStep \/ IdStep
        \/ LimiterStep \/ SigningStep \/ GatewayStep

\* The worker keeps attempting a delivery that is due.
Fairness == WF_vars(part = "signing" /\ Deliver /\ UNCHANGED SigningRest)

Spec == Init /\ [][Next]_vars /\ Fairness

\* The overflow checks of addInt64 and mulInt64 (money.go:450-473) refuse
\* exactly the sums and products that leave the range, and are right about the
\* rest; MulBps (money.go:178-208), built from them, rounds half up for every
\* amount of either sign, as its comment defines it, and cannot panic at a rate
\* of at most one.
ArithmeticExact ==
  /\ addInt64(amount, other).ok <=> (amount + other) \in Int64
  /\ addInt64(amount, other).ok => addInt64(amount, other).val = amount + other
  /\ mulInt64(amount, other).ok <=> (amount * other) \in Int64
  /\ mulInt64(amount, other).ok => mulInt64(amount, other).val = amount * other
  /\ other \in 0 .. BpsScale =>
       MulBps(amount, other) =
         [val |-> (amount * other + halfScale) \div BpsScale, ok |-> TRUE]

\* Allocate (money.go:226-280) splits without a remainder, gives every part its
\* exact share to within one unit, and splits a debt as the mirror image of the
\* same claim.
AllocateExact ==
  ValidRatios(ratios) =>
    LET parts == Allocate(amount, ratios)
        sum   == Total(ratios)
        back(i) == Len(ratios) + 1 - i
        mirrored == [i \in DOMAIN ratios |-> ratios[back(i)]]
    IN /\ Total(parts) = amount
       /\ \A i \in DOMAIN ratios :
            /\ abs64(parts[i] * sum - amount * ratios[i]) < sum
            /\ amount # MinInt64 =>
                 Allocate(-amount, mirrored)[back(i)] = -parts[i]

\* However a payment is cut into refunds, no piece gives back more fee than the
\* percentage component so far, and the pieces of a full refund give back
\* exactly that component (fees.go:104-110).  A piece gives back between zero
\* and its own amount, so the entries of Refund (payments.go:345-358) have the
\* amounts that Validate requires and no refund is refused for its rounding.
FeeTelescopes ==
  charged > 0 =>
    LET percentage == MulBps(charged, schedule.bps).val IN
    /\ returned \in 0 .. percentage
    /\ refunded = charged => returned = percentage
    /\ last.fee \in 0 .. last.amount
=============================================================================

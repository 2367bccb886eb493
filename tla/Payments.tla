------------------------------ MODULE Payments ------------------------------
(***************************************************************************)
(* Payments over the ledger: internal/payments/payments.go, as the handlers *)
(* of internal/httpapi/payments.go run it.                                 *)
(*                                                                         *)
(* A handler runs one service call in one database transaction, so a       *)
(* payment operation is an operation of the module Ledger: it reads the    *)
(* payment with plain SELECTs when it begins and then makes one or two     *)
(* postings.  A payment has no state of its own.  It is derived from the   *)
(* committed transactions that carry its id.                               *)
(***************************************************************************)
EXTENDS Ledger, Fees

CONSTANTS
  Clearing, Payable, FeeRevenue, Holds,  \* the accounts of the merchant's chart
  Schedule,          \* the configured fee schedule
  RefundPercentage,  \* whether refunds return the percentage fee
  ChargeAmount,      \* the amounts that callers charge or authorize
  RefundAmount,      \* the amounts that callers refund
  Serial             \* whether callers wait for one operation on a payment to
                     \* end before they begin the next one on it

ASSUME ScheduleAssumption == Schedule \in FeeSchedule
ASSUME ModeAssumption == RefundPercentage \in BOOLEAN /\ Serial \in BOOLEAN

-----------------------------------------------------------------------------
(* Reading a payment back: Get and derive *)

TransactionsByRef(p) == {t \in CommittedTxns : txns[t].ref = p}

WithRole(p, roles) == {t \in TransactionsByRef(p) : txns[t].role \in roles}

\* Transactions are read in the order of created_at, which Post takes while it
\* holds the locks of the clearing account: the order of their entries.
CreatedAt(t) == Min({e.id : e \in {f \in entries : f.txn = t}})

Newest(T) == CHOOSE t \in T : \A u \in T : CreatedAt(u) <= CreatedAt(t)

Charges(p) == WithRole(p, {"charge", "capture"})

Refunds(p) == WithRole(p, {"refund"})

Authorization(p) == Newest(WithRole(p, {"authorization"}))

\* The part of one side of a transaction on the fee account, and the rest.
SplitTotals(t, d) ==
  LET fee == {i \in LegsOn(txns[t].legs, d) : txns[t].legs[i].account = FeeRevenue}
  IN [fee |-> MapThenSumSet(LAMBDA i : txns[t].legs[i].amount, fee),
      net |-> MapThenSumSet(LAMBDA i : txns[t].legs[i].amount,
                            LegsOn(txns[t].legs, d) \ fee)]

\* What was charged, or authorized while nothing is captured.
Amount(p) ==
  SideTotal(txns[Newest(WithRole(p, {"authorization", "charge", "capture"}))].legs,
            Debit)

Refunded(p) == MapThenSumSet(LAMBDA t : SideTotal(txns[t].legs, Debit), Refunds(p))

\* Mutant: the parts of the refunds are not subtracted.
ChargeTotals(p) ==
  IF Charges(p) = {} THEN [fee |-> 0, net |-> 0]
                     ELSE SplitTotals(Newest(Charges(p)), Credit)

\* The fee and the net: those of the newest charge, less those of the refunds
\* that come after it in the loop of derive.
Totals(p) ==
  LET charge == Newest(Charges(p))
      later  == {t \in Refunds(p) : CreatedAt(charge) < CreatedAt(t)}
      split  == SplitTotals(charge, Credit)
  IN IF Charges(p) = {} THEN [fee |-> 0, net |-> 0]
     ELSE [fee |-> split.fee -
             MapThenSumSet(LAMBDA t : SplitTotals(t, Debit).fee, later),
           net |-> split.net -
             MapThenSumSet(LAMBDA t : SplitTotals(t, Debit).net, later)]

State(p) ==
  IF Charges(p) = {}
  THEN IF \E t \in TransactionsByRef(p) : txns[t].status = "voided"
       THEN "canceled" ELSE "requires_capture"
  ELSE IF Refunded(p) >= Amount(p) THEN "refunded"
  ELSE IF Refunded(p) > 0 THEN "partially_refunded"
  ELSE "succeeded"

Refundable(p) == Max({Amount(p) - Refunded(p), 0})

\* The payments that Get finds.
Payments == {p \in ExternalRef : TransactionsByRef(p) # {}}

-----------------------------------------------------------------------------
(* The operations *)

Line(a, d, n) ==
  [account |-> a, direction |-> d, amount |-> n, currency |-> CurrencyOf[a]]

\* The entries of a charge or a capture.
ChargeLegs(amount) ==
  << Line(Clearing, Debit, amount),
     Line(Payable, Credit, Compute(Schedule, amount).net),
     Line(FeeRevenue, Credit, Compute(Schedule, amount).fee) >>

\* Some session is working on payment p.
InFlight(p) ==
  \E s \in Session :
    \/ \E t \in live[s] : txns[t].ref = p
    \/ job[s].post # None /\ job[s].post.ref = p

Admitted(p) == Serial => ~ InFlight(p)

\* id.New: no transaction has the reference p yet.
Unused(p) == ~ InFlight(p) /\ p \notin Payments

Charge(s) ==
  \E p \in ExternalRef, amount \in ChargeAmount :
    /\ Unused(p)
    /\ Compute(Schedule, amount).ok
    /\ Begin(s, "charge", Plain(ChargeLegs(amount), FALSE, p, "charge"),
             None, None, None)

\* Charge without capture: the amount is held pending.  The fee on it is
\* computed too and may refuse it.
Authorize(s) ==
  \E p \in ExternalRef, amount \in ChargeAmount :
    /\ Unused(p)
    /\ Compute(Schedule, amount).ok
    /\ Begin(s, "authorize",
             Plain(<< Line(Clearing, Debit, amount), Line(Holds, Credit, amount) >>,
                   TRUE, p, "authorization"),
             None, None, None)

\* The payment awaits capture, and ledger.Void finds the authorization pending.
Capturable(p) ==
  /\ State(p) = "requires_capture"
  /\ WithRole(p, {"authorization"}) # {}
  /\ txns[Authorization(p)].status = "pending"

\* Mutant: the charge is posted and the hold forgotten.
CaptureWithoutRelease(s) ==
  \E p \in Payments :
    /\ Admitted(p)
    /\ Capturable(p)
    /\ \E capture \in (CaptureAmount \cup {Amount(p)}) \cap 1 .. Amount(p) :
         /\ Compute(Schedule, capture).ok
         /\ Begin(s, "capturePayment",
                  Plain(ChargeLegs(capture), FALSE, p, "capture"), None,
                  Authorization(p), "voided")

\* Mutant: ErrNotPending is taken to mean that the hold is already released.
CaptureReleased(s) ==
  \E p \in Payments :
    /\ Admitted(p)
    /\ State(p) \in {"requires_capture", "canceled"}
    /\ WithRole(p, {"authorization"}) # {}
    /\ \E capture \in (CaptureAmount \cup {Amount(p)}) \cap 1 .. Amount(p) :
         LET charge == Plain(ChargeLegs(capture), FALSE, p, "capture") IN
         /\ Compute(Schedule, capture).ok
         /\ IF txns[Authorization(p)].status = "pending"
            THEN Begin(s, "capturePayment", Release(Authorization(p)), charge,
                       Authorization(p), "voided")
            ELSE Begin(s, "capturePayment", charge, None, None, None)

\* payments.Capture: ledger.Void releases the whole hold, and a second posting
\* charges the captured amount with the fee on that amount.
CapturePayment(s) ==
  \E p \in Payments :
    /\ Admitted(p)
    /\ Capturable(p)
    /\ \E capture \in (CaptureAmount \cup {Amount(p)}) \cap 1 .. Amount(p) :
         /\ Compute(Schedule, capture).ok
         /\ Begin(s, "capturePayment", Release(Authorization(p)),
                  Plain(ChargeLegs(capture), FALSE, p, "capture"),
                  Authorization(p), "voided")

Cancel(s) ==
  \E p \in Payments :
    /\ Admitted(p)
    /\ Capturable(p)
    /\ Begin(s, "cancel", Release(Authorization(p)), None, Authorization(p), "voided")

\* The entries of a refund; those of zero are left out.
RefundLegs(refund, fee) ==
  << Line(Clearing, Credit, refund) >>
  \o (IF refund = fee THEN << >> ELSE << Line(Payable, Debit, refund - fee) >>)
  \o (IF fee = 0 THEN << >> ELSE << Line(FeeRevenue, Debit, fee) >>)

\* Mutant: the refund is compared with the charge alone, and the error of
\* RefundFee is dropped.
RefundOfCharge(s) ==
  \E p \in Payments :
    /\ Admitted(p)
    /\ State(p) \in {"succeeded", "partially_refunded"}
    /\ \E refund \in (RefundAmount \cup {Amount(p)}) \cap 1 .. Amount(p) :
         LET fee == RefundFee(Schedule, Amount(p), Refunded(p), refund, RefundPercentage)
         IN Begin(s, "refund",
                  Plain(RefundLegs(refund, fee.val), FALSE, p, "refund"),
                  None, None, None)

\* Refund checks the amount against what is left of the charge, as the
\* committed transactions show it when the operation begins.
Refund(s) ==
  \E p \in Payments :
    /\ Admitted(p)
    /\ State(p) \in {"succeeded", "partially_refunded"}
    /\ \E refund \in (RefundAmount \cup {Refundable(p)}) \cap 1 .. Refundable(p) :
         LET fee == RefundFee(Schedule, Amount(p), Refunded(p), refund,
                              RefundPercentage)
         IN /\ fee.ok
            /\ Begin(s, "refund",
                     Plain(RefundLegs(refund, fee.val), FALSE, p, "refund"),
                     None, None, None)

-----------------------------------------------------------------------------

PaymentCall(s) ==
  \/ Charge(s)
  \/ Authorize(s)
  \/ CapturePayment(s)
  \/ Cancel(s)
  \/ Refund(s)

\* Transfers (Post) and reversals reach the same ledger through their own
\* routes.
PaymentNext ==
  \E s \in Session :
    PaymentCall(s) \/ Post(s) \/ Reverse(s) \/ Step(s) \/ Abort(s)

PaymentSpec == Init /\ [][PaymentNext]_vars

\* Mutant: a wait for a row lock has no limit.
NoTimeout(s) == FALSE

\* lock_timeout, or the deadlock detector before it: a session does not wait
\* for a row lock for ever.
LockTimeout(s) == pc[s] = "lock" /\ Abort(s)

\* A session that has begun keeps executing, and a wait ends in one way or the
\* other.
PaymentLiveSpec ==
  /\ PaymentSpec
  /\ \A s \in Session :
       WF_vars(LockRow(s) \/ LockTimeout(s) \/ ApplyEntry(s) \/ Write(s)
               \/ Commit(s) \/ Refuse(s))

-----------------------------------------------------------------------------
(* Properties *)

\* What the committed, posted entries of a payment did to account a.
Booked(p, a) ==
  MapThenSumSet(PostedDelta,
                {e \in CommittedEntries : e.account = a /\ txns[e.txn].ref = p})

\* A payment cannot disagree with the books (chart.go:8-9, payments.go:389-391):
\* the net, the fee and the unrefunded amount that Get reports are what the
\* entries of its transactions did to the payable, fee and clearing accounts.
BooksAgree ==
  \A p \in Payments :
    /\ Totals(p).net = Booked(p, Payable)
    /\ Totals(p).fee = Booked(p, FeeRevenue)
    /\ Booked(p, Clearing) =
         IF Charges(p) = {} THEN 0 ELSE Amount(p) - Refunded(p)

\* The money on hold is exactly the amount of the payments that await capture:
\* no instant at which a hold is gone but the money has not arrived, and no hold
\* left behind (payments.go:191-194).
HoldsOutstanding ==
  committed[Holds].pending =
    MapThenSumSet(Amount, {p \in Payments : State(p) = "requires_capture"})

\* Several refunds cannot together exceed the payment (payments.go:296-297): the
\* platform never pays out more than it took for it.
RefundsWithinPayment == \A p \in Payments : Booked(p, Clearing) >= 0

\* The states a payment may be in after state x.
Successors(x) ==
  IF x = "requires_capture" THEN {"succeeded", "canceled"}
  ELSE IF x \in {"succeeded", "partially_refunded"}
  THEN {"partially_refunded", "refunded"}
  ELSE {}

\* The derived state of a payment only moves forward: a payment that is
\* canceled or refunded stays so (the states of payments.go:18-26).
Lifecycle ==
  [][\A p \in Payments :
       /\ p \in Payments'
       /\ State(p)' # State(p) => State(p)' \in Successors(State(p))]_vars
=============================================================================

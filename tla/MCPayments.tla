----------------------------- MODULE MCPayments -----------------------------
(***************************************************************************)
(* Small instances of the module Payments.  The chart has the order in     *)
(* which EnsureChart creates it: clearing, payable, fees, holds.           *)
(***************************************************************************)
EXTENDS Payments

CONSTANTS s1, s2, p1, p2   \* sessions and payments, as model values

MCCurrencyOf == [a \in Account |-> "usd"]

\* A quarter of the amount and 1.
MCSchedule == [bps |-> 1, fixed |-> 1]

\* A transfer from the payable account to the holds account, which does not
\* touch the clearing account that every payment operation locks first.
MCTransfer ==
  {Plain(<< Line(Payable, Debit, 1), Line(Holds, Credit, 1) >>, FALSE, None, None)}
=============================================================================

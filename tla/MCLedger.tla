------------------------------ MODULE MCLedger ------------------------------
(***************************************************************************)
(* Small instances of Ledger for TLC.  Account 1 is the bank (an asset that *)
(* may go negative), 2 a wallet and 3 a shop (liabilities that may not), 4  *)
(* a shop in another currency.                                             *)
(***************************************************************************)
EXTENDS LedgerView

CONSTANTS s1, s2   \* sessions, as model values

MCDebitNormal   == {1}
MCAllowNegative == {1}
MCCurrencyOf    == [a \in Account |-> IF a = 4 THEN "eur" ELSE "usd"]

\* A leg in US dollars.
Usd(a, d, n) == [account |-> a, direction |-> d, amount |-> n, currency |-> "usd"]

Move(from, to, n, pending) ==
  Plain(<< Usd(from, Debit, n), Usd(to, Credit, n) >>, pending, None, None)

\* Two units into the wallet, in two legs on the same account.
DepositTwice == Plain(<< Usd(1, Debit, 2), Usd(2, Credit, 1), Usd(2, Credit, 1) >>, FALSE,
                      None, None)

\* A hold of two units split over two accounts: half of it rounds one part to 0.
SplitHold == Plain(<< Usd(2, Debit, 2), Usd(3, Credit, 1), Usd(1, Credit, 1) >>, TRUE,
                   None, None)

\* A dollar leg on the euro account.
Crossed == Move(1, 4, 1, FALSE)

MCRequest == {DepositTwice, SplitHold, Move(2, 3, 1, FALSE), Move(3, 2, 1, FALSE),
              Move(1, 3, 2, TRUE), Crossed}

MCAllAccounts == Account

\* One authorization.
MCHold == {Move(1, 2, 1, TRUE)}
=============================================================================

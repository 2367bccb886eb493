------------------------------ MODULE Entries -------------------------------
(***************************************************************************)
(* What an entry does to its account, as internal/ledger/types.go defines  *)
(* it, and what it means for entries to lead from one balance to another.  *)
(* The detailed ledger (Ledger) and the abstract one (Journal) share it.   *)
(***************************************************************************)
EXTENDS Money

CONSTANTS
  Account,      \* account ids
  DebitNormal,  \* the accounts whose normal balance is debit
  CurrencyOf    \* the currency of each account

ASSUME NormalSideAssumption == DebitNormal \subseteq Account
ASSUME FiniteAssumption == IsFiniteSet(Account)

Debit  == "debit"
Credit == "credit"

Opposite(d) == IF d = Debit THEN Credit ELSE Debit

NormalBalance(a) == IF a \in DebitNormal THEN Debit ELSE Credit

\* The change a leg makes to its account, in the account's normal direction.
SignedDelta(leg) ==
  IF leg.direction = NormalBalance(leg.account) THEN leg.amount ELSE -leg.amount

\* The change an entry makes to the posted balance of its account.
PostedDelta(e) == IF e.pending THEN 0 ELSE SignedDelta(e)

EquationSign(a) == IF a \in DebitNormal THEN 1 ELSE -1

AccountsIn(c) == {a \in Account : CurrencyOf[a] = c}

\* The entries E are whole postings, each with a side that makes up for the
\* other: in every currency the posted ones, restated as debits, cancel out.
Settled(E) ==
  /\ IsFiniteSet(E)
  /\ \A e \in E : e.account \in Account /\ e.amount \in Int
  /\ \A a \in Account :
       LET same == {e \in E : CurrencyOf[e.account] = CurrencyOf[a]}
       IN SumFunction([e \in same |-> EquationSign(e.account) * PostedDelta(e)]) = 0

\* The row of account_balances that CreateAccount inserts with an account.
ZeroBalance == [posted |-> 0, pending |-> 0, version |-> 0]

\* Mutant: holds are not subtracted.
AvailableIgnoringHolds(b) == b.posted

\* What an authorization may draw against, in int64 arithmetic.
Available(b) ==
  IF b.pending < 0 THEN Wrap(b.posted + b.pending) ELSE b.posted

\* e is the entry immediately before f among the entries E.
Precedes(e, f, E) == e.id < f.id /\ ~ \E g \in E : e.id < g.id /\ g.id < f.id

\* The entries E, in id order, carry base plus the posted changes so far, and
\* end at last.
Chain(E, base, last) ==
  /\ \A e, f \in E : e.id = f.id => e = f
  /\ \A f \in E : (\A g \in E : f.id <= g.id) => f.after = base + PostedDelta(f)
  /\ \A e, f \in E : Precedes(e, f, E) => f.after = e.after + PostedDelta(f)
  /\ \A e \in E : (\A g \in E : g.id <= e.id) => e.after = last
  /\ E # {} => \E e \in E : \A g \in E : g.id <= e.id
  /\ E = {} => last = base
=============================================================================

----------------------------- MODULE Reconciler -----------------------------
(***************************************************************************)
(* One pass of the reconciler (internal/workers/reconciler.go): a trial    *)
(* balance for every currency and then the accounts whose stored balance   *)
(* is not the sum of their entries.  Every query is a statement of its own,*)
(* so transactions commit between them, and a balance may be changed       *)
(* behind the ledger's back, which is what the pass is there to find.      *)
(***************************************************************************)
EXTENDS Journal

CONSTANT MaxDrifts   \* bound: balances changed behind the ledger's back

VARIABLES
  pass,     \* the stage of the pass, the currencies it has not checked yet, the
            \* trial balances and accounts it has found, and the accounts that
            \* had drifted when it began
  drifted   \* the accounts whose posted balance was changed without an entry

reconcilerVars == << balance, journal, pass, drifted >>

Currencies == {CurrencyOf[a] : a \in Account}

ReconcilerInit ==
  /\ JournalInit
  /\ pass = [stage |-> "idle", todo |-> {}, trial |-> [c \in Currencies |-> 0],
             found |-> {}, before |-> {}]
  /\ drifted = {}

BalanceRow == [posted : Int, pending : Int, version : Int]

\* The ledger publishes whole postings, which is what it promises of the entries
\* it commits besides being a Journal.
Settle ==
  /\ Publish
  /\ Settled(journal') /\ balance' \in [Account -> BalanceRow]
  /\ UNCHANGED << pass, drifted >>

\* A balance row is updated without an entry, as the reconciler's tests do it.
Drift(a) ==
  /\ a \notin drifted /\ Cardinality(drifted) < MaxDrifts
  /\ balance' = [balance EXCEPT ![a].posted = @ + 1]
  /\ drifted' = drifted \cup {a}
  /\ UNCHANGED << journal, pass >>

\* The posted balances of a currency, restated as debits.
TrialBalance(c) ==
  SumFunction([a \in AccountsIn(c) |-> EquationSign(a) * balance[a].posted])

\* Mutant: holds are summed with the posted entries.
DriftedWithHolds ==
  {a \in Account : balance[a].posted # SumFunction([e \in On(a) |-> SignedDelta(e)])}

\* The accounts whose stored balance is not the sum of their posted entries.
DriftedAccounts ==
  {a \in Account : balance[a].posted # SumFunction([e \in On(a) |-> PostedDelta(e)])}

\* Mutant: only the trial balances are looked at.
CleanTrial(trial, found) == \A c \in Currencies : trial[c] = 0

\* Report.Clean.
Clean(trial, found) == found = {} /\ \A c \in Currencies : trial[c] = 0

BeginPass ==
  /\ pass.stage = "idle"
  /\ pass' = [pass EXCEPT !.stage = "trial", !.todo = Currencies, !.before = drifted]
  /\ UNCHANGED << balance, journal, drifted >>

CheckCurrency ==
  /\ pass.stage = "trial"
  /\ \E c \in pass.todo :
       pass' = [pass EXCEPT !.trial[c] = TrialBalance(c), !.todo = @ \ {c}]
  /\ UNCHANGED << balance, journal, drifted >>

CheckDrift ==
  /\ pass.stage = "trial"
  /\ pass.todo = {}
  /\ pass' = [pass EXCEPT
       !.found = DriftedAccounts,
       !.stage = IF Clean(pass.trial, DriftedAccounts) THEN "clean" ELSE "drift"]
  /\ UNCHANGED << balance, journal, drifted >>

\* A query fails: "I could not check" is not "the books are wrong".
PassFails ==
  /\ pass.stage = "trial"
  /\ pass' = [pass EXCEPT !.stage = "error"]
  /\ UNCHANGED << balance, journal, drifted >>

PassStep == BeginPass \/ CheckCurrency \/ CheckDrift \/ PassFails

ReconcilerNext == Settle \/ (\E a \in Account : Drift(a)) \/ PassStep

ReconcilerSpec == ReconcilerInit /\ [][ReconcilerNext]_reconcilerVars

-----------------------------------------------------------------------------
(* Properties *)

\* The page never goes off for books that are right, whatever commits between
\* the queries of a pass (Reconciler.Run, reconciler.go:84-150): a report of a
\* drift means that a balance was changed behind the ledger's back.
NoFalseAlarm == pass.stage = "drift" => drifted # {}

\* A pass that ends clean began with no drifted balance, drifts that cancel in
\* the trial balance included (Report.Clean, reconciler.go:45-55), and a pass
\* that ends in a drift names every account that had drifted when it began.
NoMissedDrift ==
  /\ pass.stage = "clean" => pass.before = {}
  /\ pass.stage = "drift" => pass.before \subseteq pass.found
=============================================================================

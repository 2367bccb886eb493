------------------------------ MODULE Journal -------------------------------
(***************************************************************************)
(* The ledger as its readers see it: what the locks, the working copies    *)
(* and the two writes of a posting in Ledger add up to.  There are only    *)
(* the materialized balances and the entries, and one kind of step, in     *)
(* which the entries of some new transactions and the balances they lead   *)
(* to appear together.                                                     *)
(***************************************************************************)
EXTENDS Entries

CONSTANT AllowNegative   \* the accounts that may go below zero

VARIABLES
  balance,   \* the balance GetBalance returns for each account
  journal    \* the entries that ListEntries and EntriesByTransaction read

journalVars == << balance, journal >>

JournalInit ==
  /\ balance = [a \in Account |-> ZeroBalance]
  /\ journal = {}

New == journal' \ journal

On(a) == {e \in journal : e.account = a}

NewOn(a) == {e \in New : e.account = a}

\* Entries of transactions that had none appear at the end of their accounts.
AtTheEnd ==
  /\ journal \subseteq journal'
  /\ \A f \in New : f.id \in Nat
  /\ \A e \in journal, f \in New :
       /\ e.txn # f.txn
       /\ e.account = f.account => e.id < f.id

\* The new entries of an account lead from its old balance to its new one,
\* whose version is larger; an account without new entries stays as it is.
BalanceFollows(a) ==
  /\ Chain(NewOn(a), balance[a].posted, balance'[a].posted)
  /\ IF NewOn(a) = {} THEN balance'[a] = balance[a]
                      ELSE balance'[a].version > balance[a].version

Publish ==
  /\ AtTheEnd
  /\ \A a \in Account : BalanceFollows(a)
  /\ \A a \in Account \ AllowNegative : Available(balance'[a]) >= 0

\* One transaction with these legs becomes visible: the way to publish that
\* the readers' models use as their environment.
Record(legs, pending) ==
  LET last  == Max({e.id : e \in journal} \cup {0})
      txn   == 1 + Max({e.txn : e \in journal} \cup {0})
      moved(a, n) ==
        MapThenSumSet(LAMBDA i : SignedDelta(legs[i]),
                      {i \in 1 .. n : legs[i].account = a})
      posted(a, n) == balance[a].posted + (IF pending THEN 0 ELSE moved(a, n))
      entry(i) ==
        [id |-> last + i, txn |-> txn, account |-> legs[i].account,
         direction |-> legs[i].direction, amount |-> legs[i].amount,
         pending |-> pending, after |-> posted(legs[i].account, i)]
      touched == {legs[i].account : i \in DOMAIN legs}
  IN /\ journal' = journal \cup {entry(i) : i \in DOMAIN legs}
     /\ balance' = [a \in Account |->
          IF a \notin touched THEN balance[a]
          ELSE [posted  |-> posted(a, Len(legs)),
                pending |-> balance[a].pending +
                              (IF pending THEN moved(a, Len(legs)) ELSE 0),
                version |-> balance[a].version + 1]]
     /\ Publish

JournalSpec == JournalInit /\ [][Publish]_journalVars
=============================================================================

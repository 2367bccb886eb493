------------------------------- MODULE Chart -------------------------------
(***************************************************************************)
(* The first payments of a merchant: EnsureChart of                        *)
(* internal/payments/chart.go run by several callers at once.              *)
(*                                                                         *)
(* Each caller resolves the accounts of the chart inside the database      *)
(* transaction of its payment.  It lists the merchant's accounts once, and *)
(* then takes each account of the chart from that list or inserts it.  The *)
(* table has a unique index on the merchant and the name.                  *)
(***************************************************************************)
EXTENDS Naturals, FiniteSets

CONSTANTS
  Caller,     \* concurrent requests of one merchant
  Size,       \* accounts in the chart; EnsureChart takes them in this order
  MaxAborts,  \* bound: transactions that fail for another reason
  Unset       \* no account, caller or chart

ASSUME SizeAssumption == Size \in Nat \ {0}
ASSUME AbortsAssumption == MaxAborts \in Nat
ASSUME UnsetAssumption == Unset \notin Nat /\ Unset \notin Caller

Name == 1 .. Size

VARIABLES
  account,   \* the id behind each name in the unique index, committed or not
  open,      \* the caller whose open transaction inserted it
  byName,    \* what ListAccounts returned to each caller
  chart,     \* the accounts each caller has resolved
  stage,     \* where each caller is
  used,      \* the chart that each caller last committed a payment on
  refused,   \* how often each caller got ErrAccountExists
  nextId,    \* ids drawn so far
  aborts     \* transactions that failed for another reason so far

chartVars == << account, open, byName, chart, stage, used, refused, nextId, aborts >>

Unresolved == [n \in Name |-> Unset]

ChartInit ==
  /\ account = Unresolved
  /\ open = [n \in Name |-> Unset]
  /\ byName = [c \in Caller |-> Unresolved]
  /\ chart = [c \in Caller |-> Unresolved]
  /\ stage = [c \in Caller |-> "idle"]
  /\ used = [c \in Caller |-> Unset]
  /\ refused = [c \in Caller |-> 0]
  /\ nextId = 1
  /\ aborts = 0

\* Mutant: the list stops one account short.
ListPage(c) ==
  /\ stage[c] = "idle"
  /\ used[c] = Unset
  /\ byName' = [byName EXCEPT ![c] =
       [n \in Name |-> IF open[n] = Unset /\ n < Size THEN account[n] ELSE Unset]]
  /\ stage' = [stage EXCEPT ![c] = "ensure"]
  /\ UNCHANGED << account, open, chart, used, refused, nextId, aborts >>

\* ListAccounts reads the committed accounts.
List(c) ==
  /\ stage[c] = "idle"
  /\ used[c] = Unset
  /\ byName' = [byName EXCEPT ![c] =
       [n \in Name |-> IF open[n] = Unset THEN account[n] ELSE Unset]]
  /\ stage' = [stage EXCEPT ![c] = "ensure"]
  /\ UNCHANGED << account, open, chart, used, refused, nextId, aborts >>

\* Mutant: the accounts are taken in any order.
AtAny(c, n) == stage[c] = "ensure" /\ chart[c][n] = Unset

\* The caller has come to the account n of the chart.
At(c, n) ==
  /\ stage[c] = "ensure"
  /\ chart[c][n] = Unset
  /\ \A m \in 1 .. (n - 1) : chart[c][m] # Unset

Resolve(c, n, id) == chart' = [chart EXCEPT ![c][n] = id]

\* The account was in the list.
Reuse(c) ==
  \E n \in Name :
    /\ At(c, n)
    /\ byName[c][n] # Unset
    /\ Resolve(c, n, byName[c][n])
    /\ UNCHANGED << account, open, byName, stage, used, refused, nextId, aborts >>

\* Mutant: the table has no unique index.
NameAlwaysFree(n) == TRUE

\* The unique index lets an insert of the name through.  An insert that meets
\* one of an open transaction waits for it to end.
NameFree(n) == account[n] = Unset

\* CreateAccount inserts it.
Create(c) ==
  \E n \in Name :
    /\ At(c, n)
    /\ byName[c][n] = Unset
    /\ NameFree(n)
    /\ account' = [account EXCEPT ![n] = nextId]
    /\ open' = [open EXCEPT ![n] = c]
    /\ nextId' = nextId + 1
    /\ Resolve(c, n, nextId)
    /\ UNCHANGED << byName, stage, used, refused, aborts >>

\* The transaction of c ends; an account it inserted stays or goes with it.
End(c, kept) ==
  /\ account' = [n \in Name |-> IF open[n] = c /\ ~ kept THEN Unset ELSE account[n]]
  /\ open' = [n \in Name |-> IF open[n] = c THEN Unset ELSE open[n]]
  /\ byName' = [byName EXCEPT ![c] = Unresolved]
  /\ chart' = [chart EXCEPT ![c] = Unresolved]
  /\ stage' = [stage EXCEPT ![c] = "idle"]
  /\ UNCHANGED nextId

\* CreateAccount meets a committed account of that name: ErrAccountExists fails
\* the payment.
Conflict(c) ==
  \E n \in Name :
    /\ At(c, n)
    /\ byName[c][n] = Unset
    /\ account[n] # Unset
    /\ open[n] = Unset
    /\ refused' = [refused EXCEPT ![c] = @ + 1]
    /\ End(c, FALSE)
    /\ UNCHANGED << used, aborts >>

\* The payment is posted on the chart and committed.
CommitPayment(c) ==
  /\ stage[c] = "ensure"
  /\ \A n \in Name : chart[c][n] # Unset
  /\ used' = [used EXCEPT ![c] = chart[c]]
  /\ End(c, TRUE)
  /\ UNCHANGED << refused, aborts >>

\* The transaction fails for any other reason.
Abort(c) ==
  /\ stage[c] = "ensure"
  /\ aborts < MaxAborts
  /\ aborts' = aborts + 1
  /\ End(c, FALSE)
  /\ UNCHANGED << used, refused >>

ChartStep(c) == List(c) \/ Reuse(c) \/ Create(c) \/ Conflict(c) \/ CommitPayment(c)

ChartNext == \E c \in Caller : ChartStep(c) \/ Abort(c)

\* A caller that was not served tries again, and a waiting insert goes on when
\* the transaction it waits for has ended.
ChartSpec == ChartInit /\ [][ChartNext]_chartVars /\ \A c \in Caller : WF_chartVars(ChartStep(c))

-----------------------------------------------------------------------------
(* Properties *)

\* Whatever the race, all payments of the merchant are posted on the same
\* accounts, and those are the ones in the table: the race never ends with a
\* duplicate (chart.go:71-74).
OneChart == \A c \in Caller : used[c] # Unset => used[c] = account

\* Every caller that keeps trying gets its payment through: callers insert in
\* the same order, so they do not wait for each other in a circle, and a caller
\* that is refused finds the accounts in its next list.
EventuallyServed == \A c \in Caller : <>(used[c] # Unset)

\* The race does not end with the loser reusing the winner's account, as
\* chart.go:71-74 has it: the loser's insert fails with ErrAccountExists and its
\* payment with it (chart.go:95-105).  But a caller loses this race only once:
\* the winner's commit shows it the whole chart, whichever transactions failed in
\* between.
RefusedOnce == \A c \in Caller : refused[c] <= 1
=============================================================================

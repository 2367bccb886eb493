------------------------------- MODULE Ledger -------------------------------
(***************************************************************************)
(* The double-entry ledger: the service of internal/ledger/service.go over *)
(* the PostgreSQL repository of internal/postgres.                         *)
(*                                                                         *)
(* Several database sessions run the service's operations concurrently at  *)
(* isolation level READ COMMITTED.  An operation is one database           *)
(* transaction that makes one or two postings.  Each posting locks the     *)
(* balance rows it touches one at a time in ascending account order,       *)
(* applies its entries to a private copy of the balances, and writes the   *)
(* transaction, the entries and the balances.  Nothing of it is visible to *)
(* other sessions before the commit.                                       *)
(***************************************************************************)
EXTENDS Entries

CONSTANTS
  Session,        \* concurrent database sessions
  TxnId,          \* ids that id.New may return for transactions
  AllowNegative,  \* the accounts that may go below zero
  Request,        \* the transaction specs that callers submit to Post
  CaptureAmount,  \* the amounts that callers of Capture ask for
  ExternalRef,    \* the external objects (payments) a transaction may belong to
  Role,           \* the parts that a transaction may play in such an object
  Ops,            \* the operations that callers use
  MaxOps,         \* bound: operations begun in a behaviour
  None            \* the absent transaction id, session, or row

ASSUME NoneAssumption == None \notin Session /\ None \notin TxnId
ASSUME IdAssumption == Account \subseteq Nat /\ TxnId \subseteq Nat
ASSUME ChartAssumption == AllowNegative \subseteq Account
ASSUME BoundAssumption == MaxOps \in Nat
ASSUME RequestAssumption ==
  \A spec \in Request :
    /\ spec.pending \in BOOLEAN
    /\ spec.ref \in ExternalRef \cup {None}
    /\ spec.role \in Role \cup {None}
    /\ spec.releases = None
    /\ spec.reverses = None

VARIABLES
  row,        \* account_balances: the newest version of each row
  committed,  \* account_balances: the version that other sessions read
  txns,       \* transactions, by id
  entries,    \* entries, a set of rows
  live,       \* ids of the transactions each session has not committed yet
  nextEntry,  \* the sequence behind entries.id
  lock,       \* the session that holds the row lock of each balance
  pc,         \* where each session is
  job,        \* what each session still has to post
  toLock,     \* the accounts LockAccounts has not locked yet
  running,    \* the working copies of the balances in apply
  drafts,     \* the entries apply has built for the current posting
  begun       \* operations begun so far

vars == << row, committed, txns, entries, live, nextEntry, lock, pc, job,
           toLock, running, drafts, begun >>

-----------------------------------------------------------------------------
(* Values *)

Currency == {CurrencyOf[a] : a \in Account}

\* EntrySpec: one side of a transaction against one account.
Leg == [account : Account, direction : {Debit, Credit}, amount : 1 .. MaxInt64,
        currency : Currency]

LegsOn(legs, d) == {i \in DOMAIN legs : legs[i].direction = d}

\* The sum of one side of a transaction; Transaction.Total is the debit side.
SideTotal(legs, d) == SumFunction([i \in LegsOn(legs, d) |-> legs[i].amount])

Currencies(legs) == {legs[i].currency : i \in DOMAIN legs}

Balanced(legs) ==
  /\ SideTotal(legs, Debit) = SideTotal(legs, Credit)
  /\ SideTotal(legs, Debit) > 0
  /\ Cardinality(Currencies(legs)) = 1

\* TransactionSpec.Validate: every leg has a direction and a positive int64
\* amount, one currency, neither side overflows, and the sides agree.  An
\* account that does not exist is refused here too; in the code LockAccounts
\* refuses it, before anything is written.
Validate(spec) ==
  /\ spec.legs \in Seq(Leg) \ {<< >>}
  /\ \A d \in {Debit, Credit} : SideTotal(spec.legs, d) <= MaxInt64
  /\ Balanced(spec.legs)

AccountIDs(spec) == {spec.legs[i].account : i \in DOMAIN spec.legs}

\* The same legs in the opposite directions: the body shared by Capture, Void
\* and Reverse.
Mirror(legs) ==
  [i \in DOMAIN legs |->
     [legs[i] EXCEPT !.direction = Opposite(legs[i].direction)]]

\* The position of leg i among the legs of its own side.
SideIndex(legs, i) ==
  Cardinality({j \in LegsOn(legs, legs[i].direction) : j <= i})

\* The amounts of one side, in order.
SideAmounts(legs, d) ==
  LET side == SelectSeq(legs, LAMBDA leg : leg.direction = d)
  IN [n \in DOMAIN side |-> side[n].amount]

\* scaleEntries: each side is allocated on its own over its original amounts,
\* and the parts that round to zero are dropped.
ScaleEntries(legs, capture) ==
  LET part(i) ==
        Allocate(capture, SideAmounts(legs, legs[i].direction))[SideIndex(legs, i)]
      scaled == [i \in DOMAIN legs |-> [legs[i] EXCEPT !.amount = part(i)]]
  IN IF capture = SideTotal(legs, Debit)
     THEN legs
     ELSE SelectSeq(scaled, LAMBDA leg : leg.amount # 0)

Status == {"pending", "posted", "voided"}

Balance == [posted : Int64, pending : Int64, version : Nat]

Transaction ==
  [legs : Seq(Leg), status : Status, pending : BOOLEAN,
   ref : ExternalRef \cup {None}, role : Role \cup {None},
   releases : TxnId \cup {None}, reverses : TxnId \cup {None}]

Draft ==
  [id : Nat, account : Account, direction : {Debit, Credit},
   amount : 1 .. MaxInt64, pending : BOOLEAN, after : Int64]

Entry ==
  [id : Nat, txn : TxnId, account : Account, direction : {Debit, Credit},
   amount : 1 .. MaxInt64, pending : BOOLEAN, after : Int64]

ASSUME NoRowAssumption == None \notin Transaction

\* A posting on its own: what a caller of Post submits.  Of the metadata the
\* model keeps the role a payment gives the transaction and the transaction it
\* releases.
Plain(legs, pending, ref, role) ==
  [legs |-> legs, pending |-> pending, ref |-> ref, role |-> role,
   releases |-> None, reverses |-> None]

\* What a session has to do: the current posting, the index of the next leg
\* apply looks at, the posting that follows it or None, and the transaction
\* SetTransactionStatus updates last with its new status.
NoJob == [post |-> None, next |-> 1, then |-> None, target |-> None, final |-> None]

Current(s) == job[s].post

-----------------------------------------------------------------------------
(* What other sessions can see *)

Uncommitted == UNION {live[s] : s \in Session}

CommittedTxns == {t \in TxnId : txns[t] # None /\ t \notin Uncommitted}

CommittedEntries == {e \in entries : e.txn \notin Uncommitted}

-----------------------------------------------------------------------------

Init ==
  /\ row = [a \in Account |-> ZeroBalance]
  /\ committed = [a \in Account |-> ZeroBalance]
  /\ txns = [t \in TxnId |-> None]
  /\ entries = {}
  /\ live = [s \in Session |-> {}]
  /\ nextEntry = 1
  /\ lock = [a \in Account |-> None]
  /\ pc = [s \in Session |-> "idle"]
  /\ job = [s \in Session |-> NoJob]
  /\ toLock = [s \in Session |-> {}]
  /\ running = [s \in Session |-> [a \in Account |-> ZeroBalance]]
  /\ drafts = [s \in Session |-> {}]
  /\ begun = 0

-----------------------------------------------------------------------------
(* Beginning an operation.  The reads made here are plain SELECTs: they see *)
(* committed rows and lock nothing.                                         *)

Begin(s, op, post, then, target, final) ==
  /\ op \in Ops
  /\ pc[s] = "idle"
  /\ begun < MaxOps
  /\ Validate(post)
  /\ begun' = begun + 1
  /\ pc' = [pc EXCEPT ![s] = "lock"]
  /\ job' = [job EXCEPT ![s] =
       [post |-> post, next |-> 1, then |-> then, target |-> target,
        final |-> final]]
  /\ toLock' = [toLock EXCEPT ![s] = AccountIDs(post)]
  /\ UNCHANGED << row, committed, txns, entries, live, nextEntry, lock,
                  running, drafts >>

Post(s) == \E spec \in Request : Begin(s, "post", spec, None, None, None)

\* The full release of an authorization: every leg mirrored, still pending.
Release(t) ==
  [legs |-> Mirror(txns[t].legs), pending |-> TRUE, ref |-> txns[t].ref,
   role |-> None, releases |-> t, reverses |-> None]

\* Void releases the hold and marks the authorization voided.
Void(s) ==
  \E t \in CommittedTxns :
    /\ txns[t].status = "pending"
    /\ Begin(s, "void", Release(t), None, t, "voided")

\* Capture releases the whole hold, posts the captured part of it, and marks
\* the authorization posted.
Capture(s) ==
  \E t \in CommittedTxns :
    LET authorized == SideTotal(txns[t].legs, Debit) IN
    \E capture \in CaptureAmount \cup {authorized} :
      /\ txns[t].status = "pending"
      /\ capture \in 1 .. authorized
      /\ Begin(s, "capture",
               Release(t),
               Plain(ScaleEntries(txns[t].legs, capture), FALSE, txns[t].ref, None),
               t, "posted")

\* Reverse posts the mirror image of a posted transaction that no committed
\* transaction reverses yet.
Reverse(s) ==
  \E t \in CommittedTxns :
    /\ txns[t].status = "posted"
    /\ \A u \in CommittedTxns : txns[u].reverses # t
    /\ Begin(s, "reverse",
             [legs |-> Mirror(txns[t].legs), pending |-> FALSE,
              ref |-> txns[t].ref, role |-> None,
              releases |-> None, reverses |-> t], None, None, None)

-----------------------------------------------------------------------------
(* The critical section of Post *)

\* Mutant: the row is read without FOR UPDATE.
CanLockAnyway(s, a) == TRUE

\* The row lock of a is free, or the session's own from an earlier posting.
CanLock(s, a) == lock[a] \in {None, s}

\* Mutant: the accounts are locked in the order of the entries, unsorted.
IsNextLeg(s, a) ==
  LET index(b) == Min({i \in DOMAIN Current(s).legs : Current(s).legs[i].account = b})
  IN \A b \in toLock[s] : index(a) <= index(b)

\* a is the account LockAccounts locks next: ORDER BY account_id.
IsNext(s, a) == \A b \in toLock[s] : a <= b

\* LockAccounts takes the row lock of the smallest account it has not locked
\* yet, waiting while another session holds it, and reads the row behind the
\* lock: SELECT ... ORDER BY account_id FOR UPDATE.
LockRow(s) ==
  /\ pc[s] = "lock"
  /\ \E a \in toLock[s] :
       /\ IsNext(s, a)
       /\ CanLock(s, a)
       /\ lock' = [lock EXCEPT ![a] = s]
       /\ running' = [running EXCEPT ![s][a] = row[a]]
       /\ toLock' = [toLock EXCEPT ![s] = @ \ {a}]
       /\ pc' = [pc EXCEPT ![s] = IF toLock[s] = {a} THEN "apply" ELSE @]
  /\ UNCHANGED << row, committed, txns, entries, live, nextEntry, job,
                  drafts, begun >>

NextLeg(s) == Current(s).legs[job[s].next]

\* Mutant: each leg starts from the balance read under the lock, so a posting
\* that touches an account twice forgets its first leg.
LockedBalance(s, a) == row[a]

\* The working copy that a leg on account a starts from.
WorkingBalance(s, a) == running[s][a]

\* The figure the next leg moves, plus the leg, with overflow detection.
Moved(s) ==
  LET b == WorkingBalance(s, NextLeg(s).account)
  IN addInt64(IF Current(s).pending THEN b.pending ELSE b.posted,
              SignedDelta(NextLeg(s)))

\* The working balance of the leg's account after the leg.
Applied(s) ==
  LET b == WorkingBalance(s, NextLeg(s).account)
  IN IF Current(s).pending THEN [b EXCEPT !.pending = Moved(s).val]
                           ELSE [b EXCEPT !.posted = Moved(s).val]

\* Mutant: the currency of the account is not compared.
EntryFits(s) == Moved(s).ok

\* The leg is in its account's currency and the sum fits an int64.
EntryAllowed(s) ==
  /\ NextLeg(s).currency = CurrencyOf[NextLeg(s).account]
  /\ Moved(s).ok

\* Mutant: the entry records the posted balance before it.
DraftBefore(s) ==
  [id |-> job[s].next, account |-> NextLeg(s).account,
   direction |-> NextLeg(s).direction, amount |-> NextLeg(s).amount,
   pending |-> Current(s).pending,
   after |-> running[s][NextLeg(s).account].posted]

\* The entry apply builds for the next leg: it records the account's posted
\* balance immediately after it.  Its id is its ordinal within the transaction
\* until AppendEntries draws the real one.
DraftEntry(s) ==
  [id |-> job[s].next, account |-> NextLeg(s).account,
   direction |-> NextLeg(s).direction, amount |-> NextLeg(s).amount,
   pending |-> Current(s).pending, after |-> Applied(s).posted]

\* One iteration of the loop of apply.
ApplyEntry(s) ==
  /\ pc[s] = "apply"
  /\ job[s].next <= Len(Current(s).legs)
  /\ EntryAllowed(s)
  /\ running' = [running EXCEPT ![s][NextLeg(s).account] = Applied(s)]
  /\ drafts' = [drafts EXCEPT ![s] = @ \cup {DraftEntry(s)}]
  /\ job' = [job EXCEPT ![s].next = @ + 1]
  /\ UNCHANGED << row, committed, txns, entries, live, nextEntry, lock, pc,
                  toLock, begun >>

\* I6: no account of the posting that may not go negative ends below zero.
Sufficient(s) ==
  \A a \in AccountIDs(Current(s)) \ AllowNegative : Available(running[s][a]) >= 0

\* Mutant: there is no unique index.
ReversalUnchecked(s) == TRUE

\* The unique index on transactions.reverses_id.
ReversalIsNew(s) ==
  Current(s).reverses # None =>
    \A t \in TxnId :
      txns[t] # None => txns[t].reverses # Current(s).reverses

\* ApplyBalance updates a row only if it has the version read under the lock.
VersionMatches(s) ==
  \A a \in AccountIDs(Current(s)) : row[a].version = running[s][a].version

\* Every check between the loop of apply and the next posting or the commit.
WriteAllowed(s) ==
  /\ Sufficient(s)
  /\ ReversalIsNew(s)
  /\ VersionMatches(s)
  /\ job[s].then # None => Validate(job[s].then)

\* Mutant: the version stays as it is.
SameVersion(b) == b

\* The row that ApplyBalance stores for the working balance b.
NextVersion(b) == [b EXCEPT !.version = @ + 1]

\* The rest of Post after the loop of apply: the sufficient-funds check,
\* InsertTransaction, AppendEntries and ApplyBalances.  The next posting of
\* the operation follows, or the commit.
Write(s) ==
  /\ pc[s] = "apply"
  /\ job[s].next > Len(Current(s).legs)
  /\ WriteAllowed(s)
  /\ \E t \in TxnId :
       /\ txns[t] = None
       /\ \A u \in TxnId : txns[u] = None => t <= u
       /\ txns' = [txns EXCEPT ![t] =
            [legs |-> Current(s).legs,
             status |-> IF Current(s).pending THEN "pending" ELSE "posted",
             pending |-> Current(s).pending,
             ref |-> Current(s).ref,
             role |-> Current(s).role,
             releases |-> Current(s).releases,
             reverses |-> Current(s).reverses]]
       /\ live' = [live EXCEPT ![s] = @ \cup {t}]
       /\ entries' = entries \cup
            {[id |-> nextEntry + d.id, txn |-> t, account |-> d.account,
              direction |-> d.direction, amount |-> d.amount,
              pending |-> d.pending, after |-> d.after] : d \in drafts[s]}
  /\ nextEntry' = nextEntry + Len(Current(s).legs)
  /\ row' = [a \in Account |->
       IF a \in AccountIDs(Current(s))
       THEN NextVersion(running[s][a])
       ELSE row[a]]
  /\ drafts' = [drafts EXCEPT ![s] = {}]
  /\ job' = [job EXCEPT ![s] =
       [post |-> @.then, next |-> 1, then |-> None, target |-> @.target,
        final |-> @.final]]
  /\ pc' = [pc EXCEPT ![s] = IF job[s].then = None THEN "commit" ELSE "lock"]
  /\ toLock' = [toLock EXCEPT ![s] =
       IF job[s].then = None THEN {} ELSE AccountIDs(job[s].then)]
  /\ UNCHANGED << committed, lock, running, begun >>

-----------------------------------------------------------------------------
(* The end of the database transaction *)

\* The deferred constraint trigger on entries.
TriggerPasses(s) == \A t \in live[s] : Balanced(txns[t].legs)

\* The row locks once the transaction of s has ended.
Unlocked(s) == [a \in Account |-> IF lock[a] = s THEN None ELSE lock[a]]

\* The session drops its locks and its working state.
Done(s) ==
  /\ lock' = Unlocked(s)
  /\ live' = [live EXCEPT ![s] = {}]
  /\ pc' = [pc EXCEPT ![s] = "idle"]
  /\ job' = [job EXCEPT ![s] = NoJob]
  /\ toLock' = [toLock EXCEPT ![s] = {}]
  /\ running' = [running EXCEPT ![s] = [a \in Account |-> ZeroBalance]]
  /\ drafts' = [drafts EXCEPT ![s] = {}]
  /\ UNCHANGED << nextEntry, begun >>

\* The commit makes the session's rows visible, the status that
\* SetTransactionStatus wrote on the authorization included.  That update has
\* no condition on the status it replaces.
Commit(s) ==
  /\ pc[s] = "commit"
  /\ TriggerPasses(s)
  /\ committed' = [a \in Account |-> IF lock[a] = s THEN row[a] ELSE committed[a]]
  /\ txns' = [t \in TxnId |->
       IF t = job[s].target THEN [txns[t] EXCEPT !.status = job[s].final]
                            ELSE txns[t]]
  /\ UNCHANGED << row, entries >>
  /\ Done(s)

Rollback(s) ==
  /\ row' = [a \in Account |-> IF lock[a] = s THEN committed[a] ELSE row[a]]
  /\ txns' = [t \in TxnId |-> IF t \in live[s] THEN None ELSE txns[t]]
  /\ entries' = {e \in entries : e.txn \notin live[s]}
  /\ UNCHANGED committed
  /\ Done(s)

\* A check of the service or of the database refuses the operation.
Refused(s) ==
  \/ /\ pc[s] = "apply"
     /\ IF job[s].next <= Len(Current(s).legs)
        THEN ~ EntryAllowed(s)
        ELSE ~ WriteAllowed(s)
  \/ pc[s] = "commit" /\ ~ TriggerPasses(s)

\* InTx rolls the whole transaction back when any step returns an error.
Refuse(s) == Refused(s) /\ Rollback(s)

\* lock_timeout, statement_timeout, the deadlock detector, a cancelled request,
\* a failed commit, or a crash of the client or of the server: the transaction
\* is rolled back wherever it is.
Abort(s) == pc[s] # "idle" /\ Rollback(s)

-----------------------------------------------------------------------------

Step(s) == LockRow(s) \/ ApplyEntry(s) \/ Write(s) \/ Commit(s) \/ Refuse(s)

Call(s) == Post(s) \/ Void(s) \/ Capture(s) \/ Reverse(s)

Next == \E s \in Session : Call(s) \/ Step(s) \/ Abort(s)

Spec == Init /\ [][Next]_vars

\* A session that has begun keeps executing, and PostgreSQL grants a row lock
\* to a waiter in turn, so a wait that is possible again and again succeeds.
Fairness ==
  \A s \in Session :
    /\ SF_vars(LockRow(s))
    /\ WF_vars(ApplyEntry(s) \/ Write(s) \/ Commit(s) \/ Refuse(s))

LiveSpec == Spec /\ Fairness

-----------------------------------------------------------------------------
(* Properties *)

\* The type of every variable; balances, committed or not, fit an int64, so no
\* addition of apply (service.go) ever stores a sum the machine cannot hold.
TypeOK ==
  /\ row \in [Account -> Balance]
  /\ committed \in [Account -> Balance]
  /\ txns \in [TxnId -> Transaction \cup {None}]
  /\ entries \subseteq Entry
  /\ live \in [Session -> SUBSET TxnId]
  /\ nextEntry \in Nat
  /\ lock \in [Account -> Session \cup {None}]
  /\ pc \in [Session -> {"idle", "lock", "apply", "commit"}]
  /\ \A s \in Session : job[s].next \in Nat
  /\ toLock \in [Session -> SUBSET Account]
  /\ running \in [Session -> [Account -> Balance]]
  /\ drafts \in [Session -> SUBSET Draft]
  /\ begun \in Nat

\* I6: an account that may not go negative never has a negative available
\* balance, over the integers and not only in int64 arithmetic (the check of
\* apply, service.go:263).
NonNegative ==
  \A a \in Account \ AllowNegative :
    committed[a].posted + Min({committed[a].pending, 0}) >= 0

EntriesOf(a) == {e \in CommittedEntries : e.account = a}

\* The reconciler's query: accounts whose materialized posted balance is not the
\* sum of their posted entries.
DriftedAccounts ==
  {a \in Account :
     committed[a].posted # SumFunction([e \in EntriesOf(a) |-> PostedDelta(e)])}

\* The reconciler's other query: the posted balances of a currency, restated as
\* debits.
TrialBalanceOf(c) ==
  SumFunction([a \in AccountsIn(c) |-> EquationSign(a) * committed[a].posted])

\* I7: the materialized balances are the sums of the committed entries.  No pass
\* of the reconciler ever reports an account, and the pending balances, which it
\* does not look at, agree too.
MaterializedIsDerived ==
  /\ DriftedAccounts = {}
  /\ \A a \in Account :
       committed[a].pending =
         SumFunction([e \in EntriesOf(a) |-> SignedDelta(e) - PostedDelta(e)])

\* Replaying the committed entries of an account in id order, every entry
\* carries the posted balance after it and the last one carries the
\* materialized balance: what balance_after (service.go:248-252) is for.
Replay == \A a \in Account : Chain(EntriesOf(a), 0, committed[a].posted)

\* I8: in every currency the posted balances, restated as debits, cancel out, so
\* no pass of the reconciler reports a currency, and so do the pending ones.
TrialBalance ==
  \A c \in Currency :
    /\ TrialBalanceOf(c) = 0
    /\ SumFunction([a \in AccountsIn(c) |-> EquationSign(a) * committed[a].pending]) = 0

\* The version check of ApplyBalance never fails: under the row lock nobody
\* else changes the row ("The row lock should have made this unreachable",
\* internal/postgres/ledger.go:167).
VersionNeverConflicts ==
  \A s \in Session : pc[s] = "apply" => VersionMatches(s)

\* A transaction is reversed at most once, whichever sessions race through the
\* check of Reverse (service.go:425-429).
ReversedOnce ==
  \A t, u \in CommittedTxns :
    txns[t].reverses # None /\ txns[t].reverses = txns[u].reverses => t = u

\* s waits for a row lock that r holds.
WaitsFor(s, r) ==
  /\ pc[s] = "lock"
  /\ r # s
  /\ \E a \in toLock[s] : IsNext(s, a) /\ lock[a] = r

\* No set of sessions wait for one another: every posting locks its accounts
\* in ascending order (spec.go:112-117), and the second posting of Capture
\* only locks accounts the first one holds.
NoDeadlock ==
  \A D \in SUBSET Session \ {{}} :
    \E s \in D : \A r \in D : ~ WaitsFor(s, r)

\* The history of an account only grows at its end: a committed entry stays as
\* it is, and an entry committed later has a larger id than every entry of the
\* account committed before it, so paging by id never misses one (I4 and the
\* keyset pagination of ListEntries).
AppendOnly ==
  [][/\ CommittedEntries \subseteq CommittedEntries'
     /\ \A e \in CommittedEntries, f \in CommittedEntries' \ CommittedEntries :
          e.account = f.account => e.id < f.id]_vars

\* Every operation that has begun ends, in a commit or in a rollback, however
\* the sessions interleave.
Terminates == \A s \in Session : pc[s] # "idle" ~> pc[s] = "idle"

-----------------------------------------------------------------------------
(* What a comment of the code says and the code contradicts *)

\* An authorization is consumed once (service.go:296-297): at most one
\* committed transaction releases it, whichever captures and voids race.
ConsumedOnce ==
  \A t, u \in CommittedTxns :
    txns[t].releases # None /\ txns[t].releases = txns[u].releases => t = u
=============================================================================

# A TLA+ verification of ledgerd

ledgerd is a double-entry ledger and payments API in Go over PostgreSQL. This directory
holds a model of it in TLA+, the TLC configurations that check the model on small
instances, and proofs, checked by TLAPS, of the ledger and of most of the components
around it for instances of any size. `PROJECT.json` lists components, runs, mutants,
hazards, findings and theorems, and maps each definition to the lines it models.

    tlc -workers 2 -config MCLedger.cfg MCLedger     # one run
    for m in EntriesProofs Sums LedgerProofs LedgerRefinement LedgerBooks LedgerBalances \
             ComponentProofs ConcurrencyProofs; do tlapm $m.tla; done    # about 35 minutes

## 1. The system

| Part | State | Operations | Hard behaviour | What makes it correct |
|---|---|---|---|---|
| Ledger service (`internal/ledger`) | none of its own | Post, Void, Capture, Reverse, CreateAccount, reads | works from rows read under lock; some reads come before the lock | balanced, derived, non-negative, append-only books |
| PostgreSQL repository and schema (`internal/postgres`, `migrations`) | accounts, transactions, entries, account_balances | ordered `FOR UPDATE`, versioned update, deferred trigger, unique index, `InTx` | row-lock waits, read committed visibility, rollback at any statement | no lost update, no deadlock, all or nothing |
| Money (`internal/money`) | none | checked int64 arithmetic, MulBps, Allocate | overflow, rounding, signs | exact results or a detected overflow |
| Fees (`internal/payments/fees.go`) | none | Compute, RefundFee | rounding over many partial refunds | returned fees telescope |
| Payments (`internal/payments`) | none: derived from transactions with the payment's reference | Charge, Authorize, Capture, Cancel, Refund, Get | check and posting are separate; two postings in one transaction | the derived payment agrees with the books |
| Chart (`chart.go`) | accounts by name | EnsureChart | concurrent first payments | one chart per merchant and currency |
| Idempotency (`internal/idempotency`) | one record per merchant and key | Acquire, TakeOver, Complete, Release, replay, reap | leases, crashes, lost commits, late writers | money moves once, the right response is replayed |
| Webhooks (`internal/webhooks`) | outbox, endpoints, deliveries | dispatch, claim, attempt, settle, sweep, replay | leases, batches, crashes, stale endpoint status | no event lost, two workers on a row only after its lease ran out, the retry budget, everything comes to rest |
| Webhook signing (`signer.go`, `pkg/webhookverify`) | secrets of an endpoint | create, load, sign, verify, retire | a rotation between any two steps of a delivery, two clocks | a rotation costs no delivery |
| Reconciler and reaper (`internal/workers`) | none | trial balance, drift, delete expired keys | run beside everything else, a statement at a time | no false alarm, no missed drift |
| Account reads (`internal/httpapi/accounts.go`, `cursor.go`) | none | balance, statement by pages | commits between pages | a statement is a snapshot |
| Gateway (`internal/httpapi/auth.go`, `middleware.go`) | API keys, token buckets | create, revoke, authenticate, admit, require a role | keys change during a request | only live keys, a bounded rate |
| Identifiers (`internal/platform/id`) | last time and counter | encode | equal milliseconds, a clock that steps back | ids sort in the order of issue |
| Config, JSON canonicalisation, logging, wiring | none | per request | no protocol state | see section 7 |

How they interact: an HTTP handler opens one database transaction (`InTx`; a nested one
joins it), calls the payments or the ledger service in it, and records the response in the
same transaction (`completeIdempotent`). The ledger locks balance rows in ascending
account order and writes. The dispatcher, the delivery workers, the lease sweeper, the
reconciler and the reaper are loops of `workerd` that share only the database with the API.

## 2. Modules

| Module | Models | Extends |
|---|---|---|
| `Money` | int64 with overflow detection, Allocate | – |
| `Fees` | MulBps, fee schedule, refund fees | `Money` |
| `Entries` | directions, signed amounts, the chain of an account's entries, what it is for entries to cancel out | `Money` |
| `Ledger` | ledger service and its PostgreSQL repository | `Entries` |
| `Journal` | the ledger as readers see it: the abstract specification of `Ledger` | `Entries` |
| `Statement` | a client that reads a balance and pages through the entries | `Journal` |
| `Reconciler` | a reconciler pass, query by query | `Journal` |
| `Identifiers` | the id generator and its encoding | – |
| `RateLimiter` | the token buckets | – |
| `Gateway` | API keys and the checks in front of a handler | – |
| `Signing` | signing and verification through secret rotation | – |
| `LedgerView` | the mapping under which `Ledger` implements `Journal` | `Ledger` |
| `Payments` | payment operations and derivation, composed with the ledger | `Ledger`, `Fees` |
| `Chart` | concurrent EnsureChart | – |
| `Idempotency` | the middleware, its store, the reaper | – |
| `Webhooks` | dispatcher, workers, sweeper, endpoint health | – |
| `EntriesProofs` | lemmas on how a chain of entries grows | `Entries` |
| `Sums` | the laws of sums and cardinalities over finite sets | – |
| `LedgerProofs` | the inductive invariant of `Ledger`, that every action preserves it, and what follows | `Ledger`, `EntriesProofs` |
| `LedgerRefinement` | `Ledger` implements `Journal` | `LedgerProofs`, `LedgerView` |
| `LedgerBooks` | every balance is the sum of its entries | `LedgerProofs`, uses `Sums` |
| `LedgerBalances` | the balances and the visible entries of a currency cancel out; nothing is overdrawn | `LedgerBooks` |
| `ComponentProofs` | the theorems about `Statement`, `Reconciler`, `RateLimiter`, `Gateway` and `Signing` | those, uses `Sums` |
| `ConcurrencyProofs` | the theorems about `Chart`, `Idempotency` and `Webhooks` | those |
| `MC*` | instances for TLC; `MCComponents` also holds the harness that enumerates operands and refunds | the modules they instantiate |

### Ledger
A *session* is one database transaction run by one request. `row` is the newest version of
each balance row and `committed` the version others read; `live` are the transactions a
session has inserted and not committed. An operation starts in `Begin`, at the plain
SELECTs of `Capture`, `Void` and `Reverse`, which see committed rows and lock nothing. Then
`LockRow` takes the row locks one by one in account order, `ApplyEntry` is one iteration
of the loop of `apply`, and `Write` is the rest of `Post`: the check for sufficient funds, the
inserts and the versioned update. Those statements run under row locks that other
sessions wait for, so one step loses no interleaving on the balances. Capture and
payments.Capture continue with a second posting. `Commit` runs the deferred trigger,
publishes and includes the unconditional `SetTransactionStatus`. `Refuse` is any error of
the code, `Abort` any timeout, cancellation or crash; both roll back everything. A refused
call that would change nothing (a failed `Validate`, a wrong status) is a disabled action.

### Payments
Each handler is a ledger operation whose guard is the payment derived from committed
transactions (`State`, `Amount`, `Refunded`, `Totals` translate `derive`). Transfers and
reversals run against the same accounts. `Serial` says whether callers wait for one
operation on a payment before they start the next; the code does not enforce it, and the
violation runs drop it.

### Chart, Idempotency, Webhooks
`Chart` models the unique index with its wait for an open insert. `Idempotency` models one
key: `effects` are the executions that committed, with the time until the record would
expire. Timestamps are kept as the time left, `age` is the time since a request took its
own. `Webhooks` models one merchant's queue; every statement is a step, since attempts
run outside any transaction. The length of a lease is a configured value, so it is a variable, `lease`, which
takes any value of `Leases` in the initial state and never changes: one that outlasts a batch
and one that does not, as the defaults (50 deliveries of up to 5s under a lease of 60s), are both
behaviours of the specification. `late` is a history variable: the deliveries whose lease ran out while a
worker still had them in hand. Only `TickQueue` adds to it, and no guard reads it.

### Journal and its readers
`Journal` has the two things a reader can query: a balance per account and the entries.
Its one action, `Publish`, makes the entries of new transactions and the balances they
lead to visible together. `Ledger` implements it under the mapping
`balance <- committed, journal <- CommittedEntries` (`ImplementsJournal`, checked by the run
`ledger` and proved). The models of readers are therefore composed with `Journal` instead
of with the sessions: what they see is what the ledger lets them see.

`Statement` is a client of two endpoints. `ReadBalance` is handleGetBalance; `FirstPage`
and `NextPage` are handleListEntries without and with a cursor, and `ReadPage` is the query
`ORDER BY id DESC LIMIT n + 1`, whose extra row tells that there is a next page. `Reconciler` takes
one step per query of `Run`. Its environment is `Settle`, in which whole postings are published
(`Settled`: in every currency the visible entries cancel out), and `Drift`, which
changes a stored balance without an entry. In the runs both use `Record`, which publishes one
transaction; the proof about `Statement` is for any `Publish`, those about `Reconciler` for any `Settle`.

### Gateway, RateLimiter, Signing, Identifiers
`Gateway` has the API keys by lookup and a set of concurrent requests, each a step at
a time through authenticate, the limiter and requireRole; keys are created and revoked
in between, and the store may fail. `RateLimiter` counts tokens in fractions of a minute so that the refill
is exact; the code adds fractions of a token in floating point, whose sums may fall just short of a token
that is due at that instant, and this is not modelled. `window` and `recent` are observers and change nothing. `Signing` follows one
delivery from its loading of secrets to the consumer's verdict; a merchant creates a secret, moves
the consumer to it and retires a secret the consumer does not hold. The
timestamp is cut to the second, and the two clocks differ by up to `Skew`. `Identifiers` scales
48 bits of time, 80 of counter and base 32 down, and keeps the padding bits of the encoding.

## 3. Runs

Passing runs:

The run `components` exercises one component per behaviour, chosen in the initial state.

| Run | Instance | Shows |
|---|---|---|
| `ledger` | 2 sessions, 4 operations of any kind, 4 accounts, 2 currencies, int64 is -4..3 | balances fit int64 and stay non-negative (I6), equal the sum of their entries (I7), balance_after replays, books cancel out (I8), the version check never fails, one reversal, readers see an append-only `Journal` of whole postings, every operation ends, so no sessions wait for each other in a circle |
| `components`: money, fees | 6-bit integers, every pair of operands, 3-way splits; every charge to 13, every rate in quarters, every way to refund it | overflow is detected exactly; MulBps and Allocate equal their definitions; returned fees telescope and each refund is postable |
| `components`: statement, reconciler | 2 accounts, 7 entries, deposits with two legs on one account, withdrawals, holds; pages of 1 and 2; 2 drifts | a statement has every entry as of its first page once, and the balance read before it is in it; a pass raises no false alarm and misses no drift, drifts that cancel included |
| `components`: identifiers | 2 bits of time, 2 of counter, any clock | ids sort in the order of issue, as strings |
| `components`: limiter | 2 callers, 2 requests in a minute of 3 ticks, a window of 6 | the rate is bounded in every window; nobody is refused below the rate |
| `components`: gateway | 2 requests, 3 tokens, two of which share their lookup | only live keys within their role; a good key is not called unknown |
| `components`: signing | 3 secrets, a post that is lost, tolerance as tight as assumed | a post is rejected only when a rotation overtakes it, a rotation costs at most one attempt, the delivery is accepted in the end |
| `payments` | 2 payments and transfers, 4 operations, 2 sessions, serial per payment | the derived payment agrees with the books, holds are exact, refunds stay within the payment, states move forward, every operation ends although captures can deadlock with transfers |
| `chart` | 3 first payments, 4 accounts, an abort | one chart, a caller loses the race at most once, every retrying caller is served |
| `idempotency` | 2 clients with equal or different requests, 2 faults of five kinds | exactly once, replayable, right response, every retrying client is answered |
| `webhooks` | 2 events, 2 dispatchers, 2 workers, batch 2; a lease that outlasts the batch with a fault and a replay, or one that does not | no lost event, a row is worked twice only if its lease ran out in a worker's hands, the budget is exact for every other row and never cut short before a replay, every delivery comes to rest |

Violation runs, each one a statement of a comment or of DESIGN.md that the code does not
keep (details and quotations in `PROJECT.json`):

| Run | What happens |
|---|---|
| `authorization_consumed_twice` | two captures or voids read the authorization as pending before either locks |
| `refunds_race` | two refunds pass the check on the same derived amount |
| `payments_deadlock` | payments.Capture locks two ordered sets in turn, and a transfer between payable and holds closes a circle |
| `payment_reversed` | a reversal has no payment role, so the payment stays succeeded |
| `server_error_locks` | a failed commit leaves the key locked until the lease ends |
| `delivery_worked_twice` | a batch outlasts its lease (50 x 5s against 60s by default) |

Further behaviour that the models have and that differs from a comment, with no run of its own:

- the loser of the race to create a chart is refused with ErrAccountExists, where
  `chart.go:71-74` says it reuses the account; `RefusedOnce` states what does hold;
- the release that Void posts is itself pending for ever and would be accepted by
  another Void or Capture, and after ledger.Capture Reverse accepts the authorization,
  whose entries were only ever pending (`errors.go:51-55`); only callers of the service
  can reach either, no HTTP route does;
- a pending credit offsets a pending debit in the one pending figure, so `Available`
  can count money that has not arrived (`types.go:170-172`);
- a worker that read an endpoint as active can set it to degraded after another has
  disabled it (`worker.go:298`, `delivery.go:40-43`). `NoLostEvents` therefore speaks of
  endpoints that were never disabled.

Each passing property has a *mutant*: a plausible bug in a mapped definition under which TLC
reports the property violated.

### Bounds
Two sessions suffice for pairwise races on a row and for a circle of waits; the proofs cover
any number. Four operations allow a deposit, a hold, and two more that race on it. Narrow integers put
overflow within reach of the first operations. The fingerprints of the two clients are chosen in
the initial state, so they agree in some behaviours and differ in others. In the idempotency runs the lease (3) exceeds
the handler and finish deadlines together (2), as 60s exceeds 30s + 5s, and the TTL exceeds
the lease, so takeover, release and reaping can overlap one slow request. In the
webhook runs the retry budget is 2, so both an attempt that retries and the last one occur. The run `webhooks`
has both kinds of lease: with 2 ticks a batch of two fits into it, with 1 it does not, and then late settles
meet rows that were swept, claimed again, settled or exhausted. Faults and replays are bounded per lease (`MCBound`):
one of each with the long lease, none with the short one, where they multiply the states. With a bound of one
fault under the short lease TLC finds no error either (761,374 states), but the run is not kept for its length.
The safety properties are proved without either bound.
Seven entries let a statement of several pages be overtaken by a commit between any two of
them. Three secrets are two rotations, so that one can fall into the retry that another caused. Two
tokens with one lookup make the unique index and the comparison of the secret matter. Every
bound is a constant: `MaxOps`, `MaxAborts`, `MaxFaults`, `MaxMishaps`, `MaxReplays`, `CaptureAmount`,
`ChargeAmount`, `RefundAmount`, `MaxAmount`, `MaxFixed`, `MaxRatio`, `MaxEntries`, `MaxDrifts`,
`MaxIds`, `MaxWindow`, `MaxLost`.

`CHECK_DEADLOCK FALSE` is set wherever a bounded system comes to a legitimate end;
a circle of row-lock waits would break `Terminates` of the run `ledger`, and is the invariant
`NoDeadlock` that `payments_deadlock` refutes for two postings in one transaction.

### Fairness
- `Ledger!Fairness`: strong for `LockRow`, since PostgreSQL queues waiters on a row; weak for
  the other steps, since a request keeps executing. Nothing forces a commit to succeed.
- `PaymentLiveSpec`: payments can deadlock, so a wait ends either with the lock or with
  `lock_timeout` (`db.go:47`) or the deadlock detector. Weak fairness for their disjunction.
- `Chart!ChartSpec`: a caller retries, under a new key; an insert goes on when the one it waits for ends.
- `Idempotency!LiveSpec`: time passes, clients retry, a running request goes on. No fairness for faults.
- `Webhooks!WebhookLiveSpec`: the loops of `workerd` (`main.go:206-230`) come round for ever, with
  either lease. Crashes and failed statements need no fairness.
- `MCComponents!Fairness`: the worker keeps attempting a delivery that is due, as the same loops make it.
  The merchant rotates finitely often (`Secret`), and no fairness is assumed of the rotation, of
  time or of lost posts. The retry budget is not part of `Signing`; `OneAttemptPerRotation` says what a rotation takes from it.

## 4. What is proved

For every set of sessions, accounts, transactions, clients, workers, keys and secrets, any
requests and any rates, from the named assumptions of the modules only. Names of properties are
those the runs check; a theorem with a condition has it as a hypothesis.

| Theorem | Property | Condition |
|---|---|---|
| `TypeCorrect` | `TypeOK`: no balance, stored or in progress, leaves int64 | |
| `ReplayCorrect` | `Replay` | |
| `MaterializedCorrect` | `MaterializedIsDerived` (I7) | |
| `TrialBalanceCorrect` | `TrialBalance` (I8) | |
| `NonNegativeCorrect` | `NonNegative` (I6) | |
| `SettledCorrect` | the committed entries are `Settled` | |
| `VersionCorrect` | `VersionNeverConflicts` | |
| `AppendOnlyCorrect` | `AppendOnly`, which `ImplementsJournal` contains | |
| `ReversedOnceCorrect` | `ReversedOnce` | |
| `JournalImplemented` | `ImplementsJournal` | |
| `StatementCorrect`, `BalanceInStatementCorrect` | `StatementIsSnapshot`, `BalanceInStatement` | |
| `NoFalseAlarmCorrect`, `NoMissedDriftCorrect` | `NoFalseAlarm`, `NoMissedDrift` | |
| `LimiterCorrect`, `RefusedCorrect` | `WindowBounded`, `RefusedOnlyOverRate` | |
| `ServedOnlyLiveCorrect`, `UnknownOnlyIfRevokedCorrect` | `ServedOnlyLive`, `UnknownOnlyIfRevoked` | |
| `SigningCorrect`, `OneAttemptCorrect` | `RejectedOnlyIfOvertaken`, `OneAttemptPerRotation` | |
| `OneChartCorrect`, `RefusedOnceCorrect` | `OneChart`, `RefusedOnce` | |
| `ExactlyOnceCorrect`, `ReplayableCorrect`, `ReplayMatchesCorrect` | `ExactlyOnce`, `Replayable`, `ReplayMatchesRequest` | `LeaseOutlastsRequest` |
| `NoLostEventsCorrect` | `NoLostEvents` | |
| `WorkedTwiceOnlyIfLateCorrect`, `BudgetSpentCorrect` | `WorkedTwiceOnlyIfLate`, `BudgetSpent` | |

### The ledger

None of these is inductive on its own. The inductive invariant is
`IInv == TypeInv /\ LockInv /\ EntryInv /\ DraftInv /\ ChainInv`:

- `TypeInv` is the type of every variable, the postings still to be made included;
- `LockInv` says who may differ from whom: a row differs from its committed version
  only while a session holds its lock, and a session holds the lock of every account
  it has read;
- `EntryInv` ties entries to transactions and ids to the sequence: an uncommitted entry is on
  an account its session has locked, and after every committed entry of that account;
- `DraftInv` ties the entries under construction to the legs already applied;
- `ChainInv` says that entries of an account, in id order, committed, then uncommitted, then
  drafts, form one chain that ends at the committed, the newest and the working balance.

The chain is needed because a commit turns uncommitted entries into committed ones: that
they continue the chain has to be known from the moment they were drafted under the lock.
Each action is one step of the induction, with one lemma on how a chain grows at its end.
`ReversedOnceCorrect` rests on `TypeInv` and an invariant of its own, `ReversesUnique`: no two rows,
committed or not, name the same reversed transaction, since the unique index sees both.

### The books

That a balance is the *sum* of its entries does not follow from the chain, which only orders
them, and says nothing of pending entries. Four invariants are added to `IInv`:

- `LegsInv`: the drafts of a posting are its legs, one for each that `apply` has looked at, and
  the posting has passed `Validate`;
- `WorkInv`: the working copy of a locked balance is the row plus the legs so far;
- `DerivedInv`: the entries are finite, and each balance, committed or newest, is the sum of the
  entries at that stage;
- `BalancedInv`: the committed entries of a currency cancel out, and so do those that each
  session has written. `Validate` is where this comes from: its two sides have equal totals.

`Write` turns legs into entries, a commit moves a session's entries into the visible ones and a
rollback removes them, so the three sums (over legs, over uncommitted and over committed entries)
have to be carried through a renaming, a union and a difference; `TrialBalance` also regroups a sum
over entries into one over accounts. `FundedInv` adds that no row, newest or committed, is overdrawn.
The check of `apply` is made in int64; `LegsBound` shows that one posting takes at most `MaxInt64`
off an account, so the sum it checks cannot wrap around to a value that passes.

`Sums` proves what this needs for the recursive `SumFunctionOnSet` of the community modules: its value
does not depend on the order in which `CHOOSE` takes the elements, and it respects union, renaming,
negation and grouping. The induction is over finite sets; the predicate is given as a set of subsets,
so that no theorem with an operator parameter is needed. The only assumption is that the
accounts are finite (`FiniteAssumption`).

### The refinement
The initial states map to `JournalInit`, a commit to `Publish` and every other step to a stutter.
That needs `JInv` on top of `IInv`: the entries of an account that nobody sees yet lead from
its committed balance to its newest one (`FreshChain`), a row is newer exactly when it has such
entries (`FreshVersion`, which needs that every leg has been drafted, `EveryLegDrafted`), and neither version is overdrawn
(`Covered`). A commit then publishes precisely the hidden entries of the accounts its session has locked.

### The components
- `StatementCorrect`: what the client has read and what lies below its cursor make up the account as of the first
  page. Published entries come behind the entry at the cursor, so they are never below it.
- `BalanceInStatementCorrect`: the last entry of a chain carries the balance at its end (a chain that is not
  empty has a newest entry, a clause of `Chain`), and nothing takes that entry away before the first page is read (`KnownInv`).
- `NoFalseAlarmCorrect`, `NoMissedDriftCorrect`: a stored balance is what its entries add up to, plus the drift, whatever has been
  published (`ReconcilerInv`). `ChainTotal` gets this from `Publish`, which only says that the new entries form a chain from the old balance to
  the new one. So the drift query finds the drifted accounts and no others, and while there are none each trial balance
  regroups into the entries of a currency, which are `Settled`. That this holds of what the ledger commits is `SettledCorrect`, and that its
  commits are `Publish` steps is `JournalImplemented`, under the same mapping.
- `LimiterCorrect`: the tokens a caller has left, plus what it was admitted in the window, never exceed
  the capacity plus the refill; sweeping a bucket older than `Idle >= Minute` gives nothing away, because such a bucket is full.
- `RefusedCorrect`: for every `j` up to a minute, what the last `j` ticks brought a caller is in its bucket
  or was spent on requests admitted in them (`RecentInv`). A tick turns the statement for `j` into the one for
  `j + 1`, which is why one for a minute alone is not inductive. A bucket without a token then has spent a minute's worth.
- `ServedOnlyLiveCorrect`, `UnknownOnlyIfRevokedCorrect`: a key is never un-revoked or replaced, so what a request saw on
  arrival still bounds what it finds.
- `SigningCorrect`: an active secret was loaded with the post or was created since; the consumer holds an
  active one. `Transit + Skew + Second - 1 <= Tolerance` (5s, the two clocks and a second, against 5 minutes) excludes the timestamp.
- `OneAttemptCorrect`: a rejected attempt is paid for by a secret created while it was on its way, and while
  a post is on its way those secrets are not yet spent (`SpentInv`).

### Requests and workers that race
- *Chart*: a row of the index that nobody has committed belongs to the caller that inserted it and has it in its chart; a
  commit publishes all names at once (`AllOrNone`), so a caller that was refused, which has seen one committed row, finds
  all of them when it lists again.
- *Idempotency*: the request that owns the record does so under its own lease, which is `LeaseDuration - age`
  (`OwnerInv`), and is over before that runs out (`DeadlineInv`), so a takeover never finds the
  owner at work; an execution that has not expired is the one whose response is stored (`EffectInv`).
  The hypothesis `LeaseOutlastsRequest == LeaseDuration > HandlerTimeout + FinishTimeout`
  holds of the default configuration (60s against 30s + 5s). A larger `HTTP_HANDLER_TIMEOUT` breaks it; nothing in the code checks that.
- *Outbox*: a dispatch about to commit has a delivery for every endpoint that was never disabled
  (`TargetInv`); no assumption on leases is needed.
- *Queue*: the theorems are for every lease. A row in a worker's hands that is not `late` is still leased to that
  worker and to no other (`WorkInv`, with `Exclusive`): the sweeper takes a row only once its lease has run out, and the tick at which
  that happens makes it late. So two workers meet only on late rows, and of any other row only its
  worker counts the attempts (`BudgetInv`). If the lease outlasts a batch, the lease of every claimed row lasts at least as long as the rest of the
  batch can take (`Needed`, the part of `WorkInv` that makes it inductive), hence nothing is ever late. The defaults do not meet
  `LeaseOutlastsBatch` and no code enforces it: the run `delivery_worked_twice` shows two workers on one row, and
  the first theorem says that this takes a lease that ran out in a worker's hands. On late rows the settles of
  several workers add up, and the attempts can exceed the budget. They do not fall below it before a first replay,
  because the count an item was claimed with never exceeds the one of its row (`CountInv`); a replay resets the row and
  not the items, so a late settle after it can exhaust the row early.

## 5. What is only model-checked

- `Terminates`, `EventuallyAccepted` and the other liveness properties: they need fairness and ENABLED.
- `ArithmeticExact`, `AllocateExact` and `FeeTelescopes`: rounding and division by variable amounts, and a split that is a
  recursion over a sequence. `addInt64` alone is proved exact (`AddInt64Exact` of `LedgerProofs`).
- `IdsIncrease`: the digits of an encoded number, another recursion.
- `BooksAgree`, `HoldsOutstanding`, `RefundsWithinPayment` and `Lifecycle` of `Payments`: they hold only for callers
  that serialise operations on a payment, and would need the whole of `IInv` proved again for the longer postings of payments.

## 6. Abstractions

- READ COMMITTED, the default; the SERIALIZABLE mode is not modelled.
- In `Ledger` ids are fresh values (`Identifiers` shows why); transactions of a payment are read in entry order, where the code
  orders by `created_at` from the host's clock.
- The application's and the database's clocks are one clock.
- Of metadata only the payment role and the released transaction are kept.
- Idempotency abstracts the handler's ledger work to the fact that it committed.
- The outbox starts at an appended event: nothing in the API constructs `events.Recorder` today.
- A hash, a signature or a sealed secret stands for the secret it was made from.
- A request above the limit of a page is taken with the limit `Page.Normalize` leaves.

## 7. Not modelled

- Text: request canonicalisation, decimal formatting and parsing, JSON rendering, the signature header. They are
  functions of strings without state, and a model would repeat them character by character.
- Network policy of the webhook client (address filter, URL validation), configuration, logging,
  metrics, migrations and the wiring of the two processes.
- The in-memory repository, a test double.
- `ExpirePendingTransactions`, `AdvanceIdempotencyKey`, `InNestedTx`, `RetryAfter` and the limiter's
  `sweep` have no caller outside tests. Of these only `sweep` is modelled, as a step that may be taken at any time.
- SERIALIZABLE isolation, clocks that differ between API hosts (they order a payment's
  transactions by `created_at`), and a lease shorter than the handler's deadline.

## 8. What could come next

1. `PaymentSpec => []IInv`, so that the ledger theorems hold under payments; `NoDeadlock` proved for
   single-posting operations.
2. `Settled` as part of `Publish`, so that `JournalImplemented` alone carries what the reconciler needs.
3. Composition of Idempotency with Payments: a retry under one key against a race under two.
4. An abstract queue (at-least-once delivery) implemented by Webhooks.

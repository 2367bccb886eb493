------------------------- MODULE ConcurrencyProofs -------------------------
(***************************************************************************)
(* Proofs about requests and workers that race each other: the chart of    *)
(* accounts of a merchant's first payments, idempotency keys, the outbox   *)
(* and the delivery queue.                                                 *)
(***************************************************************************)
EXTENDS Chart, Idempotency, Webhooks, TLAPS

-----------------------------------------------------------------------------
(* Numbers *)

\* The maximum of two numbers.
LEMMA MaxOfTwo ==
  ASSUME NEW a \in Int, NEW b \in Int
  PROVE  Max({a, b}) = IF a >= b THEN a ELSE b
  BY DEF Max

\* The minimum of two numbers.
LEMMA MinOfTwo ==
  ASSUME NEW a \in Int, NEW b \in Int
  PROVE  Min({a, b}) = IF a <= b THEN a ELSE b
  BY DEF Min

\* Products of natural numbers.
LEMMA Product ==
  /\ \A c \in Nat, t \in Nat : c * t \in Nat
  /\ \A c \in Nat, t \in Nat : c >= 1 => (c - 1) * t + t = c * t
  /\ \A c \in Nat, n \in Nat, t \in Nat : c <= n => c * t <= n * t
<1>1. \A c \in Nat, t \in Nat : c * t \in Nat
  OBVIOUS
<1>2. \A c \in Nat, t \in Nat : c >= 1 => (c - 1) * t + t = c * t
  OBVIOUS
<1>3. ASSUME NEW c \in Nat, NEW n \in Nat, NEW t \in Nat, c <= n
      PROVE  c * t <= n * t
  <2>1. PICK k \in Nat : n = c + k
    <3>1. n - c \in Nat /\ n = c + (n - c)
      BY <1>3
    <3> QED
      BY <3>1, Zenon
  <2>2. n * t = c * t + k * t /\ k * t \in Nat /\ c * t \in Nat
    BY <2>1
  <2> QED
    BY <2>2
<1> QED
  BY <1>1, <1>2, <1>3, Zenon

-----------------------------------------------------------------------------
(* Chart *)

\* What the variables of Chart hold.
ChartTypes ==
  /\ account \in [Name -> Nat \cup {Unset}]
  /\ open \in [Name -> Caller \cup {Unset}]
  /\ byName \in [Caller -> [Name -> Nat \cup {Unset}]]
  /\ chart \in [Caller -> [Name -> Nat \cup {Unset}]]
  /\ stage \in [Caller -> {"idle", "ensure"}]
  /\ used \in [Caller -> [Name -> Nat \cup {Unset}] \cup {Unset}]
  /\ refused \in [Caller -> Nat]
  /\ nextId \in Nat

\* The row of n is committed.
InTable(n) == account[n] # Unset /\ open[n] = Unset

\* An uncommitted row belongs to a caller that has resolved the name to it; what
\* a caller has listed is committed, and what it has resolved is in the index,
\* committed or its own.
RowsInv ==
  /\ \A n \in Name : open[n] # Unset =>
       account[n] # Unset /\ chart[open[n]][n] # Unset
  /\ \A c \in Caller, n \in Name : byName[c][n] # Unset =>
       InTable(n) /\ byName[c][n] = account[n]
  /\ \A c \in Caller, n \in Name : chart[c][n] # Unset =>
       chart[c][n] = account[n] /\ open[n] \in {Unset, c}

\* A commit publishes the whole chart, so one committed row means all of them.
AllOrNone == (\E n \in Name : InTable(n)) => \A n \in Name : InTable(n)

\* Whoever was served or refused has seen a committed row, and a caller that
\* tries again after a refusal has listed them all.
SeenInv ==
  \A c \in Caller :
    /\ used[c] # Unset => used[c] = account /\ \A n \in Name : InTable(n)
    /\ refused[c] # 0 => refused[c] = 1 /\ \A n \in Name : InTable(n)
    /\ refused[c] # 0 /\ stage[c] = "ensure" => \A n \in Name : byName[c][n] # Unset

\* The inductive invariant of Chart.
ChartInv == ChartTypes /\ RowsInv /\ AllOrNone /\ SeenInv

\* The invariant holds of a merchant without accounts.
LEMMA ChartInitially == ChartInit => ChartInv
  BY UnsetAssumption DEF ChartInit, Unresolved, ChartInv, ChartTypes, RowsInv, AllOrNone,
    SeenInv, InTable

\* ListAccounts shows committed rows only.
LEMMA ListKeeps ==
  ASSUME ChartInv, NEW c \in Caller, List(c)
  PROVE  ChartInv'
<1>1. ChartTypes'
  BY Zenon DEF List, ChartInv, ChartTypes
<1>2. /\ UNCHANGED << account, open, chart, used, refused >>
      /\ \A n \in Name : InTable(n)' <=> InTable(n)
      /\ \A d \in Caller \ {c} : byName'[d] = byName[d] /\ stage'[d] = stage[d]
      /\ \A n \in Name : byName'[c][n] = IF open[n] = Unset THEN account[n] ELSE Unset
  BY Zenon DEF List, ChartInv, ChartTypes, InTable
<1>3. RowsInv'
  BY <1>1, <1>2 DEF ChartInv, RowsInv, InTable
<1>4. AllOrNone'
  BY <1>2, Zenon DEF ChartInv, AllOrNone
<1>5. SeenInv'
  BY <1>2 DEF ChartInv, SeenInv, InTable
<1> QED
  BY <1>1, <1>3, <1>4, <1>5, Zenon DEF ChartInv

\* A listed account is taken over as it is.
LEMMA ReuseKeeps ==
  ASSUME ChartInv, NEW c \in Caller, Reuse(c)
  PROVE  ChartInv'
<1> PICK n \in Name : /\ byName[c][n] # Unset
                      /\ chart' = [chart EXCEPT ![c][n] = byName[c][n]]
                      /\ UNCHANGED << account, open, byName, stage, used, refused, nextId >>
  BY Zenon DEF Reuse, Resolve
<1>1. ChartTypes'
  BY Zenon DEF ChartInv, ChartTypes
<1>2. /\ \A d \in Caller, m \in Name : d # c \/ m # n => chart'[d][m] = chart[d][m]
      /\ chart'[c][n] = byName[c][n]
  BY Zenon DEF ChartInv, ChartTypes
<1>3. \A m \in Name : InTable(m)' <=> InTable(m)
  BY Zenon DEF InTable
<1>4. RowsInv'
  BY <1>2, <1>3 DEF ChartInv, ChartTypes, RowsInv, InTable
<1>5. AllOrNone' /\ SeenInv'
  BY <1>3, Zenon DEF ChartInv, AllOrNone, SeenInv
<1> QED
  BY <1>1, <1>4, <1>5, Zenon DEF ChartInv

\* The unique index lets an insert through only where there is no row, so a row
\* that others have listed or resolved is never replaced.
LEMMA CreateKeeps ==
  ASSUME ChartInv, NEW c \in Caller, Create(c)
  PROVE  ChartInv'
<1> PICK n \in Name : /\ account[n] = Unset
                      /\ account' = [account EXCEPT ![n] = nextId]
                      /\ open' = [open EXCEPT ![n] = c]
                      /\ nextId' = nextId + 1
                      /\ chart' = [chart EXCEPT ![c][n] = nextId]
                      /\ UNCHANGED << byName, stage, used, refused >>
  BY Zenon DEF Create, NameFree, Resolve
<1>1. ChartTypes'
  BY DEF ChartInv, ChartTypes
<1>2. /\ account'[n] = nextId /\ open'[n] = c /\ chart'[c][n] = nextId /\ nextId # Unset
      /\ \A m \in Name \ {n} : account'[m] = account[m] /\ open'[m] = open[m]
      /\ \A d \in Caller, m \in Name : d # c \/ m # n => chart'[d][m] = chart[d][m]
  BY UnsetAssumption, Zenon DEF ChartInv, ChartTypes
<1>3. ~ InTable(n) /\ ~ InTable(n)' /\ \A m \in Name \ {n} : InTable(m)' <=> InTable(m)
  BY <1>2, UnsetAssumption, Zenon DEF InTable
<1>4. RowsInv'
  <2>1. \A m \in Name : open'[m] # Unset =>
          account'[m] # Unset /\ chart'[open'[m]][m] # Unset
    BY <1>2 DEF ChartInv, ChartTypes, RowsInv
  <2>2. \A d \in Caller, m \in Name : byName[d][m] # Unset =>
          InTable(m)' /\ byName[d][m] = account'[m]
    BY <1>2, <1>3 DEF ChartInv, RowsInv
  <2>3. \A d \in Caller, m \in Name : chart'[d][m] # Unset =>
          chart'[d][m] = account'[m] /\ open'[m] \in {Unset, d}
    BY <1>2 DEF ChartInv, RowsInv
  <2> QED
    BY <2>1, <2>2, <2>3 DEF RowsInv
<1>5. AllOrNone' /\ SeenInv'
  BY <1>3, Zenon DEF ChartInv, AllOrNone, SeenInv
<1> QED
  BY <1>1, <1>4, <1>5, Zenon DEF ChartInv

\* A rollback takes away the caller's own rows, which nobody else has listed or
\* resolved.
LEMMA RollbackKeeps ==
  ASSUME ChartInv, NEW c \in Caller, End(c, FALSE), UNCHANGED used
  PROVE  /\ \A n \in Name : InTable(n)' <=> InTable(n)
         /\ RowsInv' /\ AllOrNone'
         /\ (\A n \in Name : InTable(n)) => account' = account
         /\ stage'[c] = "idle"
         /\ \A d \in Caller \ {c} : stage'[d] = stage[d] /\ byName'[d] = byName[d]
         /\ refused' \in [Caller -> Nat] => ChartTypes'
<1>1. \A n \in Name :
        /\ account'[n] = IF open[n] = c THEN Unset ELSE account[n]
        /\ open'[n] = IF open[n] = c THEN Unset ELSE open[n]
  BY Zenon DEF End
<1>2. \A n \in Name : /\ byName'[c][n] = Unset /\ chart'[c][n] = Unset
                      /\ \A d \in Caller \ {c} : byName'[d] = byName[d] /\ chart'[d] = chart[d]
  BY Zenon DEF End, Unresolved, ChartInv, ChartTypes
<1>3. \A n \in Name : InTable(n)' <=> InTable(n)
  BY <1>1, UnsetAssumption, Zenon DEF InTable
<1>4. RowsInv'
  <2>1. \A n \in Name : open'[n] # Unset =>
          account'[n] # Unset /\ chart'[open'[n]][n] # Unset
    BY <1>1, <1>2 DEF ChartInv, ChartTypes, RowsInv
  <2>2. \A d \in Caller, n \in Name : byName'[d][n] # Unset =>
          InTable(n)' /\ byName'[d][n] = account'[n]
    BY <1>1, <1>2, <1>3, UnsetAssumption DEF ChartInv, RowsInv, InTable
  <2>3. \A d \in Caller, n \in Name : chart'[d][n] # Unset =>
          chart'[d][n] = account'[n] /\ open'[n] \in {Unset, d}
    BY <1>1, <1>2, UnsetAssumption DEF ChartInv, RowsInv
  <2> QED
    BY <2>1, <2>2, <2>3, Zenon DEF RowsInv
<1>5. AllOrNone'
  BY <1>3, Zenon DEF ChartInv, AllOrNone
<1>6. (\A n \in Name : InTable(n)) => account' = account
  BY UnsetAssumption, Zenon DEF End, InTable, ChartInv, ChartTypes
<1>7. stage'[c] = "idle" /\ \A d \in Caller \ {c} : stage'[d] = stage[d]
  BY Zenon DEF End, ChartInv, ChartTypes
<1>8. refused' \in [Caller -> Nat] => ChartTypes'
  BY Zenon DEF End, Unresolved, ChartInv, ChartTypes
<1>9. \A d \in Caller \ {c} : byName'[d] = byName[d]
  BY Zenon DEF End, ChartInv, ChartTypes
<1> QED
  BY <1>3, <1>4, <1>5, <1>6, <1>7, <1>8, <1>9, Zenon

\* A caller is refused because a row is committed; then all are, and its next
\* list has them.
LEMMA ConflictKeeps ==
  ASSUME ChartInv, NEW c \in Caller, Conflict(c)
  PROVE  ChartInv'
<1> PICK n \in Name : /\ stage[c] = "ensure" /\ byName[c][n] = Unset
                      /\ InTable(n)
                      /\ refused' = [refused EXCEPT ![c] = @ + 1]
                      /\ End(c, FALSE)
                      /\ UNCHANGED used
  BY Zenon DEF Conflict, At, InTable
<1>1. refused[c] = 0
  BY Zenon DEF ChartInv, SeenInv
<1>2. \A m \in Name : InTable(m)
  BY Zenon DEF ChartInv, AllOrNone
<1>3. /\ refused' \in [Caller -> Nat] /\ refused'[c] = 1
      /\ \A d \in Caller \ {c} : refused'[d] = refused[d]
  BY <1>1 DEF ChartInv, ChartTypes
<1>4. SeenInv'
  <2>1. /\ \A m \in Name : InTable(m)'
        /\ account' = account /\ stage'[c] = "idle"
        /\ \A d \in Caller \ {c} : stage'[d] = stage[d] /\ byName'[d] = byName[d]
    BY <1>2, RollbackKeeps, Zenon
  <2> QED
    BY <1>3, <2>1 DEF ChartInv, SeenInv
<1> QED
  BY <1>3, <1>4, RollbackKeeps, Zenon DEF ChartInv

\* A caller whose transaction fails leaves no row behind.
LEMMA AbortKeeps ==
  ASSUME ChartInv, NEW c \in Caller, Abort(c)
  PROVE  ChartInv'
<1>1. End(c, FALSE) /\ UNCHANGED << used, refused >>
  BY Zenon DEF Abort
<1>2. SeenInv'
  <2>1. /\ \A n \in Name : InTable(n)' <=> InTable(n)
        /\ (\A n \in Name : InTable(n)) => account' = account
        /\ stage'[c] = "idle" /\ UNCHANGED << used, refused >>
        /\ \A d \in Caller \ {c} : stage'[d] = stage[d] /\ byName'[d] = byName[d]
    BY <1>1, RollbackKeeps, Zenon
  <2>2. ASSUME NEW d \in Caller, refused[d] # 0, stage'[d] = "ensure"
        PROVE  \A n \in Name : byName'[d][n] # Unset
    <3>1. d # c
      BY <2>1, <2>2, Zenon
    <3>2. stage[d] = "ensure" /\ byName'[d] = byName[d]
      BY <2>1, <2>2, <3>1, Zenon
    <3> QED
      BY <2>2, <3>2, Zenon DEF ChartInv, SeenInv
  <2>3. ASSUME NEW d \in Caller
        PROVE  /\ used[d] # Unset => used[d] = account' /\ \A n \in Name : InTable(n)'
               /\ refused[d] # 0 => refused[d] = 1 /\ \A n \in Name : InTable(n)'
    <3>1. /\ used[d] # Unset => used[d] = account /\ \A n \in Name : InTable(n)
          /\ refused[d] # 0 => refused[d] = 1 /\ \A n \in Name : InTable(n)
      BY Zenon DEF ChartInv, SeenInv
    <3> QED
      BY <2>1, <3>1, Zenon
  <2> QED
    BY <2>1, <2>2, <2>3, Zenon DEF SeenInv
<1>3. refused' \in [Caller -> Nat]
  BY <1>1, Zenon DEF ChartInv, ChartTypes
<1> QED
  BY <1>1, <1>2, <1>3, RollbackKeeps, Zenon DEF ChartInv

\* A commit makes every row of the chart visible: those that were not are the
\* caller's own.
LEMMA CommitPaymentKeeps ==
  ASSUME ChartInv, NEW c \in Caller, CommitPayment(c)
  PROVE  ChartInv'
<1>1. /\ \A n \in Name : chart[c][n] # Unset
      /\ used' = [used EXCEPT ![c] = chart[c]] /\ refused' = refused
      /\ \A n \in Name : account'[n] = account[n]
      /\ \A n \in Name : open'[n] = IF open[n] = c THEN Unset ELSE open[n]
  BY Zenon DEF CommitPayment, End
<1>2. ChartTypes'
  BY Zenon DEF CommitPayment, End, Unresolved, ChartInv, ChartTypes
<1>3. \A n \in Name : InTable(n)' /\ chart[c][n] = account[n] /\ open'[n] = Unset
  BY <1>1, Zenon DEF ChartInv, RowsInv, InTable
<1>4. account' = account /\ chart[c] = account
  BY <1>1, <1>2, <1>3 DEF ChartInv, ChartTypes
<1>5. /\ \A n \in Name : byName'[c][n] = Unset /\ chart'[c][n] = Unset
      /\ stage'[c] = "idle" /\ used'[c] = account
      /\ \A d \in Caller \ {c} : /\ byName'[d] = byName[d] /\ chart'[d] = chart[d]
                                 /\ stage'[d] = stage[d] /\ used'[d] = used[d]
  BY <1>1, <1>4, Zenon DEF CommitPayment, End, Unresolved, ChartInv, ChartTypes
<1>6. RowsInv'
  BY <1>3, <1>4, <1>5 DEF ChartInv, RowsInv, InTable
<1>7. AllOrNone' /\ SeenInv'
  BY <1>1, <1>3, <1>4, <1>5 DEF ChartInv, AllOrNone, SeenInv
<1> QED
  BY <1>2, <1>6, <1>7, Zenon DEF ChartInv

\* The invariant of Chart holds throughout.
THEOREM ChartInvariant == ChartSpec => []ChartInv
<1>1. ASSUME ChartInv, [ChartNext]_chartVars PROVE ChartInv'
  <2>1. CASE UNCHANGED chartVars
    BY <1>1, <2>1 DEF chartVars, ChartInv, ChartTypes, RowsInv, AllOrNone, SeenInv, InTable
  <2>2. CASE ChartNext
    BY <1>1, <2>2, ListKeeps, ReuseKeeps, CreateKeeps, ConflictKeeps, CommitPaymentKeeps,
      AbortKeeps, Zenon DEF ChartNext, ChartStep
  <2> QED
    BY <1>1, <2>1, <2>2, Zenon
<1> QED
  BY <1>1, ChartInitially, PTL DEF ChartSpec

\* However the first payments of a merchant race, all of them are posted on the
\* accounts that are in the table (OneChart).
THEOREM OneChartCorrect == ChartSpec => []OneChart
<1>1. ChartInv => OneChart
  BY Zenon DEF ChartInv, SeenInv, OneChart
<1> QED
  BY <1>1, ChartInvariant, PTL

\* A caller loses the race for an account at most once (RefusedOnce).
THEOREM RefusedOnceCorrect == ChartSpec => []RefusedOnce
<1>1. ChartInv => RefusedOnce
  BY DEF ChartInv, SeenInv, RefusedOnce
<1> QED
  BY <1>1, ChartInvariant, PTL

-----------------------------------------------------------------------------
(* Idempotency *)

\* A lease outlasts the request that holds it: 60s against 30s and 5s in the
\* default configuration.
LeaseOutlastsRequest == LeaseDuration > HandlerTimeout + FinishTimeout

\* What the variables of Idempotency hold.
RequestTypes ==
  /\ hash \in [Client -> Fingerprint]
  /\ row \in Record \cup {None}
  /\ rowLock \in Client \cup {None}
  /\ pc \in [Client -> {"idle", "acquire", "get", "takeover", "serve", "commit", "finish"}]
  /\ held \in [Client -> RecordId \cup {None}]
  /\ age \in [Client -> Nat]
  /\ status \in [Client -> {"4xx", "5xx", None}]
  /\ DOMAIN answer = Client

\* The request of c has claimed the record it works under, and has it still.
Owns(c) == pc[c] \in {"serve", "commit", "finish"} /\ HoldsRecord(c)

\* A request does not outlive its deadlines.
DeadlineInv ==
  \A c \in Client :
    /\ pc[c] = "idle" => age[c] = 0
    /\ pc[c] # "finish" => age[c] <= HandlerTimeout
    /\ age[c] <= HandlerTimeout + FinishTimeout

\* The record is in progress while a request owns it, under the lease of that
\* request and of no other.
OwnerInv ==
  /\ \A c \in Client : Owns(c) =>
       row.state = "in_progress" /\ row.lease = LeaseDuration - age[c]
  /\ \A c, d \in Client : Owns(c) /\ Owns(d) => c = d

\* The record is locked by the request that is about to commit.
RowLockInv ==
  \A c \in Client : /\ rowLock = c <=> pc[c] = "commit"
                    /\ pc[c] = "commit" => HoldsRecord(c)

\* The record is for the request that works under it or wants to take it over,
\* and a stored response answers the request that the record is for.
MatchInv ==
  /\ \A c \in Client :
       pc[c] \in {"takeover", "serve", "commit", "finish"} /\ HoldsRecord(c) =>
         row.hash = hash[c]
  /\ row # None /\ IsTerminal(row) =>
       row.response \in Client /\ hash[row.response] = row.hash

\* An execution that has not expired is the one whose response is stored.
EffectInv ==
  \A e \in effects :
    /\ row # None
    /\ row.state = "succeeded"
    /\ e = [by |-> row.response, ttl |-> row.ttl]
    /\ row.ttl >= 0

\* The inductive invariant of Idempotency.
IdempotencyInv ==
  /\ RequestTypes /\ DeadlineInv /\ OwnerInv /\ RowLockInv /\ MatchInv /\ EffectInv
  /\ ReplayMatchesRequest

\* The invariant holds of a key that nobody has used.
LEMMA IdempotencyInitially == Init => IdempotencyInv
  BY NoneAssumption, TimesAssumption DEF Init, Answer, IdempotencyInv, RequestTypes,
    DeadlineInv, OwnerInv, RowLockInv, MatchInv, EffectInv, ReplayMatchesRequest, Owns,
    HoldsRecord

\* A request ends and leaves the record as it is: it is answered, it fails, its
\* commit fails, or it crashes.
LEMMA RequestLeaves ==
  ASSUME IdempotencyInv, NEW c \in Client, NEW kind, NEW of, Reply(c, kind, of),
         UNCHANGED << hash, row, effects >>,
         rowLock' = IF rowLock = c THEN None ELSE rowLock,
         kind = "replay" => of \in Client /\ hash[of] = hash[c]
  PROVE  IdempotencyInv'
<1>1. RequestTypes'
  BY Zenon DEF Reply, IdempotencyInv, RequestTypes
<1>2. /\ pc'[c] = "idle" /\ age'[c] = 0
      /\ \A d \in Client \ {c} :
           /\ pc'[d] = pc[d] /\ held'[d] = held[d] /\ age'[d] = age[d]
           /\ answer'[d] = answer[d]
      /\ answer'[c] = Answer(kind, of)
  BY Zenon DEF Reply, IdempotencyInv, RequestTypes
<1>3. /\ ~ Owns(c)' /\ \A d \in Client : Owns(d)' => Owns(d)
      /\ \A d \in Client \ {c} : HoldsRecord(d)' <=> HoldsRecord(d)
  BY <1>2, Zenon DEF Owns, HoldsRecord
<1>4. DeadlineInv'
  BY <1>2, TimesAssumption DEF IdempotencyInv, DeadlineInv
<1>5. OwnerInv'
  BY <1>2, <1>3, Zenon DEF IdempotencyInv, OwnerInv
<1>6. RowLockInv'
  BY <1>2, <1>3, NoneAssumption, Zenon DEF IdempotencyInv, RowLockInv
<1>7. MatchInv' /\ EffectInv'
  BY <1>2, <1>3, Zenon DEF IdempotencyInv, MatchInv, EffectInv, IsTerminal
<1>8. ReplayMatchesRequest'
  BY <1>2, NoneAssumption DEF IdempotencyInv, ReplayMatchesRequest, Answer
<1> QED
  BY <1>1, <1>4, <1>5, <1>6, <1>7, <1>8, Zenon DEF IdempotencyInv

\* A request goes on and does not change the record, which it may lock.
LEMMA RequestMoves ==
  ASSUME IdempotencyInv, NEW c \in Client, NEW to, NEW id \in RecordId \cup {None},
         pc[c] \notin {"commit", "finish"},
         pc' = [pc EXCEPT ![c] = to], held' = [held EXCEPT ![c] = id],
         to \in {"acquire", "get", "takeover"} \/
           (pc[c] = "serve" /\ to \in {"commit", "finish"} /\ id = held[c]),
         to = "takeover" /\ row # None /\ row.id = id => row.hash = hash[c],
         to = "commit" => rowLock = None /\ HoldsRecord(c),
         rowLock' = IF to = "commit" THEN c ELSE rowLock,
         status' \in [Client -> {"4xx", "5xx", None}],
         UNCHANGED << hash, row, effects, age, answer >>
  PROVE  IdempotencyInv'
<1>1. RequestTypes'
  BY Zenon DEF IdempotencyInv, RequestTypes
<1>2. /\ pc'[c] = to /\ held'[c] = id
      /\ \A d \in Client \ {c} : pc'[d] = pc[d] /\ held'[d] = held[d]
  BY Zenon DEF IdempotencyInv, RequestTypes
<1>3. /\ \A d \in Client : Owns(d)' => Owns(d)
      /\ \A d \in Client \ {c} : HoldsRecord(d)' <=> HoldsRecord(d)
      /\ id = held[c] => (HoldsRecord(c)' <=> HoldsRecord(c))
  BY <1>2, Zenon DEF Owns, HoldsRecord
<1>4. DeadlineInv'
  BY <1>2, Zenon DEF IdempotencyInv, DeadlineInv
<1>5. OwnerInv'
  BY <1>2, <1>3, Zenon DEF IdempotencyInv, OwnerInv
<1>6. RowLockInv'
  BY <1>2, <1>3, NoneAssumption, Zenon DEF IdempotencyInv, RowLockInv
<1>7. MatchInv' /\ EffectInv'
  BY <1>2, <1>3, Zenon DEF IdempotencyInv, MatchInv, EffectInv, IsTerminal, HoldsRecord
<1>8. ReplayMatchesRequest'
  BY Zenon DEF IdempotencyInv, ReplayMatchesRequest
<1> QED
  BY <1>1, <1>4, <1>5, <1>6, <1>7, <1>8, Zenon DEF IdempotencyInv

\* A request claims the record, a new one or one that nobody owns any more.
LEMMA RequestClaims ==
  ASSUME IdempotencyInv, NEW c \in Client, NEW new \in Record,
         pc[c] \in {"acquire", "takeover"}, pc' = [pc EXCEPT ![c] = "serve"],
         row' = new, held' = [held EXCEPT ![c] = new.id],
         new.hash = hash[c], new.state = "in_progress", new.lease = LeaseDuration - age[c],
         \A d \in Client \ {c} : held[d] = new.id =>
           ~ Owns(d) /\ row # None /\ row.id = new.id /\ row.hash = new.hash,
         row = None \/ row.state = "in_progress", rowLock = None,
         UNCHANGED << hash, rowLock, effects, age, status, answer >>
  PROVE  IdempotencyInv'
<1>1. RequestTypes'
  BY Zenon DEF IdempotencyInv, RequestTypes, Record
<1>2. /\ pc'[c] = "serve" /\ held'[c] = new.id /\ row' # None
      /\ \A d \in Client \ {c} : pc'[d] = pc[d] /\ held'[d] = held[d]
  BY NoneAssumption, Zenon DEF IdempotencyInv, RequestTypes, Record
<1>3. \A d \in Client \ {c} : ~ Owns(d)' /\ (HoldsRecord(d)' => HoldsRecord(d))
  BY <1>2, Zenon DEF Owns, HoldsRecord
<1>4. DeadlineInv'
  BY <1>2, Zenon DEF IdempotencyInv, DeadlineInv
<1>5. OwnerInv'
  BY <1>2, <1>3, Zenon DEF IdempotencyInv, OwnerInv
<1>6. RowLockInv'
  BY <1>2, NoneAssumption, Zenon DEF IdempotencyInv, RowLockInv
<1>7. MatchInv'
  BY <1>2, <1>3 DEF IdempotencyInv, MatchInv, IsTerminal, HoldsRecord
<1>8. EffectInv' /\ ReplayMatchesRequest'
  BY Zenon DEF IdempotencyInv, EffectInv, ReplayMatchesRequest
<1> QED
  BY <1>1, <1>4, <1>5, <1>6, <1>7, <1>8, Zenon DEF IdempotencyInv

\* The record r with the response of c.
Stored(r, state, c) == [r EXCEPT !.state = state, !.response = c, !.lease = 0]

\* A record that stores a response is a record.
LEMMA StoredRecord ==
  ASSUME NEW r \in Record, NEW state \in {"failed", "succeeded"}, NEW c \in Client
  PROVE  /\ Stored(r, state, c) \in Record
         /\ Stored(r, state, c).id = r.id /\ Stored(r, state, c).hash = r.hash
         /\ Stored(r, state, c).ttl = r.ttl
         /\ Stored(r, state, c).response = c /\ Stored(r, state, c).state = state
<1>1. Stored(r, state, c) \in Record
  <2>1. \A q \in Record : [q EXCEPT !.state = state] \in Record
    BY Zenon DEF Record
  <2>2. \A q \in Record : [q EXCEPT !.response = c] \in Record
    BY Zenon DEF Record
  <2>3. \A q \in Record : [q EXCEPT !.lease = 0] \in Record
    BY DEF Record
  <2> QED
    BY <2>1, <2>2, <2>3, Zenon DEF Stored
<1>2. Stored(r, state, c).id = r.id /\ Stored(r, state, c).hash = r.hash
  BY Zenon DEF Stored, Record
<1>3. Stored(r, state, c).ttl = r.ttl /\ Stored(r, state, c).response = c
  BY Zenon DEF Stored, Record
<1>4. Stored(r, state, c).state = state
  BY Zenon DEF Stored, Record
<1> QED
  BY <1>1, <1>2, <1>3, <1>4, Zenon

\* The owner of the record ends: it stores its response or releases the record.
LEMMA OwnerEnds ==
  ASSUME IdempotencyInv, NEW c \in Client, Owns(c), NEW kind, NEW of, Reply(c, kind, of),
         kind # "replay", hash' = hash, rowLock \in {c, None}, rowLock' = None,
         \/ row' = None /\ effects' = effects
         \/ /\ row' = [row EXCEPT !.state = "failed", !.response = c, !.lease = 0]
            /\ effects' = effects
         \/ /\ row' = Completed(c)
            /\ effects' = {e \in effects \cup {[by |-> c, ttl |-> row.ttl]} : e.ttl >= 0}
  PROVE  IdempotencyInv'
<1>1. /\ row \in Record /\ row.state = "in_progress" /\ row.hash = hash[c]
      /\ effects = {}
      /\ \A d \in Client \ {c} : ~ Owns(d)
  BY Zenon DEF IdempotencyInv, RequestTypes, OwnerInv, EffectInv, MatchInv, Owns, HoldsRecord
<1>2. /\ row' = None \/ row' = Stored(row, "failed", c) \/ row' = Completed(c)
      /\ Completed(c) = Stored(row, "succeeded", c)
  BY Zenon DEF Stored, Completed
<1>3. \/ row' = None
      \/ /\ row' \in Record /\ row' # None /\ row'.id = row.id /\ row'.hash = row.hash
         /\ row'.ttl = row.ttl /\ row'.response = c /\ row'.state \in {"failed", "succeeded"}
  BY <1>1, <1>2, StoredRecord, NoneAssumption
<1>4. RequestTypes'
  BY <1>3, Zenon DEF Reply, IdempotencyInv, RequestTypes
<1>5. /\ pc'[c] = "idle" /\ age'[c] = 0 /\ answer'[c] = Answer(kind, of)
      /\ \A d \in Client \ {c} :
           /\ pc'[d] = pc[d] /\ held'[d] = held[d] /\ age'[d] = age[d]
           /\ answer'[d] = answer[d]
  BY Zenon DEF Reply, IdempotencyInv, RequestTypes
<1>6. \A d \in Client : ~ Owns(d)' /\ (d # c /\ HoldsRecord(d)' => HoldsRecord(d))
  BY <1>1, <1>3, <1>5, Zenon DEF Owns, HoldsRecord
<1>7. DeadlineInv'
  BY <1>5, TimesAssumption DEF IdempotencyInv, DeadlineInv
<1>8. OwnerInv'
  BY <1>6, Zenon DEF OwnerInv
<1>9. RowLockInv'
  BY <1>5, NoneAssumption, Zenon DEF IdempotencyInv, RowLockInv
<1>10. MatchInv'
  BY <1>1, <1>3, <1>5, <1>6, Zenon DEF IdempotencyInv, MatchInv, HoldsRecord
<1>11. EffectInv'
  <2>1. CASE effects' = effects
    BY <1>1, <2>1, Zenon DEF EffectInv
  <2>2. CASE row' = Completed(c) /\
             effects' = {e \in effects \cup {[by |-> c, ttl |-> row.ttl]} : e.ttl >= 0}
    <3>1. /\ row' # None /\ row'.state = "succeeded" /\ row'.response = c
          /\ row'.ttl = row.ttl
      BY <1>1, <1>2, <2>2, StoredRecord, NoneAssumption
    <3>2. \A e \in effects' : e = [by |-> c, ttl |-> row.ttl] /\ e.ttl >= 0
      BY <1>1, <2>2, Zenon
    <3> QED
      BY <3>1, <3>2 DEF EffectInv
  <2> QED
    BY <2>1, <2>2, Zenon
<1>12. ReplayMatchesRequest'
  BY <1>5, NoneAssumption DEF IdempotencyInv, ReplayMatchesRequest, Answer
<1> QED
  BY <1>4, <1>7, <1>8, <1>9, <1>10, <1>11, <1>12, Zenon DEF IdempotencyInv

\* A record is claimed under an id that no request has.
LEMMA AcquireKeeps ==
  ASSUME IdempotencyInv, NEW c \in Client, Acquire(c)
  PROVE  IdempotencyInv'
<1>1. CASE row = None
  <2> DEFINE id == CHOOSE i \in FreshIds : TRUE
             new == [id |-> id, hash |-> hash[c], state |-> "in_progress",
                     lease |-> LeaseDuration - age[c], ttl |-> TTL - age[c],
                     response |-> None]
  <2>1. id \in RecordId /\ \A d \in Client : held[d] # id
    <3>1. held \in [Client -> RecordId \cup {None}]
      BY Zenon DEF IdempotencyInv, RequestTypes
    <3>2. PICK i \in RecordId : \A d \in Client : held[d] # i
      BY <3>1, FreshAssumption, Zenon
    <3>3. i \in FreshIds
      BY <1>1, <3>2, Zenon DEF FreshIds
    <3>4. id \in FreshIds
      BY <3>3, Zenon
    <3> HIDE DEF id
    <3> QED
      BY <1>1, <3>4, Zenon DEF FreshIds
  <2>2. /\ row' = new /\ held' = [held EXCEPT ![c] = new.id]
        /\ pc[c] = "acquire" /\ pc' = [pc EXCEPT ![c] = "serve"]
        /\ UNCHANGED << hash, rowLock, effects, age, status, answer >>
    BY <1>1, Zenon DEF Acquire
  <2> HIDE DEF id
  <2>3. new \in Record
    BY <2>1, TimesAssumption DEF IdempotencyInv, RequestTypes, Record
  <2>4. /\ new.id = id /\ new.hash = hash[c] /\ new.state = "in_progress"
        /\ new.lease = LeaseDuration - age[c]
    BY Zenon
  <2> HIDE DEF new
  <2>5. rowLock = None
    BY <1>1, Zenon DEF IdempotencyInv, RequestTypes, RowLockInv, HoldsRecord
  <2> QED
    BY <1>1, <2>1, <2>2, <2>3, <2>4, <2>5, RequestClaims, Zenon
<1>2. CASE row # None
  <2>1. /\ pc[c] = "acquire" /\ pc' = [pc EXCEPT ![c] = "get"] /\ held' = held
        /\ UNCHANGED << hash, row, rowLock, effects, age, status, answer >>
    BY <1>2, Zenon DEF Acquire
  <2>2. /\ held' = [held EXCEPT ![c] = held[c]] /\ held[c] \in RecordId \cup {None}
        /\ status' \in [Client -> {"4xx", "5xx", None}]
    BY <2>1, Zenon DEF IdempotencyInv, RequestTypes
  <2> QED
    BY <2>1, <2>2, RequestMoves, Zenon
<1> QED
  BY <1>1, <1>2, Zenon

\* Of several requests that want a record whose lease has passed one gets it, and
\* its former owner is gone: the lease outlasts the request.
LEMMA TakeOverKeeps ==
  ASSUME LeaseOutlastsRequest, IdempotencyInv, NEW c \in Client, TakeOver(c)
  PROVE  IdempotencyInv'
<1>1. CASE TakeOverWins(c)
  <2> DEFINE new == [row EXCEPT !.lease = LeaseDuration - age[c]]
  <2>1. /\ row # None /\ row \in Record /\ row.id = held[c] /\ row.state = "in_progress"
        /\ row.lease <= 0 /\ pc[c] = "takeover" /\ row.hash = hash[c]
    BY <1>1, Zenon DEF TakeOver, TakeOverWins, HoldsRecord, IdempotencyInv, RequestTypes, MatchInv
  <2>2. /\ row' = new /\ pc' = [pc EXCEPT ![c] = "serve"]
        /\ rowLock = None /\ held' = held
        /\ UNCHANGED << hash, rowLock, effects, age, status, answer >>
    BY <1>1, Zenon DEF TakeOver
  <2>3. LeaseDuration - age[c] \in Int
    BY TimesAssumption DEF IdempotencyInv, RequestTypes
  <2>4. /\ new \in Record /\ new.id = row.id /\ new.hash = row.hash
        /\ new.state = row.state /\ new.lease = LeaseDuration - age[c]
    BY <2>1, <2>3, Zenon DEF Record
  <2> HIDE DEF new
  <2>5. held' = [held EXCEPT ![c] = new.id]
    BY <2>1, <2>2, <2>4, Zenon DEF IdempotencyInv, RequestTypes
  <2>6. \A d \in Client : ~ Owns(d)
    <3>1. \A d \in Client : /\ Owns(d) => row.lease = LeaseDuration - age[d]
                            /\ age[d] \in Nat /\ age[d] <= HandlerTimeout + FinishTimeout
      BY Zenon DEF IdempotencyInv, RequestTypes, OwnerInv, DeadlineInv
    <3> QED
      BY <2>1, <3>1, TimesAssumption DEF LeaseOutlastsRequest
  <2> QED
    BY <2>1, <2>2, <2>4, <2>5, <2>6, RequestClaims, Zenon
<1>2. CASE ~ TakeOverWins(c)
  <2>1. /\ Reply(c, "conflict", None) /\ rowLock = None
        /\ UNCHANGED << hash, row, rowLock, effects >>
    BY <1>2, Zenon DEF TakeOver
  <2> QED
    BY <2>1, RequestLeaves, Zenon
<1> QED
  BY <1>1, <1>2, Zenon

\* A lookup answers from the record, or finds it ready to be taken over.
LEMMA GetKeeps ==
  ASSUME IdempotencyInv, NEW c \in Client, Get(c)
  PROVE  IdempotencyInv'
<1>1. pc[c] = "get" /\ UNCHANGED << hash, row, rowLock, effects >> /\ rowLock # c
  BY Zenon DEF Get, IdempotencyInv, RowLockInv
<1>2. ASSUME NEW kind \in {"error", "mismatch", "conflict"}, Reply(c, kind, None)
      PROVE  IdempotencyInv'
  BY <1>1, <1>2, RequestLeaves, Zenon
<1>3. ASSUME row # None, FingerprintMatches(row, c), IsTerminal(row),
             Reply(c, "replay", row.response)
      PROVE  IdempotencyInv'
  <2>1. row.response \in Client /\ hash[row.response] = hash[c]
    BY <1>3, Zenon DEF IdempotencyInv, MatchInv, FingerprintMatches
  <2> QED
    BY <1>1, <1>3, <2>1, RequestLeaves, Zenon
<1>4. ASSUME row # None, FingerprintMatches(row, c),
             held' = [held EXCEPT ![c] = row.id], pc' = [pc EXCEPT ![c] = "takeover"],
             UNCHANGED << age, status, answer >>
      PROVE  IdempotencyInv'
  <2>1. row.id \in RecordId \cup {None} /\ status' \in [Client -> {"4xx", "5xx", None}]
    BY <1>4, Zenon DEF IdempotencyInv, RequestTypes, Record
  <2> QED
    BY <1>1, <1>4, <2>1, RequestMoves, Zenon DEF FingerprintMatches
<1> QED
  BY <1>2, <1>3, <1>4, Zenon DEF Get

\* The steps of a request that leave the record as it is.
LEMMA ServeKeeps ==
  ASSUME IdempotencyInv, NEW c \in Client,
         Send(c) \/ Execute(c) \/ Reject(c) \/ Fail(c)
  PROVE  IdempotencyInv'
<1>1. /\ held' = held /\ UNCHANGED << hash, row, effects, age, answer >>
      /\ pc[c] \in {"idle", "serve"}
  BY Zenon DEF Send, Execute, Reject, Fail
<1> PICK to \in {"acquire", "commit", "finish"} :
           /\ pc' = [pc EXCEPT ![c] = to]
           /\ to = "acquire" \/ pc[c] = "serve"
           /\ to = "commit" => rowLock = None /\ HoldsRecord(c)
           /\ rowLock' = IF to = "commit" THEN c ELSE rowLock
  BY Zenon DEF Send, Execute, Reject, Fail
<1>2. /\ held' = [held EXCEPT ![c] = held[c]] /\ held[c] \in RecordId \cup {None}
      /\ status' \in [Client -> {"4xx", "5xx", None}]
  BY <1>1, Zenon DEF Send, Execute, Reject, Fail, IdempotencyInv, RequestTypes
<1> QED
  BY <1>1, <1>2, RequestMoves, Zenon

\* The commit stores the response of the request that owns the record.
LEMMA CommittedKeeps ==
  ASSUME IdempotencyInv, NEW c \in Client, Commit(c) \/ CommitUnacknowledged(c)
  PROVE  IdempotencyInv'
<1>1. /\ Owns(c) /\ rowLock = c /\ hash' = hash /\ rowLock' = None /\ row' = Completed(c)
      /\ effects' = {e \in effects \cup {[by |-> c, ttl |-> row.ttl]} : e.ttl >= 0}
  <2>1. Committed(c) /\ hash' = hash
    BY Zenon DEF Commit, CommitUnacknowledged
  <2>2. pc[c] = "commit" => rowLock = c /\ Owns(c)
    BY Zenon DEF IdempotencyInv, RowLockInv, Owns
  <2> QED
    BY <2>1, <2>2, Zenon DEF Committed
<1>2. \E kind \in {"done", "5xx"}, of \in Client \cup {None} : Reply(c, kind, of)
  BY Zenon DEF Commit, CommitUnacknowledged
<1> QED
  BY <1>1, <1>2, OwnerEnds, Zenon

\* Requests that fail before or after they have a record leave it alone.
LEMMA FailureKeeps ==
  ASSUME IdempotencyInv, NEW c \in Client,
         StoreFails(c) \/ CommitFails(c) \/ FinishFails(c) \/ Crash(c)
  PROVE  IdempotencyInv'
<1>1. /\ UNCHANGED << hash, row, effects >>
      /\ rowLock' = IF rowLock = c THEN None ELSE rowLock
  BY Zenon DEF StoreFails, CommitFails, FinishFails, Crash, IdempotencyInv, RowLockInv
<1>2. \E kind \in {"error", "5xx", "rejected", "lost"}, of \in Client \cup {None} :
        Reply(c, kind, of)
  BY Zenon DEF StoreFails, CommitFails, FinishFails, Crash
<1> QED
  BY <1>1, <1>2, RequestLeaves, Zenon

\* A late finish finds the record its own or gone: it overwrites no response.
LEMMA FinishKeeps ==
  ASSUME IdempotencyInv, NEW c \in Client, Finish(c)
  PROVE  IdempotencyInv'
<1>1. \E kind \in {"5xx", "rejected"}, of \in Client \cup {None} : Reply(c, kind, of)
  BY Zenon DEF Finish
<1>2. pc[c] = "finish" /\ UNCHANGED << hash, rowLock, effects >> /\ rowLock # c
  BY Zenon DEF Finish, IdempotencyInv, RowLockInv
<1>3. CASE HoldsRecord(c)
  <2>1. Owns(c) /\ rowLock = None /\ rowLock' = None /\ row.state = "in_progress"
    BY <1>2, <1>3, Zenon DEF Finish, Owns, IdempotencyInv, OwnerInv
  <2>2. \/ row' = None
        \/ row' = [row EXCEPT !.state = "failed", !.response = c, !.lease = 0]
    BY <1>3, <2>1, Zenon DEF Finish
  <2> QED
    BY <1>1, <1>2, <2>1, <2>2, OwnerEnds, Zenon
<1>4. CASE ~ HoldsRecord(c)
  <2>1. row' = row
    BY <1>4, Zenon DEF Finish
  <2> QED
    BY <1>1, <1>2, <2>1, RequestLeaves, Zenon
<1> QED
  BY <1>3, <1>4, Zenon

\* The reaper takes a record away only when its executions have expired.
LEMMA ReapKeeps == IdempotencyInv /\ Reap => IdempotencyInv'
<1> SUFFICES ASSUME IdempotencyInv, Reap PROVE IdempotencyInv'
  BY Zenon
<1>1. /\ row' = None /\ row.ttl < 0 /\ rowLock = None
      /\ UNCHANGED << hash, rowLock, effects, pc, held, age, status, answer >>
  BY Zenon DEF Reap
<1>2. RequestTypes' /\ DeadlineInv' /\ ReplayMatchesRequest'
  BY <1>1, Zenon DEF IdempotencyInv, RequestTypes, DeadlineInv, ReplayMatchesRequest
<1>3. RowLockInv'
  BY <1>1, NoneAssumption, Zenon DEF IdempotencyInv, RowLockInv
<1>4. OwnerInv' /\ MatchInv'
  BY <1>1, Zenon DEF OwnerInv, MatchInv, Owns, HoldsRecord
<1>5. row # None => row.ttl \in Int
  BY Zenon DEF IdempotencyInv, RequestTypes, Record
<1>6. EffectInv'
  BY <1>1, <1>5 DEF IdempotencyInv, EffectInv
<1> QED
  BY <1>2, <1>3, <1>4, <1>6, Zenon DEF IdempotencyInv

\* Time runs for the record and its owner alike, and does not pass a deadline.
LEMMA TickKeeps ==
  ASSUME LeaseOutlastsRequest, IdempotencyInv, Tick
  PROVE  IdempotencyInv'
<1>1. UNCHANGED << hash, rowLock, pc, held, status, answer >>
  BY Zenon DEF Tick
<1>2. /\ age' \in [Client -> Nat]
      /\ \A c \in Client : age'[c] = IF pc[c] = "idle" THEN 0 ELSE age[c] + 1
      /\ \A c \in Client : InTime(c)
  BY DEF Tick, IdempotencyInv, RequestTypes
<1>3. DeadlineInv'
  <2> SUFFICES ASSUME NEW c \in Client
               PROVE  /\ pc[c] = "idle" => age'[c] = 0
                      /\ pc[c] # "finish" => age'[c] <= HandlerTimeout
                      /\ age'[c] <= HandlerTimeout + FinishTimeout
    BY <1>1, Zenon DEF DeadlineInv
  <2>1. /\ pc[c] \in {"idle", "acquire", "get", "takeover", "serve", "commit", "finish"}
        /\ age[c] \in Nat
    BY Zenon DEF IdempotencyInv, RequestTypes
  <2> QED
    BY <1>2, <2>1, TimesAssumption DEF InTime, Running
<1>4. CASE row = None
  <2>1. row' = None /\ effects' = {}
    BY <1>4, Zenon DEF Tick, IdempotencyInv, EffectInv
  <2>2. RequestTypes'
    BY <1>1, <1>2, <2>1, Zenon DEF IdempotencyInv, RequestTypes
  <2>3. OwnerInv' /\ MatchInv' /\ EffectInv'
    BY <2>1, Zenon DEF OwnerInv, MatchInv, EffectInv, Owns, HoldsRecord
  <2>4. RowLockInv' /\ ReplayMatchesRequest'
    BY <1>1, <1>4, <2>1, Zenon DEF IdempotencyInv, RowLockInv, HoldsRecord, ReplayMatchesRequest
  <2> QED
    BY <1>3, <2>2, <2>3, <2>4, Zenon DEF IdempotencyInv
<1>5. CASE row # None
  <2> DEFINE left == IF IsTerminal(row) THEN row.lease
                      ELSE Max({row.lease - 1, -(HandlerTimeout + 1)})
             ttl == Max({row.ttl - 1, -1})
  <2>1. /\ row \in Record /\ row.lease \in Int /\ row.ttl \in Int
        /\ -(HandlerTimeout + 1) \in Int
    BY <1>5, TimesAssumption DEF IdempotencyInv, RequestTypes, Record
  <2>2. /\ ttl = (IF row.ttl - 1 >= -1 THEN row.ttl - 1 ELSE -1) /\ ttl \in Int
        /\ row.state = "in_progress" => left =
             (IF row.lease - 1 >= -(HandlerTimeout + 1) THEN row.lease - 1
              ELSE -(HandlerTimeout + 1))
        /\ left \in Int
    BY <2>1, MaxOfTwo DEF IsTerminal
  <2>3. row' = [row EXCEPT !.lease = left, !.ttl = ttl]
    BY <1>5, Zenon DEF Tick
  <2> HIDE DEF left, ttl
  <2>4. /\ row' \in Record /\ row' # None
        /\ row'.id = row.id /\ row'.hash = row.hash /\ row'.state = row.state
        /\ row'.response = row.response /\ row'.lease = left /\ row'.ttl = ttl
    BY <2>1, <2>2, <2>3, NoneAssumption, Zenon DEF Record
  <2>5. RequestTypes'
    BY <1>1, <1>2, <2>4, Zenon DEF IdempotencyInv, RequestTypes
  <2>6. \A c \in Client : /\ Owns(c)' <=> Owns(c)
                          /\ HoldsRecord(c)' <=> HoldsRecord(c)
    BY <1>1, <1>5, <2>4, Zenon DEF Owns, HoldsRecord
  <2>7. OwnerInv'
    <3>1. ASSUME NEW c \in Client, Owns(c)
          PROVE  row.state = "in_progress" /\ left = LeaseDuration - age'[c]
      <4>1. /\ row.state = "in_progress" /\ row.lease = LeaseDuration - age[c]
            /\ age[c] \in Nat /\ pc[c] # "idle"
            /\ age'[c] <= HandlerTimeout + FinishTimeout
        BY <1>3, <3>1, Zenon DEF IdempotencyInv, OwnerInv, RequestTypes, DeadlineInv, Owns
      <4> QED
        BY <1>2, <2>1, <2>2, <4>1, TimesAssumption DEF LeaseOutlastsRequest
    <3> QED
      BY <2>4, <2>6, <3>1, Zenon DEF IdempotencyInv, OwnerInv
  <2>8. RowLockInv' /\ ReplayMatchesRequest'
    BY <1>1, <2>6, Zenon DEF IdempotencyInv, RowLockInv, ReplayMatchesRequest
  <2>9. MatchInv'
    BY <1>1, <1>5, <2>4, <2>6, Zenon DEF IdempotencyInv, MatchInv, IsTerminal
  <2>10. EffectInv'
    <3>1. \A e \in effects' : \E f \in effects : f.ttl > 0 /\ e = [f EXCEPT !.ttl = @ - 1]
      BY Zenon DEF Tick
    <3>2. \A f \in effects : row.state = "succeeded" /\ f = [by |-> row.response, ttl |-> row.ttl]
      BY Zenon DEF IdempotencyInv, EffectInv
    <3>3. \A e \in effects' : /\ row.state = "succeeded" /\ row.ttl > 0
                              /\ e = [by |-> row.response, ttl |-> row.ttl - 1]
      BY <3>1, <3>2
    <3> QED
      BY <2>1, <2>2, <2>4, <3>3 DEF EffectInv
  <2> QED
    BY <1>3, <2>5, <2>7, <2>8, <2>9, <2>10, Zenon DEF IdempotencyInv
<1> QED
  BY <1>4, <1>5, Zenon

\* The invariant of Idempotency holds throughout.
THEOREM IdempotencyInvariant ==
  ASSUME LeaseOutlastsRequest
  PROVE  Spec => []IdempotencyInv
<1>1. ASSUME IdempotencyInv, [Next]_vars PROVE IdempotencyInv'
  <2>1. CASE UNCHANGED vars
    <3>1. RequestTypes' /\ DeadlineInv' /\ EffectInv' /\ ReplayMatchesRequest'
      BY <1>1, <2>1, Zenon DEF vars, IdempotencyInv, RequestTypes, DeadlineInv, EffectInv,
        ReplayMatchesRequest
    <3>2. OwnerInv' /\ RowLockInv' /\ MatchInv'
      BY <1>1, <2>1, Zenon DEF vars, IdempotencyInv, OwnerInv, RowLockInv, MatchInv, Owns,
        HoldsRecord, IsTerminal
    <3> QED
      BY <3>1, <3>2, Zenon DEF IdempotencyInv
  <2>2. CASE Tick \/ Reap
    BY <1>1, <2>2, TickKeeps, ReapKeeps, Zenon
  <2>3. ASSUME NEW c \in Client, Send(c) \/ Step(c) \/ Failure(c) PROVE IdempotencyInv'
    <3>1. CASE Acquire(c) \/ Get(c) \/ TakeOver(c)
      BY <1>1, <3>1, AcquireKeeps, GetKeeps, TakeOverKeeps, Zenon
    <3>2. CASE Send(c) \/ Execute(c) \/ Reject(c) \/ Fail(c)
      BY <1>1, <3>2, ServeKeeps, Zenon
    <3>3. CASE Commit(c) \/ CommitUnacknowledged(c) \/ Finish(c)
      BY <1>1, <3>3, CommittedKeeps, FinishKeeps, Zenon
    <3>4. CASE StoreFails(c) \/ CommitFails(c) \/ FinishFails(c) \/ Crash(c)
      BY <1>1, <3>4, FailureKeeps, Zenon
    <3> QED
      BY <2>3, <3>1, <3>2, <3>3, <3>4, Zenon DEF Step, Failure
  <2> QED
    BY <1>1, <2>1, <2>2, <2>3, Zenon DEF Next
<1> QED
  BY <1>1, IdempotencyInitially, PTL DEF Spec

-----------------------------------------------------------------------------
(* From the outbox to the queue *)

\* What the variables of Webhooks are made of.
Items == [delivery : Subscribed, attempt : Nat]

Jobs ==
  [stage : {"idle", "next", "post", "settle", "succeeded", "disabled", "exhausted",
            "threshold"},
   queue : SUBSET Items, item : Items \cup {Null},
   status : {"active", "degraded", "disabled", Null},
   response : {"2xx", "410", "other", Null}, failures : Nat, age : Nat]

Dispatches ==
  [stage : {"idle", "expand", "commit"}, events : SUBSET Event, targets : SUBSET Subscribed]

Health ==
  [status : {"active", "degraded", "disabled"}, failures : Nat, disabledAt : BOOLEAN]

\* What the variables of Webhooks hold.
QueueTypes ==
  /\ outbox \in [Event -> {"none", "waiting", "dispatched"}]
  /\ dispatch \in [Dispatcher -> Dispatches]
  /\ endpoint \in [Endpoint -> Health]
  /\ delivery \in [Subscribed -> Delivery \cup {Null}]
  /\ job \in [Worker -> Jobs]

\* disabled_at is set when an endpoint is disabled and never reset, so a dispatch
\* about to commit has a target for every endpoint that was not disabled.
TargetInv ==
  /\ \A p \in Endpoint : endpoint[p].status = "disabled" => endpoint[p].disabledAt
  /\ \A x \in Dispatcher : dispatch[x].stage = "commit" =>
       \A d \in Subscribed :
         d[1] \in dispatch[x].events /\ ~ endpoint[d[2]].disabledAt =>
           d \in dispatch[x].targets

\* The longest time that the rest of a batch can take.
TimeLeft(j) ==
  Cardinality(j.queue) * RequestTimeout +
    (IF j.stage \in {"idle", "next"} THEN 0 ELSE RequestTimeout - j.age)

\* A batch is finite, and an attempt lasts no longer than its timeout.
JobInv(j) ==
  /\ IsFiniteSet(j.queue) /\ Cardinality(j.queue) \in Nat
  /\ j.stage = "idle" => j.queue = {}
  /\ j.age <= RequestTimeout
  /\ j.stage \in {"idle", "next"} => j.age = 0
  /\ j.stage \in {"post", "settle"} => j.item \notin j.queue

\* The row of an item is claimed, as it was when the item was made, and its lease
\* lasts for a time.
Leased(rec, i, time) ==
  /\ rec # Null /\ rec.state = "delivering" /\ rec.attempt = i.attempt
  /\ rec.lease \in Int /\ rec.lease >= time

\* How long a lease has to last: as long as the batch if it outlasts every batch.
Needed(j, l) == IF BatchSize * RequestTimeout <= l THEN TimeLeft(j) ELSE 0

\* No two items of the workers, but for the given deliveries, are for the same one.
Exclusive(jobs, except) ==
  \A v, w \in Worker : \A i \in Claimed(jobs[v]), k \in Claimed(jobs[w]) :
    i.delivery = k.delivery /\ i.delivery \notin except => v = w /\ i = k

\* Unless a delivery is late, its row stays leased to the worker that has claimed it
\* until the worker is done with it, and no other worker has claimed it.  Nothing is
\* late while a lease outlasts a batch.
WorkInv ==
  /\ lease \in Leases
  /\ LeaseOutlastsBatch => late = {}
  /\ \A w \in Worker : JobInv(job[w])
  /\ \A w \in Worker : \A i \in Claimed(job[w]) :
       i.delivery \notin late => Leased(delivery[i.delivery], i, Needed(job[w], lease))
  /\ Exclusive(job, late)

\* Unless it is late, a delivery that is not at rest has attempts left.
BudgetInv ==
  \A d \in Subscribed : delivery[d] # Null /\ d \notin late =>
    /\ delivery[d].state \in {"pending", "delivering"} => delivery[d].attempt < MaxAttempts
    /\ delivery[d].state = "exhausted" => delivery[d].attempt = MaxAttempts

\* Before the first replay attempts only add up, so that no item is ahead of its row.
CountInv ==
  /\ replays \in Nat
  /\ replays = 0 =>
       /\ \A w \in Worker : \A i \in Claimed(job[w]) :
            i.attempt <= delivery[i.delivery].attempt
       /\ \A d \in InState("exhausted") : delivery[d].attempt >= MaxAttempts

\* Every item has a row.
RowInv ==
  /\ \A w \in Worker : \A i \in Claimed(job[w]) : i \in Items /\ delivery[i.delivery] # Null
  /\ \A w \in Worker : job[w].stage \notin {"idle", "next"} => job[w].item \in Items

\* The inductive invariant of the way from the outbox to the queue.
OutboxInv == QueueTypes /\ TargetInv /\ RowInv /\ NoLostEvents

\* The inductive invariant of the queue.
QueueInv == OutboxInv /\ WorkInv /\ BudgetInv /\ CountInv

\* The invariant holds before the first event.
LEMMA OutboxInitially == WebhookInit => OutboxInv
<1> SUFFICES ASSUME WebhookInit PROVE OutboxInv
  BY Zenon
<1>1. QueueTypes
  BY Zenon DEF WebhookInit, QueueTypes, NoDispatch, Idle, NoAttempt, Jobs,
    Dispatches, Health
<1>2. TargetInv /\ NoLostEvents
  BY QueueAssumption, Zenon DEF WebhookInit, TargetInv, NoDispatch, NoLostEvents
<1>3. RowInv
  BY Zenon DEF WebhookInit, RowInv, Claimed, Idle, NoAttempt
<1> QED
  BY <1>1, <1>2, <1>3, Zenon DEF OutboxInv

\* Steps that leave the outbox, the dispatches and the endpoints alone.
LEMMA OutboxFrame ==
  ASSUME OutboxInv, UNCHANGED << outbox, dispatch, endpoint >>,
         \A d \in Subscribed : delivery[d] # Null => delivery'[d] # Null
  PROVE  TargetInv' /\ NoLostEvents'
  BY Zenon DEF OutboxInv, TargetInv, NoLostEvents

\* A worker goes on with what it has claimed.
LEMMA WorkerTypes ==
  ASSUME OutboxInv, NEW w \in Worker, NEW new \in Jobs, job' = [job EXCEPT ![w] = new],
         \A i \in Claimed(new) :
           i \in Claimed(job[w]) \/ (i \in Items /\ delivery'[i.delivery] # Null),
         new.stage \notin {"idle", "next"} => new.item \in Items,
         delivery' \in [Subscribed -> Delivery \cup {Null}],
         \A d \in Subscribed : delivery[d] # Null => delivery'[d] # Null
  PROVE  job' \in [Worker -> Jobs] /\ RowInv'
<1>1. job'[w] = new /\ \A v \in Worker \ {w} : job'[v] = job[v]
  BY Zenon DEF OutboxInv, QueueTypes
<1>2. job' \in [Worker -> Jobs]
  BY Zenon DEF OutboxInv, QueueTypes
<1>3. ASSUME NEW v \in Worker, NEW i \in Claimed(job'[v])
      PROVE  i \in Items /\ delivery'[i.delivery] # Null
  <2>1. i \in Claimed(job[v]) \/ (i \in Items /\ delivery'[i.delivery] # Null)
    BY <1>1, <1>3, Zenon
  <2>2. ASSUME i \in Claimed(job[v]) PROVE i \in Items /\ delivery'[i.delivery] # Null
    <3>1. i \in Items /\ delivery[i.delivery] # Null
      BY <2>2, Zenon DEF OutboxInv, RowInv
    <3>2. i.delivery \in Subscribed
      BY <3>1, Zenon DEF Items
    <3> QED
      BY <3>1, <3>2, Zenon
  <2> QED
    BY <2>1, <2>2, Zenon
<1>4. \A v \in Worker : job'[v].stage \notin {"idle", "next"} => job'[v].item \in Items
  BY <1>1, Zenon DEF OutboxInv, RowInv
<1> QED
  BY <1>2, <1>3, <1>4, Zenon DEF RowInv

\* An event is appended, or a dispatcher claims events, reads the endpoints or
\* gives up.
LEMMA DispatchKeepsOutbox ==
  ASSUME OutboxInv,
         \/ \E e \in Event : AppendEvent(e)
         \/ \E x \in Dispatcher : ClaimUndispatched(x) \/ Expand(x) \/ RollbackDispatch(x)
  PROVE  OutboxInv'
<1>1. UNCHANGED << endpoint, delivery, job >>
  BY Zenon DEF AppendEvent, ClaimUndispatched, Expand, RollbackDispatch
<1>2. RowInv'
  BY <1>1, Zenon DEF OutboxInv, RowInv
<1>3. CASE \E e \in Event : AppendEvent(e)
  <2>1. PICK e \in Event : outbox' = [outbox EXCEPT ![e] = "waiting"] /\ dispatch' = dispatch
    BY <1>3, Zenon DEF AppendEvent
  <2>2. QueueTypes' /\ TargetInv'
    BY <1>1, <2>1, Zenon DEF OutboxInv, QueueTypes, TargetInv
  <2>3. NoLostEvents'
    BY <1>1, <2>1, QueueAssumption, Zenon DEF OutboxInv, QueueTypes, NoLostEvents
  <2> QED
    BY <1>2, <2>2, <2>3, Zenon DEF OutboxInv
<1>4. ASSUME NEW x \in Dispatcher, ClaimUndispatched(x) \/ RollbackDispatch(x)
      PROVE  OutboxInv'
  <2>1. /\ outbox' = outbox /\ \A y \in Dispatcher \ {x} : dispatch'[y] = dispatch[y]
        /\ dispatch'[x].stage # "commit"
    BY <1>4 DEF ClaimUndispatched, RollbackDispatch, NoDispatch, OutboxInv, QueueTypes, Dispatches
  <2>2. QueueTypes'
    <3>1. ASSUME NEW events \in SUBSET Event, NEW at \in {"idle", "expand"}
          PROVE  [stage |-> at, events |-> events, targets |-> {}] \in Dispatches
      BY Zenon DEF Dispatches
    <3>2. dispatch' \in [Dispatcher -> Dispatches]
      <4>1. CASE ClaimUndispatched(x)
        BY <3>1, <4>1, Zenon DEF ClaimUndispatched, Unlocked, OutboxInv, QueueTypes
      <4>2. CASE RollbackDispatch(x)
        BY <3>1, <4>2, Zenon DEF RollbackDispatch, NoDispatch, OutboxInv, QueueTypes, Dispatches
      <4> QED
        BY <1>4, <4>1, <4>2, Zenon
    <3> QED
      BY <1>1, <2>1, <3>2, Zenon DEF OutboxInv, QueueTypes
  <2>3. TargetInv' /\ NoLostEvents'
    BY <1>1, <2>1, Zenon DEF OutboxInv, TargetInv, NoLostEvents
  <2> QED
    BY <1>2, <2>2, <2>3, Zenon DEF OutboxInv
<1>5. ASSUME NEW x \in Dispatcher, Expand(x)
      PROVE  OutboxInv'
  <2>1. /\ outbox' = outbox /\ \A y \in Dispatcher \ {x} : dispatch'[y] = dispatch[y]
        /\ dispatch'[x].events = dispatch[x].events
        /\ dispatch'[x].targets = {d \in Subscribed :
             d[1] \in dispatch[x].events /\ d[2] \in ActiveEndpoints}
    BY <1>5, Zenon DEF Expand, OutboxInv, QueueTypes, Dispatches
  <2>2. QueueTypes'
    <3>1. ASSUME NEW y \in Dispatcher PROVE dispatch'[y] \in Dispatches
      <4> DEFINE targets == {d \in Subscribed :
                              d[1] \in dispatch[x].events /\ d[2] \in ActiveEndpoints}
      <4>1. \A r \in Dispatches, T \in SUBSET Subscribed :
              [r EXCEPT !.stage = "commit", !.targets = T] \in Dispatches
        BY Zenon DEF Dispatches
      <4>2. targets \in SUBSET Subscribed /\ dispatch[x] \in Dispatches /\ dispatch[y] \in Dispatches
        BY Zenon DEF OutboxInv, QueueTypes
      <4>3. dispatch'[x] = [dispatch[x] EXCEPT !.stage = "commit", !.targets = targets]
        BY <1>5, Zenon DEF Expand, OutboxInv, QueueTypes
      <4> HIDE DEF targets
      <4>4. dispatch'[x] \in Dispatches
        BY <4>1, <4>2, <4>3, Zenon
      <4> QED
        BY <2>1, <4>2, <4>4, Zenon
    <3>2. dispatch' \in [Dispatcher -> Dispatches]
      BY <1>5, <3>1, Zenon DEF Expand, OutboxInv, QueueTypes
    <3> QED
      BY <1>1, <2>1, <3>2, Zenon DEF OutboxInv, QueueTypes
  <2>3. TargetInv'
    BY <1>1, <2>1, QueueAssumption, Zenon DEF OutboxInv, TargetInv, ActiveEndpoints
  <2>4. NoLostEvents'
    BY <1>1, <2>1, Zenon DEF OutboxInv, NoLostEvents
  <2> QED
    BY <1>2, <2>2, <2>3, <2>4, Zenon DEF OutboxInv
<1> QED
  BY <1>3, <1>4, <1>5, Zenon

\* A dispatch commits: its events are dispatched and its targets have rows.
LEMMA CommitKeepsOutbox ==
  ASSUME OutboxInv, NEW x \in Dispatcher, CommitDispatch(x)
  PROVE  OutboxInv' /\ \A d \in Subscribed : delivery[d] # Null => delivery'[d] = delivery[d]
<1>1. /\ UNCHANGED << endpoint, job >> /\ dispatch[x].stage = "commit"
      /\ \A d \in Subscribed : delivery'[d] =
           IF d \in dispatch[x].targets /\ delivery[d] = Null THEN NewDelivery ELSE delivery[d]
      /\ \A e \in Event : outbox'[e] =
           IF e \in dispatch[x].events THEN "dispatched" ELSE outbox[e]
      /\ \A y \in Dispatcher \ {x} : dispatch'[y] = dispatch[y]
      /\ dispatch'[x].stage # "commit"
  BY Zenon DEF CommitDispatch, NoDispatch, OutboxInv, QueueTypes, Dispatches
<1>2. NewDelivery \in Delivery /\ NewDelivery # Null
  BY NullAssumption DEF NewDelivery, Delivery, DeliveryState
<1>3. \A d \in Subscribed : delivery[d] # Null => delivery'[d] = delivery[d]
  BY <1>1, Zenon
<1>4. QueueTypes'
  <2>1. delivery' \in [Subscribed -> Delivery \cup {Null}]
    BY <1>2, Zenon DEF CommitDispatch, OutboxInv, QueueTypes
  <2> QED
    BY <1>1, <2>1, Zenon DEF CommitDispatch, NoDispatch, OutboxInv, QueueTypes, Dispatches
<1>5. TargetInv'
  BY <1>1, Zenon DEF OutboxInv, TargetInv
<1>6. RowInv'
  BY <1>1, <1>3, Zenon DEF OutboxInv, RowInv, Items
<1>7. NoLostEvents'
  <2> SUFFICES ASSUME NEW d \in Subscribed, outbox'[d[1]] = "dispatched",
                      ~ endpoint[d[2]].disabledAt
               PROVE  delivery'[d] # Null
    BY <1>1, Zenon DEF NoLostEvents
  <2>1. d[1] \in Event
    BY QueueAssumption, Zenon
  <2>2. CASE d[1] \in dispatch[x].events
    BY <1>1, <1>2, <2>2, Zenon DEF OutboxInv, TargetInv
  <2>3. CASE d[1] \notin dispatch[x].events
    BY <1>1, <1>2, <2>1, <2>3, Zenon DEF OutboxInv, NoLostEvents
  <2> QED
    BY <2>2, <2>3, Zenon
<1> QED
  BY <1>3, <1>4, <1>5, <1>6, <1>7, Zenon DEF OutboxInv

\* How a worker goes on with its batch: it stops, it turns to what is left, it
\* starts with an item, or it takes the next step with the one at hand.
GoesOn(j, new) ==
  /\ new \in Jobs
  /\ \/ new = Idle
     \/ new = Remaining(j.queue)
     \/ /\ j.stage = "next" /\ new.stage \in {"post", "settle"}
        /\ new.age = 0 /\ new.item \in j.queue /\ new.queue = j.queue \ {new.item}
     \/ /\ j.stage \notin {"idle", "next"} /\ new.stage \notin {"idle", "next"}
        /\ new.stage \in {"post", "settle"} => j.stage \in {"post", "settle"}
        /\ new.age = j.age /\ new.item = j.item /\ new.queue = j.queue

\* The fields of a job are updated one by one.
LEMMA JobTypes ==
  ASSUME NEW j \in Jobs
  PROVE  /\ Idle \in Jobs
         /\ \A q \in SUBSET Items : Remaining(q) \in Jobs
         /\ \A t \in {"idle", "next", "post", "settle", "succeeded", "disabled", "exhausted",
                      "threshold"} : [j EXCEPT !.stage = t] \in Jobs
         /\ \A q \in SUBSET Items : [j EXCEPT !.queue = q] \in Jobs
         /\ \A i \in Items : [j EXCEPT !.item = i] \in Jobs
         /\ \A t \in {"active", "degraded", "disabled", Null} : [j EXCEPT !.status = t] \in Jobs
         /\ \A r \in {"2xx", "410", "other", Null} : [j EXCEPT !.response = r] \in Jobs
         /\ \A n \in Nat : [j EXCEPT !.failures = n] \in Jobs
         /\ \A n \in Nat : [j EXCEPT !.age = n] \in Jobs
<1>1. j.queue \in SUBSET Items
  BY Zenon DEF Jobs
<1>2. Idle \in Jobs /\ \A q \in SUBSET Items : Remaining(q) \in Jobs
  BY <1>1, Zenon DEF Idle, Remaining, NoAttempt, Jobs
<1>3. /\ \A t \in {"idle", "next", "post", "settle", "succeeded", "disabled", "exhausted",
                   "threshold"} : [j EXCEPT !.stage = t] \in Jobs
      /\ \A q \in SUBSET Items : [j EXCEPT !.queue = q] \in Jobs
  BY <1>1, Zenon DEF Jobs
<1>4. /\ \A i \in Items : [j EXCEPT !.item = i] \in Jobs
      /\ \A t \in {"active", "degraded", "disabled", Null} : [j EXCEPT !.status = t] \in Jobs
  BY Zenon DEF Jobs
<1>5. /\ \A r \in {"2xx", "410", "other", Null} : [j EXCEPT !.response = r] \in Jobs
      /\ \A n \in Nat : [j EXCEPT !.failures = n] \in Jobs
      /\ \A n \in Nat : [j EXCEPT !.age = n] \in Jobs
  BY Zenon DEF Jobs
<1> QED
  BY <1>2, <1>3, <1>4, <1>5, Zenon

\* Every step of an attempt but Settle, and every failure, goes on that way.
LEMMA AttemptGoesOn ==
  ASSUME OutboxInv, NEW w \in Worker,
         \/ StartAttempt(w) \/ EndBatch(w) \/ Post(w) \/ UpdateEndpoint(w)
         \/ ApplyThreshold(w) \/ AttemptFails(w) \/ CrashWorker(w)
  PROVE  \E new : GoesOn(job[w], new) /\ job' = [job EXCEPT ![w] = new]
<1>1. job[w] \in Jobs /\ job[w].queue \subseteq Items /\ job[w].queue \in SUBSET job[w].queue
  BY Zenon DEF OutboxInv, QueueTypes, Jobs
<1>2. CASE StartAttempt(w)
  <2> DEFINE health(i) == endpoint[i.delivery[2]].status
             new(i) == [stage |-> IF health(i) = "disabled" THEN "settle" ELSE "post",
                        queue |-> job[w].queue \ {i}, item |-> i, status |-> health(i),
                        response |-> Null, failures |-> 0, age |-> 0]
  <2>1. PICK i \in job[w].queue : job[w].stage = "next" /\ job' = [job EXCEPT ![w] = new(i)]
    BY <1>2, Zenon DEF StartAttempt
  <2>2. endpoint[i.delivery[2]].status \in {"active", "degraded", "disabled"}
    <3>1. i.delivery[2] \in Endpoint
      BY <1>1, QueueAssumption, Zenon DEF Items
    <3> QED
      BY <3>1, Zenon DEF OutboxInv, QueueTypes, Health
  <2>3. new(i) \in Jobs
    BY <1>1, <2>1, <2>2, Zenon DEF Jobs
  <2> QED
    BY <2>1, <2>3, Zenon DEF GoesOn
<1>3. CASE Post(w)
  <2>1. PICK r \in {"2xx", "410", "other"} :
          /\ job[w].stage = "post"
          /\ job' = [job EXCEPT ![w] = [@ EXCEPT !.stage = "settle", !.response = r]]
    BY <1>3, Zenon DEF Post
  <2> DEFINE new == [job[w] EXCEPT !.stage = "settle", !.response = r]
  <2>2. new \in Jobs
    BY <1>1, JobTypes, Zenon
  <2>3. /\ new.stage = "settle" /\ new.queue = job[w].queue /\ new.item = job[w].item
        /\ new.age = job[w].age
    BY <1>1, Zenon DEF Jobs
  <2>4. job' = [job EXCEPT ![w] = new]
    BY <2>1, Zenon
  <2> HIDE DEF new
  <2> QED
    BY <2>1, <2>2, <2>3, <2>4, Zenon DEF GoesOn
<1>4. ASSUME job' = [job EXCEPT ![w] = Remaining(@.queue)] \/ job' = [job EXCEPT ![w] = Idle]
      PROVE  \E new : GoesOn(job[w], new) /\ job' = [job EXCEPT ![w] = new]
  BY <1>1, <1>4, JobTypes, Zenon DEF GoesOn
<1>5. CASE UpdateEndpoint(w)
  <2>1. CASE job[w].stage = "exhausted"
    <3> DEFINE n == endpoint[job[w].item.delivery[2]].failures + 1
               new == [job[w] EXCEPT !.stage = "threshold", !.failures = n]
    <3>1. job' = [job EXCEPT ![w] = new]
      BY <1>5, <2>1, Zenon DEF UpdateEndpoint
    <3>2. new \in Jobs
      <4>1. job[w].item.delivery[2] \in Endpoint
        BY <2>1, QueueAssumption, Zenon DEF OutboxInv, RowInv, Items
      <4>2. n \in Nat
        BY <4>1 DEF OutboxInv, QueueTypes, Health
      <4> QED
        BY <1>1, <4>2, JobTypes, Zenon
    <3>3. /\ new.stage = "threshold" /\ new.queue = job[w].queue /\ new.item = job[w].item
          /\ new.age = job[w].age
      BY <1>1, Zenon DEF Jobs
    <3> HIDE DEF new
    <3> QED
      BY <2>1, <3>1, <3>2, <3>3, Zenon DEF GoesOn
  <2>2. CASE job[w].stage # "exhausted"
    BY <1>4, <1>5, <2>2, Zenon DEF UpdateEndpoint
  <2> QED
    BY <2>1, <2>2, Zenon
<1> QED
  BY <1>2, <1>3, <1>4, <1>5, Zenon DEF EndBatch, ApplyThreshold, AttemptFails, CrashWorker

\* A worker that goes on claims no further row.
LEMMA GoesOnClaims ==
  ASSUME OutboxInv, NEW w \in Worker, NEW new, GoesOn(job[w], new)
  PROVE  /\ Claimed(new) \subseteq Claimed(job[w])
         /\ new.stage \notin {"idle", "next"} => new.item \in Items
<1>1. job[w] \in Jobs /\ job[w].queue \subseteq Items
  BY Zenon DEF OutboxInv, QueueTypes, Jobs
<1>2. CASE new = Idle \/ new = Remaining(job[w].queue)
  <2>1. new.queue \subseteq job[w].queue /\ new.stage \in {"idle", "next"}
    BY <1>2 DEF Idle, Remaining, NoAttempt
  <2> QED
    BY <2>1, Zenon DEF Claimed
<1>3. CASE /\ job[w].stage = "next" /\ new.item \in job[w].queue
           /\ new.queue = job[w].queue \ {new.item}
  BY <1>1, <1>3, Zenon DEF Claimed
<1>4. CASE /\ job[w].stage \notin {"idle", "next"}
           /\ new.stage \in {"post", "settle"} => job[w].stage \in {"post", "settle"}
           /\ new.item = job[w].item /\ new.queue = job[w].queue
  BY <1>4, Zenon DEF Claimed, OutboxInv, RowInv
<1> QED
  BY <1>2, <1>3, <1>4, Zenon DEF GoesOn

\* The fields of an endpoint are updated one by one.
LEMMA HealthTypes ==
  /\ \A h \in Health : \A s \in {"degraded", "disabled"} : [h EXCEPT !.status = s] \in Health
  /\ \A h \in Health : \A n \in Nat : [h EXCEPT !.failures = n] \in Health
  /\ \A h \in Health : [h EXCEPT !.status = "disabled", !.disabledAt = TRUE] \in Health
<1>1. \A h \in Health : \A s \in {"degraded", "disabled"} : [h EXCEPT !.status = s] \in Health
  BY Zenon DEF Health
<1>2. \A h \in Health : \A n \in Nat : [h EXCEPT !.failures = n] \in Health
  BY Zenon DEF Health
<1>3. \A h \in Health : [h EXCEPT !.disabledAt = TRUE] \in Health
  BY Zenon DEF Health
<1> QED
  BY <1>1, <1>2, <1>3, Zenon

\* Endpoints change their status, and disabled_at is set with it.
LEMMA EndpointKeeps ==
  ASSUME OutboxInv, NEW w \in Worker, UpdateEndpoint(w) \/ ApplyThreshold(w)
  PROVE  /\ endpoint' \in [Endpoint -> Health]
         /\ \A p \in Endpoint :
              /\ endpoint[p].disabledAt => endpoint'[p].disabledAt
              /\ endpoint'[p].status = "disabled" => endpoint'[p].disabledAt
<1> DEFINE p == job[w].item.delivery[2]
<1>1. p \in Endpoint
  <2>1. job[w].item \in Items
    BY Zenon DEF UpdateEndpoint, ApplyThreshold, OutboxInv, RowInv
  <2> QED
    BY <2>1, QueueAssumption, Zenon DEF Items
<1>2. /\ endpoint \in [Endpoint -> Health] /\ endpoint[p] \in Health
      /\ endpoint[p].failures \in Nat /\ endpoint[p].failures + 1 \in Nat /\ 0 \in Nat
      /\ endpoint[p].status = "disabled" => endpoint[p].disabledAt
  <2>1. endpoint \in [Endpoint -> Health] /\ endpoint[p] \in Health
    BY <1>1, Zenon DEF OutboxInv, QueueTypes
  <2>2. endpoint[p].failures \in Nat
    BY <2>1, Zenon DEF Health
  <2>3. endpoint[p].status = "disabled" => endpoint[p].disabledAt
    BY <1>1, Zenon DEF OutboxInv, TargetInv
  <2>4. \A n \in Nat : n + 1 \in Nat /\ 0 \in Nat
    OBVIOUS
  <2> QED
    BY <2>1, <2>2, <2>3, <2>4, Zenon
<1> DEFINE Better(new) == /\ endpoint[p].disabledAt => new.disabledAt
                          /\ new.status = "disabled" => new.disabledAt
<1>3. PICK new \in Health : endpoint' = [endpoint EXCEPT ![p] = new] /\ Better(new)
  <2>1. endpoint' = [endpoint EXCEPT ![p] = [@ EXCEPT !.failures = 0]]
          => \E new \in Health : endpoint' = [endpoint EXCEPT ![p] = new] /\ Better(new)
    <3>1. [endpoint[p] EXCEPT !.failures = 0] \in Health
      BY <1>2, HealthTypes, Zenon
    <3>2. Better([endpoint[p] EXCEPT !.failures = 0])
      BY <1>2, Zenon DEF Health
    <3> QED
      BY <3>1, <3>2, Zenon
  <2>2. endpoint' = [endpoint EXCEPT ![p] = [@ EXCEPT !.failures = endpoint[p].failures + 1]]
          => \E new \in Health : endpoint' = [endpoint EXCEPT ![p] = new] /\ Better(new)
    <3>1. [endpoint[p] EXCEPT !.failures = endpoint[p].failures + 1] \in Health
      BY <1>2, HealthTypes, Zenon
    <3>2. Better([endpoint[p] EXCEPT !.failures = endpoint[p].failures + 1])
      BY <1>2, Zenon DEF Health
    <3> QED
      BY <3>1, <3>2, Zenon
  <2>3. endpoint' = [endpoint EXCEPT ![p] = [@ EXCEPT !.status = "disabled", !.disabledAt = TRUE]]
          => \E new \in Health : endpoint' = [endpoint EXCEPT ![p] = new] /\ Better(new)
    <3>1. [endpoint[p] EXCEPT !.status = "disabled", !.disabledAt = TRUE] \in Health
      BY <1>2, HealthTypes, Zenon
    <3>2. \A h \in Health : [h EXCEPT !.disabledAt = TRUE].disabledAt
      BY Zenon DEF Health
    <3>3. Better([endpoint[p] EXCEPT !.status = "disabled", !.disabledAt = TRUE])
      BY <1>2, <3>2, HealthTypes, Zenon
    <3> QED
      BY <3>1, <3>3, Zenon
  <2>4. endpoint' = [endpoint EXCEPT ![p] = [@ EXCEPT !.status = "degraded"]]
          => \E new \in Health : endpoint' = [endpoint EXCEPT ![p] = new] /\ Better(new)
    <3>1. [endpoint[p] EXCEPT !.status = "degraded"] \in Health
      BY <1>2, HealthTypes, Zenon
    <3>2. Better([endpoint[p] EXCEPT !.status = "degraded"])
      BY <1>2, Zenon DEF Health
    <3> QED
      BY <3>1, <3>2, Zenon
  <2>5. endpoint' = endpoint
          => \E new \in Health : endpoint' = [endpoint EXCEPT ![p] = new] /\ Better(new)
    BY <1>2, Zenon
  <2> HIDE DEF Better
  <2> QED
    BY <2>1, <2>2, <2>3, <2>4, <2>5, Zenon DEF UpdateEndpoint, ApplyThreshold
<1> HIDE DEF p
<1> QED
  BY <1>1, <1>2, <1>3, Zenon DEF OutboxInv, TargetInv

\* Any step of an attempt but Settle keeps the outbox in order.
LEMMA AttemptKeepsOutbox ==
  ASSUME OutboxInv, NEW w \in Worker,
         \/ StartAttempt(w) \/ EndBatch(w) \/ Post(w) \/ UpdateEndpoint(w)
         \/ ApplyThreshold(w) \/ AttemptFails(w) \/ CrashWorker(w)
  PROVE  OutboxInv'
<1>1. UNCHANGED << outbox, dispatch, delivery >>
  BY Zenon DEF StartAttempt, EndBatch, Post, UpdateEndpoint, ApplyThreshold, AttemptFails,
    CrashWorker
<1>2. PICK new : GoesOn(job[w], new) /\ job' = [job EXCEPT ![w] = new]
  BY AttemptGoesOn, Zenon
<1>3. job' \in [Worker -> Jobs] /\ RowInv'
  <2>1. Claimed(new) \subseteq Claimed(job[w]) /\
          (new.stage \notin {"idle", "next"} => new.item \in Items)
    BY <1>2, GoesOnClaims, Zenon
  <2>2. new \in Jobs
    BY <1>2, Zenon DEF GoesOn
  <2>3. delivery' \in [Subscribed -> Delivery \cup {Null}]
    BY <1>1, Zenon DEF OutboxInv, QueueTypes
  <2>4. /\ \A i \in Claimed(new) :
           i \in Claimed(job[w]) \/ (i \in Items /\ delivery'[i.delivery] # Null)
        /\ \A d \in Subscribed : delivery[d] # Null => delivery'[d] # Null
    BY <1>1, <2>1, Zenon
  <2> QED
    BY <1>2, <2>1, <2>2, <2>3, <2>4, WorkerTypes, Zenon
<1>4. CASE UNCHANGED endpoint
  <2>1. TargetInv' /\ NoLostEvents'
    BY <1>1, <1>4, OutboxFrame, Zenon
  <2> QED
    BY <1>1, <1>3, <1>4, <2>1, Zenon DEF OutboxInv, QueueTypes
<1>5. CASE UpdateEndpoint(w) \/ ApplyThreshold(w)
  <2>1. /\ endpoint' \in [Endpoint -> Health]
        /\ \A p \in Endpoint :
             /\ endpoint[p].disabledAt => endpoint'[p].disabledAt
             /\ endpoint'[p].status = "disabled" => endpoint'[p].disabledAt
    BY <1>5, EndpointKeeps, Zenon
  <2>2. \A d \in Subscribed : d[2] \in Endpoint
    BY QueueAssumption, Zenon
  <2>3. TargetInv'
    BY <1>1, <2>1, <2>2, Zenon DEF OutboxInv, TargetInv
  <2>4. NoLostEvents'
    BY <1>1, <2>1, <2>2, Zenon DEF OutboxInv, NoLostEvents
  <2> QED
    BY <1>1, <1>3, <2>1, <2>3, <2>4, Zenon DEF OutboxInv, QueueTypes
<1> QED
  BY <1>4, <1>5, Zenon DEF StartAttempt, EndBatch, Post, AttemptFails, CrashWorker

\* The fields of a delivery are updated one by one.
LEMMA RowTypes ==
  ASSUME NEW r \in Delivery
  PROVE  /\ r.attempt \in Nat /\ r.due \in Nat /\ r.lease \in Int \cup {Null} /\ r # Null
         /\ \A s \in DeliveryState : [r EXCEPT !.state = s] \in Delivery
         /\ \A n \in Nat : [r EXCEPT !.due = n] \in Delivery
         /\ \A l \in Int \cup {Null} : [r EXCEPT !.lease = l] \in Delivery
<1>1. r.attempt \in Nat /\ r.due \in Nat /\ r.lease \in Int \cup {Null} /\ r # Null
  BY NullAssumption, Zenon DEF Delivery
<1>2. /\ \A s \in DeliveryState : [r EXCEPT !.state = s] \in Delivery
      /\ \A n \in Nat : [r EXCEPT !.due = n] \in Delivery
  BY Zenon DEF Delivery
<1>3. \A l \in Int \cup {Null} : [r EXCEPT !.lease = l] \in Delivery
  BY Zenon DEF Delivery
<1> QED
  BY <1>1, <1>2, <1>3, Zenon

\* What Settle makes of the row and of the job.
LEMMA SettleMoves ==
  ASSUME OutboxInv, NEW w \in Worker, Settle(w)
  PROVE  \E new, rec \in Jobs \cup Delivery :
           /\ rec \in Delivery /\ rec.lease = Null
           /\ rec.attempt = delivery[job[w].item.delivery].attempt + 1
           /\ \/ rec.state = "pending" /\ job[w].item.attempt + 1 < MaxAttempts
              \/ rec.state = "exhausted" /\ job[w].item.attempt + 1 >= MaxAttempts
              \/ rec.state \in {"succeeded", "disabled"}
           /\ delivery' = [delivery EXCEPT ![job[w].item.delivery] = rec]
           /\ GoesOn(job[w], new) /\ new.stage \notin {"post", "settle"}
           /\ job' = [job EXCEPT ![w] = new]
<1> DEFINE d == job[w].item.delivery
           n == job[w].item.attempt
<1>1. /\ job[w] \in Jobs /\ job[w].stage = "settle" /\ job[w].item \in Items
      /\ d \in Subscribed /\ n \in Nat /\ job[w].queue \in SUBSET Items
      /\ job[w].response \in {"2xx", "410", "other", Null}
  BY Zenon DEF Settle, OutboxInv, QueueTypes, RowInv, Jobs, Items
<1>2. delivery[d] \in Delivery /\ delivery[d].attempt \in Nat
  <2>1. delivery[d] # Null
    BY <1>1, Zenon DEF OutboxInv, RowInv, Claimed
  <2>2. delivery[d] \in Delivery
    BY <1>1, <2>1, Zenon DEF OutboxInv, QueueTypes
  <2> QED
    BY <2>2, RowTypes, Zenon
<1>3. /\ Outcome(w) \in {"succeeded", "disabled", "exhausted", "retry"}
      /\ Outcome(w) = "retry" => n + 1 < MaxAttempts
      /\ Outcome(w) = "exhausted" => n + 1 >= MaxAttempts
  BY <1>1, QueueAssumption DEF Outcome, Classify
<1> HIDE DEF d, n
<1>4. PICK rec \in Delivery :
        /\ rec.lease = Null /\ rec.attempt = delivery[d].attempt + 1
        /\ \/ rec.state = "pending" /\ Outcome(w) = "retry"
           \/ rec.state = Outcome(w) /\ Outcome(w) # "retry"
        /\ delivery' = [delivery EXCEPT ![d] = rec]
  <2>1. CASE Outcome(w) = "retry"
    <3>1. PICK delay \in 0 .. Interval[n] :
            delivery' = [delivery EXCEPT ![d] = Settled(@, "pending", delay)]
      BY <2>1, Zenon DEF Settle, d, n
    <3>2. delay \in Nat
      OBVIOUS
    <3>3. Settled(delivery[d], "pending", delay) \in Delivery
      BY <1>2, <3>2 DEF Settled, Delivery, DeliveryState
    <3> QED
      BY <2>1, <3>1, <3>3, Zenon DEF Settled
  <2>2. CASE Outcome(w) # "retry"
    <3>1. delivery' = [delivery EXCEPT ![d] = Settled(@, Outcome(w), 0)]
      BY <2>2, Zenon DEF Settle, d, n
    <3>2. Settled(delivery[d], Outcome(w), 0) \in Delivery
      BY <1>2, <1>3, <2>2 DEF Settled, Delivery, DeliveryState
    <3> QED
      BY <2>2, <3>1, <3>2, Zenon DEF Settled
  <2> QED
    BY <2>1, <2>2, Zenon
<1>5. PICK new \in Jobs : /\ GoesOn(job[w], new) /\ new.stage \notin {"post", "settle"}
                          /\ job' = [job EXCEPT ![w] = new]
  <2>1. CASE Outcome(w) = "retry" \/ job[w].response = Null
    <3>1. job' = [job EXCEPT ![w] = Remaining(job[w].queue)]
      BY <2>1, Zenon DEF Settle
    <3>2. Remaining(job[w].queue) \in Jobs
      BY <1>1, JobTypes, Zenon
    <3>3. Remaining(job[w].queue).stage = "next"
      BY Zenon DEF Remaining, NoAttempt
    <3> QED
      BY <3>1, <3>2, <3>3, Zenon DEF GoesOn
  <2>2. CASE ~ (Outcome(w) = "retry" \/ job[w].response = Null)
    <3> DEFINE new == [job[w] EXCEPT !.stage = Outcome(w), !.response = Null]
    <3>1. job' = [job EXCEPT ![w] = new]
      BY <2>2, Zenon DEF Settle
    <3>2. new \in Jobs
      BY <1>1, <1>3, <2>2, JobTypes, Zenon
    <3>3. /\ new.stage \in {"succeeded", "disabled", "exhausted"} /\ new.queue = job[w].queue
          /\ new.item = job[w].item /\ new.age = job[w].age
      BY <1>1, <1>3, <2>2, Zenon DEF Jobs
    <3> HIDE DEF new
    <3> QED
      BY <1>1, <3>1, <3>2, <3>3, Zenon DEF GoesOn
  <2> QED
    BY <2>1, <2>2, Zenon
<1> QED
  BY <1>3, <1>4, <1>5, Zenon DEF d, n

\* A worker claims due rows.
LEMMA ClaimKeepsOutbox ==
  ASSUME OutboxInv, lease \in Leases, NEW w \in Worker, ClaimDue(w)
  PROVE  OutboxInv'
<1>1. PICK batch \in SUBSET Due :
        /\ job' = [job EXCEPT ![w] = Remaining({Item(d) : d \in batch})]
        /\ delivery' = [d \in Subscribed |->
                          IF d \in batch
                          THEN [delivery[d] EXCEPT !.state = "delivering", !.lease = lease]
                          ELSE delivery[d]]
  BY Zenon DEF ClaimDue, kSubset
<1>2. \A d \in batch : /\ d \in Subscribed /\ delivery[d] \in Delivery /\ Item(d) \in Items
                       /\ Item(d).delivery = d
  <2>1. \A d \in batch : d \in Subscribed /\ delivery[d] \in Delivery
    BY Zenon DEF Due, InState, OutboxInv, QueueTypes
  <2>2. \A d \in batch : delivery[d].attempt \in Nat
    BY <2>1, RowTypes, Zenon
  <2> QED
    BY <2>1, <2>2, Zenon DEF Item, Items
<1>3. delivery' \in [Subscribed -> Delivery \cup {Null}] /\ \A d \in batch : delivery'[d] # Null
  <2>1. lease \in Int /\ "delivering" \in DeliveryState
    BY QueueAssumption DEF DeliveryState
  <2>2. \A d \in batch : [delivery[d] EXCEPT !.state = "delivering", !.lease = lease] \in Delivery
    BY <1>2, <2>1, RowTypes, Zenon
  <2>3. \A d \in Subscribed : delivery[d] \in Delivery \cup {Null}
    BY Zenon DEF OutboxInv, QueueTypes
  <2>4. \A d \in Subscribed : delivery'[d] \in Delivery \cup {Null}
    BY <1>1, <2>2, <2>3, Zenon
  <2>5. \A d \in batch : delivery'[d] \in Delivery
    BY <1>1, <1>2, <2>2, Zenon
  <2>6. Null \notin Delivery
    BY NullAssumption, Zenon
  <2> QED
    BY <1>1, <2>4, <2>5, <2>6, Zenon
<1> DEFINE new == Remaining({Item(d) : d \in batch})
<1>4. /\ new \in Jobs /\ new.stage = "next"
      /\ \A i \in Claimed(new) : i \in Items /\ delivery'[i.delivery] # Null
  <2>1. {Item(d) : d \in batch} \in SUBSET Items
    BY <1>2, Zenon
  <2>2. new \in Jobs
    BY <2>1, Zenon DEF Remaining, NoAttempt, Jobs
  <2>3. new.stage = "next" /\ Claimed(new) = {Item(d) : d \in batch}
    BY Zenon DEF Remaining, NoAttempt, Claimed
  <2>4. \A i \in {Item(d) : d \in batch} : i \in Items /\ delivery'[i.delivery] # Null
    BY <1>2, <1>3, Zenon
  <2> QED
    BY <2>2, <2>3, <2>4, Zenon
<1>5. \A d \in Subscribed : delivery[d] # Null => delivery'[d] # Null
  BY <1>1, <1>3, Zenon
<1> HIDE DEF new
<1>6. job' \in [Worker -> Jobs] /\ RowInv'
  BY <1>1, <1>3, <1>4, <1>5, WorkerTypes, Zenon DEF new
<1>7. UNCHANGED << outbox, dispatch, endpoint >>
  BY Zenon DEF ClaimDue
<1>8. TargetInv' /\ NoLostEvents'
  BY <1>5, <1>7, OutboxFrame, Zenon
<1> QED
  BY <1>3, <1>6, <1>7, <1>8, Zenon DEF OutboxInv, QueueTypes

\* A worker settles its item.
LEMMA SettleKeepsOutbox ==
  ASSUME OutboxInv, NEW w \in Worker, Settle(w)
  PROVE  OutboxInv'
<1>1. PICK new, rec \in Jobs \cup Delivery :
        /\ rec \in Delivery /\ delivery' = [delivery EXCEPT ![job[w].item.delivery] = rec]
        /\ GoesOn(job[w], new) /\ job' = [job EXCEPT ![w] = new]
  BY SettleMoves, Zenon
<1>2. rec # Null
  BY <1>1, RowTypes, Zenon
<1>3. /\ delivery' \in [Subscribed -> Delivery \cup {Null}]
      /\ \A d \in Subscribed : delivery[d] # Null => delivery'[d] # Null
  BY <1>1, <1>2, Zenon DEF OutboxInv, QueueTypes
<1>4. /\ \A i \in Claimed(new) :
           i \in Claimed(job[w]) \/ (i \in Items /\ delivery'[i.delivery] # Null)
      /\ new.stage \notin {"idle", "next"} => new.item \in Items
  BY <1>1, GoesOnClaims, Zenon
<1>5. new \in Jobs
  BY <1>1, Zenon DEF GoesOn
<1>6. job' \in [Worker -> Jobs] /\ RowInv'
  BY <1>1, <1>3, <1>4, <1>5, WorkerTypes, Zenon
<1>7. UNCHANGED << outbox, dispatch, endpoint >>
  BY Zenon DEF Settle
<1>8. TargetInv' /\ NoLostEvents'
  BY <1>3, <1>7, OutboxFrame, Zenon
<1> QED
  BY <1>3, <1>6, <1>7, <1>8, Zenon DEF OutboxInv, QueueTypes

\* Rows change in place and no worker moves.
LEMMA RowsKeepOutbox ==
  ASSUME OutboxInv, UNCHANGED << outbox, dispatch, endpoint, job >>,
         delivery' \in [Subscribed -> Delivery \cup {Null}],
         \A d \in Subscribed : delivery[d] # Null => delivery'[d] # Null
  PROVE  OutboxInv'
<1>1. TargetInv' /\ NoLostEvents'
  BY OutboxFrame, Zenon
<1>2. RowInv'
  <2>1. \A i \in Items : i.delivery \in Subscribed
    BY Zenon DEF Items
  <2> QED
    BY <2>1, Zenon DEF OutboxInv, RowInv
<1> QED
  BY <1>1, <1>2, Zenon DEF OutboxInv, QueueTypes

\* The sweeper keeps the outbox in order.
LEMMA SweepKeepsOutbox ==
  ASSUME OutboxInv, ReclaimOnce
  PROVE  OutboxInv'
<1>1. \A d \in Subscribed : delivery[d] # Null => delivery[d] \in Delivery
  BY Zenon DEF OutboxInv, QueueTypes
<1>2. "pending" \in DeliveryState
  BY Zenon DEF DeliveryState
<1>3. \A d \in Reclaimable : /\ delivery[d] # Null
                             /\ [delivery[d] EXCEPT !.state = "pending", !.lease = Null] \in Delivery
  <2>1. \A d \in Reclaimable : delivery[d] # Null /\ delivery[d] \in Delivery
    BY <1>1, Zenon DEF Reclaimable, InState
  <2> QED
    BY <1>2, <2>1, RowTypes, Zenon
<1>4. \A d \in Subscribed : delivery[d] # Null =>
        delivery'[d] \in Delivery
  BY <1>1, <1>3, Zenon DEF ReclaimOnce
<1>5. \A d \in Subscribed : delivery[d] = Null => delivery'[d] = Null
  BY <1>3, Zenon DEF ReclaimOnce
<1>6. delivery' \in [Subscribed -> Delivery \cup {Null}]
  BY <1>4, <1>5, Zenon DEF ReclaimOnce
<1>7. \A d \in Subscribed : delivery[d] # Null => delivery'[d] # Null
  BY <1>4, NullAssumption, Zenon
<1>8. UNCHANGED << outbox, dispatch, endpoint, job >>
  BY Zenon DEF ReclaimOnce
<1> QED
  BY <1>6, <1>7, <1>8, RowsKeepOutbox, Zenon

\* A replay keeps the outbox in order.
LEMMA ReplayKeepsOutbox ==
  ASSUME OutboxInv, NEW d \in Subscribed, ReplayDelivery(d)
  PROVE  OutboxInv'
<1>1. NewDelivery \in Delivery /\ NewDelivery # Null
  <2>1. NewDelivery \in Delivery
    BY Zenon DEF NewDelivery, Delivery, DeliveryState
  <2> QED
    BY <2>1, NullAssumption, Zenon
<1>2. /\ delivery' \in [Subscribed -> Delivery \cup {Null}]
      /\ \A c \in Subscribed : delivery[c] # Null => delivery'[c] # Null
  BY <1>1, Zenon DEF ReplayDelivery, OutboxInv, QueueTypes
<1>3. UNCHANGED << outbox, dispatch, endpoint, job >>
  BY Zenon DEF ReplayDelivery
<1> QED
  BY <1>2, <1>3, RowsKeepOutbox, Zenon

\* A row after a tick.
LEMMA RowTicks ==
  ASSUME NEW r \in Delivery
  PROVE  LET new == [r EXCEPT !.due = Max({@ - 1, 0}),
                              !.lease = IF @ = Null THEN Null ELSE Max({@ - 1, -1})]
         IN  /\ new \in Delivery /\ new.state = r.state /\ new.attempt = r.attempt
             /\ r.lease = Null => new.lease = Null
             /\ r.lease # Null => new.lease \in Int /\ new.lease >= r.lease - 1 /\ new.lease >= -1
<1> DEFINE new == [r EXCEPT !.due = Max({@ - 1, 0}),
                            !.lease = IF @ = Null THEN Null ELSE Max({@ - 1, -1})]
<1>1. r.due \in Int /\ Max({r.due - 1, 0}) \in Nat
  <2>1. r.due \in Nat /\ r.due - 1 \in Int /\ 0 \in Int
    BY RowTypes
  <2>2. Max({r.due - 1, 0}) = IF r.due - 1 >= 0 THEN r.due - 1 ELSE 0
    BY <2>1, MaxOfTwo, Zenon
  <2> QED
    BY <2>1, <2>2
<1>2. r.lease # Null =>
        /\ r.lease \in Int /\ Max({r.lease - 1, -1}) \in Int
        /\ Max({r.lease - 1, -1}) >= r.lease - 1 /\ Max({r.lease - 1, -1}) >= -1
  <2> SUFFICES ASSUME r.lease # Null
               PROVE  /\ r.lease \in Int
                      /\ Max({r.lease - 1, -1}) \in Int
                      /\ Max({r.lease - 1, -1}) >= r.lease - 1 /\ Max({r.lease - 1, -1}) >= -1
    BY Zenon
  <2>1. r.lease \in Int /\ r.lease - 1 \in Int /\ -1 \in Int
    BY RowTypes
  <2>2. Max({r.lease - 1, -1}) = IF r.lease - 1 >= -1 THEN r.lease - 1 ELSE -1
    BY <2>1, MaxOfTwo, Zenon
  <2> QED
    BY <2>1, <2>2
<1> DEFINE l == IF r.lease = Null THEN Null ELSE Max({r.lease - 1, -1})
           u == Max({r.due - 1, 0})
<1>3. l \in Int \cup {Null} /\ u \in Nat
  BY <1>1, <1>2, Zenon
<1> HIDE DEF l, u
<1>4. [r EXCEPT !.due = u, !.lease = l] \in Delivery
  BY <1>3, RowTypes, Zenon
<1>5. LET new2 == [r EXCEPT !.due = u, !.lease = l]
      IN new2.state = r.state /\ new2.attempt = r.attempt /\ new2.lease = l
  BY Zenon DEF Delivery
<1>6. new = [r EXCEPT !.due = u, !.lease = l]
  BY Zenon DEF l, u
<1> QED
  BY <1>2, <1>4, <1>5, <1>6, Zenon DEF l

\* A tick keeps the outbox in order.
LEMMA TickKeepsOutbox ==
  ASSUME OutboxInv, TickQueue
  PROVE  OutboxInv'
<1>1. /\ delivery' \in [Subscribed -> Delivery \cup {Null}]
      /\ \A d \in Subscribed : delivery[d] # Null => delivery'[d] # Null
  <2>1. \A d \in Subscribed : delivery[d] # Null => delivery[d] \in Delivery
    BY Zenon DEF OutboxInv, QueueTypes
  <2>2. \A d \in Subscribed : delivery[d] # Null => delivery'[d] \in Delivery
    BY <2>1, RowTicks, Zenon DEF TickQueue
  <2>3. \A d \in Subscribed : delivery[d] = Null => delivery'[d] = Null
    BY Zenon DEF TickQueue
  <2>4. delivery' \in [Subscribed -> Delivery \cup {Null}]
    BY <2>2, <2>3, Zenon DEF TickQueue
  <2> QED
    BY <2>2, <2>4, NullAssumption, Zenon
<1>2. /\ job' \in [Worker -> Jobs]
      /\ \A w \in Worker : /\ job'[w].stage = job[w].stage /\ job'[w].item = job[w].item
                           /\ job'[w].queue = job[w].queue
  <2>1. \A w \in Worker : job[w] \in Jobs /\ job[w].age \in Nat
    BY Zenon DEF OutboxInv, QueueTypes, Jobs
  <2>2. \A w \in Worker : [job[w] EXCEPT !.age = @ + 1] \in Jobs
    BY <2>1 DEF Jobs
  <2>3. \A w \in Worker :
          LET new == [job[w] EXCEPT !.age = @ + 1]
          IN new.stage = job[w].stage /\ new.item = job[w].item /\ new.queue = job[w].queue
    BY <2>1, Zenon DEF Jobs
  <2> QED
    BY <2>1, <2>2, <2>3, Zenon DEF TickQueue
<1>3. RowInv'
  <2>1. \A w \in Worker : Claimed(job'[w]) = Claimed(job[w])
    BY <1>2, Zenon DEF Claimed
  <2>2. \A i \in Items : i.delivery \in Subscribed
    BY Zenon DEF Items
  <2> QED
    BY <1>1, <1>2, <2>1, <2>2, Zenon DEF OutboxInv, RowInv
<1>4. UNCHANGED << outbox, dispatch, endpoint >>
  BY Zenon DEF TickQueue
<1>5. TargetInv' /\ NoLostEvents'
  BY <1>1, <1>4, OutboxFrame, Zenon
<1> QED
  BY <1>1, <1>2, <1>3, <1>4, <1>5, Zenon DEF OutboxInv, QueueTypes

\* The configured lease never changes, and only a tick makes a delivery late.
LEMMA LeaseKept ==
  ASSUME [WebhookNext]_webhookVars
  PROVE  lease' = lease /\ (TickQueue \/ late' = late)
<1>1. CASE TickQueue
  BY <1>1, Zenon DEF TickQueue
<1>2. CASE ReclaimOnce \/ \E d \in Subscribed : ReplayDelivery(d)
  BY <1>2, Zenon DEF ReclaimOnce, ReplayDelivery
<1>3. CASE \/ \E e \in Event : AppendEvent(e)
           \/ \E x \in Dispatcher : DispatchStep(x) \/ RollbackDispatch(x)
  BY <1>3, Zenon DEF AppendEvent, DispatchStep, ClaimUndispatched, Expand, CommitDispatch,
    RollbackDispatch
<1>4. CASE \E w \in Worker : ClaimDue(w) \/ Attempt(w) \/ AttemptFails(w) \/ CrashWorker(w)
  BY <1>4, Zenon DEF ClaimDue, Attempt, StartAttempt, EndBatch, Post, Settle, UpdateEndpoint,
    ApplyThreshold, AttemptFails, CrashWorker
<1>5. CASE UNCHANGED webhookVars
  BY <1>5, Zenon DEF webhookVars
<1> QED
  BY <1>1, <1>2, <1>3, <1>4, <1>5, Zenon DEF WebhookNext

\* Every step keeps the outbox in order.
LEMMA OutboxInductive ==
  OutboxInv /\ lease \in Leases /\ [WebhookNext]_webhookVars =>
    OutboxInv' /\ (lease \in Leases)'
<1> SUFFICES ASSUME OutboxInv, lease \in Leases, [WebhookNext]_webhookVars
             PROVE  OutboxInv'
  BY LeaseKept, Zenon
<1>1. CASE TickQueue \/ ReclaimOnce \/ \E d \in Subscribed : ReplayDelivery(d)
  BY <1>1, TickKeepsOutbox, SweepKeepsOutbox, ReplayKeepsOutbox, Zenon
<1>2. CASE \/ \E e \in Event : AppendEvent(e)
           \/ \E x \in Dispatcher : DispatchStep(x) \/ RollbackDispatch(x)
  BY <1>2, DispatchKeepsOutbox, CommitKeepsOutbox, Zenon DEF DispatchStep
<1>3. CASE \E w \in Worker : ClaimDue(w) \/ Attempt(w) \/ AttemptFails(w) \/ CrashWorker(w)
  BY <1>3, ClaimKeepsOutbox, SettleKeepsOutbox, AttemptKeepsOutbox, Zenon DEF Attempt
<1>4. CASE UNCHANGED webhookVars
  BY <1>4, RowsKeepOutbox, Zenon DEF webhookVars, OutboxInv, QueueTypes
<1> QED
  BY <1>1, <1>2, <1>3, <1>4, Zenon DEF WebhookNext

\* The invariant of the outbox holds in every reachable state.
THEOREM OutboxInvariant == WebhookSpec => []OutboxInv
<1>1. WebhookInit => OutboxInv /\ lease \in Leases
  BY OutboxInitially, Zenon DEF WebhookInit
<1> QED
  BY <1>1, OutboxInductive, PTL DEF WebhookSpec

\* A dispatched event has a delivery for every subscribed endpoint that was not
\* disabled (NoLostEvents), for any number of events, endpoints, dispatchers and
\* workers, and whatever fails.
THEOREM NoLostEventsCorrect == WebhookSpec => []NoLostEvents
<1>1. OutboxInv => NoLostEvents
  BY Zenon DEF OutboxInv
<1> QED
  BY <1>1, OutboxInvariant, PTL

-----------------------------------------------------------------------------
(* The claims of the workers *)

\* The time that a batch can take is a number.
LEMMA TimeLeftType ==
  ASSUME NEW j \in Jobs, JobInv(j)
  PROVE  TimeLeft(j) \in Nat
<1>1. /\ Cardinality(j.queue) \in Nat /\ j.age \in Nat /\ j.age <= RequestTimeout
      /\ RequestTimeout \in Nat
  BY QueueAssumption, Zenon DEF Jobs, JobInv
<1>2. Cardinality(j.queue) * RequestTimeout \in Nat
  BY <1>1
<1> QED
  BY <1>1, <1>2 DEF TimeLeft

\* So is the time that a lease has to last, and it shrinks with the batch.
LEMMA NeededType ==
  ASSUME NEW j, NEW l, TimeLeft(j) \in Nat
  PROVE  /\ Needed(j, l) \in Nat
         /\ \A k : TimeLeft(k) \in Int /\ TimeLeft(k) <= TimeLeft(j) =>
              Needed(k, l) \in Int /\ Needed(k, l) <= Needed(j, l)
<1>1. CASE BatchSize * RequestTimeout <= l
  <2>1. \A k : Needed(k, l) = TimeLeft(k)
    BY <1>1, Zenon DEF Needed
  <2> QED
    BY <2>1
<1>2. CASE ~ (BatchSize * RequestTimeout <= l)
  <2>1. \A k : Needed(k, l) = 0
    BY <1>2, Zenon DEF Needed
  <2> QED
    BY <2>1
<1> QED
  BY <1>1, <1>2, Zenon

\* Workers that claim less do not share more.
LEMMA ExclusiveShrinks ==
  ASSUME NEW jobs, NEW new, NEW except, NEW more, Exclusive(jobs, except),
         except \subseteq more,
         \A v \in Worker : Claimed(new[v]) \subseteq Claimed(jobs[v])
  PROVE  Exclusive(new, more)
<1> SUFFICES ASSUME NEW v \in Worker, NEW w \in Worker, NEW i \in Claimed(new[v]),
                    NEW k \in Claimed(new[w]), i.delivery = k.delivery,
                    i.delivery \notin more
             PROVE  v = w /\ i = k
  BY Zenon DEF Exclusive
<1>1. i \in Claimed(jobs[v]) /\ k \in Claimed(jobs[w]) /\ i.delivery \notin except
  BY Zenon
<1> QED
  BY <1>1, Zenon DEF Exclusive

\* Workers do not claim more, do not need longer, and their rows stay as they are.
LEMMA WorkFrame ==
  ASSUME WorkInv, UNCHANGED << lease, late >>,
         \A v \in Worker :
           /\ JobInv(job'[v]) /\ Claimed(job'[v]) \subseteq Claimed(job[v])
           /\ TimeLeft(job[v]) \in Nat /\ TimeLeft(job'[v]) \in Int
           /\ TimeLeft(job'[v]) <= TimeLeft(job[v]),
         \A v \in Worker : \A i \in Claimed(job'[v]) :
           i.delivery \notin late => delivery'[i.delivery] = delivery[i.delivery]
  PROVE  WorkInv'
<1>1. ASSUME NEW v \in Worker, NEW i \in Claimed(job'[v]), i.delivery \notin late
      PROVE  Leased(delivery'[i.delivery], i, Needed(job'[v], lease))
  <2>1. i \in Claimed(job[v]) /\ Leased(delivery[i.delivery], i, Needed(job[v], lease))
    BY <1>1, Zenon DEF WorkInv
  <2>2. delivery'[i.delivery] = delivery[i.delivery]
    BY <1>1, Zenon
  <2>3. /\ Needed(job[v], lease) \in Nat /\ Needed(job'[v], lease) \in Int
        /\ Needed(job'[v], lease) <= Needed(job[v], lease)
    BY <1>1, NeededType, Zenon
  <2> QED
    BY <2>1, <2>2, <2>3 DEF Leased
<1>2. Exclusive(job', late)
  <2>1. Exclusive(job, late)
    BY Zenon DEF WorkInv
  <2> QED
    BY <2>1, ExclusiveShrinks, Zenon
<1>3. (lease \in Leases)' /\ (LeaseOutlastsBatch => late = {})'
  BY Zenon DEF WorkInv, LeaseOutlastsBatch
<1> QED
  BY <1>1, <1>2, <1>3, Zenon DEF WorkInv

\* What the invariant says of one worker.
LEMMA WorkerFacts ==
  ASSUME QueueInv, NEW v \in Worker
  PROVE  /\ job[v] \in Jobs /\ JobInv(job[v]) /\ TimeLeft(job[v]) \in Nat
         /\ \A i \in Claimed(job[v]) :
              /\ i \in Items /\ i.delivery \in Subscribed
              /\ delivery[i.delivery] \in Delivery /\ delivery[i.delivery] # Null
              /\ i.delivery \notin late =>
                   Leased(delivery[i.delivery], i, Needed(job[v], lease))
         /\ Needed(job[v], lease) \in Nat
<1>1. job[v] \in Jobs /\ JobInv(job[v])
  BY Zenon DEF QueueInv, OutboxInv, QueueTypes, WorkInv
<1>2. TimeLeft(job[v]) \in Nat
  BY <1>1, TimeLeftType, Zenon
<1>3. ASSUME NEW i \in Claimed(job[v])
      PROVE  /\ i \in Items /\ i.delivery \in Subscribed
             /\ delivery[i.delivery] \in Delivery /\ delivery[i.delivery] # Null
             /\ i.delivery \notin late =>
                  Leased(delivery[i.delivery], i, Needed(job[v], lease))
  <2>1. i \in Items /\ delivery[i.delivery] # Null
    BY <1>3, Zenon DEF QueueInv, OutboxInv, RowInv
  <2>2. i.delivery \in Subscribed
    BY <2>1, Zenon DEF Items
  <2>3. delivery[i.delivery] \in Delivery
    BY <2>1, <2>2, Zenon DEF QueueInv, OutboxInv, QueueTypes
  <2>4. i.delivery \notin late => Leased(delivery[i.delivery], i, Needed(job[v], lease))
    BY <1>3, Zenon DEF QueueInv, WorkInv
  <2> QED
    BY <2>1, <2>2, <2>3, <2>4, Zenon
<1>4. Needed(job[v], lease) \in Nat
  BY <1>2, NeededType, Zenon
<1> QED
  BY <1>1, <1>2, <1>3, <1>4, Zenon

\* No worker moves, and the rows that are claimed stay as they are.
LEMMA RowsKeepWork ==
  ASSUME QueueInv, UNCHANGED << job, lease, late >>,
         \A d \in Subscribed :
           delivery[d] \in Delivery /\ delivery[d].state = "delivering" /\
           delivery[d].lease \in Int /\ delivery[d].lease >= 0 => delivery'[d] = delivery[d]
  PROVE  WorkInv'
<1>1. \A v \in Worker : /\ JobInv(job'[v]) /\ Claimed(job'[v]) \subseteq Claimed(job[v])
                        /\ TimeLeft(job[v]) \in Nat /\ TimeLeft(job'[v]) \in Int
                        /\ TimeLeft(job'[v]) <= TimeLeft(job[v])
  BY WorkerFacts
<1>2. ASSUME NEW v \in Worker, NEW i \in Claimed(job'[v]), i.delivery \notin late
      PROVE  delivery'[i.delivery] = delivery[i.delivery]
  <2>1. /\ i.delivery \in Subscribed /\ delivery[i.delivery] \in Delivery
        /\ Leased(delivery[i.delivery], i, Needed(job[v], lease))
        /\ Needed(job[v], lease) \in Nat
    BY <1>2, WorkerFacts, Zenon
  <2> QED
    BY <2>1 DEF Leased
<1>3. WorkInv
  BY Zenon DEF QueueInv
<1> QED
  BY <1>1, <1>2, <1>3, WorkFrame, Zenon

\* What the sweeper does to a row.
LEMMA SweepRows ==
  ASSUME OutboxInv, ReclaimOnce, NEW d \in Subscribed
  PROVE  /\ delivery[d] = Null => delivery'[d] = Null
         /\ delivery[d] # Null =>
              /\ delivery'[d] # Null /\ delivery'[d].attempt = delivery[d].attempt
              /\ \/ delivery'[d].state = delivery[d].state
                 \/ delivery[d].state = "delivering" /\ delivery'[d].state = "pending"
<1>1. CASE d \in Reclaimable
  <2>1. delivery[d] # Null /\ delivery[d].state = "delivering"
    BY <1>1, Zenon DEF Reclaimable, InState
  <2>2. delivery[d] \in Delivery
    BY <2>1, Zenon DEF OutboxInv, QueueTypes
  <2> DEFINE new == [delivery[d] EXCEPT !.state = "pending", !.lease = Null]
  <2>3. delivery'[d] = new
    BY <1>1, Zenon DEF ReclaimOnce
  <2>4. new.state = "pending" /\ new.attempt = delivery[d].attempt
    BY <2>2, Zenon DEF Delivery
  <2>5. new \in Delivery
    <3>1. "pending" \in DeliveryState
      BY Zenon DEF DeliveryState
    <3> QED
      BY <2>2, <3>1, RowTypes, Zenon
  <2>6. new # Null
    BY <2>5, NullAssumption, Zenon
  <2> HIDE DEF new
  <2> QED
    BY <2>1, <2>3, <2>4, <2>6, Zenon
<1>2. CASE d \notin Reclaimable
  BY <1>2, Zenon DEF ReclaimOnce
<1> QED
  BY <1>1, <1>2, Zenon

\* The sweeper leaves every lease that still runs.
LEMMA SweepKeepsWork ==
  ASSUME QueueInv, ReclaimOnce
  PROVE  WorkInv' /\ BudgetInv'
<1>1. \A d \in Subscribed :
        delivery[d] \in Delivery /\ delivery[d].state = "delivering" /\
        delivery[d].lease \in Int /\ delivery[d].lease >= 0 => delivery'[d] = delivery[d]
  <2> SUFFICES ASSUME NEW d \in Subscribed, delivery[d].lease \in Int, delivery[d].lease >= 0
               PROVE  delivery'[d] = delivery[d]
    BY Zenon
  <2>1. ~ LeaseExpired(d)
    BY DEF LeaseExpired
  <2>2. d \notin Reclaimable
    BY <2>1, Zenon DEF Reclaimable
  <2> QED
    BY <2>2, Zenon DEF ReclaimOnce
<1>2. UNCHANGED << job, lease, late >>
  BY Zenon DEF ReclaimOnce
<1>3. BudgetInv'
  <2>1. \A d \in Subscribed :
          /\ delivery[d] = Null => delivery'[d] = Null
          /\ delivery[d] # Null =>
               /\ delivery'[d].attempt = delivery[d].attempt
               /\ \/ delivery'[d].state = delivery[d].state
                  \/ delivery[d].state = "delivering" /\ delivery'[d].state = "pending"
    BY SweepRows, Zenon DEF QueueInv
  <2> QED
    BY <1>2, <2>1, Zenon DEF BudgetInv, QueueInv
<1> QED
  BY <1>1, <1>2, <1>3, RowsKeepWork, Zenon

\* A replayed delivery is in no worker's batch.
LEMMA ReplayKeepsWork ==
  ASSUME QueueInv, NEW d \in Subscribed, ReplayDelivery(d)
  PROVE  WorkInv' /\ BudgetInv'
<1>1. /\ delivery' = [delivery EXCEPT ![d] = NewDelivery] /\ delivery[d].state = "exhausted"
      /\ UNCHANGED << job, lease, late >>
  BY Zenon DEF ReplayDelivery, InState
<1>2. delivery \in [Subscribed -> Delivery \cup {Null}]
  BY Zenon DEF QueueInv, OutboxInv, QueueTypes
<1>3. WorkInv'
  <2>1. \A c \in Subscribed :
          delivery[c] \in Delivery /\ delivery[c].state = "delivering" /\
          delivery[c].lease \in Int /\ delivery[c].lease >= 0 => delivery'[c] = delivery[c]
    BY <1>1, <1>2, Zenon
  <2> QED
    BY <1>1, <2>1, RowsKeepWork, Zenon
<1>4. BudgetInv'
  BY <1>1, <1>2, QueueAssumption DEF QueueInv, BudgetInv, NewDelivery
<1> QED
  BY <1>3, <1>4, Zenon

\* A dispatch adds rows and changes none.
LEMMA CommitKeepsWork ==
  ASSUME QueueInv, NEW x \in Dispatcher, CommitDispatch(x)
  PROVE  WorkInv' /\ BudgetInv'
<1>1. /\ \A d \in Subscribed : delivery'[d] = delivery[d] \/ delivery'[d] = NewDelivery
      /\ \A d \in Subscribed : delivery[d] # Null => delivery'[d] = delivery[d]
      /\ UNCHANGED << job, lease, late >>
  BY Zenon DEF CommitDispatch
<1>2. WorkInv'
  BY <1>1, NullAssumption, RowsKeepWork, Zenon
<1>3. BudgetInv'
  BY <1>1, QueueAssumption DEF QueueInv, BudgetInv, NewDelivery
<1> QED
  BY <1>2, <1>3, Zenon

\* What a tick does to a worker.
LEMMA TickJobs ==
  ASSUME QueueInv, TickQueue, NEW w \in Worker
  PROVE  /\ JobInv(job'[w]) /\ Claimed(job'[w]) = Claimed(job[w])
         /\ Claimed(job[w]) # {} => TimeLeft(job'[w]) = TimeLeft(job[w]) - 1
<1>1. job[w] \in Jobs /\ JobInv(job[w]) /\ job[w].age \in Nat /\ RequestTimeout \in Nat
  BY WorkerFacts, QueueAssumption, Zenon DEF Jobs
<1>2. CASE Busy(w)
  <2>1. job[w].stage \notin {"idle", "next"} /\ job[w].age < RequestTimeout
    BY <1>2, Zenon DEF TickQueue, Busy
  <2>2. /\ job'[w].stage = job[w].stage /\ job'[w].item = job[w].item
        /\ job'[w].queue = job[w].queue /\ job'[w].age = job[w].age + 1
    <3>1. job'[w] = [job[w] EXCEPT !.age = @ + 1]
      BY <1>2, Zenon DEF TickQueue
    <3> QED
      BY <1>1, <3>1, Zenon DEF Jobs
  <2>3. JobInv(job'[w]) /\ Claimed(job'[w]) = Claimed(job[w])
    BY <1>1, <2>1, <2>2 DEF JobInv, Claimed
  <2>4. Cardinality(job[w].queue) * RequestTimeout \in Nat
    BY <1>1 DEF JobInv
  <2>5. TimeLeft(job'[w]) = TimeLeft(job[w]) - 1
    BY <1>1, <2>1, <2>2, <2>4 DEF TimeLeft
  <2> QED
    BY <2>3, <2>5, Zenon
<1>3. CASE ~ Busy(w)
  <2>1. job'[w] = job[w] /\ job[w].stage = "idle"
    BY <1>3, Zenon DEF TickQueue
  <2>2. Claimed(job[w]) = {}
    BY <1>1, <2>1, Zenon DEF JobInv, Claimed
  <2> QED
    BY <1>1, <2>1, <2>2, Zenon
<1> QED
  BY <1>2, <1>3, Zenon

\* What a tick does to a row.
LEMMA TickRows ==
  ASSUME OutboxInv, TickQueue, NEW d \in Subscribed, delivery[d] # Null
  PROVE  /\ delivery'[d] # Null /\ delivery'[d].state = delivery[d].state
         /\ delivery'[d].attempt = delivery[d].attempt
         /\ delivery[d].lease # Null =>
              /\ delivery'[d].lease \in Int /\ delivery'[d].lease >= -1
              /\ delivery'[d].lease >= delivery[d].lease - 1
<1>1. delivery[d] \in Delivery
  BY Zenon DEF OutboxInv, QueueTypes
<1>2. delivery'[d] = [delivery[d] EXCEPT
        !.due = Max({@ - 1, 0}), !.lease = IF @ = Null THEN Null ELSE Max({@ - 1, -1})]
  BY Zenon DEF TickQueue
<1>3. delivery'[d] \in Delivery
  BY <1>1, <1>2, RowTicks, Zenon
<1>4. /\ delivery'[d].state = delivery[d].state /\ delivery'[d].attempt = delivery[d].attempt
      /\ delivery[d].lease # Null =>
           /\ delivery'[d].lease \in Int /\ delivery'[d].lease >= -1
           /\ delivery'[d].lease >= delivery[d].lease - 1
  BY <1>1, <1>2, RowTicks, Zenon
<1> QED
  BY <1>3, <1>4, NullAssumption, Zenon

\* With a tick a lease loses as much time as the batch that it is for.
LEMMA TickKeepsWork ==
  ASSUME QueueInv, TickQueue
  PROVE  WorkInv' /\ BudgetInv'
<1>1. \A w \in Worker : /\ JobInv(job'[w]) /\ Claimed(job'[w]) = Claimed(job[w])
                        /\ Claimed(job[w]) # {} => TimeLeft(job'[w]) = TimeLeft(job[w]) - 1
  BY TickJobs, Zenon
<1>2. \A d \in Subscribed : delivery[d] # Null =>
        /\ delivery'[d] # Null /\ delivery'[d].state = delivery[d].state
        /\ delivery'[d].attempt = delivery[d].attempt
        /\ delivery[d].lease # Null =>
             /\ delivery'[d].lease \in Int /\ delivery'[d].lease >= -1
             /\ delivery'[d].lease >= delivery[d].lease - 1
  BY TickRows, Zenon DEF QueueInv
<1>3. ASSUME NEW v \in Worker, NEW i \in Claimed(job[v]), i.delivery \notin late
      PROVE  /\ delivery'[i.delivery] # Null /\ delivery'[i.delivery].state = "delivering"
             /\ delivery'[i.delivery].attempt = i.attempt
             /\ delivery'[i.delivery].lease \in Int /\ delivery'[i.delivery].lease >= -1
             /\ delivery'[i.delivery].lease >= Needed(job[v], lease) - 1
  <2>1. /\ i.delivery \in Subscribed /\ delivery[i.delivery] # Null
        /\ Leased(delivery[i.delivery], i, Needed(job[v], lease))
        /\ Needed(job[v], lease) \in Nat
    BY <1>3, WorkerFacts, Zenon
  <2>2. delivery[i.delivery].lease # Null
    BY <2>1, NullAssumption, Zenon DEF Leased
  <2>3. /\ delivery'[i.delivery] # Null /\ delivery'[i.delivery].state = "delivering"
        /\ delivery'[i.delivery].attempt = i.attempt
        /\ delivery'[i.delivery].lease \in Int /\ delivery'[i.delivery].lease >= -1
        /\ delivery'[i.delivery].lease >= delivery[i.delivery].lease - 1
    BY <1>2, <2>1, <2>2, Zenon DEF Leased
  <2>4. /\ delivery[i.delivery].lease \in Int
        /\ delivery[i.delivery].lease >= Needed(job[v], lease)
    BY <2>1, Zenon DEF Leased
  <2>5. delivery'[i.delivery].lease >= Needed(job[v], lease) - 1
    BY <2>1, <2>3, <2>4
  <2> QED
    BY <2>3, <2>5, Zenon
<1>4. /\ late' = late \cup {d \in Held : delivery'[d].lease = -1} /\ lease' = lease
      /\ \A d \in Subscribed : delivery[d] = Null => delivery'[d] = Null
  BY Zenon DEF TickQueue
<1>5. ASSUME NEW v \in Worker, NEW i \in Claimed(job[v]), LeaseOutlastsBatch
      PROVE  /\ Needed(job[v], lease) = TimeLeft(job[v])
             /\ Needed(job'[v], lease) = TimeLeft(job[v]) - 1
             /\ TimeLeft(job[v]) \in Nat /\ TimeLeft(job[v]) - 1 \in Nat
  <2>1. /\ Needed(job[v], lease) = TimeLeft(job[v])
        /\ Needed(job'[v], lease) = TimeLeft(job'[v])
    BY <1>5, Zenon DEF Needed, LeaseOutlastsBatch
  <2>2. /\ TimeLeft(job'[v]) = TimeLeft(job[v]) - 1 /\ JobInv(job'[v])
        /\ TimeLeft(job[v]) \in Nat
    BY <1>1, <1>5, WorkerFacts, Zenon
  <2>3. job'[v] \in Jobs
    BY TickKeepsOutbox, Zenon DEF QueueInv, OutboxInv, QueueTypes
  <2>4. TimeLeft(job'[v]) \in Nat
    BY <2>2, <2>3, TimeLeftType, Zenon
  <2> QED
    BY <2>1, <2>2, <2>4, Zenon
<1>6. ASSUME NEW v \in Worker, NEW i \in Claimed(job'[v]), i.delivery \notin late'
      PROVE  Leased(delivery'[i.delivery], i, Needed(job'[v], lease))
  <2>1. i \in Claimed(job[v]) /\ i.delivery \notin late
    BY <1>1, <1>4, <1>6, Zenon
  <2>2. i.delivery \in Held
    BY <2>1, WorkerFacts, Zenon DEF Held
  <2>3. delivery'[i.delivery].lease # -1
    BY <1>4, <1>6, <2>2, Zenon
  <2>4. delivery'[i.delivery].lease >= Needed(job'[v], lease)
    <3>1. CASE LeaseOutlastsBatch
      BY <1>3, <1>5, <2>1, <3>1
    <3>2. CASE ~ LeaseOutlastsBatch
      <4>1. Needed(job'[v], lease) = 0
        BY <3>2, Zenon DEF Needed, LeaseOutlastsBatch
      <4>2. delivery'[i.delivery].lease \in Int /\ delivery'[i.delivery].lease >= -1
        BY <1>3, <2>1, Zenon
      <4> QED
        BY <2>3, <4>1, <4>2
    <3> QED
      BY <3>1, <3>2, Zenon
  <2> QED
    BY <1>3, <2>1, <2>4, Zenon DEF Leased
<1>7. ASSUME LeaseOutlastsBatch PROVE late' = {}
  <2>1. late = {}
    BY <1>7, Zenon DEF QueueInv, WorkInv
  <2>2. ASSUME NEW d \in Held PROVE delivery'[d].lease # -1
    <3>1. PICK v \in Worker : \E i \in Claimed(job[v]) : i.delivery = d
      BY <2>2, Zenon DEF Held
    <3>2. PICK i \in Claimed(job[v]) : i.delivery = d
      BY <3>1, Zenon
    <3>3. /\ delivery'[d].lease \in Int
          /\ delivery'[d].lease >= Needed(job[v], lease) - 1
      BY <1>3, <2>1, <3>2, Zenon
    <3>4. /\ Needed(job[v], lease) = TimeLeft(job[v])
          /\ TimeLeft(job[v]) \in Nat /\ TimeLeft(job[v]) - 1 \in Nat
      BY <1>5, <1>7, <3>2, Zenon
    <3> QED
      BY <3>3, <3>4
  <2> QED
    BY <1>4, <2>1, <2>2, Zenon
<1>8. WorkInv'
  <2>1. (LeaseOutlastsBatch => late = {})' /\ (lease \in Leases)'
    BY <1>4, <1>7, Zenon DEF LeaseOutlastsBatch, QueueInv, WorkInv
  <2>2. Exclusive(job, late) /\ late \subseteq late'
    BY <1>4, Zenon DEF QueueInv, WorkInv
  <2>3. Exclusive(job', late')
    BY <1>1, <2>2, ExclusiveShrinks, Zenon
  <2> QED
    BY <1>1, <1>4, <1>6, <2>1, <2>3, Zenon DEF WorkInv
<1>9. BudgetInv'
  BY <1>2, <1>4, Zenon DEF QueueInv, BudgetInv
<1> QED
  BY <1>8, <1>9, Zenon

\* The facts about finite sets that the proofs about batches rest on.
Counting ==
  /\ \A S : IsFiniteSet(S) => Cardinality(S) \in Nat
  /\ IsFiniteSet({}) /\ Cardinality({}) = 0
  /\ \A S : \A x \in S : IsFiniteSet(S) =>
       IsFiniteSet(S \ {x}) /\ Cardinality(S) >= 1 /\ Cardinality(S \ {x}) = Cardinality(S) - 1
  /\ \A S : \A T \in SUBSET S : IsFiniteSet(S) => IsFiniteSet(T)
  /\ \A f : IsFiniteSet(DOMAIN f) =>
       LET T == {f[x] : x \in DOMAIN f}
       IN  IsFiniteSet(T) /\ Cardinality(T) <= Cardinality(DOMAIN f)

\* Going on with a batch takes no longer than the batch may take.
LEMMA GoesOnTime ==
  ASSUME Counting, NEW j \in Jobs, NEW new, JobInv(j), GoesOn(j, new)
  PROVE  JobInv(new) /\ TimeLeft(new) \in Nat /\ TimeLeft(new) <= TimeLeft(j)
<1> DEFINE c == Cardinality(j.queue)
           t == RequestTimeout
<1>1. /\ c \in Nat /\ t \in Nat /\ j.age \in Nat /\ j.age <= t /\ IsFiniteSet(j.queue)
      /\ TimeLeft(j) \in Nat /\ c * t \in Nat /\ TimeLeft(j) >= c * t
  <2>1. c \in Nat /\ t \in Nat /\ j.age \in Nat /\ j.age <= t /\ IsFiniteSet(j.queue)
    BY QueueAssumption, Zenon DEF JobInv, Jobs
  <2>2. c * t \in Nat
    BY <2>1, Product, Zenon
  <2> QED
    BY <2>1, <2>2, TimeLeftType DEF TimeLeft
<1>2. CASE new = Idle
  <2>1. new.stage = "idle" /\ new.queue = {} /\ new.age = 0
    BY <1>2, Zenon DEF Idle, NoAttempt
  <2>2. IsFiniteSet({}) /\ Cardinality({}) = 0
    BY Zenon DEF Counting
  <2>3. TimeLeft(new) = 0
    BY <1>1, <2>1, <2>2 DEF TimeLeft
  <2> QED
    BY <1>1, <2>1, <2>2, <2>3 DEF JobInv
<1>3. CASE new = Remaining(j.queue)
  <2>1. new.stage = "next" /\ new.queue = j.queue /\ new.age = 0
    BY <1>3, Zenon DEF Remaining, NoAttempt
  <2>2. TimeLeft(new) = c * t
    BY <1>1, <2>1 DEF TimeLeft
  <2> QED
    BY <1>1, <2>1, <2>2 DEF JobInv
<1>4. CASE /\ j.stage = "next" /\ new.stage \in {"post", "settle"}
           /\ new.age = 0 /\ new.item \in j.queue /\ new.queue = j.queue \ {new.item}
  <2>1. IsFiniteSet(new.queue) /\ Cardinality(new.queue) = c - 1
    <3>1. new.item \in j.queue /\ new.queue = j.queue \ {new.item}
      BY <1>4, Zenon
    <3> QED
      BY <1>1, <3>1, Zenon DEF Counting
  <2>2. c >= 1 /\ c - 1 \in Nat
    <3>1. new.item \in j.queue
      BY <1>4, Zenon
    <3>2. c >= 1
      BY <1>1, <3>1, Zenon DEF Counting
    <3> QED
      BY <1>1, <3>2
  <2>3. (c - 1) * t + t = c * t
    BY <1>1, <2>2, Product, Zenon
  <2>4. TimeLeft(new) = (c - 1) * t + (t - 0)
    BY <1>4, <2>1, Zenon DEF TimeLeft
  <2>5. (c - 1) * t \in Nat
    BY <1>1, <2>2, Product, Zenon
  <2>6. TimeLeft(new) = c * t
    BY <1>1, <2>3, <2>4, <2>5
  <2>7. JobInv(new)
    BY <1>1, <1>4, <2>1, <2>2, Zenon DEF JobInv
  <2> QED
    BY <1>1, <2>6, <2>7, Zenon
<1>5. CASE /\ j.stage \notin {"idle", "next"} /\ new.stage \notin {"idle", "next"}
           /\ new.stage \in {"post", "settle"} => j.stage \in {"post", "settle"}
           /\ new.age = j.age /\ new.item = j.item /\ new.queue = j.queue
  <2>1. TimeLeft(new) = TimeLeft(j)
    BY <1>5, Zenon DEF TimeLeft
  <2>2. JobInv(new)
    BY <1>5, Zenon DEF JobInv
  <2> QED
    BY <1>1, <2>1, <2>2
<1> QED
  BY <1>2, <1>3, <1>4, <1>5, Zenon DEF GoesOn

\* The workers after one of them has gone on.
LEMMA GoesOnFrame ==
  ASSUME Counting, QueueInv, NEW w \in Worker, NEW new, GoesOn(job[w], new),
         job' = [job EXCEPT ![w] = new]
  PROVE  \A v \in Worker : /\ JobInv(job'[v]) /\ Claimed(job'[v]) \subseteq Claimed(job[v])
                           /\ TimeLeft(job[v]) \in Nat /\ TimeLeft(job'[v]) \in Int
                           /\ TimeLeft(job'[v]) <= TimeLeft(job[v])
<1>1. \A v \in Worker : job[v] \in Jobs /\ JobInv(job[v]) /\ TimeLeft(job[v]) \in Nat
  BY WorkerFacts, Zenon
<1>2. JobInv(new) /\ TimeLeft(new) \in Nat /\ TimeLeft(new) <= TimeLeft(job[w])
  BY <1>1, GoesOnTime, Zenon
<1>3. Claimed(new) \subseteq Claimed(job[w])
  BY GoesOnClaims, Zenon DEF QueueInv
<1>4. job'[w] = new /\ \A v \in Worker \ {w} : job'[v] = job[v]
  BY Zenon DEF QueueInv, OutboxInv, QueueTypes
<1> QED
  BY <1>1, <1>2, <1>3, <1>4

\* Any step of an attempt but Settle keeps the claims of the workers.
LEMMA AttemptKeepsWork ==
  ASSUME Counting, QueueInv, NEW w \in Worker,
         \/ StartAttempt(w) \/ EndBatch(w) \/ Post(w) \/ UpdateEndpoint(w)
         \/ ApplyThreshold(w) \/ AttemptFails(w) \/ CrashWorker(w)
  PROVE  WorkInv' /\ BudgetInv'
<1>1. UNCHANGED << delivery, lease, late >>
  BY Zenon DEF StartAttempt, EndBatch, Post, UpdateEndpoint, ApplyThreshold, AttemptFails,
    CrashWorker
<1>2. PICK new : GoesOn(job[w], new) /\ job' = [job EXCEPT ![w] = new]
  BY AttemptGoesOn, Zenon DEF QueueInv
<1>3. \A v \in Worker : /\ JobInv(job'[v]) /\ Claimed(job'[v]) \subseteq Claimed(job[v])
                        /\ TimeLeft(job[v]) \in Nat /\ TimeLeft(job'[v]) \in Int
                        /\ TimeLeft(job'[v]) <= TimeLeft(job[v])
  BY <1>2, GoesOnFrame, Zenon
<1>4. WorkInv
  BY Zenon DEF QueueInv
<1>5. WorkInv'
  BY <1>1, <1>3, <1>4, WorkFrame, Zenon
<1>6. BudgetInv'
  BY <1>1, Zenon DEF QueueInv, BudgetInv
<1> QED
  BY <1>5, <1>6, Zenon

\* The item that a worker settles is in no other batch, and its row has the attempt
\* count that the item was claimed with.
LEMMA SettleKeepsWork ==
  ASSUME Counting, QueueInv, NEW w \in Worker, Settle(w)
  PROVE  WorkInv' /\ BudgetInv'
<1> DEFINE i == job[w].item
<1>1. PICK new, rec \in Jobs \cup Delivery :
        /\ rec \in Delivery /\ rec.lease = Null
        /\ rec.attempt = delivery[i.delivery].attempt + 1
        /\ \/ rec.state = "pending" /\ i.attempt + 1 < MaxAttempts
           \/ rec.state = "exhausted" /\ i.attempt + 1 >= MaxAttempts
           \/ rec.state \in {"succeeded", "disabled"}
        /\ delivery' = [delivery EXCEPT ![i.delivery] = rec]
        /\ GoesOn(job[w], new) /\ new.stage \notin {"post", "settle"}
        /\ job' = [job EXCEPT ![w] = new]
  BY SettleMoves, Zenon DEF QueueInv
<1>2. \A v \in Worker : /\ JobInv(job'[v]) /\ Claimed(job'[v]) \subseteq Claimed(job[v])
                        /\ TimeLeft(job[v]) \in Nat /\ TimeLeft(job'[v]) \in Int
                        /\ TimeLeft(job'[v]) <= TimeLeft(job[v])
  BY <1>1, GoesOnFrame, Zenon
<1>3. job[w].stage = "settle" /\ i \in Claimed(job[w]) /\ i \notin job[w].queue
  <2>1. job[w].stage = "settle"
    BY Zenon DEF Settle
  <2>2. JobInv(job[w])
    BY WorkerFacts, Zenon
  <2> QED
    BY <2>1, <2>2, Zenon DEF Claimed, JobInv
<1>4. i \notin Claimed(new)
  <2>1. Claimed(new) = new.queue
    BY <1>1, Zenon DEF Claimed
  <2>2. new.queue \subseteq job[w].queue
    BY <1>1, <1>3 DEF GoesOn, Idle, Remaining, NoAttempt
  <2> QED
    BY <1>3, <2>1, <2>2, Zenon
<1>5. job'[w] = new /\ \A v \in Worker \ {w} : job'[v] = job[v]
  BY <1>1, Zenon DEF QueueInv, OutboxInv, QueueTypes
<1>6. /\ delivery \in [Subscribed -> Delivery \cup {Null}] /\ i.delivery \in Subscribed
      /\ i \in Items /\ delivery[i.delivery] # Null
      /\ i.delivery \notin late => Leased(delivery[i.delivery], i, Needed(job[w], lease))
      /\ delivery[i.delivery] \in Delivery
  BY <1>3, WorkerFacts, Zenon DEF QueueInv, OutboxInv, QueueTypes
<1> HIDE DEF i
<1>7. ASSUME NEW v \in Worker, NEW k \in Claimed(job'[v]), k.delivery \notin late
      PROVE  delivery'[k.delivery] = delivery[k.delivery]
  <2>1. k \in Claimed(job[v])
    BY <1>2, <1>7, Zenon
  <2>2. k.delivery # i.delivery
    <3>1. k.delivery = i.delivery => v = w /\ k = i
      <4>1. Exclusive(job, late)
        BY Zenon DEF QueueInv, WorkInv
      <4> QED
        BY <1>3, <1>7, <2>1, <4>1, Zenon DEF Exclusive
    <3> QED
      BY <1>4, <1>5, <1>7, <3>1, Zenon
  <2>3. k.delivery \in Subscribed
    BY <2>1, WorkerFacts, Zenon
  <2> QED
    BY <1>1, <1>6, <2>2, <2>3, Zenon
<1>8. WorkInv'
  <2>1. WorkInv /\ UNCHANGED << lease, late >>
    BY Zenon DEF QueueInv, Settle
  <2> QED
    BY <1>2, <1>7, <2>1, WorkFrame, Zenon
<1>9. BudgetInv'
  <2>1. ASSUME i.delivery \notin late
        PROVE  /\ rec.state \in {"pending", "delivering"} => rec.attempt < MaxAttempts
               /\ rec.state = "exhausted" => rec.attempt = MaxAttempts
    <3>1. /\ delivery[i.delivery].attempt = i.attempt /\ i.attempt \in Nat
          /\ delivery[i.delivery] # Null /\ delivery[i.delivery].state = "delivering"
          /\ MaxAttempts \in Nat
      BY <1>6, <2>1, QueueAssumption, Zenon DEF Leased, Items
    <3>2. i.attempt < MaxAttempts
      BY <1>6, <2>1, <3>1, Zenon DEF QueueInv, BudgetInv
    <3> QED
      BY <1>1, <3>1, <3>2
  <2>2. BudgetInv /\ late' = late
    BY Zenon DEF QueueInv, Settle
  <2>3. \A d \in Subscribed : delivery'[d] = IF d = i.delivery THEN rec ELSE delivery[d]
    BY <1>1, <1>6, Zenon
  <2> QED
    BY <2>1, <2>2, <2>3, Zenon DEF BudgetInv
<1> QED
  BY <1>8, <1>9, Zenon

\* A claim takes no more rows than the batch size, so its lease is as long as it has
\* to be.
LEMMA ClaimTime ==
  ASSUME Counting, lease \in Leases,
         NEW batch \in kSubset(Min({BatchSize, Cardinality(Due)}), Due)
  PROVE  LET new == Remaining({Item(d) : d \in batch})
         IN  JobInv(new) /\ Needed(new, lease) \in Nat /\ Needed(new, lease) <= lease
<1> DEFINE queue == {Item(d) : d \in batch}
           new == Remaining(queue)
<1>1. BatchSize \in Nat /\ RequestTimeout \in Nat /\ lease \in Nat
  BY QueueAssumption, Zenon
<1>2. IsFiniteSet(Due) /\ Cardinality(Due) \in Nat
  <2>1. Due \in SUBSET Subscribed
    BY Zenon DEF Due, InState
  <2>2. IsFiniteSet(Due)
    BY <2>1, QueueAssumption, Zenon DEF Counting
  <2> QED
    BY <2>2, Zenon DEF Counting
<1>3. IsFiniteSet(batch) /\ Cardinality(batch) \in Nat /\ Cardinality(batch) <= BatchSize
  <2>1. batch \in SUBSET Due /\ Cardinality(batch) = Min({BatchSize, Cardinality(Due)})
    BY Zenon DEF kSubset
  <2>2. IsFiniteSet(batch)
    BY <1>2, <2>1, Zenon DEF Counting
  <2>3. Cardinality(batch) \in Nat
    BY <2>2, Zenon DEF Counting
  <2>4. Min({BatchSize, Cardinality(Due)}) <= BatchSize
    BY <1>1, <1>2, MinOfTwo
  <2> QED
    BY <2>1, <2>2, <2>3, <2>4, Zenon
<1>4. IsFiniteSet(queue) /\ Cardinality(queue) \in Nat /\ Cardinality(queue) <= BatchSize
  <2> DEFINE f == [d \in batch |-> Item(d)]
  <2>1. DOMAIN f = batch /\ queue = {f[d] : d \in batch}
    BY Zenon
  <2> HIDE DEF f, queue
  <2>2. IsFiniteSet(queue) /\ Cardinality(queue) <= Cardinality(batch)
    <3>1. \A g : IsFiniteSet(DOMAIN g) =>
            /\ IsFiniteSet({g[x] : x \in DOMAIN g})
            /\ Cardinality({g[x] : x \in DOMAIN g}) <= Cardinality(DOMAIN g)
      BY Zenon DEF Counting
    <3>2. /\ IsFiniteSet({f[x] : x \in DOMAIN f})
          /\ Cardinality({f[x] : x \in DOMAIN f}) <= Cardinality(DOMAIN f)
      BY <1>3, <2>1, <3>1, Zenon
    <3>3. queue = {f[x] : x \in DOMAIN f}
      BY <2>1, Zenon
    <3> QED
      BY <2>1, <3>2, <3>3, Zenon
  <2>3. Cardinality(queue) \in Nat
    BY <2>2, Zenon DEF Counting
  <2> QED
    BY <1>1, <1>3, <2>2, <2>3
<1> HIDE DEF queue
<1>5. new.stage = "next" /\ new.queue = queue /\ new.age = 0
  BY Zenon DEF Remaining, NoAttempt
<1> HIDE DEF new
<1>6. /\ Cardinality(queue) * RequestTimeout \in Nat
      /\ Cardinality(queue) * RequestTimeout <= BatchSize * RequestTimeout
      /\ BatchSize * RequestTimeout \in Nat
  BY <1>1, <1>4, Product, Zenon
<1>7. TimeLeft(new) = Cardinality(queue) * RequestTimeout
  BY <1>5, <1>6 DEF TimeLeft
<1>8. JobInv(new)
  BY <1>1, <1>4, <1>5 DEF JobInv
<1>9. Needed(new, lease) \in Nat /\ Needed(new, lease) <= lease
  <2>1. CASE BatchSize * RequestTimeout <= lease
    <3>1. Needed(new, lease) = TimeLeft(new)
      BY <2>1, Zenon DEF Needed
    <3> HIDE DEF new, queue
    <3> QED
      BY <1>1, <1>6, <1>7, <2>1, <3>1
  <2>2. CASE ~ (BatchSize * RequestTimeout <= lease)
    BY <1>1, <2>2 DEF Needed
  <2> QED
    BY <2>1, <2>2, Zenon
<1> QED
  BY <1>8, <1>9, Zenon DEF new, queue

\* A claimed row was pending, so it is in no other batch.
LEMMA ClaimKeepsWork ==
  ASSUME Counting, QueueInv, NEW w \in Worker, ClaimDue(w)
  PROVE  WorkInv' /\ BudgetInv'
<1>1. PICK batch \in kSubset(Min({BatchSize, Cardinality(Due)}), Due) :
        /\ job' = [job EXCEPT ![w] = Remaining({Item(d) : d \in batch})]
        /\ delivery' = [d \in Subscribed |->
                          IF d \in batch
                          THEN [delivery[d] EXCEPT !.state = "delivering", !.lease = lease]
                          ELSE delivery[d]]
  BY Zenon DEF ClaimDue
<1> DEFINE new == Remaining({Item(d) : d \in batch})
<1>2. /\ JobInv(new) /\ Needed(new, lease) \in Nat /\ Needed(new, lease) <= lease
      /\ lease \in Leases /\ lease \in Nat /\ UNCHANGED << lease, late >>
  <2>1. lease \in Leases /\ lease \in Nat
    BY QueueAssumption, Zenon DEF QueueInv, WorkInv
  <2> QED
    BY <2>1, ClaimTime, Zenon DEF ClaimDue
<1>3. ASSUME NEW d \in batch
      PROVE  /\ d \in Subscribed /\ delivery[d] \in Delivery /\ delivery[d].state = "pending"
             /\ delivery'[d] # Null /\ delivery'[d].state = "delivering"
             /\ delivery'[d].lease = lease /\ delivery'[d].attempt = delivery[d].attempt
  <2>1. d \in Subscribed /\ delivery[d] \in Delivery /\ delivery[d].state = "pending"
    <3>1. d \in Due
      BY <1>3, Zenon DEF kSubset
    <3> QED
      BY <3>1, Zenon DEF Due, InState, QueueInv, OutboxInv, QueueTypes
  <2>2. delivery'[d] = [delivery[d] EXCEPT !.state = "delivering", !.lease = lease]
    BY <1>1, <1>3, <2>1, Zenon
  <2>3. lease \in Int /\ "delivering" \in DeliveryState
    BY <1>2 DEF DeliveryState
  <2>4. [delivery[d] EXCEPT !.state = "delivering", !.lease = lease] \in Delivery
    BY <2>1, <2>3, RowTypes, Zenon
  <2>5. delivery'[d] # Null
    BY <2>2, <2>4, RowTypes, Zenon
  <2> QED
    BY <2>1, <2>2, <2>5, Zenon DEF Delivery
<1>4. \A d \in Subscribed : d \notin batch => delivery'[d] = delivery[d]
  BY <1>1, Zenon
<1>5. job'[w] = new /\ \A v \in Worker \ {w} : job'[v] = job[v]
  BY <1>1, Zenon DEF QueueInv, OutboxInv, QueueTypes
<1>6. Claimed(new) = {Item(d) : d \in batch}
  BY Zenon DEF Remaining, NoAttempt, Claimed
<1> HIDE DEF new
<1>7. ASSUME NEW v \in Worker \ {w}, NEW i \in Claimed(job'[v]), i.delivery \notin late
      PROVE  /\ i \in Claimed(job[v]) /\ i.delivery \in Subscribed \ batch
             /\ Leased(delivery'[i.delivery], i, Needed(job'[v], lease))
  <2>1. i \in Claimed(job[v])
    BY <1>5, <1>7, Zenon
  <2>2. i.delivery \in Subscribed /\ Leased(delivery[i.delivery], i, Needed(job[v], lease))
    BY <1>7, <2>1, WorkerFacts, Zenon
  <2>3. i.delivery \notin batch
    BY <1>3, <2>2, Zenon DEF Leased
  <2> QED
    BY <1>4, <1>5, <2>1, <2>2, <2>3, Zenon
<1>8. ASSUME NEW i \in Claimed(job'[w])
      PROVE  /\ i = Item(i.delivery) /\ i.delivery \in batch
             /\ Leased(delivery'[i.delivery], i, Needed(job'[w], lease))
  <2>1. PICK d \in batch : i = Item(d)
    BY <1>5, <1>6, <1>8, Zenon
  <2>2. i.delivery = d /\ i.attempt = delivery[d].attempt
    BY <2>1, Zenon DEF Item
  <2>3. Leased(delivery'[d], i, Needed(new, lease))
    BY <1>2, <1>3, <2>2 DEF Leased
  <2> QED
    BY <1>5, <2>1, <2>2, <2>3, Zenon
<1>9. WorkInv'
  <2>1. \A v \in Worker : JobInv(job'[v])
    BY <1>2, <1>5, WorkerFacts, Zenon
  <2>2. \A v \in Worker : \A i \in Claimed(job'[v]) : i.delivery \notin late =>
          Leased(delivery'[i.delivery], i, Needed(job'[v], lease))
    BY <1>7, <1>8, Zenon
  <2>3. ASSUME NEW u \in Worker, NEW v \in Worker, NEW i \in Claimed(job'[u]),
               NEW k \in Claimed(job'[v]), i.delivery = k.delivery, i.delivery \notin late
        PROVE  u = v /\ i = k
    <3>1. CASE u = w /\ v = w
      BY <1>8, <2>3, <3>1, Zenon
    <3>2. CASE u = w /\ v # w
      BY <1>7, <1>8, <2>3, <3>2, Zenon
    <3>3. CASE u # w /\ v = w
      BY <1>7, <1>8, <2>3, <3>3, Zenon
    <3>4. CASE u # w /\ v # w
      <4>1. i \in Claimed(job[u]) /\ k \in Claimed(job[v])
        BY <1>7, <2>3, <3>4, Zenon
      <4>2. Exclusive(job, late)
        BY Zenon DEF QueueInv, WorkInv
      <4> QED
        BY <2>3, <4>1, <4>2, Zenon DEF Exclusive
    <3> QED
      BY <3>1, <3>2, <3>3, <3>4, Zenon
  <2>4. Exclusive(job', late)
    BY <2>3, Zenon DEF Exclusive
  <2>5. LeaseOutlastsBatch => late = {}
    BY Zenon DEF QueueInv, WorkInv
  <2> QED
    BY <1>2, <2>1, <2>2, <2>4, <2>5, Zenon DEF WorkInv, LeaseOutlastsBatch
<1>10. BudgetInv'
  <2>1. BudgetInv /\ late' = late
    BY <1>2, Zenon DEF QueueInv
  <2>2. \A d \in batch : delivery[d] # Null
    BY <1>3, NullAssumption, Zenon
  <2> QED
    BY <1>3, <1>4, <2>1, <2>2, Zenon DEF BudgetInv
<1> QED
  BY <1>9, <1>10, Zenon

\* Items go away, and no attempt count changes and no delivery is given up.
LEMMA CountFrame ==
  ASSUME QueueInv, replays' = replays,
         \A v \in Worker : Claimed(job'[v]) \subseteq Claimed(job[v]),
         \A d \in Subscribed : delivery[d] # Null =>
           /\ delivery'[d] # Null /\ delivery'[d].attempt = delivery[d].attempt
           /\ delivery'[d].state = "exhausted" => delivery[d].state = "exhausted",
         \A d \in Subscribed : delivery[d] = Null =>
           delivery'[d] = Null \/ delivery'[d].state # "exhausted"
  PROVE  CountInv'
<1>1. CountInv
  BY Zenon DEF QueueInv
<1>2. ASSUME replays = 0, NEW v \in Worker, NEW i \in Claimed(job'[v])
      PROVE  i.attempt <= delivery'[i.delivery].attempt
  <2>1. i \in Claimed(job[v])
    BY <1>2, Zenon
  <2>2. i.delivery \in Subscribed /\ delivery[i.delivery] # Null
    BY <2>1, WorkerFacts, Zenon
  <2>3. i.attempt <= delivery[i.delivery].attempt
    BY <1>1, <1>2, <2>1, Zenon DEF CountInv
  <2> QED
    BY <2>2, <2>3, Zenon
<1>3. ASSUME replays = 0, NEW d \in Subscribed, delivery'[d] # Null,
             delivery'[d].state = "exhausted"
      PROVE  delivery'[d].attempt >= MaxAttempts
  <2>1. delivery[d] # Null /\ delivery[d].state = "exhausted"
    BY <1>3, Zenon
  <2> QED
    BY <1>1, <1>3, <2>1, Zenon DEF CountInv, InState
<1> QED
  BY <1>1, <1>2, <1>3, Zenon DEF CountInv, InState

\* A settled row has been attempted once more.
LEMMA SettleKeepsCount ==
  ASSUME QueueInv, NEW w \in Worker, Settle(w)
  PROVE  CountInv'
<1> DEFINE i == job[w].item
<1>1. PICK new, rec \in Jobs \cup Delivery :
        /\ rec \in Delivery /\ rec.attempt = delivery[i.delivery].attempt + 1
        /\ rec.state = "exhausted" => i.attempt + 1 >= MaxAttempts
        /\ delivery' = [delivery EXCEPT ![i.delivery] = rec]
        /\ GoesOn(job[w], new) /\ job' = [job EXCEPT ![w] = new]
  BY SettleMoves, Zenon DEF QueueInv
<1>2. /\ i \in Claimed(job[w]) /\ i \in Items /\ i.attempt \in Nat
      /\ i.delivery \in Subscribed /\ delivery[i.delivery] \in Delivery
      /\ delivery[i.delivery].attempt \in Nat
  <2>1. i \in Claimed(job[w])
    BY Zenon DEF Settle, Claimed
  <2>2. i \in Items /\ i.delivery \in Subscribed /\ delivery[i.delivery] \in Delivery
    BY <2>1, WorkerFacts, Zenon
  <2> QED
    BY <2>1, <2>2, RowTypes, Zenon DEF Items
<1>3. /\ \A v \in Worker : Claimed(job'[v]) \subseteq Claimed(job[v])
      /\ \A d \in Subscribed : delivery'[d] = IF d = i.delivery THEN rec ELSE delivery[d]
  <2>1. Claimed(new) \subseteq Claimed(job[w])
    BY <1>1, GoesOnClaims, Zenon DEF QueueInv
  <2>2. job'[w] = new /\ \A v \in Worker \ {w} : job'[v] = job[v]
    BY <1>1, Zenon DEF QueueInv, OutboxInv, QueueTypes
  <2>3. delivery \in [Subscribed -> Delivery \cup {Null}]
    BY Zenon DEF QueueInv, OutboxInv, QueueTypes
  <2> QED
    BY <1>1, <1>2, <2>1, <2>2, <2>3, Zenon
<1>4. CountInv /\ replays' = replays /\ MaxAttempts \in Nat
  BY QueueAssumption, Zenon DEF QueueInv, Settle
<1> HIDE DEF i
<1>5. ASSUME replays = 0, NEW v \in Worker, NEW k \in Claimed(job'[v])
      PROVE  k.attempt <= delivery'[k.delivery].attempt
  <2>1. k \in Claimed(job[v])
    BY <1>3, <1>5, Zenon
  <2>2. k \in Items /\ k.attempt \in Nat /\ k.delivery \in Subscribed
    BY <2>1, WorkerFacts, Zenon DEF Items
  <2>3. k.attempt <= delivery[k.delivery].attempt
    BY <1>4, <1>5, <2>1, Zenon DEF CountInv
  <2>4. CASE k.delivery = i.delivery
    <3>1. delivery'[k.delivery].attempt = delivery[i.delivery].attempt + 1
      BY <1>1, <1>3, <2>2, <2>4, Zenon
    <3>2. k.attempt <= delivery[i.delivery].attempt
      BY <2>3, <2>4, Zenon
    <3> QED
      BY <1>2, <2>2, <3>1, <3>2
  <2>5. CASE k.delivery # i.delivery
    BY <1>3, <2>2, <2>3, <2>5, Zenon
  <2> QED
    BY <2>4, <2>5, Zenon
<1>6. ASSUME replays = 0, rec.state = "exhausted"
      PROVE  rec.attempt >= MaxAttempts
  <2>1. i.attempt <= delivery[i.delivery].attempt
    BY <1>2, <1>4, <1>6, Zenon DEF CountInv
  <2> QED
    BY <1>1, <1>2, <1>4, <1>6, <2>1
<1>7. ASSUME replays = 0, NEW d \in Subscribed, delivery'[d] # Null,
             delivery'[d].state = "exhausted"
      PROVE  delivery'[d].attempt >= MaxAttempts
  BY <1>3, <1>4, <1>6, <1>7, Zenon DEF CountInv, InState
<1> QED
  BY <1>4, <1>5, <1>7, Zenon DEF CountInv, InState

\* A claimed item has the attempt count of its row.
LEMMA ClaimKeepsCount ==
  ASSUME QueueInv, NEW w \in Worker, ClaimDue(w)
  PROVE  CountInv'
<1>1. PICK batch \in SUBSET Due :
        /\ job' = [job EXCEPT ![w] = Remaining({Item(d) : d \in batch})]
        /\ delivery' = [d \in Subscribed |->
                          IF d \in batch
                          THEN [delivery[d] EXCEPT !.state = "delivering", !.lease = lease]
                          ELSE delivery[d]]
  BY Zenon DEF ClaimDue, kSubset
<1>2. \A d \in Subscribed : delivery[d] # Null => delivery[d] \in Delivery
  BY Zenon DEF QueueInv, OutboxInv, QueueTypes
<1>3. ASSUME NEW d \in batch
      PROVE  /\ d \in Subscribed /\ delivery[d] \in Delivery /\ delivery[d].attempt \in Nat
             /\ delivery'[d].state = "delivering"
             /\ delivery'[d].attempt = delivery[d].attempt
  <2>1. d \in Subscribed /\ delivery[d] \in Delivery
    BY <1>2, <1>3, Zenon DEF Due, InState
  <2>2. delivery'[d] = [delivery[d] EXCEPT !.state = "delivering", !.lease = lease]
    BY <1>1, <1>3, <2>1, Zenon
  <2> QED
    BY <2>1, <2>2, RowTypes, Zenon DEF Delivery
<1>4. /\ \A d \in Subscribed \ batch : delivery'[d] = delivery[d]
      /\ CountInv /\ replays' = replays
  BY <1>1, Zenon DEF QueueInv, ClaimDue
<1>5. ASSUME replays = 0, NEW v \in Worker, NEW i \in Claimed(job'[v])
      PROVE  i.attempt <= delivery'[i.delivery].attempt
  <2>1. CASE v = w
    <3>1. Claimed(job'[w]) = {Item(d) : d \in batch}
      <4>1. job'[w] = Remaining({Item(d) : d \in batch})
        BY <1>1, Zenon DEF QueueInv, OutboxInv, QueueTypes
      <4> QED
        BY <4>1 DEF Remaining, NoAttempt, Claimed
    <3>2. PICK d \in batch : i = Item(d)
      BY <1>5, <2>1, <3>1, Zenon
    <3>3. i.delivery = d /\ i.attempt = delivery[d].attempt
      BY <3>2, Zenon DEF Item
    <3> QED
      BY <1>3, <3>3
  <2>2. CASE v # w
    <3>1. i \in Claimed(job[v])
      BY <1>1, <1>5, <2>2, Zenon DEF QueueInv, OutboxInv, QueueTypes
    <3>2. i.attempt <= delivery[i.delivery].attempt
      BY <1>4, <1>5, <3>1, Zenon DEF CountInv
    <3>3. i.delivery \in Subscribed
      BY <3>1, WorkerFacts, Zenon
    <3> QED
      BY <1>3, <1>4, <3>2, <3>3, Zenon
  <2> QED
    BY <2>1, <2>2, Zenon
<1>6. ASSUME replays = 0, NEW d \in Subscribed, delivery'[d] # Null,
             delivery'[d].state = "exhausted"
      PROVE  delivery'[d].attempt >= MaxAttempts
  BY <1>3, <1>4, <1>6, Zenon DEF CountInv, InState
<1> QED
  BY <1>4, <1>5, <1>6, Zenon DEF CountInv, InState

\* The sweeper and a tick leave the attempt counts alone, a dispatch adds rows that
\* are not given up, and a replay is counted.
LEMMA RowsKeepCount ==
  ASSUME QueueInv,
         \/ TickQueue \/ ReclaimOnce \/ \E d \in Subscribed : ReplayDelivery(d)
         \/ \E x \in Dispatcher : CommitDispatch(x)
  PROVE  CountInv'
<1>1. CountInv /\ replays \in Nat
  BY Zenon DEF QueueInv, CountInv
<1>2. \A d \in Subscribed : delivery[d] # Null => delivery[d] \in Delivery
  BY Zenon DEF QueueInv, OutboxInv, QueueTypes
<1>3. CASE \E d \in Subscribed : ReplayDelivery(d)
  <2>1. replays' = replays + 1
    BY <1>3, Zenon DEF ReplayDelivery
  <2>2. replays' \in Nat /\ replays' # 0
    BY <1>1, <2>1
  <2> QED
    BY <2>2, Zenon DEF CountInv
<1>4. CASE ReclaimOnce
  <2>1. \A d \in Subscribed :
          /\ delivery[d] = Null => delivery'[d] = Null
          /\ delivery[d] # Null =>
               /\ delivery'[d] # Null /\ delivery'[d].attempt = delivery[d].attempt
               /\ delivery'[d].state = "exhausted" => delivery[d].state = "exhausted"
    BY <1>4, SweepRows, Zenon DEF QueueInv
  <2>2. UNCHANGED << job, replays >>
    BY <1>4, Zenon DEF ReclaimOnce
  <2> QED
    BY <2>1, <2>2, CountFrame, Zenon
<1>5. CASE TickQueue
  <2>1. \A d \in Subscribed : delivery[d] # Null =>
          /\ delivery'[d] # Null /\ delivery'[d].attempt = delivery[d].attempt
          /\ delivery'[d].state = "exhausted" => delivery[d].state = "exhausted"
    BY <1>5, TickRows, Zenon DEF QueueInv
  <2>2. /\ \A d \in Subscribed : delivery[d] = Null => delivery'[d] = Null
        /\ replays' = replays
    BY <1>5, Zenon DEF TickQueue
  <2>3. \A v \in Worker : Claimed(job'[v]) \subseteq Claimed(job[v])
    BY <1>5, TickJobs, Zenon
  <2> QED
    BY <2>1, <2>2, <2>3, CountFrame, Zenon
<1>6. CASE \E x \in Dispatcher : CommitDispatch(x)
  <2>1. /\ \A d \in Subscribed : delivery'[d] = delivery[d] \/ delivery'[d] = NewDelivery
        /\ \A d \in Subscribed : delivery[d] # Null => delivery'[d] = delivery[d]
        /\ UNCHANGED << job, replays >>
    BY <1>6, Zenon DEF CommitDispatch
  <2>2. NewDelivery.state # "exhausted"
    BY Zenon DEF NewDelivery
  <2> QED
    BY <2>1, <2>2, CountFrame, Zenon
<1> QED
  BY <1>3, <1>4, <1>5, <1>6, Zenon

\* The other steps of an attempt touch no row.
LEMMA AttemptKeepsCount ==
  ASSUME QueueInv, NEW w \in Worker,
         \/ StartAttempt(w) \/ EndBatch(w) \/ Post(w) \/ UpdateEndpoint(w)
         \/ ApplyThreshold(w) \/ AttemptFails(w) \/ CrashWorker(w)
  PROVE  CountInv'
<1>1. UNCHANGED << delivery, replays >>
  BY Zenon DEF StartAttempt, EndBatch, Post, UpdateEndpoint, ApplyThreshold, AttemptFails,
    CrashWorker
<1>2. PICK new : GoesOn(job[w], new) /\ job' = [job EXCEPT ![w] = new]
  BY AttemptGoesOn, Zenon DEF QueueInv
<1>3. Claimed(new) \subseteq Claimed(job[w])
  BY <1>2, GoesOnClaims, Zenon DEF QueueInv
<1>4. \A v \in Worker : Claimed(job'[v]) \subseteq Claimed(job[v])
  BY <1>2, <1>3, Zenon DEF QueueInv, OutboxInv, QueueTypes
<1> QED
  BY <1>1, <1>4, CountFrame, Zenon

\* Every step keeps the claims of the workers and their counts.
LEMMA QueueInductive ==
  ASSUME Counting
  PROVE  QueueInv /\ [WebhookNext]_webhookVars => QueueInv'
<1> SUFFICES ASSUME QueueInv, [WebhookNext]_webhookVars
             PROVE  QueueInv'
  BY Zenon
<1> DEFINE Kept == WorkInv' /\ BudgetInv' /\ CountInv'
<1>1. ASSUME TickQueue \/ ReclaimOnce \/ \E d \in Subscribed : ReplayDelivery(d)
      PROVE  Kept
  BY <1>1, TickKeepsWork, SweepKeepsWork, ReplayKeepsWork, RowsKeepCount, Zenon
<1>2. ASSUME \E x \in Dispatcher : CommitDispatch(x)
      PROVE  Kept
  BY <1>2, CommitKeepsWork, RowsKeepCount, Zenon
<1>3. ASSUME \E w \in Worker : ClaimDue(w) \/ Settle(w)
      PROVE  Kept
  BY <1>3, ClaimKeepsWork, SettleKeepsWork, ClaimKeepsCount, SettleKeepsCount, Zenon
<1>4. ASSUME NEW w \in Worker,
             \/ StartAttempt(w) \/ EndBatch(w) \/ Post(w) \/ UpdateEndpoint(w)
             \/ ApplyThreshold(w) \/ AttemptFails(w) \/ CrashWorker(w)
      PROVE  Kept
  BY <1>4, AttemptKeepsWork, AttemptKeepsCount, Zenon
<1>5. ASSUME UNCHANGED << job, delivery, lease, late, replays >>
      PROVE  Kept
  <2>1. WorkInv'
    BY <1>5, RowsKeepWork, Zenon
  <2>2. BudgetInv'
    BY <1>5, Zenon DEF QueueInv, BudgetInv
  <2>3. CountInv'
    BY <1>5, CountFrame, Zenon
  <2> QED
    BY <2>1, <2>2, <2>3, Zenon
<1>6. ASSUME \/ \E e \in Event : AppendEvent(e)
             \/ \E x \in Dispatcher : ClaimUndispatched(x) \/ Expand(x) \/ RollbackDispatch(x)
      PROVE  Kept
  <2>1. UNCHANGED << job, delivery, lease, late, replays >>
    BY <1>6, Zenon DEF AppendEvent, ClaimUndispatched, Expand, RollbackDispatch
  <2> QED
    BY <1>5, <2>1, Zenon
<1>7. UNCHANGED webhookVars => UNCHANGED << job, delivery, lease, late, replays >>
  BY Zenon DEF webhookVars
<1> HIDE DEF Kept
<1>8. Kept
  BY <1>1, <1>2, <1>3, <1>4, <1>5, <1>6, <1>7, Zenon DEF WebhookNext, DispatchStep, Attempt
<1>9. OutboxInv'
  <2>1. OutboxInv /\ lease \in Leases
    BY Zenon DEF QueueInv, WorkInv
  <2> QED
    BY <2>1, OutboxInductive, Zenon
<1> QED
  BY <1>8, <1>9, Zenon DEF Kept, QueueInv

\* The invariant of the queue holds before the first event.
LEMMA QueueInitially ==
  ASSUME Counting
  PROVE  WebhookInit => QueueInv
<1> SUFFICES ASSUME WebhookInit PROVE QueueInv
  BY Zenon
<1>1. \A w \in Worker : job[w] = Idle
  BY Zenon DEF WebhookInit
<1>2. JobInv(Idle) /\ Claimed(Idle) = {}
  <2>1. IsFiniteSet({}) /\ Cardinality({}) \in Nat
    BY Zenon DEF Counting
  <2>2. 0 <= RequestTimeout
    BY QueueAssumption
  <2>3. Idle.queue = {} /\ Idle.stage = "idle" /\ Idle.age = 0
    BY Zenon DEF Idle, NoAttempt
  <2>4. Idle.stage \notin {"post", "settle"}
    BY <2>3, Zenon
  <2> QED
    BY <2>1, <2>2, <2>3, <2>4, Zenon DEF JobInv, Claimed
<1>3. WorkInv
  BY <1>1, <1>2, Zenon DEF WebhookInit, WorkInv, Exclusive
<1>4. BudgetInv /\ CountInv
  BY <1>1, <1>2, Zenon DEF WebhookInit, BudgetInv, CountInv, InState
<1> QED
  BY <1>3, <1>4, OutboxInitially, Zenon DEF QueueInv

\* What the two properties of the queue follow from.
LEMMA QueueInvImplies == QueueInv => WorkedTwiceOnlyIfLate /\ BudgetSpent
<1> SUFFICES ASSUME QueueInv PROVE WorkedTwiceOnlyIfLate /\ BudgetSpent
  BY Zenon
<1>1. \A w \in Worker : job[w].stage \in {"post", "settle"} => job[w].item \in Claimed(job[w])
  BY Zenon DEF Claimed
<1>2. Exclusive(job, late) /\ (LeaseOutlastsBatch => late = {})
  BY Zenon DEF QueueInv, WorkInv
<1>3. ASSUME NEW d \in WorkedTwice PROVE d \in late
  <2>1. PICK v \in Worker, w \in Worker :
          /\ v # w
          /\ job[v].stage \in {"post", "settle"} /\ job[v].item.delivery = d
          /\ job[w].stage \in {"post", "settle"} /\ job[w].item.delivery = d
    BY Zenon DEF WorkedTwice
  <2>2. job[v].item \in Claimed(job[v]) /\ job[w].item \in Claimed(job[w])
    BY <1>1, <2>1, Zenon
  <2>3. job[v].item.delivery = job[w].item.delivery /\ job[v].item.delivery \notin late => v = w
    BY <1>2, <2>2, Zenon DEF Exclusive
  <2> QED
    BY <2>1, <2>3, Zenon
<1>4. BudgetSpent
  BY Zenon DEF BudgetSpent, InState, QueueInv, BudgetInv, CountInv
<1> QED
  BY <1>2, <1>3, <1>4, Zenon DEF WorkedTwiceOnlyIfLate

-----------------------------------------------------------------------------
(* Finite sets, and the theorems that count *)

INSTANCE FiniteSetTheorems

\* The library of finite sets has the facts that Counting lists.
LEMMA CountingHolds == Counting
<1>1. \A S : IsFiniteSet(S) => Cardinality(S) \in Nat
  BY FS_CardinalityType, Zenon
<1>2. IsFiniteSet({}) /\ Cardinality({}) = 0
  BY FS_EmptySet, Zenon
<1>3. ASSUME NEW S, NEW x \in S, IsFiniteSet(S)
      PROVE  /\ IsFiniteSet(S \ {x}) /\ Cardinality(S) >= 1
             /\ Cardinality(S \ {x}) = Cardinality(S) - 1
  <2>1. IsFiniteSet(S \ {x}) /\ Cardinality(S \ {x}) = Cardinality(S) - 1
    BY <1>3, FS_RemoveElement, Zenon
  <2>2. Cardinality(S) \in Nat /\ Cardinality(S \ {x}) \in Nat
    BY <1>1, <1>3, <2>1, Zenon
  <2> QED
    BY <2>1, <2>2
<1>4. ASSUME NEW S, NEW T \in SUBSET S, IsFiniteSet(S) PROVE IsFiniteSet(T)
  BY <1>4, FS_Subset, Zenon
<1>5. ASSUME NEW f, IsFiniteSet(DOMAIN f)
      PROVE  LET T == {f[x] : x \in DOMAIN f}
             IN  IsFiniteSet(T) /\ Cardinality(T) <= Cardinality(DOMAIN f)
  <2> DEFINE S == DOMAIN f
             T == {f[x] : x \in S}
             g == [x \in S |-> f[x]]
  <2>1. g \in Surjection(S, T)
    BY Zenon DEF Surjection
  <2> HIDE DEF g, T, S
  <2>2. IsFiniteSet(T) /\ Cardinality(T) <= Cardinality(S)
    BY <1>5, <2>1, FS_Surjection, Zenon DEF S
  <2> QED
    BY <2>2, Zenon DEF S, T
<1> QED
  BY <1>1, <1>2, <1>3, <1>4, <1>5, Zenon DEF Counting

\* The invariant of the queue holds in every reachable state.
THEOREM QueueInvariant == WebhookSpec => []QueueInv
<1>1. QueueInv /\ [WebhookNext]_webhookVars => QueueInv'
  BY QueueInductive, CountingHolds, Zenon
<1>2. WebhookInit => QueueInv
  BY QueueInitially, CountingHolds, Zenon
<1> QED
  BY <1>1, <1>2, PTL DEF WebhookSpec

\* Whatever the lease, two workers are at the same delivery only if its lease ran out
\* while a worker had it in hand, and that does not happen while a lease outlasts a
\* batch (WorkedTwiceOnlyIfLate), whatever crashes.
THEOREM WorkedTwiceOnlyIfLateCorrect == WebhookSpec => []WorkedTwiceOnlyIfLate
  BY QueueInvariant, QueueInvImplies, PTL

\* Whatever the lease, a delivery that was never late is given up after exactly the
\* budget of attempts, replays included, and before the first replay none is given
\* up with fewer (BudgetSpent).
THEOREM BudgetSpentCorrect == WebhookSpec => []BudgetSpent
  BY QueueInvariant, QueueInvImplies, PTL

\* While a lease outlasts a request the key moves money at most once before its
\* record expires (ExactlyOnce), whatever fails and whoever takes over.
THEOREM ExactlyOnceCorrect ==
  ASSUME LeaseOutlastsRequest
  PROVE  Spec => []ExactlyOnce
<1>1. IdempotencyInv => ExactlyOnce
  <2> SUFFICES ASSUME IdempotencyInv PROVE Cardinality(effects) <= 1
    BY Zenon DEF ExactlyOnce
  <2> DEFINE e == [by |-> row.response, ttl |-> row.ttl]
  <2>1. effects \subseteq {e}
    BY Zenon DEF IdempotencyInv, EffectInv
  <2> HIDE DEF e
  <2>2. IsFiniteSet({e}) /\ Cardinality({e}) = 1
    BY FS_Singleton, Zenon
  <2>3. Cardinality(effects) <= Cardinality({e})
    BY <2>1, <2>2, FS_Subset, Zenon
  <2> QED
    BY <2>2, <2>3, Zenon
<1> QED
  BY <1>1, IdempotencyInvariant, PTL

\* Money that moved has its response stored, and no late finish overwrites it
\* (Replayable).
THEOREM ReplayableCorrect ==
  ASSUME LeaseOutlastsRequest
  PROVE  Spec => []Replayable
<1>1. IdempotencyInv => Replayable
  BY DEF IdempotencyInv, EffectInv, Replayable
<1> QED
  BY <1>1, IdempotencyInvariant, PTL

\* A replayed response is one to the same request (ReplayMatchesRequest).
THEOREM ReplayMatchesCorrect ==
  ASSUME LeaseOutlastsRequest
  PROVE  Spec => []ReplayMatchesRequest
<1>1. IdempotencyInv => ReplayMatchesRequest
  BY Zenon DEF IdempotencyInv
<1> QED
  BY <1>1, IdempotencyInvariant, PTL
=============================================================================

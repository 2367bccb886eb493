-------------------------- MODULE ComponentProofs --------------------------
(***************************************************************************)
(* Proofs about the components that stand by themselves: a statement read  *)
(* page by page, the rate limiter, authentication, the rotation of webhook *)
(* secrets, and a pass of the reconciler.                                  *)
(***************************************************************************)
EXTENDS Statement, Reconciler, RateLimiter, Gateway, Signing, EntriesProofs

-----------------------------------------------------------------------------
(* Statement *)

\* The fields of walk.
WalkShape ==
  walk = [account |-> walk.account, stage |-> walk.stage, cursor |-> walk.cursor,
          seen |-> walk.seen, again |-> walk.again, known |-> walk.known,
          asOf |-> walk.asOf, total |-> walk.total]

\* Every account's entries lead from zero to its posted balance.  A client in
\* the middle has read the account as of its first page down to the cursor, and
\* the entry at the cursor keeps new entries above it.
StatementInv ==
  /\ WalkShape
  /\ \A e \in journal : e.id \in Nat
  /\ \A a \in Account : Chain(On(a), 0, balance[a].posted)
  /\ walk.account \in Account
  /\ walk.stage \in {"start", "balance", "paging", "done"}
  /\ walk.stage \in {"start", "balance"} => walk.seen = {}
  /\ ~ walk.again
  /\ walk.stage \in {"paging", "done"} => Chain(walk.asOf, 0, walk.total)
  /\ walk.stage = "paging" =>
       /\ walk.seen \cup Older(walk.account, walk.cursor) = walk.asOf
       /\ \A e \in walk.seen : e.id \in Nat /\ e.id >= walk.cursor
       /\ \E e \in On(walk.account) : e.id = walk.cursor
  /\ walk.stage = "done" => walk.seen = walk.asOf

\* What is published comes behind what is there, for every account.
LEMMA PublishChains ==
  ASSUME StatementInv, Publish
  PROVE  /\ \A e \in journal' : e.id \in Nat
         /\ \A a \in Account : Chain(On(a)', 0, balance'[a].posted)
<1>1. /\ journal \subseteq journal'
      /\ \A e \in journal : e.id \in Nat
      /\ \A f \in New : f.id \in Nat
      /\ \A e \in journal, f \in New : e.account = f.account => e.id < f.id
  BY Zenon DEF Publish, AtTheEnd, StatementInv
<1>2. \A e \in journal' : e.id \in Nat
  BY <1>1, Zenon DEF New
<1>3. ASSUME NEW a \in Account
      PROVE  Chain(On(a)', 0, balance'[a].posted)
  <2>1. Chain(On(a), 0, balance[a].posted)
    BY Zenon DEF StatementInv
  <2>2. Chain(NewOn(a), balance[a].posted, balance'[a].posted)
    BY Zenon DEF Publish, BalanceFollows
  <2>3. /\ \A e \in On(a) \cup NewOn(a) : e.id \in Int
        /\ \A e \in On(a), f \in NewOn(a) : e.id < f.id
    BY <1>1 DEF On, NewOn
  <2>4. Chain(On(a) \cup NewOn(a), 0, balance'[a].posted)
    BY <2>1, <2>2, <2>3, ChainConcat, Zenon
  <2>5. On(a)' = On(a) \cup NewOn(a)
    BY <1>1, Zenon DEF On, NewOn, New
  <2> QED BY <2>4, <2>5, Zenon
<1> QED BY <1>2, <1>3, Zenon

\* Publishing leaves a client's walk alone.
LEMMA PublishKeepsWalk ==
  ASSUME StatementInv, Publish, UNCHANGED walk
  PROVE  StatementInv'
<1>1. ASSUME walk.stage = "paging"
      PROVE  /\ Older(walk.account, walk.cursor)' = Older(walk.account, walk.cursor)
             /\ \E e \in On(walk.account)' : e.id = walk.cursor
  <2>1. PICK c \in On(walk.account) : c.id = walk.cursor
    BY <1>1, Zenon DEF StatementInv
  <2>2. /\ journal \subseteq journal' /\ c \in journal /\ c.account = walk.account
        /\ c.id \in Nat
        /\ \A f \in journal' \ journal : f.id \in Nat
        /\ \A f \in journal' \ journal : c.account = f.account => c.id < f.id
    BY <2>1, Zenon DEF Publish, AtTheEnd, New, On, StatementInv
  <2>3. Older(walk.account, walk.cursor)' = Older(walk.account, walk.cursor)
    BY <2>1, <2>2 DEF Older, On
  <2> QED BY <2>1, <2>2, <2>3, Zenon DEF On
<1>2. /\ \A e \in journal' : e.id \in Nat
      /\ \A a \in Account : Chain(On(a)', 0, balance'[a].posted)
  BY PublishChains, Zenon
<1> QED BY <1>1, <1>2, Zenon DEF StatementInv, WalkShape

\* A page takes the newest of the rows and leaves those behind its last entry.
LEMMA PageKeeps ==
  ASSUME StatementInv, walk.stage \in {"balance", "paging"},
         NEW rows,
         rows = IF walk.stage = "balance" THEN On(walk.account)
                ELSE Older(walk.account, walk.cursor),
         ReadPage(rows)
  PROVE  StatementInv'
<1> DEFINE a == walk.account
           whole == IF walk.stage = "balance" THEN On(a) ELSE walk.asOf
<1>1. PICK page \in SUBSET rows :
        /\ \A e \in page, f \in rows \ page : f.id < e.id
        /\ \/ \E last \in page : /\ \A e \in page : last.id <= e.id
                                 /\ walk' = Took(page, "paging", last.id)
           \/ page = rows /\ walk' = Took(page, "done", walk.cursor)
  BY Zenon DEF ReadPage, CursorFor
<1>2. journal' = journal /\ balance' = balance
  BY Zenon DEF ReadPage, journalVars
<1>3. /\ rows \subseteq On(a) /\ a \in Account
      /\ walk.seen \cup rows = whole
      /\ page \cap walk.seen = {}
      /\ \A e \in On(a) : e.id \in Nat
  BY DEF StatementInv, Older, On
<1>4. Chain(whole, 0, IF walk.stage = "balance" THEN balance[a].posted ELSE walk.total)
  BY <1>3, Zenon DEF StatementInv
<1>5. ASSUME NEW stage, NEW cursor, walk' = Took(page, stage, cursor)
      PROVE  /\ walk'.account = a /\ walk'.stage = stage /\ walk'.cursor = cursor
             /\ walk'.seen = walk.seen \cup page
             /\ walk'.again = FALSE
             /\ walk'.asOf = whole
             /\ walk'.total = IF walk.stage = "balance" THEN balance[a].posted
                              ELSE walk.total
             /\ WalkShape'
  <2>1. walk.again = FALSE
    BY DEF StatementInv
  <2> QED BY <1>3, <1>5, <2>1, Zenon DEF Took, StatementInv, WalkShape
<1>6. /\ \A e \in journal' : e.id \in Nat
      /\ \A b \in Account : Chain(On(b)', 0, balance'[b].posted)
  BY <1>2, Zenon DEF StatementInv, On
<1> HIDE DEF whole, a
<1>7. CASE page = rows /\ walk' = Took(page, "done", walk.cursor)
  <2>1. /\ walk'.account = a /\ walk'.stage = "done" /\ walk'.again = FALSE
        /\ walk'.seen = whole /\ walk'.asOf = whole /\ WalkShape'
        /\ Chain(walk'.asOf, 0, walk'.total)
    BY <1>3, <1>4, <1>5, <1>7, Zenon
  <2> QED BY <1>3, <1>6, <2>1, Zenon DEF StatementInv
<1>8. ASSUME NEW last \in page, \A e \in page : last.id <= e.id,
             walk' = Took(page, "paging", last.id)
      PROVE  StatementInv'
  <2>1. Older(a, last.id) = rows \ page
    <3>1. last \in rows /\ last.id \in Nat /\ last \in On(a)
      BY <1>3, <1>8, Zenon
    <3>2. \A e \in On(a) : e.id < last.id => e \in rows
      <4>1. CASE walk.stage = "balance"
        BY <4>1, Zenon DEF a
      <4>2. CASE walk.stage = "paging"
        <5>1. walk.cursor \in Nat /\ last.id < walk.cursor
          BY <1>3, <3>1, <4>2, Zenon DEF StatementInv, Older, a
        <5> QED BY <1>3, <3>1, <4>2, <5>1 DEF Older, a
      <4> QED BY <4>1, <4>2, Zenon
    <3>3. \A e \in rows : e.id < last.id <=> e \notin page
      BY <1>1, <1>3, <1>8, <3>1
    <3> QED BY <1>3, <3>2, <3>3, Zenon DEF Older
  <2>2. walk.seen \cup page \cup Older(a, last.id) = whole
    BY <1>3, <2>1, Zenon
  <2>3. \A e \in walk.seen \cup page : e.id \in Nat /\ e.id >= last.id
    <3>1. last \in rows /\ last.id \in Nat
      BY <1>3, <1>8, Zenon
    <3>2. \A e \in page : e.id \in Nat
      BY <1>3, Zenon
    <3>3. CASE walk.stage = "balance"
      BY <1>8, <3>1, <3>2, <3>3, Zenon DEF StatementInv
    <3>4. CASE walk.stage = "paging"
      <4>1. walk.cursor \in Nat
        BY <1>3, <3>4, Zenon DEF StatementInv, a
      <4>2. last.id < walk.cursor
        BY <3>1, <3>4, Zenon DEF Older
      <4> QED BY <1>8, <3>1, <3>2, <3>4, <4>1, <4>2 DEF StatementInv
    <3> QED BY <3>3, <3>4, Zenon
  <2>4. /\ walk'.account = a /\ walk'.stage = "paging" /\ walk'.again = FALSE
        /\ walk'.cursor = last.id /\ walk'.seen = walk.seen \cup page
        /\ walk'.asOf = whole /\ WalkShape'
        /\ Chain(walk'.asOf, 0, walk'.total)
    BY <1>4, <1>5, <1>8, Zenon
  <2>5. Older(walk.account, walk.cursor)' = Older(a, last.id) /\ On(walk.account)' = On(a)
    BY <1>2, <2>4, Zenon DEF Older, On
  <2>6. last \in On(a)
    BY <1>3, Zenon
  <2> QED BY <1>3, <1>6, <2>2, <2>3, <2>4, <2>5, <2>6, Zenon DEF StatementInv
<1> QED BY <1>1, <1>7, <1>8, Zenon

\* A figure of the account is zero or the balance_after of one of the entries.
Reached(figure, E) == figure = 0 \/ \E e \in E : e.after = figure

\* The balance the client read is one that the account has reached.
KnownInv ==
  /\ walk.stage = "balance" => Reached(walk.known, On(walk.account))
  /\ walk.stage \in {"paging", "done"} => Reached(walk.known, walk.asOf)

\* The balance at the end of a chain is reached in it.
LEMMA ChainReaches == ASSUME NEW E, NEW l, Chain(E, 0, l) PROVE Reached(l, E)
  BY Zenon DEF Chain, Reached

\* No step takes away the entry that reached the balance the client knows.
LEMMA KnownStep ==
  ASSUME StatementInv, KnownInv, [StatementNext]_readerVars
  PROVE  KnownInv'
<1>1. CASE Publish /\ UNCHANGED walk
  <2>1. On(walk.account) \subseteq On(walk.account)'
    BY <1>1, Zenon DEF Publish, AtTheEnd, On
  <2> QED BY <1>1, <2>1, Zenon DEF KnownInv, Reached
<1>2. CASE ReadBalance
  <2>1. /\ walk'.stage = "balance" /\ walk'.known = balance[walk.account].posted
        /\ walk'.account = walk.account /\ journal' = journal
    BY <1>2, Zenon DEF ReadBalance, Posted, StatementInv, WalkShape, journalVars
  <2>2. Chain(On(walk.account), 0, balance[walk.account].posted)
    BY Zenon DEF StatementInv
  <2>3. On(walk.account)' = On(walk.account)
    BY <2>1, Zenon DEF On
  <2>4. Reached(balance[walk.account].posted, On(walk.account))
    BY <2>2, ChainReaches, Zenon
  <2> QED BY <2>1, <2>3, <2>4 DEF KnownInv, Reached
<1>3. ASSUME NEW rows, ReadPage(rows), walk.stage \in {"balance", "paging"}
      PROVE  KnownInv'
  <2>1. PICK page, cursor : \/ walk' = Took(page, "paging", cursor)
                            \/ walk' = Took(page, "done", cursor)
    BY <1>3, Zenon DEF ReadPage
  <2>2. /\ walk'.stage \in {"paging", "done"} /\ walk'.known = walk.known
        /\ walk'.asOf = IF walk.stage = "balance" THEN On(walk.account) ELSE walk.asOf
    BY <2>1, Zenon DEF Took, StatementInv, WalkShape
  <2>3. walk'.stage # "balance"
    BY <2>2
  <2> QED BY <1>3, <2>2, <2>3, Zenon DEF KnownInv
<1>4. CASE UNCHANGED readerVars
  BY <1>4, Zenon DEF readerVars, KnownInv, Reached, On
<1>5. CASE FirstPage \/ NextPage
  BY <1>3, <1>5, Zenon DEF FirstPage, NextPage
<1> QED BY <1>1, <1>2, <1>4, <1>5, Zenon DEF StatementNext, ReaderStep

\* Both hold in every reachable state.
LEMMA StatementInductive == StatementSpec => [](StatementInv /\ KnownInv)
<1>1. StatementInit => StatementInv /\ KnownInv
  <2>1. Chain({}, 0, 0)
    BY Zenon DEF Chain
  <2>2. StatementInit => StatementInv
    BY <2>1 DEF StatementInit, JournalInit, StatementInv, WalkShape, On, ZeroBalance
  <2>3. StatementInit => walk.stage = "start"
    BY DEF StatementInit
  <2> QED BY <2>2, <2>3 DEF KnownInv
<1>2. StatementInv /\ KnownInv /\ [StatementNext]_readerVars => (StatementInv /\ KnownInv)'
  <2> SUFFICES ASSUME StatementInv, KnownInv, [StatementNext]_readerVars
               PROVE  StatementInv'
    BY KnownStep, Zenon
  <2>1. CASE Publish /\ UNCHANGED walk
    BY <2>1, PublishKeepsWalk, Zenon
  <2>2. CASE ReadBalance
    BY <2>2, Zenon DEF ReadBalance, StatementInv, WalkShape, journalVars, On
  <2>3. CASE FirstPage
    BY <2>3, PageKeeps, Zenon DEF FirstPage
  <2>4. CASE NextPage
    BY <2>4, PageKeeps, Zenon DEF NextPage
  <2>5. CASE UNCHANGED readerVars
    BY <2>5, Zenon DEF readerVars, StatementInv, WalkShape, On, Older
  <2> QED BY <2>1, <2>2, <2>3, <2>4, <2>5, Zenon DEF StatementNext, ReaderStep
<1> QED BY <1>1, <1>2, PTL DEF StatementSpec

\* The pages of a statement are one snapshot of the account and its entries lead
\* to the balance the account had then, for any accounts, page sizes and
\* interleaving with postings.
THEOREM StatementCorrect == StatementSpec => []StatementIsSnapshot
<1>1. StatementInv => StatementIsSnapshot
  BY Zenon DEF StatementInv, StatementIsSnapshot
<1> QED BY <1>1, StatementInductive, PTL

\* The balance a client reads and the statement it reads afterwards fit: the
\* balance is zero or stands in the statement, whatever commits in between.
THEOREM BalanceInStatementCorrect == StatementSpec => []BalanceInStatement
<1>1. StatementInv /\ KnownInv => BalanceInStatement
  BY Zenon DEF StatementInv, KnownInv, Reached, BalanceInStatement
<1> QED BY <1>1, StatementInductive, PTL

-----------------------------------------------------------------------------
(* RateLimiter *)

Bucket == [tokens : Nat, age : Nat]

\* The tokens in the bucket of the observed caller are part of what the window
\* allows it: with them, the bound on the window is inductive.
LimiterInv ==
  /\ bucket \in [ApiKey -> Bucket \cup {NoBucket}]
  /\ window \in [key : ApiKey \cup {NoBucket}, count : Nat, length : Nat]
  /\ window.key # NoBucket =>
       window.count * Minute + Level(window.key) <= Full + PerMin * window.length

\* A level is a natural number and at most the capacity.
LEMMA LevelType ==
  ASSUME LimiterInv, NEW k \in ApiKey
  PROVE  Level(k) \in Nat /\ Level(k) <= Full /\ Full \in Nat
<1>1. Full \in Nat
  BY LimiterAssumption DEF Full
<1>2. bucket[k] # NoBucket => bucket[k].tokens + PerMin * bucket[k].age \in Nat
  BY LimiterAssumption DEF LimiterInv, Bucket
<1> HIDE DEF Full
<1> QED BY <1>1, <1>2 DEF Level, Smaller

\* A bucket that stays as it is keeps its level.
LEMMA LevelKept ==
  ASSUME LimiterInv, NEW k \in ApiKey, bucket'[k] = bucket[k]
  PROVE  Level(k)' = Level(k)
  BY Zenon DEF Level

\* A record with t tokens of age 0 has level t, if that is within the capacity.
LEMMA LevelSet ==
  ASSUME LimiterInv, NEW k \in ApiKey, NEW t \in Nat, t <= Full,
         bucket'[k] = [tokens |-> t, age |-> 0]
  PROVE  Level(k)' = t
<1>1. bucket'[k] # NoBucket
  BY LimiterAssumption
<1>2. Full \in Nat /\ PerMin * 0 = 0
  BY LevelType, LimiterAssumption
<1> HIDE DEF Full
<1>3. Full' = Full
  BY Zenon DEF Full
<1> QED BY <1>1, <1>2, <1>3 DEF Level, Smaller

\* A request that is admitted costs its caller Minute units, and nobody else any.
LEMMA AdmitSpends ==
  ASSUME LimiterInv, NEW k \in ApiKey, Admit(k)
  PROVE  /\ Level(k)' = Level(k) - Minute
         /\ \A j \in ApiKey \ {k} : Level(j)' = Level(j)
<1>1. /\ bucket'[k] = [tokens |-> Level(k) - Minute, age |-> 0]
      /\ \A j \in ApiKey \ {k} : bucket'[j] = bucket[j]
  BY Zenon DEF Admit, LimiterInv
<1>2. Level(k) - Minute \in Nat /\ Level(k) - Minute <= Full
  BY LevelType, LimiterAssumption DEF Admit
<1> QED BY <1>1, <1>2, LevelSet, LevelKept, Zenon

\* A request that is refused costs nobody anything.
LEMMA DenyKeepsLevel ==
  ASSUME LimiterInv, NEW k \in ApiKey, Deny(k), NEW j \in ApiKey
  PROVE  Level(j)' = Level(j)
<1>1. /\ bucket'[k] = [tokens |-> Level(k), age |-> 0]
      /\ j # k => bucket'[j] = bucket[j]
  BY Zenon DEF Deny, Refilled, LimiterInv
<1> QED BY <1>1, LevelType, LevelSet, LevelKept, Zenon

\* A bucket that is swept was full.
LEMMA SweepKeepsLevel ==
  ASSUME LimiterInv, Sweep, NEW j \in ApiKey
  PROVE  Level(j)' = Level(j)
<1>0. /\ bucket \in [ApiKey -> Bucket \cup {NoBucket}]
      /\ PerMin \in Nat /\ Minute \in Nat /\ Full \in Nat /\ Full' = Full
  BY LimiterAssumption DEF LimiterInv, Full
<1>1. CASE bucket'[j] = bucket[j]
  BY <1>1, LevelKept, Zenon
<1>2. CASE bucket'[j] # bucket[j]
  <2>1. /\ bucket'[j] = NoBucket /\ bucket[j] # NoBucket
        /\ bucket[j].tokens \in Nat /\ bucket[j].age \in Nat
        /\ bucket[j].age >= Minute
    BY <1>0, <1>2, LimiterAssumption DEF Sweep, Bucket
  <2>2. PerMin * bucket[j].age >= Full /\ PerMin * bucket[j].age \in Nat
    BY <1>0, <2>1 DEF Full
  <2>3. Level(j)' = Full
    BY <1>0, <2>1, Zenon DEF Level
  <2>4. Level(j) = Smaller(Full, bucket[j].tokens + PerMin * bucket[j].age)
    BY <2>1, Zenon DEF Level
  <2>5. \A t, x \in Nat : x >= Full => Smaller(Full, t + x) = Full
    BY <1>0 DEF Smaller
  <2> QED BY <2>1, <2>2, <2>3, <2>4, <2>5, Zenon
<1> QED BY <1>1, <1>2, Zenon

\* A tick brings a bucket PerMin units, or what it has room for.
LEMMA TickRefills ==
  ASSUME LimiterInv, Tick, NEW k \in ApiKey
  PROVE  /\ bucket'[k] \in Bucket \cup {NoBucket}
         /\ Level(k)' \in Nat /\ Level(k)' <= Level(k) + PerMin
         /\ Level(k)' = Full \/ Level(k)' = Level(k) + PerMin
<1>1. CASE bucket[k] = NoBucket
  <2>1. bucket'[k] = NoBucket
    BY <1>1, Zenon DEF Tick
  <2>2. Level(k) = Full /\ Level(k)' = Full
    BY <1>1, <2>1, Zenon DEF Level, Full
  <2>3. Full \in Nat /\ PerMin \in Nat
    BY LevelType, LimiterAssumption, Zenon
  <2> HIDE DEF Full, Level
  <2> QED BY <2>1, <2>2, <2>3
<1>2. CASE bucket[k] # NoBucket
  <2> DEFINE t == bucket[k].tokens
             g == bucket[k].age
             h == Smaller(g + 1, Idle + 1)
  <2>1. t \in Nat /\ g \in Nat /\ h \in Nat /\ h <= g + 1 /\ (h = g + 1 \/ h >= Minute)
    BY <1>2, LimiterAssumption DEF LimiterInv, Bucket, Smaller
  <2>2. bucket'[k] = [tokens |-> t, age |-> h]
    BY <1>2, Zenon DEF Tick, LimiterInv, Bucket
  <2>3. bucket'[k] # NoBucket /\ bucket'[k] \in Bucket
    BY <2>1, <2>2, LimiterAssumption DEF Bucket
  <2> HIDE DEF t, g, h
  <2>4. /\ PerMin * h <= PerMin * g + PerMin /\ PerMin * h \in Nat /\ PerMin * g \in Nat
        /\ PerMin * h = PerMin * g + PerMin \/ PerMin * h >= Full
    BY <2>1, LimiterAssumption DEF Full
  <2>5. Level(k) = Smaller(Full, t + PerMin * g)
    BY <1>2, Zenon DEF Level, t, g
  <2>6. Level(k)' = Smaller(Full, t + PerMin * h)
    BY <2>2, <2>3 DEF Level, Full
  <2>7. Full \in Nat /\ PerMin \in Nat
    BY LevelType, LimiterAssumption, Zenon
  <2> HIDE DEF Full, Level
  <2>8. /\ Level(k)' \in Nat /\ Level(k)' <= Level(k) + PerMin
        /\ Level(k)' = Full \/ Level(k)' = Level(k) + PerMin
    BY <2>1, <2>4, <2>5, <2>6, <2>7 DEF Smaller
  <2> QED BY <2>3, <2>8, Zenon
<1> QED BY <1>1, <1>2, Zenon

\* The passing of a tick preserves the invariant of the limiter.
LEMMA LimiterTick ==
  ASSUME LimiterInv, Tick
  PROVE  LimiterInv'
<1>1. ASSUME NEW k \in ApiKey
      PROVE  /\ bucket'[k] \in Bucket \cup {NoBucket}
             /\ Level(k)' \in Nat /\ Level(k)' <= Level(k) + PerMin
  BY TickRefills, Zenon
<1>2. bucket' \in [ApiKey -> Bucket \cup {NoBucket}]
  BY <1>1, Zenon DEF Tick
<1>3. CASE window.key = NoBucket
  BY <1>2, <1>3, Zenon DEF Tick, LimiterInv
<1>4. CASE window.key # NoBucket
  <2>1. /\ window'.key = window.key /\ window'.count = window.count
        /\ window'.length = window.length + 1
        /\ window' \in [key : ApiKey \cup {NoBucket}, count : Nat, length : Nat]
    BY <1>4 DEF Tick, LimiterInv
  <2>2. PerMin * (window.length + 1) = PerMin * window.length + PerMin
    BY LimiterAssumption DEF LimiterInv
  <2>3. /\ window.count * Minute \in Nat /\ PerMin * window.length \in Nat
        /\ Full \in Nat /\ Level(window.key) \in Nat /\ PerMin \in Nat
    BY <1>4, LevelType, LimiterAssumption DEF LimiterInv
  <2>4. /\ Level(window.key)' \in Nat
        /\ Level(window.key)' <= Level(window.key) + PerMin
    BY <1>1, <1>4, <2>1, Zenon DEF LimiterInv
  <2>5. window.count * Minute + Level(window.key) <= Full + PerMin * window.length
    BY <1>4, Zenon DEF LimiterInv
  <2>6. (window.count * Minute + Level(window.key) <= Full + PerMin * window.length)'
    <3> HIDE DEF Level, Full
    <3>1. Full' = Full
      BY Zenon DEF Full
    <3> QED BY <2>1, <2>2, <2>3, <2>4, <2>5, <3>1
  <2> QED BY <1>2, <2>1, <2>6, Zenon DEF LimiterInv
<1> QED BY <1>3, <1>4, Zenon

\* The invariant of the limiter holds in every reachable state.
LEMMA LimiterInductive == LimiterSpec => []LimiterInv
<1>1. LimiterInit => LimiterInv
  BY DEF LimiterInit, LimiterInv
<1>2. LimiterInv /\ [LimiterNext]_limiterVars => LimiterInv'
  <2> SUFFICES ASSUME LimiterInv, [LimiterNext]_limiterVars
               PROVE  LimiterInv'
    BY Zenon
  <2> DEFINE W == [key : ApiKey \cup {NoBucket}, count : Nat, length : Nat]
  <2>0. /\ window \in W /\ bucket \in [ApiKey -> Bucket \cup {NoBucket}]
        /\ window.count * Minute \in Nat /\ PerMin * window.length \in Nat
        /\ PerMin \in Nat /\ Minute \in Nat /\ Full \in Nat /\ Full' = Full
    BY LimiterAssumption DEF LimiterInv, Full
  <2>1. ASSUME NEW k \in ApiKey, Admit(k)
        PROVE  LimiterInv'
    <3>1. /\ bucket'[k] = [tokens |-> Level(k) - Minute, age |-> 0]
          /\ \A j \in ApiKey \ {k} : bucket'[j] = bucket[j]
          /\ Level(k) - Minute \in Nat
          /\ bucket' \in [ApiKey -> Bucket \cup {NoBucket}]
      BY <2>0, <2>1, LevelType DEF Admit, Bucket
    <3>2. Level(k)' = Level(k) - Minute
      BY <2>1, AdmitSpends, Zenon
    <3>3. CASE window.key = k
      <4>1. /\ window'.key = k /\ window'.count = window.count + 1
            /\ window'.length = window.length /\ window' \in W
        BY <2>0, <2>1, <3>3 DEF Admit
      <4>2. (window.count + 1) * Minute = window.count * Minute + Minute
        BY <2>0
      <4>3. Level(k) \in Nat /\ k # NoBucket
        BY LevelType, LimiterAssumption, Zenon
      <4>4. window.count * Minute + Level(k) <= Full + PerMin * window.length
        BY <3>3, <4>3, Zenon DEF LimiterInv
      <4> HIDE DEF Level, Full
      <4>5. (window.count * Minute + Level(window.key) <= Full + PerMin * window.length)'
        BY <2>0, <3>2, <4>1, <4>2, <4>3, <4>4
      <4> QED BY <3>1, <4>1, <4>5, Zenon DEF LimiterInv
    <3>4. CASE window.key # k
      <4>1. window' = window
        BY <2>1, <3>4, Zenon DEF Admit
      <4>2. window.key # NoBucket => Level(window.key)' = Level(window.key)
        BY <2>0, <3>1, <3>4, <4>1, LevelKept, Zenon
      <4> QED BY <2>0, <3>1, <4>1, <4>2, Zenon DEF LimiterInv
    <3> QED BY <3>3, <3>4, Zenon
  <2>2. ASSUME NEW k \in ApiKey, Deny(k)
        PROVE  LimiterInv'
    <3>1. /\ bucket'[k] = [tokens |-> Level(k), age |-> 0]
          /\ \A j \in ApiKey \ {k} : bucket'[j] = bucket[j]
          /\ bucket' \in [ApiKey -> Bucket \cup {NoBucket}]
          /\ window' = window
      BY <2>0, <2>2, LevelType, Zenon DEF Deny, Refilled, Bucket
    <3>2. \A j \in ApiKey : Level(j)' = Level(j)
      BY <2>2, DenyKeepsLevel, Zenon
    <3>3. window.key # NoBucket => Level(window.key)' = Level(window.key)
      BY <2>0, <3>1, <3>2, Zenon
    <3> QED BY <2>0, <3>1, <3>3, Zenon DEF LimiterInv
  <2>3. ASSUME NEW k \in ApiKey, Observe(k)
        PROVE  LimiterInv'
    <3>1. /\ window' = [key |-> k, count |-> 0, length |-> 0]
          /\ bucket' = bucket
      BY <2>3, Zenon DEF Observe
    <3>2. Level(k)' <= Full /\ Level(k)' \in Nat
      BY <3>1, LevelType, LevelKept, Zenon
    <3>3. 0 * Minute = 0 /\ PerMin * 0 = 0
      BY <2>0
    <3> HIDE DEF Full, Level
    <3>4. (window.count * Minute + Level(window.key) <= Full + PerMin * window.length)'
      BY <2>0, <3>1, <3>2, <3>3
    <3> QED BY <2>0, <3>1, <3>4, Zenon DEF LimiterInv
  <2>4. CASE Sweep
    <3>1. /\ window' = window
          /\ bucket' \in [ApiKey -> Bucket \cup {NoBucket}]
      BY <2>0, <2>4, Zenon DEF Sweep
    <3>2. \A j \in ApiKey : Level(j)' = Level(j)
      BY <2>4, SweepKeepsLevel, Zenon
    <3>3. window.key # NoBucket => Level(window.key)' = Level(window.key)
      BY <2>0, <3>1, <3>2, Zenon
    <3> QED BY <2>0, <3>1, <3>3, Zenon DEF LimiterInv
  <2>5. CASE Tick
    BY <2>5, LimiterTick, Zenon
  <2>6. CASE UNCHANGED limiterVars
    BY <2>0, <2>6, Zenon DEF limiterVars, LimiterInv, Level
  <2> QED BY <2>1, <2>2, <2>3, <2>4, <2>5, <2>6, Zenon DEF LimiterNext
<1> QED BY <1>1, <1>2, PTL DEF LimiterSpec

\* The bound on a window (WindowBounded) for every rate, capacity, idle age and
\* set of callers.
THEOREM LimiterCorrect == LimiterSpec => []WindowBounded
<1>1. LimiterInv => WindowBounded
  <2> SUFFICES ASSUME LimiterInv, window.key # NoBucket
               PROVE  window.count * Minute <= Full + PerMin * window.length
    BY Zenon DEF WindowBounded
  <2>1. /\ Level(window.key) \in Nat /\ window.count * Minute \in Nat
        /\ Full + PerMin * window.length \in Nat
    BY LevelType, LimiterAssumption DEF LimiterInv, Full
  <2>2. window.count * Minute + Level(window.key) <= Full + PerMin * window.length
    BY Zenon DEF LimiterInv
  <2> HIDE DEF Level, Full
  <2> QED BY <2>1, <2>2
<1> QED BY <1>1, LimiterInductive, PTL

-----------------------------------------------------------------------------
(* Gateway *)

KeyRow == [secret : Token, revoked : BOOLEAN]

\* A request has the secret it presents, and what it learned when it arrived
\* stays true in the only way it can: a revoked key stays revoked, and a live
\* one is live or has been revoked since.
CallInv(r) ==
  /\ r.live => r.secret \in Token /\ (Live(r.secret) \/ Revoked(r.secret))
  /\ r.dead => r.secret \in Token /\ Revoked(r.secret)
  /\ r.stage = "find" => r.secret \in Token
  /\ r.stage \in {"limit", "role", "handler"} =>
       r.secret \in Token /\ r.found = r.secret /\ ~ r.dead
  /\ r.stage = "handler" => AtLeast(RoleOf[r.secret], r.want)
  /\ r.stage = "401" /\ r.live => Revoked(r.secret)

Calls ==
  [stage : {"idle", "find", "limit", "role", "handler", "401", "403", "429", "500"},
   secret : Token \cup {NoKey}, want : {"read", "write"}, found : Token \cup {NoKey},
   live : BOOLEAN, dead : BOOLEAN]

GatewayInv ==
  /\ keys \in [Lookup -> KeyRow \cup {NoKey}]
  /\ call \in [Caller -> Calls]
  /\ \A c \in Caller : CallInv(call[c])

\* A step on the keys keeps what the requests know.
LEMMA KeysStep ==
  ASSUME GatewayInv, UNCHANGED call,
         keys' \in [Lookup -> KeyRow \cup {NoKey}],
         \A s \in Token : /\ Revoked(s) => Revoked(s)'
                          /\ Live(s) => Live(s)' \/ Revoked(s)'
  PROVE  GatewayInv'
<1>1. ASSUME NEW c \in Caller
      PROVE  CallInv(call[c])'
  <2>1. CallInv(call[c]) /\ call'[c] = call[c]
    BY Zenon DEF GatewayInv
  <2>2. ASSUME NEW s \in Token
        PROVE  /\ Revoked(s) => Revoked(s)'
               /\ Live(s) => Live(s)' \/ Revoked(s)'
    BY Zenon
  <2> QED BY <2>1, <2>2, Zenon DEF CallInv, Revoked, Live
<1> QED BY <1>1, Zenon DEF GatewayInv

\* A step of one request is right if it keeps CallInv for that request.
LEMMA CallStep ==
  ASSUME GatewayInv, UNCHANGED keys, NEW c \in Caller, NEW r \in Calls,
         call' = [call EXCEPT ![c] = r], CallInv(r)
  PROVE  GatewayInv'
<1>1. ASSUME NEW d \in Caller
      PROVE  CallInv(call[d])'
  <2>1. CallInv(call'[d])
    BY Zenon DEF GatewayInv
  <2> QED BY <2>1, Zenon DEF CallInv, Live, Revoked, AtLeast, Rank
<1> QED BY <1>1, Zenon DEF GatewayInv

\* The invariant of Gateway holds in every reachable state.
THEOREM GatewayInvariant == GatewaySpec => []GatewayInv
<1>1. GatewayInit => GatewayInv
  BY DEF GatewayInit, GatewayInv, CallInv, Quiet, Calls
<1>2. GatewayInv /\ [GatewayNext]_gatewayVars => GatewayInv'
  <2> SUFFICES ASSUME GatewayInv, [GatewayNext]_gatewayVars
               PROVE  GatewayInv'
    BY Zenon
  <2>1. ASSUME NEW s \in Token, CreateKey(s)
        PROVE  GatewayInv'
    <3>1. /\ LookupOf[s] \in Lookup /\ keys' \in [Lookup -> KeyRow \cup {NoKey}]
      BY <2>1, Zenon DEF CreateKey, GatewayInv, Lookup, KeyRow
    <3>2. \A t \in Token : Revoked(t) \/ Live(t) => keys'[LookupOf[t]] = keys[LookupOf[t]]
      BY <2>1, <3>1, Zenon DEF CreateKey, GatewayInv, Revoked, Live, Lookup
    <3>3. \A t \in Token : /\ Revoked(t) => Revoked(t)'
                           /\ Live(t) => Live(t)' \/ Revoked(t)'
      BY <3>2, Zenon DEF Revoked, Live
    <3> QED BY <2>1, <3>1, <3>3, KeysStep, Zenon DEF CreateKey
  <2>2. ASSUME NEW l \in Lookup, RevokeKey(l)
        PROVE  GatewayInv'
    <3>1. /\ keys' \in [Lookup -> KeyRow \cup {NoKey}]
          /\ keys'[l].secret = keys[l].secret /\ keys'[l].revoked = TRUE
          /\ keys'[l] # NoKey
          /\ \A m \in Lookup \ {l} : keys'[m] = keys[m]
      BY <2>2, GatewayAssumption, Zenon DEF RevokeKey, GatewayInv, KeyRow
    <3>2. \A t \in Token : LookupOf[t] \in Lookup
      BY Zenon DEF Lookup
    <3>3. \A t \in Token : /\ Revoked(t) => Revoked(t)'
                           /\ Live(t) => Live(t)' \/ Revoked(t)'
      BY <2>2, <3>1, <3>2, Zenon DEF Revoked, Live
    <3> QED BY <2>2, <3>1, <3>3, KeysStep, Zenon DEF RevokeKey
  <2>3. ASSUME NEW c \in Caller, Arrive(c)
        PROVE  GatewayInv'
    <3>1. PICK s \in Token \cup {NoKey}, want \in {"read", "write"} :
            call' = [call EXCEPT ![c] =
              [stage |-> IF s = NoKey THEN "401" ELSE "find", secret |-> s,
               want |-> want, found |-> NoKey, live |-> s # NoKey /\ Live(s),
               dead |-> s # NoKey /\ Revoked(s)]]
      BY <2>3, Zenon DEF Arrive
    <3> DEFINE r == [stage |-> IF s = NoKey THEN "401" ELSE "find", secret |-> s,
                     want |-> want, found |-> NoKey, live |-> s # NoKey /\ Live(s),
                     dead |-> s # NoKey /\ Revoked(s)]
    <3>2. (s # NoKey /\ Live(s)) \in BOOLEAN /\ (s # NoKey /\ Revoked(s)) \in BOOLEAN
      BY Zenon DEF Live, Revoked
    <3>3. r \in Calls
      BY <3>2, Zenon DEF Calls
    <3>4. CallInv(r)
      BY <3>2, Zenon DEF CallInv
    <3> QED BY <2>3, <3>1, <3>3, <3>4, CallStep, Zenon DEF Arrive
  <2>4. ASSUME NEW c \in Caller, NEW x, Becomes(c, x), GatewayInv,
               x \in {"role", "handler", "401", "403", "429", "500"},
               CallInv([call[c] EXCEPT !.stage = x])
        PROVE  GatewayInv'
    <3>1. [call[c] EXCEPT !.stage = x] \in Calls
      BY <2>4, Zenon DEF GatewayInv, Calls
    <3>2. call' = [call EXCEPT ![c] = [call[c] EXCEPT !.stage = x]] /\ UNCHANGED keys
      BY <2>4, Zenon DEF Becomes
    <3> QED BY <2>4, <3>1, <3>2, CallStep, Zenon
  <2>5. ASSUME NEW c \in Caller, Authenticate(c)
        PROVE  GatewayInv'
    <3> DEFINE s == call[c].secret
               r == [call[c] EXCEPT !.stage = "limit", !.found = s]
    <3>1. call[c] \in Calls /\ CallInv(call[c]) /\ call[c].stage = "find" /\ s \in Token
      BY <2>5, Zenon DEF GatewayInv, Authenticate, CallInv
    <3>2. Authentic(s) <=> Live(s)
      BY Zenon DEF Authentic, Live
    <3>3. CASE Authentic(s)
      <4>1. call' = [call EXCEPT ![c] = r] /\ UNCHANGED keys
        BY <2>5, <3>3, Zenon DEF Authenticate, Authentic, Becomes, GatewayInv
      <4>2. r \in Calls
        BY <3>1, Zenon DEF Calls
      <4>3. ~ Revoked(s)
        BY <3>3, Zenon DEF Authentic, Revoked
      <4>4. CallInv(r)
        <5>1. /\ r.stage = "limit" /\ r.found = s /\ r.secret = s
              /\ r.live = call[c].live /\ r.dead = call[c].dead
          BY <3>1, Zenon DEF Calls
        <5> HIDE DEF r
        <5> QED BY <3>1, <4>3, <5>1, Zenon DEF CallInv
      <4> QED BY <4>1, <4>2, <4>4, CallStep, Zenon
    <3>4. CASE ~ Authentic(s)
      <4>1. Becomes(c, "401")
        BY <2>5, <3>4, Zenon DEF Authenticate
      <4>2. CallInv([call[c] EXCEPT !.stage = "401"])
        BY <3>1, <3>2, <3>4, Zenon DEF CallInv, Calls
      <4> QED BY <2>4, <4>1, <4>2, Zenon
    <3> QED BY <3>3, <3>4, Zenon
  <2>6. ASSUME NEW c \in Caller, StoreFails(c) \/ Admission(c) \/ RequireRole(c)
        PROVE  GatewayInv'
    <3>1. call[c] \in Calls /\ CallInv(call[c])
      BY Zenon DEF GatewayInv
    <3>2. CASE StoreFails(c)
      <4>1. CallInv([call[c] EXCEPT !.stage = "500"]) /\ Becomes(c, "500")
        BY <3>1, <3>2, Zenon DEF CallInv, Calls, StoreFails
      <4> QED BY <2>4, <4>1, Zenon
    <3>3. CASE Admission(c)
      <4>1. /\ CallInv([call[c] EXCEPT !.stage = "429"])
            /\ CallInv([call[c] EXCEPT !.stage = "role"])
            /\ Becomes(c, "429") \/ Becomes(c, "role")
        BY <3>1, <3>3, Zenon DEF CallInv, Calls, Admission
      <4> QED BY <2>4, <4>1, Zenon
    <3>4. CASE RequireRole(c)
      <4> DEFINE fits == AtLeast(RoleOf[call[c].found], call[c].want)
      <4>1. CASE fits
        <5>1. Becomes(c, "handler") /\ CallInv([call[c] EXCEPT !.stage = "handler"])
          BY <3>1, <3>4, <4>1, Zenon DEF CallInv, Calls, RequireRole
        <5> QED BY <2>4, <5>1, Zenon
      <4>2. CASE ~ fits
        <5>1. Becomes(c, "403") /\ CallInv([call[c] EXCEPT !.stage = "403"])
          BY <3>1, <3>4, <4>2, Zenon DEF CallInv, Calls, RequireRole
        <5> QED BY <2>4, <5>1, Zenon
      <4> QED BY <4>1, <4>2, Zenon
    <3> QED BY <2>6, <3>2, <3>3, <3>4, Zenon
  <2>7. ASSUME NEW c \in Caller, Answered(c)
        PROVE  GatewayInv'
    <3>1. Quiet \in Calls /\ CallInv(Quiet)
      BY Zenon DEF Quiet, Calls, CallInv
    <3> QED BY <2>7, <3>1, CallStep, Zenon DEF Answered
  <2>8. CASE UNCHANGED gatewayVars
    <3>1. \A s \in Token : Revoked(s)' = Revoked(s) /\ Live(s)' = Live(s)
      BY <2>8, Zenon DEF gatewayVars, Revoked, Live
    <3> QED BY <2>8, <3>1, KeysStep, Zenon DEF gatewayVars, GatewayInv
  <2> QED BY <2>1, <2>2, <2>3, <2>5, <2>6, <2>7, <2>8, Zenon DEF GatewayNext
<1> QED BY <1>1, <1>2, PTL DEF GatewaySpec

\* Only the owner of a key that was not revoked when the request arrived is
\* served, and within the key's role (ServedOnlyLive), for any keys and callers.
THEOREM ServedOnlyLiveCorrect == GatewaySpec => []ServedOnlyLive
<1>1. GatewayInv => ServedOnlyLive
  BY Zenon DEF GatewayInv, CallInv, ServedOnlyLive
<1> QED BY <1>1, GatewayInvariant, PTL

\* Nobody whose key is live throughout is turned away as unknown
\* (UnknownOnlyIfRevoked), for any keys and callers.
THEOREM UnknownOnlyIfRevokedCorrect == GatewaySpec => []UnknownOnlyIfRevoked
<1>1. GatewayInv => UnknownOnlyIfRevoked
  BY Zenon DEF GatewayInv, CallInv, UnknownOnlyIfRevoked
<1> QED BY <1>1, GatewayInvariant, PTL

-----------------------------------------------------------------------------
(* Signing *)

\* Every secret that is active, the consumer's among them, is one the post was
\* signed with or was created since its secrets were loaded; and the clocks and
\* the time on the way leave the timestamp within the tolerance.
SigningInv ==
  /\ secretState \in [Secret -> {"none", "active", "retired"}]
  /\ held \in Secret /\ secretState[held] = "active"
  /\ skew \in -Skew .. Skew
  /\ phase \in 0 .. Second - 1
  /\ post \in [stage : {"none", "due", "loaded", "sent", "accepted", "rejected"},
               keys : SUBSET Secret, age : 0 .. Transit, phase : 0 .. Second - 1,
               since : SUBSET Secret]
  /\ post.stage \in {"loaded", "sent"} => ActiveSecrets \subseteq post.keys \cup post.since

\* No step of the worker or the consumer but loading the secrets forgets any.
LEMMA PostStep ==
  ASSUME SigningInv, UNCHANGED << secretState, held, skew, phase >>,
         NEW x \in {"due", "sent", "accepted", "rejected"},
         NEW g \in 0 .. Transit, NEW h \in 0 .. Second - 1,
         post' = [post EXCEPT !.stage = x, !.age = g, !.phase = h],
         x = "sent" => post.stage \in {"loaded", "sent"}
  PROVE  SigningInv'
  BY Zenon DEF SigningInv, ActiveSecrets

\* The invariant of the rotation holds in every reachable state.
LEMMA SigningInductive == SigningSpec => []SigningInv
<1>1. SigningInit => SigningInv
  BY SigningAssumption DEF SigningInit, SigningInv, ActiveSecrets
<1>2. SigningInv /\ [SigningNext]_signingVars => SigningInv'
  <2> SUFFICES ASSUME SigningInv, [SigningNext]_signingVars
               PROVE  SigningInv'
    BY Zenon
  <2>0. post.age \in 0 .. Transit /\ post.phase \in 0 .. Second - 1 /\ 0 \in 0 .. Transit
    BY SigningAssumption DEF SigningInv
  <2>1. CASE Rotate
    BY <2>1 DEF Rotate, CreateSecret, MoveTo, RetireSecret, SigningInv, ActiveSecrets
  <2>2. CASE LoadSecrets
    BY <2>2, Zenon DEF LoadSecrets, SigningInv, ActiveSecrets
  <2>3. CASE Sign
    <3>1. post' = [post EXCEPT !.stage = "sent", !.age = 0, !.phase = phase]
      BY <2>3, Zenon DEF Sign
    <3> QED BY <2>0, <2>3, <3>1, PostStep, Zenon DEF Sign, SigningInv
  <2>4. CASE Enqueue \/ Accept \/ Reject \/ Retry \/ TimeOut
    <3>1. PICK x \in {"due", "accepted", "rejected"} : post' = [post EXCEPT !.stage = x]
      BY <2>4, Zenon DEF Enqueue, Accept, Reject, Retry, TimeOut, Again
    <3>2. post' = [post EXCEPT !.stage = x, !.age = post.age, !.phase = post.phase]
      BY <3>1, Zenon DEF SigningInv
    <3> QED BY <2>0, <2>4, <3>2, PostStep, Zenon DEF Enqueue, Accept, Reject, Retry, TimeOut
  <2>5. CASE SecondsPass
    <3>1. (phase + 1) % Second \in 0 .. Second - 1
      BY SigningAssumption DEF SigningInv
    <3>2. post.stage = "sent" => post.age + 1 \in 0 .. Transit
      BY <2>0, <2>5, SigningAssumption DEF SecondsPass
    <3> QED BY <2>5, <3>1, <3>2, Zenon DEF SecondsPass, SigningInv, ActiveSecrets
  <2>6. CASE UNCHANGED signingVars
    BY <2>6, Zenon DEF signingVars, SigningInv, ActiveSecrets
  <2> QED BY <2>1, <2>2, <2>3, <2>4, <2>5, <2>6, Zenon DEF SigningNext, Deliver
<1> QED BY <1>1, <1>2, PTL DEF SigningSpec

\* The consumer rejects a post only if it verifies with a secret created since.
LEMMA RejectOvertaken ==
  ASSUME SigningInv, Reject
  PROVE  held \in post.since
<1>1. post.stage = "sent" /\ ~ (InTime /\ Matches)
  BY Zenon DEF Reject
<1>2. InTime
  BY SigningAssumption DEF InTime, Apart, SigningInv
<1>3. held \notin post.keys
  BY <1>1, <1>2, Zenon DEF Matches
<1> QED BY <1>1, <1>3, Zenon DEF SigningInv, ActiveSecrets

\* A delivery is rejected only when a rotation has overtaken it, for any number
\* of rotations, and any skew, transit time and tolerance that fit together.
THEOREM SigningCorrect == SigningSpec => RejectedOnlyIfOvertaken
<1>1. SigningInv /\ [SigningNext]_signingVars =>
        [post.stage = "sent" /\ post'.stage = "rejected" => held \in post.since]_signingVars
  <2> SUFFICES ASSUME SigningInv, SigningNext, post.stage = "sent", post'.stage = "rejected"
               PROVE  held \in post.since
    BY Zenon DEF signingVars
  <2>1. Reject
    BY Zenon DEF SigningNext, Rotate, CreateSecret, MoveTo, RetireSecret, Enqueue, Deliver,
           LoadSecrets, Sign, Accept, Retry, TimeOut, SecondsPass, Again, SigningInv
  <2> QED BY <2>1, RejectOvertaken, Zenon
<1> QED BY <1>1, SigningInductive, PTL DEF SigningSpec, RejectedOnlyIfOvertaken

-----------------------------------------------------------------------------
(* Signing: what a rotation costs *)

INSTANCE Sums

\* The secrets that have been created.
Existing == {s \in Secret : secretState[s] # "none"}

\* Every rejected attempt is paid for by a secret of its own.  Those created while
\* a post is on its way are not yet spent, which is what a rejection draws on.
SpentInv ==
  /\ IsFiniteSet(Existing)
  /\ post.since \subseteq Existing
  /\ spent \in Nat
  /\ post.stage \in {"loaded", "sent"} => spent < Cardinality(Existing \ post.since)
  /\ spent < Cardinality(Existing)

\* A new secret is not one that a post in flight was signed with.
LEMMA CreateKeepsSpent ==
  ASSUME SigningInv, SpentInv, NEW s \in Secret, CreateSecret(s)
  PROVE  SpentInv'
<1>1. s \notin Existing /\ Existing' = Existing \cup {s}
  BY Zenon DEF CreateSecret, SigningInv, Existing
<1>2. /\ post'.stage = post.stage /\ post'.since = post.since \cup {s}
      /\ spent' = spent
  BY Zenon DEF CreateSecret, SigningInv
<1>3. IsFiniteSet(Existing)'
  BY <1>1, FiniteAdd, Zenon DEF SpentInv
<1>4. Cardinality(Existing) \in Nat /\ Cardinality(Existing') = Cardinality(Existing) + 1
  BY <1>1, CardinalityAdd, Zenon DEF SpentInv
<1>5. (Existing \ post.since)' = Existing \ post.since
  BY <1>1, <1>2, Zenon
<1>6. spent \in Nat /\ spent < Cardinality(Existing)
  BY Zenon DEF SpentInv
<1>7. spent < Cardinality(Existing')
  BY <1>4, <1>6
<1> QED BY <1>1, <1>2, <1>3, <1>5, <1>7, Zenon DEF SpentInv

\* A rejection spends one more attempt, and the secret it is due to.
LEMMA RejectKeepsSpent ==
  ASSUME SigningInv, SpentInv, Reject
  PROVE  SpentInv'
<1> DEFINE Old == Existing \ post.since
           Rest == Existing \ {held}
<1>1. held \in post.since /\ held \in Existing
  BY RejectOvertaken, Zenon DEF SpentInv
<1>2. /\ Existing' = Existing /\ post'.since = post.since
      /\ post'.stage = "rejected" /\ spent' = spent + 1
  BY Zenon DEF Reject, SigningInv, Existing
<1>3. IsFiniteSet(Rest) /\ Old \in SUBSET Rest /\ Existing = Rest \cup {held}
  BY <1>1, FinitePart, Zenon DEF SpentInv
<1>4. Cardinality(Old) \in Nat /\ Cardinality(Old) <= Cardinality(Rest)
  BY <1>3, CardinalityPart, Zenon
<1>5. /\ Cardinality(Rest) \in Nat
      /\ Cardinality(Existing) = Cardinality(Rest) + 1
  <2>1. held \notin Rest
    OBVIOUS
  <2> HIDE DEF Rest
  <2> QED BY <1>3, <2>1, CardinalityAdd, Zenon
<1>6. spent \in Nat /\ spent < Cardinality(Old)
  BY Zenon DEF SpentInv, Reject
<1>7. spent + 1 \in Nat /\ spent + 1 < Cardinality(Existing)
  BY <1>4, <1>5, <1>6
<1> QED BY <1>2, <1>7, Zenon DEF SpentInv

\* A rotation costs a delivery at most one attempt, for any number of rotations.
THEOREM OneAttemptCorrect == SigningSpec => []OneAttemptPerRotation
<1>1. SigningInit => SpentInv
  <2> SUFFICES ASSUME SigningInit PROVE SpentInv
    BY Zenon
  <2>1. Existing = {} \cup {First} /\ post.since = {} /\ post.stage = "none" /\ spent = 0
    BY SigningAssumption DEF SigningInit, Existing
  <2>2. IsFiniteSet({}) /\ IsFiniteSet({} \cup {First})
    BY FiniteNone, FiniteAdd, Zenon
  <2>3. Cardinality({}) \in Nat /\ Cardinality({} \cup {First}) = Cardinality({}) + 1
    BY <2>2, CardinalityAdd, Zenon
  <2>4. 0 < Cardinality({} \cup {First}) /\ 0 \in Nat
    BY <2>3
  <2>5. "none" \notin {"loaded", "sent"}
    OBVIOUS
  <2> QED BY <2>1, <2>2, <2>4, <2>5, Zenon DEF SpentInv
<1>2. SigningInv /\ SpentInv /\ [SigningNext]_signingVars => SpentInv'
  <2> SUFFICES ASSUME SigningInv, SpentInv, [SigningNext]_signingVars
               PROVE  SpentInv'
    BY Zenon
  <2>1. ASSUME NEW s \in Secret, MoveTo(s) \/ RetireSecret(s)
        PROVE  SpentInv'
    <3>1. Existing' = Existing /\ post' = post /\ spent' = spent
      BY <2>1, Zenon DEF MoveTo, RetireSecret, Existing, SigningInv
    <3> QED BY <3>1, Zenon DEF SpentInv
  <2>2. CASE LoadSecrets
    <3>1. /\ Existing' = Existing /\ post'.since = {} /\ spent' = spent
          /\ (Existing \ post.since)' = Existing
      BY <2>2, Zenon DEF LoadSecrets, Existing, SigningInv
    <3> QED BY <3>1, Zenon DEF SpentInv
  <2>3. CASE Sign \/ SecondsPass \/ Enqueue \/ Accept \/ Retry \/ TimeOut
    <3>1. /\ Existing' = Existing /\ post'.since = post.since /\ spent' = spent
          /\ post'.stage \in {post.stage, "due", "accepted"} \/ post.stage = "loaded"
      BY <2>3, Zenon DEF Sign, SecondsPass, Enqueue, Accept, Retry, TimeOut, Again,
        Existing, SigningInv
    <3>2. "due" \notin {"loaded", "sent"} /\ "accepted" \notin {"loaded", "sent"}
      OBVIOUS
    <3> QED BY <3>1, <3>2, Zenon DEF SpentInv
  <2>4. CASE UNCHANGED signingVars
    BY <2>4, Zenon DEF signingVars, SpentInv, Existing
  <2> QED BY <2>1, <2>2, <2>3, <2>4, CreateKeepsSpent, RejectKeepsSpent, Zenon
        DEF SigningNext, Rotate, Deliver
<1>3. SpentInv => OneAttemptPerRotation
  BY Zenon DEF SpentInv, OneAttemptPerRotation, Existing
<1> QED BY <1>1, <1>2, <1>3, SigningInductive, PTL DEF SigningSpec

-----------------------------------------------------------------------------
(* RateLimiter: what a refusal means *)

\* The requests of k admitted in the last j ticks.
Newest(k, j) == SumFunctionOnSet(recent[k], 0 .. j - 1)

\* Whatever the last j ticks brought a caller is in its bucket or was spent on
\* requests admitted in them.
RecentInv ==
  /\ recent \in [ApiKey -> [0 .. Minute - 1 -> Nat]]
  /\ \A k \in ApiKey : \A j \in 0 .. Minute :
       PerMin * j <= Level(k) + Minute * Newest(k, j)
  /\ RefusedOnlyOverRate

\* There are finitely many ages below j.
LEMMA AgesFinite == ASSUME NEW j \in Nat PROVE IsFiniteSet(0 .. j - 1)
<1>1. IsFiniteSet((1 .. j) \cup {0})
  BY FiniteDomain, FiniteAdd, Zenon
<1>2. 0 .. j - 1 \in SUBSET ((1 .. j) \cup {0})
  OBVIOUS
<1> QED BY <1>1, <1>2, FinitePart, Zenon

\* The requests admitted of late are counted by a natural number.
LEMMA NewestType ==
  ASSUME NEW f \in [0 .. Minute - 1 -> Nat], NEW j \in 0 .. Minute
  PROVE  SumFunctionOnSet(f, 0 .. j - 1) \in Nat
<1>1. IsFiniteSet(0 .. j - 1)
  BY AgesFinite, LimiterAssumption
<1>2. \A x \in 0 .. j - 1 : f[x] \in Nat
  BY LimiterAssumption
<1> QED BY <1>1, <1>2, SumNotNegative, Zenon

\* One more request of age 0 is one more in every stretch that is not empty.
LEMMA NewestAdmitted ==
  ASSUME NEW f \in [0 .. Minute - 1 -> Nat], NEW j \in 1 .. Minute
  PROVE  SumFunctionOnSet([f EXCEPT ![0] = @ + 1], 0 .. j - 1) =
           SumFunctionOnSet(f, 0 .. j - 1) + 1
<1> DEFINE g == [f EXCEPT ![0] = @ + 1]
           S == 1 .. j - 1
<1>1. /\ 0 .. j - 1 = S \cup {0} /\ 0 \notin S
      /\ 0 .. j - 1 \subseteq 0 .. Minute - 1 /\ 0 \in 0 .. Minute - 1
      /\ j \in Nat /\ S \in SUBSET (0 .. j - 1)
  BY LimiterAssumption
<1>2. IsFiniteSet(S)
  BY <1>1, AgesFinite, FinitePart, Zenon
<1>3. f[0] \in Nat /\ g[0] = f[0] + 1
  BY <1>1
<1>4. \A x \in S : f[x] = g[x]
  BY <1>1
<1>5. \A x \in S \cup {0} : f[x] \in Int
  BY <1>1
<1>6. \A x \in S \cup {0} : g[x] \in Int
  BY <1>1
<1>7. 0 .. j - 1 = S \cup {0} /\ 0 \notin S
  BY <1>1, Zenon
<1> HIDE DEF g, S
<1>8. SumFunctionOnSet(f, S) = SumFunctionOnSet(g, S)
  BY <1>2, <1>4, SumSame, Zenon
<1>9. SumFunctionOnSet(f, S) \in Int
  BY <1>2, <1>5, SumType, Zenon
<1>10. SumFunctionOnSet(f, S \cup {0}) = SumFunctionOnSet(f, S) + f[0]
  BY <1>2, <1>5, <1>7, SumAdd, Zenon
<1>11. SumFunctionOnSet(g, S \cup {0}) = SumFunctionOnSet(g, S) + g[0]
  BY <1>2, <1>6, <1>7, SumAdd, Zenon
<1>12. SumFunctionOnSet(g, S \cup {0}) = SumFunctionOnSet(f, S \cup {0}) + 1
  BY <1>3, <1>8, <1>9, <1>10, <1>11
<1> QED BY <1>7, <1>12, Zenon DEF g

\* g is f a tick later.
Shifted(f, g) ==
  /\ f \in [0 .. Minute - 1 -> Nat] /\ g \in [0 .. Minute - 1 -> Nat]
  /\ \A x \in 0 .. Minute - 1 : g[x] = IF x = 0 THEN 0 ELSE f[x - 1]

\* A tick later the same requests are in a stretch one tick longer.
LEMMA NewestShifted ==
  ASSUME NEW f, NEW g, Shifted(f, g), NEW j \in 0 .. Minute - 1
  PROVE  SumFunctionOnSet(g, 0 .. j) = SumFunctionOnSet(f, 0 .. j - 1)
<1> DEFINE S == 0 .. j - 1
           R == 1 .. j
           r == [x \in S |-> x + 1]
<1>1. /\ 0 .. j = R \cup {0} /\ 0 \notin R /\ j \in Nat
      /\ \A x \in S : x \in 0 .. Minute - 1 /\ x + 1 \in 1 .. Minute - 1 /\ (x + 1) - 1 = x
      /\ \A x \in 0 .. j : x \in 0 .. Minute - 1
  BY LimiterAssumption
<1>2. IsFiniteSet(S)
  BY <1>1, AgesFinite, Zenon
<1>3. OneToOne(r, S, R)
  <2>1. \A x \in S, y \in S : r[x] = r[y] => x = y
    BY <1>1
  <2>2. R = {r[x] : x \in S}
    <3>1. ASSUME NEW y \in R PROVE \E x \in S : y = r[x]
      <4>1. y - 1 \in S /\ r[y - 1] = y
        BY <1>1
      <4> QED BY <4>1, Zenon
    <3>2. \A x \in S : r[x] \in R
      BY <1>1
    <3> HIDE DEF R, S, r
    <3> QED BY <3>1, <3>2, Zenon
  <2> QED BY <2>1, <2>2, Zenon DEF OneToOne
<1>4. Carries(r, S, f, g)
  <2>1. \A x \in S : f[x] \in Int /\ r[x] = x + 1
    BY <1>1 DEF Shifted
  <2>2. \A x \in S : g[x + 1] = f[x]
    BY <1>1 DEF Shifted
  <2> QED BY <2>1, <2>2, Zenon DEF Carries
<1>5. g[0] = 0
  BY <1>1 DEF Shifted
<1>6. \A x \in R \cup {0} : g[x] \in Int
  <2>1. \A x \in 0 .. j : g[x] \in Int
    BY <1>1 DEF Shifted
  <2> QED BY <1>1, <2>1, Zenon
<1>7. 0 .. j = R \cup {0} /\ 0 \notin R
  BY <1>1, Zenon
<1> HIDE DEF S, R, r
<1>8. IsFiniteSet(R) /\ SumFunctionOnSet(g, R) = SumFunctionOnSet(f, S)
  BY <1>2, <1>3, <1>4, SumImage
<1>9. SumFunctionOnSet(g, R \cup {0}) = SumFunctionOnSet(g, R) + g[0]
  BY <1>6, <1>7, <1>8, SumAdd, Zenon
<1>10. SumFunctionOnSet(g, R) \in Int
  BY <1>6, <1>8, SumType, Zenon
<1>11. SumFunctionOnSet(g, R \cup {0}) = SumFunctionOnSet(f, S)
  BY <1>5, <1>8, <1>9, <1>10
<1> QED BY <1>7, <1>11, Zenon DEF S

\* A request that is admitted is taken from the bucket and counted in every
\* stretch that reaches up to now.
LEMMA AdmitKeepsRecent ==
  ASSUME LimiterInv, RecentInv, NEW k \in ApiKey, Admit(k)
  PROVE  RecentInv'
<1>1. /\ recent \in [ApiKey -> [0 .. Minute - 1 -> Nat]]
      /\ recent' = [recent EXCEPT ![k] = [recent[k] EXCEPT ![0] = @ + 1]]
      /\ refused' = refused
  BY Zenon DEF RecentInv, Admit
<1>2. 0 \in 0 .. Minute - 1
  BY LimiterAssumption
<1>3. recent' \in [ApiKey -> [0 .. Minute - 1 -> Nat]]
  <2>1. [recent[k] EXCEPT ![0] = @ + 1] \in [0 .. Minute - 1 -> Nat]
    <3>1. recent[k] \in [0 .. Minute - 1 -> Nat] /\ recent[k][0] \in Nat
      BY <1>1, <1>2, Zenon
    <3>2. recent[k][0] + 1 \in Nat
      BY <3>1
    <3> QED BY <3>1, <3>2, Zenon
  <2> QED BY <1>1, <2>1, Zenon
<1>4. ASSUME NEW i \in ApiKey, NEW j \in 0 .. Minute
      PROVE  PerMin * j <= Level(i)' + Minute * Newest(i, j)'
  <2>1. PerMin * j <= Level(i) + Minute * Newest(i, j)
    BY Zenon DEF RecentInv
  <2>2. CASE i # k
    <3>1. recent'[i] = recent[i] /\ Level(i)' = Level(i)
      BY <1>1, <2>2, AdmitSpends, Zenon
    <3> QED BY <2>1, <3>1, Zenon DEF Newest
  <2>3. CASE i = k /\ j = 0
    <3>1. Newest(i, j)' \in Nat
      BY <1>3, NewestType, Zenon DEF Newest
    <3>2. Level(i)' = Level(i) - Minute /\ Level(i) >= Minute /\ Level(i) \in Nat
      BY <2>3, AdmitSpends, LevelType, Zenon DEF Admit
    <3> HIDE DEF Level, Newest
    <3> QED BY <2>3, <3>1, <3>2, LimiterAssumption
  <2>4. CASE i = k /\ j # 0
    <3>1. Newest(i, j)' = Newest(i, j) + 1
      <4>1. j \in 1 .. Minute
        BY <2>4
      <4>2. recent[k] \in [0 .. Minute - 1 -> Nat]
        BY <1>1, Zenon
      <4>3. recent'[k] = [recent[k] EXCEPT ![0] = @ + 1]
        BY <1>1, Zenon
      <4> QED BY <2>4, <4>1, <4>2, <4>3, NewestAdmitted, Zenon DEF Newest
    <3>2. Level(i)' = Level(i) - Minute /\ Level(i) \in Nat /\ Newest(i, j) \in Nat
      BY <1>1, <2>4, AdmitSpends, LevelType, NewestType, Zenon DEF Newest
    <3>3. Minute * (Newest(i, j) + 1) = Minute * Newest(i, j) + Minute
      BY <3>2, LimiterAssumption
    <3>4. Minute * Newest(i, j) \in Nat /\ PerMin * j \in Nat /\ Minute \in Nat
      BY <3>2, LimiterAssumption
    <3> HIDE DEF Level, Newest
    <3> QED BY <2>1, <3>1, <3>2, <3>3, <3>4
  <2> QED BY <2>2, <2>3, <2>4, Zenon
<1> QED BY <1>1, <1>3, <1>4, Zenon DEF RecentInv, RefusedOnlyOverRate

\* A caller whose bucket has no token has spent a minute's worth of them.
LEMMA DenyKeepsRecent ==
  ASSUME LimiterInv, RecentInv, NEW k \in ApiKey, Deny(k)
  PROVE  RecentInv'
<1>1. recent' = recent /\ refused' = [key |-> k, spent |-> InLastMinute(k)]
  BY Zenon DEF Deny
<1>2. InLastMinute(k) = Newest(k, Minute)
  BY Zenon DEF InLastMinute, Newest
<1>3. Minute \in 0 .. Minute /\ Minute \in Nat \ {0} /\ PerMin \in Nat
  BY LimiterAssumption
<1>4. Newest(k, Minute) \in Nat /\ Level(k) \in Nat
  BY <1>3, NewestType, LevelType, Zenon DEF RecentInv, Newest
<1>5. PerMin * Minute <= Level(k) + Minute * Newest(k, Minute) /\ Level(k) < Minute
  BY <1>3, Zenon DEF RecentInv, Deny
<1>6. \A n \in Nat : n >= PerMin \/ Minute * n + Minute <= PerMin * Minute
  <2> SUFFICES ASSUME NEW n \in Nat, ~(n >= PerMin)
               PROVE  Minute * n + Minute <= PerMin * Minute
    BY Zenon
  <2>1. PICK d \in Nat : PerMin = n + 1 + d
    <3>1. PerMin - n - 1 \in Nat /\ PerMin = n + 1 + (PerMin - n - 1)
      BY <1>3
    <3> QED BY <3>1, Zenon
  <2>2. (n + 1 + d) * Minute = Minute * n + Minute + d * Minute /\ d * Minute \in Nat
    BY <1>3
  <2> QED BY <1>3, <2>1, <2>2
<1>7. Newest(k, Minute) >= PerMin
  <2>1. Minute * Newest(k, Minute) \in Nat /\ PerMin * Minute \in Nat
    BY <1>3, <1>4
  <2> HIDE DEF Level, Newest
  <2> QED BY <1>3, <1>4, <1>5, <1>6, <2>1
<1>8. \A i \in ApiKey : Level(i)' = Level(i)
  BY DenyKeepsLevel, Zenon
<1>9. RefusedOnlyOverRate'
  BY <1>1, <1>2, <1>7, Zenon DEF RefusedOnlyOverRate
<1> QED BY <1>1, <1>8, <1>9, Zenon DEF RecentInv, Newest

\* A tick brings every stretch its units: into the bucket, unless it is full.
LEMMA TickKeepsRecent ==
  ASSUME LimiterInv, RecentInv, Tick
  PROVE  RecentInv'
<1>1. refused' = refused /\ recent' \in [ApiKey -> [0 .. Minute - 1 -> Nat]]
  BY LimiterAssumption DEF RecentInv, Tick
<1>2. ASSUME NEW k \in ApiKey, NEW j \in 0 .. Minute
      PROVE  PerMin * j <= Level(k)' + Minute * Newest(k, j)'
  <2>1. /\ PerMin \in Nat /\ Minute \in Nat /\ Full \in Nat
        /\ Level(k) \in Nat /\ Level(k)' \in Nat /\ Newest(k, j)' \in Nat
    <3>1. Newest(k, j)' \in Nat
      BY <1>1, NewestType, Zenon DEF Newest
    <3> QED BY <3>1, LevelType, TickRefills, LimiterAssumption
  <2>2. Minute * Newest(k, j)' \in Nat /\ PerMin * j \in Nat /\ PerMin * j <= Full
    BY <2>1 DEF Full
  <2>3. CASE j = 0
    <3>1. PerMin * j = 0
      BY <2>1, <2>3
    <3> HIDE DEF Level, Newest
    <3> QED BY <2>1, <2>2, <3>1
  <2>4. CASE Level(k)' = Full
    <3> HIDE DEF Level, Newest, Full
    <3> QED BY <2>1, <2>2, <2>4
  <2>5. CASE j # 0 /\ Level(k)' = Level(k) + PerMin
    <3>1. j - 1 \in 0 .. Minute /\ j - 1 \in 0 .. Minute - 1 /\ (j - 1) - 1 \in Int
      BY <2>1, <2>5
    <3>2. Shifted(recent[k], recent'[k])
      BY <1>1, Zenon DEF RecentInv, Shifted, Tick
    <3>3. SumFunctionOnSet(recent'[k], 0 .. j - 1) = Newest(k, j - 1)
      BY <3>1, <3>2, NewestShifted, Zenon DEF Newest
    <3>4. Newest(k, j)' = Newest(k, j - 1)
      BY <3>3, Zenon DEF Newest
    <3>5. PerMin * (j - 1) <= Level(k) + Minute * Newest(k, j - 1)
      BY <3>1, Zenon DEF RecentInv
    <3>6. PerMin * j = PerMin * (j - 1) + PerMin /\ PerMin * (j - 1) \in Int
      BY <2>1
    <3> HIDE DEF Level, Newest
    <3> QED BY <2>1, <2>2, <2>5, <3>4, <3>5, <3>6
  <2> QED BY <2>3, <2>4, <2>5, TickRefills, Zenon
<1> QED BY <1>1, <1>2, Zenon DEF RecentInv, RefusedOnlyOverRate

\* A caller is refused only when it has used its allowance of the last minute,
\* for every rate, minute, idle age and set of callers.
THEOREM RefusedCorrect == LimiterSpec => []RefusedOnlyOverRate
<1>1. LimiterInit => RecentInv
  <2> SUFFICES ASSUME LimiterInit PROVE RecentInv
    BY Zenon
  <2>1. recent \in [ApiKey -> [0 .. Minute - 1 -> Nat]] /\ refused = NoBucket
    BY DEF LimiterInit
  <2>2. ASSUME NEW k \in ApiKey, NEW j \in 0 .. Minute
        PROVE  PerMin * j <= Level(k) + Minute * Newest(k, j)
    <3>1. Newest(k, j) \in Nat
      BY <2>1, NewestType, Zenon DEF Newest
    <3>2. Level(k) = Full
      BY Zenon DEF LimiterInit, Level
    <3>3. PerMin * j <= Full /\ PerMin * j \in Nat /\ Full \in Nat
      BY LimiterAssumption DEF Full
    <3>4. Minute * Newest(k, j) \in Nat
      BY <3>1, LimiterAssumption
    <3> HIDE DEF Level, Newest, Full
    <3> QED BY <3>2, <3>3, <3>4
  <2> QED BY <2>1, <2>2, Zenon DEF RecentInv, RefusedOnlyOverRate
<1>2. LimiterInv /\ RecentInv /\ [LimiterNext]_limiterVars => RecentInv'
  <2> SUFFICES ASSUME LimiterInv, RecentInv, [LimiterNext]_limiterVars
               PROVE  RecentInv'
    BY Zenon
  <2>1. CASE Sweep
    <3>1. \A k \in ApiKey : Level(k)' = Level(k)
      BY <2>1, SweepKeepsLevel, Zenon
    <3>2. recent' = recent /\ refused' = refused
      BY <2>1, Zenon DEF Sweep
    <3> QED BY <3>1, <3>2, Zenon DEF RecentInv, RefusedOnlyOverRate, Newest
  <2>2. CASE (\E k \in ApiKey : Observe(k)) \/ UNCHANGED limiterVars
    <3>1. recent' = recent /\ refused' = refused /\ bucket' = bucket
      BY <2>2, Zenon DEF Observe, limiterVars
    <3>2. \A k \in ApiKey : Level(k)' = Level(k)
      BY <3>1, LevelKept, Zenon
    <3> QED BY <3>1, <3>2, Zenon DEF RecentInv, RefusedOnlyOverRate, Newest
  <2> QED BY <2>1, <2>2, AdmitKeepsRecent, DenyKeepsRecent, TickKeepsRecent, Zenon
        DEF LimiterNext
<1>3. RecentInv => RefusedOnlyOverRate
  BY Zenon DEF RecentInv
<1> QED BY <1>1, <1>2, <1>3, LimiterInductive, PTL DEF LimiterSpec

-----------------------------------------------------------------------------
(* Reconciler *)

\* The last entry of a finite set of entries.
LEMMA LastEntry ==
  ASSUME NEW E, IsFiniteSet(E), E # {}, \A e \in E : e.id \in Int
  PROVE  \E e \in E : \A g \in E : g.id <= e.id
<1> DEFINE Last(T) == \E e \in T : \A g \in T : g.id <= e.id
           G == {T \in SUBSET E : T # {} => Last(T)}
<1>1. {} \in G
  OBVIOUS
<1>2. ASSUME NEW T \in SUBSET E, NEW x \in E, T \in G, x \notin T
      PROVE  T \cup {x} \in G
  <2>1. CASE T = {}
    <3>1. Last(T \cup {x})
      BY <2>1
    <3> QED BY <3>1
  <2>2. CASE T # {}
    <3>1. PICK e \in T : \A g \in T : g.id <= e.id
      BY <1>2, <2>2, Zenon
    <3>2. CASE x.id <= e.id
      <4>1. \A g \in T \cup {x} : g.id <= e.id
        BY <3>1, <3>2
      <4> QED BY <4>1
    <3>3. CASE ~ (x.id <= e.id)
      <4>1. \A g \in T \cup {x} : g.id <= x.id
        BY <3>1, <3>3
      <4> QED BY <4>1
    <3> QED BY <3>2, <3>3, Zenon
  <2> QED BY <2>1, <2>2, Zenon
<1>3. E \in G
  <2> HIDE DEF G
  <2> QED BY <1>1, <1>2, ElementInduction
<1> QED BY <1>3, Zenon

\* A chain without its last entry ends at what the last entry but one carries.
LEMMA ChainWithoutLast ==
  ASSUME NEW E, NEW b, NEW l, Chain(E, b, l), \A e \in E : e.id \in Int,
         NEW x \in E, \A g \in E : g.id <= x.id,
         NEW y \in E \ {x}, \A g \in E \ {x} : g.id <= y.id
  PROVE  Chain(E \ {x}, b, y.after) /\ l = y.after + PostedDelta(x)
<1> DEFINE U == E \ {x}
<1>1. \A e \in U : e.id < x.id
  <2>1. \A e \in U : e.id # x.id
    BY Zenon DEF Chain
  <2> QED BY <2>1
<1>2. \A e, f \in U : e.id = f.id => e = f
  BY Zenon DEF Chain
<1>3. ASSUME NEW f \in U, \A g \in U : f.id <= g.id PROVE f.after = b + PostedDelta(f)
  <2>1. \A g \in E : f.id <= g.id
    BY <1>1, <1>3
  <2> QED BY <2>1, Zenon DEF Chain
<1>4. ASSUME NEW e \in U, NEW f \in U, Precedes(e, f, U)
      PROVE  f.after = e.after + PostedDelta(f)
  <2>1. Precedes(e, f, E)
    BY <1>1, <1>4 DEF Precedes
  <2> QED BY <2>1, Zenon DEF Chain
<1>5. ASSUME NEW e \in U, \A g \in U : g.id <= e.id PROVE e.after = y.after
  <2>1. e.id = y.id
    BY <1>5
  <2> QED BY <1>2, <2>1, Zenon
<1>6. Precedes(y, x, E)
  BY <1>1 DEF Precedes
<1>7. x.after = l /\ x.after = y.after + PostedDelta(x)
  BY <1>6, Zenon DEF Chain
<1> HIDE DEF U
<1>8. Chain(U, b, y.after)
  <2>1. y \in U /\ \A g \in U : g.id <= y.id
    BY DEF U
  <2> QED BY <1>2, <1>3, <1>4, <1>5, <2>1, Zenon DEF Chain
<1> QED BY <1>7, <1>8, Zenon DEF U

\* A chain ends at its base plus what its entries add.
LEMMA ChainTotal ==
  ASSUME NEW E, IsFiniteSet(E), NEW f, \A e \in E : e.id \in Int,
         \A e \in E : f[e] = PostedDelta(e) /\ PostedDelta(e) \in Int,
         NEW b \in Int, NEW l, Chain(E, b, l)
  PROVE  l = b + SumFunctionOnSet(f, E)
<1> DEFINE Sum(T) == SumFunctionOnSet(f, T)
           G == {T \in SUBSET E : \A k : Chain(T, b, k) => k = b + Sum(T)}
<1>1. ASSUME NEW T \in SUBSET E, \A U \in SUBSET T : U # T => U \in G
      PROVE  T \in G
  <2> SUFFICES ASSUME NEW k, Chain(T, b, k) PROVE k = b + Sum(T)
    BY Zenon
  <2>1. CASE T = {}
    <3>1. k = b
      BY <2>1, Zenon DEF Chain
    <3> QED BY <2>1, <3>1, SumOfNone
  <2>2. CASE T # {}
    <3>1. PICK x \in T : \A g \in T : g.id <= x.id
      BY <2>2, Zenon DEF Chain
    <3> DEFINE U == T \ {x}
    <3>2. /\ IsFiniteSet(U) /\ U \in SUBSET T /\ U \in SUBSET E /\ U # T
          /\ x \notin U /\ T = U \cup {x} /\ x \in E
      BY FinitePart
    <3>3. Sum(T) = Sum(U) + f[x] /\ Sum(U) \in Int /\ f[x] \in Int
      <4>1. \A e \in U \cup {x} : f[e] \in Int
        BY <3>2
      <4>2. \A e \in U : f[e] \in Int
        BY <4>1
      <4> HIDE DEF U
      <4>3. SumFunctionOnSet(f, U \cup {x}) = SumFunctionOnSet(f, U) + f[x]
        BY <3>2, <4>1, SumAdd, Zenon
      <4>4. SumFunctionOnSet(f, U) \in Int
        BY <3>2, <4>2, SumType, Zenon
      <4>5. f[x] \in Int
        BY <4>1
      <4> QED BY <3>2, <4>3, <4>4, <4>5, Zenon
    <3>4. f[x] = PostedDelta(x)
      BY <3>2, Zenon
    <3>5. CASE U = {}
      <4>1. \A g \in T : x.id <= g.id
        BY <3>1, <3>5
      <4>2. k = b + f[x]
        BY <3>1, <3>4, <4>1, Zenon DEF Chain
      <4>3. Sum(U) = 0
        BY <3>5, SumOfNone, Zenon
      <4> HIDE DEF Sum, U
      <4> QED BY <3>3, <4>2, <4>3
    <3>6. CASE U # {}
      <4>1. \A g \in T : g.id \in Int
        OBVIOUS
      <4>2. PICK y \in U : \A g \in U : g.id <= y.id
        <5>1. \A e \in U : e.id \in Int
          BY <4>1
        <5> HIDE DEF U
        <5> QED BY <3>2, <3>6, <5>1, LastEntry, Zenon
      <4>3. Chain(U, b, y.after) /\ k = y.after + PostedDelta(x)
        <5>1. x \in T /\ y \in T \ {x} /\ \A g \in T \ {x} : g.id <= y.id
          BY <4>2, Zenon
        <5> HIDE DEF G, Sum
        <5> QED BY <3>1, <4>1, <5>1, ChainWithoutLast
      <4>4. y.after = b + Sum(U)
        <5> HIDE DEF U, Sum
        <5>1. U \in G
          <6> HIDE DEF G
          <6> QED BY <1>1, <3>2, Zenon
        <5> QED BY <4>3, <5>1, Zenon
      <4>5. k = (b + Sum(U)) + f[x] /\ Sum(T) = Sum(U) + f[x]
        BY <3>3, <3>4, <4>3, <4>4, Zenon
      <4> HIDE DEF Sum, U
      <4> QED BY <3>3, <4>5
    <3> QED BY <3>5, <3>6, Zenon
  <2> QED BY <2>1, <2>2, Zenon
<1>2. E \in G
  <2> HIDE DEF G
  <2> QED BY <1>1, SubsetInduction, Zenon
<1> QED BY <1>2, Zenon

\* What the posted entries on account a add up to.
EntriesTotal(a) == SumFunction([e \in On(a) |-> PostedDelta(e)])

\* A stored balance is what its entries add up to, unless it has drifted, and
\* the postings are whole; what a pass has seen so far is explained by that.
ReconcilerInv ==
  /\ pass \in [stage : {"idle", "trial", "clean", "drift", "error"},
               todo : SUBSET Currencies, trial : [Currencies -> Int],
               found : SUBSET Account, before : SUBSET Account]
  /\ balance \in [Account -> BalanceRow]
  /\ \A e \in journal : e.id \in Nat
  /\ Settled(journal)
  /\ drifted \subseteq Account
  /\ \A a \in Account :
       balance[a].posted = EntriesTotal(a) + (IF a \in drifted THEN 1 ELSE 0)
  /\ pass.before \subseteq drifted
  /\ drifted = {} => \A c \in Currencies : pass.trial[c] = 0
  /\ NoFalseAlarm
  /\ NoMissedDrift

\* The total of some settled entries, by any function that has what they add.
LEMMA TotalOf ==
  ASSUME NEW J, Settled(J), NEW E, E \subseteq J, NEW f, \A e \in E : f[e] = PostedDelta(e)
  PROVE  /\ IsFiniteSet(E) /\ SumFunctionOnSet(f, E) \in Int
         /\ \A e \in E : PostedDelta(e) \in Int
         /\ SumFunction([e \in E |-> PostedDelta(e)]) = SumFunctionOnSet(f, E)
<1> DEFINE g == [e \in E |-> PostedDelta(e)]
<1>1. IsFiniteSet(E)
  BY FinitePart, Zenon DEF Settled
<1>2. \A e \in E : PostedDelta(e) \in Int
  <2>1. \A e \in E : e.amount \in Int
    BY Zenon DEF Settled
  <2> QED BY <2>1 DEF PostedDelta, SignedDelta
<1>3. \A e \in E : f[e] = g[e] /\ f[e] \in Int
  BY <1>2, Zenon
<1>4. SumFunction(g) = SumFunctionOnSet(g, E)
  BY Zenon DEF SumFunction
<1> HIDE DEF g
<1>5. SumFunctionOnSet(f, E) = SumFunctionOnSet(g, E)
  BY <1>1, <1>3, SumSame, Zenon
<1>6. SumFunctionOnSet(f, E) \in Int
  BY <1>1, <1>3, SumType, Zenon
<1> QED BY <1>1, <1>2, <1>4, <1>5, <1>6, Zenon DEF g

\* The same for the entries of an account.
LEMMA TotalIs ==
  ASSUME Settled(journal), NEW a, NEW f, \A e \in On(a) : f[e] = PostedDelta(e)
  PROVE  /\ IsFiniteSet(On(a)) /\ EntriesTotal(a) \in Int
         /\ \A e \in On(a) : PostedDelta(e) \in Int
         /\ EntriesTotal(a) = SumFunctionOnSet(f, On(a))
<1>1. On(a) \subseteq journal
  BY Zenon DEF On
<1> QED BY <1>1, TotalOf, Zenon DEF EntriesTotal

\* The query for drifted accounts finds the balances that were changed without
\* an entry, and no others.
LEMMA FindsDrift == ReconcilerInv => DriftedAccounts = drifted
<1> SUFFICES ASSUME ReconcilerInv PROVE DriftedAccounts = drifted
  BY Zenon
<1>1. ASSUME NEW a \in Account PROVE a \in DriftedAccounts <=> a \in drifted
  <2>1. EntriesTotal(a) \in Int
    <3> DEFINE f == [e \in On(a) |-> PostedDelta(e)]
    <3>1. \A e \in On(a) : f[e] = PostedDelta(e)
      BY Zenon
    <3> HIDE DEF f
    <3> QED BY <3>1, TotalIs, Zenon DEF ReconcilerInv
  <2>2. a \in DriftedAccounts <=> balance[a].posted # EntriesTotal(a)
    BY Zenon DEF DriftedAccounts, EntriesTotal
  <2>3. balance[a].posted = EntriesTotal(a) + (IF a \in drifted THEN 1 ELSE 0)
    BY Zenon DEF ReconcilerInv
  <2> QED BY <2>1, <2>2, <2>3
<1>2. DriftedAccounts \subseteq Account /\ drifted \subseteq Account
  BY Zenon DEF DriftedAccounts, ReconcilerInv
<1> QED BY <1>1, <1>2, Zenon

\* The total of an account, restated as a debit, is that of its entries.
LEMMA RestatedEntries ==
  ASSUME Settled(journal), NEW a, NEW f,
         \A e \in On(a) : f[e] = EquationSign(a) * PostedDelta(e)
  PROVE  EquationSign(a) * EntriesTotal(a) = SumFunctionOnSet(f, On(a))
<1> DEFINE E == On(a)
           g == [e \in E |-> PostedDelta(e)]
<1>1. \A e \in E : g[e] = PostedDelta(e)
  BY Zenon
<1> HIDE DEF E, g
<1>2. /\ IsFiniteSet(E) /\ EntriesTotal(a) \in Int
      /\ \A e \in E : PostedDelta(e) \in Int
      /\ EntriesTotal(a) = SumFunctionOnSet(g, E)
  BY <1>1, TotalIs, Zenon DEF E
<1>3. CASE a \in DebitNormal
  <2>1. EquationSign(a) = 1
    BY <1>3, Zenon DEF EquationSign
  <2>2. ASSUME NEW e \in E PROVE f[e] = g[e]
    <3>1. f[e] = 1 * PostedDelta(e) /\ g[e] = PostedDelta(e) /\ PostedDelta(e) \in Int
      BY <1>1, <1>2, <2>1, Zenon DEF E
    <3> QED BY <3>1
  <2>3. SumFunctionOnSet(f, E) = SumFunctionOnSet(g, E)
    BY <1>2, <2>2, SumSame, Zenon
  <2> QED BY <1>2, <2>1, <2>3 DEF E
<1>4. CASE a \notin DebitNormal
  <2>1. EquationSign(a) = -1
    BY <1>4, Zenon DEF EquationSign
  <2>2. ASSUME NEW e \in E PROVE g[e] \in Int /\ f[e] = -g[e]
    <3>1. f[e] = (-1) * PostedDelta(e) /\ g[e] = PostedDelta(e) /\ PostedDelta(e) \in Int
      BY <1>1, <1>2, <2>1, Zenon DEF E
    <3> QED BY <3>1
  <2>3. SumFunctionOnSet(f, E) = -SumFunctionOnSet(g, E)
    BY <1>2, <2>2, SumOpposite, Zenon
  <2> QED BY <1>2, <2>1, <2>3 DEF E
<1> QED BY <1>3, <1>4, Zenon

\* A trial balance is an integer.
LEMMA TrialType == ASSUME ReconcilerInv, NEW c PROVE TrialBalance(c) \in Int
<1> DEFINE A == AccountsIn(c)
           h == [a \in A |-> EquationSign(a) * balance[a].posted]
<1>1. TrialBalance(c) = SumFunctionOnSet(h, A)
  BY Zenon DEF TrialBalance, SumFunction
<1>2. A \subseteq Account
  BY Zenon DEF AccountsIn
<1>3. IsFiniteSet(A)
  BY <1>2, FiniteAssumption, FinitePart, Zenon
<1>4. ASSUME NEW a \in A PROVE h[a] \in Int
  <2>1. balance[a] \in BalanceRow /\ h[a] = EquationSign(a) * balance[a].posted
    BY <1>2, Zenon DEF ReconcilerInv
  <2>2. \A b \in BalanceRow : b.posted \in Int
    BY DEF BalanceRow
  <2>3. balance[a].posted \in Int
    BY <2>1, <2>2, Zenon
  <2> QED BY <2>1, <2>3 DEF EquationSign
<1> HIDE DEF A, h
<1> QED BY <1>1, <1>3, <1>4, SumType, Zenon

\* As long as nothing has drifted, every trial balance comes out at zero.
LEMMA TrialIsZero ==
  ASSUME ReconcilerInv, drifted = {}, NEW c \in Currencies
  PROVE  TrialBalance(c) = 0
<1> DEFINE A == AccountsIn(c)
           E == {e \in journal : CurrencyOf[e.account] = c}
           h == [a \in A |-> EquationSign(a) * balance[a].posted]
           f == [e \in E |-> EquationSign(e.account) * PostedDelta(e)]
           key == [e \in E |-> e.account]
<1>1. Settled(journal) /\ E \subseteq journal /\ A \subseteq Account
  BY Zenon DEF ReconcilerInv, AccountsIn
<1>2. IsFiniteSet(A) /\ IsFiniteSet(E)
  BY <1>1, FiniteAssumption, FinitePart, Zenon DEF Settled
<1>3. \A e \in E : key[e] = e.account /\ key[e] \in A
  BY <1>1, Zenon DEF Settled, AccountsIn
<1>4. \A e \in E : f[e] = EquationSign(e.account) * PostedDelta(e)
  BY Zenon
<1>5. SumFunctionOnSet(f, E) = 0
  <2>1. PICK a \in Account : c = CurrencyOf[a]
    BY Zenon DEF Currencies
  <2>2. SumFunction(f) = 0
    BY <1>1, <2>1, Zenon DEF Settled
  <2> QED BY <2>2, Zenon DEF SumFunction
<1>6. \A e \in E : f[e] \in Int
  <2>1. \A e \in E : e.amount \in Int
    BY <1>1, Zenon DEF Settled
  <2> HIDE DEF E, f
  <2> QED BY <1>4, <2>1 DEF EquationSign, PostedDelta, SignedDelta
<1>7. ASSUME NEW a \in A PROVE h[a] = SumFunctionOnSet(f, {e \in E : key[e] = a})
  <2>1. a \in Account /\ CurrencyOf[a] = c
    BY Zenon DEF AccountsIn
  <2>2. {e \in E : key[e] = a} = On(a)
    <3>1. \A e \in E : key[e] = a <=> e.account = a
      BY <1>3, Zenon
    <3> HIDE DEF key
    <3>2. {e \in E : key[e] = a} = {e \in E : e.account = a}
      BY <3>1, Zenon
    <3>3. {e \in E : e.account = a} = On(a)
      BY <2>1, Zenon DEF On
    <3> QED BY <3>2, <3>3, Zenon
  <2>3. \A e \in On(a) : f[e] = EquationSign(a) * PostedDelta(e)
    BY <2>1, Zenon DEF On
  <2>4. EntriesTotal(a) \in Int /\ balance[a].posted = EntriesTotal(a)
    <3> DEFINE g == [e \in On(a) |-> PostedDelta(e)]
    <3>1. \A e \in On(a) : g[e] = PostedDelta(e)
      BY Zenon
    <3> HIDE DEF g
    <3>2. EntriesTotal(a) \in Int
      BY <1>1, <3>1, TotalIs, Zenon
    <3>3. balance[a].posted = EntriesTotal(a) + 0
      BY <2>1, Zenon DEF ReconcilerInv
    <3> QED BY <3>2, <3>3
  <2>5. h[a] = EquationSign(a) * EntriesTotal(a)
    BY <2>4, Zenon
  <2> HIDE DEF f
  <2>6. EquationSign(a) * EntriesTotal(a) = SumFunctionOnSet(f, On(a))
    BY <1>1, <2>3, RestatedEntries, Zenon
  <2> QED BY <2>2, <2>5, <2>6, Zenon
<1>8. TrialBalance(c) = SumFunctionOnSet(h, A)
  BY Zenon DEF TrialBalance, SumFunction
<1> HIDE DEF A, E, h, f, key
<1>9. SumsOfGroups(h, A, key, f, E)
  BY <1>3, <1>6, <1>7, Zenon DEF SumsOfGroups
<1>10. SumFunctionOnSet(h, A) = SumFunctionOnSet(f, E)
  BY <1>2, <1>9, SumByGroup
<1> QED BY <1>5, <1>8, <1>10, Zenon

\* What is published changes each balance by what its new entries add.
LEMMA SettleKeepsTotals ==
  ASSUME ReconcilerInv, Settle, NEW a \in Account
  PROVE  balance'[a].posted = EntriesTotal(a)' + (IF a \in drifted THEN 1 ELSE 0)
<1> DEFINE f == [e \in journal' |-> PostedDelta(e)]
           O == On(a)
           N == NewOn(a)
           d == IF a \in drifted THEN 1 ELSE 0
<1>1. /\ journal \subseteq journal' /\ \A e \in New : e.id \in Nat
      /\ Chain(N, balance[a].posted, balance'[a].posted)
      /\ Settled(journal) /\ Settled(journal')
  BY Zenon DEF Settle, Publish, AtTheEnd, BalanceFollows, ReconcilerInv
<1>2. On(a)' = O \cup N /\ O \cap N = {}
  BY <1>1, Zenon DEF On, NewOn, New
<1>3. O \subseteq journal' /\ N \subseteq journal' /\ O \cup N \subseteq journal'
  BY <1>1, Zenon DEF On, NewOn, New
<1>4. \A e \in journal' : f[e] = PostedDelta(e)
  BY Zenon
<1>5. \A e \in N : e.id \in Int
  BY <1>1 DEF NewOn
<1>6. /\ balance[a].posted = EntriesTotal(a) + d
      /\ EntriesTotal(a)' = SumFunction([e \in O \cup N |-> PostedDelta(e)])
      /\ d \in Int
  <2>1. d \in Int
    OBVIOUS
  <2> QED BY <1>2, <2>1, Zenon DEF ReconcilerInv, EntriesTotal
<1> HIDE DEF f, O, N, d
<1>7. /\ IsFiniteSet(O) /\ EntriesTotal(a) \in Int
      /\ EntriesTotal(a) = SumFunctionOnSet(f, O)
  BY <1>1, <1>3, <1>4, TotalIs, Zenon DEF O
<1>8. /\ IsFiniteSet(N) /\ SumFunctionOnSet(f, N) \in Int
      /\ \A e \in N : PostedDelta(e) \in Int
  BY <1>1, <1>3, <1>4, TotalOf, Zenon
<1>9. /\ EntriesTotal(a)' = SumFunctionOnSet(f, O \cup N)
      /\ \A e \in O \cup N : PostedDelta(e) \in Int
  BY <1>1, <1>3, <1>4, <1>6, TotalOf, Zenon
<1>10. SumFunctionOnSet(f, O \cup N) = SumFunctionOnSet(f, O) + SumFunctionOnSet(f, N)
  <2>1. \A e \in O \cup N : f[e] \in Int
    BY <1>3, <1>4, <1>9, Zenon
  <2> QED BY <1>2, <1>7, <1>8, <2>1, SumUnion, Zenon
<1>11. balance'[a].posted = balance[a].posted + SumFunctionOnSet(f, N)
  <2>1. balance[a].posted \in Int
    BY <1>6, <1>7
  <2>2. \A e \in N : f[e] = PostedDelta(e) /\ PostedDelta(e) \in Int
    BY <1>3, <1>4, <1>8, Zenon
  <2> QED BY <1>1, <1>5, <1>8, <2>1, <2>2, ChainTotal, Zenon
<1>12. balance'[a].posted = EntriesTotal(a)' + d
  BY <1>6, <1>7, <1>8, <1>9, <1>10, <1>11
<1> QED BY <1>12, Zenon DEF d

\* A pass goes on, and its findings are explained by what has drifted.
LEMMA PassKeeps == ReconcilerInv /\ PassStep => ReconcilerInv'
<1> SUFFICES ASSUME ReconcilerInv, PassStep PROVE ReconcilerInv'
  BY Zenon
<1> DEFINE Pass == [stage : {"idle", "trial", "clean", "drift", "error"},
                    todo : SUBSET Currencies, trial : [Currencies -> Int],
                    found : SUBSET Account, before : SUBSET Account]
<1>1. UNCHANGED << balance, journal, drifted >>
  BY Zenon DEF PassStep, BeginPass, CheckCurrency, CheckDrift, PassFails
<1>2. pass \in Pass /\ drifted \subseteq Account /\ pass.before \subseteq drifted
      /\ (drifted = {} => \A c \in Currencies : pass.trial[c] = 0)
  BY Zenon DEF ReconcilerInv
<1>3. SUFFICES /\ pass' \in Pass /\ pass'.before \subseteq drifted
               /\ drifted = {} => \A c \in Currencies : pass'.trial[c] = 0
               /\ pass'.stage = "drift" => drifted # {} /\ pass'.before \subseteq pass'.found
               /\ pass'.stage = "clean" => pass'.before = {}
  <2>1. \A a : EntriesTotal(a)' = EntriesTotal(a)
    BY <1>1, Zenon DEF EntriesTotal, On
  <2> QED BY <1>1, <1>3, <2>1, Zenon DEF ReconcilerInv, NoFalseAlarm, NoMissedDrift
<1>4. CASE BeginPass
  BY <1>2, <1>4 DEF BeginPass
<1>5. CASE CheckCurrency
  <2>1. PICK c \in pass.todo :
          pass' = [pass EXCEPT !.trial[c] = TrialBalance(c), !.todo = @ \ {c}]
    BY <1>5, Zenon DEF CheckCurrency
  <2>2. c \in Currencies /\ pass.stage = "trial"
    BY <1>2, <1>5, <2>1 DEF CheckCurrency
  <2>3. TrialBalance(c) \in Int /\ (drifted = {} => TrialBalance(c) = 0)
    BY <2>2, TrialType, TrialIsZero, Zenon
  <2> QED BY <1>2, <2>1, <2>2, <2>3
<1>6. CASE CheckDrift
  <2>1. DriftedAccounts = drifted
    BY FindsDrift, Zenon
  <2>2. pass' = [pass EXCEPT !.found = drifted,
                   !.stage = IF Clean(pass.trial, drifted) THEN "clean" ELSE "drift"]
    BY <1>6, <2>1, Zenon DEF CheckDrift
  <2>3. IF drifted = {} THEN Clean(pass.trial, drifted) ELSE ~ Clean(pass.trial, drifted)
    BY <1>2, Zenon DEF Clean
  <2> QED BY <1>2, <2>2, <2>3
<1>7. CASE PassFails
  BY <1>2, <1>7 DEF PassFails
<1> QED BY <1>4, <1>5, <1>6, <1>7, Zenon DEF PassStep

\* A drift is one of an account that had not drifted.
LEMMA DriftKeeps == ASSUME ReconcilerInv, NEW a \in Account, Drift(a) PROVE ReconcilerInv'
<1>1. UNCHANGED << journal, pass >> /\ a \notin drifted /\ drifted' = drifted \cup {a}
  BY Zenon DEF Drift
<1>2. /\ balance' \in [Account -> BalanceRow]
      /\ balance'[a].posted = balance[a].posted + 1
      /\ \A b \in Account \ {a} : balance'[b] = balance[b]
  <2>1. balance \in [Account -> BalanceRow]
    BY Zenon DEF ReconcilerInv
  <2> QED BY <2>1 DEF Drift, BalanceRow
<1>3. \A b : EntriesTotal(b)' = EntriesTotal(b)
  BY <1>1, Zenon DEF EntriesTotal, On
<1>4. ASSUME NEW b \in Account
      PROVE  balance'[b].posted = EntriesTotal(b)' + (IF b \in drifted' THEN 1 ELSE 0)
  <2>1. EntriesTotal(b) \in Int
    <3> DEFINE f == [e \in On(b) |-> PostedDelta(e)]
    <3>1. \A e \in On(b) : f[e] = PostedDelta(e)
      BY Zenon
    <3> HIDE DEF f
    <3> QED BY <3>1, TotalIs, Zenon DEF ReconcilerInv
  <2>2. balance[b].posted = EntriesTotal(b) + (IF b \in drifted THEN 1 ELSE 0)
    BY Zenon DEF ReconcilerInv
  <2>3. CASE b = a
    <3>1. balance[a].posted = EntriesTotal(a) + 0 /\ a \in drifted'
      BY <1>1, <2>2, <2>3, Zenon
    <3> QED BY <1>2, <1>3, <2>1, <2>3, <3>1
  <2>4. CASE b # a
    BY <1>1, <1>2, <1>3, <2>2, <2>4, Zenon
  <2> QED BY <2>3, <2>4, Zenon
<1>5. drifted' # {} /\ drifted \subseteq drifted' /\ drifted' \subseteq Account
  BY <1>1, Zenon DEF ReconcilerInv
<1> QED BY <1>1, <1>2, <1>4, <1>5, Zenon DEF ReconcilerInv, NoFalseAlarm, NoMissedDrift

\* The invariant of a pass and its surroundings.
LEMMA ReconcilerInductive == ReconcilerSpec => []ReconcilerInv
<1>1. ReconcilerInit => ReconcilerInv
  <2> SUFFICES ASSUME ReconcilerInit PROVE ReconcilerInv
    BY Zenon
  <2>1. journal = {} /\ drifted = {} /\ \A a \in Account : balance[a] = ZeroBalance
    BY Zenon DEF ReconcilerInit, JournalInit
  <2>2. Settled(journal)
    <3>1. \A c : {e \in journal : CurrencyOf[e.account] = c} = {}
      BY <2>1, Zenon
    <3>2. \A f : DOMAIN f = {} => SumFunction(f) = 0
      BY SumOfNone, Zenon DEF SumFunction
    <3>3. \A c : SumFunction([e \in {e \in journal : CurrencyOf[e.account] = c} |->
                               EquationSign(e.account) * PostedDelta(e)]) = 0
      BY <3>1, <3>2, Zenon
    <3> QED BY <2>1, <3>3, FiniteNone, Zenon DEF Settled
  <2>3. ASSUME NEW a \in Account
        PROVE  balance[a].posted = EntriesTotal(a) + (IF a \in drifted THEN 1 ELSE 0)
    <3>1. On(a) = {}
      BY <2>1, Zenon DEF On
    <3>2. EntriesTotal(a) = SumFunctionOnSet([e \in On(a) |-> PostedDelta(e)], On(a))
      BY Zenon DEF EntriesTotal, SumFunction
    <3>3. EntriesTotal(a) = 0
      BY <3>1, <3>2, SumOfNone, Zenon
    <3> QED BY <2>1, <3>3 DEF ZeroBalance
  <2>4. balance \in [Account -> BalanceRow]
    BY DEF ReconcilerInit, JournalInit, ZeroBalance, BalanceRow
  <2>5. pass = [stage |-> "idle", todo |-> {}, trial |-> [c \in Currencies |-> 0],
                found |-> {}, before |-> {}]
    BY Zenon DEF ReconcilerInit
  <2> QED BY <2>1, <2>2, <2>3, <2>4, <2>5 DEF ReconcilerInv, NoFalseAlarm, NoMissedDrift
<1>2. ReconcilerInv /\ [ReconcilerNext]_reconcilerVars => ReconcilerInv'
  <2> SUFFICES ASSUME ReconcilerInv, [ReconcilerNext]_reconcilerVars PROVE ReconcilerInv'
    BY Zenon
  <2>1. CASE Settle
    <3>1. \A e \in journal' : e.id \in Nat
      BY <2>1, Zenon DEF Settle, Publish, AtTheEnd, New, ReconcilerInv
    <3>2. UNCHANGED << pass, drifted >> /\ Settled(journal')
          /\ balance' \in [Account -> BalanceRow]
      BY <2>1, Zenon DEF Settle
    <3>3. \A a \in Account :
            balance'[a].posted = EntriesTotal(a)' + (IF a \in drifted THEN 1 ELSE 0)
      BY <2>1, SettleKeepsTotals, Zenon
    <3> QED BY <3>1, <3>2, <3>3, Zenon DEF ReconcilerInv, NoFalseAlarm, NoMissedDrift
  <2>2. CASE UNCHANGED reconcilerVars
    <3>1. UNCHANGED << balance, journal, pass, drifted >>
      BY <2>2, Zenon DEF reconcilerVars
    <3>2. \A a : EntriesTotal(a)' = EntriesTotal(a)
      BY <3>1, Zenon DEF EntriesTotal, On
    <3> QED BY <3>1, <3>2, Zenon DEF ReconcilerInv, NoFalseAlarm, NoMissedDrift
  <2> QED BY <2>1, <2>2, DriftKeeps, PassKeeps, Zenon DEF ReconcilerNext
<1> QED BY <1>1, <1>2, PTL DEF ReconcilerSpec

\* NoFalseAlarm, for any number of accounts, currencies and commits between the
\* queries of a pass (Reconciler.Run): a report of a drift is about a balance
\* that was changed without an entry.
THEOREM NoFalseAlarmCorrect == ReconcilerSpec => []NoFalseAlarm
<1>1. ReconcilerInv => NoFalseAlarm
  BY Zenon DEF ReconcilerInv
<1> QED BY <1>1, ReconcilerInductive, PTL

\* NoMissedDrift: a pass that ends clean began without a drifted balance, and
\* one that reports a drift names every balance that had drifted before it
\* began, those that cancel in the trial balance included.
THEOREM NoMissedDriftCorrect == ReconcilerSpec => []NoMissedDrift
<1>1. ReconcilerInv => NoMissedDrift
  BY Zenon DEF ReconcilerInv
<1> QED BY <1>1, ReconcilerInductive, PTL
=============================================================================

---------------------------- MODULE LedgerProofs ----------------------------
(***************************************************************************)
(* The inductive invariant of Ledger, that every step preserves it, and    *)
(* the theorems that follow from it, for every set of sessions and         *)
(* accounts, every width of the integers and every set of requests.        *)
(***************************************************************************)
EXTENDS Ledger, EntriesProofs

-----------------------------------------------------------------------------
(* Arithmetic *)

\* addInt64 reports success exactly when the sum fits, and then returns it.
LEMMA AddInt64Exact ==
  ASSUME NEW a \in Int64, NEW b \in Int64
  PROVE  /\ addInt64(a, b).val \in Int64
         /\ addInt64(a, b).ok \in BOOLEAN
         /\ addInt64(a, b).ok => addInt64(a, b).val = a + b
         /\ addInt64(a, b).ok <=> a + b \in Int64
  BY MaxInt64Assumption DEF addInt64, Wrap, Int64, MinInt64

-----------------------------------------------------------------------------
(* The type invariant *)

\* The fields of a posting other than its legs.
Linked(p) ==
  /\ p.pending \in BOOLEAN
  /\ p.ref \in ExternalRef \cup {None}
  /\ p.role \in Role \cup {None}
  /\ p.releases \in TxnId \cup {None}
  /\ p.reverses \in TxnId \cup {None}

\* job is a function to records.  The legs of a posting are typed once
\* Validate has passed.
JobShape ==
  /\ job = [s \in Session |-> job[s]]
  /\ \A s \in Session :
       /\ job[s] = [post |-> job[s].post, next |-> job[s].next,
                    then |-> job[s].then, target |-> job[s].target,
                    final |-> job[s].final]
       /\ job[s].next >= 1
       /\ pc[s] \in {"lock", "apply"} =>
            /\ Current(s).legs \in Seq(Leg)
            /\ Current(s).legs # << >>
            /\ Linked(Current(s))
       /\ job[s].then # None => Linked(job[s].then)

\* The authorization an operation updates is a committed row.
TargetOK ==
  \A s \in Session :
    job[s].target # None =>
      /\ job[s].target \in TxnId
      /\ job[s].final \in Status
      /\ txns[job[s].target] # None
      /\ \A r \in Session : job[s].target \notin live[r]

TypeInv == TypeOK /\ JobShape /\ TargetOK

\* What Validate accepts is a non-empty sequence of typed legs.
LEMMA ValidateGivesLegs ==
  ASSUME NEW spec, Validate(spec)
  PROVE  spec.legs \in Seq(Leg) /\ spec.legs # << >>
  BY Zenon DEF Validate

\* AccountIDs names accounts of the chart.
LEMMA AccountIDsType ==
  ASSUME NEW spec, spec.legs \in Seq(Leg)
  PROVE  AccountIDs(spec) \subseteq Account
<1>1. \A i \in DOMAIN spec.legs : spec.legs[i] \in Leg
  OBVIOUS
<1>2. \A leg \in Leg : leg.account \in Account
  BY Zenon DEF Leg
<1> QED BY <1>1, <1>2, Zenon DEF AccountIDs

\* The row the balance-row trigger inserts is a balance.
LEMMA ZeroBalanceType == ZeroBalance \in Balance
  BY MaxInt64Assumption DEF ZeroBalance, Balance, Int64, MinInt64

\* A committed row is a transaction.
LEMMA CommittedTxnType ==
  ASSUME TypeInv, NEW t \in CommittedTxns
  PROVE  /\ t \in TxnId
         /\ txns[t].ref \in ExternalRef \cup {None}
         /\ txns[t].role \in Role \cup {None}
<1>1. t \in TxnId /\ txns[t] \in Transaction
  BY Zenon DEF TypeInv, TypeOK, CommittedTxns
<1> QED BY <1>1, Zenon DEF Transaction

\* The type invariant holds in an empty ledger.
LEMMA TypeInit == Init => TypeInv
<1> SUFFICES ASSUME Init PROVE TypeInv
  BY Zenon
<1>1. TypeOK
  BY ZeroBalanceType, Zenon DEF Init, TypeOK, NoJob
<1>2. JobShape
  BY DEF Init, JobShape, NoJob
<1>3. TargetOK
  BY Zenon DEF Init, TargetOK, NoJob
<1> QED BY <1>1, <1>2, <1>3, Zenon DEF TypeInv

\* Beginning an operation on a posting with typed links.
LEMMA TypeBegin ==
  ASSUME TypeInv, NEW s \in Session, NEW op, NEW post, NEW then, NEW target, NEW final,
         Begin(s, op, post, then, target, final),
         Linked(post), then # None => Linked(then),
         target # None => /\ target \in CommittedTxns
                          /\ final \in Status
  PROVE  TypeInv'
<1>1. post.legs \in Seq(Leg) /\ post.legs # << >>
  BY ValidateGivesLegs, Zenon DEF Begin
<1>2. AccountIDs(post) \subseteq Account
  BY <1>1, AccountIDsType, Zenon
<1>3. TypeOK'
  BY <1>2, BoundAssumption DEF TypeInv, TypeOK, JobShape, Begin
<1>4. JobShape'
  <2>1. /\ job' = [r \in Session |-> job'[r]]
        /\ job'[s] = [post |-> post, next |-> 1, then |-> then,
                      target |-> target, final |-> final]
        /\ \A r \in Session \ {s} : job'[r] = job[r] /\ pc'[r] = pc[r]
    BY Zenon DEF TypeInv, TypeOK, JobShape, Begin
  <2> QED BY <1>1, <2>1 DEF TypeInv, JobShape, Current, Linked
<1>5. TargetOK'
  BY Zenon DEF TypeInv, TypeOK, JobShape, TargetOK, Begin, CommittedTxns, Uncommitted
<1> QED BY <1>3, <1>4, <1>5, Zenon DEF TypeInv

\* Every operation begins on a posting with typed links, so Call keeps the type
\* invariant.
LEMMA TypeCall ==
  ASSUME TypeInv, NEW s \in Session, Call(s)
  PROVE  TypeInv'
<1>1. CASE Post(s)
  <2>1. PICK spec \in Request : Begin(s, "post", spec, None, None, None)
    BY <1>1, Zenon DEF Post
  <2>2. Linked(spec)
    BY RequestAssumption, Zenon DEF Linked
  <2> QED BY <2>1, <2>2, TypeBegin, Zenon
<1>2. CASE Void(s)
  <2>1. PICK t \in CommittedTxns : Begin(s, "void", Release(t), None, t, "voided")
    BY <1>2, Zenon DEF Void
  <2>2. Linked(Release(t))
    BY CommittedTxnType, Zenon DEF Linked, Release
  <2> QED BY <2>1, <2>2, TypeBegin, Zenon DEF Status
<1>3. CASE Capture(s)
  <2>1. PICK t \in CommittedTxns :
          \E capture \in CaptureAmount \cup {SideTotal(txns[t].legs, Debit)} :
            Begin(s, "capture", Release(t),
                  Plain(ScaleEntries(txns[t].legs, capture), FALSE, txns[t].ref, None), t, "posted")
    BY <1>3, ZenonT(30) DEF Capture
  <2>2. PICK capture :
          Begin(s, "capture", Release(t),
                Plain(ScaleEntries(txns[t].legs, capture), FALSE, txns[t].ref, None), t, "posted")
    BY <2>1, ZenonT(30)
  <2>3. Linked(Release(t))
    BY CommittedTxnType, Zenon DEF Linked, Release
  <2>4. Linked(Plain(ScaleEntries(txns[t].legs, capture), FALSE, txns[t].ref, None))
    BY CommittedTxnType, Zenon DEF Linked, Plain
  <2> QED BY <2>2, <2>3, <2>4, TypeBegin, ZenonT(30) DEF Status
<1>4. CASE Reverse(s)
  <2> DEFINE R(t) == [legs |-> Mirror(txns[t].legs), pending |-> FALSE,
                      ref |-> txns[t].ref, role |-> None,
                      releases |-> None, reverses |-> t]
  <2>1. PICK t \in CommittedTxns : Begin(s, "reverse", R(t), None, None, None)
    BY <1>4, ZenonT(30) DEF Reverse
  <2>2. Linked(R(t))
    BY CommittedTxnType, Zenon DEF Linked
  <2> QED BY <2>1, <2>2, TypeBegin, Zenon
<1> QED BY <1>1, <1>2, <1>3, <1>4, Zenon DEF Call

\* LockAccounts only copies a typed row.
LEMMA TypeLockRow ==
  ASSUME TypeInv, NEW s \in Session, LockRow(s)
  PROVE  TypeInv'
<1>1. PICK a \in toLock[s] :
        /\ lock' = [lock EXCEPT ![a] = s]
        /\ running' = [running EXCEPT ![s][a] = row[a]]
        /\ toLock' = [toLock EXCEPT ![s] = @ \ {a}]
        /\ pc' = [pc EXCEPT ![s] = IF toLock[s] = {a} THEN "apply" ELSE @]
  BY Zenon DEF LockRow
<1>2. pc[s] = "lock" /\ a \in Account
  BY Zenon DEF TypeInv, TypeOK, LockRow
<1>3. TypeOK'
  BY <1>1, <1>2, Zenon DEF TypeInv, TypeOK, LockRow
<1>4. JobShape'
  BY <1>1, <1>2, Zenon DEF TypeInv, TypeOK, JobShape, LockRow, Current
<1>5. TargetOK'
  BY Zenon DEF TypeInv, TargetOK, LockRow
<1> QED BY <1>3, <1>4, <1>5, Zenon DEF TypeInv

\* The leg ApplyEntry looks at is typed, and what apply makes of it is too.
LEMMA NextLegType ==
  ASSUME TypeInv, NEW s \in Session, pc[s] = "apply",
         job[s].next <= Len(Current(s).legs)
  PROVE  /\ NextLeg(s) \in Leg
         /\ SignedDelta(NextLeg(s)) \in Int64
  <1>1. job[s].next \in 1 .. Len(Current(s).legs)
    BY DEF TypeInv, TypeOK, JobShape
  <1>2. NextLeg(s) \in Leg
    BY <1>1 DEF TypeInv, JobShape, NextLeg
  <1>3. SignedDelta(NextLeg(s)) \in Int64
    BY <1>2, MaxInt64Assumption DEF SignedDelta, Leg, Int64, MinInt64
  <1> QED BY <1>2, <1>3, Zenon

\* What the loop of apply makes of the next leg.
LEMMA AppliedType ==
  ASSUME TypeInv, NEW s \in Session, pc[s] = "apply",
         job[s].next <= Len(Current(s).legs)
  PROVE  /\ Applied(s) \in Balance
         /\ Applied(s).version = running[s][NextLeg(s).account].version
         /\ DraftEntry(s) \in Draft
<1> DEFINE b == running[s][NextLeg(s).account]
<1>1. NextLeg(s) \in Leg /\ SignedDelta(NextLeg(s)) \in Int64
  BY NextLegType, Zenon
<1>2. b \in Balance
  BY <1>1, Zenon DEF TypeInv, TypeOK, Leg
<1>3. Current(s).pending \in BOOLEAN
  BY Zenon DEF TypeInv, JobShape, Linked
<1>4. Moved(s).val \in Int64
  <2>1. (IF Current(s).pending THEN b.pending ELSE b.posted) \in Int64
    BY <1>2, Zenon DEF Balance
  <2> QED BY <1>1, <2>1, AddInt64Exact, Zenon DEF Moved, WorkingBalance
<1>5. Applied(s) \in Balance /\ Applied(s).version = b.version
  BY <1>2, <1>4, Zenon DEF Applied, WorkingBalance, Balance
<1>6. DraftEntry(s) \in Draft
  BY <1>1, <1>3, <1>5, Zenon DEF DraftEntry, Draft, Leg, Balance, TypeInv, TypeOK
<1> QED BY <1>5, <1>6, Zenon

\* The loop of apply stores a sum only after addInt64 accepted it.
LEMMA TypeApplyEntry ==
  ASSUME TypeInv, NEW s \in Session, ApplyEntry(s)
  PROVE  TypeInv'
<1>1. pc[s] = "apply" /\ job[s].next <= Len(Current(s).legs)
  BY Zenon DEF ApplyEntry
<1>2. Applied(s) \in Balance /\ DraftEntry(s) \in Draft /\ NextLeg(s).account \in Account
  BY <1>1, AppliedType, NextLegType, Zenon DEF Leg
<1>3. /\ job' = [r \in Session |-> job'[r]]
      /\ job'[s] = [post |-> job[s].post, next |-> job[s].next + 1,
                    then |-> job[s].then, target |-> job[s].target,
                    final |-> job[s].final]
      /\ \A r \in Session \ {s} : job'[r] = job[r]
  BY DEF ApplyEntry, TypeInv, JobShape
<1>4. TypeOK'
  <2>1. running' \in [Session -> [Account -> Balance]]
    BY <1>2, Zenon DEF TypeInv, TypeOK, ApplyEntry
  <2>2. drafts' \in [Session -> SUBSET Draft]
    BY <1>2, Zenon DEF TypeInv, TypeOK, ApplyEntry
  <2>3. \A r \in Session : job'[r].next \in Nat
    BY <1>3, SMTT(30) DEF TypeInv, TypeOK
  <2> QED BY <2>1, <2>2, <2>3, Zenon DEF TypeInv, TypeOK, ApplyEntry
<1>5. JobShape'
  <2>1. \A r \in Session :
          /\ job'[r].post = job[r].post /\ job'[r].then = job[r].then
          /\ pc'[r] = pc[r] /\ job'[r].next >= 1
          /\ job'[r] = [post |-> job'[r].post, next |-> job'[r].next,
                        then |-> job'[r].then, target |-> job'[r].target,
                        final |-> job'[r].final]
    BY <1>3, SMTT(30) DEF ApplyEntry, TypeInv, TypeOK, JobShape
  <2>2. job' = [r \in Session |-> job'[r]]
    BY <1>3, Zenon
  <2> QED BY <2>1, <2>2, SMTT(30) DEF TypeInv, JobShape, Current, Linked
<1>6. TargetOK'
  BY <1>3 DEF ApplyEntry, TypeInv, TargetOK
<1> QED BY <1>4, <1>5, <1>6, Zenon DEF TypeInv

\* What Write does, with the id it draws and the rows it inserts named.
Wrote(s, t) ==
  /\ t \in TxnId
  /\ txns[t] = None
  /\ txns' = [txns EXCEPT ![t] =
       [legs |-> Current(s).legs,
        status |-> IF Current(s).pending THEN "pending" ELSE "posted",
        pending |-> Current(s).pending,
        ref |-> Current(s).ref,
        role |-> Current(s).role,
        releases |-> Current(s).releases,
        reverses |-> Current(s).reverses]]
  /\ live' = [live EXCEPT ![s] = @ \cup {t}]
  /\ entries' = entries \cup
       {[id |-> nextEntry + d.id, txn |-> t, account |-> d.account,
         direction |-> d.direction, amount |-> d.amount,
         pending |-> d.pending, after |-> d.after] : d \in drafts[s]}

\* The rows InsertTransaction, AppendEntries and ApplyBalances write are typed.
LEMMA TypeWrite ==
  ASSUME TypeInv, NEW s \in Session, Write(s)
  PROVE  TypeInv'
<1>1. PICK t \in TxnId : Wrote(s, t)
  BY ZenonT(30) DEF Write, Wrote
<1>2. /\ pc[s] = "apply" /\ WriteAllowed(s)
      /\ Current(s).legs \in Seq(Leg) /\ Linked(Current(s))
  BY Zenon DEF Write, TypeInv, JobShape
<1>3. AccountIDs(Current(s)) \subseteq Account
  BY <1>2, AccountIDsType, Zenon
<1>4. job[s].then # None =>
        /\ job[s].then.legs \in Seq(Leg) /\ job[s].then.legs # << >>
        /\ AccountIDs(job[s].then) \subseteq Account
        /\ Linked(job[s].then)
  BY <1>2, ValidateGivesLegs, AccountIDsType, Zenon DEF WriteAllowed, TypeInv, JobShape
<1>5. /\ job' = [r \in Session |-> job'[r]]
      /\ job'[s] = [post |-> job[s].then, next |-> 1, then |-> None,
                    target |-> job[s].target, final |-> job[s].final]
      /\ \A r \in Session \ {s} : job'[r] = job[r] /\ pc'[r] = pc[r]
      /\ pc'[s] = IF job[s].then = None THEN "commit" ELSE "lock"
  BY ZenonT(30) DEF Write, TypeInv, TypeOK, JobShape
<1> DEFINE T == [legs |-> Current(s).legs,
                 status |-> IF Current(s).pending THEN "pending" ELSE "posted",
                 pending |-> Current(s).pending,
                 ref |-> Current(s).ref,
                 role |-> Current(s).role,
                 releases |-> Current(s).releases,
                 reverses |-> Current(s).reverses]
<1>6. T \in Transaction
  BY <1>2, Zenon DEF Transaction, Status, Linked
<1>7. TypeOK'
  <2>1. row' \in [Account -> Balance]
    <3>1. \A a \in Account : NextVersion(running[s][a]) \in Balance
      <4>1. \A a \in Account : running[s][a] \in Balance
        BY Zenon DEF TypeInv, TypeOK
      <4>2. \A b \in Balance : NextVersion(b) \in Balance
        BY SMTT(30) DEF Balance, NextVersion
      <4> QED BY <4>1, <4>2, Zenon
    <3> QED BY <3>1, Zenon DEF Write, TypeInv, TypeOK
  <2>2. txns' \in [TxnId -> Transaction \cup {None}]
    BY <1>1, <1>6, Zenon DEF TypeInv, TypeOK, Wrote
  <2>3. entries' \subseteq Entry
    <3>1. \A d \in drafts[s] :
            [id |-> nextEntry + d.id, txn |-> t, account |-> d.account,
             direction |-> d.direction, amount |-> d.amount,
             pending |-> d.pending, after |-> d.after] \in Entry
      BY SMTT(30) DEF TypeInv, TypeOK, Draft, Entry
    <3> QED BY <1>1, <3>1, Zenon DEF TypeInv, TypeOK, Wrote
  <2>4. live' \in [Session -> SUBSET TxnId]
    <3>1. live' = [live EXCEPT ![s] = @ \cup {t}] /\ t \in TxnId
      BY <1>1, ZenonT(30) DEF Wrote
    <3>2. live \in [Session -> SUBSET TxnId]
      BY Zenon DEF TypeInv, TypeOK
    <3> QED BY <3>1, <3>2, Zenon
  <2>5. nextEntry' \in Nat
    BY <1>2 DEF Write, TypeInv, TypeOK
  <2>6. \A r \in Session : job'[r].next \in Nat
    BY <1>5, SMTT(30) DEF TypeInv, TypeOK
  <2>7. /\ pc' \in [Session -> {"idle", "lock", "apply", "commit"}]
        /\ toLock' \in [Session -> SUBSET Account]
        /\ drafts' \in [Session -> SUBSET Draft]
    BY <1>4, Zenon DEF Write, TypeInv, TypeOK
  <2> QED BY <2>1, <2>2, <2>3, <2>4, <2>5, <2>6, <2>7, Zenon DEF Write, TypeInv, TypeOK
<1>8. JobShape'
  <2>1. \A r \in Session :
          /\ job'[r] = [post |-> job'[r].post, next |-> job'[r].next,
                        then |-> job'[r].then, target |-> job'[r].target,
                        final |-> job'[r].final]
          /\ job'[r].next >= 1
          /\ job'[r].then # None => Linked(job'[r].then)
    BY <1>5 DEF TypeInv, JobShape
  <2>2. \A r \in Session : pc'[r] \in {"lock", "apply"} =>
          /\ job'[r].post.legs \in Seq(Leg)
          /\ job'[r].post.legs # << >>
          /\ Linked(job'[r].post)
    BY <1>4, <1>5 DEF TypeInv, JobShape, Current
  <2> QED BY <1>5, <2>1, <2>2, Zenon DEF JobShape, Current, Linked
<1>9. TargetOK'
  <2>1. \A r \in Session : job'[r].target = job[r].target /\ job'[r].final = job[r].final
    BY <1>5, SMTT(30)
  <2>2. \A u \in TxnId : txns[u] # None => u # t /\ txns'[u] # None
    BY <1>1, Zenon DEF TypeInv, TypeOK, Wrote
  <2>3. \A u \in TxnId, r \in Session : u # t /\ u \notin live[r] => u \notin live'[r]
    BY <1>1, Zenon DEF TypeInv, TypeOK, Wrote
  <2> QED BY <2>1, <2>2, <2>3, Zenon DEF TypeInv, TargetOK
<1> QED BY <1>7, <1>8, <1>9, Zenon DEF TypeInv

\* The end of a transaction resets the session and leaves the others alone.
LEMMA DoneEffect ==
  ASSUME TypeInv, NEW s \in Session, Done(s)
  PROVE  /\ job' = [r \in Session |-> job'[r]]
         /\ job'[s] = NoJob /\ pc'[s] = "idle" /\ live'[s] = {} /\ drafts'[s] = {}
         /\ \A r \in Session \ {s} :
              /\ job'[r] = job[r] /\ pc'[r] = pc[r] /\ live'[r] = live[r]
              /\ drafts'[r] = drafts[r] /\ toLock'[r] = toLock[r]
              /\ running'[r] = running[r]
  BY ZenonT(30) DEF Done, TypeInv, TypeOK, JobShape

\* Ending a transaction leaves typed session state.
LEMMA TypeDone ==
  ASSUME TypeInv, NEW s \in Session, Done(s)
  PROVE  /\ live' \in [Session -> SUBSET TxnId]
         /\ nextEntry' \in Nat /\ begun' \in Nat
         /\ lock' \in [Account -> Session \cup {None}]
         /\ pc' \in [Session -> {"idle", "lock", "apply", "commit"}]
         /\ \A r \in Session : job'[r].next \in Nat
         /\ toLock' \in [Session -> SUBSET Account]
         /\ running' \in [Session -> [Account -> Balance]]
         /\ drafts' \in [Session -> SUBSET Draft]
         /\ JobShape'
<1>1. \A r \in Session : job'[r].next \in Nat
  BY DoneEffect DEF TypeInv, TypeOK, NoJob
<1>2. running' \in [Session -> [Account -> Balance]]
  BY ZeroBalanceType, Zenon DEF Done, TypeInv, TypeOK
<1>3. JobShape'
  BY DoneEffect DEF TypeInv, JobShape, NoJob, Current, Linked
<1> QED BY <1>1, <1>2, <1>3, Zenon DEF Done, TypeInv, TypeOK, Unlocked

\* The commit writes a status on an existing transaction and nothing else.
LEMMA TypeCommit ==
  ASSUME TypeInv, NEW s \in Session, Commit(s)
  PROVE  TypeInv'
<1>1. Done(s)
  BY Zenon DEF Commit
<1>2. txns' \in [TxnId -> Transaction \cup {None}]
      /\ \A t \in TxnId : txns[t] # None => txns'[t] # None
  <2>1. ASSUME NEW t \in TxnId, t = job[s].target
        PROVE  [txns[t] EXCEPT !.status = job[s].final] \in Transaction
    <3>1. t # None
      BY NoneAssumption, Zenon
    <3>2. txns[t] \in Transaction /\ job[s].final \in Status
      BY <2>1, <3>1, Zenon DEF TypeInv, TypeOK, TargetOK
    <3> QED BY <3>2, Zenon DEF Transaction
  <2> QED BY <2>1, NoRowAssumption, Zenon DEF Commit, TypeInv, TypeOK
<1>3. TypeOK'
  BY <1>1, <1>2, TypeDone, Zenon DEF Commit, TypeInv, TypeOK
<1>4. TargetOK'
  BY <1>1, <1>2, DoneEffect DEF TypeInv, TargetOK, NoJob
<1> QED BY <1>1, <1>3, <1>4, TypeDone, Zenon DEF TypeInv

\* A rollback only restores typed rows and drops new ones.
LEMMA TypeRollback ==
  ASSUME TypeInv, NEW s \in Session, Rollback(s)
  PROVE  TypeInv'
<1>1. Done(s)
  BY Zenon DEF Rollback
<1>2. TypeOK'
  BY <1>1, TypeDone, Zenon DEF Rollback, TypeInv, TypeOK
<1>3. TargetOK'
  BY <1>1, DoneEffect DEF Rollback, TypeInv, TargetOK, NoJob
<1> QED BY <1>1, <1>2, <1>3, TypeDone, Zenon DEF TypeInv

\* Every step of the ledger keeps the type invariant.
LEMMA TypeStep == TypeInv /\ [Next]_vars => TypeInv'
<1> SUFFICES ASSUME TypeInv, [Next]_vars PROVE TypeInv'
  BY Zenon
<1>1. ASSUME NEW s \in Session, Call(s) PROVE TypeInv'
  BY <1>1, TypeCall, Zenon
<1>2. ASSUME NEW s \in Session, LockRow(s) PROVE TypeInv'
  BY <1>2, TypeLockRow, Zenon
<1>3. ASSUME NEW s \in Session, ApplyEntry(s) PROVE TypeInv'
  BY <1>3, TypeApplyEntry, Zenon
<1>4. ASSUME NEW s \in Session, Write(s) PROVE TypeInv'
  BY <1>4, TypeWrite, Zenon
<1>5. ASSUME NEW s \in Session, Commit(s) PROVE TypeInv'
  BY <1>5, TypeCommit, Zenon
<1>6. ASSUME NEW s \in Session, Refuse(s) \/ Abort(s) PROVE TypeInv'
  BY <1>6, TypeRollback, Zenon DEF Refuse, Abort
<1>7. CASE UNCHANGED vars
  BY <1>7, Zenon DEF vars, TypeInv, TypeOK, JobShape, TargetOK, Current, Linked
<1> QED BY <1>1, <1>2, <1>3, <1>4, <1>5, <1>6, <1>7, Zenon DEF Next, Step

\* Every variable keeps its type; in particular every balance, committed or in
\* flight, fits an int64, because apply refuses a sum that addInt64 reports as
\* overflowing.
THEOREM TypeCorrect == Spec => []TypeOK
<1>1. Init => TypeInv
  BY TypeInit, Zenon
<1>2. TypeInv /\ [Next]_vars => TypeInv'
  BY TypeStep, Zenon
<1>3. TypeInv => TypeOK
  BY Zenon DEF TypeInv
<1> QED BY <1>1, <1>2, <1>3, PTL DEF Spec

-----------------------------------------------------------------------------
(* The inductive invariant *)

Active(s) == pc[s] \in {"lock", "apply"}

\* The accounts of the current posting that LockAccounts has locked.
Held(s) == AccountIDs(Current(s)) \ toLock[s]

AllOn(a) == {e \in entries : e.account = a}

DraftsOn(s, a) == {d \in drafts[s] : d.account = a}

IdleHoldsNothing == \A s \in Session : pc[s] = "idle" => \A a \in Account : lock[a] # s

AppliesLocked == \A s \in Session : pc[s] = "apply" => toLock[s] = {}

HeldIsLocked ==
  \A s \in Session : Active(s) =>
    \A a \in Held(s) : lock[a] = s /\ running[s][a].version = row[a].version

FreeIsCommitted == \A a \in Account : lock[a] = None => row[a] = committed[a]

\* A session works only on rows it has locked, and a row nobody has locked is
\* the committed one.
LockInv == IdleHoldsNothing /\ AppliesLocked /\ HeldIsLocked /\ FreeIsCommitted

\* Entries belong to transactions, uncommitted entries to the session that has
\* locked their account, and they come after the committed ones.
EntryInv ==
  /\ \A e \in entries : txns[e.txn] # None /\ e.id <= nextEntry
  /\ \A s \in Session : \A t \in live[s] : txns[t] # None
  /\ \A r, s \in Session : r # s => live[r] \cap live[s] = {}
  /\ \A s \in Session, e \in entries : e.txn \in live[s] => lock[e.account] = s
  /\ \A e \in CommittedEntries, f \in entries \ CommittedEntries :
       e.account = f.account => e.id < f.id

\* The entries apply has built lead from the row to the working balance.
DraftInv ==
  \A s \in Session :
    /\ pc[s] # "apply" => drafts[s] = {}
    /\ Active(s) => job[s].next <= Len(Current(s).legs) + 1
    /\ \A d \in drafts[s] :
         d.id >= 1 /\ d.id < job[s].next /\ d.account \in AccountIDs(Current(s))
    /\ Active(s) =>
         \A a \in Held(s) :
           Chain(DraftsOn(s, a), row[a].posted, running[s][a].posted)

\* Every entry written leads to the newest row, and the committed ones to the
\* committed row.
ChainInv ==
  /\ \A a \in Account : Chain(AllOn(a), 0, row[a].posted)
  /\ Replay

IInv == TypeInv /\ LockInv /\ EntryInv /\ DraftInv /\ ChainInv

\* When an entry is committed, spelled out.
LEMMA CommittedIff ==
  \A e : e \in CommittedEntries <=> e \in entries /\ \A s \in Session : e.txn \notin live[s]
  BY Zenon DEF CommittedEntries, Uncommitted

\* The inductive invariant holds in an empty ledger.
LEMMA IInit == Init => IInv
<1> SUFFICES ASSUME Init PROVE IInv
  BY Zenon
<1>1. TypeInv
  BY TypeInit, Zenon
<1>2. LockInv
  BY NoneAssumption, Zenon DEF Init, LockInv, IdleHoldsNothing, AppliesLocked,
    HeldIsLocked, FreeIsCommitted, Active
<1>3. EntryInv
  BY Zenon DEF Init, EntryInv, CommittedEntries
<1>4. DraftInv
  BY Zenon DEF Init, DraftInv, Active
<1>5. ChainInv
  <2>1. \A a \in Account : Chain({}, 0, 0)
    BY Zenon DEF Chain
  <2>2. \A a \in Account : AllOn(a) = {} /\ EntriesOf(a) = {}
    BY Zenon DEF Init, AllOn, EntriesOf, CommittedEntries
  <2>3. \A a \in Account : row[a].posted = 0 /\ committed[a].posted = 0
    BY Zenon DEF Init, ZeroBalance
  <2> QED BY <2>1, <2>2, <2>3, Zenon DEF ChainInv, Replay
<1> QED BY <1>1, <1>2, <1>3, <1>4, <1>5, Zenon DEF IInv

\* The rows a session works on, seen from the typed state.
LEMMA HeldType ==
  ASSUME TypeInv, NEW s \in Session, Active(s)
  PROVE  AccountIDs(Current(s)) \subseteq Account /\ Held(s) \subseteq Account
  BY AccountIDsType, Zenon DEF TypeInv, JobShape, Active, Held

\* Beginning an operation changes neither rows nor locks.
LEMMA ICall ==
  ASSUME IInv, NEW s \in Session, Call(s)
  PROVE  IInv'
<1>1. PICK post, then, target, final, op : Begin(s, op, post, then, target, final)
  BY Zenon DEF Call, Post, Void, Capture, Reverse
<1>2. TypeInv'
  BY TypeCall, Zenon DEF IInv
<1>3. /\ pc[s] = "idle" /\ pc'[s] = "lock"
      /\ toLock'[s] = AccountIDs(post) /\ job'[s].post = post /\ job'[s].next = 1
      /\ \A r \in Session \ {s} :
           pc'[r] = pc[r] /\ toLock'[r] = toLock[r] /\ job'[r] = job[r]
  BY <1>1, Zenon DEF Begin, IInv, TypeInv, TypeOK, JobShape
<1>4. UNCHANGED << row, committed, txns, entries, live, nextEntry, lock, running, drafts >>
  BY <1>1, Zenon DEF Begin
<1>5. Held(s)' = {} /\ \A r \in Session \ {s} : Held(r)' = Held(r)
  BY <1>3 DEF Held, Current, AccountIDs
<1>6. LockInv'
  <2>1. IdleHoldsNothing'
    BY <1>3, <1>4, Zenon DEF IInv, LockInv, IdleHoldsNothing
  <2>2. AppliesLocked'
    BY <1>3, <1>4, Zenon DEF IInv, LockInv, AppliesLocked
  <2>3. HeldIsLocked'
    BY <1>3, <1>4, <1>5 DEF IInv, LockInv, HeldIsLocked, Active
  <2>4. FreeIsCommitted'
    BY <1>4, Zenon DEF IInv, LockInv, FreeIsCommitted
  <2> QED BY <2>1, <2>2, <2>3, <2>4, Zenon DEF LockInv
<1>7. EntryInv'
  BY <1>4 DEF IInv, EntryInv, CommittedEntries, Uncommitted
<1>8. DraftInv'
  <2>1. drafts[s] = {}
    BY <1>3, Zenon DEF IInv, DraftInv
  <2>2. post.legs \in Seq(Leg)
    BY <1>1, ValidateGivesLegs, Zenon DEF Begin
  <2>3. ASSUME NEW r \in Session, r # s
        PROVE  /\ pc'[r] # "apply" => drafts'[r] = {}
               /\ Active(r)' => job'[r].next <= Len(Current(r)'.legs) + 1
               /\ \A d \in drafts'[r] : /\ d.id >= 1 /\ d.id < job'[r].next
                                        /\ d.account \in AccountIDs(Current(r))'
               /\ Active(r)' =>
                    \A a \in Held(r)' :
                      Chain(DraftsOn(r, a), row[a].posted, running[r][a].posted)'
    BY <1>3, <1>4, <1>5, <2>3, ZenonT(30) DEF IInv, DraftInv, DraftsOn, Active, Current
  <2> QED BY <1>3, <1>4, <1>5, <2>1, <2>2, <2>3 DEF DraftInv, Current
<1>9. ChainInv'
  BY <1>4, Zenon DEF IInv, ChainInv, Replay, AllOn, EntriesOf, CommittedEntries,
    Uncommitted
<1> QED BY <1>2, <1>6, <1>7, <1>8, <1>9, Zenon DEF IInv

\* Locking a row gives the session a fresh working copy of it.
LEMMA ILockRow ==
  ASSUME IInv, NEW s \in Session, LockRow(s)
  PROVE  IInv'
<1>1. PICK a \in toLock[s] :
        /\ CanLock(s, a)
        /\ lock' = [lock EXCEPT ![a] = s]
        /\ running' = [running EXCEPT ![s][a] = row[a]]
        /\ toLock' = [toLock EXCEPT ![s] = @ \ {a}]
        /\ pc' = [pc EXCEPT ![s] = IF toLock[s] = {a} THEN "apply" ELSE @]
  BY ZenonT(30) DEF LockRow
<1>2. UNCHANGED << row, committed, txns, entries, live, nextEntry, job, drafts >>
  BY Zenon DEF LockRow
<1>3. TypeInv'
  BY TypeLockRow, Zenon DEF IInv
<1>4. pc[s] = "lock" /\ a \in Account /\ Active(s) /\ drafts[s] = {}
  BY Zenon DEF IInv, TypeInv, TypeOK, LockRow, Active, DraftInv
<1>5. /\ \A r \in Session \ {s} :
           pc'[r] = pc[r] /\ toLock'[r] = toLock[r] /\ running'[r] = running[r]
      /\ toLock'[s] = toLock[s] \ {a}
      /\ pc'[s] = IF toLock[s] = {a} THEN "apply" ELSE "lock"
      /\ running'[s][a] = row[a]
      /\ \A b \in Account \ {a} : running'[s][b] = running[s][b] /\ lock'[b] = lock[b]
      /\ lock'[a] = s
  BY <1>1, <1>4, Zenon DEF IInv, TypeInv, TypeOK
<1>6. \A r \in Session : /\ Current(r)' = Current(r)
                         /\ AccountIDs(Current(r))' = AccountIDs(Current(r))
  BY <1>2, Zenon DEF Current, AccountIDs
<1>7. /\ Held(s)' \subseteq Held(s) \cup {a}
      /\ \A r \in Session \ {s} : Held(r)' = Held(r)
  BY <1>5, <1>6, Zenon DEF Held
\* Nobody else works on the row just locked.
<1>8. \A r \in Session \ {s} : lock[a] # r /\ (Active(r) => a \notin Held(r))
  BY <1>1, <1>4, NoneAssumption DEF CanLock, IInv, LockInv, IdleHoldsNothing, HeldIsLocked
<1>9. LockInv'
  <2>1. IdleHoldsNothing'
    BY <1>4, <1>5 DEF IInv, LockInv, IdleHoldsNothing
  <2>2. AppliesLocked'
    <3>1. AppliesLocked
      BY Zenon DEF IInv, LockInv
    <3>2. ASSUME NEW r \in Session, r # s, pc'[r] = "apply" PROVE toLock'[r] = {}
      BY <1>5, <3>1, <3>2, Zenon DEF AppliesLocked
    <3>3. pc'[s] = "apply" => toLock'[s] = {}
      BY <1>5
    <3> QED BY <3>2, <3>3, Zenon DEF AppliesLocked
  <2>3. \A r \in Session \ {s} : Active(r)' =>
          \A b \in Held(r)' : lock'[b] = r /\ running'[r][b].version = row'[b].version
    BY <1>2, <1>5, <1>7, <1>8, HeldType DEF IInv, LockInv, HeldIsLocked, Active
  <2>4. \A b \in Held(s)' : lock'[b] = s /\ running'[s][b].version = row'[b].version
    <3>1. ASSUME NEW b \in Held(s)', b # a
          PROVE  b \in Held(s) /\ b \in Account
      BY <1>4, <1>7, <3>1, HeldType, Zenon DEF IInv
    <3>2. HeldIsLocked
      BY Zenon DEF IInv, LockInv
    <3>3. ASSUME NEW b \in Held(s)', b # a
          PROVE  lock'[b] = s /\ running'[s][b].version = row'[b].version
      <4>1. lock[b] = s /\ running[s][b].version = row[b].version
        BY <1>4, <3>1, <3>2, <3>3, Zenon DEF HeldIsLocked
      <4>2. lock'[b] = lock[b] /\ running'[s][b] = running[s][b] /\ row'[b] = row[b]
        BY <1>2, <1>5, <3>1, <3>3, Zenon
      <4> QED BY <4>1, <4>2, Zenon
    <3> QED BY <1>2, <1>5, <3>3, Zenon
  <2>5. FreeIsCommitted'
    BY <1>2, <1>4, <1>5, NoneAssumption, Zenon DEF IInv, LockInv, FreeIsCommitted
  <2>6. HeldIsLocked'
    BY <2>3, <2>4, Zenon DEF HeldIsLocked
  <2> QED BY <2>1, <2>2, <2>5, <2>6, Zenon DEF LockInv
<1>10. EntryInv'
  <2>1. \A r \in Session, e \in entries : e.txn \in live[r] => lock'[e.account] = r
    <3>1. \A e \in entries : e.account \in Account
      BY Zenon DEF IInv, TypeInv, TypeOK, Entry
    <3> QED BY <1>4, <1>5, <1>8, <3>1, SMTT(30) DEF IInv, EntryInv
  <2> QED BY <1>2, <2>1, SMTT(30) DEF IInv, EntryInv, CommittedEntries, Uncommitted
<1>11. DraftInv'
  <2>1. ASSUME NEW r \in Session, r # s, Active(r)', NEW b \in Held(r)'
        PROVE  Chain(DraftsOn(r, b), row[b].posted, running[r][b].posted)'
    <3>1. Active(r) /\ b \in Held(r)
      BY <1>5, <1>7, <2>1, Zenon DEF Active
    <3>2. /\ DraftsOn(r, b)' = DraftsOn(r, b)
          /\ row'[b] = row[b] /\ running'[r][b] = running[r][b]
      BY <1>2, <1>5, <2>1, Zenon DEF DraftsOn
    <3> QED BY <3>1, <3>2, Zenon DEF IInv, DraftInv
  <2>2. ASSUME NEW b \in Held(s)'
        PROVE  Chain(DraftsOn(s, b), row[b].posted, running[s][b].posted)'
    <3>1. CASE b = a
      <4>1. DraftsOn(s, b)' = {}
        BY <1>2, <1>4, Zenon DEF DraftsOn
      <4> QED BY <1>2, <1>5, <3>1, <4>1, Zenon DEF Chain
    <3>2. CASE b # a
      BY <1>2, <1>4, <1>5, <1>7, <2>2, <3>2, HeldType, ZenonT(30) DEF IInv, DraftInv, DraftsOn
    <3> QED BY <3>1, <3>2, Zenon
  <2>3. ASSUME NEW r \in Session
        PROVE  /\ pc'[r] # "apply" => drafts'[r] = {}
               /\ Active(r)' => job'[r].next <= Len(Current(r)'.legs) + 1
               /\ \A d \in drafts'[r] : /\ d.id >= 1 /\ d.id < job'[r].next
                                        /\ d.account \in AccountIDs(Current(r))'
    BY <1>2, <1>4, <1>5, <1>6, Zenon DEF IInv, DraftInv, Active
  <2> QED BY <2>1, <2>2, <2>3, Zenon DEF DraftInv
<1>12. ChainInv'
  BY <1>2, Zenon DEF IInv, ChainInv, Replay, AllOn, EntriesOf, CommittedEntries, Uncommitted
<1> QED BY <1>3, <1>9, <1>10, <1>11, <1>12, Zenon DEF IInv

-----------------------------------------------------------------------------
(* The loop of apply *)

\* What the loop of apply adds to the drafts continues the chain of its account.
LEMMA AppliedChain ==
  ASSUME TypeInv, NEW s \in Session, pc[s] = "apply",
         job[s].next <= Len(Current(s).legs), EntryAllowed(s)
  PROVE  /\ DraftEntry(s).after = Applied(s).posted
         /\ Applied(s).posted =
              running[s][NextLeg(s).account].posted + PostedDelta(DraftEntry(s))
         /\ DraftEntry(s).account = NextLeg(s).account
         /\ DraftEntry(s).id = job[s].next
<1> DEFINE b == running[s][NextLeg(s).account]
<1>1. NextLeg(s) \in Leg /\ SignedDelta(NextLeg(s)) \in Int64
  BY NextLegType, Zenon
<1>2. b \in Balance
  BY <1>1, Zenon DEF TypeInv, TypeOK, Leg
<1>3. SignedDelta(DraftEntry(s)) = SignedDelta(NextLeg(s))
  BY Zenon DEF SignedDelta, DraftEntry
<1>4. CASE Current(s).pending
  <2>1. PostedDelta(DraftEntry(s)) = 0
    BY <1>4, Zenon DEF PostedDelta, DraftEntry
  <2>2. Applied(s).posted = b.posted
    BY <1>2, <1>4, Zenon DEF Applied, WorkingBalance, Balance
  <2>3. b.posted \in Int
    BY <1>2 DEF Balance, Int64, MinInt64
  <2> QED BY <2>1, <2>2, <2>3 DEF DraftEntry
<1>5. CASE ~ Current(s).pending
  <2>1. PostedDelta(DraftEntry(s)) = SignedDelta(NextLeg(s))
    BY <1>3, <1>5, Zenon DEF PostedDelta, DraftEntry
  <2>2. Applied(s).posted = Moved(s).val
    BY <1>2, <1>5, Zenon DEF Applied, WorkingBalance, Balance
  <2>3. Moved(s).val = b.posted + SignedDelta(NextLeg(s))
    BY <1>1, <1>2, <1>5, AddInt64Exact, Zenon DEF Moved, WorkingBalance, EntryAllowed, Balance
  <2> QED BY <2>1, <2>2, <2>3, Zenon DEF DraftEntry
<1> QED BY <1>4, <1>5, Zenon

\* One iteration of apply extends the chain of drafts on the account of the leg.
LEMMA IApplyEntry ==
  ASSUME IInv, NEW s \in Session, ApplyEntry(s)
  PROVE  IInv'
<1> DEFINE acc == NextLeg(s).account
           d0 == DraftEntry(s)
<1>1. /\ pc[s] = "apply" /\ job[s].next <= Len(Current(s).legs) /\ EntryAllowed(s)
      /\ TypeInv /\ Active(s) /\ toLock[s] = {}
  BY Zenon DEF ApplyEntry, IInv, Active, LockInv, AppliesLocked
<1>2. UNCHANGED << row, committed, txns, entries, live, nextEntry, lock, pc, toLock >>
  BY Zenon DEF ApplyEntry
<1>3. TypeInv'
  BY TypeApplyEntry, Zenon DEF IInv
<1>4. /\ acc \in Account /\ acc \in AccountIDs(Current(s))
      /\ d0 \in Draft /\ Applied(s) \in Balance
      /\ Applied(s).version = running[s][acc].version
  <2>1. job[s].next \in DOMAIN Current(s).legs
    BY <1>1 DEF TypeInv, TypeOK, JobShape
  <2> QED BY <1>1, <2>1, NextLegType, AppliedType, ZenonT(30) DEF Leg, AccountIDs, NextLeg
<1>5. /\ job'[s].post = job[s].post /\ job'[s].next = job[s].next + 1
      /\ \A r \in Session \ {s} :
           job'[r] = job[r] /\ drafts'[r] = drafts[r] /\ running'[r] = running[r]
      /\ drafts'[s] = drafts[s] \cup {d0}
      /\ running'[s][acc] = Applied(s)
      /\ \A b \in Account \ {acc} : running'[s][b] = running[s][b]
  BY <1>1, <1>4 DEF ApplyEntry, TypeInv, TypeOK, JobShape
<1>6. \A r \in Session : /\ Current(r)' = Current(r)
                         /\ AccountIDs(Current(r))' = AccountIDs(Current(r))
                         /\ Held(r)' = Held(r) /\ Active(r)' = Active(r)
  BY <1>2, <1>5 DEF Current, AccountIDs, Held, Active
<1>7. LockInv'
  <2>1. ASSUME NEW r \in Session, Active(r), NEW b \in Held(r)
        PROVE  running'[r][b].version = running[r][b].version
    BY <1>1, <1>4, <1>5, <2>1, HeldType, Zenon
  <2>2. IdleHoldsNothing' /\ AppliesLocked' /\ FreeIsCommitted'
    BY <1>2, Zenon DEF IInv, LockInv, IdleHoldsNothing, AppliesLocked, FreeIsCommitted
  <2>3. HeldIsLocked'
    BY <1>2, <1>6, <2>1 DEF IInv, LockInv, HeldIsLocked
  <2> QED BY <2>2, <2>3, Zenon DEF LockInv
<1>8. EntryInv'
  BY <1>2 DEF IInv, EntryInv, CommittedEntries, Uncommitted
<1>9. DraftInv'
  <2>1. ASSUME NEW r \in Session, Active(r)', NEW b \in Held(r)', r # s \/ b # acc
        PROVE  Chain(DraftsOn(r, b), row[b].posted, running[r][b].posted)'
    <3>1. Active(r) /\ b \in Held(r) /\ b \in Account
      BY <1>1, <1>6, <2>1, HeldType, Zenon
    <3>2. d0.account = acc
      BY Zenon DEF DraftEntry
    <3>3. /\ DraftsOn(r, b)' = DraftsOn(r, b)
          /\ row'[b] = row[b] /\ running'[r][b] = running[r][b]
      BY <1>2, <1>5, <2>1, <3>1, <3>2, Zenon DEF DraftsOn
    <3> QED BY <3>1, <3>3, Zenon DEF IInv, DraftInv
  <2>2. Chain({d \in drafts'[s] : d.account = acc}, row'[acc].posted, running'[s][acc].posted)
    <3>1. Chain(DraftsOn(s, acc), row[acc].posted, running[s][acc].posted)
      BY <1>1, <1>4, Zenon DEF IInv, DraftInv, Held
    <3>2. /\ row[acc].posted \in Int /\ running[s][acc].posted \in Int
          /\ Applied(s).posted \in Int
      <4>1. \A b \in Balance : b.posted \in Int
        BY MaxInt64Assumption DEF Balance, Int64, MinInt64
      <4>2. row[acc] \in Balance /\ running[s][acc] \in Balance /\ Applied(s) \in Balance
        BY <1>1, <1>4, Zenon DEF TypeInv, TypeOK
      <4> QED BY <4>1, <4>2, Zenon
    <3>3. /\ d0.account = acc /\ d0.id = job[s].next /\ d0.after = Applied(s).posted
          /\ d0.after = running[s][acc].posted + PostedDelta(d0)
      BY <1>1, AppliedChain, Zenon
    <3>4. \A d \in DraftsOn(s, acc) : d.id \in Int /\ d.id < d0.id
      BY <1>1, <3>3 DEF DraftsOn, IInv, DraftInv, TypeInv, TypeOK, Draft
    <3>5. d0.id \in Int
      BY <1>4 DEF Draft
    <3> HIDE DEF d0, acc
    <3>6. Chain({d0}, running[s][acc].posted, d0.after)
      BY <3>2, <3>3, <3>5, ChainOne, Zenon
    <3>7. Chain(DraftsOn(s, acc) \cup {d0}, row[acc].posted, Applied(s).posted)
      <4>1. \A d \in DraftsOn(s, acc) \cup {d0} : d.id \in Int
        BY <3>4, <3>5, Zenon
      <4>2. \A d \in DraftsOn(s, acc), e \in {d0} : d.id < e.id
        BY <3>4, Zenon
      <4>3. d0.after \in Int
        BY <3>2, <3>3, Zenon
      <4> QED BY <3>1, <3>2, <3>3, <3>6, <4>1, <4>2, <4>3, ChainConcat, Zenon
    <3>8. {d \in drafts'[s] : d.account = acc} = DraftsOn(s, acc) \cup {d0}
      BY <1>5, <3>3, Zenon DEF DraftsOn
    <3> QED BY <1>2, <1>5, <3>7, <3>8, Zenon
  <2>3. ASSUME NEW r \in Session
        PROVE  /\ pc'[r] # "apply" => drafts'[r] = {}
               /\ Active(r)' => job'[r].next <= Len(Current(r)'.legs) + 1
               /\ \A d \in drafts'[r] : /\ d.id >= 1 /\ d.id < job'[r].next
                                        /\ d.account \in AccountIDs(Current(r))'
    <3>1. CASE r # s
      BY <1>2, <1>5, <1>6, <3>1, Zenon DEF IInv, DraftInv
    <3>2. CASE r = s
      <4>1. d0.id = job[s].next /\ d0.account = acc
        BY Zenon DEF DraftEntry
      <4>2. \A d \in drafts[s] : d.id \in Int
        BY DEF IInv, TypeInv, TypeOK, Draft
      <4>3. job[s].next \in Int /\ job[s].next >= 1 /\ Len(Current(s).legs) \in Int
        BY <1>1 DEF TypeInv, TypeOK, JobShape
      <4>4. \A d \in drafts[s] : /\ d.id >= 1 /\ d.id < job[s].next
                                 /\ d.account \in AccountIDs(Current(s))
        BY Zenon DEF IInv, DraftInv
      <4> HIDE DEF d0, acc
      <4>5. \A d \in drafts'[s] : /\ d.id >= 1 /\ d.id < job'[s].next
                                  /\ d.account \in AccountIDs(Current(s))
        BY <1>4, <1>5, <4>1, <4>2, <4>3, <4>4
      <4>6. pc'[s] = "apply"
        BY <1>1, <1>2, Zenon
      <4>7. job'[s].next <= Len(Current(s)'.legs) + 1
        BY <1>1, <1>5, <1>6, <4>3
      <4>8. AccountIDs(Current(s))' = AccountIDs(Current(s))
        BY <1>6, Zenon
      <4> QED BY <3>2, <4>5, <4>6, <4>7, <4>8, Zenon
    <3> QED BY <3>1, <3>2, Zenon
  <2>4. ASSUME NEW r \in Session, Active(r)', NEW b \in Held(r)'
        PROVE  Chain(DraftsOn(r, b), row[b].posted, running[r][b].posted)'
    <3>1. CASE r = s /\ b = acc
      BY <2>2, <3>1, Zenon DEF DraftsOn
    <3> QED BY <2>1, <2>4, <3>1, Zenon
  <2> QED BY <2>3, <2>4, Zenon DEF DraftInv
<1>10. ChainInv'
  BY <1>2, Zenon DEF IInv, ChainInv, Replay, AllOn, EntriesOf, CommittedEntries, Uncommitted
<1> QED BY <1>3, <1>7, <1>8, <1>9, <1>10, Zenon DEF IInv

-----------------------------------------------------------------------------
(* The write of a posting *)

\* On an account of the posting, the write adds the drafts renumbered: entries
\* that come after all others and lead from the row to the working balance.
LEMMA WroteOn ==
  ASSUME IInv, NEW s \in Session, Write(s), NEW a \in AccountIDs(Current(s))
  PROVE  \E F : /\ AllOn(a)' = AllOn(a) \cup F
                /\ Chain(F, row[a].posted, running[s][a].posted)
                /\ \A f \in F : f.id \in Int /\ nextEntry < f.id
                /\ DraftsOn(s, a) # {} => F # {}
<1>1. PICK t \in TxnId : Wrote(s, t)
  BY Zenon DEF Write, Wrote
<1> DEFINE D == DraftsOn(s, a)
           F == Numbered(D, nextEntry, t)
<1>2. /\ Active(s) /\ a \in Held(s) /\ a \in Account /\ nextEntry \in Int
  <2>1. Active(s) /\ toLock[s] = {}
    BY Zenon DEF Write, IInv, LockInv, AppliesLocked, Active
  <2> QED BY <2>1, HeldType DEF IInv, TypeInv, TypeOK, Held
<1>3. \A d \in D : d.id \in Int /\ d.id >= 1
  BY DEF DraftsOn, IInv, DraftInv, TypeInv, TypeOK, Draft
<1>4. /\ Chain(D, row[a].posted, running[s][a].posted)
      /\ row[a].posted \in Int /\ running[s][a].posted \in Int
  BY <1>2 DEF IInv, DraftInv, TypeInv, TypeOK, Balance, Int64, MinInt64
<1>5. Chain(F, row[a].posted, running[s][a].posted)
  <2> HIDE DEF D
  <2> QED BY <1>2, <1>3, <1>4, ChainShift, Zenon
<1>6. \A f \in F : f.id \in Int /\ nextEntry < f.id
  <2>1. \A f \in F : \E d \in D : f.id = nextEntry + d.id
    BY DEF Numbered
  <2> HIDE DEF D, F
  <2> QED BY <1>2, <1>3, <2>1
<1>7. AllOn(a)' = AllOn(a) \cup F
  <2>1. entries' = entries \cup Numbered(drafts[s], nextEntry, t)
    BY <1>1, Zenon DEF Wrote, Numbered
  <2>2. {e \in Numbered(drafts[s], nextEntry, t) : e.account = a} = F
    BY DEF Numbered, DraftsOn
  <2> QED BY <2>1, <2>2, Zenon DEF AllOn
<1>8. D # {} => F # {}
  BY ZenonT(30) DEF Numbered
<1> HIDE DEF D, F
<1>9. D = DraftsOn(s, a)
  BY Zenon DEF D
<1> QED BY <1>5, <1>6, <1>7, <1>8, <1>9, Zenon

\* Writing a posting turns its drafts into entries that continue each chain.
LEMMA IWrite ==
  ASSUME IInv, NEW s \in Session, Write(s)
  PROVE  IInv' /\ CommittedEntries' = CommittedEntries
<1> DEFINE A == AccountIDs(Current(s))
           n == Len(Current(s).legs)
<1>1. PICK t \in TxnId : Wrote(s, t)
  BY Zenon DEF Write, Wrote
<1> DEFINE R(d) == [id |-> nextEntry + d.id, txn |-> t, account |-> d.account,
                    direction |-> d.direction, amount |-> d.amount,
                    pending |-> d.pending, after |-> d.after]
           New == {R(d) : d \in drafts[s]}
<1>2. /\ pc[s] = "apply" /\ Active(s) /\ toLock[s] = {} /\ A = Held(s) /\ A \subseteq Account
      /\ n \in Nat /\ nextEntry \in Nat /\ nextEntry' = nextEntry + n
  <2>1. pc[s] = "apply" /\ Active(s) /\ toLock[s] = {}
    BY Zenon DEF Write, IInv, LockInv, AppliesLocked, Active
  <2>2. n \in Nat /\ nextEntry \in Nat
    BY <2>1 DEF IInv, TypeInv, TypeOK, JobShape
  <2> QED BY <2>1, <2>2, HeldType, Zenon DEF Write, IInv, Held
<1>3. TypeInv'
  BY TypeWrite, Zenon DEF IInv
<1>4. /\ \A r \in Session \ {s} :
           /\ pc'[r] = pc[r] /\ toLock'[r] = toLock[r] /\ job'[r] = job[r]
           /\ drafts'[r] = drafts[r] /\ live'[r] = live[r]
      /\ drafts'[s] = {} /\ live'[s] = live[s] \cup {t}
      /\ job'[s].post = job[s].then /\ job'[s].next = 1
      /\ pc'[s] = IF job[s].then = None THEN "commit" ELSE "lock"
      /\ toLock'[s] = IF job[s].then = None THEN {} ELSE AccountIDs(job[s].then)
      /\ UNCHANGED << committed, lock, running >>
  BY <1>1 DEF Write, Wrote, IInv, TypeInv, TypeOK, JobShape
<1>5. /\ \A a \in A : /\ row'[a].posted = running[s][a].posted
                      /\ lock[a] = s
      /\ \A a \in Account \ A : row'[a] = row[a]
  <2>1. \A a \in Account : running[s][a] \in Balance
    BY Zenon DEF IInv, TypeInv, TypeOK
  <2>2. \A b \in Balance : NextVersion(b).posted = b.posted
    BY Zenon DEF Balance, NextVersion
  <2>3. \A a \in A : row'[a] = NextVersion(running[s][a])
    BY <1>2, Zenon DEF Write
  <2>4. \A a \in Account \ A : row'[a] = row[a]
    BY Zenon DEF Write
  <2>5. \A a \in A : lock[a] = s
    BY <1>2, Zenon DEF IInv, LockInv, HeldIsLocked
  <2> QED BY <1>2, <2>1, <2>2, <2>3, <2>4, <2>5, Zenon
<1>6. /\ entries' = entries \cup New
      /\ \A f \in New : \E d \in drafts[s] : f = R(d)
      /\ \A d \in drafts[s] : R(d) \in New
  BY <1>1, Zenon DEF Wrote
<1>7. \A d \in drafts[s] : /\ d.id \in Int /\ d.id >= 1 /\ d.id <= n /\ d.account \in A
  <2>1. \A d \in drafts[s] : d.id \in Int /\ job[s].next \in Int
    BY DEF IInv, TypeInv, TypeOK, Draft
  <2>2. job[s].next <= n + 1
    BY <1>2, Zenon DEF IInv, DraftInv
  <2>3. \A d \in drafts[s] : d.id >= 1 /\ d.id < job[s].next /\ d.account \in A
    BY Zenon DEF IInv, DraftInv
  <2> QED BY <1>2, <2>1, <2>2, <2>3
<1>8. \A f \in New : /\ f.txn = t /\ f.account \in A /\ lock[f.account] = s
                     /\ f.id \in Int /\ nextEntry < f.id /\ f.id <= nextEntry'
  <2>1. \A d \in drafts[s] : /\ R(d).txn = t /\ R(d).account = d.account
                             /\ R(d).id = nextEntry + d.id
    BY Zenon
  <2> HIDE DEF R, New
  <2> QED BY <1>2, <1>5, <1>6, <1>7, <2>1
<1>9. /\ \A u \in TxnId : txns[u] # None => txns'[u] # None /\ u # t
      /\ txns'[t] # None
  <2> DEFINE T == [legs |-> Current(s).legs,
                   status |-> IF Current(s).pending THEN "pending" ELSE "posted",
                   pending |-> Current(s).pending,
                   ref |-> Current(s).ref,
                   role |-> Current(s).role,
                   releases |-> Current(s).releases,
                   reverses |-> Current(s).reverses]
  <2>1. T \in Transaction
    BY <1>2, Zenon DEF IInv, TypeInv, JobShape, Linked, Transaction, Status
  <2>2. txns[t] = None /\ txns' = [txns EXCEPT ![t] = T]
    BY <1>1, Zenon DEF Wrote
  <2>3. T # None
    BY <2>1, NoRowAssumption, Zenon
  <2> HIDE DEF T
  <2> QED BY <2>2, <2>3, Zenon DEF IInv, TypeInv, TypeOK
<1>10. CommittedEntries' = CommittedEntries
  <2>1. \A e \in entries : e.txn \in TxnId /\ e.txn # t
    BY <1>9, Zenon DEF IInv, EntryInv, TypeInv, TypeOK, Entry
  <2>2. \A e : e \in CommittedEntries' <=>
          e \in entries' /\ \A r \in Session : e.txn \notin live'[r]
    BY Zenon DEF CommittedEntries, Uncommitted
  <2> HIDE DEF New
  <2>3. \A e : e \in CommittedEntries' <=> e \in CommittedEntries
    BY <1>4, <1>6, <1>8, <2>1, <2>2, CommittedIff
  <2>4. CommittedEntries' \subseteq entries' /\ CommittedEntries \subseteq entries
    BY Zenon DEF CommittedEntries
  <2> QED BY <2>3, <2>4, Zenon
<1>11. /\ \A r \in Session \ {s} : Held(r)' = Held(r) /\ Active(r)' = Active(r)
       /\ Active(s)' => Held(s)' = {}
  <2>1. \A r \in Session \ {s} : Held(r)' = Held(r) /\ Active(r)' = Active(r)
    <3> SUFFICES ASSUME NEW r \in Session \ {s}
                 PROVE  Held(r)' = Held(r) /\ Active(r)' = Active(r)
      OBVIOUS
    <3>1. pc'[r] = pc[r] /\ toLock'[r] = toLock[r] /\ job'[r] = job[r]
      BY <1>4, Zenon
    <3>2. Held(r)' = Held(r)
      BY <3>1 DEF Held, Current, AccountIDs
    <3> QED BY <3>1, <3>2, Zenon DEF Active
  <2>2. Active(s)' => toLock'[s] = AccountIDs(job'[s].post)
    BY <1>4, Zenon DEF Active
  <2>3. toLock'[s] = AccountIDs(job'[s].post) => Held(s)' = {}
    BY Zenon DEF Held, Current, AccountIDs
  <2> QED BY <2>1, <2>2, <2>3, Zenon
\* The accounts other sessions hold are not written.
<1>12. \A r \in Session \ {s} : Active(r) => \A a \in Held(r) :
         lock[a] = r /\ a \in Account /\ a \notin A
  BY <1>5, HeldType DEF IInv, LockInv, HeldIsLocked
<1>13. LockInv'
  <2>1. \A r \in Session : pc'[r] = "idle" => \A a \in Account : lock'[a] # r
    BY <1>2, <1>4, Zenon DEF IInv, LockInv, IdleHoldsNothing
  <2>2. \A r \in Session : pc'[r] = "apply" => toLock'[r] = {}
    BY <1>4, Zenon DEF IInv, LockInv, AppliesLocked
  <2>3. \A r \in Session : Active(r)' =>
          \A a \in Held(r)' : lock'[a] = r /\ running'[r][a].version = row'[a].version
    <3>1. ASSUME NEW r \in Session \ {s}, Active(r)', NEW a \in Held(r)'
          PROVE  lock'[a] = r /\ running'[r][a].version = row'[a].version
      <4>1. Active(r) /\ a \in Held(r)
        BY <1>11, <3>1, Zenon
      <4>2. lock[a] = r /\ row'[a] = row[a]
        BY <1>5, <1>12, <4>1, Zenon
      <4>3. running[r][a].version = row[a].version
        BY <4>1, Zenon DEF IInv, LockInv, HeldIsLocked
      <4> QED BY <1>4, <4>2, <4>3, Zenon
    <3>2. Active(s)' => Held(s)' = {}
      BY <1>11, Zenon
    <3> QED BY <3>1, <3>2
  <2>4. \A a \in Account : lock'[a] = None => row'[a] = committed'[a]
    BY <1>4, <1>5, NoneAssumption, Zenon DEF IInv, LockInv, FreeIsCommitted
  <2> QED BY <2>1, <2>2, <2>3, <2>4, Zenon DEF LockInv, IdleHoldsNothing, AppliesLocked,
    HeldIsLocked, FreeIsCommitted
<1>14. EntryInv'
  <2>1. \A e \in entries : e.txn \in TxnId /\ e.id \in Int /\ e.id <= nextEntry
    BY DEF IInv, EntryInv, TypeInv, TypeOK, Entry
  <2>2. \A r \in Session : live[r] \subseteq TxnId
    BY Zenon DEF IInv, TypeInv, TypeOK
  <2>3. \A e \in entries : txns[e.txn] # None
    BY Zenon DEF IInv, EntryInv
  <2> HIDE DEF New, n
  <2>4. \A e \in entries' : txns'[e.txn] # None /\ e.id <= nextEntry'
    <3>1. \A e \in entries' : txns'[e.txn] # None
      BY <1>6, <1>8, <1>9, <2>1, <2>3, Zenon
    <3>2. \A e \in entries : e.id <= nextEntry'
      BY <1>2, <2>1
    <3> QED BY <1>6, <1>8, <3>1, <3>2, Zenon
  <2>5. \A r \in Session : \A u \in live'[r] : txns'[u] # None
    <3>1. \A r \in Session : \A u \in live'[r] : u \in live[r] \/ u = t
      BY <1>4, Zenon
    <3>2. \A r \in Session : \A u \in live[r] : txns[u] # None
      BY Zenon DEF IInv, EntryInv
    <3> QED BY <1>9, <2>2, <3>1, <3>2, Zenon
  <2>6. \A q, r \in Session : q # r => live'[q] \cap live'[r] = {}
    <3>1. \A r \in Session : t \notin live[r]
      BY <1>9, <2>2, Zenon DEF IInv, EntryInv
    <3>2. \A q, r \in Session : q # r => live[q] \cap live[r] = {}
      BY Zenon DEF IInv, EntryInv
    <3>3. \A r \in Session : live'[r] = IF r = s THEN live[r] \cup {t} ELSE live[r]
      BY <1>4, Zenon
    <3> QED BY <3>1, <3>2, <3>3, ZenonT(30)
  <2>7. \A r \in Session, e \in entries' : e.txn \in live'[r] => lock'[e.account] = r
    <3>1. \A r \in Session \ {s} : t \notin live'[r]
      <4>1. \A r \in Session : t \notin live[r]
        BY <1>9, <2>2, Zenon DEF IInv, EntryInv
      <4> QED BY <1>4, <4>1, Zenon
    <3>2. \A e \in entries : e.txn # t
      BY <1>9, <2>1, <2>3, Zenon
    <3>3. \A r \in Session, e \in entries : e.txn \in live[r] => lock[e.account] = r
      BY Zenon DEF IInv, EntryInv
    <3>4. \A r \in Session, e \in entries : e.txn \in live'[r] => e.txn \in live[r]
      BY <1>4, <3>2, Zenon
    <3>5. lock' = lock
      BY <1>4, Zenon
    <3>6. \A r \in Session, e \in New : e.txn \in live'[r] => r = s /\ lock[e.account] = s
      BY <1>8, <3>1, Zenon
    <3>7. \A e \in entries' : e \in entries \/ e \in New
      BY <1>6, Zenon
    <3> QED BY <3>3, <3>4, <3>5, <3>6, <3>7, Zenon
  <2>8. \A e \in CommittedEntries', f \in entries' \ CommittedEntries' :
          e.account = f.account => e.id < f.id
    <3>1. CommittedEntries \subseteq entries
      BY Zenon DEF CommittedEntries
    <3>2. \A e \in CommittedEntries, f \in New : e.id < f.id
      BY <1>2, <1>8, <2>1, <3>1
    <3>3. \A e \in CommittedEntries, f \in entries \ CommittedEntries :
            e.account = f.account => e.id < f.id
      BY Zenon DEF IInv, EntryInv
    <3> QED BY <1>6, <1>10, <3>2, <3>3, Zenon
  <2> QED BY <2>4, <2>5, <2>6, <2>7, <2>8, Zenon DEF EntryInv
<1>15. DraftInv'
  <2>1. ASSUME NEW r \in Session, r # s, Active(r)', NEW b \in Held(r)'
        PROVE  Chain(DraftsOn(r, b), row[b].posted, running[r][b].posted)'
    <3>1. Active(r) /\ b \in Held(r)
      BY <1>11, <2>1, Zenon
    <3>2. /\ DraftsOn(r, b)' = DraftsOn(r, b)
          /\ row'[b] = row[b] /\ running'[r][b] = running[r][b]
      BY <1>4, <1>5, <1>12, <2>1, <3>1, Zenon DEF DraftsOn
    <3> QED BY <3>1, <3>2, Zenon DEF IInv, DraftInv
  <2>2. ASSUME NEW r \in Session
        PROVE  /\ pc'[r] # "apply" => drafts'[r] = {}
               /\ Active(r)' => job'[r].next <= Len(Current(r)'.legs) + 1
               /\ \A d \in drafts'[r] : /\ d.id >= 1 /\ d.id < job'[r].next
                                        /\ d.account \in AccountIDs(Current(r))'
    <3>1. CASE r # s
      <4>1. /\ pc'[r] = pc[r] /\ drafts'[r] = drafts[r] /\ job'[r] = job[r]
            /\ Active(r)' = Active(r)
        BY <1>4, <1>11, <3>1, Zenon
      <4>2. Current(r)' = Current(r)
        BY <4>1, Zenon DEF Current
      <4>3. AccountIDs(Current(r))' = AccountIDs(Current(r))
        BY <4>2, Zenon DEF AccountIDs
      <4> QED BY <4>1, <4>2, <4>3, ZenonT(30) DEF IInv, DraftInv
    <3>2. CASE r = s
      <4>1. Active(s)' => Len(Current(s)'.legs) \in Nat
        BY <1>3 DEF TypeInv, JobShape, Active
      <4>2. drafts'[s] = {} /\ job'[s].next = 1
        BY <1>4, Zenon
      <4> QED BY <3>2, <4>1, <4>2
    <3> QED BY <3>1, <3>2, Zenon
  <2> QED BY <1>11, <2>1, <2>2, Zenon DEF DraftInv
<1>16. ChainInv'
  <2>1. ASSUME NEW a \in Account
        PROVE  Chain(AllOn(a), 0, row[a].posted)'
    <3>1. CASE a \in A
      <4>1. PICK F : /\ AllOn(a)' = AllOn(a) \cup F
                     /\ Chain(F, row[a].posted, running[s][a].posted)
                     /\ \A f \in F : f.id \in Int /\ nextEntry < f.id
        BY <3>1, WroteOn, Zenon
      <4>2. Chain(AllOn(a), 0, row[a].posted)
        BY Zenon DEF IInv, ChainInv
      <4>3. row[a].posted \in Int /\ running[s][a].posted \in Int
        BY SMTT(30) DEF IInv, TypeInv, TypeOK, Balance, Int64, MinInt64
      <4>4. \A e \in AllOn(a) : e.id \in Int /\ e.id <= nextEntry
        BY SMTT(30) DEF AllOn, IInv, EntryInv, TypeInv, TypeOK, Entry
      <4> HIDE DEF New, n, R
      <4>5. \A e \in AllOn(a), f \in F : e.id < f.id
        <5>1. nextEntry \in Int
          BY <1>2
        <5> QED BY <4>1, <4>4, <5>1, SMTT(30)
      <4>6. \A e \in AllOn(a) \cup F : e.id \in Int
        BY <4>1, <4>4, Zenon
      <4>7. Chain(AllOn(a) \cup F, 0, running[s][a].posted)
        BY <4>1, <4>2, <4>3, <4>5, <4>6, ChainConcat, Zenon
      <4> QED BY <1>5, <3>1, <4>1, <4>7, Zenon
    <3>2. CASE a \notin A
      <4> HIDE DEF New
      <4>1. AllOn(a)' = AllOn(a)
        BY <1>6, <1>8, <3>2, Zenon DEF AllOn
      <4>2. row'[a] = row[a]
        BY <1>5, <3>2, Zenon
      <4> QED BY <4>1, <4>2, Zenon DEF IInv, ChainInv
    <3> QED BY <3>1, <3>2, Zenon
  <2>2. Replay'
    BY <1>4, <1>10, Zenon DEF IInv, ChainInv, Replay, EntriesOf
  <2> QED BY <2>1, <2>2, Zenon DEF ChainInv
<1> QED BY <1>3, <1>10, <1>13, <1>14, <1>15, <1>16, Zenon DEF IInv

-----------------------------------------------------------------------------
(* The end of a transaction *)

\* The end of the transaction of s, for a step that leaves alone the rows that s
\* has not locked and keeps the transactions of the remaining entries.
LEMMA IDone ==
  ASSUME IInv, NEW s \in Session, Done(s), TypeInv',
         \A a \in Account : lock[a] # s =>
           row'[a] = row[a] /\ committed'[a] = committed[a],
         \A a \in Account : lock[a] = s => row'[a] = committed'[a],
         entries' \subseteq entries,
         \A e \in entries' : txns'[e.txn] # None,
         \A r \in Session \ {s} : \A t \in live[r] : txns'[t] # None
  PROVE  /\ LockInv' /\ DraftInv'
         /\ \A e \in entries' : txns'[e.txn] # None /\ e.id <= nextEntry'
         /\ \A r \in Session : \A t \in live'[r] : txns'[t] # None
         /\ \A q, r \in Session : q # r => live'[q] \cap live'[r] = {}
         /\ \A r \in Session, e \in entries' : e.txn \in live'[r] => lock'[e.account] = r
<1>1. /\ job'[s] = NoJob /\ pc'[s] = "idle" /\ live'[s] = {} /\ drafts'[s] = {}
      /\ \A r \in Session \ {s} :
           /\ job'[r] = job[r] /\ pc'[r] = pc[r] /\ live'[r] = live[r]
           /\ drafts'[r] = drafts[r] /\ toLock'[r] = toLock[r]
           /\ running'[r] = running[r]
      /\ nextEntry' = nextEntry
  BY DoneEffect, Zenon DEF IInv, Done
<1>2. \A a \in Account : lock'[a] = IF lock[a] = s THEN None ELSE lock[a]
  BY Zenon DEF Done, Unlocked
<1>3. \A r \in Session \ {s} :
        /\ Active(r)' = Active(r) /\ Held(r)' = Held(r)
        /\ Current(r)' = Current(r)
        /\ AccountIDs(Current(r))' = AccountIDs(Current(r))
  BY <1>1, SMTT(30) DEF Active, Held, Current, AccountIDs
<1>4. \A r \in Session \ {s} : Active(r) =>
        \A a \in Held(r) : a \in Account /\ lock[a] = r /\ row'[a] = row[a]
  BY HeldType, Zenon DEF IInv, LockInv, HeldIsLocked
<1>5. ~ Active(s)'
  BY <1>1, Zenon DEF Active
<1>6. LockInv'
  <2>1. \A r \in Session : pc'[r] = "idle" => \A a \in Account : lock'[a] # r
    BY <1>1, <1>2, NoneAssumption DEF IInv, LockInv, IdleHoldsNothing
  <2>2. \A r \in Session : pc'[r] = "apply" => toLock'[r] = {}
    BY <1>1, Zenon DEF IInv, LockInv, AppliesLocked
  <2>3. ASSUME NEW r \in Session, Active(r)', NEW a \in Held(r)'
        PROVE  lock'[a] = r /\ running'[r][a].version = row'[a].version
    <3>1. r # s /\ Active(r) /\ a \in Held(r) /\ running'[r] = running[r]
      <4>1. r # s
        BY <1>1, <2>3, Zenon DEF Active
      <4> QED BY <1>1, <1>3, <2>3, <4>1, Zenon
    <3>2. a \in Account /\ lock[a] = r /\ row'[a] = row[a]
      BY <1>4, <3>1, Zenon
    <3>3. running[r][a].version = row[a].version
      BY <3>1, Zenon DEF IInv, LockInv, HeldIsLocked
    <3>4. lock'[a] = lock[a]
      BY <1>2, <3>1, <3>2, Zenon
    <3> QED BY <3>1, <3>2, <3>3, <3>4, Zenon
  <2>4. \A a \in Account : lock'[a] = None => row'[a] = committed'[a]
    BY <1>2, Zenon DEF IInv, LockInv, FreeIsCommitted
  <2> QED BY <2>1, <2>2, <2>3, <2>4, Zenon DEF LockInv, IdleHoldsNothing, AppliesLocked,
    HeldIsLocked, FreeIsCommitted
<1>7. DraftInv'
  <2>1. ASSUME NEW r \in Session, Active(r)', NEW b \in Held(r)'
        PROVE  Chain(DraftsOn(r, b), row[b].posted, running[r][b].posted)'
    <3>1. r # s /\ Active(r) /\ b \in Held(r)
      BY <1>3, <1>5, <2>1, Zenon
    <3>2. /\ DraftsOn(r, b)' = DraftsOn(r, b)
          /\ row'[b] = row[b] /\ running'[r][b] = running[r][b]
      BY <1>1, <1>4, <3>1, Zenon DEF DraftsOn
    <3> QED BY <3>1, <3>2, Zenon DEF IInv, DraftInv
  <2>2. ASSUME NEW r \in Session
        PROVE  /\ pc'[r] # "apply" => drafts'[r] = {}
               /\ Active(r)' => job'[r].next <= Len(Current(r)'.legs) + 1
               /\ \A d \in drafts'[r] : /\ d.id >= 1 /\ d.id < job'[r].next
                                        /\ d.account \in AccountIDs(Current(r))'
    <3>1. CASE r # s
      BY <1>1, <1>3, <3>1, Zenon DEF IInv, DraftInv
    <3>2. CASE r = s
      BY <1>1, <1>5, <3>2, Zenon
    <3> QED BY <3>1, <3>2, Zenon
  <2> QED BY <2>1, <2>2, Zenon DEF DraftInv
<1>8. \A e \in entries' : e.id <= nextEntry'
  BY <1>1, Zenon DEF IInv, EntryInv
<1>9. \A r \in Session : \A t \in live'[r] : txns'[t] # None
  BY <1>1, Zenon
<1>10. \A q, r \in Session : q # r => live'[q] \cap live'[r] = {}
  <2>1. \A q, r \in Session : q # r => live[q] \cap live[r] = {}
    BY Zenon DEF IInv, EntryInv
  <2>2. \A r \in Session : live'[r] = live[r] \/ live'[r] = {}
    BY <1>1, Zenon
  <2> QED BY <2>1, <2>2, Zenon
<1>11. \A r \in Session, e \in entries' : e.txn \in live'[r] => lock'[e.account] = r
  <2>1. \A e \in entries : e.account \in Account
    BY Zenon DEF IInv, TypeInv, TypeOK, Entry
  <2>2. \A r \in Session, e \in entries : e.txn \in live[r] => lock[e.account] = r
    BY Zenon DEF IInv, EntryInv
  <2>3. \A r \in Session : \A t : t \in live'[r] => r # s /\ t \in live[r]
    BY <1>1, Zenon
  <2>4. \A a \in Account : lock[a] # s => lock'[a] = lock[a]
    BY <1>2, Zenon
  <2> QED BY <2>1, <2>2, <2>3, <2>4, Zenon
<1> QED BY <1>6, <1>7, <1>8, <1>9, <1>10, <1>11, Zenon

\* The uncommitted entries of an account that s has locked are its own, and s
\* has none on any other account.
LEMMA OwnEntries ==
  ASSUME IInv, NEW s \in Session, NEW e \in entries
  PROVE  /\ e.account \in Account
         /\ e.txn \in live[s] => lock[e.account] = s
         /\ lock[e.account] = s => (e \in CommittedEntries <=> e.txn \notin live[s])
         /\ e \in CommittedEntries => e.txn \notin live[s]
<1>1. e.account \in Account
  BY Zenon DEF IInv, TypeInv, TypeOK, Entry
<1>2. \A r \in Session : e.txn \in live[r] => lock[e.account] = r
  BY Zenon DEF IInv, EntryInv
<1> QED BY <1>1, <1>2, CommittedIff, Zenon

\* A commit publishes the entries of the session, and its rows agree with them.
LEMMA ICommit ==
  ASSUME IInv, NEW s \in Session, Commit(s)
  PROVE  /\ IInv'
         /\ \A e : e \in CommittedEntries' <=>
              e \in CommittedEntries \/ (e \in entries /\ e.txn \in live[s])
<1>1. Done(s) /\ UNCHANGED << row, entries >>
  BY Zenon DEF Commit
<1>2. TypeInv'
  BY TypeCommit, Zenon DEF IInv
<1>3. \A a \in Account : committed'[a] = IF lock[a] = s THEN row[a] ELSE committed[a]
  BY Zenon DEF Commit
<1>4. \A t \in TxnId : txns[t] # None => txns'[t] # None
  <2>1. ASSUME NEW t \in TxnId, t = job[s].target
        PROVE  [txns[t] EXCEPT !.status = job[s].final] # None
    <3>1. t # None
      BY NoneAssumption, Zenon
    <3>2. txns[t] \in Transaction /\ job[s].final \in Status
      BY <2>1, <3>1, Zenon DEF IInv, TypeInv, TypeOK, TargetOK
    <3>3. [txns[t] EXCEPT !.status = job[s].final] \in Transaction
      BY <3>2, Zenon DEF Transaction
    <3> QED BY <3>3, NoRowAssumption, Zenon
  <2> QED BY <2>1, Zenon DEF Commit
<1>5. /\ live'[s] = {} /\ \A r \in Session \ {s} : live'[r] = live[r]
  BY <1>1, DoneEffect, Zenon DEF IInv
<1>6. /\ \A e \in entries : e.txn \in TxnId /\ txns'[e.txn] # None
      /\ \A r \in Session \ {s} : \A t \in live[r] : txns'[t] # None
  BY <1>4, Zenon DEF IInv, EntryInv, TypeInv, TypeOK, Entry
<1>7. \A e : e \in CommittedEntries' <=>
        e \in CommittedEntries \/ (e \in entries /\ e.txn \in live[s])
  <2>1. \A e : e \in CommittedEntries' <=>
          e \in entries /\ \A r \in Session : e.txn \notin live'[r]
    BY <1>1, Zenon DEF CommittedEntries, Uncommitted
  <2>2. \A r \in Session : r # s => live[r] \cap live[s] = {}
    BY Zenon DEF IInv, EntryInv
  <2> QED BY <1>5, <2>1, <2>2, CommittedIff, Zenon
<1>8. /\ LockInv' /\ DraftInv'
      /\ \A e \in entries' : txns'[e.txn] # None /\ e.id <= nextEntry'
      /\ \A r \in Session : \A t \in live'[r] : txns'[t] # None
      /\ \A q, r \in Session : q # r => live'[q] \cap live'[r] = {}
      /\ \A r \in Session, e \in entries' : e.txn \in live'[r] => lock'[e.account] = r
  BY <1>1, <1>2, <1>3, <1>6, IDone, Zenon
<1>9. EntryInv'
  <2>1. ASSUME NEW e \in CommittedEntries', NEW f \in entries' \ CommittedEntries',
               e.account = f.account
        PROVE  e.id < f.id
    <3>1. e \in entries /\ f \in entries /\ f \notin CommittedEntries /\ f.txn \notin live[s]
      BY <1>1, <1>7, <2>1, CommittedIff, Zenon
    <3>2. lock[f.account] # s
      BY <3>1, OwnEntries, Zenon
    <3>3. e \in CommittedEntries
      BY <1>7, <2>1, <3>1, <3>2, OwnEntries, Zenon
    <3> QED BY <2>1, <3>1, <3>3, Zenon DEF IInv, EntryInv
  <2> QED BY <1>8, <2>1, Zenon DEF EntryInv
<1>10. ChainInv'
  <2>1. ASSUME NEW a \in Account
        PROVE  Chain(EntriesOf(a), 0, committed[a].posted)'
    <3>1. CASE lock[a] = s
      <4>1. EntriesOf(a)' = AllOn(a)
        BY <1>7, <3>1, OwnEntries, CommittedIff, Zenon DEF EntriesOf, AllOn
      <4> QED BY <1>3, <3>1, <4>1, Zenon DEF IInv, ChainInv
    <3>2. CASE lock[a] # s
      <4>1. EntriesOf(a)' = EntriesOf(a)
        BY <1>7, <3>2, OwnEntries DEF EntriesOf
      <4> QED BY <1>3, <3>2, <4>1, Zenon DEF IInv, ChainInv, Replay
    <3> QED BY <3>1, <3>2, Zenon
  <2>2. \A a \in Account : Chain(AllOn(a), 0, row[a].posted)'
    BY <1>1, Zenon DEF IInv, ChainInv, AllOn
  <2> QED BY <2>1, <2>2, Zenon DEF ChainInv, Replay
<1> QED BY <1>2, <1>7, <1>8, <1>9, <1>10, Zenon DEF IInv

\* A rollback removes the entries of the session and restores the rows they
\* were built on.
LEMMA IRollback ==
  ASSUME IInv, NEW s \in Session, Rollback(s)
  PROVE  IInv' /\ CommittedEntries' = CommittedEntries
<1>1. Done(s) /\ committed' = committed /\ entries' = {e \in entries : e.txn \notin live[s]}
  BY Zenon DEF Rollback
<1>2. TypeInv'
  BY TypeRollback, Zenon DEF IInv
<1>3. \A a \in Account : row'[a] = IF lock[a] = s THEN committed[a] ELSE row[a]
  BY Zenon DEF Rollback
<1>4. /\ live'[s] = {} /\ \A r \in Session \ {s} : live'[r] = live[r]
  BY <1>1, DoneEffect, Zenon DEF IInv
<1>5. /\ \A e \in entries' : txns'[e.txn] # None
      /\ \A r \in Session \ {s} : \A t \in live[r] : txns'[t] # None
  <2>1. \A t \in TxnId : t \notin live[s] => txns'[t] = txns[t]
    BY Zenon DEF Rollback
  <2>2. \A e \in entries : e.txn \in TxnId /\ txns[e.txn] # None
    BY Zenon DEF IInv, EntryInv, TypeInv, TypeOK, Entry
  <2>3. \A r \in Session \ {s} : \A t \in live[r] :
          t \in TxnId /\ t \notin live[s] /\ txns[t] # None
    BY Zenon DEF IInv, EntryInv, TypeInv, TypeOK
  <2> QED BY <1>1, <2>1, <2>2, <2>3, Zenon
<1>6. CommittedEntries' = CommittedEntries
  <2>1. \A e : e \in CommittedEntries' <=>
          e \in entries' /\ \A r \in Session : e.txn \notin live'[r]
    BY Zenon DEF CommittedEntries, Uncommitted
  <2>2. \A e : e \in CommittedEntries' <=> e \in CommittedEntries
    BY <1>1, <1>4, <2>1, CommittedIff, Zenon
  <2>3. CommittedEntries' \subseteq entries' /\ CommittedEntries \subseteq entries
    BY Zenon DEF CommittedEntries
  <2> QED BY <2>2, <2>3, Zenon
<1>7. /\ LockInv' /\ DraftInv'
      /\ \A e \in entries' : txns'[e.txn] # None /\ e.id <= nextEntry'
      /\ \A r \in Session : \A t \in live'[r] : txns'[t] # None
      /\ \A q, r \in Session : q # r => live'[q] \cap live'[r] = {}
      /\ \A r \in Session, e \in entries' : e.txn \in live'[r] => lock'[e.account] = r
  BY <1>1, <1>2, <1>3, <1>5, IDone, Zenon
<1>8. EntryInv'
  <2>1. \A e \in CommittedEntries', f \in entries' \ CommittedEntries' :
          e.account = f.account => e.id < f.id
    BY <1>1, <1>6, Zenon DEF IInv, EntryInv
  <2> QED BY <1>7, <2>1, Zenon DEF EntryInv
<1>9. ChainInv'
  <2>1. ASSUME NEW a \in Account
        PROVE  Chain(AllOn(a), 0, row[a].posted)'
    <3>1. CASE lock[a] = s
      <4>1. AllOn(a)' = EntriesOf(a)
        BY <1>1, <3>1, OwnEntries, CommittedIff, Zenon DEF EntriesOf, AllOn
      <4> QED BY <1>3, <3>1, <4>1, Zenon DEF IInv, ChainInv, Replay
    <3>2. CASE lock[a] # s
      <4>1. AllOn(a)' = AllOn(a)
        BY <1>1, <3>2, OwnEntries DEF AllOn
      <4> QED BY <1>3, <3>2, <4>1, Zenon DEF IInv, ChainInv
    <3> QED BY <3>1, <3>2, Zenon
  <2>2. Replay'
    BY <1>1, <1>6, Zenon DEF IInv, ChainInv, Replay, EntriesOf
  <2> QED BY <2>1, <2>2, Zenon DEF ChainInv
<1> QED BY <1>2, <1>6, <1>7, <1>8, <1>9, Zenon DEF IInv

\* Every step of the ledger keeps the inductive invariant.
LEMMA IStep == IInv /\ [Next]_vars => IInv'
<1> SUFFICES ASSUME IInv, [Next]_vars PROVE IInv'
  BY Zenon
<1>1. ASSUME NEW s \in Session, Call(s) PROVE IInv'
  BY <1>1, ICall, Zenon
<1>2. ASSUME NEW s \in Session, LockRow(s) PROVE IInv'
  BY <1>2, ILockRow, Zenon
<1>3. ASSUME NEW s \in Session, ApplyEntry(s) PROVE IInv'
  BY <1>3, IApplyEntry, Zenon
<1>4. ASSUME NEW s \in Session, Write(s) PROVE IInv'
  BY <1>4, IWrite, Zenon
<1>5. ASSUME NEW s \in Session, Commit(s) PROVE IInv'
  BY <1>5, ICommit, Zenon
<1>6. ASSUME NEW s \in Session, Refuse(s) \/ Abort(s) PROVE IInv'
  BY <1>6, IRollback, Zenon DEF Refuse, Abort
<1>7. CASE UNCHANGED vars
  <2>1. TypeInv'
    BY <1>7, TypeStep, Zenon DEF IInv
  <2>2. LockInv' /\ EntryInv'
    BY <1>7, SMTT(30) DEF vars, IInv, LockInv, IdleHoldsNothing, AppliesLocked,
      HeldIsLocked, FreeIsCommitted, EntryInv, Active, Held, Current, AccountIDs,
      CommittedEntries, Uncommitted
  <2>3. DraftInv'
    <3>1. \A s \in Session : /\ Current(s)' = Current(s) /\ Held(s)' = Held(s)
                             /\ AccountIDs(Current(s))' = AccountIDs(Current(s))
                             /\ Active(s)' = Active(s)
      BY <1>7, Zenon DEF vars, Active, Held, Current, AccountIDs
    <3>2. \A s \in Session : \A a : DraftsOn(s, a)' = DraftsOn(s, a)
      BY <1>7, Zenon DEF vars, DraftsOn
    <3> QED BY <1>7, <3>1, <3>2, Zenon DEF vars, IInv, DraftInv
  <2>4. ChainInv'
    BY <1>7, ZenonT(30) DEF vars, IInv, ChainInv, Replay, AllOn, EntriesOf,
      CommittedEntries, Uncommitted
  <2> QED BY <2>1, <2>2, <2>3, <2>4, Zenon DEF IInv
<1> QED BY <1>1, <1>2, <1>3, <1>4, <1>5, <1>6, <1>7, Zenon DEF Next, Step

\* The inductive invariant holds in every reachable state.
LEMMA Inductive == Spec => []IInv
<1>1. Init => IInv
  BY IInit, Zenon
<1>2. IInv /\ [Next]_vars => IInv'
  BY IStep, Zenon
<1> QED BY <1>1, <1>2, PTL DEF Spec

\* Replaying the committed entries of any account gives its materialized
\* balance, and every entry carries the balance after it, however the sessions
\* interleave, roll back or crash (apply, AppendEntries and ApplyBalances).
THEOREM ReplayCorrect == Spec => []Replay
<1>1. IInv => Replay
  BY Zenon DEF IInv, ChainInv
<1> QED BY <1>1, Inductive, PTL

\* The optimistic version check of ApplyBalance is never the check that
\* refuses: the row locks of LockAccounts already exclude every other writer.
THEOREM VersionCorrect == Spec => []VersionNeverConflicts
<1>1. IInv => VersionNeverConflicts
  <2> SUFFICES ASSUME IInv, NEW s \in Session, pc[s] = "apply",
                      NEW a \in AccountIDs(Current(s))
               PROVE  row[a].version = running[s][a].version
    BY Zenon DEF VersionNeverConflicts, VersionMatches
  <2> QED BY DEF IInv, LockInv, IdleHoldsNothing, AppliesLocked, HeldIsLocked,
    FreeIsCommitted, Active, Held
<1> QED BY <1>1, Inductive, PTL

\* No step changes or removes a committed entry, and what a commit adds to an
\* account comes after everything the account had: the pages of ListEntries,
\* which follow the id, never miss an entry that commits late.
THEOREM AppendOnlyCorrect == Spec => AppendOnly
<1> DEFINE Grows ==
      /\ CommittedEntries \subseteq CommittedEntries'
      /\ \A e \in CommittedEntries, f \in CommittedEntries' \ CommittedEntries :
           e.account = f.account => e.id < f.id
<1>1. IInv /\ [Next]_vars => [Grows]_vars
  <2> SUFFICES ASSUME IInv, Next PROVE Grows
    BY Zenon
  <2>1. ASSUME NEW s \in Session, Commit(s) PROVE Grows
    <3>1. \A e : e \in CommittedEntries' <=>
            e \in CommittedEntries \/ (e \in entries /\ e.txn \in live[s])
      BY <2>1, ICommit, Zenon
    <3> QED BY <3>1, Zenon DEF IInv, EntryInv
  <2>2. ASSUME NEW s \in Session, Write(s) \/ Refuse(s) \/ Abort(s)
        PROVE  CommittedEntries' = CommittedEntries
    BY <2>2, IWrite, IRollback, Zenon DEF Refuse, Abort
  <2>3. ASSUME NEW s \in Session, Call(s) \/ LockRow(s) \/ ApplyEntry(s)
        PROVE  CommittedEntries' = CommittedEntries
    <3>1. entries' = entries /\ live' = live
      BY <2>3, ZenonT(30) DEF Call, Post, Void, Capture, Reverse, Begin, LockRow, ApplyEntry
    <3> QED BY <3>1, Zenon DEF CommittedEntries, Uncommitted
  <2> QED BY <2>1, <2>2, <2>3, Zenon DEF Next, Step
<1> QED BY <1>1, Inductive, PTL DEF Spec, AppendOnly

-----------------------------------------------------------------------------
(* Reversals *)

\* No two rows, committed or not, name the same reversed transaction.
ReversesUnique ==
  \A t, u \in TxnId :
    /\ txns[t] # None /\ txns[u] # None
    /\ txns[t].reverses # None /\ txns[t].reverses = txns[u].reverses
    => t = u

\* The unique index keeps reverses_id unique among all rows, committed or not.
LEMMA ReversesStep == TypeInv /\ ReversesUnique /\ [Next]_vars => ReversesUnique'
<1> SUFFICES ASSUME TypeInv, ReversesUnique, [Next]_vars PROVE ReversesUnique'
  BY Zenon
<1>1. ASSUME NEW s \in Session, Write(s) PROVE ReversesUnique'
  <2>1. PICK t \in TxnId : Wrote(s, t)
    BY <1>1, ZenonT(30) DEF Write, Wrote
  <2>2. ReversalIsNew(s)
    BY <1>1, Zenon DEF Write, WriteAllowed
  <2>3. /\ txns'[t].reverses = Current(s).reverses
        /\ \A u \in TxnId \ {t} : txns'[u] = txns[u]
    BY <2>1, Zenon DEF Wrote, TypeInv, TypeOK
  <2> QED BY <2>2, <2>3 DEF ReversesUnique, ReversalIsNew
<1>2. ASSUME NEW s \in Session, Commit(s) PROVE ReversesUnique'
  <2>1. ASSUME NEW t \in TxnId
        PROVE  txns'[t] # None => txns[t] # None /\ txns'[t].reverses = txns[t].reverses
    <3>1. CASE t = job[s].target
      <4>1. txns[t] \in Transaction /\ txns[t] # None
        BY <3>1, NoneAssumption, NoRowAssumption, Zenon DEF TypeInv, TypeOK, TargetOK
      <4>2. txns'[t] = [txns[t] EXCEPT !.status = job[s].final]
        BY <1>2, <3>1, Zenon DEF Commit
      <4> QED BY <4>1, <4>2, Zenon DEF Transaction
    <3>2. CASE t # job[s].target
      BY <1>2, <3>2, Zenon DEF Commit
    <3> QED BY <3>1, <3>2, Zenon
  <2> QED BY <2>1, Zenon DEF ReversesUnique
<1>3. ASSUME NEW s \in Session, Refuse(s) \/ Abort(s) PROVE ReversesUnique'
  <2>1. \A t \in TxnId : txns'[t] # None => txns'[t] = txns[t]
    BY <1>3, Zenon DEF Refuse, Abort, Rollback
  <2> QED BY <2>1, Zenon DEF ReversesUnique
<1>4. ASSUME NEW s \in Session, Call(s) \/ LockRow(s) \/ ApplyEntry(s)
      PROVE  ReversesUnique'
  <2>1. txns' = txns
    BY <1>4, ZenonT(30) DEF Call, Post, Void, Capture, Reverse, Begin, LockRow, ApplyEntry
  <2> QED BY <2>1, Zenon DEF ReversesUnique
<1>5. CASE UNCHANGED vars
  BY <1>5, Zenon DEF vars, ReversesUnique
<1> QED BY <1>1, <1>2, <1>3, <1>4, <1>5, Zenon DEF Next, Step

\* A transaction has at most one committed reversal: the check of Reverse races,
\* the unique index on reverses_id decides.
THEOREM ReversedOnceCorrect == Spec => []ReversedOnce
<1>1. Init => TypeInv /\ ReversesUnique
  BY TypeInit, Zenon DEF Init, ReversesUnique
<1>2. TypeInv /\ ReversesUnique /\ [Next]_vars => (TypeInv /\ ReversesUnique)'
  BY TypeStep, ReversesStep, Zenon
<1>3. ReversesUnique => ReversedOnce
  BY Zenon DEF ReversesUnique, ReversedOnce, CommittedTxns
<1> QED BY <1>1, <1>2, <1>3, PTL DEF Spec

=============================================================================

-------------------------- MODULE LedgerRefinement --------------------------
(***************************************************************************)
(* Ledger implements Journal: what readers see of any number of sessions   *)
(* that lock, write, roll back and crash is a journal to which whole       *)
(* transactions are appended.                                              *)
(***************************************************************************)
EXTENDS LedgerProofs, LedgerView

\* The entries of account a that no reader sees yet.
FreshOn(a) == AllOn(a) \ EntriesOf(a)

\* They lead from the committed row to the newest one.
FreshChain == \A a \in Account : Chain(FreshOn(a), committed[a].posted, row[a].posted)

\* A row differs from the committed one exactly when it has such entries, and
\* then it has a larger version.
FreshVersion ==
  \A a \in Account :
    IF FreshOn(a) = {} THEN row[a] = committed[a]
                       ELSE row[a].version > committed[a].version

\* apply has built an entry on the account of every leg it has looked at.
EveryLegDrafted ==
  \A s \in Session : Active(s) =>
    \A i \in DOMAIN Current(s).legs :
      i < job[s].next => \E d \in drafts[s] : d.account = Current(s).legs[i].account

\* Neither version of a row is overdrawn.
Covered ==
  \A a \in Account \ AllowNegative :
    Available(row[a]) >= 0 /\ Available(committed[a]) >= 0

JInv == FreshChain /\ FreshVersion /\ EveryLegDrafted /\ Covered

\* An empty ledger hides nothing.
LEMMA JInit == Init => JInv
<1> SUFFICES ASSUME Init PROVE JInv
  BY Zenon
<1>1. \A a \in Account : /\ FreshOn(a) = {}
                         /\ row[a] = ZeroBalance /\ committed[a] = ZeroBalance
  BY Zenon DEF Init, FreshOn, AllOn
<1>2. FreshChain /\ FreshVersion
  BY <1>1, Zenon DEF FreshChain, FreshVersion, Chain
<1>3. EveryLegDrafted
  BY Zenon DEF Init, EveryLegDrafted, Active
<1>4. Covered
  BY <1>1 DEF Covered, Available, ZeroBalance
<1> QED BY <1>2, <1>3, <1>4, Zenon DEF JInv

\* A step that writes no row and no entry.
LEMMA JQuiet ==
  ASSUME JInv, UNCHANGED << row, committed, entries, live >>
  PROVE  FreshChain' /\ FreshVersion' /\ Covered'
<1>1. CommittedEntries' = CommittedEntries
  BY Zenon DEF CommittedEntries, Uncommitted
<1>2. \A a : FreshOn(a)' = FreshOn(a)
  BY <1>1, Zenon DEF FreshOn, AllOn, EntriesOf
<1> QED BY <1>2, Zenon DEF JInv, FreshChain, FreshVersion, Covered

\* The sessions other than s keep their drafts.
LEMMA JOthers ==
  ASSUME JInv, NEW s \in Session,
         \A r \in Session \ {s} :
           pc'[r] = pc[r] /\ job'[r] = job[r] /\ drafts'[r] = drafts[r],
         Active(s)' => \A i \in DOMAIN Current(s)'.legs :
           i < job'[s].next =>
             \E d \in drafts'[s] : d.account = Current(s)'.legs[i].account
  PROVE  EveryLegDrafted'
<1>1. \A r \in Session \ {s} : Active(r)' = Active(r) /\ Current(r)' = Current(r)
  BY Zenon DEF Active, Current
<1> QED BY <1>1 DEF JInv, EveryLegDrafted

\* Beginning an operation writes nothing.
LEMMA JCall ==
  ASSUME IInv, JInv, NEW s \in Session, Call(s)
  PROVE  JInv'
<1>1. PICK post, then, target, final, op : Begin(s, op, post, then, target, final)
  BY Zenon DEF Call, Post, Void, Capture, Reverse
<1>2. FreshChain' /\ FreshVersion' /\ Covered'
  BY <1>1, JQuiet, Zenon DEF Begin
<1>3. /\ job'[s].next = 1 /\ Current(s)'.legs \in Seq(Leg)
      /\ \A r \in Session \ {s} :
           pc'[r] = pc[r] /\ job'[r] = job[r] /\ drafts'[r] = drafts[r]
  BY <1>1, ValidateGivesLegs, Zenon DEF Begin, Current, IInv, TypeInv, TypeOK, JobShape
<1>4. EveryLegDrafted'
  BY <1>3, JOthers
<1> QED BY <1>2, <1>4, Zenon DEF JInv

\* Locking a row writes nothing.
LEMMA JLockRow ==
  ASSUME IInv, JInv, NEW s \in Session, LockRow(s)
  PROVE  JInv'
<1>1. FreshChain' /\ FreshVersion' /\ Covered'
  BY JQuiet, Zenon DEF LockRow
<1>2. /\ job' = job /\ drafts' = drafts /\ pc[s] = "lock"
      /\ \A r \in Session \ {s} : pc'[r] = pc[r]
  BY Zenon DEF LockRow, IInv, TypeInv, TypeOK
<1>3. Active(s) /\ Current(s)' = Current(s)
  BY <1>2, Zenon DEF Active, Current
<1>4. EveryLegDrafted'
  BY <1>2, <1>3, JOthers DEF JInv, EveryLegDrafted
<1> QED BY <1>1, <1>4, Zenon DEF JInv

\* apply adds an entry for the leg it looks at.
LEMMA JApplyEntry ==
  ASSUME IInv, JInv, NEW s \in Session, ApplyEntry(s)
  PROVE  JInv'
<1>1. FreshChain' /\ FreshVersion' /\ Covered'
  BY JQuiet, Zenon DEF ApplyEntry
<1>2. /\ Active(s) /\ Current(s)' = Current(s) /\ job'[s].next = job[s].next + 1
      /\ drafts'[s] = drafts[s] \cup {DraftEntry(s)}
      /\ job[s].next \in Int /\ Current(s).legs \in Seq(Leg)
      /\ \A r \in Session \ {s} :
           pc'[r] = pc[r] /\ job'[r] = job[r] /\ drafts'[r] = drafts[r]
  BY DEF ApplyEntry, IInv, TypeInv, TypeOK, JobShape, Active, Current
<1>3. DraftEntry(s).account = Current(s).legs[job[s].next].account
  BY Zenon DEF DraftEntry, NextLeg
<1>4. EveryLegDrafted'
  <2>1. ASSUME NEW i \in DOMAIN Current(s).legs, i < job[s].next + 1
        PROVE  \E d \in drafts'[s] : d.account = Current(s).legs[i].account
    <3>1. i \in Int
      BY <1>2
    <3>2. CASE i = job[s].next
      BY <1>2, <1>3, <3>2, Zenon
    <3>3. CASE i < job[s].next
      BY <1>2, <3>3, Zenon DEF JInv, EveryLegDrafted
    <3> QED BY <1>2, <2>1, <3>1, <3>2, <3>3
  <2> QED BY <1>2, <2>1, JOthers
<1> QED BY <1>1, <1>4, Zenon DEF JInv

\* A write hides its entries and a newer row on every account it touches.
LEMMA JWrite ==
  ASSUME IInv, JInv, NEW s \in Session, Write(s)
  PROVE  JInv'
<1> DEFINE A == AccountIDs(Current(s))
<1>1. /\ Active(s) /\ A = Held(s) /\ A \subseteq Account /\ nextEntry \in Int
      /\ Current(s).legs \in Seq(Leg) /\ job[s].next > Len(Current(s).legs)
      /\ job[s].next \in Int
  <2>1. Active(s) /\ toLock[s] = {}
    BY Zenon DEF Write, IInv, LockInv, AppliesLocked, Active
  <2> QED BY <2>1, HeldType DEF Write, IInv, TypeInv, TypeOK, JobShape, Held, Active
<1>2. \A a \in Account : row[a] \in Balance /\ committed[a] \in Balance
                        /\ running[s][a] \in Balance
  BY Zenon DEF IInv, TypeInv, TypeOK
<1>3. /\ \A a \in A : row'[a] = NextVersion(running[s][a])
      /\ \A a \in Account \ A : row'[a] = row[a]
      /\ committed' = committed
  BY <1>1, Zenon DEF Write
<1>4. \A b \in Balance : /\ NextVersion(b).posted = b.posted
                         /\ NextVersion(b).version = b.version + 1
                         /\ Available(NextVersion(b)) = Available(b)
  BY Zenon DEF NextVersion, Balance, Available
<1>5. CommittedEntries' = CommittedEntries
  BY IWrite, Zenon
<1>6. \A a : EntriesOf(a)' = EntriesOf(a)
  BY <1>5, Zenon DEF EntriesOf
<1>7. \A a \in A : DraftsOn(s, a) # {}
  <2> SUFFICES ASSUME NEW a \in A PROVE DraftsOn(s, a) # {}
    BY Zenon
  <2>1. PICK i \in DOMAIN Current(s).legs : a = Current(s).legs[i].account
    BY Zenon DEF AccountIDs
  <2>2. i < job[s].next
    BY <1>1, SMTT(30)
  <2> QED BY <1>1, <2>1, <2>2, Zenon DEF JInv, EveryLegDrafted, DraftsOn
\* An account of the posting: its hidden entries are continued by new ones.
<1>8. ASSUME NEW a \in A
      PROVE  /\ Chain(FreshOn(a), committed[a].posted, row[a].posted)'
             /\ FreshOn(a)' # {} /\ row'[a].version > committed'[a].version
  <2>1. PICK F : /\ AllOn(a)' = AllOn(a) \cup F
                 /\ Chain(F, row[a].posted, running[s][a].posted)
                 /\ \A f \in F : f.id \in Int /\ nextEntry < f.id
                 /\ F # {}
    BY <1>7, WroteOn, Zenon
  <2>2. \A e \in AllOn(a) : e.id \in Int /\ e.id <= nextEntry
    BY DEF AllOn, IInv, EntryInv, TypeInv, TypeOK, Entry
  <2>3. EntriesOf(a) \subseteq AllOn(a)
    BY Zenon DEF EntriesOf, AllOn, CommittedEntries
  <2>4. \A e \in AllOn(a), f \in F : e.id < f.id
    BY <1>1, <2>1, <2>2, SMTT(30)
  <2>5. FreshOn(a)' = FreshOn(a) \cup F
    BY <1>6, <2>1, <2>2, <2>3, <2>4 DEF FreshOn
  <2>6. Chain(FreshOn(a), committed[a].posted, row[a].posted)
    BY <1>1, Zenon DEF JInv, FreshChain
  <2>7. /\ committed[a].posted \in Int /\ row[a].posted \in Int
        /\ running[s][a].posted \in Int
    BY <1>1, <1>2 DEF Balance, Int64, MinInt64
  <2>8. FreshOn(a) \subseteq AllOn(a)
    BY Zenon DEF FreshOn
  <2>9. Chain(FreshOn(a) \cup F, committed[a].posted, running[s][a].posted)
    BY <2>1, <2>2, <2>4, <2>6, <2>7, <2>8, ChainConcat, Zenon
  <2>10. row[a].version >= committed[a].version
    BY <1>1, <1>2 DEF JInv, FreshVersion, Balance
  <2>11. running[s][a].version = row[a].version
    BY <1>1, Zenon DEF IInv, LockInv, HeldIsLocked
  <2>12. /\ row[a].version \in Int /\ committed[a].version \in Int
         /\ row'[a].posted = running[s][a].posted
         /\ row'[a].version = running[s][a].version + 1
    BY <1>1, <1>2, <1>3, <1>4 DEF Balance
  <2> QED BY <1>3, <2>1, <2>5, <2>9, <2>10, <2>11, <2>12
\* Any other account is left alone.
<1>9. ASSUME NEW a \in Account \ A
      PROVE  FreshOn(a)' = FreshOn(a) /\ row'[a] = row[a]
  <2>1. PICK t \in TxnId : Wrote(s, t)
    BY ZenonT(30) DEF Write, Wrote
  <2>2. \A d \in drafts[s] : d.account \in A
    BY Zenon DEF IInv, DraftInv
  <2>3. \A e \in entries' \ entries : e.account \in A
    BY <2>1, <2>2, SMTT(30) DEF Wrote
  <2>4. entries \subseteq entries'
    BY <2>1, Zenon DEF Wrote
  <2>5. AllOn(a)' = AllOn(a)
    BY <2>3, <2>4, Zenon DEF AllOn
  <2> QED BY <1>3, <1>6, <2>5, Zenon DEF FreshOn
<1>10. FreshChain' /\ FreshVersion'
  BY <1>1, <1>3, <1>8, <1>9, Zenon DEF JInv, FreshChain, FreshVersion
<1>11. Covered'
  <2>1. \A a \in A \ AllowNegative : Available(running[s][a]) >= 0
    BY Zenon DEF Write, WriteAllowed, Sufficient
  <2> QED BY <1>1, <1>2, <1>3, <1>4, <2>1, SMTT(30) DEF JInv, Covered
<1>12. EveryLegDrafted'
  <2>1. /\ job'[s].next = 1
        /\ Active(s)' => Current(s)'.legs \in Seq(Leg)
        /\ \A r \in Session \ {s} :
             pc'[r] = pc[r] /\ job'[r] = job[r] /\ drafts'[r] = drafts[r]
    <3>1. TypeInv'
      BY TypeWrite, Zenon DEF IInv
    <3> QED BY <3>1, ZenonT(30) DEF Write, IInv, TypeInv, TypeOK, JobShape, Active, Current
  <2> QED BY <2>1, JOthers
<1> QED BY <1>10, <1>11, <1>12, Zenon DEF JInv

\* A transaction that ends, either way, leaves nothing hidden on its accounts.
LEMMA JDone ==
  ASSUME IInv, JInv, NEW s \in Session, Commit(s) \/ Rollback(s)
  PROVE  /\ JInv'
         /\ \A a \in Account : lock[a] # s => EntriesOf(a)' = EntriesOf(a)
<1>1. Done(s)
  BY Zenon DEF Commit, Rollback
<1>2. /\ pc'[s] = "idle"
      /\ \A r \in Session \ {s} :
           pc'[r] = pc[r] /\ job'[r] = job[r] /\ drafts'[r] = drafts[r]
  BY <1>1, DoneEffect, ZenonT(30) DEF IInv, Done
<1>3. EveryLegDrafted'
  BY <1>2, JOthers, Zenon DEF Active
<1>4. ASSUME NEW a \in Account, lock[a] = s
      PROVE  /\ FreshOn(a)' = {} /\ row'[a] = committed'[a]
             /\ row'[a] \in {row[a], committed[a]}
  <2>1. CASE Commit(s)
    <3>1. entries' = entries /\ row'[a] = row[a] /\ committed'[a] = row[a]
      BY <1>4, <2>1, Zenon DEF Commit
    <3>2. \A e \in AllOn(a) : e \in CommittedEntries'
      BY <1>4, <2>1, ICommit, OwnEntries, CommittedIff, Zenon DEF AllOn
    <3> QED BY <3>1, <3>2, Zenon DEF FreshOn, AllOn, EntriesOf
  <2>2. CASE Rollback(s)
    <3>1. /\ CommittedEntries' = CommittedEntries
          /\ row'[a] = committed[a] /\ committed'[a] = committed[a]
          /\ entries' = {e \in entries : e.txn \notin live[s]}
      BY <1>4, <2>2, IRollback, Zenon DEF Rollback
    <3>2. \A e \in AllOn(a)' : e \in CommittedEntries'
      BY <1>4, <3>1, OwnEntries, Zenon DEF AllOn
    <3> QED BY <3>1, <3>2, Zenon DEF FreshOn, AllOn, EntriesOf
  <2> QED BY <2>1, <2>2, Zenon
<1>5. ASSUME NEW a \in Account, lock[a] # s
      PROVE  /\ FreshOn(a)' = FreshOn(a) /\ EntriesOf(a)' = EntriesOf(a)
             /\ row'[a] = row[a] /\ committed'[a] = committed[a]
  <2>1. \A e \in AllOn(a) : e.txn \notin live[s]
    BY <1>5, OwnEntries, Zenon DEF AllOn
  <2>2. CASE Commit(s)
    <3>1. EntriesOf(a)' = EntriesOf(a)
      BY <2>1, <2>2, ICommit, Zenon DEF EntriesOf, AllOn
    <3> QED BY <1>5, <2>2, <3>1, Zenon DEF Commit, FreshOn, AllOn
  <2>3. CASE Rollback(s)
    <3>1. EntriesOf(a)' = EntriesOf(a)
      BY <2>3, IRollback, Zenon DEF EntriesOf
    <3>2. AllOn(a)' = AllOn(a)
      BY <2>1, <2>3, Zenon DEF Rollback, AllOn
    <3> QED BY <1>5, <2>3, <3>1, <3>2, Zenon DEF Rollback, FreshOn
  <2> QED BY <2>2, <2>3, Zenon
<1>6. FreshChain'
  <2>1. \A b : Chain({}, b, b)
    BY Zenon DEF Chain
  <2> QED BY <1>4, <1>5, <2>1, Zenon DEF JInv, FreshChain
<1>7. FreshVersion' /\ Covered'
  BY <1>4, <1>5, Zenon DEF JInv, FreshVersion, Covered
<1> QED BY <1>3, <1>5, <1>6, <1>7, Zenon DEF JInv

\* Every step keeps the invariant of the hidden entries.
LEMMA JStep == IInv /\ JInv /\ [Next]_vars => JInv'
<1> SUFFICES ASSUME IInv, JInv, [Next]_vars PROVE JInv'
  BY Zenon
<1>1. CASE UNCHANGED vars
  <2>1. FreshChain' /\ FreshVersion' /\ Covered'
    BY <1>1, JQuiet, Zenon DEF vars
  <2>2. EveryLegDrafted'
    BY <1>1, Zenon DEF vars, JInv, EveryLegDrafted, Active, Current
  <2> QED BY <2>1, <2>2, Zenon DEF JInv
<1> QED BY <1>1, JCall, JLockRow, JApplyEntry, JWrite, JDone, Zenon
       , Zenon DEF Next, Step, Refuse, Abort

\* Journal's copies of the shared operators are Ledger's.
LEMMA SameOperators ==
  /\ \A E, base, last : J!Chain(E, base, last) <=> Chain(E, base, last)
  /\ \A b : J!Available(b) = Available(b)
  /\ J!ZeroBalance = ZeroBalance
<1>1. \A e : J!PostedDelta(e) = PostedDelta(e)
  BY Zenon DEF J!PostedDelta, J!SignedDelta, J!NormalBalance, J!Debit, J!Credit,
         PostedDelta, SignedDelta, NormalBalance, Debit, Credit
<1>2. \A e, f, E : J!Precedes(e, f, E) <=> Precedes(e, f, E)
  BY Zenon DEF J!Precedes, Precedes
<1>3. \A E, base, last : J!Chain(E, base, last) <=> Chain(E, base, last)
  BY <1>1, <1>2, Zenon DEF J!Chain, Chain
<1>4. \A b : J!Available(b) = Available(b)
  BY Zenon DEF J!Available, J!Wrap, J!MinInt64, Available, Wrap, MinInt64
<1> QED BY <1>3, <1>4, Zenon DEF J!ZeroBalance, ZeroBalance

\* A commit is one step of the journal.
LEMMA CommitPublishes ==
  ASSUME IInv, JInv, NEW s \in Session, Commit(s)
  PROVE  J!Publish
<1>1. \A e : e \in CommittedEntries' <=>
        e \in CommittedEntries \/ (e \in entries /\ e.txn \in live[s])
  BY ICommit, Zenon
<1>2. J!New = CommittedEntries' \ CommittedEntries
  BY Zenon DEF J!New
<1>3. J!AtTheEnd
  <2>1. \A f \in J!New : /\ f \in entries \ CommittedEntries /\ f.txn \in live[s]
    BY <1>1, <1>2, Zenon
  <2>2. \A e \in CommittedEntries : e.txn \notin live[s]
    BY CommittedIff, Zenon
  <2>3. \A f \in entries : f.id \in Nat
    BY Zenon DEF IInv, TypeInv, TypeOK, Entry
  <2> QED BY <1>1, <2>1, <2>2, <2>3, Zenon DEF J!AtTheEnd, IInv, EntryInv
<1>4. ASSUME NEW a \in Account PROVE J!BalanceFollows(a)
  <2>1. J!NewOn(a) = {e \in CommittedEntries' \ CommittedEntries : e.account = a}
    BY <1>2, Zenon DEF J!NewOn
  <2>2. CASE lock[a] = s
    <3>1. J!NewOn(a) = FreshOn(a)
      BY <1>1, <2>1, <2>2, OwnEntries, Zenon DEF FreshOn, AllOn, EntriesOf
    <3>2. committed'[a] = row[a]
      BY <2>2, Zenon DEF Commit
    <3> QED BY <3>1, <3>2, SameOperators, Zenon
            DEF J!BalanceFollows, JInv, FreshChain, FreshVersion
  <2>3. CASE lock[a] # s
    <3>1. J!NewOn(a) = {}
      BY <2>1, <2>3, JDone, Zenon DEF EntriesOf
    <3>2. committed'[a] = committed[a]
      BY <2>3, Zenon DEF Commit
    <3>3. Chain({}, committed[a].posted, committed[a].posted)
      BY Zenon DEF Chain
    <3> QED BY <3>1, <3>2, <3>3, SameOperators, Zenon DEF J!BalanceFollows
  <2> QED BY <2>2, <2>3, Zenon
<1>5. \A a \in Account \ AllowNegative : J!Available(committed'[a]) >= 0
  BY JDone, SameOperators, Zenon DEF JInv, Covered
<1> QED BY <1>3, <1>4, <1>5, Zenon DEF J!Publish

\* To its readers the ledger is the journal: every behaviour of the sessions,
\* with their locks, two-part operations, refusals, rollbacks and crashes, is a
\* behaviour in which whole transactions appear at once with the balances they
\* lead to (Service.Post, Capture, Void and Reverse inside Tx.InTx).
THEOREM JournalImplemented == Spec => ImplementsJournal
<1>1. Init => J!JournalInit
  <2>1. Init => CommittedEntries = {}
    BY Zenon DEF Init, CommittedEntries
  <2> QED BY <2>1, SameOperators, Zenon DEF Init, J!JournalInit
<1>2. IInv /\ JInv /\ [Next]_vars => [J!Publish]_(J!journalVars)
  <2> SUFFICES ASSUME IInv, JInv, [Next]_vars
               PROVE  J!Publish \/ UNCHANGED << committed, CommittedEntries >>
    BY Zenon DEF J!journalVars
  <2>1. ASSUME NEW s \in Session, Commit(s) PROVE J!Publish
    BY <2>1, CommitPublishes, Zenon
  <2>2. ASSUME NEW s \in Session, Write(s) \/ Refuse(s) \/ Abort(s)
        PROVE  UNCHANGED << committed, CommittedEntries >>
    BY <2>2, IWrite, IRollback, ZenonT(30) DEF Refuse, Abort, Rollback, Write
  <2>3. ASSUME NEW s \in Session, Call(s) \/ LockRow(s) \/ ApplyEntry(s)
        PROVE  UNCHANGED << committed, CommittedEntries >>
    <3>1. UNCHANGED << committed, entries, live >>
      BY <2>3, Zenon DEF Call, Post, Void, Capture, Reverse, Begin, LockRow, ApplyEntry
    <3> QED BY <3>1, Zenon DEF CommittedEntries, Uncommitted
  <2>4. CASE UNCHANGED vars
    BY <2>4, ZenonT(30) DEF vars, CommittedEntries, Uncommitted
  <2> QED BY <2>1, <2>2, <2>3, <2>4, Zenon DEF Next, Step
<1>3. Init => IInv /\ JInv
  BY IInit, JInit, Zenon
<1>4. IInv /\ JInv /\ [Next]_vars => (IInv /\ JInv)'
  BY IStep, JStep, Zenon
<1> QED BY <1>1, <1>2, <1>3, <1>4, PTL DEF Spec, ImplementsJournal, J!JournalSpec
=============================================================================

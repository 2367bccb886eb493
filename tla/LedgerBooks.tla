----------------------------- MODULE LedgerBooks ----------------------------
(***************************************************************************)
(* The books of Ledger: the entries are the legs of valid postings, which  *)
(* are written once, shown by a commit and hidden by a rollback, and every *)
(* balance is the sum of its entries (I7).                                 *)
(***************************************************************************)
EXTENDS LedgerProofs

-----------------------------------------------------------------------------
(* The entries that apply builds are the legs of a valid posting *)

\* The legs that apply has looked at.
Seen(s) == {i \in DOMAIN Current(s).legs : i < job[s].next}

\* d is the entry that apply builds for leg i of spec.
IsDraftOf(d, spec, i) ==
  /\ d.id = i
  /\ d.account = spec.legs[i].account
  /\ d.direction = spec.legs[i].direction
  /\ d.amount = spec.legs[i].amount
  /\ d.pending = spec.pending
  /\ CurrencyOf[d.account] = spec.legs[i].currency

DraftsMatch(s) ==
  /\ \A d \in drafts[s] : \E i \in Seen(s) : IsDraftOf(d, Current(s), i)
  /\ \A i \in Seen(s) : \E d \in drafts[s] : IsDraftOf(d, Current(s), i)
  /\ \A d, e \in drafts[s] : d.id = e.id => d = e

LegsInv == \A s \in Session : Active(s) => Validate(Current(s)) /\ DraftsMatch(s)

\* A session keeps its drafts while it does nothing.
LEMMA DraftsKept ==
  ASSUME NEW r, job'[r] = job[r], drafts'[r] = drafts[r], DraftsMatch(r)
  PROVE  DraftsMatch(r)'
<1>1. Current(r)' = Current(r)
  BY Zenon DEF Current
<1>2. Seen(r)' = Seen(r)
  BY <1>1, Zenon DEF Seen
<1> QED BY <1>1, <1>2 DEF DraftsMatch, IsDraftOf

\* Only session s moves.
LEMMA LegsOthers ==
  ASSUME LegsInv, NEW s \in Session,
         \A r \in Session \ {s} :
           pc'[r] = pc[r] /\ job'[r] = job[r] /\ drafts'[r] = drafts[r],
         Active(s)' => (Validate(Current(s)) /\ DraftsMatch(s))'
  PROVE  LegsInv'
<1> SUFFICES ASSUME NEW r \in Session, r # s, Active(r)'
             PROVE  (Validate(Current(r)) /\ DraftsMatch(r))'
  BY Zenon DEF LegsInv
<1>1. pc'[r] = pc[r] /\ job'[r] = job[r] /\ drafts'[r] = drafts[r]
  BY Zenon
<1>2. Current(r)' = Current(r) /\ Active(r)
  BY <1>1, Zenon DEF Current, Active
<1>3. Validate(Current(r)) /\ DraftsMatch(r)
  BY <1>2, Zenon DEF LegsInv
<1>4. DraftsMatch(r)'
  BY <1>1, <1>3, DraftsKept, Zenon
<1> QED BY <1>2, <1>3, <1>4, Zenon

\* What apply builds for the next leg matches it.
LEMMA LegsApply ==
  ASSUME IInv, LegsInv, NEW s \in Session, ApplyEntry(s)
  PROVE  LegsInv'
<1> DEFINE n == job[s].next
<1>1. /\ Active(s) /\ Current(s)' = Current(s) /\ job'[s].next = n + 1
      /\ drafts'[s] = drafts[s] \cup {DraftEntry(s)}
      /\ n \in Int /\ n >= 1 /\ n <= Len(Current(s).legs) /\ Current(s).legs \in Seq(Leg)
      /\ \A r \in Session \ {s} :
           pc'[r] = pc[r] /\ job'[r] = job[r] /\ drafts'[r] = drafts[r]
  BY DEF ApplyEntry, IInv, TypeInv, TypeOK, JobShape, Active, Current
<1>2. IsDraftOf(DraftEntry(s), Current(s), n) /\ DraftEntry(s).id = n
  BY Zenon DEF IsDraftOf, DraftEntry, NextLeg, ApplyEntry, EntryAllowed
<1>3. Validate(Current(s)) /\ DraftsMatch(s)
  BY <1>1, Zenon DEF LegsInv
<1>4. /\ \A i \in Seen(s)' : i \in Seen(s) \/ i = n
      /\ \A i \in Seen(s) : i \in Seen(s)' /\ i # n
      /\ n \in Seen(s)'
  BY <1>1 DEF Seen
<1>5. \A d \in drafts[s] : d.id # n
  BY <1>3, <1>4, Zenon DEF DraftsMatch, IsDraftOf
<1> HIDE DEF n
<1>6. DraftsMatch(s)'
  <2>1. \A d \in drafts'[s] : \E i \in Seen(s)' : IsDraftOf(d, Current(s), i)
    BY <1>1, <1>2, <1>3, <1>4, Zenon DEF DraftsMatch
  <2>2. \A i \in Seen(s)' : \E d \in drafts'[s] : IsDraftOf(d, Current(s), i)
    BY <1>1, <1>2, <1>3, <1>4, Zenon DEF DraftsMatch
  <2>3. \A d, e \in drafts'[s] : d.id = e.id => d = e
    BY <1>1, <1>2, <1>3, <1>5, Zenon DEF DraftsMatch
  <2> QED BY <1>1, <2>1, <2>2, <2>3 DEF DraftsMatch, IsDraftOf
<1>7. Validate(Current(s))'
  BY <1>1, <1>3, Zenon
<1> QED BY <1>1, <1>6, <1>7, LegsOthers

\* The other steps begin with a valid posting, keep one, or have none.
LEMMA LegsStep == IInv /\ LegsInv /\ [Next]_vars => LegsInv'
<1> SUFFICES ASSUME IInv, LegsInv, [Next]_vars PROVE LegsInv'
  BY Zenon
<1>1. ASSUME NEW s \in Session, Call(s) PROVE LegsInv'
  <2>1. PICK post, then, target, final, op : Begin(s, op, post, then, target, final)
    BY <1>1, Zenon DEF Call, Post, Void, Capture, Reverse
  <2>2. /\ job'[s].next = 1 /\ Current(s)' = post /\ drafts'[s] = drafts[s]
        /\ pc[s] = "idle" /\ Validate(post)
        /\ \A r \in Session \ {s} :
             pc'[r] = pc[r] /\ job'[r] = job[r] /\ drafts'[r] = drafts[r]
    BY <2>1, Zenon DEF Begin, Current, IInv, TypeInv, TypeOK, JobShape
  <2>3. drafts'[s] = {} /\ Current(s)'.legs \in Seq(Leg)
    BY <2>2, ValidateGivesLegs, Zenon DEF IInv, DraftInv
  <2>4. Seen(s)' = {}
    BY <2>2, <2>3 DEF Seen
  <2>5. DraftsMatch(s)' /\ Validate(Current(s))'
    BY <2>2, <2>3, <2>4, Zenon DEF DraftsMatch
  <2> QED BY <2>2, <2>5, LegsOthers
<1>2. ASSUME NEW s \in Session, LockRow(s) PROVE LegsInv'
  <2>1. /\ job' = job /\ drafts' = drafts /\ Active(s)
        /\ \A r \in Session \ {s} : pc'[r] = pc[r]
    BY <1>2, Zenon DEF LockRow, IInv, TypeInv, TypeOK, Active
  <2>2. Validate(Current(s)) /\ DraftsMatch(s) /\ Current(s)' = Current(s)
    BY <2>1, Zenon DEF LegsInv, Current
  <2>3. DraftsMatch(s)'
    BY <2>1, <2>2, DraftsKept, Zenon
  <2> QED BY <2>1, <2>2, <2>3, LegsOthers
<1>3. ASSUME NEW s \in Session, ApplyEntry(s) PROVE LegsInv'
  BY <1>3, LegsApply, Zenon
<1>4. ASSUME NEW s \in Session, Write(s) PROVE LegsInv'
  <2>1. /\ job'[s].next = 1 /\ Current(s)' = job[s].then /\ drafts'[s] = {}
        /\ Active(s)' => job[s].then # None
        /\ job[s].then # None => Validate(job[s].then)
        /\ \A r \in Session \ {s} :
             pc'[r] = pc[r] /\ job'[r] = job[r] /\ drafts'[r] = drafts[r]
    BY <1>4, ZenonT(30) DEF Write, WriteAllowed, IInv, TypeInv, TypeOK, JobShape, Active, Current
  <2>2. Active(s)' => Validate(Current(s))' /\ Current(s)'.legs \in Seq(Leg)
    BY <2>1, ValidateGivesLegs, Zenon
  <2>3. Active(s)' => Seen(s)' = {}
    BY <2>1, <2>2 DEF Seen
  <2>4. Active(s)' => DraftsMatch(s)'
    BY <2>1, <2>3, Zenon DEF DraftsMatch
  <2> QED BY <2>1, <2>2, <2>4, LegsOthers
<1>5. ASSUME NEW s \in Session, Done(s) PROVE LegsInv'
  <2>1. /\ ~ Active(s)'
        /\ \A r \in Session \ {s} :
             pc'[r] = pc[r] /\ job'[r] = job[r] /\ drafts'[r] = drafts[r]
    BY <1>5, DoneEffect DEF IInv, Active
  <2> QED BY <2>1, LegsOthers
<1>6. CASE UNCHANGED vars
  <2>1. job' = job /\ drafts' = drafts /\ pc' = pc
    BY <1>6, Zenon DEF vars
  <2> SUFFICES ASSUME NEW s \in Session, Active(s)'
               PROVE  (Validate(Current(s)) /\ DraftsMatch(s))'
    BY Zenon DEF LegsInv
  <2>2. Active(s) /\ Current(s)' = Current(s)
    BY <2>1, Zenon DEF Active, Current
  <2>3. DraftsMatch(s)'
    BY <2>1, <2>2, DraftsKept, Zenon DEF LegsInv
  <2> QED BY <2>2, <2>3, Zenon DEF LegsInv
<1> QED BY <1>1, <1>2, <1>3, <1>4, <1>5, <1>6, Zenon
        DEF Next, Step, Commit, Refuse, Abort, Rollback

-----------------------------------------------------------------------------
(* How the sets of entries change *)

\* The entries that session s has written and not committed.
LiveEntries(s) == {e \in entries : e.txn \in live[s]}

\* The legs of spec on account a.
LegsAt(spec, a) == {i \in DOMAIN spec.legs : spec.legs[i].account = a}

\* e is the entry that leg i of spec becomes.
IsEntryOf(e, spec, i) ==
  /\ e \in Entry
  /\ e.account = spec.legs[i].account
  /\ e.direction = spec.legs[i].direction
  /\ e.amount = spec.legs[i].amount
  /\ e.pending = spec.pending
  /\ CurrencyOf[e.account] = spec.legs[i].currency

\* A write adds one entry for each leg of the posting, none of which was there.
LEMMA WriteAdds ==
  ASSUME IInv, LegsInv, NEW s \in Session, Write(s)
  PROVE  \E r, t :
           /\ entries' = entries \cup {r[i] : i \in DOMAIN Current(s).legs}
           /\ \A i \in DOMAIN Current(s).legs :
                IsEntryOf(r[i], Current(s), i) /\ r[i].txn = t
           /\ \A i, j \in DOMAIN Current(s).legs : r[i] = r[j] => i = j
           /\ live'[s] = live[s] \cup {t}
           /\ \A q \in Session : t \notin live[q]
           /\ \A e \in entries : e.txn # t
<1>1. PICK t \in TxnId : Wrote(s, t)
  BY Zenon DEF Write, Wrote
<1> DEFINE L == DOMAIN Current(s).legs
           N(d) == [id |-> nextEntry + d.id, txn |-> t, account |-> d.account,
                    direction |-> d.direction, amount |-> d.amount,
                    pending |-> d.pending, after |-> d.after]
           D(i) == CHOOSE d \in drafts[s] : IsDraftOf(d, Current(s), i)
           r == [i \in L |-> N(D(i))]
<1>2. /\ Active(s) /\ Current(s).legs \in Seq(Leg) /\ nextEntry \in Int
      /\ job[s].next \in Int /\ job[s].next > Len(Current(s).legs)
      /\ \A d \in drafts[s] : d.id \in Int
  <2>1. Active(s)
    BY Zenon DEF Write, Active
  <2> QED BY <2>1 DEF Write, IInv, TypeInv, TypeOK, JobShape, Active, Draft
<1>3. Seen(s) = L
  BY <1>2 DEF Seen
<1>4. DraftsMatch(s)
  BY <1>2, Zenon DEF LegsInv
<1>5. \A i \in L : D(i) \in drafts[s] /\ IsDraftOf(D(i), Current(s), i)
  BY <1>3, <1>4, Zenon DEF DraftsMatch
<1>6. \A d \in drafts[s] : \E i \in L : d = D(i)
  <2> SUFFICES ASSUME NEW d \in drafts[s] PROVE \E i \in L : d = D(i)
    BY Zenon
  <2>1. PICK i \in L : IsDraftOf(d, Current(s), i)
    BY <1>3, <1>4, Zenon DEF DraftsMatch
  <2>2. d.id = D(i).id /\ D(i) \in drafts[s]
    <3> HIDE DEF D
    <3> QED BY <1>5, <2>1, Zenon DEF IsDraftOf
  <2>3. d = D(i)
    <3> HIDE DEF D
    <3> QED BY <1>4, <2>2, Zenon DEF DraftsMatch
  <2> QED BY <2>3, Zenon
<1> HIDE DEF D
<1>7. entries' = entries \cup {r[i] : i \in L}
  <2>1. entries' = entries \cup {N(d) : d \in drafts[s]}
    BY <1>1, Zenon DEF Wrote
  <2>2. {N(d) : d \in drafts[s]} = {r[i] : i \in L}
    <3>1. \A d \in drafts[s] : \E i \in L : N(d) = r[i]
      BY <1>6, Zenon
    <3>2. \A i \in L : \E d \in drafts[s] : r[i] = N(d)
      BY <1>5, Zenon
    <3> HIDE DEF N, r, L
    <3> QED BY <3>1, <3>2
  <2> QED BY <2>1, <2>2, Zenon
<1>8. ASSUME NEW i \in L
      PROVE  IsEntryOf(r[i], Current(s), i) /\ r[i].txn = t /\ r[i].id = nextEntry + i
  <2>1. r[i] = N(D(i)) /\ IsDraftOf(D(i), Current(s), i)
    BY <1>5, Zenon
  <2>2. r[i] \in Entry
    <3>1. TypeInv'
      BY TypeWrite, Zenon DEF IInv
    <3> HIDE DEF r
    <3> QED BY <1>7, <3>1, Zenon DEF TypeInv, TypeOK
  <2>3. /\ r[i].account = D(i).account /\ r[i].direction = D(i).direction
        /\ r[i].amount = D(i).amount /\ r[i].pending = D(i).pending
        /\ r[i].txn = t /\ r[i].id = nextEntry + D(i).id
    <3>1. \A d : /\ N(d).account = d.account /\ N(d).direction = d.direction
                 /\ N(d).amount = d.amount /\ N(d).pending = d.pending
                 /\ N(d).txn = t /\ N(d).id = nextEntry + d.id
      OBVIOUS
    <3> HIDE DEF r, N
    <3> QED BY <2>1, <3>1, Zenon
  <2> HIDE DEF r, N
  <2> QED BY <2>1, <2>2, <2>3, Zenon DEF IsDraftOf, IsEntryOf
<1>9. \A i, j \in L : r[i] = r[j] => i = j
  <2> HIDE DEF r
  <2>1. \A i \in L : i \in Int /\ r[i].id = nextEntry + i
    BY <1>2, <1>8
  <2> QED BY <1>2, <2>1
<1>10. /\ live'[s] = live[s] \cup {t}
       /\ \A q \in Session : t \notin live[q]
       /\ \A e \in entries : e.txn # t
  BY <1>1, Zenon DEF Wrote, IInv, EntryInv, TypeInv, TypeOK
<1> HIDE DEF r
<1> QED BY <1>7, <1>8, <1>9, <1>10, Zenon

\* A commit shows the session's entries, and on the accounts it has locked all
\* entries there are.
LEMMA CommitShows ==
  ASSUME IInv, NEW s \in Session, Commit(s)
  PROVE  /\ entries' = entries /\ row' = row
         /\ CommittedEntries' = CommittedEntries \cup LiveEntries(s)
         /\ CommittedEntries \cap LiveEntries(s) = {}
         /\ LiveEntries(s)' = {}
         /\ \A q \in Session \ {s} : LiveEntries(q)' = LiveEntries(q)
         /\ \A a \in Account :
              IF lock[a] = s
              THEN EntriesOf(a)' = AllOn(a) /\ committed'[a] = row[a]
              ELSE EntriesOf(a)' = EntriesOf(a) /\ committed'[a] = committed[a]
<1>1. entries' = entries /\ row' = row
  BY Zenon DEF Commit
<1>2. /\ live'[s] = {} /\ \A q \in Session \ {s} : live'[q] = live[q]
  BY DoneEffect, Zenon DEF Commit, IInv
<1>3. LiveEntries(s)' = {} /\ \A q \in Session \ {s} : LiveEntries(q)' = LiveEntries(q)
  BY <1>1, <1>2, Zenon DEF LiveEntries
<1>4. \A e : e \in CommittedEntries' <=>
        e \in CommittedEntries \/ (e \in entries /\ e.txn \in live[s])
  BY ICommit, Zenon
<1>5. CommittedEntries' = CommittedEntries \cup LiveEntries(s)
  <2>1. \A e : e \in CommittedEntries' <=> e \in CommittedEntries \cup LiveEntries(s)
    BY <1>4, Zenon DEF LiveEntries
  <2> QED BY <2>1
<1>6. CommittedEntries \cap LiveEntries(s) = {}
  BY CommittedIff, Zenon DEF LiveEntries
<1>7. CommittedEntries \subseteq entries
  BY Zenon DEF CommittedEntries
<1>8. \A e \in entries :
        /\ e.txn \in live[s] => lock[e.account] = s
        /\ lock[e.account] = s => (e \in CommittedEntries <=> e.txn \notin live[s])
  BY OwnEntries, Zenon
<1>9. ASSUME NEW a \in Account
      PROVE  IF lock[a] = s THEN EntriesOf(a)' = AllOn(a) ELSE EntriesOf(a)' = EntriesOf(a)
  <2>1. \A e : e \in EntriesOf(a)' <=> e \in CommittedEntries' /\ e.account = a
    BY Zenon DEF EntriesOf
  <2>2. \A e : e \in EntriesOf(a) <=> e \in CommittedEntries /\ e.account = a
    BY Zenon DEF EntriesOf
  <2>3. \A e : e \in AllOn(a) <=> e \in entries /\ e.account = a
    BY Zenon DEF AllOn
  <2>4. CASE lock[a] = s
    <3>1. \A e : e \in EntriesOf(a)' <=> e \in AllOn(a)
      BY <1>4, <1>7, <1>8, <2>1, <2>3, <2>4, Zenon
    <3> QED BY <2>4, <3>1
  <2>5. CASE lock[a] # s
    <3>1. \A e : e \in EntriesOf(a)' <=> e \in EntriesOf(a)
      BY <1>4, <1>8, <2>1, <2>2, <2>5
    <3> QED BY <2>5, <3>1
  <2> QED BY <2>4, <2>5, Zenon
<1>10. \A a \in Account : committed'[a] = IF lock[a] = s THEN row[a] ELSE committed[a]
  BY Zenon DEF Commit
<1> QED BY <1>1, <1>3, <1>5, <1>6, <1>9, <1>10, Zenon

\* A rollback removes them, and on the accounts the session has locked leaves
\* the committed entries.
LEMMA RollbackHides ==
  ASSUME IInv, NEW s \in Session, Rollback(s)
  PROVE  /\ entries' \subseteq entries /\ committed' = committed
         /\ CommittedEntries' = CommittedEntries
         /\ LiveEntries(s)' = {}
         /\ \A q \in Session \ {s} : LiveEntries(q)' = LiveEntries(q)
         /\ \A a : EntriesOf(a)' = EntriesOf(a)
         /\ \A a \in Account :
              IF lock[a] = s
              THEN AllOn(a)' = EntriesOf(a) /\ row'[a] = committed[a]
              ELSE AllOn(a)' = AllOn(a) /\ row'[a] = row[a]
<1>1. committed' = committed /\ \A e : e \in entries' <=> e \in entries /\ e.txn \notin live[s]
  BY Zenon DEF Rollback
<1>2. /\ live'[s] = {} /\ \A q \in Session \ {s} : live'[q] = live[q]
  BY DoneEffect, Zenon DEF Rollback, IInv
<1>3. ASSUME NEW q \in Session \ {s} PROVE LiveEntries(q)' = LiveEntries(q)
  <2>1. live[q] \cap live[s] = {}
    BY Zenon DEF IInv, EntryInv
  <2>2. \A e : e \in LiveEntries(q)' <=> e \in LiveEntries(q)
    BY <1>1, <1>2, <2>1, Zenon DEF LiveEntries
  <2> QED BY <2>2
<1>4. LiveEntries(s)' = {}
  BY <1>2, Zenon DEF LiveEntries
<1>5. CommittedEntries' = CommittedEntries
  BY IRollback, Zenon
<1>6. \A a : EntriesOf(a)' = EntriesOf(a)
  BY <1>5, Zenon DEF EntriesOf
<1>7. CommittedEntries \subseteq entries
  BY Zenon DEF CommittedEntries
<1>8. \A e \in entries :
        /\ e.txn \in live[s] => lock[e.account] = s
        /\ lock[e.account] = s => (e \in CommittedEntries <=> e.txn \notin live[s])
  BY OwnEntries, Zenon
<1>9. ASSUME NEW a \in Account
      PROVE  IF lock[a] = s THEN AllOn(a)' = EntriesOf(a) ELSE AllOn(a)' = AllOn(a)
  <2>1. \A e : e \in EntriesOf(a) <=> e \in CommittedEntries /\ e.account = a
    BY Zenon DEF EntriesOf
  <2>2. \A e : e \in AllOn(a) <=> e \in entries /\ e.account = a
    BY Zenon DEF AllOn
  <2>3. \A e : e \in AllOn(a)' <=> e \in entries' /\ e.account = a
    BY Zenon DEF AllOn
  <2>4. CASE lock[a] = s
    <3>1. \A e : e \in AllOn(a)' <=> e \in EntriesOf(a)
      BY <1>1, <1>7, <1>8, <2>1, <2>3, <2>4, Zenon
    <3> QED BY <2>4, <3>1
  <2>5. CASE lock[a] # s
    <3>1. \A e : e \in AllOn(a)' <=> e \in AllOn(a)
      BY <1>1, <1>8, <2>2, <2>3, <2>5
    <3> QED BY <2>5, <3>1
  <2> QED BY <2>4, <2>5, Zenon
<1>10. \A a \in Account : row'[a] = IF lock[a] = s THEN committed[a] ELSE row[a]
  BY Zenon DEF Rollback
<1>11. entries' \subseteq entries
  BY <1>1, Zenon
<1> QED BY <1>1, <1>3, <1>4, <1>5, <1>6, <1>9, <1>10, <1>11, Zenon

\* A write adds the entries of its legs to their accounts and to the session's.
LEMMA WriteShows ==
  ASSUME IInv, LegsInv, NEW s \in Session, Write(s)
  PROVE  \E r :
           /\ \A i \in DOMAIN Current(s).legs :
                IsEntryOf(r[i], Current(s), i) /\ r[i] \notin entries
           /\ \A i, j \in DOMAIN Current(s).legs : r[i] = r[j] => i = j
           /\ entries' = entries \cup {r[i] : i \in DOMAIN Current(s).legs}
           /\ \A a : AllOn(a)' = AllOn(a) \cup {r[i] : i \in LegsAt(Current(s), a)}
           /\ LiveEntries(s)' =
                LiveEntries(s) \cup {r[i] : i \in DOMAIN Current(s).legs}
           /\ \A q \in Session \ {s} : LiveEntries(q)' = LiveEntries(q)
<1> DEFINE L == DOMAIN Current(s).legs
<1>1. PICK r, t :
           /\ entries' = entries \cup {r[i] : i \in L}
           /\ \A i \in L : IsEntryOf(r[i], Current(s), i) /\ r[i].txn = t
           /\ \A i, j \in L : r[i] = r[j] => i = j
           /\ live'[s] = live[s] \cup {t}
           /\ \A q \in Session : t \notin live[q]
           /\ \A e \in entries : e.txn # t
  BY WriteAdds, Zenon
<1>2. \A i \in L : r[i] \notin entries
  BY <1>1, Zenon
<1>3. \A e : e \in entries' <=> e \in entries \/ \E i \in L : e = r[i]
  BY <1>1
<1>4. ASSUME NEW a PROVE AllOn(a)' = AllOn(a) \cup {r[i] : i \in LegsAt(Current(s), a)}
  <2>1. \A i \in L : r[i].account = a <=> i \in LegsAt(Current(s), a)
    BY <1>1, Zenon DEF IsEntryOf, LegsAt
  <2>2. LegsAt(Current(s), a) \subseteq L
    BY Zenon DEF LegsAt
  <2>3. \A e : e \in AllOn(a)' <=> e \in entries' /\ e.account = a
    BY Zenon DEF AllOn
  <2>4. \A e : e \in AllOn(a) <=> e \in entries /\ e.account = a
    BY Zenon DEF AllOn
  <2> HIDE DEF L
  <2>5. \A e : e \in AllOn(a)' <=>
                 e \in AllOn(a) \/ \E i \in LegsAt(Current(s), a) : e = r[i]
    BY <1>3, <2>1, <2>2, <2>3, <2>4, Zenon
  <2> QED BY <2>5
<1>5. LiveEntries(s)' = LiveEntries(s) \cup {r[i] : i \in L}
  <2>1. \A e : e \in LiveEntries(s)' <=> e \in entries' /\ e.txn \in live[s] \cup {t}
    BY <1>1, Zenon DEF LiveEntries
  <2>2. \A e : e \in LiveEntries(s) <=> e \in entries /\ e.txn \in live[s]
    BY Zenon DEF LiveEntries
  <2> HIDE DEF L
  <2>3. \A e : e \in LiveEntries(s)' <=> e \in LiveEntries(s) \/ \E i \in L : e = r[i]
    BY <1>1, <1>3, <2>1, <2>2
  <2> QED BY <2>3
<1>6. ASSUME NEW q \in Session \ {s} PROVE LiveEntries(q)' = LiveEntries(q)
  <2>1. live'[q] = live[q]
    <3>1. PICK u \in TxnId : Wrote(s, u)
      BY Zenon DEF Write, Wrote
    <3> QED BY <3>1, Zenon DEF Wrote, IInv, TypeInv, TypeOK
  <2>2. \A e : e \in LiveEntries(q)' <=> e \in entries' /\ e.txn \in live[q]
    BY <2>1, Zenon DEF LiveEntries
  <2>3. \A e : e \in LiveEntries(q) <=> e \in entries /\ e.txn \in live[q]
    BY Zenon DEF LiveEntries
  <2> HIDE DEF L
  <2>4. t \notin live[q] /\ \A i \in L : r[i].txn = t
    BY <1>1, Zenon
  <2>5. \A e : e \in LiveEntries(q)' <=> e \in LiveEntries(q)
    BY <1>3, <2>2, <2>3, <2>4
  <2> QED BY <2>5
<1> QED BY <1>1, <1>2, <1>4, <1>5, <1>6, Zenon

-----------------------------------------------------------------------------
(* The working balances *)

\* The pending or the posted figure of a balance.
Figure(b, p) == IF p THEN b.pending ELSE b.posted

\* What the legs of a posting add to that figure of their accounts.
LegDelta(spec, p) ==
  [i \in DOMAIN spec.legs |-> IF spec.pending = p THEN SignedDelta(spec.legs[i]) ELSE 0]

\* The legs on account a that apply has looked at.
SeenAt(s, a) == {i \in LegsAt(Current(s), a) : i < job[s].next}

\* The working copy of a locked balance is the row plus the legs so far.
IsWorked(s, a, p) ==
  Figure(running[s][a], p) =
    Figure(row[a], p) + SumFunctionOnSet(LegDelta(Current(s), p), SeenAt(s, a))

WorkInv ==
  \A s \in Session : Active(s) => \A a \in Held(s), p \in BOOLEAN : IsWorked(s, a, p)

\* Only session s moves, and only rows it has locked change.
LEMMA WorkOthers ==
  ASSUME IInv, WorkInv, NEW s \in Session,
         \A r \in Session \ {s} : /\ pc'[r] = pc[r] /\ job'[r] = job[r]
                                  /\ toLock'[r] = toLock[r] /\ running'[r] = running[r],
         \A a \in Account : lock[a] # s => row'[a] = row[a],
         Active(s)' => \A a \in Held(s)', p \in BOOLEAN : IsWorked(s, a, p)'
  PROVE  WorkInv'
<1> SUFFICES ASSUME NEW r \in Session, r # s, Active(r)', NEW a \in Held(r)', NEW p \in BOOLEAN
             PROVE  IsWorked(r, a, p)'
  BY Zenon DEF WorkInv
<1>1. pc'[r] = pc[r] /\ job'[r] = job[r] /\ toLock'[r] = toLock[r] /\ running'[r] = running[r]
  BY Zenon
<1>2. Active(r) /\ Current(r)' = Current(r)
  BY <1>1, Zenon DEF Active, Current
<1>3. a \in Held(r)
  BY <1>1, <1>2, Zenon DEF Held
<1>4. a \in Account /\ lock[a] = r
  BY <1>2, <1>3, HeldType, Zenon DEF IInv, LockInv, HeldIsLocked
<1>5. row'[a] = row[a]
  BY <1>4, Zenon
<1>6. SeenAt(r, a)' = SeenAt(r, a)
  BY <1>1, <1>2, Zenon DEF SeenAt
<1>7. IsWorked(r, a, p)
  BY <1>2, <1>3, Zenon DEF WorkInv
<1> QED BY <1>1, <1>2, <1>5, <1>6, <1>7, Zenon DEF IsWorked

\* A leg moves the figure it belongs to by its amount, and not the other.
LEMMA AppliedFigure ==
  ASSUME IInv, NEW s \in Session, ApplyEntry(s), NEW p \in BOOLEAN
  PROVE  /\ NextLeg(s) \in Leg
         /\ LegDelta(Current(s), p)[job[s].next] \in Int
         /\ Figure(Applied(s), p) =
              Figure(running[s][NextLeg(s).account], p)
                + LegDelta(Current(s), p)[job[s].next]
<1> DEFINE b == running[s][NextLeg(s).account]
<1>1. pc[s] = "apply" /\ job[s].next <= Len(Current(s).legs) /\ EntryAllowed(s) /\ TypeInv
  BY Zenon DEF ApplyEntry, IInv
<1>2. NextLeg(s) \in Leg /\ SignedDelta(NextLeg(s)) \in Int64
  BY <1>1, NextLegType, Zenon
<1>3. b \in Balance /\ Current(s).pending \in BOOLEAN
  BY <1>1, <1>2, Zenon DEF TypeInv, TypeOK, JobShape, Linked, Leg
<1>4. job[s].next \in DOMAIN Current(s).legs
  BY <1>1 DEF TypeInv, TypeOK, JobShape
<1>5. LegDelta(Current(s), p)[job[s].next] =
        IF Current(s).pending = p THEN SignedDelta(NextLeg(s)) ELSE 0
  BY <1>4, Zenon DEF LegDelta, NextLeg
<1>6. /\ SignedDelta(NextLeg(s)) \in Int /\ b.posted \in Int /\ b.pending \in Int
  BY <1>2, <1>3 DEF Balance, Int64, MinInt64
<1>7. CASE Current(s).pending
  <2>1. Applied(s).posted = b.posted /\ Applied(s).pending = Moved(s).val
    BY <1>3, <1>7, Zenon DEF Applied, WorkingBalance, Balance
  <2>2. Moved(s).val = b.pending + SignedDelta(NextLeg(s))
    BY <1>1, <1>2, <1>3, <1>7, AddInt64Exact, Zenon DEF Moved, WorkingBalance,
      EntryAllowed, Balance
  <2>3. (Current(s).pending = p) <=> p
    BY <1>3, <1>7, Zenon
  <2>4. Figure(b, p) \in Int
    BY <1>6 DEF Figure
  <2> QED BY <1>2, <1>5, <1>6, <2>1, <2>2, <2>3, <2>4 DEF Figure
<1>8. CASE ~ Current(s).pending
  <2>1. Applied(s).posted = Moved(s).val /\ Applied(s).pending = b.pending
    BY <1>3, <1>8, Zenon DEF Applied, WorkingBalance, Balance
  <2>2. Moved(s).val = b.posted + SignedDelta(NextLeg(s))
    BY <1>1, <1>2, <1>3, <1>8, AddInt64Exact, Zenon DEF Moved, WorkingBalance,
      EntryAllowed, Balance
  <2>3. (Current(s).pending = p) <=> ~ p
    BY <1>3, <1>8, Zenon
  <2>4. Figure(b, p) \in Int
    BY <1>6 DEF Figure
  <2> QED BY <1>2, <1>5, <1>6, <2>1, <2>2, <2>3, <2>4 DEF Figure
<1> QED BY <1>7, <1>8, Zenon

INSTANCE Sums

-----------------------------------------------------------------------------
(* The working balances that apply keeps *)

\* The summands that a posting adds are integers.
LEMMA LegDeltaType ==
  ASSUME NEW spec, spec.legs \in Seq(Leg), NEW p
  PROVE  \A i \in DOMAIN spec.legs : LegDelta(spec, p)[i] \in Int
<1> SUFFICES ASSUME NEW i \in DOMAIN spec.legs PROVE LegDelta(spec, p)[i] \in Int
  BY Zenon
<1>1. spec.legs[i] \in Leg
  OBVIOUS
<1>2. SignedDelta(spec.legs[i]) \in Int
  BY <1>1 DEF SignedDelta, Leg
<1>3. LegDelta(spec, p)[i] = IF spec.pending = p THEN SignedDelta(spec.legs[i]) ELSE 0
  BY Zenon DEF LegDelta
<1> QED BY <1>2, <1>3

\* The legs of a posting are finitely many.
LEMMA LegsFinite ==
  ASSUME NEW legs \in Seq(Leg)
  PROVE  IsFiniteSet(DOMAIN legs)
<1>1. DOMAIN legs = 1 .. Len(legs) /\ Len(legs) \in Nat
  OBVIOUS
<1> QED BY <1>1, FiniteDomain, Zenon

\* apply keeps the working balances in step with the legs.
LEMMA WorkApply ==
  ASSUME IInv, WorkInv, NEW s \in Session, ApplyEntry(s)
  PROVE  WorkInv'
<1> DEFINE n == job[s].next
           acc == NextLeg(s).account
<1>1. /\ Active(s) /\ Current(s)' = Current(s) /\ job'[s].next = n + 1
      /\ n \in Int /\ n >= 1 /\ n <= Len(Current(s).legs) /\ Current(s).legs \in Seq(Leg)
      /\ row' = row /\ toLock' = toLock
      /\ \A r \in Session \ {s} : pc'[r] = pc[r] /\ job'[r] = job[r]
  BY DEF ApplyEntry, IInv, TypeInv, TypeOK, JobShape, Active, Current
<1>2. /\ \A r \in Session \ {s} : running'[r] = running[r]
      /\ running'[s][acc] = Applied(s)
      /\ \A a \in Account \ {acc} : running'[s][a] = running[s][a]
  <2>1. acc \in Account
    BY AppliedFigure, Zenon DEF Leg
  <2> QED BY <2>1, Zenon DEF ApplyEntry, IInv, TypeInv, TypeOK
<1>3. Held(s)' = Held(s) /\ Held(s) \subseteq Account
  BY <1>1, HeldType, Zenon DEF Held, IInv
<1>4. \A i \in DOMAIN Current(s).legs : i \in Int /\ (i < n + 1 <=> i < n \/ i = n)
  BY <1>1
<1>5. ASSUME NEW a \in Held(s), NEW p \in BOOLEAN PROVE IsWorked(s, a, p)'
  <2> DEFINE f == LegDelta(Current(s), p)
  <2>1. IsWorked(s, a, p)
    BY <1>1, Zenon DEF WorkInv
  <2>2. CASE a = acc
    <3>1. n \notin SeenAt(s, a)
      BY <1>1 DEF SeenAt
    <3>2. SeenAt(s, a)' = SeenAt(s, a) \cup {n}
      <4>1. n \in LegsAt(Current(s), a)
        BY <1>1, <2>2 DEF LegsAt, NextLeg
      <4>2. LegsAt(Current(s), a) \subseteq DOMAIN Current(s).legs
        BY Zenon DEF LegsAt
      <4>3. \A i : i \in SeenAt(s, a)' <=> i \in SeenAt(s, a) \cup {n}
        <5>1. n = job[s].next
          OBVIOUS
        <5> HIDE DEF n
        <5> QED BY <5>1, <1>1, <1>4, <4>1, <4>2, Zenon DEF SeenAt
      <4> QED BY <4>3
    <3>3. SeenAt(s, a) \subseteq DOMAIN Current(s).legs /\ n \in DOMAIN Current(s).legs
      BY <1>1 DEF SeenAt, LegsAt
    <3>4. IsFiniteSet(SeenAt(s, a))
      BY <1>1, <3>3, LegsFinite, FinitePart
    <3>5. \A i \in SeenAt(s, a) \cup {n} : f[i] \in Int
      BY <1>1, <3>3, LegDeltaType
    <3>6. SumFunctionOnSet(f, SeenAt(s, a) \cup {n}) = SumFunctionOnSet(f, SeenAt(s, a)) + f[n]
      BY <3>1, <3>4, <3>5, SumAdd, Zenon
    <3>7. SumFunctionOnSet(f, SeenAt(s, a)) \in Int /\ f[n] \in Int
      BY <3>4, <3>5, SumType
    <3>8. Figure(Applied(s), p) = Figure(running[s][a], p) + f[n]
      BY <2>2, AppliedFigure, Zenon
    <3>9. Figure(row[a], p) \in Int
      BY <1>3 DEF IInv, TypeInv, TypeOK, Balance, Figure, Int64, MinInt64
    <3>10. Figure(running[s][a], p) = Figure(row[a], p) + SumFunctionOnSet(f, SeenAt(s, a))
      BY <2>1, Zenon DEF IsWorked
    <3>11. Figure(Applied(s), p) = Figure(row[a], p) + SumFunctionOnSet(f, SeenAt(s, a) \cup {n})
      <4> DEFINE S == SumFunctionOnSet(f, SeenAt(s, a))
                 T == SumFunctionOnSet(f, SeenAt(s, a) \cup {n})
      <4> HIDE DEF S, T, f
      <4> QED BY <3>6, <3>7, <3>8, <3>9, <3>10 DEF S, T
    <3> HIDE DEF f
    <3>12. Figure(running'[s][a], p) = Figure(row'[a], p) + SumFunctionOnSet(f, SeenAt(s, a)')
      BY <1>1, <1>2, <2>2, <3>2, <3>11, Zenon
    <3> QED BY <1>1, <3>12, Zenon DEF IsWorked, f
  <2>3. CASE a # acc
    <3>1. SeenAt(s, a)' = SeenAt(s, a)
      <4>1. n \notin LegsAt(Current(s), a)
        BY <2>3, Zenon DEF LegsAt, NextLeg
      <4>2. LegsAt(Current(s), a) \subseteq DOMAIN Current(s).legs
        BY Zenon DEF LegsAt
      <4>3. \A i : i \in SeenAt(s, a)' <=> i \in SeenAt(s, a)
        <5>1. n = job[s].next
          OBVIOUS
        <5> HIDE DEF n
        <5> QED BY <5>1, <1>1, <1>4, <4>1, <4>2, Zenon DEF SeenAt
      <4> QED BY <4>3
    <3>2. running'[s][a] = running[s][a]
      BY <1>2, <1>3, <2>3, Zenon
    <3> QED BY <1>1, <2>1, <3>1, <3>2, Zenon DEF IsWorked
  <2> QED BY <2>2, <2>3, Zenon
<1>6. \A r \in Session \ {s} : /\ pc'[r] = pc[r] /\ job'[r] = job[r]
                               /\ toLock'[r] = toLock[r] /\ running'[r] = running[r]
  BY <1>1, <1>2, Zenon
<1> QED BY <1>1, <1>3, <1>5, <1>6, WorkOthers

\* While a session locks rows, apply has looked at no leg.
LEMMA LockingSawNone ==
  ASSUME IInv, LegsInv, NEW s \in Session, pc[s] = "lock", NEW a
  PROVE  SeenAt(s, a) = {}
<1>1. DraftsMatch(s) /\ drafts[s] = {}
  BY Zenon DEF LegsInv, Active, IInv, DraftInv
<1>2. \A i : i \in SeenAt(s, a) => i \in Seen(s)
  BY Zenon DEF Seen, SeenAt, LegsAt
<1> QED BY <1>1, <1>2, Zenon DEF DraftsMatch

\* LockAccounts reads a row as it is; the rows it has read stay as they are.
LEMMA WorkLockRow ==
  ASSUME IInv, LegsInv, WorkInv, NEW s \in Session, LockRow(s)
  PROVE  WorkInv'
<1>1. PICK a \in toLock[s] :
        /\ running' = [running EXCEPT ![s][a] = row[a]]
        /\ toLock' = [toLock EXCEPT ![s] = @ \ {a}]
        /\ pc' = [pc EXCEPT ![s] = IF toLock[s] = {a} THEN "apply" ELSE @]
  BY Zenon DEF LockRow
<1>2. /\ row' = row /\ job' = job /\ pc[s] = "lock" /\ Active(s) /\ Current(s)' = Current(s)
      /\ row \in [Account -> Balance]
  BY Zenon DEF LockRow, Active, Current, IInv, TypeInv, TypeOK
<1>3. a \in Account /\ Held(s) \subseteq Account
  BY <1>2, HeldType, Zenon DEF IInv, TypeInv, TypeOK
<1>4. /\ \A r \in Session \ {s} : /\ pc'[r] = pc[r] /\ job'[r] = job[r]
                                  /\ toLock'[r] = toLock[r] /\ running'[r] = running[r]
      /\ running'[s][a] = row[a] /\ \A b \in Account \ {a} : running'[s][b] = running[s][b]
      /\ \A b : b \in Held(s)' => b = a \/ b \in Held(s)
  BY <1>1, <1>2, <1>3, ZenonT(30) DEF IInv, TypeInv, TypeOK, Held
<1>5. \A b : SeenAt(s, b) = {} /\ SeenAt(s, b)' = {}
  <2>1. \A b : SeenAt(s, b) = {}
    BY <1>2, LockingSawNone, Zenon
  <2>2. \A b : SeenAt(s, b)' = SeenAt(s, b)
    BY <1>2, Zenon DEF SeenAt
  <2> QED BY <2>1, <2>2, Zenon
<1>6. ASSUME NEW b \in Held(s)', NEW p \in BOOLEAN PROVE IsWorked(s, b, p)'
  <2>1. CASE b = a
    <3>1. SumFunctionOnSet(LegDelta(Current(s), p), SeenAt(s, b))' = 0
      BY <1>5, SumOfNone, Zenon
    <3>2. Figure(row[a], p) \in Int
      BY <1>2, <1>3 DEF Figure, Balance, Int64, MinInt64
    <3>3. Figure(row[a], p) = Figure(row[a], p) + 0
      BY <3>2
    <3> QED BY <1>2, <1>4, <2>1, <3>1, <3>3, Zenon DEF IsWorked
  <2>2. CASE b # a
    <3>1. b \in Held(s) /\ running'[s][b] = running[s][b] /\ IsWorked(s, b, p)
      BY <1>2, <1>3, <1>4, <2>2, Zenon DEF WorkInv
    <3> QED BY <1>2, <1>5, <3>1, Zenon DEF IsWorked
  <2> QED BY <2>1, <2>2, Zenon
<1> QED BY <1>2, <1>4, <1>6, WorkOthers

\* The other steps leave the session no row it has read.
LEMMA WorkStep == IInv /\ LegsInv /\ WorkInv /\ [Next]_vars => WorkInv'
<1> SUFFICES ASSUME IInv, LegsInv, WorkInv, [Next]_vars PROVE WorkInv'
  BY Zenon
<1>1. ASSUME NEW s \in Session, Call(s) PROVE WorkInv'
  <2>1. PICK post, then, target, final, op : Begin(s, op, post, then, target, final)
    BY <1>1, Zenon DEF Call, Post, Void, Capture, Reverse
  <2>2. /\ Current(s)' = post /\ toLock'[s] = AccountIDs(post) /\ row' = row
        /\ \A r \in Session \ {s} : /\ pc'[r] = pc[r] /\ job'[r] = job[r]
                                    /\ toLock'[r] = toLock[r] /\ running'[r] = running[r]
    BY <2>1, Zenon DEF Begin, Current, IInv, TypeInv, TypeOK, JobShape
  <2>3. \A a : a \notin Held(s)'
    BY <2>2, Zenon DEF Held, AccountIDs
  <2> QED BY <2>2, <2>3, WorkOthers
<1>2. ASSUME NEW s \in Session, LockRow(s) PROVE WorkInv'
  BY <1>2, WorkLockRow, Zenon
<1>3. ASSUME NEW s \in Session, ApplyEntry(s) PROVE WorkInv'
  BY <1>3, WorkApply, Zenon
<1>4. ASSUME NEW s \in Session, Write(s) PROVE WorkInv'
  <2>1. /\ Current(s)' = job[s].then
        /\ Active(s)' => toLock'[s] = AccountIDs(job[s].then)
        /\ \A a \in Account : a \notin AccountIDs(Current(s)) => row'[a] = row[a]
        /\ \A r \in Session \ {s} : /\ pc'[r] = pc[r] /\ job'[r] = job[r]
                                    /\ toLock'[r] = toLock[r] /\ running'[r] = running[r]
    BY <1>4, ZenonT(30) DEF Write, IInv, TypeInv, TypeOK, JobShape, Active, Current
  <2>2. \A a \in AccountIDs(Current(s)) : lock[a] = s
    BY <1>4, Zenon DEF Write, Active, Held, IInv, LockInv, AppliesLocked, HeldIsLocked
  <2>3. Active(s)' => \A a : a \notin Held(s)'
    BY <2>1, Zenon DEF Held, AccountIDs
  <2> QED BY <2>1, <2>2, <2>3, WorkOthers
<1>5. ASSUME NEW s \in Session, Done(s), \A a \in Account : lock[a] # s => row'[a] = row[a]
      PROVE  WorkInv'
  <2>1. /\ ~ Active(s)'
        /\ \A r \in Session \ {s} : /\ pc'[r] = pc[r] /\ job'[r] = job[r]
                                    /\ toLock'[r] = toLock[r] /\ running'[r] = running[r]
    BY <1>5, DoneEffect DEF IInv, Active
  <2> QED BY <1>5, <2>1, WorkOthers
<1>6. CASE UNCHANGED vars
  <2>1. /\ row' = row /\ pc' = pc /\ job' = job /\ toLock' = toLock /\ running' = running
    BY <1>6, Zenon DEF vars
  <2> SUFFICES ASSUME NEW s \in Session, Active(s)', NEW a \in Held(s)', NEW p \in BOOLEAN
               PROVE  IsWorked(s, a, p)'
    BY Zenon DEF WorkInv
  <2>2. Active(s) /\ a \in Held(s) /\ Current(s)' = Current(s)
    BY <2>1, Zenon DEF Active, Current, Held
  <2>3. IsWorked(s, a, p) /\ SeenAt(s, a)' = SeenAt(s, a)
    BY <2>1, <2>2, Zenon DEF WorkInv, SeenAt
  <2> QED BY <2>1, <2>2, <2>3, Zenon DEF IsWorked
<1>7. ASSUME NEW s \in Session, Commit(s) \/ Rollback(s) PROVE WorkInv'
  <2>1. Done(s) /\ \A a \in Account : lock[a] # s => row'[a] = row[a]
    BY <1>7, Zenon DEF Commit, Rollback
  <2> QED BY <1>5, <2>1, Zenon
<1> QED BY <1>1, <1>2, <1>3, <1>4, <1>6, <1>7, Zenon DEF Next, Step, Refuse, Abort

-----------------------------------------------------------------------------
(* Every balance is the sum of its entries *)

\* What the entries add to the pending figure of their accounts, or to the
\* posted one.
Delta(p) == [e \in Entry |-> IF e.pending = p THEN SignedDelta(e) ELSE 0]

IsDerived(b, E) ==
  \A p \in BOOLEAN : Figure(b, p) = SumFunctionOnSet(Delta(p), E)

DerivedInv ==
  /\ IsFiniteSet(entries)
  /\ \A a \in Account : IsDerived(committed[a], EntriesOf(a)) /\ IsDerived(row[a], AllOn(a))

\* What an entry adds is an integer.
LEMMA DeltaType == \A p, e : e \in Entry => Delta(p)[e] \in Int
<1> SUFFICES ASSUME NEW p, NEW e \in Entry PROVE Delta(p)[e] \in Int
  BY Zenon
<1>1. Delta(p)[e] = IF e.pending = p THEN SignedDelta(e) ELSE 0
  BY Zenon DEF Delta
<1>2. SignedDelta(e) \in Int
  BY DEF SignedDelta, Entry
<1> QED BY <1>1, <1>2

\* The entry of a leg adds what the leg does.
LEMMA DeltaOfLeg ==
  ASSUME NEW spec, NEW i \in DOMAIN spec.legs, NEW e, IsEntryOf(e, spec, i), NEW p
  PROVE  Delta(p)[e] = LegDelta(spec, p)[i]
<1>1. /\ Delta(p)[e] = IF e.pending = p THEN SignedDelta(e) ELSE 0
      /\ LegDelta(spec, p)[i] = IF spec.pending = p THEN SignedDelta(spec.legs[i]) ELSE 0
  BY Zenon DEF Delta, LegDelta, IsEntryOf
<1>2. SignedDelta(e) = SignedDelta(spec.legs[i])
  BY Zenon DEF SignedDelta, IsEntryOf
<1>3. e.pending = spec.pending
  BY Zenon DEF IsEntryOf
<1> QED BY <1>1, <1>2, <1>3, Zenon

\* Once apply has looked at every leg, the working balance holds them all.
LEMMA WorkedOut ==
  ASSUME IInv, WorkInv, NEW s \in Session, Write(s),
         NEW a \in AccountIDs(Current(s)), NEW p \in BOOLEAN
  PROVE  /\ a \in Account /\ Current(s).legs \in Seq(Leg)
         /\ Figure(running[s][a], p) =
              Figure(row[a], p)
                + SumFunctionOnSet(LegDelta(Current(s), p), LegsAt(Current(s), a))
<1>1. /\ Active(s) /\ pc[s] = "apply" /\ Current(s).legs \in Seq(Leg)
      /\ job[s].next > Len(Current(s).legs) /\ job[s].next \in Nat
  BY Zenon DEF Write, Active, IInv, TypeInv, JobShape, TypeOK
<1>2. a \in Held(s) /\ a \in Account
  BY <1>1, HeldType, Zenon DEF Held, IInv, LockInv, AppliesLocked
<1>3. \A i \in DOMAIN Current(s).legs : i < job[s].next
  BY <1>1
<1>4. SeenAt(s, a) = LegsAt(Current(s), a)
  BY <1>3, Zenon DEF SeenAt, LegsAt
<1>5. IsWorked(s, a, p)
  BY <1>1, <1>2, Zenon DEF WorkInv
<1> QED BY <1>1, <1>2, <1>4, <1>5, Zenon DEF IsWorked

\* Writing a posting adds its entries to the rows and to the books alike.
LEMMA DerivedWrite ==
  ASSUME IInv, LegsInv, WorkInv, DerivedInv, NEW s \in Session, Write(s)
  PROVE  DerivedInv'
<1> DEFINE legs == Current(s).legs
<1>1. PICK r :
           /\ \A i \in DOMAIN legs : IsEntryOf(r[i], Current(s), i) /\ r[i] \notin entries
           /\ \A i, j \in DOMAIN legs : r[i] = r[j] => i = j
           /\ entries' = entries \cup {r[i] : i \in DOMAIN legs}
           /\ \A a : AllOn(a)' = AllOn(a) \cup {r[i] : i \in LegsAt(Current(s), a)}
  <2>1. PICK r :
           /\ \A i \in DOMAIN Current(s).legs :
                IsEntryOf(r[i], Current(s), i) /\ r[i] \notin entries
           /\ \A i, j \in DOMAIN Current(s).legs : r[i] = r[j] => i = j
           /\ entries' = entries \cup {r[i] : i \in DOMAIN Current(s).legs}
           /\ \A a : AllOn(a)' = AllOn(a) \cup {r[i] : i \in LegsAt(Current(s), a)}
           /\ LiveEntries(s)' =
                LiveEntries(s) \cup {r[i] : i \in DOMAIN Current(s).legs}
           /\ \A q \in Session \ {s} : LiveEntries(q)' = LiveEntries(q)
    BY WriteShows, Zenon
  <2> QED BY <2>1, Zenon
<1>2. legs \in Seq(Leg) /\ IsFiniteSet(DOMAIN legs)
  BY LegsFinite, Zenon DEF Write, IInv, TypeInv, JobShape, Active
<1>3. \A p \in BOOLEAN, i \in DOMAIN legs :
        LegDelta(Current(s), p)[i] \in Int /\ Delta(p)[r[i]] = LegDelta(Current(s), p)[i]
  <2> SUFFICES ASSUME NEW p \in BOOLEAN, NEW i \in DOMAIN legs
               PROVE  /\ LegDelta(Current(s), p)[i] \in Int
                      /\ Delta(p)[r[i]] = LegDelta(Current(s), p)[i]
    BY Zenon
  <2>1. IsEntryOf(r[i], Current(s), i)
    BY <1>1, Zenon
  <2>2. Delta(p)[r[i]] = LegDelta(Current(s), p)[i]
    BY <2>1, DeltaOfLeg
  <2>3. LegDelta(Current(s), p)[i] \in Int
    BY <1>2, LegDeltaType, Zenon
  <2> QED BY <2>2, <2>3
<1>4. committed' = committed /\ \A a : EntriesOf(a)' = EntriesOf(a)
  <2>1. committed' = committed
    BY Zenon DEF Write
  <2>2. CommittedEntries' = CommittedEntries
    BY IWrite, Zenon
  <2> QED BY <2>1, <2>2, Zenon DEF EntriesOf
<1>5. \A a \in Account :
        row'[a] = IF a \in AccountIDs(Current(s)) THEN NextVersion(running[s][a]) ELSE row[a]
  BY Zenon DEF Write
<1>6. entries \subseteq Entry
  BY Zenon DEF IInv, TypeInv, TypeOK
<1> HIDE DEF legs
<1>7. IsFiniteSet(entries')
  <2> DEFINE S == DOMAIN legs
             R == {r[i] : i \in S}
  <2>1. IsFiniteSet(R)
    <3>1. R = {r[x] : x \in S}
      OBVIOUS
    <3> HIDE DEF R, S
    <3> QED BY <1>2, <3>1, FiniteImage DEF S
  <2> QED BY <1>1, <2>1, FiniteUnion, Zenon DEF DerivedInv
<1>8. ASSUME NEW a \in Account, NEW p \in BOOLEAN
      PROVE  Figure(row'[a], p) = SumFunctionOnSet(Delta(p), AllOn(a)')
  <2> DEFINE L == LegsAt(Current(s), a)
             New == {r[i] : i \in L}
             Old == AllOn(a)
  <2>1. L \subseteq DOMAIN legs
    BY Zenon DEF LegsAt, legs
  <2>2. IsFiniteSet(L) /\ IsFiniteSet(Old) /\ Old \subseteq entries
    BY <1>2, <2>1, FinitePart, Zenon DEF AllOn, DerivedInv
  <2>3. Figure(row[a], p) = SumFunctionOnSet(Delta(p), Old)
    BY Zenon DEF DerivedInv, IsDerived
  <2>4. CASE a \in AccountIDs(Current(s))
    <3>1. /\ IsFiniteSet(New)
          /\ SumFunctionOnSet(Delta(p), New) = SumFunctionOnSet(LegDelta(Current(s), p), L)
      <4> DEFINE f == LegDelta(Current(s), p)
                 g == Delta(p)
      <4> HIDE DEF L, f, g
      <4>1. IsFiniteSet(L) /\ OneToOne(r, L, New)
        BY <1>1, <2>1, <2>2, Zenon DEF OneToOne
      <4>2. Carries(r, L, f, g)
        BY <1>3, <2>1, Zenon DEF f, g, Carries
      <4>3. IsFiniteSet(New) /\ SumFunctionOnSet(g, New) = SumFunctionOnSet(f, L)
        <5> HIDE DEF New
        <5> QED BY <4>1, <4>2, SumImage
      <4> QED BY <4>3, Zenon DEF f, g
    <3>2. Old \cap New = {} /\ \A e \in Old \cup New : Delta(p)[e] \in Int
      <4>1. \A e \in Old : Delta(p)[e] \in Int
        BY <1>6, <2>2, DeltaType, Zenon
      <4>2. \A e \in New : e \notin Old /\ Delta(p)[e] \in Int
        <5> SUFFICES ASSUME NEW i \in L PROVE r[i] \notin Old /\ Delta(p)[r[i]] \in Int
          BY Zenon
        <5>1. i \in DOMAIN legs
          BY <2>1, Zenon
        <5> HIDE DEF L, Old
        <5> QED BY <1>1, <1>3, <2>2, <5>1, Zenon
      <4> HIDE DEF Old, New
      <4> QED BY <4>1, <4>2, Zenon
    <3>3. SumFunctionOnSet(Delta(p), Old \cup New) =
            SumFunctionOnSet(Delta(p), Old) + SumFunctionOnSet(Delta(p), New)
      <4> HIDE DEF Old, New
      <4> QED BY <2>2, <3>1, <3>2, SumUnion, Zenon
    <3>4. Figure(running[s][a], p) =
            Figure(row[a], p) + SumFunctionOnSet(LegDelta(Current(s), p), L)
      BY <2>4, WorkedOut, Zenon
    <3>5. Figure(row'[a], p) = Figure(running[s][a], p)
      <4>1. running[s][a] \in Balance
        BY Zenon DEF IInv, TypeInv, TypeOK
      <4>2. Figure(NextVersion(running[s][a]), p) = Figure(running[s][a], p)
        BY <4>1 DEF Figure, NextVersion, Balance
      <4> QED BY <1>5, <2>4, <4>2, Zenon
    <3> HIDE DEF Old, New, L
    <3>6. AllOn(a)' = Old \cup New
      BY <1>1, Zenon DEF Old, New, L
    <3> QED BY <2>3, <3>1, <3>3, <3>4, <3>5, <3>6, Zenon
  <2>5. CASE a \notin AccountIDs(Current(s))
    <3>1. New = {}
      BY <2>5, Zenon DEF LegsAt, AccountIDs
    <3>2. AllOn(a)' = Old
      BY <1>1, <3>1, Zenon
    <3>3. row'[a] = row[a]
      BY <1>5, <2>5, Zenon
    <3> QED BY <2>3, <3>2, <3>3, Zenon
  <2> QED BY <2>4, <2>5, Zenon
<1>9. \A a \in Account : IsDerived(row'[a], AllOn(a)')
  BY <1>8, Zenon DEF IsDerived
<1>10. \A a \in Account : IsDerived(committed'[a], EntriesOf(a)')
  BY <1>4, Zenon DEF DerivedInv
<1> QED BY <1>7, <1>9, <1>10, Zenon DEF DerivedInv

\* The other steps write no entry: they show what a session wrote, or hide it.
LEMMA DerivedStep ==
  IInv /\ LegsInv /\ WorkInv /\ DerivedInv /\ [Next]_vars => DerivedInv'
<1> SUFFICES ASSUME IInv, LegsInv, WorkInv, DerivedInv, [Next]_vars PROVE DerivedInv'
  BY Zenon
<1>1. ASSUME row' = row, committed' = committed, entries' = entries, live' = live
      PROVE  DerivedInv'
  <2>1. \A a : EntriesOf(a)' = EntriesOf(a) /\ AllOn(a)' = AllOn(a)
    BY <1>1, Zenon DEF EntriesOf, CommittedEntries, Uncommitted, AllOn
  <2> QED BY <1>1, <2>1, Zenon DEF DerivedInv
<1>2. ASSUME NEW s \in Session, Call(s) \/ LockRow(s) \/ ApplyEntry(s) PROVE DerivedInv'
  <2>1. row' = row /\ committed' = committed /\ entries' = entries /\ live' = live
    BY <1>2, ZenonT(30) DEF Call, Post, Void, Capture, Reverse, Begin, LockRow, ApplyEntry
  <2> QED BY <1>1, <2>1, Zenon
<1>3. ASSUME NEW s \in Session, Write(s) PROVE DerivedInv'
  BY <1>3, DerivedWrite, Zenon
<1>4. ASSUME NEW s \in Session, Commit(s) PROVE DerivedInv'
  <2>1. /\ entries' = entries /\ row' = row
        /\ \A a \in Account :
             IF lock[a] = s
             THEN EntriesOf(a)' = AllOn(a) /\ committed'[a] = row[a]
             ELSE EntriesOf(a)' = EntriesOf(a) /\ committed'[a] = committed[a]
    BY <1>4, CommitShows, Zenon
  <2>2. \A a : AllOn(a)' = AllOn(a)
    BY <2>1, Zenon DEF AllOn
  <2> SUFFICES ASSUME NEW a \in Account
               PROVE  IsDerived(committed'[a], EntriesOf(a)') /\ IsDerived(row'[a], AllOn(a)')
    BY <2>1, Zenon DEF DerivedInv
  <2>3. IsDerived(committed[a], EntriesOf(a)) /\ IsDerived(row[a], AllOn(a))
    BY Zenon DEF DerivedInv
  <2> QED BY <2>1, <2>2, <2>3, Zenon
<1>5. ASSUME NEW s \in Session, Rollback(s) PROVE DerivedInv'
  <2>1. /\ entries' \subseteq entries /\ committed' = committed
        /\ \A a : EntriesOf(a)' = EntriesOf(a)
        /\ \A a \in Account :
             IF lock[a] = s
             THEN AllOn(a)' = EntriesOf(a) /\ row'[a] = committed[a]
             ELSE AllOn(a)' = AllOn(a) /\ row'[a] = row[a]
    BY <1>5, RollbackHides, Zenon
  <2>2. IsFiniteSet(entries')
    BY <2>1, FinitePart, Zenon DEF DerivedInv
  <2> SUFFICES ASSUME NEW a \in Account
               PROVE  IsDerived(committed'[a], EntriesOf(a)') /\ IsDerived(row'[a], AllOn(a)')
    BY <2>2, Zenon DEF DerivedInv
  <2>3. IsDerived(committed[a], EntriesOf(a)) /\ IsDerived(row[a], AllOn(a))
    BY Zenon DEF DerivedInv
  <2> QED BY <2>1, <2>3, Zenon
<1>6. CASE UNCHANGED vars
  BY <1>1, <1>6, Zenon DEF vars
<1> QED BY <1>2, <1>3, <1>4, <1>5, <1>6, Zenon DEF Next, Step, Refuse, Abort

\* The empty books are the sums of no entries.
LEMMA DerivedInit == Init => LegsInv /\ WorkInv /\ DerivedInv
<1> SUFFICES ASSUME Init PROVE LegsInv /\ WorkInv /\ DerivedInv
  BY Zenon
<1>1. LegsInv /\ WorkInv
  BY Zenon DEF Init, LegsInv, WorkInv, Active
<1>2. \A a : EntriesOf(a) = {} /\ AllOn(a) = {}
  BY Zenon DEF Init, EntriesOf, CommittedEntries, AllOn
<1>3. \A p \in BOOLEAN : Figure(ZeroBalance, p) = 0
  BY DEF Figure, ZeroBalance
<1>4. IsDerived(ZeroBalance, {})
  BY <1>3, SumOfNone, Zenon DEF IsDerived
<1>5. IsFiniteSet(entries)
  BY FiniteNone, Zenon DEF Init
<1>6. \A a \in Account : row[a] = ZeroBalance /\ committed[a] = ZeroBalance
  BY Zenon DEF Init
<1> QED BY <1>1, <1>2, <1>4, <1>5, <1>6, Zenon DEF DerivedInv

\* What DerivedInv says of the reconciler's query and of the pending balances.
LEMMA DerivedIsMaterialized == IInv /\ DerivedInv => MaterializedIsDerived
<1> SUFFICES ASSUME IInv, DerivedInv, NEW a \in Account
             PROVE  /\ committed[a].posted =
                         SumFunction([e \in EntriesOf(a) |-> PostedDelta(e)])
                    /\ committed[a].pending =
                         SumFunction([e \in EntriesOf(a) |-> SignedDelta(e) - PostedDelta(e)])
  BY Zenon DEF MaterializedIsDerived, DriftedAccounts
<1> DEFINE E == EntriesOf(a)
           f == [e \in E |-> PostedDelta(e)]
           g == [e \in E |-> SignedDelta(e) - PostedDelta(e)]
<1>1. IsFiniteSet(E) /\ E \subseteq Entry
  <2>1. E \subseteq entries
    BY Zenon DEF EntriesOf, CommittedEntries
  <2> QED BY <2>1, FinitePart, Zenon DEF DerivedInv, IInv, TypeInv, TypeOK
<1>2. ASSUME NEW e \in E
      PROVE  Delta(FALSE)[e] = f[e] /\ Delta(TRUE)[e] = g[e]
  <2>1. e \in Entry
    BY <1>1, Zenon
  <2>2. e.pending \in BOOLEAN /\ SignedDelta(e) \in Int
    BY <2>1 DEF Entry, SignedDelta
  <2>3. /\ Delta(FALSE)[e] = IF e.pending = FALSE THEN SignedDelta(e) ELSE 0
        /\ Delta(TRUE)[e] = IF e.pending = TRUE THEN SignedDelta(e) ELSE 0
    BY <2>1, Zenon DEF Delta
  <2>4. ((e.pending = FALSE) <=> ~ e.pending) /\ ((e.pending = TRUE) <=> e.pending)
    BY <2>2, Zenon
  <2>5. f[e] = PostedDelta(e) /\ g[e] = SignedDelta(e) - PostedDelta(e)
    BY Zenon
  <2>6. CASE e.pending
    <3>1. Delta(FALSE)[e] = 0 /\ Delta(TRUE)[e] = SignedDelta(e)
      BY <2>4, <2>3, <2>6, Zenon
    <3>2. PostedDelta(e) = 0
      BY <2>6, Zenon DEF PostedDelta
    <3>3. SignedDelta(e) - PostedDelta(e) = SignedDelta(e)
      BY <2>2, <3>2
    <3> QED BY <2>5, <3>1, <3>2, <3>3, Zenon
  <2>7. CASE ~ e.pending
    <3>1. Delta(FALSE)[e] = SignedDelta(e) /\ Delta(TRUE)[e] = 0
      BY <2>4, <2>3, <2>7, Zenon
    <3>2. PostedDelta(e) = SignedDelta(e)
      BY <2>7, Zenon DEF PostedDelta
    <3>3. SignedDelta(e) - PostedDelta(e) = 0
      BY <2>2, <3>2
    <3> QED BY <2>5, <3>1, <3>2, <3>3, Zenon
  <2> QED BY <2>6, <2>7, Zenon
<1>3. SumFunction(f) = SumFunctionOnSet(f, E) /\ SumFunction(g) = SumFunctionOnSet(g, E)
  BY Zenon DEF SumFunction
<1>4. /\ SumFunctionOnSet(Delta(FALSE), E) = SumFunctionOnSet(f, E)
      /\ SumFunctionOnSet(Delta(TRUE), E) = SumFunctionOnSet(g, E)
  <2> HIDE DEF E, f, g
  <2> QED BY <1>1, <1>2, SumSame, Zenon
<1>5. \A p \in BOOLEAN : Figure(committed[a], p) = SumFunctionOnSet(Delta(p), E)
  BY Zenon DEF DerivedInv, IsDerived
<1>6. /\ Figure(committed[a], FALSE) = committed[a].posted
      /\ Figure(committed[a], TRUE) = committed[a].pending
  BY Zenon DEF Figure
<1> QED BY <1>3, <1>4, <1>5, <1>6, Zenon

\* The books are the sums of their entries in every reachable state.
LEMMA BooksInductive == Spec => [](IInv /\ LegsInv /\ WorkInv /\ DerivedInv)
<1> DEFINE Inv == IInv /\ LegsInv /\ WorkInv /\ DerivedInv
<1>1. Init => Inv
  BY IInit, DerivedInit, Zenon
<1>2. Inv /\ [Next]_vars => Inv'
  BY IStep, LegsStep, WorkStep, DerivedStep, Zenon
<1> QED BY <1>1, <1>2, PTL DEF Spec

\* MaterializedIsDerived, which the reconciler's query looks for (I7): in every
\* reachable state each committed balance is the sum of its committed entries,
\* posted and pending, and no account has drifted.
THEOREM MaterializedCorrect == Spec => []MaterializedIsDerived
  BY BooksInductive, DerivedIsMaterialized, PTL

=============================================================================

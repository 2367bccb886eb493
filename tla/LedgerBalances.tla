--------------------------- MODULE LedgerBalances ---------------------------
(***************************************************************************)
(* The balances of Ledger: those of a currency add up to nothing (I8), and *)
(* no account that may not go negative is overdrawn (I6).                  *)
(***************************************************************************)
EXTENDS LedgerBooks

-----------------------------------------------------------------------------
(* The entries of a currency cancel out *)

\* What the entries add to the pending figures, or to the posted ones, restated
\* as debits.
Debits(p) ==
  [e \in Entry |-> IF e.pending = p THEN EquationSign(e.account) * SignedDelta(e) ELSE 0]

In(E, c) == {e \in E : CurrencyOf[e.account] = c}

IsBalanced(E) ==
  \A c \in Currency, p \in BOOLEAN : SumFunctionOnSet(Debits(p), In(E, c)) = 0

BalancedInv == IsBalanced(CommittedEntries) /\ \A s \in Session : IsBalanced(LiveEntries(s))

\* The amount of a leg, restated as a debit.
DebitOf(leg) == IF leg.direction = Debit THEN leg.amount ELSE -leg.amount

\* An entry restated as a debit is its amount, positive for a debit.
LEMMA DebitsOf ==
  ASSUME NEW e \in Entry, NEW p
  PROVE  /\ DebitOf(e) \in Int /\ Debits(p)[e] = IF e.pending = p THEN DebitOf(e) ELSE 0
         /\ Debits(p)[e] \in Int
<1>1. e.amount \in Int /\ e.direction \in {Debit, Credit}
  BY DEF Entry
<1>2. EquationSign(e.account) * SignedDelta(e) = DebitOf(e) /\ DebitOf(e) \in Int
  BY <1>1 DEF EquationSign, SignedDelta, DebitOf, NormalBalance, Debit, Credit
<1>3. Debits(p)[e] = IF e.pending = p THEN EquationSign(e.account) * SignedDelta(e) ELSE 0
  BY Zenon DEF Debits
<1>4. Debits(p)[e] = IF e.pending = p THEN DebitOf(e) ELSE 0
  BY <1>2, <1>3, Zenon
<1>5. Debits(p)[e] \in Int
  BY <1>2, <1>4
<1> QED BY <1>2, <1>4, <1>5, Zenon

\* Balanced entries that are different add up to balanced entries.
LEMMA BalancedUnion ==
  ASSUME NEW E, NEW F, E \subseteq Entry, F \subseteq Entry, E \cap F = {},
         IsFiniteSet(E), IsFiniteSet(F), IsBalanced(E), IsBalanced(F)
  PROVE  IsBalanced(E \cup F)
<1> SUFFICES ASSUME NEW c \in Currency, NEW p \in BOOLEAN
             PROVE  SumFunctionOnSet(Debits(p), In(E \cup F, c)) = 0
  BY Zenon DEF IsBalanced
<1> DEFINE S == In(E, c)
           T == In(F, c)
<1>1. In(E \cup F, c) = S \cup T /\ S \cap T = {}
  BY DEF In
<1>2. S \subseteq E /\ T \subseteq F
  BY Zenon DEF In
<1>3. SumFunctionOnSet(Debits(p), S) = 0 /\ SumFunctionOnSet(Debits(p), T) = 0
  BY Zenon DEF IsBalanced
<1> HIDE DEF S, T
<1>4. IsFiniteSet(S) /\ IsFiniteSet(T)
  BY <1>2, FinitePart, Zenon
<1>5. \A e \in S \cup T : Debits(p)[e] \in Int
  <2> SUFFICES ASSUME NEW e \in S \cup T PROVE Debits(p)[e] \in Int
    BY Zenon
  <2>1. e \in Entry
    BY <1>2, Zenon
  <2> QED BY <2>1, DebitsOf, Zenon
<1>6. SumFunctionOnSet(Debits(p), S \cup T) =
        SumFunctionOnSet(Debits(p), S) + SumFunctionOnSet(Debits(p), T)
  BY <1>1, <1>4, <1>5, SumUnion, Zenon
<1>7. 0 + 0 = 0
  OBVIOUS
<1> QED BY <1>1, <1>3, <1>6, <1>7, Zenon

\* No entries are balanced.
LEMMA BalancedNone == IsBalanced({})
<1>1. \A c : In({}, c) = {}
  BY Zenon DEF In
<1> QED BY <1>1, SumOfNone, Zenon DEF IsBalanced

\* The legs of a valid posting, restated as debits, add up to nothing.
LEMMA LegsCancel ==
  ASSUME NEW legs \in Seq(Leg), Balanced(legs)
  PROVE  SumFunctionOnSet([i \in DOMAIN legs |-> DebitOf(legs[i])], DOMAIN legs) = 0
<1> DEFINE f == [i \in DOMAIN legs |-> DebitOf(legs[i])]
           D == LegsOn(legs, Debit)
           C == LegsOn(legs, Credit)
           d == [i \in D |-> legs[i].amount]
           k == [i \in C |-> legs[i].amount]
<1>1. \A i \in DOMAIN legs : legs[i].amount \in Int /\ legs[i].direction \in {Debit, Credit}
  <2> SUFFICES ASSUME NEW i \in DOMAIN legs
               PROVE  legs[i].amount \in Int /\ legs[i].direction \in {Debit, Credit}
    BY Zenon
  <2>1. legs[i] \in Leg
    OBVIOUS
  <2> QED BY <2>1 DEF Leg
<1>2. /\ D \cup C = DOMAIN legs /\ D \cap C = {} /\ D \subseteq DOMAIN legs
      /\ C \subseteq DOMAIN legs
  BY <1>1 DEF LegsOn, Debit, Credit
<1>3. IsFiniteSet(D) /\ IsFiniteSet(C)
  BY <1>2, LegsFinite, FinitePart
<1>4. /\ SideTotal(legs, Debit) = SumFunctionOnSet(d, D)
      /\ SideTotal(legs, Credit) = SumFunctionOnSet(k, C)
  BY Zenon DEF SideTotal, SumFunction
<1>5. \A i \in D : f[i] = d[i] /\ d[i] \in Int
  BY <1>1 DEF LegsOn, DebitOf
<1>6. \A i \in C : f[i] = -k[i] /\ k[i] \in Int
  BY <1>1 DEF LegsOn, DebitOf, Debit, Credit
<1>7. SideTotal(legs, Debit) = SideTotal(legs, Credit)
  BY Zenon DEF Balanced
<1>8. \A i \in DOMAIN legs : f[i] \in Int
  BY <1>1 DEF DebitOf
<1> HIDE DEF f, D, C, d, k
<1>9. SumFunctionOnSet(f, D) = SumFunctionOnSet(d, D)
  BY <1>3, <1>5, SumSame, Zenon
<1>10. SumFunctionOnSet(f, C) = -SumFunctionOnSet(k, C)
  BY <1>3, <1>6, SumOpposite, Zenon
<1>11. SumFunctionOnSet(k, C) \in Int
  BY <1>3, <1>6, SumType, Zenon
<1>12. SumFunctionOnSet(f, D \cup C) = SumFunctionOnSet(f, D) + SumFunctionOnSet(f, C)
  BY <1>2, <1>3, <1>8, SumUnion, Zenon
<1>13. SumFunctionOnSet(f, D) + SumFunctionOnSet(f, C) = 0
  <2> DEFINE x == SumFunctionOnSet(k, C)
  <2>1. SumFunctionOnSet(f, D) = x /\ SumFunctionOnSet(f, C) = -x
    BY <1>4, <1>7, <1>9, <1>10, Zenon
  <2>2. x + (-x) = 0
    <3> HIDE DEF x
    <3> QED BY <1>11 DEF x
  <2> QED BY <2>1, <2>2, Zenon
<1>14. SumFunctionOnSet(f, DOMAIN legs) = 0
  BY <1>2, <1>12, <1>13, Zenon
<1> QED BY <1>14, Zenon DEF f

\* The legs of a valid posting are in one currency.
LEMMA OneCurrency ==
  ASSUME NEW legs \in Seq(Leg), Balanced(legs)
  PROVE  \E c : \A i \in DOMAIN legs : legs[i].currency = c
<1> DEFINE r == [i \in DOMAIN legs |-> legs[i].currency]
<1>1. Currencies(legs) = {r[i] : i \in DOMAIN legs}
  BY Zenon DEF Currencies
<1> HIDE DEF r
<1>2. IsFiniteSet(Currencies(legs))
  BY <1>1, LegsFinite, FiniteImage
<1>3. PICK c : Currencies(legs) = {c}
  BY <1>2, OnlyElement, Zenon DEF Balanced
<1> QED BY <1>3, Zenon DEF Currencies

\* r gives the entry in R of each leg of spec.
AreEntriesOf(r, R, spec) ==
  /\ OneToOne(r, DOMAIN spec.legs, R)
  /\ \A i \in DOMAIN spec.legs : IsEntryOf(r[i], spec, i)

\* The entries of a valid posting cancel out in every currency.
LEMMA PostingBalanced ==
  ASSUME NEW spec, Validate(spec), NEW r, NEW R, AreEntriesOf(r, R, spec)
  PROVE  IsFiniteSet(R) /\ R \subseteq Entry /\ IsBalanced(R)
<1> DEFINE L == DOMAIN spec.legs
           h == [i \in L |-> DebitOf(spec.legs[i])]
           f(p) == [i \in L |-> IF spec.pending = p THEN DebitOf(spec.legs[i]) ELSE 0]
<1>1. spec.legs \in Seq(Leg) /\ Balanced(spec.legs)
  BY Zenon DEF Validate
<1>2. IsFiniteSet(L)
  BY <1>1, LegsFinite, Zenon
<1>3. SumFunctionOnSet(h, L) = 0
  BY <1>1, LegsCancel, Zenon
<1>4. ASSUME NEW p, NEW i \in L
      PROVE  f(p)[i] \in Int /\ Debits(p)[r[i]] = f(p)[i] /\ r[i] \in Entry
  <2>1. IsEntryOf(r[i], spec, i)
    BY Zenon DEF AreEntriesOf
  <2>2. /\ r[i] \in Entry /\ r[i].direction = spec.legs[i].direction
        /\ r[i].amount = spec.legs[i].amount /\ r[i].pending = spec.pending
    BY <2>1, Zenon DEF IsEntryOf
  <2>3. DebitOf(r[i]) = DebitOf(spec.legs[i])
    BY <2>2, Zenon DEF DebitOf
  <2>4. f(p)[i] = IF spec.pending = p THEN DebitOf(spec.legs[i]) ELSE 0
    BY Zenon
  <2> HIDE DEF f
  <2>5. Debits(p)[r[i]] = IF r[i].pending = p THEN DebitOf(r[i]) ELSE 0
    BY <2>2, DebitsOf, Zenon
  <2>6. Debits(p)[r[i]] = f(p)[i] /\ Debits(p)[r[i]] \in Int
    BY <2>2, <2>3, <2>4, <2>5, DebitsOf, Zenon
  <2> QED BY <2>2, <2>6, Zenon
<1>5. ASSUME NEW p PROVE SumFunctionOnSet(f(p), L) = 0
  <2>1. CASE spec.pending = p
    <3>1. \A i \in L : f(p)[i] = h[i]
      BY <2>1, Zenon
    <3> HIDE DEF f, h, L
    <3>2. SumFunctionOnSet(f(p), L) = SumFunctionOnSet(h, L)
      BY <1>2, <3>1, SumSame, Zenon
    <3> QED BY <1>3, <3>2, Zenon
  <2>2. CASE spec.pending # p
    <3>1. \A i \in L : f(p)[i] = 0
      BY <2>2, Zenon
    <3> HIDE DEF f, L
    <3> QED BY <1>2, <3>1, SumOfZeros, Zenon
  <2> QED BY <2>1, <2>2, Zenon
<1>6. \A e \in R : \E i \in L : e = r[i] /\ IsEntryOf(e, spec, i)
  BY Zenon DEF AreEntriesOf, OneToOne
<1>7. ASSUME NEW p PROVE IsFiniteSet(R) /\ SumFunctionOnSet(Debits(p), R) = 0
  <2> DEFINE F == f(p)
             g == Debits(p)
  <2>1. Carries(r, L, F, g)
    BY <1>4, Zenon DEF Carries
  <2>2. SumFunctionOnSet(F, L) = 0
    BY <1>5, Zenon
  <2>3. OneToOne(r, L, R)
    BY Zenon DEF AreEntriesOf
  <2> HIDE DEF F, g, L, f, h
  <2>4. IsFiniteSet(R) /\ SumFunctionOnSet(g, R) = SumFunctionOnSet(F, L)
    BY <1>2, <2>1, <2>3, SumImage
  <2> QED BY <2>2, <2>4, Zenon DEF g
<1>8. PICK k : \A i \in L : spec.legs[i].currency = k
  BY <1>1, OneCurrency, Zenon
<1>9. ASSUME NEW c, NEW p PROVE SumFunctionOnSet(Debits(p), In(R, c)) = 0
  <2>1. \A e \in R : CurrencyOf[e.account] = k
    BY <1>6, <1>8, Zenon DEF IsEntryOf
  <2>2. CASE c = k
    <3>1. In(R, c) = R
      BY <2>1, <2>2, Zenon DEF In
    <3> QED BY <1>7, <3>1, Zenon
  <2>3. CASE c # k
    <3>1. In(R, c) = {}
      BY <2>1, <2>3, Zenon DEF In
    <3> QED BY <3>1, SumOfNone, Zenon
  <2> QED BY <2>2, <2>3, Zenon
<1>10. R \subseteq Entry
  BY <1>6, Zenon DEF IsEntryOf
<1> QED BY <1>7, <1>9, <1>10, Zenon DEF IsBalanced

\* Every step keeps the committed entries balanced, and those that each session
\* has written so far.
LEMMA BalancedStep ==
  IInv /\ LegsInv /\ IsFiniteSet(entries) /\ BalancedInv /\ [Next]_vars => BalancedInv'
<1> SUFFICES ASSUME IInv, LegsInv, IsFiniteSet(entries), BalancedInv, [Next]_vars
             PROVE  BalancedInv'
  BY Zenon
<1>1. ASSUME entries' = entries, live' = live PROVE BalancedInv'
  <2>1. CommittedEntries' = CommittedEntries /\ \A s : LiveEntries(s)' = LiveEntries(s)
    BY <1>1, Zenon DEF CommittedEntries, Uncommitted, LiveEntries
  <2> QED BY <2>1, Zenon DEF BalancedInv
<1>2. ASSUME NEW s \in Session, Call(s) \/ LockRow(s) \/ ApplyEntry(s) PROVE BalancedInv'
  <2>1. entries' = entries /\ live' = live
    BY <1>2, ZenonT(30) DEF Call, Post, Void, Capture, Reverse, Begin, LockRow, ApplyEntry
  <2> QED BY <1>1, <2>1, Zenon
<1>3. /\ entries \subseteq Entry /\ CommittedEntries \subseteq entries
      /\ \A s : LiveEntries(s) \subseteq entries
  BY Zenon DEF IInv, TypeInv, TypeOK, CommittedEntries, LiveEntries
<1>4. ASSUME NEW s \in Session, Write(s) PROVE BalancedInv'
  <2>1. PICK r :
           /\ \A i \in DOMAIN Current(s).legs :
                IsEntryOf(r[i], Current(s), i) /\ r[i] \notin entries
           /\ \A i, j \in DOMAIN Current(s).legs : r[i] = r[j] => i = j
           /\ entries' = entries \cup {r[i] : i \in DOMAIN Current(s).legs}
           /\ \A a : AllOn(a)' = AllOn(a) \cup {r[i] : i \in LegsAt(Current(s), a)}
           /\ LiveEntries(s)' =
                LiveEntries(s) \cup {r[i] : i \in DOMAIN Current(s).legs}
           /\ \A q \in Session \ {s} : LiveEntries(q)' = LiveEntries(q)
    BY <1>4, WriteShows, Zenon
  <2> DEFINE R == {r[i] : i \in DOMAIN Current(s).legs}
             E == LiveEntries(s)
  <2>2. Validate(Current(s))
    BY <1>4, Zenon DEF LegsInv, Write, Active
  <2>3. IsFiniteSet(R) /\ R \subseteq Entry /\ IsBalanced(R)
    <3>1. AreEntriesOf(r, R, Current(s))
      BY <2>1, Zenon DEF AreEntriesOf, OneToOne
    <3> HIDE DEF R
    <3> QED BY <2>2, <3>1, PostingBalanced, Zenon
  <2>4. E \cap R = {} /\ LiveEntries(s)' = E \cup R
    <3>1. LiveEntries(s)' = E \cup R
      BY <2>1, Zenon
    <3>2. \A e \in R : e \notin entries
      BY <2>1, Zenon
    <3>3. \A e \in E : e \in entries
      BY <1>3, Zenon
    <3> HIDE DEF R, E
    <3> QED BY <3>1, <3>2, <3>3, Zenon
  <2>5. E \subseteq Entry /\ IsFiniteSet(E) /\ IsBalanced(E)
    BY <1>3, FinitePart, Zenon DEF BalancedInv
  <2> HIDE DEF R, E
  <2>6. IsBalanced(E \cup R)
    BY <2>3, <2>4, <2>5, BalancedUnion, Zenon
  <2>7. CommittedEntries' = CommittedEntries
    BY <1>4, IWrite, Zenon
  <2>8. \A q \in Session \ {s} : LiveEntries(q)' = LiveEntries(q)
    BY <2>1, Zenon
  <2> QED BY <2>4, <2>6, <2>7, <2>8, Zenon DEF BalancedInv
<1>5. ASSUME NEW s \in Session, Commit(s) PROVE BalancedInv'
  <2> DEFINE E == CommittedEntries
             F == LiveEntries(s)
  <2>1. /\ CommittedEntries' = E \cup F /\ E \cap F = {} /\ LiveEntries(s)' = {}
        /\ \A q \in Session \ {s} : LiveEntries(q)' = LiveEntries(q)
    BY <1>5, CommitShows, Zenon
  <2>2. /\ E \subseteq Entry /\ IsFiniteSet(E) /\ IsBalanced(E)
        /\ F \subseteq Entry /\ IsFiniteSet(F) /\ IsBalanced(F)
    BY <1>3, FinitePart, Zenon DEF BalancedInv
  <2> HIDE DEF E, F
  <2>3. IsBalanced(E \cup F)
    BY <2>1, <2>2, BalancedUnion, Zenon
  <2> QED BY <2>1, <2>3, BalancedNone, Zenon DEF BalancedInv
<1>6. ASSUME NEW s \in Session, Rollback(s) PROVE BalancedInv'
  <2>1. /\ CommittedEntries' = CommittedEntries /\ LiveEntries(s)' = {}
        /\ \A q \in Session \ {s} : LiveEntries(q)' = LiveEntries(q)
    BY <1>6, RollbackHides, Zenon
  <2> QED BY <2>1, BalancedNone, Zenon DEF BalancedInv
<1>7. CASE UNCHANGED vars
  BY <1>1, <1>7, Zenon DEF vars
<1> QED BY <1>2, <1>4, <1>5, <1>6, <1>7, Zenon DEF Next, Step, Refuse, Abort

\* The balance of an account, restated as a debit, is that of its entries.
LEMMA RestatedBalance ==
  ASSUME IInv, DerivedInv, NEW a \in Account, NEW p \in BOOLEAN
  PROVE  EquationSign(a) * Figure(committed[a], p) = SumFunctionOnSet(Debits(p), EntriesOf(a))
<1> DEFINE E == EntriesOf(a)
           f == Delta(p)
           g == Debits(p)
<1>1. IsFiniteSet(E) /\ \A e \in E : e \in Entry /\ e.account = a
  <2>1. E \subseteq entries /\ \A e \in E : e.account = a
    BY Zenon DEF EntriesOf, CommittedEntries
  <2>2. IsFiniteSet(E)
    BY <2>1, FinitePart, Zenon DEF DerivedInv
  <2> QED BY <2>1, <2>2, Zenon DEF IInv, TypeInv, TypeOK
<1>2. Figure(committed[a], p) = SumFunctionOnSet(f, E)
  BY Zenon DEF DerivedInv, IsDerived
<1>3. ASSUME NEW e \in E
      PROVE  f[e] \in Int /\ IF a \in DebitNormal THEN g[e] = f[e] ELSE g[e] = -f[e]
  <2>1. e \in Entry /\ e.account = a
    BY <1>1, Zenon
  <2>2. f[e] = IF e.pending = p THEN SignedDelta(e) ELSE 0
    BY <2>1, Zenon DEF Delta
  <2>3. g[e] = IF e.pending = p THEN EquationSign(a) * SignedDelta(e) ELSE 0
    BY <2>1, Zenon DEF Debits
  <2>4. SignedDelta(e) \in Int
    BY <2>1 DEF SignedDelta, Entry
  <2> HIDE DEF f, g
  <2>5. g[e] = EquationSign(a) * f[e] /\ f[e] \in Int
    <3>1. EquationSign(a) * 0 = 0
      BY DEF EquationSign
    <3>2. g[e] = EquationSign(a) * f[e]
      BY <2>2, <2>3, <3>1, Zenon
    <3>3. f[e] \in Int
      BY <2>2, <2>4
    <3> QED BY <3>2, <3>3, Zenon
  <2> QED BY <2>5 DEF EquationSign
<1> HIDE DEF E, f, g
<1>4. SumFunctionOnSet(f, E) \in Int
  BY <1>1, <1>3, SumType, Zenon
<1>5. CASE a \in DebitNormal
  <2>1. \A e \in E : g[e] = f[e]
    BY <1>3, <1>5, Zenon
  <2>2. SumFunctionOnSet(g, E) = SumFunctionOnSet(f, E)
    BY <1>1, <2>1, SumSame, Zenon
  <2>3. EquationSign(a) = 1
    BY <1>5, Zenon DEF EquationSign
  <2> QED BY <1>2, <1>4, <2>2, <2>3 DEF E, g
<1>6. CASE a \notin DebitNormal
  <2>1. \A e \in E : f[e] \in Int /\ g[e] = -f[e]
    BY <1>3, <1>6, Zenon
  <2>2. SumFunctionOnSet(g, E) = -SumFunctionOnSet(f, E)
    BY <1>1, <2>1, SumOpposite, Zenon
  <2>3. EquationSign(a) = -1
    BY <1>6, Zenon DEF EquationSign
  <2> QED BY <1>2, <1>4, <2>2, <2>3 DEF E, g
<1> QED BY <1>5, <1>6, Zenon

\* The balances of a currency, restated as debits, are those of its entries.
LEMMA RestatedTotal ==
  ASSUME IInv, DerivedInv, BalancedInv, NEW c \in Currency, NEW p \in BOOLEAN, NEW h,
         \A a \in AccountsIn(c) : h[a] = EquationSign(a) * Figure(committed[a], p)
  PROVE  SumFunctionOnSet(h, AccountsIn(c)) = 0
<1> DEFINE E == In(CommittedEntries, c)
           A == AccountsIn(c)
           f == Debits(p)
           key == [e \in Entry |-> e.account]
<1>1. E \subseteq entries /\ entries \subseteq Entry
  BY Zenon DEF In, CommittedEntries, IInv, TypeInv, TypeOK
<1>2. \A e \in E : key[e] \in A /\ key[e] = e.account
  <2> SUFFICES ASSUME NEW e \in E PROVE key[e] \in A /\ key[e] = e.account
    BY Zenon
  <2>1. e \in Entry
    BY <1>1, Zenon
  <2>2. key[e] = e.account
    BY <2>1, Zenon
  <2>3. e.account \in Account
    BY <2>1 DEF Entry
  <2> QED BY <2>2, <2>3, Zenon DEF In, AccountsIn
<1>3. IsFiniteSet(E) /\ IsFiniteSet(A)
  <2>1. A \subseteq Account
    BY Zenon DEF AccountsIn
  <2> QED BY <1>1, <2>1, FiniteAssumption, FinitePart, Zenon DEF DerivedInv
<1>4. \A e \in E : f[e] \in Int
  BY <1>1, DebitsOf, Zenon
<1>5. \A a \in A : h[a] = SumFunctionOnSet(f, {e \in E : key[e] = a})
  <2> SUFFICES ASSUME NEW a \in A
               PROVE  h[a] = SumFunctionOnSet(f, {e \in E : key[e] = a})
    BY Zenon
  <2>1. a \in Account /\ CurrencyOf[a] = c
    BY Zenon DEF AccountsIn
  <2>2. {e \in E : key[e] = a} = EntriesOf(a)
    <3>1. \A e \in E : key[e] = a <=> e.account = a
      BY <1>2, Zenon
    <3> HIDE DEF key
    <3>2. {e \in E : key[e] = a} = {e \in E : e.account = a}
      BY <3>1, Zenon
    <3>3. {e \in E : e.account = a} = EntriesOf(a)
      BY <2>1, Zenon DEF In, EntriesOf
    <3> QED BY <3>2, <3>3, Zenon
  <2>3. h[a] = SumFunctionOnSet(f, EntriesOf(a))
    BY <2>1, RestatedBalance, Zenon
  <2> QED BY <2>2, <2>3, Zenon
<1>6. SumFunctionOnSet(f, E) = 0
  BY Zenon DEF BalancedInv, IsBalanced
<1> HIDE DEF A, E, f, key
<1>7. SumFunctionOnSet(h, A) = SumFunctionOnSet(f, E)
  <2>1. SumsOfGroups(h, A, key, f, E)
    BY <1>2, <1>4, <1>5, Zenon DEF SumsOfGroups
  <2> QED BY <1>3, <2>1, SumByGroup
<1> QED BY <1>6, <1>7, Zenon DEF A

\* In balanced books the trial balance of every currency is nothing.
LEMMA BalancedTrial == IInv /\ DerivedInv /\ BalancedInv => TrialBalance
<1> SUFFICES ASSUME IInv, DerivedInv, BalancedInv, NEW c \in Currency
             PROVE  /\ TrialBalanceOf(c) = 0
                    /\ SumFunction([a \in AccountsIn(c) |->
                                      EquationSign(a) * committed[a].pending]) = 0
  BY Zenon DEF TrialBalance
<1> DEFINE A == AccountsIn(c)
           f == [a \in A |-> EquationSign(a) * committed[a].posted]
           g == [a \in A |-> EquationSign(a) * committed[a].pending]
<1>1. \A a : /\ Figure(committed[a], FALSE) = committed[a].posted
             /\ Figure(committed[a], TRUE) = committed[a].pending
  BY Zenon DEF Figure
<1>2. SumFunctionOnSet(f, A) = 0
  <2>1. \A a \in AccountsIn(c) : f[a] = EquationSign(a) * Figure(committed[a], FALSE)
    BY <1>1, Zenon
  <2> HIDE DEF f
  <2> QED BY <2>1, RestatedTotal, Zenon
<1>3. SumFunctionOnSet(g, A) = 0
  <2>1. \A a \in AccountsIn(c) : g[a] = EquationSign(a) * Figure(committed[a], TRUE)
    BY <1>1, Zenon
  <2> HIDE DEF g
  <2> QED BY <2>1, RestatedTotal, Zenon
<1>4. SumFunction(f) = SumFunctionOnSet(f, A) /\ SumFunction(g) = SumFunctionOnSet(g, A)
  BY Zenon DEF SumFunction
<1> QED BY <1>2, <1>3, <1>4, Zenon DEF TrialBalanceOf

\* The committed entries of balanced books are whole postings.
LEMMA BalancedSettled == IInv /\ DerivedInv /\ BalancedInv => Settled(CommittedEntries)
<1> SUFFICES ASSUME IInv, DerivedInv, BalancedInv PROVE Settled(CommittedEntries)
  BY Zenon
<1> DEFINE C == CommittedEntries
<1>1. C \subseteq entries /\ C \subseteq Entry
  BY Zenon DEF CommittedEntries, IInv, TypeInv, TypeOK
<1>2. IsFiniteSet(C)
  BY <1>1, FinitePart, Zenon DEF DerivedInv
<1>3. \A e \in Entry : /\ e.account \in Account /\ e.amount \in Int
                        /\ e.pending \in BOOLEAN
  BY DEF Entry
<1> HIDE DEF C
<1>4. ASSUME NEW a \in Account
      PROVE  LET same == {e \in C : CurrencyOf[e.account] = CurrencyOf[a]}
             IN SumFunction([e \in same |-> EquationSign(e.account) * PostedDelta(e)]) = 0
  <2> DEFINE S == {e \in C : CurrencyOf[e.account] = CurrencyOf[a]}
             f == [e \in S |-> EquationSign(e.account) * PostedDelta(e)]
             g == Debits(FALSE)
  <2>1. S = In(C, CurrencyOf[a]) /\ CurrencyOf[a] \in Currency /\ S \subseteq C
    BY Zenon DEF In, Currency
  <2>2. SumFunctionOnSet(g, S) = 0
    BY <2>1, Zenon DEF BalancedInv, IsBalanced, C
  <2>3. ASSUME NEW e \in S PROVE f[e] = g[e]
    <3>1. e \in Entry /\ f[e] = EquationSign(e.account) * PostedDelta(e)
      BY <1>1, <2>1, Zenon
    <3>2. g[e] = IF e.pending = FALSE THEN EquationSign(e.account) * SignedDelta(e) ELSE 0
      BY <3>1, Zenon DEF Debits
    <3>3. EquationSign(e.account) * 0 = 0
      BY DEF EquationSign
    <3>4. e.pending \in BOOLEAN
      BY <1>3, <3>1, Zenon
    <3> HIDE DEF f, g
    <3> QED BY <3>1, <3>2, <3>3, <3>4, Zenon DEF PostedDelta
  <2>4. SumFunction(f) = SumFunctionOnSet(f, S)
    BY Zenon DEF SumFunction
  <2>5. IsFiniteSet(S)
    BY <1>2, <2>1, FinitePart, Zenon
  <2>6. SumFunction(f) = 0
    <3> HIDE DEF f, g, S
    <3>1. SumFunctionOnSet(f, S) = SumFunctionOnSet(g, S)
      BY <2>3, <2>5, SumSame, Zenon
    <3> QED BY <2>2, <2>4, <3>1, Zenon
  <2> QED BY <2>6, Zenon
<1>5. \A e \in C : e.account \in Account /\ e.amount \in Int
  BY <1>1, <1>3, Zenon
<1>6. Settled(C)
  BY <1>2, <1>4, <1>5, Zenon DEF Settled
<1> QED BY <1>6, Zenon DEF C

-----------------------------------------------------------------------------
(* No account that may not go negative is overdrawn *)

\* What may be drawn against a balance, in unbounded arithmetic.
Worth(b) == b.posted + (IF b.pending < 0 THEN b.pending ELSE 0)

FundedInv ==
  \A a \in Account \ AllowNegative : Worth(committed[a]) >= 0 /\ Worth(row[a]) >= 0

\* One posting takes off an account no more than one of its sides.
LEMMA LegsBound ==
  ASSUME NEW spec, Validate(spec), NEW a \in Account, NEW p
  PROVE  /\ SumFunctionOnSet(LegDelta(spec, p), LegsAt(spec, a)) \in Int
         /\ SumFunctionOnSet(LegDelta(spec, p), LegsAt(spec, a)) >= -MaxInt64
         /\ spec.pending # p => SumFunctionOnSet(LegDelta(spec, p), LegsAt(spec, a)) = 0
<1> DEFINE legs == spec.legs
           d == Opposite(NormalBalance(a))
           L == LegsAt(spec, a)
           D == LegsOn(legs, d)
           T == {i \in L : legs[i].direction = d}
           U == {i \in L : legs[i].direction # d}
           f == LegDelta(spec, p)
           m == [i \in D |-> legs[i].amount]
<1>1. legs \in Seq(Leg) /\ SideTotal(legs, d) <= MaxInt64
  <2>1. d \in {Debit, Credit}
    BY Zenon DEF Opposite
  <2> QED BY <2>1, Zenon DEF Validate
<1>2. SideTotal(legs, d) = SumFunctionOnSet(m, D)
  BY Zenon DEF SideTotal, SumFunction
<1>3. L \subseteq DOMAIN legs /\ D \subseteq DOMAIN legs /\ T \subseteq D
  BY Zenon DEF LegsAt, LegsOn
<1>4. IsFiniteSet(L) /\ IsFiniteSet(D)
  BY <1>1, <1>3, LegsFinite, FinitePart
<1>5. T \cup U = L /\ T \cap U = {} /\ T \subseteq L /\ U \subseteq L
  OBVIOUS
<1>6. IsFiniteSet(T) /\ IsFiniteSet(U)
  BY <1>4, <1>5, FinitePart, Zenon
<1>7. \A i \in L : f[i] \in Int
  BY <1>1, <1>3, LegDeltaType, Zenon
<1>8. \A i \in D : m[i] \in Nat /\ m[i] = legs[i].amount
  <2> SUFFICES ASSUME NEW i \in D PROVE m[i] \in Nat /\ m[i] = legs[i].amount
    BY Zenon
  <2>1. legs[i] \in Leg
    BY <1>1, <1>3
  <2>2. legs[i].amount \in Nat
    BY <2>1, MaxInt64Assumption DEF Leg
  <2> QED BY <2>2, Zenon
<1>9. SumFunctionOnSet(m, T) \in Nat /\ SumFunctionOnSet(m, T) <= MaxInt64
  <2>1. SumFunctionOnSet(m, D) <= MaxInt64
    BY <1>1, <1>2, Zenon
  <2> HIDE DEF T, D, m
  <2>2. /\ SumFunctionOnSet(m, T) \in Nat /\ SumFunctionOnSet(m, D) \in Nat
        /\ SumFunctionOnSet(m, T) <= SumFunctionOnSet(m, D)
    BY <1>3, <1>4, <1>8, SumFewer, Zenon
  <2> QED BY <2>1, <2>2, MaxInt64Assumption
<1>10. CASE spec.pending = p
  <2>1. ASSUME NEW i \in L
        PROVE  IF legs[i].direction = d THEN f[i] = -legs[i].amount ELSE f[i] \in Nat
    <3>1. i \in DOMAIN legs /\ legs[i].account = a
      BY Zenon DEF LegsAt
    <3>2. legs[i] \in Leg
      BY <1>1, <3>1
    <3>3. legs[i].amount \in Nat /\ legs[i].direction \in {Debit, Credit}
      BY <3>2, MaxInt64Assumption DEF Leg
    <3>4. f[i] = SignedDelta(legs[i])
      BY <1>10, <3>1, Zenon DEF LegDelta
    <3>5. Debit # Credit
      BY DEF Debit, Credit
    <3>6. legs[i].direction = d <=> legs[i].direction # NormalBalance(a)
      BY <3>3, <3>5, Zenon DEF Opposite, NormalBalance
    <3> HIDE DEF f, d
    <3> QED BY <3>1, <3>3, <3>4, <3>6, Zenon DEF SignedDelta
  <2>2. \A i \in T : m[i] \in Int /\ f[i] = -m[i]
    <3> SUFFICES ASSUME NEW i \in T PROVE m[i] \in Int /\ f[i] = -m[i]
      BY Zenon
    <3>1. i \in L /\ i \in D /\ legs[i].direction = d
      BY <1>3, Zenon
    <3>2. m[i] \in Nat /\ m[i] = legs[i].amount /\ f[i] = -legs[i].amount
      BY <1>8, <2>1, <3>1, Zenon
    <3> QED BY <3>2
  <2>3. \A i \in U : f[i] \in Nat
    BY <2>1, Zenon
  <2> HIDE DEF f, m, T, U, L, D
  <2>4. SumFunctionOnSet(f, T) = -SumFunctionOnSet(m, T)
    BY <1>6, <2>2, SumOpposite, Zenon
  <2>5. SumFunctionOnSet(f, U) \in Nat
    BY <1>6, <2>3, SumNotNegative, Zenon
  <2>6. SumFunctionOnSet(f, T \cup U) = SumFunctionOnSet(f, T) + SumFunctionOnSet(f, U)
    BY <1>5, <1>6, <1>7, SumUnion, Zenon
  <2>7. SumFunctionOnSet(f, L) = SumFunctionOnSet(f, T) + SumFunctionOnSet(f, U)
    BY <1>5, <2>6, Zenon
  <2>8. SumFunctionOnSet(f, L) \in Int /\ SumFunctionOnSet(f, L) >= -MaxInt64
    BY <1>9, <2>4, <2>5, <2>7, MaxInt64Assumption
  <2> QED BY <1>10, <2>8, Zenon DEF f, L
<1>11. CASE spec.pending # p
  <2>1. \A i \in L : f[i] = 0
    BY <1>3, <1>11, Zenon DEF LegDelta
  <2> HIDE DEF f, L
  <2>2. SumFunctionOnSet(f, L) = 0
    BY <1>4, <2>1, SumOfZeros, Zenon
  <2>3. 0 \in Int /\ 0 >= -MaxInt64
    BY MaxInt64Assumption
  <2> QED BY <2>2, <2>3, Zenon DEF f, L
<1> QED BY <1>10, <1>11, Zenon

\* A balance that one posting has moved does not wrap around: Available is Worth.
LEMMA AvailableExact ==
  ASSUME NEW b \in Balance, Worth(b) >= -MaxInt64
  PROVE  Available(b) = Worth(b)
<1>1. /\ b.posted \in Int /\ b.posted >= MinInt64 /\ b.posted <= MaxInt64
      /\ b.pending \in Int /\ MinInt64 = -MaxInt64 - 1
  BY MaxInt64Assumption DEF Balance, Int64, MinInt64
<1>2. CASE b.pending < 0
  <2>1. Worth(b) = b.posted + b.pending /\ Available(b) = Wrap(b.posted + b.pending)
    BY <1>2 DEF Worth, Available
  <2>2. b.posted + b.pending >= MinInt64 /\ b.posted + b.pending <= MaxInt64
    BY <1>1, <1>2, <2>1, MaxInt64Assumption
  <2>3. Wrap(b.posted + b.pending) = b.posted + b.pending
    BY <1>1, <2>2, MaxInt64Assumption DEF Wrap
  <2> QED BY <2>1, <2>3
<1>3. CASE ~ (b.pending < 0)
  BY <1>1, <1>3 DEF Worth, Available
<1> QED BY <1>2, <1>3, Zenon

\* The check of I6 keeps every row that a posting writes funded.
LEMMA FundedWrite ==
  ASSUME IInv, LegsInv, WorkInv, FundedInv, NEW s \in Session, Write(s)
  PROVE  FundedInv'
<1>1. committed' = committed
  BY Zenon DEF Write
<1> SUFFICES ASSUME NEW a \in Account \ AllowNegative PROVE Worth(row'[a]) >= 0
  BY <1>1, Zenon DEF FundedInv
<1>2. a \in Account /\ Worth(row[a]) >= 0 /\ row[a] \in Balance /\ running[s][a] \in Balance
  BY Zenon DEF FundedInv, IInv, TypeInv, TypeOK
<1>3. row'[a] = IF a \in AccountIDs(Current(s)) THEN NextVersion(running[s][a]) ELSE row[a]
  BY <1>2, Zenon DEF Write
<1>4. CASE a \in AccountIDs(Current(s))
  <2> DEFINE b == running[s][a]
             c == row[a]
             S(p) == SumFunctionOnSet(LegDelta(Current(s), p), LegsAt(Current(s), a))
             x == S(FALSE)
             y == S(TRUE)
  <2>1. Validate(Current(s)) /\ Current(s).pending \in BOOLEAN
    <3>1. Active(s) /\ pc[s] = "apply"
      BY Zenon DEF Write, Active
    <3>2. Linked(Current(s))
      BY <3>1, Zenon DEF IInv, TypeInv, JobShape
    <3> QED BY <3>1, <3>2, Zenon DEF LegsInv, Linked
  <2>2. Available(b) >= 0
    BY <1>4, Zenon DEF Write, WriteAllowed, Sufficient
  <2>3. \A p \in BOOLEAN : Figure(b, p) = Figure(c, p) + S(p)
    BY <1>4, WorkedOut, Zenon
  <2>4. b.posted = c.posted + x /\ b.pending = c.pending + y
    BY <2>3, Zenon DEF Figure
  <2>5. \A p : /\ S(p) \in Int /\ S(p) >= -MaxInt64
               /\ Current(s).pending # p => S(p) = 0
    BY <1>2, <2>1, LegsBound, Zenon
  <2>6. x = 0 \/ y = 0
    <3>1. Current(s).pending # FALSE \/ Current(s).pending # TRUE
      BY <2>1, Zenon
    <3> HIDE DEF S
    <3> QED BY <2>5, <3>1, Zenon
  <2>7. x \in Int /\ y \in Int /\ x >= -MaxInt64 /\ y >= -MaxInt64
    BY <2>5, Zenon
  <2>8. /\ c.posted \in Int /\ c.pending \in Int
        /\ c.posted + (IF c.pending < 0 THEN c.pending ELSE 0) >= 0
    BY <1>2 DEF Balance, Int64, MinInt64, Worth
  <2> HIDE DEF b, c, x, y
  <2>9. b.posted + (IF b.pending < 0 THEN b.pending ELSE 0) >= -MaxInt64
    BY <2>4, <2>6, <2>7, <2>8, MaxInt64Assumption
  <2>10. Available(b) = Worth(b)
    BY <1>2, <2>9, AvailableExact DEF Worth, b
  <2>11. Worth(NextVersion(b)) = Worth(b)
    <3>1. b \in Balance
      BY <1>2, Zenon DEF b
    <3> QED BY <3>1 DEF Worth, NextVersion, Balance
  <2> QED BY <1>3, <1>4, <2>2, <2>10, <2>11, Zenon DEF b
<1>5. CASE a \notin AccountIDs(Current(s))
  BY <1>2, <1>3, <1>5, Zenon
<1> QED BY <1>4, <1>5, Zenon

\* The other steps write no balance that was not there.
LEMMA FundedStep == IInv /\ LegsInv /\ WorkInv /\ FundedInv /\ [Next]_vars => FundedInv'
<1> SUFFICES ASSUME IInv, LegsInv, WorkInv, FundedInv, [Next]_vars PROVE FundedInv'
  BY Zenon
<1>1. ASSUME row' = row, committed' = committed PROVE FundedInv'
  BY <1>1, Zenon DEF FundedInv
<1>2. ASSUME NEW s \in Session, Call(s) \/ LockRow(s) \/ ApplyEntry(s) PROVE FundedInv'
  <2>1. row' = row /\ committed' = committed
    BY <1>2, ZenonT(30) DEF Call, Post, Void, Capture, Reverse, Begin, LockRow, ApplyEntry
  <2> QED BY <1>1, <2>1, Zenon
<1>3. ASSUME NEW s \in Session, Write(s) PROVE FundedInv'
  BY <1>3, FundedWrite, Zenon
<1>4. ASSUME NEW s \in Session, Commit(s) \/ Rollback(s) PROVE FundedInv'
  <2>1. \A a \in Account : /\ row'[a] = row[a] \/ row'[a] = committed[a]
                           /\ committed'[a] = row[a] \/ committed'[a] = committed[a]
    BY <1>4, Zenon DEF Commit, Rollback
  <2> SUFFICES ASSUME NEW a \in Account \ AllowNegative
               PROVE  Worth(committed'[a]) >= 0 /\ Worth(row'[a]) >= 0
    BY Zenon DEF FundedInv
  <2>2. a \in Account /\ Worth(committed[a]) >= 0 /\ Worth(row[a]) >= 0
    BY Zenon DEF FundedInv
  <2> QED BY <2>1, <2>2, Zenon
<1>5. CASE UNCHANGED vars
  BY <1>1, <1>5, Zenon DEF vars
<1> QED BY <1>2, <1>3, <1>4, <1>5, Zenon DEF Next, Step, Refuse, Abort

\* What a committed balance is worth is what I6 speaks of.
LEMMA FundedIsNonNegative == IInv /\ FundedInv => NonNegative
<1> SUFFICES ASSUME IInv, FundedInv, NEW a \in Account \ AllowNegative
             PROVE  committed[a].posted + Min({committed[a].pending, 0}) >= 0
  BY Zenon DEF NonNegative
<1> DEFINE x == committed[a].pending
<1>1. committed[a] \in Balance /\ Worth(committed[a]) >= 0
  BY Zenon DEF FundedInv, IInv, TypeInv, TypeOK
<1>2. x \in Int
  BY <1>1 DEF Balance, Int64, MinInt64
<1> HIDE DEF x
<1>3. Min({x, 0}) = IF x < 0 THEN x ELSE 0
  BY <1>2 DEF Min
<1> QED BY <1>1, <1>3, Zenon DEF Worth, x

-----------------------------------------------------------------------------
(* The theorems *)

\* The books are balanced and funded in every reachable state.
LEMMA BalancesInductive == Spec => [](IInv /\ DerivedInv /\ BalancedInv /\ FundedInv)
<1> DEFINE Inv == IInv /\ LegsInv /\ WorkInv /\ DerivedInv
<1>1. Init => BalancedInv /\ FundedInv
  <2> SUFFICES ASSUME Init PROVE BalancedInv /\ FundedInv
    BY Zenon
  <2>1. CommittedEntries = {} /\ \A s : LiveEntries(s) = {}
    BY Zenon DEF Init, CommittedEntries, LiveEntries
  <2>2. Worth(ZeroBalance) >= 0
    BY DEF Worth, ZeroBalance
  <2>3. \A a \in Account : row[a] = ZeroBalance /\ committed[a] = ZeroBalance
    BY Zenon DEF Init
  <2> QED BY <2>1, <2>2, <2>3, BalancedNone, Zenon DEF BalancedInv, FundedInv
<1>2. Inv /\ BalancedInv /\ FundedInv /\ [Next]_vars => (BalancedInv /\ FundedInv)'
  <2>1. DerivedInv => IsFiniteSet(entries)
    BY Zenon DEF DerivedInv
  <2> QED BY <2>1, BalancedStep, FundedStep, Zenon
<1> QED BY <1>1, <1>2, BooksInductive, PTL DEF Spec

\* TrialBalance, which the reconciler evaluates (I8): in every reachable state
\* the committed balances of each currency, restated as debits, add up to
\* nothing, however many sessions are posting.
THEOREM TrialBalanceCorrect == Spec => []TrialBalance
  BY BalancesInductive, BalancedTrial, PTL

\* Readers only see whole postings: in every reachable state the committed
\* entries are finitely many and cancel out in each currency, which Validate
\* (spec.go) and the commit of both writes together bring about, and which the
\* model of the reconciler assumes of what is published.
THEOREM SettledCorrect == Spec => []Settled(CommittedEntries)
  BY BalancesInductive, BalancedSettled, PTL

\* NonNegative, which apply checks in 64-bit arithmetic (I6): in every reachable
\* state an account that may not go negative is worth what is held against it.
THEOREM NonNegativeCorrect == Spec => []NonNegative
  BY BalancesInductive, FundedIsNonNegative, PTL

=============================================================================

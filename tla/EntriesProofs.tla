--------------------------- MODULE EntriesProofs ---------------------------
(***************************************************************************)
(* Facts about chains of entries, for the ledger and for its readers.      *)
(***************************************************************************)
EXTENDS Entries, TLAPS

\* Two chains that meet, the second with larger ids, make one chain.
LEMMA ChainConcat ==
  ASSUME NEW E, NEW F, NEW b, NEW m, NEW l,
         Chain(E, b, m), Chain(F, m, l),
         \A e \in E \cup F : e.id \in Int,
         \A e \in E, f \in F : e.id < f.id
  PROVE  Chain(E \cup F, b, l)
<1> DEFINE U == E \cup F
<1>1. \A e, f \in U : e.id = f.id => e = f
  BY DEF Chain
<1>2. ASSUME NEW f \in U, \A g \in U : f.id <= g.id
      PROVE  f.after = b + PostedDelta(f)
  <2>1. CASE f \in E
    BY <1>2, <2>1, Zenon DEF Chain
  <2>2. CASE f \notin E
    <3>1. f \in F /\ E = {}
      BY <1>2, <2>2
    <3> QED BY <1>2, <3>1, Zenon DEF Chain
  <2> QED BY <2>1, <2>2, Zenon
<1>3. ASSUME NEW e \in U, NEW f \in U, Precedes(e, f, U)
      PROVE  f.after = e.after + PostedDelta(f)
  <2>1. CASE e \in E /\ f \in E
    <3>1. Precedes(e, f, E)
      BY <1>3, Zenon DEF Precedes
    <3> QED BY <2>1, <3>1, Zenon DEF Chain
  <2>2. CASE e \in F /\ f \in F
    <3>1. Precedes(e, f, F)
      BY <1>3, Zenon DEF Precedes
    <3> QED BY <2>2, <3>1, Zenon DEF Chain
  <2>3. CASE e \in E /\ f \in F
    <3>1. \A g \in E : g.id <= e.id
      BY <1>3, <2>3 DEF Precedes
    <3>2. \A g \in F : f.id <= g.id
      BY <1>3, <2>3 DEF Precedes
    <3>3. e.after = m /\ f.after = m + PostedDelta(f)
      BY <2>3, <3>1, <3>2, Zenon DEF Chain
    <3> QED BY <3>3, Zenon
  <2>4. CASE e \in F /\ f \in E
    BY <1>3, <2>4 DEF Precedes
  <2> QED BY <2>1, <2>2, <2>3, <2>4, Zenon
<1>4. ASSUME NEW e \in U, \A g \in U : g.id <= e.id
      PROVE  e.after = l
  <2>1. CASE e \in F
    BY <1>4, <2>1, Zenon DEF Chain
  <2>2. CASE e \notin F
    <3>1. e \in E /\ F = {}
      BY <1>4, <2>2
    <3> QED BY <1>4, <3>1, Zenon DEF Chain
  <2> QED BY <2>1, <2>2, Zenon
<1>5. U = {} => l = b
  BY Zenon DEF Chain
<1>6. U # {} => \E e \in U : \A g \in U : g.id <= e.id
  <2>1. ASSUME NEW e \in F, \A g \in F : g.id <= e.id
        PROVE  \A g \in U : g.id <= e.id
    BY <2>1
  <2>2. CASE F # {}
    BY <2>1, <2>2, Zenon DEF Chain
  <2>3. CASE F = {}
    <3>1. U = E
      BY <2>3, Zenon
    <3> QED BY <3>1, Zenon DEF Chain
  <2> QED BY <2>2, <2>3, Zenon
<1> HIDE DEF U
<1>7. Chain(U, b, l)
  BY <1>1, <1>2, <1>3, <1>4, <1>5, <1>6, Zenon DEF Chain
<1> QED BY <1>7, Zenon DEF U

\* A chain of one entry.
LEMMA ChainOne ==
  ASSUME NEW e, NEW b \in Int, e.id \in Int, e.after = b + PostedDelta(e)
  PROVE  Chain({e}, b, e.after)
<1>1. e.id <= e.id
  OBVIOUS
<1> QED BY <1>1, Zenon DEF Chain, Precedes

\* The rows AppendEntries inserts for the drafts D of transaction t.
Numbered(D, k, t) ==
  {[id |-> k + d.id, txn |-> t, account |-> d.account,
    direction |-> d.direction, amount |-> d.amount,
    pending |-> d.pending, after |-> d.after] : d \in D}

\* Drawing the real ids keeps the order, so it keeps the chain.
LEMMA ChainShift ==
  ASSUME NEW D, NEW k \in Int, NEW t, NEW b, NEW l,
         \A d \in D : d.id \in Int,
         Chain(D, b, l)
  PROVE  Chain(Numbered(D, k, t), b, l)
<1> DEFINE R(d) == [id |-> k + d.id, txn |-> t, account |-> d.account,
                    direction |-> d.direction, amount |-> d.amount,
                    pending |-> d.pending, after |-> d.after]
           F == {R(d) : d \in D}
<1>1. \A d \in D : /\ R(d).id = k + d.id /\ R(d).after = d.after
                   /\ PostedDelta(R(d)) = PostedDelta(d)
  BY Zenon DEF PostedDelta, SignedDelta
<1>2. \A f \in F : \E d \in D : f = R(d)
  BY Zenon
<1>3. \A d \in D : R(d) \in F
  BY Zenon
<1> HIDE DEF R, F
<1>4. ASSUME NEW e \in F, NEW f \in F, e.id = f.id
      PROVE  e = f
  <2>1. PICK c \in D : e = R(c)
    BY <1>2, Zenon
  <2>2. PICK d \in D : f = R(d)
    BY <1>2, Zenon
  <2>3. c.id = d.id
    BY <1>1, <1>4, <2>1, <2>2
  <2> QED BY <2>1, <2>2, <2>3, Zenon DEF Chain
<1>5. ASSUME NEW f \in F, \A g \in F : f.id <= g.id
      PROVE  f.after = b + PostedDelta(f)
  <2>1. PICK d \in D : f = R(d)
    BY <1>2, Zenon
  <2>2. \A g \in D : d.id <= g.id
    BY <1>1, <1>3, <1>5, <2>1
  <2> QED BY <1>1, <2>1, <2>2, Zenon DEF Chain
<1>6. ASSUME NEW e \in F, NEW f \in F, Precedes(e, f, F)
      PROVE  f.after = e.after + PostedDelta(f)
  <2>1. PICK c \in D : e = R(c)
    BY <1>2, Zenon
  <2>2. PICK d \in D : f = R(d)
    BY <1>2, Zenon
  <2>3. Precedes(c, d, D)
    BY <1>1, <1>3, <1>6, <2>1, <2>2 DEF Precedes
  <2> QED BY <1>1, <2>1, <2>2, <2>3 DEF Chain
<1>7. ASSUME NEW e \in F, \A g \in F : g.id <= e.id
      PROVE  e.after = l
  <2>1. PICK d \in D : e = R(d)
    BY <1>2, Zenon
  <2>2. \A g \in D : g.id <= d.id
    BY <1>1, <1>3, <1>7, <2>1
  <2> QED BY <1>1, <2>1, <2>2, Zenon DEF Chain
<1>8. F = {} => l = b
  BY <1>3, Zenon DEF Chain
<1>9. F # {} => \E e \in F : \A g \in F : g.id <= e.id
  <2>1. ASSUME NEW d \in D, \A g \in D : g.id <= d.id
        PROVE  \A g \in F : g.id <= R(d).id
    BY <1>1, <1>2, <2>1
  <2> QED BY <1>2, <1>3, <2>1, Zenon DEF Chain
<1>10. Chain(F, b, l)
  BY <1>4, <1>5, <1>6, <1>7, <1>8, <1>9, Zenon DEF Chain
<1> QED BY <1>10, Zenon DEF F, R, Numbered
=============================================================================

----------------------------- MODULE CreditProofs -----------------------------
(***************************************************************************)
(* Proofs about CreditAccount and CreditTransactions for every set of      *)
(* jobs, grants and sessions, every cost and validity, and a clock without *)
(* useful bound.  First the arithmetic of SumOver, then what each          *)
(* operation does to the account, the inductive invariant IInv and what    *)
(* follows from it; then the same account under concurrent transactions,   *)
(* where the operations act on what a session holds.                       *)
(***************************************************************************)
EXTENDS MCCredit, FiniteSetTheorems, TLAPS

\* The universe of lots is finite.
LEMMA LotsFinite == IsFiniteSet(Lots)
<1>1. IsFiniteSet({Welcome})
  BY FS_Singleton
<1>2. IsFiniteSet(Jobs \cup Grants)
  BY FS_Union, CreditAssumption DEF CreditAssumption
<1> QED
  BY <1>1, <1>2, FS_Union DEF Lots

-----------------------------------------------------------------------------
(* Sums                                                                    *)

\* A sum over one lot is its value.
LEMMA SumOne ==
  ASSUME NEW f \in [Lots -> Nat], NEW l \in Lots
  PROVE  /\ IsFiniteSet({l} \X (1..f[l]))
         /\ SumOver(f, {l}) = f[l]
<1>1. IsFiniteSet({l}) /\ Cardinality({l}) = 1
  BY FS_Singleton
<1>2. f[l] \in Nat
  OBVIOUS
<1>3. IsFiniteSet(1..f[l]) /\ Cardinality(1..f[l]) = f[l]
  BY <1>2, FS_Interval
<1>4. /\ IsFiniteSet({l} \X (1..f[l]))
      /\ Cardinality({l} \X (1..f[l])) = 1 * f[l]
  BY <1>1, <1>3, FS_Product
<1>5. Units(f, {l}) = {l} \X (1..f[l])
  BY DEF Units
<1>6. SumOver(f, {l}) = 1 * f[l]
  BY <1>4, <1>5, Zenon DEF SumOver
<1>7. 1 * f[l] = f[l]
  BY <1>2
<1> QED
  BY <1>4, <1>6, <1>7

\* Every sum is over a finite set of units, hence a natural number.
LEMMA SumType ==
  ASSUME NEW f \in [Lots -> Nat], NEW S \in SUBSET Lots
  PROVE  IsFiniteSet(Units(f, S)) /\ SumOver(f, S) \in Nat
<1> DEFINE Rows == {{l} \X (1..f[l]) : l \in S}
<1>1. IsFiniteSet(S)
  BY LotsFinite, FS_Subset
<1> DEFINE rowOf == [l \in S |-> {l} \X (1..f[l])]
<1>2. rowOf \in Surjection(S, Rows)
  BY DEF Surjection
<1>3. IsFiniteSet(Rows)
  BY <1>1, <1>2, FS_Surjection
<1>4. \A T \in Rows : IsFiniteSet(T)
  BY SumOne
<1>5. IsFiniteSet(UNION Rows)
  BY <1>3, <1>4, FS_UNION
<1>6. IsFiniteSet(Units(f, S))
  BY <1>5 DEF Units
<1> QED
  BY <1>6, FS_CardinalityType DEF SumOver

\* The sum over a disjoint union is the sum of the sums.
LEMMA SumSplit ==
  ASSUME NEW f \in [Lots -> Nat],
         NEW S \in SUBSET Lots, NEW T \in SUBSET Lots, S \cap T = {}
  PROVE  SumOver(f, S \cup T) = SumOver(f, S) + SumOver(f, T)
<1>1. Units(f, S \cup T) = Units(f, S) \cup Units(f, T)
  BY DEF Units
<1>2. Units(f, S) \cap Units(f, T) = {}
  BY DEF Units
<1>3. IsFiniteSet(Units(f, S)) /\ IsFiniteSet(Units(f, T))
  BY SumType
<1>4. Cardinality({}) = 0
  BY FS_EmptySet
<1>5. Cardinality(Units(f, S) \cup Units(f, T))
        = Cardinality(Units(f, S)) + Cardinality(Units(f, T)) - 0
  <2>1. Cardinality(Units(f, S) \cup Units(f, T))
          = Cardinality(Units(f, S)) + Cardinality(Units(f, T))
              - Cardinality(Units(f, S) \cap Units(f, T))
    BY <1>3, FS_Union
  <2> QED
    BY <2>1, <1>2, <1>4, Zenon
<1>6. SumOver(f, S \cup T) = SumOver(f, S) + SumOver(f, T) - 0
  BY <1>1, <1>5, Zenon DEF SumOver
<1>7. SumOver(f, S) \in Nat /\ SumOver(f, T) \in Nat
  BY SumType
<1> QED
  BY <1>6, <1>7

\* A sum only looks at the lots it is over.
LEMMA SumSame ==
  ASSUME NEW f, NEW g, NEW S, \A l \in S : f[l] = g[l]
  PROVE  SumOver(f, S) = SumOver(g, S)
<1>1. Units(f, S) = Units(g, S)
  BY DEF Units
<1> QED
  BY <1>1 DEF SumOver

\* Changing one lot changes the sum by as much.
LEMMA SumChange ==
  ASSUME NEW f \in [Lots -> Nat], NEW l \in Lots, NEW v \in Nat
  PROVE  SumOver([f EXCEPT ![l] = v], Lots) = SumOver(f, Lots) - f[l] + v
<1> DEFINE g == [f EXCEPT ![l] = v]
<1> DEFINE R == Lots \ {l}
<1>1. g \in [Lots -> Nat] /\ g[l] = v /\ \A m \in R : g[m] = f[m]
  OBVIOUS
<1>2. R \in SUBSET Lots /\ {l} \in SUBSET Lots /\ R \cap {l} = {} /\ R \cup {l} = Lots
  OBVIOUS
<1> HIDE DEF g, R
<1>3. SumOver(f, Lots) = SumOver(f, R) + SumOver(f, {l})
  BY <1>2, SumSplit
<1>4. SumOver(g, Lots) = SumOver(g, R) + SumOver(g, {l})
  BY <1>1, <1>2, SumSplit
<1>5. SumOver(g, R) = SumOver(f, R)
  BY <1>1, SumSame
<1>6. SumOver(f, {l}) = f[l] /\ SumOver(g, {l}) = v
  BY <1>1, SumOne
<1>7. SumOver(f, R) \in Nat
  BY <1>2, SumType
<1>8. SumOver(g, Lots) = SumOver(f, Lots) - f[l] + v
  BY <1>3, <1>4, <1>5, <1>6, <1>7
<1> QED
  BY <1>8 DEF g

\* Emptying a set of lots takes its sum away.
LEMMA SumDrop ==
  ASSUME NEW f \in [Lots -> Nat], NEW S \in SUBSET Lots
  PROVE  SumOver([l \in Lots |-> IF l \in S THEN 0 ELSE f[l]], Lots)
           = SumOver(f, Lots) - SumOver(f, S)
<1> DEFINE g == [l \in Lots |-> IF l \in S THEN 0 ELSE f[l]]
<1> DEFINE R == Lots \ S
<1>1. g \in [Lots -> Nat] /\ (\A m \in R : g[m] = f[m]) /\ (\A m \in S : g[m] = 0)
  OBVIOUS
<1>2. R \in SUBSET Lots /\ R \cap S = {} /\ R \cup S = Lots
  OBVIOUS
<1> HIDE DEF g, R
<1>3. SumOver(f, Lots) = SumOver(f, R) + SumOver(f, S)
  BY <1>2, SumSplit
<1>4. SumOver(g, Lots) = SumOver(g, R) + SumOver(g, S)
  BY <1>1, <1>2, SumSplit
<1>5. SumOver(g, R) = SumOver(f, R)
  BY <1>1, SumSame
<1>6. Units(g, S) = {}
  BY <1>1 DEF Units
<1>7. SumOver(g, S) = 0
  BY <1>6, FS_EmptySet DEF SumOver
<1>8. SumOver(f, R) \in Nat /\ SumOver(f, S) \in Nat
  BY <1>2, SumType
<1>9. SumOver(g, Lots) = SumOver(f, Lots) - SumOver(f, S)
  BY <1>3, <1>4, <1>5, <1>7, <1>8
<1> QED
  BY <1>9 DEF g

-----------------------------------------------------------------------------
(* The operations keep the account's invariant                             *)

\* The constants, as numbers.
LEMMA Numbers ==
  /\ COMPOSITION_COST \in Nat \ {0} /\ WELCOME_CREDIT \in Nat \ {0}
  /\ PASS_VALIDITY \in Nat \ {0} /\ COMPENSATION_VALIDITY \in Nat \ {0}
  /\ WELCOME_CREDIT % COMPOSITION_COST = 0
  /\ Amounts \subseteq Int
  /\ NoLot \notin Lots /\ Jobs \subseteq Lots /\ Grants \subseteq Lots /\ Welcome \in Lots
  /\ Grants \cap Jobs = {} /\ Welcome \notin Jobs
BY CreditAssumption DEF CreditAssumption, Lots

\* The jobs a lot has paid for can be counted.
LEMMA SpentFinite ==
  ASSUME NEW a, NEW l
  PROVE  IsFiniteSet(Spent(a, l)) /\ Cardinality(Spent(a, l)) \in Nat
<1>1. Spent(a, l) \in SUBSET Jobs
  BY DEF Spent
<1> QED
  BY <1>1, CreditAssumption, FS_Subset, FS_CardinalityType DEF CreditAssumption

\* The cost of n uses.
LEMMA CostOf ==
  ASSUME NEW n \in Nat
  PROVE  /\ COMPOSITION_COST * n \in Nat
         /\ COMPOSITION_COST * (n + 1) = COMPOSITION_COST * n + COMPOSITION_COST
         /\ COMPOSITION_COST * n = 0 <=> n = 0
         /\ n > 0 => COMPOSITION_COST * n >= COMPOSITION_COST
BY Numbers

\* A lot that was never granted has nothing in it and has paid for nothing.
LEMMA NoRowIsEmpty ==
  ASSUME NEW a \in Account, Accounted(a), NEW l \in Lots, a.granted[l] = 0
  PROVE  /\ a.remaining[l] = 0 /\ a.expired[l] = 0
         /\ Cardinality(Spent(a, l)) = 0
<1> DEFINE n == Cardinality(Spent(a, l))
<1> DEFINE paid == COMPOSITION_COST * n
<1>1. n \in Nat
  BY SpentFinite
<1>2. a.remaining[l] \in Nat /\ a.expired[l] \in Nat
  BY DEF Account
<1>3. 0 = a.remaining[l] + a.expired[l] + paid
  BY DEF Accounted
<1> HIDE DEF n
<1>4. paid \in Nat /\ (paid = 0 <=> n = 0)
  BY <1>1, CostOf
<1> HIDE DEF paid
<1>5. a.remaining[l] = 0 /\ a.expired[l] = 0 /\ n = 0
  BY <1>2, <1>3, <1>4
<1> QED
  BY <1>5 DEF n

\* An account that has never been used.
LEMMA EmptyInv == AccountInv(EmptyAccount, 0)
<1> DEFINE e == EmptyAccount
<1>1. e \in Account
  BY Numbers DEF EmptyAccount, Account
<1>2. Units(e.remaining, Lots) = {}
  BY DEF Units, EmptyAccount
<1>3. Balanced(e)
  BY <1>2, FS_EmptySet DEF Balanced, SumOver, EmptyAccount
<1>4. \A l \in Lots : Spent(e, l) = {}
  BY Numbers DEF Spent, EmptyAccount
<1>5. Accounted(e)
  <2>1. COMPOSITION_COST * 0 = 0
    BY Numbers
  <2>2. \A l \in Lots : Cardinality(Spent(e, l)) = 0
    BY <1>4, FS_EmptySet
  <2>3. \A l \in Lots : e.granted[l] = 0 /\ e.remaining[l] = 0 /\ e.expired[l] = 0
    BY DEF EmptyAccount
  <2> HIDE DEF e
  <2> QED
    BY <2>1, <2>2, <2>3 DEF Accounted
<1>6. Provenance(e)
  BY Numbers DEF Provenance, EmptyAccount
<1>7. 0 % COMPOSITION_COST = 0
  BY Numbers
<1>8. WholeUses(e)
  BY <1>7 DEF WholeUses, EmptyAccount
<1>9. ExpiredOnce(e, 0)
  BY DEF ExpiredOnce, EmptyAccount
<1> QED
  BY <1>1, <1>3, <1>5, <1>6, <1>8, <1>9 DEF AccountInv

\* The passing of time disturbs nothing.
LEMMA TickInv ==
  ASSUME NEW a, NEW t \in Nat, AccountInv(a, t)
  PROVE  AccountInv(a, t + 1)
BY DEF AccountInv, ExpiredOnce, IsExpired, Account

\* _expire_lots: what it changes, and that it keeps the invariant.
LEMMA ExpireFields ==
  ASSUME NEW a \in Account, NEW t
  PROVE  LET e == ExpireLots(a, t) IN
         /\ e.balance = a.balance - SumOver(a.remaining, Stale(a, t))
         /\ e.remaining = [l \in Lots |-> IF l \in Stale(a, t) THEN 0 ELSE a.remaining[l]]
         /\ e.expired = [l \in Lots |-> IF l \in Stale(a, t)
                                          THEN a.expired[l] + a.remaining[l] ELSE a.expired[l]]
         /\ e.granted = a.granted /\ e.expires = a.expires
         /\ e.deducted = a.deducted /\ e.refunded = a.refunded
         /\ Stale(a, t) \in SUBSET Lots
         /\ e \in Account
<1>1. Stale(a, t) \in SUBSET Lots
  BY DEF Stale
<1>2. a.remaining \in [Lots -> Nat] /\ a.balance \in Int /\ a.expired \in [Lots -> Nat]
  BY DEF Account
<1>3. SumOver(a.remaining, Stale(a, t)) \in Nat
  BY <1>1, <1>2, SumType
<1> DEFINE e == ExpireLots(a, t)
<1>4. e = [a EXCEPT
             !.balance = @ - SumOver(a.remaining, Stale(a, t)),
             !.remaining = [l \in Lots |-> IF l \in Stale(a, t) THEN 0 ELSE a.remaining[l]],
             !.expired = [l \in Lots |-> IF l \in Stale(a, t)
                                         THEN a.expired[l] + a.remaining[l] ELSE a.expired[l]]]
  BY DEF ExpireLots
<1>5. /\ e.balance = a.balance - SumOver(a.remaining, Stale(a, t))
      /\ e.remaining = [l \in Lots |-> IF l \in Stale(a, t) THEN 0 ELSE a.remaining[l]]
      /\ e.expired = [l \in Lots |-> IF l \in Stale(a, t)
                                       THEN a.expired[l] + a.remaining[l] ELSE a.expired[l]]
      /\ e.granted = a.granted /\ e.expires = a.expires
      /\ e.deducted = a.deducted /\ e.refunded = a.refunded
  BY <1>4 DEF Account
<1>6. /\ [l \in Lots |-> IF l \in Stale(a, t) THEN 0 ELSE a.remaining[l]] \in [Lots -> Nat]
      /\ [l \in Lots |-> IF l \in Stale(a, t)
                           THEN a.expired[l] + a.remaining[l] ELSE a.expired[l]] \in [Lots -> Nat]
      /\ a.balance - SumOver(a.remaining, Stale(a, t)) \in Int
  BY <1>2, <1>3
<1>7. e \in Account
  BY <1>4, <1>6 DEF Account
<1> QED
  BY <1>1, <1>5, <1>7

\* Retiring the stale lots, which every operation starts with, keeps the account's invariant.
LEMMA ExpireInv ==
  ASSUME NEW a, NEW t \in Nat, AccountInv(a, t)
  PROVE  AccountInv(ExpireLots(a, t), t)
<1> DEFINE e == ExpireLots(a, t)
<1>0. a \in Account
  BY DEF AccountInv
<1>1. /\ e.balance = a.balance - SumOver(a.remaining, Stale(a, t))
      /\ e.remaining = [l \in Lots |-> IF l \in Stale(a, t) THEN 0 ELSE a.remaining[l]]
      /\ e.expired = [l \in Lots |-> IF l \in Stale(a, t)
                                       THEN a.expired[l] + a.remaining[l] ELSE a.expired[l]]
      /\ e.granted = a.granted /\ e.expires = a.expires
      /\ e.deducted = a.deducted /\ e.refunded = a.refunded
      /\ Stale(a, t) \in SUBSET Lots
      /\ e \in Account
  BY <1>0, ExpireFields
<1> HIDE DEF e
<1>2. a.remaining \in [Lots -> Nat] /\ a.expired \in [Lots -> Nat]
  BY <1>0 DEF Account
<1>3. Balanced(e)
  BY <1>1, <1>2, SumDrop DEF Balanced, AccountInv
<1>4. Accounted(e)
  <2> SUFFICES ASSUME NEW l \in Lots
               PROVE  e.granted[l] = e.remaining[l] + e.expired[l]
                                       + COMPOSITION_COST * Cardinality(Spent(e, l))
    BY DEF Accounted
  <2>1. Spent(e, l) = Spent(a, l)
    BY <1>1 DEF Spent
  <2>2. a.granted[l] = a.remaining[l] + a.expired[l]
                         + COMPOSITION_COST * Cardinality(Spent(a, l))
    BY DEF AccountInv, Accounted
  <2>3. e.remaining[l] + e.expired[l] = a.remaining[l] + a.expired[l]
    BY <1>1, <1>2
  <2> QED
    BY <1>1, <2>1, <2>2, <2>3
<1>5. Provenance(e)
  BY <1>1 DEF Provenance, AccountInv
<1>6. WholeUses(e)
  BY <1>1 DEF WholeUses, AccountInv
<1>7. ExpiredOnce(e, t)
  BY <1>1, <1>2 DEF ExpiredOnce, AccountInv, IsExpired, Stale
<1> QED
  BY <1>1, <1>3, <1>4, <1>5, <1>6, <1>7 DEF AccountInv, e

\* charge() onto an account that was brought up to date.
LEMMA AddLotInv ==
  ASSUME NEW a, NEW t \in Nat, AccountInv(a, t),
         NEW l \in Lots \ Jobs, a.granted[l] = 0,
         NEW amount \in Int, ChargeAccepted(amount), NEW expiration \in Nat
  PROVE  AccountInv(AddLot(a, l, amount, expiration), t)
<1> DEFINE b == AddLot(a, l, amount, expiration)
<1>0. a \in Account /\ amount \in Nat /\ amount > 0
  BY DEF AccountInv, ChargeAccepted
<1>1. /\ a.remaining[l] = 0 /\ a.expired[l] = 0
      /\ Cardinality(Spent(a, l)) = 0
  BY <1>0, NoRowIsEmpty DEF AccountInv
<1>2. /\ b.balance = a.balance + amount
      /\ b.granted = [a.granted EXCEPT ![l] = amount]
      /\ b.remaining = [a.remaining EXCEPT ![l] = amount]
      /\ b.expires = [a.expires EXCEPT ![l] = expiration]
      /\ b.deducted = a.deducted /\ b.refunded = a.refunded /\ b.expired = a.expired
      /\ b \in Account
  <2>1. /\ b.balance = a.balance + amount
        /\ b.granted = [a.granted EXCEPT ![l] = amount]
        /\ b.remaining = [a.remaining EXCEPT ![l] = amount]
        /\ b.expires = [a.expires EXCEPT ![l] = expiration]
        /\ b.deducted = a.deducted /\ b.refunded = a.refunded /\ b.expired = a.expired
    BY <1>0 DEF AddLot, Account
  <2>2. b = [a EXCEPT !.balance = b.balance, !.granted = b.granted,
                      !.remaining = b.remaining, !.expires = b.expires]
    BY <1>0 DEF AddLot, Account
  <2> HIDE DEF b
  <2>3. /\ b.balance \in Int /\ b.granted \in [Lots -> Nat]
        /\ b.remaining \in [Lots -> Nat] /\ b.expires \in [Lots -> Nat]
    BY <1>0, <2>1 DEF Account
  <2>4. b \in Account
    BY <1>0, <2>2, <2>3 DEF Account
  <2> QED
    BY <2>1, <2>4
<1> HIDE DEF b
<1>3. /\ a.remaining \in [Lots -> Nat] /\ a.granted \in [Lots -> Nat]
      /\ a.expired \in [Lots -> Nat] /\ a.expires \in [Lots -> Nat] /\ a.balance \in Int
  BY <1>0 DEF Account
<1>4. Balanced(b)
  <2>1. SumOver(b.remaining, Lots) = SumOver(a.remaining, Lots) - 0 + amount
    BY <1>0, <1>1, <1>2, <1>3, SumChange
  <2> QED
    BY <1>0, <1>2, <1>3, <2>1 DEF Balanced, AccountInv
<1>5. Accounted(b)
  <2> SUFFICES ASSUME NEW m \in Lots
               PROVE  b.granted[m] = b.remaining[m] + b.expired[m]
                                       + COMPOSITION_COST * Cardinality(Spent(b, m))
    BY DEF Accounted
  <2>1. Spent(b, m) = Spent(a, m)
    BY <1>2 DEF Spent
  <2>2. CASE m = l
    <3>1. COMPOSITION_COST * Cardinality(Spent(b, m)) = 0
      BY <1>1, <2>1, <2>2, Numbers
    <3>2. b.granted[m] = amount /\ b.remaining[m] = amount /\ b.expired[m] = 0
      BY <1>1, <1>2, <1>3, <2>2
    <3> QED
      BY <1>0, <3>1, <3>2
  <2>3. CASE m # l
    <3>1. /\ b.granted[m] = a.granted[m] /\ b.remaining[m] = a.remaining[m]
          /\ b.expired[m] = a.expired[m]
      BY <1>2, <1>3, <2>3
    <3> QED
      BY <2>1, <3>1 DEF AccountInv, Accounted
  <2> QED
    BY <2>2, <2>3
<1>6. Provenance(b)
  BY <1>0, <1>2, <1>3, Numbers DEF Provenance, AccountInv, Account
<1>7. WholeUses(b)
  BY <1>2, <1>3 DEF WholeUses, AccountInv, ChargeAccepted
<1>8. ExpiredOnce(b, t)
  BY <1>1, <1>2, <1>3 DEF ExpiredOnce, AccountInv, IsExpired
<1> QED
  BY <1>2, <1>4, <1>5, <1>6, <1>7, <1>8 DEF AccountInv, b

\* deduct() from a lot that can pay for the whole use.
LEMMA TakeUseInv ==
  ASSUME NEW a, NEW t \in Nat, AccountInv(a, t),
         NEW j \in Jobs, a.deducted[j] = NoLot, NEW l \in Payable(a, t)
  PROVE  AccountInv(TakeUse(a, j, l), t)
<1> DEFINE b == TakeUse(a, j, l)
<1>0. a \in Account
  BY DEF AccountInv
<1>1. /\ a.remaining \in [Lots -> Nat] /\ a.granted \in [Lots -> Nat]
      /\ a.expired \in [Lots -> Nat] /\ a.balance \in Int
      /\ a.deducted \in [Jobs -> Lots \cup {NoLot}] /\ a.refunded \in [Jobs -> Lots \cup {NoLot}]
  BY <1>0 DEF Account
<1>2. /\ l \in Lots /\ a.granted[l] > 0 /\ ~IsExpired(a, l, t)
      /\ a.remaining[l] >= COMPOSITION_COST
  BY DEF Payable, Loaded
<1>3. a.refunded[j] = NoLot
  BY DEF AccountInv, Provenance
<1>4. l # j
  BY <1>2, <1>3, Numbers DEF AccountInv, Provenance
<1>5. a.remaining[l] - COMPOSITION_COST \in Nat
  BY <1>1, <1>2, Numbers
<1>6. /\ b.balance = a.balance - COMPOSITION_COST
      /\ b.granted = a.granted /\ b.expires = a.expires /\ b.expired = a.expired
      /\ b.remaining = [a.remaining EXCEPT ![l] = a.remaining[l] - COMPOSITION_COST]
      /\ b.deducted = [a.deducted EXCEPT ![j] = l] /\ b.refunded = a.refunded
      /\ b \in Account
  <2>1. /\ b.balance = a.balance - COMPOSITION_COST
        /\ b.granted = a.granted /\ b.expires = a.expires /\ b.expired = a.expired
        /\ b.remaining = [a.remaining EXCEPT ![l] = a.remaining[l] - COMPOSITION_COST]
        /\ b.deducted = [a.deducted EXCEPT ![j] = l] /\ b.refunded = a.refunded
    BY <1>0 DEF TakeUse, Account
  <2>2. b = [a EXCEPT !.balance = b.balance, !.remaining = b.remaining, !.deducted = b.deducted]
    BY <1>0 DEF TakeUse, Account
  <2> HIDE DEF b
  <2>3. /\ b.balance \in Int /\ b.remaining \in [Lots -> Nat]
        /\ b.deducted \in [Jobs -> Lots \cup {NoLot}]
    BY <1>1, <1>2, <1>5, <2>1, Numbers
  <2>4. b \in Account
    BY <1>0, <2>2, <2>3 DEF Account
  <2> QED
    BY <2>1, <2>4
<1> HIDE DEF b
<1>7. Balanced(b)
  <2>1. SumOver(b.remaining, Lots)
          = SumOver(a.remaining, Lots) - a.remaining[l] + (a.remaining[l] - COMPOSITION_COST)
    BY <1>1, <1>2, <1>5, <1>6, SumChange
  <2>2. SumOver(a.remaining, Lots) = a.balance /\ a.remaining[l] \in Nat
    BY <1>1, <1>2 DEF AccountInv, Balanced
  <2> QED
    BY <1>1, <1>6, <2>1, <2>2, Numbers DEF Balanced
<1>8. Accounted(b)
  <2> SUFFICES ASSUME NEW m \in Lots
               PROVE  b.granted[m] = b.remaining[m] + b.expired[m]
                                       + COMPOSITION_COST * Cardinality(Spent(b, m))
    BY DEF Accounted
  <2>1. a.granted[m] = a.remaining[m] + a.expired[m]
                         + COMPOSITION_COST * Cardinality(Spent(a, m))
    BY DEF AccountInv, Accounted
  <2>2. IsFiniteSet(Spent(a, m)) /\ Cardinality(Spent(a, m)) \in Nat
    BY SpentFinite
  <2>3. CASE m = l
    <3>1. Spent(b, m) = Spent(a, m) \cup {j} /\ j \notin Spent(a, m)
      BY <1>1, <1>2, <1>3, <1>6, <2>3, Numbers DEF Spent
    <3>2. Cardinality(Spent(b, m)) = Cardinality(Spent(a, m)) + 1
      BY <2>2, <3>1, FS_AddElement
    <3> DEFINE paid == COMPOSITION_COST * Cardinality(Spent(a, m))
    <3>3. /\ COMPOSITION_COST * Cardinality(Spent(b, m)) = paid + COMPOSITION_COST
          /\ paid \in Nat
      BY <2>2, <3>2, CostOf
    <3>4. /\ b.granted[m] = a.granted[m] /\ b.expired[m] = a.expired[m]
          /\ b.remaining[m] = a.remaining[m] - COMPOSITION_COST
          /\ a.remaining[m] \in Nat /\ a.expired[m] \in Nat /\ a.granted[m] \in Nat
      BY <1>1, <1>6, <2>3
    <3> HIDE DEF paid
    <3>5. a.granted[m] = a.remaining[m] + a.expired[m] + paid
      BY <2>1 DEF paid
    <3> QED
      BY <3>3, <3>4, <3>5, Numbers
  <2>4. CASE m # l
    <3>1. Spent(b, m) = Spent(a, m)
      BY <1>1, <1>6, <2>4, Numbers DEF Spent
    <3>2. /\ b.granted[m] = a.granted[m] /\ b.remaining[m] = a.remaining[m]
          /\ b.expired[m] = a.expired[m]
      BY <1>1, <1>6, <2>4
    <3> QED
      BY <2>1, <3>1, <3>2
  <2> QED
    BY <2>3, <2>4
<1>9. Provenance(b)
  BY <1>1, <1>2, <1>3, <1>4, <1>6, Numbers DEF Provenance, AccountInv
<1>10. WholeUses(b)
  BY <1>6 DEF WholeUses, AccountInv
<1>11. ExpiredOnce(b, t)
  BY <1>1, <1>2, <1>6 DEF ExpiredOnce, AccountInv, IsExpired
<1> QED
  BY <1>6, <1>7, <1>8, <1>9, <1>10, <1>11 DEF AccountInv, b

\* refund() onto the lot the use was taken from.
LEMMA RestoreUseInv ==
  ASSUME NEW a, NEW t \in Nat, AccountInv(a, t),
         NEW j \in Jobs, a.deducted[j] # NoLot, a.refunded[j] = NoLot,
         ~IsExpired(a, a.deducted[j], t)
  PROVE  AccountInv(RestoreUse(a, j), t)
<1> DEFINE d == a.deducted[j]
<1> DEFINE b == RestoreUse(a, j)
<1>0. a \in Account
  BY DEF AccountInv
<1>1. /\ a.remaining \in [Lots -> Nat] /\ a.granted \in [Lots -> Nat]
      /\ a.expired \in [Lots -> Nat] /\ a.balance \in Int
      /\ a.deducted \in [Jobs -> Lots \cup {NoLot}] /\ a.refunded \in [Jobs -> Lots \cup {NoLot}]
  BY <1>0 DEF Account
<1>2. /\ d \in Lots /\ d # j /\ d # NoLot
      /\ j \in Spent(a, d)
  BY <1>1, Numbers DEF AccountInv, Provenance, Spent
<1>3. a.remaining[d] + COMPOSITION_COST \in Nat
  BY <1>1, <1>2, Numbers
<1>4. /\ b.balance = a.balance + COMPOSITION_COST
      /\ b.granted = a.granted /\ b.expires = a.expires /\ b.expired = a.expired
      /\ b.remaining = [a.remaining EXCEPT ![d] = a.remaining[d] + COMPOSITION_COST]
      /\ b.deducted = a.deducted /\ b.refunded = [a.refunded EXCEPT ![j] = d]
      /\ b \in Account
  <2>1. /\ b.balance = a.balance + COMPOSITION_COST
        /\ b.granted = a.granted /\ b.expires = a.expires /\ b.expired = a.expired
        /\ b.remaining = [a.remaining EXCEPT ![d] = a.remaining[d] + COMPOSITION_COST]
        /\ b.deducted = a.deducted /\ b.refunded = [a.refunded EXCEPT ![j] = d]
    BY <1>0 DEF RestoreUse, Account
  <2>2. b = [a EXCEPT !.balance = b.balance, !.remaining = b.remaining, !.refunded = b.refunded]
    BY <1>0 DEF RestoreUse, Account
  <2> HIDE DEF b
  <2>3. /\ b.balance \in Int /\ b.remaining \in [Lots -> Nat]
        /\ b.refunded \in [Jobs -> Lots \cup {NoLot}]
    BY <1>1, <1>2, <1>3, <2>1, Numbers
  <2>4. b \in Account
    BY <1>0, <2>2, <2>3 DEF Account
  <2> QED
    BY <2>1, <2>4
<1>5. d = a.deducted[j]
  OBVIOUS
<1> HIDE DEF b, d
<1>6. Balanced(b)
  <2>1. SumOver(b.remaining, Lots)
          = SumOver(a.remaining, Lots) - a.remaining[d] + (a.remaining[d] + COMPOSITION_COST)
    BY <1>1, <1>2, <1>3, <1>4, SumChange
  <2>2. SumOver(a.remaining, Lots) = a.balance /\ a.remaining[d] \in Nat
    BY <1>1, <1>2 DEF AccountInv, Balanced
  <2> QED
    BY <1>1, <1>4, <2>1, <2>2, Numbers DEF Balanced
<1>7. Accounted(b)
  <2> SUFFICES ASSUME NEW m \in Lots
               PROVE  b.granted[m] = b.remaining[m] + b.expired[m]
                                       + COMPOSITION_COST * Cardinality(Spent(b, m))
    BY DEF Accounted
  <2>1. a.granted[m] = a.remaining[m] + a.expired[m]
                         + COMPOSITION_COST * Cardinality(Spent(a, m))
    BY DEF AccountInv, Accounted
  <2>2. /\ IsFiniteSet(Spent(a, m)) /\ Cardinality(Spent(a, m)) \in Nat
        /\ IsFiniteSet(Spent(b, m)) /\ Cardinality(Spent(b, m)) \in Nat
    BY SpentFinite
  <2>3. CASE m = d
    <3>1. Spent(a, m) = Spent(b, m) \cup {j} /\ j \notin Spent(b, m)
      BY <1>1, <1>2, <1>4, <1>5, <2>3 DEF Spent
    <3>2. Cardinality(Spent(a, m)) = Cardinality(Spent(b, m)) + 1
      BY <2>2, <3>1, FS_AddElement
    <3> DEFINE paid == COMPOSITION_COST * Cardinality(Spent(b, m))
    <3>3. /\ COMPOSITION_COST * Cardinality(Spent(a, m)) = paid + COMPOSITION_COST
          /\ paid \in Nat
      BY <2>2, <3>2, CostOf
    <3>4. /\ b.granted[m] = a.granted[m] /\ b.expired[m] = a.expired[m]
          /\ b.remaining[m] = a.remaining[m] + COMPOSITION_COST
          /\ a.remaining[m] \in Nat /\ a.expired[m] \in Nat /\ a.granted[m] \in Nat
      BY <1>1, <1>4, <2>3
    <3>5. a.granted[m] = a.remaining[m] + a.expired[m] + (paid + COMPOSITION_COST)
      BY <2>1, <3>3
    <3> HIDE DEF paid
    <3>6. b.granted[m] = b.remaining[m] + b.expired[m] + paid
      BY <3>3, <3>4, <3>5, Numbers
    <3> QED
      BY <3>6 DEF paid
  <2>4. CASE m # d
    <3>1. Spent(b, m) = Spent(a, m)
      BY <1>1, <1>4, <1>5, <2>4 DEF Spent
    <3>2. /\ b.granted[m] = a.granted[m] /\ b.remaining[m] = a.remaining[m]
          /\ b.expired[m] = a.expired[m]
      BY <1>1, <1>4, <2>4
    <3> QED
      BY <2>1, <3>1, <3>2
  <2> QED
    BY <2>3, <2>4
<1>8. Provenance(b)
  BY <1>1, <1>2, <1>4, <1>5, Numbers DEF Provenance, AccountInv
<1>9. WholeUses(b)
  BY <1>4 DEF WholeUses, AccountInv
<1>10. ExpiredOnce(b, t)
  BY <1>1, <1>2, <1>4, <1>5 DEF ExpiredOnce, AccountInv, IsExpired
<1> QED
  BY <1>4, <1>6, <1>7, <1>8, <1>9, <1>10 DEF AccountInv, b

\* refund() once the original lot has expired: a compensation lot.
LEMMA CompensateInv ==
  ASSUME NEW a, NEW t \in Nat, AccountInv(a, t),
         NEW j \in Jobs, a.deducted[j] # NoLot, a.refunded[j] = NoLot
  PROVE  AccountInv(Compensate(a, j, t), t)
<1> DEFINE b == Compensate(a, j, t)
<1>0. a \in Account
  BY DEF AccountInv
<1>1. /\ a.remaining \in [Lots -> Nat] /\ a.granted \in [Lots -> Nat]
      /\ a.expired \in [Lots -> Nat] /\ a.expires \in [Lots -> Nat] /\ a.balance \in Int
      /\ a.deducted \in [Jobs -> Lots \cup {NoLot}] /\ a.refunded \in [Jobs -> Lots \cup {NoLot}]
  BY <1>0 DEF Account
<1>2. /\ j \in Lots /\ a.deducted[j] # j /\ j # NoLot
      /\ a.granted[j] = 0
  BY <1>1, Numbers DEF AccountInv, Provenance
<1>3. /\ a.remaining[j] = 0 /\ a.expired[j] = 0
      /\ Cardinality(Spent(a, j)) = 0
  BY <1>0, <1>2, NoRowIsEmpty DEF AccountInv
<1>4. t + COMPENSATION_VALIDITY \in Nat /\ COMPOSITION_COST \in Nat
  BY Numbers
<1>5. /\ b.balance = a.balance + COMPOSITION_COST
      /\ b.granted = [a.granted EXCEPT ![j] = COMPOSITION_COST]
      /\ b.remaining = [a.remaining EXCEPT ![j] = COMPOSITION_COST]
      /\ b.expires = [a.expires EXCEPT ![j] = t + COMPENSATION_VALIDITY]
      /\ b.deducted = a.deducted /\ b.refunded = [a.refunded EXCEPT ![j] = j]
      /\ b.expired = a.expired
      /\ b \in Account
  <2>1. /\ b.balance = a.balance + COMPOSITION_COST
        /\ b.granted = [a.granted EXCEPT ![j] = COMPOSITION_COST]
        /\ b.remaining = [a.remaining EXCEPT ![j] = COMPOSITION_COST]
        /\ b.expires = [a.expires EXCEPT ![j] = t + COMPENSATION_VALIDITY]
        /\ b.deducted = a.deducted /\ b.refunded = [a.refunded EXCEPT ![j] = j]
        /\ b.expired = a.expired
    BY <1>0 DEF Compensate, Account
  <2>2. b = [a EXCEPT !.balance = b.balance, !.granted = b.granted, !.remaining = b.remaining,
                      !.expires = b.expires, !.refunded = b.refunded]
    BY <1>0 DEF Compensate, Account
  <2> HIDE DEF b
  <2>3. /\ b.balance \in Int /\ b.granted \in [Lots -> Nat] /\ b.remaining \in [Lots -> Nat]
        /\ b.expires \in [Lots -> Nat] /\ b.refunded \in [Jobs -> Lots \cup {NoLot}]
    BY <1>1, <1>2, <1>4, <2>1
  <2>4. b \in Account
    BY <1>0, <2>2, <2>3 DEF Account
  <2> QED
    BY <2>1, <2>4
<1> HIDE DEF b
<1>6. Balanced(b)
  <2>1. SumOver(b.remaining, Lots) = SumOver(a.remaining, Lots) - 0 + COMPOSITION_COST
    BY <1>1, <1>2, <1>3, <1>4, <1>5, SumChange
  <2> QED
    BY <1>1, <1>4, <1>5, <2>1 DEF Balanced, AccountInv
<1>7. Accounted(b)
  <2> SUFFICES ASSUME NEW m \in Lots
               PROVE  b.granted[m] = b.remaining[m] + b.expired[m]
                                       + COMPOSITION_COST * Cardinality(Spent(b, m))
    BY DEF Accounted
  <2>1. Spent(b, m) = Spent(a, m)
    BY <1>1, <1>2, <1>5 DEF Spent, AccountInv, Provenance
  <2>2. CASE m = j
    <3>1. COMPOSITION_COST * Cardinality(Spent(b, m)) = 0
      BY <1>3, <2>1, <2>2, Numbers
    <3>2. /\ b.granted[m] = COMPOSITION_COST /\ b.remaining[m] = COMPOSITION_COST
          /\ b.expired[m] = 0
      BY <1>1, <1>2, <1>3, <1>5, <2>2
    <3> QED
      BY <1>4, <3>1, <3>2
  <2>3. CASE m # j
    <3>1. /\ b.granted[m] = a.granted[m] /\ b.remaining[m] = a.remaining[m]
          /\ b.expired[m] = a.expired[m]
      BY <1>1, <1>5, <2>3
    <3> QED
      BY <2>1, <3>1 DEF AccountInv, Accounted
  <2> QED
    BY <2>2, <2>3
<1>8. Provenance(b)
  BY <1>1, <1>2, <1>5, Numbers DEF Provenance, AccountInv
<1>9. COMPOSITION_COST % COMPOSITION_COST = 0
  BY Numbers
<1>10. WholeUses(b)
  BY <1>1, <1>5, <1>9 DEF WholeUses, AccountInv
<1>11. ExpiredOnce(b, t)
  BY <1>1, <1>3, <1>5 DEF ExpiredOnce, AccountInv, IsExpired
<1> QED
  BY <1>5, <1>6, <1>7, <1>8, <1>10, <1>11 DEF AccountInv, b

-----------------------------------------------------------------------------
(* The steps of the specification                                          *)

\* Bringing the account up to date does not touch what a step looks up.
LEMMA ExpireKeeps ==
  ASSUME NEW a, NEW t \in Nat, AccountInv(a, t)
  PROVE  LET e == ExpireLots(a, t) IN
         /\ AccountInv(e, t)
         /\ e.granted = a.granted /\ e.expires = a.expires
         /\ e.deducted = a.deducted /\ e.refunded = a.refunded
         /\ Payable(e, t) = Payable(a, t)
<1> DEFINE e == ExpireLots(a, t)
<1>0. a \in Account
  BY DEF AccountInv
<1>1. AccountInv(e, t)
  BY ExpireInv
<1>2. /\ e.remaining = [l \in Lots |-> IF l \in Stale(a, t) THEN 0 ELSE a.remaining[l]]
      /\ e.granted = a.granted /\ e.expires = a.expires
      /\ e.deducted = a.deducted /\ e.refunded = a.refunded
  BY <1>0, ExpireFields
<1> HIDE DEF e
<1>3. Payable(e, t) = Payable(a, t)
  BY <1>0, <1>2, Numbers DEF Payable, Loaded, IsExpired, Stale, Account
<1> QED
  BY <1>1, <1>2, <1>3 DEF e

\* A user with no account yet satisfies the invariant.
LEMMA InitInv == Init => IInv
<1> SUFFICES ASSUME Init
             PROVE  IInv
  OBVIOUS
<1>1. now = 0 /\ opened = FALSE /\ account = EmptyAccount
  BY DEF Init
<1>2. AccountInv(account, now)
  BY <1>1, EmptyInv
<1>3. now \in Nat /\ opened \in BOOLEAN
  BY <1>1
<1> QED
  BY <1>1, <1>2, <1>3 DEF IInv

\* Opening the account with its welcome lot keeps the invariant.
LEMMA CreateAccountInv == IInv /\ CreateAccount => IInv'
<1> SUFFICES ASSUME IInv, CreateAccount
             PROVE  IInv'
  OBVIOUS
<1>1. /\ now \in Nat /\ AccountInv(account, now) /\ account = EmptyAccount
      /\ now + PASS_VALIDITY \in Nat
  BY Numbers DEF IInv, CreateAccount
<1>2. account.granted[Welcome] = 0
  BY <1>1, Numbers DEF EmptyAccount
<1>3. ChargeAccepted(WELCOME_CREDIT) /\ WELCOME_CREDIT \in Int
  BY Numbers DEF ChargeAccepted
<1>4. AccountInv(AddLot(account, Welcome, WELCOME_CREDIT, now + PASS_VALIDITY), now)
  BY <1>1, <1>2, <1>3, Numbers, AddLotInv
<1> QED
  BY <1>1, <1>4 DEF IInv, CreateAccount

\* Adding a purchased or admin lot keeps the invariant.
LEMMA ChargeInv == ASSUME IInv, NEW g \in Grants, Charge(g) PROVE IInv'
<1>1. now \in Nat /\ AccountInv(account, now)
  BY DEF IInv
<1>2. PICK amount \in Amounts, granted_at \in 0..now :
        /\ ChargeAccepted(amount)
        /\ account' = AddLot(ExpireLots(account, now), g, amount, granted_at + PASS_VALIDITY)
  BY DEF Charge
<1>3. /\ AccountInv(ExpireLots(account, now), now)
      /\ ExpireLots(account, now).granted[g] = 0
  BY <1>1, ExpireKeeps DEF Charge
<1>4. g \in Lots \ Jobs /\ amount \in Int /\ granted_at + PASS_VALIDITY \in Nat
  BY <1>1, Numbers
<1>5. AccountInv(account', now)
  BY <1>1, <1>2, <1>3, <1>4, AddLotInv
<1> QED
  BY <1>5 DEF IInv, Charge

\* Paying for a job from one lot keeps the invariant.
LEMMA DeductInv == ASSUME IInv, NEW j \in Jobs, Deduct(j) PROVE IInv'
<1>1. now \in Nat /\ AccountInv(account, now)
  BY DEF IInv
<1>2. PICK l \in EarliestPayable(account, now) :
        account' = TakeUse(ExpireLots(account, now), j, l)
  BY DEF Deduct
<1>3. /\ AccountInv(ExpireLots(account, now), now)
      /\ ExpireLots(account, now).deducted[j] = NoLot
      /\ l \in Payable(ExpireLots(account, now), now)
  BY <1>1, ExpireKeeps DEF Deduct, EarliestPayable
<1>4. AccountInv(account', now)
  BY <1>1, <1>2, <1>3, TakeUseInv
<1> QED
  BY <1>4 DEF IInv, Deduct

\* Refunding a job, into its own lot or as a compensation lot, keeps the invariant.
LEMMA RefundInv == ASSUME IInv, NEW j \in Jobs, Refund(j) PROVE IInv'
<1>1. now \in Nat /\ AccountInv(account, now)
  BY DEF IInv
<1> DEFINE e == ExpireLots(account, now)
<1>2. /\ AccountInv(e, now)
      /\ e.deducted = account.deducted /\ e.refunded = account.refunded
      /\ e.expires = account.expires
  BY <1>1, ExpireKeeps
<1> HIDE DEF e
<1>3. e.deducted[j] # NoLot /\ e.refunded[j] = NoLot
  BY <1>2 DEF Refund
<1>4. CASE IsExpired(account, account.deducted[j], now)
  <2>1. account' = Compensate(e, j, now)
    BY <1>4 DEF Refund, RefundOf, e
  <2> QED
    BY <1>1, <1>2, <1>3, <2>1, CompensateInv DEF IInv, Refund
<1>5. CASE ~IsExpired(account, account.deducted[j], now)
  <2>1. account' = RestoreUse(e, j)
    BY <1>5 DEF Refund, RefundOf, e
  <2>2. ~IsExpired(e, e.deducted[j], now)
    BY <1>2, <1>5 DEF IsExpired
  <2> QED
    BY <1>1, <1>2, <1>3, <2>1, <2>2, RestoreUseInv DEF IInv, Refund
<1> QED
  BY <1>4, <1>5

\* Every step of the account, the clock's included, keeps the invariant.
LEMMA NextInv == IInv /\ [Next]_vars => IInv'
<1> SUFFICES ASSUME IInv, [Next]_vars
             PROVE  IInv'
  OBVIOUS
<1>1. CASE CreateAccount
  BY <1>1, CreateAccountInv
<1>2. ASSUME NEW g \in Grants, Charge(g) PROVE IInv'
  BY <1>2, ChargeInv
<1>3. ASSUME NEW j \in Jobs, Deduct(j) PROVE IInv'
  BY <1>3, DeductInv
<1>4. ASSUME NEW j \in Jobs, Refund(j) PROVE IInv'
  BY <1>4, RefundInv
<1>5. CASE Tick
  <2>1. now \in Nat /\ AccountInv(account, now)
    BY DEF IInv
  <2>2. AccountInv(account, now + 1)
    BY <2>1, TickInv
  <2> QED
    BY <1>5, <2>1, <2>2 DEF IInv, Tick
<1>6. CASE UNCHANGED vars
  BY <1>6 DEF vars, IInv
<1> QED
  BY <1>1, <1>2, <1>3, <1>4, <1>5, <1>6 DEF Next

\* IInv holds in every state, for every set of jobs, grants and amounts.
THEOREM AccountInvariant == Spec => []IInv
<1> QED
  BY InitInv, NextInv, PTL DEF Spec

\* No column leaves its range: in particular a lot is never overdrawn.
THEOREM TypeCorrect == Spec => []TypeOK
<1>1. IInv => TypeOK
  BY DEF IInv, TypeOK, AccountInv
<1> QED
  BY <1>1, AccountInvariant, PTL

\* The cached balance is always the sum of what the lots have left.
THEOREM BalanceTheorem == Spec => []BalanceIsSumOfLots
<1>1. IInv => BalanceIsSumOfLots
  BY DEF IInv, AccountInv, BalanceIsSumOfLots
<1> QED
  BY <1>1, AccountInvariant, PTL

\* Every lot accounts for all it ever granted.
THEOREM LotAccountingTheorem == Spec => []LotAccounting
<1>1. IInv => LotAccounting
  BY DEF IInv, AccountInv, LotAccounting
<1> QED
  BY <1>1, AccountInvariant, PTL

-----------------------------------------------------------------------------
(* Refunds                                                                 *)

\* In a good account a use that was taken can be given back at any time.
LEMMA RefundFits ==
  ASSUME NEW a, NEW t \in Nat, AccountInv(a, t),
         NEW j \in Jobs, a.deducted[j] # NoLot, a.refunded[j] = NoLot
  PROVE  RefundAccepted(a, j, t)
<1> DEFINE d == a.deducted[j]
<1>0. a \in Account
  BY DEF AccountInv
<1>1. /\ a.deducted \in [Jobs -> Lots \cup {NoLot}]
      /\ a.remaining \in [Lots -> Nat] /\ a.expired \in [Lots -> Nat] /\ a.granted \in [Lots -> Nat]
  BY <1>0 DEF Account
<1>2. d \in Lots /\ a.granted[d] > 0 /\ j \in Spent(a, d)
  BY <1>1 DEF AccountInv, Provenance, Spent
<1>3. d \in Loaded(a, d)
  BY <1>2 DEF Loaded
<1>4. CASE IsExpired(a, d, t)
  BY <1>3, <1>4 DEF RefundAccepted
<1>5. CASE ~IsExpired(a, d, t)
  <2> DEFINE n == Cardinality(Spent(a, d))
  <2> DEFINE paid == COMPOSITION_COST * n
  <2>1. IsFiniteSet(Spent(a, d)) /\ n \in Nat
    BY SpentFinite
  <2>2. n # 0
    BY <1>2, <2>1, FS_EmptySet
  <2>3. a.granted[d] = a.remaining[d] + a.expired[d] + paid
    BY <1>2 DEF AccountInv, Accounted
  <2> HIDE DEF n
  <2>4. paid \in Nat /\ paid >= COMPOSITION_COST
    BY <2>1, <2>2, CostOf
  <2> HIDE DEF paid
  <2>5. a.expired[d] = 0
    BY <1>1, <1>2, <1>5 DEF AccountInv, ExpiredOnce
  <2>6. a.remaining[d] + COMPOSITION_COST <= a.granted[d]
    BY <1>1, <1>2, <2>3, <2>4, <2>5, Numbers
  <2> QED
    BY <1>3, <2>6 DEF RefundAccepted
<1> QED
  BY <1>4, <1>5

\* The InvalidState errors of refund() are unreachable: whatever was charged,
\* spent, restored or expired before, a failed composition gets its use back.
THEOREM RefundTheorem == Spec => []RefundAlwaysHonoured
<1>1. IInv => RefundAlwaysHonoured
  BY RefundFits DEF IInv, RefundAlwaysHonoured
<1> QED
  BY <1>1, AccountInvariant, PTL

-----------------------------------------------------------------------------
(* What the unlocked check adds up                                         *)

\* Induction on the natural numbers, for a set rather than a predicate.
LEMMA NatInductionSet ==
  ASSUME NEW L, 0 \in L, \A n \in Nat : n \in L => n + 1 \in L
  PROVE  Nat \subseteq L
<1> SUFFICES ASSUME NEW n \in Nat, n \notin L
             PROVE  FALSE
  OBVIOUS
<1> DEFINE S == L \cap (0 .. n)
           T == S \ {0}
           f == [i \in S |-> i + 1]
<1>1. IsFiniteSet(S)
  <2>1. S \in SUBSET Nat /\ \A s \in S : s <= n
    OBVIOUS
  <2> QED
    BY <2>1, FS_BoundedSetOfNaturals
<1>2. 0 \in S
  OBVIOUS
<1>3. IsFiniteSet(T) /\ Cardinality(T) = Cardinality(S) - 1
  BY <1>1, <1>2, FS_RemoveElement
<1>4. f \in Injection(S, T)
  <2>1. \A i \in S : i + 1 \in T
    OBVIOUS
  <2>2. f \in [S -> T]
    BY <2>1
  <2>3. \A i, j \in S : f[i] = f[j] => i = j
    OBVIOUS
  <2> QED
    BY <2>2, <2>3 DEF Injection, IsInjective
<1>5. Cardinality(S) <= Cardinality(T)
  BY <1>1, <1>3, <1>4, FS_Injection
<1> QED
  BY <1>1, <1>3, <1>5, FS_CardinalityType

\* A sum of multiples is the multiple of the sum.
LEMMA SumScaled ==
  ASSUME NEW f \in [Lots -> Nat], NEW g \in [Lots -> Nat], NEW c \in Nat,
         \A l \in Lots : f[l] = c * g[l],
         NEW S \in SUBSET Lots
  PROVE  SumOver(f, S) = c * SumOver(g, S)
<1> DEFINE L == {n \in Nat : \A T \in SUBSET Lots :
                  Cardinality(T) = n => SumOver(f, T) = c * SumOver(g, T)}
<1>1. \A T \in SUBSET Lots : IsFiniteSet(T) /\ Cardinality(T) \in Nat
  BY LotsFinite, FS_Subset, FS_CardinalityType
<1>2. 0 \in L
  <2> SUFFICES ASSUME NEW T \in SUBSET Lots, Cardinality(T) = 0
               PROVE  SumOver(f, T) = c * SumOver(g, T)
    OBVIOUS
  <2>1. T = {}
    BY <1>1, FS_EmptySet
  <2>2. Units(f, T) = {} /\ Units(g, T) = {}
    BY <2>1 DEF Units
  <2>3. SumOver(f, T) = 0 /\ SumOver(g, T) = 0
    BY <2>2, FS_EmptySet DEF SumOver
  <2> QED
    BY <2>3
<1>3. ASSUME NEW n \in Nat, n \in L
      PROVE  n + 1 \in L
  <2> SUFFICES ASSUME NEW T \in SUBSET Lots, Cardinality(T) = n + 1
               PROVE  SumOver(f, T) = c * SumOver(g, T)
    OBVIOUS
  <2>1. T # {}
    BY FS_EmptySet
  <2>2. PICK x \in T : TRUE
    BY <2>1
  <2> DEFINE R == T \ {x}
  <2>3. /\ R \in SUBSET Lots /\ {x} \in SUBSET Lots
        /\ R \cap {x} = {} /\ R \cup {x} = T
    OBVIOUS
  <2>4. Cardinality(R) = n
    BY <1>1, FS_RemoveElement
  <2> HIDE DEF R
  <2>5. SumOver(f, R) = c * SumOver(g, R)
    BY <1>3, <2>3, <2>4
  <2>6. SumOver(f, {x}) = c * g[x] /\ SumOver(g, {x}) = g[x]
    BY SumOne
  <2>7. /\ SumOver(f, T) = SumOver(f, R) + SumOver(f, {x})
        /\ SumOver(g, T) = SumOver(g, R) + SumOver(g, {x})
    BY <2>3, SumSplit
  <2> DEFINE r == SumOver(g, R)
             u == g[x]
  <2>8. r \in Nat /\ u \in Nat
    BY <2>3, SumType
  <2>9. SumOver(f, T) = c * r + c * u /\ SumOver(g, T) = r + u
    BY <2>5, <2>6, <2>7
  <2> HIDE DEF r, u
  <2>10. c * r + c * u = c * (r + u)
    BY <2>8
  <2> QED
    BY <2>9, <2>10
<1> HIDE DEF L
<1>4. Nat \subseteq L
  BY <1>2, <1>3, NatInductionSet
<1>5. Cardinality(S) \in L
  BY <1>1, <1>4
<1> QED
  BY <1>5 DEF L

\* A sum of nothing.
LEMMA SumZero ==
  ASSUME NEW f, NEW S, \A l \in S : f[l] = 0
  PROVE  SumOver(f, S) = 0
<1>1. Units(f, S) = {}
  BY DEF Units
<1> QED
  BY <1>1, FS_EmptySet DEF SumOver

\* What is left of a difference of two multiples of the cost.
LEMMA WholeDifference ==
  ASSUME NEW r \in Nat, NEW g \in Nat, NEW n \in Nat,
         g % COMPOSITION_COST = 0, g = r + COMPOSITION_COST * n
  PROVE  r = COMPOSITION_COST * (r \div COMPOSITION_COST)
<1> DEFINE c == COMPOSITION_COST
<1>1. c \in Nat \ {0}
  BY Numbers
<1> DEFINE p == g \div c
<1> HIDE DEF c
<1>2. p \in Int /\ g = c * p
  BY <1>1 DEF c
<1> HIDE DEF p
<1>3. r = c * p - c * n
  BY <1>1, <1>2 DEF c
<1>4. c * p - c * n = c * (p - n)
  BY <1>1, <1>2
<1> DEFINE q == p - n
<1>5. q \in Int /\ r = c * q
  BY <1>2, <1>3, <1>4
<1> HIDE DEF q
<1>6. (c * q) \div c = q
  BY <1>1, <1>5
<1>7. r = c * (r \div c)
  BY <1>5, <1>6
<1> QED
  BY <1>7 DEF c

\* Every lot holds a whole number of uses, whatever was charged, spent,
\* refunded and expired.
LEMMA WholeUsesLeft ==
  ASSUME NEW a, NEW t \in Nat, AccountInv(a, t), NEW l \in Lots
  PROVE  a.remaining[l] = COMPOSITION_COST * (a.remaining[l] \div COMPOSITION_COST)
<1>1. /\ a.remaining[l] \in Nat /\ a.expired[l] \in Nat /\ a.granted[l] \in Nat
      /\ a.granted[l] = a.remaining[l] + a.expired[l]
                          + COMPOSITION_COST * Cardinality(Spent(a, l))
      /\ a.granted[l] % COMPOSITION_COST = 0
  BY DEF AccountInv, Account, Accounted, WholeUses
<1>2. CASE a.expired[l] > 0
  <2>1. a.remaining[l] = 0
    BY <1>2 DEF AccountInv, ExpiredOnce
  <2>2. 0 = COMPOSITION_COST * (0 \div COMPOSITION_COST)
    BY Numbers
  <2> QED
    BY <2>1, <2>2
<1>3. CASE a.expired[l] = 0
  <2> DEFINE n == Cardinality(Spent(a, l))
             paid == COMPOSITION_COST * n
             r == a.remaining[l]
             g == a.granted[l]
  <2>1. n \in Nat
    BY SpentFinite
  <2>2. paid \in Nat
    BY <2>1, CostOf
  <2>3. r \in Nat /\ g \in Nat /\ g % COMPOSITION_COST = 0 /\ g = r + 0 + paid
    BY <1>1, <1>3
  <2>4. r + 0 + paid = r + paid
    BY <2>2, <2>3
  <2>5. g = r + COMPOSITION_COST * n
    BY <2>3, <2>4
  <2> HIDE DEF n, r, g
  <2>6. r = COMPOSITION_COST * (r \div COMPOSITION_COST)
    BY <2>1, <2>3, <2>5, WholeDifference
  <2> QED
    BY <2>6 DEF r
<1> QED
  BY <1>1, <1>2, <1>3

\* The credit that is not expired is, use by use, credit of payable lots.
LEMMA AvailableIsPayable ==
  ASSUME NEW a, NEW t \in Nat, AccountInv(a, t)
  PROVE  LET uses == SumOver([l \in Lots |-> a.remaining[l] \div COMPOSITION_COST], Payable(a, t))
         IN  uses \in Nat /\ Available(a, t) = COMPOSITION_COST * uses
<1> DEFINE f == a.remaining
           q == [l \in Lots |-> f[l] \div COMPOSITION_COST]
           Live == {l \in Lots : ~IsExpired(a, l, t)}
           P == Payable(a, t)
           D == Live \ P
<1>0. a \in Account
  BY DEF AccountInv
<1>1. f \in [Lots -> Nat]
  BY <1>0 DEF Account
<1>2. q \in [Lots -> Nat]
  BY <1>1, Numbers
<1>3. \A l \in Lots : f[l] = COMPOSITION_COST * q[l]
  BY WholeUsesLeft
<1>4. P \in SUBSET Lots /\ D \in SUBSET Lots /\ P \cap D = {} /\ P \cup D = Live
  BY DEF Payable, Loaded
<1>5. \A l \in D : f[l] = 0 \/ f[l] < COMPOSITION_COST
  <2> SUFFICES ASSUME NEW l \in D, f[l] # 0, ~(f[l] < COMPOSITION_COST)
               PROVE  FALSE
    OBVIOUS
  <2>1. l \in Lots /\ a.granted[l] \in Nat /\ f[l] \in Nat
    BY <1>0, <1>1, <1>4 DEF Account
  <2>2. a.granted[l] # 0
    BY <1>0, <2>1, NoRowIsEmpty DEF AccountInv
  <2> QED
    BY <2>1, <2>2, Numbers DEF Payable, Loaded
<1>6. \A l \in D : q[l] = 0
  <2> SUFFICES ASSUME NEW l \in D
               PROVE  f[l] \div COMPOSITION_COST = 0
    BY <1>4
  <2> DEFINE r == f[l]
  <2>1. r \in Nat /\ r < COMPOSITION_COST
    BY <1>1, <1>4, <1>5, Numbers
  <2> HIDE DEF r
  <2>2. r \div COMPOSITION_COST = 0
    BY <2>1, Numbers
  <2> QED
    BY <2>2 DEF r
<1>7. Available(a, t) = SumOver(f, Live)
  BY DEF Available
<1>8. SumOver(q, P) = SumOver([l \in Lots |-> a.remaining[l] \div COMPOSITION_COST], Payable(a, t))
  OBVIOUS
<1> HIDE DEF f, q, Live, P, D
<1>9. SumOver(q, P) \in Nat /\ SumOver(q, D) = 0
  BY <1>2, <1>4, <1>6, SumType, SumZero
<1>10. SumOver(q, Live) = SumOver(q, P)
  BY <1>2, <1>4, <1>9, SumSplit
<1>11. Live \in SUBSET Lots
  BY <1>4
<1>12. SumOver(f, Live) = COMPOSITION_COST * SumOver(q, Live)
  BY <1>1, <1>2, <1>3, <1>11, Numbers, SumScaled
<1> QED
  BY <1>7, <1>8, <1>9, <1>10, <1>12

\* What is shown or checked without a lock is never more than can be taken.
LEMMA EnoughFits == IInv => EnoughMeansPayable
<1> SUFFICES ASSUME IInv
             PROVE  /\ HasEnoughCredit(account, now) => Payable(account, now) # {}
                    /\ RemainingUses(account, now)
                         = SumOver([l \in Lots |-> account.remaining[l] \div COMPOSITION_COST],
                                   Payable(account, now))
  BY DEF EnoughMeansPayable
<1> DEFINE q == [l \in Lots |-> account.remaining[l] \div COMPOSITION_COST]
           P == Payable(account, now)
           uses == SumOver(q, P)
           left == Available(account, now)
<1>1. uses \in Nat /\ left = COMPOSITION_COST * uses
  BY AvailableIsPayable DEF IInv
<1>2. P = {} => uses = 0
  BY SumZero
<1>3. RemainingUses(account, now) = left \div COMPOSITION_COST
  BY DEF RemainingUses
<1>4. HasEnoughCredit(account, now) => left >= COMPOSITION_COST
  BY DEF HasEnoughCredit
<1> HIDE DEF uses, left
<1>5. (COMPOSITION_COST * uses) \div COMPOSITION_COST = uses
  BY <1>1, Numbers
<1>6. RemainingUses(account, now) = uses
  BY <1>1, <1>3, <1>5
<1>7. uses = 0 => left = 0
  BY <1>1, Numbers
<1>8. HasEnoughCredit(account, now) => P # {}
  BY <1>2, <1>4, <1>7, Numbers
<1> QED
  BY <1>6, <1>8 DEF uses

\* has_enough_credit adds lots up without a lock, deduct() wants one lot with
\* the whole cost: the sum is never enough without such a lot, and the uses a
\* user is shown are uses of such lots.
THEOREM EnoughTheorem == Spec => []EnoughMeansPayable
<1> QED
  BY EnoughFits, AccountInvariant, PTL

-----------------------------------------------------------------------------
(* Expiration                                                              *)

\* Bringing the account up to date empties the lots that are dead, each once.
LEMMA ExpireEmpties ==
  ASSUME NEW a, NEW t \in Nat, AccountInv(a, t), NEW l \in Lots
  PROVE  LET e == ExpireLots(a, t) IN
         \/ e.remaining[l] = a.remaining[l] /\ e.expired[l] = a.expired[l]
         \/ e.remaining[l] = 0 /\ a.expired[l] = 0 /\ e.expired[l] = a.remaining[l]
<1> DEFINE e == ExpireLots(a, t)
<1>0. a \in Account
  BY DEF AccountInv
<1>1. /\ e.remaining = [m \in Lots |-> IF m \in Stale(a, t) THEN 0 ELSE a.remaining[m]]
      /\ e.expired = [m \in Lots |-> IF m \in Stale(a, t)
                                       THEN a.expired[m] + a.remaining[m] ELSE a.expired[m]]
  BY <1>0, ExpireFields
<1> HIDE DEF e
<1>2. /\ e.remaining[l] = IF l \in Stale(a, t) THEN 0 ELSE a.remaining[l]
      /\ e.expired[l] = IF l \in Stale(a, t) THEN a.expired[l] + a.remaining[l] ELSE a.expired[l]
  BY <1>1
<1>3. a.remaining[l] \in Nat /\ a.expired[l] \in Nat
  BY <1>0 DEF Account
<1>4. l \in Stale(a, t) => a.expired[l] = 0
  BY <1>3 DEF Stale, AccountInv, ExpiredOnce
<1> QED
  BY <1>2, <1>3, <1>4 DEF e

\* No call pays from, refunds into or grants over a lot that has expired.
LEMMA DeadStep == IInv /\ [Next]_vars => [DeadLotsStayDead]_vars
<1> SUFFICES ASSUME IInv, Next, NEW l \in Lots,
                    account.granted[l] > 0, IsExpired(account, l, now)
             PROVE  OnlyEmptied(l)
  BY DEF DeadLotsStayDead
<1> DEFINE e == ExpireLots(account, now)
<1>0. now \in Nat /\ AccountInv(account, now) /\ account \in Account
  BY DEF IInv, AccountInv
<1>1. \/ e.remaining[l] = account.remaining[l] /\ e.expired[l] = account.expired[l]
      \/ e.remaining[l] = 0 /\ account.expired[l] = 0 /\ e.expired[l] = account.remaining[l]
  BY <1>0, ExpireEmpties
<1>2. /\ e.granted = account.granted /\ e.expires = account.expires
      /\ e.deducted = account.deducted /\ e.refunded = account.refunded
      /\ Payable(e, now) = Payable(account, now) /\ e \in Account
  BY <1>0, ExpireKeeps DEF AccountInv
<1> HIDE DEF e
<1>3. e.remaining \in [Lots -> Nat]
  BY <1>2 DEF Account
<1>4. SUFFICES \/ account' = account
               \/ account'.remaining[l] = e.remaining[l] /\ account'.expired[l] = e.expired[l]
  BY <1>1 DEF OnlyEmptied
<1>5. CASE CreateAccount
  BY <1>5, Numbers DEF CreateAccount, IInv, EmptyAccount
<1>6. ASSUME NEW g \in Grants, Charge(g) PROVE account'.remaining[l] = e.remaining[l] /\ account'.expired[l] = e.expired[l]
  <2>1. PICK amount \in Amounts, granted_at \in 0..now :
          account' = AddLot(e, g, amount, granted_at + PASS_VALIDITY)
    BY <1>6 DEF Charge, e
  <2>2. g # l
    BY <1>6, Numbers DEF Charge
  <2> QED
    BY <1>2, <1>3, <2>1, <2>2 DEF AddLot, Account
<1>7. ASSUME NEW j \in Jobs, Deduct(j) PROVE account'.remaining[l] = e.remaining[l] /\ account'.expired[l] = e.expired[l]
  <2>1. PICK m \in EarliestPayable(account, now) : account' = TakeUse(e, j, m)
    BY <1>7 DEF Deduct, e
  <2>2. m # l
    BY DEF EarliestPayable, Payable
  <2> QED
    BY <1>2, <1>3, <2>1, <2>2 DEF TakeUse, Account
<1>8. ASSUME NEW j \in Jobs, Refund(j) PROVE account'.remaining[l] = e.remaining[l] /\ account'.expired[l] = e.expired[l]
  <2>1. CASE IsExpired(account, account.deducted[j], now)
    <3>1. account' = Compensate(e, j, now)
      BY <1>8, <2>1 DEF Refund, RefundOf, e
    <3>2. j # l
      BY <1>0, <1>8, Numbers DEF Refund, AccountInv, Provenance
    <3> QED
      BY <1>2, <1>3, <3>1, <3>2 DEF Compensate, Account
  <2>2. CASE ~IsExpired(account, account.deducted[j], now)
    <3>1. account' = RestoreUse(e, j)
      BY <1>8, <2>2 DEF Refund, RefundOf, e
    <3>2. e.deducted[j] # l
      BY <1>2, <2>2
    <3> QED
      BY <1>2, <1>3, <3>1, <3>2 DEF RestoreUse, Account
  <2> QED
    BY <2>1, <2>2
<1>9. CASE Tick
  BY <1>9 DEF Tick
<1> QED
  BY <1>5, <1>6, <1>7, <1>8, <1>9 DEF Next

\* Whichever lot a refund goes to, the user can pay from it at once.
LEMMA RefundPays == IInv /\ [Next]_vars => [RefundedIsPayable]_vars
<1> SUFFICES ASSUME IInv, Next, NEW j \in Jobs, account'.refunded[j] # account.refunded[j]
             PROVE  Payable(account', now) # {}
  BY DEF RefundedIsPayable
<1> DEFINE e == ExpireLots(account, now)
<1>0. now \in Nat /\ AccountInv(account, now) /\ account \in Account
  BY DEF IInv, AccountInv
<1>1. /\ e.granted = account.granted /\ e.expires = account.expires
      /\ e.deducted = account.deducted /\ e.refunded = account.refunded
      /\ e \in Account
  BY <1>0, ExpireKeeps DEF AccountInv
<1> HIDE DEF e
<1>2. CASE CreateAccount
  BY <1>0, <1>2 DEF CreateAccount, AddLot, Account
<1>3. ASSUME NEW g \in Grants, Charge(g) PROVE FALSE
  BY <1>0, <1>1, <1>3 DEF Charge, AddLot, Account, e
<1>4. ASSUME NEW i \in Jobs, Deduct(i) PROVE FALSE
  BY <1>0, <1>1, <1>4 DEF Deduct, TakeUse, Account, e
<1>5. ASSUME NEW i \in Jobs, Refund(i) PROVE Payable(account', now) # {}
  <2> DEFINE d == account.deducted[i]
  <2>1. d \in Lots /\ account.granted[d] > 0
    BY <1>0, <1>5 DEF Refund, AccountInv, Provenance, Account
  <2>2. CASE IsExpired(account, d, now)
    <3>1. account' = Compensate(e, i, now)
      BY <1>5, <2>2 DEF Refund, RefundOf, e
    <3>2. /\ account'.granted[i] = COMPOSITION_COST /\ account'.remaining[i] = COMPOSITION_COST
          /\ account'.expires[i] = now + COMPENSATION_VALIDITY
      BY <1>1, <3>1, Numbers DEF Compensate, Account
    <3>3. i \in Payable(account', now)
      BY <1>0, <3>2, Numbers DEF Payable, Loaded, IsExpired
    <3> QED
      BY <3>3
  <2>3. CASE ~IsExpired(account, d, now)
    <3>1. account' = RestoreUse(e, i)
      BY <1>5, <2>3 DEF Refund, RefundOf, e
    <3>2. /\ account'.granted = e.granted /\ account'.expires = e.expires
          /\ account'.remaining[d] = e.remaining[d] + COMPOSITION_COST
          /\ e.remaining[d] \in Nat
      BY <1>1, <2>1, <3>1 DEF RestoreUse, Account
    <3>3. account'.remaining[d] >= COMPOSITION_COST /\ account'.remaining[d] > 0
      BY <3>2, Numbers
    <3>4. d \in Payable(account', now)
      BY <1>1, <2>1, <2>3, <3>2, <3>3 DEF Payable, Loaded, IsExpired
    <3> QED
      BY <3>4
  <2> QED
    BY <2>2, <2>3
<1>6. CASE Tick
  BY <1>6 DEF Tick
<1> QED
  BY <1>2, <1>3, <1>4, <1>5, <1>6 DEF Next

\* After its expiration a lot is only ever emptied, all of it at once, into
\* the one EXPIRATION transaction its unique source allows.
THEOREM DeadLotsTheorem == Spec => [][DeadLotsStayDead]_vars
<1> QED
  BY DeadStep, AccountInvariant, PTL DEF Spec

\* Right after a refund the user can pay for another composition, however
\* late the failure came.
THEOREM UsableTheorem == Spec => [][RefundedIsPayable]_vars
<1> QED
  BY RefundPays, AccountInvariant, PTL DEF Spec

-----------------------------------------------------------------------------
(* Concurrent transactions: what a session reads and writes                *)

\* A session that has changed nothing writes nothing.
LEMMA SaveNothing ==
  ASSUME NEW rows \in Account, NEW x \in Account
  PROVE  Save(rows, x, x) = rows
BY DEF Save, Written, Account

\* A session that started from the committed rows leaves its own.
LEMMA SaveOwn ==
  ASSUME NEW rows \in Account, NEW own \in Account
  PROVE  Save(rows, rows, own) = own
<1>1. /\ Written(rows.granted, rows.granted, own.granted) = own.granted
      /\ Written(rows.remaining, rows.remaining, own.remaining) = own.remaining
      /\ Written(rows.expires, rows.expires, own.expires) = own.expires
      /\ Written(rows.expired, rows.expired, own.expired) = own.expired
  BY DEF Written, Account
<1>2. /\ Written(rows.deducted, rows.deducted, own.deducted) = own.deducted
      /\ Written(rows.refunded, rows.refunded, own.refunded) = own.refunded
  BY DEF Written, Account
<1> QED
  BY <1>1, <1>2 DEF Save, Account

\* The invariant of the account, with the parts every step needs.
LEMMA Parts ==
  ASSUME TInv
  PROVE  /\ now \in Nat /\ AccountInv(account, now) /\ account \in Account
         /\ session \in [Sessions -> Session]
         /\ \A s \in Sessions : SessionInv(s)
BY DEF TInv, IInv, AccountInv

\* The holder of the lock sees its own account, everybody else the committed one.
LEMMA VisibleIs ==
  ASSUME TInv, NEW s \in Sessions
  PROVE  Visible(s) = IF holder = s THEN session[s].own ELSE account
<1>1. /\ account \in Account /\ SessionInv(s)
      /\ session[s].base \in Account /\ session[s].own \in Account
  BY Parts DEF Session
<1>2. CASE holder = s
  <2>1. session[s].base = account
    BY <1>1, <1>2 DEF SessionInv
  <2> QED
    BY <1>1, <1>2, <2>1, SaveOwn DEF Visible
<1>3. CASE holder # s
  <2>1. session[s].base = session[s].own
    BY <1>1, <1>3 DEF SessionInv
  <2> QED
    BY <1>1, <1>3, <2>1, SaveNothing DEF Visible
<1> QED
  BY <1>2, <1>3

\* A transaction makes one call after the other.
LEMMA CallShape ==
  ASSUME NEW calls \in CallLists, calls # <<>>
  PROVE  /\ Head(calls) \in ChargeCalls \cup JobCalls("deduct") \cup JobCalls("refund")
         /\ Tail(calls) \in CallLists
<1>1. CASE \E c \in ChargeCalls \cup JobCalls("deduct") \cup JobCalls("refund") : calls = <<c>>
  BY <1>1 DEF CallLists
<1>2. CASE \E r \in JobCalls("refund"), d \in JobCalls("deduct") : calls = <<r, d>>
  <2>1. PICK r \in JobCalls("refund"), d \in JobCalls("deduct") : calls = <<r, d>>
    BY <1>2
  <2>2. Head(calls) = r /\ Tail(calls) = <<d>>
    BY <2>1
  <2> QED
    BY <2>2 DEF CallLists
<1> QED
  BY <1>1, <1>2 DEF CallLists, Plans

-----------------------------------------------------------------------------
(* The sessions a step leaves alone.                                       *)

\* What another transaction commits, and the time, do not disturb a session
\* without the lock.
LEMMA OthersKeep ==
  ASSUME TInv, NEW t \in Sessions,
         session'[t] = session[t], now' \in {now, now + 1},
         holder' = t <=> holder = t,
         holder = t => account' = account,
         account' \in Account,
         KeepsDeductions(account, account')
  PROVE  SessionInv(t)'
<1>1. /\ now \in Nat /\ account \in Account /\ SessionInv(t) /\ session[t] \in Session
      /\ session[t].own \in Account /\ session[t].base \in Account
  BY Parts DEF Session
<1>2. holder = t => AccountInv(session[t].own, now')
  <2>1. holder = t => AccountInv(session[t].own, now)
    BY <1>1 DEF SessionInv
  <2>2. holder = t => AccountInv(session[t].own, now + 1)
    BY <1>1, <2>1, TickInv
  <2> QED
    BY <2>1, <2>2
<1>3. CASE holder = t
  <2>1. Visible(t)' = Visible(t)
    BY <1>3 DEF Visible
  <2> QED
    BY <1>1, <1>2, <1>3, <2>1 DEF SessionInv, Call
<1>4. CASE holder # t
  <2>1. session[t].base = session[t].own
    BY <1>1, <1>4 DEF SessionInv
  <2>2. Visible(t) = account /\ Visible(t)' = account'
    BY <1>1, <2>1, SaveNothing DEF Visible
  <2>3. session[t].step = "found" => Visible(t)'.deducted[Call(t).of] # NoLot
    <3> SUFFICES ASSUME session[t].step = "found"
                 PROVE  account'.deducted[Call(t).of] # NoLot
      BY <2>2
    <3>1. Call(t).op = "refund" /\ account.deducted[Call(t).of] # NoLot
      BY <1>1, <2>2 DEF SessionInv
    <3>2. session[t].calls \in CallLists /\ session[t].calls # <<>>
      BY <1>1 DEF Session, SessionInv
    <3>3. Call(t).of \in Jobs
      BY <3>1, <3>2, CallShape DEF Call, ChargeCalls, JobCalls
    <3> QED
      BY <3>1, <3>3 DEF KeepsDeductions
  <2> QED
    BY <1>1, <1>4, <2>3 DEF SessionInv, Call
<1> QED
  BY <1>3, <1>4

\* A step of one session on rows that stay as they are.
LEMMA OneSession ==
  ASSUME TInv, NEW s \in Sessions, NEW x \in Session,
         session' = [session EXCEPT ![s] = x],
         UNCHANGED <<now, opened, account>>,
         holder' \in {holder, s, Nobody},
         holder' # holder => holder \in {Nobody, s},
         ~opened => holder' = Nobody,
         SessionInv(s)'
  PROVE  TInv'
<1>1. IInv'
  BY DEF TInv, IInv
<1>2. session' \in [Sessions -> Session] /\ holder' \in Sessions \cup {Nobody}
  BY DEF TInv
<1>3. ASSUME NEW t \in Sessions, t # s PROVE SessionInv(t)'
  <2>1. session'[t] = session[t]
    BY <1>3, Parts
  <2>2. holder' = t <=> holder = t
    BY <1>3, SessionAssumption
  <2>3. account' \in Account /\ KeepsDeductions(account, account')
    BY Parts DEF KeepsDeductions
  <2> QED
    BY <2>1, <2>2, <2>3, OthersKeep
<1> QED
  BY <1>1, <1>2, <1>3 DEF TInv

-----------------------------------------------------------------------------
(* The steps of a session, outside of the aggregate.                       *)

\* Opening a transaction reads and locks nothing.
LEMMA BeginInv == ASSUME TInv, NEW s \in Sessions, Begin(s) PROVE TInv'
<1>1. PICK calls \in Plans : session' = [session EXCEPT ![s] = Fresh("begun", calls)]
  BY DEF Begin
<1> DEFINE x == Fresh("begun", calls)
<1>2. EmptyAccount \in Account
  BY EmptyInv DEF AccountInv
<1>3. x \in Session /\ x.step = "begun" /\ x.base = x.own /\ calls # <<>>
  <2>1. calls \in CallLists
    BY DEF CallLists
  <2>2. calls # <<>>
    BY DEF Plans
  <2> QED
    BY <1>2, <2>1, <2>2 DEF Session, Fresh
<1>4. holder # s
  BY Parts DEF Begin, SessionInv
<1>5. session'[s] = x /\ x.calls = calls
  BY <1>1, Parts DEF Fresh
<1> HIDE DEF x
<1>6. SessionInv(s)'
  BY <1>3, <1>4, <1>5 DEF SessionInv, Begin
<1>7. session' = [session EXCEPT ![s] = x]
  BY <1>1 DEF x
<1>8. ~opened => holder' = Nobody
  BY DEF TInv, Begin
<1> QED
  BY <1>3, <1>6, <1>7, <1>8, OneSession DEF Begin

\* The deduction a refund found before the lock stays.
LEMMA FindInv == ASSUME TInv, NEW s \in Sessions, FindDeduction(s) PROVE TInv'
<1> DEFINE x == [session[s] EXCEPT !.step = "found"]
<1>1. session[s] \in Session /\ SessionInv(s)
  BY Parts
<1>2. x \in Session /\ x.calls = session[s].calls /\ x.step = "found"
      /\ x.base = session[s].base /\ x.own = session[s].own
  BY <1>1 DEF Session
<1>3. session' = [session EXCEPT ![s] = x]
  BY DEF FindDeduction
<1>4. session'[s] = x
  BY <1>3, Parts
<1> HIDE DEF x
<1>5. Visible(s)' = Visible(s) /\ Call(s)' = Call(s)
  BY <1>2, <1>4 DEF Visible, Call, FindDeduction
<1>6. SessionInv(s)'
  BY <1>1, <1>2, <1>4, <1>5 DEF SessionInv, FindDeduction
<1>7. ~opened => holder' = Nobody
  BY DEF TInv, FindDeduction
<1> QED
  BY <1>2, <1>3, <1>6, <1>7, OneSession DEF FindDeduction

\* The lock gives a session the committed account, or the one it has left.
LEMMA LockInv == ASSUME TInv, NEW s \in Sessions, Lock(s) PROVE TInv'
<1> DEFINE x == [session[s] EXCEPT !.step = "locked", !.base = account, !.own = Visible(s)]
<1>1. /\ session[s] \in Session /\ SessionInv(s) /\ account \in Account
      /\ now \in Nat /\ AccountInv(account, now) /\ session[s].own \in Account
  BY Parts DEF Session
<1>2. /\ Visible(s) = IF holder = s THEN session[s].own ELSE account
      /\ AccountInv(Visible(s), now) /\ Visible(s) \in Account
      /\ KeepsDeductions(account, Visible(s))
  <2>1. CASE holder = s
    BY <1>1, <2>1, VisibleIs DEF SessionInv
  <2>2. CASE holder # s
    BY <1>1, <2>2, VisibleIs DEF KeepsDeductions
  <2> QED
    BY <2>1, <2>2, VisibleIs
<1>3. x \in Session /\ x.step = "locked" /\ x.base = account /\ x.own = Visible(s)
      /\ x.calls = session[s].calls
  BY <1>1, <1>2 DEF Session
<1>4. session' = [session EXCEPT ![s] = x]
  BY DEF Lock
<1>5. session'[s] = x
  BY <1>4, Parts
<1> HIDE DEF x
<1>6. session[s].calls # <<>>
  BY <1>1 DEF SessionInv, Lock
<1>7. Call(s).op = "refund" => x.own.deducted[Call(s).of] # NoLot
  BY <1>1, <1>3 DEF SessionInv, Lock
<1>8. Call(s)' = Call(s) /\ account' = account /\ now' = now /\ holder' = s
  BY <1>3, <1>5 DEF Call, Lock
<1>9. SessionInv(s)'
  BY <1>2, <1>3, <1>5, <1>6, <1>7, <1>8 DEF SessionInv
<1>10. opened /\ holder \in {Nobody, s}
  BY DEF Lock, MayLock
<1> QED
  BY <1>3, <1>4, <1>9, <1>10, OneSession DEF Lock

\* What an operation leaves is kept if it is a good account with the
\* deductions it found.
LEMMA SavedInv ==
  ASSUME TInv, NEW s \in Sessions, session[s].step = "locked",
         NEW own, AccountInv(own, now), KeepsDeductions(session[s].own, own),
         Saved(s, own)
  PROVE  TInv'
<1> DEFINE step == IF Tail(session[s].calls) = <<>> THEN "saved" ELSE "begun"
<1> DEFINE x == [session[s] EXCEPT !.step = step, !.calls = Tail(session[s].calls), !.own = own]
<1>1. /\ session[s] \in Session /\ SessionInv(s) /\ account \in Account
      /\ session[s].own \in Account /\ own \in Account
  BY Parts DEF Session, AccountInv
<1>2. /\ holder = s /\ session[s].base = account
      /\ KeepsDeductions(account, session[s].own)
      /\ session[s].calls \in CallLists /\ session[s].calls # <<>>
  BY <1>1 DEF SessionInv, Session
<1>3. Tail(session[s].calls) \in CallLists
  BY <1>2, CallShape
<1>4. KeepsDeductions(account, own)
  BY <1>2 DEF KeepsDeductions
<1>5. /\ x \in Session /\ x.base = account /\ x.own = own /\ x.step = step
      /\ x.calls = Tail(session[s].calls)
  BY <1>1, <1>2, <1>3 DEF Session
<1>6. session' = [session EXCEPT ![s] = x]
  BY DEF Saved
<1>7. session'[s] = x
  BY <1>6, Parts
<1>8. step = "begun" => x.calls # <<>>
  BY <1>5
<1>9. step \in {"begun", "saved"}
  OBVIOUS
<1> HIDE DEF x, step
<1>10. SessionInv(s)'
  BY <1>2, <1>4, <1>5, <1>7, <1>8, <1>9 DEF SessionInv, Saved
<1>11. ~opened => holder' = Nobody
  BY DEF TInv, Saved
<1> QED
  BY <1>5, <1>6, <1>10, <1>11, OneSession DEF Saved

-----------------------------------------------------------------------------
(* The aggregate's operations, under the lock.                             *)

\* What a session holds when it is about to run an operation.
LEMMA UnderLock ==
  ASSUME TInv, NEW s \in Sessions, session[s].step = "locked"
  PROVE  /\ now \in Nat /\ AccountInv(session[s].own, now)
         /\ Call(s) \in ChargeCalls \cup JobCalls("deduct") \cup JobCalls("refund")
         /\ Call(s).op = "refund" => session[s].own.deducted[Call(s).of] # NoLot
<1>1. SessionInv(s) /\ session[s] \in Session
  BY Parts
<1>2. session[s].calls \in CallLists /\ session[s].calls # <<>>
  BY <1>1 DEF SessionInv, Session
<1> QED
  BY <1>1, <1>2, CallShape, Parts DEF SessionInv, Call

\* A call that was made before changes nothing.
LEMMA AlreadyDoneInv == ASSUME TInv, NEW s \in Sessions, AlreadyDone(s) PROVE TInv'
<1>1. KeepsDeductions(session[s].own, session[s].own)
  BY DEF KeepsDeductions
<1> QED
  BY <1>1, UnderLock, SavedInv DEF AlreadyDone

\* A grant adds a lot to the account under the lock.
LEMMA CallChargeInv == ASSUME TInv, NEW s \in Sessions, CallCharge(s) PROVE TInv'
<1> DEFINE own == session[s].own
<1> DEFINE e == ExpireLots(own, now)
<1> DEFINE g == Call(s).of
<1>1. PICK granted_at \in 0..now :
        Saved(s, AddLot(e, g, Call(s).amount, granted_at + PASS_VALIDITY))
  BY DEF CallCharge
<1>2. /\ now \in Nat /\ AccountInv(own, now)
      /\ g \in Grants /\ Call(s).amount \in Amounts
  BY UnderLock DEF CallCharge, ChargeCalls, JobCalls
<1>3. own.granted[g] = 0
  BY <1>2, Numbers DEF CallCharge, Recorded, AccountInv, Account
<1>4. AccountInv(e, now) /\ e.granted = own.granted /\ e.deducted = own.deducted
  BY <1>2, ExpireKeeps
<1> HIDE DEF e, own, g
<1>5. /\ g \in Lots \ Jobs /\ Call(s).amount \in Int /\ granted_at + PASS_VALIDITY \in Nat
      /\ ChargeAccepted(Call(s).amount)
  <2>1. ChargeAccepted(Call(s).amount)
    BY DEF CallCharge
  <2>2. g \in Lots \ Jobs
    BY <1>2, Numbers
  <2>3. granted_at + PASS_VALIDITY \in Nat
    BY <1>2, Numbers
  <2> QED
    BY <1>2, <2>1, <2>2, <2>3, Numbers
<1> DEFINE b == AddLot(e, g, Call(s).amount, granted_at + PASS_VALIDITY)
<1>6. AccountInv(b, now)
  BY <1>2, <1>3, <1>4, <1>5, AddLotInv
<1>7. KeepsDeductions(own, b)
  <2>1. b.deducted = e.deducted
    BY <1>4 DEF AddLot, AccountInv, Account
  <2> QED
    BY <1>4, <2>1 DEF KeepsDeductions
<1> QED
  BY <1>1, <1>6, <1>7, SavedInv DEF CallCharge, own

\* A deduction pays from a lot of the account under the lock.
LEMMA CallDeductInv == ASSUME TInv, NEW s \in Sessions, CallDeduct(s) PROVE TInv'
<1> DEFINE own == session[s].own
<1> DEFINE e == ExpireLots(own, now)
<1> DEFINE j == Call(s).of
<1>1. PICK l \in EarliestPayable(own, now) : Saved(s, TakeUse(e, j, l))
  BY DEF CallDeduct
<1>2. now \in Nat /\ AccountInv(own, now) /\ j \in Jobs /\ own.deducted[j] = NoLot
  BY UnderLock DEF CallDeduct, ChargeCalls, JobCalls, Recorded
<1>3. /\ AccountInv(e, now) /\ e.deducted = own.deducted
      /\ l \in Payable(e, now)
  BY <1>2, ExpireKeeps DEF EarliestPayable
<1> HIDE DEF e, own, j
<1> DEFINE b == TakeUse(e, j, l)
<1>4. AccountInv(b, now)
  BY <1>2, <1>3, TakeUseInv
<1>5. KeepsDeductions(own, b)
  <2>1. e \in Account /\ e.deducted[j] = NoLot
    BY <1>2, <1>3 DEF AccountInv
  <2>2. \A i \in Jobs : i # j => b.deducted[i] = e.deducted[i]
    BY <2>1 DEF TakeUse, Account
  <2> QED
    BY <1>3, <2>1, <2>2 DEF KeepsDeductions
<1> QED
  BY <1>1, <1>4, <1>5, SavedInv DEF CallDeduct, own

\* A refund goes to the lot the session has found, or to a new one.
LEMMA CallRefundInv == ASSUME TInv, NEW s \in Sessions, CallRefund(s) PROVE TInv'
<1> DEFINE own == session[s].own
<1> DEFINE e == ExpireLots(own, now)
<1> DEFINE j == Call(s).of
<1>1. Saved(s, RefundOf(own, j, now))
  BY DEF CallRefund
<1>2. /\ now \in Nat /\ AccountInv(own, now) /\ j \in Jobs
      /\ own.deducted[j] # NoLot /\ own.refunded[j] = NoLot
  BY UnderLock DEF CallRefund, ChargeCalls, JobCalls, Recorded
<1>3. /\ AccountInv(e, now) /\ e.expires = own.expires
      /\ e.deducted = own.deducted /\ e.refunded = own.refunded
  BY <1>2, ExpireKeeps
<1> DEFINE b == RefundOf(own, j, now)
<1>4. CASE IsExpired(own, own.deducted[j], now)
  <2>1. b = Compensate(e, j, now)
    BY <1>4 DEF RefundOf
  <2> HIDE DEF e, own, j, b
  <2>2. AccountInv(b, now)
    BY <1>2, <1>3, <2>1, CompensateInv
  <2>3. b.deducted = own.deducted
    BY <1>3, <2>1 DEF Compensate, AccountInv, Account
  <2> QED
    BY <1>1, <2>2, <2>3, SavedInv DEF KeepsDeductions, CallRefund, own, b
<1>5. CASE ~IsExpired(own, own.deducted[j], now)
  <2>1. b = RestoreUse(e, j)
    BY <1>5 DEF RefundOf
  <2> HIDE DEF e, own, j, b
  <2>2. ~IsExpired(e, e.deducted[j], now)
    BY <1>3, <1>5 DEF IsExpired
  <2>3. AccountInv(b, now)
    BY <1>2, <1>3, <2>1, <2>2, RestoreUseInv
  <2>4. b.deducted = own.deducted
    BY <1>3, <2>1 DEF RestoreUse, AccountInv, Account
  <2> QED
    BY <1>1, <2>3, <2>4, SavedInv DEF KeepsDeductions, CallRefund, own, b
<1> QED
  BY <1>4, <1>5

-----------------------------------------------------------------------------
(* The ends of a transaction, the clock and the sign-up.                   *)

\* A session that is idle again.
LEMMA IdleFits ==
  ASSUME NEW s \in Sessions, session' = [session EXCEPT ![s] = Idle],
         session \in [Sessions -> Session], holder' # s
  PROVE  session' \in [Sessions -> Session] /\ SessionInv(s)'
<1>1. EmptyAccount \in Account
  BY EmptyInv DEF AccountInv
<1>2. Idle \in Session
  <2>1. <<>> \in CallLists
    BY DEF CallLists
  <2> QED
    BY <1>1, <2>1 DEF Idle, Fresh, Session
<1>3. session'[s] = Idle /\ session' \in [Sessions -> Session]
  BY <1>2
<1>4. Idle.step = "idle" /\ Idle.base = Idle.own
  BY DEF Idle, Fresh
<1> QED
  BY <1>3, <1>4 DEF SessionInv

\* The holder of the lock commits an account that adds up.
LEMMA CommitInv == ASSUME TInv, NEW s \in Sessions, Commit(s) PROVE TInv'
<1>1. SessionInv(s)
  BY Parts
<1>2. /\ holder = s /\ AccountInv(session[s].own, now) /\ account' = session[s].own
      /\ KeepsDeductions(account, account')
  BY <1>1, VisibleIs DEF SessionInv, Commit
<1>3. holder' = Nobody /\ session' = [session EXCEPT ![s] = Idle]
      /\ UNCHANGED <<now, opened>>
  BY <1>2 DEF Commit, End
<1>4. session' \in [Sessions -> Session] /\ SessionInv(s)'
  BY <1>3, Parts, IdleFits, SessionAssumption
<1>5. opened
  BY <1>2, SessionAssumption DEF TInv
<1>6. IInv' /\ account' \in Account
  BY <1>2, <1>3, <1>5, Parts DEF IInv, AccountInv, TInv
<1>7. ASSUME NEW t \in Sessions, t # s PROVE SessionInv(t)'
  <2>1. session'[t] = session[t]
    BY <1>3, <1>7, Parts
  <2>2. holder' # t /\ holder # t
    BY <1>2, <1>3, <1>7, SessionAssumption
  <2> QED
    BY <1>2, <1>3, <1>6, <2>1, <2>2, OthersKeep
<1> QED
  BY <1>3, <1>4, <1>6, <1>7 DEF TInv

\* What a session that fails had written was never seen by another.
LEMMA RollbackInv == ASSUME TInv, NEW s \in Sessions, Rollback(s) PROVE TInv'
<1>1. /\ session' = [session EXCEPT ![s] = Idle]
      /\ UNCHANGED <<now, opened, account>>
      /\ holder' = IF holder = s THEN Nobody ELSE holder
  BY DEF Rollback, End
<1>2. holder' # s
  BY <1>1, SessionAssumption
<1>3. session' \in [Sessions -> Session] /\ SessionInv(s)'
  BY <1>1, <1>2, Parts, IdleFits
<1>4. IInv' /\ account' \in Account /\ KeepsDeductions(account, account')
  BY <1>1, Parts DEF TInv, IInv, KeepsDeductions
<1>5. holder' \in Sessions \cup {Nobody} /\ (~opened' => holder' = Nobody)
  BY <1>1 DEF TInv
<1>6. ASSUME NEW t \in Sessions, t # s PROVE SessionInv(t)'
  <2>1. session'[t] = session[t]
    BY <1>1, <1>6, Parts
  <2>2. holder' = t <=> holder = t
    BY <1>1, <1>6, SessionAssumption
  <2> QED
    BY <1>1, <1>4, <2>1, <2>2, OthersKeep
<1> QED
  BY <1>3, <1>4, <1>5, <1>6 DEF TInv

\* Time passes, and accounts open, beside every transaction.
LEMMA ElsewhereInv ==
  ASSUME TInv, Elsewhere, UNCHANGED <<holder, session>>
  PROVE  TInv'
<1>1. IInv'
  BY NextInv DEF TInv, Elsewhere, Next
<1>2. /\ account' \in Account /\ KeepsDeductions(account, account')
      /\ now' \in {now, now + 1}
      /\ \A t \in Sessions : holder = t => account' = account
      /\ ~opened' => holder' = Nobody
  <2>1. CASE CreateAccount
    <3>1. account'.deducted = account.deducted
      BY <2>1, Parts DEF CreateAccount, AddLot, Account
    <3>2. holder = Nobody
      BY <2>1 DEF CreateAccount, TInv
    <3> QED
      BY <1>1, <2>1, <3>1, <3>2, SessionAssumption
      DEF CreateAccount, KeepsDeductions, IInv, AccountInv
  <2>2. CASE Tick
    BY <2>2, Parts DEF Tick, KeepsDeductions, TInv
  <2> QED
    BY <2>1, <2>2 DEF Elsewhere
<1>3. ASSUME NEW t \in Sessions PROVE SessionInv(t)'
  BY <1>2, <1>3, OthersKeep
<1> QED
  BY <1>1, <1>2, <1>3 DEF TInv

-----------------------------------------------------------------------------
(* The theorems                                                            *)

\* A new account, or one the migration gave its balance in one lot.
LEMMA TInitInv == TInit => TInv
<1> SUFFICES ASSUME TInit
             PROVE  TInv
  OBVIOUS
<1>1. AccountInv(account, now) /\ now = 0
  <2>1. CASE account = EmptyAccount
    BY <2>1, EmptyInv DEF TInit
  <2>2. CASE \E g \in Grants, balance \in {a \in Amounts : ChargeAccepted(a)} :
               account = AddLot(EmptyAccount, g, balance, PASS_VALIDITY)
    <3>1. PICK g \in Grants, balance \in {a \in Amounts : ChargeAccepted(a)} :
            account = AddLot(EmptyAccount, g, balance, PASS_VALIDITY)
      BY <2>2
    <3>2. g \in Lots \ Jobs /\ balance \in Int /\ PASS_VALIDITY \in Nat
      BY Numbers
    <3>3. EmptyAccount.granted[g] = 0
      BY <3>2 DEF EmptyAccount
    <3> QED
      BY <3>1, <3>2, <3>3, EmptyInv, AddLotInv DEF TInit
  <2> QED
    BY <2>1, <2>2 DEF TInit, Migrated
<1>2. IInv
  BY <1>1 DEF TInit, IInv
<1>3. \A s \in Sessions : session[s] = Idle /\ holder # s
  BY SessionAssumption DEF TInit
<1>4. Idle \in Session /\ Idle.step = "idle" /\ Idle.base = Idle.own
  <2>1. EmptyAccount \in Account /\ <<>> \in CallLists
    BY EmptyInv DEF AccountInv, CallLists
  <2> QED
    BY <2>1 DEF Idle, Fresh, Session
<1>5. session \in [Sessions -> Session]
  BY <1>4 DEF TInit
<1>6. \A s \in Sessions : SessionInv(s)
  BY <1>3, <1>4 DEF SessionInv
<1> QED
  BY <1>2, <1>5, <1>6 DEF TInv, TInit

\* Every step of every transaction keeps the invariant.
LEMMA TNextInv == TInv /\ [TNext]_tvars => TInv'
<1> SUFFICES ASSUME TInv, [TNext]_tvars
             PROVE  TInv'
  OBVIOUS
<1>1. CASE Elsewhere /\ UNCHANGED <<holder, session>>
  BY <1>1, ElsewhereInv
<1>2. ASSUME NEW s \in Sessions, SessionStep(s) PROVE TInv'
  <2>1. CASE Begin(s)
    BY <2>1, BeginInv
  <2>2. CASE FindDeduction(s)
    BY <2>2, FindInv
  <2>3. CASE Lock(s)
    BY <2>3, LockInv
  <2>4. CASE AlreadyDone(s)
    BY <2>4, AlreadyDoneInv
  <2>5. CASE CallCharge(s)
    BY <2>5, CallChargeInv
  <2>6. CASE CallDeduct(s)
    BY <2>6, CallDeductInv
  <2>7. CASE CallRefund(s)
    BY <2>7, CallRefundInv
  <2>8. CASE Commit(s)
    BY <2>8, CommitInv
  <2>9. CASE Rollback(s)
    BY <2>9, RollbackInv
  <2> QED
    BY <1>2, <2>1, <2>2, <2>3, <2>4, <2>5, <2>6, <2>7, <2>8, <2>9 DEF SessionStep
<1>3. CASE UNCHANGED tvars
  <2>1. \A s \in Sessions : Visible(s)' = Visible(s) /\ Call(s)' = Call(s)
    BY <1>3 DEF tvars, Visible, Call
  <2> QED
    BY <1>3, <2>1 DEF tvars, TInv, IInv, SessionInv
<1> QED
  BY <1>1, <1>2, <1>3 DEF TNext

\* The invariant of the sessions, the lock and the committed account.
THEOREM TransactionInvariant == TSpec => []TInv
  BY TInitInv, TNextInv, PTL DEF TSpec

\* However many transactions interleave, fail and commit, the committed rows
\* add up, and a refund under the lock never finds its lot missing or full.
THEOREM LedgerTheorem == TSpec => []LedgerHolds
<1>1. TInv => CommittedLedger
  BY DEF TInv, IInv, CommittedLedger
<1>2. ASSUME TInv PROVE RefundIsPossible
  <2> SUFFICES ASSUME NEW s \in Sessions, session[s].step = "locked",
                      Call(s).op = "refund", ~Recorded(session[s].own, Call(s))
               PROVE  RefundAccepted(session[s].own, Call(s).of, now)
    BY DEF RefundIsPossible
  <2>1. /\ now \in Nat /\ AccountInv(session[s].own, now) /\ Call(s).of \in Jobs
        /\ session[s].own.deducted[Call(s).of] # NoLot
        /\ session[s].own.refunded[Call(s).of] = NoLot
    BY <1>2, UnderLock DEF ChargeCalls, JobCalls, Recorded
  <2> QED
    BY <2>1, RefundFits
<1> QED
  BY <1>1, <1>2, TransactionInvariant, PTL DEF LedgerHolds

\* The unlocked check under concurrent transactions: at every moment the
\* committed lots that add up to enough hold one that can pay.
THEOREM EnoughInTransactionsTheorem == TSpec => []EnoughMeansPayable
<1>1. TInv => EnoughMeansPayable
  BY EnoughFits DEF TInv
<1> QED
  BY <1>1, TransactionInvariant, PTL

-----------------------------------------------------------------------------
(* The ledger only grows                                                   *)

\* Every DEDUCT, REFUND and EXPIRATION transaction and every lot of a is one
\* of b, with the lot it names, what it granted or took, and its expiration.
Extends(a, b) ==
  /\ \A j \in Jobs :
       /\ a.deducted[j] # NoLot => b.deducted[j] = a.deducted[j]
       /\ a.refunded[j] # NoLot => b.refunded[j] = a.refunded[j]
  /\ \A l \in Lots :
       /\ a.granted[l] > 0 => b.granted[l] = a.granted[l] /\ b.expires[l] = a.expires[l]
       /\ a.expired[l] > 0 => b.expired[l] = a.expired[l]

LedgerGrows == [][Extends(account, account')]_tvars

\* The holder of the lock, whatever calls it has made, takes nothing back.
HoldersExtend == \A s \in Sessions : holder = s => Extends(account, session[s].own)

LEMMA ExtendsItself == ASSUME NEW a PROVE Extends(a, a)
BY DEF Extends

LEMMA ExtendsOn ==
  ASSUME NEW a \in Account, NEW b \in Account, NEW c, Extends(a, b), Extends(b, c)
  PROVE  Extends(a, c)
<1>1. ASSUME NEW j \in Jobs
      PROVE  /\ a.deducted[j] # NoLot => c.deducted[j] = a.deducted[j]
             /\ a.refunded[j] # NoLot => c.refunded[j] = a.refunded[j]
  BY <1>1 DEF Extends
<1>2. ASSUME NEW l \in Lots
      PROVE  /\ a.granted[l] > 0 => c.granted[l] = a.granted[l] /\ c.expires[l] = a.expires[l]
             /\ a.expired[l] > 0 => c.expired[l] = a.expired[l]
  BY <1>2 DEF Extends
<1> QED
  BY <1>1, <1>2 DEF Extends

\* A lot expires once: one that has expired has nothing left to expire.
LEMMA ExpireExtends ==
  ASSUME NEW a, NEW t \in Nat, AccountInv(a, t)
  PROVE  Extends(a, ExpireLots(a, t))
<1> DEFINE e == ExpireLots(a, t)
<1>1. /\ e.expired = [l \in Lots |-> IF l \in Stale(a, t) THEN a.expired[l] + a.remaining[l]
                                     ELSE a.expired[l]]
      /\ e.granted = a.granted /\ e.expires = a.expires
      /\ e.deducted = a.deducted /\ e.refunded = a.refunded
  BY ExpireFields DEF AccountInv
<1>2. \A l \in Lots : a.expired[l] > 0 => l \notin Stale(a, t)
  BY DEF AccountInv, ExpiredOnce, Stale
<1> HIDE DEF e
<1>3. \A l \in Lots : a.expired[l] > 0 => e.expired[l] = a.expired[l]
  BY <1>1, <1>2
<1> QED
  BY <1>1, <1>3 DEF Extends, e

LEMMA LotExtends ==
  ASSUME NEW a \in Account, NEW l \in Lots, a.granted[l] = 0, NEW amount, NEW expiration
  PROVE  Extends(a, AddLot(a, l, amount, expiration))
BY DEF Extends, AddLot, Account

LEMMA UseExtends ==
  ASSUME NEW a \in Account, NEW j \in Jobs, a.deducted[j] = NoLot, NEW l
  PROVE  Extends(a, TakeUse(a, j, l))
BY DEF Extends, TakeUse, Account

LEMMA RestoreExtends ==
  ASSUME NEW a \in Account, NEW j \in Jobs, a.refunded[j] = NoLot
  PROVE  Extends(a, RestoreUse(a, j))
BY DEF Extends, RestoreUse, Account

LEMMA CompensateExtends ==
  ASSUME NEW a \in Account, NEW j \in Jobs, a.refunded[j] = NoLot, a.granted[j] = 0, NEW t
  PROVE  Extends(a, Compensate(a, j, t))
BY Numbers DEF Extends, Compensate, Account

\* What a call leaves of its session's copy.
LEMMA CallExtends ==
  ASSUME TInv, NEW s \in Sessions,
         AlreadyDone(s) \/ CallCharge(s) \/ CallDeduct(s) \/ CallRefund(s)
  PROVE  /\ holder = s /\ UNCHANGED <<account, holder>>
         /\ Extends(session[s].own, session'[s].own)
         /\ \A t \in Sessions \ {s} : session'[t] = session[t]
<1> DEFINE own == session[s].own
           e == ExpireLots(own, now)
           c == Call(s).of
<1>1. /\ session[s].step = "locked" /\ session \in [Sessions -> Session]
      /\ SessionInv(s) /\ UNCHANGED <<account, holder>>
  BY Parts DEF AlreadyDone, CallCharge, CallDeduct, CallRefund, Saved
<1>2. /\ holder = s /\ now \in Nat /\ AccountInv(own, now)
      /\ Call(s) \in ChargeCalls \cup JobCalls("deduct") \cup JobCalls("refund")
  BY <1>1, UnderLock DEF SessionInv
<1>3. /\ AccountInv(e, now) /\ Extends(own, e)
      /\ e.granted = own.granted /\ e.deducted = own.deducted /\ e.refunded = own.refunded
  BY <1>2, ExpireKeeps, ExpireExtends
<1>4. own \in Account /\ e \in Account
  BY <1>2, <1>3 DEF AccountInv
<1>5. ASSUME NEW b, Saved(s, b)
      PROVE  session'[s].own = b /\ \A t \in Sessions \ {s} : session'[t] = session[t]
  BY <1>1, <1>5 DEF Saved, Session
<1>6. CASE AlreadyDone(s)
  BY <1>1, <1>2, <1>5, <1>6, ExtendsItself DEF AlreadyDone
<1>7. CASE CallCharge(s)
  <2>1. PICK granted_at \in 0..now :
          Saved(s, AddLot(e, c, Call(s).amount, granted_at + PASS_VALIDITY))
    BY <1>7 DEF CallCharge
  <2>2. c \in Lots /\ own.granted[c] = 0
    BY <1>2, <1>4, <1>7, Numbers DEF CallCharge, Recorded, ChargeCalls, JobCalls, Account
  <2> HIDE DEF e, own, c
  <2>3. Extends(e, AddLot(e, c, Call(s).amount, granted_at + PASS_VALIDITY))
    BY <1>3, <1>4, <2>2, LotExtends
  <2> QED
    BY <1>1, <1>2, <1>3, <1>4, <1>5, <2>1, <2>3, ExtendsOn DEF own
<1>8. CASE CallDeduct(s)
  <2>1. PICK l \in EarliestPayable(own, now) : Saved(s, TakeUse(e, c, l))
    BY <1>8 DEF CallDeduct
  <2>2. c \in Jobs /\ own.deducted[c] = NoLot
    BY <1>2, <1>8 DEF CallDeduct, Recorded, ChargeCalls, JobCalls
  <2> HIDE DEF e, own, c
  <2>3. Extends(e, TakeUse(e, c, l))
    BY <1>3, <1>4, <2>2, UseExtends
  <2> QED
    BY <1>1, <1>2, <1>3, <1>4, <1>5, <2>1, <2>3, ExtendsOn DEF own
<1>9. CASE CallRefund(s)
  <2>1. Saved(s, RefundOf(own, c, now))
    BY <1>9 DEF CallRefund
  <2>2. c \in Jobs /\ own.refunded[c] = NoLot
    BY <1>2, <1>9 DEF CallRefund, Recorded, ChargeCalls, JobCalls
  <2>3. own.granted[c] = 0
    BY <1>2, <1>4, <2>2, Numbers DEF AccountInv, Provenance, Account
  <2>4. RefundOf(own, c, now) \in {Compensate(e, c, now), RestoreUse(e, c)}
    BY DEF RefundOf
  <2> DEFINE b == RefundOf(own, c, now)
  <2> HIDE DEF e, own, c, b
  <2>5. Extends(e, b)
    BY <1>3, <1>4, <2>2, <2>3, <2>4, RestoreExtends, CompensateExtends DEF b
  <2>6. Extends(own, b)
    BY <1>3, <1>4, <2>5, ExtendsOn
  <2> QED
    BY <1>1, <1>2, <1>5, <2>1, <2>6 DEF own, b
<1> QED
  BY <1>6, <1>7, <1>8, <1>9

\* Under the lock the copy keeps extending the committed rows, and what is
\* committed extends what was.
LEMMA HoldersStep ==
  ASSUME TInv, HoldersExtend, [TNext]_tvars
  PROVE  HoldersExtend' /\ Extends(account, account')
<1>1. session \in [Sessions -> Session] /\ account \in Account
  BY Parts
<1>2. CASE Elsewhere /\ UNCHANGED <<holder, session>>
  <2>1. CASE CreateAccount
    <3>1. holder = Nobody /\ account = EmptyAccount
      BY <2>1 DEF CreateAccount, TInv, IInv
    <3>2. account.granted[Welcome] = 0
      BY <3>1, Numbers DEF EmptyAccount
    <3>3. Extends(account, account')
      BY <1>1, <2>1, <3>2, Numbers, LotExtends DEF CreateAccount
    <3> QED
      BY <1>2, <3>1, <3>3, SessionAssumption DEF HoldersExtend
  <2>2. CASE Tick
    BY <1>2, <2>2, ExtendsItself DEF Tick, HoldersExtend
  <2> QED
    BY <1>2, <2>1, <2>2 DEF Elsewhere
<1>3. ASSUME NEW s \in Sessions, AlreadyDone(s) \/ CallCharge(s) \/ CallDeduct(s) \/ CallRefund(s)
      PROVE  HoldersExtend' /\ Extends(account, account')
  <2>1. /\ holder = s /\ UNCHANGED <<account, holder>>
        /\ Extends(session[s].own, session'[s].own)
    BY <1>3, CallExtends
  <2>2. session[s].own \in Account
    BY <1>1 DEF Session
  <2>3. Extends(account, session'[s].own)
    BY <1>1, <2>1, <2>2, ExtendsOn DEF HoldersExtend
  <2> QED
    BY <2>1, <2>3, ExtendsItself DEF HoldersExtend
<1>4. ASSUME NEW s \in Sessions, Lock(s)
      PROVE  HoldersExtend' /\ Extends(account, account')
  <2>1. /\ holder' = s /\ account' = account /\ session'[s].own = Visible(s)
        /\ holder \in {Nobody, s}
    BY <1>1, <1>4 DEF Lock, MayLock, Session
  <2>2. Extends(account, Visible(s))
    BY <2>1, VisibleIs, ExtendsItself DEF HoldersExtend
  <2> QED
    BY <2>1, <2>2, ExtendsItself DEF HoldersExtend
<1>5. ASSUME NEW s \in Sessions, Commit(s) \/ Rollback(s)
      PROVE  HoldersExtend' /\ Extends(account, account')
  <2>1. holder' # s /\ \A t \in Sessions : holder' = t =>
          holder = t /\ t # s /\ session'[t] = session[t]
    BY <1>1, <1>5, SessionAssumption DEF Commit, Rollback, End
  <2>2. Commit(s) => holder = s /\ account' = session[s].own
    BY Parts, VisibleIs DEF Commit, SessionInv
  <2>3. Rollback(s) => account' = account
    BY DEF Rollback
  <2>4. Extends(account, account')
    BY <1>5, <2>2, <2>3, ExtendsItself DEF HoldersExtend
  <2>5. \A t \in Sessions : holder' = t => account' = account
    BY <1>5, <2>1, <2>2, <2>3
  <2> QED
    BY <2>1, <2>4, <2>5 DEF HoldersExtend
<1>6. ASSUME NEW s \in Sessions, Begin(s) \/ FindDeduction(s)
      PROVE  HoldersExtend' /\ Extends(account, account')
  <2>1. UNCHANGED <<account, holder>> /\ \A t \in Sessions : holder = t => session'[t].own = session[t].own
    BY <1>1, <1>6, Parts DEF Begin, FindDeduction, SessionInv, Session
  <2> QED
    BY <2>1, ExtendsItself DEF HoldersExtend
<1>7. CASE UNCHANGED tvars
  BY <1>7, ExtendsItself DEF tvars, HoldersExtend
<1> QED
  BY <1>2, <1>3, <1>4, <1>5, <1>6, <1>7 DEF TNext, SessionStep

\* However transactions interleave, fail and commit, and though a commit writes
\* whatever differs from what its session has read: no commit undoes another's.
\* A job's use is deducted once, from one lot, and returned once; a lot keeps
\* what it granted and until when; it expires once.
THEOREM LedgerGrowsTheorem == TSpec => LedgerGrows
<1>1. TInit => HoldersExtend
  BY SessionAssumption DEF TInit, HoldersExtend
<1>2. TInv /\ HoldersExtend /\ [TNext]_tvars => HoldersExtend' /\ Extends(account, account')
  BY HoldersStep
<1> QED
  BY <1>1, <1>2, TransactionInvariant, PTL DEF TSpec, LedgerGrows

-----------------------------------------------------------------------------
(* The two ways MCCredit runs the account.                                 *)

\* Call by call the account keeps its invariant; the other way is a
\* behaviour of its own.
LEMMA CallsInvariant == MCSpec => [](~stepwise => IInv)
<1> DEFINE Inv == ~stepwise => IInv
<1>1. MCInit => Inv
  BY InitInv DEF MCInit
<1>2. Inv /\ [MCNext]_<<tvars, stepwise>> => Inv'
  <2> SUFFICES ASSUME Inv, [MCNext]_<<tvars, stepwise>>, ~stepwise'
               PROVE  IInv'
    OBVIOUS
  <2>1. CASE ~stepwise /\ Next
    BY <2>1, NextInv
  <2>2. CASE UNCHANGED <<tvars, stepwise>>
    <3>1. UNCHANGED vars /\ ~stepwise
      BY <2>2 DEF tvars, vars
    <3> QED
      BY <3>1, NextInv
  <2> QED
    BY <2>1, <2>2 DEF MCNext
<1> QED
  BY <1>1, <1>2, PTL DEF MCSpec

\* No call pays from, refunds into or grants over a lot that has expired.
THEOREM ExpiredTheorem == MCSpec => ExpiredLotsAreDead
<1>1. (~stepwise => IInv) /\ [MCNext]_<<tvars, stepwise>> => [~stepwise => DeadLotsStayDead]_vars
  BY DeadStep DEF MCNext, tvars, vars
<1> QED
  BY <1>1, CallsInvariant, PTL DEF MCSpec, ExpiredLotsAreDead

\* No call refunds a job into a lot that could not pay for another.
THEOREM RefundUsableTheorem == MCSpec => RefundIsUsable
<1>1. (~stepwise => IInv) /\ [MCNext]_<<tvars, stepwise>> => [~stepwise => RefundedIsPayable]_vars
  BY RefundPays DEF MCNext, tvars, vars
<1> QED
  BY <1>1, CallsInvariant, PTL DEF MCSpec, RefundIsUsable
=============================================================================

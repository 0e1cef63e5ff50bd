---------------------------- MODULE CreditAccount ----------------------------
(***************************************************************************)
(* One user's GIF-composition credit: the account row, its lots and its    *)
(* ledger of transactions (credit_account/domain/aggregates).  Every       *)
(* operation runs under the lock of the account row from its first read to *)
(* its commit, so one operation is one step.                               *)
(*                                                                         *)
(* A lot is named by what granted it, the unique pair (source_type,        *)
(* source_id): a payment, survey, daily or administrator grant, the        *)
(* welcome grant, or the composition a compensation lot replaces.          *)
(***************************************************************************)
EXTENDS Integers, FiniteSets

CONSTANTS
  Jobs,                   \* compositions this user may request
  Grants,                 \* payments, survey answers, reward days, admin audits
  Welcome,                \* the lot of the welcome credit
  NoLot,                  \* "no transaction of this kind yet"
  Amounts,                \* the amounts callers of charge() ask for
  COMPOSITION_COST, WELCOME_CREDIT, PASS_VALIDITY, COMPENSATION_VALIDITY,
  MaxTime                 \* bound of the clock

Lots == Jobs \cup Grants \cup {Welcome}

ASSUME CreditAssumption ==
  /\ IsFiniteSet(Jobs) /\ IsFiniteSet(Grants)
  /\ Jobs \cap Grants = {} /\ Welcome \notin Jobs \cup Grants
  /\ NoLot \notin Lots
  /\ Amounts \subseteq Int
  /\ COMPOSITION_COST \in Nat \ {0}
  /\ WELCOME_CREDIT \in Nat \ {0} /\ WELCOME_CREDIT % COMPOSITION_COST = 0
  /\ PASS_VALIDITY \in Nat \ {0} /\ COMPENSATION_VALIDITY \in Nat \ {0}
  /\ MaxTime \in Nat

VARIABLES
  now,      \* the database and application clock
  opened,   \* the account row exists
  account   \* the account, its lots and its transactions, as committed

vars == <<now, opened, account>>

(***************************************************************************)
(* granted, remaining, expires: the columns of credit_lots; a lot with     *)
(* granted = 0 has no row.  deducted and refunded: credit_lot_id of the    *)
(* job's DEDUCT and REFUND transaction.  expired: what EXPIRATION          *)
(* transactions took from the lot.  A CHARGE transaction exists exactly    *)
(* when the granted lot does.                                              *)
(***************************************************************************)
Account ==
  [ balance : Int,
    granted : [Lots -> Nat], remaining : [Lots -> Nat], expires : [Lots -> Nat],
    deducted : [Jobs -> Lots \cup {NoLot}],
    refunded : [Jobs -> Lots \cup {NoLot}],
    expired : [Lots -> Nat] ]

EmptyAccount ==
  [ balance |-> 0,
    granted |-> [l \in Lots |-> 0],
    remaining |-> [l \in Lots |-> 0],
    expires |-> [l \in Lots |-> 0],
    deducted |-> [j \in Jobs |-> NoLot],
    refunded |-> [j \in Jobs |-> NoLot],
    expired |-> [l \in Lots |-> 0] ]

(***************************************************************************)
(* Sums.  Units(f, S) has one element for every unit of credit f gives to  *)
(* a lot of S, so its cardinality is the sum of f over S, in a form the    *)
(* proofs can reason about with the theorems on finite sets.               *)
(***************************************************************************)
Units(f, S) == UNION {{l} \X (1..f[l]) : l \in S}
SumOver(f, S) == Cardinality(Units(f, S))

-----------------------------------------------------------------------------
(* The aggregate's operations, as functions of the account.                *)

\* Mutant: the lot a refund names is not asked for.
Loaded_OnlyWithCredit(a, required) ==
  {l \in Lots : a.granted[l] > 0 /\ a.remaining[l] > 0}

\* The lots find_for_update loads: those with credit left, and a named one.
Loaded(a, required) ==
  {l \in Lots : a.granted[l] > 0 /\ (a.remaining[l] > 0 \/ l = required)}

IsExpired(a, l, t) == a.expires[l] <= t

Stale(a, t) == {l \in Lots : a.remaining[l] # 0 /\ IsExpired(a, l, t)}

\* Mutant: the account balance keeps what expired.
ExpireLots_KeepsBalance(a, t) ==
  [a EXCEPT
     !.remaining = [l \in Lots |-> IF l \in Stale(a, t) THEN 0 ELSE a.remaining[l]],
     !.expired = [l \in Lots |-> IF l \in Stale(a, t) THEN a.expired[l] + a.remaining[l]
                                                      ELSE a.expired[l]]]

ExpireLots(a, t) ==
  [a EXCEPT
     !.balance = @ - SumOver(a.remaining, Stale(a, t)),
     !.remaining = [l \in Lots |-> IF l \in Stale(a, t) THEN 0 ELSE a.remaining[l]],
     !.expired = [l \in Lots |-> IF l \in Stale(a, t) THEN a.expired[l] + a.remaining[l]
                                                      ELSE a.expired[l]]]

\* Mutant: what is left in a lot is not asked for.
Payable_AnyLot(a, t) == {l \in Lots : a.granted[l] > 0 /\ ~IsExpired(a, l, t)}

\* The lots a composition can be paid from, and the one deduct() takes.
Payable(a, t) ==
  {l \in Loaded(a, NoLot) : ~IsExpired(a, l, t) /\ a.remaining[l] >= COMPOSITION_COST}

EarliestPayable(a, t) ==
  {l \in Payable(a, t) : \A m \in Payable(a, t) : a.expires[l] <= a.expires[m]}

TakeUse(a, j, l) ==
  [a EXCEPT
     !.balance = @ - COMPOSITION_COST,
     !.remaining[l] = @ - COMPOSITION_COST,
     !.deducted[j] = l]

\* refund() onto a lot that is still valid, or onto a new compensation lot.
RestoreUse(a, j) ==
  [a EXCEPT
     !.balance = @ + COMPOSITION_COST,
     !.remaining[a.deducted[j]] = @ + COMPOSITION_COST,
     !.refunded[j] = a.deducted[j]]

\* Mutant: the compensation lot inherits the original lot's expiration.
Compensate_OldExpiry(a, j, t) ==
  [a EXCEPT
     !.balance = @ + COMPOSITION_COST,
     !.granted[j] = COMPOSITION_COST,
     !.remaining[j] = COMPOSITION_COST,
     !.expires[j] = a.expires[a.deducted[j]],
     !.refunded[j] = j]

Compensate(a, j, t) ==
  [a EXCEPT
     !.balance = @ + COMPOSITION_COST,
     !.granted[j] = COMPOSITION_COST,
     !.remaining[j] = COMPOSITION_COST,
     !.expires[j] = t + COMPENSATION_VALIDITY,
     !.refunded[j] = j]

\* Mutant: any positive amount is granted.
ChargeAccepted_AnyPositive(amount) == amount > 0

ChargeAccepted(amount) == amount > 0 /\ amount % COMPOSITION_COST = 0

AddLot(a, l, amount, expiration) ==
  [a EXCEPT
     !.balance = @ + amount,
     !.granted[l] = amount,
     !.remaining[l] = amount,
     !.expires[l] = expiration]

\* What refund() demands of the original lot (the two InvalidState errors).
RefundAccepted(a, j, t) ==
  /\ a.deducted[j] \in Loaded(a, a.deducted[j])
  /\ \/ IsExpired(a, a.deducted[j], t)
     \/ a.remaining[a.deducted[j]] + COMPOSITION_COST <= a.granted[a.deducted[j]]

\* Mutant: the use goes back to the original lot, expired or not.
RefundOf_IgnoresExpiry(a, j, t) == RestoreUse(ExpireLots(a, t), j)

RefundOf(a, j, t) ==
  LET e == ExpireLots(a, t) IN
  IF IsExpired(a, a.deducted[j], t) THEN Compensate(e, j, t) ELSE RestoreUse(e, j)

\* What find_available_summary_by_user_id adds up, without any lock.
Available(a, t) == SumOver(a.remaining, {l \in Lots : ~IsExpired(a, l, t)})
HasEnoughCredit(a, t) == Available(a, t) >= COMPOSITION_COST

\* The uses a user is shown to have left.
RemainingUses(a, t) == Available(a, t) \div COMPOSITION_COST

-----------------------------------------------------------------------------
Init ==
  /\ now = 0
  /\ opened = FALSE
  /\ account = EmptyAccount

CreateAccount ==
  /\ ~opened
  /\ opened' = TRUE
  /\ account' = AddLot(account, Welcome, WELCOME_CREDIT, now + PASS_VALIDITY)
  /\ UNCHANGED now

\* The grant services: a grant already recorded changes nothing, and the
\* grant may carry a time that has passed (approved_at, requested_at).
Charge(g) ==
  /\ opened
  /\ account.granted[g] = 0
  /\ \E amount \in Amounts, granted_at \in 0..now :
       /\ ChargeAccepted(amount)
       /\ account' = AddLot(ExpireLots(account, now), g, amount, granted_at + PASS_VALIDITY)
  /\ UNCHANGED <<now, opened>>

Deduct(j) ==
  /\ opened
  /\ account.deducted[j] = NoLot
  /\ \E l \in EarliestPayable(account, now) :
       account' = TakeUse(ExpireLots(account, now), j, l)
  /\ UNCHANGED <<now, opened>>

\* Mutant: an earlier REFUND transaction of the job is not looked for.
Refund_NotIdempotent(j) ==
  /\ opened
  /\ account.deducted[j] # NoLot
  /\ RefundAccepted(account, j, now)
  /\ account' = RefundOf(account, j, now)
  /\ UNCHANGED <<now, opened>>

Refund(j) ==
  /\ opened
  /\ account.deducted[j] # NoLot
  /\ account.refunded[j] = NoLot
  /\ RefundAccepted(account, j, now)
  /\ account' = RefundOf(account, j, now)
  /\ UNCHANGED <<now, opened>>

Tick ==
  /\ now < MaxTime
  /\ now' = now + 1
  /\ UNCHANGED <<opened, account>>

Next ==
  \/ CreateAccount
  \/ \E g \in Grants : Charge(g)
  \/ \E j \in Jobs : Deduct(j)
  \/ \E j \in Jobs : Refund(j)
  \/ Tick

Spec == Init /\ [][Next]_vars

-----------------------------------------------------------------------------
(* Properties                                                              *)

\* No column of the account leaves its range; a lot never goes below zero.
TypeOK ==
  /\ now \in Nat
  /\ opened \in BOOLEAN
  /\ account \in Account

\* The balance cached in credit_accounts is the sum of the lots' remaining
\* credit after every mix of charges, deductions, refunds and expirations.
Balanced(a) == a.balance = SumOver(a.remaining, Lots)
BalanceIsSumOfLots == Balanced(account)

\* Nothing is lost or made up in a lot: what it granted is what is left, what
\* expired, and one use for every job it paid for that was not put back.
Spent(a, l) == {j \in Jobs : a.deducted[j] = l /\ a.refunded[j] # l}
Accounted(a) ==
  \A l \in Lots :
    a.granted[l] = a.remaining[l] + a.expired[l] + COMPOSITION_COST * Cardinality(Spent(a, l))
LotAccounting == Accounted(account)

\* refund() can never answer a failed composition with InvalidState: the lot
\* it was paid from is loaded and has room for the use, or has expired.
RefundAlwaysHonoured ==
  \A j \in Jobs :
    account.deducted[j] # NoLot /\ account.refunded[j] = NoLot
      => RefundAccepted(account, j, now)

\* The unlocked check has_enough_credit adds lots up, deduct() needs one lot
\* that covers the whole cost: the sum is never enough without such a lot, and
\* every use a user is shown is a use of such a lot.
EnoughMeansPayable ==
  opened =>
    /\ HasEnoughCredit(account, now) => Payable(account, now) # {}
    /\ RemainingUses(account, now)
         = SumOver([l \in Lots |-> account.remaining[l] \div COMPOSITION_COST], Payable(account, now))

\* What a call may do to a lot that has expired, and what a refund leaves.
OnlyEmptied(l) ==
  \/ /\ account'.remaining[l] = account.remaining[l]
     /\ account'.expired[l] = account.expired[l]
  \/ /\ account'.remaining[l] = 0
     /\ account.expired[l] = 0
     /\ account'.expired[l] = account.remaining[l]

DeadLotsStayDead == \A l \in Lots : account.granted[l] > 0 /\ IsExpired(account, l, now) => OnlyEmptied(l)

RefundedIsPayable ==
  \A j \in Jobs : account'.refunded[j] # account.refunded[j] => Payable(account', now) # {}

-----------------------------------------------------------------------------
(* The inductive invariant: the balance and the lots' accounting, and what *)
(* they rest on.                                                           *)

\* A deduction names a lot that exists; its refund the same lot, or the lot
\* the refund itself created.
Provenance(a) ==
  \A j \in Jobs :
    /\ a.deducted[j] = NoLot => a.refunded[j] = NoLot
    /\ a.deducted[j] # NoLot => a.granted[a.deducted[j]] > 0
    /\ a.deducted[j] # j
    /\ a.refunded[j] \in {NoLot, a.deducted[j], j}
    /\ a.granted[j] > 0 <=> a.refunded[j] = j

\* Every lot was granted a whole number of compositions.
WholeUses(a) == \A l \in Lots : a.granted[l] % COMPOSITION_COST = 0

\* A lot expires with nothing left, and only once its time has come.
ExpiredOnce(a, t) ==
  \A l \in Lots : a.expired[l] > 0 => a.remaining[l] = 0 /\ IsExpired(a, l, t)

AccountInv(a, t) ==
  /\ a \in Account
  /\ Balanced(a)
  /\ Accounted(a)
  /\ Provenance(a)
  /\ WholeUses(a)
  /\ ExpiredOnce(a, t)

\* What every state of the account satisfies, and every step keeps.
IInv ==
  /\ now \in Nat
  /\ opened \in BOOLEAN
  /\ AccountInv(account, now)
  /\ ~opened => account = EmptyAccount
=============================================================================

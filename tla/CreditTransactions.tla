-------------------------- MODULE CreditTransactions --------------------------
(***************************************************************************)
(* The account of CreditAccount as concurrent database transactions change *)
(* it (sqlalchemy_async_credit_account_repository.py).  A transaction may  *)
(* make several calls, each with reads before and after it locks the row   *)
(* of the account; it reads the clock under the lock and commits later, or *)
(* fails anywhere.  Nobody else sees its rows before it commits.           *)
(***************************************************************************)
EXTENDS CreditAccount, Sequences

CONSTANTS
  Sessions,  \* database sessions, one transaction at a time each
  Nobody     \* the lock of the account row is free

ASSUME SessionAssumption == Nobody \notin Sessions

VARIABLES
  holder,    \* of the lock of the row in credit_accounts, and so of its lots
  session    \* the transactions

tvars == <<now, opened, account, holder, session>>

\* base: the rows as they were when the lock was taken; own: as the session
\* left them.  What differs is what it wrote.
Fresh(step, calls) ==
  [step |-> step, calls |-> calls, base |-> EmptyAccount, own |-> EmptyAccount]

Idle == Fresh("idle", <<>>)

ChargeCalls == [op : {"charge"}, of : Grants, amount : Amounts]
JobCalls(op) == [op : {op}, of : Jobs]

\* The services call once; a request for a composition first refunds the
\* composition it finds stale.
Plans ==
  {<<c>> : c \in ChargeCalls \cup JobCalls("deduct") \cup JobCalls("refund")}
    \cup {<<r, d>> : r \in JobCalls("refund"), d \in JobCalls("deduct")}

\* save() writes the balance, the lots it changed and what it added.
Written(rows, base, own) == [x \in DOMAIN rows |-> IF own[x] # base[x] THEN own[x] ELSE rows[x]]

Save(rows, base, own) ==
  [ balance   |-> IF own.balance # base.balance THEN own.balance ELSE rows.balance,
    granted   |-> Written(rows.granted, base.granted, own.granted),
    remaining |-> Written(rows.remaining, base.remaining, own.remaining),
    expires   |-> Written(rows.expires, base.expires, own.expires),
    deducted  |-> Written(rows.deducted, base.deducted, own.deducted),
    refunded  |-> Written(rows.refunded, base.refunded, own.refunded),
    expired   |-> Written(rows.expired, base.expired, own.expired) ]

\* What a session reads: what is committed, and what it wrote itself.
Visible(s) == Save(account, session[s].base, session[s].own)

Call(s) == Head(session[s].calls)

\* find_transaction_by_source: the call was made before.
Recorded(a, call) ==
  CASE call.op = "charge" -> a.granted[call.of] > 0
    [] call.op = "deduct" -> a.deducted[call.of] # NoLot
    [] call.op = "refund" -> a.refunded[call.of] # NoLot

-----------------------------------------------------------------------------
\* An account from before there were lots has its balance in one lot that the
\* migration granted, or has none.
Migrated ==
  \/ account = EmptyAccount
  \/ \E g \in Grants, balance \in {a \in Amounts : ChargeAccepted(a)} :
       account = AddLot(EmptyAccount, g, balance, PASS_VALIDITY)

TInit ==
  /\ now = 0
  /\ opened \in BOOLEAN
  /\ IF opened THEN Migrated ELSE account = EmptyAccount
  /\ holder = Nobody
  /\ session = [s \in Sessions |-> Idle]

Begin(s) ==
  /\ session[s].step = "idle"
  /\ \E calls \in Plans : session' = [session EXCEPT ![s] = Fresh("begun", calls)]
  /\ UNCHANGED <<now, opened, account, holder>>

\* A refund looks for the deduction, whose lot it will need, before it locks.
FindDeduction(s) ==
  /\ session[s].step = "begun" /\ Call(s).op = "refund"
  /\ Visible(s).deducted[Call(s).of] # NoLot
  /\ session' = [session EXCEPT ![s].step = "found"]
  /\ UNCHANGED <<now, opened, account, holder>>

\* Mutant: the account is read without FOR UPDATE.
MayLock_Always(s) == TRUE

MayLock(s) == holder \in {Nobody, s}

\* find_for_update.
Lock(s) ==
  /\ opened
  /\ \/ session[s].step = "begun" /\ Call(s).op # "refund"
     \/ session[s].step = "found"
  /\ MayLock(s)
  /\ holder' = s
  /\ session' = [session EXCEPT ![s] = [session[s] EXCEPT !.step = "locked", !.base = account, !.own = Visible(s)]]
  /\ UNCHANGED <<now, opened, account>>

\* The aggregate's operation, at the time the clock shows now, and save().
\* What the call before it left is kept.
Saved(s, own) ==
  /\ session' = [session EXCEPT ![s] =
       [session[s] EXCEPT
          !.step = IF Tail(session[s].calls) = <<>> THEN "saved" ELSE "begun",
          !.calls = Tail(session[s].calls), !.own = own]]
  /\ UNCHANGED <<now, opened, account, holder>>

AlreadyDone(s) ==
  /\ session[s].step = "locked"
  /\ Recorded(session[s].own, Call(s))
  /\ Saved(s, session[s].own)

CallCharge(s) ==
  /\ session[s].step = "locked" /\ Call(s).op = "charge"
  /\ ~Recorded(session[s].own, Call(s))
  /\ ChargeAccepted(Call(s).amount)
  /\ \E granted_at \in 0..now :
       Saved(s, AddLot(ExpireLots(session[s].own, now), Call(s).of, Call(s).amount,
                       granted_at + PASS_VALIDITY))

CallDeduct(s) ==
  /\ session[s].step = "locked" /\ Call(s).op = "deduct"
  /\ ~Recorded(session[s].own, Call(s))
  /\ \E l \in EarliestPayable(session[s].own, now) :
       Saved(s, TakeUse(ExpireLots(session[s].own, now), Call(s).of, l))

CallRefund(s) ==
  /\ session[s].step = "locked" /\ Call(s).op = "refund"
  /\ ~Recorded(session[s].own, Call(s))
  /\ RefundAccepted(session[s].own, Call(s).of, now)
  /\ Saved(s, RefundOf(session[s].own, Call(s).of, now))

End(s) ==
  /\ holder' = IF holder = s THEN Nobody ELSE holder
  /\ session' = [session EXCEPT ![s] = Idle]
  /\ UNCHANGED <<now, opened>>

Commit(s) ==
  /\ session[s].step = "saved"
  /\ account' = Visible(s)
  /\ End(s)

\* Any exception, a lost connection, or the end of the process.
Rollback(s) ==
  /\ session[s].step # "idle"
  /\ UNCHANGED account
  /\ End(s)

SessionStep(s) ==
  \/ Begin(s) \/ FindDeduction(s) \/ Lock(s)
  \/ AlreadyDone(s) \/ CallCharge(s) \/ CallDeduct(s) \/ CallRefund(s)
  \/ Commit(s) \/ Rollback(s)

Elsewhere == CreateAccount \/ Tick

TNext ==
  \/ Elsewhere /\ UNCHANGED <<holder, session>>
  \/ \E s \in Sessions : SessionStep(s)

TSpec == TInit /\ [][TNext]_tvars

-----------------------------------------------------------------------------
(* Properties                                                              *)

\* However transactions interleave, fail and commit, the committed rows add
\* up: the balance is what the lots have left, every lot accounts for what it
\* granted, nothing was refunded twice.
CommittedLedger == AccountInv(account, now)

\* A refund under the lock never finds its lot missing or full, though it
\* looked for its deduction before, and whatever its transaction did already.
RefundIsPossible ==
  \A s \in Sessions :
    session[s].step = "locked" /\ Call(s).op = "refund" /\ ~Recorded(session[s].own, Call(s))
      => RefundAccepted(session[s].own, Call(s).of, now)

LedgerHolds == CommittedLedger /\ RefundIsPossible

-----------------------------------------------------------------------------
(* The inductive invariant: who holds the lock has an account of its own   *)
(* that adds up and only adds to the committed rows; who does not has      *)
(* written nothing.                                                        *)

CallLists == Plans \cup {<<d>> : d \in JobCalls("deduct")} \cup {<<>>}

Session ==
  [ step : {"idle", "begun", "found", "locked", "saved"},
    calls : CallLists, base : Account, own : Account ]

\* No deduction is ever taken out of the ledger.
KeepsDeductions(a, b) == \A j \in Jobs : a.deducted[j] # NoLot => b.deducted[j] # NoLot

SessionInv(s) ==
  /\ session[s].step \in {"begun", "found", "locked"} => session[s].calls # <<>>
  /\ session[s].step = "idle" => holder # s
  /\ session[s].step \in {"locked", "saved"} => holder = s
  /\ holder = s =>
       /\ session[s].base = account
       /\ AccountInv(session[s].own, now)
       /\ KeepsDeductions(account, session[s].own)
  /\ holder # s => session[s].base = session[s].own
  /\ session[s].step = "found" => Call(s).op = "refund"
  /\ session[s].step = "found" => Visible(s).deducted[Call(s).of] # NoLot
  /\ session[s].step = "locked" /\ Call(s).op = "refund"
       => session[s].own.deducted[Call(s).of] # NoLot

TInv ==
  /\ IInv
  /\ holder \in Sessions \cup {Nobody}
  /\ ~opened => holder = Nobody
  /\ session \in [Sessions -> Session]
  /\ \A s \in Sessions : SessionInv(s)
=============================================================================

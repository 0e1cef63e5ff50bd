-------------------------- MODULE PaymentProcessing --------------------------
(***************************************************************************)
(* Orders, their payments and the credit they grant.  A payment is         *)
(* confirmed by the browser, by webhooks and callbacks of the provider and *)
(* by an administrator's recheck; an administrator may also grant credit   *)
(* by hand.  Each request runs in a session of its own: its first reads    *)
(* take no lock and are old when it acts on them, the provider is asked in *)
(* between, and the rows it then writes are locked one after the other     *)
(* until its commit.                                                       *)
(***************************************************************************)
EXTENDS Naturals, FiniteSets

CONSTANTS
  KgOrders,       \* orders of this program, paid with KG INICIS by PortOne
  TossOrders,     \* rows of earlier versions, paid with Toss Pay
  DueOrders,      \* of these, approved ones whose credit is missing
  Txns,           \* transaction ids of a provider
  Keys,           \* idempotency keys of administrators
  Requests,       \* requests running at a time
  NoRow, NoSale, NoTxn, NoOrder, NoKey, Nobody,
  Account         \* the one credit account all orders belong to

Orders == KgOrders \cup TossOrders

VARIABLES
  payments,   \* table payments, as committed
  inbox,      \* table payment_inbox, unique by provider and event
  charges,    \* CHARGE transactions of source PAYMENT, per order
  audits,     \* audit rows of grants, unique by idempotency key
  bonuses,    \* CHARGE transactions of source ADMIN, per key of their audit
  sale,       \* what the providers say of each order
  expected,   \* the environment this deployment accepts of PortOne
  lock,       \* the row locks
  request     \* the requests and what they have read and not yet committed

vars == <<payments, inbox, charges, audits, bonuses, sale, expected, lock, request>>

provider(o) == IF o \in TossOrders THEN "TOSS_PAY" ELSE "KG_INICIS"

Events == {"TOSS_PAY", "KG_INICIS"} \X Txns
Locks == Orders \cup Events \cup {Account}

\* The columns of a payment that decide anything.
Payment == [status : {"READY", "APPROVED"}, environment : {"UNKNOWN", "TEST", "LIVE"},
            txn : Txns \cup {NoTxn}, credit_granted : BOOLEAN]
InboxRow == [order : Orders, status : {"RECEIVED", "PROCESSED"}]
Sale == [txn : Txns, environment : {"TEST", "LIVE"}, exact : BOOLEAN]
Audit == [order : Orders \cup {NoOrder}]

\* A session: the handler's position and kind, its command, the provider's
\* answer, the payment it holds in memory and the charge it has not committed.
Session == [step : {"idle", "asking", "acquiring", "locking", "crediting", "updating", "saving"},
            kind : {"none", "confirm", "callback", "recheck", "grant"},
            order : Orders \cup {NoOrder}, txn : Txns \cup {NoTxn}, key : Keys \cup {NoKey},
            sale : Sale \cup {NoSale}, row : Payment \cup {NoRow}, charge : BOOLEAN]

Idle == [step |-> "idle", kind |-> "none", order |-> NoOrder, txn |-> NoTxn, key |-> NoKey,
         sale |-> NoSale, row |-> NoRow, charge |-> FALSE]

ASSUME PaymentAssumption ==
  /\ KgOrders \cap TossOrders = {} /\ DueOrders \subseteq TossOrders
  /\ NoOrder \notin Orders /\ NoTxn \notin Txns /\ NoKey \notin Keys
  /\ NoRow \notin Payment \cup InboxRow \cup Audit /\ NoSale \notin Sale
  /\ Nobody \notin Requests
  /\ Orders \cap Events = {} /\ Account \notin Orders \cup Events

-----------------------------------------------------------------------------
(* The aggregate Payment.                                                  *)

NewPayment == [status |-> "READY", environment |-> "UNKNOWN", txn |-> NoTxn,
               credit_granted |-> FALSE]
DuePayment == [NewPayment EXCEPT !.status = "APPROVED", !.environment = "LIVE"]

validate_approval(verified) == verified.exact

MayAssignEnvironment(p, environment) == p.environment \in {"UNKNOWN", environment}

\* Mutant: another transaction of the same order takes over.
MayAssignTxn_Any(p, txn) == TRUE
MayAssignTxn(p, txn) == p.txn \in {NoTxn, txn}

MayApprove(p) == p.status \in {"READY", "APPROVED"}

approve(p, environment, txn) ==
  [p EXCEPT !.environment = environment, !.txn = txn, !.status = "APPROVED"]

\* Mutant: a payment is credited only if it was not approved before.
can_grant_credit_Ready(p) ==
  p.status = "READY" /\ p.environment = "LIVE" /\ ~p.credit_granted

\* Mutant: test payments are credited as well.
can_grant_credit_Test(p) == p.status = "APPROVED" /\ ~p.credit_granted

can_grant_credit(p) ==
  p.status = "APPROVED" /\ p.environment = "LIVE" /\ ~p.credit_granted

\* Mutant: the time of the grant is not kept.
mark_credit_granted_Forgets(p) == p

mark_credit_granted(p) == [p EXCEPT !.credit_granted = TRUE]

-----------------------------------------------------------------------------
(* Sessions and locks.                                                     *)

event(w) == <<provider(request[w].order), request[w].sale.txn>>

\* The lock a session needs for its next step, if it needs one.
Wanted(w) ==
  CASE request[w].step = "acquiring" -> {event(w)}
    [] request[w].step = "locking"   -> {request[w].order}
    [] request[w].step = "updating"  -> {request[w].order}
    [] request[w].step = "crediting" -> {Account}
    [] OTHER -> {}

Ready(w, step) ==
  request[w].step = step /\ \A l \in Wanted(w) : lock[l] = Nobody

Waits(w, v) == v # w /\ \E l \in Wanted(w) : lock[l] = v

Lock(w, l) == lock' = [lock EXCEPT ![l] = w]
\* Mutant: the payment is read without its lock.
LockRow_None(w, o) == UNCHANGED lock
LockRow(w, o) == Lock(w, o)

\* Mutant: the end of a session leaves its locks behind.
End_KeepsLocks(w) ==
  /\ request' = [request EXCEPT ![w] = Idle]
  /\ UNCHANGED lock

\* Commit or rollback: the session ends, its locks are released.
End(w) ==
  /\ request' = [request EXCEPT ![w] = Idle]
  /\ lock' = [l \in Locks |-> IF lock[l] = w THEN Nobody ELSE lock[l]]

Goto(w, step) == request' = [request EXCEPT ![w].step = step]

\* The repository writes a payment as a whole.
Add(o, p) == payments' = [payments EXCEPT ![o] = p]
Update(o, p) == payments' = [payments EXCEPT ![o] = p]

tables == <<payments, inbox, charges, audits, bonuses>>
world == <<sale, expected>>

-----------------------------------------------------------------------------
(* Orders, and the world outside.                                          *)

Checkout(o) ==
  /\ payments[o] = NoRow
  /\ Add(o, NewPayment)
  /\ UNCHANGED <<inbox, charges, audits, bonuses, sale, expected, lock, request>>

\* The user pays, or a canceled order is paid again: a new transaction, for
\* the amount ordered or not.  Toss Pay has no test environment.
Pay(o) ==
  /\ payments[o] # NoRow
  /\ \E s \in Sale :
       /\ o \in TossOrders => s.environment = "LIVE"
       /\ \A p \in Orders \ {o} : provider(p) = provider(o) /\ sale[p] # NoSale => sale[p].txn # s.txn
       /\ sale' = [sale EXCEPT ![o] = s]
  /\ UNCHANGED <<tables, expected, lock, request>>

CancelAtProvider(o) ==
  /\ sale[o] # NoSale
  /\ sale' = [sale EXCEPT ![o] = NoSale]
  /\ UNCHANGED <<tables, expected, lock, request>>

\* The program is deployed for the other environment of PortOne.
Redeploy ==
  /\ \A w \in Requests : request[w].step = "idle"
  /\ expected' \in {"TEST", "LIVE"}
  /\ UNCHANGED <<tables, sale, lock, request>>

-----------------------------------------------------------------------------
(* Confirmations.                                                          *)

Open(w, s) == request' = [request EXCEPT ![w] = s] /\ UNCHANGED <<tables, world, lock>>

\* ConfirmPortOnePaymentService, for the browser and for webhooks.
Confirm(w, o) ==
  /\ request[w].step = "idle" /\ o \in KgOrders /\ payments[o] # NoRow
  /\ Open(w, [Idle EXCEPT !.step = "asking", !.kind = "confirm", !.order = o])

\* HandleTossPayCallbackService: the callback names a transaction.
Callback(w, o, txn) ==
  /\ request[w].step = "idle" /\ o \in TossOrders /\ payments[o] # NoRow
  /\ Open(w, [Idle EXCEPT !.step = "asking", !.kind = "callback", !.order = o, !.txn = txn])

\* AdminOpsService.recheck_payment
Recheck(w, o) ==
  /\ request[w].step = "idle" /\ o \in TossOrders /\ payments[o] # NoRow
  /\ Open(w, [Idle EXCEPT !.step = "asking", !.kind = "recheck", !.order = o])

AcceptsPortOne(s) == s # NoSale /\ s.environment = expected

AcceptsToss(w, s) == s # NoSale /\ (request[w].kind = "callback" => s.txn = request[w].txn)

Accepts(w, s) == IF request[w].kind = "confirm" THEN AcceptsPortOne(s) ELSE AcceptsToss(w, s)

\* What the services hand on: they take every answer of Toss Pay for live.
Verified(w, s) == IF request[w].kind = "confirm" THEN s ELSE [s EXCEPT !.environment = "LIVE"]

\* The provider is asked for the order; no lock is held meanwhile.
Ask(w) ==
  /\ request[w].step = "asking"
  /\ LET s == sale[request[w].order] IN
       /\ Accepts(w, s)
       /\ request' = [request EXCEPT ![w].step = "acquiring", ![w].sale = Verified(w, s)]
  /\ UNCHANGED <<tables, world, lock>>

\* PaymentInbox.acquire: an insert that conflicts with one in flight waits.
Processed(row) == row # NoRow /\ row.status = "PROCESSED"
SameOrder(w) == inbox[event(w)] # NoRow => inbox[event(w)].order = request[w].order

AcquireInbox(w) ==
  /\ Ready(w, "acquiring") /\ SameOrder(w)
  /\ ~Processed(inbox[event(w)])
  /\ Lock(w, event(w))
  /\ Goto(w, "locking")
  /\ UNCHANGED <<tables, world>>

AlreadyProcessed(w) ==
  /\ Ready(w, "acquiring") /\ SameOrder(w)
  /\ Processed(inbox[event(w)])
  /\ End(w)
  /\ UNCHANGED <<tables, world>>

Approvable(w) ==
  LET p == payments[request[w].order]
      s == request[w].sale
  IN  /\ validate_approval(s)
      /\ MayAssignEnvironment(p, s.environment)
      /\ MayAssignTxn(p, s.txn)
      /\ MayApprove(p)

\* find_by_order_id_for_update and the approval of the payment in memory.
ApprovePayment(w) ==
  LET o == request[w].order
      p == approve(payments[o], request[w].sale.environment, request[w].sale.txn)
  IN  /\ Ready(w, "locking")
      /\ Approvable(w)
      /\ LockRow(w, o)
      /\ request' = [request EXCEPT ![w].row = p,
                       ![w].step = IF can_grant_credit(p) THEN "crediting" ELSE "saving"]
      /\ UNCHANGED <<tables, world>>

\* GrantPaymentCreditService: no second CHARGE of the same payment.
GrantCredit(w) ==
  /\ Ready(w, "crediting") /\ request[w].kind # "grant"
  /\ Lock(w, Account)
  /\ request' = [request EXCEPT ![w].step = "saving",
                   ![w].row = mark_credit_granted(request[w].row),
                   ![w].charge = (charges[request[w].order] = 0)]
  /\ UNCHANGED <<tables, world>>

\* The payment, its event and its charge are committed together.
CommitPayment(w) ==
  LET o == request[w].order IN
  /\ request[w].step = "saving" /\ request[w].kind # "grant"
  /\ Update(o, request[w].row)
  /\ inbox' = [inbox EXCEPT ![event(w)] = [order |-> o, status |-> "PROCESSED"]]
  /\ charges' = [charges EXCEPT ![o] = IF request[w].charge THEN @ + 1 ELSE @]
  /\ End(w)
  /\ UNCHANGED <<audits, bonuses, world>>

-----------------------------------------------------------------------------
(* AdminOpsService.grant_credit                                            *)

GrantableByHand(p) == p # NoRow /\ can_grant_credit(p)

\* The audit of the key, and the payment, are read without a lock.
AdminGrantsPayment(w, k, o) ==
  /\ request[w].step = "idle" /\ audits[k] = NoRow /\ GrantableByHand(payments[o])
  /\ Open(w, [Idle EXCEPT !.step = "crediting", !.kind = "grant", !.key = k,
                !.order = o, !.row = payments[o]])

AdminGrantsBonus(w, k) ==
  /\ request[w].step = "idle" /\ audits[k] = NoRow
  /\ Open(w, [Idle EXCEPT !.step = "crediting", !.kind = "grant", !.key = k])

\* The account is locked and charged; a payment that has its charge is refused.
AdminCharges(w) ==
  LET o == request[w].order IN
  /\ Ready(w, "crediting") /\ request[w].kind = "grant"
  /\ o # NoOrder => charges[o] = 0
  /\ Lock(w, Account)
  /\ request' = [request EXCEPT ![w].charge = TRUE,
                   ![w].row = IF o = NoOrder THEN NoRow ELSE mark_credit_granted(request[w].row),
                   ![w].step = IF o = NoOrder THEN "saving" ELSE "updating"]
  /\ UNCHANGED <<tables, world>>

\* The whole row read at the start is written, under the lock of an update.
AdminUpdatesPayment(w) ==
  /\ Ready(w, "updating")
  /\ Lock(w, request[w].order)
  /\ Goto(w, "saving")
  /\ UNCHANGED <<tables, world>>

\* Mutant: no unique index on the audits' idempotency keys.
KeyIsFree_Unchecked(k) == TRUE
KeyIsFree(k) == audits[k] = NoRow

AdminCommits(w) ==
  LET o == request[w].order
      k == request[w].key
  IN  /\ request[w].step = "saving" /\ request[w].kind = "grant"
      /\ KeyIsFree(k)
      /\ audits' = [audits EXCEPT ![k] = [order |-> o]]
      /\ IF o = NoOrder THEN UNCHANGED payments ELSE Update(o, request[w].row)
      /\ charges' = IF o = NoOrder THEN charges ELSE [charges EXCEPT ![o] = @ + 1]
      /\ bonuses' = IF o = NoOrder THEN [bonuses EXCEPT ![k] = @ + 1] ELSE bonuses
      /\ End(w)
      /\ UNCHANGED <<inbox, world>>

-----------------------------------------------------------------------------
(* Ends without a commit.                                                  *)

\* The handler raises: the answer, the event, the payment, the charge or the
\* key is not what it has to be.
Refused(w) ==
  \/ request[w].step = "asking" /\ ~Accepts(w, sale[request[w].order])
  \/ Ready(w, "acquiring") /\ ~SameOrder(w)
  \/ Ready(w, "locking") /\ ~Approvable(w)
  \/ /\ Ready(w, "crediting") /\ request[w].kind = "grant"
     /\ request[w].order # NoOrder /\ charges[request[w].order] # 0
  \/ request[w].step = "saving" /\ request[w].kind = "grant" /\ ~KeyIsFree(request[w].key)

Reject(w) ==
  /\ Refused(w)
  /\ End(w)
  /\ UNCHANGED <<tables, world>>

\* PostgreSQL ends one of two sessions that wait for each other.
DeadlockVictim(w) ==
  /\ \E v \in Requests : Waits(w, v) /\ Waits(v, w)
  /\ End(w)
  /\ UNCHANGED <<tables, world>>

\* A timeout of the provider, a lost connection, a crash of the server.
Fail(w) ==
  /\ request[w].step # "idle"
  /\ End(w)
  /\ UNCHANGED <<tables, world>>

-----------------------------------------------------------------------------
Init ==
  /\ payments = [o \in Orders |-> IF o \in DueOrders THEN DuePayment
                                  ELSE IF o \in TossOrders THEN NewPayment ELSE NoRow]
  /\ inbox = [e \in Events |-> NoRow]
  /\ charges = [o \in Orders |-> 0]
  /\ audits = [k \in Keys |-> NoRow]
  /\ bonuses = [k \in Keys |-> 0]
  /\ sale = [o \in Orders |-> NoSale]
  /\ expected \in {"TEST", "LIVE"}
  /\ lock = [l \in Locks |-> Nobody]
  /\ request = [w \in Requests |-> Idle]

\* The next step of a session that has begun.
Step(w) ==
  \/ Ask(w) \/ AcquireInbox(w) \/ AlreadyProcessed(w) \/ ApprovePayment(w)
  \/ GrantCredit(w) \/ CommitPayment(w)
  \/ AdminCharges(w) \/ AdminUpdatesPayment(w) \/ AdminCommits(w)
  \/ Reject(w)

Begin(w) ==
  \/ \E o \in KgOrders : Confirm(w, o)
  \/ \E o \in TossOrders, txn \in Txns : Callback(w, o, txn)
  \/ \E o \in TossOrders : Recheck(w, o)
  \/ \E k \in Keys, o \in Orders : AdminGrantsPayment(w, k, o)
  \/ \E k \in Keys : AdminGrantsBonus(w, k)

Next ==
  \/ \E o \in Orders : Checkout(o) \/ Pay(o) \/ CancelAtProvider(o)
  \/ Redeploy
  \/ \E w \in Requests : Begin(w) \/ Step(w) \/ DeadlockVictim(w) \/ Fail(w)

Spec == Init /\ [][Next]_vars

\* A session goes on until it waits, and a deadlock is found; nothing makes
\* a request begin or fail.
Fairness ==
  \A w \in Requests : SF_vars(Step(w)) /\ WF_vars(DeadlockVictim(w))

FairSpec == Spec /\ Fairness

-----------------------------------------------------------------------------
(* Properties                                                              *)

\* The books of the payments and of the account agree, whoever granted and
\* whatever was duplicated: a payment is marked as credited exactly when the
\* account has its one charge.
CreditIsBookedOnce ==
  \A o \in Orders :
    charges[o] = (IF payments[o] # NoRow /\ payments[o].credit_granted THEN 1 ELSE 0)

\* A recorded event has had its full effect: its order is approved with that
\* very transaction, so no two events settle one order.
EventsAreSettled ==
  \A e \in Events :
    inbox[e] # NoRow =>
      LET o == inbox[e].order IN
      /\ inbox[e].status = "PROCESSED"
      /\ provider(o) = e[1]
      /\ payments[o] # NoRow
      /\ payments[o].status = "APPROVED" /\ payments[o].txn = e[2]

\* The administrators' list of missing credit (get_overview) never grows: no
\* interleaving or failure leaves a live payment approved without its credit.
missing_credit(o) ==
  /\ payments[o] # NoRow /\ payments[o].status = "APPROVED"
  /\ payments[o].environment = "LIVE" /\ ~payments[o].credit_granted
  /\ charges[o] = 0
MissingCreditNeverGrows ==
  [][\A o \in Orders : missing_credit(o)' => missing_credit(o)]_vars

\* Nothing unlearns an approval: a later confirmation, or the stale row an
\* administrator's grant writes back, keeps its status, environment,
\* transaction and mark.
ApprovalsAreFinal ==
  [][\A o \in Orders :
       LET p == payments[o] IN
       p # NoRow /\ p.status = "APPROVED" =>
         /\ payments'[o].status = "APPROVED"
         /\ payments'[o].environment = p.environment
         /\ p.txn # NoTxn => payments'[o].txn = p.txn
         /\ p.credit_granted => payments'[o].credit_granted]_vars

\* An idempotency key pays once: retries and concurrent requests with one key
\* leave one audit row, and one charge if it granted a bonus.
KeyPaysOnce ==
  \A k \in Keys :
    bonuses[k] = (IF audits[k] # NoRow /\ audits[k].order = NoOrder THEN 1 ELSE 0)

\* Each order goes the way PaidOrder allows: credit is given once, in the step
\* that settles the order, to live payments only.
Standing(o) ==
  CASE payments[o] = NoRow -> "ABSENT"
    [] payments[o] # NoRow /\ payments[o].status = "READY" -> "OPEN"
    [] OTHER -> IF payments[o].environment = "TEST" THEN "TESTED"
                ELSE IF payments[o].credit_granted THEN "CREDITED" ELSE "DUE"

Promise == INSTANCE PaidOrder
             WITH order <- [o \in Orders |-> Standing(o)], credits <- charges
ImplementsPaidOrder == Promise!Spec

\* No request waits for ever: a confirmation locks the payment before the
\* account, a grant by hand the account before the payment.
RequestsEnd ==
  \A w \in Requests : request[w].step # "idle" ~> request[w].step = "idle"

-----------------------------------------------------------------------------
(* The inductive invariant: what each session knows of the rows it has     *)
(* locked, and of those it has only read.                                  *)

\* Every table, lock and session stays within its columns and values.
TypeOK ==
  /\ payments \in [Orders -> Payment \cup {NoRow}]
  /\ inbox \in [Events -> InboxRow \cup {NoRow}]
  /\ charges \in [Orders -> Nat]
  /\ audits \in [Keys -> Audit \cup {NoRow}]
  /\ bonuses \in [Keys -> Nat]
  /\ lock \in [Locks -> Requests \cup {Nobody}]
  /\ request \in [Requests -> Session]
  /\ sale \in [Orders -> Sale \cup {NoSale}]

\* Only an approved live payment is credited; an approval knows its environment.
RowsFit ==
  \A o \in Orders :
    payments[o] # NoRow =>
      /\ payments[o].credit_granted =>
           payments[o].status = "APPROVED" /\ payments[o].environment = "LIVE"
      /\ payments[o].status = "APPROVED" => payments[o].environment # "UNKNOWN"

Approved(w) ==
  approve(payments[request[w].order], request[w].sale.environment, request[w].sale.txn)

\* A confirmation has its payment locked before it is changed in memory: the
\* change is of the row that is there.
ConfirmInv(w) ==
  LET r == request[w]
      p == payments[r.order]
  IN  /\ r.kind \in {"confirm", "callback", "recheck"}
      /\ r.step \in {"asking", "acquiring", "locking", "crediting", "saving"}
      /\ r.order \in Orders /\ p # NoRow
      /\ r.step # "asking" => r.sale \in Sale
      /\ r.step # "saving" => ~r.charge
      /\ r.step \in {"crediting", "saving"} =>
           /\ lock[r.order] = w
           /\ MayAssignEnvironment(p, r.sale.environment) /\ MayAssignTxn(p, r.sale.txn)
      /\ r.step = "crediting" => r.row = Approved(w) /\ can_grant_credit(r.row)
      /\ r.step = "saving" /\ r.charge =>
           /\ lock[Account] = w
           /\ can_grant_credit(Approved(w)) /\ r.row = mark_credit_granted(Approved(w))
      /\ r.step = "saving" /\ ~r.charge => r.row = Approved(w) /\ ~can_grant_credit(r.row)

\* A grant by hand has read its payment without a lock.  The row is out of date
\* only if the payment was credited, and then the account has its charge; from
\* the lock of the account on it is not.
GrantInv(w) ==
  LET r == request[w]
      p == payments[r.order]
  IN  /\ r.kind = "grant" /\ r.key \in Keys
      /\ r.step \in {"crediting", "updating", "saving"}
      /\ r.step # "crediting" => lock[Account] = w
      /\ r.step = "updating" => r.order # NoOrder
      /\ r.order # NoOrder =>
           /\ p # NoRow /\ r.row \in Payment
           /\ r.row.status = "APPROVED" /\ r.row.environment = "LIVE"
           /\ r.step = "crediting" => ~r.row.credit_granted /\ (p.credit_granted \/ p = r.row)
           /\ r.step # "crediting" => charges[r.order] = 0 /\ r.row = mark_credit_granted(p)
           /\ r.step = "saving" => lock[r.order] = w

SessionInv(w) == request[w] = Idle \/ ConfirmInv(w) \/ GrantInv(w)

IInv ==
  /\ TypeOK /\ RowsFit
  /\ CreditIsBookedOnce /\ EventsAreSettled /\ KeyPaysOnce
  /\ \A w \in Requests : SessionInv(w)
=============================================================================

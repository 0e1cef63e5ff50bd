----------------------------- MODULE PaymentProofs -----------------------------
(***************************************************************************)
(* The books of PaymentProcessing agree, approvals are final, and every    *)
(* order goes the way PaidOrder allows, for any number of orders,          *)
(* transactions, keys and requests.  What a session knows of the rows it   *)
(* has locked, and of a row it has only read, is the inductive invariant.  *)
(***************************************************************************)
EXTENDS PaymentProcessing, TLAPS

Row == Payment \cup {NoRow}

Approval(p, s) == approve(p, s.environment, s.txn)

\* What a session may suppose of a payment it meets: the aggregate's methods
\* give payments again.
LEMMA ApprovalFields ==
  ASSUME NEW p \in Payment, NEW s \in Sale
  PROVE  LET q == Approval(p, s) IN
         /\ q \in Payment /\ q.status = "APPROVED" /\ q.environment = s.environment
         /\ q.txn = s.txn /\ q.credit_granted = p.credit_granted
BY DEF Approval, approve, Payment, Sale

LEMMA GrantFields ==
  ASSUME NEW p \in Payment
  PROVE  LET q == mark_credit_granted(p) IN
         /\ q \in Payment /\ q.status = p.status /\ q.environment = p.environment
         /\ q.txn = p.txn /\ q.credit_granted
BY DEF mark_credit_granted, Payment

LEMMA NotARow == NoRow \notin Payment
BY PaymentAssumption

\* No approval of a payment that could be credited already hides that.
LEMMA CreditableStays ==
  ASSUME NEW p \in Payment, NEW s \in Sale, can_grant_credit(p),
         MayAssignEnvironment(p, s.environment)
  PROVE  can_grant_credit(Approval(p, s))
BY ApprovalFields DEF can_grant_credit, MayAssignEnvironment

LEMMA SessionTypes ==
  ASSUME TypeOK, NEW w \in Requests
  PROVE  LET r == request[w] IN
         /\ r \in Session
         /\ r.order \in Orders \cup {NoOrder} /\ r.sale \in Sale \cup {NoSale}
         /\ r.row \in Row /\ r.key \in Keys \cup {NoKey}
BY DEF TypeOK, Session, Row

LEMMA IdleSession == Idle \in Session
BY DEF Idle, Session

-----------------------------------------------------------------------------
(* What one session does leaves the others what they know.                 *)

\* A payment stays; one that another session has locked is not changed; one
\* that may be credited changes only by its credit, and not at all while
\* another session has the account.
OthersKeep(t) ==
  /\ \A o \in Orders : LET p == payments[o]  q == payments'[o] IN
       p # NoRow =>
         /\ q # NoRow
         /\ lock[o] = t => q = p
         /\ p.credit_granted => q.credit_granted
         /\ can_grant_credit(p) => q = p \/ q.credit_granted
         /\ can_grant_credit(p) /\ lock[Account] = t => q = p
  /\ lock[Account] = t => \A o \in Orders : charges'[o] = charges[o]
  /\ \A l \in Locks : lock[l] = t => lock'[l] = t

LEMMA OtherSession ==
  ASSUME IInv, NEW t \in Requests, request'[t] = request[t], OthersKeep(t)
  PROVE  SessionInv(t)'
<1> DEFINE r == request[t]
           p == payments[r.order]
<1>1. r \in Session /\ r.row \in Row /\ SessionInv(t)
  BY SessionTypes DEF IInv
<1>2. \A l \in Orders \cup {Account} : l \in Locks
  BY DEF Locks
<1>3. CASE r = Idle
  BY <1>3 DEF SessionInv
<1>4. CASE ConfirmInv(t)
  <2>1. r.order \in Orders /\ p # NoRow /\ payments'[r.order] # NoRow
    BY <1>4 DEF ConfirmInv, OthersKeep
  <2>2. CASE r.step \in {"crediting", "saving"}
    <3>1. lock[r.order] = t /\ payments'[r.order] = p /\ lock'[r.order] = t
      BY <1>2, <1>4, <2>1, <2>2 DEF ConfirmInv, OthersKeep
    <3>2. Approved(t)' = Approved(t)
      BY <3>1 DEF Approved
    <3>3. lock[Account] = t => lock'[Account] = t
      BY <1>2 DEF OthersKeep
    <3> QED
      BY <1>4, <2>1, <3>1, <3>2, <3>3 DEF ConfirmInv, SessionInv
  <2>3. CASE r.step \notin {"crediting", "saving"}
    BY <1>4, <2>1, <2>3 DEF ConfirmInv, SessionInv
  <2> QED
    BY <2>2, <2>3
<1>5. CASE GrantInv(t)
  <2>1. CASE r.order = NoOrder
    <3>1. r.step # "crediting" => lock'[Account] = t
      BY <1>2, <1>5 DEF GrantInv, OthersKeep
    <3> QED
      BY <1>5, <2>1, <3>1 DEF GrantInv, SessionInv
  <2>2. CASE r.order # NoOrder
    <3>1. r.order \in Orders /\ p \in Payment /\ r.row \in Payment
      BY <1>5, <2>2, SessionTypes DEF GrantInv, IInv, TypeOK, Row
    <3>2. payments'[r.order] # NoRow
      BY <1>5, <2>2, <3>1 DEF GrantInv, OthersKeep
    <3>3. CASE r.step = "crediting"
      <4>1. p.credit_granted \/ (p = r.row /\ can_grant_credit(p))
        BY <1>5, <2>2, <3>3 DEF GrantInv, can_grant_credit
      <4>2. payments'[r.order].credit_granted \/ payments'[r.order] = r.row
        BY <1>5, <2>2, <3>1, <4>1 DEF GrantInv, OthersKeep
      <4> QED
        BY <1>5, <2>2, <3>1, <3>2, <3>3, <4>2 DEF GrantInv, SessionInv
    <3>4. CASE r.step # "crediting"
      <4>1. lock[Account] = t /\ charges[r.order] = 0 /\ r.row = mark_credit_granted(p)
        BY <1>5, <2>2, <3>4 DEF GrantInv
      <4>2. can_grant_credit(p)
        BY <1>5, <2>2, <3>1, <4>1, GrantFields DEF GrantInv, can_grant_credit, IInv, CreditIsBookedOnce
      <4>3. payments'[r.order] = p /\ charges'[r.order] = 0 /\ lock'[Account] = t
        BY <1>2, <1>5, <2>2, <3>1, <4>1, <4>2 DEF GrantInv, OthersKeep
      <4>4. r.step = "saving" => lock'[r.order] = t
        BY <1>2, <1>5, <2>2, <3>1 DEF GrantInv, OthersKeep
      <4> QED
        BY <1>5, <2>2, <3>1, <3>2, <3>4, <4>1, <4>3, <4>4 DEF GrantInv, SessionInv
    <3> QED
      BY <3>3, <3>4
  <2> QED
    BY <2>1, <2>2
<1> QED
  BY <1>1, <1>3, <1>4, <1>5 DEF SessionInv

-----------------------------------------------------------------------------
(* Steps of a session that commit nothing.                                 *)

\* The tables say the same of each other as long as they are what they were.
TablesFit == RowsFit /\ CreditIsBookedOnce /\ EventsAreSettled /\ KeyPaysOnce

LEMMA TablesKept ==
  ASSUME TablesFit, UNCHANGED tables
  PROVE  TablesFit'
BY DEF TablesFit, tables, RowsFit, CreditIsBookedOnce, EventsAreSettled, KeyPaysOnce, provider

\* What such a step has to keep: the types, the locks of the others, and what
\* the session itself knows.
LEMMA PrivateStep ==
  ASSUME IInv, UNCHANGED <<tables, world>>, NEW w \in Requests,
         NEW s \in Session, request' = [request EXCEPT ![w] = s],
         lock' \in [Locks -> Requests \cup {Nobody}],
         \A l \in Locks, t \in Requests \ {w} : lock[l] = t => lock'[l] = t,
         SessionInv(w)'
  PROVE  IInv'
<1>1. TypeOK'
  BY DEF IInv, TypeOK, tables, world
<1>2. ASSUME NEW t \in Requests \ {w} PROVE SessionInv(t)'
  <2>1. OthersKeep(t)
    BY DEF OthersKeep, tables
  <2>2. request'[t] = request[t]
    BY DEF IInv, TypeOK
  <2> QED
    BY <2>1, <2>2, OtherSession
<1>3. TablesFit'
  BY TablesKept DEF IInv, TablesFit
<1> QED
  BY <1>1, <1>2, <1>3 DEF IInv, TablesFit

\* A session that ends, whatever for, leaves no lock and knows nothing.
LEMMA EndLocks ==
  ASSUME TypeOK, NEW w \in Requests, End(w)
  PROVE  /\ lock' \in [Locks -> Requests \cup {Nobody}]
         /\ \A l \in Locks, t \in Requests \ {w} : lock[l] = t => lock'[l] = t
         /\ request' = [request EXCEPT ![w] = Idle]
         /\ request'[w] = Idle
BY PaymentAssumption DEF End, TypeOK

LEMMA EndInv ==
  ASSUME IInv, NEW w \in Requests, End(w), UNCHANGED <<tables, world>>
  PROVE  IInv'
<1>1. SessionInv(w)'
  BY EndLocks DEF IInv, SessionInv
<1> QED
  BY <1>1, EndLocks, IdleSession, PrivateStep DEF IInv

LEMMA OpenInv ==
  ASSUME IInv, NEW w \in Requests, NEW s \in Session, Open(w, s), SessionInv(w)'
  PROVE  IInv'
<1>1. lock' \in [Locks -> Requests \cup {Nobody}] /\ lock' = lock
  BY DEF Open, IInv, TypeOK
<1> QED
  BY <1>1, PrivateStep DEF Open

\* A lock is taken when nobody has it.
LEMMA LockFree ==
  ASSUME TypeOK, NEW w \in Requests, NEW l \in Locks, lock[l] = Nobody, Lock(w, l)
  PROVE  /\ lock' \in [Locks -> Requests \cup {Nobody}]
         /\ lock'[l] = w
         /\ \A k \in Locks, t \in Requests : lock[k] = t => lock'[k] = t
BY PaymentAssumption DEF Lock, TypeOK

\* A confirmation opens knowing that its payment exists, ...
LEMMA AskingInv ==
  ASSUME IInv, NEW w \in Requests, NEW s \in Session, Open(w, s),
         s.step = "asking", s.kind \in {"confirm", "callback", "recheck"}, ~s.charge,
         s.order \in Orders, payments[s.order] # NoRow
  PROVE  IInv'
<1>1. request'[w] = s /\ payments' = payments
  BY DEF Open, IInv, TypeOK, tables
<1>2. ConfirmInv(w)'
  BY <1>1 DEF ConfirmInv
<1> QED
  BY <1>2, OpenInv DEF SessionInv

\* ... a grant by hand with the payment it has read.
LEMMA GrantingInv ==
  ASSUME IInv, NEW w \in Requests, NEW s \in Session, Open(w, s),
         s.step = "crediting", s.kind = "grant", s.key \in Keys,
         s.order # NoOrder =>
           s.order \in Orders /\ s.row = payments[s.order] /\ GrantableByHand(s.row)
  PROVE  IInv'
<1>1. request'[w] = s /\ payments' = payments /\ charges' = charges
  BY DEF Open, IInv, TypeOK, tables
<1>2. s.order # NoOrder => s.row \in Payment
  BY DEF GrantableByHand, IInv, TypeOK
<1>3. GrantInv(w)'
  BY <1>1, <1>2 DEF GrantInv, GrantableByHand, can_grant_credit
<1> QED
  BY <1>3, OpenInv DEF SessionInv

LEMMA LockInv ==
  ASSUME IInv, UNCHANGED <<tables, world>>, NEW w \in Requests,
         NEW s \in Session, request' = [request EXCEPT ![w] = s],
         NEW l \in Locks, lock[l] = Nobody, Lock(w, l), SessionInv(w)'
  PROVE  IInv'
BY LockFree, PrivateStep DEF IInv

LEMMA BeginInv ==
  ASSUME IInv, NEW w \in Requests, Begin(w)
  PROVE  IInv'
<1>1. ASSUME NEW o \in KgOrders, Confirm(w, o) PROVE IInv'
  <2> DEFINE s == [Idle EXCEPT !.step = "asking", !.kind = "confirm", !.order = o]
  <2>1. o \in Orders
    BY DEF Orders
  <2>2. s \in Session /\ s.step = "asking" /\ s.kind = "confirm" /\ s.order = o /\ ~s.charge
    BY <2>1 DEF Idle, Session
  <2>3. Open(w, s) /\ payments[o] # NoRow
    BY <1>1 DEF Confirm
  <2> HIDE DEF s
  <2> QED
    BY <2>1, <2>2, <2>3, AskingInv
<1>2. ASSUME NEW o \in TossOrders, NEW txn \in Txns, Callback(w, o, txn) PROVE IInv'
  <2> DEFINE s == [Idle EXCEPT !.step = "asking", !.kind = "callback", !.order = o, !.txn = txn]
  <2>1. o \in Orders
    BY DEF Orders
  <2>2. s \in Session /\ s.step = "asking" /\ s.kind = "callback" /\ s.order = o /\ ~s.charge
    BY <2>1 DEF Idle, Session
  <2>3. Open(w, s) /\ payments[o] # NoRow
    BY <1>2 DEF Callback
  <2> HIDE DEF s
  <2> QED
    BY <2>1, <2>2, <2>3, AskingInv
<1>3. ASSUME NEW o \in TossOrders, Recheck(w, o) PROVE IInv'
  <2> DEFINE s == [Idle EXCEPT !.step = "asking", !.kind = "recheck", !.order = o]
  <2>1. o \in Orders
    BY DEF Orders
  <2>2. s \in Session /\ s.step = "asking" /\ s.kind = "recheck" /\ s.order = o /\ ~s.charge
    BY <2>1 DEF Idle, Session
  <2>3. Open(w, s) /\ payments[o] # NoRow
    BY <1>3 DEF Recheck
  <2> HIDE DEF s
  <2> QED
    BY <2>1, <2>2, <2>3, AskingInv
<1>4. ASSUME NEW k \in Keys, NEW o \in Orders, AdminGrantsPayment(w, k, o) PROVE IInv'
  <2> DEFINE s == [Idle EXCEPT !.step = "crediting", !.kind = "grant", !.key = k,
                     !.order = o, !.row = payments[o]]
  <2>1. payments[o] \in Row
    BY DEF IInv, TypeOK, Row
  <2>2. /\ s \in Session /\ s.step = "crediting" /\ s.kind = "grant"
        /\ s.key = k /\ s.order = o /\ s.row = payments[o]
    BY <2>1 DEF Idle, Session, Row
  <2>3. Open(w, s) /\ GrantableByHand(payments[o])
    BY <1>4 DEF AdminGrantsPayment
  <2> HIDE DEF s
  <2> QED
    BY <2>2, <2>3, GrantingInv
<1>5. ASSUME NEW k \in Keys, AdminGrantsBonus(w, k) PROVE IInv'
  <2> DEFINE s == [Idle EXCEPT !.step = "crediting", !.kind = "grant", !.key = k]
  <2>1. /\ s \in Session /\ s.step = "crediting" /\ s.kind = "grant"
        /\ s.key = k /\ s.order = NoOrder
    BY DEF Idle, Session
  <2>2. Open(w, s)
    BY <1>5 DEF AdminGrantsBonus
  <2> HIDE DEF s
  <2> QED
    BY <2>1, <2>2, GrantingInv
<1> QED
  BY <1>1, <1>2, <1>3, <1>4, <1>5 DEF Begin

\* The answer of the provider is a sale, taken for live if it is Toss Pay's.
LEMMA AskInv ==
  ASSUME IInv, NEW w \in Requests, Ask(w)
  PROVE  IInv'
<1> DEFINE r == request[w]
           s == Verified(w, sale[r.order])
           r1 == [r EXCEPT !.step = "acquiring", !.sale = s]
<1>1. r \in Session /\ ConfirmInv(w)
  BY SessionTypes DEF Ask, IInv, SessionInv, Idle, GrantInv
<1>2. sale[r.order] \in Sale
  BY <1>1 DEF Ask, Accepts, AcceptsPortOne, AcceptsToss, ConfirmInv, IInv, TypeOK
<1>3. s \in Sale
  BY <1>2 DEF Verified, Sale
<1>4. r1 \in Session /\ request' = [request EXCEPT ![w] = r1]
  BY <1>1, <1>3 DEF Ask, Session, IInv, TypeOK
<1>5. request'[w] = r1 /\ payments' = payments /\ lock' = lock
  BY <1>4 DEF Ask, IInv, TypeOK, tables
<1>6. ConfirmInv(w)'
  <2>1. r1.step = "acquiring" /\ r1.sale = s /\ r1.kind = r.kind /\ r1.order = r.order /\ r1.charge = r.charge
    BY <1>1 DEF Session
  <2> HIDE DEF r1, s
  <2> QED
    BY <1>1, <1>3, <1>5, <2>1 DEF Ask, ConfirmInv
<1>7. lock' \in [Locks -> Requests \cup {Nobody}]
  BY <1>5 DEF IInv, TypeOK
<1> HIDE DEF r1
<1> QED
  BY <1>4, <1>5, <1>6, <1>7, PrivateStep DEF Ask, SessionInv

\* What a session that confirms, or grants, keeps of its kind.
LEMMA KindOf ==
  ASSUME IInv, NEW w \in Requests, request[w].step # "idle"
  PROVE  /\ request[w] \in Session
         /\ request[w].kind = "grant" => GrantInv(w)
         /\ request[w].kind # "grant" => ConfirmInv(w)
BY SessionTypes DEF IInv, SessionInv, Idle, GrantInv, ConfirmInv

LEMMA AcquireInv ==
  ASSUME IInv, NEW w \in Requests, AcquireInbox(w)
  PROVE  IInv'
<1> DEFINE r == request[w]
           r1 == [r EXCEPT !.step = "locking"]
<1>1. r \in Session /\ r.step = "acquiring" /\ ConfirmInv(w)
  BY KindOf DEF AcquireInbox, Ready, GrantInv
<1>2. event(w) \in Locks /\ lock[event(w)] = Nobody
  <2>1. event(w) \in Wanted(w)
    BY <1>1 DEF Wanted
  <2>2. event(w) \in Events
    BY <1>1 DEF event, Events, provider, ConfirmInv, Sale
  <2> QED
    BY <2>1, <2>2 DEF AcquireInbox, Ready, Locks
<1>3. /\ lock' \in [Locks -> Requests \cup {Nobody}]
      /\ \A k \in Locks, t \in Requests : lock[k] = t => lock'[k] = t
  BY <1>2, LockFree DEF AcquireInbox, IInv
<1>4. /\ r1 \in Session /\ r1.step = "locking" /\ r1.sale = r.sale
      /\ r1.kind = r.kind /\ r1.order = r.order /\ r1.charge = r.charge
  BY <1>1 DEF Session
<1>5. request' = [request EXCEPT ![w] = r1] /\ request'[w] = r1 /\ payments' = payments
  BY DEF AcquireInbox, Goto, IInv, TypeOK, tables
<1> HIDE DEF r1
<1>6. ConfirmInv(w)'
  BY <1>1, <1>4, <1>5 DEF ConfirmInv
<1>7. SessionInv(w)'
  BY <1>6 DEF SessionInv
<1>8. UNCHANGED <<tables, world>>
  BY DEF AcquireInbox
<1>9. r1 \in Session /\ request' = [request EXCEPT ![w] = r1]
  BY <1>4, <1>5
<1> QED
  BY <1>2, <1>7, <1>8, <1>9, LockInv DEF AcquireInbox

\* The payment is approved in memory as it is now, and stays so: it is locked.
LEMMA ApproveInv ==
  ASSUME IInv, NEW w \in Requests, ApprovePayment(w)
  PROVE  IInv'
<1> DEFINE r == request[w]
           o == r.order
           p == Approval(payments[o], r.sale)
           step == IF can_grant_credit(p) THEN "crediting" ELSE "saving"
           r1 == [r EXCEPT !.row = p, !.step = step]
<1>1. r \in Session /\ r.step = "locking" /\ ConfirmInv(w)
  BY KindOf DEF ApprovePayment, Ready, GrantInv
<1>2. o \in Orders /\ payments[o] \in Payment /\ r.sale \in Sale /\ ~r.charge
  BY <1>1 DEF ConfirmInv, IInv, TypeOK
<1>3. o \in Locks /\ lock[o] = Nobody /\ Lock(w, o)
  <2>1. o \in Wanted(w)
    BY <1>1 DEF Wanted
  <2> QED
    BY <1>2, <2>1 DEF ApprovePayment, Ready, Locks, LockRow
<1>4. /\ lock' \in [Locks -> Requests \cup {Nobody}] /\ lock'[o] = w
      /\ \A k \in Locks, t \in Requests : lock[k] = t => lock'[k] = t
  BY <1>3, LockFree DEF IInv
<1>5. p \in Payment
  BY <1>2, ApprovalFields
<1>6. /\ r1 \in Session /\ r1.step = step /\ r1.sale = r.sale /\ r1.row = p
      /\ r1.kind = r.kind /\ r1.order = o /\ ~r1.charge
  BY <1>1, <1>2, <1>5 DEF Session
<1>7. request' = [request EXCEPT ![w] = r1] /\ request'[w] = r1 /\ payments' = payments
  BY DEF ApprovePayment, Approval, IInv, TypeOK, tables
<1>8. MayAssignEnvironment(payments[o], r.sale.environment) /\ MayAssignTxn(payments[o], r.sale.txn)
  BY DEF ApprovePayment, Approvable
<1>9. Approved(w)' = p
  <2> HIDE DEF r1
  <2> QED
    BY <1>6, <1>7 DEF Approved, Approval
<1>10. ConfirmInv(w)'
  <2> HIDE DEF r1, p
  <2> QED
    BY <1>1, <1>2, <1>4, <1>6, <1>7, <1>8, <1>9 DEF ConfirmInv, MayAssignEnvironment, MayAssignTxn
<1> HIDE DEF r1
<1>11. SessionInv(w)'
  BY <1>10 DEF SessionInv
<1>12. UNCHANGED <<tables, world>>
  BY DEF ApprovePayment
<1>13. r1 \in Session /\ request' = [request EXCEPT ![w] = r1]
  BY <1>6, <1>7
<1> QED
  BY <1>3, <1>11, <1>12, <1>13, LockInv

\* A payment that can be credited has no charge yet, so it gets one.
LEMMA GrantCreditInv ==
  ASSUME IInv, NEW w \in Requests, GrantCredit(w)
  PROVE  IInv'
<1> DEFINE r == request[w]
           o == r.order
           p == payments[o]
           r1 == [r EXCEPT !.step = "saving", !.row = mark_credit_granted(r.row), !.charge = TRUE]
<1>1. r \in Session /\ r.step = "crediting" /\ ConfirmInv(w)
  BY KindOf DEF GrantCredit, Ready
<1>2. o \in Orders /\ p \in Payment /\ r.sale \in Sale
  BY <1>1 DEF ConfirmInv, IInv, TypeOK
<1>3. r.row = Approval(p, r.sale) /\ can_grant_credit(r.row) /\ r.row \in Payment
  BY <1>1, <1>2, ApprovalFields DEF ConfirmInv, Approved, Approval
<1>4. charges[o] = 0
  BY <1>2, <1>3, ApprovalFields DEF can_grant_credit, IInv, CreditIsBookedOnce
<1>5. Account \in Locks /\ lock[Account] = Nobody /\ Lock(w, Account)
  BY <1>1 DEF GrantCredit, Ready, Wanted, Locks
<1>6. /\ lock' \in [Locks -> Requests \cup {Nobody}] /\ lock'[Account] = w
      /\ \A k \in Locks, t \in Requests : lock[k] = t => lock'[k] = t
  BY <1>5, LockFree DEF IInv
<1>7. /\ r1 \in Session /\ r1.step = "saving" /\ r1.sale = r.sale /\ r1.row = mark_credit_granted(r.row)
      /\ r1.kind = r.kind /\ r1.order = o /\ r1.charge
  BY <1>1, <1>3, GrantFields DEF Session
<1>8. request' = [request EXCEPT ![w] = r1] /\ request'[w] = r1 /\ payments' = payments
  BY <1>4 DEF GrantCredit, IInv, TypeOK, tables
<1>9. lock'[o] = w
  BY <1>1, <1>2, <1>6 DEF ConfirmInv, Locks
<1>10. Approved(w)' = r.row
  <2> HIDE DEF r1
  <2> QED
    BY <1>3, <1>7, <1>8 DEF Approved, Approval
<1>11. ConfirmInv(w)'
  <2> HIDE DEF r1
  <2> QED
    BY <1>1, <1>2, <1>3, <1>6, <1>7, <1>8, <1>9, <1>10
       DEF ConfirmInv, MayAssignEnvironment, MayAssignTxn
<1> HIDE DEF r1
<1>12. SessionInv(w)'
  BY <1>11 DEF SessionInv
<1>13. UNCHANGED <<tables, world>>
  BY DEF GrantCredit
<1>14. r1 \in Session /\ request' = [request EXCEPT ![w] = r1]
  BY <1>7, <1>8
<1> QED
  BY <1>5, <1>12, <1>13, <1>14, LockInv

\* An account that has no charge of the payment tells that the row read without
\* a lock is still the payment.
LEMMA AdminChargesInv ==
  ASSUME IInv, NEW w \in Requests, AdminCharges(w)
  PROVE  IInv'
<1> DEFINE r == request[w]
           o == r.order
           p == payments[o]
           row == IF o = NoOrder THEN NoRow ELSE mark_credit_granted(r.row)
           step == IF o = NoOrder THEN "saving" ELSE "updating"
           r1 == [r EXCEPT !.charge = TRUE, !.row = row, !.step = step]
<1>1. r \in Session /\ r.step = "crediting" /\ GrantInv(w)
  BY KindOf DEF AdminCharges, Ready
<1>2. o # NoOrder => o \in Orders /\ p \in Payment /\ r.row \in Payment /\ p # NoRow
  BY <1>1, SessionTypes DEF GrantInv, IInv, TypeOK
<1>3. o # NoOrder => r.row = p /\ charges[o] = 0
  BY <1>1, <1>2 DEF GrantInv, AdminCharges, IInv, CreditIsBookedOnce
<1>4. Account \in Locks /\ lock[Account] = Nobody /\ Lock(w, Account)
  BY <1>1 DEF AdminCharges, Ready, Wanted, Locks
<1>5. /\ lock' \in [Locks -> Requests \cup {Nobody}] /\ lock'[Account] = w
      /\ \A k \in Locks, t \in Requests : lock[k] = t => lock'[k] = t
  BY <1>4, LockFree DEF IInv
<1>6. row \in Row /\ (o # NoOrder => row \in Payment /\ row.status = p.status /\ row.environment = p.environment)
  BY <1>2, <1>3, GrantFields DEF Row
<1>7. /\ r1 \in Session /\ r1.step = step /\ r1.row = row
      /\ r1.kind = r.kind /\ r1.order = o /\ r1.key = r.key
  BY <1>1, <1>6 DEF Session, Row
<1>8. request' = [request EXCEPT ![w] = r1] /\ request'[w] = r1 /\ payments' = payments /\ charges' = charges
  BY DEF AdminCharges, IInv, TypeOK, tables
<1>9. GrantInv(w)'
  <2> HIDE DEF r1
  <2> QED
    BY <1>1, <1>2, <1>3, <1>5, <1>6, <1>7, <1>8 DEF GrantInv
<1> HIDE DEF r1
<1>10. SessionInv(w)'
  BY <1>9 DEF SessionInv
<1>11. UNCHANGED <<tables, world>>
  BY DEF AdminCharges
<1>12. r1 \in Session /\ request' = [request EXCEPT ![w] = r1]
  BY <1>7, <1>8
<1> QED
  BY <1>4, <1>10, <1>11, <1>12, LockInv

LEMMA AdminUpdatesInv ==
  ASSUME IInv, NEW w \in Requests, AdminUpdatesPayment(w)
  PROVE  IInv'
<1> DEFINE r == request[w]
           o == r.order
           r1 == [r EXCEPT !.step = "saving"]
<1>1. r \in Session /\ r.step = "updating" /\ GrantInv(w)
  BY KindOf DEF AdminUpdatesPayment, Ready, ConfirmInv
<1>2. o \in Orders /\ o # NoOrder
  BY <1>1 DEF GrantInv, Session
<1>3. o \in Locks /\ lock[o] = Nobody /\ Lock(w, o) /\ Account \in Locks
  BY <1>1, <1>2 DEF AdminUpdatesPayment, Ready, Wanted, Locks
<1>4. /\ lock' \in [Locks -> Requests \cup {Nobody}] /\ lock'[o] = w /\ lock'[Account] = w
      /\ \A k \in Locks, t \in Requests : lock[k] = t => lock'[k] = t
  BY <1>1, <1>3, LockFree DEF IInv, GrantInv
<1>5. /\ r1 \in Session /\ r1.step = "saving" /\ r1.row = r.row
      /\ r1.kind = r.kind /\ r1.order = o /\ r1.key = r.key
  BY <1>1 DEF Session
<1>6. request' = [request EXCEPT ![w] = r1] /\ request'[w] = r1 /\ payments' = payments /\ charges' = charges
  BY DEF AdminUpdatesPayment, Goto, IInv, TypeOK, tables
<1> HIDE DEF r1
<1>7. GrantInv(w)'
  BY <1>1, <1>2, <1>4, <1>5, <1>6 DEF GrantInv
<1>8. SessionInv(w)'
  BY <1>7 DEF SessionInv
<1>9. UNCHANGED <<tables, world>>
  BY DEF AdminUpdatesPayment
<1>10. r1 \in Session /\ request' = [request EXCEPT ![w] = r1]
  BY <1>5, <1>6
<1> QED
  BY <1>3, <1>8, <1>9, <1>10, LockInv

-----------------------------------------------------------------------------
(* What becomes of an order in a step that changes it.                     *)

Settled(p, s) ==
  p \in Payment /\ s \in Sale /\ MayAssignEnvironment(p, s.environment) /\ MayAssignTxn(p, s.txn)

\* The order is created; ...
Created(o) ==
  /\ payments[o] = NoRow /\ payments'[o] = NewPayment
  /\ charges'[o] = charges[o]

\* ... a confirmation approves it, where no credit is due; ...
Approves(o) ==
  /\ payments[o] \in Payment
  /\ \E s \in Sale :
       Settled(payments[o], s) /\ payments'[o] = Approval(payments[o], s)
  /\ ~can_grant_credit(payments'[o])
  /\ charges'[o] = charges[o]

\* ... or it is approved, if it was not, and credited.
Credits(o) ==
  /\ payments[o] \in Payment
  /\ \E q \in Payment :
       /\ q = payments[o] \/ \E s \in Sale : Settled(payments[o], s) /\ q = Approval(payments[o], s)
       /\ can_grant_credit(q)
       /\ payments'[o] = mark_credit_granted(q)
  /\ charges[o] = 0 /\ charges'[o] = 1

Changed(o) == Created(o) \/ Approves(o) \/ Credits(o)

Untouched(o) == payments'[o] = payments[o] /\ charges'[o] = charges[o]

\* A step changes one order at most.
OneOrderChanges ==
  \/ payments' = payments /\ charges' = charges
  \/ \E o \in Orders : Changed(o) /\ \A q \in Orders \ {o} : Untouched(q)

LEMMA CommitChanges ==
  ASSUME IInv, NEW w \in Requests, CommitPayment(w)
  PROVE  LET o == request[w].order IN
         /\ ConfirmInv(w) /\ o \in Orders /\ request[w].sale \in Sale
         /\ lock[o] = w /\ (request[w].charge => lock[Account] = w)
         /\ Approves(o) \/ (request[w].charge /\ Credits(o))
         /\ \A q \in Orders \ {o} : Untouched(q)
         /\ payments'[o] \in Payment /\ payments'[o].status = "APPROVED"
         /\ payments'[o].txn = request[w].sale.txn
         /\ MayAssignTxn(payments[o], request[w].sale.txn)
         /\ charges' \in [Orders -> Nat] /\ payments' \in [Orders -> Row]
<1> DEFINE r == request[w]
           o == r.order
           p == payments[o]
           s == r.sale
           q == Approval(p, s)
<1>1. r \in Session /\ r.step = "saving" /\ ConfirmInv(w)
  BY KindOf DEF CommitPayment
<1>2. o \in Orders /\ p \in Payment /\ s \in Sale
  BY <1>1 DEF ConfirmInv, IInv, TypeOK
<1>3. lock[o] = w /\ Settled(p, s) /\ Approved(w) = q
  BY <1>1, <1>2 DEF ConfirmInv, Settled, Approved, Approval
<1>4. /\ q \in Payment /\ q.status = "APPROVED" /\ q.environment = s.environment
      /\ q.txn = s.txn /\ q.credit_granted = p.credit_granted
  BY <1>2, ApprovalFields
<1>5. payments' = [payments EXCEPT ![o] = r.row]
  BY DEF CommitPayment, Update
<1>6. payments'[o] = r.row
  BY <1>2, <1>5 DEF IInv, TypeOK
<1>7. CASE r.charge
  <2>1. lock[Account] = w /\ can_grant_credit(q) /\ r.row = mark_credit_granted(q)
    BY <1>1, <1>3, <1>7 DEF ConfirmInv
  <2>2. charges[o] = 0
    BY <1>2, <1>4, <2>1 DEF can_grant_credit, IInv, CreditIsBookedOnce
  <2>3. charges' = [charges EXCEPT ![o] = charges[o] + 1]
    BY <1>7 DEF CommitPayment
  <2>4. charges' \in [Orders -> Nat] /\ charges'[o] = 1
    BY <1>2, <2>2, <2>3 DEF IInv, TypeOK
  <2>5. Credits(o)
    BY <1>2, <1>3, <1>4, <1>6, <2>1, <2>2, <2>4 DEF Credits
  <2>6. \A k \in Orders \ {o} : Untouched(k)
    BY <1>2, <1>5, <2>3 DEF Untouched, IInv, TypeOK
  <2>7. r.row \in Payment /\ r.row.status = "APPROVED" /\ r.row.txn = s.txn
    BY <1>4, <2>1, GrantFields
  <2>8. payments' \in [Orders -> Row]
    BY <1>5, <2>7 DEF IInv, TypeOK, Row
  <2> QED
    BY <1>1, <1>2, <1>3, <1>6, <1>7, <2>1, <2>4, <2>5, <2>6, <2>7, <2>8 DEF Settled
<1>8. CASE ~r.charge
  <2>1. r.row = q /\ ~can_grant_credit(q)
    BY <1>1, <1>3, <1>8 DEF ConfirmInv
  <2>2. charges' = charges
    <3>1. charges' = [charges EXCEPT ![o] = charges[o]]
      BY <1>8 DEF CommitPayment
    <3> QED
      BY <1>2, <3>1 DEF IInv, TypeOK
  <2>3. Approves(o)
    BY <1>2, <1>3, <1>6, <2>1, <2>2 DEF Approves
  <2>4. \A k \in Orders \ {o} : Untouched(k)
    BY <1>2, <1>5, <2>2 DEF Untouched, IInv, TypeOK
  <2>5. payments' \in [Orders -> Row] /\ charges' \in [Orders -> Nat]
    BY <1>4, <1>5, <2>1, <2>2 DEF IInv, TypeOK, Row
  <2> QED
    BY <1>1, <1>2, <1>3, <1>4, <1>6, <1>8, <2>1, <2>3, <2>4, <2>5 DEF Settled
<1> QED
  BY <1>7, <1>8

LEMMA AdminCommitChanges ==
  ASSUME IInv, NEW w \in Requests, AdminCommits(w)
  PROVE  LET o == request[w].order IN
         /\ GrantInv(w) /\ lock[Account] = w
         /\ o = NoOrder => payments' = payments /\ charges' = charges
         /\ o # NoOrder =>
              /\ o \in Orders /\ lock[o] = w /\ Credits(o)
              /\ \A q \in Orders \ {o} : Untouched(q)
              /\ payments'[o] \in Payment /\ payments'[o].status = "APPROVED"
              /\ payments'[o].txn = payments[o].txn
         /\ charges' \in [Orders -> Nat] /\ payments' \in [Orders -> Row]
<1> DEFINE r == request[w]
           o == r.order
           p == payments[o]
<1>1. r \in Session /\ r.step = "saving" /\ GrantInv(w) /\ lock[Account] = w
  BY KindOf DEF AdminCommits, GrantInv
<1>2. CASE o = NoOrder
  BY <1>1, <1>2 DEF AdminCommits, IInv, TypeOK, Row
<1>3. CASE o # NoOrder
  <2>1. o \in Orders /\ p \in Payment /\ lock[o] = w /\ charges[o] = 0 /\ r.row = mark_credit_granted(p)
        /\ r.row.status = "APPROVED" /\ r.row.environment = "LIVE"
    BY <1>1, <1>3 DEF GrantInv, Session, IInv, TypeOK
  <2>2. /\ r.row \in Payment /\ r.row.status = p.status /\ r.row.environment = p.environment
        /\ r.row.txn = p.txn
    BY <2>1, GrantFields
  <2>3. can_grant_credit(p)
    BY <2>1, <2>2, NotARow DEF can_grant_credit, IInv, CreditIsBookedOnce
  <2>4. payments' = [payments EXCEPT ![o] = r.row] /\ charges' = [charges EXCEPT ![o] = charges[o] + 1]
    BY <1>3 DEF AdminCommits, Update
  <2>5. payments'[o] = r.row /\ charges'[o] = 1
    BY <2>1, <2>4 DEF IInv, TypeOK
  <2>6. Credits(o)
    BY <2>1, <2>3, <2>5 DEF Credits
  <2>7. \A k \in Orders \ {o} : Untouched(k)
    BY <2>1, <2>4 DEF Untouched, IInv, TypeOK
  <2>8. payments' \in [Orders -> Row] /\ charges' \in [Orders -> Nat]
    BY <2>1, <2>2, <2>4 DEF IInv, TypeOK, Row
  <2> QED
    BY <1>1, <1>3, <2>1, <2>2, <2>5, <2>6, <2>7, <2>8
<1> QED
  BY <1>2, <1>3

-----------------------------------------------------------------------------
(* The steps that commit.                                                  *)

LEMMA NotCreditable ==
  ASSUME NEW p \in Payment, NEW s \in Sale, Settled(p, s), ~can_grant_credit(Approval(p, s))
  PROVE  ~can_grant_credit(p)
BY CreditableStays DEF Settled

\* A changed order keeps its row fit, its charge booked and the others' ground.
LEMMA ChangeFits ==
  ASSUME IInv, NEW o \in Orders, Changed(o)
  PROVE  /\ payments'[o] # NoRow
         /\ payments'[o].credit_granted =>
              payments'[o].status = "APPROVED" /\ payments'[o].environment = "LIVE"
         /\ payments'[o].status = "APPROVED" => payments'[o].environment # "UNKNOWN"
         /\ charges'[o] = (IF payments'[o].credit_granted THEN 1 ELSE 0)
         /\ payments[o] # NoRow =>
              /\ payments[o].credit_granted => payments'[o].credit_granted
              /\ can_grant_credit(payments[o]) => Credits(o) /\ payments'[o].credit_granted
<1> DEFINE p == payments[o]
           q == payments'[o]
<1>1. p # NoRow => p \in Payment
  BY DEF IInv, TypeOK
<1>2. p # NoRow /\ p.credit_granted => p.status = "APPROVED" /\ p.environment = "LIVE"
  BY DEF IInv, RowsFit
<1>3. charges[o] = (IF p # NoRow /\ p.credit_granted THEN 1 ELSE 0)
  BY DEF IInv, CreditIsBookedOnce
<1>4. CASE Created(o)
  <2>1. NewPayment \in Payment /\ NewPayment.status = "READY" /\ ~NewPayment.credit_granted
    BY DEF NewPayment, Payment
  <2> QED
    BY <1>3, <1>4, <2>1, NotARow DEF Created
<1>5. CASE Approves(o)
  <2>1. PICK s \in Sale : Settled(p, s) /\ q = Approval(p, s)
    BY <1>5 DEF Approves
  <2>2. /\ p \in Payment /\ q \in Payment /\ q.status = "APPROVED"
        /\ q.environment = s.environment /\ q.credit_granted = p.credit_granted
        /\ ~can_grant_credit(q) /\ charges'[o] = charges[o]
    BY <1>5, <2>1, ApprovalFields DEF Approves
  <2>3. ~can_grant_credit(p)
    BY <2>1, <2>2, NotCreditable
  <2>4. s.environment \in {"TEST", "LIVE"} /\ p.environment \in {"UNKNOWN", s.environment}
    BY <2>1 DEF Sale, Settled, MayAssignEnvironment
  <2> QED
    BY <1>2, <1>3, <2>2, <2>3, <2>4, NotARow
<1>6. CASE Credits(o)
  <2>1. PICK r \in Payment : can_grant_credit(r) /\ q = mark_credit_granted(r)
    BY <1>6 DEF Credits
  <2>2. q \in Payment /\ q.status = "APPROVED" /\ q.environment = "LIVE" /\ q.credit_granted
    BY <2>1, GrantFields DEF can_grant_credit
  <2> QED
    BY <1>6, <2>2, NotARow DEF Credits
<1> QED
  BY <1>4, <1>5, <1>6 DEF Changed

\* The tables after a step that changes one order at most.
LEMMA ChangedTables ==
  ASSUME IInv, OneOrderChanges
  PROVE  RowsFit' /\ CreditIsBookedOnce'
<1>1. CASE payments' = payments /\ charges' = charges
  BY <1>1 DEF IInv, RowsFit, CreditIsBookedOnce
<1>2. CASE \E o \in Orders : Changed(o) /\ \A q \in Orders \ {o} : Untouched(q)
  <2>1. PICK o \in Orders : Changed(o) /\ \A q \in Orders \ {o} : Untouched(q)
    BY <1>2
  <2>2. RowsFit'
    BY <2>1, ChangeFits DEF RowsFit, IInv, Untouched
  <2>3. CreditIsBookedOnce'
    BY <2>1, ChangeFits DEF CreditIsBookedOnce, IInv, Untouched
  <2> QED
    BY <2>2, <2>3
<1> QED
  BY <1>1, <1>2 DEF OneOrderChanges

\* Nobody else has what the step has changed: neither the order's lock nor, if
\* it was credited, the account.
LEMMA ChangedOthers ==
  ASSUME IInv, NEW t \in Requests, NEW o \in Orders, Changed(o),
         \A q \in Orders \ {o} : Untouched(q),
         lock[o] # t \/ Created(o),
         lock[Account] # t \/ ~Credits(o),
         \A l \in Locks : lock[l] = t => lock'[l] = t
  PROVE  OthersKeep(t)
<1>1. \A q \in Orders : charges'[q] = charges[q] \/ (q = o /\ Credits(o))
  BY DEF Changed, Created, Approves, Untouched
<1>2. /\ payments'[o] # NoRow
      /\ payments[o] # NoRow =>
           /\ payments[o].credit_granted => payments'[o].credit_granted
           /\ can_grant_credit(payments[o]) => Credits(o) /\ payments'[o].credit_granted
  BY ChangeFits
<1>3. payments[o] # NoRow => lock[o] # t
  BY DEF Created
<1> QED
  BY <1>1, <1>2, <1>3 DEF OthersKeep, Untouched

LEMMA CommitInv ==
  ASSUME IInv, NEW w \in Requests, CommitPayment(w)
  PROVE  IInv'
<1> DEFINE r == request[w]
           o == r.order
           e == event(w)
<1>1. /\ ConfirmInv(w) /\ o \in Orders /\ r.sale \in Sale
      /\ lock[o] = w /\ (r.charge => lock[Account] = w)
      /\ Changed(o) /\ (Credits(o) => r.charge) /\ ~Created(o)
      /\ \A q \in Orders \ {o} : Untouched(q)
      /\ payments'[o] \in Payment /\ payments'[o].status = "APPROVED"
      /\ payments'[o].txn = r.sale.txn
      /\ MayAssignTxn(payments[o], r.sale.txn)
      /\ charges' \in [Orders -> Nat] /\ payments' \in [Orders -> Row]
  BY CommitChanges, NotARow DEF Changed, Approves, Credits, Created
<1>2. End(w) /\ UNCHANGED <<audits, bonuses, world>>
  BY DEF CommitPayment
<1>3. e \in Events /\ e[1] = provider(o) /\ e[2] = r.sale.txn
  BY <1>1 DEF event, Events, provider, Sale
<1>4. inbox' = [inbox EXCEPT ![e] = [order |-> o, status |-> "PROCESSED"]]
  BY DEF CommitPayment
<1>5. [order |-> o, status |-> "PROCESSED"] \in InboxRow
  BY <1>1 DEF InboxRow
<1>6. /\ lock' \in [Locks -> Requests \cup {Nobody}]
      /\ \A l \in Locks, t \in Requests \ {w} : lock[l] = t => lock'[l] = t
      /\ request' = [request EXCEPT ![w] = Idle] /\ request'[w] = Idle
  BY <1>2, EndLocks DEF IInv
<1>7. TypeOK'
  <2>1. inbox' \in [Events -> InboxRow \cup {NoRow}]
    BY <1>4, <1>5 DEF IInv, TypeOK
  <2>2. request' \in [Requests -> Session]
    BY <1>6, IdleSession DEF IInv, TypeOK
  <2> QED
    BY <1>1, <1>2, <1>6, <2>1, <2>2 DEF IInv, TypeOK, Row, world
<1>8. OneOrderChanges
  BY <1>1 DEF OneOrderChanges
<1>9. EventsAreSettled'
  <2> SUFFICES ASSUME NEW f \in Events, inbox'[f] # NoRow
               PROVE  /\ inbox'[f].status = "PROCESSED"
                      /\ provider(inbox'[f].order) = f[1]
                      /\ payments'[inbox'[f].order] # NoRow
                      /\ payments'[inbox'[f].order].status = "APPROVED"
                      /\ payments'[inbox'[f].order].txn = f[2]
    BY DEF EventsAreSettled, provider
  <2>1. CASE f = e
    <3>1. inbox'[f] = [order |-> o, status |-> "PROCESSED"]
      BY <1>3, <1>4, <2>1 DEF IInv, TypeOK
    <3> QED
      BY <1>1, <1>3, <2>1, <3>1, NotARow
  <2>2. CASE f # e
    <3>1. inbox'[f] = inbox[f]
      BY <1>3, <1>4, <2>2 DEF IInv, TypeOK
    <3>2. /\ inbox[f].status = "PROCESSED" /\ provider(inbox[f].order) = f[1]
          /\ payments[inbox[f].order] # NoRow
          /\ payments[inbox[f].order].status = "APPROVED" /\ payments[inbox[f].order].txn = f[2]
      BY <3>1 DEF IInv, EventsAreSettled
    <3>3. inbox[f].order \in Orders
      BY <3>1 DEF IInv, TypeOK, InboxRow
    <3>4. CASE inbox[f].order = o
      <4>1. f[2] \in Txns
        BY DEF Events
      <4>2. f[2] = r.sale.txn
        BY <1>1, <3>2, <3>4, <4>1, PaymentAssumption DEF MayAssignTxn
      <4> QED
        BY <1>1, <3>1, <3>2, <3>4, <4>2, NotARow
    <3>5. CASE inbox[f].order # o
      BY <1>1, <3>1, <3>2, <3>3, <3>5 DEF Untouched
    <3> QED
      BY <3>4, <3>5
  <2> QED
    BY <2>1, <2>2
<1>10. KeyPaysOnce'
  BY <1>2 DEF IInv, KeyPaysOnce
<1>11. ASSUME NEW t \in Requests \ {w} PROVE SessionInv(t)'
  <2>1. lock[o] # t /\ (lock[Account] # t \/ ~Credits(o))
    BY <1>1
  <2>2. OthersKeep(t)
    BY <1>1, <1>6, <2>1, ChangedOthers
  <2>3. request'[t] = request[t]
    BY <1>6 DEF IInv, TypeOK
  <2> QED
    BY <2>2, <2>3, OtherSession
<1>12. SessionInv(w)'
  BY <1>6 DEF SessionInv
<1> QED
  BY <1>7, <1>8, <1>9, <1>10, <1>11, <1>12, ChangedTables DEF IInv

LEMMA AdminCommitsInv ==
  ASSUME IInv, NEW w \in Requests, AdminCommits(w)
  PROVE  IInv'
<1> DEFINE r == request[w]
           o == r.order
           k == r.key
           a == [order |-> o]
<1>1. /\ GrantInv(w) /\ lock[Account] = w
      /\ o = NoOrder => payments' = payments /\ charges' = charges
      /\ o # NoOrder =>
           /\ o \in Orders /\ lock[o] = w /\ Credits(o)
           /\ \A q \in Orders \ {o} : Untouched(q)
           /\ payments'[o] \in Payment /\ payments'[o].status = "APPROVED"
           /\ payments'[o].txn = payments[o].txn
      /\ charges' \in [Orders -> Nat] /\ payments' \in [Orders -> Row]
  BY AdminCommitChanges
<1>2. End(w) /\ UNCHANGED <<inbox, world>> /\ audits[k] = NoRow
  BY DEF AdminCommits, KeyIsFree
<1>3. k \in Keys /\ o \in Orders \cup {NoOrder} /\ a \in Audit /\ a # NoRow
  BY <1>1, SessionTypes, PaymentAssumption DEF GrantInv, IInv, Audit
<1>4. audits' = [audits EXCEPT ![k] = a]
  BY DEF AdminCommits
<1>5. bonuses' = IF o = NoOrder THEN [bonuses EXCEPT ![k] = bonuses[k] + 1] ELSE bonuses
  BY DEF AdminCommits
<1>6. /\ lock' \in [Locks -> Requests \cup {Nobody}]
      /\ \A l \in Locks, t \in Requests \ {w} : lock[l] = t => lock'[l] = t
      /\ request' = [request EXCEPT ![w] = Idle] /\ request'[w] = Idle
  BY <1>2, EndLocks DEF IInv
<1>7. TypeOK'
  <2>1. audits' \in [Keys -> Audit \cup {NoRow}] /\ bonuses' \in [Keys -> Nat]
    BY <1>3, <1>4, <1>5 DEF IInv, TypeOK
  <2>2. request' \in [Requests -> Session]
    BY <1>6, IdleSession DEF IInv, TypeOK
  <2> QED
    BY <1>1, <1>2, <1>6, <2>1, <2>2 DEF IInv, TypeOK, Row, world
<1>8. OneOrderChanges
  BY <1>1, <1>3 DEF OneOrderChanges, Changed
<1>9. EventsAreSettled'
  <2> SUFFICES ASSUME NEW f \in Events, inbox[f] # NoRow
               PROVE  LET q == inbox[f].order IN
                        /\ payments'[q] # NoRow
                        /\ payments'[q].status = "APPROVED" /\ payments'[q].txn = f[2]
    BY <1>2 DEF IInv, EventsAreSettled, provider
  <2>1. LET q == inbox[f].order IN
          /\ q \in Orders /\ payments[q] # NoRow
          /\ payments[q].status = "APPROVED" /\ payments[q].txn = f[2]
    BY DEF IInv, EventsAreSettled, TypeOK, InboxRow
  <2> QED
    BY <1>1, <1>3, <2>1, NotARow DEF Untouched
<1>10. KeyPaysOnce'
  <2> SUFFICES ASSUME NEW c \in Keys
               PROVE  bonuses'[c] = (IF audits'[c] # NoRow /\ audits'[c].order = NoOrder THEN 1 ELSE 0)
    BY DEF KeyPaysOnce
  <2>1. bonuses[c] = (IF audits[c] # NoRow /\ audits[c].order = NoOrder THEN 1 ELSE 0)
    BY DEF IInv, KeyPaysOnce
  <2>2. CASE c = k
    <3>1. audits'[c] = a /\ a.order = o /\ bonuses[c] = 0
      BY <1>2, <1>3, <1>4, <2>1, <2>2 DEF IInv, TypeOK
    <3>2. bonuses'[c] = IF o = NoOrder THEN 1 ELSE 0
      BY <1>3, <1>5, <2>2, <3>1 DEF IInv, TypeOK
    <3> QED
      BY <1>3, <3>1, <3>2
  <2>3. CASE c # k
    BY <1>3, <1>4, <1>5, <2>1, <2>3 DEF IInv, TypeOK
  <2> QED
    BY <2>2, <2>3
<1>11. ASSUME NEW t \in Requests \ {w} PROVE SessionInv(t)'
  <2>1. OthersKeep(t)
    <3>1. CASE o = NoOrder
      BY <1>1, <1>6, <3>1 DEF OthersKeep
    <3>2. CASE o # NoOrder
      <4>1. o \in Orders /\ Changed(o) /\ lock[o] # t /\ lock[Account] # t
        BY <1>1, <3>2 DEF Changed
      <4> QED
        BY <1>1, <1>6, <3>2, <4>1, ChangedOthers
    <3> QED
      BY <3>1, <3>2
  <2>2. request'[t] = request[t]
    BY <1>6 DEF IInv, TypeOK
  <2> QED
    BY <2>1, <2>2, OtherSession
<1>12. SessionInv(w)'
  BY <1>6 DEF SessionInv
<1> QED
  BY <1>7, <1>8, <1>9, <1>10, <1>11, <1>12, ChangedTables DEF IInv

\* A new order is nobody's yet.
LEMMA CheckoutInv ==
  ASSUME IInv, NEW o \in Orders, Checkout(o)
  PROVE  IInv' /\ Created(o) /\ \A q \in Orders \ {o} : Untouched(q)
<1>1. payments' = [payments EXCEPT ![o] = NewPayment] /\ payments[o] = NoRow
  BY DEF Checkout, Add
<1>2. UNCHANGED <<inbox, charges, audits, bonuses, sale, expected, lock, request>>
  BY DEF Checkout
<1>3. NewPayment \in Payment
  BY DEF NewPayment, Payment
<1>4. TypeOK'
  BY <1>1, <1>2, <1>3 DEF IInv, TypeOK
<1>5. Created(o) /\ \A q \in Orders \ {o} : Untouched(q)
  BY <1>1, <1>2 DEF Created, Untouched, IInv, TypeOK
<1>6. RowsFit' /\ CreditIsBookedOnce'
  BY <1>5, ChangedTables DEF OneOrderChanges, Changed
<1>7. EventsAreSettled'
  <2> SUFFICES ASSUME NEW e \in Events, inbox[e] # NoRow
               PROVE  payments'[inbox[e].order] = payments[inbox[e].order]
    BY <1>2 DEF IInv, EventsAreSettled, provider
  <2>1. inbox[e].order \in Orders /\ payments[inbox[e].order] # NoRow
    BY DEF IInv, TypeOK, EventsAreSettled, InboxRow
  <2> QED
    BY <1>1, <1>5, <2>1 DEF Untouched
<1>8. KeyPaysOnce'
  BY <1>2 DEF IInv, KeyPaysOnce
<1>9. ASSUME NEW t \in Requests PROVE SessionInv(t)'
  <2>1. lock[Account] # t \/ ~Credits(o)
    BY <1>1, NotARow DEF Credits
  <2>2. OthersKeep(t)
    BY <1>2, <1>5, <2>1, ChangedOthers DEF Changed
  <2> QED
    BY <1>2, <2>2, OtherSession
<1> QED
  BY <1>4, <1>5, <1>6, <1>7, <1>8, <1>9 DEF IInv

-----------------------------------------------------------------------------
(* The invariant.                                                          *)

\* The rows of earlier versions fit; nothing is booked and nobody is at work.
LEMMA InitInv == Init => IInv
<1> SUFFICES ASSUME Init
             PROVE  IInv
  OBVIOUS
<1>1. /\ NewPayment \in Payment /\ ~NewPayment.credit_granted /\ NewPayment.status = "READY"
      /\ DuePayment \in Payment /\ ~DuePayment.credit_granted /\ DuePayment.environment = "LIVE"
  BY DEF NewPayment, DuePayment, Payment
<1>2. TypeOK
  BY <1>1, IdleSession DEF Init, TypeOK
<1>3. RowsFit /\ CreditIsBookedOnce
  BY <1>1 DEF Init, RowsFit, CreditIsBookedOnce
<1>4. EventsAreSettled /\ KeyPaysOnce
  BY DEF Init, EventsAreSettled, KeyPaysOnce
<1>5. \A w \in Requests : SessionInv(w)
  BY DEF Init, SessionInv
<1> QED
  BY <1>2, <1>3, <1>4, <1>5 DEF IInv

\* The world outside, and steps of nobody, leave the sessions what they know.
LEMMA OutsideInv ==
  ASSUME IInv, UNCHANGED <<tables, lock, request>>,
         sale' \in [Orders -> Sale \cup {NoSale}]
  PROVE  IInv'
<1>1. TypeOK'
  BY DEF IInv, TypeOK, tables
<1>2. ASSUME NEW t \in Requests PROVE SessionInv(t)'
  <2>1. OthersKeep(t)
    BY DEF OthersKeep, tables
  <2> QED
    BY <2>1, OtherSession
<1>3. TablesFit'
  BY TablesKept DEF IInv, TablesFit
<1> QED
  BY <1>1, <1>2, <1>3 DEF IInv, TablesFit

LEMMA StepInv ==
  ASSUME IInv, NEW w \in Requests, Begin(w) \/ Step(w) \/ DeadlockVictim(w) \/ Fail(w)
  PROVE  IInv'
<1>1. CASE AlreadyProcessed(w) \/ Reject(w) \/ DeadlockVictim(w) \/ Fail(w)
  BY <1>1, EndInv DEF AlreadyProcessed, Reject, DeadlockVictim, Fail
<1> QED
  BY <1>1, BeginInv, AskInv, AcquireInv, ApproveInv, GrantCreditInv, CommitInv,
     AdminChargesInv, AdminUpdatesInv, AdminCommitsInv DEF Step

LEMMA NextInv == IInv /\ [Next]_vars => IInv'
<1> SUFFICES ASSUME IInv, [Next]_vars
             PROVE  IInv'
  OBVIOUS
<1>1. sale \in [Orders -> Sale \cup {NoSale}]
  BY DEF IInv, TypeOK
<1>2. ASSUME NEW o \in Orders, Pay(o) \/ CancelAtProvider(o) PROVE IInv'
  <2>1. sale' \in [Orders -> Sale \cup {NoSale}]
    BY <1>1, <1>2 DEF Pay, CancelAtProvider
  <2> QED
    BY <1>2, <2>1, OutsideInv DEF Pay, CancelAtProvider
<1>3. CASE Redeploy
  BY <1>1, <1>3, OutsideInv DEF Redeploy
<1>4. CASE UNCHANGED vars
  BY <1>1, <1>4, OutsideInv DEF vars, tables
<1> QED
  BY <1>2, <1>3, <1>4, CheckoutInv, StepInv DEF Next

\* Every reachable state keeps the books and every session what it supposes.
THEOREM PaymentInvariant == Spec => []IInv
BY InitInv, NextInv, PTL DEF Spec

\* However confirmations, webhooks, callbacks and grants by hand interleave,
\* repeat and fail: a payment is marked as credited exactly when the account
\* has its one charge.
THEOREM BooksTheorem == Spec => []CreditIsBookedOnce
<1>1. IInv => CreditIsBookedOnce
  BY DEF IInv
<1> QED
  BY <1>1, PaymentInvariant, PTL

\* A recorded event has had its full effect, on the order it names.
THEOREM EventsTheorem == Spec => []EventsAreSettled
<1>1. IInv => EventsAreSettled
  BY DEF IInv
<1> QED
  BY <1>1, PaymentInvariant, PTL

\* An idempotency key pays once, however its requests overlap.
THEOREM KeysTheorem == Spec => []KeyPaysOnce
<1>1. IInv => KeyPaysOnce
  BY DEF IInv
<1> QED
  BY <1>1, PaymentInvariant, PTL

-----------------------------------------------------------------------------
(* The steps.                                                              *)

\* Only a checkout and the two commits change orders, and only one each.
LEMMA StepChanges == IInv /\ [Next]_vars => OneOrderChanges
<1> SUFFICES ASSUME IInv, [Next]_vars, ~(payments' = payments /\ charges' = charges)
             PROVE  \E o \in Orders : Changed(o) /\ \A q \in Orders \ {o} : Untouched(q)
  BY DEF OneOrderChanges
<1>1. ASSUME NEW o \in Orders, Checkout(o)
      PROVE  \E p \in Orders : Changed(p) /\ \A q \in Orders \ {p} : Untouched(q)
  BY <1>1, CheckoutInv DEF Changed
<1>2. ASSUME NEW w \in Requests, CommitPayment(w)
      PROVE  \E p \in Orders : Changed(p) /\ \A q \in Orders \ {p} : Untouched(q)
  BY <1>2, CommitChanges DEF Changed
<1>3. ASSUME NEW w \in Requests, AdminCommits(w)
      PROVE  \E p \in Orders : Changed(p) /\ \A q \in Orders \ {p} : Untouched(q)
  BY <1>3, AdminCommitChanges DEF Changed
<1>4. ASSUME NEW w \in Requests, Begin(w) PROVE FALSE
  BY <1>4 DEF Begin, Confirm, Callback, Recheck, AdminGrantsPayment, AdminGrantsBonus, Open, tables
<1>5. ASSUME NEW w \in Requests, Step(w), ~CommitPayment(w), ~AdminCommits(w) PROVE FALSE
  BY <1>5 DEF Step, Ask, AcquireInbox, AlreadyProcessed, ApprovePayment, GrantCredit,
     AdminCharges, AdminUpdatesPayment, Reject, tables
<1>6. ASSUME NEW w \in Requests, DeadlockVictim(w) \/ Fail(w) PROVE FALSE
  BY <1>6 DEF DeadlockVictim, Fail, tables
<1>7. ASSUME NEW o \in Orders, Pay(o) \/ CancelAtProvider(o) PROVE FALSE
  BY <1>7 DEF Pay, CancelAtProvider, tables
<1>8. ~Redeploy /\ ~UNCHANGED vars
  BY DEF Redeploy, vars, tables
<1> QED
  BY <1>1, <1>2, <1>3, <1>4, <1>5, <1>6, <1>7, <1>8 DEF Next

\* What a changed order was and is.
LEMMA ChangeFields ==
  ASSUME IInv, NEW o \in Orders, Changed(o)
  PROVE  LET p == payments[o]  q == payments'[o] IN
         \/ Created(o) /\ q.status = "READY"
         \/ /\ Approves(o) /\ p # NoRow /\ q.status = "APPROVED" /\ q.credit_granted = p.credit_granted
            /\ p.environment \in {"UNKNOWN", q.environment} /\ p.txn \in {NoTxn, q.txn}
            /\ ~can_grant_credit(q) /\ ~can_grant_credit(p)
         \/ /\ Credits(o) /\ p # NoRow /\ q.status = "APPROVED" /\ q.credit_granted /\ ~p.credit_granted
            /\ p.environment \in {"UNKNOWN", q.environment} /\ p.txn \in {NoTxn, q.txn}
            /\ q.environment = "LIVE"
<1> DEFINE p == payments[o]
           q == payments'[o]
<1>1. CASE Created(o)
  BY <1>1 DEF Created, NewPayment
<1>2. CASE Approves(o)
  <2>1. PICK s \in Sale : Settled(p, s) /\ q = Approval(p, s)
    BY <1>2 DEF Approves
  <2>2. ~can_grant_credit(p)
    BY <1>2, <2>1, NotCreditable DEF Approves
  <2> QED
    BY <1>2, <2>1, <2>2, ApprovalFields, NotARow
       DEF Approves, Settled, MayAssignEnvironment, MayAssignTxn
<1>3. CASE Credits(o)
  <2>1. PICK r \in Payment :
          /\ r = p \/ \E s \in Sale : Settled(p, s) /\ r = Approval(p, s)
          /\ can_grant_credit(r) /\ q = mark_credit_granted(r)
    BY <1>3 DEF Credits
  <2>2. /\ q.status = "APPROVED" /\ q.environment = "LIVE" /\ q.credit_granted
        /\ q.environment = r.environment /\ q.txn = r.txn /\ ~r.credit_granted
    BY <2>1, GrantFields DEF can_grant_credit
  <2>3. CASE r = p
    BY <1>3, <2>2, <2>3, NotARow DEF Credits
  <2>4. CASE \E s \in Sale : Settled(p, s) /\ r = Approval(p, s)
    <3>1. PICK s \in Sale : Settled(p, s) /\ r = Approval(p, s)
      BY <2>4
    <3>2. /\ p \in Payment /\ r.environment = s.environment /\ r.txn = s.txn
          /\ r.credit_granted = p.credit_granted
      BY <3>1, ApprovalFields DEF Settled
    <3>3. p.environment \in {"UNKNOWN", r.environment} /\ p.txn \in {NoTxn, r.txn}
      BY <3>1, <3>2 DEF Settled, MayAssignEnvironment, MayAssignTxn
    <3> QED
      BY <1>3, <2>2, <3>2, <3>3, NotARow
  <2> QED
    BY <2>1, <2>3, <2>4
<1> QED
  BY <1>1, <1>2, <1>3 DEF Changed

LEMMA ChangedOrNot ==
  ASSUME IInv, [Next]_vars, NEW o \in Orders
  PROVE  Changed(o) \/ Untouched(o)
BY StepChanges DEF OneOrderChanges, Untouched

\* No step leaves an approved live payment without its credit.
THEOREM MissingCreditTheorem == Spec => MissingCreditNeverGrows
<1> DEFINE Missing == \A o \in Orders : missing_credit(o)' => missing_credit(o)
<1>1. ASSUME IInv, [Next]_vars PROVE Missing
  <2> SUFFICES ASSUME NEW o \in Orders, missing_credit(o)' PROVE missing_credit(o)
    OBVIOUS
  <2>1. CASE Untouched(o)
    BY <2>1 DEF Untouched, missing_credit
  <2>2. CASE Changed(o)
    BY <1>1, <2>2, ChangeFields DEF missing_credit, can_grant_credit
  <2> QED
    BY <1>1, <2>1, <2>2, ChangedOrNot
<1>2. IInv /\ [Next]_vars => [Missing]_vars
  BY <1>1
<1> QED
  BY <1>2, PaymentInvariant, PTL DEF Spec, MissingCreditNeverGrows

\* No step takes an approval back, nor what it was for.
THEOREM ApprovalsTheorem == Spec => ApprovalsAreFinal
<1> DEFINE Final == \A o \in Orders :
                      LET p == payments[o] IN
                      p # NoRow /\ p.status = "APPROVED" =>
                        /\ payments'[o].status = "APPROVED"
                        /\ payments'[o].environment = p.environment
                        /\ p.txn # NoTxn => payments'[o].txn = p.txn
                        /\ p.credit_granted => payments'[o].credit_granted
<1>1. ASSUME IInv, [Next]_vars PROVE Final
  <2> SUFFICES ASSUME NEW o \in Orders, payments[o] # NoRow, payments[o].status = "APPROVED"
               PROVE  /\ payments'[o].status = "APPROVED"
                      /\ payments'[o].environment = payments[o].environment
                      /\ payments[o].txn # NoTxn => payments'[o].txn = payments[o].txn
                      /\ payments[o].credit_granted => payments'[o].credit_granted
    OBVIOUS
  <2>1. payments[o].environment # "UNKNOWN"
    BY <1>1 DEF IInv, RowsFit
  <2>2. CASE Untouched(o)
    BY <2>2 DEF Untouched
  <2>3. CASE Changed(o)
    BY <1>1, <2>1, <2>3, ChangeFields DEF Created
  <2> QED
    BY <1>1, <2>2, <2>3, ChangedOrNot
<1>2. IInv /\ [Next]_vars => [Final]_vars
  BY <1>1
<1> QED
  BY <1>2, PaymentInvariant, PTL DEF Spec, ApprovalsAreFinal

-----------------------------------------------------------------------------
(* Refinement.                                                             *)

LEMMA StandingOf ==
  ASSUME NEW o \in Orders
  PROVE  LET p == payments[o] IN
         /\ p = NoRow => Standing(o) = "ABSENT"
         /\ p # NoRow /\ p.status = "READY" => Standing(o) = "OPEN"
         /\ p # NoRow /\ p.status = "APPROVED" /\ p.environment = "TEST" => Standing(o) = "TESTED"
         /\ p # NoRow /\ p.status = "APPROVED" /\ p.environment # "TEST" =>
              Standing(o) = IF p.credit_granted THEN "CREDITED" ELSE "DUE"
BY DEF Standing

\* A changed order takes one of the steps PaidOrder allows, or keeps its standing.
OrderStep(o) ==
  \/ Standing(o)' = Standing(o) /\ charges'[o] = charges[o]
  \/ Standing(o) = "ABSENT" /\ Standing(o)' = "OPEN" /\ charges'[o] = charges[o]
  \/ Standing(o) = "OPEN" /\ Standing(o)' = "TESTED" /\ charges'[o] = charges[o]
  \/ Standing(o) \in {"OPEN", "DUE"} /\ Standing(o)' = "CREDITED" /\ charges'[o] = charges[o] + 1

LEMMA ChangeIsAllowed ==
  ASSUME IInv, NEW o \in Orders, Changed(o)
  PROVE  OrderStep(o)
<1> DEFINE p == payments[o]
           q == payments'[o]
<1>1. /\ q # NoRow
      /\ q.status = "READY" => Standing(o)' = "OPEN"
      /\ q.status = "APPROVED" /\ q.environment = "TEST" => Standing(o)' = "TESTED"
      /\ q.status = "APPROVED" /\ q.environment # "TEST" =>
           Standing(o)' = IF q.credit_granted THEN "CREDITED" ELSE "DUE"
  <2>1. q # NoRow
    BY ChangeFits
  <2> QED
    BY <2>1 DEF Standing
<1>2. p # NoRow => /\ p \in Payment
                   /\ p.credit_granted => p.status = "APPROVED" /\ p.environment = "LIVE"
                   /\ p.status = "APPROVED" => p.environment # "UNKNOWN"
  BY DEF IInv, TypeOK, RowsFit
<1>3. CASE Created(o) /\ q.status = "READY"
  BY <1>1, <1>3, StandingOf DEF Created, OrderStep
<1>4. CASE /\ Approves(o) /\ p # NoRow /\ q.status = "APPROVED" /\ q.credit_granted = p.credit_granted
           /\ p.environment \in {"UNKNOWN", q.environment}
           /\ ~can_grant_credit(q) /\ ~can_grant_credit(p)
  <2>1. charges'[o] = charges[o] /\ p \in Payment /\ q \in Payment
    BY <1>4, ApprovalFields DEF Approves, Settled
  <2>2. q.environment \in {"TEST", "LIVE"}
    BY <1>4, ApprovalFields DEF Approves, Settled, Sale
  <2>3. CASE p.status = "READY"
    <3>1. ~p.credit_granted /\ q.environment = "TEST"
      BY <1>2, <1>4, <2>2, <2>3 DEF can_grant_credit
    <3> QED
      BY <1>1, <1>4, <2>1, <2>3, <3>1, StandingOf DEF OrderStep
  <2>4. CASE p.status = "APPROVED"
    <3>1. q.environment = p.environment
      BY <1>2, <1>4, <2>4
    <3> QED
      BY <1>1, <1>4, <2>1, <2>4, <3>1, StandingOf DEF OrderStep
  <2> QED
    BY <2>1, <2>3, <2>4 DEF Payment
<1>5. CASE /\ Credits(o) /\ p # NoRow /\ q.status = "APPROVED" /\ q.credit_granted /\ ~p.credit_granted
           /\ p.environment \in {"UNKNOWN", q.environment} /\ q.environment = "LIVE"
  <2>1. charges'[o] = charges[o] + 1 /\ p \in Payment /\ Standing(o)' = "CREDITED"
    BY <1>1, <1>5 DEF Credits
  <2>2. CASE p.status = "READY"
    BY <1>5, <2>1, <2>2, StandingOf DEF OrderStep
  <2>3. CASE p.status = "APPROVED"
    <3>1. p.environment = "LIVE"
      BY <1>2, <1>5, <2>3
    <3> QED
      BY <1>5, <2>1, <2>3, <3>1, StandingOf DEF OrderStep
  <2> QED
    BY <2>1, <2>2, <2>3 DEF Payment
<1> QED
  BY <1>3, <1>4, <1>5, ChangeFields

\* The service implements the promise: each order is settled once, and credited
\* in the step that settles it.
THEOREM PaidOrderTheorem == Spec => ImplementsPaidOrder
<1> DEFINE order == [o \in Orders |-> Standing(o)]
<1>1. Init => Promise!Init
  <2> SUFFICES ASSUME Init
               PROVE  Promise!Init
    OBVIOUS
  <2>1. /\ NewPayment \in Payment /\ NewPayment.status = "READY"
        /\ DuePayment \in Payment /\ DuePayment.status = "APPROVED"
        /\ DuePayment.environment = "LIVE" /\ ~DuePayment.credit_granted
    BY DEF NewPayment, DuePayment, Payment
  <2>2. \A o \in Orders : Standing(o) \in {"ABSENT", "OPEN", "DUE"}
    BY <2>1, StandingOf, NotARow DEF Init
  <2>3. charges = [o \in Orders |-> 0]
    BY DEF Init
  <2> QED
    BY <2>2, <2>3 DEF Promise!Init
<1>2. ASSUME IInv, [Next]_vars PROVE Promise!Next \/ UNCHANGED <<order, charges>>
  <2>1. CASE payments' = payments /\ charges' = charges
    <3>1. \A o \in Orders : Standing(o)' = Standing(o)
      BY <2>1 DEF Standing
    <3> QED
      BY <2>1, <3>1
  <2>2. CASE \E o \in Orders : Changed(o) /\ \A q \in Orders \ {o} : Untouched(q)
    <3>1. PICK o \in Orders : Changed(o) /\ \A q \in Orders \ {o} : Untouched(q)
      BY <2>2
    <3>2. \A q \in Orders \ {o} : Standing(q)' = Standing(q) /\ charges'[q] = charges[q]
      BY <3>1 DEF Untouched, Standing
    <3>3. charges \in [Orders -> Nat] /\ charges' \in [Orders -> Nat]
      BY <1>2, NextInv DEF IInv, TypeOK
    <3>4. OrderStep(o)
      BY <1>2, <3>1, ChangeIsAllowed
    <3>5. order' = [order EXCEPT ![o] = Standing(o)'] /\ order[o] = Standing(o)
      BY <3>2
    <3>6. charges' = [charges EXCEPT ![o] = charges'[o]]
      BY <3>2, <3>3
    <3> HIDE DEF order
    <3>7. CASE Standing(o)' = Standing(o) /\ charges'[o] = charges[o]
      BY <3>3, <3>5, <3>6, <3>7 DEF order
    <3>8. CASE Standing(o) = "ABSENT" /\ Standing(o)' = "OPEN" /\ charges'[o] = charges[o]
      BY <3>3, <3>5, <3>6, <3>8 DEF order, Promise!Next, Promise!Create
    <3>9. CASE Standing(o) = "OPEN" /\ Standing(o)' = "TESTED" /\ charges'[o] = charges[o]
      BY <3>3, <3>5, <3>6, <3>9 DEF order, Promise!Next, Promise!Test
    <3>10. CASE Standing(o) \in {"OPEN", "DUE"} /\ Standing(o)' = "CREDITED" /\ charges'[o] = charges[o] + 1
      BY <3>3, <3>5, <3>6, <3>10 DEF order, Promise!Next, Promise!Credit
    <3> QED
      BY <3>4, <3>7, <3>8, <3>9, <3>10 DEF OrderStep
  <2> QED
    BY <1>2, <2>1, <2>2, StepChanges DEF OneOrderChanges
<1>3. IInv /\ [Next]_vars => [Promise!Next]_(Promise!vars)
  BY <1>2 DEF Promise!vars
<1> QED
  BY <1>1, <1>3, PaymentInvariant, PTL DEF Spec, ImplementsPaidOrder, Promise!Spec

-----------------------------------------------------------------------------
(* The order of the locks                                                  *)

\* The locks a session may hold on its way.
HeldOn(w) ==
  LET r == request[w] IN
    CASE r.step = "locking" -> {event(w)}
      [] r.step = "crediting" /\ r.kind # "grant" -> {event(w), r.order}
      [] r.step = "updating" -> {Account}
      [] r.step = "saving" -> {event(w), r.order, Account}
      [] OTHER -> {}

LocksAreOwn == \A l \in Locks, w \in Requests : lock[l] = w => l \in HeldOn(w)

\* The event of a confirmation comes before its payment, and that before the
\* account; a grant by hand locks the account first.
Rank(w) ==
  CASE request[w].step = "acquiring" -> 1
    [] request[w].step = "locking" -> 2
    [] request[w].step = "crediting" -> 3
    [] request[w].step = "updating" -> 4
    [] OTHER -> 5

\* A grant by hand has the account and waits for its payment, which a
\* confirmation has locked that waits for the account.
Collide(w, v) ==
  /\ request[w].step = "updating" /\ request[v].step = "crediting"
  /\ request[v].kind # "grant" /\ request[v].order = request[w].order
  /\ Waits(v, w)

WaitsGoUp == \A w, v \in Requests : Waits(w, v) => Rank(w) < Rank(v) \/ Collide(w, v)

\* The rows of different tables have different locks.
LEMMA LockKinds ==
  ASSUME NEW l \in Locks
  PROVE  /\ l \in Orders \/ l \in Events \/ l = Account
         /\ l \in Orders => l \notin Events /\ l # Account
         /\ l \in Events => l # Account
BY PaymentAssumption DEF Locks

LEMMA ConfirmedEvent ==
  ASSUME TypeOK, NEW w \in Requests, ConfirmInv(w), request[w].step # "asking"
  PROVE  event(w) \in Events
BY DEF ConfirmInv, event, provider, Events, Sale

\* A session that goes on keeps its locks and may take one that was free.
LEMMA GoesOn ==
  ASSUME TypeOK, LocksAreOwn, NEW w \in Requests, NEW s \in Session,
         request' = [request EXCEPT ![w] = s], HeldOn(w) \subseteq HeldOn(w)',
         \A l \in Locks : lock'[l] = lock[l] \/ (lock'[l] = w /\ l \in HeldOn(w)')
  PROVE  LocksAreOwn'
<1> SUFFICES ASSUME NEW l \in Locks, NEW t \in Requests, lock'[l] = t
             PROVE  l \in HeldOn(t)'
  BY DEF LocksAreOwn
<1>1. CASE t = w
  BY <1>1 DEF LocksAreOwn
<1>2. CASE t # w
  <2>1. lock[l] = t /\ request'[t] = request[t]
    BY <1>2 DEF TypeOK
  <2>2. HeldOn(t)' = HeldOn(t)
    BY <2>1 DEF HeldOn, event
  <2> QED
    BY <2>1, <2>2 DEF LocksAreOwn
<1> QED
  BY <1>1, <1>2

\* A session that ends leaves none.
LEMMA EndsOwn ==
  ASSUME TypeOK, LocksAreOwn, NEW w \in Requests, End(w)
  PROVE  LocksAreOwn'
<1> SUFFICES ASSUME NEW l \in Locks, NEW t \in Requests, lock'[l] = t
             PROVE  l \in HeldOn(t)'
  BY DEF LocksAreOwn
<1>1. lock[l] = t /\ t # w
  BY PaymentAssumption DEF End, TypeOK
<1>2. request'[t] = request[t]
  BY <1>1, EndLocks DEF TypeOK
<1>3. HeldOn(t)' = HeldOn(t)
  BY <1>2 DEF HeldOn, event
<1> QED
  BY <1>1, <1>3 DEF LocksAreOwn

\* Each step of a session takes the lock it waited for, and no other.
LEMMA StepsOwn ==
  ASSUME IInv, IInv', LocksAreOwn, NEW w \in Requests,
         Begin(w) \/ Step(w) \/ DeadlockVictim(w) \/ Fail(w)
  PROVE  LocksAreOwn'
<1> DEFINE r == request[w]
<1>1. TypeOK /\ r \in Session /\ lock \in [Locks -> Requests \cup {Nobody}]
      /\ request'[w] \in Session
  BY DEF IInv, TypeOK
<1>2. CASE AlreadyProcessed(w) \/ CommitPayment(w) \/ AdminCommits(w) \/ Reject(w)
           \/ DeadlockVictim(w) \/ Fail(w)
  BY <1>1, <1>2, EndsOwn DEF AlreadyProcessed, CommitPayment, AdminCommits, Reject,
     DeadlockVictim, Fail
<1>3. CASE Begin(w) \/ Ask(w)
  <2>1. lock' = lock /\ HeldOn(w) = {}
    BY <1>3 DEF Begin, Confirm, Callback, Recheck, AdminGrantsPayment, AdminGrantsBonus,
       Open, Ask, HeldOn
  <2>2. request' = [request EXCEPT ![w] = request'[w]]
    BY <1>1, <1>3 DEF Begin, Confirm, Callback, Recheck, AdminGrantsPayment,
       AdminGrantsBonus, Open, Ask, TypeOK
  <2> QED
    BY <1>1, <2>1, <2>2, GoesOn
<1>4. CASE AcquireInbox(w)
  <2>1. HeldOn(w) = {} /\ HeldOn(w)' = {event(w)}
    BY <1>1, <1>4 DEF AcquireInbox, Ready, Goto, HeldOn, event, Session, TypeOK
  <2>2. request' = [request EXCEPT ![w] = request'[w]]
        /\ \A l \in Locks : lock'[l] = lock[l] \/ (lock'[l] = w /\ l = event(w))
    BY <1>1, <1>4 DEF AcquireInbox, Goto, Lock, TypeOK
  <2> QED
    BY <1>1, <2>1, <2>2, GoesOn
<1>5. CASE ApprovePayment(w)
  <2>1. r.step = "locking" /\ r.kind # "grant"
    <3>1. r.step = "locking" /\ SessionInv(w)
      BY <1>5 DEF ApprovePayment, Ready, IInv
    <3>2. ConfirmInv(w)
      BY <3>1 DEF SessionInv, Idle, GrantInv
    <3> QED
      BY <3>1, <3>2 DEF ConfirmInv
  <2>2. HeldOn(w) = {event(w)} /\ {event(w), r.order} \subseteq HeldOn(w)'
    BY <1>1, <1>5, <2>1 DEF ApprovePayment, HeldOn, event, Session, TypeOK
  <2>3. request' = [request EXCEPT ![w] = request'[w]]
        /\ \A l \in Locks : lock'[l] = lock[l] \/ (lock'[l] = w /\ l = r.order)
    BY <1>1, <1>5 DEF ApprovePayment, LockRow, Lock, TypeOK
  <2> QED
    BY <1>1, <2>2, <2>3, GoesOn
<1>6. CASE GrantCredit(w)
  <2>1. HeldOn(w) = {event(w), r.order} /\ HeldOn(w)' = {event(w), r.order, Account}
    BY <1>1, <1>6 DEF GrantCredit, Ready, HeldOn, event, Session, TypeOK
  <2>2. request' = [request EXCEPT ![w] = request'[w]]
        /\ \A l \in Locks : lock'[l] = lock[l] \/ (lock'[l] = w /\ l = Account)
    BY <1>1, <1>6 DEF GrantCredit, Lock, TypeOK
  <2> QED
    BY <1>1, <2>1, <2>2, GoesOn
<1>7. CASE AdminCharges(w)
  <2>1. HeldOn(w) = {} /\ Account \in HeldOn(w)'
    BY <1>1, <1>7 DEF AdminCharges, Ready, HeldOn, Session, TypeOK
  <2>2. request' = [request EXCEPT ![w] = request'[w]]
        /\ \A l \in Locks : lock'[l] = lock[l] \/ (lock'[l] = w /\ l = Account)
    BY <1>1, <1>7 DEF AdminCharges, Lock, TypeOK
  <2> QED
    BY <1>1, <2>1, <2>2, GoesOn
<1>8. CASE AdminUpdatesPayment(w)
  <2>1. HeldOn(w) = {Account} /\ {Account, r.order} \subseteq HeldOn(w)'
    BY <1>1, <1>8 DEF AdminUpdatesPayment, Ready, Goto, HeldOn, Session, TypeOK
  <2>2. request' = [request EXCEPT ![w] = request'[w]]
        /\ \A l \in Locks : lock'[l] = lock[l] \/ (lock'[l] = w /\ l = r.order)
    BY <1>1, <1>8 DEF AdminUpdatesPayment, Goto, Lock, TypeOK
  <2> QED
    BY <1>1, <2>1, <2>2, GoesOn
<1> QED
  BY <1>2, <1>3, <1>4, <1>5, <1>6, <1>7, <1>8 DEF Step

LEMMA OwnLocksWaitUp == IInv /\ LocksAreOwn => WaitsGoUp
<1> SUFFICES ASSUME IInv, LocksAreOwn, NEW w \in Requests, NEW v \in Requests, Waits(w, v)
             PROVE  Rank(w) < Rank(v) \/ Collide(w, v)
  BY DEF WaitsGoUp
<1> DEFINE r == request[w]
           s == request[v]
<1>1. /\ r.step \in {"acquiring", "locking", "updating", "crediting"}
      /\ r.step \in {"locking", "updating"} => lock[r.order] = v
      /\ r.step = "crediting" => lock[Account] = v
      /\ v # w
  BY DEF Waits, Wanted
<1>2. PICK l \in Wanted(w) : lock[l] = v
  BY DEF Waits
<1>3. SessionInv(w) /\ SessionInv(v) /\ TypeOK
  BY DEF IInv
<1>4. /\ r.step \in {"locking", "updating"} => r.order \in Orders
      /\ r.step = "updating" => lock[Account] = w
      /\ r.step = "acquiring" => event(w) \in Events
  BY <1>1, <1>3, ConfirmedEvent, SessionTypes DEF SessionInv, ConfirmInv, GrantInv, Idle
<1>5. l \in Locks
  BY <1>1, <1>2, <1>4 DEF Wanted, Locks
<1>6. l \in HeldOn(v)
  BY <1>2, <1>5 DEF LocksAreOwn
<1>7. s.step \in {"locking", "crediting", "updating", "saving"}
  BY <1>6 DEF HeldOn
<1>8. s.step \in {"locking", "crediting"} /\ l \in HeldOn(v) => event(v) \in Events /\ s.kind # "grant"
  BY <1>3, ConfirmedEvent DEF SessionInv, ConfirmInv, GrantInv, Idle, HeldOn
<1>9. CASE r.step = "acquiring"
  BY <1>7, <1>9 DEF Rank
<1>10. CASE r.step = "locking"
  <2>1. l = r.order /\ l \in Orders
    BY <1>2, <1>4, <1>10 DEF Wanted
  <2>2. s.step # "locking"
    BY <1>5, <1>6, <1>8, <2>1, LockKinds DEF HeldOn
  <2> QED
    BY <1>7, <1>10, <2>2 DEF Rank
<1>11. CASE r.step = "crediting"
  <2>1. l = Account
    BY <1>2, <1>11 DEF Wanted
  <2>2. s.order \in Orders \/ s.order = NoOrder
    BY <1>3, SessionTypes
  <2>3. s.step \notin {"locking", "crediting"}
    BY <1>3, <1>5, <1>6, <1>8, <2>1, LockKinds, PaymentAssumption
    DEF HeldOn, SessionInv, ConfirmInv, GrantInv, Idle
  <2> QED
    BY <1>7, <1>11, <2>3 DEF Rank
<1>12. CASE r.step = "updating"
  <2>1. l = r.order /\ l \in Orders /\ lock[Account] = w
    BY <1>2, <1>4, <1>12 DEF Wanted
  <2>2. s.step \notin {"locking", "updating"}
    BY <1>5, <1>6, <1>8, <2>1, LockKinds DEF HeldOn
  <2>3. CASE s.step = "crediting"
    <3>1. s.kind # "grant" /\ s.order = l
      BY <1>5, <1>6, <1>8, <2>1, <2>3, LockKinds DEF HeldOn
    <3>2. Waits(v, w)
      BY <1>1, <2>1, <2>3 DEF Waits, Wanted
    <3> QED
      BY <1>12, <2>1, <2>3, <3>1, <3>2 DEF Collide
  <2>4. CASE s.step = "saving"
    BY <1>12, <2>4 DEF Rank
  <2> QED
    BY <1>7, <2>2, <2>3, <2>4
<1> QED
  BY <1>1, <1>9, <1>10, <1>11, <1>12

\* Sessions wait for sessions that are further on the way from an event over
\* its payment to the account, so they never wait in a circle, but for one
\* case: a grant by hand and a confirmation of the same order, which wait for
\* each other.  Longer circles, which DeadlockVictim does not look for, there
\* are none, however many requests meet.
THEOREM WaitTheorem == Spec => []WaitsGoUp
<1>1. Init => LocksAreOwn
  BY PaymentAssumption DEF Init, LocksAreOwn
<1>2. IInv /\ IInv' /\ LocksAreOwn /\ [Next]_vars => LocksAreOwn'
  <2> SUFFICES ASSUME IInv, IInv', LocksAreOwn, [Next]_vars PROVE LocksAreOwn'
    OBVIOUS
  <2>1. ASSUME UNCHANGED <<lock, request>> PROVE LocksAreOwn'
    BY <2>1 DEF LocksAreOwn, HeldOn, event
  <2>2. ASSUME NEW o \in Orders, Checkout(o) \/ Pay(o) \/ CancelAtProvider(o)
        PROVE  UNCHANGED <<lock, request>>
    BY <2>2 DEF Checkout, Pay, CancelAtProvider
  <2> QED
    BY <2>1, <2>2, StepsOwn DEF Next, Redeploy, vars
<1>3. Spec => []LocksAreOwn
  BY <1>1, <1>2, PaymentInvariant, PTL DEF Spec
<1> QED
  BY <1>3, OwnLocksWaitUp, PaymentInvariant, PTL
=============================================================================
